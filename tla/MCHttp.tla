-------------------------------- MODULE MCHttp -------------------------------
(* Instances of Http for TLC: byte "xff" is the one that is not UTF-8. *)
EXTENDS Http

MCUtf8(s) == "xff" \notin ToSet(s)

Keys == UNION {[1..n -> Bytes] : n \in 0..2}

Lits(bs) == [i \in DOMAIN bs |-> Lit(bs[i])]
\* Parameters around the one that is meant: other names, empty ones, a second k.
Ahead == {<<>>, <<"z", "=", "k", "&">>, <<"&">>, <<"k", "k", "=", "&">>, <<"=", "k", "&">>}
Behind == {<<>>, <<"&", "k", "=", "z">>, <<"&">>}

Request(m, r, t, k) == [method |-> m, route |-> r, text |-> t, meant |-> k]

Meant ==
  UNION {{Request(m, "/kv/", w, k) :
            m \in {"GET", "HEAD"}, w \in Writings([i \in DOMAIN k |-> InSegment(k[i])])} : k \in Keys}
  \cup
  UNION {{Request("GET", "/kv", Lits(a \o <<"k", "=">>) \o w \o Lits(b), k) :
            a \in Ahead, b \in Behind, w \in Writings([i \in DOMAIN k |-> InForm(k[i])])} : k \in Keys}

\* Any short text at all.
AnyText ==
  {Request(m, "/kv", t, NoKey) : m \in {"GET", "HEAD"},
     t \in UNION {[1..n -> {Lit("k"), Lit("="), Lit("&"), Lit("+"), Pct("k")}] : n \in 0..4}}
  \cup {Request(m, r, <<>>, NoKey) :
          m \in {"GET", "HEAD", "POST"}, r \in {"/kv/", "/kv", "/health", "/metrics", "/stats", "other"}}
  \cup {Request(m, "/kv", NoQuery, NoKey) : m \in {"GET", "HEAD", "POST"}}

MCRequests == Meant \cup AnyText

\* Nothing; every key with itself as its value, which is empty or like the
\* default for some; single awkward bytes with the empty value.
MCDatasets == {[k \in Ks |-> k] : Ks \in {{}, Keys}} \cup {[k \in {<<"+">>, <<"/">>, <<"k">>} |-> <<>>]}
MCDefaults == {NoValue, <<>>, <<"z">>}
==============================================================================
