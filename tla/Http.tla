-------------------------------- MODULE Http ---------------------------------
(***************************************************************************)
(* One HTTP request from the client that encodes a key to the response it  *)
(* reads: router (src/src/server/mod.rs), key_from_query, kv_path,         *)
(* kv_query, lookup, health, metrics and stats                             *)
(* (src/src/server/handlers.rs).  A request's text is a sequence of        *)
(* characters, each a byte that stands for itself or its %XX escape.  The  *)
(* query is scanned one parameter a step.  axum is modelled by how the     *)
(* handlers use it: it matches the path, decodes a segment as UTF-8,       *)
(* answers other methods with 405 and strips the body of a HEAD.           *)
(***************************************************************************)
EXTENDS Naturals, SequencesExt

CONSTANTS
  Bytes,         \* the bytes that keys and requests are made of
  Utf8(_),       \* whether a byte string is valid UTF-8
  Requests,      \* what clients send
  Datasets,      \* the stores to consider: functions from keys to values
  Defaults,      \* values of --default-value, NoValue if it is not given
  NoValue, NoKey, NoQuery

Char == [byte : Bytes, pct : BOOLEAN]
Lit(b) == [byte |-> b, pct |-> FALSE]
Pct(b) == [byte |-> b, pct |-> TRUE]

\* A client's two ways to write a key: as one segment of a path, or as the value
\* of a form parameter, where a blank may be '+'.
InSegment(b) == IF b \in {"k", "z", "=", "&", "+"} THEN {Lit(b), Pct(b)} ELSE {Pct(b)}
InForm(b) ==
  IF b = " " THEN {Lit("+"), Pct(b)}
  ELSE IF b \in {"k", "z", "=", "/"} THEN {Lit(b), Pct(b)} ELSE {Pct(b)}
\* The texts that take their characters from a sequence of sets.
Writings(choices) ==
  {w \in [DOMAIN choices -> UNION ToSet(choices)] : \A i \in DOMAIN choices : w[i] \in choices[i]}

\* Whether the text has a parameter k at position i, and its value.
ParameterAt(t, i) ==
  /\ t[i] = Lit("k")
  /\ i = 1 \/ t[i - 1] = Lit("&")
  /\ i = Len(t) \/ t[i + 1] \in {Lit("="), Lit("&")}
ValueAt(t, i, n) ==
  /\ \A j \in i + 2..i + 1 + n : t[j] # Lit("&")
  /\ i + 1 + n >= Len(t) \/ t[i + 2 + n] = Lit("&")

\* A query whose first parameter k has a writing of key as its value.
Asks(t, key) ==
  \E i \in DOMAIN t :
    /\ ParameterAt(t, i) /\ \A j \in 1..i - 1 : ~ParameterAt(t, j)
    /\ i + 1 + Len(key) <= Len(t) /\ t[i + 1] = Lit("=")
    /\ ValueAt(t, i, Len(key))
    /\ \A j \in DOMAIN key : t[i + 1 + j] \in InForm(key[j])

ASSUME RequestsAssumption ==
  \A r \in Requests :
    /\ r.method \in {"GET", "HEAD", "POST"}
    /\ r.route \in {"/kv/", "/kv", "/health", "/metrics", "/stats", "other"}
    /\ r.text \in IF r.route = "/kv/" THEN Seq(Char) ELSE Seq(Char) \cup {NoQuery}
    \* A client that means a key writes it, in one of its ways.
    /\ r.meant # NoKey =>
         /\ r.meant \in Seq(Bytes)
         /\ \/ r.route = "/kv/" /\ r.text \in Writings([i \in DOMAIN r.meant |-> InSegment(r.meant[i])])
            \/ r.route = "/kv" /\ r.text # NoQuery /\ Asks(r.text, r.meant)

\* Keys and values are byte strings, and what stands for their absence is not.
ASSUME ValuesAssumption ==
  /\ " " \in Bytes /\ Utf8(<<>>)
  /\ NoKey \notin Seq(Bytes) /\ NoQuery \notin Seq(Char)
  /\ \A d \in Datasets : \A k \in DOMAIN d : k \in Seq(Bytes) /\ d[k] \in Seq(Bytes)
  /\ Defaults \subseteq Seq(Bytes) \cup {NoValue}

VARIABLES
  dataset, default,
  request, text,    \* what the client sent, and the path segment or query as it arrives
  phase,            \* "sent", "routed", "scan", "lookup", "answered"
  rest,             \* the parameters the scan has not seen
  key,              \* the key the handler looks up
  recorded,         \* what the metrics were told: outcome and length
  response

stateVars == <<dataset, default, request>>
vars == <<stateVars, text, phase, rest, key, recorded, response>>

NoResponse == [status |-> 0, body |-> <<>>, type |-> "", marker |-> FALSE]

Init ==
  /\ dataset \in Datasets /\ default \in Defaults
  /\ request \in Requests /\ text = request.text
  /\ phase = "sent" /\ rest = <<>> /\ key = NoKey
  /\ recorded = {} /\ response = NoResponse

\* On the way a proxy may replace escapes in the path by what they stand for,
\* '/' included (src/README.md:64).  It leaves queries alone.
Forward ==
  /\ phase = "sent" /\ phase' = "routed"
  /\ text' \in {text} \cup
       IF request.route = "/kv/"
       THEN {[i \in DOMAIN text |-> IF text[i].byte \in {"/", "k", "z", "+"} THEN Lit(text[i].byte)
                                    ELSE text[i]]}
       ELSE {}
  /\ UNCHANGED <<stateVars, rest, key, recorded, response>>

\* axum sends the response; what a HEAD gets has no body.
Respond(status, body, type, marker) ==
  /\ phase' = "answered"
  /\ response' = [status |-> status, type |-> type, marker |-> marker,
                  body |-> IF request.method = "HEAD" THEN <<>> ELSE body]
  /\ UNCHANGED <<stateVars, text>>

Routable ==
  /\ request.route # "other"
  /\ request.route = "/kv/" => text # <<>> /\ Lit("/") \notin ToSet(text)
Routed(route) == phase = "routed" /\ Routable /\ request.method # "POST" /\ request.route = route

NoRoute ==
  /\ phase = "routed" /\ ~Routable
  /\ Respond(404, <<>>, "", FALSE)
  /\ UNCHANGED <<rest, key, recorded>>

NoMethod ==
  /\ phase = "routed" /\ Routable /\ request.method = "POST"
  /\ Respond(405, <<>>, "", FALSE)
  /\ UNCHANGED <<rest, key, recorded>>

\* health, metrics and stats answer whatever the store holds.
Fixed ==
  /\ \E route \in {"/health", "/metrics", "/stats"} :
       Routed(route) /\ Respond(200, <<route>>, "text", FALSE)
  /\ UNCHANGED <<rest, key, recorded>>

Percent(t) == [i \in DOMAIN t |-> t[i].byte]

BadSegment ==
  /\ Routed("/kv/") /\ ~Utf8(Percent(text))
  /\ Respond(400, <<"text">>, "text", FALSE)
  /\ UNCHANGED <<rest, key, recorded>>

KvPath ==
  /\ Routed("/kv/") /\ Utf8(Percent(text))
  /\ key' = Percent(text) /\ phase' = "lookup"
  /\ UNCHANGED <<stateVars, text, rest, recorded, response>>

------------------------------------------------------------------------------
(* key_from_query                                                           *)

\* What comes before the first c of a text, and what comes after it.
At(t, c) == SelectInSeq(t, LAMBDA x : x = Lit(c))
Before(t, c) == IF At(t, c) = 0 THEN t ELSE SubSeq(t, 1, At(t, c) - 1)
After(t, c) == IF At(t, c) = 0 THEN <<>> ELSE SubSeq(t, At(t, c) + 1, Len(t))

pair == Before(rest, "&")
\* Mutant: names are percent-decoded before they are compared.
NameDecoded == [i \in DOMAIN Before(pair, "=") |-> Lit(Before(pair, "=")[i].byte)]
Name == Before(pair, "=")

\* Mutant: '+' becomes a blank after the escapes are decoded.
PercentThenPlus(t) == [i \in DOMAIN t |-> IF t[i].byte = "+" THEN " " ELSE t[i].byte]
PlusThenPercent(t) == [i \in DOMAIN t |-> IF t[i] = Lit("+") THEN " " ELSE t[i].byte]

KvQuery ==
  /\ Routed("/kv") /\ text # NoQuery
  /\ phase' = "scan" /\ rest' = text
  /\ UNCHANGED <<stateVars, text, key, recorded, response>>

\* Mutant: an empty value is taken for no key, and looked up nevertheless.
TakeParameterUnset ==
  /\ phase = "scan" /\ Name = <<Lit("k")>>
  /\ key' = IF After(pair, "=") = <<>> THEN NoKey ELSE PlusThenPercent(After(pair, "="))
  /\ phase' = "lookup"
  /\ UNCHANGED <<stateVars, text, rest, recorded, response>>

TakeParameter ==
  /\ phase = "scan" /\ Name = <<Lit("k")>>
  /\ key' = PlusThenPercent(After(pair, "=")) /\ phase' = "lookup"
  /\ UNCHANGED <<stateVars, text, rest, recorded, response>>

SkipParameter ==
  /\ phase = "scan" /\ Name # <<Lit("k")>> /\ At(rest, "&") # 0
  /\ rest' = After(rest, "&")
  /\ UNCHANGED <<stateVars, text, phase, key, recorded, response>>

NoParameter ==
  /\ \/ phase = "scan" /\ Name # <<Lit("k")>> /\ At(rest, "&") = 0
     \/ Routed("/kv") /\ text = NoQuery
  /\ Respond(400, <<"text">>, "", FALSE)
  /\ UNCHANGED <<rest, key, recorded>>

------------------------------------------------------------------------------
(* lookup                                                                   *)

\* Mutant: a HEAD is recorded with the body that it does not get.
RecordBody(outcome, body) == recorded' = {[outcome |-> outcome, len |-> Len(body)]}

Record(outcome, body) ==
  recorded' = {[outcome |-> outcome, len |-> IF request.method = "HEAD" THEN 0 ELSE Len(body)]}

Hit ==
  /\ phase = "lookup" /\ key \in DOMAIN dataset
  /\ Record("Hit", dataset[key])
  /\ Respond(200, dataset[key], "configured", FALSE)
  /\ UNCHANGED <<rest, key>>

Substitute ==
  /\ phase = "lookup" /\ key \notin DOMAIN dataset /\ default # NoValue
  /\ Record("Default", default)
  /\ Respond(200, default, "configured", TRUE)
  /\ UNCHANGED <<rest, key>>

Miss ==
  /\ phase = "lookup" /\ key \notin DOMAIN dataset /\ default = NoValue
  /\ Record("Miss", <<>>)
  /\ Respond(404, <<>>, "", FALSE)
  /\ UNCHANGED <<rest, key>>

Next ==
  \/ Forward \/ NoRoute \/ NoMethod \/ Fixed
  \/ BadSegment \/ KvPath
  \/ KvQuery \/ TakeParameter \/ SkipParameter \/ NoParameter
  \/ Hit \/ Substitute \/ Miss

Spec == Init /\ [][Next]_vars
------------------------------------------------------------------------------
(* Properties *)

\* Types of a request on its way; what is looked up is a byte string.
HttpTypeOK ==
  /\ phase \in {"sent", "routed", "scan", "lookup", "answered"}
  /\ text \in Seq(Char) \cup {NoQuery} /\ rest \in Seq(Char)
  /\ key \in IF phase = "lookup" THEN Seq(Bytes) ELSE Seq(Bytes) \cup {NoKey}
  /\ \A r \in recorded : r.outcome \in {"Hit", "Default", "Miss"} /\ r.len \in Nat
  /\ response.status \in {0, 200, 400, 404, 405}

Answered(method) == phase = "answered" /\ request.method = method

\* What a client makes of a response, and what the store holds.
Seen == IF response.status = 200 /\ ~response.marker THEN response.body ELSE NoValue
Stored(k) == IF k \in DOMAIN dataset THEN dataset[k] ELSE NoValue

\* A key written for the form of the request it is sent in gets its own value
\* and never another key's, '+', blanks, separators, bytes that are not UTF-8 and
\* values like the default's or empty ones included.  The query form, "Escape
\* hatch for keys containing `/` or awkward bytes" (src/README.md:59), serves every
\* key and through any proxy; the path form serves the keys that are not empty,
\* are UTF-8 and, if a proxy decodes it, have no '/'.
ReachesTheKeyMeant ==
  Answered("GET") /\ request.meant # NoKey =>
    CASE request.route = "/kv/" /\ (request.meant = <<>> \/ Lit("/") \in ToSet(text)) ->
           response.status = 404 /\ recorded = {}
      [] request.route = "/kv/" /\ Lit("/") \notin ToSet(text) /\ ~Utf8(request.meant) ->
           response.status = 400 /\ recorded = {}
      [] OTHER -> recorded # {} /\ Seen = Stored(request.meant)

\* Of any query at all the handler looks up the first parameter named k, `k` and
\* `k=` being the empty key, and refuses it exactly if there is none: "No `k` at
\* all is a malformed request, distinct from `k=` (empty key)" (handlers.rs:48).
FindsTheFirstK ==
  phase = "answered" /\ request.route = "/kv" /\ request.method # "POST" /\ text # NoQuery =>
    LET ks == {i \in DOMAIN text : ParameterAt(text, i)} IN
    /\ response.status = 400 <=> ks = {}
    /\ ks # {} => \E i \in ks :
         /\ \A j \in ks : i <= j
         /\ i = Len(text) \/ text[i + 1] = Lit("&") => key = <<>>
         /\ i < Len(text) /\ text[i + 1] = Lit("=") => ValueAt(text, i, Len(key))

\* What the client sees, what the metrics are told and what the store holds say
\* the same: status and marker tell a stored value from a substitute and from a
\* miss, on a HEAD as on a GET and whatever the values are (handlers.rs:82), and the
\* length recorded is what the client receives (handlers.rs:68).  Requests that
\* looked nothing up are not counted.
AnswerMatchesMetrics ==
  phase = "answered" =>
    /\ recorded # {} <=> key # NoKey
    /\ \A r \in recorded :
         /\ r.outcome = "Hit" <=> key \in DOMAIN dataset
         /\ r.outcome = "Hit" <=> response.status = 200 /\ ~response.marker
         /\ r.outcome = "Default" <=> response.marker
         /\ r.outcome = "Miss" <=> response.status = 404
         /\ r.len = Len(response.body)
==============================================================================
