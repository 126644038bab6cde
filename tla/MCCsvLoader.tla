----------------------------- MODULE MCCsvLoader -----------------------------
(* Instances of CsvLoader for TLC: byte 2 is the one that is not UTF-8. *)
EXTENDS CsvLoader

MCHash(k) == Len(k)              \* many keys share a hash
MCUtf8(v) == 2 \notin ToSet(v)

Keys == {<<>>, <<1>>, <<2>>, <<1, 1>>}
Vals == {<<>>, <<1>>, <<2, 1>>}

\* Every second line of the file belongs to a multi-line value; or a row of one or
\* three columns begins on the line of the row before, which ended in a bare CR.
Rows(i) ==
  [ok : {TRUE}, cols : {2}, key : Keys, val : Vals, line : {2 * i - 1}]
  \cup [ok : {TRUE}, cols : {1, 3}, key : {<<1>>}, val : {<<1>>},
          line : {2 * i - 1} \cup (IF i > 1 THEN {2 * i - 3} ELSE {})]
  \cup [ok : {FALSE}, cols : {2}, key : {<<1>>}, val : {<<1>>}, line : {2 * i - 1}]

MCFiles ==
  {<<>>} \cup {<<a>> : a \in Rows(1)} \cup {<<a, b>> : a \in Rows(1), b \in Rows(2)}
    \cup {<<a, b, c>> : a \in Rows(1), b \in Rows(2), c \in Rows(3)}

\* Every key of at most two bytes, in the file or not.
MCProbe == UNION {[1..n -> Byte] : n \in 0..2}
==============================================================================
