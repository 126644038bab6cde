------------------------------ MODULE HttpProofs -----------------------------
(* Proofs about Http: whatever clients send, in however long texts, and       *)
(* whatever the store holds, the key looked up is the one that was meant and  *)
(* the client and the metrics learn the same.                                 *)
EXTENDS Http, FiniteSums, SequenceTheorems, TLAPS

\* The text is what was sent; a proxy may have undone escapes of a path.
TextIsTheirs ==
  /\ dataset \in Datasets /\ default \in Defaults /\ request \in Requests
  /\ request.route # "/kv/" => text = request.text
  /\ request.route = "/kv/" =>
       /\ text \in Seq(Char) /\ Len(text) = Len(request.text)
       /\ \A i \in 1..Len(text) : text[i].byte = request.text[i].byte

\* What is left of a text when its first p characters are gone.
SuffixOf(t, p, s) ==
  /\ Len(t) = p + Len(s)
  /\ \A j \in 1..Len(s) : s[j] = t[p + j]

\* The scan is at the start of a parameter, and no k came before.
Scanning ==
  phase = "scan" =>
    /\ request.route = "/kv" /\ request.method # "POST" /\ text # NoQuery
    /\ \E p \in Nat :
         /\ SuffixOf(text, p, rest)
         /\ p = 0 \/ text[p] = Lit("&")
         /\ \A i \in 1..p : ~ParameterAt(text, i)

\* v is the value of the parameter at i.
HasValue(t, i, v) ==
  \/ i = Len(t) /\ v = <<>>
  \/ i < Len(t) /\ t[i + 1] = Lit("&") /\ v = <<>>
  \/ /\ i < Len(t) /\ t[i + 1] = Lit("=")
     /\ i + 1 + Len(v) <= Len(t) /\ ValueAt(t, i, Len(v))
     /\ \A j \in 1..Len(v) : v[j] = t[i + 1 + j]

\* Where the key came from.
FromPath ==
  request.route = "/kv/" /\ Routable /\ Utf8(Percent(text)) /\ key = Percent(text)
FromQuery ==
  /\ request.route = "/kv" /\ text # NoQuery
  /\ \E i \in DOMAIN text, v \in Seq(Char) :
       /\ ParameterAt(text, i) /\ \A j \in 1..i - 1 : ~ParameterAt(text, j)
       /\ HasValue(text, i, v) /\ key = PlusThenPercent(v)
KeyIsTheirs ==
  /\ key # NoKey => request.method # "POST" /\ (FromPath \/ FromQuery)
  /\ phase \in {"sent", "routed", "scan"} => key = NoKey

\* The three answers to a lookup, and all the others.
Reply(status, body, marker) ==
  /\ response.status = status /\ response.marker = marker
  /\ response.body = IF request.method = "HEAD" THEN <<>> ELSE body
Told(outcome) == recorded = {[outcome |-> outcome, len |-> Len(response.body)]}
LookedUp ==
  /\ key # NoKey
  /\ \/ key \in DOMAIN dataset /\ Told("Hit") /\ Reply(200, dataset[key], FALSE)
     \/ /\ key \notin DOMAIN dataset /\ default # NoValue
        /\ Told("Default") /\ Reply(200, default, TRUE)
     \/ key \notin DOMAIN dataset /\ Told("Miss") /\ Reply(404, <<>>, FALSE)
NotLookedUp ==
  /\ key = NoKey /\ recorded = {} /\ ~response.marker
  /\ \/ response.status = 404 /\ ~Routable
     \/ response.status = 405 /\ request.method = "POST"
     \/ response.status = 200 /\ request.route \notin {"/kv/", "/kv"}
     \/ /\ response.status = 400 /\ request.route = "/kv/"
        /\ Routable /\ ~Utf8(Percent(text))
     \/ /\ response.status = 400 /\ request.route = "/kv"
        /\ text = NoQuery \/ \A i \in DOMAIN text : ~ParameterAt(text, i)
AnswerIsTheirs ==
  /\ phase # "answered" => recorded = {} /\ response.status = 0
  /\ phase = "answered" => LookedUp \/ NotLookedUp

HttpIInv == HttpTypeOK /\ TextIsTheirs /\ Scanning /\ KeyIsTheirs /\ AnswerIsTheirs

------------------------------------------------------------------------------
(* The two halves of a text *)

\* At finds the first c, if there is one.
LEMMA AtFinds ==
  ASSUME NEW t \in Seq(Char), NEW c
  PROVE  /\ At(t, c) \in 0..Len(t)
         /\ At(t, c) = 0 => \A i \in 1..Len(t) : t[i] # Lit(c)
         /\ At(t, c) # 0 =>
              t[At(t, c)] = Lit(c) /\ \A i \in 1..At(t, c) - 1 : t[i] # Lit(c)
<1> DEFINE I == {i \in 1..Len(t) : t[i] = Lit(c)}
<1>1. At(t, c) = IF I # {} THEN Min(I) ELSE 0
  BY DEF At, SelectInSeq
<1>2. Len(t) \in Nat
  OBVIOUS
<1>3. CASE I = {}
  BY <1>1, <1>2, <1>3
<1>4. CASE I # {}
  <2>1. I \subseteq Nat
    OBVIOUS
  <2>2. Min(I) \in I /\ \A x \in I : Min(I) <= x
    BY <1>4, <2>1, MinOfNats
  <2> DEFINE m == Min(I)
  <2>3. At(t, c) = m /\ m \in 1..Len(t) /\ t[m] = Lit(c)
    BY <1>1, <1>4, <2>2
  <2>4. \A i \in 1..Len(t) : t[i] = Lit(c) => m <= i
    BY <2>2
  <2> HIDE DEF m
  <2>5. \A i \in 1..m - 1 : t[i] # Lit(c)
    BY <1>2, <2>3, <2>4
  <2> QED
    BY <1>2, <2>3, <2>5
<1> QED
  BY <1>3, <1>4

\* What comes before the first c is a text without c.
LEMMA BeforeIs ==
  ASSUME NEW t \in Seq(Char), NEW c
  PROVE  /\ Before(t, c) \in Seq(Char)
         /\ Len(Before(t, c)) = IF At(t, c) = 0 THEN Len(t) ELSE At(t, c) - 1
         /\ \A i \in 1..Len(Before(t, c)) : Before(t, c)[i] = t[i] /\ t[i] # Lit(c)
<1> DEFINE a == At(t, c)
<1>1. /\ a \in 0..Len(t) /\ Len(t) \in Nat
      /\ a = 0 => \A i \in 1..Len(t) : t[i] # Lit(c)
      /\ a # 0 => t[a] = Lit(c) /\ \A i \in 1..a - 1 : t[i] # Lit(c)
  BY AtFinds
<1>2. Before(t, c) = IF a = 0 THEN t ELSE SubSeq(t, 1, a - 1)
  BY DEF Before
<1> HIDE DEF a
<1>3. CASE a = 0
  BY <1>1, <1>2, <1>3 DEF a
<1>4. CASE a # 0
  <2> DEFINE s == SubSeq(t, 1, a - 1)
  <2>1. 1 \in Int /\ a - 1 \in Int /\ \A i \in 1..a - 1 : t[i] \in Char
    BY <1>1, <1>4, ElementOfSeq
  <2>2. /\ s \in Seq(Char) /\ Len(s) = IF 1 <= a - 1 THEN (a - 1) - 1 + 1 ELSE 0
        /\ \A i \in 1..(a - 1) - 1 + 1 : s[i] = t[1 + i - 1]
    BY <2>1, SubSeqProperties
  <2>3. Before(t, c) = s
    BY <1>2, <1>4
  <2> HIDE DEF s
  <2>4. Len(s) = a - 1 /\ \A i \in 1..a - 1 : s[i] = t[i]
    BY <1>1, <1>4, <2>2
  <2> QED
    BY <1>1, <1>4, <2>2, <2>3, <2>4 DEF a
<1> QED
  BY <1>3, <1>4

\* What comes after the first c is the rest of the text.
LEMMA AfterIs ==
  ASSUME NEW t \in Seq(Char), NEW c
  PROVE  /\ After(t, c) \in Seq(Char)
         /\ At(t, c) = 0 => After(t, c) = <<>>
         /\ At(t, c) # 0 => SuffixOf(t, At(t, c), After(t, c))
<1> DEFINE a == At(t, c)
<1>1. a \in 0..Len(t) /\ Len(t) \in Nat
  BY AtFinds
<1>2. After(t, c) = IF a = 0 THEN <<>> ELSE SubSeq(t, a + 1, Len(t))
  BY DEF After
<1> HIDE DEF a
<1>3. CASE a = 0
  BY <1>2, <1>3 DEF a
<1>4. CASE a # 0
  <2> DEFINE s == SubSeq(t, a + 1, Len(t))
  <2>1. a + 1 \in Int /\ Len(t) \in Int /\ \A i \in a + 1..Len(t) : t[i] \in Char
    BY <1>1, <1>4, ElementOfSeq
  <2>2. /\ s \in Seq(Char) /\ Len(s) = IF a + 1 <= Len(t) THEN Len(t) - (a + 1) + 1 ELSE 0
        /\ \A i \in 1..Len(t) - (a + 1) + 1 : s[i] = t[(a + 1) + i - 1]
    BY <2>1, SubSeqProperties
  <2>3. After(t, c) = s
    BY <1>2, <1>4
  <2> HIDE DEF s
  <2>4. Len(t) = a + Len(s) /\ \A i \in 1..Len(s) : s[i] = t[a + i]
    BY <1>1, <1>4, <2>2
  <2> QED
    BY <1>1, <1>4, <2>2, <2>3, <2>4 DEF a, SuffixOf
<1> QED
  BY <1>3, <1>4

LEMMA DistinctLits ==
  Lit("k") # Lit("&") /\ Lit("k") # Lit("=") /\ Lit("=") # Lit("&")
BY DEF Lit

------------------------------------------------------------------------------
(* A parameter of the scan *)

\* What is left of what is left.
LEMMA SuffixOfSuffix ==
  ASSUME NEW t \in Seq(Char), NEW s \in Seq(Char), NEW u \in Seq(Char),
         NEW p \in Nat, NEW a \in Nat, SuffixOf(t, p, s), SuffixOf(s, a, u)
  PROVE  SuffixOf(t, p + a, u)
<1>1. Len(t) \in Nat /\ Len(s) \in Nat /\ Len(u) \in Nat
  OBVIOUS
<1>2. Len(t) = (p + a) + Len(u)
  BY <1>1 DEF SuffixOf
<1>3. ASSUME NEW j \in 1..Len(u) PROVE u[j] = t[(p + a) + j]
  <2>1. u[j] = s[a + j] /\ a + j \in 1..Len(s)
    BY <1>1, <1>3 DEF SuffixOf
  <2>2. s[a + j] = t[p + (a + j)]
    BY <2>1 DEF SuffixOf
  <2>3. p + (a + j) = (p + a) + j
    BY <1>3
  <2> QED
    BY <2>1, <2>2, <2>3
<1> QED
  BY <1>2, <1>3 DEF SuffixOf

\* The first parameter of rest ends before its first '&', at m, and its name before
\* the first '=' of that, at e.
LEMMA ParameterParts ==
  ASSUME rest \in Seq(Char)
  PROVE  \E m \in 0..Len(rest), e \in 0..Len(rest) :
           /\ At(rest, "&") = 0 => m = Len(rest)
           /\ At(rest, "&") # 0 => At(rest, "&") = m + 1 /\ m < Len(rest) /\ rest[m + 1] = Lit("&")
           /\ \A i \in 1..m : rest[i] # Lit("&")
           /\ e <= m
           /\ Name \in Seq(Char) /\ Len(Name) = IF e = 0 THEN m ELSE e - 1
           /\ \A i \in 1..Len(Name) : Name[i] = rest[i] /\ rest[i] # Lit("=")
           /\ e # 0 => rest[e] = Lit("=")
           /\ After(pair, "=") \in Seq(Char)
           /\ e = 0 => After(pair, "=") = <<>>
           /\ e # 0 => Len(After(pair, "=")) = m - e
           /\ e # 0 => \A j \in 1..m - e : After(pair, "=")[j] = rest[e + j]
<1> DEFINE a == At(rest, "&")
           q == pair
           e == At(q, "=")
           v == After(q, "=")
<1>1. /\ a \in 0..Len(rest) /\ Len(rest) \in Nat
      /\ a # 0 => rest[a] = Lit("&")
  BY AtFinds
<1>2. /\ q \in Seq(Char) /\ Len(q) = IF a = 0 THEN Len(rest) ELSE a - 1
      /\ \A i \in 1..Len(q) : q[i] = rest[i] /\ rest[i] # Lit("&")
  BY BeforeIs DEF pair
<1> HIDE DEF q, a
<1>3. e \in 0..Len(q) /\ (e # 0 => q[e] = Lit("="))
  BY <1>2, AtFinds
<1>4. /\ Name \in Seq(Char) /\ Len(Name) = IF e = 0 THEN Len(q) ELSE e - 1
      /\ \A i \in 1..Len(Name) : Name[i] = q[i] /\ q[i] # Lit("=")
  BY <1>2, BeforeIs DEF Name, q
<1>5. /\ v \in Seq(Char) /\ (e = 0 => v = <<>>)
      /\ e # 0 => SuffixOf(q, e, v)
  BY <1>2, AfterIs
<1> HIDE DEF e, v
<1>6. Len(q) \in 0..Len(rest) /\ Len(v) \in Nat /\ Len(Name) \in Nat /\ e \in 0..Len(rest)
  BY <1>1, <1>2, <1>3, <1>4, <1>5
<1>7. \A i \in 1..Len(Name) : Name[i] = rest[i] /\ rest[i] # Lit("=")
  BY <1>2, <1>3, <1>4, <1>6
<1>8. e # 0 => rest[e] = Lit("=") /\ Len(v) = Len(q) - e
  <2> SUFFICES ASSUME e # 0 PROVE rest[e] = Lit("=") /\ Len(v) = Len(q) - e
    OBVIOUS
  <2>1. e \in 1..Len(q) /\ q[e] = Lit("=")
    BY <1>3, <1>6
  <2>2. rest[e] = Lit("=")
    BY <1>2, <2>1
  <2>3. Len(q) = e + Len(v)
    BY <1>5 DEF SuffixOf
  <2> QED
    BY <1>6, <2>2, <2>3
<1>9. e # 0 => \A j \in 1..Len(q) - e : v[j] = rest[e + j]
  <2> SUFFICES ASSUME e # 0, NEW j \in 1..Len(q) - e PROVE v[j] = rest[e + j]
    OBVIOUS
  <2>1. v[j] = q[e + j]
    BY <1>5, <1>8 DEF SuffixOf
  <2>2. e + j \in 1..Len(q)
    BY <1>3, <1>6
  <2> QED
    BY <1>2, <2>1, <2>2
<1>10. /\ a = 0 => Len(q) = Len(rest)
       /\ a # 0 => a = Len(q) + 1 /\ Len(q) < Len(rest) /\ rest[Len(q) + 1] = Lit("&")
       /\ e <= Len(q)
  BY <1>1, <1>2, <1>3, <1>6
<1>11. q = pair /\ v = After(pair, "=") /\ a = At(rest, "&")
  BY DEF q, v, a
<1> USE <1>6
<1> WITNESS Len(q) \in 0..Len(rest), e \in 0..Len(rest)
<1> QED
  BY <1>2, <1>4, <1>5, <1>7, <1>8, <1>9, <1>10, <1>11

\* A parameter is called k in the scan exactly if it is one in the text, and its
\* value is the one it has there.
LEMMA NamedK ==
  ASSUME NEW t \in Seq(Char), NEW p \in Nat, rest \in Seq(Char),
         SuffixOf(t, p, rest), p = 0 \/ t[p] = Lit("&")
  PROVE  /\ Name = <<Lit("k")>> =>
              /\ p + 1 \in DOMAIN t /\ ParameterAt(t, p + 1)
              /\ After(pair, "=") \in Seq(Char) /\ HasValue(t, p + 1, After(pair, "="))
         /\ Name # <<Lit("k")>> =>
              ~(p + 1 \in DOMAIN t /\ ParameterAt(t, p + 1))
<1> DEFINE n == Name
           v == After(pair, "=")
           k == Lit("k")
           amp == Lit("&")
           eq == Lit("=")
           L == Len(rest)
<1>0. k # amp /\ k # eq /\ eq # amp
  BY DistinctLits
<1>1. PICK m \in 0..L, e \in 0..L :
           /\ At(rest, "&") = 0 => m = L
           /\ At(rest, "&") # 0 => At(rest, "&") = m + 1 /\ m < L /\ rest[m + 1] = amp
           /\ \A i \in 1..m : rest[i] # amp
           /\ e <= m
           /\ n \in Seq(Char) /\ Len(n) = IF e = 0 THEN m ELSE e - 1
           /\ \A i \in 1..Len(n) : n[i] = rest[i] /\ rest[i] # eq
           /\ e # 0 => rest[e] = eq
           /\ v \in Seq(Char)
           /\ e = 0 => v = <<>>
           /\ e # 0 => Len(v) = m - e
           /\ e # 0 => \A j \in 1..m - e : v[j] = rest[e + j]
  BY ParameterParts
<1>2. L \in Nat /\ Len(t) = p + L /\ DOMAIN t = 1..Len(t)
      /\ \A j \in 1..L : rest[j] = t[p + j]
  BY DEF SuffixOf
<1>3. n = <<k>> <=> Len(n) = 1 /\ n[1] = k
  <2>1. Len(n) = 1 /\ n[1] = k => n = <<k>>
    BY <1>1
  <2> QED
    BY <2>1
<1>4. m = L \/ (m < L /\ rest[m + 1] = amp)
  BY <1>1
<1> HIDE DEF n, v, k, amp, eq, L
<1>7. m \in Nat /\ e \in Nat /\ L \in Nat /\ e <= m /\ m <= L
  BY <1>1, <1>2
<1>8. Len(n) = (IF e = 0 THEN m ELSE e - 1)
  BY <1>1
<1>9. \A i \in 1..Len(n) : n[i] = rest[i] /\ rest[i] # eq
  BY <1>1
<1>10. \A i \in 1..m : rest[i] # amp
  BY <1>1
<1>5. ASSUME n = <<k>>
      PROVE  /\ p + 1 \in DOMAIN t /\ ParameterAt(t, p + 1)
             /\ v \in Seq(Char) /\ HasValue(t, p + 1, v)
  <2>1. Len(n) = 1 /\ n[1] = k
    BY <1>3, <1>5
  <2>2. 1 \in 1..L /\ rest[1] = k /\ t[p + 1] = k
    <3>1. 1 \in 1..L
      BY <1>7, <1>8, <2>1
    <3>2. rest[1] = k
      BY <1>9, <2>1
    <3> QED
      BY <1>2, <3>1, <3>2
  <2>3. p + 1 \in DOMAIN t
    BY <1>2, <2>2
  <2>4. CASE e = 0
    <3>1. m = 1 /\ v = <<>>
      BY <1>1, <2>1, <2>4
    <3>2. p + 1 = Len(t) \/ (p + 1 < Len(t) /\ t[p + 2] = amp)
      BY <1>2, <1>4, <3>1
    <3>3. (p + 1) + 1 = p + 2 /\ (p + 1) - 1 = p
      OBVIOUS
    <3>4. ParameterAt(t, p + 1)
      BY <2>2, <3>2, <3>3 DEF ParameterAt, k, amp
    <3>5. HasValue(t, p + 1, v)
      BY <3>1, <3>2, <3>3 DEF HasValue, amp
    <3> QED
      BY <1>1, <2>3, <3>4, <3>5
  <2>5. CASE e # 0
    <3>1. e = 2 /\ m >= 2 /\ m <= L /\ rest[2] = eq
      <4>1. e = 2
        <5>1. e - 1 = 1
          BY <1>8, <2>1, <2>5
        <5>2. e \in Nat
          BY <1>7
        <5> QED
          BY <5>1, <5>2
      <4>2. rest[e] = eq
        BY <1>1, <2>5
      <4> QED
        BY <1>7, <4>1, <4>2
    <3>2. t[p + 2] = eq /\ p + 1 < Len(t)
      BY <1>2, <3>1
    <3>3. (p + 1) + 1 = p + 2 /\ (p + 1) - 1 = p
      OBVIOUS
    <3>4. ParameterAt(t, p + 1)
      BY <2>2, <3>2, <3>3 DEF ParameterAt, k, eq
    <3>5. Len(v) = m - 2 /\ \A j \in 1..m - 2 : v[j] = rest[2 + j]
      BY <1>1, <3>1
    <3>6. (p + 1) + 1 + Len(v) <= Len(t)
      BY <1>2, <3>1, <3>5
    <3>7. ASSUME NEW j \in 1..Len(v) PROVE v[j] = t[(p + 1) + 1 + j]
      <4>1. v[j] = rest[2 + j] /\ 2 + j \in 1..L
        <5>1. j \in 1..m - 2
          BY <3>5, <3>7
        <5> QED
          BY <1>7, <3>1, <3>5, <5>1
      <4>2. rest[2 + j] = t[p + (2 + j)] /\ p + (2 + j) = (p + 1) + 1 + j
        BY <1>2, <4>1
      <4> QED
        BY <4>1, <4>2
    <3>8. ValueAt(t, p + 1, Len(v))
      <4>1. ASSUME NEW j \in (p + 1) + 2..(p + 1) + 1 + Len(v) PROVE t[j] # amp
        <5>1. j - p \in 1..m /\ j = p + (j - p)
          BY <3>1, <3>5, <4>1
        <5>2. rest[j - p] # amp /\ rest[j - p] = t[p + (j - p)]
          <6> DEFINE i == j - p
          <6>1. i \in 1..m /\ i \in 1..L
            BY <1>7, <5>1
          <6> HIDE DEF i
          <6>2. rest[i] # amp /\ rest[i] = t[p + i]
            BY <1>2, <1>10, <6>1
          <6> QED
            BY <6>2 DEF i
        <5> QED
          BY <5>1, <5>2
      <4>2. (p + 1) + 1 + Len(v) = p + m /\ (p + 1) + 2 + Len(v) = p + (m + 1)
        BY <1>7, <3>1, <3>5
      <4>3. CASE m = L
        BY <1>2, <4>1, <4>2, <4>3 DEF ValueAt, amp
      <4>4. CASE m < L /\ rest[m + 1] = amp
        <5>1. t[p + (m + 1)] = amp
          BY <1>2, <3>1, <4>4
        <5> QED
          BY <4>1, <4>2, <5>1 DEF ValueAt, amp
      <4> QED
        BY <1>4, <4>3, <4>4
    <3>9. HasValue(t, p + 1, v)
      BY <3>2, <3>3, <3>6, <3>7, <3>8 DEF HasValue, eq
    <3> QED
      BY <1>1, <2>3, <3>4, <3>9
  <2> QED
    BY <2>4, <2>5
<1>6. ASSUME p + 1 \in DOMAIN t, ParameterAt(t, p + 1)
      PROVE  n = <<k>>
  <2>1. 1 \in 1..L /\ t[p + 1] = k /\ rest[1] = k
    BY <1>2, <1>6 DEF ParameterAt, k
  <2>2. p + 1 = Len(t) \/ (p + 1 < Len(t) /\ t[p + 2] \in {eq, amp})
    <3>1. (p + 1) + 1 = p + 2
      OBVIOUS
    <3>2. p + 1 = Len(t) \/ t[p + 2] \in {eq, amp}
      BY <1>6, <3>1 DEF ParameterAt, eq, amp
    <3> QED
      BY <1>2, <1>6, <3>2
  <2>3. L = 1 \/ (L >= 2 /\ rest[2] \in {eq, amp})
    BY <1>2, <2>1, <2>2
  <2>4. m >= 1
    BY <1>0, <1>1, <1>4, <2>1
  <2>5. e # 1
    BY <1>0, <1>1, <2>1
  <2>6. Len(n) >= 1 /\ n[1] = k
    BY <1>1, <2>1, <2>4, <2>5
  <2>7. Len(n) <= 1
    <3>1. SUFFICES ASSUME Len(n) >= 2 PROVE FALSE
      BY <1>1
    <3>2. m >= 2 /\ 2 \in 1..Len(n) /\ rest[2] # eq /\ rest[2] # amp
      BY <1>1, <3>1
    <3> QED
      BY <2>3, <3>2
  <2> QED
    BY <1>1, <1>3, <2>6, <2>7
<1> QED
  BY <1>5, <1>6 DEF n, v, k

\* Skipping a parameter leads to the start of the next one; there was no k.
LEMMA Skipped ==
  ASSUME NEW t \in Seq(Char), NEW p \in Nat, rest \in Seq(Char),
         SuffixOf(t, p, rest), p = 0 \/ t[p] = Lit("&"),
         \A i \in 1..p : ~ParameterAt(t, i), Name # <<Lit("k")>>
  PROVE  /\ At(rest, "&") # 0 =>
              \E q \in Nat :
                /\ SuffixOf(t, q, After(rest, "&")) /\ t[q] = Lit("&")
                /\ \A i \in 1..q : ~ParameterAt(t, i)
         /\ At(rest, "&") = 0 => \A i \in DOMAIN t : ~ParameterAt(t, i)
<1> DEFINE a == At(rest, "&")
           L == Len(rest)
           amp == Lit("&")
<1>1. /\ a \in 0..L /\ L \in Nat
      /\ a = 0 => \A i \in 1..L : rest[i] # amp
      /\ a # 0 => rest[a] = amp /\ \A i \in 1..a - 1 : rest[i] # amp
  BY AtFinds
<1>2. Len(t) = p + L /\ Len(t) \in Nat /\ DOMAIN t = 1..Len(t) /\ \A j \in 1..L : rest[j] = t[p + j]
  BY DEF SuffixOf
<1>3. ~(p + 1 \in DOMAIN t /\ ParameterAt(t, p + 1))
  BY NamedK
<1>4. amp # Lit("k")
  BY DistinctLits
<1> HIDE DEF a, L, amp
<1> DEFINE last == IF a = 0 THEN L ELSE a
<1>5. last \in 0..L
  BY <1>1
<1>6. \A i \in 1..last - 1 : rest[i] # amp
  BY <1>1
<1> HIDE DEF last
<1>7. ASSUME NEW i \in 1..p + last PROVE ~ParameterAt(t, i)
  <2>1. i \in Nat /\ last \in Nat /\ i <= p + last /\ i >= 1 /\ p + last <= Len(t)
    BY <1>1, <1>2, <1>5
  <2>2. CASE i <= p
    BY <2>1, <2>2
  <2>3. CASE i = p + 1
    <3>1. i \in DOMAIN t
      BY <1>2, <2>1
    <3> QED
      BY <1>3, <2>3, <3>1
  <2>4. CASE i > p + 1
    <3> DEFINE j == i - 1 - p
    <3>1. j \in 1..last - 1 /\ j \in 1..L /\ p + j = i - 1 /\ i # 1
      BY <1>1, <1>5, <2>1, <2>4
    <3> HIDE DEF j
    <3>2. t[i - 1] # amp
      BY <1>2, <1>6, <3>1
    <3> QED
      BY <3>1, <3>2 DEF ParameterAt, amp
  <2> QED
    BY <2>1, <2>2, <2>3, <2>4
<1>8. CASE a # 0
  <2>1. last = a /\ p + a \in Nat /\ a \in 1..L
    BY <1>1, <1>8 DEF last
  <2>2. \A i \in 1..p + a : ~ParameterAt(t, i)
    BY <1>7, <2>1
  <2>3. t[p + a] = amp
    BY <1>1, <1>2, <1>8, <2>1
  <2>4. After(rest, "&") \in Seq(Char) /\ SuffixOf(rest, a, After(rest, "&"))
    BY <1>8, AfterIs DEF a
  <2>5. SuffixOf(t, p + a, After(rest, "&"))
    BY <1>1, <2>4, SuffixOfSuffix
  <2> QED
    BY <1>8, <2>1, <2>2, <2>3, <2>5 DEF a, amp
<1>9. CASE a = 0
  <2>1. last = L
    BY <1>9 DEF last
  <2> QED
    BY <1>2, <1>7, <1>9, <2>1 DEF a
<1> QED
  BY <1>8, <1>9 DEF a

------------------------------------------------------------------------------
(* The steps of a request *)

\* The parts of a character.
LEMMA CharParts ==
  ASSUME NEW t \in Seq(Char), NEW i \in 1..Len(t)
  PROVE  t[i] \in Char /\ t[i].byte \in Bytes
<1>1. t[i] \in Char
  BY ElementOfSeq
<1>2. PICK c \in Char : c = t[i]
  BY <1>1
<1> QED
  BY <1>1, <1>2 DEF Char

\* What is decoded is a byte string.
LEMMA Decoded ==
  ASSUME NEW t \in Seq(Char)
  PROVE  /\ Percent(t) \in Seq(Bytes) /\ Len(Percent(t)) = Len(t)
         /\ \A i \in 1..Len(t) : Percent(t)[i] = t[i].byte
         /\ PlusThenPercent(t) \in Seq(Bytes) /\ Len(PlusThenPercent(t)) = Len(t)
         /\ \A i \in 1..Len(t) :
              PlusThenPercent(t)[i] = IF t[i] = Lit("+") THEN " " ELSE t[i].byte
<1>1. DOMAIN t = 1..Len(t) /\ Len(t) \in Nat
  OBVIOUS
<1>2. \A i \in 1..Len(t) : t[i].byte \in Bytes
  BY CharParts
<1>3. " " \in Bytes
  BY ValuesAssumption
<1>4. \A i \in 1..Len(t) : (IF t[i] = Lit("+") THEN " " ELSE t[i].byte) \in Bytes
  BY <1>2, <1>3
<1>5. Percent(t) = [i \in 1..Len(t) |-> t[i].byte]
  BY <1>1 DEF Percent
<1>6. PlusThenPercent(t) = [i \in 1..Len(t) |-> IF t[i] = Lit("+") THEN " " ELSE t[i].byte]
  BY <1>1 DEF PlusThenPercent
<1>7. Percent(t) \in Seq(Bytes) /\ Len(Percent(t)) = Len(t)
  BY <1>1, <1>2, <1>5
<1>8. PlusThenPercent(t) \in Seq(Bytes) /\ Len(PlusThenPercent(t)) = Len(t)
  <2> DEFINE f == [i \in 1..Len(t) |-> IF t[i] = Lit("+") THEN " " ELSE t[i].byte]
  <2>1. f \in [1..Len(t) -> Bytes]
    BY <1>4
  <2>2. DOMAIN f = 1..Len(t)
    OBVIOUS
  <2> HIDE DEF f
  <2>3. f \in Seq(Bytes) /\ Len(f) = Len(t)
    BY <1>1, <2>1, <2>2
  <2> QED
    BY <1>6, <2>3 DEF f
<1> QED
  BY <1>5, <1>6, <1>7, <1>8

LEMMA HttpInit == Init => HttpIInv
<1> SUFFICES ASSUME Init PROVE HttpIInv
  OBVIOUS
<1>1. text \in Seq(Char) \cup {NoQuery}
      /\ (request.route = "/kv/" => text \in Seq(Char))
  BY RequestsAssumption DEF Init
<1>2. HttpTypeOK
  <2>1. phase = "sent" /\ rest = <<>> /\ key = NoKey /\ recorded = {} /\ response.status = 0
    BY DEF Init, NoResponse
  <2>2. <<>> \in Seq(Char)
    BY EmptySeq
  <2> QED
    BY <1>1, <2>1, <2>2 DEF HttpTypeOK
<1>3. TextIsTheirs
  BY <1>1 DEF TextIsTheirs, Init
<1>4. Scanning /\ KeyIsTheirs /\ AnswerIsTheirs
  BY DEF Scanning, KeyIsTheirs, AnswerIsTheirs, Init, NoResponse
<1> QED
  BY <1>2, <1>3, <1>4 DEF HttpIInv

\* A proxy changes how bytes are written, and no byte.
LEMMA ForwardStep ==
  ASSUME HttpIInv, Forward
  PROVE  HttpIInv'
<1> DEFINE d == [i \in DOMAIN text |-> IF text[i].byte \in {"/", "k", "z", "+"} THEN Lit(text[i].byte)
                                       ELSE text[i]]
<1>1. /\ phase = "sent" /\ phase' = "routed" /\ UNCHANGED <<stateVars, rest, key, recorded, response>>
      /\ text' = text \/ (request.route = "/kv/" /\ text' = d)
  BY DEF Forward
<1>2. ASSUME request.route = "/kv/", text' = d
      PROVE  /\ text' \in Seq(Char) /\ Len(text') = Len(text)
             /\ \A i \in 1..Len(text) : text'[i].byte = text[i].byte
  <2>1. text \in Seq(Char) /\ DOMAIN text = 1..Len(text) /\ Len(text) \in Nat
    BY <1>2 DEF HttpIInv, TextIsTheirs
  <2>2. \A i \in 1..Len(text) : text[i] \in Char /\ text[i].byte \in Bytes
    BY <2>1, CharParts
  <2>3. \A i \in 1..Len(text) :
          d[i] = IF text[i].byte \in {"/", "k", "z", "+"} THEN Lit(text[i].byte) ELSE text[i]
    BY <2>1
  <2>4. DOMAIN d = 1..Len(text)
    BY <2>1
  <2>5. \A i \in 1..Len(text) : d[i] \in Char /\ d[i].byte = text[i].byte
    BY <2>2, <2>3 DEF Lit, Char
  <2>6. d = [i \in 1..Len(text) |-> d[i]]
    BY <2>1
  <2> HIDE DEF d
  <2>7. d \in [1..Len(text) -> Char]
    BY <2>5, <2>6
  <2>8. d \in Seq(Char) /\ Len(d) = Len(text)
    BY <2>1, <2>4, <2>7
  <2> QED
    BY <1>2, <2>5, <2>8
<1> HIDE DEF d
<1>3. TextIsTheirs'
  <2>1. CASE text' = text
    BY <1>1, <2>1 DEF HttpIInv, TextIsTheirs, stateVars
  <2>2. CASE request.route = "/kv/" /\ text' = d
    BY <1>1, <1>2, <2>2 DEF HttpIInv, TextIsTheirs, stateVars
  <2> QED
    BY <1>1, <2>1, <2>2
<1>4. HttpTypeOK'
  <2>1. text' \in Seq(Char) \cup {NoQuery}
    BY <1>1, <1>2 DEF HttpIInv, HttpTypeOK
  <2> QED
    BY <1>1, <2>1 DEF HttpIInv, HttpTypeOK
<1>5. Scanning' /\ KeyIsTheirs' /\ AnswerIsTheirs'
  BY <1>1 DEF HttpIInv, Scanning, KeyIsTheirs, AnswerIsTheirs
<1> QED
  BY <1>3, <1>4, <1>5 DEF HttpIInv

\* What a request that is on its way knows.
LEMMA OnTheWay ==
  ASSUME HttpIInv, phase \in {"routed", "scan"}
  PROVE  /\ key = NoKey /\ recorded = {}
         /\ request.route = "/kv/" => text \in Seq(Char)
         /\ text # NoQuery => text \in Seq(Char)
         /\ rest \in Seq(Char)
BY DEF HttpIInv, HttpTypeOK, TextIsTheirs, KeyIsTheirs, AnswerIsTheirs

\* An answer that needs no lookup.
LEMMA WithoutLookup ==
  ASSUME HttpIInv, phase \in {"routed", "scan"}, phase' = "answered", ~response'.marker,
         UNCHANGED <<stateVars, text, rest, key, recorded>>,
         \/ response'.status = 404 /\ ~Routable
         \/ response'.status = 405 /\ request.method = "POST"
         \/ response'.status = 200 /\ request.route \notin {"/kv/", "/kv"}
         \/ response'.status = 400 /\ request.route = "/kv/" /\ Routable /\ ~Utf8(Percent(text))
         \/ /\ response'.status = 400 /\ request.route = "/kv"
            /\ text = NoQuery \/ \A i \in DOMAIN text : ~ParameterAt(text, i)
  PROVE  HttpIInv'
<1>1. UNCHANGED <<dataset, default, request, text, rest, key, recorded>>
  BY DEF stateVars
<1>2. key = NoKey /\ recorded = {}
  BY OnTheWay
<1>3. HttpTypeOK'
  BY <1>1, <1>2 DEF HttpIInv, HttpTypeOK
<1>4. TextIsTheirs'
  BY <1>1 DEF HttpIInv, TextIsTheirs
<1>5. Scanning' /\ KeyIsTheirs'
  BY <1>1, <1>2 DEF Scanning, KeyIsTheirs
<1>6. NotLookedUp'
  BY <1>1, <1>2 DEF NotLookedUp, Routable
<1>7. AnswerIsTheirs'
  BY <1>1, <1>6 DEF AnswerIsTheirs
<1> QED
  BY <1>3, <1>4, <1>5, <1>7 DEF HttpIInv

LEMMA NoRouteStep ==
  ASSUME HttpIInv, NoRoute
  PROVE  HttpIInv'
<1>1. /\ phase \in {"routed", "scan"} /\ ~Routable
      /\ phase' = "answered" /\ response'.status = 404 /\ ~response'.marker
      /\ UNCHANGED <<stateVars, text, rest, key, recorded>>
  BY DEF NoRoute, Respond
<1> QED
  BY <1>1, WithoutLookup

LEMMA NoMethodStep ==
  ASSUME HttpIInv, NoMethod
  PROVE  HttpIInv'
<1>1. /\ phase \in {"routed", "scan"} /\ request.method = "POST"
      /\ phase' = "answered" /\ response'.status = 405 /\ ~response'.marker
      /\ UNCHANGED <<stateVars, text, rest, key, recorded>>
  BY DEF NoMethod, Respond
<1> QED
  BY <1>1, WithoutLookup

LEMMA FixedStep ==
  ASSUME HttpIInv, Fixed
  PROVE  HttpIInv'
<1>1. PICK route \in {"/health", "/metrics", "/stats"} :
        Routed(route) /\ Respond(200, <<route>>, "text", FALSE)
  BY DEF Fixed
<1>2. /\ phase \in {"routed", "scan"} /\ request.route \notin {"/kv/", "/kv"}
      /\ phase' = "answered" /\ response'.status = 200 /\ ~response'.marker
      /\ UNCHANGED <<stateVars, text, rest, key, recorded>>
  BY <1>1 DEF Fixed, Routed, Respond
<1> QED
  BY <1>2, WithoutLookup

LEMMA BadSegmentStep ==
  ASSUME HttpIInv, BadSegment
  PROVE  HttpIInv'
<1>1. /\ phase \in {"routed", "scan"}
      /\ request.route = "/kv/" /\ Routable /\ ~Utf8(Percent(text))
      /\ phase' = "answered" /\ response'.status = 400 /\ ~response'.marker
      /\ UNCHANGED <<stateVars, text, rest, key, recorded>>
  BY DEF BadSegment, Routed, Respond
<1> QED
  BY <1>1, WithoutLookup

LEMMA NoParameterStep ==
  ASSUME HttpIInv, NoParameter
  PROVE  HttpIInv'
<1>1. /\ phase \in {"routed", "scan"} /\ request.route = "/kv"
      /\ phase' = "answered" /\ response'.status = 400 /\ ~response'.marker
      /\ UNCHANGED <<stateVars, text, rest, key, recorded>>
  BY DEF NoParameter, Routed, HttpIInv, Scanning, Respond
<1>2. text = NoQuery \/ \A i \in DOMAIN text : ~ParameterAt(text, i)
  <2>1. CASE Routed("/kv") /\ text = NoQuery
    BY <2>1
  <2>2. CASE phase = "scan" /\ Name # <<Lit("k")>> /\ At(rest, "&") = 0
    <3>1. text \in Seq(Char) /\ rest \in Seq(Char)
      BY <2>2, OnTheWay DEF HttpIInv, Scanning
    <3>2. PICK p \in Nat :
            /\ SuffixOf(text, p, rest) /\ (p = 0 \/ text[p] = Lit("&"))
            /\ \A i \in 1..p : ~ParameterAt(text, i)
      BY <2>2 DEF HttpIInv, Scanning
    <3> QED
      BY <2>2, <3>1, <3>2, Skipped
  <2> QED
    BY <2>1, <2>2 DEF NoParameter
<1> QED
  BY <1>1, <1>2, WithoutLookup

\* A key has been found: what remains to be shown is where it came from.
LEMMA KeyFound ==
  ASSUME HttpIInv, phase \in {"routed", "scan"}, phase' = "lookup", key' \in Seq(Bytes),
         UNCHANGED <<stateVars, text, rest, recorded, response>>,
         request.method # "POST", (FromPath \/ FromQuery)'
  PROVE  HttpIInv'
<1>1. UNCHANGED <<dataset, default, request, text, rest, recorded, response>>
  BY DEF stateVars
<1>2. HttpTypeOK'
  BY <1>1 DEF HttpIInv, HttpTypeOK
<1>3. TextIsTheirs'
  BY <1>1 DEF HttpIInv, TextIsTheirs
<1>4. Scanning' /\ KeyIsTheirs'
  BY <1>1 DEF Scanning, KeyIsTheirs
<1>5. AnswerIsTheirs'
  BY <1>1 DEF HttpIInv, AnswerIsTheirs
<1> QED
  BY <1>2, <1>3, <1>4, <1>5 DEF HttpIInv

LEMMA KvPathStep ==
  ASSUME HttpIInv, KvPath
  PROVE  HttpIInv'
<1>1. /\ phase \in {"routed", "scan"} /\ phase' = "lookup" /\ key' = Percent(text)
      /\ UNCHANGED <<stateVars, text, rest, recorded, response>>
      /\ request.method # "POST" /\ request.route = "/kv/" /\ Routable /\ Utf8(Percent(text))
  BY DEF KvPath, Routed
<1>2. text \in Seq(Char)
  BY <1>1, OnTheWay DEF HttpIInv, TextIsTheirs
<1>3. key' \in Seq(Bytes)
  BY <1>1, <1>2, Decoded
<1>4. UNCHANGED <<request, text>>
  BY <1>1 DEF stateVars
<1>5. FromPath'
  BY <1>1, <1>4 DEF FromPath, Routable
<1> QED
  BY <1>1, <1>3, <1>5, KeyFound

LEMMA TakeParameterStep ==
  ASSUME HttpIInv, TakeParameter
  PROVE  HttpIInv'
<1> DEFINE v == After(pair, "=")
<1>1. /\ phase = "scan" /\ Name = <<Lit("k")>> /\ phase' = "lookup"
      /\ key' = PlusThenPercent(v)
      /\ UNCHANGED <<stateVars, text, rest, recorded, response>>
  BY DEF TakeParameter
<1>2. /\ request.route = "/kv" /\ request.method # "POST" /\ text # NoQuery
      /\ text \in Seq(Char) /\ rest \in Seq(Char)
  BY <1>1, OnTheWay DEF HttpIInv, Scanning
<1>3. PICK p \in Nat :
        /\ SuffixOf(text, p, rest) /\ (p = 0 \/ text[p] = Lit("&"))
        /\ \A i \in 1..p : ~ParameterAt(text, i)
  BY <1>1 DEF HttpIInv, Scanning
<1>4. /\ p + 1 \in DOMAIN text /\ ParameterAt(text, p + 1)
      /\ v \in Seq(Char) /\ HasValue(text, p + 1, v)
  BY <1>1, <1>2, <1>3, NamedK
<1>5. key' \in Seq(Bytes)
  BY <1>1, <1>4, Decoded
<1> HIDE DEF v
<1>6. UNCHANGED <<request, text>>
  BY <1>1 DEF stateVars
<1>7. FromQuery'
  <2> DEFINE i == p + 1
  <2>1. i \in DOMAIN text /\ ParameterAt(text, i) /\ HasValue(text, i, v)
    BY <1>4
  <2>2. \A j \in 1..i - 1 : ~ParameterAt(text, j)
    BY <1>3
  <2> HIDE DEF i
  <2>3. \E ii \in DOMAIN text, vv \in Seq(Char) :
          /\ ParameterAt(text, ii) /\ \A j \in 1..ii - 1 : ~ParameterAt(text, j)
          /\ HasValue(text, ii, vv) /\ key' = PlusThenPercent(vv)
    BY <1>1, <1>4, <2>1, <2>2
  <2> QED
    BY <1>2, <1>6, <2>3 DEF FromQuery
<1> QED
  BY <1>1, <1>2, <1>5, <1>7, KeyFound

\* The scan goes on: what remains to be shown is that it is where it should be.
LEMMA ScanGoesOn ==
  ASSUME HttpIInv, phase \in {"routed", "scan"}, phase' = "scan", rest' \in Seq(Char),
         UNCHANGED <<stateVars, text, key, recorded, response>>, Scanning'
  PROVE  HttpIInv'
<1>1. UNCHANGED <<dataset, default, request, text, key, recorded, response>>
  BY DEF stateVars
<1>2. HttpTypeOK'
  BY <1>1 DEF HttpIInv, HttpTypeOK
<1>3. TextIsTheirs'
  BY <1>1 DEF HttpIInv, TextIsTheirs
<1>4. KeyIsTheirs'
  BY <1>1, OnTheWay DEF KeyIsTheirs
<1>5. AnswerIsTheirs'
  BY <1>1 DEF HttpIInv, AnswerIsTheirs
<1> QED
  BY <1>2, <1>3, <1>4, <1>5 DEF HttpIInv

LEMMA KvQueryStep ==
  ASSUME HttpIInv, KvQuery
  PROVE  HttpIInv'
<1>1. /\ phase \in {"routed", "scan"} /\ phase' = "scan" /\ rest' = text
      /\ UNCHANGED <<stateVars, text, key, recorded, response>>
      /\ request.route = "/kv" /\ request.method # "POST" /\ text # NoQuery
  BY DEF KvQuery, Routed
<1>2. text \in Seq(Char) /\ UNCHANGED request
  BY <1>1, OnTheWay DEF stateVars
<1>3. SuffixOf(text, 0, text)
  <2>1. Len(text) \in Nat
    BY <1>2
  <2> QED
    BY <2>1 DEF SuffixOf
<1>4. \E p \in Nat :
        /\ SuffixOf(text, p, text) /\ (p = 0 \/ text[p] = Lit("&"))
        /\ \A i \in 1..p : ~ParameterAt(text, i)
  <2>1. 0 \in Nat /\ 1..0 = {}
    OBVIOUS
  <2> QED
    BY <1>3, <2>1
<1>5. Scanning'
  BY <1>1, <1>2, <1>4 DEF Scanning
<1> QED
  BY <1>1, <1>2, <1>5, ScanGoesOn

LEMMA SkipParameterStep ==
  ASSUME HttpIInv, SkipParameter
  PROVE  HttpIInv'
<1>1. /\ phase = "scan" /\ Name # <<Lit("k")>> /\ At(rest, "&") # 0 /\ phase' = "scan"
      /\ rest' = After(rest, "&")
      /\ UNCHANGED <<stateVars, text, key, recorded, response>>
  BY DEF SkipParameter
<1>2. /\ request.route = "/kv" /\ request.method # "POST" /\ text # NoQuery
      /\ text \in Seq(Char) /\ rest \in Seq(Char) /\ UNCHANGED request
  BY <1>1, OnTheWay DEF HttpIInv, Scanning, stateVars
<1>3. PICK p \in Nat :
        /\ SuffixOf(text, p, rest) /\ (p = 0 \/ text[p] = Lit("&"))
        /\ \A i \in 1..p : ~ParameterAt(text, i)
  BY <1>1 DEF HttpIInv, Scanning
<1>4. PICK q \in Nat :
        /\ SuffixOf(text, q, After(rest, "&")) /\ text[q] = Lit("&")
        /\ \A i \in 1..q : ~ParameterAt(text, i)
  BY <1>1, <1>2, <1>3, Skipped
<1>5. Scanning'
  BY <1>1, <1>2, <1>4 DEF Scanning
<1>6. rest' \in Seq(Char)
  BY <1>1, <1>2, AfterIs
<1> QED
  BY <1>1, <1>2, <1>5, <1>6, ScanGoesOn

\* A lookup has been answered: what remains to be shown is that the answer is right.
LEMMA LookupAnswered ==
  ASSUME HttpIInv, phase = "lookup", phase' = "answered",
         UNCHANGED <<stateVars, text, rest, key>>, LookedUp',
         response'.status \in {200, 404},
         \A r \in recorded' : r.outcome \in {"Hit", "Default", "Miss"} /\ r.len \in Nat
  PROVE  HttpIInv'
<1>1. UNCHANGED <<dataset, default, request, text, rest, key>>
  BY DEF stateVars
<1>2. HttpTypeOK'
  BY <1>1 DEF HttpIInv, HttpTypeOK
<1>3. TextIsTheirs'
  BY <1>1 DEF HttpIInv, TextIsTheirs
<1>4. Scanning' /\ AnswerIsTheirs'
  BY <1>1 DEF Scanning, AnswerIsTheirs
<1>5. KeyIsTheirs'
  BY <1>1 DEF HttpIInv, KeyIsTheirs, FromPath, FromQuery, Routable
<1> QED
  BY <1>2, <1>3, <1>4, <1>5 DEF HttpIInv

\* The length recorded is that of the body that is sent.
LEMMA LengthTold ==
  ASSUME NEW body \in Seq(Bytes)
  PROVE  LET sent == IF request.method = "HEAD" THEN <<>> ELSE body IN
         /\ Len(sent) = IF request.method = "HEAD" THEN 0 ELSE Len(body)
         /\ Len(sent) \in Nat
<1>1. Len(<<>>) = 0 /\ Len(body) \in Nat
  BY EmptySeq
<1> QED
  BY <1>1

\* What a lookup knows.
LEMMA AtLookup ==
  ASSUME HttpIInv, phase = "lookup"
  PROVE  /\ key \in Seq(Bytes) /\ key # NoKey
         /\ key \in DOMAIN dataset => dataset[key] \in Seq(Bytes)
         /\ default # NoValue => default \in Seq(Bytes)
<1>1. key \in Seq(Bytes)
  BY DEF HttpIInv, HttpTypeOK
<1>2. dataset \in Datasets /\ default \in Defaults
  BY DEF HttpIInv, TextIsTheirs
<1>3. key # NoKey
  BY <1>1, ValuesAssumption
<1>4. \A k \in DOMAIN dataset : dataset[k] \in Seq(Bytes)
  BY <1>2, ValuesAssumption
<1>5. default \in Seq(Bytes) \cup {NoValue}
  BY <1>2, ValuesAssumption
<1> QED
  BY <1>1, <1>3, <1>4, <1>5

LEMMA HitStep ==
  ASSUME HttpIInv, Hit
  PROVE  HttpIInv'
<1> DEFINE body == dataset[key]
           sent == IF request.method = "HEAD" THEN <<>> ELSE body
<1>1. /\ phase = "lookup" /\ key \in DOMAIN dataset /\ phase' = "answered"
      /\ UNCHANGED <<stateVars, text, rest, key>>
      /\ recorded' = {[outcome |-> "Hit", len |-> IF request.method = "HEAD" THEN 0 ELSE Len(body)]}
      /\ response' = [status |-> 200, type |-> "configured", marker |-> FALSE, body |-> sent]
  BY DEF Hit, Respond, Record
<1>2. body \in Seq(Bytes) /\ key # NoKey
  BY <1>1, AtLookup
<1>3. /\ Len(sent) = (IF request.method = "HEAD" THEN 0 ELSE Len(body))
      /\ Len(sent) \in Nat
  BY <1>2, LengthTold
<1>4. dataset' = dataset /\ key' = key /\ request' = request
  BY <1>1 DEF stateVars
<1>5. LookedUp'
  <2>1. Reply(200, dataset[key], FALSE)'
    BY <1>1, <1>4 DEF Reply
  <2>2. Told("Hit")'
    BY <1>1, <1>3 DEF Told
  <2> QED
    BY <1>1, <1>2, <1>4, <2>1, <2>2 DEF LookedUp
<1>6. \A r \in recorded' : r.outcome = "Hit" /\ r.len \in Nat
  BY <1>1, <1>3
<1>7. response'.status = 200
  BY <1>1
<1> QED
  BY <1>1, <1>5, <1>6, <1>7, LookupAnswered

LEMMA SubstituteStep ==
  ASSUME HttpIInv, Substitute
  PROVE  HttpIInv'
<1> DEFINE sent == IF request.method = "HEAD" THEN <<>> ELSE default
<1>1. /\ phase = "lookup" /\ key \notin DOMAIN dataset /\ default # NoValue /\ phase' = "answered"
      /\ UNCHANGED <<stateVars, text, rest, key>>
      /\ recorded' = {[outcome |-> "Default", len |-> IF request.method = "HEAD" THEN 0 ELSE Len(default)]}
      /\ response' = [status |-> 200, type |-> "configured", marker |-> TRUE, body |-> sent]
  BY DEF Substitute, Respond, Record
<1>2. default \in Seq(Bytes) /\ key # NoKey
  BY <1>1, AtLookup
<1>3. /\ Len(sent) = (IF request.method = "HEAD" THEN 0 ELSE Len(default))
      /\ Len(sent) \in Nat
  BY <1>2, LengthTold
<1>4. dataset' = dataset /\ default' = default /\ key' = key /\ request' = request
  BY <1>1 DEF stateVars
<1>5. LookedUp'
  <2>1. Reply(200, default, TRUE)'
    BY <1>1, <1>4 DEF Reply
  <2>2. Told("Default")'
    BY <1>1, <1>3 DEF Told
  <2> QED
    BY <1>1, <1>2, <1>4, <2>1, <2>2 DEF LookedUp
<1>6. \A r \in recorded' : r.outcome = "Default" /\ r.len \in Nat
  BY <1>1, <1>3
<1>7. response'.status = 200
  BY <1>1
<1> QED
  BY <1>1, <1>5, <1>6, <1>7, LookupAnswered

LEMMA MissStep ==
  ASSUME HttpIInv, Miss
  PROVE  HttpIInv'
<1>1. /\ phase = "lookup" /\ key \notin DOMAIN dataset /\ phase' = "answered"
      /\ UNCHANGED <<stateVars, text, rest, key>>
      /\ recorded' = {[outcome |-> "Miss", len |-> 0]}
      /\ response' = [status |-> 404, type |-> "", marker |-> FALSE, body |-> <<>>]
  BY DEF Miss, Respond, Record
<1>2. key # NoKey
  BY <1>1, AtLookup
<1>3. dataset' = dataset /\ key' = key /\ request' = request
  BY <1>1 DEF stateVars
<1>4. LookedUp'
  <2>1. Reply(404, <<>>, FALSE)'
    BY <1>1 DEF Reply
  <2>2. Told("Miss")'
    BY <1>1 DEF Told
  <2> QED
    BY <1>1, <1>2, <1>3, <2>1, <2>2 DEF LookedUp
<1>5. \A r \in recorded' : r.outcome = "Miss" /\ r.len \in Nat
  <2> SUFFICES ASSUME NEW r \in recorded' PROVE r.outcome = "Miss" /\ r.len \in Nat
    OBVIOUS
  <2>1. r = [outcome |-> "Miss", len |-> 0]
    BY <1>1
  <2> QED
    BY <2>1
<1>6. response'.status = 404
  BY <1>1
<1> QED
  BY <1>1, <1>4, <1>5, <1>6, LookupAnswered

LEMMA HttpNext == HttpIInv /\ [Next]_vars => HttpIInv'
<1> SUFFICES ASSUME HttpIInv, [Next]_vars PROVE HttpIInv'
  OBVIOUS
<1>1. CASE UNCHANGED vars
  <2>1. UNCHANGED <<dataset, default, request, text, phase, rest, key, recorded, response>>
    BY <1>1 DEF vars, stateVars
  <2>2. HttpTypeOK'
    BY <2>1 DEF HttpIInv, HttpTypeOK
  <2>3. TextIsTheirs'
    BY <2>1 DEF HttpIInv, TextIsTheirs
  <2>4. Scanning'
    BY <2>1 DEF HttpIInv, Scanning
  <2>5. KeyIsTheirs'
    BY <2>1 DEF HttpIInv, KeyIsTheirs, FromPath, FromQuery, Routable
  <2>6. AnswerIsTheirs'
    BY <2>1 DEF HttpIInv, AnswerIsTheirs, LookedUp, NotLookedUp, Told, Reply, Routable
  <2> QED
    BY <2>2, <2>3, <2>4, <2>5, <2>6 DEF HttpIInv
<1>2. CASE Forward
  BY <1>2, ForwardStep
<1>3. CASE NoRoute
  BY <1>3, NoRouteStep
<1>4. CASE NoMethod
  BY <1>4, NoMethodStep
<1>5. CASE Fixed
  BY <1>5, FixedStep
<1>6. CASE BadSegment
  BY <1>6, BadSegmentStep
<1>7. CASE KvPath
  BY <1>7, KvPathStep
<1>8. CASE KvQuery
  BY <1>8, KvQueryStep
<1>9. CASE TakeParameter
  BY <1>9, TakeParameterStep
<1>10. CASE SkipParameter
  BY <1>10, SkipParameterStep
<1>11. CASE NoParameter
  BY <1>11, NoParameterStep
<1>12. CASE Hit
  BY <1>12, HitStep
<1>13. CASE Substitute
  BY <1>13, SubstituteStep
<1>14. CASE Miss
  BY <1>14, MissStep
<1> QED
  BY <1>1, <1>2, <1>3, <1>4, <1>5, <1>6, <1>7, <1>8, <1>9, <1>10, <1>11, <1>12, <1>13, <1>14
     DEF Next

------------------------------------------------------------------------------
(* The theorems *)

\* The invariant holds from the client that writes the key to the response.
THEOREM HttpInvariance == Spec => []HttpIInv
BY HttpInit, HttpNext, PTL DEF Spec

\* Every part of a request keeps its type; what is looked up is a byte string.
THEOREM HttpTypeCorrect == Spec => []HttpTypeOK
<1>1. HttpIInv => HttpTypeOK
  BY DEF HttpIInv
<1> QED
  BY <1>1, HttpInvariance, PTL

\* The status, the marker and what is recorded of every answer agree with each other
\* and with the store, on a HEAD as on a GET (handlers.rs:62-106).
THEOREM AnswersAgree == Spec => []AnswerMatchesMetrics
<1>1. HttpIInv => AnswerMatchesMetrics
  <2> SUFFICES ASSUME HttpIInv, phase = "answered"
               PROVE  /\ recorded # {} <=> key # NoKey
                      /\ \A r \in recorded :
                           /\ r.outcome = "Hit" <=> key \in DOMAIN dataset
                           /\ r.outcome = "Hit" <=> response.status = 200 /\ ~response.marker
                           /\ r.outcome = "Default" <=> response.marker
                           /\ r.outcome = "Miss" <=> response.status = 404
                           /\ r.len = Len(response.body)
    BY DEF AnswerMatchesMetrics
  <2>1. CASE LookedUp
    <3>1. CASE key \in DOMAIN dataset /\ Told("Hit") /\ Reply(200, dataset[key], FALSE)
      BY <2>1, <3>1 DEF LookedUp, Told, Reply
    <3>2. CASE key \notin DOMAIN dataset /\ Told("Default") /\ Reply(200, default, TRUE)
      BY <2>1, <3>2 DEF LookedUp, Told, Reply
    <3>3. CASE key \notin DOMAIN dataset /\ Told("Miss") /\ Reply(404, <<>>, FALSE)
      BY <2>1, <3>3 DEF LookedUp, Told, Reply
    <3> QED
      BY <2>1, <3>1, <3>2, <3>3 DEF LookedUp
  <2>2. CASE NotLookedUp
    BY <2>2 DEF NotLookedUp
  <2> QED
    BY <2>1, <2>2 DEF HttpIInv, AnswerIsTheirs
<1> QED
  BY <1>1, HttpInvariance, PTL

\* Of any query the first k is looked up, and none is refused that has one.
THEOREM FirstKFound == Spec => []FindsTheFirstK
<1> DEFINE ks == {i \in DOMAIN text : ParameterAt(text, i)}
           Found == /\ response.status = 400 <=> ks = {}
                    /\ ks # {} => \E i \in ks :
                         /\ \A j \in ks : i <= j
                         /\ i = Len(text) \/ text[i + 1] = Lit("&") => key = <<>>
                         /\ i < Len(text) /\ text[i + 1] = Lit("=") => ValueAt(text, i, Len(key))
<1>1. ASSUME HttpIInv, phase = "answered", request.route = "/kv", request.method # "POST",
             text # NoQuery
      PROVE  Found
  <2>1. CASE LookedUp
    <3>1. key # NoKey /\ response.status # 400
      BY <2>1 DEF LookedUp, Reply
    <3>2. FromQuery
      BY <1>1, <3>1 DEF HttpIInv, KeyIsTheirs, FromPath
    <3>3. PICK i \in DOMAIN text, v \in Seq(Char) :
            /\ ParameterAt(text, i) /\ \A j \in 1..i - 1 : ~ParameterAt(text, j)
            /\ HasValue(text, i, v) /\ key = PlusThenPercent(v)
      BY <3>2 DEF FromQuery
    <3>4. text \in Seq(Char) /\ DOMAIN text = 1..Len(text) /\ Len(text) \in Nat
      BY <1>1 DEF HttpIInv, HttpTypeOK
    <3>5. i \in ks
      BY <3>3
    <3>6. ASSUME NEW j \in ks PROVE i <= j
      <4>1. j \in DOMAIN text /\ ParameterAt(text, j)
        BY <3>6
      <4>2. i \in Nat /\ j \in Nat /\ j >= 1
        BY <3>4, <4>1
      <4>3. ~(j \in 1..i - 1)
        BY <3>3, <4>1
      <4> QED
        BY <4>2, <4>3
    <3>7. Len(key) = Len(v) /\ Len(v) \in Nat /\ key \in Seq(Bytes)
      <4>1. PlusThenPercent(v) \in Seq(Bytes) /\ Len(PlusThenPercent(v)) = Len(v)
        BY Decoded
      <4>2. Len(v) \in Nat
        OBVIOUS
      <4> QED
        BY <3>3, <4>1, <4>2
    <3>8. ASSUME i = Len(text) \/ text[i + 1] = Lit("&") PROVE key = <<>>
      <4>1. v = <<>>
        BY <3>3, <3>4, <3>8, DistinctLits DEF HasValue
      <4>2. Len(key) = 0
        BY <3>7, <4>1
      <4> QED
        BY <3>7, <4>2
    <3>9. ASSUME i < Len(text), text[i + 1] = Lit("=") PROVE ValueAt(text, i, Len(key))
      <4>1. ~(i = Len(text)) /\ text[i + 1] # Lit("&")
        BY <3>4, <3>9, DistinctLits
      <4> QED
        BY <3>3, <3>7, <4>1 DEF HasValue
    <3> QED
      BY <3>1, <3>5, <3>6, <3>8, <3>9
  <2>2. CASE NotLookedUp
    <3>1. Routable
      BY <1>1 DEF Routable
    <3>2. /\ response.status = 400
          /\ \A i \in DOMAIN text : ~ParameterAt(text, i)
      BY <1>1, <2>2, <3>1 DEF NotLookedUp
    <3> QED
      BY <3>2
  <2> QED
    BY <1>1, <2>1, <2>2 DEF HttpIInv, AnswerIsTheirs
<1>2. HttpIInv => FindsTheFirstK
  BY <1>1 DEF FindsTheFirstK
<1> QED
  BY <1>2, HttpInvariance, PTL

\* The first parameter k of a query that asks for a key has that key as its value.
LEMMA AskedIsFound ==
  ASSUME NEW t \in Seq(Char), NEW k \in Seq(Bytes), Asks(t, k),
         NEW i \in DOMAIN t, ParameterAt(t, i), \A j \in 1..i - 1 : ~ParameterAt(t, j),
         NEW v \in Seq(Char), HasValue(t, i, v)
  PROVE  PlusThenPercent(v) = k
<1>1. DOMAIN t = 1..Len(t) /\ Len(t) \in Nat /\ Len(v) \in Nat /\ Len(k) \in Nat
      /\ DOMAIN k = 1..Len(k)
  OBVIOUS
<1>2. PICK h \in DOMAIN t :
        /\ ParameterAt(t, h) /\ \A j \in 1..h - 1 : ~ParameterAt(t, j)
        /\ h + 1 + Len(k) <= Len(t) /\ t[h + 1] = Lit("=")
        /\ ValueAt(t, h, Len(k))
        /\ \A j \in DOMAIN k : t[h + 1 + j] \in InForm(k[j])
  BY DEF Asks
<1>3. h = i
  <2>1. h \in Nat /\ i \in Nat /\ h >= 1 /\ i >= 1
    BY <1>1
  <2>2. ~(h \in 1..i - 1) /\ ~(i \in 1..h - 1)
    BY <1>2
  <2> QED
    BY <2>1, <2>2
<1>4. i + 1 + Len(k) <= Len(t) /\ t[i + 1] = Lit("=") /\ ValueAt(t, i, Len(k))
      /\ \A j \in 1..Len(k) : t[i + 1 + j] \in InForm(k[j])
  BY <1>1, <1>2, <1>3
<1>5. /\ i + 1 + Len(v) <= Len(t) /\ ValueAt(t, i, Len(v))
      /\ \A j \in 1..Len(v) : v[j] = t[i + 1 + j]
  <2>1. i \in Nat /\ i # Len(t) /\ t[i + 1] # Lit("&")
    BY <1>1, <1>4, DistinctLits
  <2> QED
    BY <2>1 DEF HasValue
<1>6. ASSUME NEW m \in Nat, NEW n \in Nat, m < n, i + 1 + n <= Len(t),
             ValueAt(t, i, m), ValueAt(t, i, n)
      PROVE  FALSE
  <2>1. i \in Nat /\ ~(i + 1 + m >= Len(t)) /\ i + 2 + m \in i + 2..i + 1 + n
    BY <1>1, <1>6
  <2>2. t[i + 2 + m] = Lit("&")
    BY <1>6, <2>1 DEF ValueAt
  <2>3. t[i + 2 + m] # Lit("&")
    BY <1>6, <2>1 DEF ValueAt
  <2> QED
    BY <2>2, <2>3
<1>7. Len(v) = Len(k)
  <2>1. ~(Len(v) < Len(k)) /\ ~(Len(k) < Len(v))
    BY <1>1, <1>4, <1>5, <1>6
  <2> QED
    BY <1>1, <2>1
<1>8. ASSUME NEW j \in 1..Len(k) PROVE PlusThenPercent(v)[j] = k[j]
  <2>1. v[j] \in InForm(k[j])
    BY <1>4, <1>5, <1>7
  <2>2. PlusThenPercent(v)[j] = IF v[j] = Lit("+") THEN " " ELSE v[j].byte
    BY <1>7, Decoded
  <2> DEFINE b == k[j]
             c == v[j]
  <2>3. c \in InForm(b)
    BY <2>1
  <2> HIDE DEF b, c
  <2>4. CASE b = " "
    <3>1. c = Lit("+") \/ c = Pct(" ")
      BY <2>3, <2>4 DEF InForm
    <3>2. Pct(" ") # Lit("+") /\ Pct(" ").byte = " "
      BY DEF Pct, Lit
    <3> QED
      BY <2>2, <2>4, <3>1, <3>2 DEF b, c
  <2>5. CASE b # " "
    <3>1. c = Pct(b) \/ (c = Lit(b) /\ b # "+")
      BY <2>3, <2>5 DEF InForm
    <3>2. Pct(b) # Lit("+") /\ Pct(b).byte = b /\ Lit(b).byte = b
      BY DEF Pct, Lit
    <3>3. b # "+" => Lit(b) # Lit("+")
      BY DEF Lit
    <3> QED
      BY <2>2, <3>1, <3>2, <3>3 DEF b, c
  <2> QED
    BY <2>4, <2>5
<1>9. PlusThenPercent(v) \in Seq(Bytes) /\ Len(PlusThenPercent(v)) = Len(k)
  BY <1>7, Decoded
<1> HIDE DEF PlusThenPercent
<1> QED
  BY <1>8, <1>9, SeqEqual

\* A path that is written for a key is decoded to it.
LEMMA WrittenIsDecoded ==
  ASSUME HttpIInv, request.meant # NoKey, request.route = "/kv/"
  PROVE  /\ text \in Seq(Char) /\ Percent(text) = request.meant
         /\ text = <<>> <=> request.meant = <<>>
<1> DEFINE k == request.meant
           w == request.text
<1>1. /\ text \in Seq(Char) /\ Len(text) = Len(w)
      /\ \A i \in 1..Len(text) : text[i].byte = w[i].byte
      /\ request \in Requests
  BY DEF HttpIInv, TextIsTheirs
<1>2. /\ k \in Seq(Bytes) /\ w \in Seq(Char)
      /\ w \in Writings([i \in DOMAIN k |-> InSegment(k[i])])
  BY <1>1, RequestsAssumption
<1>3. /\ DOMAIN w = DOMAIN k
      /\ \A i \in DOMAIN k : w[i] \in InSegment(k[i])
  BY <1>2 DEF Writings
<1> HIDE DEF k, w
<1>4. /\ DOMAIN k = 1..Len(k) /\ Len(k) \in Nat
      /\ DOMAIN w = 1..Len(w) /\ Len(w) \in Nat
  BY <1>2
<1>5. Len(w) = Len(k)
  BY <1>3, <1>4
<1>6. ASSUME NEW i \in 1..Len(k) PROVE Percent(text)[i] = k[i]
  <2>1. w[i].byte = k[i]
    BY <1>3, <1>4 DEF InSegment, Lit, Pct
  <2> QED
    BY <1>1, <1>5, <2>1, Decoded
<1>7. Percent(text) \in Seq(Bytes) /\ Len(Percent(text)) = Len(k)
  BY <1>1, <1>5, Decoded
<1>8. Percent(text) = k
  <2> HIDE DEF Percent
  <2> QED
    BY <1>2, <1>6, <1>7, SeqEqual
<1>9. text = <<>> <=> k = <<>>
  BY <1>1, <1>2, <1>5, EmptySeq
<1> QED
  BY <1>1, <1>8, <1>9 DEF k

\* What the client sees of a lookup is what the store has for the key looked up.
LEMMA SeenIsStored ==
  ASSUME LookedUp, request.method = "GET"
  PROVE  recorded # {} /\ Seen = Stored(key)
<1>1. CASE key \in DOMAIN dataset /\ Told("Hit") /\ Reply(200, dataset[key], FALSE)
  BY <1>1 DEF Told, Reply, Seen, Stored
<1>2. CASE key \notin DOMAIN dataset /\ Told("Default") /\ Reply(200, default, TRUE)
  BY <1>2 DEF Told, Reply, Seen, Stored
<1>3. CASE key \notin DOMAIN dataset /\ Told("Miss") /\ Reply(404, <<>>, FALSE)
  BY <1>3 DEF Told, Reply, Seen, Stored
<1> QED
  BY <1>1, <1>2, <1>3 DEF LookedUp

\* Who writes a key for the form of the request it is sent in gets that key's own
\* value, of however many bytes, whatever stands around it in a query and whatever
\* a proxy decodes in a path (handlers.rs:21-60).
THEOREM KeyMeantIsReached == Spec => []ReachesTheKeyMeant
<1> DEFINE k == request.meant
           slash == Lit("/") \in ToSet(text)
<1>1. ASSUME HttpIInv, Answered("GET"), k # NoKey, request.route = "/kv/"
      PROVE  /\ k = <<>> \/ slash => response.status = 404 /\ recorded = {}
             /\ k # <<>> /\ ~slash /\ ~Utf8(k) => response.status = 400 /\ recorded = {}
             /\ k # <<>> /\ ~slash /\ Utf8(k) => recorded # {} /\ Seen = Stored(k)
  <2>1. text \in Seq(Char) /\ Percent(text) = k /\ (text = <<>> <=> k = <<>>)
    BY <1>1, WrittenIsDecoded
  <2>2. Routable <=> k # <<>> /\ ~slash
    BY <1>1, <2>1 DEF Routable
  <2>3. request.method = "GET"
    BY <1>1 DEF Answered
  <2>4. CASE LookedUp
    <3>1. key = k /\ Routable /\ Utf8(k)
      BY <1>1, <2>1, <2>4 DEF HttpIInv, KeyIsTheirs, LookedUp, FromPath, FromQuery
    <3> QED
      BY <2>2, <2>3, <2>4, <3>1, SeenIsStored
  <2>5. CASE NotLookedUp
    BY <1>1, <2>1, <2>2, <2>3, <2>5 DEF NotLookedUp
  <2> QED
    BY <1>1, <2>4, <2>5 DEF HttpIInv, AnswerIsTheirs, Answered
<1>2. ASSUME HttpIInv, Answered("GET"), k # NoKey, request.route # "/kv/"
      PROVE  recorded # {} /\ Seen = Stored(k)
  <2>1. request \in Requests /\ text = request.text /\ request.method = "GET"
    BY <1>2 DEF HttpIInv, TextIsTheirs, Answered
  <2>2. k \in Seq(Bytes) /\ request.route = "/kv" /\ text # NoQuery /\ Asks(text, k)
    BY <1>2, <2>1, RequestsAssumption
  <2>3. text \in Seq(Char)
    BY <1>2, <2>2 DEF HttpIInv, HttpTypeOK
  <2>4. CASE LookedUp
    <3>1. FromQuery
      BY <1>2, <2>2, <2>4 DEF HttpIInv, KeyIsTheirs, LookedUp, FromPath
    <3>2. key = k
      BY <2>2, <2>3, <3>1, AskedIsFound DEF FromQuery
    <3> QED
      BY <2>1, <2>4, <3>2, SeenIsStored
  <2>5. CASE NotLookedUp
    <3>1. Routable
      BY <2>2 DEF Routable
    <3>2. \E i \in DOMAIN text : ParameterAt(text, i)
      BY <2>2 DEF Asks
    <3> QED
      BY <2>1, <2>2, <2>5, <3>1, <3>2 DEF NotLookedUp
  <2> QED
    BY <1>2, <2>4, <2>5 DEF HttpIInv, AnswerIsTheirs, Answered
<1>3. ASSUME HttpIInv PROVE ReachesTheKeyMeant
  <2>1. Utf8(<<>>)
    BY ValuesAssumption
  <2> QED
    BY <1>1, <1>2, <1>3, <2>1 DEF ReachesTheKeyMeant
<1>4. HttpIInv => ReachesTheKeyMeant
  BY <1>3
<1> QED
  BY <1>4, HttpInvariance, PTL
==============================================================================
