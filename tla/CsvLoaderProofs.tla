--------------------------- MODULE CsvLoaderProofs ---------------------------
(* Proofs about CsvLoader: whatever the file, the hash function and the     *)
(* width of u32, the parts are packed and no key occurs twice.              *)
EXTENDS CsvLoader, FiniteSums, SequenceTheorems, TLAPS

\* Every entry's windows lie in the arena, key before value.
InArena ==
  \A i \in DOMAIN entries :
    /\ entries[i].k_off + entries[i].k_len = entries[i].v_off
    /\ entries[i].v_off + entries[i].v_len <= Len(arena)

\* Every entry is indexed under the hash of its key.
AllIndexed ==
  \A i \in DOMAIN entries :
    [hash |-> Hash(KeyOf(arena, entries[i])), idx |-> i] \in seen

\* No entry, no arena.
EmptyArena == entries = <<>> => arena = <<>>

LoaderIInv ==
  /\ file \in Seq(Row) /\ EmptyArena
  /\ LoaderTypeOK /\ Packed /\ InArena /\ AllIndexed /\ NoDuplicateKeys

------------------------------------------------------------------------------
(* Slices of an arena that grows *)

\* Appending to an arena does not change what lies before.
LEMMA SliceKept ==
  ASSUME NEW S, NEW a \in Seq(S), NEW b \in Seq(S),
         NEW lo \in Nat, NEW hi \in Nat, hi <= Len(a)
  PROVE  Slice(a \o b, lo, hi) = Slice(a, lo, hi)
<1>1. CASE lo < hi
  BY <1>1, SubSeqOfConcat1 DEF Slice
<1>2. CASE ~(lo < hi)
  <2>1. lo + 1 \in Int /\ hi \in Int /\ hi < lo + 1
    BY <1>2
  <2> QED
    BY <2>1, SubSeqEmpty DEF Slice
<1> QED
  BY <1>1, <1>2

\* What has just been appended is found at the old end.
LEMMA SliceAppended ==
  ASSUME NEW S, NEW a \in Seq(S), NEW b \in Seq(S), NEW c \in Seq(S)
  PROVE  Slice(a \o b \o c, Len(a), Len(a) + Len(b)) = b
<1> DEFINE w == a \o b \o c
           t == SubSeq(w, Len(a) + 1, Len(a) + Len(b))
<1>1. /\ w \in Seq(S)
      /\ Len(w) = Len(a) + Len(b) + Len(c)
      /\ \A i \in 1..Len(b) : w[Len(a) + i] = b[i]
  BY ConcatProperties
<1>2. t \in Seq(S) /\ Len(t) = Len(b) /\ \A i \in 1..Len(b) : t[i] = b[i]
  BY <1>1, SubSeqProperties
<1>3. t = b
  BY <1>2, SeqEqual
<1> QED
  BY <1>3 DEF Slice

\* The types of a row's fields.
LEMMA RowFields ==
  ASSUME NEW r \in Row
  PROVE  /\ r.key \in Seq(Byte) /\ r.val \in Seq(Byte)
         /\ r.cols \in Nat /\ r.line \in Nat
BY DEF Row

\* The fields of an entry are natural numbers.
LEMMA EntryFields ==
  ASSUME NEW e \in Entry
  PROVE  e.k_off \in Nat /\ e.k_len \in Nat /\ e.v_off \in Nat /\ e.v_len \in Nat
BY StoreAssumption DEF Entry, U32

\* A u32 sum that fits does not wrap.
LEMMA AddU32Fits ==
  ASSUME NEW x \in Nat, NEW y \in Nat, x + y <= U32Max
  PROVE  AddU32(x, y) = x + y
BY StoreAssumption DEF AddU32

\* The parts of a sum that fits in u32 fit too.
LEMMA SumInU32 ==
  ASSUME NEW x \in Nat, NEW y \in Nat, NEW z \in Nat, x + y + z <= U32Max
  PROVE  /\ x \in U32 /\ y \in U32 /\ x + y \in U32 /\ z \in U32
         /\ x + y \in Nat /\ x + y + z \in Nat /\ x <= x + y + z
BY StoreAssumption DEF U32

\* A sequence of one element.
LEMMA SingletonSeq ==
  ASSUME NEW S, NEW x \in S
  PROVE  <<x>> \in Seq(S)
OBVIOUS

\* A DataError has the type of one, alone or in a report.
LEMMA DataErrorType ==
  ASSUME NEW l \in Nat, NEW k \in ErrorKind, NEW a \in Nat
  PROVE  /\ DataError(l, k, a) \in ErrorRecord
         /\ <<DataError(l, k, a)>> \in Seq(ErrorRecord)
<1>1. DataError(l, k, a) \in ErrorRecord
  BY DEF DataError, ErrorRecord
<1> QED
  BY <1>1, SingletonSeq

\* A report that grows by an error is a report.
LEMMA ReportGrows ==
  ASSUME NEW r \in Seq(ErrorRecord), NEW l \in Nat, NEW k \in ErrorKind, NEW a \in Nat
  PROVE  Append(r, DataError(l, k, a)) \in Seq(ErrorRecord)
BY DataErrorType, AppendProperties

\* The key of an entry that lies in the arena, whose u32 sum cannot wrap.
LEMMA KeyInArena ==
  ASSUME NEW a, Len(a) \in Nat, Len(a) <= U32Max, NEW e \in Entry,
         e.k_off + e.k_len = e.v_off, e.v_off + e.v_len <= Len(a)
  PROVE  /\ KeyOf(a, e) = Slice(a, e.k_off, e.v_off)
         /\ e.v_off <= Len(a)
<1>1. e.k_off \in Nat /\ e.k_len \in Nat /\ e.v_off \in Nat /\ e.v_len \in Nat
  BY EntryFields
<1>2. e.k_off + e.k_len <= U32Max
  BY <1>1, StoreAssumption
<1>3. AddU32(e.k_off, e.k_len) = e.v_off
  BY <1>1, <1>2, AddU32Fits
<1> QED
  BY <1>1, <1>3 DEF KeyOf

\* The value of an entry that lies in the arena.
LEMMA ValInArena ==
  ASSUME NEW a, Len(a) \in Nat, Len(a) <= U32Max, NEW e \in Entry, e.v_off + e.v_len <= Len(a)
  PROVE  ValOf(a, e) = Slice(a, e.v_off, e.v_off + e.v_len)
<1>1. e.v_off \in Nat /\ e.v_len \in Nat
  BY EntryFields
<1>2. e.v_off + e.v_len <= U32Max
  BY <1>1, StoreAssumption
<1>3. AddU32(e.v_off, e.v_len) = e.v_off + e.v_len
  BY <1>1, <1>2, AddU32Fits
<1> QED
  BY <1>3 DEF ValOf

\* Entries keep their key and value when something is appended to the arena.
LEMMA WindowsKept ==
  ASSUME NEW a \in Seq(Byte), NEW b \in Seq(Byte), Len(a \o b) <= U32Max, NEW e \in Entry,
         e.k_off + e.k_len = e.v_off, e.v_off + e.v_len <= Len(a)
  PROVE  KeyOf(a \o b, e) = KeyOf(a, e) /\ ValOf(a \o b, e) = ValOf(a, e)
<1>1. e.k_off \in Nat /\ e.k_len \in Nat /\ e.v_off \in Nat /\ e.v_len \in Nat
  BY EntryFields
<1>2. Len(a) \in Nat /\ Len(a \o b) \in Nat /\ Len(a) <= Len(a \o b)
  <2>1. Len(a \o b) = Len(a) + Len(b) /\ Len(a) \in Nat /\ Len(b) \in Nat
    BY ConcatProperties, LenProperties
  <2> QED
    BY <2>1
<1>3. Len(a) <= U32Max /\ e.v_off <= Len(a) /\ e.v_off + e.v_len \in Nat /\ e.v_off + e.v_len <= Len(a \o b)
  BY <1>1, <1>2, StoreAssumption
<1>4. /\ KeyOf(a, e) = Slice(a, e.k_off, e.v_off) /\ KeyOf(a \o b, e) = Slice(a \o b, e.k_off, e.v_off)
      /\ ValOf(a, e) = Slice(a, e.v_off, e.v_off + e.v_len)
      /\ ValOf(a \o b, e) = Slice(a \o b, e.v_off, e.v_off + e.v_len)
  BY <1>2, <1>3, KeyInArena, ValInArena
<1>5. Slice(a \o b, e.k_off, e.v_off) = Slice(a, e.k_off, e.v_off)
  BY <1>1, <1>3, SliceKept
<1>6. Slice(a \o b, e.v_off, e.v_off + e.v_len) = Slice(a, e.v_off, e.v_off + e.v_len)
  BY <1>1, <1>3, SliceKept
<1> QED
  BY <1>4, <1>5, <1>6

\* An entry made for a key and a value that are appended has them.
LEMMA WindowsAppended ==
  ASSUME NEW a \in Seq(Byte), NEW k \in Seq(Byte), NEW v \in Seq(Byte), NEW e \in Entry,
         Len(a) + Len(k) + Len(v) <= U32Max,
         e.k_off = Len(a), e.k_len = Len(k), e.v_off = Len(a) + Len(k), e.v_len = Len(v)
  PROVE  KeyOf(a \o k \o v, e) = k /\ ValOf(a \o k \o v, e) = v
<1>1. Len(a) \in Nat /\ Len(k) \in Nat /\ Len(v) \in Nat
  BY LenProperties
<1>2. a \o k \in Seq(Byte) /\ Len(a \o k) = Len(a) + Len(k)
  BY ConcatProperties
<1>3. Len(a \o k \o v) = Len(a) + Len(k) + Len(v)
  BY <1>2, ConcatProperties
<1>4. KeyOf(a \o k \o v, e) = Slice(a \o k \o v, Len(a), Len(a) + Len(k))
  <2>1. /\ Len(a \o k \o v) \in Nat /\ Len(a \o k \o v) <= U32Max /\ e.k_off + e.k_len = e.v_off
        /\ e.v_off + e.v_len <= Len(a \o k \o v)
    BY <1>1, <1>3
  <2> QED
    BY <2>1, KeyInArena
<1>5. ValOf(a \o k \o v, e) = Slice(a \o k \o v, Len(a \o k), Len(a \o k) + Len(v))
  <2>1. /\ Len(a \o k \o v) \in Nat /\ Len(a \o k \o v) <= U32Max
        /\ e.v_off + e.v_len <= Len(a \o k \o v)
    BY <1>1, <1>3
  <2> QED
    BY <1>2, <2>1, ValInArena
<1>6. Slice(a \o k \o v, Len(a), Len(a) + Len(k)) = k
  BY SliceAppended
<1>7. Slice(a \o k \o v, Len(a \o k), Len(a \o k) + Len(v)) = v
  <2> DEFINE b == a \o k
  <2>1. <<>> \in Seq(Byte) /\ b \in Seq(Byte) /\ b \o v \in Seq(Byte)
    BY <1>2, ConcatProperties
  <2> HIDE DEF b
  <2>2. b \o v \o <<>> = b \o v
    BY <2>1, ConcatEmptySeq
  <2>3. Slice(b \o v \o <<>>, Len(b), Len(b) + Len(v)) = v
    BY <2>1, SliceAppended
  <2>4. Slice(b \o v, Len(b), Len(b) + Len(v)) = v
    BY <2>2, <2>3
  <2> QED
    BY <2>4 DEF b
<1> QED
  BY <1>4, <1>5, <1>6, <1>7

------------------------------------------------------------------------------
(* The invariant *)

\* What is wrong with a row's value, as a report.
LEMMA Utf8ErrorsType ==
  ASSUME row \in Row
  PROVE  Utf8Errors \in Seq(ErrorRecord)
<1>1. row.line \in Nat
  BY RowFields
<1>2. "InvalidUtf8Value" \in ErrorKind /\ 0 \in Nat
  BY DEF ErrorKind
<1>3. <<DataError(row.line, "InvalidUtf8Value", 0)>> \in Seq(ErrorRecord)
  BY <1>1, <1>2, DataErrorType
<1> QED
  BY <1>3 DEF Utf8Errors

\* A row that is read has the type of a row.
LEMMA RowType ==
  ASSUME LoaderIInv, Reading
  PROVE  row \in Row /\ pos + 1 \in 1..Len(file) + 1
BY DEF LoaderIInv, LoaderTypeOK, Reading, row

\* Parsing starts with nothing packed and nothing indexed.
LEMMA LoaderInitIInv == LoaderInit => LoaderIInv
<1> SUFFICES ASSUME LoaderInit PROVE LoaderIInv
  OBVIOUS
<1>1. file \in Seq(Row)
  BY FilesAssumption DEF LoaderInit
<1>2. pos \in 1..Len(file) + 1
  BY <1>1 DEF LoaderInit, FirstRow
<1> QED
  BY <1>1, <1>2, StoreAssumption
     DEF LoaderInit, LoaderIInv, LoaderTypeOK, EmptyArena, Packed, InArena,
         AllIndexed, NoDuplicateKeys

\* Steps that add no entry keep what is said about the entries.
LEMMA PartsKept ==
  ASSUME LoaderIInv, KeepParts, LoaderTypeOK'
  PROVE  LoaderIInv'
BY DEF LoaderIInv, LoaderTypeOK, KeepParts, EmptyArena, Packed, InArena,
   AllIndexed, NoDuplicateKeys, KeyOf, Slice

\* Appending a row keeps the invariant.
LEMMA AppendRowStep ==
  ASSUME LoaderIInv, AppendRow
  PROVE  LoaderIInv'
<1>inArena. \A k \in DOMAIN entries :
             /\ entries[k].k_off + entries[k].k_len = entries[k].v_off
             /\ entries[k].v_off + entries[k].v_len <= Len(arena)
  BY DEF LoaderIInv, InArena
<1> DEFINE e == NewEntry
           n == Len(entries)
<1>0. /\ row \in Row /\ Reading /\ pos + 1 \in 1..Len(file) + 1
      /\ arena \in Seq(Byte) /\ entries \in Seq(Entry) /\ lines \in Seq(Nat)
      /\ errors \in Seq(ErrorRecord) /\ file \in Seq(Row)
      /\ Len(lines) = n /\ n \in Nat /\ DOMAIN entries = 1..n
  BY RowType DEF AppendRow, KeyValue, LoaderIInv, LoaderTypeOK, Packed
<1>1a. row.key \in Seq(Byte) /\ row.val \in Seq(Byte) /\ row.line \in Nat
  BY <1>0, RowFields
<1>1. /\ row.key \in Seq(Byte) /\ row.val \in Seq(Byte) /\ row.line \in Nat
      /\ Len(row.key) \in Nat /\ Len(row.val) \in Nat /\ Len(arena) \in Nat
  BY <1>0, <1>1a, LenProperties
<1>fits. Len(arena) + Len(row.key) + Len(row.val) <= U32Max
  BY DEF AppendRow, Fits
<1>arena. arena' = arena \o row.key \o row.val
  BY DEF AppendRow
<1>lines. lines' = Append(lines, row.line)
  BY DEF AppendRow
<1>2. /\ arena' = arena \o row.key \o row.val
      /\ entries' = Append(entries, e) /\ lines' = Append(lines, row.line)
      /\ errors' = errors \o Utf8Errors
      /\ seen' = seen \cup {[hash |-> Hash(row.key), idx |-> n + 1]}
      /\ pos' = pos + 1 /\ recLine' = row.line
      /\ file' = file /\ result' = result
  BY DEF AppendRow, Fits, Advance
<1>3a. /\ e.k_off = Len(arena) /\ e.k_len = Len(row.key)
       /\ e.v_off = Len(arena) + Len(row.key) /\ e.v_len = Len(row.val)
  BY DEF NewEntry
<1>3. e \in Entry
  <2>1. /\ Len(arena) \in U32 /\ Len(row.key) \in U32
        /\ Len(arena) + Len(row.key) \in U32 /\ Len(row.val) \in U32
    BY <1>1, <1>fits, SumInU32
  <2> QED
    BY <2>1 DEF NewEntry, Entry
<1>4. /\ arena' \in Seq(Byte)
      /\ Len(arena') = Len(arena) + Len(row.key) + Len(row.val)
  BY <1>0, <1>1, <1>arena, ConcatProperties
<1> HIDE DEF e
<1>5. /\ entries' \in Seq(Entry) /\ Len(entries') = n + 1
      /\ DOMAIN entries' = 1..n + 1
      /\ \A i \in 1..n : entries'[i] = entries[i]
      /\ entries'[n + 1] = e
  BY <1>0, <1>2, <1>3, AppendProperties
<1>6. lines' \in Seq(Nat) /\ Len(lines') = n + 1
  BY <1>0, <1>1, <1>lines, AppendProperties
<1>old. ASSUME NEW i \in 1..n
        PROVE  /\ entries[i] \in Entry /\ entries'[i] = entries[i]
               /\ entries[i].k_off \in Nat /\ entries[i].k_len \in Nat
               /\ entries[i].v_off \in Nat /\ entries[i].v_len \in Nat
               /\ entries[i].k_off + entries[i].k_len = entries[i].v_off
               /\ entries[i].v_off + entries[i].v_len <= Len(arena)
               /\ entries[i].v_off <= Len(arena)
  <2>1. entries[i] \in Entry /\ entries'[i] = entries[i]
    BY <1>0, <1>5
  <2>2. /\ entries[i].k_off \in Nat /\ entries[i].k_len \in Nat
        /\ entries[i].v_off \in Nat /\ entries[i].v_len \in Nat
    BY <2>1, EntryFields
  <2>3. /\ entries[i].k_off + entries[i].k_len = entries[i].v_off
        /\ entries[i].v_off + entries[i].v_len <= Len(arena)
    BY <1>0, <1>inArena
  <2> QED
    BY <1>1, <2>1, <2>2, <2>3
<1>sum. /\ e.k_off + e.k_len = e.v_off /\ e.v_off + e.v_len = Len(arena')
        /\ e.k_off \in Nat /\ e.v_off \in Nat /\ Len(arena') \in Nat
        /\ Len(arena') <= U32Max /\ Len(arena) <= Len(arena')
  <2>1. /\ Len(arena) + Len(row.key) \in Nat
        /\ Len(arena) + Len(row.key) + Len(row.val) \in Nat
        /\ Len(arena) <= Len(arena) + Len(row.key) + Len(row.val)
    BY <1>1, <1>fits, SumInU32
  <2>2. e.k_off + e.k_len = e.v_off /\ e.v_off + e.v_len = Len(arena')
    BY <1>3a, <1>4
  <2> QED
    BY <1>1, <1>fits, <1>3a, <1>4, <2>1, <2>2
<1>7. InArena'
  <2> SUFFICES ASSUME NEW i \in 1..n + 1
               PROVE  /\ entries'[i].k_off + entries'[i].k_len = entries'[i].v_off
                      /\ entries'[i].v_off + entries'[i].v_len <= Len(arena')
    BY <1>5 DEF InArena
  <2>1. CASE i \in 1..n
    <3>1. /\ entries'[i] = entries[i] /\ entries[i].v_off \in Nat /\ entries[i].v_len \in Nat
          /\ entries[i].k_off + entries[i].k_len = entries[i].v_off
          /\ entries[i].v_off + entries[i].v_len <= Len(arena)
      BY <2>1, <1>old
    <3>2. Len(arena) \in Nat /\ Len(arena') \in Nat /\ Len(arena) <= Len(arena')
      BY <1>1, <1>sum
    <3> QED
      BY <3>1, <3>2
  <2>2. CASE i = n + 1
    BY <2>2, <1>5, <1>sum
  <2> QED
    BY <2>1, <2>2, <1>0
<1>8. ASSUME NEW i \in 1..n
      PROVE  KeyOf(arena', entries'[i]) = KeyOf(arena, entries[i])
  <2> DEFINE b == row.key \o row.val
             x == entries[i]
  <2>1. b \in Seq(Byte) /\ x \in Entry /\ entries'[i] = x
    BY <1>1, <1>old, ConcatProperties
  <2>2. arena' = arena \o b
    <3>1. \A s, t, u \in Seq(Byte) : s \o t \o u = s \o (t \o u)
      BY ConcatAssociative
    <3> QED
      BY <1>0, <1>1, <1>arena, <3>1
  <2>3. x.k_off + x.k_len = x.v_off /\ x.v_off + x.v_len <= Len(arena)
    BY <1>old
  <2>4. Len(arena \o b) <= U32Max
    BY <1>sum, <2>2
  <2> HIDE DEF b, x
  <2>5. KeyOf(arena \o b, x) = KeyOf(arena, x)
    BY <1>0, <2>1, <2>3, <2>4, WindowsKept
  <2> QED
    BY <2>1, <2>2, <2>5 DEF x
<1>9. KeyOf(arena', e) = row.key
  <2> DEFINE k == row.key
             v == row.val
  <2>1. /\ arena \in Seq(Byte) /\ k \in Seq(Byte) /\ v \in Seq(Byte)
        /\ Len(arena) + Len(k) + Len(v) <= U32Max
        /\ e.k_off = Len(arena) /\ e.k_len = Len(k)
        /\ e.v_off = Len(arena) + Len(k) /\ e.v_len = Len(v)
    BY <1>0, <1>1, <1>3a, <1>fits
  <2> HIDE DEF k, v
  <2>2. KeyOf(arena \o k \o v, e) = k /\ ValOf(arena \o k \o v, e) = v
    BY <1>3, <2>1, WindowsAppended
  <2> QED
    BY <1>arena, <2>2 DEF k, v
<1>10. LoaderTypeOK'
  <2>1. Utf8Errors \in Seq(ErrorRecord)
    BY <1>0, Utf8ErrorsType
  <2>2. errors' \in Seq(ErrorRecord)
    BY <1>0, <1>2, <2>1, ConcatProperties
  <2>3. \A s \in seen' : s.idx \in 1..Len(entries')
    <3>1. \A s \in seen : s.idx \in 1..n
      BY DEF LoaderIInv, LoaderTypeOK
    <3> QED
      BY <1>0, <1>2, <1>5, <3>1
  <2>4. result' \in {"loading", "ok", "err"}
    BY <1>2 DEF LoaderIInv, LoaderTypeOK
  <2> QED
    BY <1>0, <1>1, <1>2, <1>4, <1>5, <1>6, <2>2, <2>3, <2>4 DEF LoaderTypeOK
<1>11. Packed'
  <2>1. ASSUME n = 0
        PROVE  Len(arena) = 0
    <3>1. entries = <<>>
      BY <1>0, <2>1, EmptySeq
    <3> QED
      BY <3>1 DEF LoaderIInv, EmptyArena
  <2> SUFFICES ASSUME NEW i \in 1..n + 1
               PROVE  LET x == entries'[i]
                          end == IF i = n + 1 THEN Len(arena') ELSE entries'[i + 1].k_off IN
                      /\ i = 1 => x.k_off = 0
                      /\ x.k_off + x.k_len = x.v_off
                      /\ x.v_off + x.v_len = end
    BY <1>5, <1>6, <1>sum DEF Packed
  <2>2. CASE i = n + 1
    <3>1. entries'[i] = e
      BY <1>5, <2>2
    <3>2. i = 1 => e.k_off = 0
      BY <1>0, <1>3a, <2>1, <2>2
    <3> QED
      BY <1>sum, <2>2, <3>1, <3>2
  <2>3. CASE i \in 1..n
    <3>1. /\ i = 1 => entries[i].k_off = 0
          /\ entries[i].k_off + entries[i].k_len = entries[i].v_off
          /\ entries[i].v_off + entries[i].v_len
               = IF i = n THEN Len(arena) ELSE entries[i + 1].k_off
      BY <1>0, <2>3 DEF LoaderIInv, Packed
    <3>2. CASE i = n
      <4>1. entries'[i] = entries[i] /\ entries'[i + 1] = e
        BY <1>5, <2>3, <3>2
      <4>2. entries'[i + 1].k_off = Len(arena) /\ i # n + 1
        BY <1>0, <1>3a, <3>2, <4>1
      <4> QED
        BY <3>1, <3>2, <4>1, <4>2
    <3>3. CASE i # n
      <4>1. i + 1 \in 1..n
        BY <1>0, <2>3, <3>3
      <4>2. entries'[i] = entries[i] /\ entries'[i + 1] = entries[i + 1]
        BY <1>5, <2>3, <4>1
      <4>3. i # n + 1
        BY <1>0, <2>3
      <4> QED
        BY <3>1, <3>3, <4>2, <4>3
    <3> QED
      BY <3>2, <3>3
  <2> QED
    BY <1>0, <2>2, <2>3
<1>12. AllIndexed'
  <2> SUFFICES ASSUME NEW i \in 1..n + 1
               PROVE  [hash |-> Hash(KeyOf(arena', entries'[i])), idx |-> i] \in seen'
    BY <1>5 DEF AllIndexed
  <2>1. CASE i \in 1..n
    <3>1. [hash |-> Hash(KeyOf(arena, entries[i])), idx |-> i] \in seen
      BY <1>0, <2>1 DEF LoaderIInv, AllIndexed
    <3>2. KeyOf(arena', entries'[i]) = KeyOf(arena, entries[i])
      BY <1>8, <2>1
    <3> QED
      BY <1>2, <3>1, <3>2
  <2>2. CASE i = n + 1
    <3>1. KeyOf(arena', entries'[i]) = row.key
      BY <1>5, <1>9, <2>2
    <3> QED
      BY <1>2, <2>2, <3>1
  <2> QED
    BY <1>0, <2>1, <2>2
<1>13. NoDuplicateKeys'
  <2>1. ASSUME NEW i \in 1..n, KeyOf(arena, entries[i]) = row.key
        PROVE  FALSE
    <3>1. [hash |-> Hash(row.key), idx |-> i] \in seen
      BY <1>0, <2>1 DEF LoaderIInv, AllIndexed
    <3> DEFINE t == [hash |-> Hash(row.key), idx |-> i]
    <3>2. t \in seen /\ t.hash = Hash(row.key) /\ t.idx = i
      BY <3>1
    <3>3. t \in {u \in seen : /\ u.hash = Hash(row.key)
                              /\ KeyOf(arena, entries[u.idx]) = row.key}
      <4> HIDE DEF t
      <4> QED
        BY <2>1, <3>2
    <3>4. i \in Dup
      <4> HIDE DEF t
      <4> QED
        BY <3>2, <3>3 DEF Dup
    <3>5. Dup = {}
      BY DEF AppendRow
    <3> QED
      BY <3>4, <3>5
  <2> SUFFICES ASSUME NEW i \in 1..n + 1, NEW j \in 1..n + 1,
                      KeyOf(arena', entries'[i]) = KeyOf(arena', entries'[j])
               PROVE  i = j
    BY <1>5 DEF NoDuplicateKeys
  <2>3. CASE i \in 1..n /\ j \in 1..n
    <3>1. KeyOf(arena, entries[i]) = KeyOf(arena, entries[j])
      BY <1>8, <2>3
    <3> QED
      BY <1>0, <2>3, <3>1 DEF LoaderIInv, NoDuplicateKeys
  <2>4. CASE i = n + 1 /\ j \in 1..n
    BY <1>5, <1>8, <1>9, <2>1, <2>4
  <2>5. CASE i \in 1..n /\ j = n + 1
    BY <1>5, <1>8, <1>9, <2>1, <2>5
  <2>6. CASE i = n + 1 /\ j = n + 1
    BY <2>6
  <2> QED
    BY <1>0, <2>3, <2>4, <2>5, <2>6
<1>14. file' \in Seq(Row) /\ EmptyArena'
  <2>1. Len(entries') # 0
    BY <1>0, <1>5
  <2>2. entries' # <<>>
    BY <2>1
  <2> QED
    BY <1>0, <1>2, <2>2 DEF EmptyArena
<1> QED
  BY <1>7, <1>10, <1>11, <1>12, <1>13, <1>14 DEF LoaderIInv

\* Every step of the parser keeps the invariant.
LEMMA LoaderNextIInv == LoaderIInv /\ [LoaderNext]_loaderVars => LoaderIInv'
<1> SUFFICES ASSUME LoaderIInv, [LoaderNext]_loaderVars PROVE LoaderIInv'
  OBVIOUS
<1>0. /\ errors \in Seq(ErrorRecord) /\ recLine \in Nat /\ lines \in Seq(Nat)
      /\ pos \in 1..Len(file) + 1 /\ Len(lines) = Len(entries)
      /\ \A s \in seen : s.idx \in 1..Len(entries)
  BY DEF LoaderIInv, LoaderTypeOK, Packed
\* A step that only extends the report, and may move to the next row.
<1>kept. ASSUME KeepParts, errors' \in Seq(ErrorRecord), pos' \in 1..Len(file) + 1,
                recLine' \in Nat, result' \in {"loading", "ok", "err"}
         PROVE  LoaderIInv'
  <2>1. LoaderTypeOK'
    BY <1>kept DEF LoaderIInv, LoaderTypeOK, KeepParts
  <2> QED
    BY <1>kept, <2>1, PartsKept
<1>result. result \in {"loading", "ok", "err"}
  BY DEF LoaderIInv, LoaderTypeOK
<1>1. CASE Eof
  <2>1. /\ KeepParts /\ errors' = errors /\ pos' = pos /\ recLine' = recLine
        /\ result' \in {"loading", "ok", "err"}
    BY <1>1 DEF Eof
  <2> QED
    BY <2>1, <1>0, <1>kept
<1>2. CASE Malformed
  <2>1. /\ KeepParts /\ pos' = pos /\ recLine' = recLine
        /\ errors' = Append(errors, DataError(recLine + 1, "Malformed", 0))
        /\ result' \in {"loading", "ok", "err"}
    BY <1>2 DEF Malformed
  <2>2. errors' \in Seq(ErrorRecord)
    <3>1. recLine + 1 \in Nat /\ "Malformed" \in ErrorKind /\ 0 \in Nat
      BY <1>0 DEF ErrorKind
    <3> QED
      BY <1>0, <2>1, <3>1, ReportGrows
  <2> QED
    BY <2>1, <2>2, <1>0, <1>kept
<1>3. CASE WrongColumns
  <2>1. row \in Row /\ pos + 1 \in 1..Len(file) + 1
    BY <1>3, RowType DEF WrongColumns
  <2>2. row.line \in Nat /\ row.cols \in Nat
    BY <2>1, RowFields
  <2>3. /\ KeepParts /\ pos' = pos + 1 /\ recLine' = row.line /\ result' = result
        /\ errors' = Append(errors, DataError(row.line, "WrongColumnCount", row.cols))
    BY <1>3 DEF WrongColumns, Advance
  <2>4. errors' \in Seq(ErrorRecord)
    <3>1. "WrongColumnCount" \in ErrorKind
      BY DEF ErrorKind
    <3> QED
      BY <1>0, <2>2, <2>3, <3>1, ReportGrows
  <2> QED
    BY <2>1, <2>2, <2>3, <2>4, <1>result, <1>kept
<1>4. CASE Duplicate
  <2>1. row \in Row /\ pos + 1 \in 1..Len(file) + 1
    BY <1>4, RowType DEF Duplicate, KeyValue
  <2>2. row.line \in Nat
    BY <2>1, RowFields
  <2>3. KeepParts /\ pos' = pos + 1 /\ recLine' = row.line /\ result' = result
    BY <1>4 DEF Duplicate, Advance
  <2>4. PICK idx \in Dup :
          errors' = Append(errors, DataError(row.line, "DuplicateKey", lines[idx])) \o Utf8Errors
    BY <1>4 DEF Duplicate
  <2>5. lines[idx] \in Nat
    <3>1. idx \in 1..Len(lines)
      BY <1>0 DEF Dup
    <3> QED
      BY <1>0, <3>1, ElementOfSeq
  <2>6. Append(errors, DataError(row.line, "DuplicateKey", lines[idx])) \in Seq(ErrorRecord)
    <3>1. "DuplicateKey" \in ErrorKind
      BY DEF ErrorKind
    <3> QED
      BY <1>0, <2>2, <2>5, <3>1, ReportGrows
  <2>7. errors' \in Seq(ErrorRecord)
    BY <2>1, <2>4, <2>6, Utf8ErrorsType, ConcatProperties
  <2> QED
    BY <2>1, <2>2, <2>3, <2>7, <1>result, <1>kept
<1>5. CASE TooLarge
  <2>1. row \in Row
    BY <1>5, RowType DEF TooLarge, KeyValue
  <2>2. row.line \in Nat /\ "TooLarge" \in ErrorKind /\ 0 \in Nat
    BY <2>1, RowFields DEF ErrorKind
  <2>3. Utf8Errors \in Seq(ErrorRecord)
    BY <2>1, Utf8ErrorsType
  <2>4. <<DataError(row.line, "TooLarge", 0)>> \in Seq(ErrorRecord)
    BY <2>2, DataErrorType
  <2>5. /\ KeepParts /\ pos' = pos /\ recLine' = recLine
        /\ result' \in {"loading", "ok", "err"}
        /\ errors' = errors \o Utf8Errors \o <<DataError(row.line, "TooLarge", 0)>>
    BY <1>5 DEF TooLarge
  <2>6. errors' \in Seq(ErrorRecord)
    BY <1>0, <2>3, <2>4, <2>5, ConcatProperties
  <2> QED
    BY <2>5, <2>6, <1>0, <1>kept
<1>6. CASE AppendRow
  BY <1>6, AppendRowStep
<1>7. CASE UNCHANGED loaderVars
  <2>1. /\ KeepParts /\ pos' = pos /\ recLine' = recLine /\ errors' = errors
        /\ result' = result
    BY <1>7 DEF loaderVars, KeepParts
  <2> QED
    BY <2>1, <1>0, <1>result, <1>kept
<1> QED
  BY <1>1, <1>2, <1>3, <1>4, <1>5, <1>6, <1>7 DEF LoaderNext

\* The invariant holds throughout the parse.
THEOREM LoaderInvariance == LoaderSpec => []LoaderIInv
BY LoaderInitIInv, LoaderNextIInv, PTL DEF LoaderSpec

\* Every variable keeps its type.
THEOREM LoaderTypeCorrect == LoaderSpec => []LoaderTypeOK
<1>1. LoaderIInv => LoaderTypeOK
  BY DEF LoaderIInv
<1> QED
  BY <1>1, LoaderInvariance, PTL

\* The entries always tile an arena that u32 offsets can address.
THEOREM ArenaIsPacked == LoaderSpec => []Packed
<1>1. LoaderIInv => Packed
  BY DEF LoaderIInv
<1> QED
  BY <1>1, LoaderInvariance, PTL

\* No key is ever entered twice, for any hash function.
THEOREM KeysAreUnique == LoaderSpec => []NoDuplicateKeys
<1>1. LoaderIInv => NoDuplicateKeys
  BY DEF LoaderIInv
<1> QED
  BY <1>1, LoaderInvariance, PTL

------------------------------------------------------------------------------
(* What the parts and the report mean *)

\* The rows the parser has looked at, the one that made it stop included.
Looked == {j \in DataRows : j < pos \/ (j = pos /\ result = "err")}

\* No row that is behind stopped the parser.
NothingStopped == \A j \in DataRows : j < pos => file[j].ok /\ ~Oversize(j)

\* Every entry is the first row of its key.
EntriesAreRows ==
  \A i \in DOMAIN entries : \E j \in DataRows :
    /\ j < pos /\ TwoColumns(j) /\ FirstWithKey(j) = j
    /\ file[j].key = KeyOf(arena, entries[i]) /\ file[j].val = ValOf(arena, entries[i])
    /\ file[j].line = lines[i]

\* Every row of two columns has an entry with its key.
RowsHaveEntries ==
  \A j \in DataRows : j < pos /\ TwoColumns(j) =>
    \E i \in DOMAIN entries : KeyOf(arena, entries[i]) = file[j].key

\* As many entries and as large an arena as the distinct keys make.
Sizes ==
  /\ Len(entries) = Cardinality(NewKeyRows(pos - 1))
  /\ Len(arena) = PackedSize(pos - 1)

\* The reader's position is the line of the row before.
Position ==
  /\ FirstRow(file, opts) <= pos
  /\ recLine = IF pos = FirstRow(file, opts) THEN 0 ELSE file[pos - 1].line

ProblemCounts == [i \in DataRows |-> Cardinality(Problems(i))]

Sorted(r) == \A i, j \in DOMAIN r : i < j => r[i].line <= r[j].line

\* The report is complete, and in order, as far as the parser has come.
ReportSoFar ==
  /\ ToSet(errors) = AllProblems(Looked)
  /\ Len(errors) = SumFunctionOnSet(ProblemCounts, Looked)
  /\ Sorted(errors)
  /\ result = "loading" => \A i \in DOMAIN errors : errors[i].line <= recLine

\* Why the parser stopped.
Verdict ==
  /\ result = "ok" => errors = <<>> /\ pos > Len(file)
  /\ result = "err" /\ pos <= Len(file) => ~file[pos].ok \/ Oversize(pos)

MeaningIInv ==
  /\ LoaderIInv /\ Sorted(file)
  /\ NothingStopped /\ EntriesAreRows /\ RowsHaveEntries /\ Sizes
  /\ Position /\ ReportSoFar /\ Verdict

------------------------------------------------------------------------------
(* Rows *)

\* The rows of the dataset proper: all of the file but the header.
LEMMA DataRowsType ==
  ASSUME file \in Seq(Row)
  PROVE  /\ FirstRow(file, opts) \in {1, 2} /\ Len(file) \in Nat
         /\ DataRows \subseteq 1..Len(file) /\ DataRows \subseteq Nat /\ IsFiniteSet(DataRows)
         /\ \A i \in DataRows : /\ file[i] \in Row /\ file[i].line \in Nat /\ file[i].cols \in Nat
                                /\ Len(file[i].key) \in Nat /\ Len(file[i].val) \in Nat
<1>1. FirstRow(file, opts) \in {1, 2} /\ Len(file) \in Nat
  BY DEF FirstRow
<1>2. DataRows \subseteq 1..Len(file) /\ DataRows \subseteq Nat
  BY <1>1 DEF DataRows
<1>3. IsFiniteSet(DataRows)
  BY <1>1, FS_Interval DEF DataRows
<1>4. ASSUME NEW i \in DataRows
      PROVE  /\ file[i] \in Row /\ file[i].line \in Nat /\ file[i].cols \in Nat
             /\ Len(file[i].key) \in Nat /\ Len(file[i].val) \in Nat
  <2>1. file[i] \in Row
    BY <1>2
  <2>2. file[i].key \in Seq(Byte) /\ file[i].val \in Seq(Byte)
    BY <2>1, RowFields
  <2> QED
    BY <2>1, <2>2, RowFields, LenProperties
<1> QED
  BY <1>1, <1>2, <1>3, <1>4

\* The first row with a key: no row with the key comes before it, and all of them
\* have the same.
LEMMA FirstWithKeyIs ==
  ASSUME file \in Seq(Row), NEW i \in DataRows, TwoColumns(i)
  PROVE  /\ FirstWithKey(i) \in DataRows /\ TwoColumns(FirstWithKey(i)) /\ FirstWithKey(i) <= i
         /\ file[FirstWithKey(i)].key = file[i].key
         /\ FirstWithKey(FirstWithKey(i)) = FirstWithKey(i)
         /\ \A j \in DataRows : TwoColumns(j) /\ file[j].key = file[i].key =>
              FirstWithKey(i) <= j /\ FirstWithKey(j) = FirstWithKey(i)
<1> DEFINE S(k) == {j \in DataRows : TwoColumns(j) /\ file[j].key = k}
<1>1. \A j : FirstWithKey(j) = Min(S(file[j].key))
  BY DEF FirstWithKey
<1>2. S(file[i].key) \subseteq Nat /\ i \in S(file[i].key)
  BY DataRowsType
<1>3. Min(S(file[i].key)) \in S(file[i].key) /\ \A j \in S(file[i].key) : Min(S(file[i].key)) <= j
  <2> HIDE DEF S
  <2> QED
    BY <1>2, MinOfNats
<1>4. /\ FirstWithKey(i) \in S(file[i].key)
      /\ \A j \in S(file[i].key) : FirstWithKey(i) <= j /\ FirstWithKey(j) = FirstWithKey(i)
  BY <1>1, <1>3
<1> QED
  BY <1>2, <1>4

LEMMA RegroupSum ==
  ASSUME NEW x \in Nat, NEW y \in Nat
  PROVE  x + y \in Nat /\ \A q \in Nat : (x + y) + q = q + x + y
OBVIOUS

\* What a row adds to the keys that are packed.
LEMMA NewKeyRowsStep ==
  ASSUME file \in Seq(Row), NEW p \in DataRows
  PROVE  /\ IsFiniteSet(NewKeyRows(p - 1)) /\ Cardinality(NewKeyRows(p - 1)) \in Nat
         /\ PackedSize(p - 1) \in Nat
         /\ ~TwoColumns(p) \/ FirstWithKey(p) # p =>
              NewKeyRows(p) = NewKeyRows(p - 1) /\ PackedSize(p) = PackedSize(p - 1)
         /\ TwoColumns(p) /\ FirstWithKey(p) = p =>
              /\ Cardinality(NewKeyRows(p)) = Cardinality(NewKeyRows(p - 1)) + 1
              /\ PackedSize(p) = PackedSize(p - 1) + Len(file[p].key) + Len(file[p].val)
<1> DEFINE w == [j \in DataRows |-> Len(file[j].key) + Len(file[j].val)]
           S == NewKeyRows(p - 1)
<1>1. p \in Nat /\ DataRows \subseteq Nat /\ IsFiniteSet(DataRows)
  BY DataRowsType
<1>2. S \in SUBSET DataRows /\ p \notin S
  BY <1>1 DEF NewKeyRows
<1>3. IsFiniteSet(S) /\ Cardinality(S) \in Nat
  BY <1>1, <1>2, FS_Subset, FS_CardinalityType
<1>4. ASSUME NEW j \in DataRows
      PROVE  w[j] \in Nat /\ w[j] = Len(file[j].key) + Len(file[j].val)
  <2>1. Len(file[j].key) \in Nat /\ Len(file[j].val) \in Nat
    BY DataRowsType
  <2>2. w[j] = Len(file[j].key) + Len(file[j].val)
    OBVIOUS
  <2>3. Len(file[j].key) + Len(file[j].val) \in Nat
    BY <2>1, RegroupSum
  <2> HIDE DEF w
  <2> QED
    BY <2>2, <2>3
<1>5. /\ PackedSize(p - 1) = SumFunctionOnSet(w, S)
      /\ PackedSize(p) = SumFunctionOnSet(w, NewKeyRows(p))
  BY DEF PackedSize
<1>6. PackedSize(p - 1) \in Nat
  <2>1. \A j \in S : w[j] \in Nat
    BY <1>2, <1>4
  <2> HIDE DEF w, S
  <2> QED
    BY <1>3, <1>5, <2>1, SumType
<1>7. ASSUME ~TwoColumns(p) \/ FirstWithKey(p) # p PROVE NewKeyRows(p) = S
  <2>1. \A j \in DataRows : j # p => (j <= p <=> j <= p - 1)
    BY <1>1
  <2> QED
    BY <1>7, <2>1, <1>2 DEF NewKeyRows
<1>8. ASSUME TwoColumns(p), FirstWithKey(p) = p
      PROVE  /\ Cardinality(NewKeyRows(p)) = Cardinality(S) + 1
             /\ PackedSize(p) = PackedSize(p - 1) + Len(file[p].key) + Len(file[p].val)
  <2>1. NewKeyRows(p) = S \cup {p}
    <3>1. \A j \in DataRows : j # p => (j <= p <=> j <= p - 1)
      BY <1>1
    <3>2. p <= p
      BY <1>1
    <3> QED
      BY <1>8, <3>1, <3>2, <1>2 DEF NewKeyRows
  <2>2. Cardinality(S \cup {p}) = Cardinality(S) + 1
    <3> HIDE DEF S
    <3> QED
      BY <1>2, <1>3, FS_AddElement
  <2>3. SumFunctionOnSet(w, S \cup {p}) = w[p] + SumFunctionOnSet(w, S)
    <3>1. \A j \in S : w[j] \in Nat
      BY <1>2, <1>4
    <3>2. w[p] \in Nat
      BY <1>4
    <3> HIDE DEF w, S
    <3> QED
      BY <1>2, <1>3, <3>1, <3>2, SumAdd
  <2>4. Len(file[p].key) \in Nat /\ Len(file[p].val) \in Nat
    BY DataRowsType
  <2>5. PackedSize(p) = w[p] + PackedSize(p - 1)
    BY <1>5, <2>1, <2>3
  <2>6. w[p] = Len(file[p].key) + Len(file[p].val)
    BY <1>4
  <2> HIDE DEF w
  <2>7. PackedSize(p) = PackedSize(p - 1) + Len(file[p].key) + Len(file[p].val)
    <3>1. (Len(file[p].key) + Len(file[p].val)) + PackedSize(p - 1)
            = PackedSize(p - 1) + Len(file[p].key) + Len(file[p].val)
      BY <1>6, <2>4, RegroupSum
    <3> QED
      BY <2>5, <2>6, <3>1
  <2> QED
    BY <2>1, <2>2, <2>7
<1> QED
  BY <1>3, <1>5, <1>6, <1>7, <1>8

\* Where a row that cannot be read is reported.
MalformedLine(i) == IF i = FirstRow(file, opts) THEN 1 ELSE file[i - 1].line + 1

BadValue(i) == TwoColumns(i) /\ ~opts.allow_binary /\ ~Utf8(file[i].val)

\* Problems, one kind at a time.
LEMMA ProblemsAre ==
  ASSUME NEW i
  PROVE  Problems(i) =
           (IF file[i].ok THEN {} ELSE {DataError(MalformedLine(i), "Malformed", 0)})
           \cup (IF file[i].ok /\ file[i].cols # 2
                 THEN {DataError(file[i].line, "WrongColumnCount", file[i].cols)} ELSE {})
           \cup (IF TwoColumns(i) /\ FirstWithKey(i) < i
                 THEN {DataError(file[i].line, "DuplicateKey", file[FirstWithKey(i)].line)} ELSE {})
           \cup (IF BadValue(i) THEN {DataError(file[i].line, "InvalidUtf8Value", 0)} ELSE {})
           \cup (IF Oversize(i) THEN {DataError(file[i].line, "TooLarge", 0)} ELSE {})
<1> DEFINE m == DataError(MalformedLine(i), "Malformed", 0)
           c == DataError(file[i].line, "WrongColumnCount", file[i].cols)
           d == DataError(file[i].line, "DuplicateKey", IF TwoColumns(i) THEN file[FirstWithKey(i)].line ELSE 0)
           u == DataError(file[i].line, "InvalidUtf8Value", 0)
           t == DataError(file[i].line, "TooLarge", 0)
           Has(e) == CASE e.kind = "Malformed" -> ~file[i].ok
                       [] e.kind = "WrongColumnCount" -> file[i].ok /\ file[i].cols # 2
                       [] e.kind = "DuplicateKey" -> TwoColumns(i) /\ FirstWithKey(i) < i
                       [] e.kind = "InvalidUtf8Value" ->
                            TwoColumns(i) /\ ~opts.allow_binary /\ ~Utf8(file[i].val)
                       [] e.kind = "TooLarge" -> Oversize(i)
<1>1. m = IF i = FirstRow(file, opts) THEN DataError(1, "Malformed", 0)
          ELSE DataError(file[i - 1].line + 1, "Malformed", 0)
  BY DEF MalformedLine
<1>2. Problems(i) = {e \in {m, c, d, u, t} : Has(e)}
  <2> HIDE DEF m
  <2> QED
    BY <1>1 DEF Problems
<1>3. /\ m.kind = "Malformed" /\ c.kind = "WrongColumnCount" /\ d.kind = "DuplicateKey"
      /\ u.kind = "InvalidUtf8Value" /\ t.kind = "TooLarge"
  BY DEF DataError
<1>4. /\ Has(m) <=> ~file[i].ok
      /\ Has(c) <=> file[i].ok /\ file[i].cols # 2
      /\ Has(d) <=> TwoColumns(i) /\ FirstWithKey(i) < i
      /\ Has(u) <=> BadValue(i)
      /\ Has(t) <=> Oversize(i)
  <2> HIDE DEF m, c, d, u, t
  <2> QED
    BY <1>3 DEF BadValue
<1>5. TwoColumns(i) => d = DataError(file[i].line, "DuplicateKey", file[FirstWithKey(i)].line)
  OBVIOUS
<1> HIDE DEF Has, m, c, d, u, t
<1>6. Problems(i) = (IF file[i].ok THEN {} ELSE {m})
                    \cup (IF file[i].ok /\ file[i].cols # 2 THEN {c} ELSE {})
                    \cup (IF TwoColumns(i) /\ FirstWithKey(i) < i THEN {d} ELSE {})
                    \cup (IF BadValue(i) THEN {u} ELSE {})
                    \cup (IF Oversize(i) THEN {t} ELSE {})
  BY <1>2, <1>4
<1>7. (IF TwoColumns(i) /\ FirstWithKey(i) < i THEN {d} ELSE {})
        = IF TwoColumns(i) /\ FirstWithKey(i) < i
          THEN {DataError(file[i].line, "DuplicateKey", file[FirstWithKey(i)].line)} ELSE {}
  BY <1>5
<1> QED
  BY <1>6, <1>7 DEF m, c, u, t

------------------------------------------------------------------------------
(* Reports *)

\* A report that grows by errors on a line that is not above its last one.
LEMMA ReportConcat ==
  ASSUME NEW r \in Seq(ErrorRecord), NEW t \in Seq(ErrorRecord), NEW n \in Nat, NEW l \in Nat, n <= l,
         Sorted(r), \A i \in DOMAIN r : r[i].line <= n, \A i \in DOMAIN t : t[i].line = l
  PROVE  /\ r \o t \in Seq(ErrorRecord) /\ Len(r \o t) = Len(r) + Len(t)
         /\ ToSet(r \o t) = ToSet(r) \cup ToSet(t)
         /\ Sorted(r \o t) /\ \A i \in DOMAIN (r \o t) : (r \o t)[i].line <= l
<1> DEFINE s == r \o t
<1>1. /\ s \in Seq(ErrorRecord) /\ Len(s) = Len(r) + Len(t)
      /\ \A i \in 1..Len(r) : s[i] = r[i]
      /\ \A i \in 1..Len(t) : s[Len(r) + i] = t[i]
  BY ConcatProperties
<1>2. Len(r) \in Nat /\ Len(t) \in Nat /\ DOMAIN r = 1..Len(r) /\ DOMAIN t = 1..Len(t)
      /\ DOMAIN s = 1..Len(r) + Len(t)
  BY <1>1, LenProperties
<1> HIDE DEF s
<1>3. ASSUME NEW i \in DOMAIN s
      PROVE  \/ i \in DOMAIN r /\ s[i] = r[i]
             \/ i > Len(r) /\ i - Len(r) \in DOMAIN t /\ s[i] = t[i - Len(r)]
  <2>1. CASE i <= Len(r)
    BY <1>1, <1>2, <2>1
  <2>2. CASE i > Len(r)
    <3>1. i - Len(r) \in 1..Len(t) /\ Len(r) + (i - Len(r)) = i
      BY <1>2, <2>2
    <3>2. s[Len(r) + (i - Len(r))] = t[i - Len(r)]
      BY <1>1, <3>1
    <3> QED
      BY <1>2, <2>2, <3>1, <3>2
  <2> QED
    BY <1>2, <2>1, <2>2
<1>4. ToSet(s) = ToSet(r) \cup ToSet(t)
  <2>1. ToSet(s) \subseteq ToSet(r) \cup ToSet(t)
    BY <1>3 DEF ToSet
  <2>2. ToSet(r) \subseteq ToSet(s)
    <3>1. \A i \in DOMAIN r : i \in DOMAIN s /\ s[i] = r[i]
      BY <1>1, <1>2
    <3> QED
      BY <3>1 DEF ToSet
  <2>3. ToSet(t) \subseteq ToSet(s)
    <3>1. \A i \in DOMAIN t : Len(r) + i \in DOMAIN s /\ s[Len(r) + i] = t[i]
      BY <1>1, <1>2
    <3> QED
      BY <3>1 DEF ToSet
  <2> QED
    BY <2>1, <2>2, <2>3
<1>5. /\ \A i \in DOMAIN r : r[i].line \in Nat
      /\ \A i \in DOMAIN s : s[i].line \in Nat
  <2>1. \A e \in ErrorRecord : e.line \in Nat
    BY DEF ErrorRecord
  <2> QED
    BY <1>1, <1>2, <2>1
<1>6. ASSUME NEW i \in DOMAIN s PROVE s[i].line <= l
  BY <1>3, <1>5
<1>7. ASSUME NEW i \in DOMAIN s, NEW j \in DOMAIN s, i < j PROVE s[i].line <= s[j].line
  <2>1. CASE j <= Len(r)
    <3>1. i \in DOMAIN r /\ j \in DOMAIN r /\ s[i] = r[i] /\ s[j] = r[j]
      BY <1>1, <1>2, <1>7, <2>1
    <3> QED
      BY <1>7, <3>1 DEF Sorted
  <2>2. CASE j > Len(r)
    <3>1. s[j].line = l
      BY <1>2, <1>3, <2>2
    <3> QED
      BY <1>6, <3>1
  <2> QED
    BY <1>2, <2>1, <2>2
<1> QED
  BY <1>1, <1>4, <1>6, <1>7 DEF Sorted, s

\* Errors of different kinds are different.
LEMMA DataErrorFields ==
  ASSUME NEW l, NEW k, NEW a
  PROVE  DataError(l, k, a).line = l /\ DataError(l, k, a).kind = k
BY DEF DataError

\* What new must be for the report on row pos, on line l.
Reports(new, l) ==
  /\ new \in Seq(ErrorRecord)
  /\ ToSet(new) = Problems(pos) /\ Len(new) = Cardinality(Problems(pos))
  /\ \A i \in DOMAIN new : new[i].line = l

\* Reports of no, one and two errors.
LEMMA NoReport ==
  ASSUME NEW l, Problems(pos) = {}
  PROVE  Reports(<<>>, l)
BY FS_EmptySet DEF Reports, ToSet

LEMMA OneReport ==
  ASSUME NEW x \in ErrorRecord, Problems(pos) = {x}
  PROVE  Reports(<<x>>, x.line)
<1> DEFINE s == <<x>>
<1>1. s \in Seq(ErrorRecord) /\ Len(s) = 1 /\ DOMAIN s = {1} /\ s[1] = x
  OBVIOUS
<1>2. Cardinality({x}) = 1
  BY FS_Singleton
<1> HIDE DEF s
<1>3. ToSet(s) = {x}
  BY <1>1 DEF ToSet
<1>4. Reports(s, x.line)
  BY <1>1, <1>2, <1>3 DEF Reports
<1> QED
  BY <1>4 DEF s

LEMMA TwoReports ==
  ASSUME NEW x \in ErrorRecord, NEW y \in ErrorRecord, x # y, x.line = y.line, Problems(pos) = {x, y}
  PROVE  Reports(<<x>> \o <<y>>, x.line)
<1> DEFINE s == <<x>> \o <<y>>
<1>1. s \in Seq(ErrorRecord) /\ Len(s) = 2 /\ DOMAIN s = {1, 2} /\ s[1] = x /\ s[2] = y
  OBVIOUS
<1>2. Cardinality({x, y}) = 2
  <2>1. IsFiniteSet({x}) /\ Cardinality({x}) = 1
    BY FS_Singleton
  <2>2. y \notin {x} /\ {x} \cup {y} = {x, y}
    OBVIOUS
  <2> QED
    BY <2>1, <2>2, FS_AddElement
<1> HIDE DEF s
<1>3. ToSet(s) = {x, y}
  BY <1>1 DEF ToSet
<1>4. Reports(s, x.line)
  BY <1>1, <1>2, <1>3 DEF Reports
<1> QED
  BY <1>4 DEF s

\* A row has finitely many problems.
LEMMA ProblemsFinite ==
  ASSUME NEW i
  PROVE  IsFiniteSet(Problems(i)) /\ Cardinality(Problems(i)) \in Nat
<1>1. \A c \in BOOLEAN : \A e : IsFiniteSet(IF c THEN {e} ELSE {})
  BY FS_EmptySet, FS_Singleton
<1>2. \A S, T : IsFiniteSet(S) /\ IsFiniteSet(T) => IsFiniteSet(S \cup T)
  BY FS_Union
<1> DEFINE A == IF file[i].ok THEN {} ELSE {DataError(MalformedLine(i), "Malformed", 0)}
           B == IF file[i].ok /\ file[i].cols # 2
                THEN {DataError(file[i].line, "WrongColumnCount", file[i].cols)} ELSE {}
           D == IF TwoColumns(i) /\ FirstWithKey(i) < i
                THEN {DataError(file[i].line, "DuplicateKey", file[FirstWithKey(i)].line)} ELSE {}
           U == IF BadValue(i) THEN {DataError(file[i].line, "InvalidUtf8Value", 0)} ELSE {}
           L == IF Oversize(i) THEN {DataError(file[i].line, "TooLarge", 0)} ELSE {}
<1>3. IsFiniteSet(A) /\ IsFiniteSet(B) /\ IsFiniteSet(D) /\ IsFiniteSet(U) /\ IsFiniteSet(L)
  BY FS_EmptySet, FS_Singleton
<1>4. Problems(i) = A \cup B \cup D \cup U \cup L
  BY ProblemsAre
<1> HIDE DEF A, B, D, U, L
<1>5. IsFiniteSet(Problems(i))
  BY <1>2, <1>3, <1>4
<1> QED
  BY <1>5, FS_CardinalityType

\* What the rows mean depends on the file and the options alone.
LEMMA RowsUnchanged ==
  ASSUME file' = file, opts' = opts
  PROVE  /\ FirstRow(file, opts)' = FirstRow(file, opts) /\ DataRows' = DataRows
         /\ \A i : /\ TwoColumns(i)' <=> TwoColumns(i)
                   /\ FirstWithKey(i)' = FirstWithKey(i)
                   /\ NewKeyRows(i)' = NewKeyRows(i) /\ PackedSize(i)' = PackedSize(i)
                   /\ Oversize(i)' <=> Oversize(i)
                   /\ Problems(i)' = Problems(i)
         /\ ProblemCounts' = ProblemCounts
         /\ \A S : AllProblems(S)' = AllProblems(S)
<1>1. FirstRow(file, opts)' = FirstRow(file, opts) /\ DataRows' = DataRows
  BY DEF FirstRow, DataRows
<1>2. \A i : TwoColumns(i)' <=> TwoColumns(i)
  BY DEF TwoColumns
<1>3. \A i : FirstWithKey(i)' = FirstWithKey(i)
  BY DEF FirstWithKey, FirstRow, DataRows, TwoColumns
<1>4. \A i : NewKeyRows(i)' = NewKeyRows(i)
  BY <1>1, <1>2, <1>3 DEF NewKeyRows
<1>5. \A i : PackedSize(i)' = PackedSize(i)
  BY <1>1, <1>4 DEF PackedSize
<1>6. \A i : Oversize(i)' <=> Oversize(i)
  BY <1>2, <1>3, <1>5 DEF Oversize
<1>7. \A i : (MalformedLine(i)' = MalformedLine(i)) /\ (BadValue(i)' <=> BadValue(i))
  BY <1>1, <1>2 DEF MalformedLine, BadValue
<1>8. \A i : Problems(i)' = Problems(i)
  <2> DEFINE May(i) ==
        { IF i = FirstRow(file, opts) THEN DataError(1, "Malformed", 0)
          ELSE DataError(file[i - 1].line + 1, "Malformed", 0),
          DataError(file[i].line, "WrongColumnCount", file[i].cols),
          DataError(file[i].line, "DuplicateKey",
                    IF TwoColumns(i) THEN file[FirstWithKey(i)].line ELSE 0),
          DataError(file[i].line, "InvalidUtf8Value", 0),
          DataError(file[i].line, "TooLarge", 0) }
             Has(i, e) ==
        CASE e.kind = "Malformed" -> ~file[i].ok
          [] e.kind = "WrongColumnCount" -> file[i].ok /\ file[i].cols # 2
          [] e.kind = "DuplicateKey" -> TwoColumns(i) /\ FirstWithKey(i) < i
          [] e.kind = "InvalidUtf8Value" -> TwoColumns(i) /\ ~opts.allow_binary /\ ~Utf8(file[i].val)
          [] e.kind = "TooLarge" -> Oversize(i)
  <2>1. ASSUME NEW i PROVE May(i)' = May(i)
    BY <1>1, <1>2, <1>3
  <2>2. ASSUME NEW i, NEW e PROVE Has(i, e)' = Has(i, e)
    BY <1>2, <1>3, <1>6
  <2>3. /\ \A i : Problems(i) = {e \in May(i) : Has(i, e)}
        /\ \A i : Problems(i)' = {e \in May(i)' : Has(i, e)'}
    BY DEF Problems
  <2> SUFFICES ASSUME NEW i
               PROVE  Problems(i)' = Problems(i)
    OBVIOUS
  <2>4. May(i)' = May(i) /\ \A e : Has(i, e)' = Has(i, e)
    BY <2>1, <2>2
  <2>5. Problems(i) = {e \in May(i) : Has(i, e)} /\ Problems(i)' = {e \in May(i)' : Has(i, e)'}
    BY <2>3
  <2> HIDE DEF May, Has
  <2> QED
    BY <2>4, <2>5
<1>9. ProblemCounts' = ProblemCounts
  BY <1>1, <1>8 DEF ProblemCounts
<1>10. \A S : AllProblems(S)' = AllProblems(S)
  BY <1>8 DEF AllProblems
<1> QED
  BY <1>1, <1>2, <1>3, <1>4, <1>5, <1>6, <1>8, <1>9, <1>10

------------------------------------------------------------------------------
(* The steps of the parser *)

\* The row that is read next is a row of the dataset.
LEMMA RowRead ==
  ASSUME MeaningIInv, Reading
  PROVE  /\ pos \in DataRows /\ row = file[pos] /\ result = "loading"
         /\ row.line \in Nat /\ recLine \in Nat /\ recLine <= row.line
         /\ MalformedLine(pos) = recLine + 1
         /\ Looked = {j \in DataRows : j < pos}
         /\ errors \in Seq(ErrorRecord) /\ file \in Seq(Row)
<1>1. /\ file \in Seq(Row) /\ Sorted(file) /\ FirstRow(file, opts) <= pos /\ pos \in 1..Len(file) + 1
      /\ recLine = IF pos = FirstRow(file, opts) THEN 0 ELSE file[pos - 1].line
      /\ errors \in Seq(ErrorRecord) /\ recLine \in Nat
  BY DEF MeaningIInv, LoaderIInv, LoaderTypeOK, Position
<1>2. result = "loading" /\ pos <= Len(file) /\ row = file[pos]
  BY DEF Reading, row
<1>3. FirstRow(file, opts) \in {1, 2} /\ Len(file) \in Nat
  BY <1>1, DataRowsType
<1>4. pos \in DataRows
  BY <1>1, <1>2, <1>3 DEF DataRows
<1>5. row.line \in Nat
  BY <1>1, <1>2, <1>4, DataRowsType
<1>6. recLine <= row.line
  <2>1. CASE pos = FirstRow(file, opts)
    BY <1>1, <1>5, <2>1
  <2>2. CASE pos # FirstRow(file, opts)
    <3>1. pos - 1 \in DOMAIN file /\ pos \in DOMAIN file /\ pos - 1 < pos
      BY <1>1, <1>2, <1>3, <2>2
    <3> QED
      BY <1>1, <1>2, <2>2, <3>1 DEF Sorted
  <2> QED
    BY <2>1, <2>2
<1>7. MalformedLine(pos) = recLine + 1
  BY <1>1 DEF MalformedLine
<1>8. Looked = {j \in DataRows : j < pos}
  BY <1>2 DEF Looked
<1> QED
  BY <1>1, <1>2, <1>4, <1>5, <1>6, <1>7, <1>8

\* Reporting the problems of the next row keeps the report complete.
LEMMA ReportStep ==
  ASSUME MeaningIInv, Reading, file' = file, opts' = opts,
         NEW new, NEW l \in Nat, recLine <= l, Reports(new, l), errors' = errors \o new,
         \/ pos' = pos + 1 /\ result' = "loading" /\ recLine' = l
         \/ pos' = pos /\ result' = "err"
  PROVE  ReportSoFar'
<1>1. /\ pos \in DataRows /\ pos \in Nat /\ DataRows \subseteq Nat /\ IsFiniteSet(DataRows)
      /\ Looked = {j \in DataRows : j < pos} /\ recLine \in Nat
      /\ errors \in Seq(ErrorRecord) /\ file \in Seq(Row) /\ result = "loading"
  BY RowRead, DataRowsType
<1>2. DataRows' = DataRows /\ ProblemCounts' = ProblemCounts /\ \A S : AllProblems(S)' = AllProblems(S)
  BY RowsUnchanged
<1>3. Looked' = Looked \cup {pos} /\ pos \notin Looked /\ Looked \in SUBSET DataRows
  <2>1. CASE pos' = pos + 1 /\ result' = "loading"
    <3>1. \A j \in DataRows : j < pos + 1 <=> j < pos \/ j = pos
      BY <1>1
    <3>2. Looked' = {j \in DataRows : j < pos + 1}
      BY <1>2, <2>1 DEF Looked
    <3>3. pos < pos + 1 /\ ~(pos < pos)
      BY <1>1
    <3> QED
      BY <1>1, <3>1, <3>2, <3>3
  <2>2. CASE pos' = pos /\ result' = "err"
    BY <1>1, <1>2, <2>2 DEF Looked
  <2> QED
    BY <2>1, <2>2
<1>4. /\ ToSet(errors) = AllProblems(Looked)
      /\ Len(errors) = SumFunctionOnSet(ProblemCounts, Looked)
      /\ Sorted(errors) /\ \A i \in DOMAIN errors : errors[i].line <= recLine
  BY <1>1 DEF MeaningIInv, ReportSoFar
<1>5. /\ errors' \in Seq(ErrorRecord) /\ Len(errors') = Len(errors) + Len(new)
      /\ ToSet(errors') = ToSet(errors) \cup ToSet(new)
      /\ Sorted(errors') /\ \A i \in DOMAIN errors' : errors'[i].line <= l
  <2>1. new \in Seq(ErrorRecord) /\ \A i \in DOMAIN new : new[i].line = l
    BY DEF Reports
  <2> QED
    BY <1>1, <1>4, <2>1, ReportConcat
<1>6. ToSet(errors') = AllProblems(Looked')
  BY <1>3, <1>4, <1>5 DEF AllProblems, Reports
<1>7. Len(errors') = SumFunctionOnSet(ProblemCounts, Looked')
  <2>1. \A i \in DataRows : ProblemCounts[i] \in Nat /\ ProblemCounts[i] = Cardinality(Problems(i))
    BY ProblemsFinite DEF ProblemCounts
  <2>2. SumFunctionOnSet(ProblemCounts, Looked \cup {pos})
          = ProblemCounts[pos] + SumFunctionOnSet(ProblemCounts, Looked)
    <3>1. IsFiniteSet(Looked) /\ pos \notin Looked
      BY <1>1, <1>3, FS_Subset
    <3>2. (\A i \in Looked : ProblemCounts[i] \in Nat) /\ ProblemCounts[pos] \in Nat
      BY <1>1, <1>3, <2>1
    <3> QED
      BY <3>1, <3>2, SumAdd
  <2>3. Len(new) = ProblemCounts[pos]
    BY <1>1, <2>1 DEF Reports
  <2>4. Len(errors) \in Nat /\ ProblemCounts[pos] \in Nat
    BY <1>1, <2>1, LenProperties
  <2>5. SumFunctionOnSet(ProblemCounts, Looked') = ProblemCounts[pos] + Len(errors)
    BY <1>3, <1>4, <2>2
  <2> QED
    BY <1>5, <2>3, <2>4, <2>5
<1>8. ToSet(errors)' = ToSet(errors') /\ AllProblems(Looked)' = AllProblems(Looked')
      /\ SumFunctionOnSet(ProblemCounts, Looked)' = SumFunctionOnSet(ProblemCounts, Looked')
  BY <1>2
<1>9. result' = "loading" => recLine' = l
  OBVIOUS
<1> QED
  BY <1>5, <1>6, <1>7, <1>8, <1>9 DEF ReportSoFar, Sorted

\* The rows that are behind are those that made the entries.
RowsPacked == NothingStopped /\ EntriesAreRows /\ RowsHaveEntries /\ Sizes

\* A step that leaves the parts and the position alone.
LEMMA SameRow ==
  ASSUME MeaningIInv, KeepParts, pos' = pos, recLine' = recLine
  PROVE  RowsPacked' /\ Position' /\ Sorted(file)'
<1>1. file' = file /\ opts' = opts /\ arena' = arena /\ entries' = entries /\ lines' = lines
  BY DEF KeepParts
<1>2. /\ FirstRow(file, opts)' = FirstRow(file, opts) /\ DataRows' = DataRows
      /\ \A i : /\ TwoColumns(i)' <=> TwoColumns(i)
                /\ FirstWithKey(i)' = FirstWithKey(i)
                /\ NewKeyRows(i)' = NewKeyRows(i) /\ PackedSize(i)' = PackedSize(i)
                /\ Oversize(i)' <=> Oversize(i)
  BY <1>1, RowsUnchanged
<1>3. NothingStopped'
  BY <1>1, <1>2 DEF MeaningIInv, NothingStopped
<1>4. EntriesAreRows' /\ RowsHaveEntries'
  BY <1>1, <1>2 DEF MeaningIInv, EntriesAreRows, RowsHaveEntries
<1>5. Sizes'
  BY <1>1, <1>2 DEF MeaningIInv, Sizes
<1>6. Position'
  BY <1>1, <1>2 DEF MeaningIInv, Position
<1>7. Sorted(file)'
  BY <1>1 DEF MeaningIInv
<1> QED
  BY <1>3, <1>4, <1>5, <1>6, <1>7 DEF RowsPacked

\* A step past a row that makes no entry: it has no two columns, or a key that is
\* there already.
LEMMA RowSkipped ==
  ASSUME MeaningIInv, Reading, row.ok, KeepParts, Advance,
         TwoColumns(pos) => \E i \in DOMAIN entries : KeyOf(arena, entries[i]) = row.key,
         ~TwoColumns(pos) \/ FirstWithKey(pos) # pos
  PROVE  RowsPacked' /\ Position' /\ Sorted(file)'
<1>1. file' = file /\ opts' = opts /\ arena' = arena /\ entries' = entries /\ lines' = lines
      /\ pos' = pos + 1 /\ recLine' = row.line
  BY DEF KeepParts, Advance
<1>2. /\ FirstRow(file, opts)' = FirstRow(file, opts) /\ DataRows' = DataRows
      /\ \A i : /\ TwoColumns(i)' <=> TwoColumns(i)
                /\ FirstWithKey(i)' = FirstWithKey(i)
                /\ NewKeyRows(i)' = NewKeyRows(i) /\ PackedSize(i)' = PackedSize(i)
                /\ Oversize(i)' <=> Oversize(i)
  BY <1>1, RowsUnchanged
<1>3. /\ pos \in DataRows /\ row = file[pos] /\ file \in Seq(Row) /\ pos \in Nat
      /\ DataRows \subseteq Nat /\ FirstRow(file, opts) \in {1, 2} /\ FirstRow(file, opts) <= pos
  BY RowRead, DataRowsType DEF MeaningIInv, Position
<1>4. \A j \in DataRows : j < pos + 1 <=> j < pos \/ j = pos
  BY <1>3
<1>5. NothingStopped'
  <2>1. ~Oversize(pos)
    BY DEF Oversize
  <2> QED
    BY <1>1, <1>2, <1>3, <1>4, <2>1 DEF MeaningIInv, NothingStopped
<1>6. EntriesAreRows'
  BY <1>1, <1>2, <1>4 DEF MeaningIInv, EntriesAreRows
<1>7. RowsHaveEntries'
  BY <1>1, <1>2, <1>3, <1>4 DEF MeaningIInv, RowsHaveEntries
<1>8. Sizes'
  <2>1. NewKeyRows(pos) = NewKeyRows(pos - 1) /\ PackedSize(pos) = PackedSize(pos - 1)
    BY <1>3, NewKeyRowsStep
  <2>2. pos' - 1 = pos
    BY <1>1, <1>3
  <2>3. NewKeyRows(pos - 1)' = NewKeyRows(pos) /\ PackedSize(pos - 1)' = PackedSize(pos)
    BY <1>2, <2>2
  <2> QED
    BY <1>1, <2>1, <2>3 DEF MeaningIInv, Sizes
<1>9. Position' /\ Sorted(file)'
  <2>1. FirstRow(file, opts) <= pos + 1 /\ pos + 1 # FirstRow(file, opts) /\ pos + 1 - 1 = pos
    BY <1>3
  <2> QED
    BY <1>1, <1>2, <1>3, <2>1 DEF MeaningIInv, Position, Sorted
<1> QED
  BY <1>5, <1>6, <1>7, <1>8, <1>9 DEF RowsPacked

\* Whether a row's key is new: what the index says of it is what the file says.
LEMMA DupIsExact ==
  ASSUME MeaningIInv, KeyValue
  PROVE  /\ TwoColumns(pos) /\ pos \in DataRows
         /\ Dup = {} => FirstWithKey(pos) = pos
         /\ \A idx \in Dup :
              /\ idx \in DOMAIN entries /\ KeyOf(arena, entries[idx]) = row.key
              /\ FirstWithKey(pos) < pos /\ lines[idx] = file[FirstWithKey(pos)].line
<1>1. /\ pos \in DataRows /\ row = file[pos] /\ file \in Seq(Row) /\ pos \in Nat /\ DataRows \subseteq Nat
      /\ TwoColumns(pos)
  BY RowRead, DataRowsType DEF KeyValue, TwoColumns
<1>2. /\ FirstWithKey(pos) \in DataRows /\ TwoColumns(FirstWithKey(pos)) /\ FirstWithKey(pos) <= pos
      /\ file[FirstWithKey(pos)].key = row.key
      /\ \A j \in DataRows : TwoColumns(j) /\ file[j].key = row.key =>
           FirstWithKey(pos) <= j /\ FirstWithKey(j) = FirstWithKey(pos)
  BY <1>1, FirstWithKeyIs
<1>3. ASSUME Dup = {}, FirstWithKey(pos) < pos PROVE FALSE
  <2>1. PICK i \in DOMAIN entries : KeyOf(arena, entries[i]) = row.key
    BY <1>2, <1>3 DEF MeaningIInv, RowsHaveEntries
  <2> DEFINE t == [hash |-> Hash(row.key), idx |-> i]
  <2>2. t \in seen /\ t.hash = Hash(row.key) /\ t.idx = i
    BY <2>1 DEF MeaningIInv, LoaderIInv, AllIndexed
  <2> HIDE DEF t
  <2>3. t \in {u \in seen : u.hash = Hash(row.key) /\ KeyOf(arena, entries[u.idx]) = row.key}
    BY <2>1, <2>2
  <2>4. i \in Dup
    BY <2>2, <2>3 DEF Dup
  <2> QED
    BY <1>3, <2>4
<1>4. ASSUME Dup = {} PROVE FirstWithKey(pos) = pos
  <2>1. ~(FirstWithKey(pos) < pos)
    BY <1>3, <1>4
  <2>2. FirstWithKey(pos) \in Nat /\ pos \in Nat /\ FirstWithKey(pos) <= pos
    BY <1>1, <1>2
  <2> QED
    BY <2>1, <2>2
<1>5. ASSUME NEW idx \in Dup
      PROVE  /\ idx \in DOMAIN entries /\ KeyOf(arena, entries[idx]) = row.key
             /\ FirstWithKey(pos) < pos /\ lines[idx] = file[FirstWithKey(pos)].line
  <2>1. PICK s \in seen : s.hash = Hash(row.key) /\ KeyOf(arena, entries[s.idx]) = row.key /\ s.idx = idx
    BY DEF Dup
  <2>2. idx \in DOMAIN entries
    BY <2>1 DEF MeaningIInv, LoaderIInv, LoaderTypeOK
  <2>3. PICK j \in DataRows : /\ j < pos /\ TwoColumns(j) /\ FirstWithKey(j) = j
                              /\ file[j].key = KeyOf(arena, entries[idx]) /\ file[j].line = lines[idx]
    BY <2>2 DEF MeaningIInv, EntriesAreRows
  <2>4. FirstWithKey(pos) = j
    BY <1>2, <2>1, <2>3
  <2> QED
    BY <2>1, <2>2, <2>3, <2>4
<1> QED
  BY <1>1, <1>4, <1>5

\* What appending a row does to what the entries say.
LEMMA AppendRowMeans ==
  ASSUME LoaderIInv, LoaderIInv', AppendRow
  PROVE  /\ Len(entries) \in Nat /\ DOMAIN entries = 1..Len(entries)
         /\ Len(entries') = Len(entries) + 1 /\ DOMAIN entries' = 1..Len(entries) + 1
         /\ Len(arena') = Len(arena) + Len(row.key) + Len(row.val)
         /\ \A i \in 1..Len(entries) :
              /\ KeyOf(arena', entries'[i]) = KeyOf(arena, entries[i])
              /\ ValOf(arena', entries'[i]) = ValOf(arena, entries[i])
              /\ lines'[i] = lines[i]
         /\ KeyOf(arena', entries'[Len(entries) + 1]) = row.key
         /\ ValOf(arena', entries'[Len(entries) + 1]) = row.val
         /\ lines'[Len(entries) + 1] = row.line
<1> DEFINE n == Len(entries)
           e == NewEntry
<1>1. /\ row \in Row /\ arena \in Seq(Byte) /\ entries \in Seq(Entry) /\ lines \in Seq(Nat)
      /\ entries' \in Seq(Entry) /\ Len(lines) = n
  BY RowType DEF AppendRow, KeyValue, LoaderIInv, LoaderTypeOK, Packed
<1>2. row.key \in Seq(Byte) /\ row.val \in Seq(Byte) /\ row.line \in Nat
  BY <1>1, RowFields
<1>3. /\ arena' = arena \o row.key \o row.val /\ entries' = Append(entries, e)
      /\ lines' = Append(lines, row.line) /\ Len(arena) + Len(row.key) + Len(row.val) <= U32Max
  BY DEF AppendRow, Fits
<1>4. /\ e.k_off = Len(arena) /\ e.k_len = Len(row.key)
      /\ e.v_off = Len(arena) + Len(row.key) /\ e.v_len = Len(row.val)
  BY DEF NewEntry
<1> HIDE DEF e
<1>5. n \in Nat /\ DOMAIN entries = 1..n /\ Len(entries') = n + 1 /\ DOMAIN entries' = 1..n + 1
      /\ (\A i \in 1..n : entries'[i] = entries[i]) /\ entries'[n + 1] = e
  <2>1. /\ n \in Nat /\ DOMAIN entries = 1..n /\ Len(Append(entries, e)) = n + 1
        /\ DOMAIN Append(entries, e) = 1..n + 1
        /\ (\A i \in 1..n : Append(entries, e)[i] = entries[i]) /\ Append(entries, e)[n + 1] = e
    BY <1>1
  <2> QED
    BY <1>3, <2>1
<1>6. (\A i \in 1..n : lines'[i] = lines[i]) /\ lines'[n + 1] = row.line
  BY <1>1, <1>2, <1>3, AppendProperties
<1>7. e \in Entry
  BY <1>1, <1>5
<1>8. KeyOf(arena', e) = row.key /\ ValOf(arena', e) = row.val
  <2> DEFINE k == row.key
             v == row.val
  <2>1. /\ arena \in Seq(Byte) /\ k \in Seq(Byte) /\ v \in Seq(Byte)
        /\ Len(arena) + Len(k) + Len(v) <= U32Max
        /\ e.k_off = Len(arena) /\ e.k_len = Len(k)
        /\ e.v_off = Len(arena) + Len(k) /\ e.v_len = Len(v)
    BY <1>1, <1>2, <1>3, <1>4
  <2> HIDE DEF k, v
  <2>2. KeyOf(arena \o k \o v, e) = k /\ ValOf(arena \o k \o v, e) = v
    BY <1>7, <2>1, WindowsAppended
  <2> QED
    BY <1>3, <2>2 DEF k, v
<1>9. ASSUME NEW i \in 1..n
      PROVE  KeyOf(arena', entries[i]) = KeyOf(arena, entries[i]) /\ ValOf(arena', entries[i]) = ValOf(arena, entries[i])
  <2> DEFINE b == row.key \o row.val
             x == entries[i]
  <2>1. b \in Seq(Byte) /\ x \in Entry
    BY <1>1, <1>2, <1>5, ConcatProperties
  <2>2. arena' = arena \o b
    <3>1. \A s, t, u \in Seq(Byte) : s \o t \o u = s \o (t \o u)
      BY ConcatAssociative
    <3> QED
      BY <1>1, <1>2, <1>3, <3>1
  <2>3. x.k_off + x.k_len = x.v_off /\ x.v_off + x.v_len <= Len(arena)
    BY <1>5 DEF LoaderIInv, InArena
  <2>4. Len(arena \o b) <= U32Max
    BY <2>2 DEF LoaderIInv, Packed
  <2> HIDE DEF b, x
  <2>5. KeyOf(arena \o b, x) = KeyOf(arena, x) /\ ValOf(arena \o b, x) = ValOf(arena, x)
    BY <1>1, <2>1, <2>3, <2>4, WindowsKept
  <2> QED
    BY <2>2, <2>5 DEF x
<1>10. Len(arena') = Len(arena) + Len(row.key) + Len(row.val)
  <2>1. arena \o row.key \in Seq(Byte) /\ Len(arena \o row.key) = Len(arena) + Len(row.key)
    BY <1>1, <1>2, ConcatProperties
  <2> QED
    BY <1>2, <1>3, <2>1, ConcatProperties
<1> QED
  BY <1>5, <1>6, <1>8, <1>9, <1>10

\* What parse_csv says of a value that is not UTF-8.
LEMMA Utf8ErrorsAre ==
  ASSUME row = file[pos], TwoColumns(pos)
  PROVE  Utf8Errors = IF BadValue(pos) THEN <<DataError(row.line, "InvalidUtf8Value", 0)>> ELSE <<>>
BY DEF Utf8Errors, BadValue

\* Reading a row that is not readable, and stopping there.
LEMMA MalformedMeans ==
  ASSUME MeaningIInv, Malformed
  PROVE  RowsPacked' /\ Position' /\ Sorted(file)' /\ ReportSoFar' /\ Verdict'
<1> DEFINE m == DataError(recLine + 1, "Malformed", 0)
<1>1. /\ Reading /\ ~row.ok /\ errors' = Append(errors, m) /\ result' = "err"
      /\ pos' = pos /\ recLine' = recLine /\ KeepParts /\ file' = file /\ opts' = opts
  BY DEF Malformed, KeepParts
<1>2. /\ pos \in DataRows /\ row = file[pos] /\ recLine \in Nat /\ MalformedLine(pos) = recLine + 1
      /\ errors \in Seq(ErrorRecord)
  BY <1>1, RowRead
<1>3. m \in ErrorRecord /\ m.line = recLine + 1
  BY <1>2, DataErrorType, DataErrorFields DEF ErrorKind
<1>4. Problems(pos) = {m}
  <2>1. Problems(pos) = {DataError(MalformedLine(pos), "Malformed", 0)}
    BY <1>1, <1>2, ProblemsAre DEF TwoColumns, BadValue, Oversize
  <2> QED
    BY <1>2, <2>1
<1> HIDE DEF m
<1>5. errors' = errors \o <<m>> /\ Reports(<<m>>, recLine + 1)
  BY <1>1, <1>2, <1>3, <1>4, AppendIsConcat, OneReport
<1>6. recLine + 1 \in Nat /\ recLine <= recLine + 1
  BY <1>2
<1>7. ReportSoFar'
  BY <1>1, <1>5, <1>6, ReportStep
<1>8. Verdict'
  BY <1>1, <1>2 DEF Verdict
<1> QED
  BY <1>1, <1>7, <1>8, SameRow

\* A row of another number of columns.
LEMMA WrongColumnsMeans ==
  ASSUME MeaningIInv, WrongColumns
  PROVE  RowsPacked' /\ Position' /\ Sorted(file)' /\ ReportSoFar' /\ Verdict'
<1> DEFINE c == DataError(row.line, "WrongColumnCount", row.cols)
<1>1. /\ Reading /\ row.ok /\ row.cols # 2 /\ errors' = Append(errors, c) /\ result' = result
      /\ pos' = pos + 1 /\ recLine' = row.line /\ Advance /\ KeepParts /\ file' = file /\ opts' = opts
  BY DEF WrongColumns, Advance, KeepParts
<1>2. /\ pos \in DataRows /\ row = file[pos] /\ row.line \in Nat /\ recLine <= row.line
      /\ errors \in Seq(ErrorRecord) /\ file \in Seq(Row) /\ result = "loading"
  BY <1>1, RowRead
<1>3. c \in ErrorRecord /\ c.line = row.line
  <2>1. row.cols \in Nat
    BY <1>2, DataRowsType
  <2>2. row.line \in Nat /\ "WrongColumnCount" \in ErrorKind
    BY <1>2 DEF ErrorKind
  <2> QED
    BY <2>1, <2>2, DataErrorType, DataErrorFields
<1>4. ~TwoColumns(pos)
  BY <1>1, <1>2 DEF TwoColumns
<1>5. Problems(pos) = {c}
  <2>1. Problems(pos) = {DataError(file[pos].line, "WrongColumnCount", file[pos].cols)}
    BY <1>1, <1>2, <1>4, ProblemsAre DEF BadValue, Oversize
  <2> QED
    BY <1>2, <2>1
<1> HIDE DEF c
<1>6. errors' = errors \o <<c>> /\ Reports(<<c>>, row.line)
  BY <1>1, <1>2, <1>3, <1>5, AppendIsConcat, OneReport
<1>7. ReportSoFar'
  BY <1>1, <1>2, <1>6, ReportStep
<1>8. Verdict'
  BY <1>1, <1>2 DEF Verdict
<1> QED
  BY <1>1, <1>4, <1>7, <1>8, RowSkipped

\* A key for the second time, reported with the line of the first, along with a bad
\* value.
LEMMA DuplicateMeans ==
  ASSUME MeaningIInv, Duplicate
  PROVE  RowsPacked' /\ Position' /\ Sorted(file)' /\ ReportSoFar' /\ Verdict'
<1>1. PICK idx \in Dup :
        errors' = Append(errors, DataError(row.line, "DuplicateKey", lines[idx])) \o Utf8Errors
  BY DEF Duplicate
<1> DEFINE d == DataError(row.line, "DuplicateKey", lines[idx])
           u == DataError(row.line, "InvalidUtf8Value", 0)
<1>2. /\ KeyValue /\ Reading /\ row.ok /\ result' = result
      /\ pos' = pos + 1 /\ recLine' = row.line /\ Advance /\ KeepParts /\ file' = file /\ opts' = opts
  BY DEF Duplicate, KeyValue, Advance, KeepParts
<1>3. /\ pos \in DataRows /\ row = file[pos] /\ row.line \in Nat /\ recLine <= row.line
      /\ errors \in Seq(ErrorRecord) /\ file \in Seq(Row) /\ result = "loading" /\ DataRows \subseteq Nat
  BY <1>2, RowRead, DataRowsType
<1>4. /\ TwoColumns(pos) /\ idx \in DOMAIN entries /\ KeyOf(arena, entries[idx]) = row.key
      /\ FirstWithKey(pos) < pos /\ lines[idx] = file[FirstWithKey(pos)].line
  BY <1>2, DupIsExact
<1>5. FirstWithKey(pos) # pos /\ lines[idx] \in Nat
  <2> DEFINE k == FirstWithKey(pos)
  <2>1. k \in DataRows /\ pos \in Nat
    BY <1>3, <1>4, FirstWithKeyIs
  <2>2. k < pos /\ lines[idx] = file[k].line
    BY <1>4
  <2>3. k # pos
    <3> HIDE DEF k
    <3> QED
      BY <1>3, <2>1, <2>2
  <2>4. file[k].line \in Nat
    <3> HIDE DEF k
    <3> QED
      BY <1>3, <2>1, DataRowsType
  <2> QED
    BY <2>2, <2>3, <2>4
<1>6. d \in ErrorRecord /\ u \in ErrorRecord /\ d.line = row.line /\ u.line = row.line /\ d # u
  <2>1. d.kind # u.kind /\ d.line = row.line /\ u.line = row.line
    BY DataErrorFields
  <2>2. d \in ErrorRecord
    BY <1>3, <1>5, DataErrorType DEF ErrorKind
  <2>3. u \in ErrorRecord
    BY <1>3, DataErrorType DEF ErrorKind
  <2> QED
    BY <2>1, <2>2, <2>3
<1>7. Problems(pos) = {d} \cup (IF BadValue(pos) THEN {u} ELSE {})
  <2>1. Problems(pos) = {DataError(file[pos].line, "DuplicateKey", file[FirstWithKey(pos)].line)}
                        \cup (IF BadValue(pos) THEN {DataError(file[pos].line, "InvalidUtf8Value", 0)} ELSE {})
    <3>1. file[pos].ok /\ file[pos].cols = 2 /\ ~Oversize(pos)
      BY <1>4, <1>5 DEF TwoColumns, Oversize
    <3> QED
      BY <1>4, <3>1, ProblemsAre
  <2> QED
    BY <1>3, <1>4, <2>1
<1>8. errors' = (errors \o <<d>>) \o (IF BadValue(pos) THEN <<u>> ELSE <<>>)
  <2>1. Append(errors, d) = errors \o <<d>>
    <3> HIDE DEF d
    <3> QED
      BY <1>3, <1>6, AppendIsConcat
  <2> QED
    BY <1>1, <1>3, <1>4, <2>1, Utf8ErrorsAre
<1> HIDE DEF d, u
<1>9. \E new : Reports(new, row.line) /\ errors' = errors \o new
  <2>1. CASE BadValue(pos)
    <3>1. <<d>> \in Seq(ErrorRecord) /\ <<u>> \in Seq(ErrorRecord)
      BY <1>6
    <3>2. (errors \o <<d>>) \o <<u>> = errors \o (<<d>> \o <<u>>)
      BY <1>3, <3>1, ConcatAssociative
    <3>3. {d} \cup {u} = {d, u}
      OBVIOUS
    <3>4. Reports(<<d>> \o <<u>>, row.line)
      BY <1>6, <1>7, <2>1, <3>3, TwoReports
    <3> QED
      BY <1>8, <2>1, <3>2, <3>4
  <2>2. CASE ~BadValue(pos)
    <3>1. errors \o <<d>> \in Seq(ErrorRecord)
      BY <1>3, <1>6
    <3>2. (errors \o <<d>>) \o <<>> = errors \o <<d>>
      BY <3>1, ConcatEmptySeq
    <3>3. Reports(<<d>>, row.line)
      BY <1>6, <1>7, <2>2, OneReport
    <3> QED
      BY <1>8, <2>2, <3>2, <3>3
  <2> QED
    BY <2>1, <2>2
<1>10. ReportSoFar'
  <2>1. PICK new : Reports(new, row.line) /\ errors' = errors \o new
    BY <1>9
  <2> QED
    BY <1>2, <1>3, <2>1, ReportStep
<1>11. Verdict'
  BY <1>2, <1>3 DEF Verdict
<1> QED
  BY <1>2, <1>4, <1>5, <1>10, <1>11, RowSkipped

\* A row with a new key is refused as too large exactly if the distinct keys so far
\* and this one do not fit.
LEMMA FitsIsExact ==
  ASSUME MeaningIInv, KeyValue, Dup = {}
  PROVE  /\ TwoColumns(pos) /\ FirstWithKey(pos) = pos
         /\ Cardinality(NewKeyRows(pos)) = Len(entries) + 1
         /\ PackedSize(pos) = Len(arena) + Len(row.key) + Len(row.val)
         /\ Oversize(pos) <=> ~Fits
<1>1. /\ pos \in DataRows /\ row = file[pos] /\ file \in Seq(Row)
      /\ TwoColumns(pos) /\ FirstWithKey(pos) = pos
  BY RowRead, DupIsExact DEF KeyValue
<1>2. /\ Cardinality(NewKeyRows(pos)) = Cardinality(NewKeyRows(pos - 1)) + 1
      /\ PackedSize(pos) = PackedSize(pos - 1) + Len(row.key) + Len(row.val)
  BY <1>1, NewKeyRowsStep
<1>3. Len(entries) = Cardinality(NewKeyRows(pos - 1)) /\ Len(arena) = PackedSize(pos - 1)
  BY DEF MeaningIInv, Sizes
<1>4. PackedSize(pos) = Len(arena) + Len(row.key) + Len(row.val)
  BY <1>2, <1>3
<1>5. PackedSize(pos) \in Nat
  <2> DEFINE a == Len(arena)
             k == Len(row.key)
             v == Len(row.val)
  <2>1. a \in Nat
    BY LenProperties DEF MeaningIInv, LoaderIInv, LoaderTypeOK
  <2>2. k \in Nat /\ v \in Nat
    BY <1>1, DataRowsType
  <2>3. PackedSize(pos) = a + k + v
    BY <1>4
  <2> HIDE DEF a, k, v
  <2> QED
    BY <2>1, <2>2, <2>3
<1>6. Oversize(pos) <=> ~Fits
  <2> DEFINE s == PackedSize(pos)
  <2>1. Oversize(pos) <=> s > U32Max
    BY <1>1 DEF Oversize
  <2>2. Fits <=> s <= U32Max
    BY <1>4 DEF Fits
  <2>3. s \in Nat /\ U32Max \in Nat
    BY <1>5, StoreAssumption
  <2> HIDE DEF s
  <2> QED
    BY <2>1, <2>2, <2>3
<1> QED
  BY <1>1, <1>2, <1>3, <1>4, <1>6

\* Stopping at the row that does not fit, after having looked at its value.
LEMMA TooLargeMeans ==
  ASSUME MeaningIInv, TooLarge
  PROVE  RowsPacked' /\ Position' /\ Sorted(file)' /\ ReportSoFar' /\ Verdict'
<1> DEFINE t == DataError(row.line, "TooLarge", 0)
           u == DataError(row.line, "InvalidUtf8Value", 0)
<1>1. /\ KeyValue /\ Reading /\ Dup = {} /\ ~Fits /\ result' = "err"
      /\ errors' = errors \o Utf8Errors \o <<t>>
      /\ pos' = pos /\ recLine' = recLine /\ KeepParts /\ file' = file /\ opts' = opts
  BY DEF TooLarge, KeyValue, KeepParts
<1>2. /\ pos \in DataRows /\ row = file[pos] /\ row.line \in Nat /\ recLine <= row.line
      /\ errors \in Seq(ErrorRecord) /\ pos \in Nat
  BY <1>1, RowRead, DataRowsType
<1>3. TwoColumns(pos) /\ FirstWithKey(pos) = pos /\ Oversize(pos)
  BY <1>1, FitsIsExact
<1>4. t \in ErrorRecord /\ u \in ErrorRecord /\ t.line = row.line /\ u.line = row.line /\ u # t
  <2>1. t.kind # u.kind
    BY DataErrorFields
  <2> QED
    BY <1>2, <2>1, DataErrorType, DataErrorFields DEF ErrorKind
<1>5. Problems(pos) = (IF BadValue(pos) THEN {u} ELSE {}) \cup {t}
  <2>1. Problems(pos) = (IF BadValue(pos) THEN {DataError(file[pos].line, "InvalidUtf8Value", 0)} ELSE {})
                        \cup {DataError(file[pos].line, "TooLarge", 0)}
    <3>1. file[pos].ok /\ file[pos].cols = 2 /\ ~(FirstWithKey(pos) < pos)
      BY <1>2, <1>3 DEF TwoColumns
    <3> QED
      BY <1>3, <3>1, ProblemsAre
  <2> QED
    BY <1>2, <2>1
<1>6. errors' = (errors \o (IF BadValue(pos) THEN <<u>> ELSE <<>>)) \o <<t>>
  BY <1>1, <1>2, <1>3, Utf8ErrorsAre
<1> HIDE DEF t, u
<1>7. \E new : Reports(new, row.line) /\ errors' = errors \o new
  <2>1. CASE BadValue(pos)
    <3>1. <<u>> \in Seq(ErrorRecord) /\ <<t>> \in Seq(ErrorRecord)
      BY <1>4
    <3>2. (errors \o <<u>>) \o <<t>> = errors \o (<<u>> \o <<t>>)
      BY <1>2, <3>1, ConcatAssociative
    <3>3. {u} \cup {t} = {u, t}
      OBVIOUS
    <3>4. Reports(<<u>> \o <<t>>, row.line)
      BY <1>4, <1>5, <2>1, <3>3, TwoReports
    <3> QED
      BY <1>6, <2>1, <3>2, <3>4
  <2>2. CASE ~BadValue(pos)
    <3>1. errors \o <<>> = errors
      BY <1>2, ConcatEmptySeq
    <3>2. Reports(<<t>>, row.line)
      BY <1>4, <1>5, <2>2, OneReport
    <3> QED
      BY <1>6, <2>2, <3>1, <3>2
  <2> QED
    BY <2>1, <2>2
<1>8. ReportSoFar'
  <2>1. PICK new : Reports(new, row.line) /\ errors' = errors \o new
    BY <1>7
  <2> QED
    BY <1>1, <1>2, <2>1, ReportStep
<1>9. Verdict'
  <2>1. Oversize(pos)'
    BY <1>1, <1>3, RowsUnchanged
  <2> QED
    BY <1>1, <2>1 DEF Verdict
<1> QED
  BY <1>1, <1>8, <1>9, SameRow

\* A row whose key is new and fits: it becomes the entry of its key.
LEMMA AppendedRowMeans ==
  ASSUME MeaningIInv, LoaderIInv', AppendRow
  PROVE  RowsPacked' /\ Position' /\ Sorted(file)' /\ ReportSoFar' /\ Verdict'
<1> DEFINE u == DataError(row.line, "InvalidUtf8Value", 0)
           n == Len(entries)
<1>1. /\ KeyValue /\ Reading /\ row.ok /\ Dup = {} /\ Fits /\ result' = result
      /\ errors' = errors \o Utf8Errors
      /\ pos' = pos + 1 /\ recLine' = row.line /\ file' = file /\ opts' = opts
  BY DEF AppendRow, KeyValue, Advance
<1>2. /\ pos \in DataRows /\ row = file[pos] /\ row.line \in Nat /\ recLine <= row.line
      /\ errors \in Seq(ErrorRecord) /\ pos \in Nat /\ file \in Seq(Row) /\ result = "loading"
      /\ DataRows \subseteq Nat /\ FirstRow(file, opts) \in {1, 2} /\ FirstRow(file, opts) <= pos
  BY <1>1, RowRead, DataRowsType DEF MeaningIInv, Position
<1>3. /\ TwoColumns(pos) /\ FirstWithKey(pos) = pos /\ ~Oversize(pos)
      /\ Cardinality(NewKeyRows(pos)) = n + 1
      /\ PackedSize(pos) = Len(arena) + Len(row.key) + Len(row.val)
  BY <1>1, FitsIsExact
<1>4. /\ FirstRow(file, opts)' = FirstRow(file, opts) /\ DataRows' = DataRows
      /\ \A i : /\ TwoColumns(i)' <=> TwoColumns(i)
                /\ FirstWithKey(i)' = FirstWithKey(i)
                /\ NewKeyRows(i)' = NewKeyRows(i) /\ PackedSize(i)' = PackedSize(i)
                /\ Oversize(i)' <=> Oversize(i)
  BY <1>1, RowsUnchanged
<1>5. \A j \in DataRows : j < pos + 1 <=> j < pos \/ j = pos
  BY <1>2
<1>6. /\ n \in Nat /\ DOMAIN entries = 1..n /\ Len(entries') = n + 1 /\ DOMAIN entries' = 1..n + 1
      /\ Len(arena') = Len(arena) + Len(row.key) + Len(row.val)
      /\ \A i \in 1..n :
           /\ KeyOf(arena', entries'[i]) = KeyOf(arena, entries[i])
           /\ ValOf(arena', entries'[i]) = ValOf(arena, entries[i])
           /\ lines'[i] = lines[i]
      /\ KeyOf(arena', entries'[n + 1]) = row.key
      /\ ValOf(arena', entries'[n + 1]) = row.val
      /\ lines'[n + 1] = row.line
  BY AppendRowMeans DEF MeaningIInv
<1> HIDE DEF n
<1>7. NothingStopped'
  BY <1>1, <1>2, <1>3, <1>4, <1>5 DEF MeaningIInv, NothingStopped
<1>8. EntriesAreRows'
  <2> SUFFICES ASSUME NEW i \in 1..n + 1
               PROVE  \E j \in DataRows :
                        /\ j < pos + 1 /\ TwoColumns(j) /\ FirstWithKey(j) = j
                        /\ file[j].key = KeyOf(arena', entries'[i])
                        /\ file[j].val = ValOf(arena', entries'[i])
                        /\ file[j].line = lines'[i]
    BY <1>1, <1>4, <1>6 DEF EntriesAreRows
  <2>1. CASE i = n + 1
    <3>1. pos < pos + 1
      BY <1>2
    <3> QED
      BY <1>2, <1>3, <1>6, <2>1, <3>1
  <2>2. CASE i \in 1..n
    <3>1. PICK j \in DataRows : /\ j < pos /\ TwoColumns(j) /\ FirstWithKey(j) = j
                                /\ file[j].key = KeyOf(arena, entries[i])
                                /\ file[j].val = ValOf(arena, entries[i])
                                /\ file[j].line = lines[i]
      BY <1>6, <2>2 DEF MeaningIInv, EntriesAreRows
    <3> QED
      BY <1>5, <1>6, <2>2, <3>1
  <2>3. i = n + 1 \/ i \in 1..n
    BY <1>6
  <2> QED
    BY <2>1, <2>2, <2>3
<1>9. RowsHaveEntries'
  <2> SUFFICES ASSUME NEW j \in DataRows, j < pos + 1, TwoColumns(j)
               PROVE  \E i \in 1..n + 1 : KeyOf(arena', entries'[i]) = file[j].key
    BY <1>1, <1>4, <1>6 DEF RowsHaveEntries
  <2>1. CASE j = pos
    <3>1. n + 1 \in 1..n + 1
      BY <1>6
    <3> QED
      BY <1>2, <1>6, <2>1, <3>1
  <2>2. CASE j < pos
    <3>1. PICK i \in 1..n : KeyOf(arena, entries[i]) = file[j].key
      BY <1>6, <2>2 DEF MeaningIInv, RowsHaveEntries
    <3>2. i \in 1..n + 1
      BY <1>6, <3>1
    <3> QED
      BY <1>6, <3>1, <3>2
  <2> QED
    BY <1>5, <2>1, <2>2
<1>10. Sizes'
  <2>1. pos' - 1 = pos
    BY <1>1, <1>2
  <2>2. NewKeyRows(pos - 1)' = NewKeyRows(pos) /\ PackedSize(pos - 1)' = PackedSize(pos)
    BY <1>4, <2>1
  <2> QED
    BY <1>3, <1>6, <2>2 DEF Sizes
<1>11. Position' /\ Sorted(file)'
  <2>1. FirstRow(file, opts) <= pos + 1 /\ pos + 1 # FirstRow(file, opts) /\ pos + 1 - 1 = pos
    BY <1>2
  <2> QED
    BY <1>1, <1>2, <1>4, <2>1 DEF MeaningIInv, Position, Sorted
<1>12. u \in ErrorRecord /\ u.line = row.line
  BY <1>2, DataErrorType, DataErrorFields DEF ErrorKind
<1>13. Problems(pos) = IF BadValue(pos) THEN {u} ELSE {}
  <2>1. Problems(pos) = IF BadValue(pos) THEN {DataError(file[pos].line, "InvalidUtf8Value", 0)} ELSE {}
    <3>1. file[pos].ok /\ file[pos].cols = 2 /\ ~(FirstWithKey(pos) < pos)
      BY <1>2, <1>3 DEF TwoColumns
    <3> QED
      BY <1>3, <3>1, ProblemsAre
  <2> QED
    BY <1>2, <2>1
<1>14. errors' = errors \o (IF BadValue(pos) THEN <<u>> ELSE <<>>)
  BY <1>1, <1>2, <1>3, Utf8ErrorsAre
<1> HIDE DEF u
<1>15. ReportSoFar'
  <2>1. Reports(IF BadValue(pos) THEN <<u>> ELSE <<>>, row.line)
    <3>1. CASE BadValue(pos)
      BY <1>12, <1>13, <3>1, OneReport
    <3>2. CASE ~BadValue(pos)
      BY <1>13, <3>2, NoReport
    <3> QED
      BY <3>1, <3>2
  <2> QED
    BY <1>1, <1>2, <1>14, <2>1, ReportStep
<1>16. Verdict'
  BY <1>1, <1>2 DEF Verdict
<1> QED
  BY <1>7, <1>8, <1>9, <1>10, <1>11, <1>15, <1>16 DEF RowsPacked

\* The end of the file.
LEMMA EofMeans ==
  ASSUME MeaningIInv, Eof
  PROVE  RowsPacked' /\ Position' /\ Sorted(file)' /\ ReportSoFar' /\ Verdict'
<1>1. /\ result = "loading" /\ pos > Len(file) /\ result' = (IF errors = <<>> THEN "ok" ELSE "err")
      /\ pos' = pos /\ recLine' = recLine /\ errors' = errors /\ KeepParts /\ file' = file /\ opts' = opts
  BY DEF Eof, KeepParts
<1>2. /\ DataRows' = DataRows /\ ProblemCounts' = ProblemCounts /\ \A S : AllProblems(S)' = AllProblems(S)
  BY <1>1, RowsUnchanged
<1>3. file \in Seq(Row) /\ pos \in Nat
  BY DataRowsType DEF MeaningIInv, LoaderIInv, LoaderTypeOK
<1>4. Looked' = Looked
  <2>1. pos \notin DataRows
    <3>1. DataRows \subseteq 1..Len(file) /\ Len(file) \in Nat
      BY <1>3, DataRowsType
    <3> QED
      BY <1>1, <1>3, <3>1
  <2> QED
    BY <1>1, <1>2, <2>1 DEF Looked
<1>5. ReportSoFar'
  <2>1. ToSet(errors)' = ToSet(errors) /\ AllProblems(Looked)' = AllProblems(Looked)
        /\ SumFunctionOnSet(ProblemCounts, Looked)' = SumFunctionOnSet(ProblemCounts, Looked)
    BY <1>1, <1>2, <1>4
  <2> QED
    BY <1>1, <2>1 DEF MeaningIInv, ReportSoFar, Sorted
<1>6. Verdict'
  <2>1. ~(pos <= Len(file))
    BY <1>1, <1>3, DataRowsType
  <2> QED
    BY <1>1, <2>1 DEF Verdict
<1> QED
  BY <1>1, <1>5, <1>6, SameRow

\* Nothing has been read at the start.
LEMMA MeaningInit == LoaderInit => MeaningIInv
<1> SUFFICES ASSUME LoaderInit PROVE MeaningIInv
  OBVIOUS
<1>1. /\ file \in Files /\ pos = FirstRow(file, opts) /\ recLine = 0 /\ arena = <<>> /\ entries = <<>>
      /\ errors = <<>> /\ result = "loading"
  BY DEF LoaderInit
<1>2. LoaderIInv
  BY LoaderInitIInv
<1>3. file \in Seq(Row) /\ Sorted(file)
  BY <1>1, FilesAssumption DEF Sorted
<1>4. FirstRow(file, opts) \in {1, 2} /\ DataRows \subseteq Nat /\ pos \in Nat /\ pos <= pos
  BY <1>1, <1>3, DataRowsType
<1>5. \A j \in DataRows : ~(j < pos) /\ ~(j <= pos - 1)
  BY <1>1, <1>4 DEF DataRows
<1>6. NothingStopped /\ EntriesAreRows /\ RowsHaveEntries
  BY <1>1, <1>5 DEF NothingStopped, EntriesAreRows, RowsHaveEntries
<1>7. Sizes
  <2>1. NewKeyRows(pos - 1) = {}
    BY <1>5 DEF NewKeyRows
  <2>2. PackedSize(pos - 1) = 0
    BY <2>1, SumEmpty DEF PackedSize
  <2>3. Len(entries) = 0 /\ Len(arena) = 0
    BY <1>1
  <2> QED
    BY <2>1, <2>2, <2>3, FS_EmptySet DEF Sizes
<1>8. Position
  BY <1>1, <1>4 DEF Position
<1>9. ReportSoFar
  <2>1. Looked = {}
    BY <1>1, <1>5 DEF Looked
  <2>2. SumFunctionOnSet(ProblemCounts, {}) = 0
    BY SumEmpty
  <2>3. Len(errors) = 0 /\ ToSet(errors) = {} /\ DOMAIN errors = {} /\ AllProblems({}) = {}
    BY <1>1 DEF ToSet, AllProblems
  <2> QED
    BY <2>1, <2>2, <2>3 DEF ReportSoFar, Sorted
<1>10. Verdict
  BY <1>1 DEF Verdict
<1> QED
  BY <1>2, <1>3, <1>6, <1>7, <1>8, <1>9, <1>10 DEF MeaningIInv

\* Every step keeps what the parts and the report mean.
LEMMA MeaningNext == MeaningIInv /\ [LoaderNext]_loaderVars => MeaningIInv'
<1> SUFFICES ASSUME MeaningIInv, [LoaderNext]_loaderVars PROVE MeaningIInv'
  OBVIOUS
<1>1. LoaderIInv'
  BY LoaderNextIInv DEF MeaningIInv
<1>2. RowsPacked' /\ Position' /\ Sorted(file)' /\ ReportSoFar' /\ Verdict'
  <2>1. CASE Eof
    BY <2>1, EofMeans
  <2>2. CASE Malformed
    BY <2>2, MalformedMeans
  <2>3. CASE WrongColumns
    BY <2>3, WrongColumnsMeans
  <2>4. CASE Duplicate
    BY <2>4, DuplicateMeans
  <2>5. CASE TooLarge
    BY <2>5, TooLargeMeans
  <2>6. CASE AppendRow
    BY <1>1, <2>6, AppendedRowMeans
  <2>7. CASE UNCHANGED loaderVars
    <3>1. /\ KeepParts /\ pos' = pos /\ recLine' = recLine /\ errors' = errors /\ result' = result
          /\ file' = file /\ opts' = opts
      BY <2>7 DEF loaderVars, KeepParts
    <3>2. DataRows' = DataRows /\ ProblemCounts' = ProblemCounts
          /\ (\A S : AllProblems(S)' = AllProblems(S)) /\ \A i : Oversize(i)' <=> Oversize(i)
      BY <3>1, RowsUnchanged
    <3>3. Looked' = Looked
      BY <3>1, <3>2 DEF Looked
    <3>4. ToSet(errors)' = ToSet(errors) /\ AllProblems(Looked)' = AllProblems(Looked)
          /\ SumFunctionOnSet(ProblemCounts, Looked)' = SumFunctionOnSet(ProblemCounts, Looked)
      BY <3>1, <3>2, <3>3
    <3>5. ReportSoFar'
      BY <3>1, <3>4 DEF MeaningIInv, ReportSoFar, Sorted
    <3>6. Verdict'
      BY <3>1, <3>2 DEF MeaningIInv, Verdict
    <3> QED
      BY <3>1, <3>5, <3>6, SameRow
  <2> QED
    BY <2>1, <2>2, <2>3, <2>4, <2>5, <2>6, <2>7 DEF LoaderNext
<1> QED
  BY <1>1, <1>2 DEF MeaningIInv, RowsPacked

\* The parts and the report mean the rows read so far, throughout the parse.
THEOREM MeaningInvariance == LoaderSpec => []MeaningIInv
BY MeaningInit, MeaningNext, PTL DEF LoaderSpec

------------------------------------------------------------------------------
(* What the parser answers *)

\* When the parser is done, it has looked at the rows up to the first that stops it.
LEMMA LookedIsExamined ==
  ASSUME MeaningIInv, result # "loading"
  PROVE  Looked = Examined
<1>1. /\ DataRows \subseteq 1..Len(file) /\ DataRows \subseteq Nat /\ Len(file) \in Nat /\ pos \in Nat
      /\ result \in {"ok", "err"} /\ FirstRow(file, opts) \in {1, 2} /\ FirstRow(file, opts) <= pos
  BY DataRowsType DEF MeaningIInv, LoaderIInv, LoaderTypeOK, Position
<1>2. ASSUME NEW j \in Looked PROVE j \in Examined
  <2>1. j \in DataRows /\ j <= pos
    BY <1>1 DEF Looked
  <2>2. \A i \in DataRows : i < j => i < pos
    BY <1>1, <2>1
  <2> QED
    BY <2>1, <2>2 DEF MeaningIInv, NothingStopped, Examined
<1>3. ASSUME NEW j \in Examined PROVE j \in Looked
  <2>1. j \in DataRows /\ \A i \in DataRows : i < j => file[i].ok /\ ~Oversize(i)
    BY DEF Examined
  <2>2. CASE j < pos
    BY <2>1, <2>2 DEF Looked
  <2>3. CASE ~(j < pos)
    <3>1. pos <= Len(file) /\ pos \in DataRows /\ pos <= j
      BY <1>1, <2>1, <2>3 DEF DataRows
    <3>2. result = "err" /\ (~file[pos].ok \/ Oversize(pos))
      BY <1>1, <3>1 DEF MeaningIInv, Verdict
    <3>3. ~(pos < j)
      BY <2>1, <3>1, <3>2
    <3>4. j = pos
      BY <1>1, <2>1, <3>1, <3>3
    <3> QED
      BY <2>1, <3>2, <3>4 DEF Looked
  <2> QED
    BY <2>2, <2>3
<1> QED
  BY <1>2, <1>3

\* Whatever the dataset: every problem of the rows examined is reported, once for
\* each row that has it, in line order, and nothing else is (csv_loader.rs:73-198).
THEOREM ReportExact == LoaderSpec => []ReportIsExact
<1>1. MeaningIInv => ReportIsExact
  <2> SUFFICES ASSUME MeaningIInv, result # "loading" PROVE ReportIsExact
    BY DEF ReportIsExact
  <2>1. Looked = Examined
    BY LookedIsExamined
  <2> QED
    BY <2>1 DEF MeaningIInv, ReportSoFar, ReportIsExact, ProblemCounts, Sorted
<1> QED
  BY <1>1, MeaningInvariance, PTL

------------------------------------------------------------------------------
(* The store made of the parts *)

\* Looking up in a store made of parts is looking for an entry with the key: the
\* hashes neither hide one nor add one.
LEMMA GetOfParts ==
  ASSUME NEW a, NEW es, NEW k
  PROVE  Get(FromParts(a, es), k) = {ValOf(a, es[i]) : i \in {j \in DOMAIN es : KeyOf(a, es[j]) = k}}
<1> DEFINE slot(i) == [hash |-> Hash(KeyOf(a, es[i])), slot |-> i, entry |-> es[i]]
           T == {slot(i) : i \in DOMAIN es}
<1>1. FromParts(a, es).arena = a /\ FromParts(a, es).table = T
  BY DEF FromParts
<1>2. \A i : slot(i).hash = Hash(KeyOf(a, es[i])) /\ slot(i).entry = es[i]
  OBVIOUS
<1>3. Get(FromParts(a, es), k)
        = {ValOf(a, s.entry) : s \in {t \in T : t.hash = Hash(k) /\ KeyOf(a, t.entry) = k}}
  BY <1>1 DEF Get
<1> HIDE DEF slot
<1> QED
  BY <1>2, <1>3

\* A store made of parts has as many keys as there are entries.
LEMMA LenOfParts ==
  ASSUME NEW a, NEW S, NEW es \in Seq(S)
  PROVE  StoreLen(FromParts(a, es)) = Len(es)
<1> DEFINE slot(i) == [hash |-> Hash(KeyOf(a, es[i])), slot |-> i, entry |-> es[i]]
           T == {slot(i) : i \in DOMAIN es}
           f == [i \in DOMAIN es |-> slot(i)]
<1>1. StoreLen(FromParts(a, es)) = Cardinality(T)
  BY DEF StoreLen, FromParts
<1>2. DOMAIN es = 1..Len(es) /\ Len(es) \in Nat
  BY LenProperties
<1>3. IsFiniteSet(DOMAIN es) /\ Cardinality(DOMAIN es) = Len(es)
  <2>1. IsFiniteSet(1..Len(es)) /\ Cardinality(1..Len(es)) = IF 1 > Len(es) THEN 0 ELSE Len(es) - 1 + 1
    BY <1>2, FS_Interval
  <2> QED
    BY <1>2, <2>1
<1>4. \A i : slot(i).slot = i
  OBVIOUS
<1> HIDE DEF slot
<1>5. f \in [DOMAIN es -> T] /\ \A i \in DOMAIN es : f[i] = slot(i)
  OBVIOUS
<1> HIDE DEF f
<1>6. f \in Bijection(DOMAIN es, T)
  <2>1. \A i, j \in DOMAIN es : f[i] = f[j] => i = j
    BY <1>4, <1>5
  <2>2. \A t \in T : \E i \in DOMAIN es : f[i] = t
    BY <1>5
  <2> QED
    BY <1>5, <2>1, <2>2 DEF Bijection, Injection, Surjection, IsInjective
<1>7. Cardinality(T) = Cardinality(DOMAIN es)
  BY <1>3, <1>6, FS_Bijection DEF ExistsBijection
<1> QED
  BY <1>1, <1>3, <1>7

\* In a dataset without problems every row has two columns and a key of its own.
LEMMA RowsAreSound ==
  ASSUME file \in Seq(Row), NEW j \in DataRows, Problems(j) = {}
  PROVE  TwoColumns(j) /\ FirstWithKey(j) = j
<1>1. file[j].ok /\ ~(file[j].ok /\ file[j].cols # 2) /\ ~(TwoColumns(j) /\ FirstWithKey(j) < j)
  BY ProblemsAre
<1>2. TwoColumns(j)
  BY <1>1 DEF TwoColumns
<1> DEFINE k == FirstWithKey(j)
<1>3. k \in DataRows /\ k <= j /\ ~(k < j)
  BY <1>1, <1>2, FirstWithKeyIs
<1>4. j \in Nat /\ DataRows \subseteq Nat
  BY DataRowsType
<1>5. k = j
  <2> HIDE DEF k
  <2> QED
    BY <1>3, <1>4
<1> QED
  BY <1>2, <1>5

\* The entries of a dataset that is accepted are its rows.
LEMMA AcceptedMeans ==
  ASSUME MeaningIInv, result = "ok"
  PROVE  /\ AllProblems(DataRows) = {}
         /\ \A j \in DataRows : TwoColumns(j) /\ FirstWithKey(j) = j
         /\ \A j \in DataRows : \E i \in DOMAIN entries : KeyOf(arena, entries[i]) = file[j].key
         /\ Len(entries) = Cardinality(DataRows)
<1>1. /\ DataRows \subseteq 1..Len(file) /\ DataRows \subseteq Nat /\ Len(file) \in Nat
      /\ pos \in Nat /\ file \in Seq(Row) /\ errors = <<>> /\ pos > Len(file)
  BY DataRowsType DEF MeaningIInv, LoaderIInv, LoaderTypeOK, Verdict
<1>2. \A j \in DataRows : j < pos /\ j <= pos - 1
  BY <1>1
<1>3. Looked = DataRows
  BY <1>2 DEF Looked
<1>4. AllProblems(DataRows) = {}
  <2>1. ToSet(errors) = {}
    BY <1>1 DEF ToSet
  <2> QED
    BY <1>3, <2>1 DEF MeaningIInv, ReportSoFar
<1>5. ASSUME NEW j \in DataRows PROVE TwoColumns(j) /\ FirstWithKey(j) = j
  <2>1. Problems(j) = {}
    BY <1>4 DEF AllProblems
  <2> QED
    BY <1>1, <2>1, RowsAreSound
<1>6. \A j \in DataRows : \E i \in DOMAIN entries : KeyOf(arena, entries[i]) = file[j].key
  BY <1>2, <1>5 DEF MeaningIInv, RowsHaveEntries
<1>7. NewKeyRows(pos - 1) = DataRows
  BY <1>2, <1>5 DEF NewKeyRows
<1> QED
  BY <1>4, <1>5, <1>6, <1>7 DEF MeaningIInv, Sizes

\* What is accepted is served as the file has it.
LEMMA AcceptedIsServed == MeaningIInv => StoreServesTheFile
<1> SUFFICES ASSUME MeaningIInv, result = "ok" PROVE StoreServesTheFile
  BY DEF StoreServesTheFile
<1>1. /\ AllProblems(DataRows) = {}
      /\ \A j \in DataRows : TwoColumns(j) /\ FirstWithKey(j) = j
      /\ \A j \in DataRows : \E i \in DOMAIN entries : KeyOf(arena, entries[i]) = file[j].key
      /\ Len(entries) = Cardinality(DataRows)
  BY AcceptedMeans
<1>2. file \in Seq(Row) /\ entries \in Seq(Entry)
  BY DEF MeaningIInv, LoaderIInv, LoaderTypeOK
<1>3. ASSUME NEW k
      PROVE  Get(FromParts(arena, entries), k)
               = {file[i].val : i \in {j \in DataRows : TwoColumns(j) /\ file[j].key = k}}
  <2> DEFINE E == {j \in DOMAIN entries : KeyOf(arena, entries[j]) = k}
             R == {j \in DataRows : TwoColumns(j) /\ file[j].key = k}
  <2>1. Get(FromParts(arena, entries), k) = {ValOf(arena, entries[i]) : i \in E}
    BY GetOfParts
  <2>2. \A i \in DOMAIN entries : \E j \in DataRows :
          file[j].key = KeyOf(arena, entries[i]) /\ file[j].val = ValOf(arena, entries[i])
    BY DEF MeaningIInv, EntriesAreRows
  <2>3. ASSUME NEW i \in E PROVE \E j \in R : file[j].val = ValOf(arena, entries[i])
    BY <1>1, <2>2
  <2>4. ASSUME NEW j \in R PROVE \E i \in E : ValOf(arena, entries[i]) = file[j].val
    <3>1. PICK i \in DOMAIN entries : KeyOf(arena, entries[i]) = k
      BY <1>1
    <3>2. PICK m \in DataRows : file[m].key = k /\ file[m].val = ValOf(arena, entries[i])
      BY <2>2, <3>1
    <3>3. FirstWithKey(m) = FirstWithKey(j)
      BY <1>1, <1>2, <3>2, FirstWithKeyIs
    <3>4. m = j
      BY <1>1, <3>3
    <3> QED
      BY <3>1, <3>2, <3>4
  <2> HIDE DEF E, R
  <2>5. {ValOf(arena, entries[i]) : i \in E} = {file[j].val : j \in R}
    BY <2>3, <2>4
  <2> QED
    BY <2>1, <2>5 DEF R
<1>4. StoreLen(FromParts(arena, entries)) = Cardinality(DataRows)
  BY <1>1, <1>2, LenOfParts
<1> QED
  BY <1>1, <1>3, <1>4 DEF StoreServesTheFile

\* Whatever the dataset, the hash function and the keys asked for: what is accepted
\* is served as the file has it (csv_loader.rs:200-210, store/mod.rs:43-70).
THEOREM ServesFile == LoaderSpec => []StoreServesTheFile
<1>1. MeaningIInv => StoreServesTheFile
  BY AcceptedIsServed
<1> QED
  BY <1>1, MeaningInvariance, PTL
==============================================================================
