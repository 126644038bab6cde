---------------------------- MODULE LoadPathsProofs ---------------------------
(* Proofs about LoadPaths: whatever the dataset, the hash function and the   *)
(* command line, a store that was built and loaded again is the one that     *)
(* parsing the dataset gave, and what is accepted was split at the character *)
(* that was typed.                                                           *)
EXTENDS LoadPaths, CsvLoaderProofs

------------------------------------------------------------------------------
(* As many entries as a u32 can count *)

\* How many entries have an empty key.
EmptyKeys == IF \E i \in DOMAIN entries : entries[i].k_len = 0 THEN 1 ELSE 0

\* Every key but the empty one has a byte in the arena; when that is all there is,
\* no key is longer.
FewEntries ==
  /\ Len(entries) <= Len(arena) + EmptyKeys
  /\ Len(entries) = Len(arena) + EmptyKeys => \A i \in DOMAIN entries : entries[i].k_len <= 1

\* The length of an entry's key.
LEMMA KeyLength ==
  ASSUME LoaderIInv, NEW i \in DOMAIN entries
  PROVE  /\ entries[i].k_len \in Nat
         /\ KeyOf(arena, entries[i]) \in Seq(Byte)
         /\ Len(KeyOf(arena, entries[i])) = entries[i].k_len
<1> DEFINE e == entries[i]
           s == KeyOf(arena, e)
<1>1. arena \in Seq(Byte) /\ Len(arena) \in Nat /\ Len(arena) <= U32Max /\ e \in Entry
      /\ e.k_off + e.k_len = e.v_off /\ e.v_off + e.v_len <= Len(arena)
  BY LenProperties DEF LoaderIInv, LoaderTypeOK, Packed, InArena
<1>2. e.k_off \in Nat /\ e.k_len \in Nat /\ e.v_off \in Nat
  BY <1>1, EntryFields
<1> HIDE DEF e
<1>3. s = SubSeq(arena, e.k_off + 1, e.v_off) /\ e.v_off <= Len(arena)
  BY <1>1, KeyInArena DEF Slice
<1> DEFINE lo == e.k_off + 1
           hi == e.v_off
<1>4. \A j \in lo..hi : arena[j] \in Byte
  BY <1>1, <1>2, <1>3
<1>5. lo \in Int /\ hi \in Int
  BY <1>2
<1>6. /\ SubSeq(arena, lo, hi) \in Seq(Byte)
      /\ Len(SubSeq(arena, lo, hi)) = IF lo <= hi THEN hi - lo + 1 ELSE 0
  <2> HIDE DEF lo, hi
  <2> QED
    BY <1>4, <1>5, SubSeqProperties
<1>7. (IF e.k_off + 1 <= e.v_off THEN e.v_off - (e.k_off + 1) + 1 ELSE 0) = e.k_len
  BY <1>1, <1>2
<1>8. s \in Seq(Byte) /\ Len(s) = e.k_len
  <2> HIDE DEF s
  <2> QED
    BY <1>3, <1>6, <1>7
<1> QED
  BY <1>2, <1>8 DEF e

\* A row that is appended: its key has a byte, or is the empty one.
LEMMA FewEntriesStep ==
  ASSUME LoaderIInv, LoaderIInv', FewEntries, AppendRow
  PROVE  FewEntries'
<1> DEFINE n == Len(entries)
           a == Len(arena)
           k == Len(row.key)
           v == Len(row.val)
<1>1. /\ n \in Nat /\ DOMAIN entries = 1..n /\ Len(entries') = n + 1 /\ DOMAIN entries' = 1..n + 1
      /\ Len(arena') = a + k + v
  BY AppendRowMeans
<1>7. /\ \A i \in 1..n : KeyOf(arena', entries'[i]) = KeyOf(arena, entries[i])
      /\ KeyOf(arena', entries'[n + 1]) = row.key
  BY AppendRowMeans
<1>2. row.key \in Seq(Byte) /\ row.val \in Seq(Byte) /\ entries \in Seq(Entry) /\ arena \in Seq(Byte)
  BY RowType, RowFields DEF AppendRow, KeyValue, LoaderIInv, LoaderTypeOK
<1>3. k \in Nat /\ v \in Nat /\ a \in Nat
  BY <1>2, LenProperties
<1>4. \A i \in 1..n : entries'[i] = entries[i] /\ entries[i].k_len \in Nat
  <2>1. entries' = Append(entries, NewEntry)
    BY DEF AppendRow
  <2>2. \A i \in 1..n : entries[i].k_len \in Nat
    BY <1>1, KeyLength
  <2> QED
    BY <1>2, <2>1, <2>2
<1>5. entries'[n + 1].k_len = k
  <2>1. entries' = Append(entries, NewEntry) /\ NewEntry.k_len = k
    BY DEF AppendRow, NewEntry
  <2> HIDE DEF k
  <2> QED
    BY <1>2, <2>1
<1> HIDE DEF n, a, k, v
<1>6. CASE k = 0
  <2>1. \A i \in 1..n : entries[i].k_len # 0
    <3> SUFFICES ASSUME NEW i \in 1..n, entries[i].k_len = 0 PROVE FALSE
      OBVIOUS
    <3> DEFINE x == KeyOf(arena, entries[i])
               y == row.key
    <3>1. x \in Seq(Byte) /\ Len(x) = 0
      BY <1>1, KeyLength
    <3>2. y \in Seq(Byte) /\ Len(y) = 0
      BY <1>2, <1>6 DEF k
    <3>3. x = y
      <4> HIDE DEF x, y
      <4> QED
        BY <3>1, <3>2, SeqEqual
    <3>4. KeyOf(arena', entries'[i]) = KeyOf(arena', entries'[n + 1])
      BY <1>7, <3>3
    <3>5. i \in DOMAIN entries' /\ n + 1 \in DOMAIN entries' /\ i # n + 1
      BY <1>1
    <3> QED
      BY <3>4, <3>5 DEF LoaderIInv, NoDuplicateKeys
  <2>2. EmptyKeys = 0
    BY <1>1, <2>1 DEF EmptyKeys
  <2>3. EmptyKeys' = 1
    <3>1. n + 1 \in DOMAIN entries'
      BY <1>1
    <3> QED
      BY <1>5, <1>6, <3>1 DEF EmptyKeys
  <2>4. n <= a /\ (n = a => \A i \in 1..n : entries[i].k_len <= 1)
    <3>1. n <= a + 0 /\ (n = a + 0 => \A i \in 1..n : entries[i].k_len <= 1)
      BY <1>1, <2>2 DEF FewEntries, n, a
    <3> QED
      BY <1>3, <3>1
  <2>5. n + 1 <= a + k + v + 1
    BY <1>1, <1>3, <2>4
  <2>6. ASSUME n + 1 = a + k + v + 1, NEW i \in 1..n + 1 PROVE entries'[i].k_len <= 1
    <3>1. n = a
      BY <1>1, <1>3, <2>4, <2>6
    <3>2. CASE i = n + 1
      BY <1>5, <1>6, <3>2
    <3>3. CASE i \in 1..n
      BY <1>4, <2>4, <3>1, <3>3
    <3> QED
      BY <1>1, <3>2, <3>3
  <2> QED
    BY <1>1, <2>3, <2>5, <2>6 DEF FewEntries
<1>8. CASE k # 0
  <2> DEFINE z == EmptyKeys
  <2>1. EmptyKeys' = z
    <3>1. (\E i \in 1..n + 1 : entries'[i].k_len = 0) <=> \E i \in 1..n : entries[i].k_len = 0
      <4>1. \A i \in 1..n + 1 : i \in 1..n \/ i = n + 1
        BY <1>1
      <4>2. \A i \in 1..n : i \in 1..n + 1
        BY <1>1
      <4>3. ASSUME NEW i \in 1..n + 1, entries'[i].k_len = 0 PROVE \E j \in 1..n : entries[j].k_len = 0
        <5>1. i # n + 1
          BY <1>5, <1>8, <4>3
        <5>2. i \in 1..n
          BY <4>1, <5>1
        <5>3. entries[i].k_len = 0
          BY <1>4, <4>3, <5>2
        <5> QED
          BY <5>2, <5>3
      <4>4. ASSUME NEW i \in 1..n, entries[i].k_len = 0 PROVE \E j \in 1..n + 1 : entries'[j].k_len = 0
        <5>1. entries'[i].k_len = 0
          BY <1>4, <4>4
        <5>2. i \in 1..n + 1
          BY <4>2, <4>4, Zenon
        <5> QED
          BY <5>1, <5>2, Zenon
      <4> QED
        BY <4>3, <4>4
    <3> QED
      BY <1>1, <3>1 DEF EmptyKeys
  <2>2. z \in Nat /\ n <= a + z /\ (n = a + z => \A i \in 1..n : entries[i].k_len <= 1)
    BY <1>1 DEF FewEntries, EmptyKeys, n, a
  <2> HIDE DEF z
  <2>3. n + 1 <= a + k + v + z
    BY <1>1, <1>3, <1>8, <2>2
  <2>4. ASSUME n + 1 = a + k + v + z, NEW i \in 1..n + 1 PROVE entries'[i].k_len <= 1
    <3>1. n = a + z /\ k <= 1
      BY <1>1, <1>3, <1>8, <2>2, <2>4
    <3>2. CASE i = n + 1
      BY <1>5, <3>1, <3>2
    <3>3. CASE i \in 1..n
      BY <1>4, <2>2, <3>1, <3>3
    <3> QED
      BY <1>1, <3>2, <3>3
  <2> QED
    BY <1>1, <2>1, <2>3, <2>4 DEF FewEntries
<1> QED
  BY <1>6, <1>8

\* Few enough to count in a u32: `entries.len() as u32` in write_compiled cuts
\* nothing off (compiled.rs:43).
LEMMA EntriesFit ==
  ASSUME LoaderIInv, FewEntries
  PROVE  Len(entries) \in Nat /\ Len(entries) <= U32Max
<1> DEFINE n == Len(entries)
           a == Len(arena)
<1>1. entries \in Seq(Entry) /\ n \in Nat /\ DOMAIN entries = 1..n /\ a \in Nat /\ a <= U32Max /\ U32Max \in Nat
  <2>1. entries \in Seq(Entry) /\ arena \in Seq(Byte)
    BY DEF LoaderIInv, LoaderTypeOK
  <2>2. n \in Nat /\ DOMAIN entries = 1..n /\ a \in Nat
    BY <2>1, LenProperties
  <2>3. a <= U32Max
    <3>1. Packed
      BY Zenon DEF LoaderIInv
    <3> QED
      BY <3>1, Zenon DEF Packed
  <2> HIDE DEF n, a
  <2> QED
    BY <2>1, <2>2, <2>3, StoreAssumption, Zenon
<1>2. EmptyKeys \in {0, 1} /\ n <= a + EmptyKeys
      /\ (n = a + EmptyKeys => \A i \in 1..n : entries[i].k_len <= 1)
  <2>1. EmptyKeys \in {0, 1}
    BY DEF EmptyKeys
  <2>2. DOMAIN entries = 1..n
    BY <1>1
  <2> QED
    BY <2>1, <2>2 DEF FewEntries
<1> HIDE DEF n, a
<1>3. CASE n <= a
  BY <1>1, <1>3 DEF n
<1>4. CASE ~(n <= a)
  <2> DEFINE One == {<<b>> : b \in Byte}
             Short == One \cup {<<>>}
             f == [b \in Byte |-> <<b>>]
             g == [i \in 1..n |-> KeyOf(arena, entries[i])]
  <2>1. \A i \in 1..n : entries[i].k_len <= 1
    BY <1>1, <1>2, <1>4
  <2>2. IsFiniteSet(One) /\ Cardinality(One) <= Cardinality(Byte)
    <3>1. f \in Surjection(Byte, One)
      BY DEF Surjection
    <3> HIDE DEF f, One
    <3> QED
      BY <3>1, FS_Surjection, FormatAssumption
  <2>3. IsFiniteSet(Short) /\ Cardinality(Short) <= U32Max
    <3>1. Cardinality(One) \in Nat /\ Cardinality(Byte) \in Nat /\ Cardinality(Byte) < U32Max
      BY <2>2, FS_CardinalityType, FormatAssumption
    <3>2. IsFiniteSet(Short) /\ Cardinality(Short) <= Cardinality(One) + 1
      <4>1. /\ IsFiniteSet(One \cup {<<>>})
            /\ Cardinality(One \cup {<<>>}) = IF <<>> \in One THEN Cardinality(One) ELSE Cardinality(One) + 1
        <5> HIDE DEF One
        <5> QED
          BY <2>2, FS_AddElement
      <4> HIDE DEF One
      <4> QED
        BY <3>1, <4>1
    <3>3. Cardinality(Short) \in Nat
      <4> HIDE DEF Short
      <4> QED
        BY <3>2, FS_CardinalityType
    <3> HIDE DEF Short, One
    <3> QED
      BY <1>1, <2>2, <3>1, <3>2, <3>3
  <2>4. ASSUME NEW i \in 1..n PROVE KeyOf(arena, entries[i]) \in Short
    <3> DEFINE s == KeyOf(arena, entries[i])
    <3>1. s \in Seq(Byte) /\ Len(s) = entries[i].k_len /\ entries[i].k_len \in Nat
      BY <1>1, KeyLength
    <3>2. Len(s) = 0 \/ Len(s) = 1
      BY <2>1, <3>1
    <3> HIDE DEF s
    <3>3. s = <<>> \/ \E b \in Byte : s = <<b>>
      <4>1. CASE Len(s) = 0
        BY <3>1, <4>1
      <4>2. CASE Len(s) = 1
        <5>1. s[1] \in Byte /\ s = <<s[1]>>
          BY <3>1, <4>2
        <5> QED
          BY <5>1
      <4> QED
        BY <3>2, <4>1, <4>2
    <3>4. s \in Short
      BY <3>3
    <3> QED
      BY <3>4 DEF s
  <2> HIDE DEF Short
  <2>5. g \in Injection(1..n, Short)
    <3>1. g \in [1..n -> Short]
      BY <2>4
    <3>2. \A i, j \in 1..n : KeyOf(arena, entries[i]) = KeyOf(arena, entries[j]) => i = j
      BY <1>1 DEF LoaderIInv, NoDuplicateKeys
    <3>3. IsInjective(g)
      BY <3>2 DEF IsInjective
    <3> QED
      BY <3>1, <3>3 DEF Injection
  <2> HIDE DEF g
  <2>6. Cardinality(1..n) <= Cardinality(Short)
    BY <2>3, <2>5, FS_Injection
  <2>7. Cardinality(1..n) = n
    <3>1. Cardinality(1..n) = IF 1 > n THEN 0 ELSE n - 1 + 1
      BY <1>1, FS_Interval
    <3> QED
      BY <1>1, <3>1
  <2>8. Cardinality(Short) \in Nat
    BY <2>3, FS_CardinalityType
  <2> QED
    BY <1>1, <2>3, <2>6, <2>7, <2>8 DEF n
<1> QED
  BY <1>3, <1>4

------------------------------------------------------------------------------
(* The format, seen from LoadPaths *)

\* Every artifact that can be written.
AnyArtifact == {a \in [arena : Seq(U32), entries : Seq(Entry), flags : U32] : C!Writable(a)}

\* What CompiledProofs says of reading, of every artifact.
CP == INSTANCE CompiledProofs WITH Inputs <- {<<>>}, Artifacts <- AnyArtifact

\* Its assumptions hold here.
LEMMA FormatAssumptions == CP!StoreAssumption /\ CP!CompiledAssumption /\ CP!ArtifactsAssumption
<1>1. CP!StoreAssumption
  BY StoreAssumption DEF CP!StoreAssumption
<1>2. CP!CompiledAssumption
  BY FormatAssumption DEF CP!CompiledAssumption, CP!U32, U32
<1>3. CP!ArtifactsAssumption
  BY DEF CP!ArtifactsAssumption, AnyArtifact, C!Writable, CP!Writable, U32, CP!U32, C!U32,
         Entry, CP!Entry, C!Entry
<1> QED
  BY <1>1, <1>2, <1>3

\* A step of the reader is a step of the reader there.
LEMMA SameReader == C!ReadNext => [CP!ReadNext]_(CP!readVars)
<1>1. /\ C!HEADER_LEN = CP!HEADER_LEN /\ C!ENTRY_LEN = CP!ENTRY_LEN
      /\ C!flags = CP!flags /\ C!count = CP!count /\ C!arena_len = CP!arena_len
  BY DEF C!HEADER_LEN, CP!HEADER_LEN, C!ENTRY_LEN, CP!ENTRY_LEN, C!flags, CP!flags,
         C!count, CP!count, C!arena_len, CP!arena_len
<1>2. C!IsCompiled(data) <=> CP!IsCompiled(data)
  BY DEF C!IsCompiled, CP!IsCompiled
<1>3. C!total = CP!total /\ C!entries_end = CP!entries_end /\ (C!HasHeader <=> CP!HasHeader)
  BY <1>1, <1>2 DEF C!total, CP!total, C!entries_end, CP!entries_end, C!HasHeader, CP!HasHeader
<1>4. C!next = CP!next
  BY <1>1 DEF C!next, CP!next
<1>5. \A e : (C!Fail(e) <=> CP!Fail(e)) /\ (C!InBounds(e) <=> CP!InBounds(e))
  BY <1>1 DEF C!Fail, CP!Fail, C!InBounds, CP!InBounds
<1>6. C!Slice(data, C!entries_end, C!total) = CP!Slice(data, CP!entries_end, CP!total)
  BY <1>3 DEF C!Slice, CP!Slice
<1> QED
  BY <1>1, <1>2, <1>3, <1>4, <1>5, <1>6
     DEF C!ReadNext, CP!ReadNext, C!BadMagic, CP!BadMagic, C!TruncatedHeader, CP!TruncatedHeader,
         C!TruncatedBody, CP!TruncatedBody, C!ReadHeader, CP!ReadHeader, C!OutOfBounds,
         CP!OutOfBounds, C!DecodeEntry, CP!DecodeEntry, C!TakeArena, CP!TakeArena

\* What is written is what is written there.
LEMMA SameWriter ==
  ASSUME NEW ar, NEW es, NEW fl
  PROVE  C!WriteCompiled(ar, es, fl) = CP!WriteCompiled(ar, es, fl)
BY DEF C!WriteCompiled, CP!WriteCompiled, C!AsU32, CP!AsU32, C!ENTRY_LEN, CP!ENTRY_LEN,
       C!EntryField, CP!EntryField

------------------------------------------------------------------------------
(* The invariant *)

\* What the parser was given is what the command line says.
Commanded ==
  /\ invocation \in Invocations
  /\ opts = LoadOptions(invocation)
  /\ file = IF ArgsOk(invocation) THEN Yielded(invocation) ELSE <<>>
  /\ result # "loading" => ArgsOk(invocation)

\* What there is to read: nothing yet, ...
Unread == data = <<>> /\ phase = "header" /\ error = "none" /\ outEntries = <<>>

\* ... what build made of the dataset that it accepted, ...
Built ==
  /\ invocation.path = "build" /\ result = "ok" /\ data # <<>>
  /\ data = C!WriteCompiled(arena, entries, FlagsOf(opts))

\* ... or a dataset that serve takes for an artifact.
Sniffed == Misread /\ data # <<>> /\ data = invocation.cells

PathIInv ==
  /\ MeaningIInv /\ FewEntries /\ Commanded
  /\ CP!ArtifactIInv
  /\ Unread \/ Built \/ Sniffed

\* What build writes.
Artifact == [arena |-> arena, entries |-> entries, flags |-> FlagsOf(opts)]

LEMMA ArtifactIsWritable ==
  ASSUME LoaderIInv, FewEntries
  PROVE  Artifact \in AnyArtifact
<1>1. /\ arena \in Seq(Byte) /\ Len(arena) <= U32Max /\ entries \in Seq(Entry)
      /\ \A i \in DOMAIN entries :
           /\ entries[i].k_off + entries[i].k_len = entries[i].v_off
           /\ entries[i].v_off + entries[i].v_len <= Len(arena)
  BY DEF LoaderIInv, LoaderTypeOK, Packed, InArena
<1>2. arena \in Seq(U32)
  BY <1>1, FormatAssumption
<1>3. Len(entries) <= U32Max
  BY EntriesFit
<1>4. ASSUME NEW i \in DOMAIN entries
      PROVE  entries[i].k_off + entries[i].k_len <= Len(arena)
  <2> DEFINE e == entries[i]
  <2>1. e \in Entry /\ e.k_off + e.k_len = e.v_off /\ e.v_off + e.v_len <= Len(arena)
    BY <1>1
  <2>2. e.v_off \in Nat /\ e.v_len \in Nat /\ Len(arena) \in Nat
    BY <1>1, <2>1, EntryFields, LenProperties
  <2> HIDE DEF e
  <2>3. e.k_off + e.k_len <= Len(arena)
    BY <2>1, <2>2
  <2> QED
    BY <2>3 DEF e
<1>5. FlagsOf(opts) \in U32
  <2>1. 0 \in U32 /\ 1 \in U32
    <3>1. Len(MAGIC) \in Nat /\ Len(MAGIC) < U32Max /\ U32Max \in Nat
      BY FormatAssumption, StoreAssumption, LenProperties
    <3> QED
      BY <3>1 DEF U32
  <2> QED
    BY <2>1 DEF FlagsOf, FLAG_BINARY
<1>6. C!Writable(Artifact)
  BY <1>1, <1>2, <1>3, <1>4, <1>5 DEF C!Writable, Artifact, C!U32, U32, C!Entry, Entry
<1> QED
  BY <1>1, <1>2, <1>5, <1>6 DEF AnyArtifact, Artifact

\* A file of build begins with the artifact, and is one.
LEMMA BuiltBegins ==
  ASSUME Artifact \in AnyArtifact, data = C!WriteCompiled(arena, entries, FlagsOf(opts))
  PROVE  data \in Seq(U32) /\ CP!Begins(Artifact)
<1> DEFINE w == CP!Written(Artifact)
<1>1. w = data
  BY SameWriter DEF CP!Written, Artifact
<1>2. CP!HasLayout(w, Artifact.arena, Artifact.entries, Artifact.flags)
  BY FormatAssumptions, CP!ArtifactLayout
<1>3. w \in Seq(CP!U32)
  BY <1>2 DEF CP!HasLayout
<1> HIDE DEF w
<1>4. SubSeq(w, 1, Len(w)) = w /\ Len(w) >= Len(w)
  <2>1. Len(w) \in Nat /\ Len(w) <= Len(w)
    BY <1>3, LenProperties
  <2>2. \A i \in 1..Len(w) : w[i] = w[i]
    OBVIOUS
  <2>3. SubSeq(w, 1, Len(w)) = w <=> \A i \in 1..Len(w) : w[i] = w[i]
    BY <1>3, <2>1, FormatAssumptions, CP!BeginsWith
  <2> QED
    BY <2>1, <2>2, <2>3
<1> QED
  BY <1>1, <1>3, <1>4 DEF CP!Begins, w, CP!U32, U32

\* The file is there before the reader starts.
LEMMA ReaderWaits ==
  ASSUME CP!ArtifactIInv, Unread, data' \in Seq(U32),
         UNCHANGED <<phase, error, outArena, outEntries, outFlags>>
  PROVE  CP!ArtifactIInv'
<1>1. CP!ReadIInv'
  BY DEF Unread, CP!ArtifactIInv, CP!ReadIInv, CP!ReadTypeOK, CP!BodyIsThere, CP!EntriesInBounds,
         CP!MatchesItsHeader, CP!U32, U32, CP!Entry, Entry
<1>2. ASSUME NEW a \in AnyArtifact PROVE CP!ReadsBack(a)' /\ CP!NothingFromACut(a)'
  <2>1. Len(outEntries') = 0
    BY DEF Unread
  <2> QED
    BY <2>1 DEF Unread, CP!ReadsBack, CP!NothingFromACut
<1> QED
  BY <1>1, <1>2 DEF CP!ArtifactIInv

------------------------------------------------------------------------------
(* The steps *)

\* What a step of the parser changes, and when it may be taken.
LEMMA LoaderStep ==
  ASSUME LoaderNext
  PROVE  /\ result = "loading" /\ file' = file /\ opts' = opts
         /\ AppendRow \/ (arena' = arena /\ entries' = entries)
BY DEF LoaderNext, Eof, Malformed, WrongColumns, Duplicate, TooLarge, AppendRow, KeepParts,
       KeyValue, Reading

LEMMA ParseStep ==
  ASSUME PathIInv, Parse
  PROVE  PathIInv'
<1>1. LoaderNext /\ ~Misread /\ UNCHANGED <<artifactVars, invocation>>
  BY DEF Parse
<1>2. /\ result = "loading" /\ file' = file /\ opts' = opts
      /\ AppendRow \/ (arena' = arena /\ entries' = entries)
  BY <1>1, LoaderStep
<1>3. MeaningIInv'
  BY <1>1, MeaningNext DEF PathIInv
<1>4. FewEntries'
  <2>1. CASE AppendRow
    BY <1>3, <2>1, FewEntriesStep DEF PathIInv, MeaningIInv
  <2>2. CASE arena' = arena /\ entries' = entries
    BY <2>2 DEF PathIInv, FewEntries, EmptyKeys
  <2> QED
    BY <1>2, <2>1, <2>2
<1>5. Commanded'
  BY <1>1, <1>2 DEF Parse, PathIInv, Commanded
<1>6. CP!ArtifactIInv'
  <2>1. UNCHANGED CP!readVars
    BY <1>1 DEF artifactVars, CP!readVars
  <2> QED
    BY <2>1, FormatAssumptions, CP!ArtifactStep DEF PathIInv
<1>7. Unread'
  <2>1. Unread
    BY <1>1, <1>2 DEF PathIInv, Built, Sniffed
  <2> QED
    BY <1>1, <2>1 DEF Unread, artifactVars
<1> QED
  BY <1>3, <1>4, <1>5, <1>6, <1>7 DEF PathIInv

\* A step that leaves the parser alone.
LEMMA ParserRests ==
  ASSUME PathIInv, UNCHANGED <<loaderVars, invocation>>
  PROVE  MeaningIInv' /\ FewEntries' /\ Commanded'
<1>1. MeaningIInv'
  BY MeaningNext DEF PathIInv
<1>2. /\ arena' = arena /\ entries' = entries /\ opts' = opts /\ file' = file
      /\ result' = result /\ invocation' = invocation
  BY DEF loaderVars
<1> QED
  BY <1>1, <1>2 DEF PathIInv, FewEntries, EmptyKeys, Commanded

LEMMA SniffStep ==
  ASSUME PathIInv, Sniff
  PROVE  PathIInv'
<1>1. /\ Misread /\ data = <<>> /\ data' = invocation.cells
      /\ UNCHANGED <<loaderVars, invocation>>
      /\ UNCHANGED <<phase, error, outArena, outEntries, outFlags>>
  BY DEF Sniff
<1>2. Unread
  BY <1>1 DEF PathIInv, Built, Sniffed
<1>3. MeaningIInv' /\ FewEntries' /\ Commanded'
  BY <1>1, ParserRests
<1>4. CP!ArtifactIInv'
  <2>1. invocation.cells \in Seq(U32)
    BY InvocationsAssumption DEF PathIInv, Commanded, Invocation
  <2> QED
    BY <1>1, <1>2, <2>1, ReaderWaits DEF PathIInv
<1>5. Unread' \/ Sniffed'
  <2>1. CASE data' = <<>>
    BY <1>1, <1>2, <2>1 DEF Unread
  <2>2. CASE data' # <<>>
    <3>1. invocation' = invocation /\ Misread'
      BY <1>1 DEF Misread, C!IsCompiled
    <3> QED
      BY <1>1, <2>2, <3>1 DEF Sniffed
  <2> QED
    BY <2>1, <2>2
<1> QED
  BY <1>3, <1>4, <1>5 DEF PathIInv

LEMMA WriteStep ==
  ASSUME PathIInv, Write
  PROVE  PathIInv'
<1>1. /\ invocation.path = "build" /\ result = "ok" /\ data = <<>>
      /\ data' = C!WriteCompiled(arena, entries, FlagsOf(opts))
      /\ UNCHANGED <<loaderVars, invocation>>
      /\ UNCHANGED <<phase, error, outArena, outEntries, outFlags>>
  BY DEF Write
<1>2. Unread
  BY <1>1 DEF PathIInv, Built, Sniffed
<1>3. MeaningIInv' /\ FewEntries' /\ Commanded'
  BY <1>1, ParserRests
<1>4. CP!ArtifactIInv'
  <2>1. Artifact \in AnyArtifact
    BY ArtifactIsWritable DEF PathIInv, MeaningIInv
  <2>2. CP!HasLayout(CP!Written(Artifact), Artifact.arena, Artifact.entries, Artifact.flags)
    BY <2>1, FormatAssumptions, CP!ArtifactLayout
  <2>3. data' = CP!Written(Artifact)
    BY <1>1, SameWriter DEF CP!Written, Artifact
  <2>4. data' \in Seq(U32)
    BY <2>2, <2>3 DEF CP!HasLayout, CP!U32, U32
  <2> QED
    BY <1>1, <1>2, <2>4, ReaderWaits DEF PathIInv
<1>5. Unread' \/ Built'
  <2>1. CASE data' = <<>>
    BY <1>1, <1>2, <2>1 DEF Unread
  <2>2. CASE data' # <<>>
    <3>1. /\ invocation' = invocation /\ result' = result
          /\ arena' = arena /\ entries' = entries /\ opts' = opts
      BY <1>1 DEF loaderVars
    <3> QED
      BY <1>1, <2>2, <3>1 DEF Built
  <2> QED
    BY <2>1, <2>2
<1> QED
  BY <1>3, <1>4, <1>5 DEF PathIInv

LEMMA ReadStep ==
  ASSUME PathIInv, Read
  PROVE  PathIInv'
<1>1. data # <<>> /\ C!ReadNext /\ UNCHANGED <<loaderVars, invocation>>
  BY DEF Read
<1>2. [CP!ReadNext]_(CP!readVars) /\ data' = data
  <2>1. data' = data
    BY <1>1 DEF C!ReadNext, C!BadMagic, C!TruncatedHeader, C!TruncatedBody, C!ReadHeader,
           C!OutOfBounds, C!DecodeEntry, C!TakeArena, C!Fail
  <2> QED
    BY <1>1, <2>1, SameReader
<1>3. MeaningIInv' /\ FewEntries' /\ Commanded'
  BY <1>1, ParserRests
<1>4. CP!ArtifactIInv'
  BY <1>2, FormatAssumptions, CP!ArtifactStep DEF PathIInv
<1>5. ASSUME Built PROVE Built'
  <2>1. /\ invocation' = invocation /\ result' = result
        /\ arena' = arena /\ entries' = entries /\ opts' = opts
    BY <1>1 DEF loaderVars
  <2> QED
    BY <1>2, <1>5, <2>1 DEF Built
<1>6. ASSUME Sniffed PROVE Sniffed'
  <2>1. Misread'
    BY <1>1, <1>6 DEF Sniffed, Misread, C!IsCompiled
  <2> QED
    BY <1>1, <1>2, <1>6, <2>1 DEF Sniffed
<1>7. Built \/ Sniffed
  BY <1>1 DEF PathIInv, Unread
<1> QED
  BY <1>3, <1>4, <1>5, <1>6, <1>7 DEF PathIInv

LEMMA PathInit == Init => PathIInv
<1> SUFFICES ASSUME Init PROVE PathIInv
  OBVIOUS
<1>1. LoaderInit /\ Commanded
  BY DEF Init, LoaderInit, Commanded
<1>2. MeaningIInv
  BY <1>1, MeaningInit
<1>3. FewEntries
  <2>1. entries = <<>> /\ arena = <<>>
    BY <1>1 DEF LoaderInit
  <2>2. Len(entries) = 0 /\ Len(arena) = 0 /\ DOMAIN entries = {}
    BY <2>1
  <2> QED
    BY <2>2 DEF FewEntries, EmptyKeys
<1>4. Unread
  BY DEF Init, C!ReadInit, Unread
<1>5. CP!ArtifactIInv
  <2>1. CP!ReadInit
    BY DEF Init, C!ReadInit, CP!ReadInit
  <2> QED
    BY <2>1, FormatAssumptions, CP!ArtifactInit
<1> QED
  BY <1>1, <1>2, <1>3, <1>4, <1>5 DEF PathIInv

LEMMA PathNext == PathIInv /\ [Next]_vars => PathIInv'
<1> SUFFICES ASSUME PathIInv, [Next]_vars PROVE PathIInv'
  OBVIOUS
<1>1. CASE Parse
  BY <1>1, ParseStep
<1>2. CASE Sniff
  BY <1>2, SniffStep
<1>3. CASE Write
  BY <1>3, WriteStep
<1>4. CASE Read
  BY <1>4, ReadStep
<1>5. CASE UNCHANGED vars
  <2>1. UNCHANGED <<loaderVars, invocation>> /\ UNCHANGED artifactVars
    BY <1>5 DEF vars
  <2>2. MeaningIInv' /\ FewEntries' /\ Commanded'
    BY <2>1, ParserRests
  <2>3. CP!ArtifactIInv'
    <3>1. UNCHANGED CP!readVars
      BY <2>1 DEF artifactVars, CP!readVars
    <3> QED
      BY <3>1, FormatAssumptions, CP!ArtifactStep DEF PathIInv
  <2>4. /\ invocation' = invocation /\ result' = result /\ arena' = arena /\ entries' = entries
        /\ opts' = opts /\ data' = data /\ phase' = phase /\ error' = error /\ outEntries' = outEntries
    BY <2>1 DEF loaderVars, artifactVars
  <2>5. Unread' \/ Built' \/ Sniffed'
    BY <2>4 DEF PathIInv, Unread, Built, Sniffed, Misread, C!IsCompiled
  <2> QED
    BY <2>2, <2>3, <2>5 DEF PathIInv
<1> QED
  BY <1>1, <1>2, <1>3, <1>4, <1>5 DEF Next

\* The invariant holds from the command line to the store.
THEOREM PathInvariance == Spec => []PathIInv
BY PathInit, PathNext, PTL DEF Spec

------------------------------------------------------------------------------
(* What holds of every command line *)

\* A store that was built, written and read back is the one that parsing the dataset
\* gave, and is served with the same content type
\* (docs/superpowers/specs/2026-09-13-justkv-design.md:270-274, main.rs:173-175).
THEOREM SameStoreEitherWay == Spec => []FormatEquivalence
<1>1. PathIInv => FormatEquivalence
  <2> SUFFICES ASSUME PathIInv, invocation.path = "build", phase = "ok" PROVE FormatEquivalence
    BY DEF FormatEquivalence
  <2>1. Built
    BY DEF PathIInv, Unread, Sniffed, Misread
  <2>2. Artifact \in AnyArtifact
    BY ArtifactIsWritable DEF PathIInv, MeaningIInv
  <2>3. CP!Begins(Artifact)
    BY <2>1, <2>2, BuiltBegins DEF Built
  <2>4. CP!ReadsBack(Artifact)
    BY <2>2 DEF PathIInv, CP!ArtifactIInv
  <2>5. outArena = arena /\ outEntries = entries /\ outFlags = FlagsOf(opts)
    BY <2>3, <2>4 DEF CP!ReadsBack, Artifact
  <2>6. opts.allow_binary = invocation.allow_binary /\ invocation.allow_binary \in BOOLEAN
    <3>1. invocation \in Invocation
      BY InvocationsAssumption DEF PathIInv, Commanded
    <3> QED
      BY <3>1 DEF PathIInv, Commanded, LoadOptions, Invocation
  <2>7. invocation.allow_binary <=> ContentType(outFlags) = "application/octet-stream"
    <3>1. CASE opts.allow_binary
      <4>1. outFlags = 1 /\ 1 % 2 = 1
        BY <2>5, <3>1 DEF FlagsOf, FLAG_BINARY
      <4> QED
        BY <2>6, <3>1, <4>1 DEF ContentType, FLAG_BINARY
    <3>2. CASE ~opts.allow_binary
      <4>1. outFlags = 0 /\ 0 % 2 = 0
        BY <2>5, <3>2 DEF FlagsOf
      <4> QED
        BY <2>6, <3>2, <4>1 DEF ContentType, FLAG_BINARY
    <3> QED
      BY <3>1, <3>2
  <2> QED
    BY <2>1, <2>5, <2>7 DEF Built, FormatEquivalence
<1> QED
  BY <1>1, PathInvariance, PTL

\* What build wrote is never refused.
ArtifactsAreAccepted == data # <<>> /\ invocation.path = "build" => phase # "err"

\* load never fails on what build wrote, for any dataset that build accepts.
THEOREM BuiltIsAccepted == Spec => []ArtifactsAreAccepted
<1>1. PathIInv => ArtifactsAreAccepted
  <2> SUFFICES ASSUME PathIInv, data # <<>>, invocation.path = "build" PROVE phase # "err"
    BY DEF ArtifactsAreAccepted
  <2>1. Built
    BY DEF PathIInv, Unread, Sniffed, Misread
  <2>2. Artifact \in AnyArtifact
    BY ArtifactIsWritable DEF PathIInv, MeaningIInv
  <2>3. CP!Begins(Artifact)
    BY <2>1, <2>2, BuiltBegins DEF Built
  <2>4. CP!ReadsBack(Artifact)
    BY <2>2 DEF PathIInv, CP!ArtifactIInv
  <2> QED
    BY <2>3, <2>4 DEF CP!ReadsBack
<1> QED
  BY <1>1, PathInvariance, PTL

\* A delimiter that is accepted reaches the reader as it was typed, uncut.
LEMMA DelimiterIsTyped ==
  ASSUME NEW i \in Invocation, ArgsOk(i)
  PROVE  /\ Yielded(i) = Meant(i)
         /\ i.delimiter # NotGiven => Len(i.delimiter) = 1
<1>1. CASE i.delimiter = NotGiven
  BY <1>1 DEF Yielded, Meant, Delimiter
<1>2. CASE i.delimiter # NotGiven
  <2>1. i.delimiter \in Seq(Nat) /\ Len(i.delimiter) = 1 /\ i.delimiter[1] < 128
    BY <1>2 DEF Invocation, ArgsOk, ParseAsciiDelimiter
  <2>2. i.delimiter[1] \in Nat
    BY <2>1
  <2>3. i.delimiter[1] % 256 = i.delimiter[1]
    BY <2>1, <2>2
  <2> QED
    BY <1>2, <2>1, <2>3 DEF Yielded, Meant, Delimiter
<1> QED
  BY <1>1, <1>2

\* Whatever is typed after --delimiter and whatever the text, a dataset that is
\* accepted has two columns in every row at that character, and is served with
\* the keys and values it has there (config.rs:25-68).
THEOREM UnderstoodIfAccepted == Spec => []AcceptedMeansUnderstood
<1>1. PathIInv => AcceptedMeansUnderstood
  <2> SUFFICES ASSUME PathIInv, result = "ok" PROVE AcceptedMeansUnderstood
    BY DEF AcceptedMeansUnderstood
  <2> DEFINE i == invocation
             rows == Meant(i)
             meant == FirstRow(rows, opts)..Len(rows)
  <2>1. i \in Invocation /\ file = IF ArgsOk(i) THEN Yielded(i) ELSE <<>>
    BY InvocationsAssumption DEF PathIInv, Commanded
  <2>2. ArgsOk(i)
    BY DEF PathIInv, Commanded
  <2>3. /\ file = rows
        /\ i.delimiter # NotGiven => Len(i.delimiter) = 1
    BY <2>1, <2>2, DelimiterIsTyped
  <2>4. DataRows = meant
    BY <2>3 DEF DataRows
  <2>5. \A n \in DataRows : TwoColumns(n)
    BY AcceptedMeans DEF PathIInv
  <2>6. \A k \in Probe :
          Get(FromParts(arena, entries), k)
            = {file[n].val : n \in {m \in DataRows : TwoColumns(m) /\ file[m].key = k}}
    BY AcceptedIsServed DEF PathIInv, StoreServesTheFile
  <2>7. \A k \in Probe :
          Get(FromParts(arena, entries), k)
            = {file[n].val : n \in {m \in DataRows : file[m].key = k}}
    BY <2>5, <2>6
  <2>8. \A n \in meant : rows[n].cols = 2
    BY <2>3, <2>4, <2>5 DEF TwoColumns
  <2> HIDE DEF rows, meant
  <2>9. \A k \in Probe :
          Get(FromParts(arena, entries), k) = {rows[n].val : n \in {m \in meant : rows[m].key = k}}
    BY <2>3, <2>4, <2>7
  <2> QED
    BY <2>3, <2>8, <2>9 DEF AcceptedMeansUnderstood, rows, meant
<1> QED
  BY <1>1, PathInvariance, PTL
==============================================================================
