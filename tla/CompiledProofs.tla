---------------------------- MODULE CompiledProofs ---------------------------
(* Proofs about Compiled: a file that read_compiled accepts, be it an       *)
(* artifact, a damaged one or any sequence of cells at all, never makes the *)
(* store slice out of range.                                                *)
EXTENDS Compiled, SequenceTheorems, TLAPS

\* The entries decoded so far come from a body that is all there.
BodyIsThere ==
  phase \in {"entries", "ok"} => HasHeader /\ Len(data) >= total

\* Every entry decoded so far has passed the bounds check.
EntriesInBounds ==
  /\ phase = "header" => outEntries = <<>>
  /\ phase \in {"entries", "ok"} =>
       /\ Len(outEntries) <= count
       /\ \A i \in DOMAIN outEntries : InBounds(outEntries[i])

ReadIInv == ReadTypeOK /\ BodyIsThere /\ EntriesInBounds /\ MatchesItsHeader

\* Header fields of a file that has a header are u32s.
LEMMA HeaderFields ==
  ASSUME data \in Seq(U32), HasHeader
  PROVE  flags \in U32 /\ count \in U32 /\ arena_len \in U32
<1>1. Len(MAGIC) \in Nat
  BY CompiledAssumption
<1>2. Len(MAGIC) + 1 \in 1..Len(data) /\ Len(MAGIC) + 2 \in 1..Len(data)
        /\ Len(MAGIC) + 3 \in 1..Len(data)
  BY <1>1 DEF HasHeader, HEADER_LEN
<1> QED
  BY <1>2 DEF flags, count, arena_len

\* The next entry to decode lies within the file.
LEMMA NextEntry ==
  ASSUME ReadIInv, phase = "entries", Len(outEntries) < count
  PROVE  next \in Entry
<1>1. data \in Seq(U32) /\ HasHeader /\ Len(data) >= total /\ Len(outEntries) \in Nat
  BY DEF ReadIInv, ReadTypeOK, BodyIsThere
<1>2. count \in Nat /\ arena_len \in Nat
  BY <1>1, HeaderFields DEF U32
<1>3. HEADER_LEN \in Nat
  BY CompiledAssumption DEF HEADER_LEN
<1> DEFINE o == HEADER_LEN + Len(outEntries) * 4
<1>4. o \in Nat /\ o + 4 <= Len(data)
  <2>1. HEADER_LEN + (Len(outEntries) + 1) * 4 <= HEADER_LEN + count * 4
    BY <1>1, <1>2, <1>3
  <2>2. HEADER_LEN + count * 4 <= Len(data)
    BY <1>1, <1>2, <1>3 DEF total, entries_end, ENTRY_LEN
  <2> QED
    BY <1>1, <1>2, <1>3, <2>1, <2>2
<1>5. \A k \in 1..4 : data[o + k] \in U32
  BY <1>1, <1>4
<1>6. next = [k_off |-> data[o + 1], k_len |-> data[o + 2],
              v_off |-> data[o + 3], v_len |-> data[o + 4]]
  BY DEF next, ENTRY_LEN
<1> HIDE DEF o
<1> QED
  BY <1>5, <1>6 DEF Entry

\* The arena that is taken has the length the header announces.
LEMMA ArenaLength ==
  ASSUME ReadIInv, phase = "entries"
  PROVE  /\ Slice(data, entries_end, total) \in Seq(U32)
         /\ Len(Slice(data, entries_end, total)) = arena_len
<1>1. data \in Seq(U32) /\ HasHeader /\ Len(data) >= total
  BY DEF ReadIInv, ReadTypeOK, BodyIsThere
<1>2. count \in Nat /\ arena_len \in Nat
  BY <1>1, HeaderFields DEF U32
<1>3. entries_end \in Nat /\ total = entries_end + arena_len
  BY <1>2, CompiledAssumption DEF total, entries_end, HEADER_LEN, ENTRY_LEN
<1>4. Slice(data, entries_end, total) = SubSeq(data, entries_end + 1, total)
  BY DEF Slice
<1>5. \A i \in entries_end + 1..total : data[i] \in U32
  BY <1>1, <1>2, <1>3
<1>6. entries_end + 1 \in Int /\ total \in Int
  BY <1>2, <1>3
<1>7. /\ SubSeq(data, entries_end + 1, total) \in Seq(U32)
      /\ Len(SubSeq(data, entries_end + 1, total))
           = IF entries_end + 1 <= total THEN total - (entries_end + 1) + 1 ELSE 0
  BY <1>5, <1>6, SubSeqProperties, ZenonT(30)
<1>8. Len(SubSeq(data, entries_end + 1, total)) = arena_len
  BY <1>2, <1>3, <1>7
<1> QED
  BY <1>4, <1>7, <1>8

\* Reading starts with nothing decoded.
LEMMA ReadInitIInv == ReadInit => ReadIInv
BY CompiledAssumption, StoreAssumption
   DEF ReadInit, ReadIInv, ReadTypeOK, BodyIsThere, EntriesInBounds, MatchesItsHeader, U32

\* Every step of the reader keeps the invariant.
LEMMA ReadNextIInv == ReadIInv /\ [ReadNext]_readVars => ReadIInv'
<1> SUFFICES ASSUME ReadIInv, [ReadNext]_readVars PROVE ReadIInv'
  OBVIOUS
<1>1. ASSUME NEW e, e \in {"Truncated", "BadMagic", "OutOfBounds"}, Fail(e) PROVE ReadIInv'
  BY <1>1 DEF Fail, ReadIInv, ReadTypeOK, BodyIsThere, EntriesInBounds, MatchesItsHeader
<1>2. CASE ReadHeader
  <2>1. Len(outEntries) = 0 /\ count \in Nat
    BY <1>2, HeaderFields DEF ReadHeader, ReadIInv, ReadTypeOK, EntriesInBounds, U32
  <2> QED
    BY <1>2, <2>1 DEF ReadHeader, ReadIInv, ReadTypeOK, BodyIsThere, EntriesInBounds,
       MatchesItsHeader, HasHeader, IsCompiled, total, entries_end, count, arena_len
<1>3. CASE DecodeEntry
  <2>1. next \in Entry
    BY <1>3, NextEntry DEF DecodeEntry
  <2>2. /\ outEntries \in Seq(Entry) /\ outEntries' = Append(outEntries, next)
        /\ InBounds(next) /\ Len(outEntries) < count
    BY <1>3 DEF DecodeEntry, ReadIInv, ReadTypeOK
  <2>3. \A i \in DOMAIN outEntries' : InBounds(outEntries'[i])
    BY <1>3, <2>1, <2>2 DEF DecodeEntry, ReadIInv, EntriesInBounds
  <2>4. Len(outEntries') = Len(outEntries) + 1 /\ outEntries' \in Seq(Entry)
    BY <2>1, <2>2
  <2>5. UNCHANGED <<count, arena_len, total, HasHeader>>
    BY <1>3 DEF DecodeEntry, count, arena_len, total, entries_end, HasHeader, IsCompiled
  <2>6. count \in Nat
    BY <1>3, HeaderFields DEF DecodeEntry, ReadIInv, ReadTypeOK, BodyIsThere, U32
  <2> QED
    BY <1>3, <2>2, <2>3, <2>4, <2>5, <2>6
       DEF DecodeEntry, ReadIInv, ReadTypeOK, BodyIsThere, EntriesInBounds, MatchesItsHeader, InBounds
<1>4. CASE TakeArena
  <2>1. /\ Slice(data, entries_end, total) \in Seq(U32)
        /\ Len(Slice(data, entries_end, total)) = arena_len
    BY <1>4, ArenaLength DEF TakeArena
  <2>2. flags \in U32
    BY <1>4, HeaderFields DEF TakeArena, ReadIInv, ReadTypeOK, BodyIsThere
  <2>3. UNCHANGED <<flags, count, arena_len, total, HasHeader>>
    BY <1>4 DEF TakeArena, flags, count, arena_len, total, entries_end, HasHeader, IsCompiled
  <2> QED
    BY <1>4, <2>1, <2>2, <2>3
       DEF TakeArena, ReadIInv, ReadTypeOK, BodyIsThere, EntriesInBounds, MatchesItsHeader, InBounds
<1>5. CASE UNCHANGED readVars
  BY <1>5 DEF readVars, ReadIInv, ReadTypeOK, BodyIsThere, EntriesInBounds, MatchesItsHeader,
     InBounds, HasHeader, IsCompiled, total, entries_end, count, arena_len, flags
<1> QED
  BY <1>1, <1>2, <1>3, <1>4, <1>5
     DEF ReadNext, BadMagic, TruncatedHeader, TruncatedBody, OutOfBounds

\* The invariant holds while any file is being read.
THEOREM ReadInvariance == ReadSpec => []ReadIInv
BY ReadInitIInv, ReadNextIInv, PTL DEF ReadSpec

\* What is read has the types of the code, whatever the file.
THEOREM ReadTypeCorrect == ReadSpec => []ReadTypeOK
<1>1. ReadIInv => ReadTypeOK
  BY DEF ReadIInv
<1> QED
  BY <1>1, ReadInvariance, PTL

\* In-bounds windows are sliceable: their u32 sums do not wrap.
LEMMA InBoundsIsSliceable ==
  ASSUME NEW e \in Entry, NEW a, Len(a) = arena_len, arena_len \in U32, InBounds(e)
  PROVE  Sliceable(a, e)
<1>1. \A x, y \in U32 : x + y <= arena_len => AddU32(x, y) = x + y
  BY StoreAssumption DEF AddU32, U32
<1> QED
  BY <1>1, StoreAssumption DEF Entry, InBounds, Sliceable, SliceOk, U32

\* No accepted file leads to out-of-range slicing (compiled.rs:64).
THEOREM SlicingSafety == ReadSpec => []NeverSlicesOutOfRange
<1>1. ReadIInv => NeverSlicesOutOfRange
  <2> SUFFICES ASSUME ReadIInv, phase = "ok", NEW i \in DOMAIN outEntries
               PROVE  Sliceable(outArena, outEntries[i])
    BY DEF NeverSlicesOutOfRange
  <2>1. outEntries[i] \in Entry /\ InBounds(outEntries[i])
    BY DEF ReadIInv, ReadTypeOK, EntriesInBounds
  <2>2. Len(outArena) = arena_len /\ arena_len \in U32
    BY HeaderFields DEF ReadIInv, ReadTypeOK, BodyIsThere, MatchesItsHeader
  <2> QED
    BY <2>1, <2>2, InBoundsIsSliceable
<1> QED
  BY <1>1, ReadInvariance, PTL

\* The parts that are read are those the header announces.
THEOREM HeaderIsHonoured == ReadSpec => []MatchesItsHeader
<1>1. ReadIInv => MatchesItsHeader
  BY DEF ReadIInv
<1> QED
  BY <1>1, ReadInvariance, PTL

------------------------------------------------------------------------------
(* What write_compiled writes *)

\* The cells of the entries, four to each.
EntryCells(es) ==
  [i \in 1..ENTRY_LEN * Len(es) |->
     EntryField(es[(i - 1) \div ENTRY_LEN + 1], (i - 1) % ENTRY_LEN)]

\* The fields of an entry are u32s, and they are its cells in this order.
LEMMA EntryFields ==
  ASSUME NEW e \in Entry
  PROVE  /\ EntryField(e, 0) = e.k_off /\ EntryField(e, 1) = e.k_len
         /\ EntryField(e, 2) = e.v_off /\ EntryField(e, 3) = e.v_len
         /\ \A j \in 0..3 : EntryField(e, j) \in U32
<1>1. /\ EntryField(e, 0) = e.k_off /\ EntryField(e, 1) = e.k_len
      /\ EntryField(e, 2) = e.v_off /\ EntryField(e, 3) = e.v_len
  BY DEF EntryField
<1>2. e.k_off \in U32 /\ e.k_len \in U32 /\ e.v_off \in U32 /\ e.v_len \in U32
  BY DEF Entry
<1>3. \A j \in 0..3 : j = 0 \/ j = 1 \/ j = 2 \/ j = 3
  OBVIOUS
<1> QED
  BY <1>1, <1>2, <1>3

\* Where the cells of an entry are.
LEMMA CellsOfEntries ==
  ASSUME NEW es \in Seq(Entry)
  PROVE  /\ EntryCells(es) \in Seq(U32)
         /\ Len(EntryCells(es)) = ENTRY_LEN * Len(es)
         /\ \A k \in 0..Len(es) - 1, j \in 0..3 :
              /\ k * 4 + j + 1 \in 1..ENTRY_LEN * Len(es)
              /\ EntryCells(es)[k * 4 + j + 1] = EntryField(es[k + 1], j)
<1>1. Len(es) \in Nat
  OBVIOUS
<1>2. ASSUME NEW i \in 1..4 * Len(es)
      PROVE  /\ (i - 1) \div 4 + 1 \in 1..Len(es)
             /\ (i - 1) % 4 \in 0..3
  BY <1>1
<1>3. \A i \in 1..4 * Len(es) :
        EntryField(es[(i - 1) \div 4 + 1], (i - 1) % 4) \in U32
  <2> TAKE i \in 1..4 * Len(es)
  <2>1. es[(i - 1) \div 4 + 1] \in Entry
    BY <1>2
  <2> QED
    BY <1>2, <2>1, EntryFields
<1>4. EntryCells(es) \in [1..4 * Len(es) -> U32]
  BY <1>3 DEF EntryCells, ENTRY_LEN
<1>5. 4 * Len(es) \in Nat
  BY <1>1
<1>6. EntryCells(es) \in Seq(U32) /\ Len(EntryCells(es)) = 4 * Len(es)
  BY <1>4, <1>5
<1>7. ASSUME NEW k \in 0..Len(es) - 1, NEW j \in 0..3
      PROVE  /\ k * 4 + j + 1 \in 1..4 * Len(es)
             /\ EntryCells(es)[k * 4 + j + 1] = EntryField(es[k + 1], j)
  <2>1. k * 4 + j + 1 \in 1..4 * Len(es)
    BY <1>1
  <2>2. (k * 4 + j) \div 4 = k /\ (k * 4 + j) % 4 = j /\ k * 4 + j + 1 - 1 = k * 4 + j
    BY <1>1
  <2>3. EntryCells(es)[k * 4 + j + 1]
          = EntryField(es[(k * 4 + j + 1 - 1) \div 4 + 1], (k * 4 + j + 1 - 1) % 4)
    BY <2>1 DEF EntryCells, ENTRY_LEN
  <2> QED
    BY <2>1, <2>2, <2>3
<1> QED
  BY <1>6, <1>7 DEF ENTRY_LEN

\* A u32 survives the cast.
LEMMA U32Cast == ASSUME NEW x \in U32 PROVE AsU32(x) = x
BY StoreAssumption DEF AsU32, U32

\* Where the cells of a concatenation come from.
LEMMA CellsOfConcat ==
  ASSUME NEW s \in Seq(U32), NEW t \in Seq(U32)
  PROVE  /\ s \o t \in Seq(U32)
         /\ Len(s \o t) = Len(s) + Len(t)
         /\ \A i \in 1..Len(s) : (s \o t)[i] = s[i]
         /\ \A i \in 1..Len(t) : (s \o t)[Len(s) + i] = t[i]
OBVIOUS

\* The layout of a file w that holds nothing but an arena ar, entries es and flags
\* fl: its length, its magic, the header fields, the entries and the arena.
HasLayout(w, ar, es, fl) ==
  /\ w \in Seq(U32)
  /\ Len(w) = HEADER_LEN + ENTRY_LEN * Len(es) + Len(ar)
  /\ \A i \in 1..Len(MAGIC) : w[i] = MAGIC[i]
  /\ w[Len(MAGIC) + 1] = fl
  /\ w[Len(MAGIC) + 2] = Len(es)
  /\ w[Len(MAGIC) + 3] = Len(ar)
  /\ \A k \in 0..Len(es) - 1, j \in 0..3 :
       w[HEADER_LEN + k * 4 + j + 1] = EntryField(es[k + 1], j)
  /\ \A i \in 1..Len(ar) : w[HEADER_LEN + ENTRY_LEN * Len(es) + i] = ar[i]

\* write_compiled writes this layout: the casts to u32 change nothing.
LEMMA WrittenLayout ==
  ASSUME NEW ar \in Seq(U32), Len(ar) \in U32,
         NEW es \in Seq(Entry), Len(es) \in U32, NEW fl \in U32
  PROVE  HasLayout(WriteCompiled(ar, es, fl), ar, es, fl)
<1> DEFINE header == <<fl, AsU32(Len(es)), AsU32(Len(ar)), 0>>
           front == MAGIC \o header
           w == WriteCompiled(ar, es, fl)
<1>1. Len(MAGIC) \in Nat /\ Len(es) \in Nat /\ Len(ar) \in Nat /\ MAGIC \in Seq(U32)
  BY CompiledAssumption
<1>2. AsU32(Len(es)) = Len(es) /\ AsU32(Len(ar)) = Len(ar) /\ 0 \in U32
  BY U32Cast, StoreAssumption DEF U32
<1>3. Len(es) \in U32 /\ Len(ar) \in U32
  OBVIOUS
<1>4. /\ header \in Seq(U32) /\ Len(header) = 4
      /\ header[1] = fl /\ header[2] = Len(es) /\ header[3] = Len(ar)
  BY <1>2, <1>3
<1>5. /\ EntryCells(es) \in Seq(U32)
      /\ Len(EntryCells(es)) = ENTRY_LEN * Len(es)
  BY CellsOfEntries
<1>6. w = (front \o EntryCells(es)) \o ar
  BY DEF WriteCompiled, EntryCells
<1> HIDE DEF header, w
<1>7. /\ front \in Seq(U32) /\ Len(front) = HEADER_LEN
      /\ \A i \in 1..Len(MAGIC) : front[i] = MAGIC[i]
      /\ \A i \in 1..4 : front[Len(MAGIC) + i] = header[i]
  <2>1. /\ front \in Seq(U32) /\ Len(front) = Len(MAGIC) + Len(header)
        /\ \A i \in 1..Len(MAGIC) : front[i] = MAGIC[i]
        /\ \A i \in 1..Len(header) : front[Len(MAGIC) + i] = header[i]
    BY <1>1, <1>4, CellsOfConcat, Zenon
  <2> QED
    BY <2>1, <1>4 DEF HEADER_LEN
<1> HIDE DEF front
<1> DEFINE body == front \o EntryCells(es)
<1>8. HEADER_LEN \in Nat /\ ENTRY_LEN * Len(es) \in Nat /\ HEADER_LEN = Len(MAGIC) + 4
  BY <1>1 DEF HEADER_LEN, ENTRY_LEN
<1>9. /\ body \in Seq(U32) /\ Len(body) = HEADER_LEN + ENTRY_LEN * Len(es)
      /\ \A i \in 1..HEADER_LEN : body[i] = front[i]
      /\ \A i \in 1..ENTRY_LEN * Len(es) : body[HEADER_LEN + i] = EntryCells(es)[i]
  <2>1. /\ body \in Seq(U32) /\ Len(body) = Len(front) + Len(EntryCells(es))
        /\ \A i \in 1..Len(front) : body[i] = front[i]
        /\ \A i \in 1..Len(EntryCells(es)) : body[Len(front) + i] = EntryCells(es)[i]
    BY <1>5, <1>7, CellsOfConcat, Zenon
  <2> QED
    BY <2>1, <1>5, <1>7, Zenon
<1>10. w = body \o ar
  BY <1>6
<1> HIDE DEF body
<1>11. /\ w \in Seq(U32) /\ Len(w) = HEADER_LEN + ENTRY_LEN * Len(es) + Len(ar)
       /\ \A i \in 1..HEADER_LEN + ENTRY_LEN * Len(es) : w[i] = body[i]
       /\ \A i \in 1..Len(ar) : w[HEADER_LEN + ENTRY_LEN * Len(es) + i] = ar[i]
  <2>1. /\ body \o ar \in Seq(U32) /\ Len(body \o ar) = Len(body) + Len(ar)
        /\ \A i \in 1..Len(body) : (body \o ar)[i] = body[i]
        /\ \A i \in 1..Len(ar) : (body \o ar)[Len(body) + i] = ar[i]
    BY <1>9, CellsOfConcat, Zenon
  <2>2. /\ w \in Seq(U32) /\ Len(w) = Len(body) + Len(ar)
        /\ \A i \in 1..Len(body) : w[i] = body[i]
        /\ \A i \in 1..Len(ar) : w[Len(body) + i] = ar[i]
    BY <1>10, <2>1
  <2> QED
    BY <2>2, <1>9, Zenon
<1>12. \A i \in 1..HEADER_LEN : w[i] = front[i]
  BY <1>8, <1>9, <1>11
<1>13. \A i \in 1..Len(MAGIC) : w[i] = MAGIC[i]
  BY <1>1, <1>7, <1>8, <1>12
<1>14. /\ w[Len(MAGIC) + 1] = fl
       /\ w[Len(MAGIC) + 2] = Len(es)
       /\ w[Len(MAGIC) + 3] = Len(ar)
  <2>1. \A i \in 1..4 : Len(MAGIC) + i \in 1..HEADER_LEN
    BY <1>1, <1>8
  <2>2. \A i \in 1..4 : w[Len(MAGIC) + i] = header[i]
    BY <1>7, <1>12, <2>1
  <2> QED
    BY <1>4, <2>2
<1>15. ASSUME NEW k \in 0..Len(es) - 1, NEW j \in 0..3
       PROVE  w[HEADER_LEN + k * 4 + j + 1] = EntryField(es[k + 1], j)
  <2> DEFINE c == k * 4 + j + 1
  <2>1. c \in 1..ENTRY_LEN * Len(es) /\ EntryCells(es)[c] = EntryField(es[k + 1], j)
    BY CellsOfEntries
  <2>2. HEADER_LEN + k * 4 + j + 1 = HEADER_LEN + c
    BY <1>8
  <2> HIDE DEF c
  <2>3. HEADER_LEN + c \in 1..HEADER_LEN + ENTRY_LEN * Len(es)
    BY <1>8, <2>1
  <2> QED
    BY <1>9, <1>11, <2>1, <2>2, <2>3
<1> QED
  BY <1>11, <1>13, <1>14, <1>15 DEF HasLayout, w

\* What it means for one sequence to begin with another, cell by cell.
LEMMA BeginsWith ==
  ASSUME NEW s \in Seq(U32), NEW t \in Seq(U32), Len(t) <= Len(s)
  PROVE  SubSeq(s, 1, Len(t)) = t <=> \A i \in 1..Len(t) : s[i] = t[i]
<1>1. Len(s) \in Nat /\ Len(t) \in Nat
  OBVIOUS
<1>2. /\ SubSeq(s, 1, Len(t)) \in Seq(U32) /\ Len(SubSeq(s, 1, Len(t))) = Len(t)
      /\ \A i \in 1..Len(t) : SubSeq(s, 1, Len(t))[i] = s[i]
  BY <1>1
<1>3. ASSUME \A i \in 1..Len(t) : s[i] = t[i] PROVE SubSeq(s, 1, Len(t)) = t
  BY <1>2, <1>3, SeqEqual
<1>4. ASSUME SubSeq(s, 1, Len(t)) = t PROVE \A i \in 1..Len(t) : s[i] = t[i]
  BY <1>2, <1>4
<1> QED
  BY <1>3, <1>4

\* Entries with the same fields are the same.
LEMMA SameFields ==
  ASSUME NEW e \in Entry, NEW f \in Entry,
         e.k_off = f.k_off, e.k_len = f.k_len, e.v_off = f.v_off, e.v_len = f.v_len
  PROVE  e = f
BY DEF Entry

Begins(a) ==
  /\ Len(data) >= Len(Written(a))
  /\ SubSeq(data, 1, Len(Written(a))) = Written(a)

IsCut(a) ==
  /\ Len(data) < Len(Written(a))
  /\ data = SubSeq(Written(a), 1, Len(data))

\* The same of an artifact.
LEMMA ArtifactLayout ==
  ASSUME NEW a \in Artifacts
  PROVE  /\ a.arena \in Seq(U32) /\ a.entries \in Seq(Entry) /\ a.flags \in U32
         /\ Len(a.arena) \in U32 /\ Len(a.entries) \in U32
         /\ \A i \in DOMAIN a.entries :
              /\ a.entries[i].k_off + a.entries[i].k_len <= Len(a.arena)
              /\ a.entries[i].v_off + a.entries[i].v_len <= Len(a.arena)
         /\ HasLayout(Written(a), a.arena, a.entries, a.flags)
<1>1. Writable(a)
  BY ArtifactsAssumption
<1>2. a.arena \in Seq(U32) /\ a.entries \in Seq(Entry) /\ a.flags \in U32
  BY <1>1 DEF Writable
<1>3. Len(a.arena) <= U32Max /\ Len(a.entries) <= U32Max
  BY <1>1 DEF Writable
<1>4. Len(a.arena) \in Nat /\ Len(a.entries) \in Nat
  BY <1>2, LenProperties, Zenon
<1>5. Len(a.arena) \in U32 /\ Len(a.entries) \in U32
  BY <1>3, <1>4, StoreAssumption DEF U32
<1>6. \A i \in DOMAIN a.entries :
        /\ a.entries[i].k_off + a.entries[i].k_len <= Len(a.arena)
        /\ a.entries[i].v_off + a.entries[i].v_len <= Len(a.arena)
  BY <1>1 DEF Writable
<1>7. HasLayout(WriteCompiled(a.arena, a.entries, a.flags), a.arena, a.entries, a.flags)
  BY <1>2, <1>5, WrittenLayout
<1> QED
  BY <1>2, <1>5, <1>6, <1>7 DEF Written

\* What the header of a file with the first cells of an artifact says.
LEMMA SharedHeader ==
  ASSUME data \in Seq(U32), NEW a \in Artifacts, Len(data) >= HEADER_LEN,
         \A i \in 1..HEADER_LEN : data[i] = Written(a)[i]
  PROVE  /\ HasHeader
         /\ flags = a.flags /\ count = Len(a.entries) /\ arena_len = Len(a.arena)
         /\ total = Len(Written(a))
<1>1. Len(MAGIC) \in Nat /\ MAGIC \in Seq(U32) /\ HEADER_LEN = Len(MAGIC) + 4 /\ Len(data) \in Nat
  BY CompiledAssumption DEF HEADER_LEN
<1>2. \A i \in 1..Len(MAGIC) : data[i] = MAGIC[i]
  <2> TAKE i \in 1..Len(MAGIC)
  <2>1. i \in 1..HEADER_LEN
    BY <1>1
  <2> QED
    BY <2>1, ArtifactLayout DEF HasLayout
<1>3. IsCompiled(data)
  BY <1>1, <1>2, BeginsWith DEF IsCompiled
<1>4. \A i \in 1..3 : Len(MAGIC) + i \in 1..HEADER_LEN
  BY <1>1
<1>5. flags = a.flags /\ count = Len(a.entries) /\ arena_len = Len(a.arena)
  <2>1. data[Len(MAGIC) + 1] = a.flags /\ data[Len(MAGIC) + 2] = Len(a.entries)
          /\ data[Len(MAGIC) + 3] = Len(a.arena)
    BY <1>4, ArtifactLayout DEF HasLayout
  <2> QED
    BY <2>1 DEF flags, count, arena_len
<1>6. total = HEADER_LEN + Len(a.entries) * ENTRY_LEN + Len(a.arena)
  BY <1>5 DEF total, entries_end
<1>7. Len(a.entries) \in Nat /\ Len(a.arena) \in Nat
  BY ArtifactLayout, StoreAssumption DEF U32
<1>8. total = Len(Written(a))
  <2>1. Len(Written(a)) = HEADER_LEN + ENTRY_LEN * Len(a.entries) + Len(a.arena)
    BY ArtifactLayout DEF HasLayout
  <2>2. ENTRY_LEN * Len(a.entries) = Len(a.entries) * ENTRY_LEN
    BY <1>7 DEF ENTRY_LEN
  <2> QED
    BY <1>6, <2>1, <2>2, Zenon
<1> QED
  BY <1>3, <1>5, <1>8 DEF HasHeader

\* A file that begins with an artifact is read without an error, entry by entry of
\* the artifact, and in the end gives back its arena, entries and flags.
ReadsBack(a) ==
  Begins(a) =>
    /\ phase # "err"
    /\ \A i \in 1..Len(outEntries) : i \in 1..Len(a.entries) /\ outEntries[i] = a.entries[i]
    /\ phase = "ok" => outArena = a.arena /\ outEntries = a.entries /\ outFlags = a.flags

\* Nothing is decoded from a file that was cut short.
NothingFromACut(a) ==
  IsCut(a) => phase \in {"header", "err"} /\ error \in {"none", "Truncated"}

ArtifactIInv == ReadIInv /\ \A a \in Artifacts : ReadsBack(a) /\ NothingFromACut(a)

\* The cells of the entries lie between the header and the end of the file.
LEMMA CellInRange ==
  ASSUME NEW n \in Nat, NEW m \in Nat, HEADER_LEN \in Nat
  PROVE  /\ HEADER_LEN <= HEADER_LEN + ENTRY_LEN * n + m
         /\ \A k \in 0..n - 1, j \in 0..3 :
              HEADER_LEN + k * 4 + j + 1 \in 1..HEADER_LEN + ENTRY_LEN * n + m
BY DEF ENTRY_LEN

\* What a file that begins with an artifact holds, and where.
LEMMA BeginsLayout ==
  ASSUME data \in Seq(U32), NEW a \in Artifacts, Begins(a)
  PROVE  /\ HasHeader /\ Len(data) >= total
         /\ flags = a.flags /\ count = Len(a.entries) /\ arena_len = Len(a.arena)
         /\ total = Len(Written(a))
         /\ \A i \in 1..Len(Written(a)) : data[i] = Written(a)[i]
<1>1. Written(a) \in Seq(U32) /\ Len(a.arena) \in Nat /\ Len(a.entries) \in Nat
        /\ Len(Written(a)) = HEADER_LEN + ENTRY_LEN * Len(a.entries) + Len(a.arena)
  BY ArtifactLayout, StoreAssumption DEF HasLayout, U32
<1>2. HEADER_LEN \in Nat /\ Len(data) \in Nat
  BY CompiledAssumption DEF HEADER_LEN
<1>3. \A i \in 1..Len(Written(a)) : data[i] = Written(a)[i]
  BY <1>1, BeginsWith DEF Begins
<1>4. HEADER_LEN <= Len(Written(a))
  BY <1>1, <1>2, CellInRange
<1>5. Len(data) >= HEADER_LEN /\ \A i \in 1..HEADER_LEN : data[i] = Written(a)[i]
  <2>1. Len(Written(a)) <= Len(data) /\ Len(Written(a)) \in Nat
    BY <1>1 DEF Begins
  <2> QED
    BY <1>2, <1>3, <1>4, <2>1
<1>6. /\ HasHeader
      /\ flags = a.flags /\ count = Len(a.entries) /\ arena_len = Len(a.arena)
      /\ total = Len(Written(a))
  BY <1>5, SharedHeader
<1> QED
  BY <1>3, <1>6 DEF Begins

\* The entry that is decoded next is the artifact's, and within its arena.
LEMMA BeginsEntry ==
  ASSUME ReadIInv, NEW a \in Artifacts, Begins(a), phase = "entries",
         Len(outEntries) < count
  PROVE  /\ Len(outEntries) + 1 \in 1..Len(a.entries)
         /\ next = a.entries[Len(outEntries) + 1]
         /\ InBounds(next)
<1> DEFINE k == Len(outEntries)
           e == a.entries[k + 1]
           o == HEADER_LEN + k * 4
<1>1. data \in Seq(U32) /\ k \in Nat
  BY DEF ReadIInv, ReadTypeOK
<1>2. /\ count = Len(a.entries) /\ arena_len = Len(a.arena)
      /\ \A i \in 1..Len(Written(a)) : data[i] = Written(a)[i]
  BY <1>1, BeginsLayout
<1>3. /\ a.entries \in Seq(Entry) /\ Len(a.entries) \in Nat /\ Len(a.arena) \in Nat
      /\ Len(Written(a)) = HEADER_LEN + ENTRY_LEN * Len(a.entries) + Len(a.arena)
  BY ArtifactLayout, StoreAssumption DEF HasLayout, U32
<1>4. HEADER_LEN \in Nat
  BY CompiledAssumption DEF HEADER_LEN
<1>5. k + 1 \in 1..Len(a.entries) /\ k \in 0..Len(a.entries) - 1
  BY <1>1, <1>2, <1>3
<1>6. e \in Entry
  BY <1>3, <1>5
<1>7. \A j \in 0..3 : o + j + 1 \in 1..Len(Written(a))
  BY <1>3, <1>4, <1>5, CellInRange
<1>8. \A j \in 0..3 : Written(a)[o + j + 1] = EntryField(e, j)
  BY <1>5, ArtifactLayout DEF HasLayout
<1>9. \A j \in 0..3 : data[o + j + 1] = EntryField(e, j)
  BY <1>2, <1>7, <1>8
<1>10. next = [k_off |-> data[o + 1], k_len |-> data[o + 2],
               v_off |-> data[o + 3], v_len |-> data[o + 4]]
  BY DEF next, ENTRY_LEN
<1>11. o + 0 + 1 = o + 1 /\ o + 1 + 1 = o + 2 /\ o + 2 + 1 = o + 3 /\ o + 3 + 1 = o + 4
  BY <1>1, <1>4
<1> HIDE DEF o, k, e
<1>12. data[o + 1] = e.k_off /\ data[o + 2] = e.k_len /\ data[o + 3] = e.v_off /\ data[o + 4] = e.v_len
  <2>1. EntryField(e, 0) = e.k_off /\ EntryField(e, 1) = e.k_len
          /\ EntryField(e, 2) = e.v_off /\ EntryField(e, 3) = e.v_len
    BY <1>6, EntryFields
  <2>2. data[o + 0 + 1] = EntryField(e, 0) /\ data[o + 1 + 1] = EntryField(e, 1)
          /\ data[o + 2 + 1] = EntryField(e, 2) /\ data[o + 3 + 1] = EntryField(e, 3)
    BY <1>9
  <2> QED
    BY <1>11, <2>1, <2>2
<1>13. next = e
  BY <1>6, <1>10, <1>12 DEF Entry
<1>14. e.k_off + e.k_len <= Len(a.arena) /\ e.v_off + e.v_len <= Len(a.arena)
  BY <1>3, <1>5, ArtifactLayout DEF e
<1>15. InBounds(next)
  BY <1>2, <1>13, <1>14 DEF InBounds
<1> QED
  BY <1>5, <1>13, <1>15 DEF k, e

\* The arena that is taken is the artifact's.
LEMMA BeginsArena ==
  ASSUME ReadIInv, NEW a \in Artifacts, Begins(a), phase = "entries"
  PROVE  Slice(data, entries_end, total) = a.arena
<1> DEFINE sl == Slice(data, entries_end, total)
<1>1. data \in Seq(U32)
  BY DEF ReadIInv, ReadTypeOK
<1>2. /\ count = Len(a.entries) /\ arena_len = Len(a.arena) /\ total = Len(Written(a))
      /\ \A i \in 1..Len(Written(a)) : data[i] = Written(a)[i]
  BY <1>1, BeginsLayout
<1>3. /\ a.arena \in Seq(U32) /\ Len(a.entries) \in Nat /\ Len(a.arena) \in Nat
      /\ Len(Written(a)) = HEADER_LEN + ENTRY_LEN * Len(a.entries) + Len(a.arena)
      /\ \A i \in 1..Len(a.arena) : Written(a)[HEADER_LEN + ENTRY_LEN * Len(a.entries) + i] = a.arena[i]
  BY ArtifactLayout, StoreAssumption DEF HasLayout, U32
<1>4. HEADER_LEN \in Nat
  BY CompiledAssumption DEF HEADER_LEN
<1>5. entries_end \in Nat /\ entries_end = HEADER_LEN + ENTRY_LEN * Len(a.entries)
  BY <1>2, <1>3, <1>4 DEF entries_end, ENTRY_LEN
<1>6. sl \in Seq(U32) /\ Len(sl) = Len(a.arena)
  BY <1>2, ArenaLength
<1>7. total = entries_end + Len(a.arena)
  BY <1>2 DEF total
<1>8. ASSUME NEW i \in 1..Len(a.arena) PROVE sl[i] = a.arena[i]
  <2>1. sl[i] = data[entries_end + i]
    <3>1. sl = SubSeq(data, entries_end + 1, total)
      BY DEF Slice
    <3>2. entries_end + 1 \in Nat /\ total \in Nat /\ total - (entries_end + 1) + 1 = Len(a.arena)
      <4>1. entries_end \in Nat
        BY <1>5
      <4>2. Len(a.arena) \in Nat
        BY <1>3
      <4> QED
        BY <1>7, <4>1, <4>2
    <3>3. SubSeq(data, entries_end + 1, total)[i] = data[entries_end + 1 + i - 1]
      <4>1. total <= Len(data) /\ Len(data) \in Nat
        BY <1>1, BeginsLayout
      <4>2. \A j \in entries_end + 1..total : data[j] \in U32
        <5> TAKE j \in entries_end + 1..total
        <5>1. j \in 1..Len(data)
          BY <1>5, <3>2, <4>1
        <5> QED
          BY <1>1, <5>1
      <4> QED
        BY <3>2, <4>2, SubSeqProperties
    <3>4. entries_end + 1 + i - 1 = entries_end + i
      BY <1>3, <1>5
    <3> QED
      BY <3>1, <3>3, <3>4, Zenon
  <2>2. entries_end + i \in 1..Len(Written(a))
    BY <1>2, <1>3, <1>5, <1>7
  <2> QED
    BY <1>2, <1>3, <1>5, <2>1, <2>2
<1> QED
  BY <1>3, <1>6, <1>8, SeqEqual

\* A file that was cut short is not taken for a whole one: what is left of its
\* header is intact, and says that the file should be longer.
LEMMA CutLayout ==
  ASSUME data \in Seq(U32), NEW a \in Artifacts, IsCut(a)
  PROVE  /\ Len(data) >= Len(MAGIC) => IsCompiled(data)
         /\ HasHeader => Len(data) < total
<1>1. /\ Written(a) \in Seq(U32) /\ Len(data) \in Nat /\ Len(Written(a)) \in Nat
      /\ \A i \in 1..Len(MAGIC) : Written(a)[i] = MAGIC[i]
  BY ArtifactLayout DEF HasLayout
<1>2. Len(MAGIC) \in Nat /\ MAGIC \in Seq(U32) /\ HEADER_LEN \in Nat
  BY CompiledAssumption DEF HEADER_LEN
<1>3. \A i \in 1..Len(data) : data[i] = Written(a)[i]
  <2>1. Len(data) <= Len(Written(a)) /\ SubSeq(Written(a), 1, Len(data)) = data
    BY <1>1 DEF IsCut
  <2> QED
    BY <1>1, <2>1, BeginsWith
<1>4. ASSUME Len(data) >= Len(MAGIC) PROVE IsCompiled(data)
  <2>1. \A i \in 1..Len(MAGIC) : data[i] = MAGIC[i]
    BY <1>1, <1>2, <1>3, <1>4
  <2> QED
    BY <1>2, <1>4, <2>1, BeginsWith DEF IsCompiled
<1>5. ASSUME HasHeader PROVE Len(data) < total
  <2>1. Len(data) >= HEADER_LEN
    BY <1>5 DEF HasHeader
  <2>2. \A i \in 1..HEADER_LEN : data[i] = Written(a)[i]
    BY <1>1, <1>2, <1>3, <2>1
  <2>3. total = Len(Written(a))
    BY <2>1, <2>2, SharedHeader
  <2> QED
    BY <2>3 DEF IsCut
<1> QED
  BY <1>4, <1>5

LEMMA ArtifactInit == ReadInit => ArtifactIInv
<1> SUFFICES ASSUME ReadInit PROVE ArtifactIInv
  OBVIOUS
<1>1. ReadIInv
  BY ReadInitIInv
<1>2. phase = "header" /\ error = "none" /\ Len(outEntries) = 0
  BY DEF ReadInit
<1> QED
  BY <1>1, <1>2 DEF ArtifactIInv, ReadsBack, NothingFromACut

\* A step of the reader keeps both facts.
LEMMA ArtifactStep == ArtifactIInv /\ [ReadNext]_readVars => ArtifactIInv'
<1> SUFFICES ASSUME ArtifactIInv, [ReadNext]_readVars PROVE ArtifactIInv'
  OBVIOUS
<1>1. ReadIInv /\ ReadIInv' /\ data \in Seq(U32) /\ data' = data
  BY ReadNextIInv
     DEF ArtifactIInv, ReadIInv, ReadTypeOK, ReadNext, BadMagic, TruncatedHeader, TruncatedBody,
         ReadHeader, OutOfBounds, DecodeEntry, TakeArena, Fail, readVars
<1> SUFFICES ASSUME NEW a \in Artifacts PROVE ReadsBack(a)' /\ NothingFromACut(a)'
  BY <1>1 DEF ArtifactIInv
<1>2. ReadsBack(a) /\ NothingFromACut(a)
  BY DEF ArtifactIInv
<1>3. (Begins(a)' <=> Begins(a)) /\ (IsCut(a)' <=> IsCut(a))
  BY <1>1 DEF Begins, IsCut, Written, WriteCompiled
<1>4. ReadsBack(a)'
  <2> SUFFICES ASSUME Begins(a) PROVE
        /\ phase' # "err"
        /\ \A i \in 1..Len(outEntries') : i \in 1..Len(a.entries) /\ outEntries'[i] = a.entries[i]
        /\ phase' = "ok" => outArena' = a.arena /\ outEntries' = a.entries /\ outFlags' = a.flags
    BY <1>3 DEF ReadsBack
  <2>1. /\ phase # "err"
        /\ \A i \in 1..Len(outEntries) : i \in 1..Len(a.entries) /\ outEntries[i] = a.entries[i]
        /\ phase = "ok" => outArena = a.arena /\ outEntries = a.entries /\ outFlags = a.flags
    BY <1>2 DEF ReadsBack
  <2>2. HasHeader /\ Len(data) >= total /\ IsCompiled(data) /\ count = Len(a.entries) /\ flags = a.flags
    BY <1>1, BeginsLayout DEF HasHeader
  <2>3. Len(data) \in Nat /\ HEADER_LEN \in Nat /\ total \in Nat
    <3>1. Len(Written(a)) \in Nat
      BY ArtifactLayout DEF HasLayout
    <3> QED
      BY <1>1, <3>1, BeginsLayout, CompiledAssumption DEF HEADER_LEN
  <2>4. CASE BadMagic \/ TruncatedHeader \/ TruncatedBody
    BY <2>2, <2>3, <2>4 DEF BadMagic, TruncatedHeader, TruncatedBody, HasHeader
  <2>5. CASE ReadHeader
    BY <2>1, <2>5 DEF ReadHeader
  <2>6. CASE OutOfBounds
    BY <1>1, <2>6, BeginsEntry DEF OutOfBounds
  <2>7. CASE DecodeEntry
    <3>1. /\ Len(outEntries) + 1 \in 1..Len(a.entries)
          /\ next = a.entries[Len(outEntries) + 1]
      BY <1>1, <2>7, BeginsEntry DEF DecodeEntry
    <3>2. next \in Entry
      BY <1>1, <2>7, NextEntry DEF DecodeEntry
    <3>3. outEntries \in Seq(Entry) /\ outEntries' = Append(outEntries, next) /\ phase' = "entries"
      BY <1>1, <2>7 DEF DecodeEntry, ReadIInv, ReadTypeOK
    <3>4. /\ Len(outEntries) \in Nat
          /\ Len(outEntries') = Len(outEntries) + 1
          /\ \A i \in 1..Len(outEntries) : outEntries'[i] = outEntries[i]
          /\ outEntries'[Len(outEntries) + 1] = next
      BY <3>2, <3>3
    <3>5. ASSUME NEW i \in 1..Len(outEntries')
          PROVE  i \in 1..Len(a.entries) /\ outEntries'[i] = a.entries[i]
      <4>1. CASE i \in 1..Len(outEntries)
        BY <2>1, <3>4, <4>1
      <4>2. CASE i = Len(outEntries) + 1
        BY <3>1, <3>4, <4>2
      <4> QED
        BY <3>4, <4>1, <4>2
    <3> QED
      BY <3>3, <3>5
  <2>8. CASE TakeArena
    <3>1. outArena' = a.arena
      BY <1>1, <2>8, BeginsArena DEF TakeArena
    <3>2. outFlags' = a.flags /\ outEntries' = outEntries /\ phase' = "ok" /\ Len(outEntries) = Len(a.entries)
      BY <2>2, <2>8 DEF TakeArena
    <3>3. outEntries \in Seq(Entry) /\ a.entries \in Seq(Entry)
      BY <1>1, ArtifactLayout DEF ReadIInv, ReadTypeOK
    <3>4. outEntries = a.entries
      BY <2>1, <3>2, <3>3, SeqEqual
    <3> QED
      BY <2>1, <3>1, <3>2, <3>4
  <2>9. CASE UNCHANGED readVars
    BY <2>1, <2>9 DEF readVars
  <2> QED
    BY <2>4, <2>5, <2>6, <2>7, <2>8, <2>9 DEF ReadNext
<1>5. NothingFromACut(a)'
  <2> SUFFICES ASSUME IsCut(a) PROVE phase' \in {"header", "err"} /\ error' \in {"none", "Truncated"}
    BY <1>3 DEF NothingFromACut
  <2>1. phase \in {"header", "err"} /\ error \in {"none", "Truncated"}
    BY <1>2 DEF NothingFromACut
  <2>2. Len(data) \in Nat /\ Len(MAGIC) \in Nat /\ (Len(data) >= Len(MAGIC) => IsCompiled(data))
    BY <1>1, CutLayout, CompiledAssumption
  <2>3. CASE BadMagic
    BY <2>2, <2>3 DEF BadMagic, Fail
  <2>4. CASE TruncatedHeader \/ TruncatedBody
    BY <2>4 DEF TruncatedHeader, TruncatedBody, Fail
  <2>5. ~ReadHeader
    <3>1. HasHeader => Len(data) < total
      BY <1>1, CutLayout
    <3> QED
      BY <2>2, <3>1, HeaderFields, <1>1, CompiledAssumption, StoreAssumption
         DEF ReadHeader, total, entries_end, HEADER_LEN, ENTRY_LEN, U32
  <2>6. ~OutOfBounds /\ ~DecodeEntry /\ ~TakeArena
    BY <2>1 DEF OutOfBounds, DecodeEntry, TakeArena
  <2>7. CASE UNCHANGED readVars
    BY <2>1, <2>7 DEF readVars
  <2> QED
    BY <2>3, <2>4, <2>5, <2>6, <2>7 DEF ReadNext
<1> QED
  BY <1>4, <1>5

\* The invariant holds whatever is read: an artifact, one that was extended or cut
\* short, or any other file.
THEOREM ArtifactInvariance == ReadSpec => []ArtifactIInv
BY ArtifactInit, ArtifactStep, PTL DEF ReadSpec

\* What write_compiled wrote is what read_compiled gives back, whatever was
\* appended to the file, for every artifact that build can produce.
THEOREM RoundTripping == ReadSpec => []RoundTrip
<1>1. ArtifactIInv => RoundTrip
  <2> SUFFICES ASSUME ArtifactIInv, NEW a \in Artifacts, Finished, Begins(a)
               PROVE  phase = "ok" /\ outArena = a.arena /\ outEntries = a.entries /\ outFlags = a.flags
    BY DEF RoundTrip, Begins
  <2>1. ReadsBack(a)
    BY DEF ArtifactIInv
  <2> QED
    BY <2>1 DEF ReadsBack, Finished
<1> QED
  BY <1>1, ArtifactInvariance, PTL

\* An artifact cut short anywhere is refused as truncated.
THEOREM CutsRejected == ReadSpec => []RejectsCuts
<1>1. ArtifactIInv => RejectsCuts
  <2> SUFFICES ASSUME ArtifactIInv, NEW a \in Artifacts, Finished, IsCut(a)
               PROVE  phase = "err" /\ error = "Truncated"
    BY DEF RejectsCuts, IsCut
  <2>1. NothingFromACut(a) /\ ReadTypeOK
    BY DEF ArtifactIInv, ReadIInv
  <2> QED
    BY <2>1 DEF NothingFromACut, Finished, ReadTypeOK
<1> QED
  BY <1>1, ArtifactInvariance, PTL
==============================================================================
