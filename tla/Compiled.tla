------------------------------- MODULE Compiled ------------------------------
(***************************************************************************)
(* The compiled artifact format (src/src/store/compiled.rs).  A file is a  *)
(* sequence of cells: a u32 is one cell of four bytes, an arena byte one   *)
(* cell of one byte.  A cut inside a u32 is a cut before it: read_compiled *)
(* compares lengths only at cell boundaries, so both are Truncated.        *)
(* Decoding one entry is one step.  usize has 64 bits, so that the sums    *)
(* read_compiled forms in usize are exact.                                 *)
(***************************************************************************)
EXTENDS Store

CONSTANTS
  MAGIC,      \* the cells of "JUSTKV01"
  Inputs,     \* the files to consider
  Artifacts   \* what was written into some of them: arena, entries and flags

HEADER_LEN == Len(MAGIC) + 4
ENTRY_LEN == 4

ASSUME CompiledAssumption ==
  /\ MAGIC \in Seq(U32)
  /\ Inputs \subseteq Seq(U32)
  /\ Byte \subseteq U32

\* What build hands to write_compiled: the entries are windows into the arena, and
\* neither length exceeds u32 (that of the arena because parse_csv refuses more).
Writable(a) ==
  /\ a.arena \in Seq(U32) /\ Len(a.arena) <= U32Max
  /\ a.entries \in Seq(Entry) /\ Len(a.entries) <= U32Max
  /\ \A i \in DOMAIN a.entries :
       /\ a.entries[i].k_off + a.entries[i].k_len <= Len(a.arena)
       /\ a.entries[i].v_off + a.entries[i].v_len <= Len(a.arena)
  /\ a.flags \in U32

ASSUME ArtifactsAssumption == \A a \in Artifacts : Writable(a)

\* x as u32.
AsU32(x) == x % (U32Max + 1)

EntryField(e, i) == CASE i = 0 -> e.k_off [] i = 1 -> e.k_len [] i = 2 -> e.v_off [] i = 3 -> e.v_len

\* Mutant: the arena length is written where the count belongs, and vice versa.
WriteCompiledSwapped(as, es, fl) ==
  MAGIC \o <<fl, AsU32(Len(as)), AsU32(Len(es)), 0>>
        \o [i \in 1..ENTRY_LEN * Len(es) |->
              EntryField(es[(i - 1) \div ENTRY_LEN + 1], (i - 1) % ENTRY_LEN)]
        \o as

\* write_compiled: the lengths are cast to u32, the last header cell is reserved.
WriteCompiled(as, es, fl) ==
  MAGIC \o <<fl, AsU32(Len(es)), AsU32(Len(as)), 0>>
        \o [i \in 1..ENTRY_LEN * Len(es) |->
              EntryField(es[(i - 1) \div ENTRY_LEN + 1], (i - 1) % ENTRY_LEN)]
        \o as

IsCompiled(d) == Len(d) >= Len(MAGIC) /\ SubSeq(d, 1, Len(MAGIC)) = MAGIC

VARIABLES
  data,                 \* the file
  phase,                \* "header", "entries", "ok", or "err"
  error,                \* the CompiledError
  outArena, outEntries, outFlags

readVars == <<data, phase, error, outArena, outEntries, outFlags>>

ReadInit ==
  /\ data \in Inputs
  /\ phase = "header" /\ error = "none"
  /\ outArena = <<>> /\ outEntries = <<>> /\ outFlags = 0

\* The locals of read_compiled, once the header is known to be there.
flags == data[Len(MAGIC) + 1]
count == data[Len(MAGIC) + 2]
arena_len == data[Len(MAGIC) + 3]
entries_end == HEADER_LEN + count * ENTRY_LEN
\* Mutant: the length that is required forgets the arena.
totalWithoutArena == entries_end
total == entries_end + arena_len

\* Mutant: the error is noted, but the function does not return.
FailAndGoOn(e) ==
  /\ error' = e
  /\ UNCHANGED <<data, phase, outArena, outEntries, outFlags>>

Fail(e) ==
  /\ phase' = "err" /\ error' = e
  /\ UNCHANGED <<data, outArena, outEntries, outFlags>>

BadMagic ==
  /\ phase = "header"
  /\ ~IsCompiled(data)
  /\ Fail(IF Len(data) < Len(MAGIC) THEN "Truncated" ELSE "BadMagic")

TruncatedHeader ==
  /\ phase = "header"
  /\ IsCompiled(data) /\ Len(data) < HEADER_LEN
  /\ Fail("Truncated")

HasHeader == IsCompiled(data) /\ Len(data) >= HEADER_LEN

TruncatedBody ==
  /\ phase = "header"
  /\ HasHeader /\ Len(data) < total
  /\ Fail("Truncated")

ReadHeader ==
  /\ phase = "header"
  /\ HasHeader /\ Len(data) >= total
  /\ phase' = "entries"
  /\ UNCHANGED <<data, error, outArena, outEntries, outFlags>>

\* The entry at the current index, and its bounds, computed in usize.
next == LET o == HEADER_LEN + Len(outEntries) * ENTRY_LEN IN
  [k_off |-> data[o + 1], k_len |-> data[o + 2], v_off |-> data[o + 3], v_len |-> data[o + 4]]

\* Mutant: the ends are computed in u32, as Entry::key does.
InBoundsU32(e) == AddU32(e.k_off, e.k_len) <= arena_len /\ AddU32(e.v_off, e.v_len) <= arena_len

InBounds(e) == e.k_off + e.k_len <= arena_len /\ e.v_off + e.v_len <= arena_len

OutOfBounds ==
  /\ phase = "entries" /\ Len(outEntries) < count
  /\ ~InBounds(next)
  /\ Fail("OutOfBounds")

\* Mutant: the entries are decoded in reverse order.
DecodeEntryReversed ==
  /\ phase = "entries" /\ Len(outEntries) < count
  /\ InBounds(next)
  /\ outEntries' = <<next>> \o outEntries
  /\ UNCHANGED <<data, phase, error, outArena, outFlags>>

DecodeEntry ==
  /\ phase = "entries" /\ Len(outEntries) < count
  /\ InBounds(next)
  /\ outEntries' = Append(outEntries, next)
  /\ UNCHANGED <<data, phase, error, outArena, outFlags>>

\* Mutant: the arena is everything after the entries.
TakeArenaToEof ==
  /\ phase = "entries" /\ Len(outEntries) = count
  /\ outArena' = Slice(data, entries_end, Len(data))
  /\ outFlags' = flags
  /\ phase' = "ok"
  /\ UNCHANGED <<data, error, outEntries>>

\* Anything after the arena is ignored.
TakeArena ==
  /\ phase = "entries" /\ Len(outEntries) = count
  /\ outArena' = Slice(data, entries_end, total)
  /\ outFlags' = flags
  /\ phase' = "ok"
  /\ UNCHANGED <<data, error, outEntries>>

ReadNext ==
  BadMagic \/ TruncatedHeader \/ TruncatedBody \/ ReadHeader \/ OutOfBounds
  \/ DecodeEntry \/ TakeArena

ReadSpec == ReadInit /\ [][ReadNext]_readVars
------------------------------------------------------------------------------
(* Properties *)

\* Types; an error ends the reading.
ReadTypeOK ==
  /\ data \in Seq(U32)
  /\ phase \in {"header", "entries", "ok", "err"}
  /\ error \in {"none", "Truncated", "BadMagic", "OutOfBounds"}
  /\ outArena \in Seq(U32)
  /\ outEntries \in Seq(Entry)
  /\ outFlags \in U32
  /\ phase = "err" <=> error # "none"

\* "a corrupt or hand-edited file must not produce out-of-range slicing later"
\* (compiled.rs:64): every entry of an accepted file can be sliced out of the
\* arena that was read, with the wrapping u32 sums that Store uses.
NeverSlicesOutOfRange ==
  phase = "ok" => \A i \in DOMAIN outEntries : Sliceable(outArena, outEntries[i])

\* The length of the arena and the number of entries are those the header
\* announces, whatever follows in the file.
MatchesItsHeader ==
  phase = "ok" => Len(outArena) = arena_len /\ Len(outEntries) = count /\ outFlags = flags

Finished == phase \in {"ok", "err"}

Written(a) == WriteCompiled(a.arena, a.entries, a.flags)

\* What was written is what is read, even with bytes appended to the file
\* (read_compiled takes data[entries_end..total] and looks no further).
RoundTrip ==
  \A a \in Artifacts :
    Finished /\ Len(data) >= Len(Written(a)) /\ SubSeq(data, 1, Len(Written(a))) = Written(a) =>
      phase = "ok" /\ outArena = a.arena /\ outEntries = a.entries /\ outFlags = a.flags

\* A file cut short anywhere is refused as truncated, within the magic too
\* (compiled.rs:67-94; load itself gives a file without the whole magic to the
\* CSV parser instead).
RejectsCuts ==
  \A a \in Artifacts :
    Finished /\ Len(data) < Len(Written(a)) /\ data = SubSeq(Written(a), 1, Len(data)) =>
      phase = "err" /\ error = "Truncated"
==============================================================================
