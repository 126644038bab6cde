-------------------------------- MODULE Store --------------------------------
(***************************************************************************)
(* The immutable store (src/src/store/mod.rs): keys and values packed into *)
(* one arena of bytes, entries that are (offset, length) windows into it,  *)
(* and a hash table of entries.  Offsets are u32 and their sums wrap, as   *)
(* they do in a release build.                                             *)
(***************************************************************************)
EXTENDS Naturals, Sequences, FiniteSets

CONSTANTS
  U32Max,     \* the largest u32
  Byte,       \* byte values
  Hash(_)     \* a RandomState's hash of a byte string; collisions allowed

ASSUME StoreAssumption == U32Max \in Nat

U32 == 0..U32Max
AddU32(a, b) == (a + b) % (U32Max + 1)

Entry == [k_off : U32, k_len : U32, v_off : U32, v_len : U32]

\* &s[lo..hi], and whether Rust evaluates it without a panic.
Slice(s, lo, hi) == SubSeq(s, lo + 1, hi)
SliceOk(s, lo, hi) == lo <= hi /\ hi <= Len(s)

KeyOf(arena, e) == Slice(arena, e.k_off, AddU32(e.k_off, e.k_len))
ValOf(arena, e) == Slice(arena, e.v_off, AddU32(e.v_off, e.v_len))

\* Building the table and looking up in it never slices out of range.
Sliceable(arena, e) ==
  /\ SliceOk(arena, e.k_off, AddU32(e.k_off, e.k_len))
  /\ SliceOk(arena, e.v_off, AddU32(e.v_off, e.v_len))

FromParts(arena, entries) ==
  [arena |-> arena,
   table |-> {[hash |-> Hash(KeyOf(arena, entries[i])), slot |-> i, entry |-> entries[i]] :
                i \in DOMAIN entries}]

\* Mutant: find trusts the hash and does not compare the key.
GetByHash(store, key) ==
  {ValOf(store.arena, s.entry) : s \in {t \in store.table : t.hash = Hash(key)}}

\* The values HashTable::find may arrive at: {} stands for None; more than
\* one value means that the answer depends on the hash seed.
Get(store, key) ==
  {ValOf(store.arena, s.entry) :
     s \in {t \in store.table : /\ t.hash = Hash(key)
                                /\ KeyOf(store.arena, t.entry) = key}}

StoreLen(store) == Cardinality(store.table)
==============================================================================
