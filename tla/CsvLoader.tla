------------------------------ MODULE CsvLoader ------------------------------
(***************************************************************************)
(* parse_csv (src/src/store/csv_loader.rs): one pass over the rows of a    *)
(* dataset that packs keys and values into an arena, or lists everything   *)
(* that is wrong with it.  One iteration of the loop is one step.          *)
(*                                                                         *)
(* The csv crate is outside the model: a file is the sequence of rows it   *)
(* yields.  A row has ok = FALSE if reading it returns an error, cols      *)
(* columns, a key and a value (of two columns), and the line the reader    *)
(* reports for it.                                                         *)
(***************************************************************************)
EXTENDS Store, SequencesExt

CONSTANTS
  Files,      \* the datasets to consider
  Utf8(_),    \* whether a byte string is valid UTF-8
  Probe       \* keys that the store may be asked for

Row == [ok : BOOLEAN, cols : Nat, key : Seq(Byte), val : Seq(Byte), line : Nat]

\* The reader only moves forward; rows that end in a bare CR share a line.
ASSUME FilesAssumption ==
  \A f \in Files : f \in Seq(Row) /\ \A i, j \in DOMAIN f : i < j => f[i].line <= f[j].line

VARIABLES
  file, opts,  \* the input and the LoadOptions
  pos,         \* the row read_byte_record yields next
  recLine,     \* rec.position(): the line of the last record read
  arena, entries, lines,
  seen,        \* the duplicate index: hash and entry index
  errors,      \* DataErrors so far, in order
  result       \* "loading", then "ok" or "err"

loaderVars == <<file, opts, pos, recLine, arena, entries, lines, seen, errors, result>>

\* Mutant: a header is assumed to be there.
FirstRowUnchecked(f, o) == IF o.has_header THEN 2 ELSE 1

\* has_headers(true) makes the reader swallow the first row.
FirstRow(f, o) == IF o.has_header /\ f # <<>> /\ f[1].ok THEN 2 ELSE 1

LoaderInit ==
  /\ file \in Files
  /\ opts \in [has_header : BOOLEAN, allow_binary : BOOLEAN]
  /\ pos = FirstRow(file, opts)
  /\ recLine = 0
  /\ arena = <<>> /\ entries = <<>> /\ lines = <<>> /\ seen = {}
  /\ errors = <<>>
  /\ result = "loading"

ErrorKind == {"Malformed", "WrongColumnCount", "DuplicateKey", "InvalidUtf8Value", "TooLarge"}
ErrorRecord == [line : Nat, kind : ErrorKind, arg : Nat]
DataError(line, kind, arg) == [line |-> line, kind |-> kind, arg |-> arg]

row == file[pos]
Reading == result = "loading" /\ pos <= Len(file)
Advance == pos' = pos + 1 /\ recLine' = row.line
KeepParts == UNCHANGED <<file, opts, arena, entries, lines, seen>>

\* Entries already indexed under the row's key.
Dup == {s.idx : s \in {t \in seen : /\ t.hash = Hash(row.key)
                                    /\ KeyOf(arena, entries[t.idx]) = row.key}}

Utf8Errors ==
  IF opts.allow_binary \/ Utf8(row.val) THEN <<>>
  ELSE <<DataError(row.line, "InvalidUtf8Value", 0)>>

Eof ==
  /\ result = "loading" /\ pos > Len(file)
  /\ result' = IF errors = <<>> THEN "ok" ELSE "err"
  /\ UNCHANGED <<pos, recLine, errors>> /\ KeepParts

\* The reader's state is unreliable after an error: the loop stops.
Malformed ==
  /\ Reading /\ ~row.ok
  /\ errors' = Append(errors, DataError(recLine + 1, "Malformed", 0))
  /\ result' = "err"
  /\ UNCHANGED <<pos, recLine>> /\ KeepParts

WrongColumns ==
  /\ Reading /\ row.ok /\ row.cols # 2
  /\ errors' = Append(errors, DataError(row.line, "WrongColumnCount", row.cols))
  /\ Advance
  /\ UNCHANGED result /\ KeepParts

KeyValue == Reading /\ row.ok /\ row.cols = 2

\* Mutant: a duplicate row's value is not looked at.
DuplicateShortCircuits ==
  /\ KeyValue
  /\ \E idx \in Dup :
       errors' = Append(errors, DataError(row.line, "DuplicateKey", lines[idx]))
  /\ Advance
  /\ UNCHANGED result /\ KeepParts

\* A duplicate is reported, along with a bad value, and never appended.
Duplicate ==
  /\ KeyValue
  /\ \E idx \in Dup :
       errors' = Append(errors, DataError(row.line, "DuplicateKey", lines[idx])) \o Utf8Errors
  /\ Advance
  /\ UNCHANGED result /\ KeepParts

Fits == Len(arena) + Len(row.key) + Len(row.val) <= U32Max

TooLarge ==
  /\ KeyValue /\ Dup = {} /\ ~Fits
  /\ errors' = errors \o Utf8Errors \o <<DataError(row.line, "TooLarge", 0)>>
  /\ result' = "err"
  /\ UNCHANGED <<pos, recLine>> /\ KeepParts

NewEntry ==
  [k_off |-> Len(arena), k_len |-> Len(row.key),
   v_off |-> Len(arena) + Len(row.key), v_len |-> Len(row.val)]

\* Mutant: the size check lets the arena grow one byte past u32::MAX.
AppendRowOversize ==
  /\ KeyValue /\ Dup = {}
  /\ Len(arena) + Len(row.key) + Len(row.val) <= U32Max + 1
  /\ errors' = errors \o Utf8Errors
  /\ arena' = arena \o row.key \o row.val
  /\ entries' = Append(entries, NewEntry)
  /\ lines' = Append(lines, row.line)
  /\ seen' = seen \cup {[hash |-> Hash(row.key), idx |-> Len(entries) + 1]}
  /\ Advance
  /\ UNCHANGED <<file, opts, result>>

\* Mutant: the index stores the hash of the value.
AppendRowMisindexed ==
  /\ KeyValue /\ Dup = {} /\ Fits
  /\ errors' = errors \o Utf8Errors
  /\ arena' = arena \o row.key \o row.val
  /\ entries' = Append(entries, NewEntry)
  /\ lines' = Append(lines, row.line)
  /\ seen' = seen \cup {[hash |-> Hash(row.val), idx |-> Len(entries) + 1]}
  /\ Advance
  /\ UNCHANGED <<file, opts, result>>

\* A row with a bad value is still appended, so that a later duplicate of its
\* key is reported in the same run.
AppendRow ==
  /\ KeyValue /\ Dup = {} /\ Fits
  /\ errors' = errors \o Utf8Errors
  /\ arena' = arena \o row.key \o row.val
  /\ entries' = Append(entries, NewEntry)
  /\ lines' = Append(lines, row.line)
  /\ seen' = seen \cup {[hash |-> Hash(row.key), idx |-> Len(entries) + 1]}
  /\ Advance
  /\ UNCHANGED <<file, opts, result>>

LoaderNext ==
  Eof \/ Malformed \/ WrongColumns \/ Duplicate \/ TooLarge \/ AppendRow

LoaderSpec == LoaderInit /\ [][LoaderNext]_loaderVars
------------------------------------------------------------------------------
(* What a dataset means, row by row, without arena, index or state. *)

DataRows == FirstRow(file, opts)..Len(file)
TwoColumns(i) == file[i].ok /\ file[i].cols = 2

\* The first row with the key of row i.
FirstWithKey(i) == Min({j \in DataRows : TwoColumns(j) /\ file[j].key = file[i].key})

\* The rows up to i whose key is new.
NewKeyRows(i) == {j \in DataRows : j <= i /\ TwoColumns(j) /\ FirstWithKey(j) = j}

\* The packed size of the distinct keys, and the first value of each, up to row i.
PackedSize(i) ==
  SumFunctionOnSet([j \in DataRows |-> Len(file[j].key) + Len(file[j].val)], NewKeyRows(i))

Oversize(i) == TwoColumns(i) /\ FirstWithKey(i) = i /\ PackedSize(i) > U32Max

Problems(i) ==
  {e \in
     { IF i = FirstRow(file, opts) THEN DataError(1, "Malformed", 0)
       ELSE DataError(file[i - 1].line + 1, "Malformed", 0),
       DataError(file[i].line, "WrongColumnCount", file[i].cols),
       DataError(file[i].line, "DuplicateKey",
                 IF TwoColumns(i) THEN file[FirstWithKey(i)].line ELSE 0),
       DataError(file[i].line, "InvalidUtf8Value", 0),
       DataError(file[i].line, "TooLarge", 0) } :
     CASE e.kind = "Malformed" -> ~file[i].ok
       [] e.kind = "WrongColumnCount" -> file[i].ok /\ file[i].cols # 2
       [] e.kind = "DuplicateKey" -> TwoColumns(i) /\ FirstWithKey(i) < i
       [] e.kind = "InvalidUtf8Value" ->
            TwoColumns(i) /\ ~opts.allow_binary /\ ~Utf8(file[i].val)
       [] e.kind = "TooLarge" -> Oversize(i)}

\* Rows up to the first one that stops the parser.
Examined == {i \in DataRows : \A j \in DataRows : j < i => file[j].ok /\ ~Oversize(j)}

AllProblems(rows) == UNION {Problems(i) : i \in rows}
------------------------------------------------------------------------------
(* Properties *)

\* Types; the duplicate index leads to entries, and every error says where.
LoaderTypeOK ==
  /\ pos \in 1..Len(file) + 1
  /\ recLine \in Nat
  /\ arena \in Seq(Byte)
  /\ entries \in Seq(Entry)
  /\ lines \in Seq(Nat)
  /\ \A s \in seen : s.idx \in 1..Len(entries)
  /\ errors \in Seq(ErrorRecord)
  /\ result \in {"loading", "ok", "err"}

\* The entries tile the arena in order without gap or overlap, and no offset or
\* end of a window exceeds u32 (csv_loader.rs:171-190): no slice can be out of
\* range and no u32 sum can wrap.
Packed ==
  /\ Len(arena) <= U32Max
  /\ Len(lines) = Len(entries)
  /\ \A i \in DOMAIN entries :
       LET e == entries[i]
           end == IF i = Len(entries) THEN Len(arena) ELSE entries[i + 1].k_off IN
       /\ i = 1 => e.k_off = 0
       /\ e.k_off + e.k_len = e.v_off
       /\ e.v_off + e.v_len = end

\* No two entries have the same key, however the hashes collide and however
\* rows with bad values mix with duplicates: from_parts relies on it
\* (store/mod.rs:43), for it inserts without looking.
NoDuplicateKeys ==
  \A i, j \in DOMAIN entries :
    KeyOf(arena, entries[i]) = KeyOf(arena, entries[j]) => i = j

\* The report has every problem of the rows examined, once for each row that has
\* it, in line order, with the first line of a duplicated key, and nothing else.
ReportIsExact ==
  result # "loading" =>
    /\ ToSet(errors) = AllProblems(Examined)
    /\ Len(errors) = SumFunctionOnSet([i \in DataRows |-> Cardinality(Problems(i))], Examined)
    /\ \A i, j \in DOMAIN errors : i < j => errors[i].line <= errors[j].line

\* A dataset is accepted only if it has no problem at all, and then the store
\* built from the parts answers every key as the file does: the value of its
\* row, or nothing.
StoreServesTheFile ==
  result = "ok" =>
    /\ AllProblems(DataRows) = {}
    /\ \A k \in Probe :
         Get(FromParts(arena, entries), k)
           = {file[i].val : i \in {j \in DataRows : TwoColumns(j) /\ file[j].key = k}}
    /\ StoreLen(FromParts(arena, entries)) = Cardinality(DataRows)

\* "`check` reports **every** problem with line numbers rather than failing on
\* the first" (README.md:85), for files the reader can read to the end.
ReportsEveryProblem ==
  result = "err" /\ (\A i \in DOMAIN file : file[i].ok)
    => AllProblems(DataRows) \subseteq ToSet(errors)
==============================================================================
