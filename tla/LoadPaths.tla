------------------------------ MODULE LoadPaths ------------------------------
(***************************************************************************)
(* From a command line to a store (src/src/config.rs, load in              *)
(* src/src/store/mod.rs, cmd_build and cmd_serve in src/src/main.rs).      *)
(* Either `serve` loads a dataset itself, or `build` parses it, writes an  *)
(* artifact and `serve` loads that; load tells the two formats apart by    *)
(* their first bytes.  CsvLoader parses, Compiled reads artifacts.         *)
(***************************************************************************)
EXTENDS CsvLoader

CONSTANTS
  MAGIC,
  NotGiven,       \* no --delimiter
  Texts,          \* what may stand in a dataset
  Records(_, _),  \* the rows the csv reader yields for a text split at a character
  Invocations     \* the commands to consider, see Invocation

\* Characters are their code points.
COMMA == 44
TAB == 9

\* What is run on what: a dataset as text, its same bytes in Compiled's cells (which
\* matter only if they begin with the magic), and the command line.
Invocation ==
  [path : {"serve", "build"}, text : Texts, cells : Seq(U32),
   delimiter : Seq(Nat) \cup {NotGiven}, ext : {"tsv", "other"},
   header : BOOLEAN, allow_binary : BOOLEAN]

\* The magic has 8 bytes, a byte 256 values, and the largest u32 is 2^32 - 1.
ASSUME FormatAssumption ==
  /\ MAGIC \in Seq(U32) /\ Len(MAGIC) < U32Max
  /\ Byte \subseteq U32 /\ IsFiniteSet(Byte) /\ Cardinality(Byte) < U32Max

VARIABLES invocation, data, phase, error, outArena, outEntries, outFlags

\* The reader of the artifact, idle as long as data is empty.
C == INSTANCE Compiled WITH Inputs <- {<<>>}, Artifacts <- {}

artifactVars == <<data, phase, error, outArena, outEntries, outFlags>>
vars == <<loaderVars, artifactVars, invocation>>

\* Mutant: any one character will do.
ParseOneCharacter(s) == Len(s) = 1

\* parse_ascii_delimiter: exactly one character, and an ASCII one.
ParseAsciiDelimiter(s) == Len(s) = 1 /\ s[1] < 128

ArgsOk(i) == IF i.delimiter = NotGiven THEN TRUE ELSE ParseAsciiDelimiter(i.delimiter)

\* load_options: the character as u8, or the one for the extension.
DelimiterForPath(ext) == IF ext = "tsv" THEN TAB ELSE COMMA
Delimiter(i) ==
  IF i.delimiter = NotGiven THEN DelimiterForPath(i.ext) ELSE i.delimiter[1] % 256
LoadOptions(i) == [has_header |-> i.header, allow_binary |-> i.allow_binary]

\* The rows the reader yields at the delimiter it is given, whether or not that is
\* the one the author of the text had in mind.
Yielded(i) == Records(i.text, Delimiter(i))

ASSUME InvocationsAssumption ==
  /\ <<>> \in Files
  /\ \A i \in Invocations : i \in Invocation /\ (ArgsOk(i) => Yielded(i) \in Files)

Init ==
  /\ invocation \in Invocations
  /\ opts = LoadOptions(invocation)
  /\ file = IF ArgsOk(invocation) THEN Yielded(invocation) ELSE <<>>
  /\ LoaderInit
  /\ C!ReadInit

FLAG_BINARY == 1

\* Mutant: the flag is set by the wrong option.
FlagsOfHeader(o) == IF o.has_header THEN FLAG_BINARY ELSE 0

\* The flags `build` writes, and the ones load reports for a CSV.
FlagsOf(o) == IF o.allow_binary THEN FLAG_BINARY ELSE 0

\* What cmd_serve makes of them when no --content-type is given.
ContentType(f) == IF f % 2 = FLAG_BINARY THEN "application/octet-stream" ELSE "text/plain"

\* load takes a dataset that begins with the magic for an artifact.
Misread == invocation.path = "serve" /\ C!IsCompiled(invocation.cells)

Parse ==
  /\ ArgsOk(invocation) /\ ~Misread
  /\ LoaderNext
  /\ UNCHANGED <<artifactVars, invocation>>

\* read_compiled gets whatever the dataset's bytes come to.
Sniff ==
  /\ ArgsOk(invocation) /\ Misread /\ data = <<>>
  /\ data' = invocation.cells
  /\ UNCHANGED <<loaderVars, phase, error, outArena, outEntries, outFlags, invocation>>

\* cmd_build writes what parse_validated accepted, and only that.
Write ==
  /\ invocation.path = "build" /\ result = "ok" /\ data = <<>>
  /\ data' = C!WriteCompiled(arena, entries, FlagsOf(opts))
  /\ UNCHANGED <<loaderVars, phase, error, outArena, outEntries, outFlags, invocation>>

\* load of the artifact: is_compiled sends it to read_compiled.
Read ==
  /\ data # <<>> /\ C!IsCompiled(data)
  /\ C!ReadNext
  /\ UNCHANGED <<loaderVars, invocation>>

Next == Parse \/ Sniff \/ Write \/ Read

Spec == Init /\ [][Next]_vars

FairSpec == Spec /\ WF_vars(Next)
------------------------------------------------------------------------------
(* Properties *)

\* The store served from the artifact that was built of a dataset is the store
\* that parsing it gave: the same number of keys, the same answer to every key, the
\* same content type, by the flag that travels in the artifact
\* (docs/superpowers/specs/2026-09-13-justkv-design.md:270-274; main.rs:173-175).
FormatEquivalence ==
  invocation.path = "build" /\ phase = "ok" =>
    LET csv == FromParts(arena, entries)
        artifact == FromParts(outArena, outEntries) IN
    /\ StoreLen(csv) = StoreLen(artifact)
    /\ \A k \in Probe : Get(csv, k) = Get(artifact, k)
    /\ ContentType(FlagsOf(opts)) = ContentType(outFlags)
    /\ invocation.allow_binary <=> ContentType(outFlags) = "application/octet-stream"

\* What is run ends: in an error of the arguments or of the dataset, in a store, or,
\* for a dataset that begins with the magic, in whatever read_compiled says of it;
\* and never in an error once build has written an artifact.
BuildableIsLoadable ==
  <>( \/ ~ArgsOk(invocation) \/ result = "err"
      \/ invocation.path = "serve" /\ ~Misread /\ result = "ok"
      \/ invocation.path = "build" /\ phase = "ok"
      \/ Misread /\ phase \in {"ok", "err"} )

\* The rows at the very character that was typed, or else the extension's.
Meant(i) ==
  Records(i.text, IF i.delimiter = NotGiven THEN DelimiterForPath(i.ext) ELSE i.delimiter[1])

\* A dataset that is accepted is split at the one character that was typed, and is
\* served as it reads there: never at the byte that a character beyond ASCII is
\* cut to, "parsing the whole dataset against an arbitrary truncated byte"
\* (config.rs:29-30).  That the character is the one the author used is not
\* claimed: 'a;b,c' is a row of two columns at either.
AcceptedMeansUnderstood ==
  result = "ok" =>
    LET rows == Meant(invocation)
        meant == FirstRow(rows, opts)..Len(rows) IN
    /\ invocation.delimiter # NotGiven => Len(invocation.delimiter) = 1
    /\ \A n \in meant : rows[n].cols = 2
    /\ \A k \in Probe :
         Get(FromParts(arena, entries), k) = {rows[n].val : n \in {m \in meant : rows[m].key = k}}

\* "The server detects the format from the file's magic bytes, so `--data` accepts
\* either without a flag" (README.md:51): whichever loader `serve` takes, a dataset
\* in which `check` finds no problem is served with the answers it holds.
AcceptsEitherForm ==
  invocation.path = "serve" /\ phase = "ok" /\ AllProblems(DataRows) = {} =>
    \A k \in Probe :
      Get(FromParts(outArena, outEntries), k)
        = {file[n].val : n \in {m \in DataRows : file[m].key = k}}
==============================================================================
