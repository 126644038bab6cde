# Verification of justkv

This directory holds TLA+ specifications of [justkv](../src/README.md), a
read-only key-value server: one binary that validates a CSV/TSV dataset
(`check`), compiles it into an artifact (`build`), and serves either form from
memory over HTTP (`serve`). TLC model-checks the specifications on small
instances; TLAPS proves theorems about them for every value of the constants.
`PROJECT.json` lists the runs, the source lines each definition stands for, the
mutations the properties detect, the hazards and the theorems.

## 1. Inventory

| Component | Source (under `src/src`) | State | Operations |
|---|---|---|---|
| Build and check | `main.rs` | CSV, scratch file, output, exit code | `parse_validated`, `cmd_check`, `create_scratch_file`, `cmd_build` |
| CSV loader | `store/csv_loader.rs` | arena, entries, first lines, duplicate index, errors | `parse_csv` |
| Store | `store/mod.rs` | immutable arena and hash table | `from_parts`, `get`, `len` |
| Compiled format | `store/compiled.rs` | none (bytes to parts and back) | `write_compiled`, `is_compiled`, `read_compiled` |
| Load dispatch | `store/mod.rs`, `main.rs` | none | `load`, the flag and content-type rule of `cmd_serve` |
| Metrics | `metrics.rs` | 8 atomics and 13 buckets | `record`, `render` |
| HTTP handlers | `server/handlers.rs` | shared `AppState` | `kv_path`, `kv_query`, `lookup`, `health`, `metrics`, `stats` |
| Server lifecycle | `server/mod.rs`, `main.rs` | listener, connections, signals | `accept`, `shutdown_signal`, `run` |
| Healthcheck | `main.rs` | one connection | `cmd_healthcheck` |
| Configuration | `config.rs` | none | clap declarations, `load_options` |

How they interact. `check` and `build` read the CSV once and give the buffer to
`parse_csv`; `build` writes what it returned into a scratch file beside the
output and renames it over the output. `serve` calls `load`, which looks at the
first eight bytes to choose between `read_compiled` and `parse_csv`, and builds
the store; only then is the port bound. Handlers on several threads share the
store, which nobody writes, and the metrics, which are relaxed atomics. Builds
and servers of different processes share nothing but the file system.

What makes each component correct, and what is hard about it:

* **Build.** Whoever opens the output sees one whole validated dataset, always;
  nobody else's file is harmed; the exit code is the truth. Hard: concurrent
  builds, colliding scratch names, every system call failing, a kill between any
  two of them, a reader in the midst of a file that is being replaced, a power
  failure with part of it all on disk.
* **CSV loader.** No key twice, offsets that fit in u32, and a report with
  exactly the problems of the file. Hard: checks that must not short-circuit one
  another, hash collisions, rows that are indexed though they are bad, the size
  limit.
* **Compiled format.** What was written is what is read; a damaged file is
  refused or at least harmless. Hard: u32 sums that wrap in the store and not in
  the reader, lengths at the edge of the file.
* **Load dispatch, configuration.** The same answers from an artifact as from the
  dataset it was built of; a dataset split at the character that was typed and no
  other. Hard: a dataset whose own bytes begin with the magic.
* **Metrics.** Every series says what its HELP text says. Hard: scrapes between
  the adds of one lookup, relaxed ordering, HEAD, defaults, bucket bounds.
* **Handlers.** Who writes a key properly, in either form, reaches that key; a
  miss is never a hit. Hard: `+` and escapes, parameters around the one meant,
  proxies that decode the path.
* **Server.** Bound only after loading; shuts down on a signal; survives
  descriptor exhaustion.

## 2. Modules

| Module | Role |
|---|---|
| `AtomicPublish` | what `build` promises: a register of whole datasets, replaced in one step |
| `ScratchPublish` | `build`, `check` and the file reading of `serve` over names and inodes; implements `AtomicPublish` |
| `PowerLoss` | `ScratchPublish` on a disk written back late, and a power failure |
| `ScratchPublishProofs` | theorems about both |
| `Store` | arena, entries, u32 sums, `from_parts`, `get` |
| `CsvLoader` | `parse_csv` over the rows of a file, on top of `Store` |
| `CsvLoaderProofs` | its theorems |
| `Compiled` | `write_compiled` as an operator, `read_compiled` step by step, on top of `Store` |
| `CompiledProofs` | its theorems |
| `FiniteSums` | lemmas about sums over finite sets and least elements, for the proofs that count |
| `LoadPaths` | composes `CsvLoader` and `Compiled`, from the command line to the store: arguments, dispatch on the magic, parse, write, read back |
| `LoadPathsProofs` | its theorems, from those of `CsvLoader` and `Compiled` |
| `Metrics` | `lookup`, `record` and `render`, one atomic operation a step |
| `MetricsProofs` | its theorems |
| `Http` | one request: a client that writes a key, a proxy, the router, the handlers, the response |
| `HttpProofs` | its theorems |
| `Server` | a `serve` process from load to exit, its clients, a `healthcheck` and signals |
| `ServerProofs` | its theorems |
| `MC...` | values of the constants for TLC |

### ScratchPublish

A file system is `dir`, from paths to inodes, and `content`, from inodes to
blocks. That distinction is what the design rests on: a rename changes `dir` in
one step and leaves an open reader on the old inode, `create_new` fails on a
name that is taken, `remove_file` acts on whatever the name leads to by then. A
process walks through `pc`: `read` (`parse_validated`), `create`
(`create_scratch_file`), `write` (`write_compiled` and `flush`), `renamed`
(the success message) or `cleanup` (`remove_file`), `exited`. Each system call
is an action with its failures beside it. `Crash` is a SIGKILL, or the panic of
`println!` on a closed stdout; it may strike anywhere. `EditSource` is the
owner of the CSV. The CSV's data is a member of a small set, of which
`ValidData` passes `parse_csv`; a block of an artifact is the dataset it belongs
to, so that a mixture or a prefix shows. The nonce of a scratch name is any
candidate name: neither the clock nor the pid is relied on to differ. At the
start a candidate name may be taken by a file of the user's, and the output may
hold an earlier artifact.
`Abandoned` files are nobody's to touch: the user's, and what a build
that is over has left; `BystanderUntouched` is about both.

### PowerLoss

`disk` is what would survive: the directory as it was last committed and the
blocks that were written back. `WriteBack` writes a file's blocks in order, at any
time; `Commit` commits every change to the directory at once. Both are the
kernel's, as little as it promises to a program that does not fsync. A file
system that is `ordered` has written a file out before it commits the rename that
publishes it (ext4 does so if the rename replaces a file); others need not. `PowerFails`, once, puts
what was on disk in place of what was seen and ends every process that had
begun. `Accepts` is what `load` makes of the blocks of an output: it refuses a
cut artifact, and takes an empty file for a CSV without rows.

### Store, CsvLoader, Compiled, LoadPaths

Bytes are members of a small set and u32 has `U32Max + 1` values; `AddU32`
wraps, as in a release build. The hash is a constant operator with collisions.
`Get` returns a set: no element is `None`, more than one would mean that the
answer depends on the random seed of the table.

`CsvLoader` has one action per way through the body of `parse_csv`'s loop. A
file is a sequence of rows as the csv crate yields them, with the line each
begins on; a row may fail to read, and rows that end in a bare CR share a line.
The lower half of the module says what a file *means* without any of that state
(`FirstWithKey`, `PackedSize`, `Problems`, `Examined`), and the properties
compare the two. `Probe` is what a store is asked for afterwards.

`Compiled` counts in cells: a u32 is one cell, so a cut within an integer is a
cut before it. `read_compiled` compares lengths with cell boundaries only, and
both are `Truncated`. Sums formed in usize are exact (64 bits). `Artifacts` are
the parts that `build` may have; a file is what `write_compiled` makes of one
(`Written`), or that extended, cut short or overwritten, or anything else.

`LoadPaths` starts from an invocation: a text, its bytes in the cells of
`Compiled`, and the arguments. `ParseAsciiDelimiter` and `Delimiter` decide what
the reader splits at (characters are code points, and `as u8` is `% 256`).
`Records(text, c)` is a constant operator: the rows that the csv crate yields for
a text at the character c, any rows, for the theorems. For TLC a text is a few
lines over `,`, `;`, TAB and two other bytes, really split at c, so that a row may
have two columns at the wrong character; or it is a file of `MCCsvLoader`. Then
`serve` loads the text itself, and `Sniff` hands one whose bytes begin with the
magic to `read_compiled`, whatever follows: it may be refused as truncated or out
of bounds, or accepted, with entries or without. Or `build`, which does not look
for the magic, parses it, writes the artifact, and it is read back. Nothing
relates the rows of such a text to its cells; this only adds behaviours.
`FormatEquivalence` compares the store from the parts with the store from the
artifact.

### Metrics

`Lookup` fixes outcome, method and latency and the set of atomics `record` is
going to touch; each `Record` step makes one of the `fetch_add`s visible, in
program order or, with `reorder`, in any order, as relaxed atomics on a weakly
ordered machine allow. `Load` is one load of `render`, in the order of its text.
Scrapes follow one another; overlapping scrapes do not interact. `setting` is
how the server was started and what a run asks for.

### Http

A request's text is a sequence of characters, each a byte as it is or escaped. A
client that means a key writes it as a path segment or as a form value
(`InSegment`, `InForm`: what each may leave unescaped; a blank may be `+` in a form
only). `Forward` is the way to the server, where a proxy may decode the path
(README.md:64). The scan of `key_from_query` is one parameter a step; `Hit`,
`Substitute` and `Miss` are the three ways through `lookup`, with what they
record. What axum does is external: it matches routes, wants a segment
that is not empty and is UTF-8, answers other methods with 405 and strips the
body of a HEAD. The reference for a query (`ParameterAt`) looks at positions in
the text and not at the scan; `Asks` says with it what a query for a key is,
and `RequestsAssumption` that a client that means a key has written it in one of
these ways.

### Server

`stage` follows `cmd_serve`: `Load`, then `Bind` (with the content type and the
runtime, which fail alike), `serving`, `draining`, `exited`. axum polls
`shutdown_signal` in a task of its own, so `Register` comes some time after the
port is open. `Signal` is a signal to the process: handled if its handler is
registered, otherwise fatal, or dropped if the process is PID 1 of a container,
which is what the Dockerfile's ENTRYPOINT makes it. `Accept`, `AcceptFails` and
`BackoffEnds` are the loop of `NoDelayListener::accept`, over the kernel's
first-in first-out `backlog`; it fails when the process holds `MaxFds`
connections, and on a connection that was reset in the handshake. A connection
is idle, in the middle of a request (`partial`), or waits for its answer
(`request`). What axum does after the signal is external code, taken as `run`
uses it: it stops accepting, closes idle connections, lets those in the middle
of a request finish it, and returns when none is left. Clients connect, send,
stall, leave and abort as they like. The healthcheck is one of the connections:
it asks once, for the connection to be closed after the answer, and may time out
at any moment. What a lookup answers is the business of the other modules; here
it is that there is an answer.

## 3. Runs

| Run | Checks | Bounds |
|---|---|---|
| `publish` | `TypeOK`, `ScratchIsOwned`, `OutputIsWhole`, `LoadsWholeArtifact`, `ExitCodeIsTruthful`, `BystanderUntouched`, `PublishedIsImmutable`, `AbsSpec`, `CommandsFinish` | 2 builds of 1 output, 1 reader, 2 scratch names, 2 valid datasets and a bad one, 2 blocks, 2 attempts |
| `power` | `LoadsWholeOrEmpty`, `NoScratchBeforePowerLoss`, `OutputNeverVanishes` | 2 builds and a check, no reader, a valid dataset and a bad one, 2 blocks, 1 attempt, `remove_file` works, one power failure |
| `power_loss` | `NeverLoadsHalfWritten` (violated) | as `power` |
| `csv_every` | `ReportsEveryProblem` (violated) | files of up to 3 rows, as in `load_paths` |
| `compiled` | `ReadTypeOK`, `NeverSlicesOutOfRange`, `MatchesItsHeader`, `RoundTrip`, `RejectsCuts` | 3 artifacts; all prefixes, 2 extensions of each, any 2 cells overwritten by one of 5 values |
| `load_paths` | `LoaderTypeOK`, `Packed`, `NoDuplicateKeys`, `ReportIsExact`, `StoreServesTheFile`, `FormatEquivalence`, `AcceptedMeansUnderstood`, `BuildableIsLoadable` | built: all files of up to 3 rows, good or bad, 4 keys, 3 values, arenas of up to 5 bytes, 2 bytes of which one is not UTF-8; built or served: texts of up to 2 of 6 lines under 8 delimiter arguments and 2 extensions, those of one line also with the magic and 6 sequences behind it |
| `load_magic` | `AcceptsEitherForm` (violated) | one line with the magic and zeros behind it |
| `metrics` | `TypeOK`, `ExactWhenQuiet`, `ScrapeIsBounded`, `ScrapesNeverGoBack` | 2 lookups; 2 scrapes, any order of adds, no latencies; or 1 scrape, program order, one bucket bound, latencies on and above it |
| `metrics_help` | `MissesIncludeDefaults` (violated) | as `metrics`, adds in program order |
| `http` | `HttpTypeOK`, `ReachesTheKeyMeant`, `FindsTheFirstK`, `AnswerMatchesMetrics` | keys of up to 2 of 8 bytes in every writing, 5 texts before and 3 after the parameter, all queries of up to 4 of 5 characters, 3 stores, no default, an empty one and one that is also a value |
| `server` | `ServerTypeOK`, `ReadyOnlyWhenLoaded`, `GracefulExit`, `ServesUntilSignalled`, `AcceptsResume`, `HealthcheckEnds`, `StopsOnSignal` | 2 clients (one keeps its connection for a second request) and a healthcheck, 2 descriptors, each signal at most once, PID 1 or not |
| `server_pid1` | `SigtermStops` (violated) | as `server` |

Why the bounds are enough. A collision of scratch names takes two builds and a
name they share; a second name lets one of them go on, and running out takes as
many attempts as there are names. Two blocks tell a whole file from a prefix and
from a mixture. One build may try only the name
that both share, the other either name (`MCScratchPublish`), so that one can run
out while the other goes on. In a CSV, three rows are a first key, its duplicate, and
a row after either; an arena limit of 5 makes files with 3 rows fall below, on
and above it. Overwriting two cells reaches offset and length of one entry at
once, which a wrapping sum needs. Two lookups are enough for a scrape to see
one finished, one half recorded. Two bytes put a blank, a plus, a
separator or an escape before and after another byte; four characters of a
query are two parameters with a value or three without. U+012C and U+0109 end in
the bytes of a comma and a tab; among the lines are ones with two columns at one
separator only, at either of two, and at none. What follows the magic reaches
every end of `read_compiled` but a wrong magic. Three connections for two descriptors are one
in the backlog while two are open, in different states when a signal comes. The proofs of section 5 have no bounds.

Deadlock is not checked: commands end, a parse ends, a request is answered, and
the numbers of lookups and scrapes are bounded.

### Fairness

`publish` assumes weak fairness of the steps of each build and check, and of the
reader: an operating system goes on scheduling a process until it ends. Nothing
is assumed of `Crash`, of `EditSource`, or of which way a system call goes, so
`CommandsFinish` is about the bound on the attempts (`main.rs:90`). `PowerSpec`
states the same fairness and its properties are safety: nothing is assumed of
the kernel's write-back. `NoScratchBeforePowerLoss` is about commands that end
by themselves, and assumes that `remove_file` works, as the code ignores its
error. `load_paths` assumes weak fairness of the next step, of a single thread
that reads and writes memory.

`Server` assumes weak fairness of each task of the runtime (the load, the accept
loop, the signal task, each connection's task, the drain), which tokio's run
queues and the operating system give, and of the healthcheck's own steps, whose
timeouts are the kernel's. Weak is enough: the listener alone takes descriptors,
so a free one stays free until it accepts. Nothing is assumed of signals or
clients in `HealthcheckEnds`. `AcceptsResume` and `StopsOnSignal` say so where
they need it (`ClientsFinish`): a client that has begun a request ends it or
leaves. The code sets no deadline, neither on requests nor on the drain, so a
client that stalls does hold a descriptor, and the shutdown, for ever.

### Five disagreements between the text and the code

* `power_loss`: "a failed build never leaves a half-written artifact that a later
  stage would happily load" (main.rs:124). Nothing is synced before the rename
  (main.rs:144), so that a power failure on a file system that does not order
  data before renames may leave an empty output, which `load` takes for a CSV
  without rows: the server comes up, healthy, and has no key. `LoadsWholeOrEmpty`
  is what holds.
* `csv_every`: "`check` reports **every** problem" (README.md:85; also
  csv_loader.rs:86). A row beyond the 4 GiB limit ends the loop
  (csv_loader.rs:176), and the problems of later rows are not reported.
  `ReportIsExact` says what *is* reported: every problem up to the row that
  stops the parser, once for each row that has it, in the order of lines.
* `load_magic`: "The server detects the format from the file's magic bytes, so
  `--data` accepts either without a flag" (README.md:51; the design document, line
  270, asks for identical answers through both loaders, for awkward bytes too). A
  CSV may begin with these bytes. One row, `JUSTKV01xyz`, a comma and 12 NULs, passes
  `check` and `build`, and what is built of it answers its key; but `load`
  (store/mod.rs:151) hands the CSV itself to `read_compiled`, which reads a count
  and a length of zero: the server comes up, healthy, and has no key. With other
  bytes it is refused, or has keys that are not the dataset's.
  `FormatEquivalence` is what holds: nothing of the kind after `build`.
* `metrics_help`: misses are loaded before defaults, so a default recorded in
  between is shown without its miss (metrics.rs:112-119), although the HELP text
  says that misses include defaults. It evens out at the next scrape, as
  `ExactWhenQuiet` says.
* `server_pid1`: a SIGTERM that reaches a container's PID 1 while it loads is
  dropped by the kernel, because the handler is registered only after the bind,
  and the server goes on to serve (server/mod.rs:99, and the design document,
  line 171: a rolling deploy does not wait out the grace period).
  `StopsOnSignal` is what holds: outside a container any signal stops the process.

## 4. Mutations

Each property of a passing run is paired in `PROJECT.json` with a mutation of
the model that stands for a plausible bug of the code: `File::create` instead of
`create_new`, a rename without a flush, a failed rename reported as success, a
duplicate that short-circuits the value check, a size check off by one, a table
lookup that trusts the hash, ends computed in u32, a length check that forgets
the arena, a HEAD whose body is counted, a bucket bound that excludes itself,
a delimiter that need not be ASCII, `+` decoded after the
escapes, names of parameters decoded before they are compared, an error path that
removes the output, a reader that does not compare lengths, an accept error that ends the server or loses a connection, a shutdown that waits
for both signals, a healthcheck without a read timeout. The mutated
operators stand beside the originals, marked `Mutant`.

## 5. Proofs

Every invariant and every safety action property that a passing run checks is
also a theorem, for every value of the constants. Each proof has the same form:
an inductive invariant, which TLC has checked on the run's instance; one lemma for
each action that says that it keeps the invariant; and theorems that are
consequences of it. The assumptions are the `ASSUME`s of the modules, which TLC
evaluates; where a theorem needs a hypothesis of its own it is named below.

`ScratchPublishProofs`, for any numbers of builds, checks, readers, outputs,
names, blocks and attempts. The inductive invariant `IInv` adds to `TypeOK` what
each stage of a process knows. `NotYetLinked` and `Unwritten`: a build that has
not created its scratch file has no link anywhere and has written nothing.
`Writing`: a build at work has its scratch name linked to its own inode and has
filled the first `off` blocks with its validated data. `SettledIsWhole`: an
output leads to a settled inode only (the earlier artifact, or the file of a
build that has published and is done with it), and these are whole. `Reading`:
a reader's inode is settled and what it has read is what is there. `Exits`: exit
codes agree with what was published. Without them `OutputIsWhole` is not
inductive: nothing else says that the file a rename is about to publish is
complete, or that nobody is still writing to a published one. For the
second half of `OutputIsWhole`, that a published file is what its own build
validated, `HoldsItsData` follows a build's file from the moment it is renamed.
From `IInv` follow
`TypeCorrect`, `ScratchOwnership`, `OutputWholeness`, `LoadWholeness`,
`ExitCodeTruth`, `BystanderSafety`, `Immutability`, and `Refinement`: every step
of `ScratchPublish` is an `AbsPublish`, an `AbsExit` or a stutter. They rest on
`ConstantsAssumption`, which says that processes, paths, inodes and blocks of
different kinds are different. `Cleanup` (no scratch file outlives a command that
was not killed) has the hypothesis `~RemoveMayFail`, as the code ignores the
error of `remove_file`.

The same module proves `PowerLoss`. After a failure outputs need not be whole, so
`PowerIInv` says of every file, in memory and on disk, how much of it is there:
`FileIsCut`, the first m blocks on disk and the first n of the same data in
memory, with m at most n. `Linked` says that an output is on disk no earlier than
in memory, and `WholeUnlessLost` what order buys: on a file system that writes
data out before it commits a rename, outputs are whole on disk as well. From it
follow `LoadsAfterPowerLoss` (a cut file is refused unless it is whole or
empty), `OutputPermanence`, and, with `~RemoveMayFail`, `CleanupBeforePowerLoss`.

`CsvLoaderProofs`, for every file, hash function and width of u32. `LoaderIInv`
adds to the properties that entries lie within the arena (`InArena`), that each
is indexed under the hash of its own key (`AllIndexed`), and that an arena
without entries is empty. The crux is that appending to the arena leaves the
keys of the old entries as they were (`SliceKept`) and that the new entry's
window is the key just appended (`SliceAppended`): then a row that was not found
as a duplicate has a key that no entry has (`KeysAreUnique`), and `ArenaIsPacked`
gives that no u32 sum can wrap. `MeaningIInv` relates that state to the file:
each entry is the first row of its key and each key seen has its entry
(`EntriesAreRows`, `RowsHaveEntries`); arena and entries are as large as those rows
make them (`Sizes`), which decides where the size limit strikes; the report is
that of the rows looked at, with their number as a sum (`ReportSoFar`). Hence
`ReportExact` and `ServesFile`. That the report is in order needs
`FilesAssumption`: the lines of a file's rows do not decrease.

`FiniteSums` has what these proofs and those of `Metrics` need of
`SumFunctionOnSet`: a term more, a term changed, a comparison term by term. The
library defines it recursively; the lemmas are got from its definition by an
induction over the subsets of a finite set that is written with sets, as the
induction theorems that take an operator are out of reach.

`CompiledProofs`, for any sequence of cells as the file. `ReadIInv` says that
the body announced by the header is there and that every decoded entry has
passed the bounds check against `arena_len`; hence `SlicingSafety`: with
wrapping u32 sums the store never slices out of range. `ArtifactIInv` follows the
reading of what `write_compiled` wrote, cell by cell: what has been decoded is a
prefix of the entries written. Hence `RoundTripping`, also when something was
appended, and `CutsRejected`: what is left of the header of a cut file announces
more than is there.

`LoadPathsProofs` composes the two: `PathIInv` is the loader's invariant while
rows are parsed, and the reader's, instantiated with the parts that were parsed
as the artifact, afterwards. The link is that what the parser accepts is
`Writable`. For the arena that is the limit of parse_csv; for
`entries.len() as u32` (compiled.rs:43) there is no check in the code, and none
is needed (`EntriesFit`): keys are distinct, so that all but the empty one take
a byte of the arena, and a full arena would have to consist of distinct keys of one
byte, of which there are 256. Hence `SameStoreEitherWay`, `BuiltIsAccepted` (`load`
never refuses what `build` wrote). `UnderstoodIfAccepted` combines what an
accepted file is, which `ServesFile` rests on (`AcceptedMeans`,
`AcceptedIsServed`), with `DelimiterIsTyped`: `as u8` cuts nothing off a character
that `parse_ascii_delimiter` let pass. Nothing is assumed of `Records` but that
its rows are a file (`InvocationsAssumption`, `FilesAssumption`).

`MetricsProofs`, for any numbers of lookups and scrapes, any buckets and either
order of the adds. `MetricsIInv` says that each atomic is the sum, over the
lookups whose add to it has been seen, of what they add (`CountersAreSums`); that
what a scrape has read is no more than there is and no less than the last scrape
(`ShownIsPast`); and that it covers the lookups that were done when it began
(`ShownCovers`). When nothing is being recorded the lookups seen are the
lookups done, for every atomic: `Exactness`. `Boundedness` and `NeverBack` follow
as a sum over more lookups is no smaller. Cumulative buckets need that bounds
ascend, which is in `MetricsAssumption`.

`HttpProofs`, for texts, keys and values of any length and any store. `HttpIInv`
says where the scan is: after a separator or at the start, with no k before it
(`Scanning`); where a key came from: the decoded segment, or the value of the
first parameter k of the whole text (`KeyIsTheirs`, `FromQuery`); and which
answers there are (`AnswerIsTheirs`). The crux is `NamedK`: the scan's name, cut
out of the rest of the text twice, is k exactly where the text has a parameter
k, and its value ends where that one ends; and `Skipped`: nothing between two
separators is the start of a parameter. Hence `FirstKFound`; with
`RequestsAssumption`, which says what a client writes that means a key,
`KeyMeantIsReached`: a query has one first k, and only one length its value can
have. `AnswersAgree` compares status, marker, length and record.

`ServerProofs`, for any numbers of clients, requests and descriptors.
`ServerIInv` adds that nobody is connected before the bind and after the end
(`NotBound`, `Ended`), that an answer is owed exactly to the connections with a
request read in full (`Owed`), and that only a signal starts the drain. Hence
`Readiness`, `Graceful` and the action property `ServesOn`.

Only model-checked: the liveness properties `CommandsFinish`,
`BuildableIsLoadable`, `AcceptsResume`, `HealthcheckEnds` and `StopsOnSignal`,
which need fairness and `ENABLED`, beyond this prover. `BuiltIsAccepted` is the
safety half of `BuildableIsLoadable`: what remains for TLC is that loading ends.
The five properties of section 3 that are violated have, of course, no theorem.

## 6. Not modelled

* What the csv crate does with text (quotes, line breaks): a file is the rows it
  yields at the delimiter.
* Whether the delimiter that was typed is the one the author of a dataset used: a
  row like `a;b,c` has two columns at either, and the code cannot tell.
* A hand-edited artifact with two entries of one key: `read_compiled` promises
  nothing about it, and `build` writes none (`NoDuplicateKeys`).
* A disk that reorders the blocks of one file, and more than one power failure.
* Wrap-around of the 64-bit counters; gauges; the layout of the text.
* What clap declares (names, environment variables, defaults), the values of
  `/stats`, an explicit `--content-type`, packaging: no state of their own.
* Several requests at once on the key they mean: handlers share nothing but the
  metrics, whose interleavings are in `Metrics`, and the store, which nobody
  writes.
* A client that leaves before it has its answer: `lookup` records before axum sends
  (handlers.rs:77), so the bytes of such an answer are counted all the same.
* In `Server`: the length of the backoff, a handler that cannot be registered
  (tokio refuses only signals that cannot be handled), a full kernel backlog,
  `run_ephemeral`, which only tests use.

## 7. Plan

Done, in this order: `AtomicPublish`, `ScratchPublish` and its proofs; `Store`;
`CsvLoader` and its proofs; `Compiled` and its proofs; `LoadPaths`; `Metrics`;
`Server`; `PowerLoss`; `Http`; the command line in `LoadPaths`; the proofs of
`PowerLoss`, `Metrics`, `Server`, `LoadPaths` and `Http`.

Next:

1. `Server` with `Metrics`: a lookup in flight at shutdown is counted.
2. Proofs that no run states: that the loads of a reader and the publications are
   linearizable as a register's; that a server's `answered` never decreases and
   never passes `asked` on a connection, across a second request.
3. The steps towards liveness that are safety: a measure that every step of a
   command, of a load and of a drain decreases.
