---------------------------- MODULE ScratchPublish ---------------------------
(***************************************************************************)
(* `justkv build` and `justkv check` (src/src/main.rs) over a file system  *)
(* of directory entries and inodes, with `justkv serve` processes reading  *)
(* the output while builds run.  A build validates its CSV, creates a      *)
(* scratch file next to the output with create_new, writes the artifact    *)
(* into it in blocks, and renames it over the output.  Every system call   *)
(* may fail, a process may be killed between any two of them, several      *)
(* builds may run at once, and their scratch names may collide (two        *)
(* containers that share a volume are both pid 1; a killed build leaves    *)
(* its scratch behind).                                                    *)
(***************************************************************************)
EXTENDS Naturals, FiniteSets

CONSTANTS
  Builds, Checks,    \* processes running `build` and `check`
  Readers,           \* processes running `serve`, loading an output
  Outs, Names,       \* output paths; possible scratch names beside them
  OutOf,             \* OutOf[b]: the output of build b
  Candidates,        \* Candidates[b]: names create_scratch_file may try for b
  Data, ValidData,   \* contents the CSV can have; those parse_csv accepts
  Chunks,            \* number of blocks an artifact is written in
  MaxAttempts,       \* tries at a scratch name (1,000 in the code)
  RemoveMayFail,     \* whether remove_file may fail
  Bystander,         \* an inode of a file of the user's, not of justkv
  Previous,          \* the inode of an artifact published earlier
  OldData,           \* the dataset in it
  Foreign,           \* a block of the user's file
  Hole,              \* a block never written
  None

Procs == Builds \cup Checks
Paths == Outs \cup Names
Inodes == Builds \cup {Bystander, Previous}  \* build b creates at most inode b
Blocks == Data \cup {Foreign, Hole}

ASSUME ConstantsAssumption ==
  /\ Chunks \in Nat \ {0}
  /\ MaxAttempts \in Nat
  /\ RemoveMayFail \in BOOLEAN
  /\ Outs \cap Names = {}
  /\ Builds \cap Checks = {}
  /\ OutOf \in [Builds -> Outs]
  /\ Candidates \in [Builds -> SUBSET Names]
  /\ ValidData \subseteq Data
  /\ OldData \in ValidData
  /\ None \notin Inodes \cup Paths \cup Data \cup {0, 1, 2}
  /\ Foreign # Hole /\ {Foreign, Hole} \cap Data = {}
  /\ Bystander # Previous /\ {Bystander, Previous} \cap Builds = {}

VARIABLES
  source,      \* what the CSV file holds now
  dir,         \* dir[path]: the inode linked there, or None
  content,     \* content[inode][i]: block i of the file
  pc,          \* pc[p]: where process p stands
  data,        \* data[p]: the dataset p read and validated
  attempt,     \* attempt[p]: scratch names tried
  tmp, fd,     \* tmp[p], fd[p]: path and open inode of p's scratch file
  off,         \* off[p]: blocks written
  exit,        \* exit[p]: exit code, or None
  published,   \* history: builds that have renamed over their output
  rpc, rfd,    \* a reader's stage and the inode it has open
  rpos, rbuf   \* blocks a reader has read, and what they were

fsVars == <<dir, content>>
procVars == <<pc, data, attempt, tmp, fd, off, exit, published>>
readVars == <<rpc, rfd, rpos, rbuf>>
vars == <<source, fsVars, procVars, readVars>>

Whole(blocks, d) == blocks = [i \in 1..Chunks |-> d]
IsArtifact(blocks) == \E d \in ValidData : Whole(blocks, d)
Empty == [i \in 1..Chunks |-> Hole]

Init ==
  /\ source \in Data
  /\ dir \in { f \in [Paths -> {None, Bystander, Previous}] :
                 /\ \A n \in Names : f[n] # Previous
                 /\ \A o \in Outs : f[o] # Bystander }
  /\ content = [i \in Inodes |-> [j \in 1..Chunks |->
                  IF i = Bystander THEN Foreign ELSE IF i = Previous THEN OldData ELSE Hole]]
  /\ pc = [p \in Procs |-> "read"]
  /\ data = [p \in Procs |-> None]
  /\ attempt = [p \in Builds |-> 0]
  /\ tmp = [p \in Builds |-> None]
  /\ fd = [p \in Builds |-> None]
  /\ off = [p \in Builds |-> 0]
  /\ exit = [p \in Procs |-> None]
  /\ published = {}
  /\ rpc = [r \in Readers |-> "open"]
  /\ rfd = [r \in Readers |-> None]
  /\ rpos = [r \in Readers |-> 0]
  /\ rbuf = [r \in Readers |-> Empty]

Goto(p, from, to) == pc[p] = from /\ pc' = [pc EXCEPT ![p] = to]
ExitWith(p, from, code) ==
  Goto(p, from, "exited") /\ exit' = [exit EXCEPT ![p] = code]

------------------------------------------------------------------------------
(* parse_validated, shared by check and build.  What validation sees is the *)
(* buffer that is built from: the file is read once.                        *)

ReadFails(p) ==
  /\ ExitWith(p, "read", 2)
  /\ UNCHANGED <<source, fsVars, data, attempt, tmp, fd, off, published, readVars>>

Rejects(p) ==
  /\ source \notin ValidData
  /\ ExitWith(p, "read", 1)
  /\ UNCHANGED <<source, fsVars, data, attempt, tmp, fd, off, published, readVars>>

\* Mutant: parse_validated's error list is reported but not acted upon.
BuildValidatesNothing(p) ==
  /\ Goto(p, "read", "create")
  /\ data' = [data EXCEPT ![p] = source]
  /\ UNCHANGED <<source, fsVars, attempt, tmp, fd, off, exit, published, readVars>>

BuildValidates(p) ==
  /\ source \in ValidData
  /\ Goto(p, "read", "create")
  /\ data' = [data EXCEPT ![p] = source]
  /\ UNCHANGED <<source, fsVars, attempt, tmp, fd, off, exit, published, readVars>>

CheckPasses(p) ==
  /\ source \in ValidData
  /\ ExitWith(p, "read", 0)
  /\ data' = [data EXCEPT ![p] = source]
  /\ UNCHANGED <<source, fsVars, attempt, tmp, fd, off, published, readVars>>

------------------------------------------------------------------------------
(* create_scratch_file                                                      *)

\* Mutant: File::create instead of create_new, which opens and truncates
\* whatever is there.
CreateTruncates(p) ==
  /\ attempt[p] < MaxAttempts
  /\ Goto(p, "create", "write")
  /\ \E n \in Candidates[p] :
       LET ino == IF dir[n] = None THEN p ELSE dir[n] IN
       /\ dir' = [dir EXCEPT ![n] = ino]
       /\ content' = [content EXCEPT ![ino] = Empty]
       /\ tmp' = [tmp EXCEPT ![p] = n]
       /\ fd' = [fd EXCEPT ![p] = ino]
  /\ UNCHANGED <<source, data, attempt, off, exit, published, readVars>>

CreateScratch(p) ==
  /\ attempt[p] < MaxAttempts
  /\ Goto(p, "create", "write")
  /\ \E n \in Candidates[p] :
       /\ dir[n] = None
       /\ dir' = [dir EXCEPT ![n] = p]
       /\ tmp' = [tmp EXCEPT ![p] = n]
  /\ content' = [content EXCEPT ![p] = Empty]
  /\ fd' = [fd EXCEPT ![p] = p]
  /\ UNCHANGED <<source, data, attempt, off, exit, published, readVars>>

\* Mutant: the attempt counter starts over instead of running out.
NameTakenForever(p) ==
  /\ pc[p] = "create"
  /\ attempt[p] < MaxAttempts
  /\ \E n \in Candidates[p] : dir[n] # None
  /\ attempt' = [attempt EXCEPT ![p] = (@ + 1) % MaxAttempts]
  /\ UNCHANGED <<source, fsVars, pc, data, tmp, fd, off, exit, published, readVars>>

NameTaken(p) ==
  /\ pc[p] = "create"
  /\ attempt[p] < MaxAttempts
  /\ \E n \in Candidates[p] : dir[n] # None
  /\ attempt' = [attempt EXCEPT ![p] = @ + 1]
  /\ UNCHANGED <<source, fsVars, pc, data, tmp, fd, off, exit, published, readVars>>

AttemptsExhausted(p) ==
  /\ attempt[p] = MaxAttempts
  /\ ExitWith(p, "create", 2)
  /\ UNCHANGED <<source, fsVars, data, attempt, tmp, fd, off, published, readVars>>

\* Any other error of open(2).
CreateFails(p) ==
  /\ attempt[p] < MaxAttempts
  /\ ExitWith(p, "create", 2)
  /\ UNCHANGED <<source, fsVars, data, attempt, tmp, fd, off, published, readVars>>

------------------------------------------------------------------------------
(* write_compiled through a BufWriter, then flush                           *)

\* Mutant: writing goes on past the end of the artifact.
WriteChunkUnbounded(p) ==
  /\ pc[p] = "write"
  /\ off' = [off EXCEPT ![p] = @ + 1]
  /\ content' = [content EXCEPT ![fd[p]][off[p] + 1] = data[p]]
  /\ UNCHANGED <<source, dir, pc, data, attempt, tmp, fd, exit, published, readVars>>

WriteChunk(p) ==
  /\ pc[p] = "write"
  /\ off[p] < Chunks
  /\ off' = [off EXCEPT ![p] = @ + 1]
  /\ content' = [content EXCEPT ![fd[p]][off[p] + 1] = data[p]]
  /\ UNCHANGED <<source, dir, pc, data, attempt, tmp, fd, exit, published, readVars>>

\* ENOSPC and the like, from a write or from the final flush.
WriteFails(p) ==
  /\ Goto(p, "write", "cleanup")
  /\ UNCHANGED <<source, fsVars, data, attempt, tmp, fd, off, exit, published, readVars>>

\* Mutant: rename without the flush, the last blocks still in the BufWriter.
RenameUnflushed(p) ==
  /\ Goto(p, "write", "renamed")
  /\ dir' = [dir EXCEPT ![OutOf[p]] = dir[tmp[p]], ![tmp[p]] = None]
  /\ published' = published \cup {p}
  /\ UNCHANGED <<source, content, data, attempt, tmp, fd, off, exit, readVars>>

Rename(p) ==
  /\ off[p] = Chunks
  /\ Goto(p, "write", "renamed")
  /\ dir' = [dir EXCEPT ![OutOf[p]] = dir[tmp[p]], ![tmp[p]] = None]
  /\ published' = published \cup {p}
  /\ UNCHANGED <<source, content, data, attempt, tmp, fd, off, exit, readVars>>

\* Mutant: a failed rename returns without removing the scratch file.
RenameFailsQuietly(p) ==
  /\ off[p] = Chunks
  /\ ExitWith(p, "write", 2)
  /\ UNCHANGED <<source, fsVars, data, attempt, tmp, fd, off, published, readVars>>

\* Mutant: the result of rename is dropped, as that of remove_file is.
RenameFailsAsSuccess(p) ==
  /\ off[p] = Chunks
  /\ ExitWith(p, "write", 0)
  /\ UNCHANGED <<source, fsVars, data, attempt, tmp, fd, off, published, readVars>>

RenameFails(p) ==
  /\ off[p] = Chunks
  /\ Goto(p, "write", "cleanup")
  /\ UNCHANGED <<source, fsVars, data, attempt, tmp, fd, off, exit, published, readVars>>

\* Mutant: the error path removes the output instead of the scratch file.
RemoveOutput(p) ==
  /\ ExitWith(p, "cleanup", 2)
  /\ dir' = [dir EXCEPT ![OutOf[p]] = None]
  /\ UNCHANGED <<source, content, data, attempt, tmp, fd, off, published, readVars>>

RemoveScratch(p) ==
  /\ ExitWith(p, "cleanup", 2)
  /\ dir' = [dir EXCEPT ![tmp[p]] = None]
  /\ UNCHANGED <<source, content, data, attempt, tmp, fd, off, published, readVars>>

\* The error of remove_file is ignored: the scratch file stays.
RemoveFails(p) ==
  /\ RemoveMayFail
  /\ ExitWith(p, "cleanup", 2)
  /\ UNCHANGED <<source, fsVars, data, attempt, tmp, fd, off, published, readVars>>

Succeed(p) ==
  /\ ExitWith(p, "renamed", 0)
  /\ UNCHANGED <<source, fsVars, data, attempt, tmp, fd, off, published, readVars>>

\* SIGKILL, or the panic of println! on a closed stdout after the rename.
Crash(p) ==
  /\ pc[p] \notin {"exited", "crashed"}
  /\ pc' = [pc EXCEPT ![p] = "crashed"]
  /\ UNCHANGED <<source, fsVars, data, attempt, tmp, fd, off, exit, published, readVars>>

------------------------------------------------------------------------------
(* std::fs::read in load, by a serve process                                *)

OpenOut(r) ==
  /\ rpc[r] = "open"
  /\ \E o \in Outs :
       IF dir[o] = None
       THEN rpc' = [rpc EXCEPT ![r] = "failed"] /\ UNCHANGED rfd
       ELSE rpc' = [rpc EXCEPT ![r] = "read"] /\ rfd' = [rfd EXCEPT ![r] = dir[o]]
  /\ UNCHANGED <<source, fsVars, procVars, rpos, rbuf>>

ReadBlock(r) ==
  /\ rpc[r] = "read"
  /\ rpos[r] < Chunks
  /\ rpos' = [rpos EXCEPT ![r] = @ + 1]
  /\ rbuf' = [rbuf EXCEPT ![r][rpos[r] + 1] = content[rfd[r]][rpos[r] + 1]]
  /\ UNCHANGED <<source, fsVars, procVars, rpc, rfd>>

ReadEof(r) ==
  /\ rpc[r] = "read"
  /\ rpos[r] = Chunks
  /\ rpc' = [rpc EXCEPT ![r] = "loaded"]
  /\ UNCHANGED <<source, fsVars, procVars, rfd, rpos, rbuf>>

------------------------------------------------------------------------------

\* The owner of the dataset edits it at any time.
EditSource ==
  /\ source' \in Data \ {source}
  /\ UNCHANGED <<fsVars, procVars, readVars>>

BuildStep(p) ==
  \/ ReadFails(p) \/ Rejects(p) \/ BuildValidates(p)
  \/ CreateScratch(p) \/ NameTaken(p) \/ AttemptsExhausted(p) \/ CreateFails(p)
  \/ WriteChunk(p) \/ WriteFails(p)
  \/ Rename(p) \/ RenameFails(p) \/ RemoveScratch(p) \/ RemoveFails(p)
  \/ Succeed(p)

CheckStep(p) == ReadFails(p) \/ Rejects(p) \/ CheckPasses(p)

ReaderStep(r) == OpenOut(r) \/ ReadBlock(r) \/ ReadEof(r)

Next ==
  \/ \E p \in Builds : BuildStep(p)
  \/ \E p \in Checks : CheckStep(p)
  \/ \E p \in Procs : Crash(p)
  \/ \E r \in Readers : ReaderStep(r)
  \/ EditSource

Spec == Init /\ [][Next]_vars

\* The operating system keeps scheduling a process until it is gone.
Fairness ==
  /\ \A p \in Builds : WF_vars(BuildStep(p))
  /\ \A p \in Checks : WF_vars(CheckStep(p))
  /\ \A r \in Readers : WF_vars(ReaderStep(r))

FairSpec == Spec /\ Fairness
------------------------------------------------------------------------------
(* Properties *)

\* Types of the file system, of the processes and of the readers.
TypeOK ==
  /\ source \in Data
  /\ dir \in [Paths -> Inodes \cup {None}]
  /\ content \in [Inodes -> [1..Chunks -> Blocks]]
  /\ pc \in [Procs -> {"read", "create", "write", "renamed", "cleanup", "exited", "crashed"}]
  /\ data \in [Procs -> Data \cup {None}]
  /\ attempt \in [Builds -> 0..MaxAttempts]
  /\ tmp \in [Builds -> Names \cup {None}]
  /\ fd \in [Builds -> Inodes \cup {None}]
  /\ off \in [Builds -> 0..Chunks]
  /\ exit \in [Procs -> {0, 1, 2, None}]
  /\ published \subseteq Builds
  /\ rpc \in [Readers -> {"open", "read", "failed", "loaded"}]
  /\ rfd \in [Readers -> Inodes \cup {None}]
  /\ rpos \in [Readers -> 0..Chunks]
  /\ rbuf \in [Readers -> [1..Chunks -> Blocks]]

\* While a build still uses its scratch name, the name leads to the file it
\* opened: nobody else's create, rename or remove_file has touched it, so its
\* own rename and remove_file act on its own file (main.rs:77-79).
ScratchIsOwned ==
  \A p \in Builds : pc[p] \in {"write", "cleanup"} => dir[tmp[p]] = fd[p]

\* "a failed build never leaves a half-written artifact that a later stage
\* would happily load" (main.rs:124): whatever an output path leads to is one
\* whole dataset that passed validation, and if a build published it, the very
\* one that this build validated, however the source was edited since (main.rs:34).
OutputIsWhole ==
  \A o \in Outs : dir[o] # None =>
    /\ IsArtifact(content[dir[o]])
    /\ dir[o] \in Builds => Whole(content[dir[o]], data[dir[o]])

\* A serve process that opens an output while builds replace it reads one
\* whole artifact, never a mixture of two and never a prefix (load in
\* store/mod.rs reads an inode that a rename may unlink meanwhile).
LoadsWholeArtifact == \A r \in Readers : rpc[r] = "loaded" => IsArtifact(rbuf[r])

\* An exit code tells a build script the truth: 0 only after the output was
\* replaced, 1 or 2 only if it was left alone (cmd_build's return values).
ExitCodeIsTruthful ==
  \A p \in Builds : exit[p] # None => (exit[p] = 0 <=> p \in published)

\* A build that ends by itself, with success or an error, leaves no scratch
\* file behind (main.rs:141 and 146), provided remove_file works.
NoScratchLeftBehind ==
  \A p \in Builds, n \in Names : pc[p] = "exited" => dir[n] # p

\* The files that may bear a scratch name and are no running build's: the user's,
\* and what builds that were killed or could not clean up have left.
Abandoned == {Bystander} \cup {p \in Builds : pc[p] \in {"exited", "crashed"}}

\* A file that happens to bear a candidate scratch name, the user's or a dead
\* build's, is neither overwritten, nor removed, nor renamed (main.rs:71-79).
BystanderUntouched ==
  [][\A i \in Abandoned :
       /\ content'[i] = content[i]
       /\ \A n \in Names : dir[n] = i => dir'[n] = i]_vars

\* The file an output path leads to is never written to again, so a reader
\* that has it open is safe for as long as it likes.
PublishedIsImmutable ==
  [][\A o \in Outs : dir[o] # None => content'[dir[o]] = content[dir[o]]]_vars

\* Every command ends: the search for a scratch name is bounded (main.rs:90).
CommandsFinish == \A p \in Procs : <>(pc[p] \in {"exited", "crashed"})

\* The dataset an output path holds.
DatasetOf(blocks) == CHOOSE d \in ValidData : Whole(blocks, d)
Artifact(o) == IF dir[o] = None THEN None ELSE DatasetOf(content[dir[o]])

\* The scratch-and-rename protocol implements the atomic register.
Abs == INSTANCE AtomicPublish WITH artifact <- [o \in Outs |-> Artifact(o)]
AbsSpec == Abs!AbsSpec
==============================================================================
