------------------------------ MODULE PowerLoss -------------------------------
(***************************************************************************)
(* ScratchPublish on a disk that may lose its power.  Neither cmd_build    *)
(* nor write_compiled (src/src/main.rs, src/src/store/compiled.rs) calls   *)
(* fsync, so what processes see in dir and content reaches the disk when   *)
(* the kernel gets to it: the blocks of a file in order, the directory     *)
(* all at once.  A file system that is `ordered` writes a file out before  *)
(* it commits the rename that publishes it; others promise nothing.        *)
(***************************************************************************)
EXTENDS ScratchPublish

VARIABLES
  disk,      \* the directory and the contents that are on disk
  ordered,   \* whether the file system orders data before renames
  lost       \* whether the power has failed; it does so once

diskVars == <<disk, ordered, lost>>
powerVars == <<vars, diskVars>>

PowerInit ==
  /\ Init
  /\ disk = [dir |-> dir, content |-> content]
  /\ ordered \in BOOLEAN
  /\ lost = FALSE

\* The kernel writes the next block of a file to the disk.
WriteBack(i) ==
  /\ \E j \in 1..Chunks :
       /\ disk.content[i][j] # content[i][j]
       /\ \A h \in 1..j - 1 : disk.content[i][h] = content[i][h]
       /\ disk' = [disk EXCEPT !.content[i][j] = content[i][j]]
  /\ UNCHANGED <<vars, ordered, lost>>

\* The journal commits every create, rename and remove done so far.
Commit ==
  /\ disk.dir # dir
  /\ ordered => \A o \in Outs : dir[o] # None => disk.content[dir[o]] = content[dir[o]]
  /\ disk' = [disk EXCEPT !.dir = dir]
  /\ UNCHANGED <<vars, ordered, lost>>

\* What runs is gone; after the restart the disk is what there is, commands
\* that had not started still may, and serve loads its output anew.
PowerFails ==
  /\ ~lost /\ lost' = TRUE
  /\ dir' = disk.dir /\ content' = disk.content
  /\ pc' = [p \in Procs |-> IF pc[p] \in {"read", "exited"} THEN pc[p] ELSE "crashed"]
  /\ rpc' = [r \in Readers |-> "open"] /\ rfd' = [r \in Readers |-> None]
  /\ rpos' = [r \in Readers |-> 0] /\ rbuf' = [r \in Readers |-> Empty]
  /\ UNCHANGED <<source, data, attempt, tmp, fd, off, exit, published, disk, ordered>>

\* Mutant: read_compiled does not compare the length with the header's.
AcceptsCuts(blocks) == TRUE

\* load refuses an artifact that is cut (RejectsCuts of Compiled).  It does not
\* refuse an empty file: without the magic it is a CSV, and one with no rows.
Accepts(blocks) ==
  ~ \E d \in ValidData, n \in 1..Chunks - 1 :
      blocks = [i \in 1..Chunks |-> IF i <= n THEN d ELSE Hole]

PowerNext ==
  \/ Next /\ UNCHANGED diskVars
  \/ \E i \in Inodes : WriteBack(i)
  \/ Commit
  \/ PowerFails

PowerSpec == PowerInit /\ [][PowerNext]_powerVars /\ Fairness
------------------------------------------------------------------------------
(* Properties *)

\* What a serve process started now would make of output o.
Loads(o) == dir[o] # None /\ Accepts(content[dir[o]])

\* A power failure never makes serve load a mixture of datasets or part of one.
\* If the file system orders data before renames, it loads a whole dataset;
\* if not, the worst is the empty one.
LoadsWholeOrEmpty ==
  \A o \in Outs : Loads(o) =>
    IsArtifact(content[dir[o]]) \/ (lost /\ ~ordered /\ content[dir[o]] = Empty)

\* An output that has once reached the disk is there ever after, before and
\* after a power failure: it is replaced and never taken away first.
OutputNeverVanishes ==
  [][\A o \in Outs : disk.dir[o] # None => disk'.dir[o] # None /\ dir'[o] # None]_powerVars

\* A build that ends by itself leaves no scratch file behind (main.rs:141 and
\* 146) unless remove_file fails or the power does, which may bring back the
\* name of one that was renamed.
NoScratchBeforePowerLoss == lost \/ NoScratchLeftBehind

\* "so a failed build never leaves a half-written artifact that a later stage
\* would happily load" (main.rs:124), the failure being of the power.
NeverLoadsHalfWritten == \A o \in Outs : Loads(o) => IsArtifact(content[dir[o]])
==============================================================================
