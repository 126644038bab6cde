------------------------- MODULE ScratchPublishProofs ------------------------
(* Proofs about ScratchPublish: its inductive invariant, and that it        *)
(* implements AtomicPublish.                                                *)
EXTENDS PowerLoss, TLAPS

\* The inodes that an output path may lead to.
Settled == published \cup {Previous}

\* What no step may do to a settled file.
Undisturbed ==
  published \subseteq published' /\ \A i \in Settled : content'[i] = content[i]

\* A build that has not created its scratch file has no file at all.
NotYetLinked ==
  \A p \in Builds : pc[p] \in {"read", "create"} => \A x \in Paths : dir[x] # p

\* A build at work owns its scratch file, and has written a prefix of its data.
Writing ==
  \A p \in Builds :
    /\ pc[p] \in {"create", "write"} => data[p] \in ValidData
    /\ pc[p] \in {"write", "cleanup"} =>
         /\ fd[p] = p
         /\ tmp[p] \in Names
         /\ dir[tmp[p]] = p
    /\ pc[p] = "write" => \A i \in 1..off[p] : content[p][i] = data[p]

\* Nothing has been written before the scratch file exists.
Unwritten == \A p \in Builds : pc[p] \in {"read", "create"} => off[p] = 0

\* A published file is whole, its build is done with it, and output paths
\* lead to published files only.
SettledIsWhole ==
  /\ \A i \in Settled : IsArtifact(content[i])
  /\ \A p \in published : pc[p] \in {"renamed", "exited", "crashed"}
  /\ \A o \in Outs : dir[o] # None => dir[o] \in Settled

\* What a reader has read so far is what its settled file holds.
Reading ==
  \A r \in Readers :
    /\ rpc[r] = "open" => rpos[r] = 0
    /\ rpc[r] = "read" =>
         /\ rfd[r] \in Settled
         /\ \A i \in 1..rpos[r] : rbuf[r][i] = content[rfd[r]][i]
    /\ rpc[r] = "loaded" => IsArtifact(rbuf[r])

\* Exit codes agree with what was published.
Exits ==
  /\ \A p \in Procs : exit[p] # None <=> pc[p] = "exited"
  /\ \A p \in Builds : /\ pc[p] = "renamed" => p \in published
                       /\ exit[p] # None => (exit[p] = 0 <=> p \in published)

IInv ==
  /\ TypeOK /\ NotYetLinked /\ Unwritten /\ Writing
  /\ SettledIsWhole /\ Reading /\ Exits

------------------------------------------------------------------------------
(* Lemmas shared by the proofs of the single actions *)

\* A file is an artifact if every block of it belongs to one valid dataset.
LEMMA ArtifactPointwise ==
  ASSUME NEW blocks \in [1..Chunks -> Blocks], NEW d \in ValidData,
         \A i \in 1..Chunks : blocks[i] = d
  PROVE  IsArtifact(blocks)
BY DEF IsArtifact, Whole

\* Settled files stay whole in a step that leaves them and the outputs alone.
LEMMA SettledKept ==
  ASSUME SettledIsWhole, Undisturbed, published' = published,
         \A o \in Outs : dir'[o] = dir[o],
         \A p \in published : pc'[p] \in {"renamed", "exited", "crashed"}
  PROVE  SettledIsWhole'
BY DEF SettledIsWhole, Settled, Undisturbed

\* A reader is not disturbed by a step that leaves settled files alone.
LEMMA ReadingKept ==
  ASSUME Reading, UNCHANGED readVars, Undisturbed
  PROVE  Reading'
BY DEF Reading, Settled, Undisturbed, readVars

\* A build at work is at no settled inode: nobody who is still working has published.
LEMMA WorkingIsNotSettled ==
  ASSUME IInv, NEW p \in Builds, pc[p] \notin {"renamed", "exited", "crashed"}
  PROVE  p \notin Settled
BY ConstantsAssumption DEF IInv, SettledIsWhole, Settled

\* The invariant holds at the start, before any process has run.
LEMMA InitIInv == Init => IInv
<1> SUFFICES ASSUME Init PROVE IInv
  OBVIOUS
<1> USE ConstantsAssumption DEF Init
<1>1. TypeOK
  BY DEF TypeOK, Procs, Paths, Inodes, Blocks, Empty
<1>2. NotYetLinked
  BY DEF NotYetLinked, Inodes, Paths
<1>3. Writing
  BY DEF Writing, Procs
<1>4. SettledIsWhole
  BY DEF SettledIsWhole, Settled, IsArtifact, Whole, Inodes, Paths
<1>5. Reading
  BY DEF Reading
<1>6. Exits
  BY DEF Exits, Procs
<1>7. Unwritten
  BY DEF Unwritten, Procs
<1> QED
  BY <1>1, <1>2, <1>3, <1>4, <1>5, <1>6, <1>7 DEF IInv

------------------------------------------------------------------------------
(* One lemma per action: the action preserves the invariant and disturbs no *)
(* settled file.                                                            *)

\* A command that cannot read its CSV touches no file.
LEMMA ReadFailsStep ==
  ASSUME IInv, NEW p \in Procs, ReadFails(p)
  PROVE  IInv' /\ Undisturbed
<1> USE ConstantsAssumption DEF ReadFails, ExitWith, Goto, fsVars, procVars, readVars
<1>1. TypeOK'
  BY DEF IInv, TypeOK, Procs, Paths, Inodes, Blocks, Writing
<1>2. Undisturbed
  BY WorkingIsNotSettled DEF IInv, TypeOK, Settled, Writing, Undisturbed
<1>3. NotYetLinked'
  BY DEF IInv, TypeOK, NotYetLinked, Procs, Paths
<1>4. Writing'
  BY DEF IInv, TypeOK, NotYetLinked, Writing, Procs, Paths
<1>5. SettledIsWhole'
  <2>1. \A o \in Outs : dir'[o] = dir[o]
    BY DEF IInv, TypeOK, Writing, Paths
  <2>2. \A q \in published : pc'[q] \in {"renamed", "exited", "crashed"}
    BY WorkingIsNotSettled DEF IInv, TypeOK, SettledIsWhole, Settled, Procs
  <2> QED
    BY <1>2, <2>1, <2>2, SettledKept DEF IInv
<1>6. Reading'
  BY <1>2, ReadingKept DEF IInv
<1>7. Exits'
  <2>1. \A q \in Procs : exit'[q] # None <=> pc'[q] = "exited"
    BY DEF IInv, TypeOK, Exits
  <2>2. \A q \in Builds : pc'[q] = "renamed" => q \in published'
    BY DEF IInv, TypeOK, Exits, Procs
  <2>3. ASSUME NEW q \in Builds, exit'[q] # None
        PROVE  exit'[q] = 0 <=> q \in published'
    <3>1. CASE q = p
      <4>1. p \notin published
        BY <3>1, WorkingIsNotSettled DEF Settled
      <4>2. exit'[p] = 2
        BY DEF IInv, TypeOK, Procs
      <4> QED
        BY <3>1, <4>1, <4>2
    <3>2. CASE q # p
      BY <2>3, <3>2 DEF IInv, TypeOK, Exits, Procs
    <3> QED
      BY <3>1, <3>2
  <2> QED
    BY <2>1, <2>2, <2>3 DEF Exits
<1>8. Unwritten'
  BY DEF IInv, TypeOK, Unwritten, Procs
<1> QED
  BY <1>1, <1>2, <1>3, <1>4, <1>5, <1>6, <1>7, <1>8 DEF IInv

\* A command that finds its CSV invalid touches no file.
LEMMA RejectsStep ==
  ASSUME IInv, NEW p \in Procs, Rejects(p)
  PROVE  IInv' /\ Undisturbed
<1> USE ConstantsAssumption DEF Rejects, ExitWith, Goto, fsVars, procVars, readVars
<1>1. TypeOK'
  BY DEF IInv, TypeOK, Procs, Paths, Inodes, Blocks, Writing
<1>2. Undisturbed
  BY WorkingIsNotSettled DEF IInv, TypeOK, Settled, Writing, Undisturbed
<1>3. NotYetLinked'
  BY DEF IInv, TypeOK, NotYetLinked, Procs, Paths
<1>4. Writing'
  BY DEF IInv, TypeOK, NotYetLinked, Writing, Procs, Paths
<1>5. SettledIsWhole'
  <2>1. \A o \in Outs : dir'[o] = dir[o]
    BY DEF IInv, TypeOK, Writing, Paths
  <2>2. \A q \in published : pc'[q] \in {"renamed", "exited", "crashed"}
    BY WorkingIsNotSettled DEF IInv, TypeOK, SettledIsWhole, Settled, Procs
  <2> QED
    BY <1>2, <2>1, <2>2, SettledKept DEF IInv
<1>6. Reading'
  BY <1>2, ReadingKept DEF IInv
<1>7. Exits'
  BY WorkingIsNotSettled DEF IInv, TypeOK, Exits, Settled, Procs
<1>8. Unwritten'
  BY DEF IInv, TypeOK, Unwritten, Procs
<1> QED
  BY <1>1, <1>2, <1>3, <1>4, <1>5, <1>6, <1>7, <1>8 DEF IInv

\* A check never touches a file.
LEMMA CheckPassesStep ==
  ASSUME IInv, NEW p \in Checks, CheckPasses(p)
  PROVE  IInv' /\ Undisturbed
<1> USE ConstantsAssumption DEF CheckPasses, ExitWith, Goto, fsVars, procVars, readVars
<1>1. TypeOK'
  BY DEF IInv, TypeOK, Procs, Paths, Inodes, Blocks, Writing
<1>2. Undisturbed
  BY WorkingIsNotSettled DEF IInv, TypeOK, Settled, Writing, Undisturbed
<1>3. NotYetLinked'
  BY DEF IInv, TypeOK, NotYetLinked, Procs, Paths
<1>4. Writing'
  BY DEF IInv, TypeOK, NotYetLinked, Writing, Procs, Paths
<1>5. SettledIsWhole'
  <2>1. \A o \in Outs : dir'[o] = dir[o]
    BY DEF IInv, TypeOK, Writing, Paths
  <2>2. \A q \in published : pc'[q] \in {"renamed", "exited", "crashed"}
    BY WorkingIsNotSettled DEF IInv, TypeOK, SettledIsWhole, Settled, Procs
  <2> QED
    BY <1>2, <2>1, <2>2, SettledKept DEF IInv
<1>6. Reading'
  BY <1>2, ReadingKept DEF IInv
<1>7. Exits'
  BY WorkingIsNotSettled DEF IInv, TypeOK, Exits, Settled, Procs
<1>8. Unwritten'
  BY DEF IInv, TypeOK, Unwritten, Procs
<1> QED
  BY <1>1, <1>2, <1>3, <1>4, <1>5, <1>6, <1>7, <1>8 DEF IInv

\* A build that has validated its CSV holds a valid dataset, and no file yet.
LEMMA BuildValidatesStep ==
  ASSUME IInv, NEW p \in Builds, BuildValidates(p)
  PROVE  IInv' /\ Undisturbed
<1> USE ConstantsAssumption DEF BuildValidates, ExitWith, Goto, fsVars, procVars, readVars
<1>1. TypeOK'
  BY DEF IInv, TypeOK, Procs, Paths, Inodes, Blocks, Writing
<1>2. Undisturbed
  BY WorkingIsNotSettled DEF IInv, TypeOK, Settled, Writing, Undisturbed
<1>3. NotYetLinked'
  BY DEF IInv, TypeOK, NotYetLinked, Procs, Paths
<1>4. Writing'
  BY DEF IInv, TypeOK, NotYetLinked, Writing, Procs, Paths
<1>5. SettledIsWhole'
  <2>1. \A o \in Outs : dir'[o] = dir[o]
    BY DEF IInv, TypeOK, Writing, Paths
  <2>2. \A q \in published : pc'[q] \in {"renamed", "exited", "crashed"}
    BY WorkingIsNotSettled DEF IInv, TypeOK, SettledIsWhole, Settled, Procs
  <2> QED
    BY <1>2, <2>1, <2>2, SettledKept DEF IInv
<1>6. Reading'
  BY <1>2, ReadingKept DEF IInv
<1>7. Exits'
  BY WorkingIsNotSettled DEF IInv, TypeOK, Exits, Settled, Procs
<1>8. Unwritten'
  BY DEF IInv, TypeOK, Unwritten, Procs
<1> QED
  BY <1>1, <1>2, <1>3, <1>4, <1>5, <1>6, <1>7, <1>8 DEF IInv

\* create_new links a build's own inode to a name that was free.
LEMMA CreateScratchStep ==
  ASSUME IInv, NEW p \in Builds, CreateScratch(p)
  PROVE  IInv' /\ Undisturbed
<1> USE ConstantsAssumption DEF CreateScratch, ExitWith, Goto, fsVars, procVars, readVars
<1>1. TypeOK'
  <2> PICK n \in Candidates[p] : /\ dir[n] = None
                                /\ dir' = [dir EXCEPT ![n] = p]
                                /\ tmp' = [tmp EXCEPT ![p] = n]
    OBVIOUS
  <2>0. n \in Names
    OBVIOUS
  <2> QED
    BY <2>0 DEF IInv, TypeOK, Procs, Paths, Inodes, Blocks, Empty
<1>2. Undisturbed
  <2>1. p \notin Settled
    BY WorkingIsNotSettled DEF IInv, TypeOK, Procs
  <2> QED
    BY <2>1 DEF IInv, TypeOK, Undisturbed
<1>3. NotYetLinked'
  BY DEF IInv, TypeOK, NotYetLinked, Procs, Paths
<1>4. Writing'
  <2> PICK n \in Candidates[p] : /\ dir[n] = None
                                /\ dir' = [dir EXCEPT ![n] = p]
                                /\ tmp' = [tmp EXCEPT ![p] = n]
    OBVIOUS
  <2>0. n \in Names
    OBVIOUS
  <2>1. ASSUME NEW q \in Builds, pc'[q] \in {"write", "cleanup"}
        PROVE  fd'[q] = q /\ tmp'[q] \in Names /\ dir'[tmp'[q]] = q
    <3>1. CASE q = p
      BY <2>0, <3>1 DEF IInv, TypeOK, Paths
    <3>2. CASE q # p
      <4>1. fd[q] = q /\ tmp[q] \in Names /\ dir[tmp[q]] = q
        BY <2>1, <3>2 DEF IInv, TypeOK, Writing, Procs
      <4>2. tmp[q] # n
        BY <4>1 DEF Inodes
      <4> QED
        BY <3>2, <4>1, <4>2 DEF IInv, TypeOK, Paths
    <3> QED
      BY <3>1, <3>2
  <2>2. ASSUME NEW q \in Builds, pc'[q] \in {"create", "write"}
        PROVE  data'[q] \in ValidData
    BY <2>2 DEF IInv, TypeOK, Writing, Procs
  <2>3. ASSUME NEW q \in Builds, pc'[q] = "write"
        PROVE  \A i \in 1..off'[q] : content'[q][i] = data'[q]
    <3>1. CASE q = p
      BY <3>1 DEF IInv, TypeOK, Unwritten
    <3>2. CASE q # p
      BY <2>3, <3>2 DEF IInv, TypeOK, Writing, Procs
    <3> QED
      BY <3>1, <3>2
  <2> QED
    BY <2>1, <2>2, <2>3 DEF Writing
<1>5. SettledIsWhole'
  <2> PICK n \in Candidates[p] : /\ dir[n] = None
                                /\ dir' = [dir EXCEPT ![n] = p]
                                /\ tmp' = [tmp EXCEPT ![p] = n]
    OBVIOUS
  <2>0. n \in Names
    OBVIOUS
  <2>1. \A o \in Outs : dir'[o] = dir[o]
    BY <2>0 DEF IInv, TypeOK, Paths
  <2>2. \A q \in published : pc'[q] \in {"renamed", "exited", "crashed"}
    BY WorkingIsNotSettled DEF IInv, TypeOK, SettledIsWhole, Settled, Procs
  <2> QED
    BY <1>2, <2>1, <2>2, SettledKept DEF IInv
<1>6. Reading'
  BY <1>2, ReadingKept DEF IInv
<1>7. Exits'
  BY WorkingIsNotSettled DEF IInv, TypeOK, Exits, Settled, Procs
<1>8. Unwritten'
  BY DEF IInv, TypeOK, Unwritten, Procs
<1> QED
  BY <1>1, <1>2, <1>3, <1>4, <1>5, <1>6, <1>7, <1>8 DEF IInv

\* A taken name costs an attempt and nothing else.
LEMMA NameTakenStep ==
  ASSUME IInv, NEW p \in Builds, NameTaken(p)
  PROVE  IInv' /\ Undisturbed
<1> USE ConstantsAssumption DEF NameTaken, ExitWith, Goto, fsVars, procVars, readVars
<1>1. TypeOK'
  BY DEF IInv, TypeOK, Procs, Paths, Inodes, Blocks, Writing
<1>2. Undisturbed
  BY WorkingIsNotSettled DEF IInv, TypeOK, Settled, Writing, Undisturbed
<1>3. NotYetLinked'
  BY DEF IInv, TypeOK, NotYetLinked, Procs, Paths
<1>4. Writing'
  BY DEF IInv, TypeOK, NotYetLinked, Writing, Procs, Paths
<1>5. SettledIsWhole'
  <2>1. \A o \in Outs : dir'[o] = dir[o]
    BY DEF IInv, TypeOK, Writing, Paths
  <2>2. \A q \in published : pc'[q] \in {"renamed", "exited", "crashed"}
    BY WorkingIsNotSettled DEF IInv, TypeOK, SettledIsWhole, Settled, Procs
  <2> QED
    BY <1>2, <2>1, <2>2, SettledKept DEF IInv
<1>6. Reading'
  BY <1>2, ReadingKept DEF IInv
<1>7. Exits'
  BY WorkingIsNotSettled DEF IInv, TypeOK, Exits, Settled, Procs
<1>8. Unwritten'
  BY DEF IInv, TypeOK, Unwritten, Procs
<1> QED
  BY <1>1, <1>2, <1>3, <1>4, <1>5, <1>6, <1>7, <1>8 DEF IInv

\* A build out of attempts ends without a file.
LEMMA AttemptsExhaustedStep ==
  ASSUME IInv, NEW p \in Builds, AttemptsExhausted(p)
  PROVE  IInv' /\ Undisturbed
<1> USE ConstantsAssumption DEF AttemptsExhausted, ExitWith, Goto, fsVars, procVars, readVars
<1>1. TypeOK'
  BY DEF IInv, TypeOK, Procs, Paths, Inodes, Blocks, Writing
<1>2. Undisturbed
  BY WorkingIsNotSettled DEF IInv, TypeOK, Settled, Writing, Undisturbed
<1>3. NotYetLinked'
  BY DEF IInv, TypeOK, NotYetLinked, Procs, Paths
<1>4. Writing'
  BY DEF IInv, TypeOK, NotYetLinked, Writing, Procs, Paths
<1>5. SettledIsWhole'
  <2>1. \A o \in Outs : dir'[o] = dir[o]
    BY DEF IInv, TypeOK, Writing, Paths
  <2>2. \A q \in published : pc'[q] \in {"renamed", "exited", "crashed"}
    BY WorkingIsNotSettled DEF IInv, TypeOK, SettledIsWhole, Settled, Procs
  <2> QED
    BY <1>2, <2>1, <2>2, SettledKept DEF IInv
<1>6. Reading'
  BY <1>2, ReadingKept DEF IInv
<1>7. Exits'
  <2>1. \A q \in Procs : exit'[q] # None <=> pc'[q] = "exited"
    BY DEF IInv, TypeOK, Exits
  <2>2. \A q \in Builds : pc'[q] = "renamed" => q \in published'
    BY DEF IInv, TypeOK, Exits, Procs
  <2>3. ASSUME NEW q \in Builds, exit'[q] # None
        PROVE  exit'[q] = 0 <=> q \in published'
    <3>1. CASE q = p
      <4>1. p \notin published
        BY <3>1, WorkingIsNotSettled DEF Settled
      <4>2. exit'[p] = 2
        BY DEF IInv, TypeOK, Procs
      <4> QED
        BY <3>1, <4>1, <4>2
    <3>2. CASE q # p
      BY <2>3, <3>2 DEF IInv, TypeOK, Exits, Procs
    <3> QED
      BY <3>1, <3>2
  <2> QED
    BY <2>1, <2>2, <2>3 DEF Exits
<1>8. Unwritten'
  BY DEF IInv, TypeOK, Unwritten, Procs
<1> QED
  BY <1>1, <1>2, <1>3, <1>4, <1>5, <1>6, <1>7, <1>8 DEF IInv

\* A build that cannot create a scratch file ends without one.
LEMMA CreateFailsStep ==
  ASSUME IInv, NEW p \in Builds, CreateFails(p)
  PROVE  IInv' /\ Undisturbed
<1> USE ConstantsAssumption DEF CreateFails, ExitWith, Goto, fsVars, procVars, readVars
<1>1. TypeOK'
  BY DEF IInv, TypeOK, Procs, Paths, Inodes, Blocks, Writing
<1>2. Undisturbed
  BY WorkingIsNotSettled DEF IInv, TypeOK, Settled, Writing, Undisturbed
<1>3. NotYetLinked'
  BY DEF IInv, TypeOK, NotYetLinked, Procs, Paths
<1>4. Writing'
  BY DEF IInv, TypeOK, NotYetLinked, Writing, Procs, Paths
<1>5. SettledIsWhole'
  <2>1. \A o \in Outs : dir'[o] = dir[o]
    BY DEF IInv, TypeOK, Writing, Paths
  <2>2. \A q \in published : pc'[q] \in {"renamed", "exited", "crashed"}
    BY WorkingIsNotSettled DEF IInv, TypeOK, SettledIsWhole, Settled, Procs
  <2> QED
    BY <1>2, <2>1, <2>2, SettledKept DEF IInv
<1>6. Reading'
  BY <1>2, ReadingKept DEF IInv
<1>7. Exits'
  <2>1. \A q \in Procs : exit'[q] # None <=> pc'[q] = "exited"
    BY DEF IInv, TypeOK, Exits
  <2>2. \A q \in Builds : pc'[q] = "renamed" => q \in published'
    BY DEF IInv, TypeOK, Exits, Procs
  <2>3. ASSUME NEW q \in Builds, exit'[q] # None
        PROVE  exit'[q] = 0 <=> q \in published'
    <3>1. CASE q = p
      <4>1. p \notin published
        BY <3>1, WorkingIsNotSettled DEF Settled
      <4>2. exit'[p] = 2
        BY DEF IInv, TypeOK, Procs
      <4> QED
        BY <3>1, <4>1, <4>2
    <3>2. CASE q # p
      BY <2>3, <3>2 DEF IInv, TypeOK, Exits, Procs
    <3> QED
      BY <3>1, <3>2
  <2> QED
    BY <2>1, <2>2, <2>3 DEF Exits
<1>8. Unwritten'
  BY DEF IInv, TypeOK, Unwritten, Procs
<1> QED
  BY <1>1, <1>2, <1>3, <1>4, <1>5, <1>6, <1>7, <1>8 DEF IInv

\* A build writes the next block of its data, into its own unpublished file.
LEMMA WriteChunkStep ==
  ASSUME IInv, NEW p \in Builds, WriteChunk(p)
  PROVE  IInv' /\ Undisturbed
<1> USE ConstantsAssumption DEF WriteChunk, ExitWith, Goto, fsVars, procVars, readVars
<1>1. TypeOK'
  BY DEF IInv, TypeOK, Procs, Paths, Inodes, Blocks, Writing
<1>2. Undisturbed
  <2>1. p \notin Settled
    BY WorkingIsNotSettled DEF IInv, TypeOK, Procs
  <2>2. fd[p] = p
    BY DEF IInv, Writing
  <2> QED
    BY <2>1, <2>2 DEF IInv, TypeOK, Undisturbed
<1>3. NotYetLinked'
  BY DEF IInv, TypeOK, NotYetLinked, Procs, Paths
<1>4. Writing'
  <2>0. fd[p] = p
    BY DEF IInv, Writing
  <2>1. ASSUME NEW q \in Builds, pc'[q] = "write", NEW i \in 1..off'[q]
        PROVE  content'[q][i] = data'[q]
    <3>1. CASE q = p /\ i = off[p] + 1
      BY <2>0, <3>1 DEF IInv, TypeOK, Inodes
    <3>2. CASE q = p /\ i # off[p] + 1
      <4>1. i \in 1..off[p] /\ i \in 1..Chunks
        BY <3>2 DEF IInv, TypeOK
      <4>2. content'[p][i] = content[p][i]
        BY <2>0, <3>2, <4>1 DEF IInv, TypeOK, Inodes
      <4> QED
        BY <3>2, <4>1, <4>2 DEF IInv, Writing
    <3>3. CASE q # p
      BY <2>0, <2>1, <3>3 DEF IInv, TypeOK, Writing, Inodes
    <3> QED
      BY <3>1, <3>2, <3>3
  <2> QED
    BY <2>1 DEF IInv, Writing
<1>5. SettledIsWhole'
  <2>1. \A o \in Outs : dir'[o] = dir[o]
    BY DEF IInv, TypeOK, Writing, Paths
  <2>2. \A q \in published : pc'[q] \in {"renamed", "exited", "crashed"}
    BY WorkingIsNotSettled DEF IInv, TypeOK, SettledIsWhole, Settled, Procs
  <2> QED
    BY <1>2, <2>1, <2>2, SettledKept DEF IInv
<1>6. Reading'
  BY <1>2, ReadingKept DEF IInv
<1>7. Exits'
  BY WorkingIsNotSettled DEF IInv, TypeOK, Exits, Settled, Procs
<1>8. Unwritten'
  BY DEF IInv, TypeOK, Unwritten, Procs
<1> QED
  BY <1>1, <1>2, <1>3, <1>4, <1>5, <1>6, <1>7, <1>8 DEF IInv

\* A failed write leaves the scratch file to the cleanup.
LEMMA WriteFailsStep ==
  ASSUME IInv, NEW p \in Builds, WriteFails(p)
  PROVE  IInv' /\ Undisturbed
<1> USE ConstantsAssumption DEF WriteFails, ExitWith, Goto, fsVars, procVars, readVars
<1>1. TypeOK'
  BY DEF IInv, TypeOK, Procs, Paths, Inodes, Blocks, Writing
<1>2. Undisturbed
  BY WorkingIsNotSettled DEF IInv, TypeOK, Settled, Writing, Undisturbed
<1>3. NotYetLinked'
  BY DEF IInv, TypeOK, NotYetLinked, Procs, Paths
<1>4. Writing'
  BY DEF IInv, TypeOK, NotYetLinked, Writing, Procs, Paths
<1>5. SettledIsWhole'
  <2>1. \A o \in Outs : dir'[o] = dir[o]
    BY DEF IInv, TypeOK, Writing, Paths
  <2>2. \A q \in published : pc'[q] \in {"renamed", "exited", "crashed"}
    BY WorkingIsNotSettled DEF IInv, TypeOK, SettledIsWhole, Settled, Procs
  <2> QED
    BY <1>2, <2>1, <2>2, SettledKept DEF IInv
<1>6. Reading'
  BY <1>2, ReadingKept DEF IInv
<1>7. Exits'
  BY WorkingIsNotSettled DEF IInv, TypeOK, Exits, Settled, Procs
<1>8. Unwritten'
  BY DEF IInv, TypeOK, Unwritten, Procs
<1> QED
  BY <1>1, <1>2, <1>3, <1>4, <1>5, <1>6, <1>7, <1>8 DEF IInv

\* A rename publishes a file that is complete, and that its build is done with.
LEMMA RenameStep ==
  ASSUME IInv, NEW p \in Builds, Rename(p)
  PROVE  IInv' /\ Undisturbed
<1> USE ConstantsAssumption DEF Rename, ExitWith, Goto, fsVars, procVars, readVars
<1>1. TypeOK'
  <2>1. tmp[p] \in Names /\ dir[tmp[p]] = p
    BY DEF IInv, Writing
  <2>2. dir' \in [Paths -> Inodes \cup {None}]
    BY <2>1 DEF IInv, TypeOK, Paths, Inodes
  <2> QED
    BY <2>2 DEF IInv, TypeOK, Procs
<1>2. Undisturbed
  BY WorkingIsNotSettled DEF IInv, TypeOK, Settled, Writing, Undisturbed
<1>3. NotYetLinked'
  <2>1. tmp[p] \in Names /\ dir[tmp[p]] = p
    BY DEF IInv, Writing
  <2>2. ASSUME NEW q \in Builds, pc'[q] \in {"read", "create"}, NEW x \in Paths
        PROVE  dir'[x] # q
    <3>1. q # p /\ pc[q] \in {"read", "create"}
      BY <2>2 DEF IInv, TypeOK, Procs
    <3>2. dir[x] # q
      BY <3>1 DEF IInv, NotYetLinked
    <3>3. dir'[x] \in {dir[x], p, None}
      BY <2>1 DEF IInv, TypeOK, Paths
    <3> QED
      BY <3>1, <3>2, <3>3 DEF Inodes
  <2> QED
    BY <2>2 DEF NotYetLinked
<1>4. Writing'
  BY DEF IInv, TypeOK, NotYetLinked, Writing, Procs, Paths
<1>5. SettledIsWhole'
  <2>1. tmp[p] \in Names /\ dir[tmp[p]] = p
    BY DEF IInv, Writing
  <2>2. content[p] \in [1..Chunks -> Blocks] /\ data[p] \in ValidData
    BY DEF IInv, TypeOK, Writing, Inodes
  <2>3. \A i \in 1..Chunks : content[p][i] = data[p]
    BY DEF IInv, Writing
  <2>4. IsArtifact(content[p])
    BY <2>2, <2>3, ArtifactPointwise
  <2>5. \A i \in Settled' : IsArtifact(content'[i])
    BY <2>4 DEF IInv, SettledIsWhole, Settled
  <2>6. \A q \in published' : pc'[q] \in {"renamed", "exited", "crashed"}
    BY DEF IInv, TypeOK, SettledIsWhole, Procs
  <2>7. \A o \in Outs : dir'[o] \in {dir[o], p}
    BY <2>1 DEF IInv, TypeOK, Paths
  <2>8. ASSUME NEW o \in Outs, dir'[o] # None PROVE dir'[o] \in Settled'
    <3>1. p \in Settled' /\ Settled \subseteq Settled'
      BY DEF Settled
    <3> QED
      BY <2>7, <2>8, <3>1 DEF IInv, SettledIsWhole
  <2> QED
    BY <2>5, <2>6, <2>8 DEF SettledIsWhole
<1>6. Reading'
  BY <1>2, ReadingKept DEF IInv
<1>7. Exits'
  BY WorkingIsNotSettled DEF IInv, TypeOK, Exits, Settled, Procs
<1>8. Unwritten'
  BY DEF IInv, TypeOK, Unwritten, Procs
<1> QED
  BY <1>1, <1>2, <1>3, <1>4, <1>5, <1>6, <1>7, <1>8 DEF IInv

\* A failed rename leaves the scratch file to the cleanup.
LEMMA RenameFailsStep ==
  ASSUME IInv, NEW p \in Builds, RenameFails(p)
  PROVE  IInv' /\ Undisturbed
<1> USE ConstantsAssumption DEF RenameFails, ExitWith, Goto, fsVars, procVars, readVars
<1>1. TypeOK'
  BY DEF IInv, TypeOK, Procs, Paths, Inodes, Blocks, Writing
<1>2. Undisturbed
  BY WorkingIsNotSettled DEF IInv, TypeOK, Settled, Writing, Undisturbed
<1>3. NotYetLinked'
  BY DEF IInv, TypeOK, NotYetLinked, Procs, Paths
<1>4. Writing'
  BY DEF IInv, TypeOK, NotYetLinked, Writing, Procs, Paths
<1>5. SettledIsWhole'
  <2>1. \A o \in Outs : dir'[o] = dir[o]
    BY DEF IInv, TypeOK, Writing, Paths
  <2>2. \A q \in published : pc'[q] \in {"renamed", "exited", "crashed"}
    BY WorkingIsNotSettled DEF IInv, TypeOK, SettledIsWhole, Settled, Procs
  <2> QED
    BY <1>2, <2>1, <2>2, SettledKept DEF IInv
<1>6. Reading'
  BY <1>2, ReadingKept DEF IInv
<1>7. Exits'
  BY WorkingIsNotSettled DEF IInv, TypeOK, Exits, Settled, Procs
<1>8. Unwritten'
  BY DEF IInv, TypeOK, Unwritten, Procs
<1> QED
  BY <1>1, <1>2, <1>3, <1>4, <1>5, <1>6, <1>7, <1>8 DEF IInv

\* The cleanup unlinks a file that was never published.
LEMMA RemoveScratchStep ==
  ASSUME IInv, NEW p \in Builds, RemoveScratch(p)
  PROVE  IInv' /\ Undisturbed
<1> USE ConstantsAssumption DEF RemoveScratch, ExitWith, Goto, fsVars, procVars, readVars
<1>1. TypeOK'
  BY DEF IInv, TypeOK, Procs, Paths, Inodes, Blocks, Writing
<1>2. Undisturbed
  BY WorkingIsNotSettled DEF IInv, TypeOK, Settled, Writing, Undisturbed
<1>3. NotYetLinked'
  <2>1. tmp[p] \in Names /\ dir[tmp[p]] = p
    BY DEF IInv, Writing
  <2>2. \A x \in Paths : dir'[x] \in {dir[x], None}
    BY <2>1 DEF IInv, TypeOK, Paths
  <2> QED
    BY <2>2 DEF IInv, TypeOK, NotYetLinked, Procs, Inodes
<1>4. Writing'
  BY DEF IInv, TypeOK, NotYetLinked, Writing, Procs, Paths
<1>5. SettledIsWhole'
  <2>1. \A o \in Outs : dir'[o] = dir[o]
    BY DEF IInv, TypeOK, Writing, Paths
  <2>2. \A q \in published : pc'[q] \in {"renamed", "exited", "crashed"}
    BY WorkingIsNotSettled DEF IInv, TypeOK, SettledIsWhole, Settled, Procs
  <2> QED
    BY <1>2, <2>1, <2>2, SettledKept DEF IInv
<1>6. Reading'
  BY <1>2, ReadingKept DEF IInv
<1>7. Exits'
  <2>1. \A q \in Procs : exit'[q] # None <=> pc'[q] = "exited"
    BY DEF IInv, TypeOK, Exits
  <2>2. \A q \in Builds : pc'[q] = "renamed" => q \in published'
    BY DEF IInv, TypeOK, Exits, Procs
  <2>3. ASSUME NEW q \in Builds, exit'[q] # None
        PROVE  exit'[q] = 0 <=> q \in published'
    <3>1. CASE q = p
      <4>1. p \notin published
        BY <3>1, WorkingIsNotSettled DEF Settled
      <4>2. exit'[p] = 2
        BY DEF IInv, TypeOK, Procs
      <4> QED
        BY <3>1, <4>1, <4>2
    <3>2. CASE q # p
      BY <2>3, <3>2 DEF IInv, TypeOK, Exits, Procs
    <3> QED
      BY <3>1, <3>2
  <2> QED
    BY <2>1, <2>2, <2>3 DEF Exits
<1>8. Unwritten'
  BY DEF IInv, TypeOK, Unwritten, Procs
<1> QED
  BY <1>1, <1>2, <1>3, <1>4, <1>5, <1>6, <1>7, <1>8 DEF IInv

\* A failed cleanup changes nothing but the exit code.
LEMMA RemoveFailsStep ==
  ASSUME IInv, NEW p \in Builds, RemoveFails(p)
  PROVE  IInv' /\ Undisturbed
<1> USE ConstantsAssumption DEF RemoveFails, ExitWith, Goto, fsVars, procVars, readVars
<1>1. TypeOK'
  BY DEF IInv, TypeOK, Procs, Paths, Inodes, Blocks, Writing
<1>2. Undisturbed
  BY WorkingIsNotSettled DEF IInv, TypeOK, Settled, Writing, Undisturbed
<1>3. NotYetLinked'
  BY DEF IInv, TypeOK, NotYetLinked, Procs, Paths
<1>4. Writing'
  BY DEF IInv, TypeOK, NotYetLinked, Writing, Procs, Paths
<1>5. SettledIsWhole'
  <2>1. \A o \in Outs : dir'[o] = dir[o]
    BY DEF IInv, TypeOK, Writing, Paths
  <2>2. \A q \in published : pc'[q] \in {"renamed", "exited", "crashed"}
    BY WorkingIsNotSettled DEF IInv, TypeOK, SettledIsWhole, Settled, Procs
  <2> QED
    BY <1>2, <2>1, <2>2, SettledKept DEF IInv
<1>6. Reading'
  BY <1>2, ReadingKept DEF IInv
<1>7. Exits'
  <2>1. \A q \in Procs : exit'[q] # None <=> pc'[q] = "exited"
    BY DEF IInv, TypeOK, Exits
  <2>2. \A q \in Builds : pc'[q] = "renamed" => q \in published'
    BY DEF IInv, TypeOK, Exits, Procs
  <2>3. ASSUME NEW q \in Builds, exit'[q] # None
        PROVE  exit'[q] = 0 <=> q \in published'
    <3>1. CASE q = p
      <4>1. p \notin published
        BY <3>1, WorkingIsNotSettled DEF Settled
      <4>2. exit'[p] = 2
        BY DEF IInv, TypeOK, Procs
      <4> QED
        BY <3>1, <4>1, <4>2
    <3>2. CASE q # p
      BY <2>3, <3>2 DEF IInv, TypeOK, Exits, Procs
    <3> QED
      BY <3>1, <3>2
  <2> QED
    BY <2>1, <2>2, <2>3 DEF Exits
<1>8. Unwritten'
  BY DEF IInv, TypeOK, Unwritten, Procs
<1> QED
  BY <1>1, <1>2, <1>3, <1>4, <1>5, <1>6, <1>7, <1>8 DEF IInv

\* A build reports success only after its rename.
LEMMA SucceedStep ==
  ASSUME IInv, NEW p \in Builds, Succeed(p)
  PROVE  IInv' /\ Undisturbed
<1> USE ConstantsAssumption DEF Succeed, ExitWith, Goto, fsVars, procVars, readVars
<1>1. TypeOK'
  BY DEF IInv, TypeOK, Procs, Paths, Inodes, Blocks, Writing
<1>2. Undisturbed
  BY WorkingIsNotSettled DEF IInv, TypeOK, Settled, Writing, Undisturbed
<1>3. NotYetLinked'
  BY DEF IInv, TypeOK, NotYetLinked, Procs, Paths
<1>4. Writing'
  BY DEF IInv, TypeOK, NotYetLinked, Writing, Procs, Paths
<1>5. SettledIsWhole'
  <2>1. \A o \in Outs : dir'[o] = dir[o]
    BY DEF IInv, TypeOK, Writing, Paths
  <2>2. \A q \in published : pc'[q] \in {"renamed", "exited", "crashed"}
    BY WorkingIsNotSettled DEF IInv, TypeOK, SettledIsWhole, Settled, Procs
  <2> QED
    BY <1>2, <2>1, <2>2, SettledKept DEF IInv
<1>6. Reading'
  BY <1>2, ReadingKept DEF IInv
<1>7. Exits'
  BY WorkingIsNotSettled DEF IInv, TypeOK, Exits, Settled, Procs
<1>8. Unwritten'
  BY DEF IInv, TypeOK, Unwritten, Procs
<1> QED
  BY <1>1, <1>2, <1>3, <1>4, <1>5, <1>6, <1>7, <1>8 DEF IInv

\* A kill leaves all files as they are.
LEMMA CrashStep ==
  ASSUME IInv, NEW p \in Procs, Crash(p)
  PROVE  IInv' /\ Undisturbed
<1> USE ConstantsAssumption DEF Crash, ExitWith, Goto, fsVars, procVars, readVars
<1>1. TypeOK'
  BY DEF IInv, TypeOK, Procs, Paths, Inodes, Blocks, Writing
<1>2. Undisturbed
  BY WorkingIsNotSettled DEF IInv, TypeOK, Settled, Writing, Undisturbed
<1>3. NotYetLinked'
  BY DEF IInv, TypeOK, NotYetLinked, Procs, Paths
<1>4. Writing'
  BY DEF IInv, TypeOK, NotYetLinked, Writing, Procs, Paths
<1>5. SettledIsWhole'
  <2>1. \A o \in Outs : dir'[o] = dir[o]
    BY DEF IInv, TypeOK, Writing, Paths
  <2>2. \A q \in published : pc'[q] \in {"renamed", "exited", "crashed"}
    BY WorkingIsNotSettled DEF IInv, TypeOK, SettledIsWhole, Settled, Procs
  <2> QED
    BY <1>2, <2>1, <2>2, SettledKept DEF IInv
<1>6. Reading'
  BY <1>2, ReadingKept DEF IInv
<1>7. Exits'
  BY WorkingIsNotSettled DEF IInv, TypeOK, Exits, Settled, Procs
<1>8. Unwritten'
  BY DEF IInv, TypeOK, Unwritten, Procs
<1> QED
  BY <1>1, <1>2, <1>3, <1>4, <1>5, <1>6, <1>7, <1>8 DEF IInv

\* A reader that opens an output has a published file.
LEMMA OpenOutStep ==
  ASSUME IInv, NEW r \in Readers, OpenOut(r)
  PROVE  IInv' /\ Undisturbed
<1> USE ConstantsAssumption DEF OpenOut, ExitWith, Goto, fsVars, procVars, readVars
<1>1. TypeOK'
  <2>1. rpc' \in [Readers -> {"open", "read", "failed", "loaded"}]
    <3>1. PICK stage \in {"read", "failed"} : rpc' = [rpc EXCEPT ![r] = stage]
      OBVIOUS
    <3> QED
      BY <3>1 DEF IInv, TypeOK
  <2>2. rfd' \in [Readers -> Inodes \cup {None}]
    BY DEF IInv, TypeOK, Paths
  <2> QED
    BY <2>1, <2>2 DEF IInv, TypeOK
<1>2. Undisturbed
  BY WorkingIsNotSettled DEF IInv, TypeOK, Settled, Writing, Undisturbed
<1>3. NotYetLinked'
  BY DEF IInv, TypeOK, NotYetLinked, Procs, Paths
<1>4. Writing'
  BY DEF IInv, TypeOK, NotYetLinked, Writing, Procs, Paths
<1>5. SettledIsWhole'
  <2>1. \A o \in Outs : dir'[o] = dir[o]
    BY DEF IInv, TypeOK, Writing, Paths
  <2>2. \A q \in published : pc'[q] \in {"renamed", "exited", "crashed"}
    BY WorkingIsNotSettled DEF IInv, TypeOK, SettledIsWhole, Settled, Procs
  <2> QED
    BY <1>2, <2>1, <2>2, SettledKept DEF IInv
<1>6. Reading'
  <2>0. /\ rpc'[r] \in {"read", "failed"}
        /\ \A q \in Readers \ {r} : rpc'[q] = rpc[q]
    <3>1. PICK stage \in {"read", "failed"} : rpc' = [rpc EXCEPT ![r] = stage]
      OBVIOUS
    <3> QED
      BY <3>1 DEF IInv, TypeOK
  <2>1. ASSUME NEW q \in Readers, rpc'[q] = "read"
        PROVE  rfd'[q] \in Settled /\ \A i \in 1..rpos[q] : rbuf[q][i] = content[rfd'[q]][i]
    <3>1. CASE q = r
      <4>1. PICK o \in Outs : dir[o] # None /\ rfd' = [rfd EXCEPT ![r] = dir[o]]
        BY <2>1, <3>1 DEF IInv, TypeOK
      <4>2. rfd'[r] \in Settled
        BY <4>1 DEF IInv, TypeOK, SettledIsWhole
      <4>3. rpos[r] = 0
        BY DEF IInv, Reading
      <4> QED
        BY <3>1, <4>2, <4>3
    <3>2. CASE q # r
      BY <2>1, <3>2 DEF IInv, TypeOK, Reading
    <3> QED
      BY <3>1, <3>2
  <2>2. ASSUME NEW q \in Readers, rpc'[q] = "loaded" PROVE IsArtifact(rbuf[q])
    BY <2>0, <2>2 DEF IInv, Reading
  <2>3. ASSUME NEW q \in Readers, rpc'[q] = "open" PROVE rpos[q] = 0
    BY <2>0, <2>3 DEF IInv, Reading
  <2> QED
    BY <2>1, <2>2, <2>3 DEF Reading, Settled
<1>7. Exits'
  BY WorkingIsNotSettled DEF IInv, TypeOK, Exits, Settled, Procs
<1>8. Unwritten'
  BY DEF IInv, TypeOK, Unwritten, Procs
<1> QED
  BY <1>1, <1>2, <1>3, <1>4, <1>5, <1>6, <1>7, <1>8 DEF IInv

\* A reader takes the next block of a file that nobody writes to.
LEMMA ReadBlockStep ==
  ASSUME IInv, NEW r \in Readers, ReadBlock(r)
  PROVE  IInv' /\ Undisturbed
<1> USE ConstantsAssumption DEF ReadBlock, ExitWith, Goto, fsVars, procVars, readVars
<1>1. TypeOK'
  <2>1. rfd[r] \in Settled
    BY DEF IInv, Reading
  <2>2. content[rfd[r]][rpos[r] + 1] \in Blocks
    BY <2>1 DEF IInv, TypeOK, Settled, Inodes
  <2>3. rbuf' \in [Readers -> [1..Chunks -> Blocks]]
    BY <2>2 DEF IInv, TypeOK
  <2>4. rpos' \in [Readers -> 0..Chunks]
    BY DEF IInv, TypeOK
  <2> QED
    BY <2>3, <2>4 DEF IInv, TypeOK
<1>2. Undisturbed
  BY WorkingIsNotSettled DEF IInv, TypeOK, Settled, Writing, Undisturbed
<1>3. NotYetLinked'
  BY DEF IInv, TypeOK, NotYetLinked, Procs, Paths
<1>4. Writing'
  BY DEF IInv, TypeOK, NotYetLinked, Writing, Procs, Paths
<1>5. SettledIsWhole'
  <2>1. \A o \in Outs : dir'[o] = dir[o]
    BY DEF IInv, TypeOK, Writing, Paths
  <2>2. \A q \in published : pc'[q] \in {"renamed", "exited", "crashed"}
    BY WorkingIsNotSettled DEF IInv, TypeOK, SettledIsWhole, Settled, Procs
  <2> QED
    BY <1>2, <2>1, <2>2, SettledKept DEF IInv
<1>6. Reading'
  <2>1. ASSUME NEW q \in Readers, rpc[q] = "read", NEW i \in 1..rpos'[q]
        PROVE  rbuf'[q][i] = content[rfd[q]][i]
    <3>1. CASE q = r /\ i = rpos[r] + 1
      BY <3>1 DEF IInv, TypeOK
    <3>2. CASE q = r /\ i # rpos[r] + 1
      <4>1. i \in 1..rpos[r] /\ i \in 1..Chunks
        BY <3>2 DEF IInv, TypeOK
      <4>2. rbuf'[r][i] = rbuf[r][i]
        BY <3>2, <4>1 DEF IInv, TypeOK
      <4> QED
        BY <2>1, <3>2, <4>1, <4>2 DEF IInv, Reading
    <3>3. CASE q # r
      BY <2>1, <3>3 DEF IInv, TypeOK, Reading
    <3> QED
      BY <3>1, <3>2, <3>3
  <2>2. ASSUME NEW q \in Readers, rpc[q] = "loaded" PROVE IsArtifact(rbuf'[q])
    BY <2>2 DEF IInv, TypeOK, Reading
  <2> QED
    BY <2>1, <2>2 DEF IInv, Reading, Settled
<1>7. Exits'
  BY WorkingIsNotSettled DEF IInv, TypeOK, Exits, Settled, Procs
<1>8. Unwritten'
  BY DEF IInv, TypeOK, Unwritten, Procs
<1> QED
  BY <1>1, <1>2, <1>3, <1>4, <1>5, <1>6, <1>7, <1>8 DEF IInv

\* A reader at the end has the whole file.
LEMMA ReadEofStep ==
  ASSUME IInv, NEW r \in Readers, ReadEof(r)
  PROVE  IInv' /\ Undisturbed
<1> USE ConstantsAssumption DEF ReadEof, ExitWith, Goto, fsVars, procVars, readVars
<1>1. TypeOK'
  BY DEF IInv, TypeOK, Procs, Paths, Inodes, Blocks, Writing
<1>2. Undisturbed
  BY WorkingIsNotSettled DEF IInv, TypeOK, Settled, Writing, Undisturbed
<1>3. NotYetLinked'
  BY DEF IInv, TypeOK, NotYetLinked, Procs, Paths
<1>4. Writing'
  BY DEF IInv, TypeOK, NotYetLinked, Writing, Procs, Paths
<1>5. SettledIsWhole'
  <2>1. \A o \in Outs : dir'[o] = dir[o]
    BY DEF IInv, TypeOK, Writing, Paths
  <2>2. \A q \in published : pc'[q] \in {"renamed", "exited", "crashed"}
    BY WorkingIsNotSettled DEF IInv, TypeOK, SettledIsWhole, Settled, Procs
  <2> QED
    BY <1>2, <2>1, <2>2, SettledKept DEF IInv
<1>6. Reading'
  <2>1. rbuf[r] \in [1..Chunks -> Blocks] /\ rfd[r] \in Settled
    BY DEF IInv, TypeOK, Reading
  <2>2. PICK d \in ValidData : content[rfd[r]] = [i \in 1..Chunks |-> d]
    BY <2>1 DEF IInv, SettledIsWhole, IsArtifact, Whole
  <2>3. \A i \in 1..Chunks : rbuf[r][i] = d
    BY <2>2 DEF IInv, Reading
  <2>4. IsArtifact(rbuf[r])
    BY <2>1, <2>3, ArtifactPointwise
  <2> QED
    BY <2>4 DEF IInv, TypeOK, Reading, Settled
<1>7. Exits'
  BY WorkingIsNotSettled DEF IInv, TypeOK, Exits, Settled, Procs
<1>8. Unwritten'
  BY DEF IInv, TypeOK, Unwritten, Procs
<1> QED
  BY <1>1, <1>2, <1>3, <1>4, <1>5, <1>6, <1>7, <1>8 DEF IInv

------------------------------------------------------------------------------
(* The theorems *)

\* Every step preserves the invariant and disturbs no settled file.
LEMMA NextIInv == IInv /\ [Next]_vars => IInv' /\ Undisturbed
<1> SUFFICES ASSUME IInv, [Next]_vars PROVE IInv' /\ Undisturbed
  OBVIOUS
<1>1. ASSUME NEW p \in Builds, BuildStep(p) PROVE IInv' /\ Undisturbed
  <2> p \in Procs
    BY DEF Procs
  <2> QED
    BY <1>1, ReadFailsStep, RejectsStep, BuildValidatesStep, CreateScratchStep,
       NameTakenStep, AttemptsExhaustedStep, CreateFailsStep, WriteChunkStep,
       WriteFailsStep, RenameStep, RenameFailsStep, RemoveScratchStep,
       RemoveFailsStep, SucceedStep DEF BuildStep
<1>2. ASSUME NEW p \in Checks, CheckStep(p) PROVE IInv' /\ Undisturbed
  <2> p \in Procs
    BY DEF Procs
  <2> QED
    BY <1>2, ReadFailsStep, RejectsStep, CheckPassesStep DEF CheckStep
<1>3. ASSUME NEW p \in Procs, Crash(p) PROVE IInv' /\ Undisturbed
  BY <1>3, CrashStep
<1>4. ASSUME NEW r \in Readers, ReaderStep(r) PROVE IInv' /\ Undisturbed
  BY <1>4, OpenOutStep, ReadBlockStep, ReadEofStep DEF ReaderStep
<1>5. CASE EditSource
  BY <1>5 DEF EditSource, IInv, TypeOK, NotYetLinked, Unwritten, Writing,
     SettledIsWhole, Settled, Reading, Exits, Undisturbed, fsVars, procVars, readVars
<1>6. CASE UNCHANGED vars
  BY <1>6 DEF vars, IInv, TypeOK, NotYetLinked, Unwritten, Writing,
     SettledIsWhole, Settled, Reading, Exits, Undisturbed, fsVars, procVars, readVars
<1> QED
  BY <1>1, <1>2, <1>3, <1>4, <1>5, <1>6 DEF Next

\* The invariant holds in every reachable state.
THEOREM Invariance == Spec => []IInv
BY InitIInv, NextIInv, PTL DEF Spec

\* Every variable keeps its type, for any number of builds, readers and names.
THEOREM TypeCorrect == Spec => []TypeOK
<1>1. IInv => TypeOK
  BY DEF IInv
<1> QED
  BY <1>1, Invariance, PTL

\* A working build's scratch name always leads to its own file, whatever the
\* other builds do and however their names collide (create_new, main.rs:99).
THEOREM ScratchOwnership == Spec => []ScratchIsOwned
<1>1. IInv => ScratchIsOwned
  BY DEF IInv, Writing, ScratchIsOwned
<1> QED
  BY <1>1, Invariance, PTL

\* A serve process loads one whole artifact, whatever is published meanwhile.
THEOREM LoadWholeness == Spec => []LoadsWholeArtifact
<1>1. IInv => LoadsWholeArtifact
  BY DEF IInv, Reading, LoadsWholeArtifact
<1> QED
  BY <1>1, Invariance, PTL

\* The exit code of a build says whether it published.
THEOREM ExitCodeTruth == Spec => []ExitCodeIsTruthful
<1>1. IInv => ExitCodeIsTruthful
  BY DEF IInv, Exits, ExitCodeIsTruthful
<1> QED
  BY <1>1, Invariance, PTL

------------------------------------------------------------------------------
(* Action properties *)

\* Only three actions touch the directory.
LEMMA DirectoryWriters ==
  ASSUME [Next]_vars, dir' # dir
  PROVE  \E p \in Builds : CreateScratch(p) \/ Rename(p) \/ RemoveScratch(p)
BY DEF Next, BuildStep, CheckStep, ReaderStep, vars, fsVars, procVars, readVars,
   ReadFails, Rejects, BuildValidates, CheckPasses, NameTaken, AttemptsExhausted,
   CreateFails, WriteChunk, WriteFails, RenameFails, RemoveFails, Succeed, Crash,
   OpenOut, ReadBlock, ReadEof, EditSource

\* Only two actions touch the content of a file.
LEMMA ContentWriters ==
  ASSUME [Next]_vars, content' # content
  PROVE  \E p \in Builds : CreateScratch(p) \/ WriteChunk(p)
BY DEF Next, BuildStep, CheckStep, ReaderStep, vars, fsVars, procVars, readVars,
   ReadFails, Rejects, BuildValidates, CheckPasses, NameTaken, AttemptsExhausted,
   CreateFails, WriteFails, Rename, RenameFails, RemoveScratch, RemoveFails,
   Succeed, Crash, OpenOut, ReadBlock, ReadEof, EditSource

\* The data of a build changes only when it validates.
LEMMA DataWriters ==
  ASSUME [Next]_vars, data' # data
  PROVE  (\E p \in Builds : BuildValidates(p)) \/ (\E p \in Checks : CheckPasses(p))
BY DEF Next, BuildStep, CheckStep, ReaderStep, vars, fsVars, procVars, readVars,
   ReadFails, Rejects, CreateScratch, NameTaken, AttemptsExhausted, CreateFails, WriteChunk,
   WriteFails, Rename, RenameFails, RemoveScratch, RemoveFails, Succeed, Crash,
   OpenOut, ReadBlock, ReadEof, EditSource

\* A build publishes by its rename only.
LEMMA Publishers ==
  ASSUME [Next]_vars, published' # published
  PROVE  \E p \in Builds : Rename(p)
BY DEF Next, BuildStep, CheckStep, ReaderStep, vars, fsVars, procVars, readVars,
   ReadFails, Rejects, BuildValidates, CheckPasses, CreateScratch, NameTaken,
   AttemptsExhausted, CreateFails, WriteChunk, WriteFails, RenameFails, RemoveScratch,
   RemoveFails, Succeed, Crash, OpenOut, ReadBlock, ReadEof, EditSource

\* A published file holds what its build validated.
HoldsItsData == \A p \in published : Whole(content[p], data[p])

LEMMA HoldsItsDataStep ==
  ASSUME IInv, HoldsItsData, [Next]_vars
  PROVE  HoldsItsData'
<1> USE ConstantsAssumption
<1>1. IInv' /\ Undisturbed
  BY NextIInv
<1>2. ASSUME NEW p \in published PROVE Whole(content'[p], data'[p])
  <2>1. content'[p] = content[p]
    BY <1>1 DEF Undisturbed, Settled
  <2>2. pc[p] # "read" /\ p \in Builds
    BY DEF IInv, SettledIsWhole, TypeOK
  <2>3. data'[p] = data[p]
    <3>1. CASE data' # data
      <4>1. PICK q \in Procs : pc[q] = "read" /\ data' = [data EXCEPT ![q] = source]
        BY <3>1, DataWriters DEF BuildValidates, CheckPasses, ExitWith, Goto, Procs
      <4> QED
        BY <2>2, <4>1 DEF IInv, TypeOK, Procs
    <3> QED
      BY <3>1
  <2> QED
    BY <2>1, <2>3 DEF HoldsItsData
<1>3. ASSUME NEW p \in published', p \notin published PROVE Whole(content'[p], data'[p])
  <2>1. PICK q \in Builds : Rename(q)
    BY <1>3, Publishers
  <2>2. /\ p \in Builds /\ pc[p] = "write" /\ off[p] = Chunks
        /\ content' = content /\ data' = data
    BY <1>3, <2>1 DEF Rename, Goto
  <2>3. \A j \in 1..Chunks : content[p][j] = data[p]
    BY <2>2 DEF IInv, Writing
  <2>4. content[p] \in [1..Chunks -> Blocks]
    BY <2>2 DEF IInv, TypeOK, Inodes
  <2> QED
    BY <2>2, <2>3, <2>4 DEF Whole
<1> QED
  BY <1>2, <1>3 DEF HoldsItsData

\* No output path ever leads to a half-written or invalid artifact, nor to
\* another dataset than its build validated (main.rs:124, main.rs:34).
THEOREM OutputWholeness == Spec => []OutputIsWhole
<1>1. Init => HoldsItsData
  BY DEF Init, HoldsItsData
<1>2. IInv /\ HoldsItsData /\ [Next]_vars => HoldsItsData'
  BY HoldsItsDataStep
<1>3. IInv /\ HoldsItsData => OutputIsWhole
  <2> SUFFICES ASSUME IInv, HoldsItsData, NEW o \in Outs, dir[o] # None
               PROVE  /\ IsArtifact(content[dir[o]])
                      /\ dir[o] \in Builds => Whole(content[dir[o]], data[dir[o]])
    BY DEF OutputIsWhole
  <2>1. dir[o] \in Settled /\ \A i \in Settled : IsArtifact(content[i])
    BY DEF IInv, SettledIsWhole
  <2>2. dir[o] \in Builds => dir[o] \in published
    BY <2>1, ConstantsAssumption DEF Settled
  <2> QED
    BY <2>1, <2>2 DEF HoldsItsData
<1> QED
  BY <1>1, <1>2, <1>3, Invariance, PTL DEF Spec

\* A file that no running build owns is left alone, and so is its directory entry.
LEMMA BystanderStep ==
  ASSUME IInv, [Next]_vars, NEW i \in Abandoned
  PROVE  /\ content'[i] = content[i]
         /\ \A n \in Names : dir[n] = i => dir'[n] = i
<1> USE ConstantsAssumption
<1>0. /\ i \in Inodes /\ None # i
      /\ \A p \in Builds : pc[p] \in {"create", "write", "cleanup"} => p # i
  BY DEF Abandoned, Inodes
<1>1. content'[i] = content[i]
  <2>1. CASE content' # content
    <3>1. PICK p \in Builds : CreateScratch(p) \/ WriteChunk(p)
      BY <2>1, ContentWriters
    <3>2. p # i
      BY <1>0, <3>1 DEF CreateScratch, WriteChunk, Goto
    <3>3. CASE CreateScratch(p)
      BY <1>0, <3>2, <3>3 DEF CreateScratch, IInv, TypeOK
    <3>4. CASE WriteChunk(p)
      BY <1>0, <3>2, <3>4 DEF WriteChunk, IInv, TypeOK, Writing
    <3> QED
      BY <3>1, <3>3, <3>4
  <2> QED
    BY <2>1
<1>2. ASSUME NEW n \in Names, dir[n] = i PROVE dir'[n] = i
  <2>1. CASE dir' # dir
    <3>1. PICK p \in Builds : CreateScratch(p) \/ Rename(p) \/ RemoveScratch(p)
      BY <2>1, DirectoryWriters
    <3>2. p # i
      BY <1>0, <3>1 DEF CreateScratch, Rename, RemoveScratch, ExitWith, Goto
    <3>3. CASE CreateScratch(p)
      BY <1>0, <1>2, <3>3 DEF CreateScratch, IInv, TypeOK, Paths
    <3>4. CASE Rename(p) \/ RemoveScratch(p)
      <4>1. dir[tmp[p]] = p /\ tmp[p] # n
        BY <1>2, <3>2, <3>4 DEF Rename, RemoveScratch, ExitWith, Goto, IInv, Writing
      <4>2. OutOf[p] # n
        OBVIOUS
      <4> QED
        BY <1>2, <3>4, <4>1, <4>2 DEF Rename, RemoveScratch, IInv, TypeOK, Paths
    <3> QED
      BY <3>1, <3>3, <3>4
  <2> QED
    BY <1>2, <2>1
<1> QED
  BY <1>1, <1>2

\* No build ever damages a file that is not its own (main.rs:71-79).
THEOREM BystanderSafety == Spec => BystanderUntouched
<1>1. IInv /\ [Next]_vars =>
        [\A i \in Abandoned : /\ content'[i] = content[i]
                              /\ \A n \in Names : dir[n] = i => dir'[n] = i]_vars
  BY BystanderStep
<1> QED
  BY <1>1, Invariance, PTL DEF Spec, BystanderUntouched

\* Once published, a file is never written to again.
THEOREM Immutability == Spec => PublishedIsImmutable
<1>1. IInv /\ [Next]_vars =>
        [\A o \in Outs : dir[o] # None => content'[dir[o]] = content[dir[o]]]_vars
  BY NextIInv DEF IInv, SettledIsWhole, Undisturbed
<1> QED
  BY <1>1, Invariance, PTL DEF Spec, PublishedIsImmutable

------------------------------------------------------------------------------
(* Scratch files are cleaned up *)

\* A build that is linked under a scratch name is at work, or was killed, and
\* while it works the name is the one it remembers to rename or to remove.
LinkedWhileWorking ==
  \A p \in Builds, n \in Names : dir[n] = p =>
    /\ pc[p] \in {"write", "cleanup", "crashed"}
    /\ pc[p] \in {"write", "cleanup"} => n = tmp[p]

\* Where a build may go without touching the directory or its scratch name.
LEMMA QuietProgress ==
  ASSUME IInv, [Next]_vars, ~RemoveMayFail, dir' = dir, NEW p \in Builds
  PROVE  \/ pc'[p] = pc[p]
         \/ pc'[p] = "crashed"
         \/ pc[p] \in {"read", "create", "renamed"}
         \/ pc[p] = "write" /\ pc'[p] = "cleanup"
         \/ CreateScratch(p) \/ Rename(p) \/ RemoveScratch(p)
<1> USE ConstantsAssumption DEF IInv, TypeOK, Procs, ExitWith, Goto
<1>1. ASSUME NEW q \in Builds, BuildStep(q), q # p PROVE pc'[p] = pc[p]
  BY <1>1 DEF BuildStep, ReadFails, Rejects, BuildValidates, CreateScratch,
     NameTaken, AttemptsExhausted, CreateFails, WriteChunk, WriteFails, Rename,
     RenameFails, RemoveScratch, RemoveFails, Succeed
<1>2. ASSUME NEW q \in Checks, CheckStep(q) PROVE pc'[p] = pc[p]
  BY <1>2 DEF CheckStep, ReadFails, Rejects, CheckPasses
<1>3. CASE BuildStep(p)
  <2>1. CASE ReadFails(p) \/ Rejects(p) \/ BuildValidates(p) \/ NameTaken(p)
               \/ AttemptsExhausted(p) \/ CreateFails(p) \/ Succeed(p)
    BY <2>1 DEF ReadFails, Rejects, BuildValidates, NameTaken,
       AttemptsExhausted, CreateFails, Succeed
  <2>2. CASE WriteChunk(p) \/ WriteFails(p) \/ RenameFails(p) \/ RemoveFails(p)
    BY <2>2 DEF WriteChunk, WriteFails, RenameFails, RemoveFails
  <2> QED
    BY <1>3, <2>1, <2>2 DEF BuildStep
<1>4. ASSUME NEW q \in Procs, Crash(q) PROVE pc'[p] \in {pc[p], "crashed"}
  BY <1>4 DEF Crash
<1>5. CASE (\E r \in Readers : ReaderStep(r)) \/ EditSource \/ UNCHANGED vars
  BY <1>5 DEF ReaderStep, OpenOut, ReadBlock, ReadEof, EditSource, vars, procVars
<1> QED
  BY <1>1, <1>2, <1>3, <1>4, <1>5 DEF Next

\* Scratch names: a build links one, and unlinks it before it ends by itself.
LEMMA LinkedWhileWorkingStep ==
  ASSUME IInv, LinkedWhileWorking, [Next]_vars, ~RemoveMayFail
  PROVE  LinkedWhileWorking'
<1> USE ConstantsAssumption
<1>1. ASSUME NEW p \in Builds, CreateScratch(p) PROVE LinkedWhileWorking'
  <2>1. PICK n \in Names : dir[n] = None /\ dir' = [dir EXCEPT ![n] = p]
                           /\ tmp' = [tmp EXCEPT ![p] = n]
    BY <1>1 DEF CreateScratch
  <2>2. pc[p] = "create" /\ pc' = [pc EXCEPT ![p] = "write"]
    BY <1>1 DEF CreateScratch, Goto
  <2>3. \A x \in Names : dir[x] # p
    BY <2>2 DEF IInv, NotYetLinked, Paths
  <2> QED
    BY <2>1, <2>2, <2>3 DEF IInv, TypeOK, LinkedWhileWorking, Procs, Paths
<1>2. ASSUME NEW p \in Builds, Rename(p) \/ RemoveScratch(p) PROVE LinkedWhileWorking'
  <2>1. pc[p] \in {"write", "cleanup"} /\ tmp[p] \in Names /\ dir[tmp[p]] = p
    BY <1>2 DEF Rename, RemoveScratch, ExitWith, Goto, IInv, Writing
  <2>2. dir'[tmp[p]] = None /\ None \notin Builds
    BY <1>2, <2>1 DEF Rename, RemoveScratch, IInv, TypeOK, Paths, Inodes
  <2>3. \A x \in Names : x # tmp[p] => dir'[x] = dir[x]
    BY <1>2 DEF Rename, RemoveScratch, IInv, TypeOK, Paths
  <2>4. \A q \in Builds : q # p => pc'[q] = pc[q]
    BY <1>2 DEF Rename, RemoveScratch, ExitWith, Goto, IInv, TypeOK, Procs
  <2>5. tmp' = tmp
    BY <1>2 DEF Rename, RemoveScratch
  <2> QED
    BY <2>1, <2>2, <2>3, <2>4, <2>5 DEF LinkedWhileWorking
<1>3. ASSUME \A p \in Builds : ~ (CreateScratch(p) \/ Rename(p) \/ RemoveScratch(p))
      PROVE  LinkedWhileWorking'
  <2>1. dir' = dir
    BY <1>3, DirectoryWriters
  <2>2. tmp' = tmp
    BY <1>3 DEF Next, BuildStep, CheckStep, ReaderStep, vars, procVars, ReadFails,
       Rejects, BuildValidates, CheckPasses, NameTaken, AttemptsExhausted,
       CreateFails, WriteChunk, WriteFails, RenameFails, RemoveFails, Succeed,
       Crash, OpenOut, ReadBlock, ReadEof, EditSource
  <2> SUFFICES ASSUME NEW p \in Builds, NEW n \in Names, dir'[n] = p
               PROVE  /\ pc'[p] \in {"write", "cleanup", "crashed"}
                      /\ pc'[p] \in {"write", "cleanup"} => n = tmp'[p]
    BY DEF LinkedWhileWorking
  <2>3. /\ pc[p] \in {"write", "cleanup", "crashed"}
        /\ pc[p] \in {"write", "cleanup"} => n = tmp[p]
    BY <2>1 DEF LinkedWhileWorking
  <2> QED
    BY <1>3, <2>1, <2>2, <2>3, QuietProgress
<1> QED
  BY <1>1, <1>2, <1>3

\* If remove_file works, a build that ends by itself, with success or an error,
\* leaves no scratch file behind (main.rs:141 and 146).
THEOREM Cleanup ==
  ASSUME ~RemoveMayFail
  PROVE  Spec => []NoScratchLeftBehind
<1>1. Init => LinkedWhileWorking
  BY ConstantsAssumption DEF Init, LinkedWhileWorking, Inodes, Paths
<1>2. IInv /\ LinkedWhileWorking /\ [Next]_vars => LinkedWhileWorking'
  BY LinkedWhileWorkingStep
<1>3. LinkedWhileWorking => NoScratchLeftBehind
  BY DEF LinkedWhileWorking, NoScratchLeftBehind
<1> QED
  BY <1>1, <1>2, <1>3, Invariance, PTL DEF Spec

------------------------------------------------------------------------------
(* ScratchPublish implements AtomicPublish *)

\* A whole artifact holds one dataset and no other.
LEMMA DatasetIsUnique ==
  ASSUME NEW blocks, NEW d \in ValidData, Whole(blocks, d)
  PROVE  DatasetOf(blocks) = d
<1>1. \A e \in ValidData : Whole(blocks, e) => e = d
  <2> TAKE e \in ValidData
  <2>1. 1 \in 1..Chunks
    BY ConstantsAssumption
  <2> QED
    BY <2>1 DEF Whole
<1> QED
  BY <1>1 DEF DatasetOf

\* Initially every output is missing or holds a dataset.
LEMMA InitRefines == Init => Abs!AbsInit
<1> SUFFICES ASSUME Init PROVE Abs!AbsInit
  OBVIOUS
<1>1. IInv
  BY InitIInv
<1>2. ASSUME NEW o \in Outs PROVE Artifact(o) \in ValidData \cup {None}
  <2>1. CASE dir[o] = None
    BY <2>1 DEF Artifact
  <2>2. CASE dir[o] # None
    <3>1. PICK d \in ValidData : Whole(content[dir[o]], d)
      BY <1>1, <2>2 DEF IInv, SettledIsWhole, IsArtifact
    <3> QED
      BY <2>2, <3>1, DatasetIsUnique DEF Artifact
  <2> QED
    BY <2>1, <2>2
<1> QED
  BY <1>2 DEF Init, Abs!AbsInit, Procs, Abs!Procs

\* Steps that publish nothing leave the abstract outputs as they are.
LEMMA ArtifactsKept ==
  ASSUME IInv, [Next]_vars, published' = published
  PROVE  \A o \in Outs : Artifact(o)' = Artifact(o)
<1> USE ConstantsAssumption
<1>1. ASSUME NEW o \in Outs PROVE dir'[o] = dir[o]
  <2>1. CASE dir' # dir
    <3>1. PICK p \in Builds : CreateScratch(p) \/ Rename(p) \/ RemoveScratch(p)
      BY <2>1, DirectoryWriters
    <3>2. CASE CreateScratch(p)
      BY <3>2 DEF CreateScratch, IInv, TypeOK, Paths
    <3>3. CASE Rename(p)
      <4>1. p \in published' /\ p \notin published
        BY <3>3, WorkingIsNotSettled DEF Rename, Goto, Settled
      <4> QED
        BY <4>1
    <3>4. CASE RemoveScratch(p)
      BY <3>4 DEF RemoveScratch, ExitWith, Goto, IInv, TypeOK, Writing, Paths
    <3> QED
      BY <3>1, <3>2, <3>3, <3>4
  <2> QED
    BY <2>1
<1>2. ASSUME NEW o \in Outs, dir[o] # None PROVE content'[dir[o]] = content[dir[o]]
  BY <1>2, NextIInv DEF IInv, SettledIsWhole, Undisturbed
<1> QED
  BY <1>1, <1>2 DEF Artifact

\* A rename is the abstract publication.
LEMMA RenameRefines ==
  ASSUME IInv, NEW p \in Builds, Rename(p)
  PROVE  Abs!AbsPublish(p)
<1> USE ConstantsAssumption
<1>1. p \notin published /\ exit[p] = None
  BY WorkingIsNotSettled DEF Rename, Goto, IInv, Exits, Settled, Procs
<1>2. tmp[p] \in Names /\ dir[tmp[p]] = p /\ data[p] \in ValidData
  BY DEF Rename, Goto, IInv, Writing
<1>3. Whole(content[p], data[p])
  <2>1. content[p] \in [1..Chunks -> Blocks]
    BY DEF IInv, TypeOK, Inodes
  <2>2. \A i \in 1..Chunks : content[p][i] = data[p]
    BY DEF Rename, Goto, IInv, Writing
  <2> QED
    BY <2>1, <2>2 DEF Whole
<1>4. content' = content
  BY DEF Rename
<1>5. ASSUME NEW o \in Outs
      PROVE  Artifact(o)' = IF o = OutOf[p] THEN data[p] ELSE Artifact(o)
  <2>1. CASE o = OutOf[p]
    <3>1. dir'[o] = p /\ p # None
      BY <1>2, <2>1 DEF Rename, IInv, TypeOK, Paths, Inodes
    <3>2. DatasetOf(content[p]) = data[p]
      BY <1>2, <1>3, DatasetIsUnique
    <3> QED
      BY <1>4, <2>1, <3>1, <3>2 DEF Artifact
  <2>2. CASE o # OutOf[p]
    <3>1. dir'[o] = dir[o]
      BY <1>2, <2>2 DEF Rename, IInv, TypeOK, Paths
    <3> QED
      BY <1>4, <2>2, <3>1 DEF Artifact
  <2> QED
    BY <2>1, <2>2
<1>6. [o \in Outs |-> Artifact(o)]'
        = [[o \in Outs |-> Artifact(o)] EXCEPT ![OutOf[p]] = data[p]]
  BY <1>5
<1> QED
  BY <1>1, <1>2, <1>6 DEF Abs!AbsPublish, Rename

\* A process that exits does so abstractly, with a truthful code.
LEMMA ExitRefines ==
  ASSUME IInv, [Next]_vars, published' = published, exit' # exit
  PROVE  \E p \in Procs : Abs!AbsExit(p)
<1> USE ConstantsAssumption
<1>1. PICK p \in Procs, code \in {0, 1, 2} :
        /\ pc[p] # "exited"
        /\ exit' = [exit EXCEPT ![p] = code]
        /\ pc' = [pc EXCEPT ![p] = "exited"]
  BY DEF Next, BuildStep, CheckStep, ReaderStep, vars, procVars, Procs, ExitWith, Goto,
     ReadFails, Rejects, BuildValidates, CheckPasses, CreateScratch, NameTaken,
     AttemptsExhausted, CreateFails, WriteChunk, WriteFails, Rename, RenameFails,
     RemoveScratch, RemoveFails, Succeed, Crash, OpenOut, ReadBlock, ReadEof, EditSource
<1>2. exit[p] = None /\ exit'[p] = code
  BY <1>1 DEF IInv, TypeOK, Exits
<1>3. p \in Builds => (code = 0 <=> p \in published)
  <2>1. IInv'
    BY NextIInv
  <2>2. code # None
    OBVIOUS
  <2> QED
    BY <1>2, <2>1, <2>2 DEF IInv, Exits
<1>4. [o \in Outs |-> Artifact(o)]' = [o \in Outs |-> Artifact(o)]
  BY ArtifactsKept
<1> QED
  BY <1>1, <1>2, <1>3, <1>4 DEF Abs!AbsExit

\* The scratch-and-rename protocol implements the atomic register, for any
\* number of builds, outputs, scratch names, readers and blocks.
THEOREM Refinement == Spec => AbsSpec
<1>1. IInv /\ [Next]_vars => [Abs!AbsNext]_(Abs!absVars)
  <2> SUFFICES ASSUME IInv, [Next]_vars PROVE [Abs!AbsNext]_(Abs!absVars)
    OBVIOUS
  <2>1. CASE published' # published
    <3>1. PICK p \in Builds : Rename(p)
      BY <2>1 DEF Next, BuildStep, CheckStep, ReaderStep, vars, procVars,
         ReadFails, Rejects, BuildValidates, CheckPasses, CreateScratch, NameTaken,
         AttemptsExhausted, CreateFails, WriteChunk, WriteFails, RenameFails,
         RemoveScratch, RemoveFails, Succeed, Crash, OpenOut, ReadBlock, ReadEof, EditSource
    <3> QED
      BY <3>1, RenameRefines DEF Abs!AbsNext
  <2>2. CASE published' = published /\ exit' # exit
    BY <2>2, ExitRefines DEF Abs!AbsNext, Procs, Abs!Procs
  <2>3. CASE published' = published /\ exit' = exit
    BY <2>3, ArtifactsKept DEF Abs!absVars
  <2> QED
    BY <2>1, <2>2, <2>3
<1> QED
  BY <1>1, InitRefines, Invariance, PTL DEF Spec, AbsSpec, Abs!AbsSpec

------------------------------------------------------------------------------
(* PowerLoss: what the directory and the files may be once the power has    *)
(* failed between any two writes to the disk.                               *)

\* The first n blocks of dataset d.
Cut(d, n) == [i \in 1..Chunks |-> IF i <= n THEN d ELSE Hole]

\* Types of what survives, and of what a build at work knows.
PowerTypeOK ==
  /\ dir \in [Paths -> Inodes \cup {None}]
  /\ content \in [Inodes -> [1..Chunks -> Blocks]]
  /\ pc \in [Procs -> {"read", "create", "write", "renamed", "cleanup", "exited", "crashed"}]
  /\ data \in [Procs -> Data \cup {None}]
  /\ tmp \in [Builds -> Names \cup {None}]
  /\ fd \in [Builds -> Inodes \cup {None}]
  /\ off \in [Builds -> 0..Chunks]
  /\ published \subseteq Builds
  /\ disk \in [dir : [Paths -> Inodes \cup {None}],
               content : [Inodes -> [1..Chunks -> Blocks]]]
  /\ ordered \in BOOLEAN
  /\ lost \in BOOLEAN

\* A build that has not created its scratch file has none on disk either.
NotYetOnDisk ==
  \A p \in Builds : pc[p] \in {"read", "create"} => \A x \in Paths : disk.dir[x] # p

\* A build at work has valid data and owns its scratch file.
Working ==
  \A p \in Builds :
    /\ pc[p] \in {"create", "write"} => data[p] \in ValidData
    /\ pc[p] \in {"write", "cleanup"} =>
         fd[p] = p /\ tmp[p] \in Names /\ dir[tmp[p]] = p

\* A build's file is cut after n blocks of its data, and on disk after m <= n.
FileIsCut(p) ==
  \E n \in 0..Chunks, m \in 0..Chunks :
    /\ m <= n
    /\ content[p] = Cut(data[p], n)
    /\ disk.content[p] = Cut(data[p], m)
    /\ n > 0 => data[p] \in ValidData
    /\ pc[p] = "write" => n = off[p]
    /\ pc[p] \in {"read", "create"} => n = 0

Files ==
  /\ \A p \in Builds : FileIsCut(p)
  /\ \A i \in {Previous, Bystander} : disk.content[i] = content[i]
  /\ IsArtifact(content[Previous])

\* Outputs lead to files whose builds are done with them; on disk they exist
\* no earlier than in memory.
Linked ==
  /\ \A p \in published : pc[p] \in {"renamed", "exited", "crashed"}
  /\ \A o \in Outs : dir[o] # None => dir[o] \in Settled
  /\ \A o \in Outs : disk.dir[o] # None => disk.dir[o] \in Settled /\ dir[o] # None

\* Until the power fails outputs are whole; on an ordered file system they are
\* whole on disk as well, and so they are after the failure.
WholeUnlessLost ==
  /\ ~lost \/ ordered => \A o \in Outs : dir[o] # None => IsArtifact(content[dir[o]])
  /\ ordered => \A o \in Outs : disk.dir[o] # None => IsArtifact(disk.content[disk.dir[o]])

PowerIInv ==
  /\ PowerTypeOK /\ NotYetLinked /\ NotYetOnDisk /\ Unwritten /\ Working
  /\ Files /\ Linked /\ WholeUnlessLost
------------------------------------------------------------------------------
(* Lemmas about cut files *)

\* A cut file is an artifact just when nothing is cut off and its data is valid.
LEMMA CutIsArtifact ==
  ASSUME NEW d, NEW n \in 0..Chunks
  PROVE  IsArtifact(Cut(d, n)) <=> n = Chunks /\ d \in ValidData
<1> USE ConstantsAssumption
<1>1. ASSUME n = Chunks, d \in ValidData PROVE IsArtifact(Cut(d, n))
  BY <1>1 DEF IsArtifact, Whole, Cut
<1>2. ASSUME NEW e \in ValidData, Whole(Cut(d, n), e)
      PROVE  n = Chunks /\ d \in ValidData
  <2>1. Chunks \in 1..Chunks
    OBVIOUS
  <2>2. Cut(d, n)[Chunks] = e
    BY <1>2, <2>1 DEF Whole
  <2>3. (IF Chunks <= n THEN d ELSE Hole) = e
    BY <2>1, <2>2 DEF Cut
  <2>4. e # Hole
    OBVIOUS
  <2> QED
    BY <2>3, <2>4
<1> QED
  BY <1>1, <1>2 DEF IsArtifact

\* A file of which nothing has been written is empty, whoever's it is.
LEMMA CutAtZero == ASSUME NEW d PROVE Cut(d, 0) = Empty
BY DEF Cut, Empty

\* The next block of a file makes its cut one longer.
LEMMA CutExtended ==
  ASSUME NEW d, NEW n \in 0..Chunks, n < Chunks
  PROVE  /\ n + 1 \in 1..Chunks
         /\ [Cut(d, n) EXCEPT ![n + 1] = d] = Cut(d, n + 1)
<1> USE ConstantsAssumption
<1>1. n + 1 \in 1..Chunks
  OBVIOUS
<1>2. \A i \in 1..Chunks :
        [Cut(d, n) EXCEPT ![n + 1] = d][i] = IF i <= n + 1 THEN d ELSE Hole
  BY <1>1 DEF Cut
<1>3. [Cut(d, n) EXCEPT ![n + 1] = d]
        = [i \in 1..Chunks |-> [Cut(d, n) EXCEPT ![n + 1] = d][i]]
  BY DEF Cut
<1> QED
  BY <1>1, <1>2, <1>3 DEF Cut

\* What is whole on disk is the same in memory.
LEMMA DiskCatchesUp ==
  ASSUME PowerIInv, NEW i \in Settled, IsArtifact(disk.content[i])
  PROVE  content[i] = disk.content[i]
<1> USE ConstantsAssumption
<1>1. CASE i = Previous
  BY <1>1 DEF PowerIInv, Files
<1>2. CASE i # Previous
  <2>1. i \in Builds
    BY <1>2 DEF Settled, PowerIInv, PowerTypeOK
  <2>2. PICK n \in 0..Chunks, m \in 0..Chunks :
          m <= n /\ content[i] = Cut(data[i], n) /\ disk.content[i] = Cut(data[i], m)
    BY <2>1 DEF PowerIInv, Files, FileIsCut
  <2>3. m = Chunks
    BY <2>2, CutIsArtifact
  <2> QED
    BY <2>2, <2>3
<1> QED
  BY <1>1, <1>2

\* The file of a build at work is no output's.
LEMMA AtWorkIsNotSettled ==
  ASSUME PowerIInv, NEW p \in Builds, pc[p] \notin {"renamed", "exited", "crashed"}
  PROVE  p \notin Settled
BY ConstantsAssumption DEF PowerIInv, Linked, Settled

\* At the start the disk holds what processes see.
LEMMA InitPowerIInv == PowerInit => PowerIInv
<1> SUFFICES ASSUME PowerInit PROVE PowerIInv
  OBVIOUS
<1>0. IInv
  BY InitIInv DEF PowerInit
<1> USE ConstantsAssumption
<1>1. PowerTypeOK
  BY <1>0 DEF PowerInit, PowerTypeOK, IInv, TypeOK
<1>2. NotYetLinked /\ NotYetOnDisk /\ Unwritten
  BY <1>0 DEF PowerInit, IInv, NotYetLinked, NotYetOnDisk
<1>3. Working
  BY <1>0 DEF IInv, Writing, Working
<1>4. Files
  <2>1. ASSUME NEW p \in Builds PROVE FileIsCut(p)
    <3>1. content[p] = Empty /\ disk.content[p] = Empty /\ pc[p] = "read"
      BY DEF PowerInit, Init, Inodes, Empty, Procs
    <3> QED
      BY <3>1, CutAtZero DEF FileIsCut
  <2>2. IsArtifact(content[Previous])
    BY <1>0 DEF IInv, SettledIsWhole, Settled
  <2> QED
    BY <2>1, <2>2 DEF Files, PowerInit
<1>5. Linked
  BY <1>0 DEF IInv, SettledIsWhole, Linked, PowerInit
<1>6. WholeUnlessLost
  BY <1>0 DEF IInv, SettledIsWhole, WholeUnlessLost, PowerInit
<1> QED
  BY <1>1, <1>2, <1>3, <1>4, <1>5, <1>6 DEF PowerIInv

------------------------------------------------------------------------------
(* The steps of commands and readers, in six kinds.  Five actions write, each *)
(* to something of its own; the others only end processes.                    *)

QuietStep ==
  /\ UNCHANGED <<dir, content, tmp, fd, off, published>>
  /\ data' \in [Procs -> Data \cup {None}]
  /\ \A p \in Builds : data'[p] = data[p]
  /\ pc' \in [Procs -> {"read", "create", "write", "renamed", "cleanup", "exited", "crashed"}]
  /\ \A p \in Builds : \/ pc'[p] \in {pc[p], "exited", "crashed"}
                       \/ pc[p] = "write" /\ pc'[p] = "cleanup"

\* Every step of ScratchPublish is of one of the six kinds.
LEMMA StepKinds ==
  ASSUME PowerTypeOK, [Next]_vars
  PROVE  \/ QuietStep
         \/ \E p \in Builds : \/ BuildValidates(p) \/ CreateScratch(p)
                              \/ WriteChunk(p) \/ Rename(p) \/ RemoveScratch(p)
<1> USE ConstantsAssumption DEF PowerTypeOK, QuietStep, Procs, ExitWith, Goto, fsVars
<1>1. ASSUME NEW p \in Procs,
             ReadFails(p) \/ Rejects(p) \/ Crash(p)
      PROVE  QuietStep
  <2>1. pc' = [pc EXCEPT ![p] = "exited"] \/ pc' = [pc EXCEPT ![p] = "crashed"]
    BY <1>1 DEF ReadFails, Rejects, Crash
  <2>2. UNCHANGED <<fsVars, data, tmp, fd, off, published>>
    BY <1>1 DEF ReadFails, Rejects, Crash
  <2> QED
    BY <2>1, <2>2
<1>2. ASSUME NEW p \in Builds,
             NameTaken(p) \/ AttemptsExhausted(p) \/ CreateFails(p) \/ WriteFails(p)
             \/ RenameFails(p) \/ RemoveFails(p) \/ Succeed(p)
      PROVE  QuietStep
  <2>1. \/ pc' = pc
        \/ pc' = [pc EXCEPT ![p] = "exited"]
        \/ pc[p] = "write" /\ pc' = [pc EXCEPT ![p] = "cleanup"]
    BY <1>2 DEF NameTaken, AttemptsExhausted, CreateFails, WriteFails, RenameFails,
       RemoveFails, Succeed
  <2>2. UNCHANGED <<fsVars, data, tmp, fd, off, published>>
    BY <1>2 DEF NameTaken, AttemptsExhausted, CreateFails, WriteFails, RenameFails,
       RemoveFails, Succeed
  <2> QED
    BY <2>1, <2>2
<1>3. ASSUME NEW p \in Checks, CheckPasses(p) PROVE QuietStep
  BY <1>3 DEF CheckPasses
<1>4. ASSUME NEW r \in Readers, ReaderStep(r) PROVE QuietStep
  BY <1>4 DEF ReaderStep, OpenOut, ReadBlock, ReadEof, procVars
<1>5. CASE EditSource \/ UNCHANGED vars
  BY <1>5 DEF EditSource, vars, procVars
<1> QED
  BY <1>1, <1>2, <1>3, <1>4, <1>5 DEF Next, BuildStep, CheckStep

\* A process that ends, or gives up writing, changes no file.
LEMMA QuietPower ==
  ASSUME PowerIInv, QuietStep, UNCHANGED diskVars
  PROVE  PowerIInv'
<1> USE ConstantsAssumption DEF PowerIInv, QuietStep, diskVars
<1>1. PowerTypeOK'
  BY DEF PowerTypeOK
<1>2. NotYetLinked' /\ NotYetOnDisk' /\ Unwritten'
  BY DEF NotYetLinked, NotYetOnDisk, Unwritten
<1>3. Working'
  BY DEF Working
<1>4. Files'
  <2>1. ASSUME NEW p \in Builds PROVE FileIsCut(p)'
    <3>1. PICK n \in 0..Chunks, m \in 0..Chunks :
            /\ m <= n
            /\ content[p] = Cut(data[p], n) /\ disk.content[p] = Cut(data[p], m)
            /\ n > 0 => data[p] \in ValidData
            /\ pc[p] = "write" => n = off[p]
            /\ pc[p] \in {"read", "create"} => n = 0
      BY DEF Files, FileIsCut
    <3>2. /\ content'[p] = Cut(data'[p], n) /\ disk'.content[p] = Cut(data'[p], m)
          /\ n > 0 => data'[p] \in ValidData
          /\ pc'[p] = "write" => n = off'[p]
          /\ pc'[p] \in {"read", "create"} => n = 0
      BY <3>1
    <3> QED
      BY <3>1, <3>2 DEF FileIsCut
  <2> QED
    BY <2>1 DEF Files, IsArtifact, Whole
<1>5. Linked'
  <2>1. \A p \in published : pc'[p] \in {"renamed", "exited", "crashed"}
    BY DEF Linked, PowerTypeOK
  <2> QED
    BY <2>1 DEF Linked, Settled
<1>6. WholeUnlessLost'
  BY DEF WholeUnlessLost
<1> QED
  BY <1>1, <1>2, <1>3, <1>4, <1>5, <1>6

\* What FileIsCut is made of, for steps that leave data and contents alone.
LEMMA FileIsCutKept ==
  ASSUME NEW p \in Builds, FileIsCut(p),
         content'[p] = content[p], disk'.content[p] = disk.content[p],
         data'[p] = data[p], off'[p] = off[p],
         pc'[p] = "write" => pc[p] = "write" \/ (off[p] = 0 /\ pc[p] = "create"),
         pc'[p] \in {"read", "create"} => pc[p] \in {"read", "create"}
  PROVE  FileIsCut(p)'
<1>1. PICK n \in 0..Chunks, m \in 0..Chunks :
        /\ m <= n
        /\ content[p] = Cut(data[p], n) /\ disk.content[p] = Cut(data[p], m)
        /\ n > 0 => data[p] \in ValidData
        /\ pc[p] = "write" => n = off[p]
        /\ pc[p] \in {"read", "create"} => n = 0
  BY DEF FileIsCut
<1>2. /\ content'[p] = Cut(data'[p], n) /\ disk'.content[p] = Cut(data'[p], m)
      /\ n > 0 => data'[p] \in ValidData
      /\ pc'[p] = "write" => n = off'[p]
      /\ pc'[p] \in {"read", "create"} => n = 0
  BY <1>1
<1> QED
  BY <1>1, <1>2 DEF FileIsCut

\* A build that has not created its scratch file has an empty inode.
LEMMA EmptyBeforeCreate ==
  ASSUME PowerIInv, NEW p \in Builds, pc[p] \in {"read", "create"}
  PROVE  content[p] = Empty /\ disk.content[p] = Empty /\ off[p] = 0
<1>1. PICK n \in 0..Chunks, m \in 0..Chunks :
        /\ m <= n /\ n = 0
        /\ content[p] = Cut(data[p], n) /\ disk.content[p] = Cut(data[p], m)
  BY DEF PowerIInv, Files, FileIsCut
<1>2. m = 0
  BY <1>1
<1> QED
  BY <1>1, <1>2, CutAtZero DEF PowerIInv, Unwritten

\* A validated build has data and still no file.
LEMMA BuildValidatesPower ==
  ASSUME PowerIInv, NEW p \in Builds, BuildValidates(p), UNCHANGED diskVars
  PROVE  PowerIInv'
<1> USE ConstantsAssumption DEF PowerIInv, BuildValidates, Goto, fsVars, diskVars, Procs
<1>1. PowerTypeOK'
  BY DEF PowerTypeOK
<1>2. NotYetLinked' /\ NotYetOnDisk' /\ Unwritten'
  BY DEF PowerTypeOK, NotYetLinked, NotYetOnDisk, Unwritten
<1>3. Working'
  BY DEF PowerTypeOK, Working
<1>4. Files'
  <2>1. ASSUME NEW q \in Builds PROVE FileIsCut(q)'
    <3>1. CASE q = p
      <4>1. content'[p] = Cut(data'[p], 0) /\ disk'.content[p] = Cut(data'[p], 0)
        BY EmptyBeforeCreate, CutAtZero
      <4>2. pc'[p] = "create"
        BY DEF PowerTypeOK
      <4> QED
        BY <3>1, <4>1, <4>2 DEF FileIsCut
    <3>2. CASE q # p
      BY <3>2, FileIsCutKept DEF Files, PowerTypeOK
    <3> QED
      BY <3>1, <3>2
  <2> QED
    BY <2>1 DEF Files, IsArtifact, Whole
<1>5. Linked'
  BY DEF PowerTypeOK, Linked, Settled
<1>6. WholeUnlessLost'
  BY DEF WholeUnlessLost
<1> QED
  BY <1>1, <1>2, <1>3, <1>4, <1>5, <1>6

\* create_new links an empty file under a free scratch name.
LEMMA CreateScratchPower ==
  ASSUME PowerIInv, NEW p \in Builds, CreateScratch(p), UNCHANGED diskVars
  PROVE  PowerIInv'
<1> USE ConstantsAssumption DEF PowerIInv, diskVars, Procs
<1>0. PICK x \in Names : /\ dir[x] = None
                         /\ dir' = [dir EXCEPT ![x] = p]
                         /\ tmp' = [tmp EXCEPT ![p] = x]
  BY DEF CreateScratch
<1>1. /\ pc[p] = "create" /\ pc' = [pc EXCEPT ![p] = "write"]
      /\ fd' = [fd EXCEPT ![p] = p]
      /\ UNCHANGED <<data, off, published>>
  BY DEF CreateScratch, Goto
<1>2. content' = content
  BY <1>1, EmptyBeforeCreate DEF CreateScratch, PowerTypeOK, Inodes
<1>3. x \in Paths /\ x \notin Outs /\ p \in Inodes
  BY DEF Paths, Inodes
<1>4. PowerTypeOK'
  BY <1>0, <1>1, <1>2, <1>3 DEF PowerTypeOK
<1>5. NotYetLinked' /\ NotYetOnDisk' /\ Unwritten'
  BY <1>0, <1>1, <1>3 DEF PowerTypeOK, NotYetLinked, NotYetOnDisk, Unwritten
<1>6. Working'
  <2>1. ASSUME NEW q \in Builds, pc'[q] \in {"write", "cleanup"}
        PROVE  fd'[q] = q /\ tmp'[q] \in Names /\ dir'[tmp'[q]] = q
    <3>1. CASE q = p
      BY <1>0, <1>1, <1>3, <3>1 DEF PowerTypeOK
    <3>2. CASE q # p
      <4>1. fd[q] = q /\ tmp[q] \in Names /\ dir[tmp[q]] = q
        BY <1>1, <2>1, <3>2 DEF PowerTypeOK, Working
      <4>2. tmp[q] # x
        BY <1>0, <4>1 DEF Inodes
      <4> QED
        BY <1>0, <1>1, <3>2, <4>1, <4>2 DEF PowerTypeOK, Paths
    <3> QED
      BY <3>1, <3>2
  <2>2. \A q \in Builds : pc'[q] \in {"create", "write"} => data'[q] \in ValidData
    BY <1>1 DEF PowerTypeOK, Working
  <2> QED
    BY <2>1, <2>2 DEF Working
<1>7. Files'
  <2>1. ASSUME NEW q \in Builds PROVE FileIsCut(q)'
    <3>1. off[p] = 0
      BY <1>1, EmptyBeforeCreate
    <3> QED
      BY <1>1, <1>2, <3>1, FileIsCutKept DEF Files, PowerTypeOK
  <2> QED
    BY <1>2, <2>1 DEF Files, IsArtifact, Whole
<1>8. \A o \in Outs : dir'[o] = dir[o]
  BY <1>0, <1>3 DEF PowerTypeOK, Paths
<1>9. Linked'
  BY <1>1, <1>8 DEF PowerTypeOK, Linked, Settled
<1>10. WholeUnlessLost'
  BY <1>2, <1>8 DEF WholeUnlessLost
<1> QED
  BY <1>4, <1>5, <1>6, <1>7, <1>9, <1>10

\* A block of data goes to the end of the build's own file, which no output leads to.
LEMMA WriteChunkPower ==
  ASSUME PowerIInv, NEW p \in Builds, WriteChunk(p), UNCHANGED diskVars
  PROVE  PowerIInv'
<1> USE ConstantsAssumption DEF PowerIInv, diskVars, Procs
<1>1. /\ pc[p] = "write" /\ off[p] < Chunks /\ off[p] \in 0..Chunks
      /\ off' = [off EXCEPT ![p] = @ + 1]
      /\ UNCHANGED <<dir, pc, data, tmp, fd, published>>
  BY DEF WriteChunk, PowerTypeOK
<1>2. fd[p] = p /\ data[p] \in ValidData /\ p \in Inodes
  BY <1>1 DEF Working, Inodes
<1>3. content' = [content EXCEPT ![p][off[p] + 1] = data[p]]
  BY <1>2 DEF WriteChunk
<1>4. off[p] + 1 \in 1..Chunks
  BY <1>1
<1>5. PowerTypeOK'
  <2>1. off' \in [Builds -> 0..Chunks]
    BY <1>1, <1>4 DEF PowerTypeOK
  <2>2. data[p] \in Blocks
    BY <1>2 DEF Blocks
  <2>3. content' \in [Inodes -> [1..Chunks -> Blocks]]
    BY <1>2, <1>3, <1>4, <2>2 DEF PowerTypeOK
  <2> QED
    BY <1>1, <2>1, <2>3 DEF PowerTypeOK
<1>6. NotYetLinked' /\ NotYetOnDisk'
  BY <1>1 DEF NotYetLinked, NotYetOnDisk
<1>7. Unwritten'
  BY <1>1 DEF PowerTypeOK, Unwritten
<1>8. Working'
  BY <1>1 DEF Working
<1>9. \A i \in Inodes : i # p => content'[i] = content[i]
  BY <1>3 DEF PowerTypeOK
<1>10. Files'
  <2>1. ASSUME NEW q \in Builds PROVE FileIsCut(q)'
    <3>1. CASE q = p
      <4>1. PICK n \in 0..Chunks, m \in 0..Chunks :
              /\ m <= n /\ n = off[p]
              /\ content[p] = Cut(data[p], n) /\ disk.content[p] = Cut(data[p], m)
        BY <1>1 DEF Files, FileIsCut
      <4>2. content'[p] = Cut(data[p], n + 1)
        BY <1>1, <1>2, <1>3, <4>1, CutExtended DEF PowerTypeOK
      <4>3. n + 1 \in 0..Chunks /\ m <= n + 1 /\ off'[p] = n + 1
        BY <1>1, <4>1 DEF PowerTypeOK
      <4> QED
        BY <1>1, <1>2, <3>1, <4>1, <4>2, <4>3 DEF FileIsCut
    <3>2. CASE q # p
      <4>1. content'[q] = content[q] /\ off'[q] = off[q]
        BY <1>1, <1>9, <3>2 DEF Inodes, PowerTypeOK
      <4> QED
        BY <1>1, <4>1, FileIsCutKept DEF Files
    <3> QED
      BY <3>1, <3>2
  <2>2. \A i \in {Previous, Bystander} : content'[i] = content[i]
    BY <1>9 DEF Inodes
  <2> QED
    BY <2>1, <2>2 DEF Files, IsArtifact, Whole
<1>11. Linked'
  BY <1>1 DEF Linked, Settled
<1>12. WholeUnlessLost'
  <2>1. p \notin Settled
    BY <1>1, AtWorkIsNotSettled
  <2>2. \A o \in Outs : dir[o] # None => content'[dir[o]] = content[dir[o]]
    BY <1>9, <2>1 DEF Linked, PowerTypeOK, Paths
  <2> QED
    BY <1>1, <2>2 DEF WholeUnlessLost
<1> QED
  BY <1>5, <1>6, <1>7, <1>8, <1>10, <1>11, <1>12

\* The rename puts a file that is whole in memory, though perhaps not on disk,
\* in the place of the output.
LEMMA RenamePower ==
  ASSUME PowerIInv, NEW p \in Builds, Rename(p), UNCHANGED diskVars
  PROVE  PowerIInv'
<1> USE ConstantsAssumption DEF PowerIInv, diskVars, Procs
<1>1. /\ pc[p] = "write" /\ pc' = [pc EXCEPT ![p] = "renamed"] /\ off[p] = Chunks
      /\ published' = published \cup {p}
      /\ UNCHANGED <<content, data, tmp, fd, off>>
  BY DEF Rename, Goto
<1>2. /\ tmp[p] \in Names /\ dir[tmp[p]] = p /\ data[p] \in ValidData
      /\ OutOf[p] \in Outs /\ p \in Inodes
  BY <1>1 DEF Working, Inodes
<1>3. dir' = [dir EXCEPT ![OutOf[p]] = p, ![tmp[p]] = None]
  BY <1>2 DEF Rename
<1>4. /\ dir'[OutOf[p]] = p
      /\ \A x \in Paths : x # OutOf[p] => dir'[x] \in {dir[x], None}
      /\ \A x \in Names : x # tmp[p] => dir'[x] = dir[x]
      /\ \A o \in Outs : o # OutOf[p] => dir'[o] = dir[o]
  BY <1>2, <1>3 DEF PowerTypeOK, Paths
<1>5. IsArtifact(content[p])
  <2>1. PICK n \in 0..Chunks : n = off[p] /\ content[p] = Cut(data[p], n)
    BY <1>1 DEF Files, FileIsCut
  <2> QED
    BY <1>1, <1>2, <2>1, CutIsArtifact
<1>6. PowerTypeOK'
  BY <1>1, <1>2, <1>3 DEF PowerTypeOK
<1>7. NotYetLinked'
  <2> SUFFICES ASSUME NEW q \in Builds, pc'[q] \in {"read", "create"}, NEW x \in Paths
               PROVE  dir'[x] # q
    BY DEF NotYetLinked
  <2>1. q # p /\ pc[q] \in {"read", "create"} /\ q # None
    BY <1>1 DEF PowerTypeOK, Inodes
  <2> QED
    BY <1>4, <2>1 DEF NotYetLinked
<1>8. NotYetOnDisk' /\ Unwritten'
  BY <1>1 DEF PowerTypeOK, NotYetOnDisk, Unwritten
<1>9. Working'
  <2> SUFFICES ASSUME NEW q \in Builds
               PROVE  /\ pc'[q] \in {"create", "write"} => data'[q] \in ValidData
                      /\ pc'[q] \in {"write", "cleanup"} =>
                           fd'[q] = q /\ tmp'[q] \in Names /\ dir'[tmp'[q]] = q
    BY DEF Working
  <2>1. CASE q = p
    BY <1>1, <2>1 DEF PowerTypeOK
  <2>2. CASE q # p
    BY <1>1, <1>2, <1>4, <2>2 DEF PowerTypeOK, Working
  <2> QED
    BY <2>1, <2>2
<1>10. Files'
  <2>1. ASSUME NEW q \in Builds PROVE FileIsCut(q)'
    BY <1>1, FileIsCutKept DEF Files, PowerTypeOK
  <2> QED
    BY <1>1, <2>1 DEF Files, IsArtifact, Whole
<1>11. Linked'
  <2>1. \A q \in published' : pc'[q] \in {"renamed", "exited", "crashed"}
    BY <1>1 DEF Linked, PowerTypeOK
  <2>2. \A o \in Outs : dir'[o] # None => dir'[o] \in Settled'
    BY <1>1, <1>4 DEF Linked, Settled
  <2>3. \A o \in Outs : disk.dir[o] # None => disk.dir[o] \in Settled' /\ dir'[o] # None
    BY <1>1, <1>2, <1>4 DEF Linked, Settled
  <2> QED
    BY <2>1, <2>2, <2>3 DEF Linked
<1>12. WholeUnlessLost'
  BY <1>1, <1>4, <1>5 DEF WholeUnlessLost
<1> QED
  BY <1>6, <1>7, <1>8, <1>9, <1>10, <1>11, <1>12

\* The cleanup takes away a scratch name, never an output.
LEMMA RemoveScratchPower ==
  ASSUME PowerIInv, NEW p \in Builds, RemoveScratch(p), UNCHANGED diskVars
  PROVE  PowerIInv'
<1> USE ConstantsAssumption DEF PowerIInv, diskVars, Procs
<1>1. /\ pc[p] = "cleanup" /\ pc' = [pc EXCEPT ![p] = "exited"]
      /\ dir' = [dir EXCEPT ![tmp[p]] = None]
      /\ UNCHANGED <<content, data, tmp, fd, off, published>>
  BY DEF RemoveScratch, ExitWith, Goto
<1>2. tmp[p] \in Names /\ dir[tmp[p]] = p
  BY <1>1 DEF Working
<1>3. /\ \A x \in Paths : dir'[x] \in {dir[x], None}
      /\ \A x \in Names : x # tmp[p] => dir'[x] = dir[x]
      /\ \A o \in Outs : dir'[o] = dir[o]
  BY <1>1, <1>2 DEF PowerTypeOK, Paths
<1>4. PowerTypeOK'
  BY <1>1, <1>2 DEF PowerTypeOK
<1>5. NotYetLinked'
  BY <1>1, <1>3 DEF PowerTypeOK, NotYetLinked, Inodes
<1>6. NotYetOnDisk' /\ Unwritten'
  BY <1>1 DEF PowerTypeOK, NotYetOnDisk, Unwritten
<1>7. Working'
  <2> SUFFICES ASSUME NEW q \in Builds
               PROVE  /\ pc'[q] \in {"create", "write"} => data'[q] \in ValidData
                      /\ pc'[q] \in {"write", "cleanup"} =>
                           fd'[q] = q /\ tmp'[q] \in Names /\ dir'[tmp'[q]] = q
    BY DEF Working
  <2>1. CASE q = p
    BY <1>1, <2>1 DEF PowerTypeOK
  <2>2. CASE q # p
    BY <1>1, <1>2, <1>3, <2>2 DEF PowerTypeOK, Working
  <2> QED
    BY <2>1, <2>2
<1>8. Files'
  <2>1. ASSUME NEW q \in Builds PROVE FileIsCut(q)'
    BY <1>1, FileIsCutKept DEF Files, PowerTypeOK
  <2> QED
    BY <1>1, <2>1 DEF Files, IsArtifact, Whole
<1>9. Linked'
  BY <1>1, <1>3 DEF PowerTypeOK, Linked, Settled
<1>10. WholeUnlessLost'
  BY <1>1, <1>3 DEF WholeUnlessLost
<1> QED
  BY <1>4, <1>5, <1>6, <1>7, <1>8, <1>9, <1>10

------------------------------------------------------------------------------
(* The steps of the kernel and of the power supply *)

\* The block that is written back is the one after those on disk, so the file
\* on disk stays a cut of the one in memory.
LEMMA WriteBackPower ==
  ASSUME PowerIInv, NEW i \in Inodes, WriteBack(i)
  PROVE  PowerIInv'
<1> USE ConstantsAssumption DEF PowerIInv, Procs
<1>1. PICK j \in 1..Chunks :
        /\ disk.content[i][j] # content[i][j]
        /\ \A h \in 1..j - 1 : disk.content[i][h] = content[i][h]
        /\ disk' = [disk EXCEPT !.content[i][j] = content[i][j]]
  BY DEF WriteBack
<1>2. UNCHANGED <<dir, content, pc, data, tmp, fd, off, published, ordered, lost>>
  BY DEF WriteBack, vars, fsVars, procVars
<1>3. /\ disk'.dir = disk.dir
      /\ disk'.content = [disk.content EXCEPT ![i] = [@ EXCEPT ![j] = content[i][j]]]
      /\ disk' \in [dir : [Paths -> Inodes \cup {None}],
                    content : [Inodes -> [1..Chunks -> Blocks]]]
  <2> DEFINE after == [disk.content EXCEPT ![i] = [@ EXCEPT ![j] = content[i][j]]]
  <2>1. content[i][j] \in Blocks
    BY DEF PowerTypeOK
  <2>2. disk.content[i] \in [1..Chunks -> Blocks]
    BY DEF PowerTypeOK
  <2>3. [disk.content[i] EXCEPT ![j] = content[i][j]] \in [1..Chunks -> Blocks]
    BY <2>1, <2>2
  <2>4. after \in [Inodes -> [1..Chunks -> Blocks]]
    BY <2>3 DEF PowerTypeOK
  <2>5. disk = [dir |-> disk.dir, content |-> disk.content]
    BY DEF PowerTypeOK
  <2>6. disk' = [disk EXCEPT !.content = after]
    BY <1>1
  <2> HIDE DEF after
  <2>7. disk' = [dir |-> disk.dir, content |-> after]
    BY <2>5, <2>6
  <2>8. disk.dir \in [Paths -> Inodes \cup {None}]
    BY DEF PowerTypeOK
  <2>9. disk'.dir = disk.dir /\ disk'.content = after
    BY <2>7
  <2> QED
    BY <2>4, <2>7, <2>8, <2>9 DEF after
<1>4. i \in Builds
  BY <1>1 DEF Files, Inodes
<1>5. PowerTypeOK'
  BY <1>2, <1>3 DEF PowerTypeOK
<1>6. NotYetLinked' /\ NotYetOnDisk' /\ Unwritten' /\ Working'
  BY <1>2, <1>3 DEF NotYetLinked, NotYetOnDisk, Unwritten, Working
<1>7. \A k \in Inodes : k # i => disk'.content[k] = disk.content[k]
  BY <1>3 DEF PowerTypeOK
<1>8. FileIsCut(i)'
  <2>1. PICK n \in 0..Chunks, m \in 0..Chunks :
          /\ m <= n
          /\ content[i] = Cut(data[i], n) /\ disk.content[i] = Cut(data[i], m)
          /\ n > 0 => data[i] \in ValidData
          /\ pc[i] = "write" => n = off[i]
          /\ pc[i] \in {"read", "create"} => n = 0
    BY <1>4 DEF Files, FileIsCut
  <2>2. m < j /\ j <= n /\ content[i][j] = data[i]
    BY <1>1, <2>1 DEF Cut
  <2>3. j = m + 1
    <3>1. SUFFICES ASSUME m + 1 < j PROVE FALSE
      BY <2>2
    <3>2. m + 1 \in 1..j - 1 /\ m + 1 \in 1..Chunks
      BY <3>1
    <3>3. content[i][m + 1] = data[i] /\ disk.content[i][m + 1] = Hole
      BY <2>1, <2>2, <3>1, <3>2 DEF Cut
    <3>4. data[i] # Hole
      BY <2>1, <2>2
    <3> QED
      BY <1>1, <3>2, <3>3, <3>4
  <2>4. disk'.content[i] = Cut(data[i], m + 1)
    <3>1. disk'.content[i] = [Cut(data[i], m) EXCEPT ![m + 1] = data[i]]
      BY <1>3, <1>4, <2>1, <2>2, <2>3 DEF PowerTypeOK
    <3> QED
      BY <2>2, <3>1, CutExtended
  <2>5. m + 1 \in 0..Chunks /\ m + 1 <= n
    BY <2>2, <2>3
  <2> QED
    BY <1>2, <2>1, <2>4, <2>5 DEF FileIsCut
<1>9. Files'
  <2>1. ASSUME NEW q \in Builds, q # i PROVE FileIsCut(q)'
    BY <1>2, <1>7, <2>1, FileIsCutKept DEF Files, Inodes
  <2>2. \A k \in {Previous, Bystander} : disk'.content[k] = content'[k]
    BY <1>2, <1>4, <1>7 DEF Files, Inodes
  <2> QED
    BY <1>2, <1>8, <2>1, <2>2 DEF Files, IsArtifact, Whole
<1>10. Linked'
  BY <1>2, <1>3 DEF Linked, Settled
<1>11. WholeUnlessLost'
  <2>1. ASSUME NEW o \in Outs, disk.dir[o] # None, IsArtifact(disk.content[disk.dir[o]])
        PROVE  disk'.content[disk.dir[o]] = disk.content[disk.dir[o]]
    <3>1. disk.dir[o] \in Settled /\ disk.dir[o] \in Inodes
      BY <2>1 DEF Linked, PowerTypeOK, Paths
    <3>2. content[disk.dir[o]] = disk.content[disk.dir[o]]
      BY <2>1, <3>1, DiskCatchesUp
    <3>3. disk.dir[o] # i
      BY <1>1, <3>2
    <3> QED
      BY <1>7, <3>1, <3>3
  <2> QED
    BY <1>2, <1>3, <2>1 DEF WholeUnlessLost
<1> QED
  BY <1>5, <1>6, <1>9, <1>10, <1>11

\* A commit puts the directory on disk; an ordered file system has written out
\* the outputs before.
LEMMA CommitPower ==
  ASSUME PowerIInv, Commit
  PROVE  PowerIInv'
<1> USE ConstantsAssumption DEF PowerIInv, Procs
<1>1. /\ disk' = [disk EXCEPT !.dir = dir]
      /\ ordered => \A o \in Outs : dir[o] # None => disk.content[dir[o]] = content[dir[o]]
      /\ UNCHANGED <<dir, content, pc, data, tmp, fd, off, published, ordered, lost>>
  BY DEF Commit, vars, fsVars, procVars
<1>2. disk'.dir = dir /\ disk'.content = disk.content
  BY <1>1 DEF PowerTypeOK
<1>3. PowerTypeOK'
  BY <1>1 DEF PowerTypeOK
<1>4. NotYetLinked' /\ NotYetOnDisk' /\ Unwritten' /\ Working'
  BY <1>1, <1>2 DEF NotYetLinked, NotYetOnDisk, Unwritten, Working
<1>5. Files'
  <2>1. ASSUME NEW q \in Builds PROVE FileIsCut(q)'
    BY <1>1, <1>2, FileIsCutKept DEF Files
  <2> QED
    BY <1>1, <1>2, <2>1 DEF Files, IsArtifact, Whole
<1>6. Linked'
  BY <1>1, <1>2 DEF Linked, Settled
<1>7. WholeUnlessLost'
  BY <1>1, <1>2 DEF WholeUnlessLost
<1> QED
  BY <1>3, <1>4, <1>5, <1>6, <1>7

\* After a power failure the disk is what there is, and nobody is at work.
LEMMA PowerFailsPower ==
  ASSUME PowerIInv, PowerFails
  PROVE  PowerIInv'
<1> USE ConstantsAssumption DEF PowerIInv, Procs
<1>1. /\ dir' = disk.dir /\ content' = disk.content
      /\ pc' = [p \in Procs |-> IF pc[p] \in {"read", "exited"} THEN pc[p] ELSE "crashed"]
      /\ lost' = TRUE
      /\ UNCHANGED <<data, tmp, fd, off, published, disk, ordered>>
  BY DEF PowerFails
<1>2. \A p \in Builds : pc'[p] \in {"exited", "crashed"} \/ (pc'[p] = "read" /\ pc[p] = "read")
  BY <1>1 DEF PowerTypeOK
<1>3. PowerTypeOK'
  BY <1>1 DEF PowerTypeOK
<1>4. NotYetLinked' /\ NotYetOnDisk' /\ Unwritten'
  BY <1>1, <1>2 DEF NotYetLinked, NotYetOnDisk, Unwritten
<1>5. Working'
  BY <1>2 DEF Working
<1>6. Files'
  <2>1. ASSUME NEW q \in Builds PROVE FileIsCut(q)'
    <3>1. PICK n \in 0..Chunks, m \in 0..Chunks :
            /\ m <= n
            /\ disk.content[q] = Cut(data[q], m)
            /\ n > 0 => data[q] \in ValidData
            /\ pc[q] \in {"read", "create"} => n = 0
      BY DEF Files, FileIsCut
    <3>2. /\ content'[q] = Cut(data'[q], m) /\ disk'.content[q] = Cut(data'[q], m)
          /\ m <= m
          /\ m > 0 => data'[q] \in ValidData
          /\ pc'[q] = "write" => m = off'[q]
          /\ pc'[q] \in {"read", "create"} => m = 0
      BY <1>1, <1>2, <3>1
    <3> QED
      BY <3>2 DEF FileIsCut
  <2>2. IsArtifact(content'[Previous])
    BY <1>1 DEF Files
  <2> QED
    BY <1>1, <2>1, <2>2 DEF Files, IsArtifact, Whole
<1>7. Linked'
  BY <1>1 DEF Linked, Settled, PowerTypeOK
<1>8. WholeUnlessLost'
  BY <1>1 DEF WholeUnlessLost
<1> QED
  BY <1>3, <1>4, <1>5, <1>6, <1>7, <1>8

\* Every step preserves the invariant.
LEMMA NextPowerIInv == PowerIInv /\ [PowerNext]_powerVars => PowerIInv'
<1> SUFFICES ASSUME PowerIInv, [PowerNext]_powerVars PROVE PowerIInv'
  OBVIOUS
<1>1. CASE [Next]_vars /\ UNCHANGED diskVars
  BY <1>1, StepKinds, QuietPower, BuildValidatesPower, CreateScratchPower,
     WriteChunkPower, RenamePower, RemoveScratchPower DEF PowerIInv
<1>2. ASSUME NEW i \in Inodes, WriteBack(i) PROVE PowerIInv'
  BY <1>2, WriteBackPower
<1>3. CASE Commit
  BY <1>3, CommitPower
<1>4. CASE PowerFails
  BY <1>4, PowerFailsPower
<1>5. CASE UNCHANGED powerVars
  BY <1>1, <1>5 DEF powerVars
<1> QED
  BY <1>1, <1>2, <1>3, <1>4, <1>5 DEF PowerNext

------------------------------------------------------------------------------
(* The theorems *)

\* The invariant holds before and after a power failure.
THEOREM PowerInvariance == PowerSpec => []PowerIInv
BY InitPowerIInv, NextPowerIInv, PTL DEF PowerSpec

\* Whenever the power fails, serve finds a whole dataset or, unless the file
\* system orders data before renames, an empty file; never a part of one and
\* never a mixture (load in store/mod.rs, write_compiled without fsync).
THEOREM LoadsAfterPowerLoss == PowerSpec => []LoadsWholeOrEmpty
<1>1. PowerIInv => LoadsWholeOrEmpty
  <2> SUFFICES ASSUME PowerIInv, NEW o \in Outs, Loads(o), ~IsArtifact(content[dir[o]])
               PROVE  lost /\ ~ordered /\ content[dir[o]] = Empty
    BY DEF LoadsWholeOrEmpty
  <2>1. dir[o] # None /\ Accepts(content[dir[o]])
    BY DEF Loads
  <2>2. lost /\ ~ordered
    BY <2>1 DEF WholeUnlessLost, PowerIInv
  <2> USE ConstantsAssumption DEF PowerIInv
  <2>3. dir[o] \in Builds
    BY <2>1 DEF Linked, Settled, Files, PowerTypeOK
  <2>4. PICK n \in 0..Chunks :
          /\ content[dir[o]] = Cut(data[dir[o]], n)
          /\ n > 0 => data[dir[o]] \in ValidData
    BY <2>3 DEF Files, FileIsCut
  <2>5. n \notin 1..Chunks - 1
    <3> SUFFICES ASSUME n \in 1..Chunks - 1 PROVE FALSE
      OBVIOUS
    <3>1. data[dir[o]] \in ValidData
      BY <2>4
    <3>2. ~ \E d \in ValidData, m \in 1..Chunks - 1 : content[dir[o]] = Cut(d, m)
      BY <2>1 DEF Accepts, Cut
    <3> QED
      BY <2>4, <3>1, <3>2, Zenon
  <2>6. n # Chunks
    BY <2>4, CutIsArtifact
  <2>7. n = 0
    BY <2>5, <2>6
  <2> QED
    BY <2>2, <2>4, <2>7, CutAtZero
<1> QED
  BY <1>1, PowerInvariance, PTL

\* No step takes an output's directory entry away, in memory or on disk.
LEMMA OutputStays ==
  ASSUME PowerIInv, [PowerNext]_powerVars, NEW o \in Outs, disk.dir[o] # None
  PROVE  disk'.dir[o] # None /\ dir'[o] # None
<1> USE ConstantsAssumption DEF PowerIInv
<1>1. dir[o] # None
  BY DEF Linked
<1>2. CASE [Next]_vars /\ UNCHANGED diskVars
  <2>1. disk' = disk
    BY <1>2 DEF diskVars
  <2>2. CASE dir' = dir
    BY <1>1, <2>1, <2>2
  <2>3. CASE dir' # dir
    <3>1. PICK p \in Builds : CreateScratch(p) \/ Rename(p) \/ RemoveScratch(p)
      BY <1>2, <2>3, DirectoryWriters
    <3>2. CASE CreateScratch(p)
      BY <1>1, <2>1, <3>2 DEF CreateScratch, PowerTypeOK, Paths
    <3>3. CASE Rename(p) \/ RemoveScratch(p)
      <4>1. tmp[p] \in Names /\ dir[tmp[p]] = p /\ p # None
        BY <3>3 DEF Rename, RemoveScratch, ExitWith, Goto, Working, Inodes
      <4>2. o # tmp[p] /\ o \in Paths /\ tmp[p] \in Paths /\ OutOf[p] \in Paths
        BY <4>1 DEF Paths
      <4>3. dir'[o] \in {dir[o], p}
        BY <3>3, <4>1, <4>2 DEF Rename, RemoveScratch, PowerTypeOK
      <4> QED
        BY <1>1, <2>1, <4>1, <4>3
    <3> QED
      BY <3>1, <3>2, <3>3
  <2> QED
    BY <2>2, <2>3
<1>3. ASSUME NEW i \in Inodes, WriteBack(i) PROVE disk'.dir[o] # None /\ dir'[o] # None
  BY <1>1, <1>3 DEF WriteBack, vars, fsVars, PowerTypeOK
<1>4. CASE Commit
  BY <1>1, <1>4 DEF Commit, vars, fsVars, PowerTypeOK
<1>5. CASE PowerFails
  BY <1>5 DEF PowerFails
<1>6. CASE UNCHANGED powerVars
  BY <1>2, <1>6 DEF powerVars
<1> QED
  BY <1>2, <1>3, <1>4, <1>5, <1>6 DEF PowerNext

\* An output that has reached the disk is there ever after: rename replaces it
\* in one step, and no step of a build takes it away first (main.rs:145).
THEOREM OutputPermanence == PowerSpec => OutputNeverVanishes
<1>1. PowerIInv /\ [PowerNext]_powerVars =>
        [\A o \in Outs : disk.dir[o] # None => disk'.dir[o] # None /\ dir'[o] # None]_powerVars
  BY OutputStays
<1> QED
  BY <1>1, PowerInvariance, PTL DEF PowerSpec, OutputNeverVanishes

\* Until the power fails, a build that ends by itself leaves no scratch file.
THEOREM CleanupBeforePowerLoss ==
  ASSUME ~RemoveMayFail
  PROVE  PowerSpec => []NoScratchBeforePowerLoss
<1> DEFINE Before == lost \/ (IInv /\ LinkedWhileWorking)
<1>1. PowerInit => Before
  <2>1. Init => LinkedWhileWorking
    BY ConstantsAssumption DEF Init, LinkedWhileWorking, Inodes, Paths
  <2> QED
    BY <2>1, InitIInv DEF PowerInit
<1>2. Before /\ [PowerNext]_powerVars => Before'
  <2> SUFFICES ASSUME Before, [PowerNext]_powerVars PROVE Before'
    OBVIOUS
  <2>1. CASE [Next]_vars /\ UNCHANGED diskVars
    BY <2>1, NextIInv, LinkedWhileWorkingStep DEF diskVars
  <2>2. CASE (\E i \in Inodes : WriteBack(i)) \/ Commit
    <3>1. [Next]_vars /\ lost' = lost
      BY <2>2 DEF WriteBack, Commit
    <3> QED
      BY <3>1, NextIInv, LinkedWhileWorkingStep
  <2>3. CASE PowerFails
    BY <2>3 DEF PowerFails
  <2>4. CASE UNCHANGED powerVars
    BY <2>1, <2>4 DEF powerVars
  <2> QED
    BY <2>1, <2>2, <2>3, <2>4 DEF PowerNext
<1>3. Before => NoScratchBeforePowerLoss
  BY DEF NoScratchBeforePowerLoss, NoScratchLeftBehind, LinkedWhileWorking
<1> QED
  BY <1>1, <1>2, <1>3, PTL DEF PowerSpec
==============================================================================
