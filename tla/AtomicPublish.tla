---------------------------- MODULE AtomicPublish ----------------------------
(***************************************************************************)
(* What `justkv build` promises to whoever looks at an output path: the    *)
(* artifact there is always one whole, validated dataset; it changes only  *)
(* when a build publishes, in a single step; it never disappears; and an   *)
(* exit code of 0 means "published", any other code "left alone".          *)
(* ScratchPublish implements this with a scratch file and a rename.        *)
(***************************************************************************)
EXTENDS Naturals

CONSTANTS
  Builds,       \* invocations of `justkv build`
  Checks,       \* invocations of `justkv check`
  Outs,         \* output paths
  OutOf,        \* OutOf[b]: the `-o` argument of build b
  ValidData,    \* datasets that pass validation
  None          \* "no such file" / "no exit code yet"

Procs == Builds \cup Checks

VARIABLES
  artifact,     \* artifact[o]: the dataset at output o, or None
  published,    \* builds that have replaced their output
  exit          \* exit[p]: the exit code of p, or None

absVars == <<artifact, published, exit>>

AbsInit ==
  /\ artifact \in [Outs -> ValidData \cup {None}]
  /\ published = {}
  /\ exit = [p \in Procs |-> None]

\* A running build replaces its output, at most once.
AbsPublish(b) ==
  /\ exit[b] = None
  /\ b \notin published
  /\ \E d \in ValidData : artifact' = [artifact EXCEPT ![OutOf[b]] = d]
  /\ published' = published \cup {b}
  /\ UNCHANGED exit

\* A process exits; a build reports success exactly if it has published.
AbsExit(p) ==
  /\ exit[p] = None
  /\ \E code \in {0, 1, 2} :
       /\ p \in Builds => (code = 0 <=> p \in published)
       /\ exit' = [exit EXCEPT ![p] = code]
  /\ UNCHANGED <<artifact, published>>

AbsNext == (\E b \in Builds : AbsPublish(b)) \/ (\E p \in Procs : AbsExit(p))

AbsSpec == AbsInit /\ [][AbsNext]_absVars
==============================================================================
