----------------------------- MODULE MCCompiled ------------------------------
(* Instances of Compiled for TLC: artifacts, whole and damaged. *)
EXTENDS Compiled

MCHash(k) == Len(k)
MCMagic == <<6, 7>>

E(ko, kl, vo, vl) == [k_off |-> ko, k_len |-> kl, v_off |-> vo, v_len |-> vl]

\* No entry; one with an empty key; two that fill the arena.
MCArtifacts ==
  { [arena |-> <<>>, entries |-> <<>>, flags |-> 0],
    [arena |-> <<2>>, entries |-> <<E(0, 0, 0, 1)>>, flags |-> 1],
    [arena |-> <<1, 2, 1>>, entries |-> <<E(0, 1, 1, 1), E(2, 1, 3, 0)>>, flags |-> 0] }

Files == {Written(a) : a \in MCArtifacts}
Cut == UNION {{SubSeq(w, 1, n) : n \in 0..Len(w)} : w \in Files}
Extended == {w \o <<x>> : w \in Files, x \in {0, 7}}
Overwritten ==
  UNION {{[w EXCEPT ![i] = x, ![j] = y] : i, j \in DOMAIN w, x, y \in {0, 1, 2, 4, 7}} : w \in Files}

MCInputs == Cut \cup Extended \cup Overwritten
==============================================================================
