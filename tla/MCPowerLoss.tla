----------------------------- MODULE MCPowerLoss -----------------------------
(* Instances of PowerLoss for TLC. *)
EXTENDS PowerLoss, TLC

CONSTANTS b1, b2, kvbin, n1, n2

\* Two builds of one output whose candidate names collide on n1.
TwoOutOf == b1 :> kvbin @@ b2 :> kvbin
TwoCandidates == (b1 :> {n1}) @@ (b2 :> {n1, n2})
==============================================================================
