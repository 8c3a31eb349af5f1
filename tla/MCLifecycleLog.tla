---------------------------- MODULE MCLifecycleLog ----------------------------
(* Two operations that overlap, each with one unit of output more than its  *)
(* transcript holds, and enough turns to take each report twice.            *)
EXTENDS LifecycleLog, TLC

CONSTANTS r1, r2

MCRuns == {r1, r2}
MCSymmetry == Permutations(MCRuns)
=============================================================================
