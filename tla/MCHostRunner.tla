----------------------------- MODULE MCHostRunner -----------------------------
(* Three attempts over two sessions and a summary of two programs: an attempt *)
(* in flight across a session start, and one more than the summary names.     *)
EXTENDS HostRunner, TLC

CONSTANTS a1, a2, a3

MCAttempts == {a1, a2, a3}
MCSymmetry == Permutations(MCAttempts)
=============================================================================
