------------------------- MODULE MCExecutionService -------------------------
(***************************************************************************)
(* Two workspaces, two attempts of any kind: the least that contend for a  *)
(* slot, and each may start while the other is at any of its awaits. One   *)
(* session, but two where sessions contend with each other.                *)
(***************************************************************************)
EXTENDS ExecutionService

CONSTANTS x, y, s1, s2, A, B, c1, c2

=============================================================================
