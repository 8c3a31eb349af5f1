------------------------ MODULE MCSessionLifecycle ------------------------
(***************************************************************************)
(* Two session starts and two commands, so that a command of the first     *)
(* session can end in the second, and a shutdown anywhere between.         *)
(***************************************************************************)
EXTENDS SessionLifecycle

CONSTANTS i, j, c, d

=============================================================================
