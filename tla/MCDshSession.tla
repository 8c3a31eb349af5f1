---------------------------- MODULE MCDshSession ----------------------------
(***************************************************************************)
(* A nested project N inside A, the session started in A; sub is a plain   *)
(* directory of A.                                                         *)
(***************************************************************************)
EXTENDS DshSession, TLC

CONSTANTS A, N, sub, a1, a2, n1, e1, e2

MCWorkspaceOf == a1 :> A @@ a2 :> A @@ n1 :> N

MCUnder == A :> {A, N, sub} @@ N :> {N}

MCConfigsOf == A :> {} @@ N :> {}

MCPrimaryConfig == A :> NoConfig @@ N :> NoConfig

MCInitialWorlds ==
    {a1 :> "running" @@ a2 :> "absent" @@ n1 :> "exited",
     a1 :> "running" @@ a2 :> "running" @@ n1 :> "running"}

=============================================================================
