-------------------------- MODULE MCTargetSession --------------------------
(***************************************************************************)
(* A two-project instance of TargetSession: project A may run two          *)
(* containers (and so be ambiguous) and owns a configuration that needs    *)
(* --config; project B is known only by its container.                     *)
(***************************************************************************)
EXTENDS TargetSession, TLC

CONSTANTS A, B, a1, a2, b1, e1, named, renamed, insideA

MCWorkspaceOf == a1 :> A @@ a2 :> A @@ b1 :> B

MCConfigsOf == A :> {named} @@ B :> {}

MCPrimaryConfig == A :> NoConfig @@ B :> NoConfig

MCUnder == A :> {A, insideA} @@ B :> {B}

OnlyBRuns == a1 :> "exited" @@ a2 :> "absent" @@ b1 :> "running"

AmbiguousA == a1 :> "running" @@ a2 :> "running" @@ b1 :> "absent"

NothingPersisted == [SelectedIntent(NoSelection) EXCEPT !.kind = "nothing"]

\* A target whose container and configuration have since changed.
PersistedA == [kind |-> "selected", ws |-> A, cand |-> a2, config |-> renamed]

PersistedB == [kind |-> "selected", ws |-> B, cand |-> b1, config |-> NoConfig]

MCInitialSessions ==
    {[world |-> OnlyBRuns, intent |-> NothingPersisted],
     [world |-> OnlyBRuns, intent |-> PersistedA],
     [world |-> AmbiguousA, intent |-> PersistedA],
     [world |-> AmbiguousA, intent |-> PersistedB]}

=============================================================================
