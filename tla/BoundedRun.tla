----------------------------- MODULE BoundedRun -----------------------------
(***************************************************************************)
(* What a caller of the process runner is promised: one outcome, for good, *)
(* and after a cancellation or a timeout no process of the run, started    *)
(* before or later.                                                        *)
(***************************************************************************)
VARIABLES outcome, alive

runVars == <<outcome, alive>>

Outcomes == {"closed", "cancelled", "timeout", "spawn-error", "refused"}

Cut == {"cancelled", "timeout"}

Init == outcome = "pending" /\ alive = FALSE

\* Processes come and go while the run is not cut short.
Lives ==
    /\ outcome \notin Cut
    /\ alive' \in BOOLEAN
    /\ UNCHANGED outcome

Settles ==
    /\ outcome = "pending"
    /\ outcome' \in Outcomes
    /\ alive' \in IF outcome' \in Cut THEN {FALSE} ELSE {alive}

Next == Lives \/ Settles

Spec == Init /\ [][Next]_runVars

=============================================================================
