--------------------------- MODULE ProcessRunner ---------------------------
(***************************************************************************)
(* One command given to a container: the deadline its caller puts on it    *)
(* (executeWithTimeout), the discovery before it starts, and the child     *)
(* process NodeProcessRunner bounds in time and output.                    *)
(*                                                                         *)
(* A step is one event of the Node event loop. Aborting a signal runs its  *)
(* listeners at once. POSIX: a child leads its own process group, and the  *)
(* processes it forks stay in it.                                          *)
(***************************************************************************)
EXTENDS Naturals

CONSTANTS
    MaxOutput,   \* maxOutputBytes, in units of output
    MaxBytes     \* bound: what a stream carries in a run

ASSUME RunnerAssumption == MaxOutput \in Nat /\ MaxBytes \in Nat

VARIABLES
    answer,      \* what the caller has been answered
    deadline,    \* executeWithTimeout's timer: "armed", "none", "fired"
    aborted,     \* the signal the runner is given has been aborted
    settled,     \* the runner's promise
    timer,       \* the runner's own timer is armed
    child,       \* the process spawned
    helper,      \* a process it forked: holding the pipes, or detached from them
    produced, captured, truncated

vars == <<answer, deadline, aborted, settled, timer, child, helper, produced, captured, truncated>>

procVars == <<child, helper>>
callerVars == <<answer, deadline>>
outputVars == <<produced, captured, truncated>>

Streams == {"stdout", "stderr"}

Settlements == {"closed", "cancelled", "timeout", "spawn-error", "refused"}

TypeOK ==
    /\ answer \in {"pending", "resolved", "rejected", "timeout"}
    /\ deadline \in {"none", "armed", "fired"}
    /\ aborted \in BOOLEAN
    /\ settled \in Settlements \cup {"pending"}
    /\ timer \in BOOLEAN
    /\ child \in {"none", "failed", "running", "exited", "killed"}
    /\ helper \in {"none", "piped", "detached", "gone"}
    /\ produced \in [Streams -> 0..MaxBytes]
    /\ captured \in [Streams -> 0..MaxOutput]
    /\ truncated \in BOOLEAN

Init ==
    /\ answer = "pending"
    /\ deadline \in {"none", "armed"}
    /\ aborted \in BOOLEAN
    /\ settled = "pending"
    /\ timer = FALSE
    /\ child = "none"
    /\ helper = "none"
    /\ produced = [s \in Streams |-> 0]
    /\ captured = [s \in Streams |-> 0]
    /\ truncated = FALSE

Alive == child = "running" \/ helper \in {"piped", "detached"}

Pending == settled = "pending"

-----------------------------------------------------------------------------
(* Settling.                                                               *)

KillChildOnly ==
    /\ child' = IF child = "running" THEN "killed" ELSE child
    /\ helper' = helper

\* SIGKILL to the process group: it exists as long as any of its members.
KillProcessTree ==
    /\ child' = IF child = "running" THEN "killed" ELSE child
    /\ helper' = IF helper \in {"piped", "detached"} THEN "gone" ELSE helper

Settle(outcome) == settled' = outcome /\ timer' = FALSE

\* The listener of an aborted signal: it is there once the child was spawned.
OnAbort ==
    IF Pending /\ child # "none"
    THEN KillProcessTree /\ Settle("cancelled")
    ELSE UNCHANGED <<child, helper, settled, timer>>

-----------------------------------------------------------------------------
(* The caller.                                                             *)

CallerAborts ==
    /\ answer = "pending"
    /\ ~aborted
    /\ aborted' = TRUE
    /\ OnAbort
    /\ UNCHANGED <<callerVars, outputVars>>

DeadlinePasses ==
    /\ deadline = "armed"
    /\ deadline' = "fired"
    /\ answer' = "timeout"
    /\ aborted' = TRUE
    /\ IF aborted THEN UNCHANGED <<child, helper, settled, timer>> ELSE OnAbort
    /\ UNCHANGED outputVars

\* The service's promise settled after the runner's and nothing had answered
\* yet; the deadline is called off.
Answers ==
    /\ answer = "pending"
    /\ ~Pending
    /\ answer' \in IF settled = "closed" THEN {"resolved", "rejected"} ELSE {"rejected"}
    /\ deadline' = "none"
    /\ UNCHANGED <<aborted, settled, timer, procVars, outputVars>>

-----------------------------------------------------------------------------
(* The child process.                                                      *)

Unspawned == Pending /\ child = "none"

\* The target was refused before anything was spawned.
DiscoveryFails ==
    /\ Unspawned
    /\ Settle("refused")
    /\ UNCHANGED <<callerVars, aborted, procVars, outputVars>>

SpawnThrows ==
    /\ Unspawned
    /\ Settle("spawn-error")
    /\ UNCHANGED <<callerVars, aborted, procVars, outputVars>>

SpawnIgnoringAbort ==
    /\ Unspawned
    /\ child' \in {"running", "failed"}
    /\ timer' = TRUE
    /\ UNCHANGED <<callerVars, aborted, settled, helper, outputVars>>

\* A signal aborted during discovery is noticed right after the spawn.
Spawn ==
    /\ Unspawned
    /\ IF aborted
       THEN child' = "killed" /\ Settle("cancelled")
       ELSE child' \in {"running", "failed"} /\ timer' = TRUE /\ UNCHANGED settled
    /\ UNCHANGED <<callerVars, aborted, helper, outputVars>>

\* A spawn the operating system refused is reported by an event.
ErrorEvent ==
    /\ child = "failed"
    /\ Pending
    /\ Settle("spawn-error")
    /\ UNCHANGED <<callerVars, aborted, procVars, outputVars>>

TimesOutWhileRunning ==
    /\ timer
    /\ child # "exited"
    /\ KillProcessTree
    /\ Settle("timeout")
    /\ UNCHANGED <<callerVars, aborted, outputVars>>

TimesOut ==
    /\ timer
    /\ KillProcessTree
    /\ Settle("timeout")
    /\ UNCHANGED <<callerVars, aborted, outputVars>>

Forks ==
    /\ child = "running"
    /\ helper = "none"
    /\ helper' \in {"piped", "detached"}
    /\ UNCHANGED <<callerVars, aborted, settled, timer, child, outputVars>>

ChildExits ==
    /\ child = "running"
    /\ child' = "exited"
    /\ UNCHANGED <<callerVars, aborted, settled, timer, helper, outputVars>>

HelperExits ==
    /\ helper \in {"piped", "detached"}
    /\ helper' = "gone"
    /\ UNCHANGED <<callerVars, aborted, settled, timer, child, outputVars>>

\* `close' comes once nobody holds the pipes any more.
Closes ==
    /\ Pending
    /\ child = "exited"
    /\ helper # "piped"
    /\ Settle("closed")
    /\ UNCHANGED <<callerVars, aborted, procVars, outputVars>>

CaptureFull(s, n) ==
    LET room == MaxOutput - captured[s] IN
    /\ captured' = [captured EXCEPT ![s] = IF n >= room THEN MaxOutput ELSE @ + n]
    /\ truncated' = (truncated \/ n >= room)

\* Each stream keeps its own first MaxOutput bytes.
Capture(s, n) ==
    LET room == MaxOutput - captured[s] IN
    /\ captured' = [captured EXCEPT ![s] = IF n > room THEN MaxOutput ELSE @ + n]
    /\ truncated' = (truncated \/ n > room)

\* Chunks still in the pipes are delivered after the run was cut short.
Data(s, n) ==
    /\ child \in {"running", "exited", "killed"}
    /\ settled # "closed"
    /\ produced[s] + n <= MaxBytes
    /\ produced' = [produced EXCEPT ![s] = @ + n]
    /\ Capture(s, n)
    /\ UNCHANGED <<callerVars, aborted, settled, timer, procVars>>

Next ==
    \/ CallerAborts \/ DeadlinePasses \/ Answers
    \/ DiscoveryFails \/ SpawnThrows \/ Spawn \/ ErrorEvent
    \/ TimesOut \/ Closes
    \/ Forks \/ ChildExits \/ HelperExits
    \/ \E s \in Streams, n \in 1..MaxBytes : Data(s, n)

Spec == Init /\ [][Next]_vars

\* Timers fire and promises settle; a process may run or hold its pipes for
\* ever, and nobody has to abort.
FairSpec ==
    /\ Spec
    /\ WF_vars(DiscoveryFails \/ SpawnThrows \/ Spawn)
    /\ WF_vars(ErrorEvent)
    /\ WF_vars(TimesOut)
    /\ WF_vars(Answers)

-----------------------------------------------------------------------------
(* Properties.                                                             *)

Bounded == INSTANCE BoundedRun WITH outcome <- settled, alive <- Alive

\* NodeProcessRunner.exec keeps the promise of BoundedRun: it settles once, and
\* a cancelled or timed-out run leaves no process behind, not even one forked
\* by a child that had exited already.
RunBounded == Bounded!Spec

\* The caller is answered once: a deadline racing the command's own end never
\* answers twice, nor does a result replace the timeout already reported.
AnsweredOnce == [][answer # "pending" => answer' = answer]_vars

\* A caller told of a timeout has no process of that command left on the host
\* (executeWithTimeout aborts what it gives up on), also when the command had not
\* been started yet and its discovery ends later.
TimeoutLeavesNothing == answer = "timeout" /\ settled # "closed" => ~Alive

\* Neither stream is captured beyond its own cap, nothing is dropped that fits,
\* and the result is marked truncated exactly if something was dropped.
OutputAccounted ==
    /\ \A s \in Streams :
          captured[s] = IF produced[s] <= MaxOutput THEN produced[s] ELSE MaxOutput
    /\ truncated <=> \E s \in Streams : produced[s] > MaxOutput

\* The caller is always answered, whatever the process does with its pipes.
CallerAnswered == <>(answer # "pending")

=============================================================================
