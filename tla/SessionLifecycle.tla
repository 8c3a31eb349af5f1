-------------------------- MODULE SessionLifecycle --------------------------
(***************************************************************************)
(* The facade of the Pi extension: which session owns the shared runtime,  *)
(* whether it is engaged or dormant, and which surfaces it has taken over. *)
(* session_start is asynchronous and is superseded by a later start, by a  *)
(* shutdown and by a command that changes the activation; a command runs   *)
(* on the runtime it found when it was typed.                              *)
(***************************************************************************)
EXTENDS Naturals

CONSTANTS
    Starts,          \* session_start events; each composes its own runtime
    Commands,        \* slash commands that may change the activation
    NoRuntime,
    MaxShutdowns     \* bound: shutdowns per behaviour

ASSUME LifecycleAssumption == NoRuntime \notin Starts /\ MaxShutdowns \in Nat

VARIABLES
    generation,      \* of the lifecycle guard
    runtime,         \* the runtime handlers and tools resolve at call time
    start,           \* the session_start handlers
    decision,        \* per runtime, its activation decision
    command,         \* the slash commands
    registered,      \* the routed bash and the container tools are registered
    shutdowns

vars == <<generation, runtime, start, decision, command, registered, shutdowns>>

Decisions == {"no-evidence", "config-never", "opted-out", "active"}

StartStates == [pc : {"idle", "probing", "restoring", "done", "superseded"},
                gen : Nat, never : BOOLEAN, restores : BOOLEAN]

CommandStates == [pc : {"idle", "running", "done"}, rt : Starts \cup {NoRuntime},
                  verb : {"none", "engage", "off"}]

TypeOK ==
    /\ generation \in Nat
    /\ runtime \in Starts \cup {NoRuntime}
    /\ start \in [Starts -> StartStates]
    /\ decision \in [Starts -> Decisions]
    /\ command \in [Commands -> CommandStates]
    /\ registered \in BOOLEAN
    /\ shutdowns \in 0..MaxShutdowns

Unopened == [pc |-> "idle", gen |-> 0, never |-> FALSE, restores |-> FALSE]

Init ==
    /\ generation = 0
    /\ runtime = NoRuntime
    /\ start = [i \in Starts |-> Unopened]
    /\ decision = [i \in Starts |-> "no-evidence"]
    /\ command = [c \in Commands |-> [pc |-> "idle", rt |-> NoRuntime, verb |-> "none"]]
    /\ registered = FALSE
    /\ shutdowns = 0

-----------------------------------------------------------------------------
(* The lifecycle guard.                                                    *)

Invalidate == generation' = generation + 1

IsCurrent(i) == start[i].gen = generation

-----------------------------------------------------------------------------
(* session_start.                                                          *)

\* With the decision taken the surfaces follow in the same step, and so does the
\* restore of a persisted selection in an engaged session.
Applies(i, d, st) ==
    /\ decision' = [decision EXCEPT ![i] = d]
    /\ registered' = (registered \/ d = "active")
    /\ start' = [start EXCEPT ![i] =
          [st EXCEPT !.pc = IF d = "active" /\ st.restores THEN "restoring" ELSE "done"]]

Opened == [Unopened EXCEPT !.gen = generation + 1]

\* The configuration, a tombstone or the workspace's own evidence decides at
\* once; without any of them, but no persisted selection either, the session
\* probes Docker and is dormant meanwhile.
StartBegins(i) ==
    /\ start[i].pc = "idle"
    /\ Invalidate
    /\ runtime' = i
    /\ \/ Applies(i, "config-never", [Opened EXCEPT !.never = TRUE])
       \/ Applies(i, "opted-out", Opened)
       \/ \E restores \in BOOLEAN : Applies(i, "active", [Opened EXCEPT !.restores = restores])
       \/ /\ start' = [start EXCEPT ![i] = [Opened EXCEPT !.pc = "probing"]]
          /\ UNCHANGED <<decision, registered>>
    /\ UNCHANGED <<command, shutdowns>>

StartProbedAnyway(i) ==
    /\ start[i].pc = "probing"
    /\ \E d \in {"active", "no-evidence"} : Applies(i, d, start[i])
    /\ UNCHANGED <<generation, runtime, command, shutdowns>>

\* A probe that fails or is late is no evidence; one that was superseded while
\* it ran decides nothing.
StartProbed(i) ==
    /\ start[i].pc = "probing"
    /\ IF IsCurrent(i)
       THEN \E d \in {"active", "no-evidence"} : Applies(i, d, start[i])
       ELSE /\ start' = [start EXCEPT ![i].pc = "superseded"]
            /\ UNCHANGED <<decision, registered>>
    /\ UNCHANGED <<generation, runtime, command, shutdowns>>

\* The restore writes the store of this start's own runtime; what follows it
\* only notifies.
StartRestored(i) ==
    /\ start[i].pc = "restoring"
    /\ start' = [start EXCEPT ![i].pc = IF IsCurrent(i) THEN "done" ELSE "superseded"]
    /\ UNCHANGED <<generation, runtime, decision, command, registered, shutdowns>>

Shutdown ==
    /\ shutdowns < MaxShutdowns
    /\ runtime # NoRuntime
    /\ shutdowns' = shutdowns + 1
    /\ Invalidate
    /\ runtime' = NoRuntime
    /\ UNCHANGED <<start, decision, command, registered>>

-----------------------------------------------------------------------------
(* use, up, rebuild (engage) and off.                                      *)

\* Without a runtime the command only notifies.
CommandTyped(c, verb) ==
    /\ command[c].pc = "idle"
    /\ runtime # NoRuntime
    /\ command' = [command EXCEPT ![c] = [pc |-> "running", rt |-> runtime, verb |-> verb]]
    /\ UNCHANGED <<generation, runtime, start, decision, registered, shutdowns>>

CommandEnds(c) == command' = [command EXCEPT ![c].pc = "done"]

\* A command that established no target, or found the session engaged already,
\* changes nothing.
CommandEndsIdle(c) ==
    /\ command[c].pc = "running"
    /\ command[c].verb = "engage"
    /\ CommandEnds(c)
    /\ UNCHANGED <<generation, runtime, start, decision, registered, shutdowns>>

EngagesUnregistered(c) ==
    /\ command[c].pc = "running"
    /\ command[c].verb = "engage"
    /\ ~start[command[c].rt].never
    /\ decision[command[c].rt] # "active"
    /\ Invalidate
    /\ decision' = [decision EXCEPT ![command[c].rt] = "active"]
    /\ CommandEnds(c)
    /\ UNCHANGED <<runtime, start, registered, shutdowns>>

\* The configuration "never" outranks an explicit engage.
Engages(c) ==
    /\ command[c].pc = "running"
    /\ command[c].verb = "engage"
    /\ ~start[command[c].rt].never
    /\ decision[command[c].rt] # "active"
    /\ Invalidate
    /\ decision' = [decision EXCEPT ![command[c].rt] = "active"]
    /\ registered' = TRUE
    /\ CommandEnds(c)
    /\ UNCHANGED <<runtime, start, shutdowns>>

TurnsOffSilently(c) ==
    /\ command[c].pc = "running"
    /\ command[c].verb = "off"
    /\ decision' = [decision EXCEPT ![command[c].rt] = "opted-out"]
    /\ CommandEnds(c)
    /\ UNCHANGED <<generation, runtime, start, registered, shutdowns>>

TurnsOff(c) ==
    /\ command[c].pc = "running"
    /\ command[c].verb = "off"
    /\ Invalidate
    /\ decision' = [decision EXCEPT ![command[c].rt] = "opted-out"]
    /\ CommandEnds(c)
    /\ UNCHANGED <<runtime, start, registered, shutdowns>>

-----------------------------------------------------------------------------
(* Where a shell command runs. Both surfaces look the runtime up when they *)
(* are called.                                                             *)

\* Who is engaged routes; who is dormant leaves the shell to the host.
Routed(i) == IF decision[i] = "active" THEN "container" ELSE "host"

\* The agent's bash tool: Pi's own until the replacement has been registered,
\* and the replacement for good afterwards.
BashTool ==
    IF ~registered THEN "host"
    ELSE IF runtime = NoRuntime THEN "refused"
    ELSE Routed(runtime)

\* The operator's `!' and `!!' (user_bash).
UserBash == IF runtime = NoRuntime THEN "refused" ELSE Routed(runtime)

-----------------------------------------------------------------------------

StartStep(i) == StartBegins(i) \/ StartProbed(i) \/ StartRestored(i)

CommandStep(c) ==
    \/ \E verb \in {"engage", "off"} : CommandTyped(c, verb)
    \/ CommandEndsIdle(c) \/ Engages(c) \/ TurnsOff(c)

Next ==
    \/ \E i \in Starts : StartStep(i)
    \/ \E c \in Commands : CommandStep(c)
    \/ Shutdown

Spec == Init /\ [][Next]_vars

-----------------------------------------------------------------------------
(* Properties.                                                             *)

\* "LLM bash and `!'/`!!' cannot drift" (createRoutedBashOperations): whatever
\* the order of starts, probes and commands, while a session runs the agent's
\* bash and the operator's run in the same place. An engaged session whose bash
\* was not taken over would run the agent's commands on the host.
BashNeverDrifts == runtime # NoRuntime => BashTool = UserBash

\* activation "never" outranks every later command of its session: it is never
\* engaged, whatever was turned off and on in between (engageDevcontainerSurfaces).
NeverStaysDormant == \A i \in Starts : start[i].never => decision[i] # "active"

\* An opt-out is undone only by the operator's own use, up or rebuild in the same
\* session: neither a probe that was in flight when `off' ran nor another
\* session's start or command overrides it (session_start, the off branch).
OptOutHolds ==
    [][\A i \in Starts :
          decision[i] = "opted-out" /\ decision'[i] # "opted-out"
          => \E c \in Commands :
                /\ command[c].rt = i
                /\ command[c].verb = "engage"
                /\ command[c].pc = "running" /\ command'[c].pc = "done"]_vars

\* lifecycle.ts, "whoever is not current mutates nothing": a start resuming after
\* it was superseded decides nothing, registers nothing and keeps no runtime.
SupersededMutatesNothing ==
    [][\A i \in Starts :
          start[i].pc \in {"probing", "restoring"} /\ ~IsCurrent(i) /\ start'[i] # start[i]
          => UNCHANGED <<generation, runtime, decision, registered>>]_vars

=============================================================================
