-------------------------- MODULE ExecutionService --------------------------
(***************************************************************************)
(* The execution service: every attempt to act on a container is judged by *)
(* policy, bound to the session's selection, run through a subprocess and  *)
(* recorded in the audit trail; up, build and rebuild take the one         *)
(* lifecycle slot of their workspace.                                      *)
(*                                                                         *)
(* There is one service per session, and the sessions share their          *)
(* workspaces. The selection of a session is its TargetSession's; here it  *)
(* moves by itself. Policy, mappings and subprocesses answer as they like. *)
(***************************************************************************)
EXTENDS Naturals, Sequences, FiniteSets

CONSTANTS
    Attempts,      \* calls of the service's operations
    Services,      \* sessions, each with its own ExecutionService
    Workspaces,
    Containers,
    NoContainer

ASSUME ServiceAssumption == NoContainer \notin Containers

VARIABLES
    attempt,       \* the calls
    selected,      \* per service, what its target store selects
    slots,         \* per service and workspace, lifecycleInFlight
    log,           \* per attempt, its lifecycle transcript
    trail,         \* per attempt, the audit records it has written
    writable,      \* whether the audit directory can be written
    audited        \* per service, whether its configuration enables the audit

vars == <<attempt, selected, slots, log, trail, writable, audited>>

Builds == {"up", "build", "rebuild"}
Destructions == {"stop", "remove"}
Execs == {"container-exec", "bash"}
Kinds == Builds \cup Destructions \cup Execs \cup {"logs"}

\* A selection is reduced to the container it names and whether bind() accepts it.
Selected == [cand : Containers \cup {NoContainer}, bindable : BOOLEAN]

Results == {"none", "done", "busy", "denied", "refused", "unconfirmed", "failed",
            "cancelled", "threw"}

AttemptStates ==
    [pc : {"idle", "selecting", "mapping", "cli", "presenting", "ended"},
     kind : Kinds \cup {"none"},
     svc : Services,
     ws : Workspaces,
     bound : Containers \cup {NoContainer},  \* the container the call may act on
     mapped : BOOLEAN,      \* the routing guard read a path mapping
     confirmed : BOOLEAN,   \* carries a confirmation of exactly this removal
     acted : BOOLEAN,       \* a subprocess was started for it
     result : Results]

LogStates == {"none", "running", "completed", "failed", "denied", "cancelled"}

Records == [authorized : BOOLEAN, target : Containers \cup {NoContainer}, error : BOOLEAN]

TypeOK ==
    /\ attempt \in [Attempts -> AttemptStates]
    /\ selected \in [Services -> Selected]
    /\ slots \in [Services -> [Workspaces -> Builds \cup {"free"}]]
    /\ log \in [Attempts -> LogStates]
    /\ trail \in [Attempts -> Seq(Records)]
    /\ writable \in BOOLEAN
    /\ audited \in [Services -> BOOLEAN]

NothingSelected == [cand |-> NoContainer, bindable |-> FALSE]

Init ==
    /\ attempt \in [Attempts ->
          {[pc |-> "idle", kind |-> "none", svc |-> s, ws |-> w, bound |-> NoContainer,
            mapped |-> FALSE, confirmed |-> FALSE, acted |-> FALSE, result |-> "none"] :
               s \in Services, w \in Workspaces}]
    /\ selected = [s \in Services |-> NothingSelected]
    /\ slots = [s \in Services |-> [w \in Workspaces |-> "free"]]
    /\ log = [a \in Attempts |-> "none"]
    /\ trail = [a \in Attempts |-> <<>>]
    /\ writable = TRUE
    /\ audited \in [Services -> BOOLEAN]

-----------------------------------------------------------------------------
(* The audit boundary and the ends of an attempt.                          *)

DeniedRecord == [authorized |-> FALSE, target |-> NoContainer, error |-> FALSE]

ErrorRecord(c) == [authorized |-> TRUE, target |-> c, error |-> TRUE]

DoneRecord(c) == [authorized |-> TRUE, target |-> c, error |-> FALSE]

\* With the audit disabled a record is accepted and not persisted; otherwise a
\* write that fails throws in place of the attempt's own outcome.
Audited(a) == audited[attempt[a].svc]

WriteThrows(a) == Audited(a) /\ ~writable

EndsRecorded(a, st, result, record) ==
    /\ trail' = IF Audited(a) /\ writable THEN [trail EXCEPT ![a] = Append(@, record)] ELSE trail
    /\ attempt' = [attempt EXCEPT ![a] =
          [st EXCEPT !.pc = "ended", !.result = IF WriteThrows(a) THEN "threw" ELSE result]]

EndsUnrecorded(a, st, result) ==
    /\ attempt' = [attempt EXCEPT ![a] = [st EXCEPT !.pc = "ended", !.result = result]]
    /\ UNCHANGED trail

Continues(a, st, pc) ==
    /\ attempt' = [attempt EXCEPT ![a] = [st EXCEPT !.pc = pc, !.acted = (@ \/ pc = "cli")]]
    /\ UNCHANGED trail

\* How the CLI can fail, a report that cannot be parsed included.
CliFailures == {"failed", "cancelled"}

FinishLog(a, state) == log' = [log EXCEPT ![a] = state]

\* A policy denial is classified by the error thrown, which is the writer's if the
\* record's write throws.
FinishDenied(a) == FinishLog(a, IF WriteThrows(a) THEN "failed" ELSE "denied")

Starting(a, kind) ==
    LET st == attempt[a] IN st.pc = "idle" /\ st.kind = "none" /\ kind \in Kinds

As(a, kind) == [attempt[a] EXCEPT !.kind = kind]

-----------------------------------------------------------------------------
(* container-exec and bash.                                                *)

\* Policy denies any call but a build before anything else happens.
Denied(a, kind) ==
    /\ Starting(a, kind)
    /\ kind \notin Builds
    /\ EndsRecorded(a, As(a, kind), "denied", DeniedRecord)
    /\ IF kind \in Destructions THEN FinishDenied(a) ELSE UNCHANGED log
    /\ UNCHANGED <<selected, slots, writable, audited>>

\* bind() froze a context: container-exec reads the path mapping next; bash
\* goes to the workspace check.
Bound(a, st) ==
    IF st.kind = "container-exec"
    THEN Continues(a, st, "mapping")
    ELSE \/ Continues(a, st, "cli")
         \/ EndsRecorded(a, st, "refused", ErrorRecord(NoContainer))

Bind(a, st) ==
    IF selected[st.svc].bindable
    THEN Bound(a, [st EXCEPT !.bound = selected[st.svc].cand])
    ELSE EndsRecorded(a, st, "refused", ErrorRecord(NoContainer))

ExecStarts(a, kind) ==
    /\ Starting(a, kind)
    /\ kind \in Execs
    /\ Bind(a, As(a, kind))
    /\ UNCHANGED <<selected, slots, log, writable, audited>>

\* An empty, stopped or missing selection is offered to autoSelect first.
ExecAutoSelects(a, kind) ==
    /\ Starting(a, kind)
    /\ kind \in Execs
    /\ ~selected[attempt[a].svc].bindable
    /\ Continues(a, As(a, kind), "selecting")
    /\ UNCHANGED <<selected, slots, log, writable, audited>>

ExecSelected(a) ==
    /\ attempt[a].pc = "selecting"
    /\ \/ Bind(a, attempt[a])
       \/ EndsRecorded(a, attempt[a], "refused", ErrorRecord(NoContainer))
    /\ UNCHANGED <<selected, slots, log, writable, audited>>

\* The argv names a path of the host that is another file in the container.
ExecHostPath(a) ==
    /\ attempt[a].pc = "mapping"
    /\ EndsRecorded(a, attempt[a], "denied",
                    [authorized |-> FALSE, target |-> attempt[a].bound, error |-> TRUE])
    /\ UNCHANGED <<selected, slots, log, writable, audited>>

\* The mapping read fails; or the request comes from another project; or the
\* command is run.
ExecMapped(a) ==
    /\ attempt[a].pc = "mapping"
    /\ \/ EndsRecorded(a, attempt[a], "failed", ErrorRecord(attempt[a].bound))
       \/ EndsRecorded(a, attempt[a], "refused", ErrorRecord(NoContainer))
       \/ \E m \in BOOLEAN : Continues(a, [attempt[a] EXCEPT !.mapped = m], "cli")
    /\ UNCHANGED <<selected, slots, log, writable, audited>>

ExecFails(a) ==
    /\ attempt[a].pc = "cli"
    /\ attempt[a].kind \in Execs
    /\ \E r \in CliFailures :
          EndsRecorded(a, attempt[a], r, ErrorRecord(attempt[a].bound))
    /\ UNCHANGED <<selected, slots, log, writable, audited>>

\* The command has run. Without a mapping in hand the workspace is presented
\* through another registry read.
ExecDone(a) ==
    /\ attempt[a].pc = "cli"
    /\ attempt[a].kind \in Execs
    /\ IF attempt[a].mapped
       THEN EndsRecorded(a, attempt[a], "done", DoneRecord(attempt[a].bound))
       ELSE Continues(a, attempt[a], "presenting")
    /\ UNCHANGED <<selected, slots, log, writable, audited>>

\* That read is outside every audited region: its failure is the call's.
ExecPresented(a) ==
    /\ attempt[a].pc = "presenting"
    /\ \/ EndsRecorded(a, attempt[a], "done", DoneRecord(attempt[a].bound))
       \/ EndsUnrecorded(a, attempt[a], "threw")
    /\ UNCHANGED <<selected, slots, log, writable, audited>>

-----------------------------------------------------------------------------
(* up, build and rebuild: one at a time per workspace of a service.        *)

ClaimIgnoringSlot(a, kind) ==
    /\ Starting(a, kind)
    /\ kind \in Builds

\* claimLifecycleSlot: a check and a write with no await between.
Claim(a, kind) ==
    /\ Starting(a, kind)
    /\ kind \in Builds
    /\ slots[attempt[a].svc][attempt[a].ws] = "free"

\* The attempt that finds the slot taken leaves no record and no transcript.
BuildBusy(a, kind) ==
    /\ Starting(a, kind)
    /\ kind \in Builds
    /\ slots[attempt[a].svc][attempt[a].ws] # "free"
    /\ EndsUnrecorded(a, As(a, kind), "busy")
    /\ UNCHANGED <<selected, slots, log, writable, audited>>

\* Policy is asked with the slot held; the denial gives it back.
BuildDenied(a, kind) ==
    /\ Claim(a, kind)
    /\ EndsRecorded(a, As(a, kind), "denied", DeniedRecord)
    /\ FinishDenied(a)
    /\ UNCHANGED <<selected, slots, writable, audited>>

\* The calls that take a container away, and what they are called with: a
\* confirmation of exactly that removal or not.
Removals == Destructions \cup {"rebuild"}

Offered(kind) == IF kind \in Removals THEN BOOLEAN ELSE {FALSE}

ConfirmsDestructions(kind, conf) == kind \in Destructions => conf

Confirms(kind, conf) == kind \in Removals => conf

\* A rebuild whose confirmation does not name this workspace removes nothing.
\* Alone among the ends it is recorded before its transcript is finished, which
\* a write that throws leaves open.
RebuildUnconfirmed(a) ==
    /\ Claim(a, "rebuild")
    /\ \E conf \in Offered("rebuild") : ~Confirms("rebuild", conf)
    /\ EndsRecorded(a, As(a, "rebuild"), "unconfirmed", ErrorRecord(NoContainer))
    /\ FinishLog(a, IF WriteThrows(a) THEN "running" ELSE "denied")
    /\ UNCHANGED <<selected, slots, writable, audited>>

BuildStarts(a, kind) ==
    /\ Claim(a, kind)
    /\ slots' = [slots EXCEPT ![attempt[a].svc][attempt[a].ws] = kind]
    /\ \E conf \in Offered(kind) :
          /\ Confirms(kind, conf)
          /\ Continues(a, [As(a, kind) EXCEPT !.confirmed = conf], "cli")
    /\ FinishLog(a, "running")
    /\ UNCHANGED <<selected, writable, audited>>

ReleaseOnSuccess(a) ==
    slots' = IF attempt'[a].result = "done"
             THEN [slots EXCEPT ![attempt[a].svc][attempt[a].ws] = "free"] ELSE slots

\* The slot is given back by the operation that holds it, in a `finally'.
Release(a) ==
    LET held == slots[attempt[a].svc][attempt[a].ws] IN
    slots' = IF held = attempt[a].kind
             THEN [slots EXCEPT ![attempt[a].svc][attempt[a].ws] = "free"] ELSE slots

BuildDoneUnfinished(a) ==
    /\ attempt[a].pc = "cli"
    /\ attempt[a].kind \in Builds
    /\ \E c \in Containers :
          EndsRecorded(a, [attempt[a] EXCEPT !.bound = c], "done", DoneRecord(c))
    /\ Release(a)
    /\ UNCHANGED <<selected, log, writable, audited>>

\* up and rebuild name the container the CLI reported; build has none.
BuildDone(a) ==
    /\ attempt[a].pc = "cli"
    /\ attempt[a].kind \in Builds
    /\ \E c \in Containers :
          LET made == IF attempt[a].kind = "build" THEN NoContainer ELSE c
          IN  EndsRecorded(a, [attempt[a] EXCEPT !.bound = made], "done", DoneRecord(made))
    /\ FinishLog(a, "completed")
    /\ Release(a)
    /\ UNCHANGED <<selected, writable, audited>>

BuildFailsUnrecorded(a) ==
    /\ attempt[a].pc = "cli"
    /\ attempt[a].kind \in Builds
    /\ \E r \in CliFailures : EndsUnrecorded(a, attempt[a], r) /\ FinishLog(a, r)
    /\ Release(a)
    /\ UNCHANGED <<selected, writable, audited>>

BuildFails(a) ==
    /\ attempt[a].pc = "cli"
    /\ attempt[a].kind \in Builds
    /\ \E r \in CliFailures :
          /\ EndsRecorded(a, attempt[a], r, ErrorRecord(NoContainer))
          /\ FinishLog(a, r)
    /\ Release(a)
    /\ UNCHANGED <<selected, writable, audited>>

-----------------------------------------------------------------------------
(* stop, remove and logs: a container the caller names, if it is selected. *)

OnContainer == Destructions \cup {"logs"}

BindContainer(s, c) == selected[s].cand = c

\* The refusal is never recorded under the caller's identity.
ContainerRefused(a, kind) ==
    /\ Starting(a, kind)
    /\ kind \in OnContainer
    /\ \E c \in Containers : ~BindContainer(attempt[a].svc, c)
    /\ EndsRecorded(a, As(a, kind), "refused", ErrorRecord(NoContainer))
    /\ \/ kind \in Destructions /\ \E r \in {"denied", "failed"} : FinishLog(a, r)
       \/ kind \notin Destructions /\ UNCHANGED log
    /\ UNCHANGED <<selected, slots, writable, audited>>

\* The adapter runs nothing unless the confirmation names this action and
\* container.
DestructionUnconfirmed(a, kind) ==
    /\ Starting(a, kind)
    /\ kind \in Destructions
    /\ \E c \in Containers :
          /\ BindContainer(attempt[a].svc, c)
          /\ \E conf \in Offered(kind) : ~Confirms(kind, conf)
          /\ EndsRecorded(a, As(a, kind), "unconfirmed", ErrorRecord(c))
    /\ FinishLog(a, "denied")
    /\ UNCHANGED <<selected, slots, writable, audited>>

ContainerStarts(a, kind) ==
    /\ Starting(a, kind)
    /\ kind \in OnContainer
    /\ \E c \in Containers, conf \in Offered(kind) :
          /\ BindContainer(attempt[a].svc, c)
          /\ Confirms(kind, conf)
          /\ Continues(a, [As(a, kind) EXCEPT !.bound = c, !.confirmed = conf], "cli")
    /\ IF kind \in Destructions THEN FinishLog(a, "running") ELSE UNCHANGED log
    /\ UNCHANGED <<selected, slots, writable, audited>>

\* The record names the container bound when the call was made.
ContainerDone(a) ==
    /\ attempt[a].pc = "cli"
    /\ attempt[a].kind \in OnContainer
    /\ EndsRecorded(a, attempt[a], "done", DoneRecord(attempt[a].bound))
    /\ IF attempt[a].kind \in Destructions THEN FinishLog(a, "completed") ELSE UNCHANGED log
    /\ UNCHANGED <<selected, slots, writable, audited>>

ContainerFailsUnderSelection(a) ==
    /\ attempt[a].pc = "cli"
    /\ attempt[a].kind \in OnContainer
    /\ EndsRecorded(a, attempt[a], "failed", ErrorRecord(selected[attempt[a].svc].cand))
    /\ IF attempt[a].kind \in Destructions THEN FinishLog(a, "failed") ELSE UNCHANGED log
    /\ UNCHANGED <<selected, slots, writable, audited>>

ContainerFails(a) ==
    /\ attempt[a].pc = "cli"
    /\ attempt[a].kind \in OnContainer
    /\ EndsRecorded(a, attempt[a], "failed", ErrorRecord(attempt[a].bound))
    /\ IF attempt[a].kind \in Destructions THEN FinishLog(a, "failed") ELSE UNCHANGED log
    /\ UNCHANGED <<selected, slots, writable, audited>>

-----------------------------------------------------------------------------

\* The session's commands and repairs move its selection meanwhile.
SelectionMoves(s) ==
    /\ \E sel \in Selected :
          /\ sel.cand = NoContainer => ~sel.bindable
          /\ sel # selected[s]
          /\ selected' = [selected EXCEPT ![s] = sel]
    /\ UNCHANGED <<attempt, slots, log, trail, writable, audited>>

\* The audit directory fills up, or is made writable again.
TrailFlips ==
    /\ writable' = ~writable
    /\ UNCHANGED <<attempt, selected, slots, log, trail, audited>>

Call(a) ==
    \/ \E kind \in Kinds :
          \/ Denied(a, kind) \/ ExecStarts(a, kind) \/ ExecAutoSelects(a, kind)
          \/ BuildBusy(a, kind) \/ BuildDenied(a, kind) \/ BuildStarts(a, kind)
          \/ ContainerRefused(a, kind) \/ DestructionUnconfirmed(a, kind)
          \/ ContainerStarts(a, kind)
    \/ RebuildUnconfirmed(a)

Progress(a) ==
    \/ ExecSelected(a) \/ ExecHostPath(a) \/ ExecMapped(a) \/ ExecFails(a) \/ ExecDone(a) \/ ExecPresented(a)
    \/ BuildDone(a) \/ BuildFails(a)
    \/ ContainerDone(a) \/ ContainerFails(a)

Next ==
    \/ \E a \in Attempts : Call(a) \/ Progress(a)
    \/ \E s \in Services : SelectionMoves(s)
    \/ TrailFlips

Spec == Init /\ [][Next]_vars

\* A continuation runs when what it awaits settles, and every subprocess is
\* bounded by a timeout or its caller's abort.
FairSpec == Spec /\ \A a \in Attempts : WF_vars(Progress(a))

-----------------------------------------------------------------------------
(* Properties.                                                             *)

Ended(a) == attempt[a].pc = "ended"

Building(a, s, w) ==
    /\ attempt[a].pc = "cli"
    /\ attempt[a].kind \in Builds
    /\ attempt[a].svc = s
    /\ attempt[a].ws = w

\* lifecycleInFlight names exactly the operation in flight: a workspace never
\* has two builds of one service, a held slot has its holder (denied, failed,
\* unconfirmed and unrecorded attempts leak nothing), and a release never takes
\* the slot of another operation.
SlotHeldByItsBuild ==
    \A s \in Services, w \in Workspaces :
        LET building == {a \in Attempts : Building(a, s, w)} IN
        IF slots[s][w] = "free" THEN building = {}
        ELSE \E a \in building : building = {a} /\ attempt[a].kind = slots[s][w]

\* The trail tells the truth about each attempt (audit, authorize): at most one
\* record; a denial only of what never ran; an error-free record only of what
\* ran; and a target only if it is the container the attempt was bound to,
\* however the selection moved before the record was written.
TrailTruthful ==
    \A a \in Attempts :
        /\ Len(trail[a]) <= 1
        /\ trail[a] # <<>> =>
             LET r == trail[a][1] IN
             /\ Ended(a)
             /\ ~r.authorized => ~attempt[a].acted
             /\ ~r.error /\ r.authorized => attempt[a].acted /\ attempt[a].result = "done"
             /\ r.target # NoContainer /\ attempt[a].acted => r.target = attempt[a].bound

\* An attempt that has ended has its record exactly if its session's audit is
\* enabled and it neither found the slot full nor threw: on every path of the eight
\* operations, and whenever the directory failed. With the audit disabled there is
\* never a record.
AnsweredIsRecorded ==
    \A a \in Attempts :
        Ended(a) =>
            (trail[a] # <<>> <=> Audited(a) /\ attempt[a].result \notin {"busy", "threw"})

\* No container is stopped, removed or replaced without a confirmation of
\* exactly that (isFreshConfirmation, matchesRebuildConfirmation).
RemovalsConfirmed ==
    \A a \in Attempts :
        attempt[a].acted /\ attempt[a].kind \in Removals => attempt[a].confirmed

\* A transcript is finished when its operation has ended, as what it ended as;
\* the one the code leaves open is of an unconfirmed rebuild whose record could
\* not be written (finishLifecycleLog, runRebuild).
TranscriptsFinished ==
    \A a \in Attempts :
        Ended(a) =>
            /\ log[a] = "running" => ~attempt[a].acted /\ attempt[a].result = "threw"
            /\ log[a] = "completed" => attempt[a].result \in {"done", "threw"}
            /\ attempt[a].result = "done" /\ attempt[a].kind \in Builds \cup Destructions
               => log[a] = "completed"

\* A workspace whose build has started can be built again: its slot is freed.
SlotsFreed ==
    \A s \in Services, w \in Workspaces : slots[s][w] # "free" ~> slots[s][w] = "free"

\* execution-service.ts, lifecycleInFlight: "Two sessions can point at the same
\* workspace and both call `up` ... Refusing the duplicate": one operation, one
\* owner.
OneBuildPerWorkspace ==
    \A w \in Workspaces :
        Cardinality({a \in Attempts : \E s \in Services : Building(a, s, w)}) <= 1

\* README.md, Audit: "Every operation writes one host-local JSONL record". While
\* the audit is enabled and the trail can be written, a command that ran in a
\* container has its record.
RanIsRecorded ==
    [][\A a \in Attempts :
          /\ attempt[a].pc # "ended"
          /\ attempt'[a].pc = "ended"
          /\ attempt'[a].acted
          /\ Audited(a)
          /\ writable
          => trail'[a] # <<>>]_vars

=============================================================================
