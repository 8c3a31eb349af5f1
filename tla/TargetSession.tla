--------------------------- MODULE TargetSession ---------------------------
(***************************************************************************)
(* One engaged-or-dormant Pi session: container requests, the operator's   *)
(* slash commands and the restore of a persisted selection all read Docker,*)
(* decide and write the target store, each across awaits the others run    *)
(* in; containers also start, stop and vanish behind the session's back.   *)
(*                                                                         *)
(* A step is the code between two awaits. A request is granted by policy;  *)
(* ExecutionService models what is refused and audited.                    *)
(***************************************************************************)
EXTENDS TargetStore

CONSTANTS
    Execs,             \* container requests; each is made once
    Command, Restore,  \* the operator's command line and session_start's restore
    NoCache,           \* the cache when it holds nothing fresh
    InitialSessions,   \* container states and the intent an earlier session persisted
    MaxEvents          \* bound: slash commands, outside changes and cached reads

VARIABLES
    world,         \* the containers as Docker has them
    active,        \* activation.decision.active
    intent,        \* the newest selection record of the session log
    cache,         \* the last registry read cached; it may have expired
    exec,          \* the container requests
    op,            \* the slash command and the restore in flight
    eventsLeft

vars == <<selection, queue, world, active, intent, cache, exec, op, eventsLeft>>

Intents == [kind : {"nothing", "selected", "cleared"},
            ws : Workspaces \cup {NoWorkspace}, cand : Containers \cup {NoContainer},
            config : Configs \cup {NoConfig}]

\* What a command asks for has the shape of what a request is bound to.
Hints == Contexts

NoHint == NoContext

Actors == {Command, Restore}

Verbs == {"none", "use", "off", "list", "up", "rebuild", "stop", "remove", "restore"}

ExecStates ==
    [pc : {"idle", "read", "decide", "bind", "bound", "ran", "refused"},
     dir : Dirs,
     parked : Selections,     \* the selection autoSelect found when it was called
     seen : Reads,            \* the registry read it decides from
     ctx : Contexts]

IdleExec == [pc |-> "idle", dir |-> SessionCwd, parked |-> NoSelection,
             seen |-> NothingSeen, ctx |-> NoContext]

OpStates ==
    [pc : {"idle", "read", "pick", "resolve", "cli", "refresh", "reconcile", "commit",
           "confirm", "docker"},
     verb : Verbs,
     hint : Hints,            \* the workspace, container and configuration asked for
     seen : Reads,
     target : Selections]     \* the selection it asked the store to commit

IdleOp == [pc |-> "idle", verb |-> "none", hint |-> NoHint,
           seen |-> NothingSeen, target |-> NoSelection]

ASSUME SessionAssumption ==
    /\ Command # Restore
    /\ Actors \cap Execs = {}
    /\ Callers = Execs \cup Actors
    /\ InitialSessions \subseteq [world : Reads, intent : Intents]
    /\ MaxEvents \in Nat
    /\ NoCache \notin Reads

TypeOK ==
    /\ StoreTypeOK
    /\ world \in Reads
    /\ active \in BOOLEAN
    /\ intent \in Intents
    /\ cache \in Reads \cup {NoCache}
    /\ exec \in [Execs -> ExecStates]
    /\ op \in [Actors -> OpStates]
    /\ eventsLeft \in 0..MaxEvents

-----------------------------------------------------------------------------
(* Session start: the decision under activation "workspace", the restore.  *)

DecideActivation(i, w) ==
    /\ i.kind # "cleared"
    /\ \/ SessionCwd \in ConfigWorkspaces
       \/ SessionCwd \in Workspaces /\ RunningOf(SessionCwd, w) # {}
       \/ i.kind = "selected"

RestoreOp(i) ==
    [IdleOp EXCEPT !.pc = "read", !.verb = "restore",
                   !.hint = [ws |-> i.ws, cand |-> i.cand, config |-> i.config]]

Init ==
    /\ StoreInit
    /\ \E i \in InitialSessions : world = i.world /\ intent = i.intent
    /\ active = DecideActivation(intent, world)
    /\ cache = NoCache
    /\ exec = [e \in Execs |-> IdleExec]
    /\ op = [p \in Actors |->
                IF p = Restore /\ intent.kind = "selected" /\ active
                THEN RestoreOp(intent) ELSE IdleOp]
    /\ eventsLeft = MaxEvents

-----------------------------------------------------------------------------
(* Container requests. *)

\* The request bound to a selection, or refused by bind().
BoundTo(e, r, sel) ==
    exec' = [exec EXCEPT ![e] =
               IF Bindable(sel)
               THEN [IdleExec EXCEPT !.pc = "bound", !.dir = r.dir, !.ctx = ContextOf(sel)]
               ELSE [IdleExec EXCEPT !.pc = "refused"]]

MayAutoSelect(sel) == sel.status \in {"none"} \cup Repairable

\* The activation decision is checked once, before the first await.
AutoSelectReads(sel, dir) ==
    /\ active
    /\ MayAutoSelect(sel)
    /\ sel.status = "none" => dir = SessionCwd

\* A selection autoSelect is not called for is bound in the same step.
ExecStartBound(e, d) ==
    /\ exec[e].pc = "idle"
    /\ ~MayAutoSelect(selection)
    /\ BoundTo(e, [exec[e] EXCEPT !.dir = d], selection)
    /\ UNCHANGED <<selection, queue, world, active, intent, cache, op, eventsLeft>>

\* autoSelect returns without reading when it may not select for this request.
ExecStartAutoSelect(e, d) ==
    /\ exec[e].pc = "idle"
    /\ MayAutoSelect(selection)
    /\ exec' = [exec EXCEPT ![e].dir = d, ![e].parked = selection,
                            ![e].pc = IF AutoSelectReads(selection, d) THEN "read" ELSE "bind"]
    /\ UNCHANGED <<selection, queue, world, active, intent, cache, op, eventsLeft>>

SeenByExec(e, seen) == exec' = [exec EXCEPT ![e].pc = "decide", ![e].seen = seen]

\* A parked selection is repaired from a read the cache may still hold; an
\* empty one is filled from a read made now.
ExecRead(e) ==
    /\ exec[e].pc = "read"
    /\ \/ /\ exec[e].parked.status = "none"
          /\ SeenByExec(e, world)
          /\ UNCHANGED cache
       \/ /\ exec[e].parked.status # "none"
          /\ cache \in Reads
          /\ SeenByExec(e, cache)
          /\ UNCHANGED cache
       \/ /\ exec[e].parked.status # "none"
          /\ SeenByExec(e, world)
          /\ cache' = world
    /\ UNCHANGED <<selection, queue, world, active, intent, op, eventsLeft>>

\* A failing registry read is a failing request: autoSelect does not catch it.
ExecReadFails(e) ==
    /\ exec[e].pc = "read"
    /\ exec' = [exec EXCEPT ![e] = [IdleExec EXCEPT !.pc = "refused"]]
    /\ UNCHANGED <<selection, queue, world, active, intent, cache, op, eventsLeft>>

AutoSelectKindAlways(r) == "select"

AutoSelectKind(r) == IF r.parked.status = "none" THEN "selectIfNone" ELSE "select"

AutoSelectTargets(r) ==
    IF r.parked.status = "none"
    THEN ResolveTargetAdoption(r.dir, r.seen)
    ELSE ResolveTargetRepair(r.parked, r.dir, r.seen)

ExecDecide(e) ==
    /\ exec[e].pc = "decide"
    /\ \/ \E t \in AutoSelectTargets(exec[e]) : Enqueue(AutoSelectKind(exec[e]), t, e)
       \/ AutoSelectTargets(exec[e]) = {} /\ UNCHANGED queue
    /\ exec' = [exec EXCEPT ![e].pc = "bind", ![e].seen = NothingSeen]
    /\ UNCHANGED <<selection, world, active, intent, cache, op, eventsLeft>>

ExecBind(e) ==
    /\ exec[e].pc = "bind"
    /\ ~Pending(e)
    /\ BoundTo(e, exec[e], selection)
    /\ UNCHANGED <<selection, queue, world, active, intent, cache, op, eventsLeft>>

ExecRun(e) ==
    /\ exec[e].pc = "bound"
    /\ exec' = [exec EXCEPT ![e].pc = IF InScope(exec[e].dir, exec[e].ctx) THEN "ran" ELSE "refused"]
    /\ UNCHANGED <<selection, queue, world, active, intent, cache, op, eventsLeft>>

ExecStep(e) ==
    \/ \E d \in Dirs : ExecStartBound(e, d) \/ ExecStartAutoSelect(e, d)
    \/ ExecRead(e) \/ ExecReadFails(e) \/ ExecDecide(e) \/ ExecBind(e) \/ ExecRun(e)

-----------------------------------------------------------------------------
(* Slash commands. One is in flight at a time. *)

CommandStarts(verb, pc, hint) ==
    /\ op[Command].pc = "idle"
    /\ eventsLeft > 0
    /\ eventsLeft' = eventsLeft - 1
    /\ op' = [op EXCEPT ![Command] =
                [IdleOp EXCEPT !.pc = pc, !.verb = verb, !.hint = hint]]

\* use, up, rebuild: a workspace, and an optional --config.
TargetCommand(verb, w, c) ==
    /\ CommandStarts(verb, "read", [NoHint EXCEPT !.ws = w, !.config = c])
    /\ UNCHANGED <<selection, queue, world, active, intent, cache, exec>>

\* list re-resolves a missing selection, and changes nothing otherwise.
ListCommand ==
    /\ selection.status = "selected-missing"
    /\ CommandStarts("list", "read", [NoHint EXCEPT !.ws = selection.ws])
    /\ UNCHANGED <<selection, queue, world, active, intent, cache, exec>>

OffCommandAtOnce ==
    /\ CommandStarts("off", "commit", NoHint)
    /\ selection' = NoSelection
    /\ UNCHANGED <<queue, world, active, intent, cache, exec>>

OffCommand ==
    /\ CommandStarts("off", "commit", NoHint)
    /\ Enqueue("clear", NoSelection, Command)
    /\ UNCHANGED <<selection, world, active, intent, cache, exec>>

\* stop, remove: the container the operator is asked about is the one the
\* selection names now.
DestructiveCommand(verb) ==
    /\ selection.cand # NoContainer
    /\ CommandStarts(verb, "confirm", [NoHint EXCEPT !.ws = selection.ws, !.cand = selection.cand])
    /\ UNCHANGED <<selection, queue, world, active, intent, cache, exec>>

StepTo(p, pc) == op' = [op EXCEPT ![p].pc = pc]

Ends(p) == op' = [op EXCEPT ![p] = IdleOp]

AfterRead(verb) ==
    CASE verb = "use" -> "pick"
      [] verb \in {"up", "rebuild"} -> "resolve"
      [] OTHER -> "reconcile"

Read(p) ==
    /\ op[p].pc = "read"
    /\ op' = [op EXCEPT ![p].pc = AfterRead(op[p].verb), ![p].seen = world]
    /\ UNCHANGED <<selection, queue, world, active, intent, cache, exec, eventsLeft>>

\* The read failed, the operator cancelled a picker or a prompt, or the CLI or
\* Docker reported an error: the command ends with the store as it is.
Abandon(p) ==
    /\ op[p].pc \in {"read", "pick", "resolve", "cli", "refresh", "confirm", "docker"}
    /\ Ends(p)
    /\ UNCHANGED <<selection, queue, world, active, intent, cache, exec, eventsLeft>>

\* An unknown --config ends the command before anything is selected.
KnownConfig(w, c) == c \in ConfigsOf[w] \cup {NoConfig}

Pick ==
    /\ op[Command].pc = "pick"
    /\ LET h == op[Command].hint IN
        /\ Discovered(h.ws, op[Command].seen)
        /\ KnownConfig(h.ws, h.config)
        /\ \E t \in UseSelections(h.ws, h.config, op[Command].seen) :
            /\ Enqueue("select", t, Command)
            /\ op' = [op EXCEPT ![Command].pc = "commit", ![Command].target = t,
                                ![Command].seen = NothingSeen]
    /\ UNCHANGED <<selection, world, active, intent, cache, exec, eventsLeft>>

\* up, rebuild: settle the configuration against the selection of this moment.
Resolve ==
    /\ op[Command].pc = "resolve"
    /\ LET h == op[Command].hint IN
        /\ KnownConfig(h.ws, h.config)
        /\ op' = [op EXCEPT ![Command].pc = "cli",
                            ![Command].seen = NothingSeen,
                            ![Command].hint.config = UpConfig(h.ws, h.config, selection)]
    /\ UNCHANGED <<selection, queue, world, active, intent, cache, exec, eventsLeft>>

UpCli ==
    /\ op[Command].pc = "cli"
    /\ op[Command].hint.ws \in ConfigWorkspaces
    /\ world' \in IF op[Command].verb = "up" THEN UpOutcomes(op[Command].hint.ws, world)
                  ELSE RebuildOutcomes(op[Command].hint.ws, world)
    /\ StepTo(Command, "refresh")
    /\ UNCHANGED <<selection, queue, active, intent, cache, exec, eventsLeft>>

\* The refresh drops the cached read and keeps the one it makes. What `up' was
\* given as a configuration is not part of the hint it reconciles with.
Refresh ==
    /\ op[Command].pc = "refresh"
    /\ cache' = world
    /\ op' = [op EXCEPT ![Command].pc = "reconcile", ![Command].seen = world,
                        ![Command].hint.config = NoConfig]
    /\ UNCHANGED <<selection, queue, world, active, intent, exec, eventsLeft>>

Reconcile(p) ==
    /\ op[p].pc = "reconcile"
    /\ \E t \in ReconcileSelection(op[p].hint, selection, op[p].seen) :
        /\ Enqueue("select", t, p)
        /\ op' = [op EXCEPT ![p].pc = "commit", ![p].target = t, ![p].seen = NothingSeen]
    /\ UNCHANGED <<selection, world, active, intent, cache, exec, eventsLeft>>

SelectedIntent(sel) == [kind |-> "selected", ws |-> sel.ws, cand |-> sel.cand, config |-> sel.config]

ClearedIntent == [kind |-> "cleared", ws |-> NoWorkspace, cand |-> NoContainer, config |-> NoConfig]

\* The store has committed the operation this actor was waiting for.
Committed(p) == op[p].pc = "commit" /\ ~Pending(p)

\* Engaging the surfaces needs a target the command established and a store
\* that would bind or refuse it as stopped.
Engages(sel) == Established(sel) /\ selection.status \in {"selected-valid", "selected-stopped"}

\* `use' records and engages what the store holds now.
FinishUse ==
    /\ Committed(Command)
    /\ op[Command].verb = "use"
    /\ intent' = IF selection.ws # NoWorkspace THEN SelectedIntent(selection) ELSE intent
    /\ active' = (active \/ Engages(selection))
    /\ Ends(Command)
    /\ UNCHANGED <<selection, queue, world, cache, exec, eventsLeft>>

\* up, rebuild, list record what they reconciled; only the first two engage.
FinishReconciled ==
    /\ Committed(Command)
    /\ op[Command].verb \in {"up", "rebuild", "list"}
    /\ LET t == op[Command].target IN
        /\ intent' = IF t.status = "selected-missing" THEN intent ELSE SelectedIntent(t)
        /\ active' = (active \/ (op[Command].verb # "list" /\ Engages(t)))
    /\ Ends(Command)
    /\ UNCHANGED <<selection, queue, world, cache, exec, eventsLeft>>

FinishOff ==
    /\ Committed(Command)
    /\ op[Command].verb = "off"
    /\ intent' = ClearedIntent
    /\ active' = FALSE
    /\ Ends(Command)
    /\ UNCHANGED <<selection, queue, world, cache, exec, eventsLeft>>

FinishRestore ==
    /\ Committed(Restore)
    /\ Ends(Restore)
    /\ UNCHANGED <<selection, queue, world, active, intent, cache, exec, eventsLeft>>

\* The operator said yes: the service acts only on the container the session
\* still selects.
BindContainer(c) ==
    /\ selection.status \in {"selected-valid", "selected-stopped"}
    /\ selection.cand = c

Confirm ==
    /\ op[Command].pc = "confirm"
    /\ IF BindContainer(op[Command].hint.cand) THEN StepTo(Command, "docker") ELSE Ends(Command)
    /\ UNCHANGED <<selection, queue, world, active, intent, cache, exec, eventsLeft>>

\* The selection is left as it is, even when the container is gone.
DockerDone ==
    /\ op[Command].pc = "docker"
    /\ LET c == op[Command].hint.cand IN
        /\ world[c] # "absent"
        /\ world' = [world EXCEPT ![c] = IF op[Command].verb = "stop" THEN "exited" ELSE "absent"]
    /\ Ends(Command)
    /\ UNCHANGED <<selection, queue, active, intent, cache, exec, eventsLeft>>

StartCommand ==
    \/ \E w \in Workspaces, c \in Configs \cup {NoConfig} :
          \E verb \in {"use", "up", "rebuild"} : TargetCommand(verb, w, c)
    \/ ListCommand
    \/ OffCommand
    \/ \E verb \in {"stop", "remove"} : DestructiveCommand(verb)

OpStep(p) ==
    Read(p) \/ Reconcile(p) \/ Abandon(p)

CommandStep ==
    \/ OpStep(Command)
    \/ Pick \/ Resolve \/ UpCli \/ Refresh
    \/ FinishUse \/ FinishReconciled \/ FinishOff
    \/ Confirm \/ DockerDone

RestoreStep == OpStep(Restore) \/ FinishRestore

-----------------------------------------------------------------------------
(* The store's queue, the read cache and the world outside the session.    *)

Commit ==
    /\ CommitHead
    /\ UNCHANGED <<world, active, intent, cache, exec, op, eventsLeft>>

\* A path mapping (of a host run, say) read the registry and left it cached.
CachedRead ==
    /\ eventsLeft > 0
    /\ eventsLeft' = eventsLeft - 1
    /\ cache' = world
    /\ UNCHANGED <<selection, queue, world, active, intent, exec, op>>

\* Another client of the same Docker daemon starts, stops, creates or removes
\* a container.
WorldChanges ==
    /\ eventsLeft > 0
    /\ eventsLeft' = eventsLeft - 1
    /\ \E c \in Containers, s \in ContainerStates :
          world[c] # s /\ world' = [world EXCEPT ![c] = s]
    /\ UNCHANGED <<selection, queue, active, intent, cache, exec, op>>

Next ==
    \/ \E e \in Execs : ExecStep(e)
    \/ StartCommand
    \/ CommandStep
    \/ RestoreStep
    \/ Commit
    \/ CachedRead
    \/ WorldChanges

Spec == Init /\ [][Next]_vars

\* Promise continuations run and subprocesses are bounded by a timeout; nobody
\* owes the session a command or an answer to a prompt.
Fairness ==
    /\ WF_vars(Commit)
    /\ \A e \in Execs :
          WF_vars((ExecRead(e) \/ ExecReadFails(e)) \/ ExecDecide(e) \/ ExecBind(e) \/ ExecRun(e))

FairSpec == Spec /\ Fairness

-----------------------------------------------------------------------------
(* Properties.                                                             *)

WellFormed(sel) ==
    /\ sel.status = "selected-valid" => Bindable(sel)
    /\ sel.cand # NoContainer => sel.ws = WorkspaceOf[sel.cand]
    /\ sel.config # NoConfig => sel.ws # NoWorkspace /\ sel.config \in ConfigsOf[sel.ws]

\* What bind() relies on (target-store.ts, "selected-valid is only ever committed
\* with a candidate") and what reaches the CLI's argv: whichever of the three
\* ways a selection was derived, however stale the read and whatever the record
\* of an earlier session named, every selection held or on its way into the
\* store names a running container if it is valid, a container of its own
\* workspace, and a configuration that workspace still has.
SelectionsWellFormed ==
    /\ WellFormed(selection)
    /\ \A i \in DOMAIN queue : WellFormed(queue[i].target)

CommitsFor(p) ==
    /\ queue # <<>>
    /\ Head(queue).by = p
    /\ queue' = Tail(queue)

\* A default taken for an empty store (autoSelect's selectIfNone) never displaces
\* the selection a command or a restore made while the registry was being read.
AdoptionNeverDisplaces ==
    [][\A e \in Execs :
          CommitsFor(e) /\ exec[e].parked.status = "none" /\ selection.status # "none"
          => selection' = selection]_vars

\* Whatever the session selects on its own for a request (repair or adoption)
\* is the project the request was made in.
AutoSelectKeepsProject ==
    \A i \in DOMAIN queue :
        queue[i].by \in Execs => exec[queue[i].by].dir \in Under[queue[i].target.ws]

\* Docker's listing order never decides: only `/devcontainer use' may select a
\* container of a workspace in which the read it decides from saw two running.
AmbiguityNeverGuessed ==
    [][\A p \in Callers :
          LET o == queue'[Len(queue')]
              seen == IF p \in Execs THEN exec[p].seen ELSE op[p].seen
          IN  /\ Len(queue') > Len(queue)
              /\ o.by = p
              /\ p \in Execs \/ op[p].verb # "use"
              /\ o.target.cand # NoContainer
              => ~Ambiguous(o.target.ws, seen)]_vars

\* A request waits for nobody but the store's queue and bounded subprocesses: it
\* runs or is refused.
RequestsSettle ==
    \A e \in Execs : exec[e].pc # "idle" ~> exec[e].pc \in {"ran", "refused"}

\* extensions/index.ts, autoSelect: "an explicit `/devcontainer use` that landed
\* while this hook was discovering must win". No request moves the session from
\* the workspace it has selected to another.
ExplicitUseWins ==
    [][\A e \in Execs :
          CommitsFor(e) /\ selection.status # "none" => selection'.ws = selection.ws]_vars

=============================================================================
