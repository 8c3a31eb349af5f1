----------------------------- MODULE DshSession -----------------------------
(***************************************************************************)
(* The same selection machinery under the dsh harness: shell commands that *)
(* the provider routes to the container, and two surfaces for the verbs -  *)
(* the slash command, which can ask nobody, and the model's tool, which    *)
(* asks for approval - over one runtime that memoises the promise of a     *)
(* registry read.                                                          *)
(*                                                                         *)
(* A read reports the containers of the moment it settles. Whoever awaits  *)
(* it holds that promise, so a refresh does not change what they are given.*)
(***************************************************************************)
EXTENDS TargetStore

CONSTANTS
    Execs,                   \* shell commands; each is made once
    CommandSurface, ToolSurface,
    InitialWorlds,
    MaxEvents                \* bound: verbs, outside changes and failing reads

VARIABLES
    world,        \* the containers as Docker has them
    enabled,      \* autoSelectionEnabled
    reads,        \* every registry read begun, as promises
    memo,         \* cached: the read registry() hands out, 0 for undefined
    refreshed,    \* how many of the session's own mutations a refresh has followed
    mutations,    \* how many containers the session's up and rebuild have (re)started
    exec, op, eventsLeft

vars == <<selection, queue, world, enabled, reads, memo, refreshed, mutations,
          exec, op, eventsLeft>>

\* What a step about one request or verb leaves alone.
outside == <<world, refreshed, mutations>>

Surfaces == {CommandSurface, ToolSurface}

Verbs == {"none", "list", "use", "off", "up", "rebuild", "stop", "remove"}

Resuming == {"up", "use", "rebuild"}

MaxReads == MaxEvents + 1

\* `after': the session's own mutations that preceded the read.
Promises == [status : {"pending", "ok", "failed"}, seen : Reads, after : 0..MaxEvents]

ExecStates ==
    [pc : {"idle", "read", "bind", "bound", "present", "ran", "lost", "host", "refused"},
     dir : Dirs,
     parked : Selections,      \* the selection autoSelect found
     read : 0..MaxReads,       \* the promise it awaits
     ctx : Contexts,
     since : 0..MaxEvents + 1] \* events left when it began beside idle surfaces

OpStates ==
    [pc : {"idle", "adopt", "handler", "read", "confirm", "cli", "refresh",
           "reconcile", "commit", "docker"},
     verb : Verbs,
     hint : Contexts,
     parked : Selections,
     read : 0..MaxReads,
     stamp : 0..MaxEvents]     \* mutations up to its own

IdleExec == [pc |-> "idle", dir |-> SessionCwd, parked |-> NoSelection, read |-> 0,
             ctx |-> NoContext, since |-> 0]

IdleOp == [pc |-> "idle", verb |-> "none", hint |-> NoContext, parked |-> NoSelection,
           read |-> 0, stamp |-> 0]

ASSUME DshAssumption ==
    /\ CommandSurface # ToolSurface
    /\ Surfaces \cap Execs = {}
    /\ Callers = Execs \cup Surfaces
    /\ InitialWorlds \subseteq Reads
    /\ MaxEvents \in Nat
    \* a directory's ancestors form a chain
    /\ \A v, w \in Workspaces :
          Under[v] \cap Under[w] = {} \/ Under[v] \subseteq Under[w] \/ Under[w] \subseteq Under[v]

TypeOK ==
    /\ StoreTypeOK
    /\ world \in Reads
    /\ enabled \in BOOLEAN
    /\ reads \in Seq(Promises) /\ Len(reads) <= MaxReads
    /\ memo \in 0..Len(reads)
    /\ refreshed \in 0..MaxEvents /\ mutations \in 0..MaxEvents
    /\ exec \in [Execs -> ExecStates]
    /\ op \in [Surfaces -> OpStates]
    /\ eventsLeft \in 0..MaxEvents

Init ==
    /\ StoreInit
    /\ world \in InitialWorlds
    /\ enabled = TRUE
    /\ reads = <<>> /\ memo = 0
    /\ refreshed = 0 /\ mutations = 0
    /\ exec = [e \in Execs |-> IdleExec]
    /\ op = [p \in Surfaces |-> IdleOp]
    /\ eventsLeft = MaxEvents

-----------------------------------------------------------------------------
(* The memoised registry.                                                  *)

Begun == [status |-> "pending", seen |-> NothingSeen, after |-> mutations]

\* registry(): the memo, begun now if there is none. A rejected promise is as
\* good a memo as any.
JoinedRead == IF memo = 0 THEN Len(reads) + 1 ELSE memo

JoinMemoAfresh == reads' = Append(reads, Begun) /\ memo' = Len(reads) + 1

JoinMemo ==
    IF memo = 0
    THEN reads' = Append(reads, Begun) /\ memo' = Len(reads) + 1
    ELSE UNCHANGED <<reads, memo>>

\* refresh(): forget the memo and begin another read.
RefreshMemoKept == JoinMemo

RefreshMemo == reads' = Append(reads, Begun) /\ memo' = Len(reads) + 1

Landed(i) == i # 0 /\ reads[i].status = "ok"

Rejected(i) == i # 0 /\ reads[i].status = "failed"

ReadLands(i) ==
    /\ reads[i].status = "pending"
    /\ reads' = [reads EXCEPT ![i].status = "ok", ![i].seen = world]
    /\ UNCHANGED <<selection, queue, memo, enabled, exec, op, eventsLeft, outside>>

\* The Docker CLI timed out or reported an error.
ReadFails(i) ==
    /\ reads[i].status = "pending"
    /\ eventsLeft > 0
    /\ eventsLeft' = eventsLeft - 1
    /\ reads' = [reads EXCEPT ![i].status = "failed"]
    /\ UNCHANGED <<selection, queue, memo, enabled, exec, op, outside>>

-----------------------------------------------------------------------------
(* autoSelect, for a shell command or ahead of a verb.                     *)

\* The switch is read once, before the first await.
MayAutoSelect == enabled /\ selection.status \in {"none"} \cup Repairable

AutoSelectTargets(r, dir) ==
    IF r.parked.status = "none"
    THEN AdoptionAtOrUnder(dir, reads[r.read].seen)
    ELSE ResolveTargetRepair(r.parked, dir, reads[r.read].seen)

AutoSelectKindAlways(r) == "select"

AutoSelectKind(r) == IF r.parked.status = "none" THEN "selectIfNone" ELSE "select"

AutoSelectCommits(r, dir, by) ==
    \/ \E t \in AutoSelectTargets(r, dir) : Enqueue(AutoSelectKind(r), t, by)
    \/ AutoSelectTargets(r, dir) = {} /\ UNCHANGED queue

-----------------------------------------------------------------------------
(* Shell commands.                                                         *)

ExecIs(e, r) == exec' = [exec EXCEPT ![e] = r]

Since == IF \A p \in Surfaces : op[p].pc = "idle" THEN eventsLeft ELSE MaxEvents + 1

\* A directory without a configuration of its own goes to the host executor, or
\* fails with it if that could not be mounted.
ExecDelegated(e, d) ==
    /\ exec[e].pc = "idle"
    /\ d \notin ConfigWorkspaces
    /\ \E pc \in {"host", "refused"} : ExecIs(e, [IdleExec EXCEPT !.pc = pc])
    /\ UNCHANGED <<selection, queue, reads, memo, enabled, op, eventsLeft, outside>>

\* The container path; an unmanaged directory takes it too as long as the module
\* of the host executor is still loading.
ExecStart(e, d) ==
    /\ exec[e].pc = "idle"
    /\ \/ /\ MayAutoSelect
          /\ JoinMemo
          /\ ExecIs(e, [IdleExec EXCEPT !.pc = "read", !.dir = d, !.parked = selection,
                                        !.read = JoinedRead, !.since = Since])
       \/ /\ ~MayAutoSelect
          /\ ExecIs(e, [IdleExec EXCEPT !.pc = "bind", !.dir = d])
          /\ UNCHANGED <<reads, memo>>
    /\ UNCHANGED <<selection, queue, enabled, op, eventsLeft, outside>>

ExecDecide(e) ==
    /\ exec[e].pc = "read"
    /\ Landed(exec[e].read)
    /\ AutoSelectCommits(exec[e], exec[e].dir, e)
    /\ ExecIs(e, [exec[e] EXCEPT !.pc = "bind", !.read = 0])
    /\ UNCHANGED <<selection, reads, memo, enabled, op, eventsLeft, outside>>

ExecReadRejectedRetried(e) ==
    /\ exec[e].pc = "read"
    /\ Rejected(exec[e].read)
    /\ JoinMemo
    /\ ExecIs(e, [exec[e] EXCEPT !.read = JoinedRead])
    /\ UNCHANGED <<selection, queue, enabled, op, eventsLeft, outside>>

\* A rejected read is a failing command.
ExecReadRejected(e) ==
    /\ exec[e].pc = "read"
    /\ Rejected(exec[e].read)
    /\ ExecIs(e, [IdleExec EXCEPT !.pc = "refused"])
    /\ UNCHANGED <<selection, queue, reads, memo, enabled, op, eventsLeft, outside>>

ExecBind(e) ==
    /\ exec[e].pc = "bind"
    /\ ~Pending(e)
    /\ ExecIs(e, IF Bindable(selection)
                 THEN [IdleExec EXCEPT !.pc = "bound", !.dir = exec[e].dir,
                                       !.ctx = ContextOf(selection)]
                 ELSE [IdleExec EXCEPT !.pc = "refused"])
    /\ UNCHANGED <<selection, queue, reads, memo, enabled, op, eventsLeft, outside>>

\* The command runs; how its workspace is presented needs the registry again.
ExecRun(e) ==
    /\ exec[e].pc = "bound"
    /\ IF InScope(exec[e].dir, exec[e].ctx) /\ world[exec[e].ctx.cand] = "running"
       THEN /\ JoinMemo
            /\ ExecIs(e, [IdleExec EXCEPT !.pc = "present", !.read = JoinedRead])
       ELSE /\ ExecIs(e, [IdleExec EXCEPT !.pc = "refused"])
            /\ UNCHANGED <<reads, memo>>
    /\ UNCHANGED <<selection, queue, enabled, op, eventsLeft, outside>>

\* If that read is a rejected one, the outcome of the command is lost.
ExecPresent(e) ==
    /\ exec[e].pc = "present"
    /\ \/ Landed(exec[e].read) /\ ExecIs(e, [IdleExec EXCEPT !.pc = "ran"])
       \/ Rejected(exec[e].read) /\ ExecIs(e, [IdleExec EXCEPT !.pc = "lost"])
    /\ UNCHANGED <<selection, queue, reads, memo, enabled, op, eventsLeft, outside>>

ExecSettles(e) ==
    \/ ExecDecide(e) \/ ExecReadRejected(e)
    \/ ExecBind(e) \/ ExecRun(e) \/ ExecPresent(e)

-----------------------------------------------------------------------------
(* Verbs. The two surfaces may be in one at the same time.                 *)

OpIs(p, r) == op' = [op EXCEPT ![p] = r]

VerbStarts(p) ==
    /\ op[p].pc = "idle"
    /\ eventsLeft > 0
    /\ eventsLeft' = eventsLeft - 1

\* The tool suspends adoption before the handler clears, the command after.
OffStarts(p) ==
    /\ VerbStarts(p)
    /\ enabled' = (enabled /\ p # ToolSurface)
    /\ Enqueue("clear", NoSelection, p)
    /\ OpIs(p, [IdleOp EXCEPT !.pc = "commit", !.verb = "off"])
    /\ UNCHANGED <<selection, exec, reads, memo, outside>>

\* Every other verb is preceded by autoSelect for the session's directory.
OtherVerbStarts(p, verb, h) ==
    /\ VerbStarts(p)
    /\ \/ /\ MayAutoSelect
          /\ JoinMemo
          /\ OpIs(p, [IdleOp EXCEPT !.pc = "adopt", !.verb = verb, !.hint = h,
                                    !.parked = selection, !.read = JoinedRead])
       \/ /\ ~MayAutoSelect
          /\ OpIs(p, [IdleOp EXCEPT !.pc = "handler", !.verb = verb, !.hint = h])
          /\ UNCHANGED <<reads, memo>>
    /\ UNCHANGED <<selection, queue, enabled, exec, outside>>

StepTo(p, pc) == OpIs(p, [op[p] EXCEPT !.pc = pc])

Ends(p) == OpIs(p, IdleOp)

\* A rejected read is swallowed here: the verb goes on without a target.
Adopt(p) ==
    /\ op[p].pc = "adopt"
    /\ \/ Landed(op[p].read) /\ AutoSelectCommits(op[p], SessionCwd, p)
       \/ Rejected(op[p].read) /\ UNCHANGED queue
    /\ OpIs(p, [op[p] EXCEPT !.pc = "handler", !.read = 0])
    /\ UNCHANGED <<selection, reads, memo, enabled, exec, eventsLeft, outside>>

\* What autoSelect had to commit is committed.
HandlerStarts(p) == op[p].pc = "handler" /\ ~Pending(p)

Handles(p, pc) == [IdleOp EXCEPT !.pc = pc, !.verb = op[p].verb, !.hint = op[p].hint]

\* use, up, rebuild resume adoption before they do anything, and ask for the registry
\* first; list does no more than that, and neither do build and status. (What list
\* repairs is a selection whose workspace is no longer discovered: not without a
\* configuration going away.)
HandlerReads(p) ==
    /\ HandlerStarts(p)
    /\ op[p].verb \in Resuming \cup {"list"}
    /\ enabled' = (enabled \/ op[p].verb \in Resuming)
    /\ JoinMemo
    /\ OpIs(p, IF op[p].verb = "list" THEN IdleOp
               ELSE [Handles(p, "read") EXCEPT !.read = JoinedRead])
    /\ UNCHANGED <<selection, queue, exec, eventsLeft, outside>>

\* stop, remove: only the tool can ask, and about the selected container.
HandlerAsks(p) ==
    /\ HandlerStarts(p)
    /\ op[p].verb \in {"stop", "remove"}
    /\ IF p = ToolSurface /\ selection.cand # NoContainer
       THEN OpIs(p, [Handles(p, "confirm") EXCEPT !.hint = ContextOf(selection)])
       ELSE Ends(p)
    /\ UNCHANGED <<selection, queue, reads, memo, enabled, exec, eventsLeft, outside>>

\* A refusal, a failure of the CLI or of Docker, or a read that was rejected.
Abandon(p) ==
    /\ op[p].pc \in {"read", "confirm", "cli", "refresh", "docker"} \/ Rejected(op[p].read)
    /\ op[p].pc # "adopt"
    /\ Ends(p)
    /\ UNCHANGED <<selection, queue, reads, memo, enabled, exec, eventsLeft, outside>>

HandlerSees(p) == op[p].pc = "read" /\ Landed(op[p].read)

\* Neither surface has a picker: an ambiguous workspace takes a container id.
UsePick(p) ==
    /\ HandlerSees(p)
    /\ op[p].verb = "use"
    /\ Discovered(op[p].hint.ws, reads[op[p].read].seen)
    /\ \E t \in UseSelections(op[p].hint.ws, NoConfig, reads[op[p].read].seen) :
          Enqueue("select", t, p)
    /\ OpIs(p, [op[p] EXCEPT !.pc = "commit", !.read = 0])
    /\ UNCHANGED <<selection, reads, memo, enabled, exec, eventsLeft, outside>>

\* up starts at once; rebuild asks, so the command surface refuses it.
UpResolves(p) ==
    /\ HandlerSees(p)
    /\ op[p].verb \in {"up", "rebuild"}
    /\ IF op[p].verb = "up" THEN OpIs(p, [op[p] EXCEPT !.pc = "cli", !.read = 0])
       ELSE IF p = ToolSurface THEN OpIs(p, [op[p] EXCEPT !.pc = "confirm", !.read = 0])
       ELSE Ends(p)
    /\ UNCHANGED <<selection, queue, reads, memo, enabled, exec, eventsLeft, outside>>

\* The approval arrived: stop and remove act only on what is still selected.
Confirm(p) ==
    /\ op[p].pc = "confirm"
    /\ IF op[p].verb = "rebuild" THEN StepTo(p, "cli")
       ELSE IF selection.status \in {"selected-valid", "selected-stopped"}
               /\ selection.cand = op[p].hint.cand
       THEN StepTo(p, "docker")
       ELSE Ends(p)
    /\ UNCHANGED <<selection, queue, reads, memo, enabled, exec, eventsLeft, outside>>

\* Neither the selection nor the memo hears of it.
DockerDone(p) ==
    /\ op[p].pc = "docker"
    /\ LET c == op[p].hint.cand IN
        /\ world[c] # "absent"
        /\ world' = [world EXCEPT ![c] = IF op[p].verb = "stop" THEN "exited" ELSE "absent"]
    /\ Ends(p)
    /\ UNCHANGED <<selection, queue, reads, memo, enabled, exec, eventsLeft,
                   refreshed, mutations>>

UpCli(p) ==
    /\ op[p].pc = "cli"
    /\ op[p].hint.ws \in ConfigWorkspaces
    /\ world' \in IF op[p].verb = "up" THEN UpOutcomes(op[p].hint.ws, world)
                  ELSE RebuildOutcomes(op[p].hint.ws, world)
    /\ mutations' = mutations + 1
    /\ OpIs(p, [op[p] EXCEPT !.pc = "refresh", !.stamp = mutations + 1])
    /\ UNCHANGED <<selection, queue, reads, memo, enabled, exec, eventsLeft, refreshed>>

Refresh(p) ==
    /\ op[p].pc = "refresh"
    /\ RefreshMemo
    /\ refreshed' = mutations
    /\ OpIs(p, [op[p] EXCEPT !.pc = "reconcile", !.read = memo'])
    /\ UNCHANGED <<selection, queue, enabled, exec, eventsLeft, world, mutations>>

Reconcile(p) ==
    /\ op[p].pc = "reconcile"
    /\ Landed(op[p].read)
    /\ \E t \in ReconcileSelection(op[p].hint, selection, reads[op[p].read].seen) :
          Enqueue("select", t, p)
    /\ OpIs(p, [op[p] EXCEPT !.pc = "commit", !.read = 0])
    /\ UNCHANGED <<selection, reads, memo, enabled, exec, eventsLeft, outside>>

Finish(p) ==
    /\ op[p].pc = "commit"
    /\ ~Pending(p)
    /\ enabled' = (enabled /\ op[p].verb # "off")
    /\ Ends(p)
    /\ UNCHANGED <<selection, queue, reads, memo, exec, eventsLeft, outside>>

VerbStep(p) ==
    \/ OffStarts(p)
    \/ \E verb \in {"use", "up", "rebuild"}, w \in Workspaces :
          OtherVerbStarts(p, verb, [NoContext EXCEPT !.ws = w])
    \/ \E verb \in {"list", "stop", "remove"} : OtherVerbStarts(p, verb, NoContext)
    \/ Adopt(p) \/ HandlerReads(p) \/ HandlerAsks(p) \/ Abandon(p)
    \/ UsePick(p) \/ UpResolves(p) \/ Confirm(p) \/ DockerDone(p)
    \/ UpCli(p) \/ Refresh(p) \/ Reconcile(p) \/ Finish(p)

-----------------------------------------------------------------------------
Commit ==
    /\ CommitHead
    /\ UNCHANGED <<reads, memo, enabled, exec, op, eventsLeft, outside>>

WorldChanges ==
    /\ eventsLeft > 0
    /\ eventsLeft' = eventsLeft - 1
    /\ \E c \in Containers, s \in ContainerStates :
          world[c] # s /\ world' = [world EXCEPT ![c] = s]
    /\ UNCHANGED <<selection, queue, reads, memo, enabled, exec, op, refreshed, mutations>>

Next ==
    \/ \E e \in Execs, d \in Dirs : ExecDelegated(e, d) \/ ExecStart(e, d)
    \/ \E e \in Execs : ExecSettles(e)
    \/ \E p \in Surfaces : VerbStep(p)
    \/ \E i \in DOMAIN reads : ReadLands(i) \/ ReadFails(i)
    \/ Commit \/ WorldChanges

Spec == Init /\ [][Next]_vars

\* Promise continuations run, and the Docker CLI behind a read is bounded by a
\* timeout; nobody owes the session a verb or an approval.
Fairness ==
    /\ WF_vars(Commit)
    /\ \A i \in 1..MaxReads : WF_vars(i \in DOMAIN reads /\ (ReadLands(i) \/ ReadFails(i)))
    /\ \A e \in Execs : WF_vars(ExecSettles(e))

FairSpec == Spec /\ Fairness

-----------------------------------------------------------------------------
(* Properties.                                                             *)

CommitsFor(by) == queue # <<>> /\ Head(queue).by = by /\ queue' = Tail(queue)

\* A default taken for an empty store, by a shell command or ahead of a verb,
\* never displaces what the other surface selected while the read was awaited
\* (runtime.ts, "an explicit `use' that landed while the registry was being read
\* must win").
AdoptionNeverDisplaces ==
    [][\A by \in Callers :
          /\ CommitsFor(by)
          /\ selection.status # "none"
          /\ IF by \in Execs THEN exec[by].pc = "bind" /\ exec[by].parked.status = "none"
             ELSE op[by].pc = "handler" /\ op[by].parked.status = "none"
          => selection' = selection]_vars

\* runtime.ts, refresh, "Re-run discovery after a mutation this runtime itself
\* performed": what up and rebuild reconcile with was begun after their CLI ended,
\* and no read that an earlier caller still awaits ever becomes the memo again.
FreshAfterUp ==
    /\ memo # 0 => reads[memo].after >= refreshed
    /\ \A p \in Surfaces :
          op[p].pc = "reconcile" => reads[op[p].read].after >= op[p].stamp

\* A shell command waits for nobody but the store's queue and bounded reads.
RequestsSettle ==
    \A e \in Execs : exec[e].pc # "idle" ~> exec[e].pc \in {"ran", "lost", "host", "refused"}

\* The one container of the directory's own project runs.
OneRuns(d) == d \in Workspaces /\ \E c \in Containers : RunningOf(d, world) = {c}

\* runtime.ts:61, "a project whose container is already running needs no manual
\* `devcontainer use`": with adoption on and nothing else going on since it was
\* made, a command from the root of such a project, with nothing or that project
\* selected, is not refused.
RunningProjectNeedsNoUse ==
    [][\A e \in Execs :
          /\ exec[e].pc \notin {"idle", "refused"}
          /\ exec[e].since = eventsLeft
          /\ enabled
          /\ exec[e].dir \in ConfigWorkspaces
          /\ exec[e].parked.ws \in {NoWorkspace, exec[e].dir}
          /\ OneRuns(exec[e].dir)
          => exec'[e].pc # "refused"]_vars

=============================================================================
