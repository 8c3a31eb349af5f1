------------------------ MODULE TargetSession_proofs ------------------------
(***************************************************************************)
(* For any workspaces, containers and requests: the session writes its     *)
(* target store only through the store's queue, every selection it holds   *)
(* or has asked for is well-formed, and what it selects on its own neither *)
(* leaves the project of the request nor displaces an explicit selection.  *)
(***************************************************************************)
EXTENDS TargetSession, TLAPS

-----------------------------------------------------------------------------
(* What the rules of target selection return: selections of the right      *)
(* shape, and well-formed ones, from whatever the registry read said.      *)

\* The containers a rule may build a selection from: one the read offers, or none
\* when the read offers none or cannot tell which.
Choosable(w, c, seen) ==
    \/ c \in Candidates(w, seen)
    \/ c = NoContainer /\ (Ambiguous(w, seen) \/ Candidates(w, seen) = {})

\* TargetSession's WellFormed, over the parts the rules decide.
Sound(sel) ==
    /\ sel.status = "selected-valid" => sel.cand # NoContainer /\ sel.state = "running"
    /\ sel.cand # NoContainer => sel.ws = WorkspaceOf[sel.cand]
    /\ sel.config # NoConfig => sel.ws # NoWorkspace /\ sel.config \in ConfigsOf[sel.ws]

LEMMA NoSelectionSound == NoSelection \in Selections /\ Sound(NoSelection)
BY DEF NoSelection, Selections, Statuses, ContainerStates, Sound

LEMMA MissingSelectionSound ==
    ASSUME NEW w \in Workspaces \cup {NoWorkspace}
    PROVE  MissingSelection(w) \in Selections /\ Sound(MissingSelection(w))
<1>1. ASSUME NEW sel \in Selections, sel.cand = NoContainer, sel.config = NoConfig
      PROVE  LET new == [sel EXCEPT !.status = "selected-missing", !.ws = w]
             IN  new \in Selections /\ new.cand = NoContainer /\ new.config = NoConfig
                 /\ new.status = "selected-missing"
  BY <1>1 DEF Selections, Statuses
<1>2. NoSelection.cand = NoContainer /\ NoSelection.config = NoConfig
  BY DEF NoSelection
<1> QED
  BY <1>1, <1>2, NoSelectionSound DEF MissingSelection, Sound

LEMMA ResolvedConfigSound ==
    ASSUME NEW w \in Workspaces, NEW cfg \in Configs \cup {NoConfig}
    PROVE  /\ ResolvedConfig(w, cfg) \in Configs \cup {NoConfig}
           /\ ResolvedConfig(w, cfg) # NoConfig => ResolvedConfig(w, cfg) \in ConfigsOf[w]
BY RulesAssumption DEF ResolvedConfig

LEMMA CandidatesLabelled ==
    ASSUME NEW w, NEW seen \in Reads, NEW c \in Candidates(w, seen)
    PROVE  c \in Containers /\ WorkspaceOf[c] = w /\ w \in Workspaces
           /\ seen[c] \in {"exited", "running"}
BY RulesAssumption DEF Candidates, Reads, ContainerStates

LEMMA DiscoveredIsWorkspace ==
    ASSUME NEW w, NEW seen \in Reads, Discovered(w, seen)
    PROVE  w \in Workspaces
BY RulesAssumption, CandidatesLabelled DEF Discovered

LEMMA PrimariesChoosable ==
    ASSUME NEW w, NEW seen \in Reads, NEW c \in Primaries(w, seen)
    PROVE  Choosable(w, c, seen)
BY DEF Primaries, Choosable, RunningOf

\* selectionFor: whatever container a rule chose, the selection is one the store
\* may hold.
LEMMA SelectionForSound ==
    ASSUME NEW w \in Workspaces, NEW cfg \in Configs \cup {NoConfig}, NEW seen \in Reads,
           NEW c, Choosable(w, c, seen)
    PROVE  LET sel == SelectionFor(w, c, cfg, seen)
           IN  sel \in Selections /\ sel.ws = w /\ sel.cand \in {c, NoContainer} /\ Sound(sel)
<1> DEFINE state == IF c = NoContainer THEN EntryState(w, seen) ELSE seen[c]
<1>1. CASE Ambiguous(w, seen) /\ c = NoContainer
  <2>1. ASSUME NEW sel \in Selections, sel.cand = NoContainer, sel.config = NoConfig
        PROVE  LET new == [sel EXCEPT !.status = "selected-ambiguous", !.ws = w]
               IN  /\ new \in Selections /\ new.cand = NoContainer /\ new.config = NoConfig
                   /\ new.status = "selected-ambiguous" /\ new.ws = w
    BY <2>1 DEF Selections, Statuses
  <2>2. NoSelection.cand = NoContainer /\ NoSelection.config = NoConfig
    BY DEF NoSelection
  <2>3. SelectionFor(w, c, cfg, seen) = [NoSelection EXCEPT !.status = "selected-ambiguous", !.ws = w]
    BY <1>1 DEF SelectionFor
  <2> QED
    BY <2>1, <2>2, <2>3, NoSelectionSound DEF Sound
<1>2. CASE c = NoContainer /\ ~Ambiguous(w, seen)
  <2>1. Candidates(w, seen) = {}
    BY <1>2, CandidatesLabelled, RulesAssumption DEF Choosable
  <2>2. EntryState(w, seen) = "exited"
    BY <2>1 DEF EntryState, RunningOf
  <2>3. SelectionFor(w, c, cfg, seen) =
          [status |-> "selected-stopped", ws |-> w, cand |-> NoContainer,
           state |-> "absent", config |-> NoConfig]
    BY <1>2, <2>2 DEF SelectionFor
  <2> QED
    BY <2>3 DEF Selections, Statuses, ContainerStates, Sound
<1>3. CASE c # NoContainer
  <2>1. c \in Containers /\ WorkspaceOf[c] = w /\ seen[c] \in {"exited", "running"}
    BY <1>3, CandidatesLabelled DEF Choosable
  <2>2. SelectionFor(w, c, cfg, seen) =
          [status |-> IF seen[c] = "running" THEN "selected-valid" ELSE "selected-stopped",
           ws |-> w, cand |-> c, state |-> seen[c], config |-> ResolvedConfig(w, cfg)]
    BY <1>3 DEF SelectionFor
  <2> QED
    BY <2>1, <2>2, <1>3, ResolvedConfigSound, RulesAssumption
    DEF Selections, Statuses, ContainerStates, Sound
<1> QED
  BY <1>1, <1>2, <1>3

\* resolveTargetRepair stays in the parked workspace, which the request is made in,
\* and never has to choose.
LEMMA RepairSound ==
    ASSUME NEW parked \in Selections, NEW dir \in Dirs, NEW seen \in Reads,
           NEW t \in ResolveTargetRepair(parked, dir, seen)
    PROVE  /\ t \in Selections /\ Sound(t)
           /\ t.ws = parked.ws /\ dir \in Under[t.ws]
           /\ ~Ambiguous(t.ws, seen)
<1>1. /\ parked.ws \in Workspaces /\ dir \in Under[parked.ws] /\ ~Ambiguous(parked.ws, seen)
      /\ \E c \in RunningOf(parked.ws, seen) : t = SelectionFor(parked.ws, c, parked.config, seen)
  BY DiscoveredIsWorkspace DEF ResolveTargetRepair
<1>2. PICK c \in RunningOf(parked.ws, seen) : t = SelectionFor(parked.ws, c, parked.config, seen)
  BY <1>1
<1>3. parked.config \in Configs \cup {NoConfig}
  BY DEF Selections
<1> QED
  BY <1>1, <1>2, <1>3, SelectionForSound DEF Choosable, RunningOf

\* resolveTargetAdoption selects the project the request is made from, and no
\* container of it when it cannot tell which.
LEMMA AdoptionSound ==
    ASSUME NEW dir \in Dirs, NEW seen \in Reads, NEW t \in ResolveTargetAdoption(dir, seen)
    PROVE  /\ t \in Selections /\ Sound(t)
           /\ t.ws = dir /\ dir \in Under[t.ws]
           /\ Ambiguous(t.ws, seen) => t.cand = NoContainer
<1>1. dir \in Workspaces
  BY DEF ResolveTargetAdoption
<1>2. PICK c \in IF Ambiguous(dir, seen) THEN {NoContainer} ELSE Primaries(dir, seen) :
        t = SelectionFor(dir, c, NoConfig, seen)
  BY DEF ResolveTargetAdoption
<1>3. Choosable(dir, c, seen)
  BY <1>2, PrimariesChoosable DEF Choosable
<1>4. Ambiguous(dir, seen) => c = NoContainer
  BY <1>2
<1> QED
  BY <1>1, <1>2, <1>3, <1>4, SelectionForSound, RulesAssumption

\* reconcileSelection keeps the hinted workspace, gone or not, and trusts a hinted
\* container only while nothing is ambiguous.
LEMMA ReconcileSound ==
    ASSUME NEW hint, NEW current \in Selections, NEW seen \in Reads,
           hint.ws \in Workspaces \cup {NoWorkspace}, hint.config \in Configs \cup {NoConfig},
           NEW t \in ReconcileSelection(hint, current, seen)
    PROVE  /\ t \in Selections /\ Sound(t)
           /\ Ambiguous(t.ws, seen) => t.cand = NoContainer
<1> DEFINE carried == IF hint.config # NoConfig THEN hint.config
                      ELSE IF current.ws = hint.ws THEN current.config
                      ELSE NoConfig
<1>1. CASE Discovered(hint.ws, seen)
  <2>1. hint.ws \in Workspaces
    BY <1>1, DiscoveredIsWorkspace
  <2>2. carried \in Configs \cup {NoConfig}
    BY DEF Selections
  <2>3. PICK c \in UsableIds(hint, seen) : t = SelectionFor(hint.ws, c, carried, seen)
    BY <1>1 DEF ReconcileSelection
  <2>4. Choosable(hint.ws, c, seen) /\ (Ambiguous(hint.ws, seen) => c = NoContainer)
    BY <2>3, PrimariesChoosable DEF UsableIds, Choosable
  <2> HIDE DEF carried
  <2> QED
    BY <2>1, <2>2, <2>3, <2>4, SelectionForSound
<1>2. CASE ~Discovered(hint.ws, seen)
  <2>1. t = MissingSelection(hint.ws)
    BY <1>2 DEF ReconcileSelection
  <2>2. t.cand = NoContainer
    BY <2>1 DEF MissingSelection, NoSelection
  <2> QED
    BY <2>1, <2>2, MissingSelectionSound
<1> QED
  BY <1>1, <1>2

\* `/devcontainer use' selects in the workspace it was given.
LEMMA UseSound ==
    ASSUME NEW w \in Workspaces, NEW cfg \in Configs \cup {NoConfig}, NEW seen \in Reads,
           NEW t \in UseSelections(w, cfg, seen)
    PROVE  t \in Selections /\ Sound(t) /\ t.ws = w
<1>1. PICK c \in Candidates(w, seen) \cup
                 (IF Ambiguous(w, seen) THEN {} ELSE Primaries(w, seen)) :
        t = SelectionFor(w, c, cfg, seen)
  BY DEF UseSelections
<1>2. Choosable(w, c, seen)
  BY <1>1, PrimariesChoosable DEF Choosable
<1> QED
  BY <1>1, <1>2, SelectionForSound

LEMMA UpConfigType ==
    ASSUME NEW w, NEW cfg \in Configs \cup {NoConfig}, NEW current \in Selections
    PROVE  UpConfig(w, cfg, current) \in Configs \cup {NoConfig}
BY RulesAssumption DEF UpConfig, Selections

-----------------------------------------------------------------------------
(* Types.                                                                  *)

LEMMA ConstantsType ==
    /\ IdleExec \in ExecStates
    /\ IdleOp \in OpStates
    /\ NoHint \in Hints
    /\ \A sel \in Selections : ContextOf(sel) \in Contexts /\ SelectedIntent(sel) \in Intents
    /\ ClearedIntent \in Intents
<1>1. NothingSeen \in Reads /\ NoSelection \in Selections
  BY NoSelectionSound DEF NothingSeen, Reads, ContainerStates
<1>2. \A sel \in Selections : ContextOf(sel) \in Contexts
  BY DEF ContextOf, Contexts, Selections
<1>3. \A sel \in Selections : SelectedIntent(sel) \in Intents
  BY DEF SelectedIntent, Intents, Selections
<1>4. NoContext \in Contexts /\ NoHint \in Hints
  BY <1>1, <1>2 DEF NoContext, NoHint, Hints
<1>5. IdleExec \in ExecStates
  BY <1>1, <1>4, RulesAssumption DEF IdleExec, ExecStates
<1>6. IdleOp \in OpStates
  BY <1>1, <1>4 DEF IdleOp, OpStates, Verbs
<1>7. ClearedIntent \in Intents
  BY DEF ClearedIntent, Intents
<1> QED
  BY <1>2, <1>3, <1>4, <1>5, <1>6, <1>7

LEMMA EnqueueEffect ==
    ASSUME queue \in Seq(StoreOps), NEW kind \in OpKinds, NEW t \in Selections,
           NEW p \in Callers, Enqueue(kind, t, p)
    PROVE  /\ queue' \in Seq(StoreOps)
           /\ Len(queue') = Len(queue) + 1
           /\ \A i \in DOMAIN queue : i \in DOMAIN queue' /\ queue'[i] = queue[i]
           /\ queue'[Len(queue')] = [kind |-> kind, target |-> t, by |-> p]
           /\ \A i \in DOMAIN queue' : i \in DOMAIN queue \/ i = Len(queue')
           /\ Called
<1> DEFINE o == [kind |-> kind, target |-> t, by |-> p]
<1>1. o \in StoreOps /\ queue' = Append(queue, o)
  BY DEF StoreOps, Enqueue
<1> HIDE DEF o
<1>2. /\ queue' \in Seq(StoreOps)
      /\ Len(queue') = Len(queue) + 1
      /\ \A i \in DOMAIN queue : i \in DOMAIN queue' /\ queue'[i] = queue[i]
      /\ queue'[Len(queue')] = o
      /\ Len(queue') \in DOMAIN queue'
      /\ \A i \in DOMAIN queue' : i \in DOMAIN queue \/ i = Len(queue')
  BY <1>1
<1>3. Called
  BY <1>1, <1>2 DEF Called
<1> QED
  BY <1>2, <1>3 DEF o

LEMMA CommitEffect ==
    ASSUME StoreTypeOK, CommitHead
    PROVE  /\ queue' \in Seq(StoreOps)
           /\ selection' \in Selections
           /\ selection' \in {NoSelection, selection, Head(queue).target}
           /\ 1 \in DOMAIN queue /\ Head(queue) = queue[1] /\ Head(queue) \in StoreOps
           /\ \A i \in DOMAIN queue' : i + 1 \in DOMAIN queue /\ queue'[i] = queue[i + 1]
<1> USE DEF StoreTypeOK, CommitHead
<1>1. /\ queue' \in Seq(StoreOps)
      /\ 1 \in DOMAIN queue /\ Head(queue) = queue[1] /\ Head(queue) \in StoreOps
      /\ \A i \in DOMAIN queue' : i + 1 \in DOMAIN queue /\ queue'[i] = queue[i + 1]
  OBVIOUS
<1>2. selection' \in {NoSelection, selection, Head(queue).target}
  BY DEF Apply
<1>3. selection' \in Selections
  BY <1>1, <1>2, NoSelectionSound DEF StoreOps
<1> QED
  BY <1>1, <1>2, <1>3

LEMMA BoundToType ==
    ASSUME TypeOK, NEW e \in Execs, NEW r \in ExecStates, BoundTo(e, r, selection)
    PROVE  exec' \in [Execs -> ExecStates]
<1>1. ContextOf(selection) \in Contexts
  BY ConstantsType DEF TypeOK, StoreTypeOK
<1>2. r.dir \in Dirs
  BY DEF ExecStates
<1>3. /\ [IdleExec EXCEPT !.pc = "bound", !.dir = r.dir, !.ctx = ContextOf(selection)] \in ExecStates
      /\ [IdleExec EXCEPT !.pc = "refused"] \in ExecStates
  BY <1>1, <1>2, ConstantsType DEF ExecStates
<1> QED
  BY <1>3 DEF BoundTo, TypeOK

LEMMA ExecType ==
    ASSUME TypeOK, NEW e \in Execs, ExecStep(e)
    PROVE  exec' \in [Execs -> ExecStates] /\ cache' \in Reads \cup {NoCache}
<1>0. exec[e] \in ExecStates /\ selection \in Selections /\ world \in Reads
  BY DEF TypeOK, StoreTypeOK
<1>1. ASSUME NEW d \in Dirs, ExecStartBound(e, d) PROVE exec' \in [Execs -> ExecStates]
  <2>1. [exec[e] EXCEPT !.dir = d] \in ExecStates
    BY <1>0 DEF ExecStates
  <2> QED
    BY <1>1, <2>1, BoundToType DEF ExecStartBound
<1>2. ASSUME NEW d \in Dirs, ExecStartAutoSelect(e, d) PROVE exec' \in [Execs -> ExecStates]
  <2>1. \A pc \in {"read", "bind"} :
           [exec[e] EXCEPT !.dir = d, !.parked = selection, !.pc = pc] \in ExecStates
    BY <1>0 DEF ExecStates
  <2> DEFINE pc == IF AutoSelectReads(selection, d) THEN "read" ELSE "bind"
  <2>2. exec' = [exec EXCEPT ![e] =
                   [exec[e] EXCEPT !.dir = d, !.parked = selection, !.pc = pc]]
    BY <1>2 DEF ExecStartAutoSelect, TypeOK
  <2>3. pc \in {"read", "bind"}
    OBVIOUS
  <2> HIDE DEF pc
  <2> QED
    BY <2>1, <2>2, <2>3 DEF TypeOK
<1>3. ASSUME ExecRead(e) PROVE exec' \in [Execs -> ExecStates] /\ cache' \in Reads \cup {NoCache}
  <2>1. \A seen \in Reads : [exec[e] EXCEPT !.pc = "decide", !.seen = seen] \in ExecStates
    BY <1>0 DEF ExecStates
  <2> QED
    BY <1>0, <1>3, <2>1 DEF ExecRead, SeenByExec, TypeOK
<1>4. ASSUME ExecReadFails(e) PROVE exec' \in [Execs -> ExecStates]
  <2>1. [IdleExec EXCEPT !.pc = "refused"] \in ExecStates
    BY ConstantsType DEF ExecStates
  <2> QED
    BY <1>4, <2>1 DEF ExecReadFails, TypeOK
<1>5. ASSUME ExecDecide(e) PROVE exec' \in [Execs -> ExecStates]
  <2>1. NothingSeen \in Reads
    BY DEF NothingSeen, Reads, ContainerStates
  <2>2. [exec[e] EXCEPT !.pc = "bind", !.seen = NothingSeen] \in ExecStates
    BY <1>0, <2>1 DEF ExecStates
  <2> QED
    BY <1>5, <2>2 DEF ExecDecide, TypeOK
<1>6. ASSUME ExecBind(e) PROVE exec' \in [Execs -> ExecStates]
  BY <1>0, <1>6, BoundToType DEF ExecBind
<1>7. ASSUME ExecRun(e) PROVE exec' \in [Execs -> ExecStates]
  <2>1. \A pc \in {"ran", "refused"} : [exec[e] EXCEPT !.pc = pc] \in ExecStates
    BY <1>0 DEF ExecStates
  <2> QED
    BY <1>7, <2>1 DEF ExecRun, TypeOK
<1>8. ~ExecRead(e) => UNCHANGED cache
  BY DEF ExecStep, ExecStartBound, ExecStartAutoSelect, ExecReadFails, ExecDecide, ExecBind, ExecRun
<1> QED
  BY <1>1, <1>2, <1>3, <1>4, <1>5, <1>6, <1>7, <1>8 DEF ExecStep, TypeOK

\* The commands that start, and what they are asked for.
LEMMA StartType ==
    ASSUME TypeOK, StartCommand
    PROVE  op' \in [Actors -> OpStates]
<1>0. Command \in Actors /\ IdleOp \in OpStates /\ NoHint \in Hints
  BY ConstantsType DEF Actors
<1>1. ASSUME NEW verb \in Verbs, NEW pc \in {"read", "commit", "confirm"}, NEW h \in Hints,
             CommandStarts(verb, pc, h)
      PROVE  op' \in [Actors -> OpStates]
  <2>1. [IdleOp EXCEPT !.pc = pc, !.verb = verb, !.hint = h] \in OpStates
    BY <1>0 DEF OpStates
  <2> QED
    BY <1>0, <1>1, <2>1 DEF CommandStarts, TypeOK
<1>2. /\ \A w \in Workspaces, c \in Configs \cup {NoConfig} :
            [NoHint EXCEPT !.ws = w, !.config = c] \in Hints
      /\ \A w \in Workspaces \cup {NoWorkspace} : [NoHint EXCEPT !.ws = w] \in Hints
      /\ \A w \in Workspaces \cup {NoWorkspace}, c \in Containers \cup {NoContainer} :
            [NoHint EXCEPT !.ws = w, !.cand = c] \in Hints
  BY <1>0 DEF Hints, Contexts
<1>3. selection.ws \in Workspaces \cup {NoWorkspace} /\ selection.cand \in Containers \cup {NoContainer}
  BY DEF TypeOK, StoreTypeOK, Selections
<1>4. CASE \E w \in Workspaces, c \in Configs \cup {NoConfig} :
             \E verb \in {"use", "up", "rebuild"} : TargetCommand(verb, w, c)
  BY <1>1, <1>2, <1>4 DEF TargetCommand, Verbs
<1>5. CASE ListCommand
  BY <1>1, <1>2, <1>3, <1>5 DEF ListCommand, Verbs
<1>6. CASE OffCommand
  BY <1>0, <1>1, <1>6 DEF OffCommand, Verbs
<1>7. CASE \E verb \in {"stop", "remove"} : DestructiveCommand(verb)
  BY <1>1, <1>2, <1>3, <1>7 DEF DestructiveCommand, Verbs
<1> QED
  BY <1>4, <1>5, <1>6, <1>7 DEF StartCommand

\* What an actor asks the store to select.
LEMMA ReconcileTarget ==
    ASSUME TypeOK, NEW p \in Actors, NEW t \in ReconcileSelection(op[p].hint, selection, op[p].seen)
    PROVE  /\ t \in Selections /\ Sound(t)
           /\ Ambiguous(t.ws, op[p].seen) => t.cand = NoContainer
<1>1. /\ op[p].hint.ws \in Workspaces \cup {NoWorkspace}
      /\ op[p].hint.config \in Configs \cup {NoConfig}
      /\ op[p].seen \in Reads /\ selection \in Selections
  BY DEF TypeOK, StoreTypeOK, OpStates, Hints, Contexts
<1> QED
  BY <1>1, ReconcileSound

LEMMA PickTarget ==
    ASSUME TypeOK, Discovered(op[Command].hint.ws, op[Command].seen),
           NEW t \in UseSelections(op[Command].hint.ws, op[Command].hint.config, op[Command].seen)
    PROVE  t \in Selections /\ Sound(t)
<1>1. op[Command].hint.config \in Configs \cup {NoConfig} /\ op[Command].seen \in Reads
  BY DEF TypeOK, OpStates, Hints, Contexts, Actors
<1>2. op[Command].hint.ws \in Workspaces
  BY <1>1, DiscoveredIsWorkspace
<1> QED
  BY <1>1, <1>2, UseSound

LEMMA OpType ==
    ASSUME TypeOK, CommandStep \/ RestoreStep
    PROVE  op' \in [Actors -> OpStates]
<1>0. /\ Command \in Actors /\ Restore \in Actors /\ IdleOp \in OpStates
      /\ NothingSeen \in Reads /\ world \in Reads /\ selection \in Selections
      /\ \A p \in Actors : op[p] \in OpStates
  BY ConstantsType DEF Actors, NothingSeen, Reads, ContainerStates, TypeOK, StoreTypeOK
<1>1. ASSUME NEW p \in Actors, NEW new \in OpStates, op' = [op EXCEPT ![p] = new]
      PROVE  op' \in [Actors -> OpStates]
  BY <1>1 DEF TypeOK
<1>2. ASSUME NEW p \in Actors, Read(p) PROVE op' \in [Actors -> OpStates]
  <2>1. \A pc \in {"pick", "resolve", "reconcile"} :
           [op[p] EXCEPT !.pc = pc, !.seen = world] \in OpStates
    BY <1>0 DEF OpStates
  <2>2. AfterRead(op[p].verb) \in {"pick", "resolve", "reconcile"}
    BY DEF AfterRead
  <2>3. op' = [op EXCEPT ![p] = [op[p] EXCEPT !.pc = AfterRead(op[p].verb), !.seen = world]]
    BY <1>2 DEF Read, TypeOK
  <2> QED
    BY <1>1, <2>1, <2>2, <2>3
<1>3. ASSUME NEW p \in Actors, Ends(p) PROVE op' \in [Actors -> OpStates]
  BY <1>0, <1>1, <1>3 DEF Ends
<1>4. ASSUME NEW p \in Actors, NEW t \in Selections,
             op' = [op EXCEPT ![p].pc = "commit", ![p].target = t, ![p].seen = NothingSeen]
      PROVE  op' \in [Actors -> OpStates]
  <2>1. [op[p] EXCEPT !.pc = "commit", !.target = t, !.seen = NothingSeen] \in OpStates
    BY <1>0 DEF OpStates
  <2> QED
    BY <1>4, <2>1 DEF TypeOK
<1>5. ASSUME NEW p \in Actors, Reconcile(p) PROVE op' \in [Actors -> OpStates]
  BY <1>4, <1>5, ReconcileTarget DEF Reconcile
<1>6. ASSUME NEW p \in Actors, OpStep(p) PROVE op' \in [Actors -> OpStates]
  BY <1>2, <1>3, <1>5, <1>6 DEF OpStep, Abandon
<1>7. CASE Pick
  BY <1>0, <1>4, <1>7, PickTarget DEF Pick
<1>8. CASE Resolve
  <2> DEFINE cfg == UpConfig(op[Command].hint.ws, op[Command].hint.config, selection)
  <2>1. op[Command].hint \in Hints /\ op[Command].hint.config \in Configs \cup {NoConfig}
    BY <1>0 DEF OpStates, Hints, Contexts
  <2>2. cfg \in Configs \cup {NoConfig}
    BY <1>0, <2>1, UpConfigType
  <2> HIDE DEF cfg
  <2>3. [op[Command].hint EXCEPT !.config = cfg] \in Hints
    BY <2>1, <2>2 DEF Hints, Contexts
  <2>4. [op[Command] EXCEPT !.pc = "cli", !.seen = NothingSeen, !.hint.config = cfg] \in OpStates
    BY <1>0, <2>3 DEF OpStates
  <2>5. op' = [op EXCEPT ![Command].pc = "cli", ![Command].seen = NothingSeen,
                         ![Command].hint.config = cfg]
    BY <1>8 DEF Resolve, cfg
  <2> QED
    BY <1>0, <2>4, <2>5 DEF TypeOK
<1>9. ASSUME NEW pc \in {"refresh", "docker"}, StepTo(Command, pc) PROVE op' \in [Actors -> OpStates]
  <2>1. [op[Command] EXCEPT !.pc = pc] \in OpStates
    BY <1>0 DEF OpStates
  <2> QED
    BY <1>0, <1>9, <2>1 DEF StepTo, TypeOK
<1>10. CASE Refresh
  <2>1. [op[Command].hint EXCEPT !.config = NoConfig] \in Hints
    BY <1>0 DEF OpStates, Hints, Contexts
  <2>2. [op[Command] EXCEPT !.pc = "reconcile", !.seen = world, !.hint.config = NoConfig] \in OpStates
    BY <1>0, <2>1 DEF OpStates
  <2> QED
    BY <1>0, <1>10, <2>2 DEF Refresh, TypeOK
<1> QED
  BY <1>0, <1>3, <1>6, <1>7, <1>8, <1>9, <1>10 DEF CommandStep, RestoreStep, UpCli, Confirm,
     DockerDone, FinishUse, FinishReconciled, FinishOff, FinishRestore

\* The containers, the activation, the intent record, the cache and the bound.
LEMMA WorldType ==
    ASSUME TypeOK, Next
    PROVE  /\ world' \in Reads /\ active' \in BOOLEAN /\ intent' \in Intents
           /\ cache' \in Reads \cup {NoCache} /\ eventsLeft' \in 0..MaxEvents
<1>0. world \in Reads /\ active \in BOOLEAN /\ intent \in Intents /\ selection \in Selections
      /\ cache \in Reads \cup {NoCache} /\ eventsLeft \in 0..MaxEvents
  BY DEF TypeOK, StoreTypeOK
<1>1. ASSUME NEW e \in Execs, ExecStep(e)
      PROVE  cache' \in Reads \cup {NoCache} /\ UNCHANGED <<world, active, intent, eventsLeft>>
  BY <1>1, ExecType DEF ExecStep, ExecStartBound, ExecStartAutoSelect, ExecRead, ExecReadFails,
     ExecDecide, ExecBind, ExecRun
<1>2. ASSUME StartCommand
      PROVE  eventsLeft' \in 0..MaxEvents /\ UNCHANGED <<world, active, intent, cache>>
  <2>1. /\ eventsLeft > 0 /\ eventsLeft' = eventsLeft - 1
        /\ UNCHANGED <<world, active, intent, cache>>
    BY <1>2 DEF StartCommand, TargetCommand, ListCommand, OffCommand, DestructiveCommand, CommandStarts
  <2> QED
    BY <1>0, <2>1, SessionAssumption
<1>3. \A w, c : [world EXCEPT ![c] = "exited"] \in Reads /\ [world EXCEPT ![c] = "absent"] \in Reads
      /\ UpOutcomes(w, world) \subseteq Reads /\ RebuildOutcomes(w, world) \subseteq Reads
  <2>1. \A r \in Reads, s \in ContainerStates : \A c : [r EXCEPT ![c] = s] \in Reads
    BY DEF Reads
  <2>2. {"exited", "absent", "running"} \subseteq ContainerStates
    BY DEF ContainerStates
  <2>3. \A c, d : [world EXCEPT ![c] = "absent", ![d] = "running"] \in Reads
    BY <1>0, <2>2 DEF Reads
  <2>4. \A w : UpOutcomes(w, world) \subseteq Reads
    BY <1>0, <2>1, <2>2 DEF UpOutcomes
  <2>5. \A w : RebuildOutcomes(w, world) \subseteq Reads
    BY <2>3, <2>4 DEF RebuildOutcomes
  <2> QED
    BY <1>0, <2>1, <2>2, <2>4, <2>5
<1>4. ASSUME NEW p \in Actors, OpStep(p) PROVE UNCHANGED <<world, active, intent, cache, eventsLeft>>
  BY <1>4 DEF OpStep, Read, Reconcile, Abandon
<1>5. CASE Pick \/ Resolve \/ Confirm \/ FinishRestore
  BY <1>0, <1>5 DEF Pick, Resolve, Confirm, FinishRestore
<1>6. CASE UpCli \/ DockerDone
  <2>1. world' \in Reads
    BY <1>3, <1>6 DEF UpCli, DockerDone
  <2> QED
    BY <1>0, <1>6, <2>1 DEF UpCli, DockerDone
<1>7. CASE Refresh
  BY <1>0, <1>7 DEF Refresh
<1>8. CASE FinishUse \/ FinishReconciled \/ FinishOff
  <2>1. op[Command].target \in Selections
    BY DEF TypeOK, OpStates, Actors
  <2>2. intent' \in Intents
    BY <1>0, <1>8, <2>1, ConstantsType DEF FinishUse, FinishReconciled, FinishOff
  <2>3. active' \in BOOLEAN
    BY <1>0, <1>8 DEF FinishUse, FinishReconciled, FinishOff
  <2>4. UNCHANGED <<world, cache, eventsLeft>>
    BY <1>8 DEF FinishUse, FinishReconciled, FinishOff
  <2> QED
    BY <1>0, <2>2, <2>3, <2>4
<1>9. CASE Commit
  BY <1>0, <1>9 DEF Commit
<1>10. CASE CachedRead \/ WorldChanges
  <2>1. eventsLeft > 0 /\ eventsLeft' = eventsLeft - 1 /\ UNCHANGED <<active, intent>>
    BY <1>10 DEF CachedRead, WorldChanges
  <2>2. world' \in Reads /\ cache' \in Reads \cup {NoCache}
    BY <1>0, <1>10 DEF CachedRead, WorldChanges, Reads
  <2> QED
    BY <1>0, <2>1, <2>2, SessionAssumption
<1> QED
  BY <1>0, <1>1, <1>2, <1>4, <1>5, <1>6, <1>7, <1>8, <1>9, <1>10
  DEF Next, CommandStep, RestoreStep, Actors

-----------------------------------------------------------------------------
(* What a step does to the store.                                          *)

\* A request asks for a selection of its own project, built from its own read, and
\* as a default if it found the store empty.
AskedByExec(e, kind, t) ==
    /\ exec[e].pc = "decide" /\ exec'[e].pc = "bind"
    /\ exec'[e].parked = exec[e].parked /\ exec'[e].dir = exec[e].dir
    /\ exec[e].dir \in Under[t.ws]
    /\ exec[e].parked.status = "none" => kind = "selectIfNone"
    /\ Ambiguous(t.ws, exec[e].seen) => t.cand = NoContainer

\* A command or the restore asks for a selection built from its own read.
AskedByActor(p, t) ==
    op[p].verb = "use" \/ t.cand = NoContainer \/ ~Ambiguous(t.ws, op[p].seen)

\* The store is written by the steps that enqueue an operation, with a well-formed
\* selection, and by committing.
Asks(p, kind, t) ==
    /\ UNCHANGED selection
    /\ Enqueue(kind, t, p)
    /\ kind \in OpKinds /\ t \in Selections /\ Sound(t)
    /\ p \in Execs => AskedByExec(p, kind, t)
    /\ p \in Actors => AskedByActor(p, t) /\ UNCHANGED exec

\* Only `use' picks.
VerbInv == op[Command].pc = "pick" => op[Command].verb = "use"

LEMMA ExecDecideAsks ==
    ASSUME TypeOK, NEW e \in Execs, ExecDecide(e), queue' # queue
    PROVE  \E kind, t : Asks(e, kind, t)
<1>1. PICK t \in AutoSelectTargets(exec[e]) : Enqueue(AutoSelectKind(exec[e]), t, e)
  BY DEF ExecDecide
<1>2. /\ exec[e].parked \in Selections /\ exec[e].dir \in Dirs /\ exec[e].seen \in Reads
  BY DEF TypeOK, ExecStates
<1>3. /\ t \in Selections /\ Sound(t) /\ exec[e].dir \in Under[t.ws]
      /\ Ambiguous(t.ws, exec[e].seen) => t.cand = NoContainer
  BY <1>1, <1>2, RepairSound, AdoptionSound DEF AutoSelectTargets
<1>4. /\ exec[e].pc = "decide" /\ exec'[e].pc = "bind"
      /\ exec'[e].parked = exec[e].parked /\ exec'[e].dir = exec[e].dir
      /\ UNCHANGED selection
  BY DEF ExecDecide, TypeOK, ExecStates
<1>5. e \notin Actors
  BY SessionAssumption
<1>6. Asks(e, AutoSelectKind(exec[e]), t)
  BY <1>1, <1>3, <1>4, <1>5 DEF Asks, AskedByExec, AutoSelectKind, OpKinds
<1> QED
  BY <1>6

LEMMA StoreStep ==
    ASSUME TypeOK, VerbInv, Next
    PROVE  \/ UNCHANGED storeVars
           \/ CommitHead /\ UNCHANGED <<exec, op>>
           \/ \E p \in Callers : \E kind, t : Asks(p, kind, t)
<1>0. Execs \subseteq Callers /\ Actors \subseteq Callers /\ Actors \cap Execs = {}
      /\ Command \in Actors /\ Restore \in Actors
  BY SessionAssumption DEF Actors
<1>1. ASSUME NEW e \in Execs, ExecStep(e)
      PROVE  UNCHANGED storeVars \/ \E kind, t : Asks(e, kind, t)
  <2>1. ~ExecDecide(e) => UNCHANGED storeVars
    BY <1>1 DEF ExecStep, ExecStartBound, ExecStartAutoSelect, ExecRead, ExecReadFails, ExecBind,
       ExecRun, storeVars
  <2>2. ExecDecide(e) => UNCHANGED selection
    BY DEF ExecDecide
  <2> QED
    BY <2>1, <2>2, ExecDecideAsks DEF storeVars
<1>2. ASSUME StartCommand
      PROVE  UNCHANGED storeVars \/ Asks(Command, "clear", NoSelection)
  <2>1. ~OffCommand => UNCHANGED storeVars
    BY <1>2 DEF StartCommand, TargetCommand, ListCommand, DestructiveCommand, storeVars
  <2>2. OffCommand => Enqueue("clear", NoSelection, Command) /\ UNCHANGED <<selection, exec>>
    BY DEF OffCommand
  <2>3. NoSelection.cand = NoContainer
    BY DEF NoSelection
  <2> QED
    BY <1>0, <2>1, <2>2, <2>3, NoSelectionSound DEF Asks, AskedByActor, OpKinds
<1>3. ASSUME NEW p \in Actors, Reconcile(p) PROVE \E t : Asks(p, "select", t)
  <2>1. PICK t \in ReconcileSelection(op[p].hint, selection, op[p].seen) : Enqueue("select", t, p)
    BY <1>3 DEF Reconcile
  <2>2. UNCHANGED <<selection, exec>>
    BY <1>3 DEF Reconcile
  <2> QED
    BY <1>0, <2>1, <2>2, ReconcileTarget DEF Asks, AskedByActor, OpKinds
<1>4. ASSUME Pick PROVE \E t : Asks(Command, "select", t)
  <2>1. /\ op[Command].verb = "use"
        /\ Discovered(op[Command].hint.ws, op[Command].seen)
        /\ UNCHANGED <<selection, exec>>
    BY <1>4 DEF Pick, VerbInv
  <2>2. PICK t \in UseSelections(op[Command].hint.ws, op[Command].hint.config, op[Command].seen) :
          Enqueue("select", t, Command)
    BY <1>4 DEF Pick
  <2> QED
    BY <1>0, <2>1, <2>2, PickTarget DEF Asks, AskedByActor, OpKinds
<1>5. ASSUME CommandStep \/ RestoreStep
      PROVE  \/ UNCHANGED storeVars
             \/ Pick
             \/ \E p \in Actors : Reconcile(p)
  BY <1>0, <1>5 DEF CommandStep, RestoreStep, OpStep, Read, Abandon, Resolve, UpCli, Refresh,
     FinishUse, FinishReconciled, FinishOff, FinishRestore, Confirm, DockerDone, storeVars
<1>6. CASE Commit
  BY <1>6 DEF Commit
<1>7. CASE CachedRead \/ WorldChanges
  BY <1>7 DEF CachedRead, WorldChanges, storeVars
<1> QED
  BY <1>0, <1>1, <1>2, <1>3, <1>4, <1>5, <1>6, <1>7 DEF Next

-----------------------------------------------------------------------------
(* The invariant.                                                          *)

\* A request whose operation is queued waits for it, and keeps what it asked from:
\* so a queued operation still is what AskedByExec said of it.
QueueInv ==
    \A i \in DOMAIN queue : queue[i].by \in Execs =>
        LET e == queue[i].by IN
        /\ exec[e].pc = "bind"
        /\ exec[e].dir \in Under[queue[i].target.ws]
        /\ exec[e].parked.status = "none" => queue[i].kind = "selectIfNone"

SoundInv == Sound(selection) /\ \A i \in DOMAIN queue : Sound(queue[i].target)

IInv == TypeOK /\ VerbInv /\ SoundInv /\ QueueInv

LEMMA InitIInv == Init => IInv
<1> SUFFICES ASSUME Init PROVE IInv
  OBVIOUS
<1>1. selection = NoSelection /\ queue = <<>>
  BY DEF Init, StoreInit
<1>2. TypeOK
  <2>1. selection \in Selections /\ queue \in Seq(StoreOps)
    BY <1>1, NoSelectionSound
  <2>2. world \in Reads /\ intent \in Intents
    BY SessionAssumption DEF Init
  <2>3. active \in BOOLEAN
    BY DEF Init, DecideActivation
  <2>4. exec \in [Execs -> ExecStates] /\ cache = NoCache
    BY ConstantsType DEF Init
  <2>5. op \in [Actors -> OpStates]
    <3>1. [ws |-> intent.ws, cand |-> intent.cand, config |-> intent.config] \in Hints
      BY <2>2 DEF Intents, Hints, Contexts
    <3>2. \A h \in Hints : [IdleOp EXCEPT !.pc = "read", !.verb = "restore", !.hint = h] \in OpStates
      BY ConstantsType DEF OpStates, Verbs
    <3>3. RestoreOp(intent) \in OpStates
      BY <3>1, <3>2 DEF RestoreOp
    <3> QED
      BY <3>3, ConstantsType DEF Init
  <2>6. eventsLeft \in 0..MaxEvents
    BY SessionAssumption DEF Init
  <2> QED
    BY <2>1, <2>2, <2>3, <2>4, <2>5, <2>6 DEF TypeOK, StoreTypeOK
<1>3. VerbInv
  <2>1. op[Command] = IdleOp
    BY SessionAssumption DEF Init, Actors
  <2> QED
    BY <2>1 DEF VerbInv, IdleOp
<1>4. SoundInv /\ QueueInv
  BY <1>1, NoSelectionSound DEF SoundInv, QueueInv
<1> QED
  BY <1>2, <1>3, <1>4 DEF IInv

LEMMA TypeStep == TypeOK /\ VerbInv /\ [Next]_vars => TypeOK'
<1> SUFFICES ASSUME TypeOK, VerbInv, [Next]_vars PROVE TypeOK'
  OBVIOUS
<1>1. CASE UNCHANGED vars
  BY <1>1 DEF vars, TypeOK, StoreTypeOK
<1>2. CASE Next
  <2>1. selection' \in Selections /\ queue' \in Seq(StoreOps)
    BY <1>2, StoreStep, CommitEffect, EnqueueEffect DEF TypeOK, StoreTypeOK, storeVars, Asks
  <2>2. exec' \in [Execs -> ExecStates]
    <3>1. (\E e \in Execs : ExecStep(e)) \/ UNCHANGED exec
      BY <1>2 DEF Next, StartCommand, TargetCommand, ListCommand, OffCommand, DestructiveCommand,
         CommandStep, RestoreStep, OpStep, Read, Reconcile, Abandon, Pick, Resolve, UpCli, Refresh,
         FinishUse, FinishReconciled, FinishOff, FinishRestore, Confirm, DockerDone, Commit,
         CachedRead, WorldChanges
    <3> QED
      BY <3>1, ExecType DEF TypeOK
  <2>3. op' \in [Actors -> OpStates]
    <3>1. StartCommand \/ CommandStep \/ RestoreStep \/ UNCHANGED op
      BY <1>2 DEF Next, ExecStep, ExecStartBound, ExecStartAutoSelect, ExecRead, ExecReadFails,
         ExecDecide, ExecBind, ExecRun, Commit, CachedRead, WorldChanges
    <3> QED
      BY <3>1, StartType, OpType DEF TypeOK
  <2> QED
    BY <1>2, <2>1, <2>2, <2>3, WorldType DEF TypeOK, StoreTypeOK
<1> QED
  BY <1>1, <1>2

LEMMA VerbStep == TypeOK /\ VerbInv /\ [Next]_vars => VerbInv'
<1> SUFFICES ASSUME TypeOK, VerbInv, [Next]_vars, op'[Command].pc = "pick"
             PROVE  op'[Command].verb = "use"
  BY DEF VerbInv
<1>0. Command \in Actors /\ Restore \in Actors /\ Command # Restore /\ IdleOp.pc = "idle"
      /\ \A p \in Actors : op[p] \in OpStates
  BY SessionAssumption DEF Actors, IdleOp, TypeOK
<1>1. ASSUME Read(Command) PROVE op'[Command].verb = "use"
  <2>1. AfterRead(op[Command].verb) = "pick" /\ op'[Command].verb = op[Command].verb
    BY <1>0, <1>1 DEF Read, TypeOK, OpStates
  <2> QED
    BY <2>1 DEF AfterRead
<1>2. ASSUME StartCommand PROVE FALSE
  <2>1. \A verb, pc, h : CommandStarts(verb, pc, h) => op'[Command].pc = pc
    <3> SUFFICES ASSUME NEW verb, NEW pc, NEW h, CommandStarts(verb, pc, h) PROVE op'[Command].pc = pc
      OBVIOUS
    <3>1. op'[Command] = [IdleOp EXCEPT !.pc = pc, !.verb = verb, !.hint = h]
      BY <1>0 DEF CommandStarts, TypeOK
    <3>2. \A r \in OpStates : [r EXCEPT !.pc = pc, !.verb = verb, !.hint = h].pc = pc
      BY DEF OpStates
    <3> QED
      BY <3>1, <3>2, ConstantsType
  <2> QED
    BY <1>2, <2>1 DEF StartCommand, TargetCommand, ListCommand, OffCommand, DestructiveCommand
<1>3. ASSUME Restore # Command, RestoreStep PROVE op'[Command] = op[Command]
  BY <1>0, <1>3 DEF RestoreStep, OpStep, Read, Reconcile, Abandon, FinishRestore, Ends, TypeOK
<1>4. ASSUME CommandStep, ~Read(Command) PROVE FALSE
  <2>0. op[Command] \in OpStates
    BY <1>0
  <2>1. ASSUME Reconcile(Command) \/ Pick PROVE op'[Command].pc = "commit"
    <3>1. PICK t : op' = [op EXCEPT ![Command].pc = "commit", ![Command].target = t,
                                    ![Command].seen = NothingSeen]
      BY <2>1 DEF Reconcile, Pick
    <3> QED
      BY <1>0, <2>0, <3>1 DEF TypeOK, OpStates
  <2>2. ASSUME Resolve PROVE op'[Command].pc = "cli"
    BY <1>0, <2>0, <2>2 DEF Resolve, TypeOK, OpStates
  <2>3. ASSUME Refresh PROVE op'[Command].pc = "reconcile"
    BY <1>0, <2>0, <2>3 DEF Refresh, TypeOK, OpStates
  <2>4. ASSUME NEW pc, StepTo(Command, pc) PROVE op'[Command].pc = pc
    BY <1>0, <2>0, <2>4 DEF StepTo, TypeOK, OpStates
  <2>5. ASSUME Ends(Command) PROVE op'[Command].pc = "idle"
    BY <1>0, <2>5 DEF Ends, TypeOK
  <2>6. \/ Reconcile(Command) \/ Pick \/ Resolve \/ Refresh
        \/ StepTo(Command, "refresh") \/ StepTo(Command, "docker") \/ Ends(Command)
    BY <1>4 DEF CommandStep, OpStep, Abandon, UpCli, FinishUse, FinishReconciled, FinishOff,
       Confirm, DockerDone
  <2> QED
    BY <2>1, <2>2, <2>3, <2>4, <2>5, <2>6
<1>5. ASSUME op'[Command] = op[Command] PROVE op'[Command].verb = "use"
  BY <1>5 DEF VerbInv
<1>6. StartCommand \/ CommandStep \/ RestoreStep \/ UNCHANGED op
  BY DEF vars, Next, ExecStep, ExecStartBound, ExecStartAutoSelect, ExecRead, ExecReadFails,
     ExecDecide, ExecBind, ExecRun, Commit, CachedRead, WorldChanges
<1> QED
  BY <1>0, <1>1, <1>2, <1>3, <1>4, <1>5, <1>6

\* A request with an operation in the queue takes no step.
LEMMA ExecWaits ==
    ASSUME TypeOK, QueueInv, [Next]_vars, NEW i \in DOMAIN queue, queue[i].by \in Execs
    PROVE  exec'[queue[i].by] = exec[queue[i].by]
<1> DEFINE e == queue[i].by
<1>0. e \in Execs
  OBVIOUS
<1>1. exec[e].pc = "bind" /\ Pending(e)
  BY DEF QueueInv, Pending
<1> HIDE DEF e
<1>2. ASSUME NEW x \in Execs, ExecStep(x) PROVE x # e /\ exec'[e] = exec[e]
  <2>1. x # e
    BY <1>1, <1>2 DEF ExecStep, ExecStartBound, ExecStartAutoSelect, ExecRead, ExecReadFails,
       ExecDecide, ExecBind, ExecRun
  <2>2. ASSUME NEW d \in Dirs, ExecStartBound(x, d) \/ ExecStartAutoSelect(x, d)
        PROVE  exec'[e] = exec[e]
    BY <1>0, <2>1, <2>2 DEF ExecStartBound, ExecStartAutoSelect, BoundTo, TypeOK
  <2>3. ASSUME ExecRead(x) \/ ExecReadFails(x) \/ ExecDecide(x) PROVE exec'[e] = exec[e]
    BY <1>0, <2>1, <2>3 DEF ExecRead, SeenByExec, ExecReadFails, ExecDecide, TypeOK
  <2>4. ASSUME ExecBind(x) \/ ExecRun(x) PROVE exec'[e] = exec[e]
    BY <1>0, <2>1, <2>4 DEF ExecBind, ExecRun, BoundTo, TypeOK
  <2> QED
    BY <1>2, <2>1, <2>2, <2>3, <2>4 DEF ExecStep
<1>3. (\E x \in Execs : ExecStep(x)) \/ UNCHANGED exec
  BY DEF vars, Next, StartCommand, TargetCommand, ListCommand, OffCommand, DestructiveCommand,
     CommandStep, RestoreStep, OpStep, Read, Reconcile, Abandon, Pick, Resolve, UpCli, Refresh,
     FinishUse, FinishReconciled, FinishOff, FinishRestore, Confirm, DockerDone, Commit,
     CachedRead, WorldChanges
<1> QED
  BY <1>2, <1>3 DEF e

LEMMA SoundStep == IInv /\ [Next]_vars => SoundInv'
<1> SUFFICES ASSUME IInv, [Next]_vars PROVE SoundInv'
  OBVIOUS
<1> USE DEF IInv, SoundInv
<1>1. CASE UNCHANGED storeVars
  BY <1>1 DEF storeVars
<1>2. CASE CommitHead
  <2>1. Sound(Head(queue).target) /\ Sound(selection')
    BY <1>2, CommitEffect, NoSelectionSound DEF TypeOK
  <2>2. \A i \in DOMAIN queue' : i + 1 \in DOMAIN queue /\ queue'[i] = queue[i + 1]
    BY <1>2, CommitEffect DEF TypeOK
  <2>3. \A i \in DOMAIN queue' : Sound(queue'[i].target)
    BY <2>2
  <2> QED
    BY <2>1, <2>3
<1>3. ASSUME NEW p \in Callers, NEW kind, NEW t, Asks(p, kind, t) PROVE SoundInv'
  <2>1. /\ \A i \in DOMAIN queue' : i \in DOMAIN queue \/ i = Len(queue')
        /\ \A i \in DOMAIN queue : queue'[i] = queue[i]
        /\ queue'[Len(queue')] = [kind |-> kind, target |-> t, by |-> p]
    BY <1>3, EnqueueEffect DEF Asks, TypeOK, StoreTypeOK
  <2>2. queue'[Len(queue')].target = t
    BY <2>1
  <2>3. \A i \in DOMAIN queue' : Sound(queue'[i].target)
    BY <1>3, <2>1, <2>2 DEF Asks
  <2> QED
    BY <1>3, <2>3 DEF Asks
<1> QED
  BY <1>1, <1>2, <1>3, StoreStep DEF vars, storeVars

LEMMA QueueStep == IInv /\ [Next]_vars => QueueInv'
<1> SUFFICES ASSUME IInv, [Next]_vars, NEW i \in DOMAIN queue', queue'[i].by \in Execs
             PROVE  LET e == queue'[i].by IN
                    /\ exec'[e].pc = "bind"
                    /\ exec'[e].dir \in Under[queue'[i].target.ws]
                    /\ exec'[e].parked.status = "none" => queue'[i].kind = "selectIfNone"
  BY DEF QueueInv
<1> USE DEF IInv
<1>1. ASSUME NEW j \in DOMAIN queue, queue'[i] = queue[j]
      PROVE  LET e == queue'[i].by IN
             /\ exec'[e].pc = "bind"
             /\ exec'[e].dir \in Under[queue'[i].target.ws]
             /\ exec'[e].parked.status = "none" => queue'[i].kind = "selectIfNone"
  BY <1>1, ExecWaits DEF QueueInv
<1>2. CASE UNCHANGED storeVars
  BY <1>1, <1>2 DEF storeVars
<1>3. CASE CommitHead
  BY <1>1, <1>3, CommitEffect DEF TypeOK
<1>4. ASSUME NEW p \in Callers, NEW kind, NEW t, Asks(p, kind, t), i \notin DOMAIN queue
      PROVE  LET e == queue'[i].by IN
             /\ exec'[e].pc = "bind"
             /\ exec'[e].dir \in Under[queue'[i].target.ws]
             /\ exec'[e].parked.status = "none" => queue'[i].kind = "selectIfNone"
  <2>1. queue'[i] = [kind |-> kind, target |-> t, by |-> p]
    BY <1>4, EnqueueEffect DEF Asks, TypeOK, StoreTypeOK
  <2> QED
    BY <1>4, <2>1 DEF Asks, AskedByExec
<1>5. ASSUME NEW p \in Callers, NEW kind, NEW t, Asks(p, kind, t), i \in DOMAIN queue
      PROVE  queue'[i] = queue[i]
  BY <1>5, EnqueueEffect DEF Asks, TypeOK, StoreTypeOK
<1> QED
  BY <1>1, <1>2, <1>3, <1>4, <1>5, StoreStep DEF vars, storeVars

LEMMA Invariance == Spec => []IInv
<1>1. IInv /\ [Next]_vars => IInv'
  BY TypeStep, VerbStep, SoundStep, QueueStep DEF IInv
<1> QED
  BY InitIInv, <1>1, PTL DEF Spec

-----------------------------------------------------------------------------
(* The theorems.                                                           *)

\* Every variable keeps its type, whatever the workspaces, containers,
\* configurations and requests.
THEOREM TypeCorrect == Spec => []TypeOK
BY Invariance, PTL DEF IInv

\* The whole session writes its target store only by the queue (target-store.ts,
\* enqueue): no handler assigns the selection, and none loses, reorders or repeats
\* an operation of another.
THEOREM SessionUsesStore == Spec => StoreSpec
<1>1. Init => StoreInit
  BY DEF Init
<1>2. IInv /\ [Next]_vars => [StoreNext]_storeVars
  <2> SUFFICES ASSUME IInv, [Next]_vars PROVE [StoreNext]_storeVars
    OBVIOUS
  <2>1. ASSUME NEW p \in Callers, NEW kind, NEW t, Asks(p, kind, t) PROVE StoreNext
    BY <2>1, EnqueueEffect DEF Asks, IInv, TypeOK, StoreTypeOK, StoreNext
  <2> QED
    BY <2>1, StoreStep DEF IInv, vars, storeVars, StoreNext
<1> QED
  BY Invariance, <1>1, <1>2, PTL DEF Spec, StoreSpec

\* Every selection the store holds, or has been asked to commit, is one bind() and
\* the CLI can rely on.
THEOREM SelectionsAreWellFormed == Spec => []SelectionsWellFormed
<1>1. IInv => SelectionsWellFormed
  BY DEF IInv, SoundInv, Sound, SelectionsWellFormed, WellFormed, Bindable
<1> QED
  BY Invariance, <1>1, PTL

\* autoSelect never leaves the project of the request it selects for.
THEOREM AutoSelectStaysInProject == Spec => []AutoSelectKeepsProject
<1>1. IInv => AutoSelectKeepsProject
  BY DEF IInv, QueueInv, AutoSelectKeepsProject
<1> QED
  BY Invariance, <1>1, PTL

\* A default adopted for an empty store never displaces a selection made while it
\* was being looked up.
THEOREM AdoptionYields == Spec => AdoptionNeverDisplaces
<1> DEFINE Yields == \A e \in Execs :
                CommitsFor(e) /\ exec[e].parked.status = "none" /\ selection.status # "none"
                => selection' = selection
<1>1. IInv /\ [Next]_vars => [Yields]_vars
  <2> SUFFICES ASSUME IInv, Next, NEW e \in Execs, CommitsFor(e),
                      exec[e].parked.status = "none", selection.status # "none"
               PROVE  selection' = selection
    OBVIOUS
  <2>1. 1 \in DOMAIN queue /\ Head(queue) = queue[1] /\ queue[1].by = e
    BY DEF CommitsFor, IInv, TypeOK, StoreTypeOK
  <2>2. queue[1].kind = "selectIfNone"
    BY <2>1 DEF IInv, QueueInv
  <2>3. CommitHead => selection' = selection
    BY <2>1, <2>2 DEF CommitHead, Apply
  <2> QED
    BY <2>3, StoreStep DEF IInv, storeVars, Asks
<1> QED
  BY Invariance, <1>1, PTL DEF Spec, AdoptionNeverDisplaces

\* Nobody but the operator chooses between containers a read saw running.
THEOREM AmbiguityIsAsked == Spec => AmbiguityNeverGuessed
<1> DEFINE Asked == \A p \in Callers :
                LET o == queue'[Len(queue')]
                    seen == IF p \in Execs THEN exec[p].seen ELSE op[p].seen
                IN  /\ Len(queue') > Len(queue)
                    /\ o.by = p
                    /\ p \in Execs \/ op[p].verb # "use"
                    /\ o.target.cand # NoContainer
                    => ~Ambiguous(o.target.ws, seen)
<1>1. IInv /\ [Next]_vars => [Asked]_vars
  <2> SUFFICES ASSUME IInv, Next, NEW p \in Callers,
                      Len(queue') > Len(queue), queue'[Len(queue')].by = p,
                      p \in Execs \/ op[p].verb # "use",
                      queue'[Len(queue')].target.cand # NoContainer
               PROVE  ~Ambiguous(queue'[Len(queue')].target.ws,
                                 IF p \in Execs THEN exec[p].seen ELSE op[p].seen)
    OBVIOUS
  <2>1. ~CommitHead /\ ~UNCHANGED storeVars
    BY DEF CommitHead, storeVars, IInv, TypeOK, StoreTypeOK
  <2>q. PICK q \in Callers : \E kind, t : Asks(q, kind, t)
    BY <2>1, StoreStep DEF IInv
  <2>2. PICK kind, t : Asks(q, kind, t)
    BY <2>q
  <2>3. queue'[Len(queue')] = [kind |-> kind, target |-> t, by |-> q]
    BY <2>2, EnqueueEffect DEF Asks, IInv, TypeOK, StoreTypeOK
  <2>4. q = p /\ t.cand # NoContainer /\ (p \in Execs \/ p \in Actors)
    BY <2>3, SessionAssumption
  <2> QED
    BY <2>2, <2>3, <2>4, SessionAssumption DEF Asks, AskedByExec, AskedByActor
<1> QED
  BY Invariance, <1>1, PTL DEF Spec, AmbiguityNeverGuessed

=============================================================================
