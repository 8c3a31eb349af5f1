------------------------- MODULE DshSession_proofs -------------------------
(***************************************************************************)
(* For any workspaces, containers, shell commands and bound: under dsh the *)
(* two surfaces and the shell commands write the store only through its    *)
(* queue, an adopted default yields to what was selected in the meantime,  *)
(* and up and rebuild reconcile with a read begun after their own CLI.     *)
(*                                                                         *)
(* A step changes the registry reads in one of four ways, one verb in one  *)
(* way and the store in one of three: the lemmas say so once, and the      *)
(* invariants follow from them.                                            *)
(***************************************************************************)
EXTENDS DshSession, TLAPS

-----------------------------------------------------------------------------
(* What the rules of target selection return.                              *)

LEMMA NoSelectionType == NoSelection \in Selections
BY DEF NoSelection, Selections, Statuses, ContainerStates

LEMMA DiscoveredIsWorkspace ==
    ASSUME NEW w, NEW seen, Discovered(w, seen)
    PROVE  w \in Workspaces
BY RulesAssumption DEF Discovered, Candidates

LEMMA SelectionForType ==
    ASSUME NEW w \in Workspaces, NEW c \in Containers \cup {NoContainer},
           NEW cfg \in Configs \cup {NoConfig}, NEW seen \in Reads
    PROVE  SelectionFor(w, c, cfg, seen) \in Selections
<1>1. ResolvedConfig(w, cfg) \in Configs \cup {NoConfig}
  BY RulesAssumption DEF ResolvedConfig
<1>2. [NoSelection EXCEPT !.status = "selected-ambiguous", !.ws = w] \in Selections
  <2>1. \A sel \in Selections :
           [sel EXCEPT !.status = "selected-ambiguous", !.ws = w] \in Selections
    BY DEF Selections, Statuses
  <2> QED
    BY <2>1, NoSelectionType
<1>3. \A state \in ContainerStates, config \in Configs \cup {NoConfig},
         status \in {"selected-valid", "selected-stopped"} :
        [status |-> status, ws |-> w, cand |-> c, state |-> state, config |-> config] \in Selections
  BY DEF Selections, Statuses
<1>4. c # NoContainer => seen[c] \in ContainerStates
  BY DEF Reads
<1> DEFINE status == IF (IF c = NoContainer THEN EntryState(w, seen) ELSE seen[c]) = "running"
                     THEN "selected-valid" ELSE "selected-stopped"
           state == IF c = NoContainer THEN "absent" ELSE seen[c]
           config == IF c = NoContainer THEN NoConfig ELSE ResolvedConfig(w, cfg)
<1>5. /\ status \in {"selected-valid", "selected-stopped"} /\ state \in ContainerStates
      /\ config \in Configs \cup {NoConfig}
  BY <1>1, <1>4 DEF ContainerStates
<1>6. SelectionFor(w, c, cfg, seen) \in
        {[NoSelection EXCEPT !.status = "selected-ambiguous", !.ws = w],
         [status |-> status, ws |-> w, cand |-> c, state |-> state, config |-> config]}
  BY DEF SelectionFor
<1> HIDE DEF status, state, config
<1> QED
  BY <1>2, <1>3, <1>5, <1>6

LEMMA PrimariesType ==
    ASSUME NEW w, NEW seen PROVE Primaries(w, seen) \subseteq Containers \cup {NoContainer}
BY DEF Primaries, RunningOf, Candidates

\* autoSelect, by repair or by adoption.
LEMMA AutoSelectType ==
    ASSUME NEW r, r.parked \in Selections, NEW dir, reads[r.read].seen \in Reads,
           NEW t \in AutoSelectTargets(r, dir)
    PROVE  t \in Selections
<1> DEFINE seen == reads[r.read].seen
<1>1. ASSUME NEW w, t \in ResolveTargetAdoption(w, seen) PROVE t \in Selections
  <2>1. w \in Workspaces
    BY <1>1 DEF ResolveTargetAdoption
  <2>2. PICK c \in IF Ambiguous(w, seen) THEN {NoContainer} ELSE Primaries(w, seen) :
          t = SelectionFor(w, c, NoConfig, seen)
    BY <1>1 DEF ResolveTargetAdoption
  <2>3. c \in Containers \cup {NoContainer}
    BY <2>2, PrimariesType
  <2> QED
    BY <2>1, <2>2, <2>3, SelectionForType
<1>2. ASSUME t \in ResolveTargetRepair(r.parked, dir, seen) PROVE t \in Selections
  <2>1. r.parked.ws \in Workspaces /\ r.parked.config \in Configs \cup {NoConfig}
    BY <1>2, DiscoveredIsWorkspace DEF ResolveTargetRepair, Selections
  <2>2. PICK c \in RunningOf(r.parked.ws, seen) :
          t = SelectionFor(r.parked.ws, c, r.parked.config, seen)
    BY <1>2 DEF ResolveTargetRepair
  <2>3. c \in Containers
    BY <2>2 DEF RunningOf, Candidates
  <2> QED
    BY <2>1, <2>2, <2>3, SelectionForType
<1> QED
  BY <1>1, <1>2 DEF AutoSelectTargets, AdoptionAtOrUnder

LEMMA ReconcileType ==
    ASSUME NEW hint \in Contexts, NEW seen \in Reads, selection \in Selections,
           NEW t \in ReconcileSelection(hint, selection, seen)
    PROVE  t \in Selections
<1> DEFINE carried == IF hint.config # NoConfig THEN hint.config
                      ELSE IF selection.ws = hint.ws THEN selection.config
                      ELSE NoConfig
<1>1. hint.ws \in Workspaces \cup {NoWorkspace} /\ carried \in Configs \cup {NoConfig}
  BY DEF Contexts, Selections
<1>2. CASE Discovered(hint.ws, seen)
  <2>1. PICK c \in UsableIds(hint, seen) : t = SelectionFor(hint.ws, c, carried, seen)
    BY <1>2 DEF ReconcileSelection
  <2>2. c \in Containers \cup {NoContainer}
    BY <2>1, PrimariesType DEF UsableIds, Candidates
  <2>3. hint.ws \in Workspaces
    BY <1>2, DiscoveredIsWorkspace
  <2> HIDE DEF carried
  <2> QED
    BY <1>1, <2>1, <2>2, <2>3, SelectionForType
<1>3. CASE ~Discovered(hint.ws, seen)
  <2>1. t = [NoSelection EXCEPT !.status = "selected-missing", !.ws = hint.ws]
    BY <1>3 DEF ReconcileSelection, MissingSelection
  <2>2. \A sel \in Selections :
           [sel EXCEPT !.status = "selected-missing", !.ws = hint.ws] \in Selections
    BY <1>1 DEF Selections, Statuses
  <2> QED
    BY <2>1, <2>2, NoSelectionType
<1> QED
  BY <1>2, <1>3

LEMMA UseType ==
    ASSUME NEW w, NEW seen \in Reads, Discovered(w, seen), NEW t \in UseSelections(w, NoConfig, seen)
    PROVE  t \in Selections
<1>1. PICK c \in Candidates(w, seen) \cup
                 (IF Ambiguous(w, seen) THEN {} ELSE Primaries(w, seen)) :
        t = SelectionFor(w, c, NoConfig, seen)
  BY DEF UseSelections
<1>2. c \in Containers \cup {NoContainer} /\ w \in Workspaces
  BY <1>1, PrimariesType, DiscoveredIsWorkspace DEF Candidates
<1> QED
  BY <1>1, <1>2, SelectionForType

-----------------------------------------------------------------------------
(* The store.                                                              *)

LEMMA EnqueueEffect ==
    ASSUME queue \in Seq(StoreOps), NEW kind \in OpKinds, NEW t \in Selections,
           NEW by \in Callers, Enqueue(kind, t, by)
    PROVE  /\ queue' \in Seq(StoreOps)
           /\ Len(queue') = Len(queue) + 1
           /\ \A i \in DOMAIN queue : queue'[i] = queue[i]
           /\ \A i \in DOMAIN queue' : i \in DOMAIN queue \/ i = Len(queue')
           /\ queue'[Len(queue')] = [kind |-> kind, target |-> t, by |-> by]
           /\ Called
<1> DEFINE o == [kind |-> kind, target |-> t, by |-> by]
<1>1. o \in StoreOps /\ queue' = Append(queue, o)
  BY DEF StoreOps, Enqueue
<1> HIDE DEF o
<1>2. /\ queue' \in Seq(StoreOps)
      /\ Len(queue') = Len(queue) + 1
      /\ \A i \in DOMAIN queue : queue'[i] = queue[i]
      /\ \A i \in DOMAIN queue' : i \in DOMAIN queue \/ i = Len(queue')
      /\ queue'[Len(queue')] = o /\ Len(queue') \in DOMAIN queue'
  BY <1>1
<1>3. Called
  BY <1>1, <1>2 DEF Called
<1> QED
  BY <1>2, <1>3 DEF o

LEMMA CommitEffect ==
    ASSUME StoreTypeOK, CommitHead
    PROVE  /\ queue' \in Seq(StoreOps) /\ selection' \in Selections
           /\ \A i \in DOMAIN queue' : i + 1 \in DOMAIN queue /\ queue'[i] = queue[i + 1]
<1> USE DEF StoreTypeOK, CommitHead
<1>1. /\ queue' \in Seq(StoreOps) /\ Head(queue) \in StoreOps
      /\ \A i \in DOMAIN queue' : i + 1 \in DOMAIN queue /\ queue'[i] = queue[i + 1]
  OBVIOUS
<1>2. selection' \in {NoSelection, selection, Head(queue).target}
  BY DEF Apply
<1> QED
  BY <1>1, <1>2, NoSelectionType DEF StoreOps

-----------------------------------------------------------------------------
(* The registry reads.                                                     *)

Memoised(m) == IF m = 0 THEN 0 ELSE 1

\* Reads are only ever begun at the end, and what preceded one does not change.
ReadsGrow ==
    /\ reads' \in Seq(Promises)
    /\ memo' \in 0..Len(reads')
    /\ Len(reads) <= Len(reads')
    /\ \A i \in DOMAIN reads : reads'[i].after = reads[i].after
    /\ memo' = memo \/ (memo' # 0 /\ reads'[memo'].after = mutations)

ReadsType == reads \in Seq(Promises) /\ memo \in 0..Len(reads) /\ mutations \in 0..MaxEvents

LEMMA BeginEffect ==
    ASSUME ReadsType, MaxEvents \in Nat, RefreshMemo
    PROVE  /\ ReadsGrow
           /\ Len(reads') = Len(reads) + 1 /\ memo' = Len(reads')
           /\ reads'[memo'].after = mutations
<1>1. Begun \in Promises /\ Begun.after = mutations
  BY DEF Begun, Promises, NothingSeen, Reads, ContainerStates, ReadsType
<1>2. reads' = Append(reads, Begun) /\ memo' = Len(reads) + 1
  BY DEF RefreshMemo
<1> QED
  BY <1>1, <1>2 DEF ReadsGrow, ReadsType

LEMMA JoinEffect ==
    ASSUME ReadsType, MaxEvents \in Nat, JoinMemo
    PROVE  /\ ReadsGrow
           /\ Len(reads') + Memoised(memo) = Len(reads) + Memoised(memo')
           /\ JoinedRead = memo' /\ memo' # 0
<1>1. CASE memo = 0
  BY <1>1, BeginEffect DEF JoinMemo, RefreshMemo, JoinedRead, Memoised, ReadsType
<1>2. CASE memo # 0
  BY <1>2 DEF JoinMemo, JoinedRead, ReadsGrow, ReadsType
<1> QED
  BY <1>1, <1>2

LEMMA KeepEffect ==
    ASSUME ReadsType, UNCHANGED <<reads, memo>>
    PROVE  ReadsGrow /\ Len(reads') + Memoised(memo) = Len(reads) + Memoised(memo')
BY DEF ReadsGrow, ReadsType, Memoised

LEMMA SettleEffect ==
    ASSUME ReadsType, world \in Reads, NEW i \in DOMAIN reads, ReadLands(i) \/ ReadFails(i)
    PROVE  ReadsGrow /\ Len(reads') + Memoised(memo) = Len(reads) + Memoised(memo')
<1>1. PICK new \in Promises : reads' = [reads EXCEPT ![i] = new] /\ new.after = reads[i].after
  <2>1. reads[i] \in Promises
    BY DEF ReadsType
  <2>2. \A r \in Promises, w \in Reads :
           /\ [r EXCEPT !.status = "ok", !.seen = w] \in Promises
           /\ [r EXCEPT !.status = "ok", !.seen = w].after = r.after
           /\ [r EXCEPT !.status = "failed"] \in Promises
           /\ [r EXCEPT !.status = "failed"].after = r.after
    BY DEF Promises
  <2>3. \/ reads' = [reads EXCEPT ![i] = [reads[i] EXCEPT !.status = "ok", !.seen = world]]
        \/ reads' = [reads EXCEPT ![i] = [reads[i] EXCEPT !.status = "failed"]]
    BY DEF ReadLands, ReadFails, ReadsType
  <2> QED
    BY <2>1, <2>2, <2>3
<1>2. memo' = memo
  BY DEF ReadLands, ReadFails
<1> QED
  BY <1>1, <1>2 DEF ReadsGrow, ReadsType, Memoised

-----------------------------------------------------------------------------
(* What one verb does to its own state.                                    *)

OpPcs == {"idle", "adopt", "handler", "read", "confirm", "cli", "refresh",
          "reconcile", "commit", "docker"}

\* OpStates without the bounds, which follow from counting.
OpShapes ==
    [pc : OpPcs, verb : Verbs, hint : Contexts, parked : Selections, read : Nat, stamp : Nat]

\* Whether a verb has yet to run the CLI, and yet to begin the read that follows it.
OwesCli(r) == IF r.pc \in {"adopt", "handler", "read", "confirm", "cli"} THEN 1 ELSE 0

OwesRead(r) == IF r.pc \in {"adopt", "handler", "read", "confirm", "cli", "refresh"} THEN 1 ELSE 0

\* A verb with an operation in the queue awaits no read; one that reconciles has
\* begun its read after its own CLI.
OpSound(r, n, m) ==
    /\ r.read <= n /\ r.stamp <= m
    /\ r.pc \in {"handler", "commit"} => r.read = 0
    /\ r.pc = "reconcile" => r.read # 0

Moves(p, new) ==
    /\ op' = [op EXCEPT ![p] = new]
    /\ new \in OpShapes
    /\ OpSound(new, Len(reads'), mutations')
    /\ new.pc = "reconcile" => reads'[new.read].after >= new.stamp
    /\ mutations' \in Nat /\ mutations <= mutations'
    /\ eventsLeft' \in Nat /\ eventsLeft' <= eventsLeft
    /\ mutations' + OwesCli(new) + eventsLeft' <= mutations + OwesCli(op[p]) + eventsLeft
    /\ Len(reads') + OwesRead(new) + eventsLeft' + Memoised(memo)
          <= Len(reads) + OwesRead(op[p]) + eventsLeft + Memoised(memo')

LEMMA ConstantsType ==
    /\ IdleOp \in OpShapes /\ IdleExec \in ExecStates
    /\ \A sel \in Selections : ContextOf(sel) \in Contexts
    /\ \A w \in Workspaces : [NoContext EXCEPT !.ws = w] \in Contexts
<1>1. \A sel \in Selections : ContextOf(sel) \in Contexts
  BY DEF ContextOf, Contexts, Selections
<1>2. NoContext \in Contexts
  BY <1>1, NoSelectionType DEF NoContext
<1>3. \A w \in Workspaces : [NoContext EXCEPT !.ws = w] \in Contexts
  BY <1>2 DEF Contexts
<1>4. IdleOp \in OpShapes
  BY <1>2, NoSelectionType DEF IdleOp, OpShapes, OpPcs, Verbs
<1>5. IdleExec \in ExecStates
  BY <1>2, NoSelectionType, RulesAssumption, DshAssumption DEF IdleExec, ExecStates, MaxReads
<1> QED
  BY <1>1, <1>3, <1>4, <1>5

OpInv == \A p \in Surfaces : OpSound(op[p], Len(reads), mutations)

\* What the lemmas about one verb assume.
Before(p) == TypeOK /\ OpInv /\ p \in Surfaces

LEMMA BeforeFacts ==
    ASSUME NEW p, Before(p)
    PROVE  /\ op[p] \in OpShapes /\ OpSound(op[p], Len(reads), mutations)
           /\ ReadsType /\ MaxEvents \in Nat /\ Len(reads) \in Nat /\ mutations \in Nat
           /\ memo \in Nat /\ selection \in Selections /\ eventsLeft \in Nat
           /\ \A new : OpIs(p, new) <=> op' = [op EXCEPT ![p] = new]
<1>1. op[p] \in OpStates
  BY DEF Before, TypeOK
<1>2. op[p] \in OpShapes
  BY <1>1, DshAssumption DEF OpStates, OpShapes, OpPcs, MaxReads
<1> QED
  BY <1>2, DshAssumption DEF Before, OpInv, TypeOK, StoreTypeOK, ReadsType, OpIs

\* Ending a verb, and a step that neither reads nor spends anything.
LEMMA EndMoves ==
    ASSUME NEW p, Before(p), Ends(p),
           UNCHANGED <<eventsLeft, mutations>>, ReadsGrow,
           Len(reads') + Memoised(memo) = Len(reads) + Memoised(memo')
    PROVE  Moves(p, IdleOp)
<1>1. IdleOp.pc = "idle" /\ IdleOp.read = 0 /\ IdleOp.stamp = 0 /\ IdleOp \in OpShapes
  BY ConstantsType DEF IdleOp
<1>2. OwesCli(IdleOp) = 0 /\ OwesRead(IdleOp) = 0 /\ OwesCli(op[p]) \in 0..1 /\ OwesRead(op[p]) \in 0..1
  BY <1>1 DEF OwesCli, OwesRead
<1>3. Len(reads') \in Nat /\ Memoised(memo) \in Nat /\ Memoised(memo') \in Nat
  BY DEF ReadsGrow, Memoised
<1>4. OpSound(IdleOp, Len(reads'), mutations')
  BY <1>1, <1>3, BeforeFacts DEF OpSound
<1> QED
  BY <1>1, <1>2, <1>3, <1>4, BeforeFacts DEF Moves, Ends

\* A step of a verb that changes no read and spends no event.
LEMMA QuietMoves ==
    ASSUME NEW p, Before(p), NEW new \in OpShapes, OpIs(p, new),
           UNCHANGED <<eventsLeft, mutations, reads, memo>>,
           OpSound(new, Len(reads), mutations), new.pc # "reconcile",
           OwesCli(new) <= OwesCli(op[p]), OwesRead(new) <= OwesRead(op[p])
    PROVE  Moves(p, new)
<1>1. Memoised(memo) \in Nat /\ OwesCli(new) \in Nat /\ OwesRead(new) \in Nat
      /\ OwesCli(op[p]) \in Nat /\ OwesRead(op[p]) \in Nat
  BY DEF Memoised, OwesCli, OwesRead
<1> QED
  BY <1>1, BeforeFacts DEF Moves

LEMMA OffMoves ==
    ASSUME NEW p, Before(p), OffStarts(p)
    PROVE  \E new : Moves(p, new)
<1> DEFINE new == [IdleOp EXCEPT !.pc = "commit", !.verb = "off"]
<1>1. new \in OpShapes /\ new.pc = "commit" /\ new.read = 0 /\ new.stamp = 0
  BY ConstantsType DEF IdleOp, OpShapes, OpPcs, Verbs
<1>2. /\ OpIs(p, new) /\ eventsLeft > 0 /\ eventsLeft' = eventsLeft - 1
      /\ UNCHANGED <<mutations, reads, memo>>
  BY DEF OffStarts, VerbStarts, outside
<1> HIDE DEF new
<1>3. OwesCli(new) = 0 /\ OwesRead(new) = 0 /\ OwesCli(op[p]) \in Nat /\ OwesRead(op[p]) \in Nat
      /\ Memoised(memo) \in Nat
  BY <1>1 DEF OwesCli, OwesRead, Memoised
<1>4. OpSound(new, Len(reads'), mutations')
  BY <1>1, <1>2, BeforeFacts DEF OpSound
<1>5. /\ eventsLeft \in Nat /\ mutations \in Nat /\ Len(reads) \in Nat
      /\ op' = [op EXCEPT ![p] = new]
  BY <1>2, BeforeFacts
<1>6. /\ eventsLeft' \in Nat /\ eventsLeft' <= eventsLeft
      /\ mutations' \in Nat /\ mutations <= mutations'
  BY <1>2, <1>5
<1>8. new.pc # "reconcile"
  BY <1>1
<1>7. /\ mutations' + OwesCli(new) + eventsLeft' <= mutations + OwesCli(op[p]) + eventsLeft
      /\ Len(reads') + OwesRead(new) + eventsLeft' + Memoised(memo)
            <= Len(reads) + OwesRead(op[p]) + eventsLeft + Memoised(memo')
  <2>1. PICK m \in Nat, e \in Nat, e2 \in Nat, n \in Nat, c \in Nat, d \in Nat, k \in Nat :
           /\ m = mutations /\ e = eventsLeft /\ e2 = eventsLeft' /\ n = Len(reads)
           /\ c = OwesCli(op[p]) /\ d = OwesRead(op[p]) /\ k = Memoised(memo)
    BY <1>3, <1>5, <1>6
  <2>2. e2 <= e => m + 0 + e2 <= m + c + e /\ n + 0 + e2 + k <= n + d + e + k
    OBVIOUS
  <2> QED
    BY <1>2, <1>3, <1>6, <2>1, <2>2
<1> QED
  BY <1>1, <1>4, <1>5, <1>6, <1>7, <1>8 DEF Moves

LEMMA OtherVerbMoves ==
    ASSUME NEW p, Before(p), NEW verb \in Verbs, NEW h \in Contexts, OtherVerbStarts(p, verb, h)
    PROVE  ReadsGrow /\ \E new : Moves(p, new)
<1>0. op[p].pc = "idle" /\ eventsLeft' = eventsLeft - 1 /\ UNCHANGED mutations
      /\ eventsLeft > 0
  BY DEF OtherVerbStarts, VerbStarts, outside
<1>1. ASSUME NEW new \in OpShapes, new.pc \in {"adopt", "handler"}, OpIs(p, new),
             new.read <= Len(reads'), new.stamp = 0, new.pc = "handler" => new.read = 0,
             Len(reads') \in Nat,
             Len(reads') + Memoised(memo) = Len(reads) + Memoised(memo')
      PROVE  Moves(p, new)
  <2>1. OwesCli(new) = 1 /\ OwesRead(new) = 1 /\ OwesCli(op[p]) = 0 /\ OwesRead(op[p]) = 0
    BY <1>0, <1>1 DEF OwesCli, OwesRead
  <2>2. Memoised(memo) \in Nat /\ Memoised(memo') \in Nat
    BY DEF Memoised
  <2>3. OpSound(new, Len(reads'), mutations')
    BY <1>0, <1>1, BeforeFacts DEF OpSound
  <2>4. op' = [op EXCEPT ![p] = new] /\ eventsLeft \in Nat /\ mutations \in Nat /\ Len(reads) \in Nat
    BY <1>1, BeforeFacts
  <2>5. /\ mutations' + OwesCli(new) + eventsLeft' <= mutations + OwesCli(op[p]) + eventsLeft
        /\ Len(reads') + OwesRead(new) + eventsLeft' + Memoised(memo)
             <= Len(reads) + OwesRead(op[p]) + eventsLeft + Memoised(memo')
    BY <1>0, <1>1, <2>1, <2>2, <2>4
  <2> QED
    BY <1>0, <1>1, <2>3, <2>4, <2>5 DEF Moves
<1>2. CASE MayAutoSelect
  <2> DEFINE new == [IdleOp EXCEPT !.pc = "adopt", !.verb = verb, !.hint = h,
                                   !.parked = selection, !.read = JoinedRead]
  <2>1. JoinMemo /\ OpIs(p, new)
    BY <1>2 DEF OtherVerbStarts
  <2>2. ReadsGrow /\ Len(reads') + Memoised(memo) = Len(reads) + Memoised(memo')
        /\ JoinedRead \in Nat /\ JoinedRead <= Len(reads') /\ Len(reads') \in Nat
    BY <2>1, JoinEffect, BeforeFacts DEF ReadsGrow
  <2>3. new \in OpShapes /\ new.pc = "adopt" /\ new.stamp = 0 /\ new.read = JoinedRead
    <3>1. selection \in Selections /\ JoinedRead \in Nat
      BY <2>2, BeforeFacts
    <3> QED
      BY <3>1, ConstantsType DEF IdleOp, OpShapes, OpPcs
  <2> HIDE DEF new
  <2> QED
    BY <1>1, <2>1, <2>2, <2>3
<1>3. CASE ~MayAutoSelect
  <2> DEFINE new == [IdleOp EXCEPT !.pc = "handler", !.verb = verb, !.hint = h]
  <2>1. UNCHANGED <<reads, memo>> /\ OpIs(p, new)
    BY <1>3 DEF OtherVerbStarts
  <2>2. ReadsGrow /\ Len(reads') + Memoised(memo) = Len(reads) + Memoised(memo')
        /\ Len(reads') \in Nat
    BY <2>1, KeepEffect, BeforeFacts DEF ReadsGrow
  <2>3. new \in OpShapes /\ new.pc = "handler" /\ new.stamp = 0 /\ new.read = 0
    BY ConstantsType DEF IdleOp, OpShapes, OpPcs
  <2> HIDE DEF new
  <2> QED
    BY <1>1, <2>1, <2>2, <2>3
<1> QED
  BY <1>2, <1>3

LEMMA AdoptMoves ==
    ASSUME NEW p, Before(p), Adopt(p)
    PROVE  \E new : Moves(p, new) /\ new.pc = "handler" /\ new.parked = op[p].parked
<1> DEFINE new == [op[p] EXCEPT !.pc = "handler", !.read = 0]
<1>1. new \in OpShapes /\ new.pc = "handler" /\ new.read = 0 /\ new.stamp = op[p].stamp
      /\ new.parked = op[p].parked
  <2>1. op[p] \in OpShapes
    BY BeforeFacts
  <2> QED
    BY <2>1 DEF OpShapes, OpPcs
<1>2. op[p].pc = "adopt" /\ OpIs(p, new) /\ UNCHANGED <<eventsLeft, mutations, reads, memo>>
  BY DEF Adopt, outside
<1> HIDE DEF new
<1>3. OwesCli(new) = 1 /\ OwesRead(new) = 1 /\ OwesCli(op[p]) = 1 /\ OwesRead(op[p]) = 1
  BY <1>1, <1>2 DEF OwesCli, OwesRead
<1>4. OpSound(new, Len(reads), mutations)
  BY <1>1, BeforeFacts DEF OpSound
<1> QED
  BY <1>1, <1>2, <1>3, <1>4, QuietMoves

LEMMA HandlerReadsMoves ==
    ASSUME NEW p, Before(p), HandlerReads(p)
    PROVE  ReadsGrow /\ \E new : Moves(p, new)
<1>1. JoinMemo /\ op[p].pc = "handler" /\ UNCHANGED <<eventsLeft, mutations>>
  BY DEF HandlerReads, HandlerStarts, outside
<1>2. /\ ReadsGrow /\ Len(reads') + Memoised(memo) = Len(reads) + Memoised(memo')
      /\ JoinedRead \in Nat /\ JoinedRead <= Len(reads') /\ Len(reads') \in Nat
  BY <1>1, JoinEffect, BeforeFacts DEF ReadsGrow
<1>3. CASE op[p].verb = "list"
  <2>1. Ends(p)
    BY <1>3 DEF HandlerReads, Ends
  <2> QED
    BY <1>1, <1>2, <2>1, EndMoves
<1>4. CASE op[p].verb # "list"
  <2> DEFINE begun == Handles(p, "read")
             new == [begun EXCEPT !.read = JoinedRead]
  <2>1. "read" \in OpPcs /\ op[p].verb \in Verbs /\ op[p].hint \in Contexts
    BY BeforeFacts DEF OpPcs, OpShapes
  <2>2. begun \in OpShapes /\ begun.pc = "read" /\ begun.read = 0 /\ begun.stamp = 0
    BY <2>1, ConstantsType DEF Handles, IdleOp, OpShapes
  <2>3. OpIs(p, new)
    BY <1>4 DEF HandlerReads
  <2> HIDE DEF begun
  <2>4. new \in OpShapes /\ new.pc = "read" /\ new.read = JoinedRead /\ new.stamp = 0
    BY <1>2, <2>2 DEF OpShapes
  <2> HIDE DEF new
  <2>5. OwesCli(new) = 1 /\ OwesRead(new) = 1 /\ OwesCli(op[p]) = 1 /\ OwesRead(op[p]) = 1
    BY <1>1, <2>4 DEF OwesCli, OwesRead
  <2>6. OpSound(new, Len(reads'), mutations')
    BY <1>1, <1>2, <2>4, BeforeFacts DEF OpSound
  <2>7. op' = [op EXCEPT ![p] = new] /\ eventsLeft \in Nat /\ mutations \in Nat /\ Len(reads) \in Nat
        /\ Memoised(memo) \in Nat /\ Memoised(memo') \in Nat
    BY <2>3, BeforeFacts DEF Memoised
  <2>8. /\ mutations' + OwesCli(new) + eventsLeft' <= mutations + OwesCli(op[p]) + eventsLeft
        /\ Len(reads') + OwesRead(new) + eventsLeft' + Memoised(memo)
             <= Len(reads) + OwesRead(op[p]) + eventsLeft + Memoised(memo')
    BY <1>1, <1>2, <2>5, <2>7
  <2>9. Moves(p, new)
    BY <1>1, <2>4, <2>6, <2>7, <2>8 DEF Moves
  <2> QED
    BY <1>2, <2>9
<1> QED
  BY <1>3, <1>4

\* A verb that only changes its place, or drops the read it awaited.
LEMMA StepMoves ==
    ASSUME NEW p, Before(p), NEW pc \in OpPcs, NEW n \in {0, op[p].read},
           \/ OpIs(p, [op[p] EXCEPT !.pc = pc]) /\ n = op[p].read
           \/ OpIs(p, [op[p] EXCEPT !.pc = pc, !.read = n]),
           pc \in {"handler", "commit"} => n = 0, pc # "reconcile",
           UNCHANGED <<eventsLeft, mutations, reads, memo>>,
           pc \in {"confirm", "cli"} => op[p].pc \in {"read", "confirm"},
           pc \in {"confirm", "cli", "docker", "commit"}
    PROVE  \E new : Moves(p, new)
<1> DEFINE new == [op[p] EXCEPT !.pc = pc, !.read = n]
<1>0. op[p] \in OpShapes /\ n \in Nat
  BY BeforeFacts DEF OpShapes
<1>1. new \in OpShapes /\ new.pc = pc /\ new.read = n /\ new.stamp = op[p].stamp
  BY <1>0 DEF OpShapes
<1>2. OpIs(p, new)
  BY <1>0 DEF OpShapes
<1> HIDE DEF new
<1>3. OwesCli(new) <= OwesCli(op[p]) /\ OwesRead(new) <= OwesRead(op[p])
  BY <1>1 DEF OwesCli, OwesRead
<1>4. OpSound(new, Len(reads), mutations)
  BY <1>0, <1>1, BeforeFacts DEF OpSound
<1> QED
  BY <1>1, <1>2, <1>3, <1>4, QuietMoves

LEMMA QuietEndMoves ==
    ASSUME NEW p, Before(p), Ends(p), UNCHANGED <<eventsLeft, mutations, reads, memo>>
    PROVE  \E new : Moves(p, new)
BY EndMoves, KeepEffect, BeforeFacts

LEMMA HandlerAsksMoves ==
    ASSUME NEW p, Before(p), HandlerAsks(p)
    PROVE  \E new : Moves(p, new)
<1>1. op[p].pc = "handler" /\ UNCHANGED <<eventsLeft, mutations, reads, memo>>
  BY DEF HandlerAsks, HandlerStarts, outside
<1> DEFINE begun == Handles(p, "confirm")
           new == [begun EXCEPT !.hint = ContextOf(selection)]
<1>2. CASE OpIs(p, new)
  <2>1. op[p].verb \in Verbs /\ op[p].hint \in Contexts /\ ContextOf(selection) \in Contexts
    BY BeforeFacts, ConstantsType DEF OpShapes
  <2>2. begun \in OpShapes /\ begun.pc = "confirm" /\ begun.read = 0 /\ begun.stamp = 0
    BY <2>1, ConstantsType DEF Handles, IdleOp, OpShapes, OpPcs
  <2> HIDE DEF begun
  <2>3. new \in OpShapes /\ new.pc = "confirm" /\ new.read = 0 /\ new.stamp = 0
    BY <2>1, <2>2 DEF OpShapes
  <2> HIDE DEF new
  <2>4. OwesCli(new) = 1 /\ OwesRead(new) = 1 /\ OwesCli(op[p]) = 1 /\ OwesRead(op[p]) = 1
    BY <1>1, <2>3 DEF OwesCli, OwesRead
  <2>5. OpSound(new, Len(reads), mutations)
    BY <2>3, BeforeFacts DEF OpSound
  <2> QED
    BY <1>1, <1>2, <2>3, <2>4, <2>5, QuietMoves
<1>3. CASE Ends(p)
  BY <1>1, <1>3, QuietEndMoves
<1> QED
  BY <1>2, <1>3 DEF HandlerAsks

LEMMA UpCliMoves ==
    ASSUME NEW p, Before(p), UpCli(p)
    PROVE  \E new : Moves(p, new)
<1> DEFINE new == [op[p] EXCEPT !.pc = "refresh", !.stamp = mutations + 1]
<1>1. /\ op[p].pc = "cli" /\ OpIs(p, new) /\ mutations' = mutations + 1
      /\ UNCHANGED <<eventsLeft, reads, memo>>
  BY DEF UpCli
<1>2. new \in OpShapes /\ new.pc = "refresh" /\ new.read = op[p].read /\ new.stamp = mutations + 1
  <2>1. op[p] \in OpShapes /\ mutations + 1 \in Nat
    BY BeforeFacts
  <2> QED
    BY <2>1 DEF OpShapes, OpPcs
<1> HIDE DEF new
<1>3. OwesCli(new) = 0 /\ OwesRead(new) = 1 /\ OwesCli(op[p]) = 1 /\ OwesRead(op[p]) = 1
      /\ Memoised(memo) \in Nat
  BY <1>1, <1>2 DEF OwesCli, OwesRead, Memoised
<1>4. OpSound(new, Len(reads'), mutations')
  BY <1>1, <1>2, BeforeFacts DEF OpSound
<1> QED
  BY <1>1, <1>2, <1>3, <1>4, BeforeFacts DEF Moves

LEMMA RefreshMoves ==
    ASSUME NEW p, Before(p), Refresh(p)
    PROVE  \E new : Moves(p, new)
<1> DEFINE new == [op[p] EXCEPT !.pc = "reconcile", !.read = memo']
<1>1. /\ op[p].pc = "refresh" /\ OpIs(p, new) /\ RefreshMemo
      /\ UNCHANGED <<eventsLeft, mutations>>
  BY DEF Refresh
<1>2. Len(reads') = Len(reads) + 1 /\ memo' = Len(reads') /\ reads'[memo'].after = mutations
  BY <1>1, BeginEffect, BeforeFacts
<1>3. memo' \in Nat /\ memo' # 0 /\ Memoised(memo) \in 0..1 /\ Memoised(memo') = 1
  BY <1>2, BeforeFacts DEF Memoised
<1>4. /\ new \in OpShapes /\ new.pc = "reconcile" /\ new.read = memo'
      /\ new.stamp = op[p].stamp
  BY <1>3, BeforeFacts DEF OpShapes, OpPcs
<1> HIDE DEF new
<1>5. OwesCli(new) = 0 /\ OwesRead(new) = 0 /\ OwesCli(op[p]) = 0 /\ OwesRead(op[p]) = 1
  BY <1>1, <1>4 DEF OwesCli, OwesRead
<1>6. op[p].stamp \in Nat /\ op[p].stamp <= mutations
  BY BeforeFacts DEF OpShapes, OpSound
<1>7. OpSound(new, Len(reads'), mutations')
  BY <1>1, <1>2, <1>3, <1>4, <1>6, BeforeFacts DEF OpSound
<1>8. new.pc = "reconcile" => reads'[new.read].after >= new.stamp
  BY <1>2, <1>4, <1>6, BeforeFacts
<1> QED
  BY <1>1, <1>2, <1>3, <1>4, <1>5, <1>7, <1>8, BeforeFacts DEF Moves

\* Every step of a verb, and what it does to the reads.
LEMMA VerbMoves ==
    ASSUME NEW p, Before(p), VerbStep(p)
    PROVE  ReadsGrow /\ \E new : Moves(p, new)
<1>1. ASSUME UNCHANGED <<reads, memo>> PROVE ReadsGrow
  BY <1>1, KeepEffect, BeforeFacts
<1>2. CASE OffStarts(p)
  BY <1>1, <1>2, OffMoves DEF OffStarts
<1>3. ASSUME NEW verb \in {"use", "up", "rebuild"}, NEW w \in Workspaces,
             OtherVerbStarts(p, verb, [NoContext EXCEPT !.ws = w])
      PROVE  ReadsGrow /\ \E new : Moves(p, new)
  <2> DEFINE h == [NoContext EXCEPT !.ws = w]
  <2>1. verb \in Verbs /\ h \in Contexts
    BY ConstantsType DEF Verbs
  <2>2. OtherVerbStarts(p, verb, h)
    BY <1>3
  <2> HIDE DEF h
  <2> QED
    BY <2>1, <2>2, OtherVerbMoves
<1>4. ASSUME NEW verb \in {"list", "stop", "remove"}, OtherVerbStarts(p, verb, NoContext)
      PROVE  ReadsGrow /\ \E new : Moves(p, new)
  <2>1. verb \in Verbs /\ NoContext \in Contexts
    BY ConstantsType, NoSelectionType DEF Verbs, NoContext
  <2> QED
    BY <1>4, <2>1, OtherVerbMoves
<1>5. CASE Adopt(p)
  BY <1>1, <1>5, AdoptMoves DEF Adopt
<1>6. CASE HandlerReads(p)
  BY <1>6, HandlerReadsMoves
<1>7. CASE HandlerAsks(p)
  BY <1>1, <1>7, HandlerAsksMoves DEF HandlerAsks
<1>8. CASE Abandon(p) \/ DockerDone(p) \/ Finish(p)
  <2>1. Ends(p) /\ UNCHANGED <<eventsLeft, mutations, reads, memo>>
    BY <1>8 DEF Abandon, DockerDone, Finish, outside
  <2> QED
    BY <1>1, <2>1, QuietEndMoves
<1>9. CASE UsePick(p) \/ Reconcile(p)
  <2>1. OpIs(p, [op[p] EXCEPT !.pc = "commit", !.read = 0])
        /\ UNCHANGED <<eventsLeft, mutations, reads, memo>>
    BY <1>9 DEF UsePick, Reconcile, outside
  <2> QED
    BY <1>1, <2>1, StepMoves DEF OpPcs
<1>10. CASE UpResolves(p)
  <2>1. op[p].pc = "read" /\ UNCHANGED <<eventsLeft, mutations, reads, memo>>
    BY <1>10 DEF UpResolves, HandlerSees, outside
  <2>2. CASE OpIs(p, [op[p] EXCEPT !.pc = "cli", !.read = 0])
    BY <1>1, <2>1, <2>2, StepMoves DEF OpPcs
  <2>3. CASE OpIs(p, [op[p] EXCEPT !.pc = "confirm", !.read = 0])
    BY <1>1, <2>1, <2>3, StepMoves DEF OpPcs
  <2>4. CASE Ends(p)
    BY <1>1, <2>1, <2>4, QuietEndMoves
  <2> QED
    BY <1>10, <2>2, <2>3, <2>4 DEF UpResolves
<1>11. CASE Confirm(p)
  <2>1. op[p].pc = "confirm" /\ UNCHANGED <<eventsLeft, mutations, reads, memo>>
    BY <1>11 DEF Confirm, outside
  <2>2. CASE StepTo(p, "cli")
    BY <1>1, <2>1, <2>2, StepMoves DEF OpPcs, StepTo
  <2>3. CASE StepTo(p, "docker")
    BY <1>1, <2>1, <2>3, StepMoves DEF OpPcs, StepTo
  <2>4. CASE Ends(p)
    BY <1>1, <2>1, <2>4, QuietEndMoves
  <2> QED
    BY <1>11, <2>2, <2>3, <2>4 DEF Confirm
<1>12. CASE UpCli(p)
  BY <1>1, <1>12, UpCliMoves DEF UpCli
<1>13. CASE Refresh(p)
  BY <1>13, RefreshMoves, BeginEffect, BeforeFacts DEF Refresh
<1> QED
  BY <1>2, <1>3, <1>4, <1>5, <1>6, <1>7, <1>8, <1>9, <1>10, <1>11, <1>12, <1>13 DEF VerbStep

-----------------------------------------------------------------------------
(* What one shell command does to its own state.                           *)

ExecShapes ==
    [pc : {"idle", "read", "bind", "bound", "present", "ran", "lost", "host", "refused"},
     dir : Dirs, parked : Selections, read : Nat, ctx : Contexts, since : 0..MaxEvents + 1]

ExecMoves(e, new) ==
    /\ exec' = [exec EXCEPT ![e] = new]
    /\ new \in ExecShapes
    /\ new.read <= Len(reads')

\* What every step but a verb's leaves of the counts.
Uncounted ==
    /\ UNCHANGED <<op, mutations>>
    /\ eventsLeft' \in Nat /\ eventsLeft' <= eventsLeft
    /\ Len(reads') + Memoised(memo) = Len(reads) + Memoised(memo')

ExecInv == \A e \in Execs : exec[e].read <= Len(reads)

LEMMA ExecFacts ==
    ASSUME NEW e \in Execs, TypeOK, ExecInv
    PROVE  /\ exec[e] \in ExecShapes /\ exec[e].read <= Len(reads)
           /\ IdleExec \in ExecShapes /\ IdleExec.read = 0
           /\ ReadsType /\ MaxEvents \in Nat /\ Len(reads) \in Nat /\ eventsLeft \in 0..MaxEvents
           /\ selection \in Selections
<1>1. exec[e] \in ExecStates /\ IdleExec \in ExecStates
  BY ConstantsType DEF TypeOK
<1>2. \A r \in ExecStates : r \in ExecShapes
  BY DshAssumption DEF ExecStates, ExecShapes, MaxReads
<1>3. IdleExec.read = 0
  BY DEF IdleExec
<1> QED
  BY <1>1, <1>2, <1>3, DshAssumption DEF ExecInv, TypeOK, StoreTypeOK, ReadsType

\* A shell command that asks nothing of the registry.
LEMMA QuietExec ==
    ASSUME NEW e \in Execs, TypeOK, ExecInv, NEW new \in ExecShapes, new.read \in {0, exec[e].read},
           ExecIs(e, new), UNCHANGED <<reads, memo, op, eventsLeft, mutations>>
    PROVE  ReadsGrow /\ Uncounted /\ ExecMoves(e, new)
<1>1. ReadsGrow /\ Len(reads') + Memoised(memo) = Len(reads) + Memoised(memo')
  BY KeepEffect, ExecFacts
<1>2. new.read <= Len(reads')
  BY ExecFacts
<1> QED
  BY <1>1, <1>2, ExecFacts DEF Uncounted, ExecMoves, ExecIs

LEMMA JoiningExec ==
    ASSUME NEW e \in Execs, TypeOK, ExecInv, NEW new \in ExecShapes, new.read = memo',
           ExecIs(e, new), JoinMemo, UNCHANGED <<op, eventsLeft, mutations>>
    PROVE  ReadsGrow /\ Uncounted /\ ExecMoves(e, new)
<1>1. ReadsGrow /\ Len(reads') + Memoised(memo) = Len(reads) + Memoised(memo')
  BY JoinEffect, ExecFacts
<1>2. new.read <= Len(reads')
  BY <1>1 DEF ReadsGrow
<1> QED
  BY <1>1, <1>2, ExecFacts DEF Uncounted, ExecMoves, ExecIs

LEMMA ExecStepMoves ==
    ASSUME NEW e \in Execs, TypeOK, ExecInv,
           (\E d \in Dirs : ExecDelegated(e, d) \/ ExecStart(e, d)) \/ ExecSettles(e)
    PROVE  ReadsGrow /\ Uncounted /\ \E new : ExecMoves(e, new)
<1>0. /\ exec[e] \in ExecShapes /\ IdleExec \in ExecShapes /\ IdleExec.read = 0
      /\ selection \in Selections /\ ContextOf(selection) \in Contexts
  BY ExecFacts, ConstantsType
<1>1. ASSUME NEW pc \in {"host", "refused", "ran", "lost"},
             ExecIs(e, [IdleExec EXCEPT !.pc = pc]),
             UNCHANGED <<reads, memo, op, eventsLeft, mutations>>
      PROVE  ReadsGrow /\ Uncounted /\ \E new : ExecMoves(e, new)
  <2>1. [IdleExec EXCEPT !.pc = pc] \in ExecShapes /\ [IdleExec EXCEPT !.pc = pc].read = 0
    BY <1>0 DEF ExecShapes
  <2> QED
    BY <1>1, <2>1, QuietExec
<1>2. ASSUME NEW d \in Dirs, ExecDelegated(e, d)
      PROVE  ReadsGrow /\ Uncounted /\ \E new : ExecMoves(e, new)
  BY <1>1, <1>2 DEF ExecDelegated, outside
<1>3. ASSUME NEW d \in Dirs, ExecStart(e, d)
      PROVE  ReadsGrow /\ Uncounted /\ \E new : ExecMoves(e, new)
  <2>0. UNCHANGED <<op, eventsLeft, mutations>>
    BY <1>3 DEF ExecStart, outside
  <2>1. CASE MayAutoSelect
    <3> DEFINE new == [IdleExec EXCEPT !.pc = "read", !.dir = d, !.parked = selection,
                                       !.read = JoinedRead, !.since = Since]
    <3>1. JoinMemo /\ ExecIs(e, new)
      BY <1>3, <2>1 DEF ExecStart
    <3>2. JoinedRead = memo' /\ JoinedRead \in Nat
      BY <3>1, JoinEffect, ExecFacts DEF ReadsGrow
    <3>3. Since \in 0..MaxEvents + 1
      BY ExecFacts DEF Since
    <3>4. new \in ExecShapes /\ new.read = memo'
      BY <1>0, <3>2, <3>3 DEF ExecShapes
    <3> HIDE DEF new
    <3> QED
      BY <2>0, <3>1, <3>4, JoiningExec
  <2>2. CASE ~MayAutoSelect
    <3>1. /\ ExecIs(e, [IdleExec EXCEPT !.pc = "bind", !.dir = d])
          /\ UNCHANGED <<reads, memo>>
      BY <1>3, <2>2 DEF ExecStart
    <3>2. /\ [IdleExec EXCEPT !.pc = "bind", !.dir = d] \in ExecShapes
          /\ [IdleExec EXCEPT !.pc = "bind", !.dir = d].read = 0
      BY <1>0 DEF ExecShapes
    <3> QED
      BY <2>0, <3>1, <3>2, QuietExec
  <2> QED
    BY <2>1, <2>2
<1>4. CASE ExecDecide(e)
  <2>1. /\ ExecIs(e, [exec[e] EXCEPT !.pc = "bind", !.read = 0])
        /\ UNCHANGED <<reads, memo, op, eventsLeft, mutations>>
    BY <1>4 DEF ExecDecide, outside
  <2>2. /\ [exec[e] EXCEPT !.pc = "bind", !.read = 0] \in ExecShapes
        /\ [exec[e] EXCEPT !.pc = "bind", !.read = 0].read = 0
    BY <1>0 DEF ExecShapes
  <2> QED
    BY <2>1, <2>2, QuietExec
<1>5. CASE ExecReadRejected(e)
  BY <1>1, <1>5 DEF ExecReadRejected, outside
<1>6. CASE ExecBind(e)
  <2>1. UNCHANGED <<reads, memo, op, eventsLeft, mutations>>
    BY <1>6 DEF ExecBind, outside
  <2> DEFINE new == [IdleExec EXCEPT !.pc = "bound", !.dir = exec[e].dir,
                                     !.ctx = ContextOf(selection)]
  <2>2. CASE ExecIs(e, new)
    <3>1. new \in ExecShapes /\ new.read = 0
      BY <1>0 DEF ExecShapes
    <3> HIDE DEF new
    <3> QED
      BY <2>1, <2>2, <3>1, QuietExec
  <2>3. CASE ExecIs(e, [IdleExec EXCEPT !.pc = "refused"])
    BY <1>1, <2>1, <2>3
  <2> QED
    BY <1>6, <2>2, <2>3 DEF ExecBind
<1>7. CASE ExecRun(e)
  <2>1. UNCHANGED <<op, eventsLeft, mutations>>
    BY <1>7 DEF ExecRun, outside
  <2> DEFINE new == [IdleExec EXCEPT !.pc = "present", !.read = JoinedRead]
  <2>2. CASE JoinMemo /\ ExecIs(e, new)
    <3>1. JoinedRead = memo' /\ JoinedRead \in Nat
      BY <2>2, JoinEffect, ExecFacts DEF ReadsGrow
    <3>2. new \in ExecShapes /\ new.read = memo'
      BY <1>0, <3>1 DEF ExecShapes
    <3> HIDE DEF new
    <3> QED
      BY <2>1, <2>2, <3>2, JoiningExec
  <2>3. CASE ExecIs(e, [IdleExec EXCEPT !.pc = "refused"]) /\ UNCHANGED <<reads, memo>>
    BY <1>1, <2>1, <2>3
  <2> QED
    BY <1>7, <2>2, <2>3 DEF ExecRun
<1>8. CASE ExecPresent(e)
  BY <1>1, <1>8 DEF ExecPresent, outside
<1> QED
  BY <1>2, <1>3, <1>4, <1>5, <1>6, <1>7, <1>8 DEF ExecSettles

-----------------------------------------------------------------------------
(* The invariant of the reads.                                             *)

ExecStep(e) == (\E d \in Dirs : ExecDelegated(e, d) \/ ExecStart(e, d)) \/ ExecSettles(e)

\* Every step is a verb's, a shell command's, or changes neither.
LEMMA NextMoves ==
    ASSUME TypeOK, OpInv, ExecInv, Next
    PROVE  /\ ReadsGrow
           /\ \/ \E p \in Surfaces : \E new : Moves(p, new) /\ UNCHANGED exec
              \/ \E e \in Execs : \E new : ExecMoves(e, new) /\ Uncounted
              \/ Uncounted /\ UNCHANGED exec
<1>0. ReadsType /\ world \in Reads /\ eventsLeft \in Nat
  BY DshAssumption DEF TypeOK, ReadsType
<1>1. ASSUME NEW e \in Execs, ExecStep(e)
      PROVE  ReadsGrow /\ \E new : ExecMoves(e, new) /\ Uncounted
  BY <1>1, ExecStepMoves DEF ExecStep
<1>2. ASSUME NEW p \in Surfaces, VerbStep(p)
      PROVE  ReadsGrow /\ \E new : Moves(p, new) /\ UNCHANGED exec
  <2>1. Before(p)
    BY DEF Before
  <2>2. UNCHANGED exec
    BY <1>2 DEF VerbStep, OffStarts, OtherVerbStarts, Adopt, HandlerReads, HandlerAsks, Abandon,
       UsePick, UpResolves, Confirm, DockerDone, UpCli, Refresh, Reconcile, Finish
  <2> QED
    BY <1>2, <2>1, <2>2, VerbMoves
<1>3. ASSUME NEW i \in DOMAIN reads, ReadLands(i) \/ ReadFails(i)
      PROVE  ReadsGrow /\ Uncounted /\ UNCHANGED exec
  <2>1. /\ UNCHANGED <<op, mutations, exec>>
        /\ eventsLeft' \in Nat /\ eventsLeft' <= eventsLeft
    BY <1>0, <1>3 DEF ReadLands, ReadFails, outside
  <2> QED
    BY <1>0, <1>3, <2>1, SettleEffect DEF Uncounted
<1>4. CASE Commit \/ WorldChanges
  <2>1. /\ UNCHANGED <<op, mutations, exec, reads, memo>>
        /\ eventsLeft' \in Nat /\ eventsLeft' <= eventsLeft
    BY <1>0, <1>4 DEF Commit, WorldChanges, outside
  <2> QED
    BY <1>0, <2>1, KeepEffect DEF Uncounted
<1> QED
  BY <1>1, <1>2, <1>3, <1>4 DEF Next, ExecStep

\* Each verb takes one event, runs the CLI at most once and begins at most one read
\* of its own; the memo is begun once more.
Budget ==
    /\ mutations + OwesCli(op[CommandSurface]) + OwesCli(op[ToolSurface]) + eventsLeft <= MaxEvents
    /\ Len(reads) + OwesRead(op[CommandSurface]) + OwesRead(op[ToolSurface]) + eventsLeft
          <= MaxEvents + Memoised(memo)

\* No read is older than the mutations it is taken to include.
FreshInv == refreshed <= mutations /\ FreshAfterUp

ReadInv == TypeOK /\ OpInv /\ ExecInv /\ Budget /\ FreshInv

\* What one surface spends, the other one leaves.
LEMMA Spending ==
    ASSUME NEW m, NEW a, NEW b, NEW e, NEW n, NEW m2, NEW a2, NEW e2, NEW n2, NEW k, NEW k2,
           m \in Nat, a \in Nat, b \in Nat, e \in Nat, n \in Nat, m2 \in Nat, a2 \in Nat, e2 \in Nat,
           k \in Nat, k2 \in Nat,
           m2 + a2 + e2 + k <= m + a + e + k2,
           m + a + b + e <= n + k \/ m + b + a + e <= n + k
    PROVE  m2 + a2 + b + e2 <= n + k2 /\ m2 + b + a2 + e2 <= n + k2
<1>1. PICK M \in Nat, A \in Nat, B \in Nat, E \in Nat, N \in Nat, K \in Nat :
        M = m /\ A = a /\ B = b /\ E = e /\ N = n /\ K = k
  OBVIOUS
<1>2. PICK M2 \in Nat, A2 \in Nat, E2 \in Nat, K2 \in Nat :
        M2 = m2 /\ A2 = a2 /\ E2 = e2 /\ K2 = k2
  OBVIOUS
<1>3. M2 + A2 + E2 + K <= M + A + E + K2
      /\ (M + A + B + E <= N + K \/ M + B + A + E <= N + K)
      => M2 + A2 + B + E2 <= N + K2 /\ M2 + B + A2 + E2 <= N + K2
  OBVIOUS
<1> QED
  BY <1>1, <1>2, <1>3

LEMMA BudgetStep == TypeOK /\ OpInv /\ ExecInv /\ Budget /\ Next => Budget'
<1> SUFFICES ASSUME TypeOK, OpInv, ExecInv, Budget, Next PROVE Budget'
  OBVIOUS
<1>0. /\ Surfaces = {CommandSurface, ToolSurface} /\ CommandSurface # ToolSurface
      /\ MaxEvents \in Nat /\ mutations \in Nat /\ Len(reads) \in Nat /\ eventsLeft \in Nat
      /\ op \in [Surfaces -> OpStates]
  BY DshAssumption DEF Surfaces, TypeOK
<1>1. Memoised(memo) \in Nat /\ Memoised(memo') \in Nat /\ Len(reads') \in Nat
  BY NextMoves DEF Memoised, ReadsGrow
<1>2. \A p \in Surfaces : OwesCli(op[p]) \in Nat /\ OwesRead(op[p]) \in Nat
  BY DEF OwesCli, OwesRead
<1>3. ASSUME NEW p \in Surfaces, NEW q \in Surfaces, p # q, {p, q} = Surfaces,
             op'[q] = op[q], NEW a \in Nat, NEW c \in Nat, OwesCli(op'[p]) = a, OwesRead(op'[p]) = c,
             mutations' \in Nat, eventsLeft' \in Nat,
             mutations' + a + eventsLeft' <= mutations + OwesCli(op[p]) + eventsLeft,
             Len(reads') + c + eventsLeft' + Memoised(memo)
                <= Len(reads) + OwesRead(op[p]) + eventsLeft + Memoised(memo')
      PROVE  Budget'
  <2> DEFINE x == OwesCli(op[p])  b == OwesCli(op[q])  y == OwesRead(op[p])  d == OwesRead(op[q])
  <2>1. x \in Nat /\ b \in Nat /\ y \in Nat /\ d \in Nat /\ b' = b /\ d' = d /\ x' = a /\ y' = c
    BY <1>2, <1>3
  <2>2. \/ p = CommandSurface /\ q = ToolSurface
        \/ p = ToolSurface /\ q = CommandSurface
    BY <1>0, <1>3
  <2>3. /\ \/ mutations + x + b + eventsLeft <= MaxEvents + 0
           \/ mutations + b + x + eventsLeft <= MaxEvents + 0
        /\ \/ Len(reads) + y + d + eventsLeft <= MaxEvents + Memoised(memo)
           \/ Len(reads) + d + y + eventsLeft <= MaxEvents + Memoised(memo)
    BY <1>0, <2>2 DEF Budget
  <2>8. mutations' + a + eventsLeft' <= mutations + x + eventsLeft
    BY <1>3
  <2> HIDE DEF x, b, y, d
  <2>9. mutations' \in Nat /\ eventsLeft' \in Nat
    BY <1>3
  <2>10. mutations \in Nat /\ eventsLeft \in Nat
    BY <1>0
  <2>4. mutations' + a + eventsLeft' + 0 <= mutations + x + eventsLeft + 0
    <3>1. PICK m2 \in Nat, e2 \in Nat, m \in Nat, e \in Nat :
             m2 = mutations' /\ e2 = eventsLeft' /\ m = mutations /\ e = eventsLeft
      BY <2>9, <2>10
    <3>2. PICK k \in Nat : k = x
      BY <2>1
    <3>3. m2 + a + e2 <= m + k + e => m2 + a + e2 + 0 <= m + k + e + 0
      OBVIOUS
    <3> QED
      BY <2>8, <3>1, <3>2, <3>3
  <2>5. /\ mutations' + a + b + eventsLeft' <= MaxEvents + 0
        /\ mutations' + b + a + eventsLeft' <= MaxEvents + 0
    BY <1>0, <1>3, <2>1, <2>3, <2>4, Spending
  <2>6. /\ Len(reads') + c + d + eventsLeft' <= MaxEvents + Memoised(memo')
        /\ Len(reads') + d + c + eventsLeft' <= MaxEvents + Memoised(memo')
    BY <1>0, <1>1, <1>3, <2>1, <2>3, Spending DEF y
  <2>7. /\ mutations' + a + b + eventsLeft' <= MaxEvents
        /\ mutations' + b + a + eventsLeft' <= MaxEvents
    BY <1>0, <2>5
  <2> USE DEF x, b, y, d
  <2> QED
    BY <1>3, <2>2, <2>6, <2>7 DEF Budget
<1>4. CASE Uncounted
  <2>1. op' = op /\ mutations' = mutations /\ eventsLeft' \in Nat /\ eventsLeft' <= eventsLeft
        /\ Len(reads') + Memoised(memo) = Len(reads) + Memoised(memo')
    BY <1>4 DEF Uncounted
  <2>2. /\ mutations' + OwesCli(op[CommandSurface]) + eventsLeft'
              <= mutations + OwesCli(op[CommandSurface]) + eventsLeft
        /\ Len(reads') + OwesRead(op[CommandSurface]) + eventsLeft' + Memoised(memo)
              <= Len(reads) + OwesRead(op[CommandSurface]) + eventsLeft + Memoised(memo')
    <3> DEFINE a == OwesCli(op[CommandSurface])  c == OwesRead(op[CommandSurface])
    <3>1. a \in Nat /\ c \in Nat
      BY <1>0, <1>2
    <3> HIDE DEF a, c
    <3>2. PICK M \in Nat, E \in Nat, E2 \in Nat, R \in Nat, R2 \in Nat, K \in Nat, K2 \in Nat,
               A \in Nat, C \in Nat :
            /\ M = mutations /\ E = eventsLeft /\ E2 = eventsLeft' /\ R = Len(reads)
            /\ R2 = Len(reads') /\ K = Memoised(memo) /\ K2 = Memoised(memo') /\ A = a /\ C = c
      BY <1>0, <1>1, <2>1, <3>1
    <3>3. E2 <= E /\ R2 + K = R + K2 =>
             M + A + E2 <= M + A + E /\ R2 + C + E2 + K <= R + C + E + K2
      OBVIOUS
    <3>4. /\ mutations' + a + eventsLeft' <= mutations + a + eventsLeft
          /\ Len(reads') + c + eventsLeft' + Memoised(memo)
                <= Len(reads) + c + eventsLeft + Memoised(memo')
      BY <2>1, <3>2, <3>3
    <3> QED
      BY <3>4 DEF a, c
  <2>3. OwesCli(op[CommandSurface]) \in Nat /\ OwesRead(op[CommandSurface]) \in Nat
        /\ CommandSurface \in Surfaces /\ ToolSurface \in Surfaces /\ mutations' \in Nat
    BY <1>0, <1>2, <2>1
  <2> QED
    BY <1>0, <1>3, <2>1, <2>2, <2>3
<1>5. ASSUME NEW p \in Surfaces, NEW new, Moves(p, new) PROVE Budget'
  <2>1. op'[p] = new /\ \A q \in Surfaces : q # p => op'[q] = op[q]
    BY <1>0, <1>5 DEF Moves
  <2>2. PICK q \in Surfaces : q # p /\ {p, q} = Surfaces
    BY <1>0
  <2>3. OwesCli(new) \in Nat /\ OwesRead(new) \in Nat
    BY DEF OwesCli, OwesRead
  <2> QED
    BY <1>3, <1>5, <2>1, <2>2, <2>3 DEF Moves
<1> QED
  BY <1>4, <1>5, NextMoves

LEMMA ReadsBounded ==
    ASSUME TypeOK, OpInv, ExecInv, Next, Budget'
    PROVE  Len(reads') <= MaxReads /\ eventsLeft' \in 0..MaxEvents /\ mutations' \in 0..MaxEvents
<1>1. \A r : OwesCli(r) \in Nat /\ OwesRead(r) \in Nat
  BY DEF OwesCli, OwesRead
<1>2. Memoised(memo') \in 0..1 /\ Len(reads') \in Nat /\ MaxEvents \in Nat
  BY NextMoves, DshAssumption DEF Memoised, ReadsGrow
<1>3. eventsLeft \in 0..MaxEvents /\ mutations \in 0..MaxEvents
  BY DEF TypeOK
<1>4. eventsLeft' \in Nat /\ eventsLeft' <= eventsLeft /\ mutations' \in Nat
  BY <1>3, NextMoves DEF Moves, Uncounted
<1> QED
  BY <1>1, <1>2, <1>3, <1>4 DEF Budget, MaxReads

LEMMA StoreType ==
    ASSUME TypeOK, CommitHead \/ UNCHANGED storeVars
              \/ \E by \in Callers, kind \in OpKinds, t \in Selections :
                    Enqueue(kind, t, by) /\ UNCHANGED selection
    PROVE  StoreTypeOK'
BY CommitEffect, EnqueueEffect DEF TypeOK, StoreTypeOK, storeVars

\* The containers and the switch.
LEMMA WorldType ==
    ASSUME TypeOK, Next
    PROVE  world' \in Reads /\ enabled' \in BOOLEAN /\ refreshed' \in {refreshed, mutations}
<1>0. world \in Reads /\ enabled \in BOOLEAN
  BY DEF TypeOK
<1>1. ASSUME NEW e \in Execs, ExecStep(e) PROVE UNCHANGED <<world, enabled, refreshed>>
  BY <1>1 DEF ExecStep, ExecSettles, ExecDelegated, ExecStart, ExecDecide, ExecReadRejected,
     ExecBind, ExecRun, ExecPresent, outside
<1>2. ASSUME NEW p \in Surfaces, VerbStep(p), ~DockerDone(p), ~UpCli(p)
      PROVE  UNCHANGED world /\ refreshed' \in {refreshed, mutations}
  BY <1>2 DEF VerbStep, OffStarts, OtherVerbStarts, Adopt, HandlerReads, HandlerAsks, Abandon,
     UsePick, UpResolves, Confirm, Refresh, Reconcile, Finish, outside
<1>3. ASSUME NEW p \in Surfaces, VerbStep(p) PROVE enabled' \in BOOLEAN
  BY <1>0, <1>3 DEF VerbStep, OffStarts, OtherVerbStarts, Adopt, HandlerReads, HandlerAsks, Abandon,
     UsePick, UpResolves, Confirm, DockerDone, UpCli, Refresh, Reconcile, Finish
<1>4. \A c, s : s \in ContainerStates => [world EXCEPT ![c] = s] \in Reads
  BY <1>0 DEF Reads
<1>5. ASSUME NEW p \in Surfaces, DockerDone(p) \/ UpCli(p)
      PROVE  world' \in Reads /\ UNCHANGED refreshed
  <2>1. {"exited", "absent", "running"} \subseteq ContainerStates
    BY DEF ContainerStates
  <2>2. \A c, d : [world EXCEPT ![c] = "absent", ![d] = "running"] \in Reads
    BY <1>0, <2>1 DEF Reads
  <2>3. \A w : UpOutcomes(w, world) \subseteq Reads
    BY <1>4, <2>1 DEF UpOutcomes
  <2>4. \A w : RebuildOutcomes(w, world) \subseteq Reads
    BY <2>2, <2>3 DEF RebuildOutcomes
  <2> QED
    BY <1>4, <1>5, <2>1, <2>3, <2>4 DEF DockerDone, UpCli
<1>6. ASSUME NEW i \in DOMAIN reads, ReadLands(i) \/ ReadFails(i)
      PROVE  UNCHANGED <<world, enabled, refreshed>>
  BY <1>6 DEF ReadLands, ReadFails, outside
<1>7. Commit => UNCHANGED <<world, enabled, refreshed>>
  BY DEF Commit, outside
<1>8. WorldChanges => world' \in Reads /\ UNCHANGED <<enabled, refreshed>>
  BY <1>0 DEF WorldChanges, Reads
<1>9. \/ \E e \in Execs : ExecStep(e)
      \/ \E p \in Surfaces : VerbStep(p)
      \/ \E i \in DOMAIN reads : ReadLands(i) \/ ReadFails(i)
      \/ Commit \/ WorldChanges
  BY DEF Next, ExecStep
<1>10. ASSUME NEW p \in Surfaces, VerbStep(p)
       PROVE  world' \in Reads /\ enabled' \in BOOLEAN /\ refreshed' \in {refreshed, mutations}
  BY <1>0, <1>2, <1>3, <1>5, <1>10
<1> QED
  BY <1>0, <1>1, <1>6, <1>7, <1>8, <1>9, <1>10

LEMMA RefreshedBy ==
    ASSUME Next, refreshed' # refreshed
    PROVE  \E p \in Surfaces : Refresh(p)
<1>1. ASSUME NEW e \in Execs, ExecStep(e) PROVE UNCHANGED refreshed
  BY <1>1 DEF ExecStep, ExecSettles, ExecDelegated, ExecStart, ExecDecide, ExecReadRejected,
     ExecBind, ExecRun, ExecPresent, outside
<1>2. ASSUME NEW p \in Surfaces, VerbStep(p), ~Refresh(p) PROVE UNCHANGED refreshed
  BY <1>2 DEF VerbStep, OffStarts, OtherVerbStarts, Adopt, HandlerReads, HandlerAsks, Abandon,
     UsePick, UpResolves, Confirm, DockerDone, UpCli, Reconcile, Finish, outside
<1> QED
  BY <1>1, <1>2 DEF Next, ExecStep, ReadLands, ReadFails, Commit, WorldChanges, outside

LEMMA OpInvStep == TypeOK /\ OpInv /\ ExecInv /\ Next => OpInv' /\ ExecInv'
<1> SUFFICES ASSUME TypeOK, OpInv, ExecInv, Next PROVE OpInv' /\ ExecInv'
  OBVIOUS
<1>0. /\ op \in [Surfaces -> OpStates] /\ exec \in [Execs -> ExecStates]
      /\ \A p \in Surfaces : op[p].read \in Nat /\ op[p].stamp \in Nat
      /\ \A e \in Execs : exec[e].read \in Nat
      /\ Len(reads) \in Nat /\ Len(reads') \in Nat /\ Len(reads) <= Len(reads')
      /\ mutations \in Nat /\ mutations' \in Nat /\ mutations <= mutations'
  <2>1. ReadsGrow /\ mutations' \in Nat /\ mutations <= mutations'
    BY NextMoves DEF Moves, Uncounted, TypeOK
  <2> QED
    BY <2>1 DEF TypeOK, OpStates, ExecStates, ReadsGrow
<1>1. \A p \in Surfaces : OpSound(op[p], Len(reads'), mutations')
  BY <1>0 DEF OpInv, OpSound
<1>2. \A e \in Execs : exec[e].read <= Len(reads')
  BY <1>0 DEF ExecInv
<1>3. ASSUME NEW p \in Surfaces, NEW new, Moves(p, new) PROVE OpInv'
  BY <1>0, <1>1, <1>3 DEF Moves, OpInv
<1>4. ASSUME NEW e \in Execs, NEW new, ExecMoves(e, new) PROVE ExecInv'
  BY <1>0, <1>2, <1>4 DEF ExecMoves, ExecInv
<1>5. op' = op => OpInv'
  BY <1>1 DEF OpInv
<1>6. exec' = exec => ExecInv'
  BY <1>2 DEF ExecInv
<1> QED
  BY <1>3, <1>4, <1>5, <1>6, NextMoves DEF Uncounted

LEMMA FreshStep == ReadInv /\ Next => FreshInv'
<1> SUFFICES ASSUME ReadInv, Next PROVE FreshInv'
  OBVIOUS
<1>0. /\ reads \in Seq(Promises) /\ memo \in 0..Len(reads) /\ MaxEvents \in Nat
      /\ mutations \in Nat /\ refreshed \in Nat /\ refreshed <= mutations
      /\ op \in [Surfaces -> OpStates]
      /\ \A p \in Surfaces : op[p].read \in Nat /\ op[p].read <= Len(reads)
                          /\ (op[p].pc = "reconcile" => op[p].read # 0)
  BY DshAssumption DEF ReadInv, TypeOK, FreshInv, OpInv, OpSound, OpStates
<1>1. ReadsGrow /\ mutations' \in Nat /\ mutations <= mutations'
  BY <1>0, NextMoves DEF ReadInv, Moves, Uncounted
<1>2. refreshed' \in {refreshed, mutations}
  BY WorldType DEF ReadInv
<1>3. refreshed' <= mutations'
  BY <1>0, <1>1, <1>2
<1>4. ASSUME memo' # 0 PROVE reads'[memo'].after >= refreshed'
  <2>1. CASE memo' = memo /\ refreshed' = refreshed
    BY <1>0, <1>1, <1>4, <2>1 DEF ReadInv, FreshInv, FreshAfterUp, ReadsGrow
  <2>2. CASE reads'[memo'].after = mutations
    BY <1>0, <1>2, <2>2
  <2>3. CASE memo' = memo /\ refreshed' # refreshed
    <3>1. PICK p \in Surfaces : Refresh(p)
      BY <2>3, RefreshedBy DEF ReadInv
    <3>2. memo' = Len(reads) + 1
      BY <3>1 DEF Refresh, RefreshMemo
    <3> QED
      BY <1>0, <2>3, <3>2
  <2> QED
    BY <1>1, <2>1, <2>2, <2>3 DEF ReadsGrow
<1>5. ASSUME NEW p \in Surfaces, op'[p].pc = "reconcile"
      PROVE  reads'[op'[p].read].after >= op'[p].stamp
  <2>1. CASE op'[p] = op[p]
    <3>1. op[p].pc = "reconcile" /\ op[p].read \in DOMAIN reads
      BY <1>0, <1>5, <2>1
    <3>2. reads'[op[p].read].after = reads[op[p].read].after
      BY <1>1, <3>1 DEF ReadsGrow
    <3>3. reads[op[p].read].after >= op[p].stamp
      BY <3>1 DEF ReadInv, FreshInv, FreshAfterUp
    <3> QED
      BY <2>1, <3>2, <3>3
  <2>2. ASSUME NEW q \in Surfaces, NEW new, Moves(q, new), op'[p] # op[p]
        PROVE  reads'[op'[p].read].after >= op'[p].stamp
    <3>1. op' = [op EXCEPT ![q] = new] /\ (new.pc = "reconcile" => reads'[new.read].after >= new.stamp)
      BY <2>2 DEF Moves
    <3>2. q = p /\ op'[p] = new
      BY <1>0, <2>2, <3>1
    <3> QED
      BY <1>5, <3>1, <3>2
  <2> QED
    BY <2>1, <2>2, NextMoves DEF ReadInv, Uncounted
<1> QED
  BY <1>3, <1>4, <1>5 DEF FreshInv, FreshAfterUp

-----------------------------------------------------------------------------
(* The store.                                                              *)

\* Who has an operation in the queue waits for it, and a default adopted for an
\* empty store is queued as one that yields.
Awaits(by, kind) ==
    /\ by \in Execs =>
          exec[by].pc = "bind" /\ (exec[by].parked.status = "none" => kind = "selectIfNone")
    /\ by \in Surfaces =>
          /\ op[by].pc \in {"handler", "commit"}
          /\ op[by].pc = "handler" /\ op[by].parked.status = "none" => kind = "selectIfNone"

QueueInv == \A i \in DOMAIN queue : Awaits(queue[i].by, queue[i].kind)

\* The store is written by the steps that enqueue an operation and by committing.
Asks(by, kind, t) ==
    /\ UNCHANGED selection
    /\ Enqueue(kind, t, by)
    /\ kind \in OpKinds /\ t \in Selections
    /\ Awaits(by, kind)'

LEMMA SeenType ==
    ASSUME TypeOK, NEW i \in Nat, i <= Len(reads), Landed(i)
    PROVE  reads[i].seen \in Reads
<1>1. i \in DOMAIN reads /\ reads \in Seq(Promises)
  BY DEF Landed, TypeOK
<1>2. reads[i] \in Promises
  BY <1>1
<1> QED
  BY <1>2 DEF Promises

LEMMA AutoSelectAsks ==
    ASSUME TypeOK, NEW r, NEW dir, r.parked \in Selections, r.read \in Nat, r.read <= Len(reads),
           Landed(r.read), NEW by, AutoSelectCommits(r, dir, by)
    PROVE  \/ UNCHANGED queue
           \/ \E kind \in OpKinds, t \in Selections :
                 Enqueue(kind, t, by) /\ (r.parked.status = "none" => kind = "selectIfNone")
BY SeenType, AutoSelectType DEF AutoSelectCommits, AutoSelectKind, OpKinds

LEMMA StoreStep ==
    ASSUME TypeOK, OpInv, ExecInv, Next
    PROVE  \/ UNCHANGED storeVars
           \/ CommitHead /\ UNCHANGED <<exec, op>>
           \/ \E by \in Callers : \E kind, t : Asks(by, kind, t)
<1>0. /\ Callers = Execs \cup Surfaces /\ Execs \cap Surfaces = {} /\ selection \in Selections
      /\ op \in [Surfaces -> OpStates] /\ exec \in [Execs -> ExecStates]
      /\ reads \in Seq(Promises) /\ Len(reads) \in Nat
  BY DshAssumption DEF TypeOK, StoreTypeOK
<1>1. ASSUME NEW e \in Execs, ExecStep(e)
      PROVE  UNCHANGED storeVars \/ \E kind, t : Asks(e, kind, t)
  <2>1. ~ExecDecide(e) => UNCHANGED storeVars
    BY <1>1 DEF ExecStep, ExecSettles, ExecDelegated, ExecStart, ExecReadRejected, ExecBind,
       ExecRun, ExecPresent, storeVars
  <2>2. ASSUME ExecDecide(e) PROVE UNCHANGED storeVars \/ \E kind, t : Asks(e, kind, t)
    <3>1. /\ Landed(exec[e].read) /\ AutoSelectCommits(exec[e], exec[e].dir, e)
          /\ UNCHANGED selection /\ exec' = [exec EXCEPT ![e] = [exec[e] EXCEPT !.pc = "bind", !.read = 0]]
      BY <2>2 DEF ExecDecide, ExecIs
    <3>2. exec[e].parked \in Selections /\ exec[e].read \in Nat /\ exec[e].read <= Len(reads)
      BY ExecFacts DEF ExecShapes
    <3>3. exec'[e].pc = "bind" /\ exec'[e].parked = exec[e].parked
      BY <1>0, <3>1 DEF ExecStates
    <3> DEFINE r == exec[e]
    <3>4. ASSUME NEW kind \in OpKinds, NEW t \in Selections, Enqueue(kind, t, e),
                 r.parked.status = "none" => kind = "selectIfNone"
          PROVE  Asks(e, kind, t)
      BY <1>0, <3>1, <3>3, <3>4 DEF Asks, Awaits
    <3> QED
      BY <3>1, <3>2, <3>4, AutoSelectAsks DEF storeVars
  <2> QED
    BY <2>1, <2>2
<1>2. ASSUME NEW p \in Surfaces, VerbStep(p)
      PROVE  UNCHANGED storeVars \/ \E kind, t : Asks(p, kind, t)
  <2>0. /\ op[p] \in OpShapes /\ op[p].read \in Nat /\ op[p].read <= Len(reads)
        /\ op[p].parked \in Selections /\ op[p].hint \in Contexts /\ p \notin Execs
    BY <1>0, BeforeFacts DEF Before, OpSound, OpShapes
  <2>1. ~OffStarts(p) /\ ~Adopt(p) /\ ~UsePick(p) /\ ~Reconcile(p) => UNCHANGED storeVars
    BY <1>2 DEF VerbStep, OtherVerbStarts, HandlerReads, HandlerAsks, Abandon, UpResolves, Confirm,
       DockerDone, UpCli, Refresh, Finish, storeVars
  <2>2. ASSUME OffStarts(p) PROVE Asks(p, "clear", NoSelection)
    <3>1. /\ Enqueue("clear", NoSelection, p) /\ UNCHANGED selection
          /\ op' = [op EXCEPT ![p] = [IdleOp EXCEPT !.pc = "commit", !.verb = "off"]]
      BY <2>2 DEF OffStarts, OpIs
    <3>2. op'[p].pc = "commit"
      BY <1>0, <3>1, ConstantsType DEF OpShapes
    <3> QED
      BY <2>0, <3>1, <3>2, NoSelectionType DEF Asks, Awaits, OpKinds
  <2>3. ASSUME Adopt(p) PROVE UNCHANGED storeVars \/ \E kind, t : Asks(p, kind, t)
    <3>1. /\ \/ Landed(op[p].read) /\ AutoSelectCommits(op[p], SessionCwd, p)
             \/ UNCHANGED queue
          /\ UNCHANGED selection /\ op' = [op EXCEPT ![p] = [op[p] EXCEPT !.pc = "handler", !.read = 0]]
      BY <2>3 DEF Adopt, OpIs
    <3>2. op'[p].pc = "handler" /\ op'[p].parked = op[p].parked
      BY <1>0, <2>0, <3>1 DEF OpShapes
    <3> DEFINE r == op[p]
    <3>3. ASSUME NEW kind \in OpKinds, NEW t \in Selections, Enqueue(kind, t, p),
                 r.parked.status = "none" => kind = "selectIfNone"
          PROVE  Asks(p, kind, t)
      BY <2>0, <3>1, <3>2, <3>3 DEF Asks, Awaits
    <3> QED
      BY <2>0, <3>1, <3>3, AutoSelectAsks DEF storeVars
  <2>4. ASSUME NEW t \in Selections, Enqueue("select", t, p), UNCHANGED selection,
               OpIs(p, [op[p] EXCEPT !.pc = "commit", !.read = 0])
        PROVE  Asks(p, "select", t)
    <3>1. op'[p].pc = "commit"
      BY <1>0, <2>0, <2>4 DEF OpIs, OpShapes
    <3> QED
      BY <2>0, <2>4, <3>1 DEF Asks, Awaits, OpKinds
  <2>5. ASSUME UsePick(p) PROVE \E kind, t : Asks(p, kind, t)
    <3>1. /\ Landed(op[p].read) /\ Discovered(op[p].hint.ws, reads[op[p].read].seen)
          /\ UNCHANGED selection /\ OpIs(p, [op[p] EXCEPT !.pc = "commit", !.read = 0])
      BY <2>5 DEF UsePick, HandlerSees
    <3>2. PICK t \in UseSelections(op[p].hint.ws, NoConfig, reads[op[p].read].seen) :
            Enqueue("select", t, p)
      BY <2>5 DEF UsePick
    <3>3. t \in Selections
      BY <2>0, <3>1, <3>2, SeenType, UseType
    <3> QED
      BY <2>4, <3>1, <3>2, <3>3
  <2>6. ASSUME Reconcile(p) PROVE \E kind, t : Asks(p, kind, t)
    <3>1. /\ Landed(op[p].read)
          /\ UNCHANGED selection /\ OpIs(p, [op[p] EXCEPT !.pc = "commit", !.read = 0])
      BY <2>6 DEF Reconcile
    <3>2. PICK t \in ReconcileSelection(op[p].hint, selection, reads[op[p].read].seen) :
            Enqueue("select", t, p)
      BY <2>6 DEF Reconcile
    <3>3. t \in Selections
      BY <1>0, <2>0, <3>1, <3>2, SeenType, ReconcileType
    <3> QED
      BY <2>4, <3>1, <3>2, <3>3
  <2> QED
    BY <2>1, <2>2, <2>3, <2>5, <2>6
<1>3. ASSUME NEW i \in DOMAIN reads, ReadLands(i) \/ ReadFails(i) PROVE UNCHANGED storeVars
  BY <1>3 DEF ReadLands, ReadFails, storeVars
<1>4. Commit => CommitHead /\ UNCHANGED <<exec, op>>
  BY DEF Commit
<1>5. WorldChanges => UNCHANGED storeVars
  BY DEF WorldChanges, storeVars
<1> QED
  BY <1>0, <1>1, <1>2, <1>3, <1>4, <1>5 DEF Next, ExecStep

\* Whoever has an operation in the queue takes no step.
LEMMA Waits ==
    ASSUME TypeOK, OpInv, ExecInv, Next, NEW by, Pending(by), NEW kind, Awaits(by, kind)
    PROVE  /\ by \in Execs => exec'[by] = exec[by]
           /\ by \in Surfaces => op'[by] = op[by]
<1>0. /\ exec \in [Execs -> ExecStates] /\ op \in [Surfaces -> OpStates]
      /\ \A p \in Surfaces : op[p].pc \in {"handler", "commit"} => op[p].read = 0
  BY DEF TypeOK, OpInv, OpSound
<1>1. ASSUME by \in Execs, NEW e \in Execs, ExecStep(e) PROVE exec'[by] = exec[by]
  <2>1. exec[by].pc = "bind" /\ ~ExecBind(by)
    BY <1>1 DEF Awaits, ExecBind
  <2>2. e # by
    BY <1>1, <2>1 DEF ExecStep, ExecSettles, ExecDelegated, ExecStart, ExecDecide,
       ExecReadRejected, ExecRun, ExecPresent
  <2> QED
    BY <1>0, <1>1, <2>2, ExecStepMoves DEF ExecStep, ExecMoves
<1>2. ASSUME by \in Surfaces, NEW p \in Surfaces, VerbStep(p) PROVE op'[by] = op[by]
  <2>1. op[by].pc \in {"handler", "commit"} /\ ~HandlerStarts(by) /\ ~Finish(by)
        /\ ~Landed(op[by].read) /\ ~Rejected(op[by].read)
    BY <1>0, <1>2 DEF Awaits, HandlerStarts, Finish, Landed, Rejected
  <2>2. p # by
    BY <1>2, <2>1 DEF VerbStep, OffStarts, OtherVerbStarts, VerbStarts, Adopt, HandlerReads,
       HandlerAsks, Abandon, UsePick, UpResolves, HandlerSees, Confirm, DockerDone, UpCli, Refresh,
       Reconcile
  <2>3. PICK new : op' = [op EXCEPT ![p] = new]
    BY <1>2, VerbMoves DEF Before, Moves
  <2> QED
    BY <1>0, <1>2, <2>2, <2>3
<1>3. (\E e \in Execs : ExecStep(e)) \/ UNCHANGED exec
  BY DEF Next, ExecStep, VerbStep, OffStarts, OtherVerbStarts, Adopt, HandlerReads, HandlerAsks,
     Abandon, UsePick, UpResolves, Confirm, DockerDone, UpCli, Refresh, Reconcile, Finish,
     ReadLands, ReadFails, Commit, WorldChanges
<1>4. (\E p \in Surfaces : VerbStep(p)) \/ UNCHANGED op
  BY DEF Next, ExecSettles, ExecDelegated, ExecStart, ExecDecide, ExecReadRejected, ExecBind,
     ExecRun, ExecPresent, ReadLands, ReadFails, Commit, WorldChanges
<1> QED
  BY <1>1, <1>2, <1>3, <1>4

LEMMA QueueStep ==
    ASSUME TypeOK, OpInv, ExecInv, QueueInv, Next
    PROVE  QueueInv'
<1>1. ASSUME NEW i \in DOMAIN queue PROVE Awaits(queue[i].by, queue[i].kind)
  BY DEF QueueInv
<1>2. ASSUME NEW by, NEW kind, NEW i \in DOMAIN queue, queue[i].by = by, queue[i].kind = kind
      PROVE  Awaits(by, kind)'
  <2>1. Awaits(by, kind) /\ Pending(by)
    BY <1>1, <1>2 DEF Pending
  <2> QED
    BY <2>1, Waits DEF Awaits
<1>3. ASSUME NEW i \in DOMAIN queue', NEW j \in DOMAIN queue, queue'[i] = queue[j]
      PROVE  Awaits(queue[i].by, queue[i].kind)'
  <2>1. PICK by, kind : queue[j].by = by /\ queue[j].kind = kind
    OBVIOUS
  <2>2. Awaits(by, kind)'
    BY <1>2, <2>1
  <2> QED
    BY <1>3, <2>1, <2>2
<1>4. CASE UNCHANGED storeVars
  BY <1>3, <1>4 DEF storeVars, QueueInv
<1>5. CASE CommitHead
  BY <1>3, <1>5, CommitEffect DEF TypeOK, QueueInv
<1>6. ASSUME NEW by \in Callers, NEW kind, NEW t, Asks(by, kind, t) PROVE QueueInv'
  <2>1. /\ \A i \in DOMAIN queue : queue'[i] = queue[i]
        /\ \A i \in DOMAIN queue' : i \in DOMAIN queue \/ i = Len(queue')
        /\ queue'[Len(queue')] = [kind |-> kind, target |-> t, by |-> by]
    BY <1>6, EnqueueEffect DEF Asks, TypeOK, StoreTypeOK
  <2>2. queue'[Len(queue')].by = by /\ queue'[Len(queue')].kind = kind
    BY <2>1
  <2>3. ASSUME NEW i \in DOMAIN queue', i \notin DOMAIN queue
        PROVE  Awaits(queue[i].by, queue[i].kind)'
    BY <1>6, <2>1, <2>2, <2>3 DEF Asks
  <2> QED
    BY <1>3, <2>1, <2>3 DEF QueueInv
<1> QED
  BY <1>4, <1>5, <1>6, StoreStep

-----------------------------------------------------------------------------
(* The invariant.                                                          *)

IInv == ReadInv /\ QueueInv

LEMMA InitIInv == Init => IInv
<1> SUFFICES ASSUME Init PROVE IInv
  OBVIOUS
<1>0. /\ selection = NoSelection /\ queue = <<>> /\ reads = <<>> /\ memo = 0
      /\ refreshed = 0 /\ mutations = 0 /\ eventsLeft = MaxEvents /\ MaxEvents \in Nat
      /\ exec = [e \in Execs |-> IdleExec] /\ op = [p \in Surfaces |-> IdleOp]
  BY DshAssumption DEF Init, StoreInit
<1>1. IdleOp \in OpStates /\ IdleOp.pc = "idle" /\ IdleOp.read = 0 /\ IdleOp.stamp = 0
  BY <1>0, ConstantsType DEF OpShapes, OpStates, OpPcs, IdleOp, MaxReads
<1>2. TypeOK
  <2>1. world \in Reads /\ enabled \in BOOLEAN
    BY DshAssumption DEF Init
  <2>2. exec \in [Execs -> ExecStates] /\ op \in [Surfaces -> OpStates]
    BY <1>0, <1>1, ConstantsType
  <2>3. reads \in Seq(Promises) /\ Len(reads) = 0 /\ Len(reads) <= MaxReads
    BY <1>0 DEF MaxReads
  <2> QED
    BY <1>0, <2>1, <2>2, <2>3, NoSelectionType DEF TypeOK, StoreTypeOK
<1>3. OpInv /\ FreshInv
  BY <1>0, <1>1 DEF OpInv, OpSound, FreshInv, FreshAfterUp
<1>4. ExecInv
  BY <1>0 DEF ExecInv, IdleExec
<1>5. Budget
  <2>1. CommandSurface \in Surfaces /\ ToolSurface \in Surfaces
    BY DEF Surfaces
  <2>2. /\ OwesCli(op[CommandSurface]) = 0 /\ OwesCli(op[ToolSurface]) = 0
        /\ OwesRead(op[CommandSurface]) = 0 /\ OwesRead(op[ToolSurface]) = 0
    BY <1>0, <1>1, <2>1 DEF OwesCli, OwesRead
  <2> QED
    BY <1>0, <2>2 DEF Budget, Memoised
<1>6. QueueInv
  BY <1>0 DEF QueueInv
<1> QED
  BY <1>2, <1>3, <1>4, <1>5, <1>6 DEF IInv, ReadInv

LEMMA TypeStep ==
    ASSUME ReadInv, Next
    PROVE  TypeOK'
<1> USE DEF ReadInv
<1>0. /\ MaxEvents \in Nat /\ refreshed \in 0..MaxEvents /\ mutations \in 0..MaxEvents
      /\ exec \in [Execs -> ExecStates] /\ op \in [Surfaces -> OpStates]
  BY DshAssumption DEF TypeOK
<1>1. /\ Budget' /\ OpInv' /\ ExecInv'
  BY BudgetStep, OpInvStep
<1>2. /\ Len(reads') <= MaxReads /\ eventsLeft' \in 0..MaxEvents /\ mutations' \in 0..MaxEvents
  BY <1>1, ReadsBounded
<1>3. /\ reads' \in Seq(Promises) /\ memo' \in 0..Len(reads')
  BY NextMoves DEF ReadsGrow
<1>4. StoreTypeOK'
  BY StoreStep, StoreType DEF Asks
<1>5. /\ world' \in Reads /\ enabled' \in BOOLEAN /\ refreshed' \in 0..MaxEvents
  BY <1>0, WorldType
<1>6. exec' \in [Execs -> ExecStates]
  <2>1. ASSUME NEW e \in Execs, NEW new, ExecMoves(e, new) PROVE new \in ExecStates
    <3>1. new \in ExecShapes /\ new.read \in 0..MaxReads
      BY <1>0, <1>2, <1>3, <2>1 DEF ExecMoves, ExecShapes, MaxReads
    <3> QED
      BY <3>1 DEF ExecShapes, ExecStates
  <2> QED
    BY <1>0, <2>1, NextMoves DEF ExecMoves
<1>7. op' \in [Surfaces -> OpStates]
  <2>1. ASSUME NEW p \in Surfaces, NEW new, Moves(p, new) PROVE new \in OpStates
    <3>1. new \in OpShapes /\ new.read \in 0..MaxReads /\ new.stamp \in 0..MaxEvents
      BY <1>0, <1>2, <1>3, <2>1 DEF Moves, OpSound, OpShapes, MaxReads
    <3> QED
      BY <3>1 DEF OpShapes, OpStates, OpPcs
  <2> QED
    BY <1>0, <2>1, NextMoves DEF Moves, Uncounted
<1> QED
  BY <1>2, <1>3, <1>4, <1>5, <1>6, <1>7 DEF TypeOK

LEMMA Invariance == Spec => []IInv
<1>1. IInv /\ [Next]_vars => IInv'
  <2>1. IInv /\ Next => IInv'
    BY TypeStep, OpInvStep, BudgetStep, FreshStep, QueueStep DEF IInv, ReadInv
  <2>2. IInv /\ UNCHANGED vars => IInv'
    BY DEF vars, IInv, ReadInv, TypeOK, StoreTypeOK, OpInv, ExecInv, Budget, FreshInv, FreshAfterUp,
       QueueInv, Awaits
  <2> QED
    BY <2>1, <2>2
<1> QED
  BY InitIInv, <1>1, PTL DEF Spec

-----------------------------------------------------------------------------
(* The theorems.                                                           *)

\* Every variable keeps its type; in particular the registry is read at most once
\* more than there are verbs, outside changes and failures together.
THEOREM TypeCorrect == Spec => []TypeOK
BY Invariance, PTL DEF IInv, ReadInv

\* runtime.ts, refresh: up and rebuild reconcile with a read begun after their own
\* CLI ended, and the memo never goes back to a read begun before a mutation that a
\* refresh has followed.
THEOREM ReadsAreFresh == Spec => []FreshAfterUp
<1>1. IInv => FreshAfterUp
  BY DEF IInv, ReadInv, FreshInv
<1> QED
  BY Invariance, <1>1, PTL

\* Both surfaces and every shell command write the store only by its queue.
THEOREM DshUsesStore == Spec => StoreSpec
<1>1. Init => StoreInit
  BY DEF Init
<1>2. IInv /\ [Next]_vars => [StoreNext]_storeVars
  <2> SUFFICES ASSUME IInv, [Next]_vars PROVE [StoreNext]_storeVars
    OBVIOUS
  <2> USE DEF IInv, ReadInv
  <2>1. ASSUME NEW by \in Callers, NEW kind, NEW t, Asks(by, kind, t) PROVE StoreNext
    BY <2>1, EnqueueEffect DEF Asks, TypeOK, StoreTypeOK, StoreNext
  <2>2. UNCHANGED vars => UNCHANGED storeVars
    BY DEF vars, storeVars
  <2> QED
    BY <2>1, <2>2, StoreStep DEF StoreNext
<1> QED
  BY Invariance, <1>1, <1>2, PTL DEF Spec, StoreSpec

\* A default adopted for an empty store, by a shell command or ahead of a verb of
\* either surface, yields to what was selected while the registry was read.
THEOREM AdoptionYields == Spec => AdoptionNeverDisplaces
<1> DEFINE Yields == \A by \in Callers :
          /\ CommitsFor(by)
          /\ selection.status # "none"
          /\ IF by \in Execs THEN exec[by].pc = "bind" /\ exec[by].parked.status = "none"
             ELSE op[by].pc = "handler" /\ op[by].parked.status = "none"
          => selection' = selection
<1>1. IInv /\ [Next]_vars => [Yields]_vars
  <2> SUFFICES ASSUME IInv, Next, NEW by \in Callers, CommitsFor(by), selection.status # "none",
                      IF by \in Execs THEN exec[by].pc = "bind" /\ exec[by].parked.status = "none"
                      ELSE op[by].pc = "handler" /\ op[by].parked.status = "none"
               PROVE  selection' = selection
    OBVIOUS
  <2> USE DEF IInv, ReadInv
  <2>1. queue \in Seq(StoreOps) /\ 1 \in DOMAIN queue /\ Head(queue) = queue[1] /\ queue[1].by = by
    BY DEF CommitsFor, TypeOK, StoreTypeOK
  <2>2. queue[1].kind = "selectIfNone"
    BY <2>1, DshAssumption DEF QueueInv, Awaits
  <2>3. CommitHead => selection' = selection
    BY <2>1, <2>2 DEF CommitHead, Apply
  <2> QED
    BY <2>3, StoreStep DEF storeVars, Asks
<1> QED
  BY Invariance, <1>1, PTL DEF Spec, AdoptionNeverDisplaces

=============================================================================
