----------------------- MODULE ExecutionService_proofs -----------------------
(***************************************************************************)
(* For any number of attempts, sessions and workspaces: a slot is held by  *)
(* its build and by nothing else, the trail tells the truth, nothing is    *)
(* removed unconfirmed. What an attempt does to its own state, trail and   *)
(* transcript is LocalInv; what it does to the others is the slots.        *)
(***************************************************************************)
EXTENDS ExecutionService, TLAPS

Logged == Builds \cup Destructions

\* What was run was confirmed if it removes a container.
Cleared(st) == st.acted /\ st.kind \in Removals => st.confirmed

\* What the record of an attempt in state st, ending as result, may say.
RecordFits(st, result, r) ==
    /\ ~r.authorized => ~st.acted
    /\ ~r.error /\ r.authorized => st.acted /\ result = "done"
    /\ r.target # NoContainer /\ st.acted => r.target = st.bound

\* What its transcript may be left as.
LogFits(st, result, lg) ==
    /\ lg = "running" => ~st.acted /\ result = "threw"
    /\ lg = "completed" => result \in {"done", "threw"}
    /\ result = "done" /\ st.kind \in Logged => lg = "completed"

\* The state of an attempt with the records it has written, its transcript and
\* whether it is audited: what it is about to do next is known from its pc, and
\* once it has ended its record and transcript fit.
LocalInv(st, tr, lg, aud) ==
    /\ Cleared(st)
    /\ st.pc # "ended" => tr = <<>> /\ (st.acted <=> st.pc \in {"cli", "presenting"})
    /\ st.pc \in {"selecting", "mapping", "presenting"} => st.kind \in Execs
    /\ st.pc = "cli" => st.kind \in Kinds
    /\ st.pc # "ended" => lg = IF st.pc = "cli" /\ st.kind \in Logged THEN "running" ELSE "none"
    /\ st.pc = "ended" =>
         /\ tr # <<>> <=> aud /\ st.result \notin {"busy", "threw"}
         /\ tr # <<>> => Len(tr) = 1 /\ RecordFits(st, st.result, tr[1])
         /\ LogFits(st, st.result, lg)

AttemptInv == \A a \in Attempts : LocalInv(attempt[a], trail[a], log[a], Audited(a))

FreeSlot(s, w) == slots[s][w] = "free" => \A b \in Attempts : ~Building(b, s, w)

HeldSlot(s, w) ==
    slots[s][w] # "free" =>
        \E h \in Attempts :
            /\ Building(h, s, w)
            /\ attempt[h].kind = slots[s][w]
            /\ \A b \in Attempts : Building(b, s, w) => b = h

SlotInv == \A s \in Services, w \in Workspaces : FreeSlot(s, w) /\ HeldSlot(s, w)

IInv == TypeOK /\ AttemptInv /\ SlotInv

-----------------------------------------------------------------------------
(* How an attempt moves.                                                   *)

\* The new state differs from st in pc, result and acted only.
Same(st, t) ==
    /\ t.kind = st.kind
    /\ t.svc = st.svc
    /\ t.ws = st.ws
    /\ t.bound = st.bound
    /\ t.confirmed = st.confirmed

\* Nothing but attempt a and its records have moved.
Alone(a) ==
    /\ attempt' \in [Attempts -> AttemptStates]
    /\ trail' \in [Attempts -> Seq(Records)]
    /\ \A b \in Attempts \ {a} : attempt'[b] = attempt[b] /\ trail'[b] = trail[b]

\* What an attempt ends as when its record is due.
Outcome(a, result) == IF WriteThrows(a) THEN "threw" ELSE result

\* The results of an attempt that records its end.
Recorded == Results \ {"busy", "threw"}

LEMMA RecordsType ==
    /\ DeniedRecord \in Records
    /\ DeniedRecord.authorized = FALSE
    /\ DeniedRecord.target = NoContainer
    /\ \A c \in Containers \cup {NoContainer} :
          /\ ErrorRecord(c) \in Records
          /\ ErrorRecord(c).authorized /\ ErrorRecord(c).error /\ ErrorRecord(c).target = c
          /\ DoneRecord(c) \in Records
          /\ DoneRecord(c).authorized /\ ~DoneRecord(c).error /\ DoneRecord(c).target = c
  BY DEF DeniedRecord, ErrorRecord, DoneRecord, Records

LEMMA EndedState ==
    ASSUME NEW st \in AttemptStates, NEW r \in Results
    PROVE  LET t == [st EXCEPT !.pc = "ended", !.result = r] IN
           /\ t \in AttemptStates
           /\ Same(st, t)
           /\ t.acted = st.acted
           /\ t.pc = "ended"
           /\ t.result = r
  BY DEF AttemptStates, Same, Results

LEMMA EndsRecordedEffect ==
    ASSUME TypeOK, NEW a \in Attempts, NEW st \in AttemptStates, NEW result \in Results,
           NEW r \in Records, trail[a] = <<>>, EndsRecorded(a, st, result, r)
    PROVE  /\ Alone(a)
           /\ Same(st, attempt'[a]) /\ attempt'[a].acted = st.acted
           /\ attempt'[a].pc = "ended"
           /\ attempt'[a].result = Outcome(a, result)
           /\ trail'[a] = IF Audited(a) /\ writable THEN <<r>> ELSE <<>>
  <1> DEFINE res == Outcome(a, result)
             t == [st EXCEPT !.pc = "ended", !.result = res]
  <1>1. res \in Results
    BY DEF Results, Outcome
  <1>3. attempt' = [attempt EXCEPT ![a] = t]
    BY DEF EndsRecorded, Outcome
  <1> HIDE DEF res
  <1>2. t \in AttemptStates /\ Same(st, t) /\ t.acted = st.acted
        /\ t.pc = "ended" /\ t.result = res
    BY <1>1, EndedState
  <1>4. trail' = IF Audited(a) /\ writable THEN [trail EXCEPT ![a] = Append(@, r)] ELSE trail
    BY DEF EndsRecorded
  <1> HIDE DEF t
  <1>5. attempt'[a] = t /\ attempt' \in [Attempts -> AttemptStates]
        /\ \A b \in Attempts \ {a} : attempt'[b] = attempt[b]
    BY <1>2, <1>3 DEF TypeOK
  <1>6. trail' \in [Attempts -> Seq(Records)]
        /\ \A b \in Attempts \ {a} : trail'[b] = trail[b]
    BY <1>4 DEF TypeOK
  <1>7. Append(<<>>, r) = <<r>>
    OBVIOUS
  <1>8. trail'[a] = IF Audited(a) /\ writable THEN <<r>> ELSE <<>>
    BY <1>4, <1>7 DEF TypeOK
  <1> QED
    BY <1>2, <1>5, <1>6, <1>8 DEF Alone, res

LEMMA EndsUnrecordedEffect ==
    ASSUME TypeOK, NEW a \in Attempts, NEW st \in AttemptStates, NEW result \in Results,
           EndsUnrecorded(a, st, result)
    PROVE  /\ Alone(a)
           /\ Same(st, attempt'[a]) /\ attempt'[a].acted = st.acted
           /\ attempt'[a].pc = "ended" /\ attempt'[a].result = result
           /\ trail'[a] = trail[a]
  <1> DEFINE t == [st EXCEPT !.pc = "ended", !.result = result]
  <1>1. t \in AttemptStates /\ Same(st, t) /\ t.acted = st.acted
        /\ t.pc = "ended" /\ t.result = result
    BY EndedState
  <1>2. attempt' = [attempt EXCEPT ![a] = t] /\ trail' = trail
    BY DEF EndsUnrecorded
  <1> HIDE DEF t
  <1> QED
    BY <1>1, <1>2 DEF Alone, TypeOK

LEMMA ContinuesEffect ==
    ASSUME TypeOK, NEW a \in Attempts, NEW st \in AttemptStates,
           NEW pc \in {"selecting", "mapping", "cli", "presenting"}, Continues(a, st, pc)
    PROVE  /\ Alone(a)
           /\ Same(st, attempt'[a])
           /\ attempt'[a].acted <=> (st.acted \/ pc = "cli")
           /\ attempt'[a].pc = pc
           /\ trail'[a] = trail[a]
  <1> DEFINE t == [st EXCEPT !.pc = pc, !.acted = (@ \/ pc = "cli")]
  <1>1. t \in AttemptStates /\ Same(st, t) /\ (t.acted <=> (st.acted \/ pc = "cli")) /\ t.pc = pc
    BY DEF AttemptStates, Same
  <1>2. attempt' = [attempt EXCEPT ![a] = t] /\ trail' = trail
    BY DEF Continues
  <1> HIDE DEF t
  <1> QED
    BY <1>1, <1>2 DEF Alone, TypeOK

-----------------------------------------------------------------------------
(* What a move does to its own attempt and to the slots.                   *)

LogAlone(a) ==
    /\ log' \in [Attempts -> LogStates]
    /\ \A b \in Attempts \ {a} : log'[b] = log[b]

\* A good next state of attempt a, whatever happens to the slots.
Steps(a) ==
    /\ Alone(a)
    /\ LogAlone(a)
    /\ LocalInv(attempt'[a], trail'[a], log'[a], Audited(a))
    /\ attempt'[a].svc = attempt[a].svc
    /\ attempt'[a].ws = attempt[a].ws

Builder(st) == st.pc = "cli" /\ st.kind \in Builds

\* The three ways it may go with the slots.
Quiet(a) == ~Builder(attempt[a]) /\ ~Builder(attempt'[a]) /\ slots' = slots

Takes(a) ==
    LET st == attempt'[a] IN
    /\ Builder(st)
    /\ slots[st.svc][st.ws] = "free"
    /\ slots' = [slots EXCEPT ![st.svc][st.ws] = st.kind]

GivesBack(a) == Builder(attempt[a]) /\ ~Builder(attempt'[a]) /\ Release(a)

Moves(a) ==
    /\ Steps(a)
    /\ Quiet(a) \/ Takes(a) \/ GivesBack(a)
    /\ UNCHANGED <<selected, writable, audited>>

LEMMA EndsSteps ==
    ASSUME TypeOK, NEW a \in Attempts, NEW st \in AttemptStates, NEW result \in Recorded,
           NEW r \in Records, trail[a] = <<>>, EndsRecorded(a, st, result, r),
           st.svc = attempt[a].svc, st.ws = attempt[a].ws,
           Cleared(st), RecordFits(st, result, r),
           LogAlone(a), LogFits(st, Outcome(a, result), log'[a])
    PROVE  Steps(a) /\ attempt'[a].pc = "ended"
  <1>1. /\ Alone(a)
        /\ Same(st, attempt'[a]) /\ attempt'[a].acted = st.acted
        /\ attempt'[a].pc = "ended"
        /\ attempt'[a].result = Outcome(a, result)
        /\ trail'[a] = IF Audited(a) /\ writable THEN <<r>> ELSE <<>>
    BY EndsRecordedEffect DEF Recorded
  <1>2. <<r>> # <<>> /\ Len(<<r>>) = 1 /\ <<r>>[1] = r
    OBVIOUS
  <1>3. Cleared(attempt'[a])
    BY <1>1 DEF Cleared, Same
  <1>4. LogFits(attempt'[a], attempt'[a].result, log'[a])
    BY <1>1 DEF LogFits, Same
  <1>5. RecordFits(attempt'[a], result, r)
    BY <1>1 DEF RecordFits, Same
  <1>6. trail'[a] # <<>> <=> Audited(a) /\ attempt'[a].result \notin {"busy", "threw"}
    BY <1>1, <1>2 DEF Outcome, WriteThrows, Recorded
  <1>7. trail'[a] # <<>> => Len(trail'[a]) = 1
                            /\ RecordFits(attempt'[a], attempt'[a].result, trail'[a][1])
    BY <1>1, <1>2, <1>5 DEF Outcome, WriteThrows
  <1>8. LocalInv(attempt'[a], trail'[a], log'[a], Audited(a))
    BY <1>1, <1>3, <1>4, <1>6, <1>7 DEF LocalInv
  <1> QED
    BY <1>1, <1>8 DEF Steps, Same

LEMMA ContinuesSteps ==
    ASSUME TypeOK, NEW a \in Attempts, NEW st \in AttemptStates,
           NEW pc \in {"selecting", "mapping", "cli", "presenting"},
           trail[a] = <<>>, Continues(a, st, pc),
           st.svc = attempt[a].svc, st.ws = attempt[a].ws,
           st.acted <=> pc = "presenting",
           pc # "cli" => st.kind \in Execs,
           pc = "cli" => st.kind \in Kinds,
           st.kind \in Removals => st.confirmed,
           LogAlone(a),
           log'[a] = IF pc = "cli" /\ st.kind \in Logged THEN "running" ELSE "none"
    PROVE  Steps(a) /\ attempt'[a].pc = pc /\ attempt'[a].kind = st.kind
  <1>1. /\ Alone(a)
        /\ Same(st, attempt'[a])
        /\ attempt'[a].acted <=> (st.acted \/ pc = "cli")
        /\ attempt'[a].pc = pc
        /\ trail'[a] = trail[a]
    BY ContinuesEffect
  <1>2. Cleared(attempt'[a])
    BY <1>1 DEF Cleared, Same
  <1>3. LocalInv(attempt'[a], trail'[a], log'[a], Audited(a))
    BY <1>1, <1>2 DEF LocalInv, Same
  <1> QED
    BY <1>1, <1>3 DEF Steps, Same

LEMMA FinishLogEffect ==
    ASSUME TypeOK, NEW a \in Attempts, NEW s \in LogStates, FinishLog(a, s)
    PROVE  LogAlone(a) /\ log'[a] = s
  BY DEF FinishLog, LogAlone, TypeOK

LEMMA FinishDeniedEffect ==
    ASSUME TypeOK, NEW a \in Attempts, FinishDenied(a)
    PROVE  LogAlone(a) /\ log'[a] \in {"denied", "failed"}
  BY DEF FinishDenied, FinishLog, LogAlone, TypeOK, LogStates

LEMMA LogUnchanged ==
    ASSUME TypeOK, NEW a \in Attempts, UNCHANGED log
    PROVE  LogAlone(a) /\ log'[a] = log[a]
  BY DEF LogAlone, TypeOK

\* The attempt a call begins with.
LEMMA AsStarts ==
    ASSUME IInv, NEW a \in Attempts, NEW kind \in Kinds, Starting(a, kind)
    PROVE  /\ As(a, kind) \in AttemptStates
           /\ As(a, kind).kind = kind
           /\ As(a, kind).svc = attempt[a].svc
           /\ As(a, kind).ws = attempt[a].ws
           /\ ~As(a, kind).acted
           /\ trail[a] = <<>>
           /\ log[a] = "none"
           /\ ~Builder(attempt[a])
  <1>1. attempt[a] \in AttemptStates /\ attempt[a].pc = "idle"
        /\ LocalInv(attempt[a], trail[a], log[a], Audited(a))
    BY DEF IInv, TypeOK, AttemptInv, Starting
  <1>2. ~attempt[a].acted /\ trail[a] = <<>> /\ log[a] = "none"
    BY <1>1 DEF LocalInv
  <1>3. ASSUME NEW st \in AttemptStates
        PROVE  /\ [st EXCEPT !.kind = kind] \in AttemptStates
               /\ [st EXCEPT !.kind = kind].kind = kind
               /\ [st EXCEPT !.kind = kind].svc = st.svc
               /\ [st EXCEPT !.kind = kind].ws = st.ws
               /\ [st EXCEPT !.kind = kind].acted = st.acted
    BY DEF AttemptStates
  <1> QED
    BY <1>1, <1>2, <1>3 DEF As, Builder

\* What is known of an attempt that waits for its subprocess.
LEMMA CliState ==
    ASSUME IInv, NEW a \in Attempts, attempt[a].pc = "cli"
    PROVE  /\ attempt[a] \in AttemptStates
           /\ attempt[a].acted
           /\ attempt[a].kind \in Kinds
           /\ Cleared(attempt[a])
           /\ trail[a] = <<>>
           /\ log[a] = IF attempt[a].kind \in Logged THEN "running" ELSE "none"
  BY DEF IInv, TypeOK, AttemptInv, LocalInv

LEMMA KindsAre ==
    /\ Execs \cap Removals = {} /\ Execs \cap Logged = {} /\ Execs \cap Builds = {}
    /\ Execs \cap OnContainer = {} /\ Builds \cap OnContainer = {}
    /\ Builds \subseteq Logged /\ Destructions \subseteq Logged
    /\ Kinds = Builds \cup OnContainer \cup Execs
    /\ "logs" \notin Logged
    /\ OnContainer \ Logged = {"logs"}
    /\ Removals \subseteq Logged
  BY DEF Execs, Removals, Logged, Builds, OnContainer, Destructions, Kinds

\* An attempt that ran nothing may end with any record that claims no success.
LEMMA IdleFits ==
    ASSUME NEW a, NEW st, ~st.acted, NEW r, r.error \/ ~r.authorized, NEW result, result # "done"
    PROVE  /\ RecordFits(st, result, r)
           /\ Cleared(st)
           /\ \A lg : lg \notin {"running", "completed"} => LogFits(st, Outcome(a, result), lg)
           /\ WriteThrows(a) => LogFits(st, Outcome(a, result), "running")
  BY DEF RecordFits, Cleared, LogFits, Outcome

\* An attempt that ends without having been a builder leaves the slots alone.
LEMMA EndsQuietly ==
    ASSUME NEW a, Steps(a), attempt'[a].pc = "ended", ~Builder(attempt[a]),
           UNCHANGED <<slots, selected, writable, audited>>
    PROVE  Moves(a)
  BY DEF Moves, Quiet, Builder

-----------------------------------------------------------------------------
(* The calls.                                                              *)

LEMMA DeniedMoves ==
    ASSUME IInv, NEW a \in Attempts, NEW kind \in Kinds, Denied(a, kind)
    PROVE  Moves(a)
  <1> DEFINE st == As(a, kind)
  <1>1. Starting(a, kind) /\ EndsRecorded(a, st, "denied", DeniedRecord)
        /\ UNCHANGED <<slots, selected, writable, audited>>
    BY DEF Denied
  <1>2. /\ st \in AttemptStates /\ st.svc = attempt[a].svc /\ st.ws = attempt[a].ws
        /\ ~st.acted /\ trail[a] = <<>> /\ log[a] = "none" /\ ~Builder(attempt[a])
    BY <1>1, AsStarts
  <1>3. LogAlone(a) /\ log'[a] \in {"denied", "failed", "none"}
    <2>1. CASE kind \in Destructions
      BY <2>1, FinishDeniedEffect DEF Denied, IInv
    <2>2. CASE kind \notin Destructions
      BY <2>2, <1>2, LogUnchanged DEF Denied, IInv
    <2> QED BY <2>1, <2>2
  <1> HIDE DEF st
  <1>4. RecordFits(st, "denied", DeniedRecord) /\ Cleared(st)
        /\ LogFits(st, Outcome(a, "denied"), log'[a])
    BY <1>2, <1>3, IdleFits, RecordsType
  <1>5. Steps(a) /\ attempt'[a].pc = "ended"
    BY <1>1, <1>2, <1>3, <1>4, EndsSteps, RecordsType DEF IInv, Results, Recorded
  <1> QED
    BY <1>1, <1>2, <1>5, EndsQuietly

\* A call that ends before it ran anything, with an error record.
LEMMA RefusedSteps ==
    ASSUME IInv, NEW a \in Attempts, NEW st \in AttemptStates, ~st.acted,
           st.svc = attempt[a].svc, st.ws = attempt[a].ws, trail[a] = <<>>,
           NEW result \in Recorded \ {"done"}, NEW r \in Records, r.error,
           EndsRecorded(a, st, result, r),
           LogAlone(a), log'[a] \notin {"running", "completed"}
    PROVE  Steps(a) /\ attempt'[a].pc = "ended"
  <1>1. RecordFits(st, result, r) /\ Cleared(st) /\ LogFits(st, Outcome(a, result), log'[a])
    BY IdleFits
  <1> QED
    BY <1>1, EndsSteps DEF IInv

LEMMA BindState ==
    ASSUME NEW st \in AttemptStates, NEW c \in Containers \cup {NoContainer}
    PROVE  /\ [st EXCEPT !.bound = c] \in AttemptStates
           /\ [st EXCEPT !.bound = c].bound = c
           /\ [st EXCEPT !.bound = c].kind = st.kind
           /\ [st EXCEPT !.bound = c].svc = st.svc
           /\ [st EXCEPT !.bound = c].ws = st.ws
           /\ [st EXCEPT !.bound = c].acted = st.acted
           /\ [st EXCEPT !.bound = c].confirmed = st.confirmed
           /\ [st EXCEPT !.bound = c].pc = st.pc
  BY DEF AttemptStates

\* bind(), for a call that starts and for one that was offered to autoSelect.
LEMMA BindSteps ==
    ASSUME IInv, NEW a \in Attempts, NEW st \in AttemptStates, ~st.acted, st.kind \in Execs,
           st.svc = attempt[a].svc, st.ws = attempt[a].ws,
           trail[a] = <<>>, log[a] = "none", UNCHANGED log, Bind(a, st)
    PROVE  Steps(a) /\ ~Builder(attempt'[a])
  <1> DEFINE c == selected[st.svc].cand
             bd == [st EXCEPT !.bound = c]
  <1>1. LogAlone(a) /\ log'[a] = "none"
    BY LogUnchanged DEF IInv
  <1>2. st.svc \in Services /\ c \in Containers \cup {NoContainer}
    <2>1. st.svc \in Services
      BY DEF AttemptStates
    <2>2. selected[st.svc] \in Selected
      BY <2>1 DEF IInv, TypeOK
    <2> QED BY <2>1, <2>2 DEF Selected
  <1>3. /\ bd \in AttemptStates /\ bd.kind = st.kind /\ bd.svc = st.svc /\ bd.ws = st.ws
        /\ bd.acted = st.acted
    <2> HIDE DEF c
    <2> QED BY <1>2, BindState
  <1> HIDE DEF bd, c
  <1>4. CASE EndsRecorded(a, st, "refused", ErrorRecord(NoContainer))
    BY <1>1, <1>4, RefusedSteps, RecordsType DEF Results, Recorded, Builder
  <1>5. CASE EndsRecorded(a, bd, "refused", ErrorRecord(NoContainer))
    BY <1>1, <1>3, <1>5, RefusedSteps, RecordsType DEF Results, Recorded, Builder
  <1>6. ASSUME NEW pc \in {"mapping", "cli"}, Continues(a, bd, pc)
        PROVE  Steps(a) /\ ~Builder(attempt'[a])
    <2>1. bd.kind \in Kinds /\ bd.kind \notin Logged /\ bd.kind \notin Removals
          /\ bd.kind \notin Builds
      BY <1>3, KindsAre
    <2>2. Steps(a) /\ attempt'[a].kind = bd.kind
      BY <1>1, <1>3, <1>6, <2>1, ContinuesSteps DEF IInv
    <2> QED BY <2>1, <2>2 DEF Builder
  <1>7. CASE Bound(a, bd)
    BY <1>5, <1>6, <1>7 DEF Bound
  <1> QED
    BY <1>4, <1>7 DEF Bind, bd, c

LEMMA ExecStartsMoves ==
    ASSUME IInv, NEW a \in Attempts, NEW kind \in Kinds,
           ExecStarts(a, kind) \/ ExecAutoSelects(a, kind)
    PROVE  Moves(a)
  <1> DEFINE st == As(a, kind)
  <1>1. Starting(a, kind) /\ kind \in Execs /\ UNCHANGED <<log, slots, selected, writable, audited>>
        /\ (Bind(a, st) \/ Continues(a, st, "selecting"))
    BY DEF ExecStarts, ExecAutoSelects
  <1>2. /\ st \in AttemptStates /\ st.svc = attempt[a].svc /\ st.ws = attempt[a].ws
        /\ ~st.acted /\ st.kind = kind
        /\ trail[a] = <<>> /\ log[a] = "none" /\ ~Builder(attempt[a])
    BY <1>1, AsStarts
  <1> HIDE DEF st
  <1>3. LogAlone(a) /\ log'[a] = "none"
    BY <1>1, <1>2, LogUnchanged DEF IInv
  <1>4. Steps(a) /\ ~Builder(attempt'[a])
    <2>1. CASE Bind(a, st)
      BY <1>1, <1>2, <2>1, BindSteps
    <2>2. CASE Continues(a, st, "selecting")
      <3>1. st.kind \notin Removals
        BY <1>1, <1>2, KindsAre
      <3>2. Steps(a) /\ attempt'[a].pc = "selecting"
        BY <1>1, <1>2, <1>3, <2>2, <3>1, ContinuesSteps DEF IInv
      <3> QED BY <3>2 DEF Builder
    <2> QED BY <1>1, <2>1, <2>2
  <1> QED
    BY <1>1, <1>2, <1>4 DEF Moves, Quiet

\* The slot is taken: the attempt ends at once, with no record.
LEMMA BuildBusyMoves ==
    ASSUME IInv, NEW a \in Attempts, NEW kind \in Kinds, BuildBusy(a, kind)
    PROVE  Moves(a)
  <1> DEFINE st == As(a, kind)
  <1>1. Starting(a, kind) /\ EndsUnrecorded(a, st, "busy")
        /\ UNCHANGED <<log, slots, selected, writable, audited>>
    BY DEF BuildBusy
  <1>2. /\ st \in AttemptStates /\ st.svc = attempt[a].svc /\ st.ws = attempt[a].ws
        /\ ~st.acted /\ trail[a] = <<>> /\ log[a] = "none" /\ ~Builder(attempt[a])
    BY <1>1, AsStarts
  <1> HIDE DEF st
  <1>3. LogAlone(a) /\ log'[a] = "none"
    BY <1>1, <1>2, LogUnchanged DEF IInv
  <1>4. /\ Alone(a) /\ Same(st, attempt'[a]) /\ attempt'[a].acted = st.acted
        /\ attempt'[a].pc = "ended" /\ attempt'[a].result = "busy" /\ trail'[a] = <<>>
    BY <1>1, <1>2, EndsUnrecordedEffect DEF IInv, Results
  <1>5. LocalInv(attempt'[a], trail'[a], log'[a], Audited(a))
    BY <1>2, <1>3, <1>4 DEF LocalInv, Cleared, LogFits
  <1>6. Steps(a)
    BY <1>2, <1>3, <1>4, <1>5 DEF Steps, Same
  <1> QED
    BY <1>1, <1>2, <1>4, <1>6, EndsQuietly

LEMMA BuildDeniedMoves ==
    ASSUME IInv, NEW a \in Attempts, NEW kind \in Kinds, BuildDenied(a, kind)
    PROVE  Moves(a)
  <1> DEFINE st == As(a, kind)
  <1>1. Starting(a, kind) /\ EndsRecorded(a, st, "denied", DeniedRecord)
        /\ FinishDenied(a) /\ UNCHANGED <<slots, selected, writable, audited>>
    BY DEF BuildDenied, Claim
  <1>2. /\ st \in AttemptStates /\ st.svc = attempt[a].svc /\ st.ws = attempt[a].ws
        /\ ~st.acted /\ trail[a] = <<>> /\ ~Builder(attempt[a])
    BY <1>1, AsStarts
  <1> HIDE DEF st
  <1>3. LogAlone(a) /\ log'[a] \in {"denied", "failed"}
    BY <1>1, FinishDeniedEffect DEF IInv
  <1>4. RecordFits(st, "denied", DeniedRecord) /\ Cleared(st)
        /\ LogFits(st, Outcome(a, "denied"), log'[a])
    BY <1>2, <1>3, IdleFits, RecordsType
  <1>5. Steps(a) /\ attempt'[a].pc = "ended"
    BY <1>1, <1>2, <1>3, <1>4, EndsSteps, RecordsType DEF IInv, Results, Recorded
  <1> QED
    BY <1>1, <1>2, <1>5, EndsQuietly

\* The transcript an unwritable record leaves open is of an attempt that threw.
LEMMA RebuildUnconfirmedMoves ==
    ASSUME IInv, NEW a \in Attempts, RebuildUnconfirmed(a)
    PROVE  Moves(a)
  <1> DEFINE st == As(a, "rebuild")
  <1>1. Starting(a, "rebuild")
        /\ EndsRecorded(a, st, "unconfirmed", ErrorRecord(NoContainer))
        /\ FinishLog(a, IF WriteThrows(a) THEN "running" ELSE "denied")
        /\ UNCHANGED <<slots, selected, writable, audited>>
    BY DEF RebuildUnconfirmed, Claim
  <1>2. /\ st \in AttemptStates /\ st.svc = attempt[a].svc /\ st.ws = attempt[a].ws
        /\ ~st.acted /\ trail[a] = <<>> /\ ~Builder(attempt[a])
    BY <1>1, AsStarts DEF Kinds, Builds
  <1> HIDE DEF st
  <1>3. LogAlone(a) /\ log'[a] = IF WriteThrows(a) THEN "running" ELSE "denied"
    BY <1>1, FinishLogEffect DEF IInv, LogStates
  <1>4. RecordFits(st, "unconfirmed", ErrorRecord(NoContainer)) /\ Cleared(st)
        /\ LogFits(st, Outcome(a, "unconfirmed"), log'[a])
    BY <1>2, <1>3, IdleFits, RecordsType
  <1>5. Steps(a) /\ attempt'[a].pc = "ended"
    BY <1>1, <1>2, <1>3, <1>4, EndsSteps, RecordsType DEF IInv, Results, Recorded
  <1> QED
    BY <1>1, <1>2, <1>5, EndsQuietly

LEMMA ConfirmedState ==
    ASSUME NEW st \in AttemptStates, NEW conf \in BOOLEAN
    PROVE  /\ [st EXCEPT !.confirmed = conf] \in AttemptStates
           /\ [st EXCEPT !.confirmed = conf].confirmed = conf
           /\ [st EXCEPT !.confirmed = conf].bound = st.bound
           /\ [st EXCEPT !.confirmed = conf].kind = st.kind
           /\ [st EXCEPT !.confirmed = conf].svc = st.svc
           /\ [st EXCEPT !.confirmed = conf].ws = st.ws
           /\ [st EXCEPT !.confirmed = conf].acted = st.acted
  BY DEF AttemptStates

LEMMA OfferedType == \A kind : Offered(kind) \subseteq BOOLEAN
  BY DEF Offered

LEMMA BuildStartsMoves ==
    ASSUME IInv, NEW a \in Attempts, NEW kind \in Kinds, BuildStarts(a, kind)
    PROVE  Moves(a)
  <1> DEFINE st == As(a, kind)
  <1>1. PICK conf \in BOOLEAN :
           /\ Starting(a, kind) /\ kind \in Builds
           /\ slots[attempt[a].svc][attempt[a].ws] = "free"
           /\ slots' = [slots EXCEPT ![attempt[a].svc][attempt[a].ws] = kind]
           /\ Confirms(kind, conf)
           /\ Continues(a, [st EXCEPT !.confirmed = conf], "cli")
           /\ FinishLog(a, "running")
           /\ UNCHANGED <<selected, writable, audited>>
    BY OfferedType DEF BuildStarts, Claim
  <1>2. /\ st \in AttemptStates /\ st.svc = attempt[a].svc /\ st.ws = attempt[a].ws
        /\ ~st.acted /\ st.kind = kind /\ trail[a] = <<>>
    BY <1>1, AsStarts
  <1> HIDE DEF st
  <1> DEFINE bd == [st EXCEPT !.confirmed = conf]
  <1>3. /\ bd \in AttemptStates /\ bd.svc = attempt[a].svc /\ bd.ws = attempt[a].ws
        /\ ~bd.acted /\ bd.kind = kind /\ bd.confirmed = conf
    BY <1>2, ConfirmedState
  <1> HIDE DEF bd
  <1>4. Continues(a, bd, "cli")
    BY <1>1 DEF bd
  <1>5. LogAlone(a) /\ log'[a] = "running"
    BY <1>1, FinishLogEffect DEF IInv, LogStates
  <1>6. kind \in Logged /\ (kind \in Removals => conf)
    BY <1>1, KindsAre DEF Confirms
  <1>7. Steps(a) /\ attempt'[a].pc = "cli" /\ attempt'[a].kind = kind
    BY <1>2, <1>3, <1>4, <1>5, <1>6, ContinuesSteps DEF IInv
  <1>8. Takes(a)
    BY <1>1, <1>7 DEF Takes, Steps, Builder
  <1> QED
    BY <1>1, <1>7, <1>8 DEF Moves

LEMMA ContainerRefusedMoves ==
    ASSUME IInv, NEW a \in Attempts, NEW kind \in Kinds, ContainerRefused(a, kind)
    PROVE  Moves(a)
  <1> DEFINE st == As(a, kind)
  <1>1. Starting(a, kind) /\ EndsRecorded(a, st, "refused", ErrorRecord(NoContainer))
        /\ UNCHANGED <<slots, selected, writable, audited>>
        /\ (UNCHANGED log \/ \E r \in {"denied", "failed"} : FinishLog(a, r))
    BY DEF ContainerRefused
  <1>2. /\ st \in AttemptStates /\ st.svc = attempt[a].svc /\ st.ws = attempt[a].ws
        /\ ~st.acted /\ trail[a] = <<>> /\ log[a] = "none" /\ ~Builder(attempt[a])
    BY <1>1, AsStarts
  <1> HIDE DEF st
  <1>3. LogAlone(a) /\ log'[a] \in {"denied", "failed", "none"}
    BY <1>1, <1>2, LogUnchanged, FinishLogEffect DEF IInv, LogStates
  <1>4. Steps(a) /\ attempt'[a].pc = "ended"
    BY <1>1, <1>2, <1>3, RefusedSteps, RecordsType DEF Results, Recorded
  <1> QED
    BY <1>1, <1>2, <1>4, EndsQuietly

LEMMA DestructionUnconfirmedMoves ==
    ASSUME IInv, NEW a \in Attempts, NEW kind \in Kinds, DestructionUnconfirmed(a, kind)
    PROVE  Moves(a)
  <1> DEFINE st == As(a, kind)
  <1>1. PICK c \in Containers :
           /\ Starting(a, kind) /\ EndsRecorded(a, st, "unconfirmed", ErrorRecord(c))
           /\ FinishLog(a, "denied") /\ UNCHANGED <<slots, selected, writable, audited>>
    BY DEF DestructionUnconfirmed
  <1>2. /\ st \in AttemptStates /\ st.svc = attempt[a].svc /\ st.ws = attempt[a].ws
        /\ ~st.acted /\ trail[a] = <<>> /\ ~Builder(attempt[a])
    BY <1>1, AsStarts
  <1> HIDE DEF st
  <1>3. LogAlone(a) /\ log'[a] = "denied"
    BY <1>1, FinishLogEffect DEF IInv, LogStates
  <1>4. Steps(a) /\ attempt'[a].pc = "ended"
    BY <1>1, <1>2, <1>3, RefusedSteps, RecordsType DEF Results, Recorded
  <1> QED
    BY <1>1, <1>2, <1>4, EndsQuietly

LEMMA ContainerStartsMoves ==
    ASSUME IInv, NEW a \in Attempts, NEW kind \in Kinds, ContainerStarts(a, kind)
    PROVE  Moves(a)
  <1> DEFINE st == As(a, kind)
  <1>1. PICK c \in Containers, conf \in BOOLEAN :
           /\ Starting(a, kind) /\ kind \in OnContainer
           /\ Confirms(kind, conf)
           /\ Continues(a, [st EXCEPT !.bound = c, !.confirmed = conf], "cli")
    BY OfferedType DEF ContainerStarts
  <1>2. /\ UNCHANGED <<slots, selected, writable, audited>>
        /\ kind \in Destructions => FinishLog(a, "running")
        /\ kind \notin Destructions => UNCHANGED log
    BY DEF ContainerStarts
  <1>3. /\ st \in AttemptStates /\ st.svc = attempt[a].svc /\ st.ws = attempt[a].ws
        /\ ~st.acted /\ st.kind = kind /\ trail[a] = <<>> /\ log[a] = "none"
        /\ ~Builder(attempt[a])
    BY <1>1, AsStarts
  <1> HIDE DEF st
  <1> DEFINE bd == [st EXCEPT !.bound = c, !.confirmed = conf]
  <1>4. /\ bd \in AttemptStates /\ bd.svc = attempt[a].svc /\ bd.ws = attempt[a].ws
        /\ ~bd.acted /\ bd.kind = kind /\ bd.confirmed = conf
    BY <1>3 DEF AttemptStates
  <1>5. Continues(a, bd, "cli")
    BY <1>1
  <1> HIDE DEF bd
  <1>6. LogAlone(a) /\ log'[a] = IF kind \in Logged THEN "running" ELSE "none"
    <2>1. CASE kind \in Destructions
      BY <1>2, <2>1, FinishLogEffect, KindsAre DEF IInv, LogStates
    <2>2. CASE kind \notin Destructions
      <3>1. kind \notin Logged
        BY <1>1, <2>2, KindsAre DEF OnContainer
      <3> QED BY <1>2, <1>3, <2>2, <3>1, LogUnchanged DEF IInv
    <2> QED BY <2>1, <2>2
  <1>7. kind \in Removals => conf
    BY <1>1 DEF Confirms
  <1>8. Steps(a) /\ attempt'[a].kind = kind
    BY <1>3, <1>4, <1>5, <1>6, <1>7, ContinuesSteps DEF IInv
  <1>9. kind \notin Builds
    BY <1>1, KindsAre
  <1> QED
    BY <1>2, <1>3, <1>8, <1>9 DEF Moves, Quiet, Builder

-----------------------------------------------------------------------------
(* What an attempt resumes with.                                           *)

LEMMA WaitState ==
    ASSUME IInv, NEW a \in Attempts, attempt[a].pc \in {"selecting", "mapping", "presenting"}
    PROVE  /\ attempt[a] \in AttemptStates
           /\ attempt[a].kind \in Execs
           /\ attempt[a].acted <=> attempt[a].pc = "presenting"
           /\ Cleared(attempt[a])
           /\ trail[a] = <<>>
           /\ log[a] = "none"
           /\ attempt[a].bound \in Containers \cup {NoContainer}
           /\ ~Builder(attempt[a])
  <1>1. attempt[a] \in AttemptStates /\ LocalInv(attempt[a], trail[a], log[a], Audited(a))
    BY DEF IInv, TypeOK, AttemptInv
  <1>2. attempt[a].bound \in Containers \cup {NoContainer}
    BY <1>1 DEF AttemptStates
  <1> QED
    BY <1>1, <1>2 DEF LocalInv, Builder

LEMMA ExecSelectedMoves ==
    ASSUME IInv, NEW a \in Attempts, ExecSelected(a)
    PROVE  Moves(a)
  <1>1. attempt[a].pc = "selecting" /\ UNCHANGED <<log, slots, selected, writable, audited>>
        /\ (Bind(a, attempt[a])
            \/ EndsRecorded(a, attempt[a], "refused", ErrorRecord(NoContainer)))
    BY DEF ExecSelected
  <1>2. /\ attempt[a] \in AttemptStates /\ attempt[a].kind \in Execs /\ ~attempt[a].acted
        /\ trail[a] = <<>> /\ log[a] = "none" /\ ~Builder(attempt[a])
    BY <1>1, WaitState
  <1>3. LogAlone(a) /\ log'[a] = "none"
    BY <1>1, <1>2, LogUnchanged DEF IInv
  <1>4. CASE Bind(a, attempt[a])
    BY <1>1, <1>2, <1>4, BindSteps DEF Moves, Quiet
  <1>5. CASE EndsRecorded(a, attempt[a], "refused", ErrorRecord(NoContainer))
    <2>1. Steps(a) /\ attempt'[a].pc = "ended"
      BY <1>2, <1>3, <1>5, RefusedSteps, RecordsType DEF Results, Recorded
    <2> QED BY <1>1, <1>2, <2>1, EndsQuietly
  <1> QED
    BY <1>1, <1>4, <1>5

LEMMA MappedState ==
    ASSUME NEW st \in AttemptStates, NEW m \in BOOLEAN
    PROVE  /\ [st EXCEPT !.mapped = m] \in AttemptStates
           /\ [st EXCEPT !.mapped = m].kind = st.kind
           /\ [st EXCEPT !.mapped = m].svc = st.svc
           /\ [st EXCEPT !.mapped = m].ws = st.ws
           /\ [st EXCEPT !.mapped = m].acted = st.acted
  BY DEF AttemptStates

\* The mapping refuses the call, fails, or lets it run.
LEMMA MappingMoves ==
    ASSUME IInv, NEW a \in Attempts, ExecHostPath(a) \/ ExecMapped(a)
    PROVE  Moves(a)
  <1> DEFINE denial == [authorized |-> FALSE, target |-> attempt[a].bound, error |-> TRUE]
  <1>1. attempt[a].pc = "mapping" /\ UNCHANGED <<log, slots, selected, writable, audited>>
    BY DEF ExecHostPath, ExecMapped
  <1>2. /\ attempt[a] \in AttemptStates /\ attempt[a].kind \in Execs /\ ~attempt[a].acted
        /\ trail[a] = <<>> /\ log[a] = "none" /\ ~Builder(attempt[a])
        /\ attempt[a].bound \in Containers \cup {NoContainer}
    BY <1>1, WaitState
  <1>3. LogAlone(a) /\ log'[a] = "none"
    BY <1>1, <1>2, LogUnchanged DEF IInv
  <1>4. ASSUME NEW result \in Recorded \ {"done"}, NEW r \in Records, r.error,
               EndsRecorded(a, attempt[a], result, r)
        PROVE  Moves(a)
    <2>1. Steps(a) /\ attempt'[a].pc = "ended"
      BY <1>2, <1>3, <1>4, RefusedSteps
    <2> QED BY <1>1, <1>2, <2>1, EndsQuietly
  <1>5. ASSUME NEW m \in BOOLEAN, Continues(a, [attempt[a] EXCEPT !.mapped = m], "cli")
        PROVE  Moves(a)
    <2> DEFINE st == [attempt[a] EXCEPT !.mapped = m]
    <2>1. /\ st \in AttemptStates /\ st.kind = attempt[a].kind /\ st.svc = attempt[a].svc
          /\ st.ws = attempt[a].ws /\ ~st.acted
      BY <1>2, MappedState
    <2>2. Continues(a, st, "cli")
      BY <1>5
    <2> HIDE DEF st
    <2>3. /\ st.kind \in Kinds /\ st.kind \notin Logged /\ st.kind \notin Removals
          /\ st.kind \notin Builds
      BY <1>2, <2>1, KindsAre
    <2>4. Steps(a) /\ attempt'[a].kind = st.kind
      BY <1>2, <1>3, <2>1, <2>2, <2>3, ContinuesSteps DEF IInv
    <2> QED BY <1>1, <1>2, <2>3, <2>4 DEF Moves, Quiet, Builder
  <1>6. CASE ExecHostPath(a)
    <2>1. denial \in Records /\ denial.error
      BY <1>2 DEF Records
    <2>2. EndsRecorded(a, attempt[a], "denied", denial)
      BY <1>6 DEF ExecHostPath
    <2> HIDE DEF denial
    <2> QED BY <1>4, <2>1, <2>2 DEF Results, Recorded
  <1>7. CASE ExecMapped(a)
    <2>1. \/ EndsRecorded(a, attempt[a], "failed", ErrorRecord(attempt[a].bound))
          \/ EndsRecorded(a, attempt[a], "refused", ErrorRecord(NoContainer))
          \/ \E m \in BOOLEAN : Continues(a, [attempt[a] EXCEPT !.mapped = m], "cli")
      BY <1>7 DEF ExecMapped
    <2>2. CASE EndsRecorded(a, attempt[a], "failed", ErrorRecord(attempt[a].bound))
      BY <1>2, <1>4, <2>2, RecordsType DEF Results, Recorded
    <2>3. CASE EndsRecorded(a, attempt[a], "refused", ErrorRecord(NoContainer))
      BY <1>4, <2>3, RecordsType DEF Results, Recorded
    <2> QED BY <1>5, <2>1, <2>2, <2>3
  <1> QED
    BY <1>6, <1>7

-----------------------------------------------------------------------------
(* After the subprocess.                                                   *)

\* An attempt that ran something ends with a record of the container it was
\* bound to, or of none.
LEMMA ActedFits ==
    ASSUME NEW st, st.acted, Cleared(st), NEW r, r.authorized,
           r.target \in {st.bound, NoContainer},
           NEW result, ~r.error => result = "done"
    PROVE  RecordFits(st, result, r)
  BY DEF RecordFits

LEMMA ExecEndsMoves ==
    ASSUME IInv, NEW a \in Attempts, attempt[a].pc \in {"cli", "presenting"},
           attempt[a].kind \in Execs,
           NEW result \in Recorded, NEW r \in Records, r.authorized,
           r.target = attempt[a].bound, ~r.error => result = "done",
           EndsRecorded(a, attempt[a], result, r),
           UNCHANGED <<log, slots, selected, writable, audited>>
    PROVE  Moves(a)
  <1>1. /\ attempt[a] \in AttemptStates /\ attempt[a].acted /\ Cleared(attempt[a])
        /\ trail[a] = <<>> /\ log[a] = "none" /\ ~Builder(attempt[a])
        /\ attempt[a].kind \notin Logged
    BY CliState, WaitState, KindsAre DEF Builder
  <1>2. LogAlone(a) /\ log'[a] = "none"
    BY <1>1, LogUnchanged DEF IInv
  <1>3. LogFits(attempt[a], Outcome(a, result), log'[a])
    BY <1>1, <1>2 DEF LogFits
  <1>4. RecordFits(attempt[a], result, r)
    BY <1>1, ActedFits
  <1>5. Steps(a) /\ attempt'[a].pc = "ended"
    BY <1>1, <1>2, <1>3, <1>4, EndsSteps DEF IInv
  <1> QED
    BY <1>1, <1>5, EndsQuietly

LEMMA BoundType ==
    ASSUME IInv, NEW a \in Attempts
    PROVE  attempt[a] \in AttemptStates /\ attempt[a].bound \in Containers \cup {NoContainer}
  BY DEF IInv, TypeOK, AttemptStates

LEMMA ExecFailsMoves ==
    ASSUME IInv, NEW a \in Attempts, ExecFails(a)
    PROVE  Moves(a)
  <1>1. PICK r \in CliFailures : EndsRecorded(a, attempt[a], r, ErrorRecord(attempt[a].bound))
    BY DEF ExecFails
  <1>2. r \in Recorded
    BY DEF CliFailures, Results, Recorded
  <1> QED
    BY <1>1, <1>2, BoundType, RecordsType, ExecEndsMoves DEF ExecFails

LEMMA ExecDoneMoves ==
    ASSUME IInv, NEW a \in Attempts, ExecDone(a)
    PROVE  Moves(a)
  <1>1. attempt[a].pc = "cli" /\ attempt[a].kind \in Execs
        /\ UNCHANGED <<log, slots, selected, writable, audited>>
    BY DEF ExecDone
  <1>2. CASE EndsRecorded(a, attempt[a], "done", DoneRecord(attempt[a].bound))
    BY <1>1, <1>2, BoundType, RecordsType, ExecEndsMoves DEF Results, Recorded
  <1>3. CASE Continues(a, attempt[a], "presenting")
    <2>1. /\ attempt[a] \in AttemptStates /\ attempt[a].acted /\ trail[a] = <<>>
          /\ log[a] = "none" /\ attempt[a].kind \notin Removals /\ ~Builder(attempt[a])
      BY <1>1, CliState, KindsAre DEF Builder
    <2>2. LogAlone(a) /\ log'[a] = "none"
      BY <1>1, <2>1, LogUnchanged DEF IInv
    <2>3. Steps(a) /\ attempt'[a].pc = "presenting"
      BY <1>1, <1>3, <2>1, <2>2, ContinuesSteps DEF IInv
    <2> QED BY <1>1, <2>1, <2>3 DEF Moves, Quiet, Builder
  <1> QED
    BY <1>2, <1>3 DEF ExecDone

LEMMA ExecPresentedMoves ==
    ASSUME IInv, NEW a \in Attempts, ExecPresented(a)
    PROVE  Moves(a)
  <1>1. attempt[a].pc = "presenting" /\ UNCHANGED <<log, slots, selected, writable, audited>>
    BY DEF ExecPresented
  <1>2. /\ attempt[a] \in AttemptStates /\ attempt[a].kind \in Execs /\ attempt[a].acted
        /\ Cleared(attempt[a]) /\ trail[a] = <<>> /\ log[a] = "none" /\ ~Builder(attempt[a])
    BY <1>1, WaitState
  <1>3. CASE EndsRecorded(a, attempt[a], "done", DoneRecord(attempt[a].bound))
    BY <1>1, <1>2, <1>3, BoundType, RecordsType, ExecEndsMoves DEF Results, Recorded
  <1>4. CASE EndsUnrecorded(a, attempt[a], "threw")
    <2>1. LogAlone(a) /\ log'[a] = "none"
      BY <1>1, <1>2, LogUnchanged DEF IInv
    <2>2. /\ Alone(a) /\ Same(attempt[a], attempt'[a])
          /\ attempt'[a].acted = attempt[a].acted
          /\ attempt'[a].pc = "ended" /\ attempt'[a].result = "threw" /\ trail'[a] = <<>>
      BY <1>2, <1>4, EndsUnrecordedEffect DEF IInv, Results
    <2>3. LocalInv(attempt'[a], trail'[a], log'[a], Audited(a))
      BY <1>2, <2>1, <2>2 DEF LocalInv, Cleared, LogFits, Same
    <2>4. Steps(a)
      BY <2>1, <2>2, <2>3 DEF Steps, Same
    <2> QED BY <1>1, <1>2, <2>2, <2>4, EndsQuietly
  <1> QED
    BY <1>3, <1>4 DEF ExecPresented

\* A build that ends gives its slot back, with its record or without.
LEMMA BuildEndsMoves ==
    ASSUME IInv, NEW a \in Attempts, attempt[a].pc = "cli", attempt[a].kind \in Builds,
           NEW c \in Containers \cup {NoContainer}, NEW st \in AttemptStates,
           st.kind = attempt[a].kind, st.svc = attempt[a].svc, st.ws = attempt[a].ws,
           st.acted = attempt[a].acted, st.confirmed = attempt[a].confirmed,
           NEW result \in Recorded, NEW r \in Records, r.authorized,
           r.target \in {st.bound, NoContainer}, ~r.error => result = "done",
           EndsRecorded(a, st, result, r),
           NEW lg \in LogStates \ {"running"}, FinishLog(a, lg),
           result = "done" <=> lg = "completed",
           Release(a), UNCHANGED <<selected, writable, audited>>
    PROVE  Moves(a)
  <1>1. /\ attempt[a].acted /\ Cleared(attempt[a]) /\ trail[a] = <<>> /\ Builder(attempt[a])
    BY CliState DEF Builder
  <1>2. LogAlone(a) /\ log'[a] = lg
    BY FinishLogEffect DEF IInv
  <1>3. Cleared(st)
    BY <1>1 DEF Cleared
  <1>4. RecordFits(st, result, r)
    BY <1>1, <1>3, ActedFits
  <1>5. LogFits(st, Outcome(a, result), log'[a])
    BY <1>2 DEF LogFits, Outcome
  <1>6. Steps(a) /\ attempt'[a].pc = "ended"
    BY <1>1, <1>2, <1>3, <1>4, <1>5, EndsSteps DEF IInv
  <1> QED
    BY <1>1, <1>6 DEF Moves, GivesBack, Builder

LEMMA BuildDoneMoves ==
    ASSUME IInv, NEW a \in Attempts, BuildDone(a)
    PROVE  Moves(a)
  <1>1. PICK made \in Containers \cup {NoContainer} :
           EndsRecorded(a, [attempt[a] EXCEPT !.bound = made], "done", DoneRecord(made))
    BY DEF BuildDone
  <1> DEFINE st == [attempt[a] EXCEPT !.bound = made]
  <1>2. attempt[a] \in AttemptStates
    BY BoundType
  <1>3. /\ st \in AttemptStates /\ st.bound = made /\ st.kind = attempt[a].kind
        /\ st.svc = attempt[a].svc /\ st.ws = attempt[a].ws
        /\ st.acted = attempt[a].acted /\ st.confirmed = attempt[a].confirmed
    BY <1>2, BindState
  <1>4. EndsRecorded(a, st, "done", DoneRecord(made))
    BY <1>1
  <1> HIDE DEF st
  <1>5. /\ attempt[a].pc = "cli" /\ attempt[a].kind \in Builds
        /\ FinishLog(a, "completed") /\ Release(a) /\ UNCHANGED <<selected, writable, audited>>
    BY DEF BuildDone
  <1>6. DoneRecord(made) \in Records /\ DoneRecord(made).authorized
        /\ DoneRecord(made).target = made
    BY RecordsType
  <1> HIDE DEF Release
  <1>7. "done" \in Recorded /\ "completed" \in LogStates \ {"running"}
    BY DEF Results, Recorded, LogStates
  <1> QED
    BY <1>3, <1>4, <1>5, <1>6, <1>7, BuildEndsMoves

LEMMA BuildFailsMoves ==
    ASSUME IInv, NEW a \in Attempts, BuildFails(a)
    PROVE  Moves(a)
  <1>1. PICK f \in CliFailures :
           EndsRecorded(a, attempt[a], f, ErrorRecord(NoContainer)) /\ FinishLog(a, f)
    BY DEF BuildFails
  <1>2. /\ attempt[a].pc = "cli" /\ attempt[a].kind \in Builds
        /\ Release(a) /\ UNCHANGED <<selected, writable, audited>>
    BY DEF BuildFails
  <1>3. f \in Recorded /\ f # "done" /\ f \in LogStates \ {"running"} /\ f # "completed"
    BY DEF CliFailures, Results, Recorded, LogStates
  <1>4. ErrorRecord(NoContainer) \in Records /\ ErrorRecord(NoContainer).authorized
        /\ ErrorRecord(NoContainer).error /\ ErrorRecord(NoContainer).target = NoContainer
    BY RecordsType
  <1>5. attempt[a] \in AttemptStates
    BY BoundType
  <1> QED
    BY <1>1, <1>2, <1>3, <1>4, <1>5, BuildEndsMoves

\* stop, remove and logs end with a record of the container they were bound to.
LEMMA ContainerEndsMoves ==
    ASSUME IInv, NEW a \in Attempts, ContainerDone(a) \/ ContainerFails(a)
    PROVE  Moves(a)
  <1> DEFINE st == attempt[a]
  <1>1. PICK result \in {"done", "failed"}, lg \in {"completed", "failed"},
             r \in Records :
           /\ result = "done" <=> lg = "completed"
           /\ r.authorized /\ r.target = st.bound /\ (~r.error => result = "done")
           /\ EndsRecorded(a, st, result, r)
           /\ IF st.kind \in Destructions THEN FinishLog(a, lg) ELSE UNCHANGED log
    <2>1. CASE ContainerDone(a)
      <3>1. /\ EndsRecorded(a, st, "done", DoneRecord(st.bound))
            /\ IF st.kind \in Destructions THEN FinishLog(a, "completed") ELSE UNCHANGED log
        BY <2>1 DEF ContainerDone
      <3> QED BY <3>1, BoundType, RecordsType
    <2>2. CASE ContainerFails(a)
      <3>1. /\ EndsRecorded(a, st, "failed", ErrorRecord(st.bound))
            /\ IF st.kind \in Destructions THEN FinishLog(a, "failed") ELSE UNCHANGED log
        BY <2>2 DEF ContainerFails
      <3> QED BY <3>1, BoundType, RecordsType
    <2> QED BY <2>1, <2>2
  <1>2. /\ st.pc = "cli" /\ st.kind \in OnContainer
        /\ UNCHANGED <<slots, selected, writable, audited>>
    BY DEF ContainerDone, ContainerFails
  <1>3. /\ st \in AttemptStates /\ st.acted /\ Cleared(st) /\ trail[a] = <<>>
        /\ log[a] = (IF st.kind \in Logged THEN "running" ELSE "none")
        /\ ~Builder(st)
    BY <1>2, CliState, KindsAre DEF Builder
  <1>4. LogAlone(a) /\ log'[a] = IF st.kind \in Logged THEN lg ELSE "none"
    <2>1. CASE st.kind \in Destructions
      BY <1>1, <2>1, FinishLogEffect, KindsAre DEF IInv, LogStates
    <2>2. CASE st.kind \notin Destructions
      <3>1. st.kind \notin Logged
        BY <1>2, <2>2, KindsAre DEF OnContainer
      <3> QED BY <1>1, <1>3, <2>2, <3>1, LogUnchanged DEF IInv
    <2> QED BY <2>1, <2>2
  <1>5. RecordFits(st, result, r) /\ LogFits(st, Outcome(a, result), log'[a])
    BY <1>1, <1>3, <1>4, ActedFits DEF LogFits, Outcome
  <1>6. Steps(a) /\ attempt'[a].pc = "ended"
    BY <1>1, <1>3, <1>4, <1>5, EndsSteps DEF IInv, Results, Recorded
  <1> QED
    BY <1>2, <1>3, <1>6, EndsQuietly

-----------------------------------------------------------------------------
(* The invariant.                                                          *)

LEMMA InitIInv == Init => IInv
  <1> SUFFICES ASSUME Init PROVE IInv
    OBVIOUS
  <1> USE DEF Init
  <1>1. \A a \in Attempts :
           /\ attempt[a] \in AttemptStates
           /\ attempt[a].pc = "idle" /\ ~attempt[a].acted
    <2> SUFFICES ASSUME NEW a \in Attempts
                 PROVE  attempt[a] \in AttemptStates /\ attempt[a].pc = "idle" /\ ~attempt[a].acted
      OBVIOUS
    <2>1. PICK s \in Services, w \in Workspaces :
             attempt[a] = [pc |-> "idle", kind |-> "none", svc |-> s, ws |-> w,
                           bound |-> NoContainer, mapped |-> FALSE, confirmed |-> FALSE,
                           acted |-> FALSE, result |-> "none"]
      OBVIOUS
    <2> QED BY <2>1 DEF AttemptStates, Results
  <1>2. attempt \in [Attempts -> AttemptStates]
    BY <1>1
  <1>3. NothingSelected \in Selected
    BY DEF NothingSelected, Selected
  <1>4. TypeOK
    BY <1>2, <1>3 DEF TypeOK, LogStates
  <1>5. AttemptInv
    BY <1>1 DEF AttemptInv, LocalInv, Cleared
  <1>6. SlotInv
    BY <1>1 DEF SlotInv, FreeSlot, HeldSlot, Building
  <1> QED
    BY <1>4, <1>5, <1>6 DEF IInv

LEMMA SlotWritten ==
    ASSUME TypeOK, NEW s0 \in Services, NEW w0 \in Workspaces, NEW v \in Builds \cup {"free"},
           slots' = [slots EXCEPT ![s0][w0] = v]
    PROVE  /\ slots' \in [Services -> [Workspaces -> Builds \cup {"free"}]]
           /\ slots'[s0][w0] = v
           /\ \A s \in Services, w \in Workspaces :
                 s # s0 \/ w # w0 => slots'[s][w] = slots[s][w]
  BY DEF TypeOK

\* A move changes the building of no attempt but its own.
LEMMA MovesBuilding ==
    ASSUME NEW a \in Attempts, Steps(a), NEW s, NEW w
    PROVE  /\ \A b \in Attempts \ {a} : Building(b, s, w)' <=> Building(b, s, w)
           /\ Building(a, s, w) <=> Builder(attempt[a]) /\ attempt[a].svc = s /\ attempt[a].ws = w
           /\ Building(a, s, w)' <=> Builder(attempt'[a]) /\ attempt[a].svc = s /\ attempt[a].ws = w
  BY DEF Steps, Alone, Building, Builder

LEMMA MovesSlots ==
    ASSUME IInv, NEW a \in Attempts, Moves(a)
    PROVE  SlotInv' /\ slots' \in [Services -> [Workspaces -> Builds \cup {"free"}]]
  <1>1. attempt[a] \in AttemptStates /\ Steps(a) /\ TypeOK
    BY BoundType DEF Moves, IInv
  <1>a. PICK s0 \in Services, w0 \in Workspaces : s0 = attempt[a].svc /\ w0 = attempt[a].ws
    BY <1>1 DEF AttemptStates
  <1>2. \A s \in Services, w \in Workspaces : FreeSlot(s, w) /\ HeldSlot(s, w)
    BY DEF IInv, SlotInv
  <1>4. \A b \in Attempts \ {a} : attempt'[b] = attempt[b]
    BY <1>1 DEF Steps, Alone
  <1>5. CASE Quiet(a)
    <2>1. slots' = slots
      BY <1>5 DEF Quiet
    <2>2. \A s, w : \A b \in Attempts : Building(b, s, w)' <=> Building(b, s, w)
      BY <1>1, <1>5, MovesBuilding DEF Quiet
    <2>3. \A s, w : ~Building(a, s, w)
      BY <1>1, <1>5, MovesBuilding DEF Quiet
    <2>4. ASSUME NEW s \in Services, NEW w \in Workspaces
          PROVE  FreeSlot(s, w)' /\ HeldSlot(s, w)'
      <3>1. FreeSlot(s, w) /\ HeldSlot(s, w)
        BY <1>2
      <3> QED BY <1>4, <2>1, <2>2, <2>3, <3>1 DEF FreeSlot, HeldSlot
    <2> QED BY <1>1, <2>1, <2>4 DEF TypeOK, SlotInv
  \* Writing the slot of a's workspace leaves every other slot as it was.
  <1>6. ASSUME NEW v \in Builds \cup {"free"}, slots' = [slots EXCEPT ![s0][w0] = v],
               FreeSlot(s0, w0)' /\ HeldSlot(s0, w0)'
        PROVE  SlotInv' /\ slots' \in [Services -> [Workspaces -> Builds \cup {"free"}]]
    <2>1. /\ slots' \in [Services -> [Workspaces -> Builds \cup {"free"}]]
          /\ \A s \in Services, w \in Workspaces :
                s # s0 \/ w # w0 => slots'[s][w] = slots[s][w]
      BY <1>1, <1>6, SlotWritten
    <2>2. ASSUME NEW s \in Services, NEW w \in Workspaces, s # s0 \/ w # w0
          PROVE  FreeSlot(s, w)' /\ HeldSlot(s, w)'
      <3>1. ~Building(a, s, w) /\ ~Building(a, s, w)'
        BY <1>1, <1>a, <2>2, MovesBuilding
      <3>2. \A b \in Attempts : Building(b, s, w)' <=> Building(b, s, w)
        BY <1>1, <3>1, MovesBuilding
      <3>3. FreeSlot(s, w) /\ HeldSlot(s, w) /\ slots'[s][w] = slots[s][w]
        BY <1>2, <2>1, <2>2
      <3> QED BY <1>4, <3>1, <3>2, <3>3 DEF FreeSlot, HeldSlot
    <2>3. \A s \in Services, w \in Workspaces : FreeSlot(s, w)' /\ HeldSlot(s, w)'
      BY <1>6, <2>2
    <2> QED BY <2>1, <2>3 DEF SlotInv
  <1>7. CASE Takes(a)
    <2>1. /\ Builder(attempt'[a]) /\ attempt'[a].kind \in Builds
          /\ slots[s0][w0] = "free"
          /\ slots' = [slots EXCEPT ![s0][w0] = attempt'[a].kind]
      BY <1>1, <1>a, <1>7 DEF Takes, Steps, Builder
    <2>2. slots'[s0][w0] = attempt'[a].kind
      BY <1>1, <2>1, SlotWritten
    <2>3. attempt'[a].kind # "free"
      BY <2>1 DEF Builds
    <2>4. Building(a, s0, w0)' /\ \A b \in Attempts : Building(b, s0, w0)' => b = a
      <3>1. \A b \in Attempts : ~Building(b, s0, w0)
        BY <1>2, <2>1 DEF FreeSlot
      <3> QED BY <1>1, <1>a, <2>1, <3>1, MovesBuilding
    <2>5. FreeSlot(s0, w0)' /\ HeldSlot(s0, w0)'
      BY <2>2, <2>3, <2>4 DEF FreeSlot, HeldSlot
    <2> QED BY <1>6, <2>1, <2>5
  <1>8. CASE GivesBack(a)
    <2>1. Builder(attempt[a]) /\ ~Builder(attempt'[a]) /\ Release(a)
      BY <1>8 DEF GivesBack
    <2>2. Building(a, s0, w0)
      BY <1>1, <1>a, <2>1, MovesBuilding
    <2>3. /\ slots[s0][w0] = attempt[a].kind
          /\ \A b \in Attempts : Building(b, s0, w0) => b = a
      BY <1>2, <2>2 DEF FreeSlot, HeldSlot
    <2>4. slots' = [slots EXCEPT ![s0][w0] = "free"]
      BY <1>a, <2>1, <2>3 DEF Release
    <2>5. slots'[s0][w0] = "free"
      BY <1>1, <2>4, SlotWritten
    <2>6. \A b \in Attempts : ~Building(b, s0, w0)'
      BY <1>1, <2>1, <2>3, MovesBuilding
    <2>7. FreeSlot(s0, w0)' /\ HeldSlot(s0, w0)'
      BY <2>5, <2>6 DEF FreeSlot, HeldSlot
    <2> QED BY <1>6, <2>4, <2>7
  <1> QED
    BY <1>5, <1>7, <1>8 DEF Moves

LEMMA MovesKeeps ==
    ASSUME IInv, NEW a \in Attempts, Moves(a)
    PROVE  IInv'
  <1>1. SlotInv' /\ slots' \in [Services -> [Workspaces -> Builds \cup {"free"}]]
    BY MovesSlots
  <1>2. TypeOK'
    BY <1>1 DEF Moves, Steps, Alone, LogAlone, IInv, TypeOK
  <1>3. ASSUME NEW b \in Attempts
        PROVE  LocalInv(attempt[b], trail[b], log[b], Audited(b))'
    <2>1. Steps(a) /\ audited' = audited
      BY DEF Moves
    <2>2. Audited(b)' = Audited(b)
      BY <2>1 DEF Steps, Alone, Audited
    <2>3. CASE b = a
      BY <2>1, <2>2, <2>3 DEF Steps, LocalInv
    <2>4. CASE b # a
      <3>1. attempt'[b] = attempt[b] /\ trail'[b] = trail[b] /\ log'[b] = log[b]
        BY <2>1, <2>4 DEF Steps, Alone, LogAlone
      <3>2. LocalInv(attempt[b], trail[b], log[b], Audited(b))
        BY DEF IInv, AttemptInv
      <3> QED BY <2>2, <3>1, <3>2 DEF LocalInv
    <2> QED BY <2>3, <2>4
  <1> QED
    BY <1>1, <1>2, <1>3 DEF IInv, AttemptInv

\* Every step of an attempt is a move.
LEMMA AttemptStep ==
    ASSUME IInv, NEW a \in Attempts, Call(a) \/ Progress(a)
    PROVE  Moves(a)
  <1>1. CASE Call(a)
    <2>1. CASE RebuildUnconfirmed(a)
      BY <2>1, RebuildUnconfirmedMoves
    <2>2. ASSUME NEW kind \in Kinds,
                 \/ Denied(a, kind) \/ ExecStarts(a, kind) \/ ExecAutoSelects(a, kind)
                 \/ BuildBusy(a, kind) \/ BuildDenied(a, kind) \/ BuildStarts(a, kind)
                 \/ ContainerRefused(a, kind) \/ DestructionUnconfirmed(a, kind)
                 \/ ContainerStarts(a, kind)
          PROVE  Moves(a)
      BY <2>2, DeniedMoves, ExecStartsMoves, BuildBusyMoves, BuildDeniedMoves,
         BuildStartsMoves, ContainerRefusedMoves, DestructionUnconfirmedMoves,
         ContainerStartsMoves
    <2> QED BY <1>1, <2>1, <2>2 DEF Call
  <1>2. CASE Progress(a)
    BY <1>2, ExecSelectedMoves, MappingMoves, ExecFailsMoves, ExecDoneMoves,
       ExecPresentedMoves, BuildDoneMoves, BuildFailsMoves, ContainerEndsMoves DEF Progress
  <1> QED
    BY <1>1, <1>2

LEMMA EnvironmentStep ==
    ASSUME IInv, TrailFlips \/ (\E s \in Services : SelectionMoves(s)) \/ UNCHANGED vars
    PROVE  IInv'
  <1>1. UNCHANGED <<attempt, slots, log, trail, audited>>
    BY DEF TrailFlips, SelectionMoves, vars
  <1>2. selected' \in [Services -> Selected] /\ writable' \in BOOLEAN
    <2>1. CASE TrailFlips \/ UNCHANGED vars
      BY <2>1 DEF TrailFlips, vars, IInv, TypeOK
    <2>2. ASSUME NEW s \in Services, SelectionMoves(s)
          PROVE  selected' \in [Services -> Selected] /\ writable' \in BOOLEAN
      BY <2>2 DEF SelectionMoves, IInv, TypeOK
    <2> QED BY <2>1, <2>2
  <1>3. TypeOK'
    BY <1>1, <1>2 DEF IInv, TypeOK
  <1>4. AttemptInv'
    BY <1>1 DEF IInv, AttemptInv, LocalInv, Audited
  <1>5. SlotInv'
    BY <1>1 DEF IInv, SlotInv, FreeSlot, HeldSlot, Building
  <1> QED
    BY <1>3, <1>4, <1>5 DEF IInv

LEMMA NextStep == IInv /\ [Next]_vars => IInv'
  <1> SUFFICES ASSUME IInv, [Next]_vars PROVE IInv'
    OBVIOUS
  <1>1. ASSUME NEW a \in Attempts, Call(a) \/ Progress(a)
        PROVE  IInv'
    BY <1>1, AttemptStep, MovesKeeps
  <1>2. CASE TrailFlips \/ (\E s \in Services : SelectionMoves(s)) \/ UNCHANGED vars
    BY <1>2, EnvironmentStep
  <1> QED
    BY <1>1, <1>2 DEF Next

LEMMA Invariance == Spec => []IInv
  BY InitIInv, NextStep, PTL DEF Spec

-----------------------------------------------------------------------------
(* Theorems.                                                               *)

\* Type correctness of the service's state, for any number of calls, sessions,
\* workspaces and containers.
THEOREM TypeCorrect == Spec => []TypeOK
  <1>1. IInv => TypeOK
    BY DEF IInv
  <1> QED
    BY <1>1, Invariance, PTL

\* lifecycleInFlight names exactly the build in flight of each workspace: it is
\* neither leaked nor taken from another operation on any path.
THEOREM SlotsAreExact == Spec => []SlotHeldByItsBuild
  <1>1. IInv => SlotHeldByItsBuild
    BY DEF IInv, SlotInv, FreeSlot, HeldSlot, SlotHeldByItsBuild
  <1> QED
    BY <1>1, Invariance, PTL

\* The audit trail never records a denial of what ran, a success of what did not,
\* a container other than the one bound, or an attempt twice.
THEOREM TrailIsTruthful == Spec => []TrailTruthful
  <1>1. IInv => TrailTruthful
    <2> SUFFICES ASSUME IInv, NEW a \in Attempts
                 PROVE  /\ Len(trail[a]) <= 1
                        /\ trail[a] # <<>> =>
                             /\ Ended(a)
                             /\ RecordFits(attempt[a], attempt[a].result, trail[a][1])
      BY DEF TrailTruthful, RecordFits
    <2>1. LocalInv(attempt[a], trail[a], log[a], Audited(a))
      BY DEF IInv, AttemptInv
    <2>2. Len(<<>>) = 0
      OBVIOUS
    <2>3. CASE trail[a] = <<>>
      BY <2>2, <2>3
    <2>4. CASE trail[a] # <<>>
      <3>1. Len(trail[a]) = 1 /\ Ended(a) /\ RecordFits(attempt[a], attempt[a].result, trail[a][1])
        BY <2>1, <2>4 DEF LocalInv, Ended
      <3> QED BY <3>1
    <2> QED BY <2>3, <2>4
  <1> QED
    BY <1>1, Invariance, PTL

\* An attempt that has ended is in the trail exactly if its session's audit is
\* enabled and it neither found the slot full nor threw.
THEOREM AnswersAreRecorded == Spec => []AnsweredIsRecorded
  <1>1. IInv => AnsweredIsRecorded
    BY DEF IInv, AttemptInv, LocalInv, AnsweredIsRecorded, Ended
  <1> QED
    BY <1>1, Invariance, PTL

\* No stop, remove or rebuild starts its subprocess without a confirmation of
\* exactly that.
THEOREM RemovalsAreConfirmed == Spec => []RemovalsConfirmed
  <1>1. IInv => RemovalsConfirmed
    BY DEF IInv, AttemptInv, LocalInv, Cleared, RemovalsConfirmed
  <1> QED
    BY <1>1, Invariance, PTL

\* A transcript is left open only by an unconfirmed rebuild that could not be
\* recorded, and is completed exactly by what succeeded or could not be recorded.
THEOREM TranscriptsAreFinished == Spec => []TranscriptsFinished
  <1>1. IInv => TranscriptsFinished
    BY DEF IInv, AttemptInv, LocalInv, LogFits, Logged, TranscriptsFinished, Ended
  <1> QED
    BY <1>1, Invariance, PTL

=============================================================================
