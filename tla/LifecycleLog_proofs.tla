------------------------- MODULE LifecycleLog_proofs -------------------------
(***************************************************************************)
(* For any number of overlapping operations, any capture limit and any     *)
(* amount of output: a transcript keeps exactly what fits, and a failure   *)
(* reported is one that happened.                                          *)
(***************************************************************************)
EXTENDS LifecycleLog, FiniteSetTheorems, TLAPS

\* The accounts of one transcript.
Accounted(st) ==
    st.log = "file" /\ ~st.broken =>
        /\ st.kept = Least(st.produced, MaxBytes)
        /\ st.capped <=> st.produced > MaxBytes

\* An operation that has not started has no transcript, one that has started but
\* not finished has no outcome.
Progressed(st) ==
    /\ st.pc = "idle" <=> st.log = "none"
    /\ st.pc = "idle" => st.produced = 0 /\ st.kept = 0 /\ ~st.capped /\ ~st.broken
    /\ st.pc \in {"idle", "running"} <=> st.outcome = "none"

RunInv == \A r \in Runs : Accounted(run[r]) /\ Progressed(run[r])

Truthful(f) ==
    f \in FailureReports =>
        /\ run[f.run].outcome = f.state
        /\ f.path <=> run[f.run].log = "file"

ReportInv ==
    /\ Truthful(failure)
    /\ Truthful(held)
    /\ \A i \in DOMAIN told : Truthful(told[i])

\* A run with a transcript has one report in all: pending, taken or told.
Once(r) ==
    /\ failure.run = r => held.run # r
    /\ \A i \in DOMAIN told :
          told[i].run = r => failure.run # r /\ held.run # r
    /\ \A i, j \in DOMAIN told : told[i].run = r /\ told[j].run = r => i = j

OnceInv == \A r \in Runs : run[r].log = "file" => Once(r)

IInv == TypeOK /\ RunInv /\ ReportInv /\ OnceInv

-----------------------------------------------------------------------------
(* One run's next state.                                                   *)

\* What a step may make of a run: a good state, and an outcome or a transcript
\* that is there stays.
Better(st, t) ==
    /\ t \in RunStates
    /\ Accounted(t)
    /\ Progressed(t)
    /\ st.outcome # "none" => t.outcome = st.outcome /\ t.log = st.log

LEMMA StartBetter ==
    ASSUME NEW st \in RunStates, st.pc = "idle", Progressed(st), NEW l \in {"file", "unavailable"}
    PROVE  Better(st, [st EXCEPT !.pc = "running", !.log = l])
  <1> DEFINE t == [st EXCEPT !.pc = "running", !.log = l]
  <1>1. /\ t \in RunStates /\ t.pc = "running" /\ t.log = l /\ t.produced = st.produced
        /\ t.kept = st.kept /\ t.capped = st.capped /\ t.broken = st.broken
        /\ t.outcome = st.outcome
    BY DEF RunStates
  <1> HIDE DEF t
  <1>2. st.outcome = "none" /\ st.produced = 0 /\ st.kept = 0 /\ ~st.capped
    BY DEF Progressed
  <1>3. Progressed(t)
    BY <1>1, <1>2 DEF Progressed
  <1>4. Accounted(t)
    BY <1>1, <1>2, LogAssumption DEF Accounted, Least
  <1> QED
    BY <1>1, <1>2, <1>3, <1>4 DEF Better, t

LEMMA KeptBound ==
    ASSUME NEW st \in RunStates, NEW n \in Nat
    PROVE  Kept(st, n) \in Nat /\ st.kept + Kept(st, n) \in 0..MaxBytes
  <1>1. st.kept \in 0..MaxBytes
    BY DEF RunStates
  <1> QED
    BY <1>1, LogAssumption DEF Kept, Least

\* A chunk is kept as far as it fits, and is a cut if it does not.
LEMMA CaptureBetter ==
    ASSUME NEW st \in RunStates, st.pc = "running", st.log = "file",
           Accounted(st), Progressed(st), NEW n \in 1..(MaxProduced - st.produced),
           NEW t \in {Captures(st, n), [Captures(st, n) EXCEPT !.broken = TRUE],
                      [st EXCEPT !.produced = @ + n, !.broken = TRUE]}
    PROVE  Better(st, t)
  <1> DEFINE k == Kept(st, n)
  <1>1. /\ st.produced \in 0..MaxProduced /\ st.kept \in 0..MaxBytes
        /\ st.outcome = "none" /\ st.capped \in BOOLEAN /\ st.broken \in BOOLEAN
    BY DEF RunStates, Progressed
  <1>2. n \in Nat /\ n > 0 /\ st.produced + n \in 0..MaxProduced
    BY <1>1, LogAssumption
  <1>3. k \in Nat /\ st.kept + k \in 0..MaxBytes
    BY <1>2, KeptBound
  <1>4. /\ t \in RunStates /\ t.pc = "running" /\ t.log = "file" /\ t.outcome = "none"
        /\ \/ t.broken
           \/ /\ t.broken = st.broken
              /\ t.produced = st.produced + n
              /\ t.kept = st.kept + k
              /\ t.capped = (st.capped \/ (~st.broken /\ k < n))
    <2> HIDE DEF k
    <2>2. ASSUME NEW u \in RunStates
          PROVE  LET v == [u EXCEPT !.broken = TRUE]
                 IN  /\ v \in RunStates /\ v.broken /\ v.pc = u.pc /\ v.log = u.log
                     /\ v.outcome = u.outcome
      BY DEF RunStates
    <2>3. Captures(st, n) = [st EXCEPT !.produced = st.produced + n, !.kept = st.kept + k,
                                       !.capped = (st.capped \/ (~st.broken /\ k < n))]
      BY DEF Captures, k
    <2>4. LET u == Captures(st, n)
          IN  /\ u \in RunStates /\ u.pc = st.pc /\ u.log = st.log /\ u.outcome = st.outcome
              /\ u.broken = st.broken /\ u.produced = st.produced + n
              /\ u.kept = st.kept + k
              /\ u.capped = (st.capped \/ (~st.broken /\ k < n))
      <3> DEFINE u == Captures(st, n)
                 p == st.produced + n
                 q == st.kept + k
      <3>2. PICK c \in BOOLEAN : c = (st.capped \/ (~st.broken /\ k < n))
        OBVIOUS
      <3>1. p \in 0..MaxProduced /\ q \in 0..MaxBytes
        BY <1>2, <1>3
      <3> DEFINE e == [st EXCEPT !.produced = p, !.kept = q, !.capped = c]
      <3>3. u = e
        BY <2>3, <3>2, Zenon
      <3> HIDE DEF p, q
      <3>5. /\ e \in RunStates /\ e.pc = st.pc /\ e.log = st.log /\ e.outcome = st.outcome
            /\ e.broken = st.broken /\ e.produced = p /\ e.kept = q /\ e.capped = c
        BY <3>1, <3>2 DEF RunStates
      <3> HIDE DEF u, e
      <3>4. /\ u \in RunStates /\ u.pc = st.pc /\ u.log = st.log /\ u.outcome = st.outcome
            /\ u.broken = st.broken /\ u.produced = p /\ u.kept = q /\ u.capped = c
        BY <3>3, <3>5
      <3> QED BY <3>2, <3>4 DEF u, p, q
    <2>5. LET u == [st EXCEPT !.produced = st.produced + n, !.broken = TRUE]
          IN  /\ u \in RunStates /\ u.broken /\ u.pc = st.pc /\ u.log = st.log
              /\ u.outcome = st.outcome
      BY <1>2 DEF RunStates
    <2>6. CASE t = Captures(st, n)
      BY <1>1, <2>4, <2>6
    <2>7. CASE t = [Captures(st, n) EXCEPT !.broken = TRUE]
      BY <1>1, <2>2, <2>4, <2>7
    <2>8. CASE t = [st EXCEPT !.produced = @ + n, !.broken = TRUE]
      BY <1>1, <2>5, <2>8
    <2> QED BY <2>6, <2>7, <2>8
  <1>5. Progressed(t)
    BY <1>4 DEF Progressed
  <1>6. Accounted(t)
    <2>1. CASE t.broken
      BY <2>1 DEF Accounted
    <2>2. CASE ~t.broken
      <3>1. /\ ~st.broken /\ t.produced = st.produced + n /\ t.kept = st.kept + k
            /\ t.capped = (st.capped \/ k < n)
        BY <1>4, <2>2
      <3>2. /\ st.kept = Least(st.produced, MaxBytes)
            /\ st.capped <=> st.produced > MaxBytes
        BY <3>1 DEF Accounted
      <3>3. CASE st.capped
        <4>1. k = 0 /\ st.produced > MaxBytes
          BY <3>2, <3>3 DEF Kept
        <4>2. t.kept = Least(t.produced, MaxBytes) /\ t.produced > MaxBytes
          BY <1>1, <1>2, <3>1, <3>2, <4>1, LogAssumption DEF Least
        <4> QED BY <3>1, <3>3, <4>2 DEF Accounted
      <3>4. CASE ~st.capped
        <4>1. ~(st.produced > MaxBytes)
          BY <3>2, <3>4
        <4>2. k = Least(n, MaxBytes - st.kept)
          BY <3>1, <3>4 DEF Kept
        <4>3. t.kept = Least(t.produced, MaxBytes) /\ (k < n <=> t.produced > MaxBytes)
          BY <1>1, <1>2, <3>1, <3>2, <4>1, <4>2, LogAssumption DEF Least
        <4> QED BY <3>1, <3>4, <4>3 DEF Accounted
      <3> QED BY <3>3, <3>4
    <2> QED BY <2>1, <2>2
  <1> QED
    BY <1>1, <1>4, <1>5, <1>6 DEF Better

\* A run that is finished has the outcome reported, and keeps its accounts.
LEMMA FinishBetter ==
    ASSUME NEW st \in RunStates, st.pc \in {"running", "reported"}, Accounted(st), Progressed(st),
           NEW pc \in {"reported", "ended"}, NEW state \in Outcomes,
           st.pc = "running" \/ state = st.outcome,
           NEW t \in RunStates, t.pc = pc, t.outcome = state, t.log = st.log,
           t.produced = st.produced, t.kept = st.kept, t.capped = st.capped,
           st.broken => t.broken
    PROVE  Better(st, t)
  <1>1. Accounted(t)
    BY DEF Accounted
  <1>2. state # "none"
    BY DEF Outcomes, Failures
  <1>3. Progressed(t)
    BY <1>2 DEF Progressed
  <1>4. st.outcome # "none" => state = st.outcome
    BY DEF Progressed
  <1> QED
    BY <1>1, <1>3, <1>4 DEF Better

LEMMA FinishedAlready ==
    ASSUME NEW st \in RunStates, st.pc \in {"running", "reported"}, Accounted(st), Progressed(st),
           NEW pc \in {"reported", "ended"}, st.outcome # "none"
    PROVE  Better(st, [st EXCEPT !.pc = pc])
  <1> DEFINE t == [st EXCEPT !.pc = pc]
  <1>1. /\ t \in RunStates /\ t.pc = pc /\ t.outcome = st.outcome /\ t.log = st.log
        /\ t.produced = st.produced /\ t.kept = st.kept /\ t.capped = st.capped
        /\ t.broken = st.broken
    BY DEF RunStates
  <1> HIDE DEF t
  <1> QED
    BY <1>1 DEF Better, Accounted, Progressed, t

-----------------------------------------------------------------------------
(* A step of one operation, and what it does to the reports.               *)

\* The failure pending afterwards is the one before or r's own.
Reported(r) ==
    \/ failure' = failure
    \/ failure' = [run |-> r, state |-> run'[r].outcome, path |-> run'[r].log = "file"]
       /\ run'[r].outcome \in Failures

RunMoves(r) ==
    /\ Better(run[r], run'[r])
    /\ run' = [run EXCEPT ![r] = run'[r]]
    /\ latest' \in Metadata \cup {NoMetadata}
    /\ lastWarning' \in BOOLEAN
    /\ Reported(r)
    /\ UNCHANGED <<held, told, turns>>

LEMMA RunState ==
    ASSUME IInv, NEW r \in Runs
    PROVE  run[r] \in RunStates /\ Accounted(run[r]) /\ Progressed(run[r])
  BY DEF IInv, TypeOK, RunInv

LEMMA RunWritten ==
    ASSUME IInv, NEW r \in Runs, NEW t, run' = [run EXCEPT ![r] = t]
    PROVE  run'[r] = t /\ run' = [run EXCEPT ![r] = run'[r]]
  BY DEF IInv, TypeOK

LEMMA StartsMoves ==
    ASSUME IInv, NEW r \in Runs, StartsInFile(r) \/ StartsUnavailable(r)
    PROVE  RunMoves(r)
  <1>1. PICK l \in {"file", "unavailable"} :
           run' = [run EXCEPT ![r] = [run[r] EXCEPT !.pc = "running", !.log = l]]
    BY DEF StartsInFile, StartsUnavailable
  <1>2. /\ run[r].pc = "idle" /\ failure' = failure /\ UNCHANGED <<held, told, turns>>
        /\ lastWarning' \in BOOLEAN
    BY DEF StartsInFile, StartsUnavailable
  <1>3. latest' \in Metadata \cup {NoMetadata}
    <2>1. [run |-> r, outcome |-> "none", warning |-> FALSE] \in Metadata
      BY DEF Metadata
    <2> QED BY <2>1 DEF StartsInFile, StartsUnavailable, IInv, TypeOK
  <1>4. Better(run[r], [run[r] EXCEPT !.pc = "running", !.log = l])
    BY <1>2, RunState, StartBetter
  <1> QED
    BY <1>1, <1>2, <1>3, <1>4, RunWritten DEF RunMoves, Reported

LEMMA OutputMoves ==
    ASSUME IInv, NEW r \in Runs, Output(r)
    PROVE  RunMoves(r)
  <1>1. PICK n \in 1..(MaxProduced - run[r].produced) :
           \E t \in {Captures(run[r], n), [Captures(run[r], n) EXCEPT !.broken = TRUE],
                     [run[r] EXCEPT !.produced = @ + n, !.broken = TRUE]} :
              run' = [run EXCEPT ![r] = t]
    BY DEF Output
  <1>2. PICK t \in {Captures(run[r], n), [Captures(run[r], n) EXCEPT !.broken = TRUE],
                    [run[r] EXCEPT !.produced = @ + n, !.broken = TRUE]} :
           run' = [run EXCEPT ![r] = t]
    BY <1>1
  <1>3. /\ run[r].pc = "running" /\ run[r].log = "file"
        /\ UNCHANGED <<latest, lastWarning, failure, held, told, turns>>
    BY DEF Output
  <1>4. Better(run[r], t)
    <2>1. run[r] \in RunStates /\ Accounted(run[r]) /\ Progressed(run[r])
      BY RunState
    <2> QED BY <1>3, <2>1, CaptureBetter
  <1> QED
    BY <1>2, <1>3, <1>4, RunWritten DEF RunMoves, Reported, IInv, TypeOK

LEMMA FinishMoves ==
    ASSUME IInv, NEW r \in Runs, NEW state \in Outcomes, NEW pc \in {"reported", "ended"},
           run[r].pc \in {"running", "reported"},
           run[r].pc = "running" \/ state = run[r].outcome,
           Finish(r, state, pc), UNCHANGED <<lastWarning, held, told, turns>>
    PROVE  RunMoves(r)
  <1> DEFINE st == run[r]
  <1>1. st \in RunStates /\ Accounted(st) /\ Progressed(st)
    BY RunState
  <1>2. lastWarning' \in BOOLEAN /\ latest \in Metadata \cup {NoMetadata}
    BY DEF IInv, TypeOK
  <1>3. CASE st.log = "file" /\ st.outcome # "none"
    <2>1. run' = [run EXCEPT ![r].pc = pc] /\ UNCHANGED <<latest, failure>>
      BY <1>3 DEF Finish
    <2>2. run' = [run EXCEPT ![r] = [st EXCEPT !.pc = pc]]
      BY <2>1
    <2>3. Better(st, [st EXCEPT !.pc = pc])
      BY <1>1, <1>3, FinishedAlready
    <2> HIDE DEF st
    <2>4. run'[r] = [st EXCEPT !.pc = pc] /\ run' = [run EXCEPT ![r] = run'[r]]
      BY <2>2, RunWritten
    <2> QED BY <1>2, <2>1, <2>3, <2>4 DEF RunMoves, Reported, st
  <1>4. CASE ~(st.log = "file" /\ st.outcome # "none")
    <2>1. PICK fails \in BOOLEAN :
             /\ run' = [run EXCEPT ![r] =
                          [run[r] EXCEPT !.pc = pc, !.outcome = state, !.broken = @ \/ fails]]
             /\ latest' = IF run[r].log = "file"
                          THEN [run |-> r, outcome |-> state, warning |-> run[r].broken \/ fails]
                          ELSE latest
             /\ RecordFailure(r, state)
      BY <1>4, Zenon DEF Finish
    <2> DEFINE t == [run[r] EXCEPT !.pc = pc, !.outcome = state, !.broken = @ \/ fails]
    <2>2. /\ t \in RunStates /\ t.pc = pc /\ t.outcome = state /\ t.log = st.log
          /\ t.produced = st.produced /\ t.kept = st.kept /\ t.capped = st.capped
          /\ st.broken => t.broken
      BY <1>1 DEF RunStates, Outcomes, Failures
    <2>3. run' = [run EXCEPT ![r] = t]
      BY <2>1, Zenon
    <2> HIDE DEF t
    <2>6. Better(st, t)
      BY <1>1, <2>2, FinishBetter
    <2>4. run'[r] = t /\ run' = [run EXCEPT ![r] = run'[r]]
      BY <2>3, RunWritten
    <2>5. latest' \in Metadata \cup {NoMetadata}
      <3>1. [run |-> r, outcome |-> state, warning |-> run[r].broken \/ fails] \in Metadata
        BY DEF Metadata
      <3> QED BY <1>2, <2>1, <3>1
    <2>7. Reported(r)
      BY <2>1, <2>2, <2>4 DEF RecordFailure, Reported, Outcomes
    <2> QED BY <1>2, <2>4, <2>5, <2>6, <2>7 DEF RunMoves
  <1> QED
    BY <1>3, <1>4

LEMMA FinishesMove ==
    ASSUME IInv, NEW r \in Runs, FinishesOnce(r) \/ AdapterFinishes(r) \/ ServiceFinishes(r)
    PROVE  RunMoves(r)
  <1>1. CASE FinishesOnce(r) \/ AdapterFinishes(r)
    BY <1>1, FinishMoves DEF FinishesOnce, AdapterFinishes
  <1>2. CASE ServiceFinishes(r)
    <2>1. run[r].outcome \in Outcomes
      BY <1>2, RunState DEF ServiceFinishes, Progressed, RunStates
    <2> QED BY <1>2, <2>1, FinishMoves DEF ServiceFinishes
  <1> QED
    BY <1>1, <1>2

-----------------------------------------------------------------------------
(* The invariant.                                                          *)

LEMMA NoReport == NoFailure \notin FailureReports /\ NoFailure.run \notin Runs
  <1>1. DOMAIN NoFailure = {"run"}
    BY DEF NoFailure
  <1>2. \A f \in FailureReports : "state" \in DOMAIN f
    BY DEF FailureReports
  <1>3. NoFailure.run = "none"
    BY DEF NoFailure
  <1> QED
    BY <1>1, <1>2, <1>3, LogAssumption

LEMMA ReportType ==
    ASSUME NEW f \in FailureReports
    PROVE  f.run \in Runs /\ f.state \in Failures /\ f.state # "none"
  BY DEF FailureReports, Failures

LEMMA InitIInv == Init => IInv
  <1> SUFFICES ASSUME Init PROVE IInv
    OBVIOUS
  <1> USE DEF Init
  <1>1. \A r \in Runs : run[r] \in RunStates /\ Accounted(run[r]) /\ Progressed(run[r])
    BY LogAssumption DEF RunStates, Accounted, Progressed
  <1>2. TypeOK
    <2>1. run \in [Runs -> RunStates]
      BY <1>1
    <2>2. told \in Seq(FailureReports)
      OBVIOUS
    <2>3. turns \in 0..MaxTurns
      BY LogAssumption
    <2>4. lastWarning \in BOOLEAN /\ latest = NoMetadata /\ failure = NoFailure
          /\ held = NoFailure
      OBVIOUS
    <2> QED BY <2>1, <2>2, <2>3, <2>4 DEF TypeOK
  <1>3. ReportInv
    BY NoReport DEF ReportInv, Truthful
  <1>4. OnceInv
    BY NoReport DEF OnceInv, Once
  <1> QED
    BY <1>1, <1>2, <1>3, <1>4 DEF IInv, RunInv

\* A report is of a run that has finished, and stays true whatever that run does.
LEMMA ReportStands ==
    ASSUME IInv, NEW r \in Runs, RunMoves(r), NEW f, f \in FailureReports, Truthful(f)
    PROVE  /\ run'[f.run].outcome = f.state
           /\ f.path <=> run'[f.run].log = "file"
           /\ run[f.run].outcome # "none"
  <1>1. f.run \in Runs /\ f.state # "none"
    BY ReportType
  <1>2. run[f.run].outcome = f.state /\ (f.path <=> run[f.run].log = "file")
    BY DEF Truthful
  <1>3. CASE f.run = r
    BY <1>1, <1>2, <1>3 DEF RunMoves, Better
  <1>4. CASE f.run # r
    BY <1>1, <1>2, <1>4 DEF RunMoves, IInv, TypeOK
  <1> QED
    BY <1>3, <1>4

LEMMA NewReport ==
    ASSUME IInv, NEW r \in Runs, RunMoves(r), failure' # failure
    PROVE  /\ failure' \in FailureReports
           /\ failure'.run = r
           /\ run'[r].outcome = failure'.state
           /\ failure'.path <=> run'[r].log = "file"
  <1>1. failure' = [run |-> r, state |-> run'[r].outcome, path |-> run'[r].log = "file"]
        /\ run'[r].outcome \in Failures
    BY DEF RunMoves, Reported
  <1> QED
    BY <1>1 DEF FailureReports

\* The first and only time a run with a transcript reports, it had none yet.
LEMMA FirstReport ==
    ASSUME IInv, NEW r \in Runs, FinishesOnce(r) \/ AdapterFinishes(r) \/ ServiceFinishes(r)
                                 \/ StartsInFile(r) \/ StartsUnavailable(r) \/ Output(r),
           failure' # failure, run'[r].log = "file"
    PROVE  run[r].outcome = "none"
  <1>1. PICK pc \in {"reported", "ended"}, state \in Outcomes : Finish(r, state, pc)
    <2>1. FinishesOnce(r) \/ AdapterFinishes(r) \/ ServiceFinishes(r)
      BY DEF StartsInFile, StartsUnavailable, Output
    <2>2. CASE ServiceFinishes(r)
      <3>1. run[r].outcome \in Outcomes
        BY <2>2, RunState DEF ServiceFinishes, Progressed, RunStates
      <3> QED BY <2>2, <3>1 DEF ServiceFinishes
    <2>3. CASE FinishesOnce(r) \/ AdapterFinishes(r)
      BY <2>3 DEF FinishesOnce, AdapterFinishes
    <2> QED BY <2>1, <2>2, <2>3
  <1>2. run'[r].log = run[r].log
    <2>1. CASE run[r].log = "file" /\ run[r].outcome # "none"
      BY <1>1, <2>1 DEF Finish
    <2>2. CASE ~(run[r].log = "file" /\ run[r].outcome # "none")
      <3>1. PICK fails \in BOOLEAN :
               run' = [run EXCEPT ![r] =
                   [run[r] EXCEPT !.pc = pc, !.outcome = state, !.broken = @ \/ fails]]
        BY <1>1, <2>2 DEF Finish
      <3> DEFINE t == [run[r] EXCEPT !.pc = pc, !.outcome = state, !.broken = @ \/ fails]
      <3>2. t.log = run[r].log
        BY RunState DEF RunStates
      <3>3. run' = [run EXCEPT ![r] = t]
        BY <3>1
      <3> HIDE DEF t
      <3> QED BY <3>2, <3>3, RunWritten
    <2> QED BY <2>1, <2>2
  <1> QED
    BY <1>1, <1>2 DEF Finish

LEMMA RunStep ==
    ASSUME IInv, NEW r \in Runs,
           \/ StartsInFile(r) \/ StartsUnavailable(r) \/ Output(r)
           \/ FinishesOnce(r) \/ AdapterFinishes(r) \/ ServiceFinishes(r)
    PROVE  IInv'
  <1>1. RunMoves(r)
    BY StartsMoves, OutputMoves, FinishesMove
  <1>2. run' \in [Runs -> RunStates] /\ RunInv'
    BY <1>1 DEF RunMoves, Better, IInv, TypeOK, RunInv
  <1>3. failure' \in FailureReports \cup {NoFailure}
    BY <1>1, NewReport DEF IInv, TypeOK
  <1>4. TypeOK'
    BY <1>1, <1>2, <1>3 DEF RunMoves, IInv, TypeOK
  <1>5. ReportInv'
    <2>1. Truthful(failure)'
      BY <1>1, NewReport, ReportStands DEF Truthful, IInv, ReportInv
    <2>2. Truthful(held)'
      BY <1>1, ReportStands DEF Truthful, IInv, ReportInv, RunMoves
    <2>3. ASSUME NEW i \in DOMAIN told'
          PROVE  Truthful(told[i])'
      BY <1>1, <2>3, ReportStands DEF Truthful, IInv, ReportInv, RunMoves
    <2> QED BY <2>1, <2>2, <2>3 DEF ReportInv
  <1>6. ASSUME NEW q \in Runs, run'[q].log = "file"
        PROVE  Once(q)'
    <2>1. held' = held /\ told' = told
      BY <1>1 DEF RunMoves
    \* Nothing reports a run that has no outcome.
    <2>2. ASSUME run[q].outcome = "none"
          PROVE  held.run # q /\ \A i \in DOMAIN told : told[i].run # q
      <3>1. held.run # q
        BY <2>2, NoReport, ReportType DEF IInv, TypeOK, ReportInv, Truthful
      <3>2. ASSUME NEW i \in DOMAIN told
            PROVE  told[i].run # q
        <4>1. told[i] \in FailureReports
          BY DEF IInv, TypeOK
        <4>2. Truthful(told[i])
          BY DEF IInv, ReportInv
        <4> QED BY <2>2, <4>1, <4>2, ReportType DEF Truthful
      <3> QED BY <3>1, <3>2
    <2>3. CASE failure' # failure /\ q = r
      <3>1. held.run # q /\ \A i \in DOMAIN told : told[i].run # q
        BY <1>6, <2>2, <2>3, FirstReport
      <3> QED BY <2>1, <3>1 DEF Once
    <2>4. CASE ~(failure' # failure /\ q = r)
      <3>1. failure'.run = q => failure' = failure
        BY <1>1, <2>4, NewReport
      <3>2. CASE run[q].log = "file"
        <4>1. Once(q)
          BY <3>2 DEF IInv, OnceInv
        <4> QED BY <2>1, <3>1, <4>1 DEF Once
      <3>3. CASE run[q].log # "file"
        <4>1. run[q].outcome = "none"
          BY <1>1, <1>6, <3>3 DEF RunMoves, Better, IInv, TypeOK
        <4>2. failure.run # q
          BY <4>1, NoReport, ReportType DEF IInv, TypeOK, ReportInv, Truthful
        <4>3. held.run # q /\ \A i \in DOMAIN told : told[i].run # q
          BY <2>2, <4>1
        <4> QED BY <2>1, <3>1, <4>2, <4>3 DEF Once
      <3> QED BY <3>2, <3>3
    <2> QED BY <2>3, <2>4
  <1> QED
    BY <1>2, <1>4, <1>5, <1>6 DEF IInv, OnceInv

-----------------------------------------------------------------------------
(* A turn.                                                                 *)

\* What a turn does to the reports: the pending one is taken or told, the one
\* held is told or lost, and the turn before any of it held nothing.
Taking ==
    /\ held = NoFailure /\ failure' = NoFailure
    /\ \/ held' = NoFailure /\ Tell(failure)
       \/ held' = failure /\ told' = told

Releasing ==
    /\ failure' = failure /\ held' = NoFailure
    /\ told' = told \/ Tell(held)

LEMMA TellReports ==
    ASSUME IInv, NEW f, f \in FailureReports \cup {NoFailure}, Truthful(f), Tell(f)
    PROVE  /\ told' \in Seq(FailureReports)
           /\ \A i \in DOMAIN told' : Truthful(told'[i])
           /\ \A q \in Runs : f.run # q =>
                 /\ DOMAIN told \subseteq DOMAIN told'
                 /\ \A i \in DOMAIN told' : told'[i].run = q =>
                       i \in DOMAIN told /\ told'[i] = told[i]
           /\ \A q \in Runs : (f.run = q /\ \A i \in DOMAIN told : told[i].run # q) =>
                 \A i, j \in DOMAIN told' : told'[i].run = q /\ told'[j].run = q => i = j
  <1>1. told \in Seq(FailureReports) /\ \A i \in DOMAIN told : Truthful(told[i])
    BY DEF IInv, TypeOK, ReportInv
  <1>2. CASE f = NoFailure
    <2>1. told' = told
      BY <1>2 DEF Tell
    <2> QED BY <1>1, <1>2, <2>1, NoReport
  <1>3. CASE f # NoFailure
    <2>1. told' = Append(told, f) /\ f \in FailureReports
      BY <1>3 DEF Tell
    <2>2. /\ told' \in Seq(FailureReports)
          /\ DOMAIN told = 1..Len(told) /\ DOMAIN told' = 1..(Len(told) + 1) /\ Len(told) \in Nat
          /\ told'[Len(told) + 1] = f
          /\ \A i \in 1..Len(told) : told'[i] = told[i]
      BY <1>1, <2>1
    <2>3. \A i \in DOMAIN told' : i \in DOMAIN told \/ i = Len(told) + 1
      BY <2>2
    <2> QED BY <1>1, <2>2, <2>3
  <1> QED
    BY <1>2, <1>3

LEMMA TurnsReport ==
    ASSUME IInv, Taking \/ Releasing, UNCHANGED <<run, latest, lastWarning>>,
           turns' \in 0..MaxTurns
    PROVE  IInv'
  <1>1. /\ failure \in FailureReports \cup {NoFailure} /\ Truthful(failure)
        /\ held \in FailureReports \cup {NoFailure} /\ Truthful(held)
        /\ NoFailure \in FailureReports \cup {NoFailure} /\ Truthful(NoFailure)
    BY NoReport DEF IInv, TypeOK, ReportInv, Truthful
  <1>2. PICK f \in {failure, held, NoFailure} : Tell(f)
    <2>1. Tell(failure) \/ Tell(held) \/ told' = told
      BY DEF Taking, Releasing
    <2> QED BY <2>1 DEF Tell
  <1>3. f \in FailureReports \cup {NoFailure} /\ Truthful(f)
    BY <1>1, <1>2
  <1>4. TypeOK'
    <2>1. told' \in Seq(FailureReports)
      BY <1>2, <1>3, TellReports
    <2>2. failure' \in FailureReports \cup {NoFailure} /\ held' \in FailureReports \cup {NoFailure}
      BY <1>1 DEF Taking, Releasing
    <2> QED BY <2>1, <2>2 DEF IInv, TypeOK
  <1>5. ReportInv'
    <2>1. \A i \in DOMAIN told' : Truthful(told'[i])
      BY <1>2, <1>3, TellReports
    <2>2. Truthful(failure)' /\ Truthful(held)'
      BY <1>1 DEF Taking, Releasing, Truthful
    <2> QED BY <2>1, <2>2 DEF ReportInv, Truthful
  <1>6. ASSUME NEW q \in Runs, run[q].log = "file"
        PROVE  Once(q)'
    <2>1. Once(q) /\ NoFailure.run # q
      BY <1>6, NoReport DEF IInv, OnceInv
    <2>2. ASSUME NEW g, g \in {failure, held}, Tell(g)
          PROVE  /\ \A i, j \in DOMAIN told' : told'[i].run = q /\ told'[j].run = q => i = j
                 /\ g.run # q => \A i \in DOMAIN told' : told'[i].run = q =>
                                    i \in DOMAIN told /\ told'[i] = told[i]
      <3>1. g \in FailureReports \cup {NoFailure} /\ Truthful(g)
        BY <1>1, <2>2
      <3>2. CASE g.run = q
        <4>1. \A i \in DOMAIN told : told[i].run # q
          BY <2>1, <2>2, <3>2 DEF Once
        <4> QED BY <2>2, <3>1, <3>2, <4>1, TellReports
      <3>3. CASE g.run # q
        <4>1. \A i \in DOMAIN told' : told'[i].run = q => i \in DOMAIN told /\ told'[i] = told[i]
          BY <2>2, <3>1, <3>3, TellReports
        <4> QED BY <2>1, <3>3, <4>1 DEF Once
      <3> QED BY <3>2, <3>3
    <2>3. CASE told' = told
      BY <2>1, <2>3 DEF Taking, Releasing, Once
    <2>4. CASE Taking /\ held' = NoFailure /\ Tell(failure)
      BY <2>1, <2>2, <2>4 DEF Taking, Once
    <2>5. CASE Releasing /\ Tell(held)
      <3>1. \A i \in DOMAIN told' : told'[i].run = q => failure'.run # q
        BY <2>1, <2>2, <2>5 DEF Releasing, Once
      <3> QED BY <2>1, <2>2, <2>5, <3>1 DEF Releasing, Once
    <2> QED BY <2>3, <2>4, <2>5 DEF Taking, Releasing
  <1>7. RunInv'
    BY DEF IInv, RunInv
  <1> QED
    BY <1>4, <1>5, <1>6, <1>7 DEF IInv, OnceInv

LEMMA TurnSteps ==
    ASSUME IInv, TurnTells \/ TurnTakes \/ TurnRendered \/ TurnFails
    PROVE  IInv'
  <1>1. turns \in 0..MaxTurns
    BY DEF IInv, TypeOK
  <1>2. turns' \in 0..MaxTurns /\ UNCHANGED <<run, latest, lastWarning>>
    BY <1>1, LogAssumption DEF TurnTells, TurnTakes, TurnRendered, TurnFails
  <1>3. CASE TurnTells \/ TurnTakes
    <2>1. Taking
      BY <1>3 DEF TurnTells, TurnTakes, Taking
    <2> QED BY <1>2, <2>1, TurnsReport
  <1>4. CASE TurnRendered \/ TurnFails
    <2>1. Releasing
      BY <1>4 DEF TurnRendered, TurnFails, Releasing
    <2> QED BY <1>2, <2>1, TurnsReport
  <1> QED
    BY <1>3, <1>4

LEMMA NextIInv == IInv /\ [Next]_vars => IInv'
  <1> SUFFICES ASSUME IInv, [Next]_vars PROVE IInv'
    OBVIOUS
  <1>1. CASE Next
    BY <1>1, RunStep, TurnSteps DEF Next
  <1>2. CASE UNCHANGED vars
    BY <1>2 DEF vars, IInv, TypeOK, RunInv, ReportInv, OnceInv, Once, Truthful
  <1> QED
    BY <1>1, <1>2

LEMMA Invariance == Spec => []IInv
  BY InitIInv, NextIInv, PTL DEF Spec

-----------------------------------------------------------------------------
(* What follows.                                                           *)

\* The state stays in its type: in particular no transcript holds more than
\* MaxBytes (writeOutput).
THEOREM TypeCorrect == Spec => []TypeOK
  <1>1. IInv => TypeOK
    BY DEF IInv
  <1> QED BY <1>1, Invariance, PTL

\* A transcript keeps the first MaxBytes of the output and is marked as cut
\* exactly if it misses some (writeOutput, cap).
THEOREM TranscriptIsAccounted == Spec => []TranscriptAccounted
  <1>1. IInv => TranscriptAccounted
    BY DEF IInv, RunInv, Accounted, TranscriptAccounted
  <1> QED BY <1>1, Invariance, PTL

\* Every report pending, held or told is of a run that finished so, with a path
\* exactly if it has a transcript (recordFailure, takeFailure).
THEOREM ReportsAreTruthful == Spec => []ReportsTruthful
  <1>1. IInv => ReportsTruthful
    <2> SUFFICES ASSUME IInv, NEW f \in Reports
                 PROVE  /\ run[f.run].outcome = f.state
                        /\ f.path <=> run[f.run].log = "file"
      BY DEF ReportsTruthful
    <2>1. f \in FailureReports /\ Truthful(f)
      BY DEF IInv, TypeOK, ReportInv, Reports
    <2> QED BY <2>1 DEF Truthful
  <1> QED BY <1>1, Invariance, PTL

\* The failure of a run with a transcript is told to the agent at most once
\* (FileLifecycleLogRun.finish, takeFailure).
THEOREM ToldAtMostOnce == Spec => []ToldOnce
  <1>1. IInv => ToldOnce
    <2> SUFFICES ASSUME IInv, NEW r \in Runs, run[r].log = "file"
                 PROVE  Cardinality({i \in DOMAIN told : told[i].run = r})
                        + (IF failure.run = r THEN 1 ELSE 0)
                        + (IF held.run = r THEN 1 ELSE 0) <= 1
      BY DEF ToldOnce
    <2> DEFINE S == {i \in DOMAIN told : told[i].run = r}
               n == Cardinality(S)
    <2> SUFFICES n + (IF failure.run = r THEN 1 ELSE 0)
                   + (IF held.run = r THEN 1 ELSE 0) <= 1
      OBVIOUS
    <2>1. Once(r)
      BY DEF IInv, OnceInv
    <2>2. CASE S = {}
      <3>1. n = 0
        BY <2>2, FS_EmptySet
      <3>2. ~(failure.run = r /\ held.run = r)
        BY <2>1 DEF Once
      <3> HIDE DEF n
      <3> QED BY <3>1, <3>2
    <2>3. CASE S # {}
      <3>1. PICK i \in S : TRUE
        BY <2>3
      <3>2. S = {i} /\ failure.run # r /\ held.run # r
        BY <2>1, <3>1 DEF Once
      <3>3. n = 1
        BY <3>2, FS_Singleton
      <3> HIDE DEF n
      <3> QED BY <3>2, <3>3
    <2> QED BY <2>2, <2>3
  <1> QED BY <1>1, Invariance, PTL

\* A pending failure goes only to a turn or to a newer failure (recordFailure).
THEOREM FailureStands == Spec => FailureOutlivesSuccess
  <1>1. IInv /\ [Next]_vars =>
           [/\ failure # NoFailure
            /\ failure' # failure
            => turns' = turns + 1 \/ failure' # NoFailure]_vars
    <2> SUFFICES ASSUME IInv, Next, failure' # failure
                 PROVE  turns' = turns + 1 \/ failure' # NoFailure
      BY DEF vars
    <2>1. ASSUME NEW r \in Runs,
                 \/ StartsInFile(r) \/ StartsUnavailable(r) \/ Output(r)
                 \/ FinishesOnce(r) \/ AdapterFinishes(r) \/ ServiceFinishes(r)
          PROVE  failure' # NoFailure
      <3>1. RunMoves(r)
        BY <2>1, StartsMoves, OutputMoves, FinishesMove
      <3> QED BY <3>1, NewReport, NoReport
    <2>2. CASE TurnTells \/ TurnTakes \/ TurnRendered \/ TurnFails
      BY <2>2 DEF TurnTells, TurnTakes, TurnRendered, TurnFails
    <2> QED BY <2>1, <2>2 DEF Next
  <1> QED BY <1>1, Invariance, PTL DEF Spec, FailureOutlivesSuccess

=============================================================================
