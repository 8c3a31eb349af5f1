------------------------ MODULE ProcessRunner_proofs ------------------------
(***************************************************************************)
(* For every cap and every amount of output: the runner settles once and a *)
(* run that was cut short leaves no process, its caller is answered once,  *)
(* and what is captured is exactly what fits.                              *)
(***************************************************************************)
EXTENDS ProcessRunner, TLAPS

\* A process state only the spawn, the fork and the kill lead to: before the
\* child runs there is no helper, and a run refused or never spawned has none.
ProcInv ==
    /\ child \in {"none", "failed"} => helper = "none"
    /\ settled = "refused" => child = "none"
    /\ settled = "spawn-error" => child \in {"none", "failed"}

\* The timer runs only until the promise settles, and what settled by a kill
\* stays dead.
CutInv ==
    /\ timer => Pending
    /\ settled \in {"cancelled", "timeout"} => ~Alive

\* An abort reaches a spawned child at once; the deadline answers by aborting.
AbortInv ==
    /\ aborted /\ Pending => child = "none"
    /\ answer = "timeout" => aborted
    /\ deadline = "armed" => answer = "pending"

IInv == TypeOK /\ ProcInv /\ CutInv /\ AbortInv

LEMMA InitIInv == Init => IInv
<1> SUFFICES ASSUME Init PROVE IInv
  OBVIOUS
<1> USE DEF Init
<1>1. produced \in [Streams -> 0..MaxBytes] /\ captured \in [Streams -> 0..MaxOutput]
  BY RunnerAssumption
<1>2. TypeOK
  BY <1>1 DEF TypeOK, Settlements
<1>3. ProcInv /\ CutInv /\ AbortInv
  BY DEF ProcInv, CutInv, AbortInv, Pending, Alive
<1> QED
  BY <1>2, <1>3 DEF IInv

LEMMA TypeStep == TypeOK /\ [Next]_vars => TypeOK'
<1> SUFFICES ASSUME TypeOK, [Next]_vars PROVE TypeOK'
  OBVIOUS
<1> USE RunnerAssumption DEF TypeOK, Settlements, callerVars, procVars, outputVars
<1>1. CASE CallerAborts
  BY <1>1 DEF CallerAborts, OnAbort, KillProcessTree, Settle
<1>2. CASE DeadlinePasses
  BY <1>2 DEF DeadlinePasses, OnAbort, KillProcessTree, Settle
<1>3. CASE Answers
  BY <1>3 DEF Answers
<1>4. CASE DiscoveryFails \/ SpawnThrows \/ Spawn \/ ErrorEvent
  BY <1>4 DEF DiscoveryFails, SpawnThrows, Spawn, ErrorEvent, Settle
<1>5. CASE TimesOut \/ Closes
  BY <1>5 DEF TimesOut, Closes, KillProcessTree, Settle
<1>6. CASE Forks \/ ChildExits \/ HelperExits
  BY <1>6 DEF Forks, ChildExits, HelperExits
<1>7. ASSUME NEW s \in Streams, NEW n \in 1..MaxBytes, Data(s, n) PROVE TypeOK'
  BY <1>7 DEF Data, Capture, Streams
<1>8. CASE UNCHANGED vars
  BY <1>8 DEF vars
<1> QED
  BY <1>1, <1>2, <1>3, <1>4, <1>5, <1>6, <1>7, <1>8 DEF Next

LEMMA ProcStep == IInv /\ [Next]_vars => ProcInv'
<1> SUFFICES ASSUME IInv, [Next]_vars PROVE ProcInv'
  OBVIOUS
<1> USE DEF IInv, ProcInv, TypeOK, Settlements, Pending, callerVars, procVars, outputVars
<1>1. CASE CallerAborts
  BY <1>1 DEF CallerAborts, OnAbort, KillProcessTree, Settle
<1>2. CASE DeadlinePasses
  BY <1>2 DEF DeadlinePasses, OnAbort, KillProcessTree, Settle
<1>3. CASE Answers
  BY <1>3 DEF Answers
<1>4. CASE DiscoveryFails \/ SpawnThrows \/ Spawn
  BY <1>4 DEF DiscoveryFails, SpawnThrows, Spawn, Unspawned, Settle
<1>5. CASE ErrorEvent \/ Closes
  BY <1>5 DEF ErrorEvent, Closes, Settle
<1>6. CASE TimesOut
  BY <1>6 DEF TimesOut, KillProcessTree, Settle
<1>7. CASE Forks \/ ChildExits \/ HelperExits
  BY <1>7 DEF Forks, ChildExits, HelperExits
<1>8. ASSUME NEW s \in Streams, NEW n \in 1..MaxBytes, Data(s, n) PROVE ProcInv'
  BY <1>8 DEF Data
<1>9. CASE UNCHANGED vars
  BY <1>9 DEF vars
<1> QED
  BY <1>1, <1>2, <1>3, <1>4, <1>5, <1>6, <1>7, <1>8, <1>9 DEF Next

LEMMA CutStep == IInv /\ [Next]_vars => CutInv'
<1> SUFFICES ASSUME IInv, [Next]_vars PROVE CutInv'
  OBVIOUS
<1> USE DEF IInv, CutInv, ProcInv, TypeOK, Settlements, Pending, Alive, callerVars, procVars, outputVars
<1>1. CASE CallerAborts
  BY <1>1 DEF CallerAborts, OnAbort, KillProcessTree, Settle
<1>2. CASE DeadlinePasses
  BY <1>2 DEF DeadlinePasses, OnAbort, KillProcessTree, Settle
<1>3. CASE Answers
  BY <1>3 DEF Answers
<1>4. CASE DiscoveryFails \/ SpawnThrows \/ Spawn
  BY <1>4 DEF DiscoveryFails, SpawnThrows, Spawn, Unspawned, Settle
<1>5. CASE ErrorEvent \/ Closes
  BY <1>5 DEF ErrorEvent, Closes, Settle
<1>6. CASE TimesOut
  BY <1>6 DEF TimesOut, KillProcessTree, Settle
<1>7. CASE Forks \/ ChildExits \/ HelperExits
  BY <1>7 DEF Forks, ChildExits, HelperExits
<1>8. ASSUME NEW s \in Streams, NEW n \in 1..MaxBytes, Data(s, n) PROVE CutInv'
  BY <1>8 DEF Data
<1>9. CASE UNCHANGED vars
  BY <1>9 DEF vars
<1> QED
  BY <1>1, <1>2, <1>3, <1>4, <1>5, <1>6, <1>7, <1>8, <1>9 DEF Next

LEMMA AbortStep == IInv /\ [Next]_vars => AbortInv'
<1> SUFFICES ASSUME IInv, [Next]_vars PROVE AbortInv'
  OBVIOUS
<1> USE DEF IInv, AbortInv, TypeOK, Settlements, Pending, callerVars, procVars, outputVars
<1>1. CASE CallerAborts
  BY <1>1 DEF CallerAborts, OnAbort, KillProcessTree, Settle
<1>2. CASE DeadlinePasses
  BY <1>2 DEF DeadlinePasses, OnAbort, KillProcessTree, Settle
<1>3. CASE Answers
  BY <1>3 DEF Answers
<1>4. CASE DiscoveryFails \/ SpawnThrows \/ Spawn
  BY <1>4 DEF DiscoveryFails, SpawnThrows, Spawn, Unspawned, Settle
<1>5. CASE ErrorEvent \/ Closes
  BY <1>5 DEF ErrorEvent, Closes, Settle
<1>6. CASE TimesOut
  BY <1>6 DEF TimesOut, KillProcessTree, Settle
<1>7. CASE Forks \/ ChildExits \/ HelperExits
  BY <1>7 DEF Forks, ChildExits, HelperExits
<1>8. ASSUME NEW s \in Streams, NEW n \in 1..MaxBytes, Data(s, n) PROVE AbortInv'
  BY <1>8 DEF Data
<1>9. CASE UNCHANGED vars
  BY <1>9 DEF vars
<1> QED
  BY <1>1, <1>2, <1>3, <1>4, <1>5, <1>6, <1>7, <1>8, <1>9 DEF Next

LEMMA Invariance == Spec => []IInv
<1>1. IInv /\ [Next]_vars => IInv'
  BY TypeStep, ProcStep, CutStep, AbortStep DEF IInv
<1> QED
  BY InitIInv, <1>1, PTL DEF Spec

\* Every variable keeps its type: in particular no stream is captured past the cap
\* (the appends of the data handlers) nor counted as anything but a number.
THEOREM TypeCorrect == Spec => []TypeOK
BY Invariance, PTL DEF IInv

\* A caller told of a timeout has no process left: the deadline answers by
\* aborting, an abort reaches a spawned child at once, and a child spawned after
\* it is killed before anything else happens.
THEOREM NothingLeftAfterTimeout == Spec => []TimeoutLeavesNothing
<1>1. IInv => TimeoutLeavesNothing
  <2> SUFFICES ASSUME IInv, answer = "timeout", settled # "closed" PROVE ~Alive
    BY DEF TimeoutLeavesNothing
  <2> USE DEF IInv, Alive
  <2>1. aborted
    BY DEF AbortInv
  <2>2. CASE Pending
    BY <2>1, <2>2 DEF AbortInv, ProcInv
  <2>3. CASE settled \in {"cancelled", "timeout"}
    BY <2>3 DEF CutInv
  <2>4. CASE settled \in {"refused", "spawn-error"}
    BY <2>4 DEF ProcInv
  <2> QED
    BY <2>2, <2>3, <2>4 DEF TypeOK, Settlements, Pending
<1> QED
  BY Invariance, <1>1, PTL

\* The caller is answered once: the deadline is called off with the answer, and
\* fires only while nothing was answered.
THEOREM OneAnswer == Spec => AnsweredOnce
<1>1. IInv /\ [Next]_vars => [answer # "pending" => answer' = answer]_vars
  <2> SUFFICES ASSUME IInv, Next, answer # "pending" PROVE answer' = answer
    OBVIOUS
  <2>1. ~DeadlinePasses
    BY DEF DeadlinePasses, IInv, AbortInv
  <2>2. ~Answers
    BY DEF Answers
  <2> QED
    BY <2>1, <2>2 DEF Next, CallerAborts, DiscoveryFails, SpawnThrows, Spawn, ErrorEvent,
       TimesOut, Closes, Forks, ChildExits, HelperExits, Data, callerVars
<1> QED
  BY Invariance, <1>1, PTL DEF Spec, AnsweredOnce

-----------------------------------------------------------------------------
(* What is captured.                                                       *)

LEMMA CaptureStep ==
    ASSUME TypeOK, OutputAccounted, NEW s \in Streams, NEW n \in 1..MaxBytes, Data(s, n)
    PROVE  OutputAccounted'
<1> USE RunnerAssumption DEF TypeOK, Data, Capture
<1>1. \A t \in Streams : t # s => captured'[t] = captured[t] /\ produced'[t] = produced[t]
  OBVIOUS
<1>2. produced'[s] = produced[s] + n
  OBVIOUS
<1>3. produced[s] \in Nat /\ captured[s] \in Nat /\ n \in Nat \ {0}
  OBVIOUS
<1>4. captured[s] = IF produced[s] <= MaxOutput THEN produced[s] ELSE MaxOutput
  BY DEF OutputAccounted
<1>5. captured'[s] = IF produced'[s] <= MaxOutput THEN produced'[s] ELSE MaxOutput
  BY <1>2, <1>3, <1>4
<1>6. \A t \in Streams :
        captured'[t] = IF produced'[t] <= MaxOutput THEN produced'[t] ELSE MaxOutput
  BY <1>1, <1>5 DEF OutputAccounted
<1>7. n > MaxOutput - captured[s] <=> produced'[s] > MaxOutput
  BY <1>2, <1>3, <1>4
<1>8. truncated' <=> \E t \in Streams : produced'[t] > MaxOutput
  <2>1. truncated' <=> truncated \/ produced'[s] > MaxOutput
    BY <1>7
  <2>2. produced[s] > MaxOutput => produced'[s] > MaxOutput
    BY <1>2, <1>3
  <2> QED
    BY <1>1, <2>1, <2>2 DEF OutputAccounted
<1> QED
  BY <1>6, <1>8 DEF OutputAccounted

\* For every cap and every chunking, each stream is captured up to the cap and no
\* further, and a result is marked truncated exactly if something was dropped.
THEOREM OutputIsAccounted == Spec => []OutputAccounted
<1>1. Init => OutputAccounted
  BY RunnerAssumption DEF Init, OutputAccounted
<1>2. TypeOK /\ OutputAccounted /\ [Next]_vars => OutputAccounted'
  <2> SUFFICES ASSUME TypeOK, OutputAccounted, [Next]_vars PROVE OutputAccounted'
    OBVIOUS
  <2>1. CASE \E s \in Streams, n \in 1..MaxBytes : Data(s, n)
    BY <2>1, CaptureStep
  <2>2. CASE UNCHANGED outputVars
    BY <2>2 DEF OutputAccounted, outputVars
  <2> QED
    BY <2>1, <2>2 DEF Next, vars, outputVars, CallerAborts, DeadlinePasses, Answers,
       DiscoveryFails, SpawnThrows, Spawn, ErrorEvent, TimesOut, Closes, Forks, ChildExits,
       HelperExits
<1> QED
  BY TypeCorrect, <1>1, <1>2, PTL DEF Spec

-----------------------------------------------------------------------------
(* The runner implements BoundedRun.                                       *)

\* Only a pending promise settles, and settling without a kill leaves the
\* processes as they are.
LEMMA SettlingStep ==
    ASSUME IInv, Next, settled' # settled
    PROVE  /\ settled = "pending"
           /\ settled' # "pending"
           /\ settled' \notin {"cancelled", "timeout"} => UNCHANGED procVars
<1> USE DEF Settle, Pending
<1>1. CASE CallerAborts \/ DeadlinePasses
  BY <1>1 DEF CallerAborts, DeadlinePasses, OnAbort, KillProcessTree
<1>2. CASE DiscoveryFails \/ SpawnThrows \/ Spawn
  BY <1>2 DEF DiscoveryFails, SpawnThrows, Spawn, Unspawned
<1>3. CASE ErrorEvent \/ Closes
  BY <1>3 DEF ErrorEvent, Closes
<1>4. CASE TimesOut
  BY <1>4 DEF TimesOut, IInv, CutInv
<1> QED
  BY <1>1, <1>2, <1>3, <1>4 DEF Next, Answers, Forks, ChildExits, HelperExits, Data, callerVars

LEMMA BoundedStep ==
    ASSUME IInv, IInv', [Next]_vars
    PROVE  [Bounded!Next]_(Bounded!runVars)
<1> USE DEF Bounded!Next, Bounded!Lives, Bounded!Settles, Bounded!runVars, Bounded!Cut,
    Bounded!Outcomes
<1>1. CASE settled' # settled
  <2>1. Next /\ settled = "pending" /\ settled' # "pending"
    BY <1>1, SettlingStep DEF vars
  <2>2. settled' \in Bounded!Outcomes
    BY <2>1 DEF IInv, TypeOK, Settlements
  <2>3. CASE settled' \in {"cancelled", "timeout"}
    <3>1. Alive' = FALSE
      BY <2>3 DEF IInv, CutInv
    <3> QED
      BY <2>1, <2>2, <2>3, <3>1
  <2>4. CASE settled' \notin {"cancelled", "timeout"}
    <3>1. Alive' = Alive
      BY <1>1, <2>1, <2>4, SettlingStep DEF procVars, Alive
    <3> QED
      BY <2>1, <2>2, <2>4, <3>1
  <2> QED
    BY <2>3, <2>4
<1>2. CASE settled' = settled /\ settled \notin {"cancelled", "timeout"}
  <2>1. Alive' \in BOOLEAN
    BY DEF Alive
  <2> QED
    BY <1>2, <2>1
<1>3. CASE settled' = settled /\ settled \in {"cancelled", "timeout"}
  <2>1. Alive = FALSE /\ Alive' = FALSE
    BY <1>3 DEF IInv, CutInv
  <2> QED
    BY <1>3, <2>1
<1> QED
  BY <1>1, <1>2, <1>3

\* NodeProcessRunner.exec keeps what BoundedRun promises, for every cap: one
\* outcome for good, and no process of a run that was cut short, now or later.
THEOREM RunnerImplementsBoundedRun == Spec => RunBounded
<1>1. Init => Bounded!Init
  BY DEF Init, Bounded!Init, Alive
<1>2. IInv /\ IInv' /\ [Next]_vars => [Bounded!Next]_(Bounded!runVars)
  BY BoundedStep
<1> QED
  BY Invariance, <1>1, <1>2, PTL DEF Spec, RunBounded, Bounded!Spec

=============================================================================
