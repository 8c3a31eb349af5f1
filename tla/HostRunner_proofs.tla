-------------------------- MODULE HostRunner_proofs --------------------------
(***************************************************************************)
(* The host escape hatch, for any number of attempts and sessions: every   *)
(* attempt has the record of how it ended, the ledger counts exactly the   *)
(* attempts that ended in the session, and each session announces one.     *)
(*                                                                         *)
(* The ledger is only reset and added to, so its agreement with the        *)
(* attempts needs two facts of them: an attempt ends once, and never ended *)
(* in a session that has not begun.                                        *)
(***************************************************************************)
EXTENDS HostRunner, FiniteSetTheorems, SequenceTheorems, TLAPS

\* What an attempt's own fields say of each other.
RunsInOrder ==
    \A a \in Attempts :
        /\ run[a].pc # "ended" => run[a].result = "none"
        /\ run[a].pc \in {"mapping", "running"} => run[a].of > 0
        /\ run[a].endedIn <= session

LedgerInv ==
    /\ IsFiniteSet(EndedHere)
    /\ LedgerCountsEnds
    /\ ledger.firstRunNoted <=> ledger.count > 0

\* A notice is of an attempt that has ended, and this session's is one at most.
NoticesInv ==
    /\ \A i \in DOMAIN notices :
          /\ notices[i].in <= session
          /\ run[notices[i].by].pc = "ended"
          /\ notices[i].claim = "audited" <=> trail[notices[i].by] # <<>>
    /\ ledger.firstRunNoted =>
          \E i \in DOMAIN notices : \A j \in DOMAIN notices : notices[j].in = session <=> j = i
    /\ ~ledger.firstRunNoted => \A i \in DOMAIN notices : notices[i].in # session

IInv == TypeOK /\ RunsInOrder /\ RecordedAsItEnded /\ LedgerInv /\ NoticesInv

-----------------------------------------------------------------------------
(* The bounded list.                                                       *)

LEMMA NewestKeeps ==
  ASSUME NEW S, NEW s \in Seq(S)
  PROVE  /\ Newest(s) \in Seq(S)
         /\ Len(Newest(s)) = (IF Len(s) > Limit THEN Limit ELSE Len(s))
         /\ Range(Newest(s)) \subseteq Range(s)
         /\ IsInjective(s) => IsInjective(Newest(s))
<1> DEFINE m == IF Len(s) > Limit THEN Len(s) - Limit + 1 ELSE 1
           n == Len(s)
<1>1. Limit \in Nat \ {0} /\ n \in Nat
  BY HostAssumption
<1>2. m \in Nat \ {0} /\ n - m + 1 = (IF n > Limit THEN Limit ELSE n)
  BY <1>1
<1>3. \A i \in m..n : s[i] \in S
  BY <1>1, <1>2
<1>4. /\ SubSeq(s, m, n) \in Seq(S)
      /\ Len(SubSeq(s, m, n)) = IF m <= n THEN n - m + 1 ELSE 0
      /\ \A i \in 1..n - m + 1 : SubSeq(s, m, n)[i] = s[m + i - 1]
  BY <1>1, <1>2, <1>3, SubSeqProperties
<1>5. Newest(s) = SubSeq(s, m, n)
  BY DEF Newest
<1> HIDE DEF m, n
<1>6. Len(Newest(s)) = n - m + 1
  BY <1>1, <1>2, <1>4, <1>5
<1>7. \A i \in DOMAIN Newest(s) : m + i - 1 \in DOMAIN s /\ Newest(s)[i] = s[m + i - 1]
  BY <1>1, <1>2, <1>4, <1>5, <1>6 DEF n
<1>8. Range(Newest(s)) \subseteq Range(s)
  BY <1>7 DEF Range
<1>9. IsInjective(s) => IsInjective(Newest(s))
  <2> SUFFICES ASSUME IsInjective(s), NEW i \in DOMAIN Newest(s), NEW j \in DOMAIN Newest(s),
                      Newest(s)[i] = Newest(s)[j]
               PROVE  i = j
    BY DEF IsInjective
  <2>1. m + i - 1 = m + j - 1
    BY <1>7 DEF IsInjective
  <2>2. i \in Nat /\ j \in Nat
    BY <1>4, <1>5
  <2> QED
    BY <2>1, <2>2, <1>2
<1> QED
  BY <1>2, <1>4, <1>5, <1>6, <1>8, <1>9 DEF n

-----------------------------------------------------------------------------
(* What an end of an attempt, and what any other step, does to the ledger. *)

\* Only a's attempt moves.
Moves(a) ==
    /\ run' \in [Attempts -> RunStates]
    /\ trail' \in [Attempts -> Seq({"denied", "error", "done"})]
    /\ \A b \in Attempts \ {a} : run'[b] = run[b] /\ trail'[b] = trail[b]

\* It ends in the session running, and is counted.
EndsHere(a) ==
    /\ run[a].pc # "ended"
    /\ run'[a].pc = "ended"
    /\ run'[a].result \in Counted
    /\ run'[a].endedIn = session

LEMMA NotedType ==
  ASSUME TypeOK, NEW a \in Attempts, NEW claim \in {"audited", "unaudited", "withheld"},
         Note(a, claim)
  PROVE  ledger' \in Ledgers /\ Len(ledger'.recent) <= Limit /\ notices' \in Seq(Notices)
<1> DEFINE s == Append(ledger.recent, a)
<1>1. s \in Seq(Attempts)
  BY DEF TypeOK, Ledgers
<1>2. /\ ledger' = [count |-> ledger.count + 1, recent |-> Newest(s), firstRunNoted |-> TRUE]
      /\ notices' = IF ledger.firstRunNoted THEN notices
                    ELSE Append(notices, [by |-> a, in |-> session, claim |-> claim])
  BY DEF Note
<1> HIDE DEF s
<1>0. Newest(s) \in Seq(Attempts) /\ Len(Newest(s)) <= Limit
  <2>1. Len(s) \in Nat /\ Limit \in Nat
    BY <1>1, HostAssumption
  <2>2. Newest(s) \in Seq(Attempts) /\ Len(Newest(s)) = (IF Len(s) > Limit THEN Limit ELSE Len(s))
    BY <1>1, NewestKeeps
  <2> QED
    BY <2>1, <2>2
<1>3. ledger.count + 1 \in Nat
  BY DEF TypeOK, Ledgers
<1>4. ledger' \in Ledgers /\ Len(ledger'.recent) <= Limit
  BY <1>0, <1>2, <1>3 DEF Ledgers
<1>5. [by |-> a, in |-> session, claim |-> claim] \in Notices
  BY DEF TypeOK, Notices
<1>6. notices' \in Seq(Notices)
  BY <1>2, <1>5 DEF TypeOK
<1> QED
  BY <1>4, <1>6

LEMMA NotedLedger ==
  ASSUME IInv, NEW a \in Attempts, NEW claim \in {"audited", "unaudited", "withheld"},
         Moves(a), EndsHere(a), Note(a, claim), session' = session
  PROVE  LedgerInv'
<1> DEFINE s == Append(ledger.recent, a)
<1>1. a \notin EndedHere
  BY DEF IInv, RunsInOrder, EndsHere, EndedHere, Counted
<1>2. EndedHere' = EndedHere \cup {a}
  BY DEF EndsHere, Moves, EndedHere
<1>3. IsFiniteSet(EndedHere') /\ Cardinality(EndedHere') = Cardinality(EndedHere) + 1
  BY <1>1, <1>2, FS_AddElement DEF IInv, LedgerInv
<1>4. ledger.recent \in Seq(Attempts) /\ ledger.count \in Nat
  BY DEF IInv, TypeOK, Ledgers
<1>5. s \in Seq(Attempts) /\ Len(s) = Len(ledger.recent) + 1
  BY <1>4
<1>6. \A i \in DOMAIN s : s[i] = IF i <= Len(ledger.recent) THEN ledger.recent[i] ELSE a
  BY <1>4
<1>7. Range(s) \subseteq EndedHere'
  BY <1>2, <1>4, <1>5, <1>6 DEF IInv, LedgerInv, LedgerCountsEnds, Range
<1>8. IsInjective(s)
  <2>1. \A i \in DOMAIN ledger.recent : ledger.recent[i] # a
    BY <1>1 DEF IInv, LedgerInv, LedgerCountsEnds, Range
  <2> SUFFICES ASSUME NEW i \in DOMAIN s, NEW j \in DOMAIN s, s[i] = s[j]
               PROVE  i = j
    BY DEF IsInjective
  <2>2. i \in 1..Len(ledger.recent) + 1 /\ j \in 1..Len(ledger.recent) + 1
    BY <1>5
  <2>3. DOMAIN ledger.recent = 1..Len(ledger.recent) /\ Len(ledger.recent) \in Nat
    BY <1>4
  <2>4. CASE i <= Len(ledger.recent) /\ j <= Len(ledger.recent)
    <3>1. ledger.recent[i] = ledger.recent[j] /\ i \in DOMAIN ledger.recent
          /\ j \in DOMAIN ledger.recent
      BY <2>2, <2>3, <2>4, <1>6
    <3> QED
      BY <3>1 DEF IInv, LedgerInv, LedgerCountsEnds, IsInjective
  <2>5. CASE ~(i <= Len(ledger.recent)) /\ ~(j <= Len(ledger.recent))
    BY <2>2, <2>3, <2>5
  <2>6. CASE i <= Len(ledger.recent) /\ ~(j <= Len(ledger.recent))
    BY <2>1, <2>2, <2>3, <2>6, <1>6
  <2>7. CASE ~(i <= Len(ledger.recent)) /\ j <= Len(ledger.recent)
    BY <2>1, <2>2, <2>3, <2>7, <1>6
  <2> QED
    BY <2>4, <2>5, <2>6, <2>7
<1>9. ledger'.count = ledger.count + 1 /\ ledger'.recent = Newest(s) /\ ledger'.firstRunNoted
  BY DEF Note
<1> HIDE DEF s
<1>10. /\ Range(Newest(s)) \subseteq Range(s)
       /\ IsInjective(Newest(s))
       /\ Len(Newest(s)) = (IF Len(s) > Limit THEN Limit ELSE Len(s))
  BY <1>5, <1>8, NewestKeeps
<1>11. Len(ledger'.recent) = (IF ledger'.count > Limit THEN Limit ELSE ledger'.count)
  <2>1. Len(ledger.recent) = (IF ledger.count > Limit THEN Limit ELSE ledger.count)
    BY DEF IInv, LedgerInv, LedgerCountsEnds
  <2>2. Limit \in Nat \ {0} /\ Len(s) = Len(ledger.recent) + 1
    BY <1>5, HostAssumption
  <2> QED
    BY <1>4, <1>9, <1>10, <2>1, <2>2
<1>12. ledger'.count = Cardinality(EndedHere')
  BY <1>3, <1>9 DEF IInv, LedgerInv, LedgerCountsEnds
<1>13. LedgerCountsEnds'
  BY <1>7, <1>9, <1>10, <1>11, <1>12 DEF LedgerCountsEnds
<1> QED
  BY <1>3, <1>4, <1>9, <1>13 DEF LedgerInv

LEMMA NotedNotices ==
  ASSUME IInv, NEW a \in Attempts, NEW claim \in {"audited", "unaudited", "withheld"},
         Moves(a), EndsHere(a), Note(a, claim), session' = session,
         claim = "audited" <=> trail'[a] # <<>>
  PROVE  NoticesInv'
<1> DEFINE new == [by |-> a, in |-> session, claim |-> claim]
<1>1. notices \in Seq(Notices) /\ session \in Nat
  BY HostAssumption DEF IInv, TypeOK
<1>2. ledger'.firstRunNoted
  BY DEF Note
<1>3. ASSUME NEW i \in DOMAIN notices
      PROVE  /\ notices[i].by \in Attempts \ {a}
             /\ notices[i].in <= session
             /\ run'[notices[i].by].pc = "ended"
             /\ notices[i].claim = "audited" <=> trail'[notices[i].by] # <<>>
  <2>1. notices[i] \in Notices
    BY <1>1
  <2>2. notices[i].by \in Attempts /\ run[notices[i].by].pc = "ended"
    BY <2>1 DEF IInv, NoticesInv, Notices
  <2>3. notices[i].by # a
    BY <2>2 DEF EndsHere
  <2> QED
    BY <2>2, <2>3 DEF IInv, NoticesInv, Moves
<1>4. CASE ledger.firstRunNoted
  <2>1. notices' = notices
    BY <1>4 DEF Note
  <2> QED
    BY <1>2, <1>3, <1>4, <2>1 DEF NoticesInv, IInv
<1>5. CASE ~ledger.firstRunNoted
  <2>1. notices' = Append(notices, new)
    BY <1>5 DEF Note
  <2>2. new.by = a /\ new.in = session /\ new.claim = claim
    OBVIOUS
  <2> HIDE DEF new
  <2>3. /\ DOMAIN notices' = 1..Len(notices) + 1 /\ Len(notices) \in Nat
        /\ DOMAIN notices = 1..Len(notices)
        /\ \A i \in 1..Len(notices) : notices'[i] = notices[i]
        /\ notices'[Len(notices) + 1] = new
    BY <1>1, <2>1
  <2>4. ASSUME NEW i \in DOMAIN notices'
        PROVE  \/ i \in DOMAIN notices /\ notices'[i] = notices[i]
               \/ i = Len(notices) + 1 /\ notices'[i] = new
    BY <2>3
  <2>5. \A i \in DOMAIN notices : notices[i].in # session
    BY <1>5 DEF IInv, NoticesInv
  <2>6. \A i \in DOMAIN notices' :
           /\ notices'[i].in <= session'
           /\ run'[notices'[i].by].pc = "ended"
           /\ notices'[i].claim = "audited" <=> trail'[notices'[i].by] # <<>>
    <3> SUFFICES ASSUME NEW i \in DOMAIN notices'
                 PROVE  /\ notices'[i].in <= session
                        /\ run'[notices'[i].by].pc = "ended"
                        /\ notices'[i].claim = "audited" <=> trail'[notices'[i].by] # <<>>
      OBVIOUS
    <3>1. CASE i \in DOMAIN notices /\ notices'[i] = notices[i]
      BY <1>3, <3>1
    <3>2. CASE notices'[i] = new
      BY <1>1, <2>2, <3>2 DEF EndsHere
    <3> QED
      BY <2>4, <3>1, <3>2
  <2>7. \A j \in DOMAIN notices' : notices'[j].in = session <=> j = Len(notices) + 1
    <3> SUFFICES ASSUME NEW j \in DOMAIN notices'
                 PROVE  notices'[j].in = session <=> j = Len(notices) + 1
      OBVIOUS
    <3>1. CASE j \in DOMAIN notices /\ notices'[j] = notices[j]
      BY <2>3, <2>5, <3>1
    <3>2. CASE j = Len(notices) + 1 /\ notices'[j] = new
      BY <2>2, <3>2
    <3> QED
      BY <2>4, <3>1, <3>2
  <2>8. Len(notices) + 1 \in DOMAIN notices'
    BY <2>3
  <2>9. \E i \in DOMAIN notices' : \A j \in DOMAIN notices' : notices'[j].in = session' <=> j = i
    BY <2>7, <2>8
  <2> QED
    BY <1>2, <2>6, <2>9 DEF NoticesInv
<1> QED
  BY <1>4, <1>5

\* A step that ends no attempt, or ends one uncounted.
LEMMA QuietStep ==
  ASSUME IInv, NEW a \in Attempts, Moves(a), run[a].pc # "ended",
         run'[a].result \notin Counted, UNCHANGED <<session, ledger, notices>>
  PROVE  LedgerInv' /\ NoticesInv'
<1>1. EndedHere' = EndedHere
  BY DEF IInv, RunsInOrder, Moves, EndedHere, Counted
<1>2. LedgerInv'
  <2>1. Cardinality(EndedHere') = Cardinality(EndedHere)
    BY <1>1
  <2> QED
    BY <1>1, <2>1 DEF IInv, LedgerInv, LedgerCountsEnds
<1>3. ASSUME NEW i \in DOMAIN notices
      PROVE  run'[notices[i].by] = run[notices[i].by] /\ trail'[notices[i].by] = trail[notices[i].by]
  <2>1. notices[i] \in Notices
    BY DEF IInv, TypeOK
  <2>2. notices[i].by \in Attempts /\ run[notices[i].by].pc = "ended"
    BY <2>1 DEF IInv, NoticesInv, Notices
  <2> QED
    BY <2>2 DEF Moves
<1>4. NoticesInv'
  BY <1>3 DEF IInv, NoticesInv
<1> QED
  BY <1>2, <1>4

-----------------------------------------------------------------------------
(* The steps.                                                              *)

LEMMA InitIInv == Init => IInv
<1> SUFFICES ASSUME Init PROVE IInv
  OBVIOUS
<1>1. TypeOK
  BY HostAssumption DEF Init, TypeOK, RunStates, Results, Ledgers, EmptyLedger
<1>2. RunsInOrder /\ RecordedAsItEnded
  BY HostAssumption DEF Init, RunsInOrder, RecordedAsItEnded
<1>3. EndedHere = {}
  BY DEF Init, EndedHere, Counted
<1>4. LedgerInv
  <2>1. IsFiniteSet(EndedHere) /\ Cardinality(EndedHere) = 0
    BY <1>3, FS_EmptySet
  <2>2. /\ ledger.count = 0 /\ ledger.recent = <<>> /\ ~ledger.firstRunNoted
    BY DEF Init, EmptyLedger
  <2>3. Range(<<>>) = {} /\ IsInjective(<<>>) /\ Len(<<>>) = 0
    BY DEF Range, IsInjective
  <2> QED
    BY <2>1, <2>2, <2>3, HostAssumption DEF LedgerInv, LedgerCountsEnds
<1>5. NoticesInv
  BY DEF Init, NoticesInv, EmptyLedger
<1> QED
  BY <1>1, <1>2, <1>4, <1>5 DEF IInv

\* A session start resets the ledger, and nothing has ended in the session begun.
LEMMA StartPreserves ==
  ASSUME IInv, SessionStart
  PROVE  IInv'
<1>1. session \in Nat /\ session' = session + 1 /\ session' \in 0..MaxSessions
  BY HostAssumption DEF IInv, TypeOK, SessionStart
<1>2. TypeOK'
  BY <1>1, HostAssumption DEF IInv, TypeOK, SessionStart, EmptyLedger, Ledgers
<1>3. RunsInOrder'
  <2>1. ASSUME NEW a \in Attempts
        PROVE  run[a].endedIn \in Nat /\ run[a].endedIn <= session
    BY HostAssumption DEF IInv, TypeOK, RunStates, RunsInOrder
  <2> QED
    BY <1>1, <2>1 DEF IInv, RunsInOrder, SessionStart
<1>4. RecordedAsItEnded'
  BY DEF IInv, RecordedAsItEnded, SessionStart, Audited
<1>5. EndedHere' = {}
  <2>1. \A a \in Attempts : run[a].endedIn \in Nat /\ run[a].endedIn <= session
    BY HostAssumption DEF IInv, TypeOK, RunStates, RunsInOrder
  <2> QED
    BY <1>1, <2>1 DEF EndedHere, SessionStart
<1>6. LedgerInv'
  <2>1. IsFiniteSet(EndedHere') /\ Cardinality(EndedHere') = 0
    BY <1>5, FS_EmptySet
  <2>2. /\ ledger'.count = 0 /\ ledger'.recent = <<>> /\ ~ledger'.firstRunNoted
    BY DEF SessionStart, EmptyLedger
  <2>3. Range(<<>>) = {} /\ IsInjective(<<>>) /\ Len(<<>>) = 0
    BY DEF Range, IsInjective
  <2> QED
    BY <2>1, <2>2, <2>3, HostAssumption DEF LedgerInv, LedgerCountsEnds
<1>7. NoticesInv'
  <2>0. ASSUME NEW i \in DOMAIN notices
        PROVE  notices[i] \in Notices
    BY DEF IInv, TypeOK
  <2>1. \A i \in DOMAIN notices : notices[i].in \in Nat /\ notices[i].in <= session
    BY <2>0, HostAssumption DEF IInv, NoticesInv, Notices
  <2>2. ~ledger'.firstRunNoted
    BY DEF SessionStart, EmptyLedger
  <2> QED
    BY <1>1, <2>1, <2>2 DEF IInv, NoticesInv, SessionStart
<1> QED
  BY <1>2, <1>3, <1>4, <1>6, <1>7 DEF IInv

\* What is left to show of a step that ends an attempt and counts it.
LEMMA EndPreserves ==
  ASSUME IInv, NEW a \in Attempts, NEW claim \in {"audited", "unaudited", "withheld"},
         Moves(a), EndsHere(a), Note(a, claim), UNCHANGED <<session, config>>,
         writable' \in BOOLEAN,
         claim = "audited" <=> trail'[a] # <<>>,
         trail'[a] = IF run'[a].of > 0 /\ Audited(a)' THEN RecordsOf(run'[a].result) ELSE <<>>
  PROVE  IInv'
<1>1. TypeOK'
  BY NotedType DEF IInv, TypeOK, Moves
<1>2. RunsInOrder'
  <2>1. session \in Nat
    BY HostAssumption DEF IInv, TypeOK
  <2>2. ASSUME NEW b \in Attempts
        PROVE  /\ run'[b].pc # "ended" => run'[b].result = "none"
               /\ run'[b].pc \in {"mapping", "running"} => run'[b].of > 0
               /\ run'[b].endedIn <= session
    <3>1. CASE b = a
      BY <2>1, <3>1 DEF EndsHere
    <3>2. CASE b # a
      BY <3>2 DEF IInv, RunsInOrder, Moves
    <3> QED
      BY <3>1, <3>2
  <2> QED
    BY <2>2 DEF RunsInOrder
<1>3. RecordedAsItEnded'
  BY DEF IInv, RecordedAsItEnded, Moves, Audited
<1>4. LedgerInv' /\ NoticesInv'
  BY NotedLedger, NotedNotices
<1> QED
  BY <1>1, <1>2, <1>3, <1>4 DEF IInv

\* And of one that is not counted.
LEMMA QuietPreserves ==
  ASSUME IInv, NEW a \in Attempts, Moves(a), run[a].pc # "ended",
         run'[a].result \notin Counted, UNCHANGED <<session, config, ledger, notices>>,
         writable' \in BOOLEAN,
         run'[a].pc # "ended" => run'[a].result = "none",
         run'[a].pc \in {"mapping", "running"} => run'[a].of > 0,
         run'[a].endedIn <= session,
         trail'[a] = <<>>
  PROVE  IInv'
<1>1. TypeOK'
  BY DEF IInv, TypeOK, Moves
<1>2. RunsInOrder'
  BY DEF IInv, RunsInOrder, Moves
<1>3. RecordedAsItEnded'
  <2>1. RecordsOf(run'[a].result) = <<>>
    BY DEF RecordsOf, Counted, Results, Moves, RunStates
  <2> QED
    BY <2>1 DEF IInv, RecordedAsItEnded, Moves, Audited
<1>4. LedgerInv' /\ NoticesInv'
  BY QuietStep
<1> QED
  BY <1>1, <1>2, <1>3, <1>4 DEF IInv

\* Every way a runner's attempt ends, whether or not its record can be written.
LEMMA RecordedPreserves ==
  ASSUME IInv, NEW a \in Attempts, run[a].pc \in {"mapping", "running"},
         NEW result \in Counted, NEW record \in {"denied", "error", "done"},
         RecordsOf(result) = <<record>>,
         EndsRecorded(a, result, record), UNCHANGED <<session, config, writable>>
  PROVE  IInv'
<1>1. /\ session \in 0..MaxSessions /\ run \in [Attempts -> RunStates]
      /\ trail \in [Attempts -> Seq({"denied", "error", "done"})] /\ writable \in BOOLEAN
  BY DEF IInv, TypeOK
<1>2. run[a] \in RunStates /\ run[a].of > 0 /\ run[a].result = "none"
  BY <1>1 DEF IInv, RunsInOrder
<1>3. trail[a] = <<>>
  <2>1. RecordsOf("none") = <<>>
    BY DEF RecordsOf
  <2> QED
    BY <1>2, <2>1 DEF IInv, RecordedAsItEnded
<1>4. session \in Nat
  BY <1>1, HostAssumption
<1>5. ASSUME NEW r \in Results, Ends(a, r)
      PROVE  /\ run' \in [Attempts -> RunStates]
             /\ \A b \in Attempts \ {a} : run'[b] = run[b]
             /\ run'[a].pc = "ended" /\ run'[a].result = r /\ run'[a].endedIn = session
             /\ run'[a].of = run[a].of
  <2> DEFINE t == [run[a] EXCEPT !.pc = "ended", !.result = r, !.endedIn = session]
  <2>1. /\ t \in RunStates /\ t.pc = "ended" /\ t.result = r /\ t.endedIn = session
        /\ t.of = run[a].of
    BY <1>1, <1>2 DEF RunStates
  <2>2. run' = [run EXCEPT ![a] = t]
    BY <1>5 DEF Ends
  <2> HIDE DEF t
  <2> QED
    BY <1>1, <2>1, <2>2
<1>6. CASE Audited(a) /\ ~writable
  <2>1. Ends(a, "threw") /\ UNCHANGED <<trail, ledger, notices>>
    BY <1>6 DEF EndsRecorded
  <2>2. "threw" \in Results /\ "threw" \notin Counted
    BY DEF Results, Counted
  <2>3. Moves(a)
    BY <1>1, <1>5, <2>1, <2>2 DEF Moves
  <2>4. /\ run'[a].pc = "ended" /\ run'[a].result \notin Counted /\ run'[a].endedIn <= session
        /\ trail'[a] = <<>> /\ run[a].pc # "ended" /\ writable' \in BOOLEAN
    BY <1>1, <1>3, <1>4, <1>5, <2>1, <2>2
  <2> QED
    BY <2>1, <2>3, <2>4, QuietPreserves
<1>7. CASE ~(Audited(a) /\ ~writable)
  <2>1. /\ Ends(a, result) /\ Note(a, Claim(a))
        /\ trail' = IF Audited(a) THEN [trail EXCEPT ![a] = Append(@, record)] ELSE trail
    BY <1>7 DEF EndsRecorded
  <2>2. result \in Results
    BY DEF Counted
  <2>3. trail'[a] = (IF Audited(a) THEN <<record>> ELSE <<>>)
        /\ trail' \in [Attempts -> Seq({"denied", "error", "done"})]
        /\ \A b \in Attempts \ {a} : trail'[b] = trail[b]
    BY <1>1, <1>3, <2>1
  <2>4. Moves(a) /\ EndsHere(a)
    BY <1>5, <2>1, <2>2, <2>3 DEF Moves, EndsHere
  <2>5. Audited(a)' <=> Audited(a)
    BY <1>5, <2>1, <2>2 DEF Audited
  <2>6. Claim(a) \in {"audited", "unaudited", "withheld"}
        /\ (Claim(a) = "audited" <=> trail'[a] # <<>>)
    BY <2>3 DEF Claim
  <2>7. trail'[a] = IF run'[a].of > 0 /\ Audited(a)' THEN RecordsOf(run'[a].result) ELSE <<>>
    BY <1>2, <1>5, <2>1, <2>2, <2>3, <2>5
  <2> QED
    BY <1>1, <2>1, <2>4, <2>6, <2>7, EndPreserves
<1> QED
  BY <1>6, <1>7

\* A step that only moves an attempt on, or answers it before a runner has it.
LEMMA MovedPreserves ==
  ASSUME IInv, NEW a \in Attempts, run[a].pc \in {"idle", "mapping"},
         NEW t \in RunStates, run' = [run EXCEPT ![a] = t],
         \/ t.pc \in {"mapping", "running"} /\ t.of > 0 /\ t.result = "none"
            /\ t.endedIn <= session
         \/ t.pc = "ended" /\ t.result = "usage" /\ t.endedIn <= session,
         UNCHANGED <<session, config, trail, ledger, notices, writable>>
  PROVE  IInv'
<1>1. /\ run \in [Attempts -> RunStates] /\ writable \in BOOLEAN
      /\ trail \in [Attempts -> Seq({"denied", "error", "done"})]
  BY DEF IInv, TypeOK
<1>2. run' \in [Attempts -> RunStates] /\ run'[a] = t
      /\ \A b \in Attempts \ {a} : run'[b] = run[b]
  BY <1>1
<1>3. trail[a] = <<>>
  <2>1. RecordsOf("none") = <<>>
    BY DEF RecordsOf
  <2>2. run[a].result = "none"
    BY DEF IInv, RunsInOrder
  <2> QED
    BY <2>1, <2>2 DEF IInv, RecordedAsItEnded
<1>4. Moves(a)
  BY <1>1, <1>2 DEF Moves
<1>5. t.result \notin Counted
  BY DEF Counted
<1>6. /\ run[a].pc # "ended" /\ writable' \in BOOLEAN /\ trail'[a] = <<>>
      /\ run'[a].result \notin Counted /\ run'[a].endedIn <= session
      /\ run'[a].pc # "ended" => run'[a].result = "none"
      /\ run'[a].pc \in {"mapping", "running"} => run'[a].of > 0
  BY <1>1, <1>2, <1>3, <1>5
<1> QED
  BY <1>4, <1>6, QuietPreserves

LEMMA WithheldPreserves ==
  ASSUME IInv, NEW a \in Attempts, Withheld(a)
  PROVE  IInv'
<1> DEFINE t == [pc |-> "ended", of |-> session, result |-> "withheld", endedIn |-> session]
<1>1. /\ session \in 0..MaxSessions /\ run \in [Attempts -> RunStates]
      /\ trail \in [Attempts -> Seq({"denied", "error", "done"})] /\ writable \in BOOLEAN
  BY DEF IInv, TypeOK
<1>2. run[a].pc = "idle" /\ run' = [run EXCEPT ![a] = t] /\ Note(a, "withheld")
      /\ UNCHANGED <<session, config, trail, writable>>
  BY DEF Withheld, Calls
<1>3. t \in RunStates /\ t.pc = "ended" /\ t.result = "withheld" /\ t.endedIn = session
  BY <1>1 DEF RunStates, Results
<1> HIDE DEF t
<1>4. Moves(a) /\ EndsHere(a) /\ run'[a] = t
  BY <1>1, <1>2, <1>3 DEF Moves, EndsHere, Counted, Results
<1>5. trail'[a] = <<>> /\ RecordsOf(run'[a].result) = <<>>
  <2>1. RecordsOf("none") = <<>> /\ RecordsOf("withheld") = <<>>
    BY DEF RecordsOf
  <2>2. run[a].result = "none"
    BY <1>2 DEF IInv, RunsInOrder
  <2> QED
    BY <1>2, <1>3, <1>4, <2>1, <2>2 DEF IInv, RecordedAsItEnded
<1>6. trail'[a] = IF run'[a].of > 0 /\ Audited(a)' THEN RecordsOf(run'[a].result) ELSE <<>>
  BY <1>5
<1>7. writable' \in BOOLEAN /\ ("withheld" = "audited" <=> trail'[a] # <<>>)
  BY <1>1, <1>2, <1>5
<1> QED
  BY <1>2, <1>4, <1>6, <1>7, EndPreserves

LEMMA StepPreserves ==
  ASSUME IInv, NEW a \in Attempts, Step(a)
  PROVE  IInv'
<1>1. /\ session \in 0..MaxSessions /\ run[a] \in RunStates /\ MaxSessions \in Nat
      /\ run[a].endedIn <= session
  BY HostAssumption DEF IInv, TypeOK, RunsInOrder
<1>2. session \in Nat
  BY <1>1
<1>3. CASE Withheld(a)
  BY <1>3, WithheldPreserves
<1>4. CASE EmptyArgv(a)
  <2> DEFINE t == [pc |-> "ended", of |-> session, result |-> "usage", endedIn |-> session]
  <2>1. t \in RunStates /\ t.pc = "ended" /\ t.result = "usage" /\ t.endedIn <= session
    BY <1>1, <1>2 DEF RunStates, Results
  <2>2. /\ run[a].pc = "idle" /\ run' = [run EXCEPT ![a] = t]
        /\ UNCHANGED <<session, config, trail, ledger, notices, writable>>
    BY <1>4 DEF EmptyArgv, Calls
  <2> HIDE DEF t
  <2> QED
    BY <2>1, <2>2, MovedPreserves
<1>5. CASE RunStarts(a)
  <2>1. PICK pc \in {"mapping", "running"} :
           run' = [run EXCEPT ![a] = [@ EXCEPT !.pc = pc, !.of = session]]
    BY <1>5 DEF RunStarts
  <2> DEFINE t == [run[a] EXCEPT !.pc = pc, !.of = session]
  <2>2. /\ run[a].pc = "idle" /\ session > 0
        /\ UNCHANGED <<session, config, trail, ledger, notices, writable>>
    BY <1>5 DEF RunStarts, Calls
  <2>3. t \in RunStates /\ t.pc = pc /\ t.of = session /\ t.result = run[a].result
        /\ t.endedIn = run[a].endedIn
    BY <1>1 DEF RunStates
  <2>4. run[a].result = "none"
    BY <2>2 DEF IInv, RunsInOrder
  <2>5. run' = [run EXCEPT ![a] = t]
    BY <2>1
  <2> HIDE DEF t
  <2> QED
    BY <1>1, <2>2, <2>3, <2>4, <2>5, MovedPreserves
<1>6. CASE Spawned(a)
  <2> DEFINE t == [run[a] EXCEPT !.pc = "running"]
  <2>1. /\ run[a].pc = "mapping" /\ run' = [run EXCEPT ![a] = t]
        /\ UNCHANGED <<session, config, trail, ledger, notices, writable>>
    BY <1>6 DEF Spawned
  <2>2. t \in RunStates /\ t.pc = "running" /\ t.of = run[a].of /\ t.result = run[a].result
        /\ t.endedIn = run[a].endedIn
    BY <1>1 DEF RunStates
  <2>3. run[a].result = "none" /\ run[a].of > 0
    BY <2>1 DEF IInv, RunsInOrder
  <2> HIDE DEF t
  <2> QED
    BY <1>1, <2>1, <2>2, <2>3, MovedPreserves
<1>7. /\ RecordsOf("unmapped") = <<"error">> /\ RecordsOf("failed") = <<"error">>
      /\ RecordsOf("refused") = <<"denied">> /\ RecordsOf("done") = <<"done">>
  BY DEF RecordsOf
<1>8. {"unmapped", "failed", "refused", "done"} \subseteq Counted
  BY DEF Counted, Results
<1>9. CASE MappingFails(a)
  BY <1>7, <1>8, <1>9, RecordedPreserves DEF MappingFails
<1>10. CASE ContainerPathRefused(a)
  BY <1>7, <1>8, <1>10, RecordedPreserves DEF ContainerPathRefused
<1>11. CASE RunFails(a)
  BY <1>7, <1>8, <1>11, RecordedPreserves DEF RunFails
<1>12. CASE RunDone(a)
  BY <1>7, <1>8, <1>12, RecordedPreserves DEF RunDone
<1> QED
  BY <1>3, <1>4, <1>5, <1>6, <1>9, <1>10, <1>11, <1>12 DEF Step

LEMMA NextPreserves == IInv /\ [Next]_vars => IInv'
<1> SUFFICES ASSUME IInv, [Next]_vars
             PROVE  IInv'
  OBVIOUS
<1>1. CASE SessionStart
  BY <1>1, StartPreserves
<1>2. CASE \E a \in Attempts : Step(a)
  BY <1>2, StepPreserves
<1>3. ASSUME UNCHANGED <<session, config, run, trail, ledger, notices>>, writable' \in BOOLEAN
      PROVE  IInv'
  <2>1. EndedHere' = EndedHere
    BY <1>3 DEF EndedHere
  <2>2. Cardinality(EndedHere') = Cardinality(EndedHere)
    BY <2>1
  <2>3. LedgerInv'
    BY <1>3, <2>1, <2>2 DEF IInv, LedgerInv, LedgerCountsEnds
  <2>4. TypeOK' /\ RunsInOrder' /\ RecordedAsItEnded' /\ NoticesInv'
    BY <1>3 DEF IInv, TypeOK, RunsInOrder, RecordedAsItEnded, Audited, NoticesInv
  <2> QED
    BY <2>3, <2>4 DEF IInv
<1>4. CASE TrailFlips
  BY <1>3, <1>4 DEF TrailFlips
<1>5. CASE UNCHANGED vars
  BY <1>3, <1>5 DEF vars, IInv, TypeOK
<1> QED
  BY <1>1, <1>2, <1>4, <1>5 DEF Next

LEMMA Invariant == Spec => []IInv
  BY InitIInv, NextPreserves, PTL DEF Spec

-----------------------------------------------------------------------------
(* What follows.                                                           *)

\* In particular the summary names at most Limit programs.
THEOREM TypeCorrect == Spec => []TypeOK
<1>1. IInv => TypeOK
  BY DEF IInv
<1> QED
  BY <1>1, Invariant, PTL

\* Every attempt a runner ended has the record of how it ended, and no other
\* attempt has any.
THEOREM RecordsAreExact == Spec => []RecordedAsItEnded
<1>1. IInv => RecordedAsItEnded
  BY DEF IInv
<1> QED
  BY <1>1, Invariant, PTL

\* The ledger has counted each attempt that ended in the session, once.
THEOREM LedgerIsExact == Spec => []LedgerCountsEnds
<1>1. IInv => LedgerCountsEnds
  BY DEF IInv, LedgerInv
<1> QED
  BY <1>1, Invariant, PTL

\* The first counted attempt of each session, and no other, is announced; a notice
\* claims a record exactly if there is one.
THEOREM FirstIsAnnounced == Spec => []AnnouncedOnce
<1>1. IInv => AnnouncedOnce
  <2> SUFFICES ASSUME IInv PROVE AnnouncedOnce
    OBVIOUS
  <2> DEFINE here == {i \in DOMAIN notices : notices[i].in = session}
  <2>1. Cardinality(here) = (IF ledger.count > 0 THEN 1 ELSE 0)
    <3>1. CASE ledger.firstRunNoted
      <4>1. PICK i \in DOMAIN notices : \A j \in DOMAIN notices : notices[j].in = session <=> j = i
        BY <3>1 DEF IInv, NoticesInv
      <4>2. here = {i}
        BY <4>1
      <4>3. Cardinality(here) = 1
        BY <4>2, FS_Singleton
      <4> QED
        BY <3>1, <4>3 DEF IInv, LedgerInv
    <3>2. CASE ~ledger.firstRunNoted
      <4>1. here = {}
        BY <3>2 DEF IInv, NoticesInv
      <4>2. Cardinality(here) = 0
        BY <4>1, FS_EmptySet
      <4> QED
        BY <3>2, <4>2 DEF IInv, LedgerInv
    <3> QED
      BY <3>1, <3>2
  <2> QED
    BY <2>1 DEF AnnouncedOnce, IInv, NoticesInv
<1> QED
  BY <1>1, Invariant, PTL

=============================================================================
