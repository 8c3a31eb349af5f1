------------------------------ MODULE HostRunner ------------------------------
(***************************************************************************)
(* The audited host escape hatch behind devcontainer_host_exec and         *)
(* /devcontainer host-exec, and the session ledger that makes its use      *)
(* visible: every attempt is recorded in the audit trail, then counted, and *)
(* the first one of a session is announced on the operator's channel.      *)
(*                                                                         *)
(* A process has one ledger, reset by each session start, while a session  *)
(* has its own runner; an attempt keeps the runner it was called on. What  *)
(* a command does, what a mapping says and where the argv points are free. *)
(***************************************************************************)
EXTENDS Naturals, Sequences, SequencesExt, FiniteSets

CONSTANTS
    Attempts,      \* calls of the two host surfaces
    MaxSessions,   \* bound on session starts
    Limit          \* how many programs the summary names

ASSUME HostAssumption == MaxSessions \in Nat /\ Limit \in Nat \ {0}

VARIABLES
    session,       \* the session running, 0 before the first
    config,        \* per session, what its configuration grants
    run,           \* the attempts
    trail,         \* per attempt, its audit records
    ledger,        \* the host-run ledger
    notices,       \* what was announced, in order
    writable       \* whether the audit directory can be written

vars == <<session, config, run, trail, ledger, notices, writable>>

Configs == [allow : BOOLEAN, audited : BOOLEAN]

\* The runner's own policy check repeats the surfaces' on the same
\* configuration, so no attempt that reaches it is denied there.
Results == {"none", "usage", "withheld", "unmapped", "refused", "failed", "done", "threw"}

RunStates ==
    [pc : {"idle", "mapping", "running", "ended"},
     of : 0..MaxSessions,       \* the session whose runner it was called on
     result : Results,
     endedIn : 0..MaxSessions]  \* the session running when it ended

Ledgers == [count : Nat, recent : Seq(Attempts), firstRunNoted : BOOLEAN]

Notices == [by : Attempts, in : 0..MaxSessions, claim : {"audited", "unaudited", "withheld"}]

TypeOK ==
    /\ session \in 0..MaxSessions
    /\ config \in [1..MaxSessions -> Configs]
    /\ run \in [Attempts -> RunStates]
    /\ trail \in [Attempts -> Seq({"denied", "error", "done"})]
    /\ ledger \in Ledgers
    /\ Len(ledger.recent) <= Limit
    /\ notices \in Seq(Notices)
    /\ writable \in BOOLEAN

EmptyLedger == [count |-> 0, recent |-> <<>>, firstRunNoted |-> FALSE]

Init ==
    /\ session = 0
    /\ config \in [1..MaxSessions -> Configs]
    /\ run = [a \in Attempts |-> [pc |-> "idle", of |-> 0, result |-> "none", endedIn |-> 0]]
    /\ trail = [a \in Attempts |-> <<>>]
    /\ ledger = EmptyLedger
    /\ notices = <<>>
    /\ writable = TRUE

-----------------------------------------------------------------------------
(* The ledger and the record.                                              *)

NewestAndOne(s) == SubSeq(s, IF Len(s) > Limit THEN Len(s) - Limit ELSE 1, Len(s))

\* The bounded list of programs, oldest first.
Newest(s) == SubSeq(s, IF Len(s) > Limit THEN Len(s) - Limit + 1 ELSE 1, Len(s))

\* noteFirstRun and the notice it answers for: once per reset of the ledger.
Note(a, claim) ==
    /\ ledger' = [count |-> ledger.count + 1,
                  recent |-> Newest(Append(ledger.recent, a)),
                  firstRunNoted |-> TRUE]
    /\ notices' = IF ledger.firstRunNoted THEN notices
                  ELSE Append(notices, [by |-> a, in |-> session, claim |-> claim])

Audited(a) == config[run[a].of].audited

Claim(a) == IF Audited(a) THEN "audited" ELSE "unaudited"

Ends(a, result) ==
    run' = [run EXCEPT ![a] = [@ EXCEPT !.pc = "ended", !.result = result, !.endedIn = session]]

EndsCountedFirst(a, result, record) ==
    /\ Ends(a, IF Audited(a) /\ ~writable THEN "threw" ELSE result)
    /\ trail' = IF Audited(a) /\ writable THEN [trail EXCEPT ![a] = Append(@, record)] ELSE trail
    /\ Note(a, Claim(a))

\* Every way a runner's attempt ends: the record, then the count. A write that
\* throws leaves neither, and takes the place of the outcome; with the audit
\* disabled the writer accepts the record and drops it.
EndsRecorded(a, result, record) ==
    IF Audited(a) /\ ~writable
    THEN Ends(a, "threw") /\ UNCHANGED <<trail, ledger, notices>>
    ELSE /\ Ends(a, result)
         /\ trail' = IF Audited(a) THEN [trail EXCEPT ![a] = Append(@, record)] ELSE trail
         /\ Note(a, Claim(a))

-----------------------------------------------------------------------------

SessionStartKeepsNotice ==
    /\ session < MaxSessions
    /\ session' = session + 1
    /\ ledger' = [EmptyLedger EXCEPT !.firstRunNoted = ledger.firstRunNoted]
    /\ UNCHANGED <<config, run, trail, notices, writable>>

\* session_start composes a runner on the configuration read and resets the
\* ledger.
SessionStart ==
    /\ session < MaxSessions
    /\ session' = session + 1
    /\ ledger' = EmptyLedger
    /\ UNCHANGED <<config, run, trail, notices, writable>>

Calls(a) == run[a].pc = "idle" /\ session > 0

\* Withheld by configuration: the surface counts the attempt itself, and leaves
\* no record.
Withheld(a) ==
    /\ Calls(a)
    /\ ~config[session].allow
    /\ run' = [run EXCEPT ![a] = [pc |-> "ended", of |-> session, result |-> "withheld",
                                  endedIn |-> session]]
    /\ Note(a, "withheld")
    /\ UNCHANGED <<session, config, trail, writable>>

\* An empty argv is a usage error: neither recorded nor counted.
EmptyArgv(a) ==
    /\ Calls(a)
    /\ config[session].allow
    /\ run' = [run EXCEPT ![a] = [pc |-> "ended", of |-> session, result |-> "usage",
                                  endedIn |-> session]]
    /\ UNCHANGED <<session, config, trail, ledger, notices, writable>>

\* With a workspace selected the runner first awaits its path mapping; with
\* none it starts the command at once.
RunStarts(a) ==
    /\ Calls(a)
    /\ config[session].allow
    /\ \E pc \in {"mapping", "running"} :
          run' = [run EXCEPT ![a] = [@ EXCEPT !.pc = pc, !.of = session]]
    /\ UNCHANGED <<session, config, trail, ledger, notices, writable>>

MappingFailsUnrecorded(a) ==
    /\ run[a].pc = "mapping"
    /\ Ends(a, "unmapped")
    /\ UNCHANGED <<session, config, trail, ledger, notices, writable>>

\* The registry read behind the mapping rejects.
MappingFails(a) ==
    /\ run[a].pc = "mapping"
    /\ EndsRecorded(a, "unmapped", "error")
    /\ UNCHANGED <<session, config, writable>>

\* The argv names a path only the container has.
ContainerPathRefused(a) ==
    /\ run[a].pc = "mapping"
    /\ EndsRecorded(a, "refused", "denied")
    /\ UNCHANGED <<session, config, writable>>

Spawned(a) ==
    /\ run[a].pc = "mapping"
    /\ run' = [run EXCEPT ![a].pc = "running"]
    /\ UNCHANGED <<session, config, trail, ledger, notices, writable>>

\* A spawn error, the timeout or the caller's abort.
RunFails(a) ==
    /\ run[a].pc = "running"
    /\ EndsRecorded(a, "failed", "error")
    /\ UNCHANGED <<session, config, writable>>

RunDone(a) ==
    /\ run[a].pc = "running"
    /\ EndsRecorded(a, "done", "done")
    /\ UNCHANGED <<session, config, writable>>

\* The audit directory fills up, or is made writable again.
TrailFlips ==
    /\ writable' = ~writable
    /\ UNCHANGED <<session, config, run, trail, ledger, notices>>

Step(a) ==
    \/ Withheld(a) \/ EmptyArgv(a) \/ RunStarts(a)
    \/ MappingFails(a) \/ ContainerPathRefused(a) \/ Spawned(a)
    \/ RunFails(a) \/ RunDone(a)

Next ==
    \/ SessionStart
    \/ \E a \in Attempts : Step(a)
    \/ TrailFlips

Spec == Init /\ [][Next]_vars

-----------------------------------------------------------------------------
(* Properties.                                                             *)

Counted == Results \ {"none", "usage", "threw"}

\* The attempts that have ended since the last session start, in no order.
EndedHere == {a \in Attempts : run[a].result \in Counted /\ run[a].endedIn = session}

\* The records an attempt that ended so leaves in an audited session.
RecordsOf(result) ==
    CASE result = "refused" -> <<"denied">>
      [] result \in {"unmapped", "failed"} -> <<"error">>
      [] result = "done" -> <<"done">>
      [] OTHER -> <<>>

\* "Every attempt - denial, failure, success - leaves a record": each attempt a
\* runner ended has exactly one, of the kind it ended as, unless the audit is
\* disabled or could not be written; and nothing else leaves any.
RecordedAsItEnded ==
    \A a \in Attempts :
        trail[a] = IF run[a].of > 0 /\ Audited(a) THEN RecordsOf(run[a].result) ELSE <<>>

\* The ledger is a summary of the trail and not a second opinion: whatever the
\* interleaving of attempts and session starts, it has counted each attempt that
\* ended in this session once, and names the newest of them. One whose record
\* could not be written is not counted.
LedgerCountsEnds ==
    /\ ledger.count = Cardinality(EndedHere)
    /\ Range(ledger.recent) \subseteq EndedHere
    /\ IsInjective(ledger.recent)
    /\ Len(ledger.recent) = (IF ledger.count > Limit THEN Limit ELSE ledger.count)

\* A session that has counted an attempt has announced its first one, once; and
\* the notice claims a record exactly if there is one.
AnnouncedOnce ==
    LET here == {i \in DOMAIN notices : notices[i].in = session} IN
    /\ Cardinality(here) = (IF ledger.count > 0 THEN 1 ELSE 0)
    /\ \A i \in DOMAIN notices :
          notices[i].claim = "audited" <=> trail[notices[i].by] # <<>>

=============================================================================
