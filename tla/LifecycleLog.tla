----------------------------- MODULE LifecycleLog -----------------------------
(***************************************************************************)
(* The transcripts of a session's lifecycle operations (up, build, rebuild, *)
(* stop, remove, setup) and the failure they leave for the agent: the newest *)
(* one is kept until a turn takes it into its prompt.                       *)
(*                                                                         *)
(* Operations overlap, since only builds of one workspace exclude each      *)
(* other. Most are finished twice, by the adapter that ran the CLI and      *)
(* again by the service that awaited it; denials, refused removals and      *)
(* setup once. The log directory and each write to a file may fail.         *)
(***************************************************************************)
EXTENDS Naturals, Sequences, FiniteSets

CONSTANTS
    Runs,          \* lifecycle operations
    MaxBytes,      \* the capture limit of one transcript
    MaxProduced,   \* bound on the output of one operation
    MaxTurns       \* bound on the agent's turns

ASSUME LogAssumption ==
    /\ MaxBytes \in Nat /\ MaxProduced \in Nat /\ MaxTurns \in Nat
    /\ "none" \notin Runs

VARIABLES
    run,           \* the operations and their transcripts
    latest,        \* the writer's metadata of a run
    lastWarning,   \* whether the newest start found no directory to write in
    failure,       \* lastFailure, the newest one not yet reported
    held,          \* what the turn being prepared has taken
    told,          \* what the agent was told, in order (history)
    turns          \* turns prepared so far

vars == <<run, latest, lastWarning, failure, held, told, turns>>

Failures == {"failed", "denied", "cancelled"}
Outcomes == Failures \cup {"completed"}

RunStates ==
    [pc : {"idle", "running", "reported", "ended"},
     log : {"none", "file", "unavailable"},
     produced : 0..MaxProduced,     \* output observed
     kept : 0..MaxBytes,            \* outputBytes
     capped : BOOLEAN,
     broken : BOOLEAN,              \* writeWarning is set
     outcome : Outcomes \cup {"none"}]

NoMetadata == [run |-> "none"]
NoFailure == [run |-> "none"]

Metadata == [run : Runs, outcome : Outcomes \cup {"none"}, warning : BOOLEAN]
FailureReports == [run : Runs, state : Failures, path : BOOLEAN]

TypeOK ==
    /\ run \in [Runs -> RunStates]
    /\ latest \in Metadata \cup {NoMetadata}
    /\ lastWarning \in BOOLEAN
    /\ failure \in FailureReports \cup {NoFailure}
    /\ held \in FailureReports \cup {NoFailure}
    /\ told \in Seq(FailureReports)
    /\ turns \in 0..MaxTurns

Init ==
    /\ run = [r \in Runs |-> [pc |-> "idle", log |-> "none", produced |-> 0, kept |-> 0,
                              capped |-> FALSE, broken |-> FALSE, outcome |-> "none"]]
    /\ latest = NoMetadata
    /\ lastWarning = FALSE
    /\ failure = NoFailure
    /\ held = NoFailure
    /\ told = <<>>
    /\ turns = 0

Least(x, y) == IF x < y THEN x ELSE y

-----------------------------------------------------------------------------
(* The writer.                                                             *)

StartsInFile(r) ==
    /\ run[r].pc = "idle"
    /\ run' = [run EXCEPT ![r] = [@ EXCEPT !.pc = "running", !.log = "file"]]
    /\ latest' = [run |-> r, outcome |-> "none", warning |-> FALSE]
    /\ lastWarning' = FALSE
    /\ UNCHANGED <<failure, held, told, turns>>

\* The operation goes on without a transcript, and latest keeps the run before.
StartsUnavailable(r) ==
    /\ run[r].pc = "idle"
    /\ run' = [run EXCEPT ![r] = [@ EXCEPT !.pc = "running", !.log = "unavailable"]]
    /\ lastWarning' = TRUE
    /\ UNCHANGED <<latest, failure, held, told, turns>>

Kept(st, n) ==
    IF st.capped \/ st.broken THEN 0 ELSE Least(n, MaxBytes - st.kept)

CapturesOneMore(st, n) ==
    [st EXCEPT !.produced = @ + n,
               !.kept = @ + (IF st.capped \/ st.broken THEN 0
                             ELSE IF @ < MaxBytes THEN Least(n, MaxBytes - @) ELSE 1),
               !.capped = @ \/ (~st.broken /\ st.kept >= MaxBytes)]

CapsWhenFull(st, n) ==
    [st EXCEPT !.produced = @ + n,
               !.kept = @ + Kept(st, n),
               !.capped = @ \/ (~st.broken /\ st.kept + Kept(st, n) >= MaxBytes)]

\* writeOutput: the cap is noticed only by output that no longer fits.
Captures(st, n) ==
    [st EXCEPT !.produced = @ + n,
               !.kept = @ + Kept(st, n),
               !.capped = @ \/ (~st.broken /\ Kept(st, n) < n)]

\* A chunk of the CLI's output. A write that fails, of the chunk or of the
\* stream's header before it, is the last one tried.
Output(r) ==
    /\ run[r].pc = "running"
    /\ run[r].log = "file"
    /\ \E n \in 1..(MaxProduced - run[r].produced) :
          \E st \in {Captures(run[r], n),
                     [Captures(run[r], n) EXCEPT !.broken = TRUE],
                     [run[r] EXCEPT !.produced = @ + n, !.broken = TRUE]} :
             run' = [run EXCEPT ![r] = st]
    /\ UNCHANGED <<latest, lastWarning, failure, held, told, turns>>

RecordFailureOrSuccess(r, state) ==
    failure' = IF state = "completed" THEN NoFailure
               ELSE [run |-> r, state |-> state, path |-> run[r].log = "file"]

\* recordFailure: a success reports nothing and forgets nothing.
RecordFailure(r, state) ==
    failure' = IF state = "completed" THEN failure
               ELSE [run |-> r, state |-> state, path |-> run[r].log = "file"]

FinishAgain(r, state, pc) ==
    /\ run' = [run EXCEPT ![r] = [@ EXCEPT !.pc = pc, !.outcome = state]]
    /\ latest' = IF run[r].log = "file"
                 THEN [run |-> r, outcome |-> state, warning |-> run[r].broken]
                 ELSE latest
    /\ RecordFailure(r, state)

\* FileLifecycleLogRun.finish does nothing the second time. The other kind of
\* run has no such flag and reports each time.
Finish(r, state, pc) ==
    IF run[r].log = "file" /\ run[r].outcome # "none"
    THEN /\ run' = [run EXCEPT ![r].pc = pc]
         /\ UNCHANGED <<latest, failure>>
    ELSE \E fails \in (IF run[r].log = "file" THEN BOOLEAN ELSE {FALSE}) :
         /\ run' = [run EXCEPT ![r] =
                      [run[r] EXCEPT !.pc = pc, !.outcome = state, !.broken = @ \/ fails]]
         /\ latest' = IF run[r].log = "file"
                      THEN [run |-> r, outcome |-> state, warning |-> run[r].broken \/ fails]
                      ELSE latest
         /\ RecordFailure(r, state)

\* Denied or refused before the CLI; or a setup.
FinishesOnce(r) ==
    /\ run[r].pc = "running"
    /\ \E state \in Outcomes : Finish(r, state, "ended")
    /\ UNCHANGED <<lastWarning, held, told, turns>>

AdapterFinishes(r) ==
    /\ run[r].pc = "running"
    /\ \E state \in Outcomes \ {"denied"} : Finish(r, state, "reported")
    /\ UNCHANGED <<lastWarning, held, told, turns>>

\* The service classifies the same error, after an await of its own.
ServiceFinishes(r) ==
    /\ run[r].pc = "reported"
    /\ Finish(r, run[r].outcome, "ended")
    /\ UNCHANGED <<lastWarning, held, told, turns>>

-----------------------------------------------------------------------------
(* The agent's turns: before_agent_start takes the failure, whatever the    *)
(* activation.                                                             *)

Tell(report) == told' = IF report = NoFailure THEN told ELSE Append(told, report)

\* Dormant, or with no workspace selected: the prompt is rendered at once.
TurnTells ==
    /\ turns < MaxTurns
    /\ held = NoFailure
    /\ turns' = turns + 1
    /\ failure' = NoFailure
    /\ Tell(failure)
    /\ UNCHANGED <<run, latest, lastWarning, held>>

\* With a workspace selected the prompt awaits a registry read, holding what it
\* took.
TurnTakes ==
    /\ turns < MaxTurns
    /\ held = NoFailure
    /\ failure # NoFailure
    /\ turns' = turns + 1
    /\ failure' = NoFailure
    /\ held' = failure
    /\ UNCHANGED <<run, latest, lastWarning, told>>

TurnRendered ==
    /\ held # NoFailure
    /\ held' = NoFailure
    /\ Tell(held)
    /\ UNCHANGED <<run, latest, lastWarning, failure, turns>>

\* The read rejects: the report taken is gone with it.
TurnFails ==
    /\ held # NoFailure
    /\ held' = NoFailure
    /\ UNCHANGED <<run, latest, lastWarning, failure, told, turns>>

Next ==
    \/ \E r \in Runs :
          \/ StartsInFile(r) \/ StartsUnavailable(r) \/ Output(r)
          \/ FinishesOnce(r) \/ AdapterFinishes(r) \/ ServiceFinishes(r)
    \/ TurnTells \/ TurnTakes \/ TurnRendered \/ TurnFails

Spec == Init /\ [][Next]_vars

-----------------------------------------------------------------------------
(* Properties.                                                             *)

\* The transcript of a run that could be written holds exactly the first
\* MaxBytes of the output and says that it was cut if and only if something is
\* missing: output that fills it exactly is not cut (writeOutput, cap).
TranscriptAccounted ==
    \A r \in Runs :
        run[r].log = "file" /\ ~run[r].broken =>
            /\ run[r].kept = Least(run[r].produced, MaxBytes)
            /\ run[r].capped <=> run[r].produced > MaxBytes

\* The reports under way: pending, taken, or told.
Reports ==
    {told[i] : i \in DOMAIN told} \cup ({failure, held} \ {NoFailure})

\* "A failure that stayed queued would be re-injected every turn"
\* (takeFailure): the failure of a run with a transcript reaches the agent at
\* most once, although its operation finishes it twice and turns come between.
ToldOnce ==
    \A r \in Runs :
        run[r].log = "file" =>
            Cardinality({i \in DOMAIN told : told[i].run = r})
            + (IF failure.run = r THEN 1 ELSE 0) + (IF held.run = r THEN 1 ELSE 0) <= 1

\* What is reported happened: the run has finished as the report says, and a
\* transcript is pointed to exactly if there is one.
ReportsTruthful ==
    \A f \in Reports :
        /\ run[f.run].outcome = f.state
        /\ f.path <=> run[f.run].log = "file"

\* A pending failure is forgotten only by a turn that takes it or for a newer
\* failure, never for an operation that succeeded (recordFailure).
FailureOutlivesSuccess ==
    [][/\ failure # NoFailure
       /\ failure' # failure
       => turns' = turns + 1 \/ failure' # NoFailure]_vars

=============================================================================
