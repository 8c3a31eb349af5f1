# A TLA+ verification of pi-devcontainer-manager

`pi-devcontainer-manager` is an extension of the Pi coding agent. It discovers
the DevContainer workspaces of a machine, keeps one of them *selected* per
session, routes the agent's shell commands into its container, runs the
lifecycle operations (`up`, `build`, `rebuild`, `stop`, `remove`) under a policy
and with confirmations, records everything it does in an audit trail, and offers
one audited escape hatch to the host. All of it runs in one Node.js process:
there are no threads, but nearly every operation awaits Docker, the Dev
Containers CLI or the operator, and whatever else the session does runs in
between. That is what these models are about: one step of a model is the code
between two awaits, and the awaits interleave freely.

The modules are translated from the TypeScript under `src/` (paths below are
relative to the repository, which has its own `src/`, `extensions/` and `test/`).
`PROJECT.json` maps every definition to the lines it stands for.

Contents: 1 the system, 2 the modules, 3 the abstract specifications, 4 the runs,
5 where code and documentation disagree, 6 fairness, 7 the proofs, 8 what is not
modelled, 9 the plan.

## 1. The system

### Components, their state, their operations

| Component | State | Operations | Correct when |
|---|---|---|---|
| Target store (`src/target-store.ts`) | the selection; a promise chain of pending operations | `select`, `selectIfNone`, `clear`; `bind` and `bindContainer` read it at once | operations commit in the order called, none lost, and only a selection naming a running container is `selected-valid` |
| Selection rules (`target-adoption.ts`, `target-repair.ts`, `selection-state.ts`, `commands.ts`, `runtime/host-discovery.ts`) | none | adoption, repair, reconcile, `selectionFor` | an ambiguous workspace is never guessed, a project never mixed up, a stale container or configuration never carried on |
| Automatic selection (`autoSelect`, `extensions/index.ts`) | none of its own; reads registry, cache, store, activation | called by a request whose selection is empty, stopped or missing | a default yields to what an operator chose meanwhile |
| Slash commands (`commands.ts`) | the command in flight | `list use up build rebuild stop remove exec status logs off setup` | the selection committed is the one named; destruction only after a confirmation |
| Execution service (`execution-service.ts`) | `lifecycleInFlight`, a slot per workspace | `exec`, `bash`, `up`, `build`, `rebuild`, `stop`, `remove`, `logs` | one build per workspace, every attempt audited truthfully, nothing removed unconfirmed |
| Process runner (`runtime/process-runner.ts`, `bash-router.ts`) | a child process, timers, two capped buffers | `exec`, `executeWithTimeout` | one answer, always; no process left after a timeout or an abort |
| Session lifecycle (`lifecycle.ts`, `activation.ts`, `extensions/index.ts`) | a generation, the shared runtime, per runtime an activation decision, registered surfaces | `session_start`, `session_shutdown`, engage, `off` | a superseded start changes nothing; an opt-out and `never` hold; agent and operator run in the same place |
| Host runner and ledger (`host-runner.ts`, `host-run-ledger.ts`) | a count, a bounded summary, a first-run flag | host commands of the agent and the operator | every attempt recorded as it ended, counted once, the first one of a session announced |
| Lifecycle transcripts (`lifecycle-log.ts`) | a file per operation, `latest`, `lastFailure` | start, output, finish, `takeFailure` | what fits is kept, a cut is reported, a failure reaches the agent once |
| Registry and discovery (`runtime/host-discovery.ts`, `runtime/docker-adapter.ts`) | none; a short cache in front (`short-cache.ts`) | scan of the roots, `docker ps` and its parsing, merge into entries | the entries depend on no listing order; what is not found is reported (but for a failing probe, section 5) |
| Configuration and policy (`config.ts`, `policy.ts`) | none after loading | load, validate, merge, `evaluatePolicy` | a project file only narrows; an unusable one withholds host execution |
| Paths and guards (`path-mapper.ts`, `routing-guard.ts`, `workspace-path.ts`) | none | mapping, presentation, the guards of both surfaces | a guard refuses what names another file on its side, and nothing else |
| The dsh harness (`extensions/dsh/`) | the memoised registry promise, the adoption switch, its own store | shell commands, the slash command's verbs, the model's tool | the same rules as under Pi; a read made before a mutation is not used after it |
| Tools, rendering, setup | see section 8 | | |

### How they interact

A request of the agent (`devcontainer_exec`, routed `bash`) looks up the shared
runtime, asks the policy, may call `autoSelect` (registry read, then the store),
binds the selection, and runs the CLI through the process runner; the service
records it. A slash command keeps the runtime it was typed in, reads the registry,
may run the CLI, reconciles the selection through the store's queue, persists a
record in the session log and engages the surfaces. `session_start` composes a
runtime, decides activation (perhaps after a Docker probe), registers the
surfaces and restores the persisted selection. Every build writes a transcript,
whose failure the next agent turn takes into its prompt.

Under dsh, the shell provider, the slash command and the model's tool share one
runtime service: every command, and every verb but `off`, first asks `autoSelect`,
which awaits the registry promise that all of them share. Policy, path guards and
registry are functions that both harnesses call.

### Which behaviours are hard

Decisions taken from a registry read and applied after other operations have
committed; the activation gate checked before an await and relied on after it;
an operation that outlives its session; a slot that must be returned on all of a
dozen exits; an audit write that throws in place of the result; a deadline racing
the command it bounds; a helper process that survives its parent with the pipes
open; transcripts finished twice; one promise awaited by several callers across a
refresh. The functions are hard in another way: a merge of four different rules, path
spellings with a root on either side, output cut in the middle of a record. `PROJECT.json`, "hazards", lists each at its line, with
the properties that cover it or the reason none does.

## 2. The modules

| Module | Models | State and actions |
|---|---|---|
| `TargetRules` | the pure rules | A registry read is a function from containers to `absent / exited / running` (`seen`). `SelectionFor`, `ResolveTargetRepair`, `ResolveTargetAdoption`, `ReconcileSelection`, `UseSelections`, `UpConfig` and `ResolvedConfig` carry the source's names. The result of a rule that takes the first of equally ranked containers is a *set* of selections, since Docker's order is unspecified |
| `TargetStore` | `TargetStore` and its promise chain | `selection`, `queue`; an operation is appended when called and committed by `CommitHead`. A caller waiting for its operation waits until it is no longer `Pending` |
| `TargetSession` (extends both) | one session: requests, one command at a time, the restore, the outside world | `exec[e].pc` and `op[p].pc` name the await a request or a command is in. `world` is Docker, `cache` the short cache, `intent` the newest record of the session log, `active` the activation decision. `UpCli` and `DockerDone` change the world, `WorldChanges` is another Docker client |
| `ExecutionService` | the eight operations of the service, in one or several sessions | `attempt[a]` is a call with its pc, kind, binding and result; `slots` is `lifecycleInFlight`; `trail` the audit records of each attempt; `log` its transcript; `writable` whether the audit directory can be written, `audited` whether a session's configuration enables the audit. `EndsRecorded` is `audit(...)` followed by the return or throw: a write that fails turns the result into `threw`, and with the audit disabled (`src/audit.ts:26`) nothing is written and nothing can fail |
| `BoundedRun`, `ProcessRunner` | `NodeProcessRunner.exec` below `executeWithTimeout` | the caller's answer and deadline, the abort signal, the runner's promise and timer, a child and one helper it forks (holding the pipes or detached), per stream produced and captured output. One event of Node's loop is one step, and aborting runs the listeners in the same step |
| `SessionLifecycle` | the facade's `session_start`, `session_shutdown`, the engage and `off` paths | `generation` and `IsCurrent` are the lifecycle guard; `runtime` the shared runtime; `decision` per runtime; `registered` the taken-over surfaces. `BashTool` and `UserBash` say where the agent's bash and the operator's `!` run |
| `HostRunner` | the host surfaces, the runner and the ledger | `run[a]` an attempt on the runner of the session it was made in; `ledger` shared by the process and reset by `SessionStart`; `notices` what was announced; `trail` the records |
| `LifecycleLog` | the transcript writer and the turn that takes the failure | `run[r]` an operation and its file: produced, kept, capped, broken, finished; `latest`, `failure` (`lastFailure`), `held` (taken by a turn that is awaiting), `told` |
| `DshSession` (extends `TargetStore`) | the runtime service of the dsh harness, its shell commands and its two verb surfaces | `reads` are the registry promises begun so far, `memo` the one `registry()` hands out, `enabled` the adoption switch; `exec[e]` and `op[p]` as in `TargetSession`, with the promise each awaits. `ReadLands` and `ReadFails` settle a promise for everyone who holds it |
| `ConfigLayers` | loading, validating and merging the two files; the policy | operators: `LayerOf`, `Valid`, `Compile`, `EvaluatePolicy`, with one merge rule per operator |
| `Routing` | path normalisation, the mapping, the path shown to the agent, the two guards | a path is the sequence of segments after its first slash, so that empty, `.` and `..` segments are spellings; `ContainerFile` says which file a path names behind the bind mounts |
| `Registry` (extends `TargetRules`) | `walkDir`, `parsePsAll`, `buildWorkspaceRegistry` | operators over directory trees and over listings: sequences of records, whole, short or garbled, perhaps cut |
| `PureRules` | `ConfigLayers`, `Routing` and `Registry` | a state is one case put to one of them; the next state is another case. Its `Tried` constants say which |
| `*_proofs` | theorems, section 7 | |
| `MC*` | instances for TLC | `ProcessRunner` needs none: its constants are numbers |

In each module, a definition that no action uses and that stands just before a
similar one (`CommitHeadPoisoned`, `OffCommandAtOnce`, `ClaimIgnoringSlot`,
`RefreshMemoKept`, `IntersectUnlessEmpty`, ...) is a wrong version of its neighbour: what a plausible bug
in that code would do. `PROJECT.json`, "mutants", pairs every checked property
with one that breaks it, which shows that the property is able to fail.

Abstractions made throughout: a path, an argv, a message or an identity is a model
value (in `Routing`, where its spelling matters, a sequence of segments); wording and
formatting are left out; what the parsing of a command line or of CLI output can
decide is a choice; time is a step that may happen.

Choices within the modules that a reader of the code should know:

- `TargetStore` promises are resolved by their own commit, so a caller resumes at
  any time after it: others may commit first. `beginRefresh`/`endRefresh` are called
  by tests only, so the `refreshing` status does not occur.
- `TargetSession` runs one slash command at a time (Pi's prompt awaits it) beside
  any number of requests. Activation is `"workspace"`, the mode in which evidence
  decides. A cached read may be used until it is replaced: its 500 ms are not
  measured, so it is at most as stale as the events of the run make it.
- `ExecutionService` lets the selection of each session move by any step, policy
  and guards answer either way, and a subprocess succeed, fail or be cancelled. It
  is more permissive than any composition with `TargetSession`; so the safety it
  satisfies, the composition does.
- `ProcessRunner` is POSIX: `taskkill` on Windows is left out.
- `SessionLifecycle` lets commands of an earlier session end in a later one.
- `HostRunner` omits the runner's own policy check, which the surfaces make first
  on the same configuration.
- `LifecycleLog` omits the pruning of old files and the transcript an earlier
  session left behind.
- `DshSession` merges the stages of a shell command that share no state: policy,
  guard and CLI are in `ExecutionService`. A command in a directory without a
  configuration is the host executor's, or the container path's while the module
  of that executor is still loading. `list`, `build` and `status` only join the
  registry read. Configurations are constants, so a workspace never disappears.
- `ConfigLayers` has one key for each of the ways keys merge, and the four numeric
  ones; the two destructive grants are kept apart since `rebuild` reads the second.
  Roots are compared as spelled by the merge and as directories by the policy,
  as in the code, and the Pi entry's addition of the cwd is part of `Effective`.
- `Registry` takes the label of a container as Docker prints it, with several
  spellings (or links) of one workspace; the map of `docker ps` fields to lines is
  the distinction of whole, short and garbled records. `docker inspect` has no caller.

## 3. Abstract specifications

- `TargetStore!StoreSpec`: the selection is written only by committing the oldest
  operation called; no operation is lost, reordered or committed twice. The whole
  of `TargetSession` is checked and proved to implement it
  (`SessionUsesStore`): no request, command or restore writes the selection
  around the queue.
- `BoundedRun!Spec`: a run settles once, and after a cancellation or a timeout
  nothing of it lives, then or later. `ProcessRunner` implements it with
  `outcome <- settled, alive <- Alive` (`RunBounded`, proved as
  `RunnerImplementsBoundedRun`).

- `TargetRules` itself: `Registry!ImplementsRules` says that the entries computed from
  a listing are what the rules of selection take a registry read to be (discovered,
  candidates, primary, ambiguous). `RegistryImplementsRules` checks it for every
  listing of the run, so that the abstraction `seen` of the session modules
  is one of the code's own data.

## 4. The runs

Eight passing runs check the modules; four violation runs show the disagreements of section 5.

**`target_session`** (`MCTargetSession.cfg`). Two projects: A may run two
containers, so it can be ambiguous, and has a configuration that only `--config`
selects; B is known by its container alone. Four initial sessions: nothing
persisted; a persisted target whose container is now stopped and whose
configuration was renamed; the same target while A is ambiguous; and B persisted
though it no longer exists. One request, and up to two events (commands, outside
changes, cached reads): the least with which something can commit between a read
and the commit decided from it, after the world has changed as well. Checked:

- `SelectionsWellFormed`: every selection held or queued names a running container
  if valid, one of its own workspace, a configuration that workspace has;
- `StoreSpec`; `AdoptionNeverDisplaces`: a default never displaces a choice;
- `AutoSelectKeepsProject`: what is selected for a request is its project;
- `AmbiguityNeverGuessed`: only `use` takes a container of an ambiguous workspace;
- `RequestsSettle` (liveness): every request runs or is refused.

**`execution_service`** (`MCExecutionService.cfg`). Two attempts of any kind over
two workspaces in one session, its audit enabled or not, the selection moving and
the audit directory failing at any step. Two attempts are the least that contend for a
slot; a third could only repeat one of the two roles, since attempts share nothing but
slots and selection. Checked: `SlotHeldByItsBuild` (a held slot has exactly its holder, a
workspace never two builds of a service); `TrailTruthful` (one record at most, a
denial only of what never ran, a success only of what ran, never another container
than the one bound); `AnsweredIsRecorded` (where the audit is enabled, only a full
slot or a throw ends without a record); `RemovalsConfirmed`;
`TranscriptsFinished`; `SlotsFreed` (liveness).

**`process_runner`** (`ProcessRunner.cfg`). One command, a cap of two units on streams
that carry up to four: chunks leave room, fill the cap exactly, cross it, arrive
after it. Checked: `TimeoutLeavesNothing`, `OutputAccounted`,
`RunBounded`, and `CallerAnswered` (liveness): the caller is answered even if a
helper holds the pipes for ever.

**`session_lifecycle`** (`MCSessionLifecycle.cfg`). Two starts, two commands, one
shutdown: a command of the first session can end in the second, with a probe of
either in flight. Checked: `BashNeverDrifts` (while a session runs, the agent's
bash and the operator's run in the same place), `OptOutHolds`,
`SupersededMutatesNothing`.

**`host_runner`** (`MCHostRunner.cfg`). Three attempts over two sessions with every
pair of configurations, a summary of two programs: an attempt in flight across a
session start, and one more than the summary names. Checked: `RecordedAsItEnded`;
`LedgerCountsEnds` (the ledger counts each attempt that ended in this session once
and names the newest); `AnnouncedOnce` (one notice per session, claiming a record
exactly if there is one). Attempts are interchangeable: symmetry is used, and no
liveness is checked in that run.

**`lifecycle_log`** (`MCLifecycleLog.cfg`). Two overlapping operations, each with up to
one unit more output than the limit of two, and three turns. Checked:
`TranscriptAccounted` (exactly the first bytes are kept and a cut is reported
exactly if something is missing), `ToldOnce`, `FailureOutlivesSuccess`. Symmetry as
above.

**`dsh_session`** (`MCDshSession.cfg`). A project A with two possible containers, a
project N nested in it, a plain directory of A, the session started in A; one shell
command from any of the three, both verb surfaces, and two events (verbs, outside
changes, failing reads). Two events let a verb of one surface overtake one of the
other, or a read fail and a verb follow. Checked: `FreshAfterUp` (the selection after
`up` and `rebuild` is decided from a read begun after their CLI ended, and no older
read is ever handed out again); `AdoptionNeverDisplaces`; `RequestsSettle` (liveness).

**`pure_rules`** (`MCPureRules.cfg`). Every pair of files over small domains that differ
in what the policy reads, in their numbers, or in being an object at all; every
host path of up to two segments including empty and `..` ones, every container path
up to depth two including the root, no, one or two further mounts (mirrored or not),
every token of three segments, with names of one and of three characters, since the
guard compares lengths; every listing of up to three containers over two
workspaces, cut and spoilt anywhere; every tree of names, links and permissions
over a chain of four directories and a side branch, with a nested root and depths one to
three, one of the directories having its configuration at the root, in `.devcontainer`
or named there, with the probe of the file and the listing of `.devcontainer` failing or
not. That is every shape the code distinguishes: its comparisons are of one
path with another, of one container's state with "running", of a depth with its
bound. Checked: `ProjectOnlyNarrows`, `HostExecutionFailsClosed`, `GuardExact`,
`ShownPathWorks`, `RegistryImplementsRules`, `NoContainerLostSilently`,
`LostOnlyByProbe` (a configuration is found, or told of, or lost to a failing probe of
its file, which the code does not report: section 5).

A type invariant is checked in the runs of `TargetSession`, `HostRunner`,
`LifecycleLog` and `DshSession`; those of `ExecutionService`, `ProcessRunner` and
`SessionLifecycle` are proved (section 7). Deadlock is
checked where the system cannot stop (`ExecutionService`, whose environment always
can move, and `PureRules`); elsewhere a behaviour ends when its bounded inputs are used up, or a
command has been answered, so the configurations switch the check off.

Bounds: `MaxEvents` (TargetSession, DshSession), the `Tried` sets and `MaxRecords`
(PureRules), `MaxBytes` (ProcessRunner), `MaxShutdowns`
(SessionLifecycle), `MaxSessions` (HostRunner), `MaxProduced` and `MaxTurns`
(LifecycleLog), and the finite sets of callers. All are constants; the theorems of
section 7 hold for every value.

## 5. Where code and documentation disagree

Each of these runs checks one sentence of the repository and finds a behaviour of
the code that contradicts it. `PROJECT.json`, "findings", quotes it.

| Run, property | What the sentence says | What the code does |
|---|---|---|
| `explicit_use_wins`, `ExplicitUseWins` | an explicit `use` that landed while `autoSelect` was discovering must win | true of the adoption; the *repair* of a parked selection is an unconditional `select` after its await and overwrites the `use` |
| `one_build_per_workspace`, `OneBuildPerWorkspace` | two sessions that `up` the same workspace: one operation, one owner | the slot map belongs to one service and each session has its own |
| `ran_is_recorded`, `RanIsRecorded` | every operation writes one record | a registry read between the command's end and its record can reject outside every audited region |
| `running_project_needs_no_use`, `RunningProjectNeedsNoUse` | under dsh a project whose container runs needs no manual `use` | a rejected registry promise is kept as the memo; the verbs that could replace it await it first, so adoption never recovers |

Disagreements met while modelling that have no run of their own, the first four
because the models show them in passing, the others because they are outside what
the models speak of:

- `src/activation.ts:74-77`: an opt-out has to hold for the rest of the session. The
  gate is read before `autoSelect`'s await; an `off` meanwhile is followed by a
  commit that selects again (`ExecDecide` of `TargetSession`). The dsh switch
  (`extensions/dsh/runtime.ts:160`) has the same window, and the slash command sets it only
  after its handler.
- `README.md:112-115`: `use --config` picks a configuration that later operations
  carry. For a workspace without a container it is dropped (`SelectionFor`).
- `src/lifecycle.ts:12`: whoever is not current mutates nothing. A command of an
  earlier session bumps the shared guard when it ends and supersedes the current
  session's start (`CommandEnds`).
- `extensions/dsh/runtime.ts:58`: refresh follows a mutation the runtime performed.
  `stop` and `remove` do not refresh (`DockerDone` of `DshSession`).
- `README.md:285`, `docs/configuration.md:47`: `destructive.*` require `true` in both files.
  A project file that does not mention them leaves the global grant (`Granted`).
- `docs/configuration.md:68-69`: a project value that is clamped is reported. `maxDepth`,
  `retentionDays` and `commandCapture` never are, and the two numeric limits only if
  the global file sets them too (`describeConfigDiagnostics`).
- `extensions/dsh/executor.ts:96-97`: a spec never mixes the two paths. While the host
  executor is still loading, `resolve` takes the container path and `execute` may
  delegate.
- `src/runtime/host-discovery.ts:53`: the diagnostics are everything the scan could not
  do. `isExistingFile` (279-285) takes any failing stat for absence, so a configuration
  in a `.devcontainer` that can be listed but not searched is neither found nor told of
  (`LostSilently` of `Registry`); `LostOnlyByProbe` says that nothing else is.
- `src/path-mapper.ts:10`: `workspaceMount` is authoritative when present. One that is no
  bind mount falls back to `workspaceFolder` although nothing of the host is mounted.

Behaviours of the same kind that no sentence excludes: `stop` and `remove` leave the
selection as it was (`DockerDone`); the restore and the reconcile after `up` overwrite a
`use` or `off` that committed meanwhile; a host attempt that ends after the next
session start consumes that session's notice (`Note`); a run without a transcript has
its failure queued again by the service after a turn has taken it (`Finish`, which is
why `ToldOnce` speaks of runs with a transcript); a turn whose registry read rejects
loses the failure it had taken (`TurnFails`); an audit write that throws leaves the
transcript of an unconfirmed rebuild open (`RebuildUnconfirmed`); a dsh command in a
subdirectory of a project goes to the host executor (`ExecDelegated`); a selection parked
in an outer project is repaired for a request made in a nested one; a project file may
shorten `excludedDirectories` and so widen the scan; nested roots list a configuration
twice; a container path spelled with dots escapes the ancestor test of the
guard; a mirror mount whose two sides differ by a trailing slash is not recognised; a
mount inside the workspace can shadow what the guard calls the same file (`GuardExact`
is stated for mounts apart from the workspace); on the host, the guard refuses the
host's own workspace if the container path is an ancestor of it.

## 6. Fairness

Nothing is assumed of people or of Docker: nobody has to type a command, answer a
prompt, call again or start a session, and a process may run and hold its pipes
for ever. Assumed, as weak fairness:

- `TargetSession`: the store's chain commits, and a request's continuation runs when
  what it awaits settles. A registry read settles because the Docker subprocess
  behind it runs under the process runner's timeout (`ExecRead \/ ExecReadFails`).
- `ExecutionService`: the same of each attempt. That the subprocess itself ends is
  `CallerAnswered` of `ProcessRunner`, or the operator's abort.
- `DshSession`: the store commits, a registry promise settles (as above), a shell
  command's continuation runs. Verbs and approvals are owed by nobody.
- `ProcessRunner`: a spawn or its refusal happens, a reported error is delivered, an
  armed timer fires, a settled promise's continuation runs. `Closes`, the exit
  of child or helper, and the caller's deadline and abort are *not* fair.

## 7. The proofs

TLAPS checks the theorems below for every value of the constants, under each
module's named assumption. These say only that the distinguished values (`NoConfig`,
`NoContainer`, ...) are not ordinary ones, that the tables of workspaces,
containers and configurations have the type the registry gives them, that the
kinds of callers are disjoint, that there are finitely many directories, and that the
bounds are natural numbers.

**`TargetSession_proofs`** begins with lemmas, one for each rule of `TargetRules`, that
its result is a selection and *sound*: a running container if valid, of its own
workspace, and a configuration that workspace has, whatever the read
(`SelectionForSound`, `RepairSound`, `AdoptionSound`, `ReconcileSound`, `UseSound`).
The inductive invariant is

    IInv == TypeOK /\ VerbInv /\ SoundInv /\ QueueInv

`SoundInv` extends soundness to the operations still in the queue, without which a
commit could not preserve it. `QueueInv` says that a request whose operation is
queued still waits for it and still holds what it asked from, so that what was
true of the operation when called is true when it commits. `VerbInv` ties the
picker to `use`. The key lemma, `StoreStep`, says that every step of the
session is for the store a call with known properties, a commit, or nothing; the
theorems follow from it and the invariant:

- `TypeCorrect`, `SelectionsAreWellFormed`, `AutoSelectStaysInProject`
- `SessionUsesStore`: the refinement of `StoreSpec`
- `AdoptionYields`, `AmbiguityIsAsked`: the action properties

**`DshSession_proofs`**. The inductive invariant is

    IInv    == ReadInv /\ QueueInv
    ReadInv == TypeOK /\ OpInv /\ ExecInv /\ Budget /\ FreshInv

`TypeOK` bounds the number of registry reads, and a verb begins a read of its own when
it refreshes, so the bound is no invariant by itself: `Budget` counts the CLI runs and
the reads the verbs under way are still owed against what `eventsLeft` allows. `OpInv`
and `ExecInv` say that every promise awaited has been begun, and that a verb that has
an operation queued awaits no read. `FreshInv` adds to `FreshAfterUp` that no refresh is
stamped later than the mutations there were. `QueueInv` says that whoever has an
operation queued is at the await that resumes on it, and that a default adopted for an
empty store is queued as `selectIfNone`, never as `select`. The lemmas say once what a
step can do: to the reads (nothing, begin one, join the memo, settle one: `ReadsGrow`),
to a verb (`Moves`), to a shell command (`ExecMoves`), and to the store (`StoreStep`).
Theorems:

- `TypeCorrect`, `ReadsAreFresh`
- `DshUsesStore`: the refinement of `StoreSpec`
- `AdoptionYields`: the action property

**`ProcessRunner_proofs`**, with `IInv == TypeOK /\ ProcInv /\ CutInv /\ AbortInv`.
`AbortInv` is the heart: an abort while the promise is pending means that nothing
has been spawned yet, and an answer "timeout" that an abort was sent. Hence nothing
survives a timeout even when it strikes during discovery. Theorems: `TypeCorrect`,
`NothingLeftAfterTimeout`, `OneAnswer`, `OutputIsAccounted` (for every cap and
amount of output), `RunnerImplementsBoundedRun`.

**`SessionLifecycle_proofs`**, with
`IInv == TypeOK /\ SurfacesInv /\ NeverInv /\ OptOutInv`. `BashNeverDrifts` is
not inductive: the surfaces' registration must be known of every runtime that is
engaged, not just of the current one (`SurfacesInv`). `OptOutInv` adds that turning
off has superseded whatever that session was still probing. Theorems: `TypeCorrect`,
`BashAgrees`, `NeverHolds`, `OptOutStands`, `SupersededIsInert`; for any number of
sessions and commands. `NeverHolds` (a session configured `never` is engaged by nothing) has
no run.

**`ExecutionService_proofs`**, with `IInv == TypeOK /\ AttemptInv /\ SlotInv`.
`AttemptInv` says of each attempt alone what its pc, trail and transcript know of each
other: nothing is recorded before the end, `acted` holds exactly while or after a
subprocess ran for it, the record and the transcript fit the result, and there is a
record exactly where the audit is enabled and the attempt neither found its slot taken
nor threw. `SlotInv` says
that a free slot has no builder and a held one exactly the builder it names. The key
lemma, `MovesKeeps`, is that every step of an attempt is a `Move`: it leaves the other
attempts alone and either has nothing to do with the slots, takes a free one, or
gives back its own. Theorems: `TypeCorrect`, `SlotsAreExact`, `TrailIsTruthful`,
`AnswersAreRecorded`, `RemovalsAreConfirmed`, `TranscriptsAreFinished`.

**`LifecycleLog_proofs`**, with `IInv == TypeOK /\ RunInv /\ ReportInv /\ OnceInv`.
`ToldOnce` counts reports in three places; `OnceInv` says instead that the places
exclude each other, and is inductive only with `ReportInv` (a report is of a run that
has finished) and with the outcome that a run with a transcript never changes: so the
step that reports it is the first that finishes it (`FirstReport`). Theorems:
`TypeCorrect`, `TranscriptIsAccounted`, `ReportsAreTruthful`, `ToldAtMostOnce`,
`FailureStands`.

**`HostRunner_proofs`**, with `IInv == TypeOK /\ RunsInOrder /\ RecordedAsItEnded /\
LedgerInv /\ NoticesInv`. `LedgerCountsEnds` is not inductive alone: `LedgerInv` adds that
`EndedHere`, the set of attempts that ended since the last session start, is finite (the
length of the ledger is bounded by its cardinality) and that the first run is noted
exactly when something was counted. `NoticesInv` carries the announcements: each notice
is of an attempt that ended, of a session up to the current one, with the claim the
attempt's trail makes, and the current session has exactly one when its first run is
noted. The lemmas follow the ways the ledger changes: an attempt that ends is counted
(`NotedLedger`, `NotedNotices`), a step of an attempt that does not end leaves both parts
alone (`QuietStep`), a session start empties them. Theorems: `TypeCorrect`,
`RecordsAreExact`, `LedgerIsExact`, `FirstIsAnnounced`; for any number of attempts and
sessions and any length of the summary.

**`PureRules_proofs`**. The configuration first: for any sets of roots, places and
environment names and any two files, the merge of each key yields no more than the
global file alone and the policy is monotone in the configuration; nothing about the
file pairs is assumed but their type (`ProjectNarrowsOnly`, `HostIsWithheld`).

The other parts compute by recursion, over the segments of a path, the records of a
listing or the levels of a tree, and are proved for inputs of every size. The
induction this takes is stated without operator parameters: a non-empty set of
naturals has a least element (`NatMin`, from the library's minimality of well-founded
orders), so a set that holds 0 and is closed under the successor up to `m` holds
`0..m` (`InductionUpTo`), and a function defined by its steps exists up to any `m`
(`RecursionUpTo`). Of each recursive function one lemma then says that it has a value
and unfolds once (`NormUnfolds`, `LengthUnfolds`, `OnlyUnfolds`, `WalkUnfolds`), and the
facts about it follow by induction from that.

- *The scan.* `Reachable` and `AtOrBelow` are growing sets that close within
  `Cardinality(Nodes)` steps because there are finitely many directories
  (`ReachableGrows`, `AtOrBelowGrows`). By induction on the levels left, whatever lies
  below a directory is found by the walk from there, or is told of, itself or by a
  directory it lies in, or is one whose failing probe the code takes for absence.
  `ScanLosesOnlyByProbe`.
- *The listing.* Filtering keeps exactly the records in the set, in order, each once
  (`OnlyKeeps`); hence running candidates come first, the primary is one of
  `Primaries`, and the count of running ones exceeds one exactly if two differ
  (`RunningComeFirst`, `MoreThanOne`). A record is whole and becomes a candidate of its
  label's workspace or is told of, and what was never printed is behind the cut.
  `RegistryIsFaithful`, `NoContainerLost`.
- *The paths.* Normalising is idempotent on names (`NormOfNames`), ignores trailing empty
  segments (`NormSkipsBlanks`) and keeps names appended (`NormKeepsNames`): so the
  shown path normalises to the container's workspace followed by what lies below the
  host's (`ShownIs`). Two beginnings of one path nest (`PrefixesNest`), so of mounts that
  lie apart at most one is over a path, and the path names the same file on both sides
  exactly if that mount mirrors (`SameFile`). The guard asks whether the container's
  workspace is an ancestor of the host's by comparing string lengths; a path never gets
  longer by normalising (`NormIsShorter`), so the comparison holds of every real
  descent, however it is spelled (`DescentIsLonger`). `GuardIsExact`, `ShownPathsWork`.

The theorems about the guards hold under what `JudgeRouting` and `TriedAssumption` say of
a configuration, and the code does need it: a container path spelled without dots or
empty segments; mounts that do not lie in one another; a mount that mirrors a path
spells it alike on both sides (`samePathMounts`, `src/path-mapper.ts:278`, compares the
raw strings); and no host path or token of nothing but slashes other than `/`, which
`src/routing-guard.ts:36` trims to the empty string and line 58 takes for no path.
Names are any segments but `.`, `..` and the empty one, of any length.

**Only model-checked**: the liveness properties (`RequestsSettle` twice, `SlotsFreed`,
`CallerAnswered`), since the installed provers treat neither fairness nor `ENABLED`.
Every other property of a passing run is proved, as are the inductive invariants it
needs. The four properties of section 5 are refuted by their runs.

## 8. What is not modelled

- **Registry and Docker discovery**: the file names a scan looks for and the order among
  the configurations of one workspace (a constant, `PrimaryConfig`); `docker inspect`,
  which nothing calls; the splitting of labels, in which a comma ends a value.
- **Short cache**: only as `cache` of `TargetSession`; expiry, key limit and failed
  loads are left out.
- **Path mapping**: the splitting of mount strings, variables, `containerOnlyMounts`
  (presentation). The sessions let the guards and the policy answer either way, which
  is more than they do.
- **Configuration loading**: the JSONC reader, type errors of keys that grant nothing,
  keys a project may choose freely, the report of clamped values.
- **Selection records**: parsing of malformed and old-version payloads.
- **The dsh extension**: prompt section, rendering, `setup`, `host-exec`, `logs`, the
  handles of the shell executor; its `exec` is the service of `ExecutionService`.
- **Tools, prompt context, rendering**: wording and truncation, but for the failure
  report (`LifecycleLog`).
- **Setup, capabilities, packaging scripts**: sequential I/O.
- Of the commands, `build`, `logs`, `status`, `exec` and `setup` do not write the store
  and are not in `TargetSession`; what the first two make the service do is in
  `ExecutionService`. Windows process termination is left out of `ProcessRunner`.

## 9. The plan

What a further extension would take up, in order of importance:

1. The composition of `SessionLifecycle` with `TargetSession`: the session log that a
   command outliving its session writes to, the restore of a superseded start.
2. The short cache (expiry, key limit, joined and failed loads) as the detailed
   specification of the `cache` of `TargetSession`.
3. `ConfigLayers` and `Routing` inside `ExecutionService` and `HostRunner`, in place of the
   free choice of policy and guards.
4. Proofs: that the entries `buildWorkspaceRegistry` yields, seen through `SeenIn`, are
   a read in the sense of `TargetSession`, so that `RegistryIsFaithful` composes with
   its theorems; that `evaluatePolicy` and the guards, put in place of the free
   choices, leave the theorems of `ExecutionService` as they are.
