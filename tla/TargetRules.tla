---------------------------- MODULE TargetRules ----------------------------
(***************************************************************************)
(* The pure rules of target selection: what the workspace registry says    *)
(* about a workspace, how a selection is derived from it, and which target *)
(* a request may adopt, repair or reconcile on its own.                    *)
(*                                                                         *)
(* `seen' is always one registry read: the container states one run of     *)
(* `docker ps' reported, which may be out of date when it is used.         *)
(* Configuration files do not change while a session runs.                 *)
(*                                                                         *)
(* Docker lists containers of equal rank in an order nobody specifies, so  *)
(* a rule that takes "the first candidate" is a set of possible outcomes.  *)
(***************************************************************************)
CONSTANTS
    Workspaces,        \* canonical workspace keys
    Containers,        \* container ids carrying a devcontainer.local_folder label
    Configs,           \* configuration files that need an explicit --config
    Dirs,              \* directories a request can be made from
    NoWorkspace, NoContainer, NoConfig,
    WorkspaceOf,       \* the workspace a container is labelled for
    ConfigWorkspaces,  \* the workspaces that own a configuration on the host
    ConfigsOf,         \* the explicit configurations discovered in a workspace
    PrimaryConfig,     \* what the primary configuration needs as --config
    Under,             \* the directories at or below a workspace
    SessionCwd         \* the directory the session was started in

ASSUME RulesAssumption ==
    /\ NoWorkspace \notin Workspaces
    /\ NoContainer \notin Containers
    /\ NoConfig \notin Configs
    /\ Workspaces \subseteq Dirs
    /\ WorkspaceOf \in [Containers -> Workspaces]
    /\ ConfigWorkspaces \subseteq Workspaces
    /\ ConfigsOf \in [Workspaces -> SUBSET Configs]
    /\ \A w \in Workspaces \ ConfigWorkspaces : ConfigsOf[w] = {}
    /\ PrimaryConfig \in [Workspaces -> Configs \cup {NoConfig}]
    /\ \A w \in Workspaces : PrimaryConfig[w] \in ConfigsOf[w] \cup {NoConfig}
    /\ Under \in [Workspaces -> SUBSET Dirs]
    /\ \A w \in Workspaces : w \in Under[w]
    /\ SessionCwd \in Dirs

\* Every Docker state other than "running" is refused alike; "absent" is a
\* container Docker does not list.
ContainerStates == {"absent", "exited", "running"}

Statuses == {"none", "selected-valid", "selected-ambiguous", "selected-missing",
             "selected-stopped", "selected-policy-denied", "refreshing"}

Selections ==
    [status : Statuses,
     ws     : Workspaces \cup {NoWorkspace},
     cand   : Containers \cup {NoContainer},
     state  : ContainerStates,
     config : Configs \cup {NoConfig}]

NoSelection ==
    [status |-> "none", ws |-> NoWorkspace, cand |-> NoContainer,
     state |-> "absent", config |-> NoConfig]

MissingSelectionUntyped(w) == [NoSelection EXCEPT !.status = "missing", !.ws = w]

MissingSelection(w) == [NoSelection EXCEPT !.status = "selected-missing", !.ws = w]

-----------------------------------------------------------------------------
(* The workspace registry. *)

Reads == [Containers -> ContainerStates]

NothingSeen == [c \in Containers |-> "absent"]

Candidates(w, seen) == {c \in Containers : WorkspaceOf[c] = w /\ seen[c] # "absent"}

RunningOf(w, seen) == {c \in Candidates(w, seen) : seen[c] = "running"}

Discovered(w, seen) == w \in ConfigWorkspaces \/ Candidates(w, seen) # {}

Ambiguous(w, seen) == \E c, d \in RunningOf(w, seen) : c # d

\* The candidates are ordered running-first; the primary is the first one.
Primaries(w, seen) ==
    IF RunningOf(w, seen) # {} THEN RunningOf(w, seen)
    ELSE IF Candidates(w, seen) # {} THEN Candidates(w, seen)
    ELSE {NoContainer}

EntryState(w, seen) == IF RunningOf(w, seen) # {} THEN "running" ELSE "exited"

-----------------------------------------------------------------------------
(* How a selection is derived from a registry entry. *)

ResolvedConfigUnvalidated(w, cfg) ==
    IF w \notin ConfigWorkspaces THEN NoConfig
    ELSE IF cfg = NoConfig THEN PrimaryConfig[w]
    ELSE cfg

\* Only a discovered configuration is carried; without one named, the primary
\* is carried only if the CLI would not find it by itself.
ResolvedConfig(w, cfg) ==
    IF w \notin ConfigWorkspaces THEN NoConfig
    ELSE IF cfg = NoConfig THEN PrimaryConfig[w]
    ELSE IF cfg \in ConfigsOf[w] THEN cfg
    ELSE NoConfig

\* The state is the chosen container's own, and a selection with no container
\* has nowhere to keep a configuration.
SelectionFor(w, c, cfg, seen) ==
    LET state == IF c = NoContainer THEN EntryState(w, seen) ELSE seen[c]
    IN  IF Ambiguous(w, seen) /\ c = NoContainer
        THEN [NoSelection EXCEPT !.status = "selected-ambiguous", !.ws = w]
        ELSE [status |-> IF state = "running" THEN "selected-valid" ELSE "selected-stopped",
              ws     |-> w,
              cand   |-> c,
              state  |-> IF c = NoContainer THEN "absent" ELSE state,
              config |-> IF c = NoContainer THEN NoConfig ELSE ResolvedConfig(w, cfg)]

-----------------------------------------------------------------------------
(* What may be selected without the operator naming it. *)

Repairable == {"selected-stopped", "selected-missing"}

ResolveTargetRepairAnywhere(parked, dir, seen) ==
    IF /\ parked.status \in Repairable
       /\ parked.ws # NoWorkspace
       /\ Discovered(parked.ws, seen)
       /\ ~Ambiguous(parked.ws, seen)
    THEN {SelectionFor(parked.ws, c, parked.config, seen) : c \in RunningOf(parked.ws, seen)}
    ELSE {}

\* Re-derive a selection reality parked: at most one outcome, and none unless
\* exactly one container of the parked workspace runs.
ResolveTargetRepair(parked, dir, seen) ==
    IF /\ parked.status \in Repairable
       /\ parked.ws # NoWorkspace
       /\ dir \in Under[parked.ws]
       /\ Discovered(parked.ws, seen)
       /\ ~Ambiguous(parked.ws, seen)
    THEN {SelectionFor(parked.ws, c, parked.config, seen) : c \in RunningOf(parked.ws, seen)}
    ELSE {}

\* The default of an empty store, for a request made exactly from a project.
ResolveTargetAdoption(dir, seen) ==
    IF dir \in Workspaces /\ Discovered(dir, seen)
    THEN {SelectionFor(dir, c, NoConfig, seen) :
             c \in IF Ambiguous(dir, seen) THEN {NoContainer} ELSE Primaries(dir, seen)}
    ELSE {}

DiscoveredAround(dir, seen) == {w \in Workspaces : dir \in Under[w] /\ Discovered(w, seen)}

\* The same default under the scope "at-or-under": the deepest discovered project
\* around the directory, whatever the order of discovery.
AdoptionAtOrUnder(dir, seen) ==
    UNION {ResolveTargetAdoption(w, seen) :
              w \in {v \in DiscoveredAround(dir, seen) :
                        \A u \in DiscoveredAround(dir, seen) : Under[v] \subseteq Under[u]}}

UsableIdsTrusting(hint, seen) ==
    IF hint.cand \in Candidates(hint.ws, seen) THEN {hint.cand} ELSE Primaries(hint.ws, seen)

\* Re-resolve a hint [ws, cand, config]. The hinted container is trusted only
\* while the read still offers it and the workspace is not ambiguous.
UsableIds(hint, seen) ==
    IF Ambiguous(hint.ws, seen) THEN {NoContainer}
    ELSE IF hint.cand \in Candidates(hint.ws, seen) THEN {hint.cand}
    ELSE Primaries(hint.ws, seen)

\* A hint without a configuration keeps the one this workspace has selected.
ReconcileSelection(hint, current, seen) ==
    LET carried == IF hint.config # NoConfig THEN hint.config
                   ELSE IF current.ws = hint.ws THEN current.config
                   ELSE NoConfig
    IN  IF Discovered(hint.ws, seen)
        THEN {SelectionFor(hint.ws, c, carried, seen) : c \in UsableIds(hint, seen)}
        ELSE {MissingSelection(hint.ws)}

\* What `/devcontainer use' can select in workspace w: any container named by
\* id or picked from an ambiguous workspace, else the primary.
UseSelections(w, cfg, seen) ==
    {SelectionFor(w, c, cfg, seen) :
        c \in Candidates(w, seen) \cup
              (IF Ambiguous(w, seen) THEN {} ELSE Primaries(w, seen))}

\* The configuration `up' hands the CLI: the operator's, else the selected one
\* of this workspace, else the primary.
UpConfig(w, cfg, current) ==
    IF cfg # NoConfig THEN cfg
    ELSE IF current.ws = w /\ current.config \in ConfigsOf[w] THEN current.config
    ELSE IF w \in ConfigWorkspaces THEN PrimaryConfig[w]
    ELSE NoConfig

\* What `up' leaves behind: it starts or reuses a container it finds, else
\* creates one.
UpOutcomes(w, world) ==
    IF Candidates(w, world) # {}
    THEN {[world EXCEPT ![c] = "running"] : c \in Candidates(w, world)}
    ELSE {[world EXCEPT ![c] = "running"] : c \in {d \in Containers : WorkspaceOf[d] = w}}

\* `rebuild' removes the container it finds and creates another: a new id.
RebuildOutcomes(w, world) ==
    IF Candidates(w, world) = {} THEN UpOutcomes(w, world)
    ELSE {[world EXCEPT ![old] = "absent", ![new] = "running"] :
             old \in Candidates(w, world),
             new \in {c \in Containers : WorkspaceOf[c] = w /\ world[c] = "absent"}}

\* A target that may take over the session's surfaces.
Established(sel) == sel.ws # NoWorkspace /\ sel.status \in {"selected-valid", "selected-stopped"}

=============================================================================
