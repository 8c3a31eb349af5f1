------------------------------ MODULE Registry ------------------------------
(***************************************************************************)
(* How the workspace registry is read: the scan of the host for            *)
(* configurations, the parsing of what `docker ps' printed, and the merge  *)
(* of the two into one entry per workspace.                                *)
(*                                                                         *)
(* Docker prints records; each names a container and the folder it is      *)
(* labelled for, as the label spells it. A record arrives whole, with too  *)
(* few lines, or as lines that are no JSON; the byte cap can cut the       *)
(* listing, and then the last record may be such a half.                   *)
(***************************************************************************)
EXTENDS TargetRules, Naturals, Sequences, SequencesExt, FiniteSets

CONSTANTS
    Folders, BlankFolder,   \* what a label can say; the blank one says nothing
    Realpath,               \* the workspace a folder is, links resolved
    DockerStates,           \* what Docker calls a container's state
    Nodes,                  \* directories of the host, by their path
    ChildrenOf              \* the directories in a directory

Forms == {"whole", "short", "garbled"}

Records == [id : Containers, folder : Folders, state : DockerStates, form : Forms]

Listings == [records : Seq(Records), truncated : BOOLEAN]

ASSUME RegistryAssumption ==
    /\ BlankFolder \in Folders
    /\ Realpath \in [Folders \ {BlankFolder} -> Workspaces]
    /\ "running" \in DockerStates
    /\ IsFiniteSet(Nodes)
    /\ ChildrenOf \in [Nodes -> SUBSET Nodes]

\* The records of a sequence that are in a set, in their order.
Only(records, kept) ==
    LET among[n \in 0..Len(records)] ==
            IF n = 0 THEN <<>>
            ELSE IF records[n] \in kept THEN Append(among[n - 1], records[n])
            ELSE among[n - 1]
    IN  among[Len(records)]

-----------------------------------------------------------------------------
(* parsePsAll.                                                             *)

Whole == {r \in Records : r.form = "whole"}

ParsedWholeListing(listing) ==
    IF listing.truncated THEN <<>>
    ELSE Only(listing.records, Whole)

\* The records that became containers; a bad one costs only itself.
Parsed(listing) == Only(listing.records, Whole)

\* The half the cap left behind is not reported on top of the cut itself.
ParseErrors(listing) ==
    {[what |-> "unparseable", at |-> i] :
        i \in {j \in DOMAIN listing.records :
                  /\ listing.records[j].form # "whole"
                  /\ ~(listing.truncated /\ j = Len(listing.records))}}
    \cup (IF listing.truncated THEN {[what |-> "truncated", at |-> 0]} ELSE {})

-----------------------------------------------------------------------------
(* buildWorkspaceRegistry.                                                 *)

\* mapContainerState, down to what a selection tells apart.
MapContainerState(state) == IF state = "running" THEN "running" ELSE "exited"

NoFolder(r) == r.folder = BlankFolder

\* Running first; the order is otherwise Docker's.
AsDockerOrders(records) == records

IsRunning(r) == MapContainerState(r.state) = "running"

RunningFirst(records) ==
    Only(records, {r \in Records : IsRunning(r)})
    \o Only(records, {r \in Records : ~IsRunning(r)})

LabelledFor(w) == {r \in Records : ~NoFolder(r) /\ Realpath[r.folder] = w}

ContainerCandidates(w, containers) == RunningFirst(Only(containers, LabelledFor(w)))

RunningCount(candidates) ==
    Cardinality({i \in DOMAIN candidates : IsRunning(candidates[i])})

Registered(containers) ==
    ConfigWorkspaces \cup {w \in Workspaces : ContainerCandidates(w, containers) # <<>>}

\* The entries, by workspace path.
BuildWorkspaceRegistry(containers) ==
    [w \in Registered(containers) |->
        LET candidates == ContainerCandidates(w, containers) IN
        [kind       |-> IF w \in ConfigWorkspaces THEN "config" ELSE "container-only",
         candidates |-> candidates,
         ambiguous  |-> RunningCount(candidates) > 1]]

Unlabelled(containers) ==
    {[what |-> "unlabelled", at |-> containers[i].id] :
        i \in {j \in DOMAIN containers : NoFolder(containers[j])}}

PrimaryCandidate(entry) ==
    IF entry.candidates = <<>> THEN NoContainer ELSE entry.candidates[1].id

-----------------------------------------------------------------------------
(* What a listing owes the session.                                        *)

\* The registry read that the rules of selection speak of.
SeenIn(containers) ==
    [c \in Containers |->
        LET of == {i \in DOMAIN containers : containers[i].id = c /\ ~NoFolder(containers[i])} IN
        IF of = {} THEN "absent" ELSE MapContainerState(containers[CHOOSE i \in of : TRUE].state)]

\* The entries say what TargetRules takes a read to say: which workspaces there
\* are, which container is primary, which of them are ambiguous.
ImplementsRules(listing) ==
    LET containers == Parsed(listing)
        registry == BuildWorkspaceRegistry(containers)
        seen == SeenIn(containers)
    IN  /\ DOMAIN registry = {w \in Workspaces : Discovered(w, seen)}
        /\ \A w \in DOMAIN registry :
              /\ {registry[w].candidates[i].id : i \in DOMAIN registry[w].candidates}
                 = Candidates(w, seen)
              /\ PrimaryCandidate(registry[w]) \in Primaries(w, seen)
              /\ registry[w].ambiguous <=> Ambiguous(w, seen)

\* The i-th container of a host is behind the cut, or is the half in front of it.
CutOff(i, listing) ==
    /\ listing.truncated
    /\ i <= Len(listing.records) => i = Len(listing.records) /\ listing.records[i].form # "whole"

\* Docker listed this container as its i-th: it is a candidate of exactly one
\* workspace, or a diagnostic accounts for it.
AccountsFor(c, i, listing) ==
    LET containers == Parsed(listing)
        registry == BuildWorkspaceRegistry(containers)
        Held(w) == \E k \in DOMAIN registry[w].candidates : registry[w].candidates[k].id = c
        told == ParseErrors(listing) \cup Unlabelled(containers)
    IN  \/ \E w \in DOMAIN registry : Held(w) /\ \A v \in DOMAIN registry : Held(v) => v = w
        \/ CutOff(i, listing) /\ [what |-> "truncated", at |-> 0] \in told
        \/ [what |-> "unlabelled", at |-> c] \in told
        \/ [what |-> "unparseable", at |-> i] \in told

-----------------------------------------------------------------------------
(* walkDir. Every directory owns a configuration: at its root, or in its   *)
(* .devcontainer, named or not. A tree says of each directory how its name *)
(* counts, whether it can be read, whether it is a link that leaves the    *)
(* root of the scan, and what fails about its configuration.               *)

Trees ==
    [name       : [Nodes -> {"plain", "hidden", "excluded"}],
     unreadable : SUBSET Nodes,
     escaping   : SUBSET Nodes,
     form       : [Nodes -> {"root", "unnamed", "named"}],
     unprobed   : SUBSET Nodes,   \* the stat of its configuration fails
     unlisted   : SUBSET Nodes]   \* its .devcontainer cannot be listed

\* Neither is entered, and neither is reported.
Skipped(tree, d) == tree.name[d] # "plain"

\* What was found, the directories a diagnostic names, and those of which one
\* names the configuration.
NothingFound == [found |-> {}, told |-> {}, ownTold |-> {}]

\* What several listings found and told.
AllOf(finds) ==
    [found   |-> UNION {x.found : x \in finds},
     told    |-> UNION {x.told : x \in finds},
     ownTold |-> UNION {x.ownTold : x \in finds}]

PrunedSilently(d) == NothingFound

\* Not entered, but named by a diagnostic.
Pruned(d) == [NothingFound EXCEPT !.told = {d}]

\* isExistingFile takes a failing stat in .devcontainer for absence, and no
\* diagnostic speaks of it; unless .devcontainer cannot even be listed.
LostSilently(tree, d) ==
    tree.form[d] # "root" /\ d \in tree.unprobed /\ d \notin tree.unlisted

\* A named configuration is looked for in the listing of .devcontainer; the stat
\* of one at the root is told when it fails.
OwnConfig(tree, d) ==
    [found   |-> IF d \in tree.unprobed \/ (tree.form[d] = "named" /\ d \in tree.unlisted)
                 THEN {} ELSE {d},
     told    |-> {},
     ownTold |-> IF d \in tree.unlisted \/ (tree.form[d] = "root" /\ d \in tree.unprobed)
                 THEN {d} ELSE {}]

\* A directory is searched for its own configuration and for directories. One
\* below the depth or outside the root is not entered; one that cannot be read is
\* told. `left' levels may still be entered; `below' is the walk of the next one.
Entered(tree, left, below, d) ==
    IF d \in tree.unreadable THEN [NothingFound EXCEPT !.told = {d}]
    ELSE AllOf({OwnConfig(tree, d)} \cup
               {IF left = 0 \/ sub \in tree.escaping THEN Pruned(sub) ELSE below[sub] :
                   sub \in {s \in ChildrenOf[d] : ~Skipped(tree, s)}})

WalkDir(tree, maxDepth) ==
    LET walk[left \in 0..maxDepth] == [d \in Nodes |-> Entered(tree, left, walk[left - 1], d)]
    IN  walk[maxDepth]

\* discoverHostConfigs: every root is scanned from depth 0, nested ones too.
DiscoverHostConfigs(tree, roots, maxDepth) ==
    AllOf({WalkDir(tree, maxDepth)[r] : r \in roots})

\* The directories a scan could reach were there no depth, link or permission.
Reachable(tree, roots) ==
    LET grow[n \in 0..Cardinality(Nodes)] ==
            IF n = 0 THEN roots
            ELSE grow[n - 1] \cup
                 {d \in UNION {ChildrenOf[e] : e \in grow[n - 1]} : ~Skipped(tree, d)}
    IN  grow[Cardinality(Nodes)]

\* A directory and the ones beneath it.
AtOrBelow(d) ==
    LET grow[n \in 0..Cardinality(Nodes)] ==
            IF n = 0 THEN {d} ELSE grow[n - 1] \cup UNION {ChildrenOf[e] : e \in grow[n - 1]}
    IN  grow[Cardinality(Nodes)]

AllFoundOrTold(tree, roots, maxDepth) ==
    LET scan == DiscoverHostConfigs(tree, roots, maxDepth) IN
    \A d \in Reachable(tree, roots) :
        \/ d \in scan.found \cup scan.ownTold
        \/ \E e \in scan.told : d \in AtOrBelow(e)
        \/ LostSilently(tree, d)

=============================================================================
