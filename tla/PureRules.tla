------------------------------ MODULE PureRules ------------------------------
(***************************************************************************)
(* The parts of the program that are functions of what they are given: the *)
(* configuration merge and the policy, the path guards, and the registry   *)
(* read. A state is one case put to one of them; the properties say what   *)
(* each owes for every case. The Tried constants are bounds.               *)
(***************************************************************************)
EXTENDS ConfigLayers, Routing, Registry

CONSTANTS
    LayerPairsTried,     \* a global and a project file
    HostSpellings, ContainerSpellings, MountSetsTried, TokenSpellings,
    MaxRecords,          \* containers Docker lists
    TreesTried, RootSetsTried, DepthsTried

VARIABLE judged

Nothing == [about |-> "nothing"]

ASSUME TriedAssumption ==
    /\ LayerPairsTried \subseteq Layers \X Layers
    /\ HostSpellings \cup TokenSpellings \subseteq {p \in Paths : NotBareSlashes(p)}
    /\ ContainerSpellings \subseteq {Root} \cup (Seq(Names) \ {<<>>})
    /\ \A mounts \in MountSetsTried :
          \A m \in mounts : m = Mount(m.source, m.target) /\ {m.source, m.target} \subseteq Paths
    /\ MaxRecords \in Nat
    /\ TreesTried \subseteq Trees
    /\ RootSetsTried \subseteq SUBSET Nodes
    /\ DepthsTried \subseteq Nat \ {0}

Init == judged = Nothing

-----------------------------------------------------------------------------
\* Two files, and whether Pi trusts the project.
JudgeConfig ==
    /\ judged = Nothing
    /\ \E pair \in LayerPairsTried, trusted \in BOOLEAN :
          judged' = [about |-> "config", global |-> pair[1], project |-> pair[2],
                     trusted |-> trusted]

\* A container and the configuration it was made from: its workspace is mounted by
\* workspaceMount, or from the configuration's own directory at workspaceFolder. A
\* container path is spelled without dots or empty segments; no path is a run of
\* slashes, which the guard takes for no path at all.
JudgeRouting ==
    /\ judged = Nothing
    /\ \E host \in HostSpellings, container \in ContainerSpellings, mounts \in MountSetsTried :
          /\ MountsApart(Mount(host, container), mounts)
          /\ MirrorsSpelledAlike(mounts)
          /\ \E mapping \in {BuildPathMapping(Root, container, Mount(host, container)),
                             BuildPathMapping(host, container, NoMount)} :
                judged' = [about |-> "routing", mapping |-> mapping,
                           visible |-> SamePathMounts(mounts),
                           mounts |-> mounts \cup {Mount(host, container)}]

\* What a container may be listed as.
Listed ==
    {r \in [id : Containers, folder : Folders, state : DockerStates, form : {"whole"}] :
        r.folder = BlankFolder \/ Realpath[r.folder] = WorkspaceOf[r.id]}

\* Docker lists every labelled container once; the output breaks off after some of
\* them or inside one, and a record may arrive spoilt.
JudgeListing ==
    /\ judged = Nothing
    /\ \E n \in 0..MaxRecords : \E had \in [1..n -> Listed] :
          /\ \A i, j \in 1..n : had[i].id = had[j].id => i = j
          /\ \E printed \in 0..n : \E forms \in [1..printed -> Forms], truncated \in BOOLEAN :
                /\ printed < n => truncated
                /\ judged' = [about |-> "listing", had |-> had,
                              listing |-> [records |-> [i \in 1..printed |->
                                                          [had[i] EXCEPT !.form = forms[i]]],
                                           truncated |-> truncated]]

JudgeScan ==
    /\ judged = Nothing
    /\ \E tree \in TreesTried, roots \in RootSetsTried, depth \in DepthsTried :
          judged' = [about |-> "scan", tree |-> tree, roots |-> roots, depth |-> depth]

\* The next case.
Dismiss == judged # Nothing /\ judged' = Nothing

Next == JudgeConfig \/ JudgeRouting \/ JudgeListing \/ JudgeScan \/ Dismiss

Spec == Init /\ [][Next]_judged

-----------------------------------------------------------------------------
(* Properties.                                                             *)

\* config.ts, "the ceilings protect the host": no project file, trusted or not, makes
\* the policy authorise a request it would refuse without that file, or raises a limit.
ProjectOnlyNarrows ==
    judged.about = "config" => Narrows(judged.global, judged.project, judged.trusted)

\* config.ts:84, "a layer that is present but malformed must not silently fall back to
\* that default": a file that is read and says anything else of host execution than
\* that it is granted ends in no configuration or in its refusal.
HostExecutionFailsClosed ==
    judged.about = "config" => FailsClosed(judged.global, judged.project, judged.trusted)

\* routing-guard.ts: an element of an argv for the container is refused if it names a
\* file of the host's workspace, and only if it names another file there than here.
GuardExact ==
    judged.about = "routing" =>
      \A token \in TokenSpellings :
          GuardExactFor(token, judged.mapping, judged.visible, judged.mounts)

\* path-mapper.ts: the path an agent is shown for a file of the workspace names that
\* file in the container and passes the container's guard, and the host's refuses it.
ShownPathWorks ==
    judged.about = "routing" =>
      \A path \in TokenSpellings :
          ShownPathWorksFor(path, judged.mapping, judged.visible, judged.mounts)

\* host-discovery.ts, the merge: in whatever order Docker lists the containers, however
\* their labels spell the folder and whatever arrives spoilt, the entries say what the
\* rules of selection take them to say.
RegistryImplementsRules == judged.about = "listing" => ImplementsRules(judged.listing)

\* docker-adapter.ts, "silently drops every record past the cut ... is exactly how a
\* labelled container stops being discoverable": a container Docker lists is a
\* candidate of one workspace, or a diagnostic accounts for it.
NoContainerLostSilently ==
    judged.about = "listing" =>
      \A i \in DOMAIN judged.had : AccountsFor(judged.had[i].id, i, judged.listing)

\* host-discovery.ts:53, "everything the scan could not do": a configuration in or
\* below a root, in no hidden and no excluded directory, is found, or a diagnostic
\* names it or a directory it lies in. What the code owes beyond that and does not
\* give is excepted: a configuration in .devcontainer whose stat fails is taken for
\* absent (isExistingFile), and is lost silently.
LostOnlyByProbe ==
    judged.about = "scan" => AllFoundOrTold(judged.tree, judged.roots, judged.depth)

=============================================================================
