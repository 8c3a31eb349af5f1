------------------------------ MODULE Routing ------------------------------
(***************************************************************************)
(* Paths on the two sides of a workspace's bind mount: how a host path is  *)
(* shown in container terms, and the guards that refuse an argv element    *)
(* which names the other side.                                             *)
(*                                                                         *)
(* A path is spelled as the sequence of segments after its first slash, so *)
(* "/a//b/." is <<a, "", b, ".">> and "/" is <<"">>; <<>> is the empty     *)
(* string. Only absolute paths are modelled: no relative element is ever   *)
(* at or under an absolute one.                                            *)
(***************************************************************************)
EXTENDS Naturals, Sequences, SequencesExt

CONSTANTS
    Names,         \* the segments that are names
    NameLength     \* their lengths

\* What lies between two slashes in a row.
Blank == ""

ASSUME RoutingAssumption ==
    /\ Names \cap {Blank, ".", "..", "none"} = {}
    /\ NameLength \in [Names -> Nat \ {0}]

Segments == Names \cup {Blank, ".", ".."}

Paths == Seq(Segments) \ {<<>>}

Root == <<Blank>>

NoPath == <<"none">>

Dropped(out) == IF out = <<>> THEN out ELSE Front(out)

\* What one more segment makes of those kept so far.
Resolved(out, s) ==
    IF s \in {Blank, "."} THEN out
    ELSE IF s = ".." THEN Dropped(out)
    ELSE Append(out, s)

\* normalizeSegments of an absolute path.
Norm(path) ==
    LET out[n \in 0..Len(path)] == IF n = 0 THEN <<>> ELSE Resolved(out[n - 1], path[n])
    IN  out[Len(path)]

IsAtOrUnderAsSpelled(candidate, base) == IsPrefix(base, candidate)

IsAtOrUnder(candidate, base) == IsPrefix(Norm(base), Norm(candidate))

IsSamePath(left, right) == Norm(left) = Norm(right)

\* Without its trailing slashes, which are trailing empty segments. Only the root
\* keeps its slash: a longer run of slashes is trimmed to the empty string.
TrailingTrimmed(path) ==
    IF path = Root THEN Root
    ELSE LET ends == {n \in 0..Len(path) : \A i \in n + 1..Len(path) : path[i] = Blank}
         IN  SubSeq(path, 1, CHOOSE n \in ends : \A k \in ends : n <= k)

\* Nothing is at or under the empty string, nor it under anything.
TrimmedAtOrUnder(candidate, base) ==
    /\ TrailingTrimmed(candidate) # <<>>
    /\ TrailingTrimmed(base) # <<>>
    /\ IsAtOrUnder(TrailingTrimmed(candidate), TrailingTrimmed(base))

SegmentLength(s) ==
    IF s = Blank THEN 0 ELSE IF s = "." THEN 1 ELSE IF s = ".." THEN 2 ELSE NameLength[s]

\* The length of a spelling as a string: a slash before every segment.
StringLength(path) ==
    LET length[n \in 0..Len(path)] ==
            IF n = 0 THEN 0 ELSE length[n - 1] + 1 + SegmentLength(path[n])
    IN  length[Len(path)]

-----------------------------------------------------------------------------
(* What a configuration declares. A mount's source is expanded.            *)

Mount(source, target) == [type |-> "bind", source |-> source, target |-> target]

\* No workspaceMount.
NoMount == [type |-> "none", source |-> NoPath, target |-> NoPath]

Mapping(host, container) == [hostPath |-> host, containerPath |-> container]

NoMapping == Mapping(NoPath, NoPath)

\* workspaceMount wins when it is a bind mount of two absolute paths; else
\* workspaceFolder, with the configuration's own directory on the host side.
BuildPathMapping(configDir, folder, mount) ==
    IF mount.type = "bind" /\ mount.source # NoPath /\ mount.target # NoPath
    THEN Mapping(mount.source, mount.target)
    ELSE IF folder # NoPath THEN Mapping(configDir, folder)
    ELSE NoMapping

SamePathMountsByTarget(mounts) == {m.target : m \in mounts}

\* The mounts that put one path on both sides, as spelled.
SamePathMounts(mounts) == {m.target : m \in {n \in mounts : n.source = n.target}}

\* What of a path lies below a base it is under.
Below(path, base) == SubSeq(Norm(path), Len(Norm(base)) + 1, Len(Norm(path)))

HostToContainer(path, mapping) ==
    LET container == TrailingTrimmed(mapping.containerPath) IN
    IF mapping = NoMapping \/ ~IsAtOrUnder(path, mapping.hostPath) THEN NoPath
    ELSE IF IsSamePath(path, mapping.hostPath) THEN mapping.containerPath
    ELSE (IF container = Root THEN <<>> ELSE container) \o Below(path, mapping.hostPath)

-----------------------------------------------------------------------------
(* The guards, for one element of the argv.                                *)

\* On the host surface: a container path is refused unless the mapping keeps it.
FindContainerPath(token, mapping) ==
    /\ mapping # NoMapping
    /\ ~IsSamePath(mapping.containerPath, mapping.hostPath)
    /\ IsAtOrUnder(token, mapping.containerPath)

\* The ancestor test asks for a longer string, so it takes only a real descent.
ContainerIsAncestorOfHost(mapping) ==
    /\ StringLength(TrailingTrimmed(mapping.hostPath))
       > StringLength(TrailingTrimmed(mapping.containerPath))
    /\ TrimmedAtOrUnder(mapping.hostPath, mapping.containerPath)

\* On the container surface: a host path is refused unless it is the container's
\* own workspace or the same file on both sides.
DetectHostPath(token, mapping, visible) ==
    /\ mapping # NoMapping
    /\ ~IsSamePath(mapping.hostPath, mapping.containerPath)
    /\ TrimmedAtOrUnder(token, mapping.hostPath)
    /\ ContainerIsAncestorOfHost(mapping) \/ ~TrimmedAtOrUnder(token, mapping.containerPath)
    /\ ~\E v \in visible : TrimmedAtOrUnder(token, v)

-----------------------------------------------------------------------------
(* Which file a path names: on the host itself, in the container the file  *)
(* the deepest mount over it brings in, or one only the container has.     *)

HostFile(path) == [side |-> "host", path |-> Norm(path)]

MountsOver(path, mounts) == {m \in mounts : IsAtOrUnder(path, m.target)}

DeepestMount(path, mounts) ==
    CHOOSE m \in MountsOver(path, mounts) :
        \A n \in MountsOver(path, mounts) : IsAtOrUnder(m.target, n.target)

ContainerFile(path, mounts) ==
    IF MountsOver(path, mounts) = {} THEN [side |-> "container", path |-> Norm(path)]
    ELSE LET m == DeepestMount(path, mounts) IN
         [side |-> "host", path |-> Norm(m.source) \o Below(path, m.target)]

\* No mount covers another or lies inside it.
MountsApart(workspace, mounts) ==
    /\ \A m \in mounts : /\ ~IsAtOrUnder(m.target, workspace.target)
                         /\ ~IsAtOrUnder(workspace.target, m.target)
    /\ \A m, n \in mounts : m # n => ~IsAtOrUnder(m.target, n.target)

\* A mount that mirrors a path spells it alike on both sides.
MirrorsSpelledAlike(mounts) ==
    \A m \in mounts : IsSamePath(m.source, m.target) => m.source = m.target

\* A spelling of more than slashes, if it is not the root's.
NotBareSlashes(path) == TrailingTrimmed(path) # <<>>

\* The container's own workspace, unless it covers the host's.
OwnWorkspace(token, mapping) ==
    /\ IsAtOrUnder(token, mapping.containerPath)
    /\ IsAtOrUnder(mapping.hostPath, mapping.containerPath)
       => IsSamePath(mapping.hostPath, mapping.containerPath)

\* The container surface refuses a token only if it names another file there, and
\* lets a path of the host workspace through only if it is the same file or is
\* the container's own workspace.
GuardExactFor(token, mapping, visible, mounts) ==
    LET same == ContainerFile(token, mounts) = HostFile(token) IN
    /\ DetectHostPath(token, mapping, visible) => ~same
    /\ ~DetectHostPath(token, mapping, visible) /\ IsAtOrUnder(token, mapping.hostPath)
       => same \/ OwnWorkspace(token, mapping)

\* The path an agent is shown for a file of the workspace names that file in the
\* container, is accepted there, and is refused on the host.
ShownPathWorksFor(path, mapping, visible, mounts) ==
    LET shown == HostToContainer(path, mapping)
        kept == IsSamePath(mapping.hostPath, mapping.containerPath)
    IN  shown # NoPath =>
          /\ ContainerFile(shown, mounts) = HostFile(path)
          /\ kept \/ FindContainerPath(shown, mapping)
          /\ kept \/ IsAtOrUnder(mapping.hostPath, mapping.containerPath)
             \/ ~DetectHostPath(shown, mapping, visible)

=============================================================================
