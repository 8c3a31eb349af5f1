---------------------------- MODULE ConfigLayers ----------------------------
(***************************************************************************)
(* The effective configuration: how the global and the project file are    *)
(* read, validated and merged, and what the policy then authorises.        *)
(*                                                                         *)
(* A key left out of a file is Unset; Null and Malformed stand for what    *)
(* JSON can hold in place of a boolean. Roots and names are compared as    *)
(* spelled, which is what the merge does.                                  *)
(***************************************************************************)
EXTENDS Naturals

CONSTANTS
    Roots,          \* spellings of workspace roots
    SessionRoot,    \* the session's cwd
    Places, NoPlace,\* directories a request can name, and naming none
    RootsAround,    \* the roots a place is at or below, links resolved
    EnvNames,       \* names of environment variables
    ProtectedNames, \* the PI_ names and those that look like a secret
    DirNames, DefaultExcluded,
    DefaultLimit,   \* DEFAULTS, for each numeric key
    Unset, Null, Malformed

NumericKeys == {"maxTimeoutSeconds", "maxOutputBytes", "maxDepth", "retentionDays"}

\* commandCapture: none, fingerprint-only, redacted-text.
CaptureModes == 0..2

DefaultCapture == 1

Flags == BOOLEAN \cup {Unset, Null, Malformed}

Layers ==
    [shape    : {"object", "other", "unparsable"},   \* other: JSON, but no object
     roots    : (SUBSET Roots) \cup {Unset},
     env      : (SUBSET EnvNames) \cup {Unset},
     excluded : (SUBSET DirNames) \cup {Unset},
     limit    : [NumericKeys -> Nat \cup {Unset}],
     capture  : CaptureModes \cup {Unset},
     stop     : Flags,
     remove   : Flags,
     host     : Flags]

ASSUME ConfigAssumption ==
    /\ SessionRoot \in Roots
    /\ NoPlace \notin Places
    /\ RootsAround \in [Places -> SUBSET Roots]
    /\ ProtectedNames \subseteq EnvNames
    /\ DefaultExcluded \subseteq DirNames
    /\ DefaultLimit \in [NumericKeys -> Nat \ {0}]
    /\ Unset \notin BOOLEAN
    /\ Null \notin BOOLEAN \cup {Unset}
    /\ Malformed \notin BOOLEAN \cup {Unset, Null}

EmptyLayer ==
    [shape |-> "object", roots |-> Unset, env |-> Unset, excluded |-> Unset,
     limit |-> [k \in NumericKeys |-> Unset], capture |-> Unset,
     stop |-> Unset, remove |-> Unset, host |-> Unset]

-----------------------------------------------------------------------------
(* Reading a layer.                                                        *)

HostExecutionUnusableObject(l) == l.host = Malformed

\* A layer that is no object, or whose hostExecution cannot be read; an allow of
\* null is left to validation.
HostExecutionUnusable(l) == l.shape = "other" \/ l.host = Malformed

\* Such a layer withholds host execution; one that is no object says nothing else.
LayerOf(l) ==
    IF ~HostExecutionUnusable(l) THEN l
    ELSE IF l.shape = "object" THEN [l EXCEPT !.host = FALSE]
    ELSE [EmptyLayer EXCEPT !.host = FALSE]

\* validateConfig: a layer that fails it leaves the session without a configuration.
Valid(l) ==
    /\ \A k \in NumericKeys : l.limit[k] # 0
    /\ l.stop \in BOOLEAN \cup {Unset}
    /\ l.remove \in BOOLEAN \cup {Unset}
    /\ l.host \in BOOLEAN \cup {Unset}

ProjectLayer(p, trusted) == IF trusted THEN LayerOf(p) ELSE EmptyLayer

\* A file that is no JSON throws, like one that is not valid.
Loads(g, p, trusted) ==
    /\ g.shape # "unparsable" /\ Valid(LayerOf(g))
    /\ trusted => p.shape # "unparsable"
    /\ Valid(ProjectLayer(p, trusted))

-----------------------------------------------------------------------------
(* Merging them.                                                           *)

Given(x, default) == IF x = Unset THEN default ELSE x

\* The project's number under the ceiling of the global one or the default.
Clamp(p, g, default) ==
    LET ceiling == Given(g, default) IN
    IF Given(p, ceiling) <= ceiling THEN Given(p, ceiling) ELSE ceiling

IntersectUnlessEmpty(p, g, default) ==
    LET ceiling == Given(g, default) IN
    IF p = Unset THEN ceiling ELSE IF g = Unset THEN p ELSE p \cap ceiling

Intersect(p, g, default) ==
    LET ceiling == Given(g, default) IN
    IF p = Unset THEN ceiling ELSE p \cap ceiling

\* destructive: the global file grants, and the project file does not withhold.
Granted(p, g) == g = TRUE /\ p # FALSE

\* hostExecution: granted by default, withheld by either file.
HostAllowed(p, g) == p # FALSE /\ g # FALSE

\* compileConfig over two layers as read.
Compile(g, p) ==
    [roots    |-> Intersect(p.roots, g.roots, {}),
     env      |-> Intersect(p.env, g.env, {}),
     excluded |-> Intersect(p.excluded, g.excluded, DefaultExcluded),
     limit    |-> [k \in NumericKeys |-> Clamp(p.limit[k], g.limit[k], DefaultLimit[k])],
     capture  |-> Clamp(p.capture, g.capture, DefaultCapture),
     stop     |-> Granted(p.stop, g.stop),
     remove   |-> Granted(p.remove, g.remove),
     host     |-> HostAllowed(p.host, g.host)]

\* The Pi entry adds the session's cwd to the roots.
Effective(g, p, trusted) ==
    LET config == Compile(LayerOf(g), ProjectLayer(p, trusted))
    IN  [config EXCEPT !.roots = @ \cup {SessionRoot}]

-----------------------------------------------------------------------------
(* Policy.                                                                 *)

Operations == {"exec", "up", "host-exec", "stop", "remove", "rebuild"}

Requests == [operation : Operations, place : Places \cup {NoPlace}, env : SUBSET EnvNames]

WorkspaceAllowed(place, config) ==
    place = NoPlace \/ RootsAround[place] \cap config.roots # {}

EnvironmentAllowed(names, config) ==
    names \subseteq config.env /\ names \cap ProtectedNames = {}

\* rebuild needs the grant of the removal it performs.
DestructionAllowed(operation, config) ==
    /\ operation = "stop" => config.stop
    /\ operation \in {"remove", "rebuild"} => config.remove

\* The first reason that applies, in the order the code asks.
EvaluatePolicy(config, r) ==
    IF ~WorkspaceAllowed(r.place, config) THEN "workspace-not-allowed"
    ELSE IF ~DestructionAllowed(r.operation, config) THEN "destructive-operation-disabled"
    ELSE IF r.operation = "host-exec" /\ ~config.host THEN "host-execution-disabled"
    ELSE IF ~EnvironmentAllowed(r.env, config) THEN "environment-variable-denied"
    ELSE "authorized"

Authorized(config, r) == EvaluatePolicy(config, r) = "authorized"

-----------------------------------------------------------------------------
(* What the merge owes the operator, for a pair of files.                  *)

LimitsWithin(c, d) ==
    /\ \A k \in NumericKeys : c.limit[k] <= d.limit[k]
    /\ c.capture <= d.capture

\* Whatever a project file says, and whether or not it is trusted, a request the
\* policy authorises under it would be authorised without it, and no limit is
\* higher.
Narrows(g, p, trusted) ==
    LET with == Effective(g, p, trusted)
        without == Effective(g, EmptyLayer, FALSE)
    IN  Loads(g, p, trusted) =>
          /\ \A r \in Requests : Authorized(with, r) => Authorized(without, r)
          /\ LimitsWithin(with, without)

\* A file that speaks of host execution and does not grant it in so many words.
Withholds(l) == l.shape # "object" \/ l.host \in {FALSE, Null, Malformed}

FailsClosed(g, p, trusted) ==
    Withholds(g) \/ (trusted /\ Withholds(p))
    => \/ ~Loads(g, p, trusted)
       \/ \A r \in Requests :
             r.operation = "host-exec" => ~Authorized(Effective(g, p, trusted), r)

=============================================================================
