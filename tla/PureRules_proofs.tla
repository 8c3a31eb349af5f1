-------------------------- MODULE PureRules_proofs --------------------------
(***************************************************************************)
(* What the pure parts owe, for inputs of every size: configuration files, *)
(* paths of any number of segments, trees of any shape, listings of any    *)
(* length.                                                                 *)
(*                                                                         *)
(* The merge is proved field by field over two layers as read, and the     *)
(* policy shown to be monotone in the fields it reads. The others are      *)
(* defined by recursion over a sequence or over the levels of a tree: each *)
(* such function is shown to exist and to unfold once, as a predicate of   *)
(* its own (Unfolds, IsNorm, IsLength...), and its facts then follow by    *)
(* induction on the number of steps.                                       *)
(***************************************************************************)
EXTENDS PureRules, FiniteSetTheorems, WellFoundedInduction, TLAPS

-----------------------------------------------------------------------------
(* Reading.                                                                *)

LEMMA EmptyIsLayer == EmptyLayer \in Layers
  BY ConfigAssumption DEF EmptyLayer, Layers, Flags

LEMMA LayerOfIsLayer ==
  ASSUME NEW l \in Layers
  PROVE  LayerOf(l) \in Layers
<1>1. [l EXCEPT !.host = FALSE] \in Layers
  BY DEF Layers, Flags
<1>2. [EmptyLayer EXCEPT !.host = FALSE] \in Layers
  BY EmptyIsLayer DEF Layers, Flags
<1> QED
  BY <1>1, <1>2 DEF LayerOf

LEMMA ProjectLayerIsLayer ==
  ASSUME NEW p \in Layers, NEW trusted \in BOOLEAN
  PROVE  ProjectLayer(p, trusted) \in Layers
  BY LayerOfIsLayer, EmptyIsLayer DEF ProjectLayer

-----------------------------------------------------------------------------
(* Merging, one kind of field at a time. `None' is a project that says nothing. *)

LEMMA IntersectNarrows ==
  ASSUME NEW p, NEW g, NEW default
  PROVE  Intersect(p, g, default) \subseteq Intersect(Unset, g, default)
  BY DEF Intersect

LEMMA ClampNarrows ==
  ASSUME NEW p, NEW g \in Nat \cup {Unset}, NEW default \in Nat
  PROVE  Clamp(p, g, default) <= Clamp(Unset, g, default)
<1>1. Given(g, default) \in Nat
  BY DEF Given
<1>2. Clamp(Unset, g, default) = Given(g, default)
  BY <1>1 DEF Clamp, Given
<1>3. Clamp(p, g, default) <= Given(g, default)
  BY <1>1 DEF Clamp
<1> QED
  BY <1>2, <1>3

LEMMA GrantsNarrow ==
  ASSUME NEW p, NEW g
  PROVE  /\ Granted(p, g) => Granted(Unset, g)
         /\ HostAllowed(p, g) => HostAllowed(Unset, g)
  BY ConfigAssumption DEF Granted, HostAllowed

-----------------------------------------------------------------------------
(* The merged configuration.                                               *)

Within(c, d) ==
    /\ c.roots \subseteq d.roots
    /\ c.env \subseteq d.env
    /\ c.stop => d.stop
    /\ c.remove => d.remove
    /\ c.host => d.host

LEMMA CompileNarrows ==
  ASSUME NEW g \in Layers, NEW p \in Layers
  PROVE  /\ Within(Compile(g, p), Compile(g, EmptyLayer))
         /\ LimitsWithin(Compile(g, p), Compile(g, EmptyLayer))
<1> DEFINE with == Compile(g, p)
           without == Compile(g, EmptyLayer)
<1>1. with.roots \subseteq without.roots /\ with.env \subseteq without.env
  BY IntersectNarrows DEF Compile, EmptyLayer
<1>2. /\ with.stop => without.stop
      /\ with.remove => without.remove
      /\ with.host => without.host
  BY GrantsNarrow DEF Compile, EmptyLayer
<1>3. with.capture <= without.capture
  <2>1. g.capture \in Nat \cup {Unset} /\ DefaultCapture \in Nat
    BY DEF Layers, CaptureModes, DefaultCapture
  <2>2. /\ with.capture = Clamp(p.capture, g.capture, DefaultCapture)
        /\ without.capture = Clamp(Unset, g.capture, DefaultCapture)
    BY DEF Compile, EmptyLayer
  <2> QED
    BY <2>1, <2>2, ClampNarrows
<1>4. ASSUME NEW k \in NumericKeys
      PROVE  with.limit[k] <= without.limit[k]
  <2>1. g.limit[k] \in Nat \cup {Unset} /\ DefaultLimit[k] \in Nat
    BY ConfigAssumption DEF Layers
  <2>2. /\ with.limit[k] = Clamp(p.limit[k], g.limit[k], DefaultLimit[k])
        /\ without.limit[k] = Clamp(Unset, g.limit[k], DefaultLimit[k])
    BY DEF Compile, EmptyLayer
  <2> QED
    BY <2>1, <2>2, ClampNarrows
<1> QED
  BY <1>1, <1>2, <1>3, <1>4 DEF Within, LimitsWithin

\* Adding the session's root to both sides changes nothing about that.
LEMMA EffectiveNarrows ==
  ASSUME NEW g \in Layers, NEW p \in Layers, NEW trusted \in BOOLEAN
  PROVE  LET with == Effective(g, p, trusted)
             without == Effective(g, EmptyLayer, FALSE)
         IN  Within(with, without) /\ LimitsWithin(with, without)
<1> DEFINE c == Compile(LayerOf(g), ProjectLayer(p, trusted))
           d == Compile(LayerOf(g), EmptyLayer)
           Rooted(x) == [x EXCEPT !.roots = @ \cup {SessionRoot}]
<1>1. Within(c, d) /\ LimitsWithin(c, d)
  BY CompileNarrows, LayerOfIsLayer, ProjectLayerIsLayer
<1>2. Effective(g, p, trusted) = Rooted(c) /\ Effective(g, EmptyLayer, FALSE) = Rooted(d)
  BY DEF Effective, ProjectLayer
<1>3. ASSUME NEW a \in Layers, NEW b \in Layers
      PROVE  LET x == Compile(a, b) IN
             /\ Rooted(x).roots = x.roots \cup {SessionRoot}
             /\ Rooted(x).env = x.env /\ Rooted(x).limit = x.limit
             /\ Rooted(x).capture = x.capture
             /\ Rooted(x).stop = x.stop /\ Rooted(x).remove = x.remove
             /\ Rooted(x).host = x.host
  BY DEF Compile
<1>4. LayerOf(g) \in Layers /\ ProjectLayer(p, trusted) \in Layers /\ EmptyLayer \in Layers
  BY LayerOfIsLayer, ProjectLayerIsLayer, EmptyIsLayer
<1>5. /\ Rooted(c).roots = c.roots \cup {SessionRoot} /\ Rooted(c).env = c.env
      /\ Rooted(c).limit = c.limit /\ Rooted(c).capture = c.capture
      /\ Rooted(c).stop = c.stop /\ Rooted(c).remove = c.remove /\ Rooted(c).host = c.host
  BY <1>3, <1>4
<1>6. /\ Rooted(d).roots = d.roots \cup {SessionRoot} /\ Rooted(d).env = d.env
      /\ Rooted(d).limit = d.limit /\ Rooted(d).capture = d.capture
      /\ Rooted(d).stop = d.stop /\ Rooted(d).remove = d.remove /\ Rooted(d).host = d.host
  BY <1>3, <1>4
<1> HIDE DEF c, d, Rooted
<1>7. Within(Rooted(c), Rooted(d)) /\ LimitsWithin(Rooted(c), Rooted(d))
  BY <1>1, <1>5, <1>6 DEF Within, LimitsWithin
<1> QED
  BY <1>2, <1>7

-----------------------------------------------------------------------------
(* The policy.                                                             *)

\* What a configuration grants, one that grants no less grants too.
LEMMA PolicyIsMonotone ==
  ASSUME NEW c, NEW d, NEW r \in Requests, Within(c, d), Authorized(c, r)
  PROVE  Authorized(d, r)
<1>1. /\ WorkspaceAllowed(r.place, c)
      /\ DestructionAllowed(r.operation, c)
      /\ ~(r.operation = "host-exec" /\ ~c.host)
      /\ EnvironmentAllowed(r.env, c)
  BY DEF Authorized, EvaluatePolicy
<1>2. WorkspaceAllowed(r.place, d)
  BY <1>1 DEF WorkspaceAllowed, Within
<1>3. DestructionAllowed(r.operation, d)
  BY <1>1 DEF DestructionAllowed, Within
<1>4. ~(r.operation = "host-exec" /\ ~d.host)
  BY <1>1 DEF Within
<1>5. EnvironmentAllowed(r.env, d)
  BY <1>1 DEF EnvironmentAllowed, Within
<1> QED
  BY <1>2, <1>3, <1>4, <1>5 DEF Authorized, EvaluatePolicy

LEMMA ProjectNarrows ==
  ASSUME NEW g \in Layers, NEW p \in Layers, NEW trusted \in BOOLEAN
  PROVE  Narrows(g, p, trusted)
<1>1. /\ Within(Effective(g, p, trusted), Effective(g, EmptyLayer, FALSE))
      /\ LimitsWithin(Effective(g, p, trusted), Effective(g, EmptyLayer, FALSE))
  BY EffectiveNarrows
<1>2. ASSUME NEW r \in Requests, Authorized(Effective(g, p, trusted), r)
      PROVE  Authorized(Effective(g, EmptyLayer, FALSE), r)
  BY <1>1, <1>2, PolicyIsMonotone
<1> QED
  BY <1>1, <1>2 DEF Narrows

-----------------------------------------------------------------------------
(* Host execution.                                                         *)

\* Of a file that does not grant it, nothing that loads does.
LEMMA WithheldWhenRead ==
  ASSUME NEW l \in Layers, Withholds(l), l.shape # "unparsable", Valid(LayerOf(l))
  PROVE  LayerOf(l).host = FALSE
<1>1. CASE HostExecutionUnusable(l)
  <2>1. [l EXCEPT !.host = FALSE].host = FALSE
    BY DEF Layers
  <2>2. [EmptyLayer EXCEPT !.host = FALSE].host = FALSE
    BY DEF EmptyLayer
  <2> QED
    BY <1>1, <2>1, <2>2 DEF LayerOf
<1>2. CASE ~HostExecutionUnusable(l)
  <2>1. LayerOf(l) = l /\ l.shape = "object" /\ l.host # Malformed
    BY <1>2 DEF LayerOf, HostExecutionUnusable, Layers
  <2>2. l.host \in {FALSE, Null}
    BY <2>1 DEF Withholds
  <2>3. l.host # Null
    BY <2>1, ConfigAssumption DEF Valid
  <2> QED
    BY <2>1, <2>2, <2>3
<1> QED
  BY <1>1, <1>2

LEMMA HostFailsClosed ==
  ASSUME NEW g \in Layers, NEW p \in Layers, NEW trusted \in BOOLEAN
  PROVE  FailsClosed(g, p, trusted)
<1> SUFFICES ASSUME Withholds(g) \/ (trusted /\ Withholds(p)), Loads(g, p, trusted),
                    NEW r \in Requests, r.operation = "host-exec"
             PROVE  ~Authorized(Effective(g, p, trusted), r)
  BY DEF FailsClosed
<1>1. LayerOf(g).host = FALSE \/ ProjectLayer(p, trusted).host = FALSE
  BY WithheldWhenRead DEF Loads, ProjectLayer
<1>2. Effective(g, p, trusted).host = HostAllowed(ProjectLayer(p, trusted).host, LayerOf(g).host)
  <2> DEFINE c == Compile(LayerOf(g), ProjectLayer(p, trusted))
  <2>1. c.host = HostAllowed(ProjectLayer(p, trusted).host, LayerOf(g).host)
    BY DEF Compile
  <2>2. [c EXCEPT !.roots = @ \cup {SessionRoot}].host = c.host
    BY DEF Compile
  <2> HIDE DEF c
  <2>3. Effective(g, p, trusted).host = c.host
    BY <2>2 DEF Effective, c
  <2> QED
    BY <2>1, <2>3
<1>3. ~Effective(g, p, trusted).host
  BY <1>1, <1>2 DEF HostAllowed
<1> QED
  BY <1>3 DEF Authorized, EvaluatePolicy

-----------------------------------------------------------------------------
(* Every case put to the merge is a pair of layers.                        *)

CasesAreLayers ==
    judged.about = "config" =>
      judged.global \in Layers /\ judged.project \in Layers /\ judged.trusted \in BOOLEAN

LEMMA JudgedLayers == Spec => []CasesAreLayers
<1>1. Init => CasesAreLayers
  BY DEF Init, Nothing, CasesAreLayers
<1>2. CasesAreLayers /\ [Next]_judged => CasesAreLayers'
  <2> SUFFICES ASSUME CasesAreLayers, [Next]_judged
               PROVE  CasesAreLayers'
    OBVIOUS
  <2>1. CASE JudgeConfig
    <3>1. LayerPairsTried \subseteq Layers \X Layers
      BY TriedAssumption
    <3> QED
      BY <2>1, <3>1 DEF JudgeConfig, CasesAreLayers
  <2>2. CASE JudgeRouting
    <3>1. \E mapping, visible, mounts :
              judged' = [about |-> "routing", mapping |-> mapping, visible |-> visible,
                         mounts |-> mounts]
      BY <2>2 DEF JudgeRouting
    <3> QED
      BY <3>1 DEF CasesAreLayers
  <2>3. CASE JudgeListing
    BY <2>3 DEF JudgeListing, CasesAreLayers
  <2>4. CASE JudgeScan
    BY <2>4 DEF JudgeScan, CasesAreLayers
  <2>5. CASE Dismiss
    BY <2>5 DEF Dismiss, Nothing, CasesAreLayers
  <2>6. CASE UNCHANGED judged
    BY <2>6 DEF CasesAreLayers
  <2> QED
    BY <2>1, <2>2, <2>3, <2>4, <2>5, <2>6 DEF Next
<1> QED
  BY <1>1, <1>2, PTL DEF Spec

\* Whatever a project file says and whether or not it is trusted, no request is
\* authorised and no limit raised that would not be without it.
THEOREM ProjectNarrowsOnly == Spec => []ProjectOnlyNarrows
<1>1. CasesAreLayers => ProjectOnlyNarrows
  BY ProjectNarrows DEF CasesAreLayers, ProjectOnlyNarrows
<1> QED
  BY <1>1, JudgedLayers, PTL

\* A file that is no object, or that denies host execution or cannot be read about
\* it, leaves no configuration or one under which every host command is refused.
THEOREM HostIsWithheld == Spec => []HostExecutionFailsClosed
<1>1. CasesAreLayers => HostExecutionFailsClosed
  BY HostFailsClosed DEF CasesAreLayers, HostExecutionFailsClosed
<1> QED
  BY <1>1, JudgedLayers, PTL

LEMMA NatMin ==
  ASSUME NEW T \in SUBSET Nat, T # {}
  PROVE  \E m \in T : \A n \in T : m <= n
<1> DEFINE R == OpToRel(<, Nat)
<1>1. IsWellFoundedOn(R, Nat)
  BY NatLessThanWellFounded
<1>3. \A y, x \in Nat : y < x => <<y, x>> \in R
  BY DEF OpToRel
<1> HIDE DEF R
<1>2. PICK x \in T : \A y \in T : ~ (<<y, x>> \in R)
  BY <1>1, WFMin
<1>4. ASSUME NEW y \in T PROVE x <= y
  <2>1. x \in Nat /\ y \in Nat
    OBVIOUS
  <2>2. ~ (y < x)
    BY <1>2, <1>3, <2>1
  <2> QED BY <2>1, <2>2
<1> QED BY <1>4

LEMMA SetInduction ==
  ASSUME NEW T \in SUBSET Nat, 0 \in T, \A n \in T : n + 1 \in T
  PROVE  T = Nat
<1> SUFFICES ASSUME Nat \ T # {} PROVE FALSE
  OBVIOUS
<1>1. PICK m \in Nat \ T : \A n \in Nat \ T : m <= n
  BY NatMin
<1>2. m # 0 /\ m - 1 \in Nat /\ m - 1 \in T
  BY <1>1
<1> QED BY <1>2, <1>1

Unfolds(f, X, x0, step) ==
    f \in [Nat -> X] /\ f[0] = x0 /\ \A n \in Nat : f[n + 1] = step[n][f[n]]

UnfoldsUpTo(f, X, x0, m, step) ==
    f \in [0..m -> X] /\ f[0] = x0 /\ \A n \in 1..m : f[n] = step[n][f[n - 1]]

LEMMA RecursionExists ==
  ASSUME NEW X, NEW x0 \in X, NEW step \in [Nat -> [X -> X]]
  PROVE  \E f : Unfolds(f, X, x0, step)
<1> DEFINE Run(f, n) == /\ f \in [0..n -> X] /\ f[0] = x0
                        /\ \A i \in 0..n : i < n => f[i + 1] = step[i][f[i]]
           T == {n \in Nat : \E f \in [0..n -> X] : Run(f, n)}
<1>1. 0 \in T
  <2>1. Run([i \in 0..0 |-> x0], 0)
    OBVIOUS
  <2> QED BY <2>1
<1>2. ASSUME NEW n \in T PROVE n + 1 \in T
  <2>1. PICK f \in [0..n -> X] : Run(f, n)
    OBVIOUS
  <2> DEFINE g == [i \in 0..n + 1 |-> IF i <= n THEN f[i] ELSE step[n][f[n]]]
  <2>0. n \in Nat
    OBVIOUS
  <2> HIDE DEF T
  <2>2. n \in Nat /\ step[n][f[n]] \in X
    <3>1. f[n] \in X
      BY <2>0
    <3> QED BY <3>1, <2>0
  <2>3. g \in [0..n + 1 -> X] /\ g[0] = x0
    BY <2>1, <2>2
  <2>4. ASSUME NEW i \in 0..n + 1, i < n + 1 PROVE g[i + 1] = step[i][g[i]]
    <3>1. CASE i < n
      BY <3>1, <2>1, <2>2
    <3>2. CASE i = n
      BY <3>2, <2>1, <2>2
    <3> QED BY <3>1, <3>2, <2>4, <2>2
  <2> HIDE DEF g
  <2>5. Run(g, n + 1)
    BY <2>2, <2>3, <2>4
  <2> QED BY <2>2, <2>3, <2>5 DEF T
<1>3. T = Nat
  <2> HIDE DEF T
  <2>1. T \in SUBSET Nat BY DEF T
  <2> QED BY <1>1, <1>2, <2>1, SetInduction
<1>4. ASSUME NEW n \in Nat, NEW f, NEW g, NEW m \in Nat, m >= n, Run(f, n), Run(g, m)
      PROVE  \A i \in 0..n : f[i] = g[i]
  <2> DEFINE U == {i \in Nat : i <= n => f[i] = g[i]}
  <2>1. 0 \in U BY <1>4
  <2>2. \A i \in U : i + 1 \in U BY <1>4
  <2>3. U \in SUBSET Nat OBVIOUS
  <2> HIDE DEF U
  <2>4. U = Nat BY <2>1, <2>2, <2>3, SetInduction
  <2> QED BY <2>4 DEF U
<1> DEFINE F(n) == CHOOSE f : Run(f, n)
           h == [n \in Nat |-> F(n)[n]]
<1>5. \A n \in Nat : Run(F(n), n)
  BY <1>3
<1> HIDE DEF F, T
<1>6. \A n \in Nat : h[n] = F(n)[n]
  OBVIOUS
<1>7. h \in [Nat -> X] /\ h[0] = x0
  BY <1>5
<1>8. ASSUME NEW n \in Nat PROVE h[n + 1] = step[n][h[n]]
  <2>1. F(n + 1)[n] = F(n)[n]
    <3>1. n + 1 \in Nat /\ n + 1 >= n /\ n \in 0..n OBVIOUS
    <3> HIDE DEF Run
    <3> QED BY <3>1, <1>4, <1>5
  <2>2. F(n + 1)[n + 1] = step[n][F(n + 1)[n]]
    BY <1>5
  <2> QED BY <2>1, <2>2, <1>6
<1> HIDE DEF h
<1> QED BY <1>7, <1>8 DEF Unfolds


LEMMA InductionUpTo ==
  ASSUME NEW m \in Nat, NEW T, 0 \in T, \A n \in T : n \in 0..m /\ n < m => n + 1 \in T
  PROVE  0..m \subseteq T
<1> DEFINE U == {n \in Nat : n <= m => n \in T}
<1>1. 0 \in U /\ \A n \in U : n + 1 \in U
  OBVIOUS
<1>2. U \in SUBSET Nat
  OBVIOUS
<1> HIDE DEF U
<1>3. U = Nat
  BY <1>1, <1>2, SetInduction
<1> QED
  BY <1>3 DEF U

LEMMA RecursionUpTo ==
  ASSUME NEW X, NEW x0 \in X, NEW m \in Nat, NEW step \in [1..m -> [X -> X]]
  PROVE  \E f : UnfoldsUpTo(f, X, x0, m, step)
<1>1. PICK total \in [Nat -> [X -> X]] : \A n \in 1..m : total[n - 1] = step[n]
  <2>1. [n \in Nat |-> IF n < m THEN step[n + 1] ELSE [x \in X |-> x]] \in [Nat -> [X -> X]]
    OBVIOUS
  <2>2. \A n \in 1..m : [k \in Nat |-> IF k < m THEN step[k + 1] ELSE [x \in X |-> x]][n - 1]
                        = step[n]
    OBVIOUS
  <2> QED
    BY <2>1, <2>2
<1>2. PICK g : Unfolds(g, X, x0, total)
  BY RecursionExists
<1>3. g \in [Nat -> X] /\ g[0] = x0 /\ \A n \in Nat : g[n + 1] = total[n][g[n]]
  BY <1>2 DEF Unfolds
<1> DEFINE f == [n \in 0..m |-> g[n]]
<1>4. f \in [0..m -> X] /\ f[0] = x0
  BY <1>3
<1>5. ASSUME NEW n \in 1..m
      PROVE  f[n] = step[n][f[n - 1]]
  <2>1. n - 1 \in Nat /\ n - 1 \in 0..m /\ n \in 0..m /\ (n - 1) + 1 = n
    OBVIOUS
  <2>2. g[n] = total[n - 1][g[n - 1]]
    BY <1>3, <2>1
  <2>3. f[n] = g[n] /\ f[n - 1] = g[n - 1]
    BY <2>1
  <2> QED
    BY <1>1, <2>2, <2>3
<1> HIDE DEF f
<1> QED
  BY <1>4, <1>5 DEF UnfoldsUpTo

IsGrowth(grow, start, After, m) ==
    /\ grow \in [0..m -> SUBSET Nodes]
    /\ grow[0] = start
    /\ \A n \in 1..m : grow[n] = grow[n - 1] \cup UNION {After[e] : e \in grow[n - 1]}

LEMMA GrowthExists ==
  ASSUME NEW start \in SUBSET Nodes, NEW After \in [Nodes -> SUBSET Nodes], NEW m \in Nat
  PROVE  \E grow : IsGrowth(grow, start, After, m)
<1> DEFINE step == [n \in 1..m |-> [S \in SUBSET Nodes |-> S \cup UNION {After[e] : e \in S}]]
<1>1. step \in [1..m -> [SUBSET Nodes -> SUBSET Nodes]]
  OBVIOUS
<1>2. \A n \in 1..m, S \in SUBSET Nodes : step[n][S] = S \cup UNION {After[e] : e \in S}
  OBVIOUS
<1> HIDE DEF step
<1>3. PICK grow : UnfoldsUpTo(grow, SUBSET Nodes, start, m, step)
  BY <1>1, RecursionUpTo
<1>4. grow \in [0..m -> SUBSET Nodes] /\ grow[0] = start
  BY <1>3 DEF UnfoldsUpTo
<1>5. ASSUME NEW n \in 1..m
      PROVE  grow[n] = grow[n - 1] \cup UNION {After[e] : e \in grow[n - 1]}
  <2>1. grow[n - 1] \in SUBSET Nodes
    BY <1>4
  <2>2. grow[n] = step[n][grow[n - 1]]
    BY <1>3 DEF UnfoldsUpTo
  <2> QED
    BY <1>2, <2>1, <2>2
<1> QED
  BY <1>4, <1>5 DEF IsGrowth

\* Whatever satisfies the equation is the growth.
LEMMA GrowthIsUnique ==
  ASSUME NEW start \in SUBSET Nodes, NEW After \in [Nodes -> SUBSET Nodes], NEW m \in Nat,
         NEW grow, DOMAIN grow = 0..m, grow = [n \in 0..m |-> grow[n]], grow[0] = start,
         \A n \in 1..m : grow[n - 1] \in SUBSET Nodes =>
            grow[n] = grow[n - 1] \cup UNION {After[e] : e \in grow[n - 1]}
  PROVE  IsGrowth(grow, start, After, m)
<1> DEFINE T == {n \in 0..m : grow[n] \in SUBSET Nodes}
<1>1. 0 \in T
  OBVIOUS
<1>2. ASSUME NEW n \in T, n \in 0..m, n < m
      PROVE  n + 1 \in T
  <2>1. n + 1 \in 1..m /\ (n + 1) - 1 = n /\ grow[n] \in SUBSET Nodes
    BY <1>2
  <2>2. grow[n + 1] = grow[n] \cup UNION {After[e] : e \in grow[n]}
    BY <2>1
  <2> QED
    BY <2>1, <2>2
<1> HIDE DEF T
<1>3. 0..m \subseteq T
  BY <1>1, <1>2, InductionUpTo
<1>4. \A n \in 0..m : grow[n] \in SUBSET Nodes
  BY <1>3 DEF T
<1>5. \A n \in 1..m : n - 1 \in 0..m
  OBVIOUS
<1> QED
  BY <1>4, <1>5 DEF IsGrowth

LEMMA AtOrBelowGrows ==
  ASSUME NEW d \in Nodes
  PROVE  \E grow : /\ IsGrowth(grow, {d}, ChildrenOf, Cardinality(Nodes))
                   /\ AtOrBelow(d) = grow[Cardinality(Nodes)]
<1> DEFINE m == Cardinality(Nodes)
           grow[n \in 0..Cardinality(Nodes)] ==
             IF n = 0 THEN {d} ELSE grow[n - 1] \cup UNION {ChildrenOf[e] : e \in grow[n - 1]}
<1>1. m \in Nat /\ ChildrenOf \in [Nodes -> SUBSET Nodes]
  BY RegistryAssumption, FS_CardinalityType
<1>2. PICK f : IsGrowth(f, {d}, ChildrenOf, m)
  BY <1>1, GrowthExists
<1>3. f = [n \in 0..m |-> IF n = 0 THEN {d} ELSE f[n - 1] \cup UNION {ChildrenOf[e] : e \in f[n - 1]}]
  BY <1>1, <1>2 DEF IsGrowth
<1>4. grow = [n \in 0..m |-> IF n = 0 THEN {d} ELSE grow[n - 1] \cup UNION {ChildrenOf[e] : e \in grow[n - 1]}]
  BY <1>3
<1>5. AtOrBelow(d) = grow[m]
  BY DEF AtOrBelow
<1> HIDE DEF grow, m
<1>6. /\ DOMAIN grow = 0..m /\ grow = [n \in 0..m |-> grow[n]] /\ grow[0] = {d}
      /\ \A n \in 1..m : grow[n] = grow[n - 1] \cup UNION {ChildrenOf[e] : e \in grow[n - 1]}
  <2> DEFINE G(n) == IF n = 0 THEN {d} ELSE grow[n - 1] \cup UNION {ChildrenOf[e] : e \in grow[n - 1]}
  <2>1. grow = [n \in 0..m |-> G(n)]
    BY <1>4
  <2>2. \A n \in 1..m : G(n) = grow[n - 1] \cup UNION {ChildrenOf[e] : e \in grow[n - 1]}
    OBVIOUS
  <2>3. G(0) = {d}
    OBVIOUS
  <2> HIDE DEF G
  <2>4. DOMAIN grow = 0..m /\ \A n \in 0..m : grow[n] = G(n)
    BY <2>1
  <2>5. 0 \in 0..m /\ \A n \in 1..m : n \in 0..m
    BY <1>1
  <2>6. grow = [n \in 0..m |-> grow[n]]
    BY <2>1, <2>4
  <2> QED
    BY <2>2, <2>3, <2>4, <2>5, <2>6
<1>7. IsGrowth(grow, {d}, ChildrenOf, m)
  BY <1>1, <1>6, GrowthIsUnique
<1> QED
  BY <1>5, <1>7 DEF m

\* What one step of Reachable adds.
Unskipped(tree) == [e \in Nodes |-> {d \in ChildrenOf[e] : ~Skipped(tree, d)}]

LEMMA ReachableGrows ==
  ASSUME NEW tree, NEW roots \in SUBSET Nodes
  PROVE  \E grow : /\ IsGrowth(grow, roots, Unskipped(tree), Cardinality(Nodes))
                   /\ Reachable(tree, roots) = grow[Cardinality(Nodes)]
<1> DEFINE m == Cardinality(Nodes)
           grow[n \in 0..Cardinality(Nodes)] ==
             IF n = 0 THEN roots
             ELSE grow[n - 1] \cup
                  {d \in UNION {ChildrenOf[e] : e \in grow[n - 1]} : ~Skipped(tree, d)}
           More(S) == {d \in UNION {ChildrenOf[e] : e \in S} : ~Skipped(tree, d)}
<1>1. m \in Nat /\ Unskipped(tree) \in [Nodes -> SUBSET Nodes]
  BY RegistryAssumption, FS_CardinalityType DEF Unskipped
<1>2. PICK f : IsGrowth(f, roots, Unskipped(tree), m)
  BY <1>1, GrowthExists
<1>3. ASSUME NEW S \in SUBSET Nodes
      PROVE  More(S) = UNION {Unskipped(tree)[e] : e \in S}
  <2>1. \A e \in S : Unskipped(tree)[e] = {d \in ChildrenOf[e] : ~Skipped(tree, d)}
    BY DEF Unskipped
  <2> QED
    BY <2>1
<1>4. f = [n \in 0..m |-> IF n = 0 THEN roots ELSE f[n - 1] \cup More(f[n - 1])]
  <2>1. \A n \in 1..m : f[n - 1] \in SUBSET Nodes
    BY <1>1, <1>2 DEF IsGrowth
  <2>2. \A n \in 1..m : f[n] = f[n - 1] \cup More(f[n - 1])
    BY <1>2, <1>3, <2>1 DEF IsGrowth
  <2> HIDE DEF More
  <2> QED
    BY <1>1, <1>2, <2>2 DEF IsGrowth
<1>5. grow = [n \in 0..m |-> IF n = 0 THEN roots ELSE grow[n - 1] \cup More(grow[n - 1])]
  BY <1>4
<1>6. Reachable(tree, roots) = grow[m]
  BY DEF Reachable
<1> HIDE DEF grow, More, m
<1>7. /\ DOMAIN grow = 0..m /\ grow = [n \in 0..m |-> grow[n]] /\ grow[0] = roots
      /\ \A n \in 1..m : grow[n] = grow[n - 1] \cup More(grow[n - 1])
  <2> DEFINE G(n) == IF n = 0 THEN roots ELSE grow[n - 1] \cup More(grow[n - 1])
  <2>1. grow = [n \in 0..m |-> G(n)]
    BY <1>5
  <2>2. \A n \in 1..m : G(n) = grow[n - 1] \cup More(grow[n - 1])
    OBVIOUS
  <2>3. G(0) = roots
    OBVIOUS
  <2> HIDE DEF G
  <2>4. DOMAIN grow = 0..m /\ \A n \in 0..m : grow[n] = G(n)
    BY <2>1
  <2>5. 0 \in 0..m /\ \A n \in 1..m : n \in 0..m
    BY <1>1
  <2>6. grow = [n \in 0..m |-> grow[n]]
    BY <2>1, <2>4
  <2> QED
    BY <2>2, <2>3, <2>4, <2>5, <2>6
<1>8. IsGrowth(grow, roots, Unskipped(tree), m)
  <2>1. \A n \in 1..m : grow[n - 1] \in SUBSET Nodes =>
           grow[n] = grow[n - 1] \cup UNION {Unskipped(tree)[e] : e \in grow[n - 1]}
    BY <1>3, <1>7
  <2> QED
    BY <1>1, <1>7, <2>1, GrowthIsUnique
<1> QED
  BY <1>6, <1>8 DEF m

-----------------------------------------------------------------------------
Finds == [found : SUBSET Nodes, told : SUBSET Nodes, ownTold : SUBSET Nodes]

LEMMA AllOfFinds ==
  ASSUME NEW finds \in SUBSET Finds
  PROVE  AllOf(finds) \in Finds
  BY DEF AllOf, Finds

LEMMA PrunedIs ==
  ASSUME NEW d \in Nodes
  PROVE  /\ Pruned(d) \in Finds /\ Pruned(d).told = {d}
         /\ [NothingFound EXCEPT !.told = {d}] \in Finds
         /\ [NothingFound EXCEPT !.told = {d}].told = {d}
<1>1. NothingFound = [found |-> {}, told |-> {}, ownTold |-> {}]
  BY DEF NothingFound
<1>2. [NothingFound EXCEPT !.told = {d}] = [found |-> {}, told |-> {d}, ownTold |-> {}]
  BY <1>1
<1> QED
  BY <1>2 DEF Pruned, Finds

\* A directory's own configuration is found, told of, or lost.
LEMMA OwnConfigIs ==
  ASSUME NEW tree \in Trees, NEW d \in Nodes
  PROVE  /\ OwnConfig(tree, d) \in Finds
         /\ \/ d \in OwnConfig(tree, d).found \cup OwnConfig(tree, d).ownTold
            \/ LostSilently(tree, d)
<1> DEFINE hit == IF d \in tree.unprobed \/ (tree.form[d] = "named" /\ d \in tree.unlisted)
                  THEN {} ELSE {d}
           named == IF d \in tree.unlisted \/ (tree.form[d] = "root" /\ d \in tree.unprobed)
                    THEN {d} ELSE {}
<1>2. OwnConfig(tree, d) = [found |-> hit, told |-> {}, ownTold |-> named]
  BY DEF OwnConfig
<1>3. d \in hit \cup named \/ LostSilently(tree, d)
  BY DEF LostSilently
<1>4. hit \in SUBSET Nodes /\ named \in SUBSET Nodes
  OBVIOUS
<1> HIDE DEF hit, named
<1> QED
  BY <1>2, <1>3, <1>4 DEF Finds

LEMMA EnteredFinds ==
  ASSUME NEW tree \in Trees, NEW left, NEW below \in [Nodes -> Finds], NEW d \in Nodes
  PROVE  Entered(tree, left, below, d) \in Finds
<1> DEFINE subs == {IF left = 0 \/ sub \in tree.escaping THEN Pruned(sub) ELSE below[sub] :
                       sub \in {s \in ChildrenOf[d] : ~Skipped(tree, s)}}
<1>1. ChildrenOf[d] \subseteq Nodes
  BY RegistryAssumption
<1>2. ASSUME NEW sub \in ChildrenOf[d]
      PROVE  (IF left = 0 \/ sub \in tree.escaping THEN Pruned(sub) ELSE below[sub]) \in Finds
  BY <1>1, PrunedIs
<1>5. subs \subseteq Finds
  BY <1>2
<1> HIDE DEF subs
<1>3. AllOf({OwnConfig(tree, d)} \cup subs) \in Finds
  BY <1>5, OwnConfigIs, AllOfFinds
<1>4. [NothingFound EXCEPT !.told = {d}] \in Finds
  BY PrunedIs
<1> QED
  BY <1>3, <1>4 DEF Entered, subs

LEMMA EnteredAtTheEnd ==
  ASSUME NEW tree, NEW a, NEW b, NEW d
  PROVE  Entered(tree, 0, a, d) = Entered(tree, 0, b, d)
  BY DEF Entered

LEMMA WalkUnfolds ==
  ASSUME NEW tree \in Trees, NEW maxDepth \in Nat
  PROVE  \E walk : /\ WalkDir(tree, maxDepth) = walk[maxDepth]
                   /\ \A left \in 0..maxDepth, d \in Nodes :
                         walk[left][d] = Entered(tree, left, walk[left - 1], d)
<1> DEFINE X == [Nodes -> Finds]
           last == [d \in Nodes |-> Entered(tree, 0, [e \in Nodes |-> NothingFound], d)]
           step == [n \in 1..maxDepth |-> [below \in X |-> [d \in Nodes |-> Entered(tree, n, below, d)]]]
           walk[left \in 0..maxDepth] == [d \in Nodes |-> Entered(tree, left, walk[left - 1], d)]
<1>1. last \in X
  <2>1. [e \in Nodes |-> NothingFound] \in X
    BY DEF NothingFound, Finds
  <2> QED
    BY <2>1, EnteredFinds
<1>2. step \in [1..maxDepth -> [X -> X]]
  BY EnteredFinds
<1>3. \A n \in 1..maxDepth, below \in X :
         step[n][below] = [d \in Nodes |-> Entered(tree, n, below, d)]
  OBVIOUS
<1> HIDE DEF X, step
<1>4. PICK f : UnfoldsUpTo(f, X, last, maxDepth, step)
  BY <1>1, <1>2, RecursionUpTo
<1>5. ASSUME NEW left \in 0..maxDepth
      PROVE  f[left] = [d \in Nodes |-> Entered(tree, left, f[left - 1], d)]
  <2>1. CASE left = 0
    <3>1. f[left] = last
      BY <1>4, <2>1 DEF UnfoldsUpTo
    <3> QED
      BY <2>1, <3>1, EnteredAtTheEnd
  <2>2. CASE left # 0
    <3>1. left \in 1..maxDepth /\ left - 1 \in 0..maxDepth
      BY <2>2
    <3>2. f[left - 1] \in X /\ f[left] = step[left][f[left - 1]]
      BY <1>4, <3>1 DEF UnfoldsUpTo
    <3> QED
      BY <1>3, <3>1, <3>2
  <2> QED
    BY <2>1, <2>2
<1>6. f = [left \in 0..maxDepth |-> [d \in Nodes |-> Entered(tree, left, f[left - 1], d)]]
  BY <1>4, <1>5 DEF UnfoldsUpTo
<1>7. walk = [left \in 0..maxDepth |-> [d \in Nodes |-> Entered(tree, left, walk[left - 1], d)]]
  BY <1>6
<1>8. WalkDir(tree, maxDepth) = walk[maxDepth]
  BY DEF WalkDir
<1> HIDE DEF walk
<1>9. \A left \in 0..maxDepth : walk[left] = [d \in Nodes |-> Entered(tree, left, walk[left - 1], d)]
  BY <1>7
<1>10. \A left \in 0..maxDepth, d \in Nodes : walk[left][d] = Entered(tree, left, walk[left - 1], d)
  BY <1>9
<1> QED
  BY <1>8, <1>10

\* What a scan takes from a directory it enters.
LEMMA EnteredTakes ==
  ASSUME NEW tree, NEW left, NEW below, NEW d \in Nodes,
         NEW sub \in ChildrenOf[d], ~Skipped(tree, sub), d \notin tree.unreadable
  PROVE  /\ left = 0 \/ sub \in tree.escaping => sub \in Entered(tree, left, below, d).told
         /\ ~(left = 0 \/ sub \in tree.escaping) =>
               /\ below[sub].found \subseteq Entered(tree, left, below, d).found
               /\ below[sub].told \subseteq Entered(tree, left, below, d).told
               /\ below[sub].ownTold \subseteq Entered(tree, left, below, d).ownTold
<1> DEFINE Of(s) == IF left = 0 \/ s \in tree.escaping THEN Pruned(s) ELSE below[s]
           all == {OwnConfig(tree, d)} \cup {Of(s) : s \in {s \in ChildrenOf[d] : ~Skipped(tree, s)}}
<1>1. Entered(tree, left, below, d) = AllOf(all)
  BY DEF Entered
<1>2. Of(sub) \in all
  OBVIOUS
<1> HIDE DEF all
<1>3. \A x \in all : /\ x.found \subseteq AllOf(all).found
                    /\ x.told \subseteq AllOf(all).told
                    /\ x.ownTold \subseteq AllOf(all).ownTold
  BY DEF AllOf
<1>5. sub \in Nodes
  BY RegistryAssumption
<1>6. Pruned(sub).told = {sub}
  BY <1>5, PrunedIs
<1>8. CASE left = 0 \/ sub \in tree.escaping
  BY <1>1, <1>2, <1>3, <1>6, <1>8
<1>9. CASE ~(left = 0 \/ sub \in tree.escaping)
  BY <1>1, <1>2, <1>3, <1>9
<1> QED
  BY <1>8, <1>9

LEMMA EnteredOwn ==
  ASSUME NEW tree \in Trees, NEW left, NEW below, NEW d \in Nodes
  PROVE  \/ d \in Entered(tree, left, below, d).found
         \/ d \in Entered(tree, left, below, d).ownTold
         \/ d \in tree.unreadable /\ d \in Entered(tree, left, below, d).told
         \/ LostSilently(tree, d)
<1>1. CASE d \in tree.unreadable
  BY <1>1, PrunedIs DEF Entered
<1>2. CASE d \notin tree.unreadable
  <2> DEFINE own == OwnConfig(tree, d)
             more == {IF left = 0 \/ sub \in tree.escaping THEN Pruned(sub) ELSE below[sub] :
                         sub \in {s \in ChildrenOf[d] : ~Skipped(tree, s)}}
  <2>1. Entered(tree, left, below, d) = AllOf({own} \cup more)
    BY <1>2 DEF Entered
  <2>2. d \in own.found \cup own.ownTold \/ LostSilently(tree, d)
    BY OwnConfigIs
  <2> HIDE DEF own, more
  <2>3. /\ own.found \subseteq AllOf({own} \cup more).found
        /\ own.ownTold \subseteq AllOf({own} \cup more).ownTold
    BY DEF AllOf
  <2> QED
    BY <2>1, <2>2, <2>3
<1> QED
  BY <1>1, <1>2

\* A directory is in a walk that the scan's results contain, or it lies at or below
\* one the scan told of; in a walk, its configuration is found, told of or lost.
LEMMA ScanAccounts ==
  ASSUME NEW tree \in Trees, NEW roots \in SUBSET Nodes, NEW maxDepth \in Nat
  PROVE  AllFoundOrTold(tree, roots, maxDepth)
<1> DEFINE scan == DiscoverHostConfigs(tree, roots, maxDepth)
           m == Cardinality(Nodes)
<1>1. m \in Nat /\ ChildrenOf \in [Nodes -> SUBSET Nodes]
  BY RegistryAssumption, FS_CardinalityType
<1>2. PICK walk : /\ WalkDir(tree, maxDepth) = walk[maxDepth]
                  /\ \A left \in 0..maxDepth, d \in Nodes :
                        walk[left][d] = Entered(tree, left, walk[left - 1], d)
  BY WalkUnfolds
<1>3. PICK reach : IsGrowth(reach, roots, Unskipped(tree), m) /\ Reachable(tree, roots) = reach[m]
  BY ReachableGrows
<1> DEFINE grow(e) == CHOOSE g : /\ IsGrowth(g, {e}, ChildrenOf, m)
                                 /\ AtOrBelow(e) = g[m]
           Part(left, d) == /\ walk[left][d].found \subseteq scan.found
                            /\ walk[left][d].told \subseteq scan.told
                           /\ walk[left][d].ownTold \subseteq scan.ownTold
           Accounted(d, n) == \/ \E left \in 0..maxDepth : Part(left, d)
                              \/ \E e \in scan.told \cap Nodes : d \in grow(e)[n]
           T == {n \in 0..m : /\ \A e \in Nodes : e \in grow(e)[n]
                              /\ \A d \in reach[n] : Accounted(d, n)}
<1>4. \A e \in Nodes : IsGrowth(grow(e), {e}, ChildrenOf, m) /\ AtOrBelow(e) = grow(e)[m]
  BY AtOrBelowGrows
<1> HIDE DEF grow, m
<1>5. \A r \in roots : Part(maxDepth, r)
  BY <1>2 DEF DiscoverHostConfigs, AllOf
<1> HIDE DEF scan
<1>6. 0 \in T
  <2>1. maxDepth \in 0..maxDepth /\ 0 \in 0..m
    BY <1>1
  <2>2. reach[0] = roots /\ \A e \in Nodes : grow(e)[0] = {e}
    BY <1>3, <1>4 DEF IsGrowth
  <2> QED
    BY <1>5, <2>1, <2>2
<1>7. ASSUME NEW n \in T, n \in 0..m, n < m
      PROVE  n + 1 \in T
  <2>1. n + 1 \in 1..m /\ n + 1 \in 0..m /\ (n + 1) - 1 = n
    BY <1>1, <1>7
  <2>2. reach[n] \subseteq Nodes /\ reach[n + 1] = reach[n] \cup UNION {Unskipped(tree)[e] : e \in reach[n]}
    BY <1>3, <1>7, <2>1 DEF IsGrowth
  <2>3. ASSUME NEW e \in Nodes
        PROVE  /\ grow(e)[n] \subseteq Nodes
               /\ grow(e)[n] \subseteq grow(e)[n + 1]
               /\ \A x \in grow(e)[n] : ChildrenOf[x] \subseteq grow(e)[n + 1]
    <3>1. IsGrowth(grow(e), {e}, ChildrenOf, m)
      BY <1>4
    <3>2. /\ grow(e)[n] \subseteq Nodes
          /\ grow(e)[n + 1] = grow(e)[n] \cup UNION {ChildrenOf[x] : x \in grow(e)[n]}
      BY <1>7, <2>1, <3>1 DEF IsGrowth
    <3> QED
      BY <3>2
  <2>4. \A e \in Nodes : e \in grow(e)[n + 1]
    BY <2>3
  <2>5. \A d : Accounted(d, n) => Accounted(d, n + 1)
    BY <2>3
  <2>6. ASSUME NEW e \in reach[n], NEW d \in ChildrenOf[e], ~Skipped(tree, d)
        PROVE  Accounted(d, n + 1)
    <3>1. e \in Nodes /\ d \in Nodes /\ Accounted(e, n)
      BY <1>1, <2>2, <2>6
    <3>2. ASSUME NEW t \in scan.told \cap Nodes, e \in grow(t)[n]
          PROVE  Accounted(d, n + 1)
      BY <2>3, <3>2
    <3>3. ASSUME NEW left \in 0..maxDepth, Part(left, e)
          PROVE  Accounted(d, n + 1)
      <4>1. walk[left][e] = Entered(tree, left, walk[left - 1], e)
        BY <1>2, <3>1
      <4>2. CASE e \in tree.unreadable
        <5>1. e \in walk[left][e].told
          BY <4>1, <4>2, <3>1, PrunedIs DEF Entered
        <5>2. e \in scan.told \cap Nodes /\ e \in grow(e)[n]
          BY <3>1, <3>3, <5>1
        <5> QED
          BY <3>2, <5>2
      <4>3. CASE e \notin tree.unreadable /\ (left = 0 \/ d \in tree.escaping)
        <5>1. d \in walk[left][e].told
          BY <4>1, <4>3, <3>1, <2>6, EnteredTakes
        <5>2. d \in scan.told \cap Nodes /\ d \in grow(d)[n + 1]
          BY <3>1, <3>3, <5>1, <2>4
        <5> QED
          BY <5>2
      <4>4. CASE e \notin tree.unreadable /\ ~(left = 0 \/ d \in tree.escaping)
        <5>1. /\ walk[left - 1][d].found \subseteq walk[left][e].found
              /\ walk[left - 1][d].told \subseteq walk[left][e].told
              /\ walk[left - 1][d].ownTold \subseteq walk[left][e].ownTold
          BY <4>1, <4>4, <3>1, <2>6, EnteredTakes
        <5>2. left - 1 \in 0..maxDepth
          BY <4>4
        <5>3. Part(left - 1, d)
          BY <3>3, <5>1
        <5> QED
          BY <5>2, <5>3
      <4> QED
        BY <4>2, <4>3, <4>4
    <3> QED
      BY <3>1, <3>2, <3>3
  <2>7. ASSUME NEW d \in reach[n + 1]
        PROVE  Accounted(d, n + 1)
    <3>1. CASE d \in reach[n]
      BY <2>5, <3>1
    <3>2. CASE d \notin reach[n]
      <4>1. PICK e \in reach[n] : d \in Unskipped(tree)[e]
        BY <2>2, <3>2
      <4>2. d \in ChildrenOf[e] /\ ~Skipped(tree, d)
        BY <2>2, <4>1 DEF Unskipped
      <4> QED
        BY <2>6, <4>2
    <3> QED
      BY <3>1, <3>2
  <2> QED
    BY <2>1, <2>4, <2>7
<1> HIDE DEF T
<1>8. m \in T
  <2>1. 0..m \subseteq T
    BY <1>1, <1>6, <1>7, InductionUpTo
  <2> QED
    BY <1>1, <2>1
<1>9. ASSUME NEW d \in reach[m]
      PROVE  \/ d \in scan.found \cup scan.ownTold
             \/ \E e \in scan.told : d \in AtOrBelow(e)
             \/ LostSilently(tree, d)
  <2>1. d \in Nodes /\ d \in grow(d)[m] /\ Accounted(d, m)
    BY <1>1, <1>3, <1>8 DEF T, IsGrowth
  <2>2. ASSUME NEW left \in 0..maxDepth, Part(left, d)
        PROVE  d \in scan.found \cup scan.ownTold \cup scan.told \/ LostSilently(tree, d)
    <3>1. walk[left][d] = Entered(tree, left, walk[left - 1], d)
      BY <1>2, <2>1
    <3>2. \/ d \in walk[left][d].found \/ d \in walk[left][d].ownTold
          \/ d \in walk[left][d].told \/ LostSilently(tree, d)
      BY <2>1, <3>1, EnteredOwn
    <3> QED
      BY <2>2, <3>2
  <2> QED
    BY <1>4, <2>1, <2>2
<1> QED
  BY <1>3, <1>9 DEF AllFoundOrTold, scan

-----------------------------------------------------------------------------
Values(s) == {s[i] : i \in DOMAIN s}

DistinctIds(s) == \A i, j \in DOMAIN s : s[i].id = s[j].id => i = j

IsFiltering(among, s, kept, S) ==
    /\ among \in [0..Len(s) -> Seq(S)]
    /\ among[0] = <<>>
    /\ \A n \in 1..Len(s) :
          among[n] = IF s[n] \in kept THEN Append(among[n - 1], s[n]) ELSE among[n - 1]

LEMMA OnlyUnfolds ==
  ASSUME NEW S, NEW s \in Seq(S), NEW kept
  PROVE  \E among : IsFiltering(among, s, kept, S) /\ Only(s, kept) = among[Len(s)]
<1> DEFINE m == Len(s)
           Grown(n, x) == IF s[n] \in kept THEN Append(x, s[n]) ELSE x
           step == [n \in 1..m |-> [x \in Seq(S) |-> Grown(n, x)]]
           among[n \in 0..Len(s)] ==
             IF n = 0 THEN <<>>
             ELSE IF s[n] \in kept THEN Append(among[n - 1], s[n])
             ELSE among[n - 1]
<1>1. m \in Nat /\ <<>> \in Seq(S) /\ \A n \in 1..m : s[n] \in S
  OBVIOUS
<1>2. \A n \in 1..m, x \in Seq(S) : Grown(n, x) \in Seq(S)
  BY <1>1
<1> HIDE DEF Grown
<1>3. step \in [1..m -> [Seq(S) -> Seq(S)]] /\ \A n \in 1..m, x \in Seq(S) : step[n][x] = Grown(n, x)
  BY <1>2
<1> HIDE DEF step
<1>4. PICK f : UnfoldsUpTo(f, Seq(S), <<>>, m, step)
  BY <1>1, <1>3, RecursionUpTo
<1>5. f \in [0..m -> Seq(S)] /\ f[0] = <<>> /\ \A n \in 1..m : f[n] = Grown(n, f[n - 1])
  <2>1. \A n \in 1..m : n - 1 \in 0..m
    BY <1>1
  <2> QED
    BY <1>3, <1>4, <2>1 DEF UnfoldsUpTo
<1>6. f = [n \in 0..m |-> IF n = 0 THEN <<>> ELSE Grown(n, f[n - 1])]
  BY <1>1, <1>5
<1>7. among = [n \in 0..m |-> IF n = 0 THEN <<>> ELSE Grown(n, among[n - 1])]
  BY <1>6 DEF Grown
<1>8. Only(s, kept) = among[m]
  BY DEF Only
<1> HIDE DEF among, m
<1> DEFINE G(n) == IF n = 0 THEN <<>> ELSE Grown(n, among[n - 1])
<1>9. among = [n \in 0..m |-> G(n)]
  BY <1>7
<1>10. G(0) = <<>> /\ \A n \in 1..m : G(n) = Grown(n, among[n - 1])
  OBVIOUS
<1> HIDE DEF G
<1>11. /\ among[0] = <<>>
       /\ \A n \in 1..m : among[n] = Grown(n, among[n - 1])
       /\ DOMAIN among = 0..m
  BY <1>1, <1>9, <1>10
<1> DEFINE T == {n \in 0..m : among[n] \in Seq(S)}
<1>12. 0 \in T
  <2>1. 0 \in 0..m
    BY <1>1
  <2>2. among[0] \in Seq(S)
    BY <1>1, <1>11
  <2> QED
    BY <2>1, <2>2
<1>13. ASSUME NEW n \in T, n \in 0..m, n < m
       PROVE  n + 1 \in T
  <2>1. n + 1 \in 1..m /\ (n + 1) - 1 = n /\ among[n] \in Seq(S)
    BY <1>1, <1>13
  <2> QED
    BY <1>2, <1>11, <2>1
<1> HIDE DEF T
<1>14. \A n \in 0..m : among[n] \in Seq(S)
  BY <1>1, <1>12, <1>13, InductionUpTo DEF T
<1>15. among \in [0..m -> Seq(S)]
  BY <1>9, <1>11, <1>14
<1>16. IsFiltering(among, s, kept, S)
  BY <1>11, <1>15 DEF IsFiltering, Grown, m
<1> QED
  BY <1>8, <1>16 DEF m

\* What is kept is what was there and belongs, once for every time it was there.
LEMMA OnlyKeeps ==
  ASSUME NEW S, NEW s \in Seq(S), NEW kept
  PROVE  /\ Only(s, kept) \in Seq(S)
         /\ Values(Only(s, kept)) = Values(s) \cap kept
         /\ DistinctIds(s) => DistinctIds(Only(s, kept))
<1> DEFINE m == Len(s)
<1>1. m \in Nat /\ DOMAIN s = 1..m /\ \A n \in 1..m : s[n] \in S
  OBVIOUS
<1>2. PICK among : IsFiltering(among, s, kept, S) /\ Only(s, kept) = among[m]
  BY OnlyUnfolds
<1> HIDE DEF m
<1>3. /\ among \in [0..m -> Seq(S)] /\ among[0] = <<>>
      /\ \A n \in 1..m :
            among[n] = IF s[n] \in kept THEN Append(among[n - 1], s[n]) ELSE among[n - 1]
  BY <1>2 DEF IsFiltering, m
<1> DEFINE T == {n \in 0..m : /\ Values(among[n]) = {s[i] : i \in 1..n} \cap kept
                              /\ DistinctIds(s) => DistinctIds(among[n])}
<1>4. 0 \in T
  BY <1>1, <1>3 DEF Values, DistinctIds
<1>5. ASSUME NEW n \in T, n \in 0..m, n < m
      PROVE  n + 1 \in T
  <2> DEFINE x == among[n]
             r == s[n + 1]
  <2>1. n + 1 \in 1..m /\ n + 1 \in 0..m /\ (n + 1) - 1 = n /\ x \in Seq(S) /\ r \in S
    BY <1>1, <1>3, <1>5
  <2>2. {s[i] : i \in 1..n + 1} = {s[i] : i \in 1..n} \cup {r}
    BY <2>1
  <2>3. /\ Values(x) = {s[i] : i \in 1..n} \cap kept
        /\ DistinctIds(s) => DistinctIds(x)
    OBVIOUS
  <2>4. CASE r \in kept
    <3>1. among[n + 1] = Append(x, r)
      BY <1>3, <2>1, <2>4
    <3> HIDE DEF x, r
    <3>2. /\ DOMAIN x = 1..Len(x) /\ Len(x) \in Nat
          /\ DOMAIN Append(x, r) = 1..Len(x) + 1
          /\ \A k \in 1..Len(x) : Append(x, r)[k] = x[k]
          /\ Append(x, r)[Len(x) + 1] = r
      BY <2>1
    <3>3. Values(Append(x, r)) = Values(x) \cup {r}
      BY <3>2 DEF Values
    <3>4. ASSUME DistinctIds(s)
          PROVE  DistinctIds(Append(x, r))
      <4>1. \A k \in 1..Len(x) : x[k].id # r.id
        <5>1. SUFFICES ASSUME NEW k \in 1..Len(x) PROVE x[k].id # r.id
          OBVIOUS
        <5>2. PICK i \in 1..n : x[k] = s[i]
          BY <2>3, <3>2 DEF Values
        <5>3. i \in 1..m /\ n + 1 \in 1..m /\ i # n + 1
          BY <1>1, <2>1
        <5> QED
          BY <1>1, <3>4, <5>2, <5>3 DEF DistinctIds, r
      <4> QED
        BY <2>3, <3>2, <3>4, <4>1 DEF DistinctIds
    <3> QED
      BY <2>1, <2>2, <2>3, <2>4, <3>1, <3>3, <3>4
  <2>5. CASE r \notin kept
    <3>1. among[n + 1] = x
      BY <1>3, <2>1, <2>5
    <3> HIDE DEF x, r
    <3> QED
      BY <2>1, <2>2, <2>3, <2>5, <3>1
  <2> QED
    BY <2>4, <2>5
<1> HIDE DEF T
<1>6. m \in T
  <2>1. 0..m \subseteq T
    BY <1>1, <1>4, <1>5, InductionUpTo
  <2> QED
    BY <1>1, <2>1
<1>7. Values(s) = {s[i] : i \in 1..m}
  BY <1>1 DEF Values
<1> QED
  BY <1>1, <1>2, <1>3, <1>6, <1>7 DEF T

LEMMA ValuesOfRecords ==
  ASSUME NEW S, NEW s \in Seq(S)
  PROVE  /\ Values(s) \subseteq S
         /\ s = <<>> <=> Values(s) = {}
         /\ s # <<>> => s[1] \in Values(s)
<1>1. DOMAIN s = 1..Len(s) /\ Len(s) \in Nat /\ \A n \in 1..Len(s) : s[n] \in S
  OBVIOUS
<1>2. s # <<>> => 1 \in DOMAIN s
  BY <1>1
<1>3. s = <<>> => DOMAIN s = {}
  BY <1>1
<1> QED
  BY <1>1, <1>2, <1>3 DEF Values

LEMMA ConcatValues ==
  ASSUME NEW S, NEW s \in Seq(S), NEW t \in Seq(S)
  PROVE  /\ s \o t \in Seq(S)
         /\ Values(s \o t) = Values(s) \cup Values(t)
         /\ DistinctIds(s) /\ DistinctIds(t)
            /\ (\A a \in Values(s), b \in Values(t) : a.id # b.id) => DistinctIds(s \o t)
         /\ s # <<>> => (s \o t)[1] = s[1]
         /\ s = <<>> => s \o t = t
<1> DEFINE m == Len(s)
           n == Len(t)
           c == s \o t
<1>1. /\ m \in Nat /\ n \in Nat /\ DOMAIN s = 1..m /\ DOMAIN t = 1..n /\ DOMAIN c = 1..m + n
      /\ \A i \in 1..m : c[i] = s[i]
      /\ \A i \in 1..n : c[m + i] = t[i]
      /\ c \in Seq(S)
  OBVIOUS
<1>2. s # <<>> => 1 \in 1..m
  BY <1>1
<1>3. s = <<>> => c = t
  OBVIOUS
<1> HIDE DEF m, n, c
<1>4. ASSUME NEW i \in 1..m + n
      PROVE  \/ i \in 1..m /\ c[i] = s[i]
             \/ i - m \in 1..n /\ c[i] = t[i - m]
  <2>1. CASE i <= m
    BY <1>1, <2>1
  <2>2. CASE i > m
    <3>1. i - m \in 1..n /\ m + (i - m) = i
      BY <1>1, <2>2
    <3> QED
      BY <1>1, <3>1
  <2> QED
    BY <1>1, <2>1, <2>2
<1>5. Values(c) \subseteq Values(s) \cup Values(t)
  BY <1>1, <1>4 DEF Values
<1>6. Values(s) \subseteq Values(c)
  <2>1. \A i \in 1..m : i \in 1..m + n
    BY <1>1
  <2> QED
    BY <1>1, <2>1 DEF Values
<1>7. Values(t) \subseteq Values(c)
  <2>1. \A i \in 1..n : m + i \in 1..m + n
    BY <1>1
  <2> QED
    BY <1>1, <2>1 DEF Values
<1>8. ASSUME DistinctIds(s), DistinctIds(t),
             \A a \in Values(s), b \in Values(t) : a.id # b.id,
             NEW i \in 1..m + n, NEW j \in 1..m + n, c[i].id = c[j].id
      PROVE  i = j
  <2>1. \A k \in 1..m : s[k] \in Values(s)
    BY <1>1 DEF Values
  <2>2. \A k \in 1..n : t[k] \in Values(t)
    BY <1>1 DEF Values
  <2>3. CASE i \in 1..m /\ c[i] = s[i] /\ j \in 1..m /\ c[j] = s[j]
    BY <1>1, <1>8, <2>3 DEF DistinctIds
  <2>4. CASE i - m \in 1..n /\ c[i] = t[i - m] /\ j - m \in 1..n /\ c[j] = t[j - m]
    <3>1. i - m = j - m
      BY <1>1, <1>8, <2>4 DEF DistinctIds
    <3> QED
      BY <1>1, <3>1
  <2>5. CASE i \in 1..m /\ c[i] = s[i] /\ j - m \in 1..n /\ c[j] = t[j - m]
    BY <1>8, <2>1, <2>2, <2>5
  <2>6. CASE i - m \in 1..n /\ c[i] = t[i - m] /\ j \in 1..m /\ c[j] = s[j]
    BY <1>8, <2>1, <2>2, <2>6
  <2> QED
    BY <1>4, <2>3, <2>4, <2>5, <2>6
<1> QED
  BY <1>1, <1>2, <1>3, <1>5, <1>6, <1>7, <1>8 DEF DistinctIds, c

-----------------------------------------------------------------------------
(* The candidates of a workspace.                                          *)

LEMMA RunningComeFirst ==
  ASSUME NEW s \in Seq(Records)
  PROVE  /\ RunningFirst(s) \in Seq(Records)
         /\ Values(RunningFirst(s)) = Values(s)
         /\ DistinctIds(s) => DistinctIds(RunningFirst(s))
         /\ (\E r \in Values(s) : IsRunning(r)) => IsRunning(RunningFirst(s)[1])
<1> DEFINE up == {r \in Records : IsRunning(r)}
           down == {r \in Records : ~IsRunning(r)}
<1>1. /\ Only(s, up) \in Seq(Records) /\ Only(s, down) \in Seq(Records)
      /\ Values(Only(s, up)) = Values(s) \cap up
      /\ Values(Only(s, down)) = Values(s) \cap down
      /\ DistinctIds(s) => DistinctIds(Only(s, up)) /\ DistinctIds(Only(s, down))
  BY OnlyKeeps
<1>2. Values(s) \subseteq Records
  BY ValuesOfRecords
<1>3. RunningFirst(s) = Only(s, up) \o Only(s, down)
  BY DEF RunningFirst
<1>4. DistinctIds(s) => \A a \in Values(s) \cap up, b \in Values(s) \cap down : a.id # b.id
  BY DEF DistinctIds, Values
<1> DEFINE first == Only(s, up)
           last == Only(s, down)
<1>8. /\ Values(first \o last) = Values(first) \cup Values(last)
      /\ DistinctIds(first) /\ DistinctIds(last)
         /\ (\A a \in Values(first), b \in Values(last) : a.id # b.id)
         => DistinctIds(first \o last)
  <2>1. first \in Seq(Records) /\ last \in Seq(Records)
    BY <1>1
  <2> HIDE DEF first, last
  <2> QED
    BY <2>1, ConcatValues
<1>5. Values(RunningFirst(s)) = Values(s)
  <2>1. (Values(s) \cap up) \cup (Values(s) \cap down) = Values(s)
    BY <1>2
  <2> QED
    BY <1>1, <1>3, <1>8, <2>1
<1>6. DistinctIds(s) => DistinctIds(RunningFirst(s))
  BY <1>1, <1>3, <1>4, <1>8
<1>7. ASSUME NEW r \in Values(s), IsRunning(r)
      PROVE  IsRunning(RunningFirst(s)[1])
  <2>1. r \in up
    BY <1>2, <1>7
  <2>2. Only(s, up) # <<>> /\ Only(s, up)[1] \in up
    BY <1>1, <2>1, ValuesOfRecords
  <2> QED
    BY <1>1, <1>3, <2>2, ConcatValues
<1> QED
  BY <1>1, <1>3, <1>5, <1>6, <1>7, ConcatValues

LEMMA CandidatesOf ==
  ASSUME NEW s \in Seq(Records), NEW w
  PROVE  /\ ContainerCandidates(w, s) \in Seq(Records)
         /\ Values(ContainerCandidates(w, s)) = Values(s) \cap LabelledFor(w)
         /\ DistinctIds(s) => DistinctIds(ContainerCandidates(w, s))
         /\ (\E r \in Values(s) \cap LabelledFor(w) : IsRunning(r))
               => IsRunning(ContainerCandidates(w, s)[1])
  BY OnlyKeeps, RunningComeFirst DEF ContainerCandidates

LEMMA MoreThanOne ==
  ASSUME NEW S, IsFiniteSet(S)
  PROVE  Cardinality(S) > 1 <=> \E x, y \in S : x # y
<1>1. Cardinality(S) \in Nat
  BY FS_CardinalityType
<1>2. Cardinality(S) = 0 <=> S = {}
  BY FS_EmptySet
<1>3. Cardinality(S) = 1 <=> \E x : S = {x}
  BY FS_Singleton
<1>4. CASE S = {}
  BY <1>2, <1>4
<1>5. CASE S # {}
  <2>1. (\E x : S = {x}) <=> ~ \E x, y \in S : x # y
    BY <1>5
  <2>2. Cardinality(S) > 1 <=> Cardinality(S) # 1
    BY <1>1, <1>2, <1>5
  <2> QED
    BY <1>3, <2>1, <2>2
<1> QED
  BY <1>4, <1>5

LEMMA RunningCounted ==
  ASSUME NEW s \in Seq(Records), DistinctIds(s)
  PROVE  RunningCount(s) > 1 <=>
            \E a, b \in Values(s) : IsRunning(a) /\ IsRunning(b) /\ a.id # b.id
<1> DEFINE S == {i \in DOMAIN s : IsRunning(s[i])}
<1>1. DOMAIN s = 1..Len(s) /\ Len(s) \in Nat
  OBVIOUS
<1>2. IsFiniteSet(1..Len(s))
  BY <1>1, FS_Interval
<1>3. IsFiniteSet(S)
  BY <1>1, <1>2, FS_Subset
<1>4. RunningCount(s) = Cardinality(S)
  BY DEF RunningCount
<1>5. RunningCount(s) > 1 <=> \E i, j \in S : i # j
  <2> HIDE DEF S
  <2> QED
    BY <1>3, <1>4, MoreThanOne
<1>6. ASSUME NEW i \in S, NEW j \in S, i # j
      PROVE  \E a, b \in Values(s) : IsRunning(a) /\ IsRunning(b) /\ a.id # b.id
  BY <1>6 DEF DistinctIds, Values
<1>7. ASSUME NEW a \in Values(s), NEW b \in Values(s), IsRunning(a), IsRunning(b), a.id # b.id
      PROVE  \E i, j \in S : i # j
  <2>1. PICK i \in DOMAIN s : a = s[i]
    BY DEF Values
  <2>2. PICK j \in DOMAIN s : b = s[j]
    BY DEF Values
  <2>3. i \in S /\ j \in S /\ i # j
    BY <1>7, <2>1, <2>2
  <2> QED
    BY <2>3
<1> HIDE DEF S
<1> QED
  BY <1>5, <1>6, <1>7

-----------------------------------------------------------------------------
(* What a listing of labelled containers is read as.                       *)

\* A record is labelled for the workspace its container belongs to, if for any.
Labelled(records) ==
    \A r \in Values(records) : NoFolder(r) \/ Realpath[r.folder] = WorkspaceOf[r.id]

LEMMA ParsedIs ==
  ASSUME NEW listing, listing.records \in Seq(Records), DistinctIds(listing.records)
  PROVE  /\ Parsed(listing) \in Seq(Records)
         /\ Values(Parsed(listing)) = Values(listing.records) \cap Whole
         /\ DistinctIds(Parsed(listing))
  BY OnlyKeeps DEF Parsed

LEMMA SeenIs ==
  ASSUME NEW s \in Seq(Records), DistinctIds(s), NEW c \in Containers
  PROVE  /\ (\A r \in Values(s) : r.id = c => NoFolder(r)) => SeenIn(s)[c] = "absent"
         /\ \A r \in Values(s) :
               r.id = c /\ ~NoFolder(r) => SeenIn(s)[c] = MapContainerState(r.state)
<1> DEFINE of == {i \in DOMAIN s : s[i].id = c /\ ~NoFolder(s[i])}
<1>1. SeenIn(s)[c] = IF of = {} THEN "absent"
                     ELSE MapContainerState(s[CHOOSE i \in of : TRUE].state)
  BY DEF SeenIn
<1>2. ASSUME \A r \in Values(s) : r.id = c => NoFolder(r)
      PROVE  of = {}
  BY <1>2 DEF Values
<1>3. ASSUME NEW r \in Values(s), r.id = c, ~NoFolder(r)
      PROVE  SeenIn(s)[c] = MapContainerState(r.state)
  <2>1. PICK i \in DOMAIN s : r = s[i]
    BY DEF Values
  <2>2. i \in of
    BY <1>3, <2>1
  <2>3. \A j \in of : j = i
    BY <1>3, <2>1 DEF DistinctIds
  <2> HIDE DEF of
  <2>4. (CHOOSE j \in of : TRUE) = i
    BY <2>2, <2>3
  <2> QED
    BY <1>1, <2>1, <2>2, <2>4
<1> HIDE DEF of
<1> QED
  BY <1>1, <1>2, <1>3

LEMMA StatesSeen ==
  ASSUME NEW s \in Seq(Records), DistinctIds(s), Labelled(s), NEW w \in Workspaces,
         NEW c \in Containers
  PROVE  /\ c \in Candidates(w, SeenIn(s))
               <=> \E r \in Values(s) \cap LabelledFor(w) : r.id = c
         /\ c \in RunningOf(w, SeenIn(s))
               <=> \E r \in Values(s) \cap LabelledFor(w) : r.id = c /\ IsRunning(r)
<1>1. Values(s) \subseteq Records
  BY ValuesOfRecords
<1>2. ASSUME NEW r \in Values(s), r.id = c, NEW q \in Values(s), q.id = c
      PROVE  r = q
  BY <1>2 DEF Values, DistinctIds
<1>3. \A x : MapContainerState(x) # "absent"
  BY DEF MapContainerState
<1>4. ASSUME NEW r \in Values(s) \cap LabelledFor(w), r.id = c
      PROVE  /\ WorkspaceOf[c] = w /\ SeenIn(s)[c] = MapContainerState(r.state)
  <2>1. ~NoFolder(r) /\ Realpath[r.folder] = w
    BY DEF LabelledFor
  <2> QED
    BY <1>4, <2>1, SeenIs DEF Labelled
<1>5. ASSUME WorkspaceOf[c] = w, SeenIn(s)[c] # "absent"
      PROVE  \E r \in Values(s) \cap LabelledFor(w) : r.id = c
  <2>1. PICK r \in Values(s) : r.id = c /\ ~NoFolder(r)
    BY <1>5, SeenIs
  <2>2. r \in LabelledFor(w)
    BY <1>1, <1>5, <2>1 DEF LabelledFor, Labelled
  <2> QED
    BY <2>1, <2>2
<1>6. c \in Candidates(w, SeenIn(s)) <=> \E r \in Values(s) \cap LabelledFor(w) : r.id = c
  BY <1>3, <1>4, <1>5 DEF Candidates
<1>7. c \in RunningOf(w, SeenIn(s))
         <=> \E r \in Values(s) \cap LabelledFor(w) : r.id = c /\ IsRunning(r)
  BY <1>4, <1>6 DEF RunningOf, IsRunning
<1> QED
  BY <1>6, <1>7

LEMMA EntriesImplementRules ==
  ASSUME NEW listing, listing.records \in Seq(Records), DistinctIds(listing.records),
         Labelled(listing.records)
  PROVE  ImplementsRules(listing)
<1> DEFINE s == Parsed(listing)
           seen == SeenIn(s)
           registry == BuildWorkspaceRegistry(s)
<1>1. s \in Seq(Records) /\ DistinctIds(s) /\ Labelled(s)
  BY ParsedIs DEF Labelled
<1>2. Values(s) \subseteq Records
  BY <1>1, ValuesOfRecords
<1> HIDE DEF s
<1>3. ASSUME NEW w \in Workspaces
      PROVE  /\ ContainerCandidates(w, s) = <<>> <=> Candidates(w, seen) = {}
             /\ {ContainerCandidates(w, s)[i].id : i \in DOMAIN ContainerCandidates(w, s)}
                = Candidates(w, seen)
             /\ ContainerCandidates(w, s) # <<>> =>
                   ContainerCandidates(w, s)[1].id \in Primaries(w, seen)
             /\ RunningCount(ContainerCandidates(w, s)) > 1 <=> Ambiguous(w, seen)
  <2> DEFINE cands == ContainerCandidates(w, s)
             mine == Values(s) \cap LabelledFor(w)
  <2>1. /\ cands \in Seq(Records) /\ Values(cands) = mine /\ DistinctIds(cands)
        /\ (\E r \in mine : IsRunning(r)) => IsRunning(cands[1])
    BY <1>1, CandidatesOf
  <2>2. mine \subseteq Records /\ \A r \in mine : r.id \in Containers
    BY <1>2 DEF Records
  <2>3. \A c \in Containers :
           /\ c \in Candidates(w, seen) <=> \E r \in mine : r.id = c
           /\ c \in RunningOf(w, seen) <=> \E r \in mine : r.id = c /\ IsRunning(r)
    BY <1>1, StatesSeen
  <2>4. Candidates(w, seen) \subseteq Containers /\ RunningOf(w, seen) \subseteq Containers
    BY DEF Candidates, RunningOf
  <2>5. {cands[i].id : i \in DOMAIN cands} = {r.id : r \in mine}
    BY <2>1 DEF Values
  <2>6. cands = <<>> <=> mine = {}
    BY <2>1, ValuesOfRecords
  <2>7. cands # <<>> => cands[1] \in mine
    BY <2>1, ValuesOfRecords
  <2>10. RunningCount(cands) > 1 <=>
            \E a, b \in mine : IsRunning(a) /\ IsRunning(b) /\ a.id # b.id
    <3> HIDE DEF cands
    <3> QED
      BY <2>1, RunningCounted
  <2> HIDE DEF cands, mine, seen
  <2>8. Candidates(w, seen) = {r.id : r \in mine}
    BY <2>2, <2>3, <2>4
  <2>9. ASSUME cands # <<>>
        PROVE  cands[1].id \in Primaries(w, seen)
    <3>1. cands[1] \in mine /\ cands[1].id \in Containers
      BY <2>2, <2>7, <2>9
    <3>2. CASE RunningOf(w, seen) # {}
      <4>1. IsRunning(cands[1])
        BY <2>1, <2>3, <2>4, <3>2
      <4> QED
        BY <2>3, <3>1, <3>2, <4>1 DEF Primaries
    <3>3. CASE RunningOf(w, seen) = {}
      BY <2>8, <3>1, <3>3 DEF Primaries
    <3> QED
      BY <3>2, <3>3
  <2>11. RunningCount(cands) > 1 <=> Ambiguous(w, seen)
    <3>1. ASSUME NEW a \in mine, NEW b \in mine, IsRunning(a), IsRunning(b), a.id # b.id
          PROVE  Ambiguous(w, seen)
      BY <2>2, <2>3, <3>1 DEF Ambiguous
    <3>2. ASSUME Ambiguous(w, seen)
          PROVE  \E a, b \in mine : IsRunning(a) /\ IsRunning(b) /\ a.id # b.id
      <4>1. PICK c \in RunningOf(w, seen), d \in RunningOf(w, seen) : c # d
        BY <3>2 DEF Ambiguous
      <4> QED
        BY <2>3, <2>4, <4>1
    <3> QED
      BY <2>10, <3>1, <3>2
  <2> QED
    BY <2>5, <2>6, <2>8, <2>9, <2>11 DEF cands
<1>4. /\ DOMAIN registry = Registered(s)
      /\ \A w \in Registered(s) :
            /\ registry[w].candidates = ContainerCandidates(w, s)
            /\ registry[w].ambiguous = (RunningCount(ContainerCandidates(w, s)) > 1)
  BY DEF BuildWorkspaceRegistry
<1>5. Registered(s) = {w \in Workspaces : Discovered(w, seen)}
  BY <1>3, RulesAssumption DEF Registered, Discovered
<1>6. \A w \in Workspaces : Candidates(w, seen) = {} => Primaries(w, seen) = {NoContainer}
  BY DEF Primaries, RunningOf
<1> HIDE DEF registry, seen
<1>7. ASSUME NEW w \in DOMAIN registry
      PROVE  /\ {registry[w].candidates[i].id : i \in DOMAIN registry[w].candidates}
                = Candidates(w, seen)
             /\ PrimaryCandidate(registry[w]) \in Primaries(w, seen)
             /\ registry[w].ambiguous <=> Ambiguous(w, seen)
  <2>1. w \in Workspaces /\ w \in Registered(s)
    BY <1>4, <1>5
  <2>2. /\ registry[w].candidates = ContainerCandidates(w, s)
        /\ registry[w].ambiguous = (RunningCount(ContainerCandidates(w, s)) > 1)
    BY <1>4, <2>1
  <2>3. PrimaryCandidate(registry[w]) \in Primaries(w, seen)
    BY <1>3, <1>6, <2>1, <2>2 DEF PrimaryCandidate
  <2> QED
    BY <1>3, <2>1, <2>2, <2>3
<1> QED
  BY <1>4, <1>5, <1>7 DEF ImplementsRules, registry, seen, s

LEMMA ContainersAccounted ==
  ASSUME NEW listing, listing.records \in Seq(Records), DistinctIds(listing.records),
         listing.truncated \in BOOLEAN,
         Labelled(listing.records), NEW c, NEW i \in Nat \ {0},
         i <= Len(listing.records) => listing.records[i].id = c,
         i > Len(listing.records) => listing.truncated
  PROVE  AccountsFor(c, i, listing)
<1> DEFINE s == Parsed(listing)
           registry == BuildWorkspaceRegistry(s)
           Held(w) == \E k \in DOMAIN registry[w].candidates : registry[w].candidates[k].id = c
           told == ParseErrors(listing) \cup Unlabelled(s)
           r == listing.records[i]
<1>1. /\ s \in Seq(Records) /\ DistinctIds(s) /\ Labelled(s)
      /\ Values(s) = Values(listing.records) \cap Whole
  BY ParsedIs DEF Labelled
<1>2. Values(s) \subseteq Records /\ Values(listing.records) \subseteq Records
  BY <1>1, ValuesOfRecords
<1>3. listing.truncated => [what |-> "truncated", at |-> 0] \in told
  BY DEF ParseErrors
<1>4. CASE i > Len(listing.records)
  <2>1. CutOff(i, listing)
    BY <1>4 DEF CutOff
  <2> QED
    BY <1>3, <1>4, <2>1 DEF AccountsFor
<1>5. CASE i <= Len(listing.records) /\ r.form # "whole"
  <2>1. i \in DOMAIN listing.records
    BY <1>5
  <2>2. CASE listing.truncated /\ i = Len(listing.records)
    <3>1. CutOff(i, listing)
      BY <1>5, <2>2 DEF CutOff
    <3> QED
      BY <1>3, <2>2, <3>1 DEF AccountsFor
  <2>3. CASE ~(listing.truncated /\ i = Len(listing.records))
    <3>1. [what |-> "unparseable", at |-> i] \in told
      BY <1>5, <2>1, <2>3 DEF ParseErrors
    <3> QED
      BY <3>1 DEF AccountsFor
  <2> QED
    BY <2>2, <2>3
<1>6. CASE i <= Len(listing.records) /\ r.form = "whole"
  <2>1. i \in DOMAIN listing.records /\ r \in Values(listing.records) /\ r.id = c
    BY <1>6 DEF Values
  <2>2. r \in Values(s) /\ r \in Records
    BY <1>1, <1>2, <1>6, <2>1 DEF Whole
  <2>3. CASE NoFolder(r)
    <3>1. [what |-> "unlabelled", at |-> c] \in told
      BY <2>1, <2>2, <2>3 DEF Unlabelled, Values
    <3> QED
      BY <3>1 DEF AccountsFor
  <2>4. CASE ~NoFolder(r)
    <3> DEFINE w == Realpath[r.folder]
    <3>1. w \in Workspaces /\ r \in LabelledFor(w)
      BY <2>2, <2>4, RegistryAssumption DEF LabelledFor, NoFolder, Records
    <3>2. ASSUME NEW v
          PROVE  /\ Values(ContainerCandidates(v, s)) = Values(s) \cap LabelledFor(v)
                 /\ ContainerCandidates(v, s) = <<>> <=> Values(ContainerCandidates(v, s)) = {}
      BY <1>1, CandidatesOf, ValuesOfRecords
    <3>3. w \in Registered(s)
      BY <2>2, <3>1, <3>2 DEF Registered
    <3>4. /\ DOMAIN registry = Registered(s)
          /\ \A v \in Registered(s) : registry[v].candidates = ContainerCandidates(v, s)
      BY DEF BuildWorkspaceRegistry
    <3> HIDE DEF registry, w, s, r
    <3>5. \A v \in DOMAIN registry :
             Held(v) <=> \E q \in Values(s) \cap LabelledFor(v) : q.id = c
      <4>1. SUFFICES ASSUME NEW v \in DOMAIN registry
                     PROVE  Held(v) <=> \E q \in Values(s) \cap LabelledFor(v) : q.id = c
        OBVIOUS
      <4>2. registry[v].candidates = ContainerCandidates(v, s)
        BY <3>4
      <4>3. Held(v) <=> \E q \in Values(ContainerCandidates(v, s)) : q.id = c
        BY <4>2 DEF Values
      <4> QED
        BY <3>2, <4>3
    <3>6. Held(w)
      BY <2>1, <2>2, <3>1, <3>3, <3>4, <3>5
    <3>7. ASSUME NEW v \in DOMAIN registry, Held(v)
          PROVE  v = w
      <4>1. PICK q \in Values(s) : q \in LabelledFor(v) /\ q.id = c
        BY <3>5, <3>7
      <4>2. q = r
        BY <1>1, <2>1, <2>2, <4>1 DEF Values, DistinctIds
      <4> QED
        BY <4>1, <4>2 DEF LabelledFor, w
    <3>8. w \in DOMAIN registry /\ Held(w) /\ \A v \in DOMAIN registry : Held(v) => v = w
      BY <3>3, <3>4, <3>6, <3>7
    <3> QED
      BY <3>8 DEF AccountsFor, registry, s
  <2> QED
    BY <2>3, <2>4
<1> QED
  BY <1>4, <1>5, <1>6

-----------------------------------------------------------------------------
(* Normalised paths.                                                       *)

IsNorm(out, path) ==
    /\ out \in [0..Len(path) -> Seq(Names)]
    /\ out[0] = <<>>
    /\ \A n \in 1..Len(path) : out[n] = Resolved(out[n - 1], path[n])

LEMMA ResolvedType ==
  ASSUME NEW out \in Seq(Names), NEW s \in Segments
  PROVE  Resolved(out, s) \in Seq(Names)
<1>1. CASE s \in {Blank, "."}
  BY <1>1 DEF Resolved
<1>2. CASE s = ".."
  <2>1. out # <<>> => SubSeq(out, 1, Len(out) - 1) \in Seq(Names)
    OBVIOUS
  <2> QED
    BY <1>2, <2>1 DEF Resolved, Dropped, Front
<1>3. CASE s \notin {Blank, ".", ".."}
  <2>1. s \in Names
    BY <1>3 DEF Segments
  <2>2. Resolved(out, s) = Append(out, s)
    BY <1>3 DEF Resolved
  <2> QED
    BY <2>1, <2>2
<1> QED
  BY <1>1, <1>2, <1>3

LEMMA NormUnfolds ==
  ASSUME NEW path \in Seq(Segments)
  PROVE  \E out : IsNorm(out, path) /\ Norm(path) = out[Len(path)]
<1> DEFINE m == Len(path)
           step == [n \in 1..m |-> [x \in Seq(Names) |-> Resolved(x, path[n])]]
           out[n \in 0..Len(path)] == IF n = 0 THEN <<>> ELSE Resolved(out[n - 1], path[n])
<1>1. m \in Nat /\ <<>> \in Seq(Names) /\ \A n \in 1..m : path[n] \in Segments
  OBVIOUS
<1>2. step \in [1..m -> [Seq(Names) -> Seq(Names)]]
  BY <1>1, ResolvedType
<1>3. \A n \in 1..m, x \in Seq(Names) : step[n][x] = Resolved(x, path[n])
  OBVIOUS
<1> HIDE DEF step
<1>4. PICK f : UnfoldsUpTo(f, Seq(Names), <<>>, m, step)
  BY <1>1, <1>2, RecursionUpTo
<1>5. \A n \in 1..m : n - 1 \in 0..m
  BY <1>1
<1>6. /\ f \in [0..m -> Seq(Names)] /\ f[0] = <<>>
      /\ \A n \in 1..m : f[n] = Resolved(f[n - 1], path[n])
  BY <1>3, <1>4, <1>5 DEF UnfoldsUpTo
<1>7. f = [n \in 0..m |-> IF n = 0 THEN <<>> ELSE Resolved(f[n - 1], path[n])]
  BY <1>1, <1>6
<1>8. out = [n \in 0..m |-> IF n = 0 THEN <<>> ELSE Resolved(out[n - 1], path[n])]
  BY <1>7
<1>9. Norm(path) = out[m]
  BY DEF Norm
<1> HIDE DEF out, m
<1> DEFINE G(n) == IF n = 0 THEN <<>> ELSE Resolved(out[n - 1], path[n])
<1>10. out = [n \in 0..m |-> G(n)]
  BY <1>8
<1>11. G(0) = <<>> /\ \A n \in 1..m : G(n) = Resolved(out[n - 1], path[n])
  OBVIOUS
<1> HIDE DEF G
<1>12. /\ out[0] = <<>> /\ DOMAIN out = 0..m
       /\ \A n \in 1..m : out[n] = Resolved(out[n - 1], path[n])
  BY <1>1, <1>10, <1>11
<1> DEFINE T == {n \in 0..m : out[n] \in Seq(Names)}
<1>13. 0 \in T
  <2>1. 0 \in 0..m
    BY <1>1
  <2>2. out[0] \in Seq(Names)
    BY <1>1, <1>12
  <2> QED
    BY <2>1, <2>2
<1>14. ASSUME NEW n \in T, n \in 0..m, n < m
       PROVE  n + 1 \in T
  <2>1. n + 1 \in 1..m /\ n + 1 \in 0..m /\ (n + 1) - 1 = n /\ out[n] \in Seq(Names)
    BY <1>1, <1>14
  <2>2. out[n + 1] = Resolved(out[n], path[n + 1])
    BY <1>12, <2>1
  <2>3. out[n + 1] \in Seq(Names)
    BY <1>1, <2>1, <2>2, ResolvedType
  <2> QED
    BY <2>1, <2>3
<1> HIDE DEF T
<1>15. \A n \in 0..m : out[n] \in Seq(Names)
  BY <1>1, <1>13, <1>14, InductionUpTo DEF T
<1>16. out \in [0..m -> Seq(Names)]
  BY <1>10, <1>12, <1>15
<1> QED
  BY <1>9, <1>12, <1>16 DEF IsNorm, m

LEMMA NormType ==
  ASSUME NEW path \in Seq(Segments)
  PROVE  Norm(path) \in Seq(Names)
<1>1. PICK out : IsNorm(out, path) /\ Norm(path) = out[Len(path)]
  BY NormUnfolds
<1>2. Len(path) \in 0..Len(path)
  OBVIOUS
<1> QED
  BY <1>1, <1>2 DEF IsNorm

\* Paths that begin alike are resolved alike so far.
LEMMA NormAgrees ==
  ASSUME NEW p \in Seq(Segments), NEW q \in Seq(Segments), NEW f, NEW g,
         IsNorm(f, p), IsNorm(g, q), NEW k \in Nat, k <= Len(p), k <= Len(q),
         \A i \in 1..k : p[i] = q[i]
  PROVE  f[k] = g[k]
<1> DEFINE T == {n \in 0..k : f[n] = g[n]}
<1>1. 0 \in T
  BY DEF IsNorm
<1>2. ASSUME NEW n \in T, n \in 0..k, n < k
      PROVE  n + 1 \in T
  <2>1. /\ n + 1 \in 1..k /\ n + 1 \in 0..k /\ n + 1 \in 1..Len(p) /\ n + 1 \in 1..Len(q)
        /\ (n + 1) - 1 = n /\ f[n] = g[n]
    BY <1>2
  <2>2. f[n + 1] = Resolved(f[n], p[n + 1]) /\ g[n + 1] = Resolved(g[n], q[n + 1])
    BY <2>1 DEF IsNorm
  <2> QED
    BY <2>1, <2>2
<1> HIDE DEF T
<1>3. \A n \in 0..k : f[n] = g[n]
  BY <1>1, <1>2, InductionUpTo DEF T
<1> QED
  BY <1>3

LEMMA NormOfEmpty == Norm(<<>>) = <<>>
<1>1. <<>> \in Seq(Segments) /\ Len(<<>>) = 0
  OBVIOUS
<1> QED
  BY <1>1, NormUnfolds DEF IsNorm

\* Empty segments change nothing.
LEMMA NormSkipsBlanks ==
  ASSUME NEW p \in Seq(Segments), NEW k \in Nat, k <= Len(p), \A i \in k + 1..Len(p) : p[i] = Blank
  PROVE  Norm(SubSeq(p, 1, k)) = Norm(p)
<1> DEFINE q == SubSeq(p, 1, k)
           m == Len(p)
<1>1. /\ m \in Nat /\ k <= m /\ q \in Seq(Segments) /\ Len(q) = k
      /\ \A i \in 1..k : q[i] = p[i]
  OBVIOUS
<1>2. PICK f : IsNorm(f, p) /\ Norm(p) = f[m]
  BY NormUnfolds
<1> HIDE DEF q, m
<1>3. PICK g : IsNorm(g, q) /\ Norm(q) = g[k]
  BY <1>1, NormUnfolds
<1>4. f[k] = g[k]
  BY <1>1, <1>2, <1>3, NormAgrees
<1> DEFINE T == {n \in 0..m : n >= k => f[n] = f[k]}
<1>5. 0 \in T
  BY <1>1
<1>6. ASSUME NEW n \in T, n \in 0..m, n < m
      PROVE  n + 1 \in T
  <2>1. n \in Nat /\ n + 1 \in 1..m /\ n + 1 \in 0..m /\ (n + 1) - 1 = n
    BY <1>1, <1>6
  <2>2. CASE n + 1 > k
    <3>1. n >= k /\ n + 1 \in k + 1..m
      BY <1>1, <2>1, <2>2
    <3>2. f[n] = f[k] /\ p[n + 1] = Blank
      BY <3>1 DEF m
    <3>3. f[n + 1] = Resolved(f[n], p[n + 1])
      BY <1>2, <2>1 DEF IsNorm, m
    <3> QED
      BY <2>1, <3>2, <3>3 DEF Resolved
  <2>3. CASE n + 1 <= k
    BY <1>1, <2>1, <2>3
  <2> QED
    BY <1>1, <2>1, <2>2, <2>3
<1> HIDE DEF T
<1>7. m \in T
  <2>1. 0..m \subseteq T
    BY <1>1, <1>5, <1>6, InductionUpTo
  <2> QED
    BY <1>1, <2>1
<1> QED
  BY <1>1, <1>2, <1>3, <1>4, <1>7 DEF T, q, m

\* Names that follow are kept as they are.
LEMMA NormKeepsNames ==
  ASSUME NEW p \in Seq(Segments), NEW q \in Seq(Names)
  PROVE  Norm(p \o q) = Norm(p) \o q
<1> DEFINE c == p \o q
           m == Len(p)
           k == Len(q)
<1>1. /\ m \in Nat /\ k \in Nat /\ c \in Seq(Segments) /\ Len(c) = m + k
      /\ \A i \in 1..m : c[i] = p[i]
      /\ \A i \in 1..k : c[m + i] = q[i]
      /\ \A i \in 1..k : q[i] \in Names
  <2>1. q \in Seq(Segments)
    <3>1. Names \subseteq Segments
      BY DEF Segments
    <3> QED
      BY <3>1
  <2> QED
    BY <2>1
<1>2. PICK f : IsNorm(f, p) /\ Norm(p) = f[m]
  BY NormUnfolds
<1> HIDE DEF c
<1>3. PICK g : IsNorm(g, c) /\ Norm(c) = g[m + k]
  BY <1>1, NormUnfolds
<1>4. g[m] = f[m]
  <2>1. m \in Nat /\ m <= Len(p) /\ m <= Len(c) /\ \A i \in 1..m : p[i] = c[i]
    BY <1>1
  <2>2. IsNorm(f, p) /\ IsNorm(g, c) /\ c \in Seq(Segments)
    BY <1>1, <1>2, <1>3
  <2> HIDE DEF m, k
  <2> QED
    BY <2>1, <2>2, NormAgrees
<1>5. Norm(p) \in Seq(Names)
  BY NormType
<1> HIDE DEF m, k
<1> DEFINE T == {n \in 0..k : g[m + n] = Norm(p) \o SubSeq(q, 1, n)}
<1>6. 0 \in T
  <2>1. SubSeq(q, 1, 0) = <<>> /\ Norm(p) \o <<>> = Norm(p)
    BY <1>5
  <2>2. g[m + 0] = Norm(p) /\ 0 \in 0..k
    BY <1>1, <1>2, <1>4
  <2> QED
    BY <2>1, <2>2
<1>7. ASSUME NEW n \in T, n \in 0..k, n < k
      PROVE  n + 1 \in T
  <2>7. g[m + n] = Norm(p) \o SubSeq(q, 1, n)
    BY <1>7
  <2> HIDE DEF T
  <2>8. m \in Nat /\ k \in Nat /\ n \in Nat /\ n < k
    BY <1>1, <1>7
  <2>1. /\ n \in Nat /\ n + 1 \in 1..k /\ n + 1 \in 0..k
        /\ m + (n + 1) \in 1..m + k /\ (m + (n + 1)) - 1 = m + n
    BY <2>8
  <2>2. g[m + (n + 1)] = Resolved(g[m + n], c[m + (n + 1)])
    BY <1>1, <1>3, <2>1 DEF IsNorm
  <2>3. c[m + (n + 1)] = q[n + 1] /\ q[n + 1] \in Names
    BY <1>1, <2>1
  <2>4. Resolved(g[m + n], q[n + 1]) = Append(g[m + n], q[n + 1])
    BY <2>3, RoutingAssumption DEF Resolved
  <2>5. SubSeq(q, 1, n + 1) = Append(SubSeq(q, 1, n), q[n + 1])
    BY <1>1, <2>1 DEF k
  <2>6. Norm(p) \o Append(SubSeq(q, 1, n), q[n + 1]) = Append(Norm(p) \o SubSeq(q, 1, n), q[n + 1])
    <3>1. SubSeq(q, 1, n) \in Seq(Names)
      BY <1>1, <2>1 DEF k
    <3> QED
      BY <1>5, <2>3, <3>1
  <2> QED
    BY <2>1, <2>2, <2>3, <2>4, <2>5, <2>6, <2>7 DEF T
<1> HIDE DEF T
<1>8. k \in T
  <2>1. 0..k \subseteq T
    BY <1>1, <1>6, <1>7, InductionUpTo
  <2> QED
    BY <1>1, <2>1
<1>9. SubSeq(q, 1, k) = q
  BY DEF k
<1> QED
  BY <1>3, <1>8, <1>9 DEF T, c

LEMMA NormOfNames ==
  ASSUME NEW q \in Seq(Names)
  PROVE  Norm(q) = q
<1>1. <<>> \in Seq(Segments) /\ <<>> \o q = q
  OBVIOUS
<1> QED
  BY <1>1, NormKeepsNames, NormOfEmpty

LEMMA TrimmedIs ==
  ASSUME NEW p \in Seq(Segments)
  PROVE  /\ TrailingTrimmed(p) \in Seq(Segments)
         /\ Norm(TrailingTrimmed(p)) = Norm(p)
<1>1. CASE p = Root
  BY <1>1 DEF TrailingTrimmed
<1>2. CASE p # Root
  <2> DEFINE ends == {n \in 0..Len(p) : \A i \in n + 1..Len(p) : p[i] = Blank}
             k == CHOOSE n \in ends : \A j \in ends : n <= j
  <2>1. ends \in SUBSET Nat /\ Len(p) \in ends
    <3>1. Len(p) \in Nat
      OBVIOUS
    <3> QED
      BY <3>1
  <2>2. \E n \in ends : \A j \in ends : n <= j
    <3> HIDE DEF ends
    <3> QED
      BY <2>1, NatMin
  <2>3. k \in ends
    BY <2>2
  <2>4. TrailingTrimmed(p) = SubSeq(p, 1, k)
    BY <1>2 DEF TrailingTrimmed
  <2> HIDE DEF k
  <2>5. k \in Nat /\ k <= Len(p) /\ \A i \in k + 1..Len(p) : p[i] = Blank
    BY <2>3
  <2>6. SubSeq(p, 1, k) \in Seq(Segments)
    BY <2>5
  <2> QED
    BY <2>4, <2>5, <2>6, NormSkipsBlanks
<1> QED
  BY <1>1, <1>2

-----------------------------------------------------------------------------
(* The lengths of spellings.                                               *)

IsLength(len, path) ==
    /\ len \in [0..Len(path) -> Nat]
    /\ len[0] = 0
    /\ \A n \in 1..Len(path) : len[n] = len[n - 1] + 1 + SegmentLength(path[n])

LEMMA SegmentLengthType ==
  ASSUME NEW s \in Segments
  PROVE  SegmentLength(s) \in Nat /\ (s \in Names => SegmentLength(s) >= 1)
<1>1. CASE s \in Names
  <2>1. SegmentLength(s) = NameLength[s]
    BY <1>1, RoutingAssumption DEF SegmentLength
  <2>2. NameLength[s] \in Nat \ {0}
    BY <1>1, RoutingAssumption
  <2> QED
    BY <2>1, <2>2
<1>2. CASE s \notin Names
  BY <1>2 DEF Segments, SegmentLength
<1> QED
  BY <1>1, <1>2

LEMMA LengthUnfolds ==
  ASSUME NEW path \in Seq(Segments)
  PROVE  \E len : IsLength(len, path) /\ StringLength(path) = len[Len(path)]
<1> DEFINE m == Len(path)
           More(n, x) == x + 1 + SegmentLength(path[n])
           step == [n \in 1..m |-> [x \in Nat |-> More(n, x)]]
           length[n \in 0..Len(path)] ==
             IF n = 0 THEN 0 ELSE length[n - 1] + 1 + SegmentLength(path[n])
<1>1. m \in Nat /\ \A n \in 1..m : path[n] \in Segments
  OBVIOUS
<1>2. \A n \in 1..m, x \in Nat : More(n, x) \in Nat
  BY <1>1, SegmentLengthType
<1>3. step \in [1..m -> [Nat -> Nat]] /\ \A n \in 1..m, x \in Nat : step[n][x] = More(n, x)
  <2> HIDE DEF More
  <2> QED
    BY <1>2
<1> HIDE DEF step
<1>4. PICK f : UnfoldsUpTo(f, Nat, 0, m, step)
  BY <1>1, <1>3, RecursionUpTo
<1>5. f \in [0..m -> Nat] /\ f[0] = 0 /\ \A n \in 1..m : f[n] = More(n, f[n - 1])
  <2>1. \A n \in 1..m : n - 1 \in 0..m
    BY <1>1
  <2> HIDE DEF More
  <2> QED
    BY <1>3, <1>4, <2>1 DEF UnfoldsUpTo
<1>6. f = [n \in 0..m |-> IF n = 0 THEN 0 ELSE More(n, f[n - 1])]
  <2> HIDE DEF More
  <2> QED
    BY <1>1, <1>5
<1>7. length = [n \in 0..m |-> IF n = 0 THEN 0 ELSE More(n, length[n - 1])]
  BY <1>6
<1>8. StringLength(path) = length[m]
  BY DEF StringLength
<1> HIDE DEF length, m, More
<1> DEFINE G(n) == IF n = 0 THEN 0 ELSE More(n, length[n - 1])
<1>9. length = [n \in 0..m |-> G(n)]
  BY <1>7
<1>10. G(0) = 0 /\ \A n \in 1..m : G(n) = More(n, length[n - 1])
  OBVIOUS
<1> HIDE DEF G
<1>11. /\ length[0] = 0 /\ DOMAIN length = 0..m
       /\ \A n \in 1..m : length[n] = More(n, length[n - 1])
  BY <1>1, <1>9, <1>10
<1> DEFINE T == {n \in 0..m : length[n] \in Nat}
<1>12. 0 \in T
  <2>1. 0 \in 0..m
    BY <1>1
  <2> QED
    BY <1>11, <2>1
<1>13. ASSUME NEW n \in T, n \in 0..m, n < m
       PROVE  n + 1 \in T
  <2>1. n + 1 \in 1..m /\ n + 1 \in 0..m /\ (n + 1) - 1 = n /\ length[n] \in Nat
    BY <1>1, <1>13
  <2>2. length[n + 1] = More(n + 1, length[n])
    BY <1>11, <2>1
  <2>3. length[n + 1] \in Nat
    BY <1>2, <2>1, <2>2
  <2> QED
    BY <2>1, <2>3
<1> HIDE DEF T
<1>14. \A n \in 0..m : length[n] \in Nat
  BY <1>1, <1>12, <1>13, InductionUpTo DEF T
<1>15. length \in [0..m -> Nat]
  BY <1>9, <1>11, <1>14
<1>16. IsLength(length, path)
  BY <1>11, <1>15 DEF IsLength, m, More
<1> QED
  BY <1>8, <1>16 DEF m

\* Of two spellings that begin alike, so much is equally long; and every segment adds.
LEMMA LengthAgrees ==
  ASSUME NEW p \in Seq(Segments), NEW q \in Seq(Segments), NEW f, NEW g,
         IsLength(f, p), IsLength(g, q), NEW k \in Nat, k <= Len(p), k <= Len(q),
         \A i \in 1..k : p[i] = q[i]
  PROVE  f[k] = g[k]
<1> DEFINE T == {n \in 0..k : f[n] = g[n]}
<1>1. 0 \in T
  BY DEF IsLength
<1>2. ASSUME NEW n \in T, n \in 0..k, n < k
      PROVE  n + 1 \in T
  <2>1. /\ n + 1 \in 1..k /\ n + 1 \in 0..k /\ n + 1 \in 1..Len(p) /\ n + 1 \in 1..Len(q)
        /\ (n + 1) - 1 = n /\ f[n] = g[n]
    BY <1>2
  <2>2. /\ f[n + 1] = f[n] + 1 + SegmentLength(p[n + 1])
        /\ g[n + 1] = g[n] + 1 + SegmentLength(q[n + 1])
    BY <2>1 DEF IsLength
  <2> QED
    BY <2>1, <2>2
<1> HIDE DEF T
<1>3. \A n \in 0..k : f[n] = g[n]
  BY <1>1, <1>2, InductionUpTo DEF T
<1> QED
  BY <1>3

LEMMA LengthGrows ==
  ASSUME NEW p \in Seq(Segments), NEW f, IsLength(f, p),
         NEW k \in Nat, NEW n \in Nat, k <= n, n <= Len(p)
  PROVE  f[k] <= f[n] /\ (k < n => f[k] < f[n])
<1> DEFINE T == {i \in 0..n : i >= k => f[k] <= f[i] /\ (k < i => f[k] < f[i])}
<1>0. f[k] \in Nat
  BY DEF IsLength
<1>1. 0 \in T
  BY <1>0
<1>2. ASSUME NEW i \in T, i \in 0..n, i < n
      PROVE  i + 1 \in T
  <2>1. /\ i \in Nat /\ i + 1 \in 1..Len(p) /\ i \in 0..Len(p) /\ i + 1 \in 0..n /\ (i + 1) - 1 = i
    BY <1>2
  <2>2. /\ f[i + 1] = f[i] + 1 + SegmentLength(p[i + 1]) /\ f[i] \in Nat
        /\ SegmentLength(p[i + 1]) \in Nat
    <3>1. f[i + 1] = f[(i + 1) - 1] + 1 + SegmentLength(p[i + 1]) /\ f[i] \in Nat
      BY <2>1 DEF IsLength
    <3>2. p[i + 1] \in Segments
      BY <2>1
    <3> QED
      BY <2>1, <3>1, <3>2, SegmentLengthType
  <2>3. CASE i >= k
    <3>1. f[k] <= f[i]
      BY <2>3
    <3>2. f[k] < f[i + 1]
      BY <1>0, <2>2, <3>1
    <3> QED
      BY <1>0, <2>1, <2>2, <3>2
  <2>4. CASE i < k
    <3>1. i + 1 >= k => i + 1 = k
      BY <2>1, <2>4
    <3> QED
      BY <1>0, <2>1, <3>1
  <2> QED
    BY <2>1, <2>3, <2>4
<1> HIDE DEF T
<1>3. n \in T
  <2>1. 0..n \subseteq T
    BY <1>1, <1>2, InductionUpTo
  <2> QED
    BY <2>1
<1> QED
  BY <1>3 DEF T

\* A spelling is at least as long as any beginning of it.
LEMMA PrefixIsShorter ==
  ASSUME NEW p \in Seq(Segments), NEW q \in Seq(Segments), Len(p) <= Len(q),
         \A i \in 1..Len(p) : p[i] = q[i]
  PROVE  /\ StringLength(p) \in Nat /\ StringLength(q) \in Nat
         /\ StringLength(p) <= StringLength(q)
         /\ Len(p) < Len(q) => StringLength(p) < StringLength(q)
<1>1. PICK f : IsLength(f, p) /\ StringLength(p) = f[Len(p)]
  BY LengthUnfolds
<1>2. PICK g : IsLength(g, q) /\ StringLength(q) = g[Len(q)]
  BY LengthUnfolds
<1>3. Len(p) \in Nat /\ Len(q) \in Nat
  OBVIOUS
<1>4. f[Len(p)] = g[Len(p)]
  <2> DEFINE k == Len(p)
  <2>1. k \in Nat /\ k <= Len(p) /\ k <= Len(q) /\ \A i \in 1..k : p[i] = q[i]
    BY <1>3
  <2> HIDE DEF k
  <2>2. f[k] = g[k]
    BY <1>1, <1>2, <2>1, LengthAgrees
  <2> QED
    BY <2>2 DEF k
<1>5. g[Len(p)] <= g[Len(q)] /\ (Len(p) < Len(q) => g[Len(p)] < g[Len(q)])
  <2> DEFINE k == Len(p)
             n == Len(q)
  <2>1. k \in Nat /\ n \in Nat /\ k <= n /\ n <= Len(q)
    BY <1>3
  <2> HIDE DEF k, n
  <2>2. g[k] <= g[n] /\ (k < n => g[k] < g[n])
    BY <1>2, <2>1, LengthGrows
  <2> QED
    BY <2>2 DEF k, n
<1>6. f[Len(p)] \in Nat /\ g[Len(q)] \in Nat
  <2>1. Len(p) \in 0..Len(p) /\ Len(q) \in 0..Len(q)
    BY <1>3
  <2> QED
    BY <1>1, <1>2, <2>1 DEF IsLength
<1> QED
  BY <1>1, <1>2, <1>4, <1>5, <1>6

LEMMA LengthOfAppend ==
  ASSUME NEW p \in Seq(Segments), NEW s \in Segments
  PROVE  StringLength(Append(p, s)) = StringLength(p) + 1 + SegmentLength(s)
<1> DEFINE q == Append(p, s)
           m == Len(p)
<1>1. /\ m \in Nat /\ q \in Seq(Segments) /\ Len(q) = m + 1 /\ q[m + 1] = s
      /\ \A i \in 1..m : p[i] = q[i]
  OBVIOUS
<1> HIDE DEF q
<1>2. PICK f : IsLength(f, p) /\ StringLength(p) = f[m]
  BY LengthUnfolds
<1>3. PICK g : IsLength(g, q) /\ StringLength(q) = g[m + 1]
  BY <1>1, LengthUnfolds
<1>4. f[m] = g[m]
  <2>1. m \in Nat /\ m <= Len(p) /\ m <= Len(q) /\ \A i \in 1..m : p[i] = q[i]
    BY <1>1
  <2> HIDE DEF m
  <2> QED
    BY <1>1, <1>2, <1>3, <2>1, LengthAgrees
<1>5. g[m + 1] = g[m] + 1 + SegmentLength(q[m + 1])
  <2>1. m + 1 \in 1..Len(q) /\ (m + 1) - 1 = m
    BY <1>1
  <2> HIDE DEF m
  <2> QED
    BY <1>3, <2>1 DEF IsLength
<1> QED
  BY <1>1, <1>2, <1>3, <1>4, <1>5 DEF q

\* Normalising never lengthens.
LEMMA NormIsShorter ==
  ASSUME NEW p \in Seq(Segments)
  PROVE  StringLength(Norm(p)) <= StringLength(p)
<1> DEFINE m == Len(p)
<1>1. m \in Nat /\ \A n \in 1..m : p[n] \in Segments
  OBVIOUS
<1>2. PICK out : IsNorm(out, p) /\ Norm(p) = out[m]
  BY NormUnfolds
<1>3. PICK f : IsLength(f, p) /\ StringLength(p) = f[m]
  BY LengthUnfolds
<1>4. \A x \in Seq(Names) : x \in Seq(Segments)
  <2>1. Names \subseteq Segments
    BY DEF Segments
  <2> QED
    BY <2>1
<1> DEFINE T == {n \in 0..m : StringLength(out[n]) <= f[n]}
<1>5. StringLength(<<>>) = 0
  <2>1. <<>> \in Seq(Segments) /\ Len(<<>>) = 0
    OBVIOUS
  <2> QED
    BY <2>1, LengthUnfolds DEF IsLength
<1>6. 0 \in T
  BY <1>1, <1>2, <1>3, <1>5 DEF IsNorm, IsLength
<1>7. ASSUME NEW n \in T, n \in 0..m, n < m
      PROVE  n + 1 \in T
  <2> DEFINE x == out[n]
             s == p[n + 1]
  <2>1. n + 1 \in 1..m /\ n + 1 \in 0..m /\ (n + 1) - 1 = n /\ n \in 0..m
    BY <1>1, <1>7
  <2>2. /\ out[n + 1] = Resolved(x, s) /\ x \in Seq(Names) /\ s \in Segments
        /\ f[n + 1] = f[n] + 1 + SegmentLength(s) /\ f[n] \in Nat
    BY <1>1, <1>2, <1>3, <2>1 DEF IsNorm, IsLength
  <2>3. StringLength(x) <= f[n]
    OBVIOUS
  <2>4. x \in Seq(Segments) /\ SegmentLength(s) \in Nat /\ StringLength(x) \in Nat
    BY <1>4, <2>2, SegmentLengthType, PrefixIsShorter
  <2> HIDE DEF x, s
  <2>5. CASE s \in {Blank, "."}
    <3>1. Resolved(x, s) = x
      BY <2>5 DEF Resolved
    <3> QED
      BY <2>1, <2>2, <2>3, <2>4, <3>1
  <2>6. CASE s = ".." /\ s \notin {Blank, "."}
    <3>1. Resolved(x, s) = Dropped(x)
      BY <2>6 DEF Resolved
    <3>2. StringLength(Dropped(x)) \in Nat /\ StringLength(Dropped(x)) <= StringLength(x)
      <4>1. CASE x = <<>>
        BY <2>4, <4>1 DEF Dropped
      <4>2. CASE x # <<>>
        <5>1. /\ Dropped(x) = SubSeq(x, 1, Len(x) - 1) /\ Len(x) - 1 \in Nat
              /\ SubSeq(x, 1, Len(x) - 1) \in Seq(Segments)
              /\ Len(SubSeq(x, 1, Len(x) - 1)) <= Len(x)
              /\ \A i \in 1..Len(SubSeq(x, 1, Len(x) - 1)) : SubSeq(x, 1, Len(x) - 1)[i] = x[i]
          BY <2>4, <4>2 DEF Dropped, Front
        <5> QED
          BY <2>4, <5>1, PrefixIsShorter
      <4> QED
        BY <4>1, <4>2
    <3> QED
      BY <2>1, <2>2, <2>3, <2>4, <3>1, <3>2
  <2>7. CASE s \notin {Blank, ".", ".."}
    <3>1. Resolved(x, s) = Append(x, s)
      BY <2>7 DEF Resolved
    <3>2. StringLength(Append(x, s)) = StringLength(x) + 1 + SegmentLength(s)
      BY <2>2, <2>4, LengthOfAppend
    <3>3. ASSUME NEW a \in Nat, NEW b \in Nat, NEW k \in Nat, a <= b
          PROVE  a + 1 + k <= b + 1 + k
      BY <3>3
    <3>4. StringLength(out[n + 1]) <= f[n + 1]
      BY <2>2, <2>3, <2>4, <3>1, <3>2, <3>3
    <3> QED
      BY <2>1, <3>4
  <2> QED
    BY <2>5, <2>6, <2>7
<1> HIDE DEF T
<1>8. m \in T
  <2>1. 0..m \subseteq T
    BY <1>1, <1>6, <1>7, InductionUpTo
  <2> QED
    BY <1>1, <2>1
<1> QED
  BY <1>2, <1>3, <1>8 DEF T

-----------------------------------------------------------------------------
(* Paths at or under others, and mounts.                                   *)

LEMMA PrefixIs ==
  ASSUME NEW a \in Seq(Names), NEW b \in Seq(Names)
  PROVE  IsPrefix(a, b) <=> Len(a) <= Len(b) /\ \A i \in 1..Len(a) : a[i] = b[i]
<1>1. Len(a) \in Nat /\ Len(b) \in Nat /\ SubSeq(a, 1, Len(a)) = a
  OBVIOUS
<1>2. ASSUME Len(a) <= Len(b)
      PROVE  a = SubSeq(b, 1, Len(a)) <=> \A i \in 1..Len(a) : a[i] = b[i]
  <2>1. /\ SubSeq(b, 1, Len(a)) \in Seq(Names) /\ Len(SubSeq(b, 1, Len(a))) = Len(a)
        /\ \A i \in 1..Len(a) : SubSeq(b, 1, Len(a))[i] = b[i]
    BY <1>1, <1>2
  <2> QED
    BY <1>1, <2>1
<1> QED
  BY <1>1, <1>2 DEF IsPrefix

\* What a path is under and what of it lies below make it up.
LEMMA PrefixSplits ==
  ASSUME NEW a \in Seq(Names), NEW b \in Seq(Names), IsPrefix(a, b)
  PROVE  /\ SubSeq(b, Len(a) + 1, Len(b)) \in Seq(Names)
         /\ b = a \o SubSeq(b, Len(a) + 1, Len(b))
<1>1. Len(a) <= Len(b) /\ \A i \in 1..Len(a) : a[i] = b[i]
  BY PrefixIs
<1> DEFINE c == SubSeq(b, Len(a) + 1, Len(b))
<1>2. /\ c \in Seq(Names) /\ Len(c) = Len(b) - Len(a)
      /\ \A i \in 1..Len(c) : c[i] = b[Len(a) + i]
  BY <1>1
<1> HIDE DEF c
<1>3. /\ a \o c \in Seq(Names) /\ Len(a \o c) = Len(b)
      /\ \A i \in 1..Len(b) : (a \o c)[i] = b[i]
  BY <1>1, <1>2
<1>4. a \o c = b
  <2> DEFINE d == a \o c
  <2>1. d \in Seq(Names) /\ Len(d) = Len(b) /\ \A i \in 1..Len(b) : d[i] = b[i]
    BY <1>3
  <2> HIDE DEF d
  <2>2. d = b
    BY <2>1
  <2> QED
    BY <2>2 DEF d
<1> QED
  BY <1>2, <1>4 DEF c

LEMMA PrefixOfConcat ==
  ASSUME NEW a \in Seq(Names), NEW s \in Seq(Names)
  PROVE  /\ a \o s \in Seq(Names)
         /\ IsPrefix(a, a \o s)
         /\ SubSeq(a \o s, Len(a) + 1, Len(a \o s)) = s
<1> DEFINE b == a \o s
<1>1. /\ b \in Seq(Names) /\ Len(b) = Len(a) + Len(s)
      /\ \A i \in 1..Len(a) : b[i] = a[i]
      /\ \A i \in 1..Len(s) : b[Len(a) + i] = s[i]
  OBVIOUS
<1> HIDE DEF b
<1>2. Len(a) \in Nat /\ Len(s) \in Nat
  OBVIOUS
<1>3. IsPrefix(a, b)
  BY <1>1, <1>2, PrefixIs
<1> DEFINE c == SubSeq(b, Len(a) + 1, Len(b))
<1>4. c \in Seq(Names) /\ Len(c) = Len(s) /\ \A i \in 1..Len(c) : c[i] = b[Len(a) + i]
  BY <1>1, <1>2
<1> HIDE DEF c
<1>5. c = s
  BY <1>1, <1>4
<1> QED
  BY <1>1, <1>3, <1>5 DEF b, c

LEMMA Cancelled ==
  ASSUME NEW a \in Seq(Names), NEW b \in Seq(Names), NEW s \in Seq(Names), a \o s = b \o s
  PROVE  a = b
<1>1. Len(a \o s) = Len(a) + Len(s) /\ Len(b \o s) = Len(b) + Len(s)
  OBVIOUS
<1>2. Len(a) = Len(b)
  BY <1>1
<1>3. \A i \in 1..Len(a) : (a \o s)[i] = a[i] /\ (b \o s)[i] = b[i]
  BY <1>2
<1> QED
  BY <1>2, <1>3

\* Of two beginnings of one path, one is a beginning of the other.
LEMMA PrefixesNest ==
  ASSUME NEW a \in Seq(Names), NEW b \in Seq(Names), NEW c \in Seq(Names),
         IsPrefix(a, c), IsPrefix(b, c)
  PROVE  IsPrefix(a, b) \/ IsPrefix(b, a)
<1>1. /\ Len(a) <= Len(c) /\ \A i \in 1..Len(a) : a[i] = c[i]
      /\ Len(b) <= Len(c) /\ \A i \in 1..Len(b) : b[i] = c[i]
  BY PrefixIs
<1>2. CASE Len(a) <= Len(b)
  <2>1. \A i \in 1..Len(a) : a[i] = b[i]
    BY <1>1, <1>2
  <2> QED
    BY <1>2, <2>1, PrefixIs
<1>3. CASE Len(b) <= Len(a)
  <2>1. \A i \in 1..Len(b) : b[i] = a[i]
    BY <1>1, <1>3
  <2> QED
    BY <1>3, <2>1, PrefixIs
<1> QED
  BY <1>2, <1>3

LEMMA NothingIsPrefix ==
  ASSUME NEW a \in Seq(Names)
  PROVE  IsPrefix(<<>>, a) /\ IsPrefix(a, a)
<1> DEFINE e == <<>>
<1>1. e \in Seq(Names) /\ Len(e) = 0 /\ Len(a) \in Nat
  OBVIOUS
<1> HIDE DEF e
<1>2. IsPrefix(e, a)
  <2>1. Len(e) <= Len(a) /\ \A i \in 1..Len(e) : e[i] = a[i]
    BY <1>1
  <2>2. e \in Seq(Names)
    BY <1>1
  <2> QED
    BY <2>1, <2>2, PrefixIs
<1>3. IsPrefix(a, a)
  BY <1>1, PrefixIs
<1> QED
  BY <1>2, <1>3 DEF e

\* The spellings of a container's workspace.
CleanPaths == {Root} \cup (Seq(Names) \ {<<>>})

LEMMA NamesAreSegments == \A q \in Seq(Names) : q \in Seq(Segments)
<1>1. Names \subseteq Segments
  BY DEF Segments
<1> QED
  BY <1>1

LEMMA RootIs ==
  /\ Root \in Paths /\ TrailingTrimmed(Root) = Root /\ Root # <<>>
  /\ Norm(Root) = <<>> /\ StringLength(Root) = 1
<1>1. Blank \in Segments
  BY DEF Segments
<1>2. Root \in Seq(Segments) /\ Len(Root) = 1 /\ Root # <<>> /\ Root[1] = Blank
  BY <1>1 DEF Root
<1>3. Norm(Root) = <<>>
  <2>1. SubSeq(Root, 1, 0) = <<>>
    BY <1>2
  <2>2. \A i \in 0 + 1..Len(Root) : Root[i] = Blank
    BY <1>2
  <2>3. 0 \in Nat /\ 0 <= Len(Root)
    BY <1>2
  <2>4. Norm(SubSeq(Root, 1, 0)) = Norm(Root)
    BY <1>2, <2>2, <2>3, NormSkipsBlanks
  <2> QED
    BY <2>1, <2>4, NormOfEmpty
<1>4. StringLength(Root) = 1
  <2>1. PICK f : IsLength(f, Root) /\ StringLength(Root) = f[1]
    BY <1>2, LengthUnfolds
  <2>2. f[1] = f[0] + 1 + SegmentLength(Root[1]) /\ f[0] = 0
    BY <1>2, <2>1 DEF IsLength
  <2>3. SegmentLength(Root[1]) = 0
    BY <1>2 DEF SegmentLength
  <2> QED
    BY <2>1, <2>2, <2>3
<1> QED
  BY <1>2, <1>3, <1>4 DEF Paths, TrailingTrimmed

LEMMA NamesTrimmed ==
  ASSUME NEW q \in Seq(Names), q # <<>>
  PROVE  TrailingTrimmed(q) = q /\ q \in Paths
<1>1. q \in Paths
  BY NamesAreSegments DEF Paths
<1>2. Len(q) \in Nat /\ Len(q) >= 1 /\ q[Len(q)] \in Names /\ Blank \notin Names
  BY RoutingAssumption
<1>3. q # Root
  <2>1. Root[1] = Blank
    BY DEF Root
  <2>2. q[1] \in Names
    BY <1>2
  <2> QED
    BY <1>2, <2>1, <2>2
<1> DEFINE ends == {n \in 0..Len(q) : \A i \in n + 1..Len(q) : q[i] = Blank}
           k == CHOOSE n \in ends : \A j \in ends : n <= j
<1>4. ends = {Len(q)}
  <2>1. Len(q) \in ends
    BY <1>2
  <2>2. ASSUME NEW n \in ends, n # Len(q)
        PROVE  FALSE
    <3>1. Len(q) \in n + 1..Len(q)
      BY <1>2, <2>2
    <3> QED
      BY <1>2, <2>2, <3>1
  <2> QED
    BY <2>1, <2>2
<1>5. k = Len(q)
  <2> HIDE DEF ends
  <2>1. \E n \in ends : \A j \in ends : n <= j
    BY <1>2, <1>4
  <2>2. k \in ends
    BY <2>1
  <2> QED
    BY <1>4, <2>2
<1>6. TrailingTrimmed(q) = SubSeq(q, 1, k)
  BY <1>3 DEF TrailingTrimmed
<1> HIDE DEF k, ends
<1>7. SubSeq(q, 1, Len(q)) = q
  OBVIOUS
<1> QED
  BY <1>1, <1>5, <1>6, <1>7

LEMMA CleanIs ==
  ASSUME NEW c \in CleanPaths
  PROVE  /\ c \in Paths /\ TrailingTrimmed(c) = c /\ NotBareSlashes(c)
         /\ c = Root \/ (c \in Seq(Names) /\ Norm(c) = c)
<1>1. CASE c = Root
  BY <1>1, RootIs DEF NotBareSlashes
<1>2. CASE c \in Seq(Names) \ {<<>>}
  <2>1. Norm(c) = c
    BY <1>2, NormOfNames
  <2> QED
    BY <1>2, <2>1, NamesTrimmed DEF NotBareSlashes
<1> QED
  BY <1>1, <1>2 DEF CleanPaths

\* The guard's trimming takes nothing away from what is no bare run of slashes.
LEMMA TrimmedMakesNoDifference ==
  ASSUME NEW p \in Paths, NEW q \in Paths, NotBareSlashes(p), NotBareSlashes(q)
  PROVE  TrimmedAtOrUnder(p, q) <=> IsAtOrUnder(p, q)
<1>1. p \in Seq(Segments) /\ q \in Seq(Segments)
  BY DEF Paths
<1>2. Norm(TrailingTrimmed(p)) = Norm(p) /\ Norm(TrailingTrimmed(q)) = Norm(q)
  BY <1>1, TrimmedIs
<1> QED
  BY <1>2 DEF TrimmedAtOrUnder, NotBareSlashes, IsAtOrUnder

LEMMA BareIsRoot ==
  ASSUME NEW p \in Paths, ~NotBareSlashes(p)
  PROVE  Norm(p) = <<>>
<1>1. p \in Seq(Segments)
  BY DEF Paths
<1>2. Norm(TrailingTrimmed(p)) = Norm(p) /\ TrailingTrimmed(p) = <<>>
  BY <1>1, TrimmedIs DEF NotBareSlashes
<1> QED
  BY <1>2, NormOfEmpty

\* routing-guard.ts:69: a host path really below the container's workspace is the
\* longer string of the two, however it is spelled.
LEMMA DescentIsLonger ==
  ASSUME NEW h \in Paths, NotBareSlashes(h), NEW c \in CleanPaths,
         IsAtOrUnder(h, c), ~IsSamePath(h, c)
  PROVE  StringLength(TrailingTrimmed(h)) > StringLength(TrailingTrimmed(c))
<1> DEFINE t == TrailingTrimmed(h)
           n == Norm(h)
<1>1. h \in Seq(Segments) /\ c \in Seq(Segments) /\ TrailingTrimmed(c) = c
  BY CleanIs DEF Paths
<1>2. t \in Seq(Segments) /\ Norm(t) = n
  BY <1>1, TrimmedIs
<1>3. n \in Seq(Names) /\ n \in Seq(Segments)
  BY <1>1, NormType, NamesAreSegments
<1>4. Norm(c) \in Seq(Names) /\ IsPrefix(Norm(c), n) /\ Norm(c) # n
  BY <1>1, NormType DEF IsAtOrUnder, IsSamePath
<1> HIDE DEF t, n
<1>5. StringLength(n) <= StringLength(t)
  BY <1>2, NormIsShorter
<1>6. StringLength(n) \in Nat /\ StringLength(t) \in Nat
  <2>1. \A q \in Seq(Segments) : Len(q) <= Len(q) /\ \A i \in 1..Len(q) : q[i] = q[i]
    OBVIOUS
  <2>2. \A q \in Seq(Segments) : StringLength(q) \in Nat
    BY <2>1, PrefixIsShorter
  <2> QED
    BY <1>2, <1>3, <2>2
<1>7. /\ Len(Norm(c)) \in Nat /\ Len(n) \in Nat /\ Len(Norm(c)) < Len(n)
      /\ \A i \in 1..Len(Norm(c)) : Norm(c)[i] = n[i]
  <2>1. Len(Norm(c)) <= Len(n) /\ \A i \in 1..Len(Norm(c)) : Norm(c)[i] = n[i]
    BY <1>3, <1>4, PrefixIs
  <2>2. Len(Norm(c)) # Len(n)
    BY <1>3, <1>4, <2>1
  <2>3. Len(Norm(c)) \in Nat /\ Len(n) \in Nat
    BY <1>3, <1>4
  <2> QED
    BY <2>1, <2>2, <2>3
<1>8. CASE c # Root
  <2>1. Norm(c) = c
    BY <1>8, CleanIs
  <2>2. StringLength(c) < StringLength(n) /\ StringLength(c) \in Nat
    BY <1>1, <1>3, <1>7, <2>1, PrefixIsShorter
  <2> QED
    BY <1>1, <1>5, <1>6, <2>2 DEF t
<1>9. CASE c = Root
  <2>1. StringLength(c) = 1
    BY <1>9, RootIs
  <2>2. Len(n) >= 1 /\ n[1] \in Names /\ n[1] \in Segments
    BY <1>3, <1>7 DEF Segments
  <2> DEFINE one == Append(<<>>, n[1])
  <2>3. one \in Seq(Segments) /\ Len(one) = 1 /\ one[1] = n[1] /\ <<>> \in Seq(Segments)
    BY <2>2
  <2>4. StringLength(one) = StringLength(<<>>) + 1 + SegmentLength(n[1])
    BY <2>2, <2>3, LengthOfAppend
  <2> HIDE DEF one
  <2>5. StringLength(<<>>) \in Nat /\ StringLength(one) \in Nat /\ StringLength(one) <= StringLength(n)
    <3>1. \A i \in 1..Len(one) : one[i] = n[i]
      BY <2>3
    <3>2. Len(<<>>) = 0 /\ Len(<<>>) <= Len(one) /\ \A i \in 1..Len(<<>>) : <<>>[i] = one[i]
      BY <2>3
    <3>3. StringLength(<<>>) \in Nat
      BY <2>3, <3>2, PrefixIsShorter
    <3> QED
      BY <1>3, <2>2, <2>3, <3>1, <3>3, PrefixIsShorter
  <2>6. SegmentLength(n[1]) \in Nat /\ SegmentLength(n[1]) >= 1
    BY <2>2, SegmentLengthType
  <2> QED
    BY <1>1, <1>5, <1>6, <2>1, <2>4, <2>5, <2>6 DEF t
<1> QED
  BY <1>8, <1>9

-----------------------------------------------------------------------------
(* The guards and the paths an agent is shown.                             *)

\* What JudgeRouting puts to them.
Placed(h, c, mounts) ==
    /\ h \in Paths /\ NotBareSlashes(h) /\ c \in CleanPaths
    /\ \A m \in mounts : m.source \in Paths /\ m.target \in Paths
    /\ MountsApart(Mount(h, c), mounts)
    /\ MirrorsSpelledAlike(mounts)

All(h, c, mounts) == mounts \cup {Mount(h, c)}

LEMMA MountIs ==
  ASSUME NEW h, NEW c
  PROVE  /\ Mount(h, c).source = h /\ Mount(h, c).target = c /\ Mount(h, c).type = "bind"
         /\ Mapping(h, c).hostPath = h /\ Mapping(h, c).containerPath = c
BY DEF Mount, Mapping

LEMMA NoPathIsNoPath ==
  /\ NoPath \notin Paths
  /\ \A h \in Paths : \A c : Mapping(h, c) # NoMapping
<1>1. Blank # "none"
  BY Zenon DEF Blank
<1>2. "none" \notin Segments
  BY <1>1, RoutingAssumption DEF Segments
<1>3. NoPath \notin Paths
  <2>1. NoPath[1] = "none" /\ Len(NoPath) = 1
    BY DEF NoPath
  <2>2. \A p \in Seq(Segments) : Len(p) = 1 => p[1] \in Segments
    OBVIOUS
  <2> QED
    BY <1>2, <2>1, <2>2 DEF Paths
<1>4. ASSUME NEW h \in Paths, NEW c
      PROVE  Mapping(h, c) # NoMapping
  BY <1>3 DEF Mapping, NoMapping
<1> QED
  BY <1>3, <1>4

\* Both ways a configuration may place its workspace give the mapping it has.
LEMMA MappingBuilt ==
  ASSUME NEW h \in Paths, NEW c \in Paths, NEW d
  PROVE  /\ BuildPathMapping(d, c, Mount(h, c)) = Mapping(h, c)
         /\ BuildPathMapping(h, c, NoMount) = Mapping(h, c)
<1>1. h # NoPath /\ c # NoPath
  BY NoPathIsNoPath
<1>2. NoMount.type # "bind"
  BY DEF NoMount
<1> QED
  BY <1>1, <1>2, MountIs DEF BuildPathMapping

LEMMA PathIs ==
  ASSUME NEW p \in Paths
  PROVE  p \in Seq(Segments) /\ Norm(p) \in Seq(Names)
BY NormType DEF Paths

LEMMA AllArePaths ==
  ASSUME NEW h, NEW c, NEW mounts, Placed(h, c, mounts), NEW m \in All(h, c, mounts)
  PROVE  m.source \in Paths /\ m.target \in Paths
BY MountIs, CleanIs DEF Placed, All

\* At most one mount is over a path.
LEMMA OneMountOver ==
  ASSUME NEW h, NEW c, NEW mounts, Placed(h, c, mounts), NEW t \in Paths,
         NEW m \in All(h, c, mounts), NEW n \in All(h, c, mounts),
         IsAtOrUnder(t, m.target), IsAtOrUnder(t, n.target)
  PROVE  m = n
<1>1. m.target \in Paths /\ n.target \in Paths
  BY AllArePaths
<1>2. IsAtOrUnder(m.target, n.target) \/ IsAtOrUnder(n.target, m.target)
  <2>1. Norm(t) \in Seq(Names) /\ Norm(m.target) \in Seq(Names) /\ Norm(n.target) \in Seq(Names)
    BY <1>1, PathIs
  <2> QED
    BY <2>1, PrefixesNest DEF IsAtOrUnder
<1>3. CASE m \in mounts /\ n \in mounts
  BY <1>2, <1>3 DEF Placed, MountsApart
<1>4. CASE m = Mount(h, c) /\ n \in mounts
  BY <1>2, <1>4, MountIs DEF Placed, MountsApart
<1>5. CASE m \in mounts /\ n = Mount(h, c)
  BY <1>2, <1>5, MountIs DEF Placed, MountsApart
<1> QED
  BY <1>3, <1>4, <1>5 DEF All

LEMMA FileUnder ==
  ASSUME NEW h, NEW c, NEW mounts, Placed(h, c, mounts), NEW t \in Paths,
         NEW m \in All(h, c, mounts), IsAtOrUnder(t, m.target)
  PROVE  ContainerFile(t, All(h, c, mounts))
           = [side |-> "host", path |-> Norm(m.source) \o Below(t, m.target)]
<1> DEFINE over == MountsOver(t, All(h, c, mounts))
<1>1. over = {m}
  BY OneMountOver DEF MountsOver
<1>2. IsAtOrUnder(m.target, m.target)
  BY AllArePaths, PathIs, NothingIsPrefix DEF IsAtOrUnder
<1> DEFINE d == DeepestMount(t, All(h, c, mounts))
<1>3. d = CHOOSE x \in over : \A n \in over : IsAtOrUnder(x.target, n.target)
  BY DEF DeepestMount
<1> HIDE DEF over
<1>4. \E x \in over : \A n \in over : IsAtOrUnder(x.target, n.target)
  BY <1>1, <1>2
<1>5. d \in over
  BY <1>3, <1>4
<1>6. d = m /\ over # {}
  BY <1>1, <1>5
<1> QED
  BY <1>6 DEF ContainerFile, over

LEMMA FileUnderNone ==
  ASSUME NEW t, NEW mounts, \A m \in mounts : ~IsAtOrUnder(t, m.target)
  PROVE  ContainerFile(t, mounts) # HostFile(t)
<1>1. MountsOver(t, mounts) = {}
  BY DEF MountsOver
<1>2. ContainerFile(t, mounts).side = "container"
  BY <1>1 DEF ContainerFile
<1>3. HostFile(t).side = "host"
  BY DEF HostFile
<1> QED
  BY <1>2, <1>3

\* A path is the same file on both sides if the mount over it mirrors, and only then.
LEMMA SameFile ==
  ASSUME NEW h, NEW c, NEW mounts, Placed(h, c, mounts), NEW t \in Paths,
         NEW m \in All(h, c, mounts), IsAtOrUnder(t, m.target)
  PROVE  ContainerFile(t, All(h, c, mounts)) = HostFile(t) <=> IsSamePath(m.source, m.target)
<1> DEFINE s == Below(t, m.target)
           a == Norm(m.source)
           b == Norm(m.target)
<1>1. a \in Seq(Names) /\ b \in Seq(Names) /\ Norm(t) \in Seq(Names)
  BY AllArePaths, PathIs
<1>2. s \in Seq(Names) /\ Norm(t) = b \o s
  BY <1>1, PrefixSplits DEF IsAtOrUnder, Below
<1>3. ContainerFile(t, All(h, c, mounts)) = [side |-> "host", path |-> a \o s]
  BY FileUnder
<1> HIDE DEF s, a, b
<1>4. ContainerFile(t, All(h, c, mounts)) = HostFile(t) <=> a \o s = b \o s
  <2> DEFINE x == a \o s
             y == b \o s
  <2>1. HostFile(t) = [side |-> "host", path |-> y]
    BY <1>2 DEF HostFile
  <2>2. ContainerFile(t, All(h, c, mounts)) = [side |-> "host", path |-> x]
    BY <1>3
  <2> HIDE DEF x, y
  <2>3. [side |-> "host", path |-> x] = [side |-> "host", path |-> y] <=> x = y
    OBVIOUS
  <2>4. ContainerFile(t, All(h, c, mounts)) = HostFile(t) <=> x = y
    BY <2>1, <2>2, <2>3
  <2> QED
    BY <2>4 DEF x, y
<1>5. a \o s = b \o s <=> a = b
  BY <1>1, <1>2, Cancelled
<1> QED
  BY <1>4, <1>5 DEF IsSamePath, a, b

\* The conditions of detectHostPath, as the mounts are placed.
LEMMA DetectIs ==
  ASSUME NEW h, NEW c, NEW mounts, Placed(h, c, mounts), NEW t \in Paths, NotBareSlashes(t)
  PROVE  DetectHostPath(t, Mapping(h, c), SamePathMounts(mounts)) <=>
           /\ ~IsSamePath(h, c)
           /\ IsAtOrUnder(t, h)
           /\ IsAtOrUnder(h, c) \/ ~IsAtOrUnder(t, c)
           /\ \A m \in mounts : m.source = m.target => ~IsAtOrUnder(t, m.target)
<1>1. h \in Paths /\ NotBareSlashes(h) /\ c \in CleanPaths /\ c \in Paths /\ NotBareSlashes(c)
  BY CleanIs DEF Placed
<1>2. Mapping(h, c) # NoMapping
  BY <1>1, NoPathIsNoPath
<1>3. /\ TrimmedAtOrUnder(t, h) <=> IsAtOrUnder(t, h)
      /\ TrimmedAtOrUnder(t, c) <=> IsAtOrUnder(t, c)
      /\ TrimmedAtOrUnder(h, c) <=> IsAtOrUnder(h, c)
  BY <1>1, TrimmedMakesNoDifference
<1>4. ~IsSamePath(h, c) => (ContainerIsAncestorOfHost(Mapping(h, c)) <=> IsAtOrUnder(h, c))
  BY <1>1, <1>3, DescentIsLonger, MountIs DEF ContainerIsAncestorOfHost
<1>5. ASSUME NEW m \in mounts
      PROVE  TrimmedAtOrUnder(t, m.target) <=> IsAtOrUnder(t, m.target)
  <2>1. m.target \in Paths /\ ~IsAtOrUnder(c, m.target)
    BY MountIs DEF Placed, MountsApart
  <2>2. Norm(c) \in Seq(Names)
    BY <1>1, PathIs
  <2>3. NotBareSlashes(m.target)
    BY <2>1, <2>2, BareIsRoot, NothingIsPrefix DEF IsAtOrUnder
  <2> QED
    BY <2>1, <2>3, TrimmedMakesNoDifference
<1>6. (~\E v \in SamePathMounts(mounts) : TrimmedAtOrUnder(t, v))
        <=> \A m \in mounts : m.source = m.target => ~IsAtOrUnder(t, m.target)
  BY <1>5 DEF SamePathMounts
<1> QED
  BY <1>2, <1>3, <1>4, <1>6, MountIs DEF DetectHostPath

LEMMA PlacedGuardIsExact ==
  ASSUME NEW h, NEW c, NEW mounts, Placed(h, c, mounts), NEW t \in Paths, NotBareSlashes(t)
  PROVE  GuardExactFor(t, Mapping(h, c), SamePathMounts(mounts), All(h, c, mounts))
<1> DEFINE refused == DetectHostPath(t, Mapping(h, c), SamePathMounts(mounts))
           same == ContainerFile(t, All(h, c, mounts)) = HostFile(t)
<1>1. Mount(h, c) \in All(h, c, mounts) /\ \A m \in mounts : m \in All(h, c, mounts)
  BY DEF All
<1>2. IsAtOrUnder(t, c) => (same <=> IsSamePath(h, c))
  BY <1>1, SameFile, MountIs
<1>3. ASSUME NEW m \in mounts, IsAtOrUnder(t, m.target)
      PROVE  same <=> m.source = m.target
  <2>1. same <=> IsSamePath(m.source, m.target)
    BY <1>1, <1>3, SameFile
  <2>2. IsSamePath(m.source, m.target) <=> m.source = m.target
    BY DEF Placed, MirrorsSpelledAlike, IsSamePath
  <2> QED
    BY <2>1, <2>2
<1>4. (~IsAtOrUnder(t, c) /\ \A m \in mounts : ~IsAtOrUnder(t, m.target)) => ~same
  BY FileUnderNone, MountIs DEF All
<1>5. refused <=>
        /\ ~IsSamePath(h, c)
        /\ IsAtOrUnder(t, h)
        /\ IsAtOrUnder(h, c) \/ ~IsAtOrUnder(t, c)
        /\ \A m \in mounts : m.source = m.target => ~IsAtOrUnder(t, m.target)
  BY DetectIs
<1>6. IsSamePath(h, c) => (IsAtOrUnder(t, h) <=> IsAtOrUnder(t, c))
  BY DEF IsSamePath, IsAtOrUnder
<1> HIDE DEF refused, same
\* What is refused is under the workspace or under a mount, neither of which mirrors,
\* or under none.
<1>7. refused => ~same
  <2>1. CASE IsAtOrUnder(t, c)
    BY <1>2, <1>5, <2>1
  <2>2. CASE \E m \in mounts : IsAtOrUnder(t, m.target)
    BY <1>3, <1>5, <2>2
  <2> QED
    BY <1>4, <2>1, <2>2
\* What is let through fails one of the guard's conditions.
<1>8. ~refused /\ IsAtOrUnder(t, h) => same \/ OwnWorkspace(t, Mapping(h, c))
  <2>1. SUFFICES ASSUME ~refused, IsAtOrUnder(t, h)
                 PROVE  same \/ OwnWorkspace(t, Mapping(h, c))
    OBVIOUS
  <2>2. CASE IsSamePath(h, c)
    BY <1>2, <1>6, <2>1, <2>2
  <2>3. CASE ~IsSamePath(h, c) /\ ~IsAtOrUnder(h, c) /\ IsAtOrUnder(t, c)
    BY <2>3, MountIs DEF OwnWorkspace
  <2>4. CASE \E m \in mounts : m.source = m.target /\ IsAtOrUnder(t, m.target)
    BY <1>3, <2>4
  <2> QED
    BY <1>5, <2>1, <2>2, <2>3, <2>4
<1> QED
  BY <1>7, <1>8, MountIs DEF GuardExactFor, refused, same

\* The shown path is the container's workspace and what of the path lies below the
\* host's.
LEMMA ShownIs ==
  ASSUME NEW h, NEW c, NEW mounts, Placed(h, c, mounts), NEW p \in Paths, IsAtOrUnder(p, h),
         NEW shown, shown = HostToContainer(p, Mapping(h, c))
  PROVE  /\ shown \in CleanPaths
         /\ Norm(shown) = Norm(c) \o Below(p, h)
         /\ Below(p, h) \in Seq(Names) /\ Norm(p) = Norm(h) \o Below(p, h)
<1> DEFINE s == Below(p, h)
           trimmed == TrailingTrimmed(c)
<1>1. h \in Paths /\ c \in CleanPaths /\ c \in Paths /\ c \in Seq(Segments) /\ trimmed = c
  BY CleanIs, PathIs DEF Placed
<1>2. Norm(p) \in Seq(Names) /\ Norm(h) \in Seq(Names) /\ Norm(c) \in Seq(Names)
  BY <1>1, PathIs
<1>3. s \in Seq(Names) /\ Norm(p) = Norm(h) \o s
  BY <1>2, PrefixSplits DEF IsAtOrUnder, Below
<1>4. shown = IF IsSamePath(p, h) THEN c
              ELSE (IF c = Root THEN <<>> ELSE c) \o s
  <2>1. Mapping(h, c) # NoMapping
    BY <1>1, NoPathIsNoPath
  <2> QED
    BY <1>1, <2>1, MountIs DEF HostToContainer
<1> HIDE DEF s, trimmed
<1>5. CASE IsSamePath(p, h)
  <2>1. Norm(h) \o s = Norm(h)
    BY <1>3, <1>5 DEF IsSamePath
  <2>2. s = <<>>
    <3>1. Len(Norm(h) \o s) = Len(Norm(h)) + Len(s) /\ Len(Norm(h)) \in Nat /\ Len(s) \in Nat
      BY <1>2, <1>3
    <3>2. Len(s) = 0
      BY <2>1, <3>1
    <3> QED
      BY <1>3, <3>2
  <2>3. Norm(c) \o s = Norm(c)
    BY <1>2, <2>2
  <2> QED
    BY <1>1, <1>3, <1>4, <1>5, <2>3 DEF s
<1>6. CASE ~IsSamePath(p, h)
  <2>1. s # <<>>
    <3>1. Norm(h) \o <<>> = Norm(h)
      BY <1>2
    <3> QED
      BY <1>3, <1>6, <3>1 DEF IsSamePath
  <2>2. CASE c = Root
    <3>1. shown = <<>> \o s
      BY <1>4, <1>6, <2>2
    <3>2. shown = s /\ <<>> \o s = s
      BY <1>3, <3>1
    <3>3. Norm(shown) = s
      BY <1>3, <3>2, NormOfNames
    <3>4. Norm(c) = <<>>
      BY <2>2, RootIs
    <3> QED
      BY <1>3, <2>1, <3>2, <3>3, <3>4 DEF CleanPaths, s
  <2>3. CASE c # Root
    <3>1. shown = c \o s /\ c \in Seq(Names) /\ Norm(c) = c
      BY <1>1, <1>4, <1>6, <2>3, CleanIs
    <3>2. shown \in Seq(Names) /\ shown # <<>>
      <4>1. Len(c \o s) = Len(c) + Len(s) /\ Len(c) \in Nat /\ Len(s) \in Nat /\ Len(s) # 0
        BY <1>3, <2>1, <3>1
      <4>2. c \o s \in Seq(Names)
        BY <1>3, <3>1
      <4>3. Len(c \o s) # 0
        BY <4>1
      <4> QED
        BY <3>1, <4>2, <4>3
    <3>3. Norm(shown) = Norm(c) \o s
      BY <1>1, <1>3, <3>1, NormKeepsNames
    <3> QED
      BY <1>3, <3>2, <3>3 DEF CleanPaths, s
  <2> QED
    BY <2>2, <2>3
<1> QED
  BY <1>5, <1>6

LEMMA PlacedShownPathWorks ==
  ASSUME NEW h, NEW c, NEW mounts, Placed(h, c, mounts), NEW p \in Paths, NotBareSlashes(p)
  PROVE  ShownPathWorksFor(p, Mapping(h, c), SamePathMounts(mounts), All(h, c, mounts))
<1> DEFINE shown == HostToContainer(p, Mapping(h, c))
           s == Below(p, h)
<1>1. shown # NoPath => IsAtOrUnder(p, h)
  BY MountIs DEF HostToContainer
<1>2. SUFFICES ASSUME IsAtOrUnder(p, h)
               PROVE  ShownPathWorksFor(p, Mapping(h, c), SamePathMounts(mounts), All(h, c, mounts))
  BY <1>1 DEF ShownPathWorksFor
<1>3. /\ shown \in CleanPaths /\ Norm(shown) = Norm(c) \o s
      /\ s \in Seq(Names) /\ Norm(p) = Norm(h) \o s
  BY <1>2, ShownIs
<1> HIDE DEF shown, s
<1>4. shown \in Paths /\ NotBareSlashes(shown)
  BY <1>3, CleanIs
<1>5. h \in Paths /\ c \in Paths /\ Norm(c) \in Seq(Names)
  BY CleanIs, PathIs DEF Placed
<1>6. IsAtOrUnder(shown, c) /\ Below(shown, c) = s
  BY <1>3, <1>5, PrefixOfConcat DEF IsAtOrUnder, Below
<1>7. ContainerFile(shown, All(h, c, mounts)) = HostFile(p)
  <2>1. Mount(h, c) \in All(h, c, mounts)
    BY DEF All
  <2>2. ContainerFile(shown, All(h, c, mounts)) = [side |-> "host", path |-> Norm(h) \o s]
    BY <1>4, <1>6, <2>1, FileUnder, MountIs
  <2> QED
    BY <1>3, <2>2 DEF HostFile
<1>8. IsSamePath(h, c) \/ FindContainerPath(shown, Mapping(h, c))
  BY <1>5, <1>6, NoPathIsNoPath, MountIs DEF FindContainerPath, IsSamePath
<1>9. \/ IsSamePath(h, c) \/ IsAtOrUnder(h, c)
      \/ ~DetectHostPath(shown, Mapping(h, c), SamePathMounts(mounts))
  BY <1>4, <1>6, DetectIs
<1> QED
  BY <1>7, <1>8, <1>9, MountIs DEF ShownPathWorksFor, shown

-----------------------------------------------------------------------------
(* The cases put to the scan and to the listing.                           *)

CasesAreScans ==
    judged.about = "scan" =>
      judged.tree \in Trees /\ judged.roots \in SUBSET Nodes /\ judged.depth \in Nat

CasesAreListings ==
    judged.about = "listing" =>
      /\ judged.listing.records \in Seq(Records)
      /\ judged.listing.truncated \in BOOLEAN
      /\ DistinctIds(judged.listing.records)
      /\ Labelled(judged.listing.records)
      /\ DOMAIN judged.had \subseteq Nat \ {0}
      /\ \A i \in DOMAIN judged.had :
            /\ i <= Len(judged.listing.records) => judged.listing.records[i].id = judged.had[i].id
            /\ i > Len(judged.listing.records) => judged.listing.truncated

LEMMA JudgedScans == Spec => []CasesAreScans
<1>1. Init => CasesAreScans
  BY DEF Init, Nothing, CasesAreScans
<1>2. CasesAreScans /\ [Next]_judged => CasesAreScans'
  <2> SUFFICES ASSUME CasesAreScans, [Next]_judged
               PROVE  CasesAreScans'
    OBVIOUS
  <2>1. CASE JudgeScan
    <3>1. TreesTried \subseteq Trees /\ RootSetsTried \subseteq SUBSET Nodes
          /\ DepthsTried \subseteq Nat
      BY TriedAssumption
    <3> QED
      BY <2>1, <3>1 DEF JudgeScan, CasesAreScans
  <2>2. CASE JudgeRouting
    <3>1. \E mapping, visible, mounts :
              judged' = [about |-> "routing", mapping |-> mapping, visible |-> visible,
                         mounts |-> mounts]
      BY <2>2 DEF JudgeRouting
    <3> QED
      BY <3>1 DEF CasesAreScans
  <2>3. CASE JudgeListing
    BY <2>3 DEF JudgeListing, CasesAreScans
  <2>4. CASE JudgeConfig
    BY <2>4 DEF JudgeConfig, CasesAreScans
  <2>5. CASE Dismiss
    BY <2>5 DEF Dismiss, Nothing, CasesAreScans
  <2>6. CASE UNCHANGED judged
    BY <2>6 DEF CasesAreScans
  <2> QED
    BY <2>1, <2>2, <2>3, <2>4, <2>5, <2>6 DEF Next
<1> QED
  BY <1>1, <1>2, PTL DEF Spec

\* What Docker printed of the containers it has.
IsPrinted(records, had, n, printed, forms) ==
    /\ n \in Nat
    /\ had \in [1..n -> Listed]
    /\ \A i, j \in 1..n : had[i].id = had[j].id => i = j
    /\ printed \in 0..n
    /\ forms \in [1..printed -> Forms]
    /\ records = [i \in 1..printed |-> [had[i] EXCEPT !.form = forms[i]]]

LEMMA PrintedIsListing ==
  ASSUME NEW records, NEW had, NEW n, NEW printed, NEW forms,
         IsPrinted(records, had, n, printed, forms)
  PROVE  /\ records \in Seq(Records) /\ Len(records) = printed
         /\ DistinctIds(records) /\ Labelled(records)
         /\ \A i \in 1..printed : records[i].id = had[i].id
<1> USE DEF IsPrinted
<1>1. printed \in Nat /\ \A i \in 1..printed : i \in 1..n
  OBVIOUS
<1>2. ASSUME NEW i \in 1..printed
      PROVE  /\ records[i] \in Records /\ records[i].id = had[i].id
             /\ NoFolder(records[i]) \/ Realpath[records[i].folder] = WorkspaceOf[records[i].id]
  <2>1. had[i] \in Listed /\ forms[i] \in Forms
    BY <1>1
  <2>2. /\ had[i] \in [id : Containers, folder : Folders, state : DockerStates, form : {"whole"}]
        /\ had[i].folder = BlankFolder \/ Realpath[had[i].folder] = WorkspaceOf[had[i].id]
    BY <2>1 DEF Listed
  <2> DEFINE new == [had[i] EXCEPT !.form = forms[i]]
  <2>3. /\ new \in Records /\ new.id = had[i].id /\ new.folder = had[i].folder
    BY <2>1, <2>2 DEF Records
  <2>4. records[i] = new
    OBVIOUS
  <2> HIDE DEF new
  <2> QED
    BY <2>2, <2>3, <2>4 DEF NoFolder
<1>3. DOMAIN records = 1..printed
  OBVIOUS
<1>4. records = [i \in 1..printed |-> records[i]]
  OBVIOUS
<1>5. records \in Seq(Records) /\ Len(records) = printed
  BY <1>1, <1>2, <1>3, <1>4
<1>6. \A i \in 1..printed : records[i].id = had[i].id
  BY <1>2
<1>7. DistinctIds(records)
  BY <1>1, <1>3, <1>6 DEF DistinctIds
<1>8. Labelled(records)
  BY <1>2, <1>3 DEF Labelled, Values
<1> QED
  BY <1>5, <1>6, <1>7, <1>8

LEMMA JudgedListings == Spec => []CasesAreListings
<1>1. Init => CasesAreListings
  BY DEF Init, Nothing, CasesAreListings
<1>2. CasesAreListings /\ [Next]_judged => CasesAreListings'
  <2> SUFFICES ASSUME CasesAreListings, [Next]_judged
               PROVE  CasesAreListings'
    OBVIOUS
  <2>1. CASE JudgeListing
    <3>8. PICK n \in 0..MaxRecords : \E had \in [1..n -> Listed] :
             /\ \A i, j \in 1..n : had[i].id = had[j].id => i = j
             /\ \E printed \in 0..n : \E forms \in [1..printed -> Forms], truncated \in BOOLEAN :
                   /\ printed < n => truncated
                   /\ judged' = [about |-> "listing", had |-> had,
                                 listing |-> [records |-> [i \in 1..printed |->
                                                             [had[i] EXCEPT !.form = forms[i]]],
                                              truncated |-> truncated]]
      BY <2>1 DEF JudgeListing
    <3>1. PICK had \in [1..n -> Listed] :
             /\ \A i, j \in 1..n : had[i].id = had[j].id => i = j
             /\ \E printed \in 0..n : \E forms \in [1..printed -> Forms], truncated \in BOOLEAN :
                   /\ printed < n => truncated
                   /\ judged' = [about |-> "listing", had |-> had,
                                 listing |-> [records |-> [i \in 1..printed |->
                                                             [had[i] EXCEPT !.form = forms[i]]],
                                              truncated |-> truncated]]
      BY <3>8
    <3>9. PICK printed \in 0..n : \E forms \in [1..printed -> Forms], truncated \in BOOLEAN :
             /\ printed < n => truncated
             /\ judged' = [about |-> "listing", had |-> had,
                           listing |-> [records |-> [i \in 1..printed |->
                                                       [had[i] EXCEPT !.form = forms[i]]],
                                        truncated |-> truncated]]
      BY <3>1
    <3>2. PICK forms \in [1..printed -> Forms], truncated \in BOOLEAN :
             /\ printed < n => truncated
             /\ judged' = [about |-> "listing", had |-> had,
                           listing |-> [records |-> [i \in 1..printed |->
                                                       [had[i] EXCEPT !.form = forms[i]]],
                                        truncated |-> truncated]]
      BY <3>9
    <3> DEFINE records == [i \in 1..printed |-> [had[i] EXCEPT !.form = forms[i]]]
    <3>3. n \in Nat
      BY TriedAssumption
    <3>4. /\ records \in Seq(Records) /\ Len(records) = printed
          /\ DistinctIds(records) /\ Labelled(records)
          /\ \A i \in 1..printed : records[i].id = had[i].id
      <4>1. records = [i \in 1..printed |-> [had[i] EXCEPT !.form = forms[i]]]
        OBVIOUS
      <4>2. \A i, j \in 1..n : had[i].id = had[j].id => i = j
        BY <3>1
      <4> HIDE DEF records
      <4>3. IsPrinted(records, had, n, printed, forms)
        BY <3>3, <4>1, <4>2 DEF IsPrinted
      <4> QED
        BY <4>3, PrintedIsListing
    <3>5. /\ judged'.had = had /\ judged'.listing.records = records
          /\ judged'.listing.truncated = truncated
      BY <3>2
    <3> HIDE DEF records
    <3>6. DOMAIN had = 1..n /\ 1..n \subseteq Nat \ {0}
      OBVIOUS
    <3>7. \A i \in 1..n : /\ i <= printed => records[i].id = had[i].id
                          /\ i > printed => truncated
      BY <3>2, <3>3, <3>4
    <3> QED
      BY <3>4, <3>5, <3>6, <3>7 DEF CasesAreListings
  <2>2. CASE JudgeRouting
    <3>1. \E mapping, visible, mounts :
              judged' = [about |-> "routing", mapping |-> mapping, visible |-> visible,
                         mounts |-> mounts]
      BY <2>2 DEF JudgeRouting
    <3> QED
      BY <3>1 DEF CasesAreListings
  <2>3. CASE JudgeScan
    BY <2>3 DEF JudgeScan, CasesAreListings
  <2>4. CASE JudgeConfig
    BY <2>4 DEF JudgeConfig, CasesAreListings
  <2>5. CASE Dismiss
    BY <2>5 DEF Dismiss, Nothing, CasesAreListings
  <2>6. CASE UNCHANGED judged
    BY <2>6 DEF CasesAreListings
  <2> QED
    BY <2>1, <2>2, <2>3, <2>4, <2>5, <2>6 DEF Next
<1> QED
  BY <1>1, <1>2, PTL DEF Spec

-----------------------------------------------------------------------------
\* host-discovery.ts, walk: however deep the tree, whatever it links to or hides and
\* whatever cannot be read, a configuration below a root is found, or a diagnostic
\* names it or a directory above it; only one whose stat fails inside a .devcontainer
\* that can be listed is lost.
THEOREM ScanLosesOnlyByProbe == Spec => []LostOnlyByProbe
<1>1. CasesAreScans => LostOnlyByProbe
  BY ScanAccounts DEF CasesAreScans, LostOnlyByProbe
<1> QED
  BY <1>1, JudgedScans, PTL

\* host-discovery.ts: of any number of containers, listed in any order and cut or
\* spoilt anywhere, the entries say what the rules of selection take them to say.
THEOREM RegistryIsFaithful == Spec => []RegistryImplementsRules
<1>1. CasesAreListings => RegistryImplementsRules
  BY EntriesImplementRules DEF CasesAreListings, RegistryImplementsRules
<1> QED
  BY <1>1, JudgedListings, PTL

\* docker-adapter.ts: nor is any of those containers lost, however early the output
\* breaks off: it is a candidate of its workspace, or a diagnostic accounts for it.
THEOREM NoContainerLost == Spec => []NoContainerLostSilently
<1>1. CasesAreListings => NoContainerLostSilently
  BY ContainersAccounted DEF CasesAreListings, NoContainerLostSilently
<1> QED
  BY <1>1, JudgedListings, PTL

-----------------------------------------------------------------------------
(* The cases put to the guards.                                            *)

CasesAreRoutings ==
    judged.about = "routing" =>
      \E h, c, mounts :
          /\ Placed(h, c, mounts)
          /\ judged.mapping = Mapping(h, c)
          /\ judged.visible = SamePathMounts(mounts)
          /\ judged.mounts = All(h, c, mounts)

LEMMA TriedArePlaced ==
  ASSUME NEW h \in HostSpellings, NEW c \in ContainerSpellings, NEW mounts \in MountSetsTried,
         MountsApart(Mount(h, c), mounts), MirrorsSpelledAlike(mounts)
  PROVE  Placed(h, c, mounts)
<1>1. h \in Paths /\ NotBareSlashes(h)
  BY TriedAssumption
<1>2. c \in CleanPaths
  BY TriedAssumption DEF CleanPaths
<1>3. ASSUME NEW m \in mounts
      PROVE  m.source \in Paths /\ m.target \in Paths
  BY TriedAssumption
<1> QED
  BY <1>1, <1>2, <1>3 DEF Placed

LEMMA JudgedRoutings == Spec => []CasesAreRoutings
<1>1. Init => CasesAreRoutings
  BY DEF Init, Nothing, CasesAreRoutings
<1>2. CasesAreRoutings /\ [Next]_judged => CasesAreRoutings'
  <2> SUFFICES ASSUME CasesAreRoutings, [Next]_judged
               PROVE  CasesAreRoutings'
    OBVIOUS
  <2>1. CASE JudgeRouting
    <3>1. PICK h \in HostSpellings, c \in ContainerSpellings, mounts \in MountSetsTried :
             /\ MountsApart(Mount(h, c), mounts)
             /\ MirrorsSpelledAlike(mounts)
             /\ \E mapping \in {BuildPathMapping(Root, c, Mount(h, c)),
                                BuildPathMapping(h, c, NoMount)} :
                   judged' = [about |-> "routing", mapping |-> mapping,
                              visible |-> SamePathMounts(mounts),
                              mounts |-> mounts \cup {Mount(h, c)}]
      BY <2>1 DEF JudgeRouting
    <3>2. Placed(h, c, mounts)
      BY <3>1, TriedArePlaced
    <3>3. /\ BuildPathMapping(Root, c, Mount(h, c)) = Mapping(h, c)
          /\ BuildPathMapping(h, c, NoMount) = Mapping(h, c)
      BY <3>2, CleanIs, MappingBuilt DEF Placed
    <3>4. judged' = [about |-> "routing", mapping |-> Mapping(h, c),
                     visible |-> SamePathMounts(mounts), mounts |-> All(h, c, mounts)]
      BY <3>1, <3>3 DEF All
    <3>5. /\ (judged.mapping = Mapping(h, c))'
          /\ (judged.visible = SamePathMounts(mounts))'
          /\ (judged.mounts = All(h, c, mounts))'
      BY <3>4
    <3> QED
      BY <3>2, <3>5 DEF CasesAreRoutings
  <2>2. CASE JudgeScan
    BY <2>2 DEF JudgeScan, CasesAreRoutings
  <2>3. CASE JudgeListing
    BY <2>3 DEF JudgeListing, CasesAreRoutings
  <2>4. CASE JudgeConfig
    BY <2>4 DEF JudgeConfig, CasesAreRoutings
  <2>5. CASE Dismiss
    BY <2>5 DEF Dismiss, Nothing, CasesAreRoutings
  <2>6. CASE UNCHANGED judged
    BY <2>6 DEF CasesAreRoutings
  <2> QED
    BY <2>1, <2>2, <2>3, <2>4, <2>5, <2>6 DEF Next
<1> QED
  BY <1>1, <1>2, PTL DEF Spec

LEMMA TokensArePaths == \A t \in TokenSpellings : t \in Paths /\ NotBareSlashes(t)
  BY TriedAssumption

\* routing-guard.ts, whatever the segments, the mounts and the spelling of the element:
\* what is refused on the container surface is another file there, and what passes of
\* the host's workspace is the same file or the container's own workspace.
THEOREM GuardIsExact == Spec => []GuardExact
<1>1. CasesAreRoutings => GuardExact
  BY PlacedGuardIsExact, TokensArePaths DEF CasesAreRoutings, GuardExact
<1> QED
  BY <1>1, JudgedRoutings, PTL

\* path-mapper.ts, hostToContainer: what an agent is shown for any path of the
\* workspace works in the container, and only there.
THEOREM ShownPathsWork == Spec => []ShownPathWorks
<1>1. CasesAreRoutings => ShownPathWorks
  BY PlacedShownPathWorks, TokensArePaths DEF CasesAreRoutings, ShownPathWorks
<1> QED
  BY <1>1, JudgedRoutings, PTL

=============================================================================
