---------------------------- MODULE MCPureRules ----------------------------
(***************************************************************************)
(* Pairs of files that differ in what the policy reads, pairs that differ  *)
(* in their numbers, and pairs of which one is no object; two workspaces,  *)
(* one with a configuration; a chain r/x/y/z of directories, of which      *)
(* y may be a root of its own.                                             *)
(***************************************************************************)
EXTENDS PureRules, TLC

CONSTANTS
    Cwd, R1, R2, inCwd, inR1, inBoth,   \* R2 is inside R1
    E, Token, W, V, c1, c2, c3, link

-----------------------------------------------------------------------------
MCRootsAround == inCwd :> {Cwd} @@ inR1 :> {R1} @@ inBoth :> {R1, R2}

MCDefaultLimit == [k \in NumericKeys |-> 2]

PolicyLayers ==
    {[EmptyLayer EXCEPT !.roots = x, !.env = e, !.stop = d[1], !.remove = d[2], !.host = h] :
        x \in {Unset, {R1}, {R2}, {R1, R2}},
        e \in {Unset, {E, Token}},
        d \in {<<Unset, Unset>>, <<TRUE, FALSE>>, <<Unset, TRUE>>},
        h \in Flags}

NumericLayers ==
    {[EmptyLayer EXCEPT !.limit["maxTimeoutSeconds"] = t, !.limit["maxDepth"] = n, !.capture = a] :
        t \in {Unset, 0, 1, 3}, n \in {Unset, 1, 3}, a \in {Unset, 0, 1, 2}}

ShapeLayers ==
    {[EmptyLayer EXCEPT !.shape = s, !.host = h, !.roots = x] :
        s \in {"object", "other", "unparsable"}, h \in Flags, x \in {Unset, {R1}}}

MCLayerPairs ==
    (PolicyLayers \X PolicyLayers) \cup (NumericLayers \X NumericLayers)
    \cup (ShapeLayers \X ShapeLayers)

-----------------------------------------------------------------------------
Spelled(segments, max) == UNION {[1..n -> segments] : n \in 1..max}

MCNameLength == "a" :> 1 @@ "b" :> 3

MCHostSpellings ==
    (Spelled({"a", "b", "", ".."}, 2) \ {<<"", "">>}) \cup {<<"a", "b", "">>}

MCContainerSpellings == {<<"">>} \cup Spelled({"a", "b"}, 2)

\* A further mount, mirrored or not, or one of each.
MCMountSets ==
    {{}} \cup {{Mount(v, w)} : v, w \in {<<"a">>, <<"b">>, <<"a", "b">>}}
    \cup {{Mount(<<"b", "">>, <<"b", "">>)},
          {Mount(<<"a", "a">>, <<"a", "a">>), Mount(<<"b">>, <<"a", "b">>)}}

MCTokens == Spelled({"a", "b", "", ".", ".."}, 3) \ {<<"", "">>, <<"", "", "">>}

-----------------------------------------------------------------------------
MCWorkspaceOf == c1 :> W @@ c2 :> W @@ c3 :> V

MCConfigsOf == W :> {} @@ V :> {}

MCPrimaryConfig == W :> NoConfig @@ V :> NoConfig

MCUnder == W :> {W} @@ V :> {V}

MCRealpath == W :> W @@ link :> W @@ V :> V

-----------------------------------------------------------------------------
MCChildren == "r" :> {"x", "q"} @@ "x" :> {"y"} @@ "y" :> {"z"} @@ "z" :> {} @@ "q" :> {}

\* q is a link that may leave the root; y has its configuration in any form, and
\* anything may fail about it.
MCTrees ==
    {[name |-> [n EXCEPT !["r"] = "plain"], unreadable |-> u, escaping |-> e,
      form |-> [d \in Nodes |-> IF d = "y" THEN f ELSE "root"], unprobed |-> p, unlisted |-> l] :
        n \in [Nodes -> {"plain", "hidden", "excluded"}],
        u \in SUBSET {"x", "y", "q"},
        e \in {{}, {"q"}},
        f \in {"root", "unnamed", "named"},
        p \in {{}, {"y"}},
        l \in {{}, {"y"}}}

=============================================================================
