---------------------------- MODULE MCRequestPath ----------------------------
(***************************************************************************)
(* One slice for the export e of cluster p, which provides widgets and     *)
(* claims gadgets and apibindings; exports of clusters q and r that may    *)
(* share the identity of the gadgets; and bindings in cluster c, one of    *)
(* which may become a second one to e.                                     *)
(***************************************************************************)
EXTENDS RequestPath, TLC

TheUrls ==
  {<<"p", "s", "clusters", "c", "api">>, <<"p", "s", "clusters", "*">>,
   <<"p", "s", "clusters", "root:c">>, <<"p", "s", "clusters">>, <<"p", "", "clusters", "c">>,
   <<"p", "s", "api", "c">>}

Ask(v, r, s, l) == [verb |-> v, resource |-> r, status |-> s, labels |-> l]
TeamA == "team" :> "a"
TeamB == "team" :> "b"
InEnv == "env" :> "x"

TheAsked ==
  {Ask("list", "widgets", FALSE, NoLabels), Ask("create", "widgets", FALSE, NoLabels),
   Ask("update", "widgets", TRUE, TeamA), Ask("update", "gadgets", TRUE, NoLabels),
   Ask("get", "gadgets", FALSE, NoLabels), Ask("create", "gadgets", FALSE, NoLabels),
   Ask("create", "gadgets", FALSE, TeamB), Ask("create", "gadgets", FALSE, TeamA @@ InEnv),
   Ask("delete", "gadgets", FALSE, TeamA), Ask("get", "apibindings", FALSE, NoLabels),
   Ask("create", "apibindings", FALSE, NoLabels), Ask("get", "", FALSE, NoLabels)}

Selector(l, e, v) == [labels |-> l, exists |-> e, valid |-> v]
Slice(l, e, v) == [path |-> "p", name |-> "e", selector |-> Selector(l, e, v)]
ForTeamA == Slice(TeamA, {}, TRUE)
TheSlices == <<"p", "s">> :>
  {NoObject, ForTeamA, Slice(TeamB, {}, TRUE), Slice(NoLabels, {"env"}, TRUE),
   Slice(TeamA, {}, FALSE)}

Claim(i, v) == [identity |-> i, verbs |-> v]
Export(c, i, p) == [claims |-> c, identity |-> i, policy |-> p]
Claiming == Export("gadgets" :> Claim("h", {"get", "create", "update"}), "w", FALSE)
Provider == Export(<<>>, "h", TRUE)
TheExports ==
  <<"p", "e">> :> {NoObject, Claiming, Export(<<>>, "w", FALSE),
    Export("gadgets" :> Claim("h", {"*"}) @@ "apibindings" :> Claim("", {"*"}), "w", FALSE),
    Export("gadgets" :> Claim("", {"*"}), "w", FALSE)} @@
  <<"q", "x">> :> {NoObject, Provider, Export(<<>>, "h", FALSE)} @@
  <<"r", "x">> :> {NoObject, Provider, Export(<<>>, "new", TRUE)}

Accepted1(i, v, a, m, s) ==
  [identity |-> i, verbs |-> v, accepted |-> a, matchAll |-> m, selector |-> s]
Binding(x, b, c) == [name |-> x, exportCluster |-> "p", bound |-> b, claims |-> c]
Everything == Selector(NoLabels, {}, TRUE)
Gadgets(i, v, a, m, s) == "gadgets" :> Accepted1(i, v, a, m, s)
ByEnv == Binding("e", {"widgets"},
                 Gadgets("h", {"get", "create", "update"}, TRUE, FALSE, Selector(InEnv, {}, TRUE)))
TheBindings ==
  <<"c", "b">> :> {NoObject, ByEnv,
    Binding("e", {"widgets"}, Gadgets("h", {"*"}, TRUE, TRUE, Everything)
                              @@ "apibindings" :> Accepted1("", {"*"}, TRUE, TRUE, Everything)),
    Binding("e", {"widgets"}, Gadgets("h", {"get", "create"}, FALSE, TRUE, Everything)),
    Binding("e", {}, Gadgets("", {"*"}, TRUE, FALSE, Selector(TeamB, {"env"}, TRUE)))} @@
  <<"c", "other">> :> {NoObject, Binding("f", {"gadgets"}, <<>>),
    Binding("e", {}, Gadgets("h", {"*"}, TRUE, FALSE, Selector(TeamA, {}, TRUE)))}

TheCaches ==
  {[slices |-> <<"p", "s">> :> ForTeamA,
    exports |-> <<"p", "e">> :> Claiming @@ <<"q", "x">> :> Provider @@ <<"r", "x">> :> Provider,
    bindings |-> <<"c", "b">> :> ByEnv @@ <<"c", "other">> :> Binding("f", {"gadgets"}, <<>>)]}
=============================================================================
