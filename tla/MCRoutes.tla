------------------------------ MODULE MCRoutes ------------------------------
(***************************************************************************)
(* Routes for TLC: a Gateway "gw" in namespace "home" and one of the same  *)
(* name in "away", where a Service lives that needs a ReferenceGrant.      *)
(***************************************************************************)
EXTENDS Routes, TLC

MCGateway == [ns |-> "home", name |-> "gw"]
MCOthers  == {[ns |-> "away", name |-> "gw"]}

MCRouteNS == [r1 |-> "home"]

MCLength == ("" :> 0) @@ ("a" :> 1) @@ ("b" :> 1)

Here     == [kind |-> "Gateway", ns |-> Own, name |-> "gw", section |-> Own]
HereWeb  == [Here EXCEPT !.section = "web"]
HereTypo == [Here EXCEPT !.section = "wbe"]
AwayWeb  == [HereWeb EXCEPT !.ns = "away"]
AwayTypo == [HereTypo EXCEPT !.ns = "away"]
Mesh     == [Here EXCEPT !.kind = "Service"]
HereCore == [Here EXCEPT !.kind = "CoreGateway"]

Local  == [ns |-> Own, name |-> "app", port |-> 80]
Local2 == [Local EXCEPT !.port = 81]
Api    == [ns |-> "away", name |-> "api", port |-> 80]
Api2   == [Api EXCEPT !.port = 81]

Rule(ms, bs) == [matches |-> ms, backends |-> bs]
PathMatch(t, v) == [type |-> t, value |-> v]

MCManifest ==
  [here |->
     [parents |-> <<Here, AwayTypo>>,
      rules |-> <<Rule(<<PathMatch("PathPrefix", <<"a">>)>>, <<Api>>),
                  Rule(<<>>, <<Local>>),
                  Rule(<<PathMatch("RegularExpression", <<"b">>)>>, <<Api2>>)>>],
   section |->
     [parents |-> <<Mesh, HereWeb, HereTypo>>,
      rules |-> <<Rule(<<PathMatch("PathPrefix", <<"a", "b">>),
                         PathMatch("PathPrefix", <<"a">>)>>, <<Local>>),
                  Rule(<<PathMatch("Exact", <<"a">>),
                         PathMatch("PathPrefix", <<"a", "">>)>>, <<Local2>>)>>],
   away |->
     [parents |-> <<AwayWeb, AwayTypo, HereCore>>,
      rules |-> <<Rule(<<PathMatch("unset", NoValue)>>, <<Api>>)>>]]

MCGrants ==
  {[ns |-> "away", from |-> {[kind |-> "HTTPRoute", ns |-> "home"]},
    to |-> {[kind |-> "Secret", name |-> ""], [kind |-> "Service", name |-> "api"]}]}

MCServices ==
  ([ns |-> "home", name |-> "app"] :> [selector |-> TRUE, ports |-> {[port |-> 80, target |-> 0], [port |-> 81, target |-> 8081]}])
  @@ ([ns |-> "away", name |-> "api"] :> [selector |-> TRUE, ports |-> {[port |-> 80, target |-> 8080],
                                                                 [port |-> 81, target |-> 0]}])

MCRequests == {<<"">>, <<"a">>, <<"a", "">>, <<"a", "b">>, <<"a", "", "b">>, <<"b">>}
============================================================================
