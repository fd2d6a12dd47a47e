------------------------- MODULE RouteGatewayProofs -------------------------
(***************************************************************************)
(* Proofs about Routes, continued: what the routes come to at their        *)
(* Gateway.  Every variable has its type, the NetworkPolicy covers what    *)
(* the router serves and opens only what grants permit, and the router     *)
(* picks the backend that the reference definition selects.                *)
(***************************************************************************)
EXTENDS RoutesProofs

----------------------------------------------------------------------------
(***************************************************************************)
(* attachedRoutes.                                                         *)
(***************************************************************************)

\* parentRefs are counted, and every route is counted once: two of its references
\* to the Gateway do not attach to the same listener.
LEMMA CountedOnce ==
  ASSUME NEW objs, \A r \in RouteNames : objs[r].spec \in SpecNames, NEW l \in Listeners
  PROVE  AttachedRoutes(objs, l) \in 0 .. Cardinality(RouteNames)
<1> DEFINE R(r) == RefsTo(objs[r].spec, r, {Own, l})
           P == UNION {{r} \X R(r) : r \in RouteNames}
           C == {r \in RouteNames : R(r) # {}}
           g == [p \in P |-> p[1]]
<1>1. \A r \in RouteNames : \A i, j \in R(r) : i = j
  <2> SUFFICES ASSUME NEW r \in RouteNames, NEW i \in R(r), NEW j \in R(r) PROVE i = j
    OBVIOUS
  <2>1. CASE objs[r].spec = "none"
    BY <2>1 DEF RefsTo, SpecOf, NoSpec
  <2>2. CASE objs[r].spec # "none"
    BY <2>2, SectionsAssumption DEF SpecNames
  <2> QED BY <2>1, <2>2
<1>2. C = {r \in RouteNames : R(r) # {}}
  OBVIOUS
<1>3. IsFiniteSet(C) /\ Cardinality(C) <= Cardinality(RouteNames)
      /\ Cardinality(C) \in Nat /\ Cardinality(RouteNames) \in Nat
  BY <1>2, RoutesAssumption, FS_Subset, FS_CardinalityType
<1>4. AttachedRoutes(objs, l) = Cardinality(P)
  BY DEF AttachedRoutes, CountRefs
<1> HIDE DEF R, C
<1>5. \A p \in P : p[1] \in RouteNames /\ p[2] \in R(p[1]) /\ p = <<p[1], p[2]>>
  OBVIOUS
<1>6. \A r \in RouteNames : \A i \in R(r) : <<r, i>> \in P
  OBVIOUS
<1> HIDE DEF P
<1>7. g \in [P -> C]
  BY <1>2, <1>5
<1>8. \A p, q \in P : g[p] = g[q] => p = q
  <2> SUFFICES ASSUME NEW p \in P, NEW q \in P, g[p] = g[q] PROVE p = q
    OBVIOUS
  <2>1. p[1] = q[1]
    OBVIOUS
  <2>2. p[2] = q[2]
    BY <1>1, <1>5, <2>1
  <2> QED BY <1>5, <2>1, <2>2
<1>9. \A r \in C : \E p \in P : g[p] = r
  <2> SUFFICES ASSUME NEW r \in C PROVE \E p \in P : g[p] = r
    OBVIOUS
  <2>1. r \in RouteNames /\ \E i \in R(r) : TRUE
    BY <1>2
  <2>2. PICK i \in R(r) : TRUE
    BY <2>1
  <2>3. <<r, i>> \in P /\ g[<<r, i>>] = r
    BY <1>6, <2>1, <2>2
  <2> QED BY <2>3
<1> HIDE DEF g
<1>10. g \in Injection(P, C)
  BY <1>7, <1>8 DEF Injection, IsInjective
<1>11. g \in Surjection(P, C)
  BY <1>7, <1>9 DEF Surjection
<1>12. Cardinality(P) = Cardinality(C)
  BY <1>3, <1>10, <1>11, FS_Injection
<1> QED BY <1>3, <1>4, <1>12

\* The listeners' entries.
AttachedOK == attached \in [Listeners -> -1 .. Cardinality(RouteNames)]

\* Every step keeps AttachedOK.
LEMMA NextAttached ==
  ASSUME VerdictInv, AttachedOK, [Next]_vars
  PROVE  AttachedOK'
<1> DEFINE n == Cardinality(RouteNames)
<1>1. n \in Nat
  BY RoutesAssumption, FS_CardinalityType
<1>2. -1 \in -1 .. n /\ 0 \in -1 .. n /\ \A k \in 0 .. n : k \in -1 .. n
  BY <1>1
<1> HIDE DEF n
<1>3. CASE UNCHANGED attached \/ attached' = Unlisted
  BY <1>2, <1>3 DEF AttachedOK, Unlisted, n
<1>4. CASE CountAttached
  <2> DEFINE new == [l \in Listeners |-> IF attached[l] = -1 THEN -1 ELSE AttachedRoutes(seen, l)]
  <2>1. \A r \in RouteNames : seen[r].spec \in SpecNames
    BY DEF VerdictInv, TypeInv, Objects
  <2>2. \A l \in Listeners : AttachedRoutes(seen, l) \in -1 .. n
    BY <1>2, <2>1, CountedOnce DEF n
  <2>3. new \in [Listeners -> -1 .. n]
    BY <1>2, <2>2
  <2>4. attached' = new \/ attached' = attached
    BY <1>4 DEF CountAttached
  <2> HIDE DEF new
  <2> QED BY <2>3, <2>4 DEF AttachedOK, n
<1>5. CASE ReconcileGateway
  <2>1. attached' = ListenerStatuses \/ attached' = attached
    BY <1>5 DEF ReconcileGateway
  <2>2. ListenerStatuses \in [Listeners -> -1 .. n]
    BY <1>2 DEF ListenerStatuses, AttachedOK, n
  <2> QED BY <2>1, <2>2 DEF AttachedOK, n
<1>6. CASE (RouteWorker /\ ~CountAttached) \/ Informer \/ Router \/ CallFails \/ UNCHANGED vars
  BY <1>3, <1>6 DEF RouteWorker, Take, WriteStatus, Informer, DeliverRoute, Router, Sync, Watch,
                    Rebuild, NewLists, NewSets, CallFails, vars, gwVars
<1>7. CASE \/ RestartOperator \/ RestartRouter \/ GatewayEvent
           \/ \E r \in RouteNames, s \in SpecNames : EditRoute(r, s)
           \/ \E to \in {"absent", "foreign", "ours"} : ChangeGateway(to)
           \/ \E g \in Grants : ChangeGrant(g)
           \/ \E r \in RouteNames : ForeignStatus(r)
  BY <1>3, <1>7 DEF RestartOperator, RestartRouter, GatewayEvent, EditRoute, ChangeGateway,
                    ChangeGrant, ForeignStatus, gwVars
<1> QED BY <1>4, <1>5, <1>6, <1>7 DEF Next

----------------------------------------------------------------------------
(***************************************************************************)
(* Types.                                                                  *)
(***************************************************************************)

\* The variables with values of their own.
FlagTypes ==
  /\ gateway \in {"absent", "foreign", "ours"}
  /\ grants \subseteq Grants
  /\ missed \subseteq RouteNames /\ misled \subseteq RouteNames
  /\ due \in BOOLEAN /\ owed \in BOOLEAN /\ overlap \in BOOLEAN /\ unnoticed \in BOOLEAN
  /\ phase \in {"down", "start", "synced", "init", "serving"}
  /\ events \in 0 .. MaxEvents

\* The NetworkPolicy has one rule for every Service.
RulesOK == \A a, b \in egress : SameService(a, b) => a = b

\* No object was created more often than there were events, and one that does not
\* exist has no status.
Proper(o, n) == o.uid <= n /\ (o.spec = "none" => o.status = <<>>)

\* The routes; at most one entry of each is of another controller.
RoutesProper ==
  \A r \in RouteNames : Proper(routes[r], events) /\ Len(Foreign(routes[r].status)) <= 1

\* The copies of the reconcile under way and of the router's informer.
JobProper == job # NoJob => Proper(job.copy, events)

StoreProper == store \in [Visible -> Objects] /\ \A r \in Visible : Proper(store[r], events)

CopiesOK == RoutesProper /\ JobProper /\ StoreProper

TypesInv == FlagTypes /\ RulesOK /\ CopiesOK

\* Every step keeps these types; events are counted up to their bound.
LEMMA NextFlags ==
  ASSUME FlagTypes, [Next]_vars
  PROVE  FlagTypes'
<1>1. CASE UNCHANGED vars
  BY <1>1 DEF vars, history, gwVars, routerVars, FlagTypes
<1>2. CASE RouteWorker
  BY <1>2 DEF RouteWorker, Take, WriteStatus, CountAttached, FlagTypes, gwVars, routerVars, history
<1>3. CASE Informer
  <2>1. /\ UNCHANGED <<gateway, grants, missed, misled, unnoticed, owed, overlap, phase, events>>
        /\ due' \in BOOLEAN
    BY <1>3 DEF Informer, DeliverRoute, Targets, routerVars, history
  <2> QED BY <2>1 DEF FlagTypes
<1>4. CASE ReconcileGateway
  BY <1>4 DEF ReconcileGateway, Misled, FlagTypes
<1>5. CASE Router
  BY <1>5 DEF Router, Sync, Watch, Rebuild, NewLists, NewSets, FlagTypes, gwVars, history
<1>6. CASE Event /\ UNCHANGED <<gateway, grants, missed, misled, unnoticed, owed, overlap, phase>>
           /\ due' \in BOOLEAN
  BY <1>6, RoutesAssumption DEF Event, FlagTypes
<1>7. CASE CallFails \/ RestartOperator \/ GatewayEvent
           \/ (\E r \in RouteNames, s \in SpecNames : EditRoute(r, s))
           \/ (\E r \in RouteNames : ForeignStatus(r))
  BY <1>6, <1>7 DEF CallFails, RestartOperator, GatewayEvent, EditRoute, ForeignStatus,
                    gwVars, routerVars, history, FlagTypes
<1>8. CASE RestartRouter
  <2>1. /\ UNCHANGED <<gateway, grants, missed, misled, unnoticed, due>> /\ Event
        /\ phase' = "start" /\ owed' = FALSE /\ overlap' = FALSE
    BY <1>8 DEF RestartRouter, NewPod, gwVars, history
  <2>2. events' \in 0 .. MaxEvents
    BY <2>1, RoutesAssumption DEF Event, FlagTypes
  <2> QED BY <2>1, <2>2 DEF FlagTypes
<1>9. CASE \E to \in {"absent", "foreign", "ours"} : ChangeGateway(to)
  <2>1. PICK to \in {"absent", "foreign", "ours"} : ChangeGateway(to)
    BY <1>9
  <2>2. /\ gateway' = to /\ missed' = RouteNames /\ Event
        /\ UNCHANGED <<grants, misled>>
        /\ due' \in BOOLEAN /\ unnoticed' \in BOOLEAN
    BY <2>1 DEF ChangeGateway, FlagTypes
  <2>3. \/ phase' = "down" /\ owed' = FALSE /\ overlap' = FALSE
        \/ UNCHANGED <<phase, owed, overlap>>
    BY <2>1 DEF ChangeGateway, NewPod, routerVars
  <2>4. events' \in 0 .. MaxEvents
    BY <2>2, RoutesAssumption DEF Event, FlagTypes
  <2> QED BY <2>2, <2>3, <2>4 DEF FlagTypes
<1>10. CASE \E g \in Grants : ChangeGrant(g)
  BY <1>10, RoutesAssumption DEF ChangeGrant, Event, gwVars, routerVars, history, FlagTypes
<1> QED BY <1>1, <1>2, <1>3, <1>4, <1>5, <1>7, <1>8, <1>9, <1>10 DEF Next

\* Only a reconcile of the Gateway sets rules, and of several for a Service it
\* keeps one.
LEMMA NextRules ==
  ASSUME RulesOK, [Next]_vars
  PROVE  RulesOK'
<1>1. CASE UNCHANGED egress \/ egress' = {}
  BY <1>1 DEF RulesOK, SameService
<1>2. CASE \E wanted : egress' \in Resolutions(wanted)
  BY <1>2 DEF RulesOK, SameService, Resolutions
<1>3. CASE RouteWorker \/ Informer \/ Router \/ CallFails \/ RestartOperator \/ UNCHANGED vars
  BY <1>1, <1>3 DEF RouteWorker, Take, WriteStatus, CountAttached, Informer, DeliverRoute,
                    Router, Sync, Watch, Rebuild, NewLists, NewSets, CallFails,
                    RestartOperator, vars, gwVars
<1>4. CASE ReconcileGateway
  BY <1>1, <1>2, <1>4 DEF ReconcileGateway
<1>5. CASE \/ RestartRouter \/ GatewayEvent
           \/ \E r \in RouteNames, s \in SpecNames : EditRoute(r, s)
           \/ \E to \in {"absent", "foreign", "ours"} : ChangeGateway(to)
           \/ \E g \in Grants : ChangeGrant(g)
           \/ \E r \in RouteNames : ForeignStatus(r)
  BY <1>1, <1>5 DEF RestartRouter, GatewayEvent, EditRoute, ChangeGateway, ChangeGrant,
                    ForeignStatus, gwVars
<1> QED BY <1>3, <1>4, <1>5 DEF Next

\* Events are not taken back.
LEMMA EventsGrow ==
  ASSUME events \in Nat, [Next]_vars
  PROVE  events' \in Nat /\ events <= events'
<1>1. CASE UNCHANGED vars \/ RouteWorker \/ Informer \/ ReconcileGateway \/ Router
  <2>1. events' = events
    BY <1>1 DEF vars, RouteWorker, Take, WriteStatus, CountAttached, Informer, DeliverRoute,
                ReconcileGateway, Router, Sync, Watch, Rebuild, NewLists, NewSets
  <2> QED BY <2>1
<1>2. CASE \/ CallFails \/ RestartOperator \/ RestartRouter \/ GatewayEvent
           \/ \E r \in RouteNames, s \in SpecNames : EditRoute(r, s)
           \/ \E to \in {"absent", "foreign", "ours"} : ChangeGateway(to)
           \/ \E g \in Grants : ChangeGrant(g)
           \/ \E r \in RouteNames : ForeignStatus(r)
  <2>1. Event
    BY <1>2 DEF CallFails, RestartOperator, RestartRouter, GatewayEvent, EditRoute,
                ChangeGateway, ChangeGrant, ForeignStatus
  <2> QED BY <2>1 DEF Event
<1> QED BY <1>1, <1>2 DEF Next

\* An object stays proper.
LEMMA StaysProper ==
  ASSUME NEW o \in Objects, NEW m \in Nat, NEW n \in Nat, m <= n, Proper(o, m)
  PROVE  Proper(o, n)
<1>1. o.uid \in Nat
  BY DEF Objects
<1> QED BY <1>1 DEF Proper

\* The first entry of another controller is the only one.
LEMMA FirstForeign ==
  ASSUME NEW st \in Seq(Entries), NEW e \in Entries, e.ctrl # "us", Foreign(st) = <<>>
  PROVE  Len(Foreign(Append(st, e))) = 1
<1> DEFINE new == Append(st, e)
           I == {i \in DOMAIN new : new[i].ctrl # "us"}
           n == Len(st)
<1>1. /\ n \in Nat /\ new \in Seq(Entries) /\ DOMAIN new = 1 .. (n + 1)
      /\ \A i \in 1 .. n : new[i] = st[i]
      /\ new[n + 1] = e
  OBVIOUS
<1>2. \A i \in 1 .. n : st[i].ctrl = "us"
  BY ForeignEntries DEF HasForeign
<1>3. I = {n + 1}
  <2> HIDE DEF new, n
  <2>1. ASSUME NEW i \in 1 .. (n + 1) PROVE new[i].ctrl # "us" <=> i = n + 1
    <3>1. i \in 1 .. n \/ i = n + 1
      BY <1>1
    <3>2. ~(n + 1 \in 1 .. n)
      BY <1>1
    <3> QED BY <1>1, <1>2, <3>1, <3>2
  <2>2. n + 1 \in 1 .. (n + 1)
    BY <1>1
  <2> QED BY <1>1, <2>1, <2>2
<1>4. Cardinality(I) = 1
  BY <1>3, FS_Singleton
<1>5. Foreign(new) = Kept(new, I) /\ I \subseteq DOMAIN new
  BY DEF Foreign
<1> HIDE DEF new, I
<1>6. Len(Kept(new, I)) = Cardinality(I)
  BY <1>1, <1>5, KeptIsSelection
<1> QED BY <1>4, <1>5, <1>6 DEF new

\* Every step keeps RoutesProper: only a creation counts a uid on, the controller
\* keeps foreign entries, and another one writes only the first.
LEMMA NextRoutesProper ==
  ASSUME VerdictInv, events \in Nat, RoutesProper, [Next]_vars
  PROVE  RoutesProper'
<1>1. events' \in Nat /\ events <= events'
  BY EventsGrow
<1>2. \A q \in RouteNames : routes[q] \in Objects /\ Proper(routes[q], events')
  BY <1>1, StaysProper DEF VerdictInv, TypeInv, RoutesProper
<1>3. CASE UNCHANGED routes
  BY <1>2, <1>3 DEF RoutesProper
<1>4. ASSUME NEW r \in RouteNames, NEW o, routes' = [routes EXCEPT ![r] = o],
             Proper(o, events'), Len(Foreign(o.status)) <= 1
      PROVE  RoutesProper'
  <2>1. routes \in [RouteNames -> Objects]
    BY DEF VerdictInv, TypeInv
  <2>2. \A q \in RouteNames : routes'[q] = IF q = r THEN o ELSE routes[q]
    BY <1>4, <2>1
  <2> SUFFICES ASSUME NEW q \in RouteNames
               PROVE  Proper(routes'[q], events') /\ Len(Foreign(routes'[q].status)) <= 1
    BY DEF RoutesProper
  <2>3. CASE q = r
    BY <1>4, <2>2, <2>3
  <2>4. CASE q # r
    BY <1>2, <2>2, <2>4 DEF RoutesProper
  <2> QED BY <2>3, <2>4
<1>5. CASE WriteStatus
  <2> DEFINE r == job.route
             merged == MergeRouteParentStatuses(job.copy.status, job.parents)
             o == [routes[r] EXCEPT !.status = merged]
  <2>1. SUFFICES ASSUME routes[r] = job.copy,
                        routes' = [routes EXCEPT ![r].status = merged]
                 PROVE  RoutesProper'
    BY <1>3, <1>5 DEF WriteStatus
  <2>2. job.at = "write" /\ job \in Jobs
    BY <1>5, NoJobIsIdle DEF WriteStatus, VerdictInv, TypeInv
  <2>3. /\ r \in RouteNames /\ job.parents \in Seq(Entries)
        /\ job.copy.status \in Seq(Entries) /\ AllOurs(job.parents)
        /\ routes[r].spec # "none"
    BY <2>1, <2>2 DEF Jobs, Objects, VerdictInv, JobOK
  <2>4. Foreign(merged) = Foreign(routes[r].status)
    BY <2>1, <2>3, MergeKeepsForeign
  <2> HIDE DEF merged
  <2>5. routes' = [routes EXCEPT ![r] = o]
    BY <2>1
  <2>6. o.spec = routes[r].spec /\ o.uid = routes[r].uid /\ o.status = merged
    BY <1>2, <2>3 DEF Objects
  <2> HIDE DEF o
  <2>7. Proper(o, events') /\ Len(Foreign(o.status)) <= 1
    BY <1>2, <2>3, <2>4, <2>6 DEF Proper, RoutesProper
  <2> QED BY <1>4, <2>3, <2>5, <2>7
<1>6. CASE \E r \in RouteNames, s \in SpecNames : EditRoute(r, s)
  <2> PICK r \in RouteNames, s \in SpecNames : EditRoute(r, s)
    BY <1>6
  <2> DEFINE o == [spec   |-> s,
                   status |-> IF s = "none" THEN <<>> ELSE routes[r].status,
                   uid    |-> IF routes[r].spec = "none" THEN routes[r].uid + 1
                                                         ELSE routes[r].uid]
  <2>1. routes' = [routes EXCEPT ![r] = o] /\ events' = events + 1
    BY DEF EditRoute, Event
  <2>2. Len(Foreign(o.status)) <= 1
    <3>1. Foreign(<<>>) = <<>>
      <4>1. <<>> \in Seq(Entries) /\ ~HasForeign(<<>>)
        BY DEF HasForeign
      <4> QED BY <4>1, ForeignEntries
    <3> QED BY <3>1 DEF RoutesProper
  <2>3. Proper(o, events')
    <3>1. routes[r].uid \in Nat /\ routes[r].uid <= events
      BY <1>2 DEF Objects, RoutesProper, Proper
    <3>2. o.uid <= events'
      BY <2>1, <3>1
    <3>3. o.spec = "none" => o.status = <<>>
      OBVIOUS
    <3> QED BY <3>2, <3>3 DEF Proper
  <2> HIDE DEF o
  <2> QED BY <1>4, <2>1, <2>2, <2>3
<1>7. CASE \E r \in RouteNames : ForeignStatus(r)
  <2> PICK r \in RouteNames : ForeignStatus(r)
    BY <1>7
  <2>1. PICK ref \in Range(SpecOf(routes[r].spec).parents), judged \in BOOLEAN :
          /\ ref.kind = "Gateway" /\ ParentOf(ref, RouteNS[r]) = Gateway
          /\ routes' = [routes EXCEPT ![r].status =
            Append(@, [ctrl |-> "other", ref |-> ref, accepted |-> TRUE, judged |-> judged,
                       resolved |-> judged /\ BackendRefsPermitted(routes[r].spec, r)])]
    BY DEF ForeignStatus
  <2> DEFINE e == [ctrl |-> "other", ref |-> ref, accepted |-> TRUE, judged |-> judged,
                   resolved |-> judged /\ BackendRefsPermitted(routes[r].spec, r)]
             st == routes[r].status
             o  == [routes[r] EXCEPT !.status = Append(st, e)]
  <2>2. routes[r] \in Objects /\ routes[r].spec \in SpecNames /\ st \in Seq(Entries)
    BY <1>2 DEF Objects
  <2>3. e \in Entries
    <3>1. ref \in Refs
      BY <2>1, <2>2 DEF Refs, ParentRefs
    <3>2. BackendRefsPermitted(routes[r].spec, r) \in BOOLEAN
      BY DEF BackendRefsPermitted
    <3> QED BY <3>1, <3>2 DEF Entries
  <2>4. e.ctrl # "us" /\ routes' = [routes EXCEPT ![r] = o]
    BY <2>1
  <2>5. routes[r].spec # "none"
    BY DEF ForeignStatus, SpecOf, NoSpec, Range
  <2> HIDE DEF e
  <2>6. o.spec = routes[r].spec /\ o.uid = routes[r].uid /\ o.status = Append(st, e)
    <3>1. Append(st, e) \in Seq(Entries)
      BY <2>2, <2>3
    <3> QED BY <2>2, <3>1, StatusReplaced
  <2> HIDE DEF o
  <2>7. Len(Foreign(o.status)) <= 1
    <3>1. Len(Foreign(Append(st, e))) = 1
      BY <2>2, <2>3, <2>4, FirstForeign DEF ForeignStatus
    <3> QED BY <2>6, <3>1
  <2>8. Proper(o, events')
    BY <1>2, <2>5, <2>6 DEF Proper
  <2> QED BY <1>4, <2>4, <2>7, <2>8
<1>8. CASE RouteWorker /\ ~WriteStatus
  BY <1>3, <1>8 DEF RouteWorker, Take, CountAttached
<1>9. CASE Informer \/ ReconcileGateway \/ Router \/ CallFails \/ UNCHANGED vars
  BY <1>3, <1>9 DEF Informer, DeliverRoute, ReconcileGateway, Router, Sync, Watch, Rebuild,
                    NewLists, NewSets, CallFails, vars
<1>10. CASE \/ RestartOperator \/ RestartRouter \/ GatewayEvent
            \/ \E to \in {"absent", "foreign", "ours"} : ChangeGateway(to)
            \/ \E g \in Grants : ChangeGrant(g)
  BY <1>3, <1>10 DEF RestartOperator, RestartRouter, GatewayEvent, ChangeGateway, ChangeGrant
<1> QED BY <1>5, <1>6, <1>7, <1>8, <1>9, <1>10 DEF Next

\* Every step keeps JobProper: what is reconciled is the informer's copy.
LEMMA NextJobProper ==
  ASSUME VerdictInv, events \in Nat, RoutesProper, JobProper, [Next]_vars
  PROVE  JobProper'
<1>1. events' \in Nat /\ events <= events'
  BY EventsGrow
<1>2. CASE job' = NoJob
  BY <1>2 DEF JobProper
<1>3. CASE job # NoJob /\ job'.copy = job.copy
  <2>1. job.copy \in Objects
    BY <1>3 DEF VerdictInv, TypeInv, Jobs
  <2> QED BY <1>1, <1>3, <2>1, StaysProper DEF JobProper
<1>4. CASE UNCHANGED job
  BY <1>2, <1>3, <1>4
<1>5. CASE \E r \in RouteNames : Take(r)
  <2> PICK r \in RouteNames : Take(r)
    BY <1>5
  <2>1. job' = NoJob \/ job'.copy = seen[r]
    BY DEF Take
  <2>2. Proper(seen[r], events)
    <3>1. seen[r].uid <= routes[r].uid /\ (seen[r].spec = "none" => seen[r].status = <<>>)
      BY DEF VerdictInv, ObjectsOK
    <3>2. routes[r].uid <= events
      BY DEF RoutesProper, Proper
    <3>3. seen[r].uid \in Nat /\ routes[r].uid \in Nat
      BY DEF VerdictInv, TypeInv, Objects
    <3>4. seen[r].uid <= events
      BY <3>1, <3>2, <3>3
    <3> QED BY <3>1, <3>4 DEF Proper
  <2>3. Proper(seen[r], events')
    BY <1>1, <2>2, StaysProper DEF VerdictInv, TypeInv
  <2> QED BY <2>1, <2>3 DEF JobProper
<1>6. CASE WriteStatus
  <2>1. job' = NoJob \/ job' = [job EXCEPT !.at = "count"]
    BY <1>6 DEF WriteStatus, GiveUp
  <2>2. job # NoJob /\ job \in Jobs
    BY <1>6, NoJobIsIdle DEF WriteStatus, VerdictInv, TypeInv
  <2>3. [job EXCEPT !.at = "count"].copy = job.copy
    BY <2>2 DEF Jobs
  <2> QED BY <1>2, <1>3, <2>1, <2>2, <2>3
<1>7. CASE CountAttached \/ CallFails \/ RestartOperator
  BY <1>2, <1>7 DEF CountAttached, CallFails, GiveUp, RestartOperator
<1>8. CASE UNCHANGED vars \/ Informer \/ ReconcileGateway \/ Router
  BY <1>4, <1>8 DEF vars, ctlVars, Informer, DeliverRoute, ReconcileGateway, Router, Sync,
                    Watch, Rebuild, NewLists, NewSets
<1>9. CASE \/ RestartRouter \/ GatewayEvent
           \/ \E r \in RouteNames, s \in SpecNames : EditRoute(r, s)
           \/ \E to \in {"absent", "foreign", "ours"} : ChangeGateway(to)
           \/ \E g \in Grants : ChangeGrant(g)
           \/ \E r \in RouteNames : ForeignStatus(r)
  BY <1>4, <1>9 DEF RestartRouter, GatewayEvent, EditRoute, ChangeGateway, ChangeGrant,
                    ForeignStatus, ctlVars
<1> QED BY <1>5, <1>6, <1>7, <1>8, <1>9 DEF Next, RouteWorker

\* A route that was never there is proper.
LEMMA NoRouteProper ==
  ASSUME NEW n \in Nat
  PROVE  NoRoute \in Objects /\ Proper(NoRoute, n)
<1>1. NoRoute \in Objects
  BY DEF NoRoute, Objects, SpecNames
<1> QED BY <1>1 DEF NoRoute, Proper

\* Every step keeps StoreProper: the router's informer has the routes, or nothing.
LEMMA NextStoreProper ==
  ASSUME VerdictInv, events \in Nat, RoutesProper, StoreProper, [Next]_vars
  PROVE  StoreProper'
<1>1. events' \in Nat /\ events <= events'
  BY EventsGrow
<1>2. \A r \in Visible : routes[r] \in Objects /\ Proper(routes[r], events')
  BY <1>1, StaysProper DEF VerdictInv, TypeInv, RoutesProper, Visible
<1>3. \A r \in Visible : store[r] \in Objects /\ Proper(store[r], events')
  BY <1>1, StaysProper DEF StoreProper
<1>4. CASE UNCHANGED store
  BY <1>3, <1>4 DEF StoreProper, Visible
<1>5. CASE store' = NoStore
  BY <1>1, <1>5, NoRouteProper DEF StoreProper, NoStore, Visible
<1>6. CASE Sync
  <2>1. store' = [r \in Visible |-> routes[r]]
    BY <1>6 DEF Sync
  <2> QED BY <1>2, <2>1 DEF StoreProper, Visible
<1>7. CASE \E r \in Visible : Watch(r)
  <2> PICK r \in Visible : Watch(r)
    BY <1>7
  <2>1. store' = [store EXCEPT ![r] = routes[r]] /\ store \in [Visible -> Objects]
    BY DEF Watch, StoreProper
  <2> QED BY <1>2, <1>3, <2>1 DEF StoreProper, Visible
<1>8. CASE Rebuild \/ NewLists \/ NewSets
  BY <1>4, <1>8 DEF Rebuild, NewLists, NewSets
<1>9. CASE RestartRouter
  BY <1>5, <1>9 DEF RestartRouter, NewPod
<1>10. CASE \E to \in {"absent", "foreign", "ours"} : ChangeGateway(to)
  BY <1>4, <1>5, <1>10 DEF ChangeGateway, NewPod, routerVars
<1>11. CASE UNCHANGED vars \/ RouteWorker \/ Informer \/ ReconcileGateway \/ CallFails
            \/ RestartOperator \/ GatewayEvent
  BY <1>4, <1>11 DEF vars, routerVars, RouteWorker, Take, WriteStatus, CountAttached, Informer,
                     DeliverRoute, ReconcileGateway, CallFails, RestartOperator, GatewayEvent
<1>12. CASE \/ \E r \in RouteNames, s \in SpecNames : EditRoute(r, s)
            \/ \E g \in Grants : ChangeGrant(g)
            \/ \E r \in RouteNames : ForeignStatus(r)
  BY <1>4, <1>12 DEF routerVars, EditRoute, ChangeGrant, ForeignStatus
<1> QED BY <1>6, <1>7, <1>8, <1>9, <1>10, <1>11, <1>12 DEF Next, Router

\* Initially no object has a status, and none was created again.
LEMMA InitTypes ==
  ASSUME Init
  PROVE  TypesInv
<1>1. FlagTypes
  <2>1. events \in 0 .. MaxEvents
    BY RoutesAssumption DEF Init
  <2>2. gateway \in {"absent", "foreign", "ours"}
    BY DEF Init
  <2> QED BY <2>1, <2>2 DEF Init, FlagTypes
<1>2. RulesOK
  BY DEF Init, RulesOK
<1>3. \A r \in RouteNames : Proper(routes[r], 0) /\ routes[r].status = <<>>
  <2> SUFFICES ASSUME NEW r \in RouteNames
               PROVE  Proper(routes[r], 0) /\ routes[r].status = <<>>
    OBVIOUS
  <2>1. PICK s \in DOMAIN Manifest : routes[r] = [NoRoute EXCEPT !.spec = s]
    BY DEF Init
  <2>2. routes[r].status = <<>> /\ routes[r].uid = 0
    BY <2>1 DEF NoRoute
  <2> QED BY <2>2 DEF Proper
<1>4. Foreign(<<>>) = <<>>
  <2>1. <<>> \in Seq(Entries) /\ ~HasForeign(<<>>)
    BY DEF HasForeign
  <2> QED BY <2>1, ForeignEntries
<1>5. RoutesProper
  <2>1. events = 0 /\ Len(<<>>) <= 1
    BY DEF Init
  <2> QED BY <1>3, <1>4, <2>1 DEF RoutesProper
<1>6. JobProper
  BY DEF Init, JobProper
<1>7. StoreProper
  <2>1. store = [r \in Visible |-> NoRoute] /\ events = 0
    BY DEF Init, NoStore
  <2> QED BY <2>1, NoRouteProper DEF StoreProper
<1> QED BY <1>1, <1>2, <1>5, <1>6, <1>7 DEF TypesInv, CopiesOK

\* The invariants imply TypeOK.
LEMMA TypesSuffice ==
  ASSUME VerdictInv, AttachedOK, TypesInv
  PROVE  TypeOK
<1>1. events \in Nat /\ events <= MaxEvents /\ MaxEvents \in Nat
  BY RoutesAssumption DEF TypesInv, FlagTypes
<1>2. ASSUME NEW o \in Objects, Proper(o, events)
      PROVE  Object(o)
  <2>1. o.spec \in SpecNames /\ o.uid \in Nat /\ o.status \in Seq(Entries)
    BY <1>2 DEF Objects
  <2>2. o.uid \in 0 .. MaxEvents
    BY <1>1, <1>2, <2>1 DEF Proper
  <2>3. ASSUME NEW i \in DOMAIN o.status PROVE Entry(o.status[i])
    <3>1. o.status[i] \in Entries
      BY <2>1, <2>3
    <3> QED BY <3>1 DEF Entries, Refs, Entry
  <2> QED BY <1>2, <2>1, <2>2, <2>3 DEF Object, Proper
<1>3. ASSUME NEW r \in RouteNames
      PROVE  /\ Object(routes[r]) /\ Object(seen[r])
             /\ Len(Foreign(routes[r].status)) <= 1
  <2>1. routes[r] \in Objects /\ seen[r] \in Objects
    BY DEF VerdictInv, TypeInv
  <2>2. Proper(routes[r], events) /\ Len(Foreign(routes[r].status)) <= 1
    BY DEF TypesInv, CopiesOK, RoutesProper
  <2>3. seen[r].uid <= routes[r].uid /\ (seen[r].spec = "none" => seen[r].status = <<>>)
    BY DEF VerdictInv, ObjectsOK
  <2>4. seen[r].uid \in Nat /\ routes[r].uid \in Nat /\ routes[r].uid <= events
    BY <2>1, <2>2 DEF Objects, Proper
  <2>5. seen[r].uid <= events
    BY <1>1, <2>3, <2>4
  <2>6. Proper(seen[r], events)
    BY <2>3, <2>5 DEF Proper
  <2> QED BY <1>2, <2>1, <2>2, <2>6
<1>4. \/ job = NoJob
      \/ job.at \in {"write", "count"} /\ job.route \in RouteNames /\ Object(job.copy)
  <2> SUFFICES ASSUME job # NoJob
               PROVE  /\ job.at \in {"write", "count"} /\ job.route \in RouteNames
                      /\ Object(job.copy)
    OBVIOUS
  <2>1. job.at \in {"write", "count"} /\ job.route \in RouteNames /\ job.copy \in Objects
    BY DEF VerdictInv, TypeInv, Jobs
  <2>2. Proper(job.copy, events)
    BY DEF TypesInv, CopiesOK, JobProper
  <2> QED BY <1>2, <2>1, <2>2
<1>5. \A r \in Visible : Object(store[r])
  BY <1>2 DEF TypesInv, CopiesOK, StoreProper
<1>6. /\ queue \subseteq RouteNames
      /\ attached \in [Listeners -> -1 .. Cardinality(RouteNames)]
  BY DEF VerdictInv, TypeInv, AttachedOK
<1>7. FlagTypes /\ RulesOK
  BY DEF TypesInv
<1> QED BY <1>3, <1>4, <1>5, <1>6, <1>7 DEF TypeOK, FlagTypes, RulesOK

\* Every step keeps TypesInv.
LEMMA NextTypes ==
  ASSUME VerdictInv, TypesInv, [Next]_vars
  PROVE  TypesInv'
<1>1. FlagTypes /\ RulesOK /\ RoutesProper /\ JobProper /\ StoreProper
  BY DEF TypesInv, CopiesOK
<1>2. events \in Nat
  BY <1>1, RoutesAssumption DEF FlagTypes
<1>3. FlagTypes' /\ RulesOK'
  BY <1>1, NextFlags, NextRules
<1>4. RoutesProper' /\ JobProper' /\ StoreProper'
  BY <1>1, <1>2, NextRoutesProper, NextJobProper, NextStoreProper
<1> QED BY <1>3, <1>4 DEF TypesInv, CopiesOK

\* Every variable of Routes has its type: for any routes, specs and grants, a
\* parent status is about a Gateway, there is at most one of another
\* controller, no listener counts more than the routes there are, and the
\* NetworkPolicy has one rule for every Service.
THEOREM TypesStayCorrect == Spec => []TypeOK
<1>1. Init => VerdictInv /\ AttachedOK /\ TypesInv
  <2>1. Cardinality(RouteNames) \in Nat
    BY RoutesAssumption, FS_CardinalityType
  <2>2. -1 \in -1 .. Cardinality(RouteNames)
    BY <2>1
  <2>3. Init => AttachedOK
    BY <2>2 DEF Init, AttachedOK, Unlisted
  <2> QED BY <2>3, InitVerdicts, InitTypes
<1>2. VerdictInv /\ TypesInv /\ [Next]_vars => TypesInv'
  BY NextTypes
<1>3. VerdictInv /\ AttachedOK /\ [Next]_vars => (VerdictInv /\ AttachedOK)'
  BY NextVerdicts, NextAttached
<1>4. VerdictInv /\ AttachedOK /\ TypesInv => TypeOK
  BY TypesSuffice
<1> QED BY <1>1, <1>2, <1>3, <1>4, PTL DEF Spec

----------------------------------------------------------------------------
(***************************************************************************)
(* The references of a spec.                                               *)
(***************************************************************************)

\* The rules of a spec are a sequence, and the backends of each.
LEMMA RulesOfSpec ==
  ASSUME NEW s \in SpecNames
  PROVE  LET rules == SpecOf(s).rules IN
         /\ DOMAIN rules = 1 .. Len(rules) /\ Len(rules) \in Nat
         /\ \A i \in DOMAIN rules :
              /\ rules[i].backends \in Seq(BackendRefs(s))
              /\ \A k \in DOMAIN rules[i].backends :
                   {"ns", "name"} \subseteq DOMAIN rules[i].backends[k]
<1> DEFINE rules == SpecOf(s).rules
<1>1. CASE s = "none"
  <2>1. rules = <<>>
    BY <1>1 DEF SpecOf, NoSpec
  <2> QED BY <2>1
<1>2. CASE s # "none"
  <2>1. rules \in Seq(Range(rules))
    BY <1>2, ManifestAssumption DEF SpecNames, SpecOf
  <2>2. ASSUME NEW i \in DOMAIN rules
        PROVE  /\ rules[i].backends \in Seq(BackendRefs(s))
               /\ \A k \in DOMAIN rules[i].backends :
                    {"ns", "name"} \subseteq DOMAIN rules[i].backends[k]
    <3>1. /\ rules[i].backends \in Seq(Range(rules[i].backends))
          /\ \A k \in DOMAIN rules[i].backends :
               {"ns", "name"} \subseteq DOMAIN rules[i].backends[k]
      BY <1>2, ManifestAssumption DEF SpecNames, SpecOf
    <3>2. Range(rules[i].backends) \subseteq BackendRefs(s)
      BY DEF BackendRefs
    <3> QED BY <3>1, <3>2, SeqOfRange
  <2> HIDE DEF rules
  <2> QED BY <2>1, <2>2 DEF rules
<1> QED BY <1>1, <1>2

\* A reference as convertBackends leaves it.
Converted(ref, ns) == [ref EXCEPT !.ns = NamespaceOf(ref, ns)]

\* Resolvable lists the references of a spec that resolve, converted: those and all
\* of those.
LEMMA ResolvableRefs ==
  ASSUME NEW s \in SpecNames, NEW r \in RouteNames
  PROVE  LET refs == Resolvable[r][s]
             rules == SpecOf(s).rules IN
         /\ DOMAIN refs = 1 .. Len(refs) /\ Len(refs) \in Nat
         /\ \A b \in Range(refs) : \E ref \in BackendRefs(s) : b = Converted(ref, RouteNS[r])
         /\ \A i \in DOMAIN rules : \A k \in DOMAIN rules[i].backends :
              Resolves(Converted(rules[i].backends[k], RouteNS[r]))
                => Converted(rules[i].backends[k], RouteNS[r]) \in Range(refs)
<1> DEFINE ns == RouteNS[r]
           rules == SpecOf(s).rules
           lists == [i \in DOMAIN rules |-> rules[i].backends]
           flat == FlattenSeq(lists)
           all == ConvertBackends(flat, ns)
           I == {i \in DOMAIN all : Resolves(all[i])}
           refs == Kept(all, I)
           C == {Converted(ref, ns) : ref \in BackendRefs(s)}
<1>1. Resolvable[r][s] = refs
  BY DEF Resolvable
<1>2. /\ DOMAIN rules = 1 .. Len(rules) /\ Len(rules) \in Nat
      /\ \A i \in DOMAIN rules : rules[i].backends \in Seq(BackendRefs(s))
  BY RulesOfSpec
<1> HIDE DEF rules
<1>3. lists \in Seq(Seq(BackendRefs(s))) /\ DOMAIN lists = DOMAIN rules
  BY <1>2
<1>4. \A i \in DOMAIN rules : lists[i] = rules[i].backends
  OBVIOUS
<1> HIDE DEF lists
<1>5. /\ flat \in Seq(BackendRefs(s))
      /\ \A i \in DOMAIN lists : \A k \in DOMAIN lists[i] :
           \E j \in DOMAIN flat : flat[j] = lists[i][k]
  BY <1>3, FlattenedElements
<1> HIDE DEF flat
<1>6. /\ DOMAIN all = DOMAIN flat
      /\ \A j \in DOMAIN flat : all[j] = Converted(flat[j], ns)
  BY DEF ConvertBackends, Converted
<1>7. all \in Seq(C)
  <2>1. all = [j \in 1 .. Len(flat) |-> all[j]]
    BY <1>5 DEF ConvertBackends
  <2>2. \A j \in 1 .. Len(flat) : all[j] \in C
    BY <1>5, <1>6
  <2>3. Len(flat) \in Nat
    BY <1>5
  <2> HIDE DEF all, C
  <2> QED BY <2>1, <2>2, <2>3
<1> HIDE DEF all
<1>8. I \subseteq DOMAIN all
  OBVIOUS
<1>9. \A j \in DOMAIN all : Resolves(all[j]) => j \in I
  OBVIOUS
<1> HIDE DEF I, C
<1>10. /\ refs \in Seq(C)
       /\ \A i \in I : \E k \in DOMAIN refs : refs[k] = all[i]
  <2>1. /\ Kept(all, I) \in Seq(C)
        /\ \A k \in DOMAIN Kept(all, I) : \E i \in I : Kept(all, I)[k] = all[i]
        /\ \A i \in I : \E k \in DOMAIN Kept(all, I) : Kept(all, I)[k] = all[i]
        /\ Kept(all, I) = <<>> => I = {}
        /\ Len(Kept(all, I)) = Cardinality(I)
    BY <1>7, <1>8, KeptIsSelection, Zenon
  <2> QED BY <2>1
<1> HIDE DEF refs
<1>11. \A b \in Range(refs) : \E ref \in BackendRefs(s) : b = Converted(ref, ns)
  <2>1. Range(refs) \subseteq C
    BY <1>10 DEF Range
  <2> QED BY <2>1 DEF C
<1>12. ASSUME NEW i \in DOMAIN rules, NEW k \in DOMAIN rules[i].backends,
              Resolves(Converted(rules[i].backends[k], ns))
       PROVE  Converted(rules[i].backends[k], ns) \in Range(refs)
  <2>1. PICK j \in DOMAIN flat : flat[j] = rules[i].backends[k]
    BY <1>3, <1>4, <1>5
  <2>2. j \in I
    BY <1>6, <1>9, <1>12, <2>1
  <2>3. PICK n \in DOMAIN refs : refs[n] = all[j]
    BY <1>10, <2>2
  <2> QED BY <1>6, <2>1, <2>3 DEF Range
<1>13. DOMAIN refs = 1 .. Len(refs) /\ Len(refs) \in Nat
  BY <1>10
<1> QED BY <1>1, <1>11, <1>12, <1>13 DEF rules

\* A reference is permitted, converted or not.
LEMMA ConvertedPermitted ==
  ASSUME NEW s \in SpecNames, NEW ref \in BackendRefs(s), NEW ns
  PROVE  /\ Converted(ref, ns).ns = NamespaceOf(ref, ns)
         /\ Permitted(Converted(ref, ns), ns) <=> Permitted(ref, ns)
<1> DEFINE n == NamespaceOf(ref, ns)
           b == Converted(ref, ns)
<1>1. {"ns", "name"} \subseteq DOMAIN ref
  <2> DEFINE rules == SpecOf(s).rules
  <2>1. PICK i \in DOMAIN rules : ref \in Range(rules[i].backends)
    BY DEF BackendRefs
  <2>2. PICK k \in DOMAIN rules[i].backends : ref = rules[i].backends[k]
    BY <2>1 DEF Range
  <2> QED BY <2>2, RulesOfSpec
<1>2. {"ns", "name"} \subseteq DOMAIN b /\ b.ns = n /\ b.name = ref.name
  BY <1>1 DEF Converted
<1> HIDE DEF b
<1>3. NamespaceOf(b, ns) = n
  BY <1>2 DEF NamespaceOf
<1> DEFINE t1 == [ref EXCEPT !.ns = n]
           t2 == [b EXCEPT !.ns = n]
<1>4. t1.ns = t2.ns /\ t1.name = t2.name
  <2> HIDE DEF n
  <2> QED BY <1>1, <1>2
<1>5. /\ Permitted(ref, ns) <=> n = ns \/ Allows(ns, t1)
      /\ Permitted(b, ns) <=> n = ns \/ Allows(ns, t2)
  BY <1>3 DEF Permitted
<1> HIDE DEF t1, t2, n
<1>6. Allows(ns, t1) <=> Allows(ns, t2)
  BY <1>4 DEF Allows
<1> QED BY <1>2, <1>5, <1>6 DEF b, n

\* Every permitted reference has a rule for its Service among the candidates: that
\* of the last permitted reference to it.
LEMMA PermittedHasRule ==
  ASSUME NEW s \in SpecNames, NEW r \in RouteNames, NEW b \in Range(Resolvable[r][s]),
         Permitted(b, RouteNS[r])
  PROVE  \E c \in EgressOf(s, r) : SameService(b, c)
<1> DEFINE refs == Resolvable[r][s]
           kept == {i \in DOMAIN refs : Permitted(refs[i], RouteNS[r])}
           T == {l \in kept : SameService(b, refs[l])}
<1>1. DOMAIN refs = 1 .. Len(refs) /\ Len(refs) \in Nat
  BY ResolvableRefs
<1> HIDE DEF refs
<1>2. PICK k \in DOMAIN refs : refs[k] = b
  BY DEF Range, refs
<1>3. k \in T
  BY <1>2 DEF SameService
<1>4. T \subseteq 1 .. Len(refs)
  BY <1>1
<1>5. PICK m \in T : \A l \in T : l <= m
  <2> HIDE DEF T
  <2> QED BY <1>1, <1>3, <1>4, GreatestElement
<1>6. m \in kept /\ SameService(b, refs[m])
  OBVIOUS
<1>7. \A l \in kept : l > m => ~SameService(refs[m], refs[l])
  <2> SUFFICES ASSUME NEW l \in kept, l > m, SameService(refs[m], refs[l]) PROVE FALSE
    OBVIOUS
  <2>1. l \in T
    BY <1>6 DEF SameService
  <2>2. l <= m /\ l \in Nat /\ m \in Nat
    BY <1>1, <1>5, <2>1
  <2> QED BY <2>2
<1>8. RuleFor(refs[m]) \in EgressOf(s, r)
  BY <1>6, <1>7 DEF EgressOf, refs
<1>9. SameService(b, RuleFor(refs[m]))
  BY <1>6 DEF SameService, RuleFor
<1> QED BY <1>8, <1>9
----------------------------------------------------------------------------
(***************************************************************************)
(* The inductive invariant.                                                *)
(***************************************************************************)

\* The Gateway's last reconcile has seen what was due to the backend b of route r: a
\* backend of the own namespace, or one that the route's status admits and a
\* grant permitted then.
Owed(r, b) ==
  b.ns = RouteNS[r] \/ (RefsResolvedFor(seen[r].status, r) /\ r \notin misled)

\* A rule for the backend b of route r needs no grant, or the route's status admits it,
\* unless that status was not what the grants said.
Open(r, b) ==
  b.ns = RouteNS[r] \/ r \in misled \/ RefsResolvedFor(seen[r].status, r)

\* Unless a reconcile of the Gateway is due, or should be, every rule of the
\* NetworkPolicy is of a backend that a route asks for and may have, and there
\* is one for every Service of a backend that is owed one.
EgressOK ==
  ~due /\ ~unnoticed /\ gateway = "ours" =>
    /\ \A c \in egress : \E r \in RouteNames :
         /\ Targets(seen[r].spec, r)
         /\ \E b \in Range(Resolvable[r][seen[r].spec]) : c = RuleFor(b) /\ Open(r, b)
    /\ \A r \in RouteNames : Targets(seen[r].spec, r) =>
         \A b \in Range(Resolvable[r][seen[r].spec]) :
           Owed(r, b) => \E c \in egress : SameService(b, c)

\* Steps that leave the NetworkPolicy, the informer's copies and the Gateway alone.
LEMMA ElsewhereEgress ==
  ASSUME EgressOK, UNCHANGED <<gateway, seen, egress, misled, unnoticed>>, due => due'
  PROVE  EgressOK'
<1>1. \A r, b : (Owed(r, b)' <=> Owed(r, b)) /\ (Open(r, b)' <=> Open(r, b))
  BY DEF Owed, Open
<1> QED BY <1>1 DEF EgressOK

\* A verdict on a route that does not mislead is what the grants say of every backend
\* in another namespace.
LEMMA VerdictIsGrant ==
  ASSUME NEW r \in RouteNames, seen[r].spec \in SpecNames, Targets(seen[r].spec, r),
         r \notin Misled, NEW b \in Range(Resolvable[r][seen[r].spec]), b.ns # RouteNS[r]
  PROVE  Permitted(b, RouteNS[r]) <=> RefsResolvedFor(seen[r].status, r)
<1> DEFINE s  == seen[r].spec
           ns == RouteNS[r]
<1>1. PICK ref \in BackendRefs(s) : b = Converted(ref, ns)
  BY ResolvableRefs
<1>2. NamespaceOf(ref, ns) # ns /\ (Permitted(b, ns) <=> Permitted(ref, ns))
  BY <1>1, ConvertedPermitted
<1>3. Permitted(ref, ns) = RefsResolvedFor(seen[r].status, r)
  BY <1>1, <1>2 DEF Misled
<1> QED BY <1>2, <1>3

\* A reconcile of the Gateway.
LEMMA ReconcileEgress ==
  ASSUME VerdictInv, EgressOK, ReconcileGateway
  PROVE  EgressOK'
<1>1. CASE gateway # "ours"
  BY <1>1 DEF ReconcileGateway, EgressOK
<1>2. CASE gateway = "ours"
  <2>1. /\ egress' \in Resolutions(EgressCandidates) /\ misled' = Misled
        /\ UNCHANGED <<gateway, seen>>
    BY <1>2 DEF ReconcileGateway
  <2>2. \A r \in RouteNames : seen[r].spec \in SpecNames
    BY DEF VerdictInv, TypeInv, Objects
  <2>3. ASSUME NEW c \in egress'
        PROVE  \E r \in RouteNames :
                 /\ Targets(seen[r].spec, r)
                 /\ \E b \in Range(Resolvable[r][seen[r].spec]) : c = RuleFor(b) /\ Open(r, b)'
    <3>1. c \in EgressCandidates
      BY <2>1 DEF Resolutions
    <3>2. PICK r \in RouteNames : Targets(seen[r].spec, r) /\ c \in EgressOf(seen[r].spec, r)
      BY <3>1 DEF EgressCandidates
    <3>3. PICK b \in Range(Resolvable[r][seen[r].spec]) :
            c = RuleFor(b) /\ Permitted(b, RouteNS[r])
      BY <3>2 DEF EgressOf, Range
    <3>4. Open(r, b)'
      BY <2>1, <2>2, <3>2, <3>3, VerdictIsGrant DEF Open
    <3> QED BY <3>2, <3>3, <3>4
  <2>4. ASSUME NEW r \in RouteNames, Targets(seen[r].spec, r),
               NEW b \in Range(Resolvable[r][seen[r].spec]), Owed(r, b)'
        PROVE  \E c \in egress' : SameService(b, c)
    <3>1. Permitted(b, RouteNS[r])
      <4>1. CASE b.ns = RouteNS[r]
        BY <4>1 DEF Permitted, NamespaceOf
      <4>2. CASE b.ns # RouteNS[r]
        BY <2>1, <2>2, <2>4, <4>2, VerdictIsGrant DEF Owed
      <4> QED BY <4>1, <4>2
    <3>2. PICK a \in EgressOf(seen[r].spec, r) : SameService(b, a)
      BY <2>2, <2>4, <3>1, PermittedHasRule
    <3>3. a \in EgressCandidates
      BY <2>4, <3>2 DEF EgressCandidates
    <3>4. PICK c \in egress' : SameService(a, c)
      BY <2>1, <3>3 DEF Resolutions
    <3> QED BY <3>2, <3>4 DEF SameService
  <2> QED BY <2>1, <2>3, <2>4 DEF EgressOK
<1> QED BY <1>1, <1>2

\* The informer delivers: unless the route has and had nothing to do with the
\* Gateway, a reconcile is due.
LEMMA DeliverEgress ==
  ASSUME VerdictInv, EgressOK, NEW r \in RouteNames, DeliverRoute(r)
  PROVE  EgressOK'
<1>1. /\ seen' = [seen EXCEPT ![r] = routes[r]]
      /\ UNCHANGED <<gateway, egress, misled, unnoticed>>
      /\ due' = (due \/ Targets(seen[r].spec, r) \/ Targets(routes[r].spec, r))
  BY DEF DeliverRoute, history
<1>2. SUFFICES ASSUME ~due, ~Targets(seen[r].spec, r), ~Targets(routes[r].spec, r),
                      gateway = "ours", ~unnoticed
               PROVE  EgressOK'
  BY <1>1 DEF EgressOK
<1>3. /\ seen'[r] = routes[r]
      /\ \A q \in RouteNames : q # r => seen'[q] = seen[q]
  BY <1>1 DEF VerdictInv, TypeInv
<1>4. \A q \in RouteNames : Targets(seen'[q].spec, q) => q # r /\ seen'[q] = seen[q]
  BY <1>2, <1>3
<1>5. \A q \in RouteNames : Targets(seen[q].spec, q) => seen'[q] = seen[q]
  BY <1>2, <1>3
<1>6. \A q \in RouteNames : seen'[q] = seen[q] =>
        \A b : (Owed(q, b)' <=> Owed(q, b)) /\ (Open(q, b)' <=> Open(q, b))
  BY <1>1 DEF Owed, Open
<1> QED BY <1>1, <1>2, <1>4, <1>5, <1>6 DEF EgressOK

\* Every step keeps EgressOK.
LEMMA NextEgress ==
  ASSUME VerdictInv, EgressOK, [Next]_vars
  PROVE  EgressOK'
<1>1. CASE UNCHANGED <<gateway, seen, egress, misled, unnoticed>> /\ (due => due')
  BY <1>1, ElsewhereEgress
<1>2. CASE due' = TRUE
  BY <1>2 DEF EgressOK
<1>3. CASE UNCHANGED vars \/ RouteWorker \/ Router \/ CallFails \/ RestartRouter
  <2>1. UNCHANGED <<gateway, seen, egress, misled, unnoticed, due>>
    BY <1>3 DEF vars, gwVars, history, RouteWorker, Take, WriteStatus, CountAttached, Router,
                Sync, Watch, Rebuild, NewLists, NewSets, CallFails, RestartRouter
  <2> QED BY <1>1, <2>1
<1>4. CASE Informer
  BY <1>4, DeliverEgress DEF Informer
<1>5. CASE ReconcileGateway
  BY <1>5, ReconcileEgress
<1>6. CASE RestartOperator \/ GatewayEvent
  BY <1>2, <1>6 DEF RestartOperator, GatewayEvent
<1>7. CASE \E to \in {"absent", "foreign", "ours"} : ChangeGateway(to)
  <2>1. due' = TRUE \/ (due' = due /\ unnoticed' = ~due)
    BY <1>7 DEF ChangeGateway
  <2>2. CASE due' = TRUE
    BY <1>2, <2>2
  <2>3. CASE due
    <3>1. due' = TRUE \/ due' = due
      BY <2>1
    <3> QED BY <2>3, <3>1 DEF EgressOK
  <2>4. CASE ~due /\ unnoticed' = ~due
    <3>1. ~due = TRUE
      BY <2>4
    <3>2. unnoticed' = TRUE
      BY <2>4, <3>1
    <3> QED BY <3>2 DEF EgressOK
  <2> QED BY <2>1, <2>2, <2>3, <2>4
<1>8. CASE \/ \E r \in RouteNames, s \in SpecNames : EditRoute(r, s)
           \/ \E g \in Grants : ChangeGrant(g)
           \/ \E r \in RouteNames : ForeignStatus(r)
  BY <1>1, <1>8 DEF EditRoute, ChangeGrant, ForeignStatus, gwVars, history
<1> QED BY <1>3, <1>4, <1>5, <1>6, <1>7, <1>8 DEF Next

\* What the router serves of a route is a converted reference of its spec, and one
\* of the own namespace when the status does not admit others.
LEMMA ServedRefs ==
  ASSUME NEW s \in SpecNames, NEW r \in RouteNames, NEW all \in BOOLEAN,
         NEW i \in DOMAIN RulesOf([spec |-> s, all |-> all], r),
         NEW b \in Range(RulesOf([spec |-> s, all |-> all], r)[i].backends)
  PROVE  /\ i \in DOMAIN SpecOf(s).rules
         /\ \E k \in DOMAIN SpecOf(s).rules[i].backends :
              b = Converted(SpecOf(s).rules[i].backends[k], RouteNS[r])
         /\ ~all => b.ns = RouteNS[r]
<1> DEFINE ns == RouteNS[r]
           rules == RulesFromHTTPRoute(SpecOf(s), ns)
           refs == SpecOf(s).rules[i].backends
           bs == rules[i].backends
<1>1. /\ all => RulesOf([spec |-> s, all |-> all], r) = rules
      /\ ~all => RulesOf([spec |-> s, all |-> all], r) = DropCrossNSBackends(rules, ns)
  BY DEF RulesOf
<1>2. i \in DOMAIN SpecOf(s).rules
  BY <1>1 DEF DropCrossNSBackends, RulesFromHTTPRoute
<1>3. bs = ConvertBackends(refs, ns)
  BY <1>2 DEF RulesFromHTTPRoute
<1>4. refs \in Seq(BackendRefs(s))
  BY <1>2, RulesOfSpec
<1>5. ASSUME NEW e \in Range(bs)
      PROVE  \E k \in DOMAIN refs : e = Converted(refs[k], ns)
  <2> HIDE DEF bs, refs
  <2> QED BY <1>3, <1>5 DEF ConvertBackends, Converted, Range
<1>6. CASE all
  BY <1>1, <1>2, <1>5, <1>6
<1>7. CASE ~all
  <2> DEFINE I == {k \in DOMAIN bs : bs[k].ns = ns}
  <2>1. b \in Range(Kept(bs, I))
    <3>1. DropCrossNSBackends(rules, ns)[i].backends = Kept(bs, I)
      BY <1>2 DEF DropCrossNSBackends, RulesFromHTTPRoute
    <3> QED BY <1>1, <1>7, <3>1
  <2>2. bs \in Seq(Range(bs))
    <3>1. DOMAIN refs = 1 .. Len(refs) /\ Len(refs) \in Nat
      BY <1>4
    <3> HIDE DEF refs, bs
    <3>2. bs = [k \in 1 .. Len(refs) |-> bs[k]]
      BY <1>3, <3>1 DEF ConvertBackends
    <3>3. \A k \in 1 .. Len(refs) : bs[k] \in Range(bs)
      BY <3>2 DEF Range
    <3> QED BY <3>1, <3>2, <3>3
  <2>3. I \subseteq DOMAIN bs /\ \A k \in I : bs[k].ns = ns
    OBVIOUS
  <2> HIDE DEF bs, I
  <2>4. \A k \in DOMAIN Kept(bs, I) : \E j \in I : Kept(bs, I)[k] = bs[j]
    BY <2>2, <2>3, KeptIsSelection
  <2>5. b \in Range(bs) /\ b.ns = ns
    BY <2>1, <2>3, <2>4 DEF Range
  <2> QED BY <1>2, <1>5, <2>5
<1> QED BY <1>6, <1>7

\* The invariants imply EgressCovers.
LEMMA QuietEgressCovers ==
  ASSUME VerdictInv, TableInv, EgressOK
  PROVE  EgressCovers
<1> SUFFICES ASSUME GatewayQuiet, RouterQuiet, ~overlap
             PROVE  /\ egress \subseteq AskedRules
                    /\ \A r \in Visible : r \in misled \/ \A b \in Served(r) :
                         Resolves(b) => \E c \in egress : SameService(b, c)
  BY DEF EgressCovers
<1>0. seen = routes /\ ~due /\ ~unnoticed /\ gateway = "ours"
  BY DEF GatewayQuiet
<1>1. egress \subseteq AskedRules
  <2> SUFFICES ASSUME NEW c \in egress PROVE c \in AskedRules
    OBVIOUS
  <2>1. PICK r \in RouteNames : /\ Targets(seen[r].spec, r)
                                /\ \E b \in Range(Resolvable[r][seen[r].spec]) : c = RuleFor(b)
    BY <1>0 DEF EgressOK
  <2> QED BY <2>1 DEF AskedRules
<1>2. ASSUME NEW r \in Visible, r \notin misled, NEW b \in Served(r), Resolves(b)
      PROVE  \E c \in egress : SameService(b, c)
  <2> DEFINE s == routes[r].spec
             all == RefsResolvedFor(routes[r].status, r)
  <2>1. r \in RouteNames /\ s \in SpecNames /\ all \in BOOLEAN
    BY DEF Visible, VerdictInv, TypeInv, Objects, RefsResolvedFor
  <2>2. table[r] = CompileRoute(routes[r], r)
    BY DEF TableInv, RouterQuiet, Compiled
  <2>3. Routed(s, r)
    <3> SUFFICES ASSUME ~Routed(s, r) PROVE FALSE
      OBVIOUS
    <3>1. table[r].spec = "none"
      BY <2>2 DEF CompileRoute, Nothing
    <3>2. DOMAIN RulesFromHTTPRoute(SpecOf(table[r].spec), RouteNS[r]) = {}
      BY <3>1 DEF RulesFromHTTPRoute, SpecOf, NoSpec
    <3>3. DOMAIN RulesOf(table[r], r) = {}
      BY <3>2 DEF RulesOf, DropCrossNSBackends
    <3> QED BY <1>2, <3>3 DEF Served
  <2>3a. Targets(s, r)
    BY <2>3 DEF Routed, Targets, ParentRefMatches
  <2>4. table[r] = [spec |-> s, all |-> all]
    BY <2>2, <2>3 DEF CompileRoute
  <2>5. PICK i \in DOMAIN RulesOf(table[r], r) : b \in Range(RulesOf(table[r], r)[i].backends)
    BY <1>2 DEF Served
  <2> HIDE DEF s, all
  <2>6. /\ i \in DOMAIN SpecOf(s).rules
        /\ \E k \in DOMAIN SpecOf(s).rules[i].backends :
             b = Converted(SpecOf(s).rules[i].backends[k], RouteNS[r])
        /\ ~all => b.ns = RouteNS[r]
    BY <2>1, <2>4, <2>5, ServedRefs
  <2>7. b \in Range(Resolvable[r][s])
    BY <1>2, <2>1, <2>6, ResolvableRefs
  <2>8. Owed(r, b)
    BY <1>0, <1>2, <2>6 DEF Owed, all
  <2> QED BY <1>0, <2>1, <2>3a, <2>7, <2>8 DEF EgressOK, s
<1> QED BY <1>1, <1>2

\* Once Gateway reconciler and router have caught up, the NetworkPolicy lets the
\* pod reach every Service the router serves and opens nothing that no route
\* asks for: for any routes, specs, grants and Services, and any sequence of
\* edits, failures and restarts.
THEOREM EgressStaysCovering == Spec => []EgressCovers
<1>1. Init => VerdictInv /\ TableInv /\ EgressOK
  BY InitVerdicts DEF Init, TableInv, EgressOK
<1>2. VerdictInv /\ TableInv /\ EgressOK /\ [Next]_vars => (VerdictInv /\ TableInv /\ EgressOK)'
  BY NextVerdicts, NextTable, NextEgress
<1>3. VerdictInv /\ TableInv /\ EgressOK => EgressCovers
  BY QuietEgressCovers
<1> QED BY <1>1, <1>2, <1>3, PTL DEF Spec

\* The invariants imply EgressIsPermitted: a verdict of ours that admits says what the
\* grants say.
LEMMA QuietEgressPermitted ==
  ASSUME VerdictInv, EgressOK
  PROVE  EgressIsPermitted
<1> SUFFICES ASSUME ControllerQuiet, GatewayQuiet, NEW c \in egress
             PROVE  \E r \in RouteNames :
                      /\ Targets(routes[r].spec, r)
                      /\ \E b \in Range(Resolvable[r][routes[r].spec]) :
                           /\ c = RuleFor(b)
                           /\ Permitted(b, RouteNS[r]) \/ r \in misled \/ ForeignVerdict(r)
  BY DEF EgressIsPermitted
<1>1. seen = routes /\ ~due /\ ~unnoticed /\ gateway = "ours"
  BY DEF GatewayQuiet
<1>2. PICK r \in RouteNames :
        /\ Targets(routes[r].spec, r)
        /\ \E b \in Range(Resolvable[r][routes[r].spec]) : c = RuleFor(b) /\ Open(r, b)
  BY <1>1 DEF EgressOK
<1>3. PICK b \in Range(Resolvable[r][routes[r].spec]) : c = RuleFor(b) /\ Open(r, b)
  BY <1>2
<1> DEFINE s  == routes[r].spec
           st == routes[r].status
           ns == RouteNS[r]
<1>4. s \in SpecNames
  BY DEF VerdictInv, TypeInv, Objects
<1>5. ASSUME RefsResolvedFor(st, r), ~ForeignVerdict(r) PROVE Permitted(b, ns)
  <2>1. PICK i \in DOMAIN st : Judges(st[i], r) /\ st[i].resolved
    BY <1>5 DEF RefsResolvedFor
  <2>2. st[i].ctrl = "us"
    BY <1>5, <2>1 DEF ForeignVerdict
  <2>3. TrueVerdicts(st, s, r)
    <3>1. ~Overwritten(r) /\ seen[r] = routes[r]
      BY <1>1 DEF Overwritten, VerdictInv, TypeInv, Objects
    <3> QED BY <3>1, NoJobIsIdle DEF VerdictInv, VerdictsOK, ControllerQuiet
  <2>4. BackendRefsPermitted(s, r)
    BY <2>1, <2>2, <2>3 DEF TrueVerdicts, Cleared
  <2>5. PICK ref \in BackendRefs(s) : b = Converted(ref, ns)
    BY <1>3, <1>4, ResolvableRefs
  <2> QED BY <1>4, <2>4, <2>5, ConvertedPermitted DEF BackendRefsPermitted
<1>6. b.ns = ns => Permitted(b, ns)
  BY DEF Permitted, NamespaceOf
<1>7. Permitted(b, ns) \/ r \in misled \/ ForeignVerdict(r)
  BY <1>1, <1>3, <1>5, <1>6 DEF Open
<1> QED BY <1>2, <1>3, <1>7

\* Once both controllers have caught up, the NetworkPolicy opens only what routes ask
\* for and grants permit: for any routes, specs, grants and Services, and any
\* sequence of edits, withdrawn grants, failures and restarts.
THEOREM EgressStaysPermitted == Spec => []EgressIsPermitted
<1>1. Init => VerdictInv /\ EgressOK
  BY InitVerdicts DEF Init, EgressOK
<1>2. VerdictInv /\ EgressOK /\ [Next]_vars => (VerdictInv /\ EgressOK)'
  BY NextVerdicts, NextEgress
<1>3. VerdictInv /\ EgressOK => EgressIsPermitted
  BY QuietEgressPermitted
<1> QED BY <1>1, <1>2, <1>3, PTL DEF Spec
----------------------------------------------------------------------------
(***************************************************************************)
(* The table, and the requests it serves.                                  *)
(***************************************************************************)
Compilations == [spec : SpecNames, all : BOOLEAN]

\* A table is compiled from specs, or empty.
TablesOK == table \in [Visible -> Compilations] /\ first \in [Visible -> Compilations]

\* Every step keeps TablesOK.
LEMMA NextTables ==
  ASSUME StoreProper, TablesOK, [Next]_vars
  PROVE  TablesOK'
<1>1. NoRules \in [Visible -> Compilations]
  BY DEF NoRules, Nothing, Compilations, SpecNames
<1>2. Compiled \in [Visible -> Compilations]
  <2> SUFFICES ASSUME NEW r \in Visible PROVE CompileRoute(store[r], r) \in Compilations
    BY DEF Compiled
  <2>1. store[r].spec \in SpecNames
    BY DEF StoreProper, Objects
  <2>2. RefsResolvedFor(store[r].status, r) \in BOOLEAN
    BY DEF RefsResolvedFor
  <2>3. Nothing \in Compilations
    BY DEF Nothing, Compilations, SpecNames
  <2>4. [spec |-> store[r].spec, all |-> RefsResolvedFor(store[r].status, r)] \in Compilations
    BY <2>1, <2>2 DEF Compilations
  <2> QED BY <2>3, <2>4 DEF CompileRoute
<1>3. CASE table' \in {table, first, NoRules, Compiled} /\ first' \in {first, NoRules, Compiled}
  BY <1>1, <1>2, <1>3 DEF TablesOK, Visible
<1>4. CASE Router
  BY <1>3, <1>4 DEF Router, Sync, Watch, Rebuild, NewLists, NewSets
<1>5. CASE RestartRouter
  BY <1>3, <1>5 DEF RestartRouter, NewPod
<1>6. CASE \E to \in {"absent", "foreign", "ours"} : ChangeGateway(to)
  BY <1>3, <1>6 DEF ChangeGateway, NewPod, routerVars
<1>7. CASE UNCHANGED <<table, first>>
  BY <1>3, <1>7
<1>8. CASE UNCHANGED vars \/ RouteWorker \/ Informer \/ ReconcileGateway \/ CallFails
           \/ RestartOperator \/ GatewayEvent
  BY <1>7, <1>8 DEF vars, routerVars, RouteWorker, Take, WriteStatus, CountAttached, Informer,
                    DeliverRoute, ReconcileGateway, CallFails, RestartOperator, GatewayEvent
<1>9. CASE \/ \E r \in RouteNames, s \in SpecNames : EditRoute(r, s)
           \/ \E g \in Grants : ChangeGrant(g)
           \/ \E r \in RouteNames : ForeignStatus(r)
  BY <1>7, <1>9 DEF routerVars, EditRoute, ChangeGrant, ForeignStatus
<1> QED BY <1>4, <1>5, <1>6, <1>8, <1>9 DEF Next

\* All rules that can be compiled.
CompiledRules == UNION {Range(RulesOf(c, r)) : c \in Compilations, r \in RouteNames}

\* What is compiled of a spec is a sequence.
LEMMA CompiledIsSequence ==
  ASSUME NEW c \in Compilations, NEW r \in RouteNames
  PROVE  /\ RulesOf(c, r) \in Seq(CompiledRules)
         /\ DOMAIN RulesOf(c, r) = DOMAIN SpecOf(c.spec).rules
         /\ \A i \in DOMAIN RulesOf(c, r) :
              RulesOf(c, r)[i].matches = ConvertMatches(SpecOf(c.spec).rules[i].matches)
<1> DEFINE spec == SpecOf(c.spec)
           ns == RouteNS[r]
           rules == RulesFromHTTPRoute(spec, ns)
           n == Len(spec.rules)
<1>1. c.spec \in SpecNames
  BY DEF Compilations
<1>2. DOMAIN spec.rules = 1 .. n /\ n \in Nat
  BY <1>1, RulesOfSpec
<1>3. /\ DOMAIN rules = DOMAIN spec.rules
      /\ \A i \in DOMAIN rules : /\ rules[i].matches = ConvertMatches(spec.rules[i].matches)
                                 /\ DOMAIN rules[i] = {"matches", "backends"}
      /\ rules = [i \in DOMAIN spec.rules |-> rules[i]]
  BY DEF RulesFromHTTPRoute
<1> HIDE DEF rules
<1>4. LET dropped == DropCrossNSBackends(rules, ns) IN
      /\ DOMAIN dropped = DOMAIN rules
      /\ \A i \in DOMAIN dropped : dropped[i].matches = rules[i].matches
      /\ dropped = [i \in DOMAIN rules |-> dropped[i]]
  BY <1>3 DEF DropCrossNSBackends
<1>5. RulesOf(c, r) = rules \/ RulesOf(c, r) = DropCrossNSBackends(rules, ns)
  BY DEF RulesOf, rules
<1>6. /\ DOMAIN RulesOf(c, r) = DOMAIN spec.rules
      /\ \A i \in DOMAIN RulesOf(c, r) :
           RulesOf(c, r)[i].matches = ConvertMatches(spec.rules[i].matches)
      /\ RulesOf(c, r) = [i \in DOMAIN spec.rules |-> RulesOf(c, r)[i]]
  BY <1>3, <1>4, <1>5
<1>7. \A i \in 1 .. n : RulesOf(c, r)[i] \in CompiledRules
  <2>1. Range(RulesOf(c, r)) \subseteq CompiledRules
    BY DEF CompiledRules
  <2>2. \A i \in DOMAIN RulesOf(c, r) : RulesOf(c, r)[i] \in Range(RulesOf(c, r))
    BY DEF Range
  <2>3. DOMAIN RulesOf(c, r) = 1 .. n
    BY <1>2, <1>6
  <2> QED BY <2>1, <2>2, <2>3, Zenon
<1>8. RulesOf(c, r) \in Seq(CompiledRules)
  <2> DEFINE q == RulesOf(c, r)
  <2>1. q = [i \in 1 .. n |-> q[i]] /\ \A i \in 1 .. n : q[i] \in CompiledRules
    BY <1>2, <1>6, <1>7
  <2> HIDE DEF q, n
  <2>2. q \in Seq(CompiledRules)
    BY <1>2, <2>1
  <2> QED BY <2>2 DEF q
<1> QED BY <1>6, <1>8

\* The matches of a compiled rule are sound.
LEMMA CompiledMatches ==
  ASSUME NEW rule \in CompiledRules
  PROVE  /\ Len(rule.matches) \in Nat /\ DOMAIN rule.matches = 1 .. Len(rule.matches)
         /\ \A k \in DOMAIN rule.matches : Sound(rule.matches[k])
<1>1. PICK c \in Compilations, r \in RouteNames : rule \in Range(RulesOf(c, r))
  BY DEF CompiledRules
<1>2. PICK i \in DOMAIN RulesOf(c, r) : rule = RulesOf(c, r)[i]
  BY <1>1 DEF Range
<1> DEFINE s == c.spec
           ms == SpecOf(s).rules[i].matches
<1>3. i \in DOMAIN SpecOf(s).rules /\ rule.matches = ConvertMatches(ms) /\ s \in SpecNames
  BY <1>2, CompiledIsSequence DEF Compilations
<1>4. s # "none"
  BY <1>3 DEF SpecOf, NoSpec
<1>5. /\ ms \in Seq(Range(ms))
      /\ \A k \in DOMAIN ms : ms[k].value # NoValue => ms[k].value \in Paths
  BY <1>3, <1>4, PathsAssumption DEF SpecOf, SpecNames
<1>6. Root \in Paths
  <2>1. \A S : \A x \in S : <<x>> \in Seq(S)
    OBVIOUS
  <2>2. Root \in Seq(DOMAIN Length)
    BY <2>1, LengthAssumption, Zenon DEF Root
  <2>3. Root # <<>>
    BY DEF Root
  <2> QED BY <2>2, <2>3 DEF Paths
<1> HIDE DEF ms, s
<1>7. CASE ms = <<>>
  <2> DEFINE m == [type |-> "PathPrefix", value |-> Root]
  <2>1. rule.matches = <<m>>
    BY <1>3, <1>7 DEF ConvertMatches
  <2>2. Sound(m)
    BY <1>6 DEF Sound
  <2> HIDE DEF m
  <2>3. Len(<<m>>) = 1 /\ DOMAIN <<m>> = 1 .. 1 /\ \A k \in 1 .. 1 : <<m>>[k] = m
    OBVIOUS
  <2> QED BY <2>1, <2>2, <2>3
<1>8. CASE ms # <<>>
  <2>1. rule.matches = [k \in DOMAIN ms |-> ConvertPath(ms[k])]
    BY <1>3, <1>8 DEF ConvertMatches
  <2>2. DOMAIN ms = 1 .. Len(ms) /\ Len(ms) \in Nat
    <3>1. ms \in Seq(Range(ms))
      BY <1>5
    <3>2. \A S : \A q \in Seq(S) : DOMAIN q = 1 .. Len(q) /\ Len(q) \in Nat
      OBVIOUS
    <3> QED BY <3>1, <3>2, Zenon
  <2>3. Len(rule.matches) = Len(ms) /\ DOMAIN rule.matches = 1 .. Len(ms)
    BY <2>1, <2>2
  <2>4. ASSUME NEW k \in DOMAIN ms PROVE Sound(ConvertPath(ms[k]))
    <3> DEFINE m == ConvertPath(ms[k])
    <3>1. /\ m.type = IF ms[k].type = "Exact" THEN "Exact" ELSE "PathPrefix"
          /\ m.value = IF ms[k].value = NoValue THEN Root ELSE ms[k].value
      BY DEF ConvertPath
    <3> HIDE DEF m
    <3>2. m.value \in Paths
      BY <1>5, <1>6, <3>1
    <3>3. m.type \in {"Exact", "PathPrefix"}
      BY <3>1
    <3>4. Sound(m)
      BY <3>2, <3>3 DEF Sound
    <3> QED BY <3>4 DEF m
  <2> QED BY <2>1, <2>2, <2>3, <2>4
<1> QED BY <1>7, <1>8

\* The table, with the routes in any order, consists of sound rules.
LEMMA TableIsSound ==
  ASSUME TablesOK, NEW order \in SetToSeqs(Visible)
  PROVE  SoundRules(InOrder(table, order))
<1> DEFINE n == Cardinality(Visible)
           lists == [i \in DOMAIN order |-> RulesOf(table[order[i]], order[i])]
           rules == FlattenSeq(lists)
<1>1. n \in Nat
  <2>1. IsFiniteSet(Visible)
    BY RoutesAssumption, FS_Subset DEF Visible
  <2> QED BY <2>1, FS_CardinalityType
<1>2. order \in [1 .. n -> Visible]
  BY DEF SetToSeqs
<1>3. lists \in Seq(Seq(CompiledRules))
  <2>1. \A i \in 1 .. n : RulesOf(table[order[i]], order[i]) \in Seq(CompiledRules)
    <3> SUFFICES ASSUME NEW i \in 1 .. n
                 PROVE  RulesOf(table[order[i]], order[i]) \in Seq(CompiledRules)
      OBVIOUS
    <3>1. order[i] \in Visible /\ order[i] \in RouteNames
      BY <1>2 DEF Visible
    <3>2. table[order[i]] \in Compilations
      BY <3>1 DEF TablesOK
    <3> QED BY <3>1, <3>2, CompiledIsSequence
  <2>2. DOMAIN order = 1 .. n
    BY <1>2
  <2> HIDE DEF n
  <2> QED BY <1>1, <2>1, <2>2
<1>4. InOrder(table, order) = rules
  BY DEF InOrder
<1> HIDE DEF lists
<1>5. rules \in Seq(CompiledRules)
  BY <1>3, FlattenedElements
<1> HIDE DEF rules
<1>6. Len(rules) \in Nat /\ DOMAIN rules = 1 .. Len(rules)
      /\ \A i \in DOMAIN rules : rules[i] \in CompiledRules
  BY <1>5
<1>7. SoundRules(rules)
  BY <1>6, CompiledMatches DEF SoundRules
<1> QED BY <1>4, <1>7

\* While the router serves, every request gets the backend of the first rule, in the
\* order the cache lists them, among those with backends that no other goes
\* before: for any routes and specs, whatever their prefixes end in, paths of
\* any length, and any order of the cache.
THEOREM MatchStaysMostSpecific == Spec => []MatchIsMostSpecific
<1>1. Init => VerdictInv /\ TypesInv /\ TablesOK
  <2>1. Init => TablesOK
    BY DEF Init, TablesOK, NoRules, Nothing, Compilations, SpecNames
  <2> QED BY <2>1, InitVerdicts, InitTypes
<1>2. VerdictInv /\ TypesInv /\ TablesOK /\ [Next]_vars => (VerdictInv /\ TypesInv /\ TablesOK)'
  BY NextVerdicts, NextTypes, NextTables DEF TypesInv, CopiesOK
<1>3. TablesOK => MatchIsMostSpecific
  <2> SUFFICES ASSUME TablesOK, NEW order \in SetToSeqs(Visible), NEW path \in Requests
               PROVE  LET rules == InOrder(table, order) IN
                      Match(rules, path) = Selected(rules, path)
    BY DEF MatchIsMostSpecific
  <2>1. SoundRules(InOrder(table, order)) /\ path \in Paths
    BY TableIsSound, PathsAssumption
  <2> QED BY <2>1, MatchSelects
<1> QED BY <1>1, <1>2, <1>3, PTL DEF Spec
============================================================================
