------------------------------- MODULE Routes -------------------------------
(***************************************************************************)
(* HTTPRoutes from the API to the data plane of one Gateway: the HTTPRoute *)
(* controller writes parent statuses and attachedRoutes                    *)
(* (httproute_controller.go), the Gateway reconciler the NetworkPolicy's   *)
(* egress rules (network_policy_resolve.go), and the router sidecar        *)
(* compiles its table from specs and statuses (internal/router).  They     *)
(* meet only through the HTTPRoute object.                                 *)
(*                                                                         *)
(* Route informers lag.  Gateway, ReferenceGrants and Services are read as *)
(* they are: a late event is a later change.  A write conflicts when the   *)
(* route is no longer the copy that was read.                              *)
(***************************************************************************)
EXTENDS Integers, FiniteSets, Sequences, SequencesExt, RouteTable

CONSTANTS
  RouteNames,   \* the HTTPRoutes
  RouteNS,      \* the namespace of each
  Manifest,     \* the specs users give them, by a name
  Gateway,      \* namespace and name of the Gateway under observation
  Others,       \* other Gateways of ours that a route may name
  Listeners,    \* section names of a Gateway
  Grants,       \* ReferenceGrants users may create
  Services,     \* the Services: selector or not, ports
  Requests,     \* request paths
  MaxEvents     \* bound on changes by others, failed calls and restarts

ASSUME RoutesAssumption ==
  /\ IsFiniteSet(RouteNames) /\ IsFiniteSet(Grants)
  /\ Gateway \notin Others
  /\ MaxEvents \in Nat

\* The lists of a spec are sequences, those of backends of references.
ASSUME ManifestAssumption ==
  \A s \in DOMAIN Manifest :
    /\ Manifest[s].parents \in Seq(Range(Manifest[s].parents))
    /\ Manifest[s].rules \in Seq(Range(Manifest[s].rules))
    /\ \A i \in DOMAIN Manifest[s].rules :
         LET backends == Manifest[s].rules[i].backends IN
         /\ backends \in Seq(Range(backends))
         /\ \A k \in DOMAIN backends : {"ns", "name"} \subseteq DOMAIN backends[k]

\* The values of path matches are paths.
ASSUME PathsAssumption ==
  /\ \A path \in Requests : path \in Paths
  /\ \A s \in DOMAIN Manifest : \A i \in DOMAIN Manifest[s].rules :
       LET ms == Manifest[s].rules[i].matches IN
       /\ ms \in Seq(Range(ms))
       /\ \A k \in DOMAIN ms : ms[k].value # NoValue => ms[k].value \in Paths

VARIABLES
  gateway,           \* "absent", "foreign" (another class) or "ours"
  routes, seen,      \* the HTTPRoutes; as the operator's informer has them
  grants,            \* the ReferenceGrants
  queue,             \* of the HTTPRoute controller
  job,               \* its reconcile under way
  attached,          \* attachedRoutes of each listener, -1 without its entry
  due,               \* a reconcile of the Gateway is due
  egress,            \* the backend rules of the NetworkPolicy
  phase,             \* how far the router's New is
  store,             \* the router's informer
  owed,              \* a rebuild by an event handler is owed
  first,             \* what New has compiled and not set yet
  table,             \* the RouteTable behind the atomic pointer
  missed,            \* history: routes whose Gateway changed since their reconcile
  misled,            \* history: Misled when the Gateway was last reconciled
  unnoticed,         \* history: the class has changed since, and nothing queued that
  overlap,           \* history: New has, or had, another table than the latest rebuild
  events             \* how many of MaxEvents there were

ctlVars    == <<queue, job>>
gwVars     == <<attached, due, egress>>
routerVars == <<phase, store, owed, first, table, overlap>>
history    == <<missed, misled, unnoticed>>
vars == <<gateway, routes, seen, grants, ctlVars, gwVars, routerVars, history, events>>

\* A route is the name of its spec, "none" when it does not exist, its status,
\* and the number of times it was created, which tells a new object from the old.
NoRoute == [spec |-> "none", status |-> <<>>, uid |-> 0]
NoSpec  == [parents |-> <<>>, rules |-> <<>>]
SpecNames == DOMAIN Manifest \cup {"none"}
SpecOf(s) == IF s = "none" THEN NoSpec ELSE Manifest[s]

NoJob == [at |-> "idle", route |-> "", copy |-> NoRoute, parents |-> <<>>]

Unlisted == [l \in Listeners |-> -1]

\* The routes the router's informer, scoped to the Gateway's namespace, sees.
Visible == {r \in RouteNames : RouteNS[r] = Gateway.ns}

\* The compiled rules of a route are those of a spec, with or without the
\* backends of other namespaces.
Nothing == [spec |-> "none", all |-> FALSE]
NoRules == [r \in Visible |-> Nothing]
NoStore == [r \in Visible |-> NoRoute]

\* The operator has just started: its caches are filled.
Init ==
  /\ gateway \in {"foreign", "ours"}
  /\ routes \in [RouteNames -> {[NoRoute EXCEPT !.spec = s] : s \in DOMAIN Manifest}]
  /\ seen = routes
  /\ grants = {}
  /\ queue = RouteNames /\ job = NoJob
  /\ attached = Unlisted /\ due = TRUE /\ egress = {}
  /\ phase = "down" /\ store = NoStore /\ owed = FALSE
  /\ first = NoRules /\ table = NoRules
  /\ missed = {} /\ misled = {} /\ unnoticed = FALSE
  /\ overlap = FALSE
  /\ events = 0

Event ==
  /\ events < MaxEvents
  /\ events' = events + 1

----------------------------------------------------------------------------
(***************************************************************************)
(* References.                                                             *)
(***************************************************************************)

\* The Gateway a parentRef in a route of namespace ns names.
ParentOf(ref, ns) == [ns |-> NamespaceOf(ref, ns), name |-> ref.name]

\* parentRefMatches of the controller; a kind "CoreGateway" stands for a Gateway
\* whose group is set and empty, which passes here.
ParentRefMatches(ref, g, ns) ==
  ref.kind \in {"Gateway", "CoreGateway"} /\ ParentOf(ref, ns) = g

\* routeTargetsGateway of the Gateway reconciler,
Targets(s, r) ==
  LET parents == SpecOf(s).parents IN
  \E i \in DOMAIN parents : ParentRefMatches(parents[i], Gateway, RouteNS[r])

\* and of the router, which asks for the Gateway API's group.
Routed(s, r) ==
  LET parents == SpecOf(s).parents IN
  \E i \in DOMAIN parents :
    parents[i].kind = "Gateway" /\ ParentOf(parents[i], RouteNS[r]) = Gateway

BackendRefs(s) ==
  LET rules == SpecOf(s).rules IN UNION {Range(rules[i].backends) : i \in DOMAIN rules}

\* Allows, for an HTTPRoute of namespace ns and a Service.
Allows(ns, to) ==
  \E g \in grants :
    /\ g.ns = to.ns
    /\ [kind |-> "HTTPRoute", ns |-> ns] \in g.from
    /\ \E t \in g.to : t.kind = "Service" /\ t.name \in {"", to.name}

Permitted(ref, ns) ==
  NamespaceOf(ref, ns) = ns \/ Allows(ns, [ref EXCEPT !.ns = NamespaceOf(ref, ns)])

\* All references of the route or none.
BackendRefsPermitted(s, r) == \A ref \in BackendRefs(s) : Permitted(ref, RouteNS[r])

\* A verdict about the Gateway: an entry with a ResolvedRefs condition.
Judges(entry, r) == entry.judged /\ ParentOf(entry.ref, RouteNS[r]) = Gateway

\* Mutant: a route without a verdict is admitted.
RefsResolvedUnlessDenied(status, r) ==
  ~\E i \in DOMAIN status :
     Judges(status[i], r) /\ ~status[i].resolved

\* refsResolvedFor: the first verdict for the Gateway decides, whoever wrote it.
RefsResolvedFor(status, r) ==
  \E i \in DOMAIN status :
    /\ Judges(status[i], r) /\ status[i].resolved
    /\ \A j \in 1 .. i - 1 : ~Judges(status[j], r)

----------------------------------------------------------------------------
(***************************************************************************)
(* The HTTPRoute controller.                                               *)
(***************************************************************************)
ParentManagedByUs(ref, ns) ==
  /\ ref.kind = "Gateway"
  /\ \/ ParentOf(ref, ns) \in Others
     \/ ParentOf(ref, ns) = Gateway /\ gateway = "ours"

ListenerExists(ref) == ref.section = Own \/ ref.section \in Listeners

\* buildRouteParentStatuses; the conditions are Accepted and ResolvedRefs.
BuildRouteParentStatuses(s, r) ==
  LET parents == SpecOf(s).parents
      managed == Kept(parents, {i \in DOMAIN parents :
                                  ParentManagedByUs(parents[i], RouteNS[r])}) IN
  [i \in DOMAIN managed |->
     [ctrl |-> "us", ref |-> managed[i], accepted |-> ListenerExists(managed[i]),
      judged |-> TRUE, resolved |-> BackendRefsPermitted(s, r)]]

\* The entries of other controllers.
Foreign(status) == Kept(status, {i \in DOMAIN status : status[i].ctrl # "us"})

\* Mutant: every entry is replaced.
MergeReplacingAll(status, desired) == desired

\* mergeRouteParentStatuses: the entries of other controllers come first.
MergeRouteParentStatuses(status, desired) == Foreign(status) \o desired

\* Of a parentRef only the name is compared, and no generation.
RouteParentsEqual(a, b) ==
  /\ Len(a) = Len(b)
  /\ \A i \in DOMAIN a :
       /\ a[i].ctrl = b[i].ctrl /\ a[i].ref.name = b[i].ref.name
       /\ a[i].accepted = b[i].accepted
       /\ a[i].judged = b[i].judged /\ a[i].resolved = b[i].resolved

\* Reconcile up to the statuses it wants.
Take(r) ==
  /\ r \in queue /\ job = NoJob
  /\ queue' = queue \ {r}
  /\ job' = IF seen[r].spec = "none" THEN NoJob
            ELSE [at |-> "write", route |-> r, copy |-> seen[r],
                  parents |-> BuildRouteParentStatuses(seen[r].spec, r)]
  /\ missed' = missed \ {r}
  /\ UNCHANGED <<gateway, routes, seen, grants, gwVars, routerVars, misled, unnoticed, events>>

\* An error: the route goes back to the queue.
GiveUp ==
  /\ queue' = queue \cup {job.route}
  /\ job' = NoJob

\* The status write, if there is something to write.
WriteStatus ==
  LET merged == MergeRouteParentStatuses(job.copy.status, job.parents)
      same   == RouteParentsEqual(job.copy.status, merged)
      fresh  == routes[job.route] = job.copy IN
  /\ job.at = "write"
  /\ \/ /\ same
        /\ job' = [job EXCEPT !.at = "count"]
        /\ UNCHANGED <<routes, queue>>
     \/ /\ ~same /\ fresh
        /\ routes' = [routes EXCEPT ![job.route].status = merged]
        /\ job' = [job EXCEPT !.at = "count"]
        /\ UNCHANGED queue
     \/ /\ ~same /\ ~fresh
        /\ GiveUp
        /\ UNCHANGED routes
  /\ UNCHANGED <<gateway, seen, grants, gwVars, routerVars, history, events>>

\* The references of a route that name the Gateway and, if any, a given section.
RefsTo(s, r, sections) ==
  LET parents == SpecOf(s).parents IN
  {i \in DOMAIN parents : /\ ParentRefMatches(parents[i], Gateway, RouteNS[r])
                          /\ parents[i].section \in sections}

\* Of several references to one parent, the API server admits only those that name
\* sections, each another one (validation of the Gateway API's CRD).
ASSUME SectionsAssumption ==
  \A s \in DOMAIN Manifest, r \in RouteNames, l \in Listeners :
    \A i, j \in RefsTo(s, r, {Own, l}) : i = j

\* Mutant: section names are ignored.
CountAllRefs(objs, sections) ==
  LET refs(r) == {i \in DOMAIN SpecOf(objs[r].spec).parents :
                    ParentRefMatches(SpecOf(objs[r].spec).parents[i], Gateway, RouteNS[r])} IN
  Cardinality(UNION {{r} \X refs(r) : r \in RouteNames})

CountRefs(objs, sections) ==
  Cardinality(UNION {{r} \X RefsTo(objs[r].spec, r, sections) : r \in RouteNames})

\* updateGatewayAttachedRoutes: parentRefs are counted, one without a section
\* for every listener.
AttachedRoutes(objs, l) == CountRefs(objs, {Own, l})

\* The rest of Reconcile: the Gateways of the entries just built are recounted,
\* where they have an entry for the listener.
CountAttached ==
  LET ours == \E i \in DOMAIN job.parents :
                ParentRefMatches(job.parents[i].ref, Gateway, RouteNS[job.route]) IN
  /\ job.at = "count"
  /\ job' = NoJob
  /\ \/ /\ ours /\ gateway # "absent"
        /\ attached' = [l \in Listeners |->
             IF attached[l] = -1 THEN -1 ELSE AttachedRoutes(seen, l)]
     \/ /\ ~ours \/ gateway = "absent"
        /\ UNCHANGED attached
  /\ UNCHANGED <<gateway, routes, seen, grants, queue, due, egress, routerVars,
                 history, events>>

CallFails ==
  /\ job # NoJob
  /\ Event
  /\ GiveUp
  /\ UNCHANGED <<gateway, routes, seen, grants, gwVars, routerVars, history>>

----------------------------------------------------------------------------
(***************************************************************************)
(* The Gateway reconciler, as far as routes concern it.                    *)
(***************************************************************************)

\* resolveTargetPort; a port without a target is its own.
ResolveTargetPort(svc, port) ==
  LET p == CHOOSE q \in svc.ports : q.port = port IN
  IF p.target = 0 THEN p.port ELSE p.target

\* A reference that resolves to pods.
Resolves(b) ==
  LET id == [ns |-> b.ns, name |-> b.name] IN
  /\ id \in DOMAIN Services
  /\ Services[id].selector
  /\ \E p \in Services[id].ports : p.port = b.port

RuleFor(b) ==
  [ns |-> b.ns, name |-> b.name,
   target |-> ResolveTargetPort(Services[[ns |-> b.ns, name |-> b.name]], b.port)]

SameService(a, b) == a.ns = b.ns /\ a.name = b.name

\* The backendRefs of every route and spec that resolve, in their order.
Resolvable ==
  [r \in RouteNames |-> [s \in SpecNames |->
     LET rules == SpecOf(s).rules
         refs  == FlattenSeq([i \in DOMAIN rules |-> rules[i].backends])
         all   == ConvertBackends(refs, RouteNS[r]) IN
     Kept(all, {i \in DOMAIN all : Resolves(all[i])})]]

\* Mutant: the grants are left to the HTTPRoute controller.
EgressUngranted(s, r) ==
  LET refs == Resolvable[r][s] IN
  {RuleFor(refs[i]) : i \in
     {k \in DOMAIN refs : \A l \in DOMAIN refs : l > k => ~SameService(refs[k], refs[l])}}

\* One rule for every Service of a route, of the permitted reference that comes last.
EgressOf(s, r) ==
  LET refs == Resolvable[r][s]
      kept == {i \in DOMAIN refs : Permitted(refs[i], RouteNS[r])} IN
  {RuleFor(refs[i]) : i \in
     {k \in kept : \A l \in kept : l > k => ~SameService(refs[k], refs[l])}}

\* The rules of all routes of the Gateway.
EgressCandidates ==
  UNION {EgressOf(seen[r].spec, r) : r \in {q \in RouteNames : Targets(seen[q].spec, q)}}

\* resolveBackends keeps one rule for every Service; the routes come in any
\* order, so any of those the routes want may stay.
Resolutions(wanted) ==
  {rules \in SUBSET wanted :
     /\ \A a \in wanted : \E b \in rules : SameService(a, b)
     /\ \A a, b \in rules : SameService(a, b) => a = b}

\* The routes whose verdict is not what the grants say of each of their backends
\* in other namespaces: the grants changed before it, or permit some and not all.
Misled ==
  {r \in RouteNames :
     /\ Targets(seen[r].spec, r)
     /\ \E ref \in BackendRefs(seen[r].spec) :
          /\ NamespaceOf(ref, RouteNS[r]) # RouteNS[r]
          /\ Permitted(ref, RouteNS[r]) # RefsResolvedFor(seen[r].status, r)}

\* updateStatus gives a listener its entry and keeps a count that is there.
ListenerStatuses == [l \in Listeners |-> IF attached[l] = -1 THEN 0 ELSE attached[l]]

\* ensureNetworkPolicy, the Deployment, and updateStatus.
ReconcileGateway ==
  /\ due
  /\ due' = FALSE /\ unnoticed' = FALSE
  /\ \/ /\ gateway = "ours"
        /\ \E wanted \in {EgressCandidates} : egress' \in Resolutions(wanted)
        /\ phase' = IF phase = "down" THEN "start" ELSE phase
        /\ attached' = ListenerStatuses
        /\ misled' = Misled
     \/ /\ gateway # "ours"
        /\ UNCHANGED <<egress, phase, attached, misled>>
  /\ UNCHANGED <<gateway, routes, seen, grants, ctlVars, store, owed, first, table,
                 overlap, missed, events>>

\* Another event of the Gateway or of something it owns.
GatewayEvent ==
  /\ ~due /\ gateway # "absent"
  /\ Event
  /\ due' = TRUE
  /\ UNCHANGED <<gateway, routes, seen, grants, ctlVars, attached, egress, routerVars, history>>

\* Mutant: only specs are looked at, not updates of the status.
DeliverSpecOnly(r) ==
  /\ seen[r] # routes[r]
  /\ seen' = [seen EXCEPT ![r] = routes[r]]
  /\ queue' = queue \cup {r}
  /\ due' = (due \/ (seen[r].spec # routes[r].spec
                     /\ (Targets(seen[r].spec, r) \/ Targets(routes[r].spec, r))))
  /\ UNCHANGED <<gateway, routes, grants, job, attached, egress, routerVars, history, events>>

\* The operator's informer delivers; gatewaysForHTTPRoute is asked about the old
\* and the new object.
DeliverRoute(r) ==
  /\ seen[r] # routes[r]
  /\ seen' = [seen EXCEPT ![r] = routes[r]]
  /\ queue' = queue \cup {r}
  /\ due' = (due \/ Targets(seen[r].spec, r) \/ Targets(routes[r].spec, r))
  /\ UNCHANGED <<gateway, routes, grants, job, attached, egress, routerVars, history, events>>

\* The operator restarts.
RestartOperator ==
  /\ Event
  /\ seen' = routes
  /\ queue' = {r \in RouteNames : routes[r].spec # "none"}
  /\ job' = NoJob
  /\ due' = TRUE
  /\ UNCHANGED <<gateway, routes, grants, attached, egress, routerVars, history>>

----------------------------------------------------------------------------
(***************************************************************************)
(* The router.                                                             *)
(***************************************************************************)

\* rulesForGateway, for one route.
CompileRoute(o, r) ==
  IF Routed(o.spec, r) THEN [spec |-> o.spec, all |-> RefsResolvedFor(o.status, r)]
                       ELSE Nothing

\* The rules that stands for.
RulesOf(c, r) ==
  LET rules == RulesFromHTTPRoute(SpecOf(c.spec), RouteNS[r]) IN
  IF c.all THEN rules ELSE DropCrossNSBackends(rules, RouteNS[r])

\* The informer's first list.
Sync ==
  /\ phase = "start"
  /\ phase' = "synced"
  /\ store' = [r \in Visible |-> routes[r]]
  /\ owed' = \E r \in Visible : routes[r].spec # "none"
  /\ UNCHANGED <<gateway, routes, seen, grants, ctlVars, gwVars, first, table, overlap, history, events>>

\* Mutant: only the first list is followed by a rebuild.
WatchSilently(r) ==
  /\ phase \notin {"down", "start"}
  /\ store[r] # routes[r]
  /\ store' = [store EXCEPT ![r] = routes[r]]
  /\ UNCHANGED <<gateway, routes, seen, grants, ctlVars, gwVars, phase, owed, first, table, overlap, history, events>>

\* A watch event; its handler runs later.
Watch(r) ==
  /\ phase \notin {"down", "start"}
  /\ store[r] # routes[r]
  /\ store' = [store EXCEPT ![r] = routes[r]]
  /\ owed' = TRUE
  /\ UNCHANGED <<gateway, routes, seen, grants, ctlVars, gwVars, phase, first, table, overlap, history, events>>

Compiled == [r \in Visible |-> CompileRoute(store[r], r)]

\* An event handler's sync.  The handlers run one after another, and a change
\* in the middle of one calls for the next: sync is one step here.
Rebuild ==
  /\ owed
  /\ owed' = FALSE
  /\ table' = Compiled
  /\ overlap' = (phase = "init" /\ first # Compiled)
  /\ UNCHANGED <<gateway, routes, seen, grants, ctlVars, gwVars, phase, store, first, history, events>>

\* New's own sync runs beside the handlers: it lists and compiles,
NewLists ==
  /\ phase = "synced"
  /\ phase' = "init"
  /\ first' = Compiled
  /\ UNCHANGED <<gateway, routes, seen, grants, ctlVars, gwVars, store, owed, table, overlap, history, events>>

\* and sets the table.  New returns and main listens.
NewSets ==
  /\ phase = "init"
  /\ phase' = "serving"
  /\ table' = first /\ first' = NoRules
  /\ UNCHANGED <<gateway, routes, seen, grants, ctlVars, gwVars, store, owed, overlap, history, events>>

NewPod(p) ==
  /\ phase' = p /\ store' = NoStore /\ owed' = FALSE
  /\ first' = NoRules /\ table' = NoRules /\ overlap' = FALSE

RestartRouter ==
  /\ phase # "down"
  /\ Event
  /\ NewPod("start")
  /\ UNCHANGED <<gateway, routes, seen, grants, ctlVars, gwVars, history>>

----------------------------------------------------------------------------
(***************************************************************************)
(* Users and other controllers.                                            *)
(***************************************************************************)
EditRoute(r, s) ==
  /\ s # routes[r].spec
  /\ Event
  /\ routes' = [routes EXCEPT ![r] =
       [spec |-> s, status |-> IF s = "none" THEN <<>> ELSE @.status,
        uid |-> IF @.spec = "none" THEN @.uid + 1 ELSE @.uid]]
  /\ UNCHANGED <<gateway, seen, grants, ctlVars, gwVars, routerVars, history>>

\* The Gateway is deleted, created or given another class.  Its children go with
\* it, and stay when its class changes.  A GatewayClass that comes, goes or is
\* replaced changes the class too, and no watch of the reconciler tells it.
ChangeGateway(to) ==
  /\ to # gateway
  /\ Event
  /\ gateway' = to
  /\ missed' = RouteNames
  /\ \/ /\ to = "absent"
        /\ due' = TRUE /\ unnoticed' = FALSE
        /\ egress' = {} /\ attached' = Unlisted
        /\ NewPod("down")
     \/ /\ to # "absent"
        /\ \/ due' = TRUE /\ UNCHANGED unnoticed
           \/ gateway # "absent" /\ unnoticed' = ~due /\ UNCHANGED due
        /\ UNCHANGED <<egress, attached, routerVars>>
  /\ UNCHANGED <<routes, seen, grants, ctlVars, misled>>

\* httproutesForReferenceGrant.
RoutesForGrant(g) ==
  {r \in RouteNames : /\ seen[r].spec # "none"
                      /\ [kind |-> "HTTPRoute", ns |-> RouteNS[r]] \in g.from}

\* Mutant: the deletion of a grant is not watched.
ChangeGrantUnseen(g) ==
  /\ Event
  /\ grants' = IF g \in grants THEN grants \ {g} ELSE grants \cup {g}
  /\ queue' = IF g \in grants THEN queue ELSE queue \cup RoutesForGrant(g)
  /\ UNCHANGED <<gateway, routes, seen, job, gwVars, routerVars, history>>

\* A ReferenceGrant is created or deleted.
ChangeGrant(g) ==
  /\ Event
  /\ grants' = IF g \in grants THEN grants \ {g} ELSE grants \cup {g}
  /\ queue' = queue \cup RoutesForGrant(g)
  /\ UNCHANGED <<gateway, routes, seen, job, gwVars, routerVars, history>>

\* The controller of a foreign Gateway writes its own entry, with a verdict or
\* without.
ForeignStatus(r) ==
  /\ gateway = "foreign"
  /\ Foreign(routes[r].status) = <<>>
  /\ Event
  /\ \E ref \in Range(SpecOf(routes[r].spec).parents), judged \in BOOLEAN :
       /\ ref.kind = "Gateway" /\ ParentOf(ref, RouteNS[r]) = Gateway
       /\ routes' = [routes EXCEPT ![r].status =
            Append(@, [ctrl |-> "other", ref |-> ref, accepted |-> TRUE, judged |-> judged,
                       resolved |-> judged /\ BackendRefsPermitted(routes[r].spec, r)])]
  /\ UNCHANGED <<gateway, seen, grants, ctlVars, gwVars, routerVars, history>>

----------------------------------------------------------------------------
RouteWorker == (\E r \in RouteNames : Take(r)) \/ WriteStatus \/ CountAttached

Informer == \E r \in RouteNames : DeliverRoute(r)

Router == Sync \/ (\E r \in Visible : Watch(r)) \/ Rebuild \/ NewLists \/ NewSets

Next ==
  \/ RouteWorker
  \/ Informer
  \/ ReconcileGateway
  \/ Router
  \/ CallFails
  \/ RestartOperator
  \/ RestartRouter
  \/ GatewayEvent
  \/ \E r \in RouteNames, s \in SpecNames : EditRoute(r, s)
  \/ \E to \in {"absent", "foreign", "ours"} : ChangeGateway(to)
  \/ \E g \in Grants : ChangeGrant(g)
  \/ \E r \in RouteNames : ForeignStatus(r)

Spec == Init /\ [][Next]_vars

\* The informer delivers, and the workers and the router do not all stop: weaker
\* than fairness of each of them, and enough, since every one runs out of work.
\* Events need not happen.
Fairness ==
  WF_vars(Informer) /\ WF_vars(Router \/ RouteWorker \/ ReconcileGateway)

FairSpec == Spec /\ Fairness
----------------------------------------------------------------------------
(***************************************************************************)
(* Properties.                                                             *)
(***************************************************************************)
Entry(p) ==
  /\ p.ctrl \in {"us", "other"}
  /\ p.accepted \in BOOLEAN /\ p.judged \in BOOLEAN /\ p.resolved \in BOOLEAN
  /\ p.ref.kind = "Gateway"

Object(o) ==
  /\ o.spec \in SpecNames /\ o.uid \in 0 .. MaxEvents
  /\ \A i \in DOMAIN o.status : Entry(o.status[i])
  /\ o.spec = "none" => o.status = <<>>

\* Every variable has its type.  A parent status is about a Gateway, there is at
\* most one of another controller, and no listener counts a route twice.
TypeOK ==
  /\ gateway \in {"absent", "foreign", "ours"}
  /\ \A r \in RouteNames :
       /\ Object(routes[r]) /\ Object(seen[r])
       /\ Len(Foreign(routes[r].status)) <= 1
  /\ grants \subseteq Grants /\ misled \subseteq RouteNames
  /\ queue \subseteq RouteNames /\ missed \subseteq RouteNames
  /\ \/ job = NoJob
     \/ job.at \in {"write", "count"} /\ job.route \in RouteNames /\ Object(job.copy)
  /\ attached \in [Listeners -> -1 .. Cardinality(RouteNames)]
  /\ due \in BOOLEAN /\ owed \in BOOLEAN /\ overlap \in BOOLEAN
  /\ unnoticed \in BOOLEAN
  /\ \A a, b \in egress : SameService(a, b) => a = b
  /\ phase \in {"down", "start", "synced", "init", "serving"}
  /\ \A r \in Visible : Object(store[r])
  /\ events \in 0 .. MaxEvents

\* The HTTPRoute controller has nothing to do.
ControllerQuiet == queue = {} /\ job = NoJob /\ seen = routes

\* The router serves and has nothing to do.
RouterQuiet ==
  /\ phase = "serving" /\ ~owed
  /\ \A r \in Visible : store[r] = routes[r]

\* Another controller has given the route a verdict for our Gateway, which it
\* had before us.
ForeignVerdict(r) ==
  \E i \in DOMAIN routes[r].status :
    routes[r].status[i].ctrl # "us" /\ Judges(routes[r].status[i], r)

Served(r) ==
  LET rules == RulesOf(table[r], r) IN UNION {Range(rules[i].backends) : i \in DOMAIN rules}

\* Once controller and router have caught up, no backend of another namespace is
\* served without a ReferenceGrant that is there: not after a grant was
\* withdrawn, the route edited, the Gateway replaced or the operator restarted.
\* Until then a status older than the spec can admit one, and so can the
\* verdict of a controller that had the Gateway before.
FailClosed ==
  ControllerQuiet /\ RouterQuiet /\ ~overlap =>
    \A r \in Visible : ForeignVerdict(r) \/ \A b \in Served(r) : Permitted(b, RouteNS[r])

\* The rules for backends that specs ask for, permitted or not.
AskedRules ==
  UNION {{RuleFor(b) : b \in Range(Resolvable[r][seen[r].spec])} :
           r \in {q \in RouteNames : Targets(seen[q].spec, q)}}

\* The Gateway reconciler has nothing to do that it knows of.
GatewayQuiet == seen = routes /\ ~due /\ ~unnoticed /\ gateway = "ours"

\* Once Gateway reconciler and router have caught up, the NetworkPolicy lets the
\* pod reach every Service the router serves, at one of the ports the routes ask
\* for, which of two need not be the one served (one rule is kept for a Service),
\* and none that no route asks for.  The reconciler does not watch ReferenceGrants:
\* it hears of them through the statuses the HTTPRoute controller writes, and a
\* verdict that was there before its grant (of an earlier spec, of a grant
\* withdrawn, of another controller) leaves nothing to write.
EgressCovers ==
  GatewayQuiet /\ RouterQuiet /\ ~overlap =>
    /\ egress \subseteq AskedRules
    /\ \A r \in Visible : r \in misled \/ \A b \in Served(r) :
         Resolves(b) => \E c \in egress : SameService(b, c)

\* Once both controllers have caught up, every rule of the NetworkPolicy is of a
\* backend that a route asks for and that needs no ReferenceGrant or has one that
\* is there: a grant withdrawn closes the egress again, by way of the status and
\* the event of its write.  That way is lost when the verdict had not followed
\* the grants yet as the Gateway was reconciled, or is another controller's.
EgressIsPermitted ==
  ControllerQuiet /\ GatewayQuiet =>
    \A c \in egress : \E r \in RouteNames :
      /\ Targets(routes[r].spec, r)
      /\ \E b \in Range(Resolvable[r][routes[r].spec]) :
           /\ c = RuleFor(b)
           /\ Permitted(b, RouteNS[r]) \/ r \in misled \/ ForeignVerdict(r)

\* A table, with the routes in the order the cache lists them.
InOrder(t, order) == FlattenSeq([i \in DOMAIN order |-> RulesOf(t[order[i]], order[i])])

\* While the router serves, it picks for every request the backend of the rule
\* that the comments on Match and pathScore single out among the rules with
\* backends: the tier for Exact and the lengths of strings order all matches that
\* apply to one path as elements do, in whatever order the cache lists routes.
MatchIsMostSpecific ==
  phase = "serving" =>
    \A rules \in {InOrder(table, order) : order \in SetToSeqs(Visible)}, path \in Requests :
      Match(rules, path) = Selected(rules, path)

\* Only another controller changes its entries: neither a stale copy nor a
\* conflict makes the HTTPRoute controller drop or restore one.
ForeignEntriesKept ==
  [][\A r \in RouteNames :
       Foreign(routes'[r].status) # Foreign(routes[r].status)
         => routes'[r].spec = "none" \/ (gateway = "foreign" /\ events' # events)]_vars

\* The status is not what a reconcile would write, and routeParentsEqual does not
\* see it: a parentRef moved to a Gateway of the same name elsewhere.
Blind(r) ==
  LET merged == MergeRouteParentStatuses(routes[r].status,
                  BuildRouteParentStatuses(routes[r].spec, r)) IN
  merged # routes[r].status /\ RouteParentsEqual(routes[r].status, merged)

\* What the router should have compiled of a route.
Wanted(r) ==
  IF Routed(routes[r].spec, r)
  THEN [spec |-> routes[r].spec, all |-> BackendRefsPermitted(routes[r].spec, r)]
  ELSE Nothing

\* The router of a Gateway comes to serve exactly what the routes ask for and the
\* grants permit.  What stays behind: a Gateway whose class came to be ours
\* without an event, a route last reconciled before its Gateway changed, one
\* whose move routeParentsEqual does not see, one judged by another controller,
\* and a first table set after a later one.
DataPlaneFollows ==
  <>[](gateway = "ours" /\ ~unnoticed =>
         /\ phase = "serving"
         /\ \A r \in Visible :
              \/ r \in missed \/ overlap
              \/ table[r] = Wanted(r)
              \/ ForeignVerdict(r) \/ Blind(r))
============================================================================
