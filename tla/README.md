# Verification of tor-gateway

tor-gateway is a Kubernetes operator that publishes Services as Tor onion
services through the Gateway API. This directory holds TLA+ models of its core
logic, TLC configurations that check them on small instances, and TLAPS proofs
of their main invariants. `PROJECT.json` lists components, runs, mutants, the
source lines behind every definition, hazards, findings and theorems.

Check a run with `tlc -config <cfg> <module>` and the proofs of a module with
`tlapm <module>.tla` (the modules named `...Proofs`).

## The system

| Component | State it keeps | Operations | What makes it correct |
|---|---|---|---|
| Gateway reconciler (`internal/controller/gateway_controller.go`) | per Gateway: finalizer, annotations, status; the children of Mode A (one Tor Deployment) or Mode B (onionbalance HA) | `Reconcile` → finalizer → dispatch → teardown of one mode → provisioning of the other → status | modes never mixed; cross-namespace RBAC never orphaned; published address is the one served; settles after every change |
| Vanity harvest (`vanity.go`, `internal/tor/vanity.go`, `cmd/vanity-finalize`) | key Secret, output Secret, Job, `vanity-failed` annotation | ensure key, run/observe Job, promote, clean up | key never replaced; no random key where a prefix was asked for; harvest ends and is not repeated; key carries the prefix |
| OnionBalancePolicy controller, ReferenceGrants | `Accepted`, `ReadyBackends` | one status write per reconcile | Accepted follows master key, grant and Gateway |
| HTTPRoute controller | `RouteParentStatus`, `attachedRoutes` | build, merge and write parent statuses, recount | statuses of other controllers kept; verdicts follow grants |
| GatewayClass, TorServicePolicy, TorClientAuthPolicy controllers | one condition per object or ancestor | recompute, write if changed | status follows targets |
| NetworkPolicy (`network_policy*.go`) | one NetworkPolicy per Gateway | resolve backends of routes into egress rules | what the router serves can be reached, and only what a grant permits |
| onionbalance refresher (`internal/onionbalance`, `cmd/obrefresh`) | timer, pending flag, config file, health file | debounce, render, atomic write, SIGHUP | last state of the Secrets is eventually loaded |
| Router (`internal/router`, `cmd/router`) | routing table behind an atomic pointer | resync, match, proxy | the matcher does what its comments say; unauthorised backends not served for long |
| Backend scaling (`ensureModeB`, `gcBackendSecretsIfSettled`) | one key Secret per ordinal, StatefulSet | ensure keys, set replicas, collect surplus Secrets | a wanted backend keeps its address; nothing needed is overlooked; surplus Secrets wait for their pods (they do not, finding 6) |
| tor-init (`cmd/tor-init`) | hidden-service directory | copy keys, permissions, `ob_config` | can be rerun |
| Tor library (`internal/tor`) | none | key encodings, onion addresses, torrc | round trips |
| Manager, charts, images, API types | flags, manifests | wiring | not modelled |

The controllers share no memory. They meet at the API server: an `Update` or
status write carries a resourceVersion and conflicts when the object has
changed; a `Create` fails when the object exists; a `Delete` by name succeeds
whatever the caller had seen. Every read except one (`APIReader` in
`ensureKeySecret`) comes from an informer cache that may lag. A change of a
watched object queues a reconcile; one object is never reconciled twice at the
same time; an error queues it again; `return nil` does not. Hard behaviours are
therefore: decisions on stale reads, a reconcile cut short between two calls by
an error or a restart and run again from the top, events that do not come
(unwatched kinds, conditions that do not change), deletion with a finalizer,
a Job whose pod writes after the Job is gone, and two goroutines of one process
that set the same table or file in either order.

## Modules

| Module | Models |
|---|---|
| `GatewayReconciler` | the Gateway reconciler for one Gateway together with the OnionBalancePolicy controller |
| `MCGateway` | the same for TLC, with symmetric namespaces |
| `GatewayReconcilerProofs` | TLAPS proofs about `GatewayReconciler`: types and modes |
| `GatewayGuardsProofs` | the same: finalizer, cross-namespace Roles, retired addresses |
| `VanityKey` | `ensureKeySecret` and the vanity harvest |
| `VanityKeyProofs` | TLAPS proofs about `VanityKey` |
| `Refresher` | the obrefresh sidecar, its probe, and the onionbalance daemon it feeds |
| `BackendPool` | what the frontend promises about the instances it announces; `Refresher` implements it |
| `RefresherProofs` | TLAPS proofs about `Refresher`, the safety half of the refinement among them |
| `BackendScaling` | backend key Secrets, StatefulSet and their collection, with tor-init in each pod |
| `BackendScalingProofs` | TLAPS proofs about `BackendScaling` |
| `RouteTable` | the router's pure core (conversion, admission, matching) and, as a reference, the rule its comments single out, without scores |
| `RouteTableProofs` | TLAPS proofs about `RouteTable`: what its loops compute, and that `Match` is the reference |
| `Routes` | HTTPRoute controller, Gateway reconciler and router composed around the HTTPRoutes of one Gateway |
| `RoutesProofs` | TLAPS proofs about `Routes`: verdicts, the router's table and status entries |
| `RouteGatewayProofs` | the same: types, egress rules and the choice of a backend |
| `MCRoutes` | `Routes` for TLC: specs, grants, Services and requests |

### GatewayReconciler

`gw`, `obp`, `objs` are the API server's Gateway, policy and child objects;
`cgw`, `cobp`, `cobjs` the informers' copies; `lgw`, `lobp`, `lkey` what the
running `Reconcile` holds. `phase` and `step` say which function it is in and
which of its calls comes next; the call orders are the sequences
`CleanupModeA`, `CleanupModeB`, `ModeA` and `ModeB`, read off
`cleanupModeAResources`, `cleanupModeBResources`, `reconcileModeA` and
`ensureModeB`. One step is one API call. Each early return, error path and
no-op of the code is a disjunct.

Abstractions:

- objects that are created and deleted together are one element of `objs`
  (a ServiceAccount with its Role and RoleBinding; the backend key Secrets);
  what they contain is left out, so `CreateOrUpdate` of an object the cache and
  the server both have is a no-op. `ModeAOnly`, `ModeBOnly` and `Owned` name
  the groups; a namespace stands for the unowned Role and RoleBinding in it;
- a conflict is a difference in value between the copy in hand and the object,
  not in resourceVersion. A copy that differs in nothing the model keeps would
  have conflicted in the cluster and then been retried;
- a retry loop on a conflict either finds the cache current or fails;
- the master Secret, ReferenceGrant and class are read as they are: their
  staleness is a different order of the users' changes;
- the number of replicas is fixed, and the policy controller's reconcile is one
  step, because its only effect is one conflict-checked write;
- `Lagging` names the informers that may lag; the others deliver with the write.
  The proofs hold for every `Lagging`, the runs choose those a property is
  sensitive to;
- `key` numbers the generated keys, so that publishing an old address again can
  be seen; `retired` is a history variable for that, and `misread` says that the
  key in hand was read from a cached Secret that was gone or replaced by then
  (`gateway_controller.go:399` reads the cache);
- every Mode B reconcile deletes the shared NetworkPolicy and makes it again
  (finding 3), and both changes queue the next reconcile. So `Settled` leaves it
  out in Mode B, and `Converges` promises only that it always comes back.

### VanityKey

The same three views for the policy's prefix, key Secret, output Secret, Job and
failure annotation; `pc` is the place in `ensureKeySecret` or
`runVanityHarvest`. A Secret's key is represented by the prefix it carries.
Consecutive cache reads are one step. The pod is part of the environment: it
succeeds (`cmd/vanity-finalize` updates the output Secret), fails (backoff limit
0, deadline), or outlives its Job as an orphan, since the Job is deleted with
background propagation. The pod's Get and Update are one step; a conflict
between them is a failure of the pod. `JobExpires` (TTL 3600 s) waits until the
outcome has been seen: an informer that lags an hour is not considered.
`Prompt` makes informers outside `Lagging` deliver before anything else happens.

### Refresher

`timer`, `pending` and `store` are the fields of the `Refresher`; `work` holds
the rebuild of each goroutine: slot `"run"` is `Run`'s initial rebuild, the
slots of `Fires` are fired timers. `r.mu` guards the fields, not the rebuild, so
the steps `List`, `Write`, `Signal`, `Health`, `Finish` of different slots
interleave. `notices` counts the handler calls the informer still owes: the
store changes before the handler runs. A restart of the container forgets all
of this but keeps `config` and `fresh`, which are files in emptyDir volumes.

A Secret is absent, without a hostname, ready, or planted (labelled, but not
controlled by the Gateway); `BackendsFromSecrets` keeps the ready ones. Time is
abstract: a timer may fire whenever it runs, and the health file may become too
old whenever it is fresh. That two rebuilds overlap takes a rebuild longer than
the interval (at least 5 s). The probe does not interrupt the initial rebuild,
which its initial delay and three periods outlast. Watch events of one Secret
that come in quick succession are one.

onionbalance is external. From its use: it starts once config.yaml has an
instance (`entrypoint.sh`), reads it, then writes its pidfile; a SIGHUP before
that, or after it died, fails; on SIGHUP it reads the file again, and with no
instances it may exit. A pidfile left behind never names another process.
`config.go:20` says onionbalance starts on an empty list, `entrypoint.sh:3` that
it refuses to; the model follows the entrypoint.

`ImplementsPool` is the abstract specification `BackendPool` under the mapping
ready = the backends `BackendsFromSecrets` would find in the cluster now, served
= what onionbalance has loaded; `ever` is a history variable. `BackendPool` says
nothing of files, signals, timers or restarts: an announced instance is, or
once was, a ready backend, and the announcement settles at the ready ones.

### BackendScaling

`keys` and `ss` are the Secrets and the StatefulSet, `ckeys` and `css` the
informers' copies. `job` is the reconcile: `GetKey` and `EnsureKey` for each
ordinal (the Secret is read twice, the second time inside `CreateOrUpdate`),
`EnsureStatefulSet`, `GcBackendSecretsIfSettled`, one `DeleteSecret` per
surplus Secret. The other calls of `ensureModeB` are those of
`GatewayReconciler` and do not touch this state. A key is the number of times
one was generated for its ordinal. In a pod, `Fetch` and `Finish` are
`tor-init`; the StatefulSet controller (parallel pod management) and the kubelet
are external.

What the properties leave room for is what the code does:

- `gcBackendSecretsIfSettled` reads the StatefulSet that `ensureHAStatefulSet`
  has just updated from the cache. That copy may be the old one, whose spec and
  status agree on the old size, or its status may be from before the surplus pod
  was there; a surplus pod that stands in for a lost one in the count does the
  same. So a scale-down may collect at once, under pods that run or are still to
  fetch their Secret. `CollectionWaitsForPods` states what the comment at
  `gateway_controller.go:1148` claims, and is false (finding 6).
  `NothingIsOverlooked` says what does hold: a collection put off, or a Secret
  missing, is never forgotten;
- a scale-up that follows before the surplus pod is gone generates a new key,
  and the pod serves the old one (`orphaned`) until it is replaced;
- `ob_config` is written with mode 0400: an init container that runs again on
  the same volume cannot write it (`"stuck"`).

### RouteTable and Routes

In `RouteTable` a path is the sequence of what stands between its slashes, with
the lengths of those strings, so that scores are the code's. `Match` folds over
the rules as the code does; `Selected` is the rule that the comments on `Match`
and `pathScore` single out, stated without scores and strings: Exact first, then
more elements, then the first of the list. It is not all that the Gateway API
asks for, and differs from it where the code does:

- a rule left without backends answers nothing and another one is taken
  (`match.go:69`); the ReferenceGrant design
  (`docs/superpowers/specs/2026-05-29-referencegrant-design.md:56`) says that
  such a rule serves 502, `:77` "no route/502", and `aggregate.go:63` that
  `Match` skips it. The spec `here` of `MCRoutes` meets the case;
- equals are taken in the order of the list, and of several routes that is the
  order of the cache, not age and name. `MatchIsMostSpecific` is checked and
  proved for every order;
- a prefix that ends in a slash, which the CRD admits, matches its own value and
  what has a further slash after it (`match.go:97`), not the path without it;
- a regular expression is a prefix.

A Go loop that appends the elements it keeps is `Kept(s, positions)`: what
`SelectSeq` computes, as one choice instead of a recursion, so that the prover
can work with it.

`Routes` follows an HTTPRoute from the user to the data plane of one Gateway in
Mode A. `routes` are the objects, `seen` the operator's informer, `store` the
router's. `job` is a reconcile of the HTTPRoute controller in three steps:
desired statuses, status write (which conflicts when the route has changed),
recount of `attachedRoutes`. `ReconcileGateway` is the part of the Gateway
reconciler that depends on routes: egress rules, the pod, listener entries. The
router's `New` and its event handlers set `table`; the handlers run one after
another, so each is one step, while `New`'s own sync runs beside them in two.
A compiled route is the name of its spec and whether backends of other
namespaces were kept; `RulesOf` gives the rules it stands for. A reference whose
group is set and empty is a kind of its own, `CoreGateway`: the controllers take
it for a Gateway when they match and count (`httproute_controller.go:273`), the
router (`aggregate.go:92`) and `parentManagedByUs` do not. An entry of another
controller may be without a ResolvedRefs condition (`judged`), and then the
router goes on to the next one (`aggregate.go:53`). Gateway, class,
ReferenceGrants and Services are read as they are, and a Gateway status write
that conflicts is a failed call. The ten-hour resync of controller-runtime's
informers is left out: properties must not wait for it.

The Gateway starts with our class or another one. A change of its class is an
event when its `gatewayClassName` was edited, and none when a GatewayClass came,
went or changed its controller (`gateway_controller.go:104`, `:1413`):
`ChangeGateway` does either. The branch of `ensureNetworkPolicy` with
`TorPodNetworkPolicyEnabled` off is left out: it removes the NetworkPolicy whose
rules are modelled here.

The exceptions the properties name are behaviour of the code: with any of them
removed TLC finds a counterexample, with up to four events except as stated.

- `ForeignVerdict`: `refsResolvedFor` (`aggregate.go:42`) takes the first entry
  for the Gateway whoever wrote it. The entry of a controller that had the
  Gateway before comes first and is never removed; it admits backends after
  their grant is gone. The egress rules close with the grant, by way of our own
  entry, unless we write none because the route names the Gateway only by a
  reference with an empty group: that is why `EgressIsPermitted` has this
  exception too, with a counterexample of five events;
- `overlap`: `New` may set a table older than the one a handler has set
  (`router.go:124`), until the next event. It counts only if the two differ;
- `Blind`: `routeParentsEqual` (`httproute_controller.go:369`) compares only the
  parent's name. After a move between Gateways of the same name the status names
  the old one, and the router drops backends of other namespaces for good;
- `missed`: the HTTPRoute controller does not watch Gateways. A route
  reconciled before its Gateway exists, or is ours, waits for its next change;
- `unnoticed`: a class that came to be ours without an event leaves the Gateway
  as it was until the next event of its own;
- `misled`: the Gateway reconciler does not watch ReferenceGrants
  (`gateway_controller.go:1413`); it hears of them through the statuses the
  HTTPRoute controller writes. A route's status may admit backends before their
  grant is there: it is of an earlier spec, of a grant that went and comes back,
  or of another controller. If the Gateway is reconciled while no grant permits
  them, and the grant comes before the HTTPRoute controller looks, the verdict
  does not change, nothing is written, and the rule stays missing although the
  router serves the backend. In the same way a rule stays for a grant that was
  there when the Gateway was reconciled and gone when the verdict was made,
  and for the permitted backends of a route that has others. A route is in
  `misled` when its verdict was not what the grants said of each of its
  backends in other namespaces as the Gateway was last reconciled.
  `EgressCovers` and `EgressIsPermitted` except these routes;
- two ports of one Service: `resolveBackends` keeps one rule per Service
  (`network_policy_resolve.go:97`), so `EgressCovers` compares Services, not
  ports.

`attachedRoutes` is modelled (`CountAttached`, `ListenerStatuses`), and `TypeOK`
bounds it, but no property says it is right: it is recounted only for the
parents a route has now, and only in listener entries that exist
(`httproute_controller.go:217`), so that the Gateway a route left, or one whose
status is written later, keeps a wrong count; and no text of the repository
promises otherwise.

Visible in the model and claimed by no property either: the router serves routes
whose parent was not accepted (it ignores section names and `Accepted`), and does
not see routes of other namespaces although they are accepted and counted.

## Runs

| Run | Shows | Bounds |
|---|---|---|
| `gateway_safety` | `ModeExclusion`, `FinalizerGuardsCrossNS`, `CrossNSRolesFollowPolicy` and the type invariant | two namespaces, three changes (attach, retarget, detach or delete is the longest chain that matters), one fault, lagging Gateway informer; 1.8 million states |
| `gateway_liveness` | `Converges`, `RetiredKeyStaysRetired` | one namespace, two changes (to Mode B and back), one fault, lagging policy, key and StatefulSet informers, with and without a harvest; 660 000 states |
| `gateway_cross_ns` | violation, see Findings | three changes |
| `gateway_requeue` | violation | three changes: attach, delete and recreate the Secret |
| `gateway_netpol` | violation | one change |
| `vanity` | `KeyNeverReplaced`, `NoUnwantedRandomKey`, `HarvestResolves` and the type invariant | two prefixes (an old and a new), one change, one fault, lagging policy, key and Job informers; 810 000 states |
| `vanity_prefix` | violation | one change, nothing lags |
| `refresher_sync` | `InSync`, `Heals`, `ImplementsPool`, type invariant | two backends, the initial rebuild and one fired timer at a time (enough for an old list to be written over a new one), one change, one fault; 320 000 states |
| `refresher_probe` | violation | one backend, no change, no fault |
| `scaling` | `PodServesItsKey`, `WantedKeyIsKept`, `NothingIsOverlooked`, `Settles`, type invariant | up to two replicas (one that stays and one that comes and goes), two changes (down and up again), one fault; 250 000 states |
| `scaling_collection` | violation | up to two replicas, one change, no fault |
| `routes` | `FailClosed`, `EgressCovers`, `EgressIsPermitted`, `MatchIsMostSpecific`, `ForeignEntriesKept`, `DataPlaneFollows`, type invariant | one route with three specs (whole Gateway, sections, a Gateway of the same name elsewhere beside a reference with an empty group), references that another namespace or section sets apart, Exact, prefix and regular-expression matches that tie, a prefix that ends in a slash, one grant, two events of any kind after a start with our class or another; 530 000 states |

Two changes and a fault are enough for a change to overtake a reconcile, be
overtaken by a second one, and for the repair to be interrupted. `vanity` has one
change besides the policy that may reach the cache late at its start; more do not
fit the run, and its theorems hold for any number. In `routes`
changes and faults share one bound of two, since everything starts from scratch
there; the theorems hold for any number. Only in the refresher runs is deadlock
checked: with no changes left, the other systems settle and stop, while the
frontend pod's probe goes on.

Fairness: the reconcile worker, the policy controller's worker, each informer
and Kubernetes' garbage collector are weakly fair (controller-runtime's
workqueue drains, list-and-watch delivers). In `VanityKey` the Job ends (its
deadline) and expires (its TTL). In `Refresher` the informer, each goroutine,
the timer, the kubelet's probe and onionbalance go on, and time passes
(`HealthExpires`). In `BackendScaling` the StatefulSet controller and each pod's
init container go on too. In `Routes` one weak fairness condition covers the
workers and the router together and one the informer: less than fairness of
each, and enough because each runs out of work. Nothing is assumed of users,
faults, frontend pods or a successful harvest.

`Heals` rests on the probe. The code does not retry a rebuild whose write or
SIGHUP failed, and of two overlapping rebuilds the older list may be written
last; the health file then ages, the probe restarts obrefresh, and the initial
rebuild repairs both. `InSync` says what holds without that help.

`CrossNSRolesFollowPolicy` passes when every policy names another namespace
(`gateway_safety`) and fails when a policy returns to the Gateway's own
(`gateway_cross_ns`). `FinalizerGuardsCrossNS` is checked with current RBAC
informers: the collection lists the cache, so a Role created within the
informer's lag of the deletion could be missed.

## Findings

1. `gateway_cross_ns`: stale cross-namespace Roles are collected only when the
   policy still names another namespace; `gateway_resources_ha.go:546` says they
   are collected "when the spec namespace changes".
2. `gateway_requeue`: a master Secret deleted and recreated before the policy
   controller reconciles produces no event for the Gateway;
   `gateway_controller.go:666` says "the requeue fires reliably".
3. `gateway_netpol`: every Mode B reconcile deletes the shared NetworkPolicy and
   recreates it near its end; `gateway_controller.go:744` says it "guards backend
   StatefulSet pods too".
4. `vanity_prefix`: after a change of prefix the old output Secret, or the old
   pod, can supply the promoted key; the design document promises a key "whose
   `.onion` carries that prefix".
5. `refresher_probe`: only a rebuild touches the health file, and only events and
   the start of the process lead to a rebuild, so the probe restarts a healthy
   refresher of a quiet cluster over and over; `gateway_resources_ha.go:729` says
   the window "covers the actual write cadence".
6. `scaling_collection`: `gcBackendSecretsIfSettled` compares spec and status of a
   cached StatefulSet that may be older than the write or the pods, and then
   collects the Secrets of pods that exist; `gateway_controller.go:1148` says it
   is called "only when the StatefulSet's actual replica count has caught up with
   its desired spec", and the release-fix design
   (`docs/superpowers/specs/2026-06-05-v0-4-0-release-fixes-design.md:145`) says
   the same. In the shortest trace the copy's status is from before the surplus
   pod was created.

## Proofs

Each theorem holds for every value of the constants that satisfies the named
assumptions of its module: any number of namespaces, prefixes, backends,
replicas, routes and specs, any set of lagging informers unless a theorem says
otherwise, and any bound on changes and faults, so that behaviours of every
length are covered. TLC checked each inductive invariant on the instance of the
component's run before it was proved. In every proof a lemma per action, or per
group of actions that leave the invariant's variables alone, shows that the
step keeps the invariant; the theorem combines them.

### Gateway reconciler

`GatewayReconcilerProofs`, from `ConstantsAssumption` (namespaces are not object
names, policies name known namespaces, the bounds are natural numbers):

- `TypeCorrect`: `TypeOK`. Besides shapes it says that a workload is ready only
  while its object exists and that `step` never passes the last call of its
  function.
- `ModesExclude`: `ModeExclusion`. It is not inductive: a reconcile in the
  middle of `ensureModeB` would create the StatefulSet next to a Deployment.
  `ModeInv` adds what the teardown has removed by each call: after the first
  call of `cleanupModeAResources` and all through `ensureModeB` there is no
  Deployment, after the first and second call of `cleanupModeBResources` no
  frontend and no StatefulSet, and none all through Mode A. It is inductive
  because these deletes are by name, not of a cached list, and because nothing
  but the reconcile creates workloads.

`GatewayGuardsProofs`. The three properties depend on what the code reads from a
cache; the first two theorems assume that the RBAC informers are current:

- `FinalizerGuards`: `FinalizerGuardsCrossNS`, if the RBAC informers of other
  namespaces are current (`RBACCurrent`; the collection lists the cache).
  `GuardInv` adds: the cached pairs are the pairs; a copy of the Gateway that
  has the finalizer and no deletion is of a Gateway that still has it; Mode B
  and the teardown of Mode A run only while the finalizer is there; and the
  finalizer is removed only after the collection. The Gateway's own informer
  may lag: a deletion is never undone, so an old copy errs on the safe side.
- `PairsFollowPolicy`: `CrossNSRolesFollowPolicy`, if in addition every policy
  names another namespace. Without that it is false, which is finding 1.
- `RetiredKeysStayRetired`: the action property `RetiredKeyStaysRetired`, whatever
  informers lag. `RetiredInv` says: Mode B has no key Secret once it has deleted
  it; a key Secret that exists is newer than all that Mode B superseded; and so
  is the key that Mode A has in hand, unless it was misread. The exception is
  real: Mode A, entered soon after Mode B, finds the deleted Secret in the cache
  and publishes the old address once more.

### VanityKey

`VanityKeyProofs`, from `PrefixAssumption`, for every set of lagging informers:

- `TypeCorrect`: `TypeOK`, with `WantOK` (`runVanityHarvest` is entered only for
  a prefix).
- `KeysNeverReplaced`: the action property `KeyNeverReplaced`. Both
  writes of the key Secret, of a random and of a harvested key, are a `Create`,
  which refuses to replace.
- `NoRandomKeyUnwanted`: the action property `NoUnwantedRandomKey`. `HarvestedOK`
  says that the output Secret and the promoted key always carry a prefix;
  `AskedOK` that the reconcile reaches the generation of a random key only after
  the uncached look at the policies showed none.

### Refresher

`RefresherProofs`, from `RefresherAssumption`:

- `TypeCorrect`: `TypeOK`, by itself inductive.
- `RestsInSync`: `InSync`. `SyncInv` adds `Alone` (if the latest rebuild began
  alone, it is the only active one) and `Current` (if no event, timer or `List`
  is outstanding, what the latest rebuild listed, wrote and signalled is what the
  store holds now). `Behind` names all the ways a rebuild can be on its way; the
  proof is that every change of the store sets one of them, and that none is
  cleared but by a rebuild that lists afterwards.
- `RefinesPool`: the initial states and all steps of `BackendPool` under the
  mapping of `ImplementsPool`. `KnownInv`: whatever holds instances (Secrets,
  store, lists in flight, the file, the daemon) holds only backends that have
  been ready.

### BackendScaling

`BackendScalingProofs`, from `ScalingAssumption`:

- `TypeCorrect`: `TypeOK`, with `CursorOK` (the loop's index is below the number
  of replicas it began with).
- `PodsServeTheirKeys`: `PodServesItsKey`. `PodHoldsItsKey` extends it to pods
  that have fetched and not started, and says that their Secret exists.
- `WantedKeysKept`: `WantedKeyIsKept`. `JobAboveLow`: no reconcile works with
  fewer replicas than the lowest number ever asked for, nor condemns an ordinal
  below it; `LowKeys`: an ordinal below it has had no Secret deleted.
- `NothingOverlooked`: `NothingIsOverlooked`. `NoticeInv` says that the Gateway is
  queued or all is `Noticed`: the reconcile under way works with the replicas
  asked for, its update has set or will set them, a wanted Secret that is
  missing is still to be ensured or still in the cache, and a surplus one that
  a settled copy of the StatefulSet allows to collect is condemned or not yet in
  the cache. Whatever breaks one of these is a change whose event queues the
  Gateway, or a failure that does.

### Routes

`RoutesProofs`, from `RoutesAssumption` and `ManifestAssumption` (the lists of a
spec are sequences):

- `FailsClosed`: `FailClosed`. `VerdictsOK` says of each route that it is queued,
  is being written, was overwritten since the informer's copy, or that the
  informer's copy carries in every entry of ours the verdict a reconcile would
  give now. `JobOK` says that what the reconcile under way has decided still
  holds unless its route is queued again: a grant that changes queues every
  route it concerns. `Overwritten` must not be undone without an event: it is
  not, because a recreated route has a new uid, and because the merge keeps the
  foreign entries, so that a later foreign entry cannot restore the old status.
  `TableInv` is the router's half: without a rebuild owed or overtaken, the table
  is compiled from its cache.
- `ForeignEntriesStay`: the action property `ForeignEntriesKept`. It rests on
  `MergeKeepsForeign`: of the merged list, `Foreign` keeps exactly the foreign
  part, in its order, for lists of any length.

`RouteGatewayProofs`, in addition:

- `EgressStaysCovering`: `EgressCovers`. It is not inductive, since it is about a
  state in which everything has caught up. `EgressOK` says of every state with
  no reconcile of the Gateway due, nor a change of class that should have made
  one due, that each rule is of a backend that a route in the informer's copy
  asks for and may have, and that every backend that was owed a rule has one
  for its Service: a backend of the route's own namespace, or one that the
  copy's status admits while the route is not misled. A change of a copy makes
  a reconcile due if the route names the Gateway before or after it.
  `PermittedHasRule` is about the loop of `resolveBackends`: of several
  references to one Service the last one kept stands for all. What the table
  serves is then traced back through `TableInv` to the copy.
- `EgressStaysPermitted`: `EgressIsPermitted`, from the other half of `EgressOK`:
  a rule for another namespace is of a route that the copy's status admits or
  that is misled. Once the HTTPRoute controller is idle, `VerdictsOK` makes that
  status what the grants say, unless another controller wrote it.
- `TypesStayCorrect`: `TypeOK`. `TypesInv` adds `Proper` for every copy: created at
  most once per event, and without a status when deleted. That no listener counts
  more routes than there are needs `SectionsAssumption`: the code counts
  parentRefs, and `CountedOnce` shows that each route has at most one for a
  listener. That a route has at most one foreign entry needs `MergeKeepsForeign`
  again.
- `MatchStaysMostSpecific`: `MatchIsMostSpecific`, from `PathsAssumption` and
  `LengthAssumption`, for every order in which the cache may list the routes.
  It is a statement about the code's own rule (see RouteTable above), not about
  the Gateway API's. `TablesOK` says that the tables name specs;
  `CompiledMatches` that what the conversion makes of a spec is `Sound`.

`RouteTableProofs` holds what these proofs need about lists, and `MatchSelects`:
for any rules with sound matches and any path, the two nested loops of `Match`,
which keep the best score so far, return what `Selected` says. The argument:
after each step of the loops the candidate `Leads` those considered so far, that
is, has the highest score and is the first with it (`ConsiderLeads`); and among
matches that apply to one path the scores are ordered as `Precedes` orders them
(`ScoreRanks`). The code puts Exact matches ahead by 65536 (`match.go:86`), which
looks like a bound on the length of prefixes. The proof does not need one: an
Exact match that applies is as long as the path, no prefix that applies is
longer, and the offset only decides the tie.

Facts about lists of every length are proved without the library's induction
theorems, by least counterexample: `LeastElement` (a set of numbers that is not
empty has a least element, from the well-foundedness of `<`), then
`AscendingExists` (every set of positions can be put in order),
`AscendingInterval` (an interval only in one way), `FoldExists` (a fold has its
sequence of intermediate results) and `FlattenedElements`.

The assumptions on the constants, besides types:

- `SectionsAssumption`: no two parentRefs of a route attach to the same listener of
  the Gateway. It follows from the validation rules of the HTTPRoute CRD, with
  one gap: they compare namespaces as written, so that a reference that spells
  the route's own namespace beside one that omits it is admitted, and
  `attachedRoutes` counts the route twice. Such specs are left out.
- `PathsAssumption`: the values of matches are paths, with or without a slash at
  their end.
- `LengthAssumption`: only the empty string has length 0.

### Only model-checked

Every invariant and every action property of the runs that pass is a theorem.
What is left to TLC is liveness, since fairness and ENABLED are out of the
prover's reach: `Converges`, `HarvestResolves`, `Heals`, `Settles`,
`DataPlaneFollows`, and the liveness half of `ImplementsPool`.

## Further work

The three controllers that write one condition (below) could be added to `Routes`
and `GatewayReconciler` without new variables there; several routes in the TLC
instance of `Routes` need a machine with more time than the run takes now, and
are covered by the proofs.

## Not modelled

- GatewayClass, TorServicePolicy and TorClientAuthPolicy controllers: one
  conflict-checked status write each, on which no other component depends. Their
  one hazard (a policy created before its Gateway keeps its status) is listed.
- Cryptography, key encodings, onion addresses, torrc rendering: pure functions
  on strings and bytes, within reach of unit tests.
- Pod specs, probes, RBAC rules, Helm charts, images: manifests.
- The manager's flags and leader election: with one leader at a time a change of
  leader is a restart of the operator, which every module has.
- The proxying of a request: it reads the table once and keeps no state.
