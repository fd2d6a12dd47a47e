---------------------------- MODULE RoutesProofs ----------------------------
(***************************************************************************)
(* Proofs about Routes, for any routes, specs, grants and Services and any *)
(* number of events: the router fails closed, and entries of other         *)
(* controllers in a route's status stay as they are.                       *)
(***************************************************************************)
EXTENDS Routes, RouteTableProofs

----------------------------------------------------------------------------
(***************************************************************************)
(* The inductive invariants.                                               *)
(***************************************************************************)
ParentRefs == UNION {Range(SpecOf(s).parents) : s \in SpecNames}

Refs    == {ref \in ParentRefs : ref.kind = "Gateway"}
Entries == [ctrl : {"us", "other"}, ref : Refs, accepted : BOOLEAN,
            judged : BOOLEAN, resolved : BOOLEAN]
Objects == [spec : SpecNames, status : Seq(Entries), uid : Nat]
Jobs    == [at : {"write", "count"}, route : RouteNames, copy : Objects,
            parents : Seq(Entries)]

\* The specs whose references are permitted in a route.
Cleared == {c \in SpecNames \X RouteNames : BackendRefsPermitted(c[1], c[2])}

\* Every entry of ours says whether the references of the spec are permitted.
TrueVerdicts(status, s, r) ==
  \A i \in DOMAIN status :
    status[i].ctrl = "us" => (status[i].resolved <=> <<s, r>> \in Cleared)

HasForeign(status) == \E i \in DOMAIN status : status[i].ctrl # "us"

AllOurs(status) == \A i \in DOMAIN status : status[i].ctrl = "us"

\* The types of the controller's state.
TypeInv ==
  /\ routes \in [RouteNames -> Objects] /\ seen \in [RouteNames -> Objects]
  /\ queue \subseteq RouteNames
  /\ job = NoJob \/ job \in Jobs

\* A route that does not exist has no status, and the informer is not ahead.
ObjectsOK ==
  \A r \in RouteNames :
    /\ routes[r].spec = "none" => routes[r].status = <<>>
    /\ seen[r].spec = "none" => seen[r].status = <<>>
    /\ seen[r].uid <= routes[r].uid

\* What the reconcile under way has decided still holds, or its route is queued
\* again.
JobOK ==
  job.at = "write" =>
    /\ job.copy.spec # "none"
    /\ AllOurs(job.parents)
    /\ job.route \notin queue =>
         /\ job.copy = seen[job.route]
         /\ TrueVerdicts(job.parents, job.copy.spec, job.route)

\* The route was written since the informer's copy, in a way that no later write
\* undoes: an event is on its way.
Overwritten(r) ==
  /\ seen[r].spec # "none"
  /\ \/ routes[r].uid > seen[r].uid
     \/ routes[r].spec = "none"
     \/ /\ routes[r].status # seen[r].status
        /\ HasForeign(seen[r].status) => HasForeign(routes[r].status)

\* A reconcile is due or under way, an event is on its way, or the informer's
\* copy has the verdicts a reconcile would give.
VerdictsOK ==
  \A r \in RouteNames :
    \/ r \in queue
    \/ job.at = "write" /\ job.route = r
    \/ Overwritten(r)
    \/ TrueVerdicts(seen[r].status, seen[r].spec, r)

VerdictInv == TypeInv /\ ObjectsOK /\ JobOK /\ VerdictsOK

\* A table that is set, or about to be, is compiled from the router's cache unless
\* a rebuild is owed or was overtaken.
TableInv ==
  ~owed /\ ~overlap =>
    /\ phase = "init" => first = Compiled
    /\ phase = "serving" => table = Compiled

----------------------------------------------------------------------------
(***************************************************************************)
(* Statuses: what is built, merged and compared.                           *)
(***************************************************************************)

\* The parentRefs of a spec.
LEMMA ParentsAreRefs ==
  ASSUME NEW s \in SpecNames
  PROVE  SpecOf(s).parents \in Seq(ParentRefs)
<1>1. CASE s = "none"
  BY <1>1 DEF SpecOf, NoSpec
<1>2. CASE s # "none"
  <2>1. SpecOf(s).parents \in Seq(Range(SpecOf(s).parents))
    BY <1>2, ManifestAssumption DEF SpecNames, SpecOf
  <2>2. Range(SpecOf(s).parents) \subseteq ParentRefs
    BY DEF ParentRefs
  <2> QED BY <2>1, <2>2, SeqOfRange
<1> QED BY <1>1, <1>2

\* Foreign keeps the entries of other controllers, and drops none of them.
LEMMA ForeignEntries ==
  ASSUME NEW st \in Seq(Entries)
  PROVE  /\ Foreign(st) \in Seq(Entries)
         /\ \A k \in DOMAIN Foreign(st) : Foreign(st)[k].ctrl # "us"
         /\ Foreign(st) = <<>> <=> ~HasForeign(st)
<1> DEFINE I == {i \in DOMAIN st : st[i].ctrl # "us"}
<1>1. I \subseteq DOMAIN st
  OBVIOUS
<1>2. Foreign(st) = Kept(st, I)
  BY DEF Foreign
<1>3. I = {} <=> ~HasForeign(st)
  BY DEF HasForeign
<1>4. \A i \in I : st[i].ctrl # "us"
  OBVIOUS
<1> HIDE DEF I
<1>5. /\ Kept(st, I) \in Seq(Entries)
      /\ \A k \in DOMAIN Kept(st, I) : \E i \in I : Kept(st, I)[k] = st[i]
      /\ Kept(st, I) = <<>> => I = {}
  BY <1>1, KeptIsSelection
<1>6. I = {} => Kept(st, I) = <<>>
  <2> SUFFICES ASSUME I = {} PROVE Kept(st, I) = <<>>
    OBVIOUS
  <2>1. DOMAIN Kept(st, I) = {}
    BY <1>5
  <2> QED BY <1>5, <2>1
<1> QED BY <1>2, <1>3, <1>4, <1>5, <1>6

\* buildRouteParentStatuses writes entries of ours with the verdict of the moment.
LEMMA BuiltVerdicts ==
  ASSUME NEW s \in SpecNames, NEW r \in RouteNames
  PROVE  LET built == BuildRouteParentStatuses(s, r) IN
         /\ built \in Seq(Entries)
         /\ AllOurs(built)
         /\ TrueVerdicts(built, s, r)
<1> DEFINE ps == SpecOf(s).parents
           I  == {i \in DOMAIN ps : ParentManagedByUs(ps[i], RouteNS[r])}
           managed == Kept(ps, I)
           built   == BuildRouteParentStatuses(s, r)
<1>1. ps \in Seq(ParentRefs)
  BY ParentsAreRefs
<1>2. managed \in Seq(Refs)
  <2>1. I \subseteq DOMAIN ps /\ \A i \in I : ps[i].kind = "Gateway"
    BY DEF ParentManagedByUs
  <2> HIDE DEF ps, I
  <2>2. /\ managed \in Seq(ParentRefs)
        /\ \A k \in DOMAIN managed : \E i \in I : managed[k] = ps[i]
    BY <1>1, <2>1, KeptIsSelection
  <2> HIDE DEF managed
  <2>3. \A k \in 1 .. Len(managed) : managed[k] \in Refs
    BY <2>1, <2>2 DEF Refs
  <2> QED BY <2>2, <2>3
<1>3. built = [i \in DOMAIN managed |->
                 [ctrl |-> "us", ref |-> managed[i], accepted |-> ListenerExists(managed[i]),
                  judged |-> TRUE, resolved |-> BackendRefsPermitted(s, r)]]
  BY DEF BuildRouteParentStatuses
<1>4. BackendRefsPermitted(s, r) \in BOOLEAN /\ \A x : ListenerExists(x) \in BOOLEAN
  BY DEF BackendRefsPermitted, ListenerExists
<1>5. BackendRefsPermitted(s, r) <=> <<s, r>> \in Cleared
  BY DEF Cleared
<1> HIDE DEF managed, built
<1>6. \A i \in DOMAIN managed : built[i] \in Entries
  BY <1>2, <1>3, <1>4 DEF Entries
<1>7. DOMAIN managed = 1 .. Len(managed) /\ Len(managed) \in Nat
  BY <1>2
<1>8. built \in Seq(Entries)
  BY <1>3, <1>6, <1>7
<1>9. AllOurs(built)
  BY <1>3 DEF AllOurs
<1>10. TrueVerdicts(built, s, r)
  BY <1>3, <1>5 DEF TrueVerdicts
<1> QED BY <1>8, <1>9, <1>10 DEF built

\* mergeRouteParentStatuses: what becomes of verdicts and of the entries of other
\* controllers, and what routeParentsEqual sees.
LEMMA MergedVerdicts ==
  ASSUME NEW st \in Seq(Entries), NEW d \in Seq(Entries), AllOurs(d), NEW s, NEW r,
         TrueVerdicts(d, s, r)
  PROVE  LET merged == MergeRouteParentStatuses(st, d) IN
         /\ merged \in Seq(Entries)
         /\ HasForeign(st) => HasForeign(merged)
         /\ RouteParentsEqual(st, merged) => TrueVerdicts(st, s, r)
         /\ ~RouteParentsEqual(st, merged) => merged # st
<1> DEFINE f == Foreign(st)
           merged == MergeRouteParentStatuses(st, d)
<1>1. /\ f \in Seq(Entries)
      /\ \A k \in DOMAIN f : f[k].ctrl # "us"
      /\ f = <<>> <=> ~HasForeign(st)
  BY ForeignEntries
<1>2. merged = f \o d
  BY DEF MergeRouteParentStatuses
<1> HIDE DEF f, merged
<1>3. /\ merged \in Seq(Entries)
      /\ Len(merged) = Len(f) + Len(d)
      /\ \A i \in 1 .. Len(f) : merged[i] = f[i]
      /\ \A i \in (Len(f) + 1) .. Len(merged) : merged[i] = d[i - Len(f)]
  BY <1>1, <1>2
<1>4. HasForeign(st) => HasForeign(merged)
  <2> SUFFICES ASSUME HasForeign(st) PROVE HasForeign(merged)
    OBVIOUS
  <2>1. 1 \in DOMAIN f /\ 1 \in DOMAIN merged /\ merged[1] = f[1]
    BY <1>1, <1>3
  <2> QED BY <1>1, <2>1 DEF HasForeign
<1>5. TrueVerdicts(merged, s, r)
  <2> SUFFICES ASSUME NEW i \in DOMAIN merged, merged[i].ctrl = "us"
               PROVE  merged[i].resolved <=> <<s, r>> \in Cleared
    BY DEF TrueVerdicts
  <2>1. i \in 1 .. Len(merged) /\ ~(i \in 1 .. Len(f))
    BY <1>1, <1>3
  <2>2. i \in (Len(f) + 1) .. Len(merged) /\ i - Len(f) \in 1 .. Len(d)
    <3>1. Len(f) \in Nat /\ Len(d) \in Nat /\ Len(merged) = Len(f) + Len(d)
      BY <1>1, <1>3
    <3> QED BY <2>1, <3>1
  <2>3. i - Len(f) \in DOMAIN d /\ merged[i] = d[i - Len(f)]
    BY <1>3, <2>2
  <2> QED BY <2>3 DEF TrueVerdicts
<1>6. RouteParentsEqual(st, merged) => TrueVerdicts(st, s, r)
  <2> SUFFICES ASSUME RouteParentsEqual(st, merged), NEW i \in DOMAIN st, st[i].ctrl = "us"
               PROVE  st[i].resolved <=> <<s, r>> \in Cleared
    BY DEF TrueVerdicts
  <2>1. i \in DOMAIN merged /\ merged[i].ctrl = "us" /\ merged[i].resolved = st[i].resolved
    BY <1>3 DEF RouteParentsEqual
  <2> QED BY <1>5, <2>1 DEF TrueVerdicts
<1>7. ~RouteParentsEqual(st, merged) => merged # st
  BY DEF RouteParentsEqual
<1> QED BY <1>3, <1>4, <1>6, <1>7 DEF merged

----------------------------------------------------------------------------
(***************************************************************************)
(* VerdictInv, action by action.                                           *)
(***************************************************************************)

\* The verdicts depend on the grants alone.
LEMMA ClearedKept ==
  ASSUME UNCHANGED grants
  PROVE  Cleared' = Cleared
<1>1. \A s, r : BackendRefsPermitted(s, r)' <=> BackendRefsPermitted(s, r)
  BY DEF BackendRefsPermitted, Permitted, Allows
<1> QED BY <1>1 DEF Cleared

\* A grant that does not name a route's namespace does not concern it.
LEMMA ClearedElsewhere ==
  ASSUME NEW g \in Grants, ChangeGrant(g), NEW r \in RouteNames,
         seen[r].spec # "none", r \notin queue', NEW s
  PROVE  <<s, r>> \in Cleared' <=> <<s, r>> \in Cleared
<1>1. [kind |-> "HTTPRoute", ns |-> RouteNS[r]] \notin g.from
  BY DEF ChangeGrant, RoutesForGrant
<1>2. \A h : h # g => (h \in grants' <=> h \in grants)
  BY DEF ChangeGrant
<1>3. \A to : Allows(RouteNS[r], to)' <=> Allows(RouteNS[r], to)
  BY <1>1, <1>2 DEF Allows
<1>4. \A b : Permitted(b, RouteNS[r])' <=> Permitted(b, RouteNS[r])
  BY <1>3 DEF Permitted
<1>5. \A t : BackendRefsPermitted(t, r)' <=> BackendRefsPermitted(t, r)
  BY <1>4 DEF BackendRefsPermitted
<1> QED BY <1>5 DEF Cleared

\* Initially no route has a status and all are queued.
LEMMA InitVerdicts ==
  ASSUME Init
  PROVE  VerdictInv
<1>0. \A s : [NoRoute EXCEPT !.spec = s] = [spec |-> s, status |-> <<>>, uid |-> 0]
  BY DEF NoRoute
<1>1. \A s \in DOMAIN Manifest : [NoRoute EXCEPT !.spec = s] \in Objects
  <2>1. \A s \in DOMAIN Manifest : [spec |-> s, status |-> <<>>, uid |-> 0] \in Objects
    BY DEF Objects, SpecNames
  <2> QED BY <1>0, <2>1
<1>2. routes \in [RouteNames -> Objects] /\ seen = routes
  BY <1>1 DEF Init
<1>3. \A r \in RouteNames : routes[r].status = <<>>
  <2> SUFFICES ASSUME NEW r \in RouteNames PROVE routes[r].status = <<>>
    OBVIOUS
  <2>1. routes[r] \in {[NoRoute EXCEPT !.spec = s] : s \in DOMAIN Manifest}
    BY DEF Init
  <2>2. PICK s \in DOMAIN Manifest : routes[r] = [NoRoute EXCEPT !.spec = s]
    BY <2>1
  <2> QED BY <1>0, <2>2
<1>4. TypeInv
  BY <1>2 DEF Init, TypeInv
<1>5. ObjectsOK
  BY <1>2, <1>3 DEF ObjectsOK, Objects
<1>6. JobOK
  BY DEF Init, JobOK, NoJob
<1>7. VerdictsOK
  BY DEF Init, VerdictsOK
<1> QED BY <1>4, <1>5, <1>6, <1>7 DEF VerdictInv

\* Steps that leave the controller and its objects alone.
LEMMA ElsewhereVerdicts ==
  ASSUME VerdictInv, UNCHANGED <<routes, seen, queue, job, grants>>
  PROVE  VerdictInv'
<1>1. Cleared' = Cleared
  BY ClearedKept
<1> QED BY <1>1 DEF VerdictInv, TypeInv, ObjectsOK, JobOK, VerdictsOK, Overwritten,
                    TrueVerdicts, HasForeign, AllOurs

\* A reconcile ends or is given up.
LEMMA EndVerdicts ==
  ASSUME VerdictInv, UNCHANGED <<routes, seen, grants>>, job' = NoJob,
         \/ GiveUp /\ job # NoJob
         \/ job.at # "write" /\ UNCHANGED queue
  PROVE  VerdictInv'
<1>1. Cleared' = Cleared
  BY ClearedKept
<1>2. job # NoJob => job.route \in RouteNames
  BY DEF VerdictInv, TypeInv, Jobs
<1>3. queue \subseteq queue' /\ queue' \subseteq RouteNames
  BY <1>2 DEF GiveUp, VerdictInv, TypeInv
<1>4. job.at = "write" => job.route \in queue'
  BY DEF GiveUp
<1>5. TypeInv' /\ ObjectsOK' /\ JobOK'
  BY <1>3 DEF VerdictInv, TypeInv, ObjectsOK, JobOK, NoJob
<1>6. VerdictsOK'
  BY <1>1, <1>3, <1>4 DEF VerdictInv, VerdictsOK, Overwritten, TrueVerdicts, HasForeign
<1> QED BY <1>5, <1>6 DEF VerdictInv

\* The record that stands for no reconcile.
LEMMA NoJobIsIdle ==
  NoJob.at = "idle"
BY DEF NoJob

\* A reconcile begins: its verdicts are those of the moment.
LEMMA TakeVerdicts ==
  ASSUME VerdictInv, NEW r \in RouteNames, Take(r)
  PROVE  VerdictInv'
<1> DEFINE built == BuildRouteParentStatuses(seen[r].spec, r)
<1>1. UNCHANGED <<routes, seen, grants>> /\ queue' = queue \ {r} /\ job = NoJob
  BY DEF Take
<1>2. Cleared' = Cleared
  BY <1>1, ClearedKept
<1>3. seen[r] \in Objects /\ seen[r].spec \in SpecNames
  BY DEF VerdictInv, TypeInv, Objects
<1>4. built \in Seq(Entries) /\ AllOurs(built) /\ TrueVerdicts(built, seen[r].spec, r)
  BY <1>3, BuiltVerdicts
<1>5. CASE seen[r].spec = "none"
  <2>1. job' = NoJob
    BY <1>5 DEF Take
  <2>2. seen[r].status = <<>>
    BY <1>5 DEF VerdictInv, ObjectsOK
  <2>3. TypeInv' /\ ObjectsOK' /\ JobOK'
    BY <1>1, <2>1 DEF VerdictInv, TypeInv, ObjectsOK, JobOK, NoJob
  <2>4. VerdictsOK'
    <3> SUFFICES ASSUME NEW q \in RouteNames, q \notin queue'
                 PROVE  Overwritten(q) \/ TrueVerdicts(seen[q].status, seen[q].spec, q)
      BY <1>1, <1>2 DEF VerdictsOK, Overwritten, TrueVerdicts, HasForeign
    <3>1. CASE q = r
      BY <2>2, <3>1 DEF TrueVerdicts
    <3>2. CASE q # r
      BY <1>1, <3>2, NoJobIsIdle DEF VerdictInv, VerdictsOK
    <3> QED BY <3>1, <3>2
  <2> QED BY <2>3, <2>4 DEF VerdictInv
<1>6. CASE seen[r].spec # "none"
  <2>1. job' = [at |-> "write", route |-> r, copy |-> seen[r], parents |-> built]
    BY <1>6 DEF Take
  <2> HIDE DEF built
  <2>2. job' \in Jobs
    BY <1>3, <1>4, <2>1 DEF Jobs
  <2>3. TypeInv' /\ ObjectsOK'
    BY <1>1, <2>2 DEF VerdictInv, TypeInv, ObjectsOK
  <2>4. JobOK'
    BY <1>1, <1>2, <1>4, <1>6, <2>1 DEF JobOK, TrueVerdicts, AllOurs
  <2>5. VerdictsOK'
    BY <1>1, <1>2, <2>1
       DEF VerdictInv, VerdictsOK, Overwritten, TrueVerdicts, HasForeign, NoJob
  <2> QED BY <2>3, <2>4, <2>5 DEF VerdictInv
<1> QED BY <1>5, <1>6

\* The write: either nothing changed, and the copy had the right verdicts, or the
\* route differs from the informer's copy until the event arrives.
LEMMA WriteVerdicts ==
  ASSUME VerdictInv, WriteStatus
  PROVE  VerdictInv'
<1> DEFINE r      == job.route
           merged == MergeRouteParentStatuses(job.copy.status, job.parents)
           same   == RouteParentsEqual(job.copy.status, merged)
<1>1. UNCHANGED <<seen, grants>> /\ job.at = "write"
  BY DEF WriteStatus
<1>2. job \in Jobs
  BY <1>1, NoJobIsIdle DEF VerdictInv, TypeInv
<1>3. /\ r \in RouteNames /\ job.copy \in Objects /\ job.parents \in Seq(Entries)
      /\ job.copy.status \in Seq(Entries) /\ job # NoJob
  BY <1>1, <1>2, NoJobIsIdle DEF Jobs, Objects
<1>4. Cleared' = Cleared
  BY <1>1, ClearedKept
<1>5. ASSUME r \notin queue
      PROVE  /\ job.copy = seen[r] /\ seen[r].spec # "none"
             /\ HasForeign(job.copy.status) => HasForeign(merged)
             /\ same => TrueVerdicts(seen[r].status, seen[r].spec, r)
             /\ ~same => merged # seen[r].status
  <2>1. /\ job.copy = seen[r] /\ seen[r].spec # "none" /\ AllOurs(job.parents)
        /\ TrueVerdicts(job.parents, seen[r].spec, r)
    BY <1>1, <1>5 DEF VerdictInv, JobOK
  <2> QED BY <1>3, <2>1, MergedVerdicts
<1>6. CASE same /\ job' = [job EXCEPT !.at = "count"] /\ UNCHANGED <<routes, queue>>
  <2>1. job' \in Jobs /\ job'.at = "count"
    BY <1>2, <1>6 DEF Jobs
  <2>2. TypeInv' /\ ObjectsOK' /\ JobOK'
    BY <1>1, <1>6, <2>1 DEF VerdictInv, TypeInv, ObjectsOK, JobOK
  <2>3. VerdictsOK'
    <3> SUFFICES ASSUME NEW q \in RouteNames, q \notin queue, ~Overwritten(q)
                 PROVE  TrueVerdicts(seen[q].status, seen[q].spec, q)
      BY <1>1, <1>4, <1>6 DEF VerdictsOK, Overwritten, TrueVerdicts, HasForeign
    <3>1. CASE q = r
      BY <1>5, <1>6, <3>1
    <3>2. CASE q # r
      BY <3>2 DEF VerdictInv, VerdictsOK
    <3> QED BY <3>1, <3>2
  <2> QED BY <2>2, <2>3 DEF VerdictInv
<1>7. CASE /\ ~same /\ routes[r] = job.copy
           /\ routes' = [routes EXCEPT ![r].status = merged]
           /\ job' = [job EXCEPT !.at = "count"] /\ UNCHANGED queue
  <2>1. job' \in Jobs /\ job'.at = "count"
    BY <1>2, <1>7 DEF Jobs
  <2>2. merged \in Seq(Entries)
    <3>1. Foreign(job.copy.status) \in Seq(Entries)
      BY <1>3, ForeignEntries
    <3> QED BY <1>3, <3>1 DEF MergeRouteParentStatuses
  <2> HIDE DEF merged, same
  <2>3. /\ \A q \in RouteNames : q # r => routes'[q] = routes[q]
        /\ routes'[r].spec = routes[r].spec /\ routes'[r].uid = routes[r].uid
        /\ routes'[r].status = merged
        /\ routes' \in [RouteNames -> Objects]
    BY <1>3, <1>7, <2>2 DEF VerdictInv, TypeInv, Objects
  <2>4. TypeInv' /\ JobOK'
    BY <1>1, <1>7, <2>1, <2>3 DEF VerdictInv, TypeInv, JobOK
  <2>5. ObjectsOK'
    <3>1. routes[r].spec # "none"
      BY <1>1, <1>7 DEF VerdictInv, JobOK
    <3> SUFFICES ASSUME NEW q \in RouteNames
                 PROVE  /\ routes'[q].spec = "none" => routes'[q].status = <<>>
                        /\ seen[q].spec = "none" => seen[q].status = <<>>
                        /\ seen[q].uid <= routes'[q].uid
      BY <1>1 DEF ObjectsOK
    <3> QED BY <1>3, <2>3, <3>1 DEF VerdictInv, ObjectsOK
  <2>6. VerdictsOK'
    <3> SUFFICES ASSUME NEW q \in RouteNames, q \notin queue
                 PROVE  Overwritten(q)' \/ TrueVerdicts(seen[q].status, seen[q].spec, q)
      BY <1>1, <1>4, <1>7 DEF VerdictsOK, TrueVerdicts
    <3>1. CASE q = r
      BY <1>1, <1>5, <1>7, <2>3, <3>1 DEF Overwritten, HasForeign
    <3>2. CASE q # r
      BY <1>1, <2>3, <3>2 DEF VerdictInv, VerdictsOK, Overwritten
    <3> QED BY <3>1, <3>2
  <2> QED BY <2>4, <2>5, <2>6 DEF VerdictInv
<1>8. CASE ~same /\ GiveUp /\ UNCHANGED routes
  <2>1. job' = NoJob
    BY <1>8 DEF GiveUp
  <2> QED BY <1>1, <1>3, <1>8, <2>1, EndVerdicts
<1> QED BY <1>6, <1>7, <1>8 DEF WriteStatus

\* An event arrives: the route is queued, whatever it says.
LEMMA DeliverVerdicts ==
  ASSUME VerdictInv, NEW r \in RouteNames, DeliverRoute(r)
  PROVE  VerdictInv'
<1>1. /\ UNCHANGED <<routes, grants, job>> /\ queue' = queue \cup {r}
      /\ seen' = [seen EXCEPT ![r] = routes[r]]
  BY DEF DeliverRoute
<1>2. Cleared' = Cleared
  BY <1>1, ClearedKept
<1>3. /\ \A q \in RouteNames : q # r => seen'[q] = seen[q]
      /\ seen'[r] = routes[r] /\ seen' \in [RouteNames -> Objects]
  BY <1>1 DEF VerdictInv, TypeInv
<1>4. TypeInv'
  BY <1>1, <1>3 DEF VerdictInv, TypeInv
<1>5. ObjectsOK'
  <2>1. routes[r].uid <= routes[r].uid
    BY DEF VerdictInv, TypeInv, Objects
  <2> SUFFICES ASSUME NEW q \in RouteNames
               PROVE  /\ routes[q].spec = "none" => routes[q].status = <<>>
                      /\ seen'[q].spec = "none" => seen'[q].status = <<>>
                      /\ seen'[q].uid <= routes[q].uid
    BY <1>1 DEF ObjectsOK
  <2>2. CASE q = r
    BY <1>3, <2>1, <2>2 DEF VerdictInv, ObjectsOK
  <2>3. CASE q # r
    BY <1>3, <2>3 DEF VerdictInv, ObjectsOK
  <2> QED BY <2>2, <2>3
<1>6. JobOK'
  <2> SUFFICES ASSUME job.at = "write", job.route \notin queue'
               PROVE  seen'[job.route] = seen[job.route]
    BY <1>1, <1>2 DEF VerdictInv, JobOK, TrueVerdicts, AllOurs
  <2>1. job.route \in RouteNames
    BY NoJobIsIdle DEF VerdictInv, TypeInv, Jobs
  <2> QED BY <1>1, <1>3, <2>1
<1>7. VerdictsOK'
  <2> SUFFICES ASSUME NEW q \in RouteNames, q \notin queue',
                      ~(job.at = "write" /\ job.route = q)
               PROVE  Overwritten(q)' \/ TrueVerdicts(seen[q].status, seen[q].spec, q)'
    BY <1>1 DEF VerdictsOK
  <2>1. q # r /\ seen'[q] = seen[q] /\ routes'[q] = routes[q]
    BY <1>1, <1>3
  <2>2. Overwritten(q) \/ TrueVerdicts(seen[q].status, seen[q].spec, q)
    BY <1>1 DEF VerdictInv, VerdictsOK
  <2> QED BY <1>2, <2>1, <2>2 DEF Overwritten, TrueVerdicts, HasForeign
<1> QED BY <1>4, <1>5, <1>6, <1>7 DEF VerdictInv

\* A new operator queues every route there is.
LEMMA RestartVerdicts ==
  ASSUME VerdictInv, RestartOperator
  PROVE  VerdictInv'
<1>1. /\ UNCHANGED <<routes, grants>> /\ seen' = routes /\ job' = NoJob
      /\ queue' = {r \in RouteNames : routes[r].spec # "none"}
  BY DEF RestartOperator
<1>2. TypeInv'
  BY <1>1 DEF VerdictInv, TypeInv
<1>3. ObjectsOK'
  BY <1>1 DEF VerdictInv, TypeInv, ObjectsOK, Objects
<1>4. JobOK'
  BY <1>1, NoJobIsIdle DEF JobOK
<1>5. VerdictsOK'
  <2> SUFFICES ASSUME NEW q \in RouteNames, q \notin queue'
               PROVE  TrueVerdicts(seen[q].status, seen[q].spec, q)'
    BY DEF VerdictsOK
  <2>1. seen'[q].status = <<>>
    BY <1>1 DEF VerdictInv, ObjectsOK
  <2> QED BY <2>1 DEF TrueVerdicts
<1> QED BY <1>2, <1>3, <1>4, <1>5 DEF VerdictInv

\* What remains to be shown when only one route changes: that it stays overwritten.
LEMMA RouteChanges ==
  ASSUME VerdictInv, UNCHANGED <<seen, queue, job, grants>>, NEW r \in RouteNames,
         NEW o \in Objects, routes' = [routes EXCEPT ![r] = o],
         o.spec = "none" => o.status = <<>>, routes[r].uid <= o.uid,
         Overwritten(r) => Overwritten(r)'
  PROVE  VerdictInv'
<1>1. Cleared' = Cleared
  BY ClearedKept
<1>2. /\ \A q \in RouteNames : q # r => routes'[q] = routes[q]
      /\ routes'[r] = o /\ routes' \in [RouteNames -> Objects]
  BY DEF VerdictInv, TypeInv
<1>3. TypeInv'
  BY <1>2 DEF VerdictInv, TypeInv
<1>4. ObjectsOK'
  <2> SUFFICES ASSUME NEW q \in RouteNames
               PROVE  /\ routes'[q].spec = "none" => routes'[q].status = <<>>
                      /\ seen[q].spec = "none" => seen[q].status = <<>>
                      /\ seen[q].uid <= routes'[q].uid
    BY DEF ObjectsOK
  <2>1. seen[r].uid \in Nat /\ routes[r].uid \in Nat /\ o.uid \in Nat
    BY DEF VerdictInv, TypeInv, Objects
  <2>2. CASE q = r
    BY <1>2, <2>1, <2>2 DEF VerdictInv, ObjectsOK
  <2>3. CASE q # r
    BY <1>2, <2>3 DEF VerdictInv, ObjectsOK
  <2> QED BY <2>2, <2>3
<1>5. JobOK'
  BY <1>1 DEF VerdictInv, JobOK, TrueVerdicts, AllOurs
<1>6. VerdictsOK'
  <2> SUFFICES ASSUME NEW q \in RouteNames, Overwritten(q)
               PROVE  Overwritten(q)'
    BY <1>1 DEF VerdictInv, VerdictsOK, TrueVerdicts
  <2>1. CASE q = r
    BY <2>1
  <2>2. CASE q # r
    BY <1>2, <2>2 DEF Overwritten, HasForeign
  <2> QED BY <2>1, <2>2
<1> QED BY <1>3, <1>4, <1>5, <1>6 DEF VerdictInv

\* A user edits, deletes or creates a route: an overwritten copy stays overwritten,
\* because a new object has a new uid.
LEMMA EditVerdicts ==
  ASSUME VerdictInv, NEW r \in RouteNames, NEW s \in SpecNames, EditRoute(r, s)
  PROVE  VerdictInv'
<1> DEFINE o == [spec   |-> s,
                 status |-> IF s = "none" THEN <<>> ELSE routes[r].status,
                 uid    |-> IF routes[r].spec = "none" THEN routes[r].uid + 1
                                                       ELSE routes[r].uid]
<1>1. UNCHANGED <<seen, queue, job, grants>> /\ routes' = [routes EXCEPT ![r] = o]
  BY DEF EditRoute, ctlVars
<1>2. /\ routes[r].status \in Seq(Entries) /\ routes[r].uid \in Nat
      /\ seen[r].uid \in Nat /\ seen[r].uid <= routes[r].uid
  BY DEF VerdictInv, TypeInv, Objects, ObjectsOK
<1>3. o \in Objects /\ routes[r].uid <= o.uid /\ (o.spec = "none" => o.status = <<>>)
  BY <1>2 DEF Objects
<1>4. routes'[r] = o
  BY <1>1 DEF VerdictInv, TypeInv
<1>5. ASSUME Overwritten(r) PROVE Overwritten(r)'
  <2>1. CASE s = "none"
    BY <1>1, <1>4, <1>5, <2>1 DEF Overwritten
  <2>2. CASE s # "none" /\ routes[r].spec = "none"
    <3>1. routes'[r].uid > seen'[r].uid
      BY <1>1, <1>2, <1>4, <2>2
    <3> QED BY <1>1, <1>5, <3>1 DEF Overwritten
  <2>3. CASE s # "none" /\ routes[r].spec # "none"
    <3>1. routes'[r].uid = routes[r].uid /\ routes'[r].status = routes[r].status
      BY <1>4, <2>3
    <3> QED BY <1>1, <1>5, <2>3, <3>1 DEF Overwritten, HasForeign
  <2> QED BY <2>1, <2>2, <2>3
<1> HIDE DEF o
<1> QED BY <1>1, <1>3, <1>5, RouteChanges

\* An object with another status.
LEMMA StatusReplaced ==
  ASSUME NEW x \in Objects, NEW st \in Seq(Entries)
  PROVE  LET y == [x EXCEPT !.status = st] IN
         y \in Objects /\ y.spec = x.spec /\ y.uid = x.uid /\ y.status = st
BY DEF Objects

\* Another controller writes: an overwritten copy stays overwritten, because what
\* the merge left has the foreign entries of the copy.
LEMMA ForeignVerdicts ==
  ASSUME VerdictInv, NEW r \in RouteNames, ForeignStatus(r)
  PROVE  VerdictInv'
<1>1. PICK ref \in Range(SpecOf(routes[r].spec).parents), judged \in BOOLEAN :
        /\ ref.kind = "Gateway" /\ ParentOf(ref, RouteNS[r]) = Gateway
        /\ routes' = [routes EXCEPT ![r].status =
          Append(@, [ctrl |-> "other", ref |-> ref, accepted |-> TRUE, judged |-> judged,
                     resolved |-> judged /\ BackendRefsPermitted(routes[r].spec, r)])]
  BY DEF ForeignStatus
<1> DEFINE e == [ctrl |-> "other", ref |-> ref, accepted |-> TRUE, judged |-> judged,
                 resolved |-> judged /\ BackendRefsPermitted(routes[r].spec, r)]
           st == routes[r].status
           o  == [routes[r] EXCEPT !.status = Append(st, e)]
<1>2. routes[r] \in Objects /\ routes[r].spec \in SpecNames /\ st \in Seq(Entries)
      /\ seen[r].uid <= routes[r].uid /\ routes[r].uid \in Nat
  BY DEF VerdictInv, TypeInv, Objects, ObjectsOK
<1>3. e \in Entries
  <2>1. ref \in Refs
    BY <1>1, <1>2 DEF Refs, ParentRefs, ParentRefMatches
  <2>2. BackendRefsPermitted(routes[r].spec, r) \in BOOLEAN
    BY DEF BackendRefsPermitted
  <2> QED BY <2>1, <2>2 DEF Entries
<1>4. e.ctrl # "us"
  OBVIOUS
<1>5. UNCHANGED <<seen, queue, job, grants>> /\ routes' = [routes EXCEPT ![r] = o]
  BY <1>1 DEF ForeignStatus, ctlVars
<1> HIDE DEF e
<1>6. /\ o \in Objects /\ o.spec = routes[r].spec /\ o.uid = routes[r].uid
      /\ o.status = Append(st, e)
  <2>1. Append(st, e) \in Seq(Entries)
    BY <1>2, <1>3
  <2> QED BY <1>2, <2>1, StatusReplaced
<1>7. ~HasForeign(st)
  BY <1>2, ForeignEntries DEF ForeignStatus
<1>8. HasForeign(o.status)
  <2>1. Len(st) + 1 \in DOMAIN o.status /\ o.status[Len(st) + 1] = e
    BY <1>2, <1>3, <1>6
  <2> QED BY <1>4, <2>1 DEF HasForeign
<1>9. routes[r].spec # "none"
  BY DEF ForeignStatus, SpecOf, NoSpec, Range
<1> HIDE DEF o
<1>10. routes'[r] = o
  BY <1>5 DEF VerdictInv, TypeInv
<1>11. ASSUME Overwritten(r) PROVE Overwritten(r)'
  <2>1. CASE routes[r].uid > seen[r].uid
    BY <1>5, <1>6, <1>10, <1>11, <2>1 DEF Overwritten
  <2>2. CASE HasForeign(seen[r].status) => HasForeign(routes[r].status)
    <3>1. ~HasForeign(seen[r].status)
      BY <1>7, <2>2
    <3>2. seen'[r].status # routes'[r].status
      BY <1>5, <1>8, <1>10, <3>1
    <3>3. HasForeign(routes[r].status)'
      BY <1>8, <1>10 DEF HasForeign
    <3> QED BY <1>5, <1>11, <3>2, <3>3 DEF Overwritten
  <2> QED BY <1>9, <1>11, <2>1, <2>2 DEF Overwritten
<1>12. routes[r].uid <= o.uid
  BY <1>2, <1>6
<1> QED BY <1>5, <1>6, <1>9, <1>11, <1>12, RouteChanges

\* A grant comes or goes: the routes it concerns are queued.
LEMMA GrantVerdicts ==
  ASSUME VerdictInv, NEW g \in Grants, ChangeGrant(g)
  PROVE  VerdictInv'
<1>1. UNCHANGED <<routes, seen, job>> /\ queue \subseteq queue' /\ queue' \subseteq RouteNames
  BY DEF ChangeGrant, RoutesForGrant, VerdictInv, TypeInv
<1>2. \A r \in RouteNames : \A s : seen[r].spec # "none" /\ r \notin queue' =>
        (<<s, r>> \in Cleared' <=> <<s, r>> \in Cleared)
  BY ClearedElsewhere
<1>3. TypeInv' /\ ObjectsOK'
  BY <1>1 DEF VerdictInv, TypeInv, ObjectsOK
<1>4. JobOK'
  <2> SUFFICES ASSUME job.at = "write", job.route \notin queue'
               PROVE  TrueVerdicts(job.parents, job.copy.spec, job.route)'
    BY <1>1 DEF VerdictInv, JobOK, AllOurs
  <2>1. job.route \in RouteNames
    BY NoJobIsIdle DEF VerdictInv, TypeInv, Jobs
  <2>2. /\ job.route \notin queue /\ seen[job.route].spec # "none"
        /\ TrueVerdicts(job.parents, job.copy.spec, job.route)
    BY <1>1 DEF VerdictInv, JobOK
  <2> QED BY <1>1, <1>2, <2>1, <2>2 DEF TrueVerdicts
<1>5. VerdictsOK'
  <2> SUFFICES ASSUME NEW r \in RouteNames, r \notin queue',
                      ~(job.at = "write" /\ job.route = r), ~Overwritten(r)
               PROVE  TrueVerdicts(seen[r].status, seen[r].spec, r)'
    BY <1>1 DEF VerdictsOK, Overwritten, HasForeign
  <2>1. TrueVerdicts(seen[r].status, seen[r].spec, r)
    BY <1>1 DEF VerdictInv, VerdictsOK
  <2>2. CASE seen[r].spec = "none"
    <3>1. seen'[r].status = <<>>
      BY <1>1, <2>2 DEF VerdictInv, ObjectsOK
    <3> QED BY <3>1 DEF TrueVerdicts
  <2>3. CASE seen[r].spec # "none"
    BY <1>1, <1>2, <2>1, <2>3 DEF TrueVerdicts
  <2> QED BY <2>2, <2>3
<1> QED BY <1>3, <1>4, <1>5 DEF VerdictInv

\* Every step keeps VerdictInv.
LEMMA NextVerdicts ==
  ASSUME VerdictInv, [Next]_vars
  PROVE  VerdictInv'
<1>1. CASE UNCHANGED vars
  BY <1>1, ElsewhereVerdicts DEF vars, ctlVars
<1>2. CASE RouteWorker
  <2>1. CASE CountAttached
    <3>1. /\ UNCHANGED <<routes, seen, grants, queue>> /\ job' = NoJob /\ job.at # "write"
      BY <2>1 DEF CountAttached
    <3> QED BY <3>1, EndVerdicts
  <2> QED BY <1>2, <2>1, TakeVerdicts, WriteVerdicts DEF RouteWorker
<1>3. CASE Informer
  BY <1>3, DeliverVerdicts DEF Informer
<1>4. CASE ReconcileGateway \/ Router \/ RestartRouter \/ GatewayEvent
  <2>1. UNCHANGED <<routes, seen, queue, job, grants>>
    BY <1>4 DEF ReconcileGateway, Router, Sync, Watch, Rebuild, NewLists, NewSets,
                RestartRouter, GatewayEvent, ctlVars
  <2> QED BY <2>1, ElsewhereVerdicts
<1>5. CASE CallFails
  <2>1. UNCHANGED <<routes, seen, grants>> /\ GiveUp /\ job # NoJob /\ job' = NoJob
    BY <1>5 DEF CallFails, GiveUp
  <2> QED BY <2>1, EndVerdicts
<1>6. CASE RestartOperator
  BY <1>6, RestartVerdicts
<1>7. CASE \E r \in RouteNames, s \in SpecNames : EditRoute(r, s)
  BY <1>7, EditVerdicts
<1>8. CASE \E to \in {"absent", "foreign", "ours"} : ChangeGateway(to)
  <2>1. UNCHANGED <<routes, seen, queue, job, grants>>
    BY <1>8 DEF ChangeGateway, ctlVars
  <2> QED BY <2>1, ElsewhereVerdicts
<1>9. CASE \E g \in Grants : ChangeGrant(g)
  BY <1>9, GrantVerdicts
<1>10. CASE \E r \in RouteNames : ForeignStatus(r)
  BY <1>10, ForeignVerdicts
<1> QED BY <1>1, <1>2, <1>3, <1>4, <1>5, <1>6, <1>7, <1>8, <1>9, <1>10 DEF Next

----------------------------------------------------------------------------
\* Every step keeps TableInv.
LEMMA NextTable ==
  ASSUME TableInv, [Next]_vars
  PROVE  TableInv'
<1>1. CASE UNCHANGED <<store, owed, overlap, phase, first, table>>
  BY <1>1 DEF TableInv, Compiled
<1>2. CASE Sync
  BY <1>2 DEF Sync, TableInv
<1>3. CASE \E r \in Visible : Watch(r)
  BY <1>3 DEF Watch, TableInv
<1>4. CASE Rebuild
  <2>1. /\ table' = Compiled' /\ phase' = phase
        /\ overlap' = (phase = "init" /\ first # Compiled) /\ first' = first
        /\ Compiled' = Compiled
    BY <1>4 DEF Rebuild, Compiled
  <2> QED BY <2>1 DEF TableInv
<1>5. CASE NewLists
  <2>1. first' = Compiled' /\ phase' = "init"
    BY <1>5 DEF NewLists, Compiled
  <2> QED BY <2>1 DEF TableInv
<1>6. CASE NewSets
  <2>1. /\ table' = first /\ phase = "init" /\ phase' = "serving"
        /\ owed' = owed /\ overlap' = overlap /\ Compiled' = Compiled
    BY <1>6 DEF NewSets, Compiled
  <2> QED BY <2>1 DEF TableInv
<1>7. CASE ReconcileGateway
  <2>1. /\ UNCHANGED <<store, owed, overlap, first, table>>
        /\ phase' = phase \/ phase' = "start"
    BY <1>7 DEF ReconcileGateway
  <2>2. Compiled' = Compiled
    BY <2>1 DEF Compiled
  <2> QED BY <2>1, <2>2 DEF TableInv
<1>8. CASE RestartRouter
  BY <1>8 DEF RestartRouter, NewPod, TableInv
<1>9. CASE \E to \in {"absent", "foreign", "ours"} : ChangeGateway(to)
  <2>1. phase' = "down" \/ UNCHANGED <<store, owed, overlap, phase, first, table>>
    BY <1>9 DEF ChangeGateway, NewPod, routerVars
  <2> QED BY <1>1, <2>1 DEF TableInv
<1>10. CASE RouteWorker \/ Informer \/ CallFails \/ RestartOperator \/ GatewayEvent
  <2>1. UNCHANGED <<store, owed, overlap, phase, first, table>>
    BY <1>10 DEF RouteWorker, Take, WriteStatus, CountAttached, Informer, DeliverRoute,
                 CallFails, RestartOperator, GatewayEvent, routerVars
  <2> QED BY <1>1, <2>1
<1>11. CASE \/ \E r \in RouteNames, s \in SpecNames : EditRoute(r, s)
            \/ \E g \in Grants : ChangeGrant(g)
            \/ \E r \in RouteNames : ForeignStatus(r)
  <2>1. UNCHANGED <<store, owed, overlap, phase, first, table>>
    BY <1>11 DEF EditRoute, ChangeGrant, ForeignStatus, routerVars
  <2> QED BY <1>1, <2>1
<1>12. CASE UNCHANGED vars
  <2>1. UNCHANGED <<store, owed, overlap, phase, first, table>>
    BY <1>12 DEF vars, routerVars
  <2> QED BY <1>1, <2>1
<1> QED BY <1>2, <1>3, <1>4, <1>5, <1>6, <1>7, <1>8, <1>9, <1>10, <1>11, <1>12
        DEF Next, Router

----------------------------------------------------------------------------
\* Without a verdict only backends of the route's own namespace are compiled.
LEMMA DroppedBackends ==
  ASSUME NEW s \in SpecNames, NEW ns,
         NEW rules, rules = RulesFromHTTPRoute(SpecOf(s), ns),
         NEW i \in DOMAIN DropCrossNSBackends(rules, ns),
         NEW b \in Range(DropCrossNSBackends(rules, ns)[i].backends)
  PROVE  b.ns = ns
<1> DEFINE bs == rules[i].backends
           I  == {k \in DOMAIN bs : bs[k].ns = ns}
<1>1. i \in DOMAIN rules /\ i \in DOMAIN SpecOf(s).rules
  BY DEF DropCrossNSBackends, RulesFromHTTPRoute
<1>2. s # "none"
  BY <1>1 DEF SpecOf, NoSpec
<1>3. SpecOf(s).rules[i].backends \in Seq(Range(SpecOf(s).rules[i].backends))
  BY <1>1, <1>2, ManifestAssumption DEF SpecOf, SpecNames
<1>4. /\ DropCrossNSBackends(rules, ns)[i].backends = Kept(bs, I)
      /\ bs = ConvertBackends(SpecOf(s).rules[i].backends, ns)
  BY <1>1 DEF DropCrossNSBackends, RulesFromHTTPRoute
<1>5. bs \in Seq(Range(bs))
  <2> DEFINE refs == SpecOf(s).rules[i].backends
  <2>1. DOMAIN refs = 1 .. Len(refs) /\ Len(refs) \in Nat
    BY <1>3
  <2>2. DOMAIN bs = DOMAIN refs
    BY <1>4 DEF ConvertBackends
  <2>3. bs = [k \in 1 .. Len(refs) |-> bs[k]]
    BY <1>4, <2>1 DEF ConvertBackends
  <2>4. \A k \in 1 .. Len(refs) : bs[k] \in Range(bs)
    BY <2>1, <2>2 DEF Range
  <2> HIDE DEF refs, bs
  <2> QED BY <2>1, <2>3, <2>4
<1>6. I \subseteq DOMAIN bs /\ \A k \in I : bs[k].ns = ns
  OBVIOUS
<1> HIDE DEF bs, I
<1>7. \A k \in DOMAIN Kept(bs, I) : \E j \in I : Kept(bs, I)[k] = bs[j]
  BY <1>5, <1>6, KeptIsSelection
<1> QED BY <1>4, <1>6, <1>7 DEF Range

\* What is compiled of a spec whose references are permitted is permitted.
LEMMA ConvertedBackends ==
  ASSUME NEW s \in SpecNames, NEW r \in RouteNames, BackendRefsPermitted(s, r),
         NEW i \in DOMAIN RulesFromHTTPRoute(SpecOf(s), RouteNS[r]),
         NEW b \in Range(RulesFromHTTPRoute(SpecOf(s), RouteNS[r])[i].backends)
  PROVE  Permitted(b, RouteNS[r])
<1> DEFINE ns == RouteNS[r]
           refs == SpecOf(s).rules[i].backends
<1>1. i \in DOMAIN SpecOf(s).rules
  BY DEF RulesFromHTTPRoute
<1>2. PICK k \in DOMAIN refs : b = [refs[k] EXCEPT !.ns = NamespaceOf(refs[k], ns)]
  BY <1>1 DEF RulesFromHTTPRoute, ConvertBackends, Range
<1>3. refs[k] \in BackendRefs(s)
  BY <1>1 DEF BackendRefs, Range
<1>4. Permitted(refs[k], ns)
  BY <1>3 DEF BackendRefsPermitted
<1>5. s # "none"
  BY <1>1 DEF SpecOf, NoSpec
<1>6. {"ns", "name"} \subseteq DOMAIN refs[k]
  BY <1>1, <1>5, ManifestAssumption DEF SpecOf, SpecNames
<1> HIDE DEF refs, ns
<1>7. /\ {"ns", "name"} \subseteq DOMAIN b
      /\ b.ns = NamespaceOf(refs[k], ns) /\ b.name = refs[k].name
  BY <1>2, <1>6
<1>8. NamespaceOf(b, ns) = NamespaceOf(refs[k], ns)
  BY <1>7 DEF NamespaceOf
<1>9. CASE NamespaceOf(refs[k], ns) = ns
  BY <1>8, <1>9 DEF Permitted, ns
<1>10. CASE Allows(ns, [refs[k] EXCEPT !.ns = NamespaceOf(refs[k], ns)])
  <2> DEFINE n  == NamespaceOf(refs[k], ns)
             t1 == [refs[k] EXCEPT !.ns = n]
             t2 == [b EXCEPT !.ns = n]
  <2>1. t1.ns = t2.ns /\ t1.name = t2.name
    <3> HIDE DEF n
    <3> QED BY <1>6, <1>7
  <2>2. Allows(ns, t1)
    BY <1>10
  <2> HIDE DEF t1, t2
  <2>3. Allows(ns, t2)
    BY <2>1, <2>2 DEF Allows
  <2> QED BY <1>8, <2>3 DEF Permitted, t2, ns
<1> QED BY <1>4, <1>9, <1>10 DEF Permitted

\* The invariants imply FailClosed: an entry of ours that admits is right, and
\* without one only backends of the own namespace are compiled.
LEMMA QuietFailsClosed ==
  ASSUME VerdictInv, TableInv
  PROVE  FailClosed
<1> SUFFICES ASSUME ControllerQuiet, RouterQuiet, ~overlap, NEW r \in Visible,
                    ~ForeignVerdict(r), NEW b \in Served(r)
             PROVE  Permitted(b, RouteNS[r])
  BY DEF FailClosed
<1> DEFINE s == routes[r].spec
           st == routes[r].status
           ns == RouteNS[r]
<1>1. r \in RouteNames /\ s \in SpecNames
  BY DEF Visible, VerdictInv, TypeInv, Objects
<1>2. table[r] = CompileRoute(routes[r], r)
  BY DEF TableInv, RouterQuiet, Compiled
<1>3. Routed(s, r)
  <2> SUFFICES ASSUME ~Routed(s, r) PROVE FALSE
    OBVIOUS
  <2>1. table[r].spec = "none"
    BY <1>2 DEF CompileRoute, Nothing
  <2>2. DOMAIN RulesFromHTTPRoute(SpecOf(table[r].spec), ns) = {}
    BY <2>1 DEF RulesFromHTTPRoute, SpecOf, NoSpec
  <2>3. DOMAIN RulesOf(table[r], r) = {}
    BY <2>2 DEF RulesOf, DropCrossNSBackends
  <2> QED BY <2>3 DEF Served
<1>4. table[r] = [spec |-> s, all |-> RefsResolvedFor(st, r)]
  BY <1>2, <1>3 DEF CompileRoute
<1>5. CASE RefsResolvedFor(st, r)
  <2>1. PICK i \in DOMAIN st : Judges(st[i], r) /\ st[i].resolved
    BY <1>5 DEF RefsResolvedFor
  <2>2. st[i].ctrl = "us"
    BY <2>1 DEF ForeignVerdict
  <2>3. TrueVerdicts(st, s, r)
    <3>1. ~Overwritten(r) /\ seen[r] = routes[r]
      BY <1>1 DEF ControllerQuiet, Overwritten, VerdictInv, TypeInv, Objects
    <3> QED BY <1>1, <3>1, NoJobIsIdle DEF VerdictInv, VerdictsOK, ControllerQuiet
  <2>4. BackendRefsPermitted(s, r)
    BY <2>1, <2>2, <2>3 DEF TrueVerdicts, Cleared
  <2>5. RulesOf(table[r], r) = RulesFromHTTPRoute(SpecOf(s), ns)
    BY <1>4, <1>5 DEF RulesOf
  <2>6. PICK i2 \in DOMAIN RulesFromHTTPRoute(SpecOf(s), ns) :
          b \in Range(RulesFromHTTPRoute(SpecOf(s), ns)[i2].backends)
    BY <2>5 DEF Served
  <2> QED BY <1>1, <2>4, <2>6, ConvertedBackends
<1>6. CASE ~RefsResolvedFor(st, r)
  <2> DEFINE rules == RulesFromHTTPRoute(SpecOf(s), ns)
  <2>1. RulesOf(table[r], r) = DropCrossNSBackends(rules, ns)
    BY <1>4, <1>6 DEF RulesOf
  <2>2. PICK i \in DOMAIN DropCrossNSBackends(rules, ns) :
          b \in Range(DropCrossNSBackends(rules, ns)[i].backends)
    BY <2>1 DEF Served
  <2>3. b.ns = ns
    <3> HIDE DEF ns
    <3> QED BY <1>1, <2>2, DroppedBackends
  <2> QED BY <2>3 DEF Permitted, NamespaceOf
<1> QED BY <1>5, <1>6

\* Once controller and router have caught up, no backend of another namespace is
\* served without a ReferenceGrant: for any routes, specs, grants and sequence
\* of edits, failures and restarts.
THEOREM FailsClosed == Spec => []FailClosed
<1>1. Init => VerdictInv /\ TableInv
  BY InitVerdicts DEF Init, TableInv
<1>2. VerdictInv /\ TableInv /\ [Next]_vars => (VerdictInv /\ TableInv)'
  BY NextVerdicts, NextTable
<1>3. VerdictInv /\ TableInv => FailClosed
  BY QuietFailsClosed
<1> QED BY <1>1, <1>2, <1>3, PTL DEF Spec

\* The merge keeps the entries of other controllers, in their order.
LEMMA MergeKeepsForeign ==
  ASSUME NEW st \in Seq(Entries), NEW d \in Seq(Entries), AllOurs(d)
  PROVE  Foreign(MergeRouteParentStatuses(st, d)) = Foreign(st)
<1> DEFINE f == Foreign(st)
           merged == f \o d
           n == Len(f)
           at == Ascending(1 .. n)
<1>1. f \in Seq(Entries) /\ \A k \in DOMAIN f : f[k].ctrl # "us"
  BY ForeignEntries
<1> HIDE DEF f
<1>2. /\ merged \in Seq(Entries) /\ Len(merged) = n + Len(d)
      /\ \A i \in 1 .. n : merged[i] = f[i]
      /\ \A i \in (n + 1) .. Len(merged) : merged[i] = d[i - n]
      /\ n \in Nat /\ Len(d) \in Nat
  BY <1>1
<1> HIDE DEF merged
<1>3. {i \in DOMAIN merged : merged[i].ctrl # "us"} = 1 .. n
  <2>1. ASSUME NEW i \in DOMAIN merged PROVE merged[i].ctrl # "us" <=> i \in 1 .. n
    <3>1. CASE i \in 1 .. n
      BY <1>1, <1>2, <3>1
    <3>2. CASE ~(i \in 1 .. n)
      <4>1. i \in (n + 1) .. Len(merged) /\ i - n \in DOMAIN d
        <5>1. i \in 1 .. Len(merged)
          BY <1>2
        <5>2. i \in (n + 1) .. Len(merged) /\ i - n \in 1 .. Len(d)
          <6> HIDE DEF n
          <6> QED BY <1>2, <3>2, <5>1
        <5> QED BY <5>2
      <4> QED BY <1>2, <3>2, <4>1 DEF AllOurs
    <3> QED BY <3>1, <3>2
  <2>2. 1 .. n \subseteq DOMAIN merged
    BY <1>2
  <2> QED BY <2>1, <2>2
<1>4. Foreign(merged) = [k \in DOMAIN at |-> merged[at[k]]]
  BY <1>3 DEF Foreign, Kept
<1>5. Enumerates(at, 1 .. n)
  <2>1. \E g : Enumerates(g, 1 .. n)
    BY <1>2, AscendingExists
  <2> QED BY <2>1, Zenon DEF Ascending, Enumerates
<1>6. DOMAIN at = 1 .. n
  <2>1. Cardinality(1 .. n) = n
    BY <1>2, IntervalSize
  <2> QED BY <1>5, <2>1 DEF Enumerates
<1>7. \A k \in 1 .. n : at[k] = k
  BY <1>2, <1>5, AscendingInterval
<1> HIDE DEF at
<1>8. Foreign(merged) = [k \in 1 .. n |-> f[k]]
  BY <1>2, <1>4, <1>6, <1>7
<1>9. f = [k \in 1 .. n |-> f[k]]
  BY <1>1
<1> QED BY <1>8, <1>9 DEF MergeRouteParentStatuses, merged, f

\* The action of ForeignEntriesKept.
KeepsForeign ==
  \A r \in RouteNames :
    Foreign(routes'[r].status) # Foreign(routes[r].status)
      => routes'[r].spec = "none" \/ (gateway = "foreign" /\ events' # events)

\* Events are counted.
LEMMA NextEvents ==
  ASSUME events \in Nat, [Next]_vars
  PROVE  events' \in Nat
<1>1. CASE UNCHANGED vars \/ RouteWorker \/ Informer \/ ReconcileGateway \/ Router
  BY <1>1 DEF vars, RouteWorker, Take, WriteStatus, CountAttached, Informer, DeliverRoute,
              ReconcileGateway, Router, Sync, Watch, Rebuild, NewLists, NewSets
<1>2. CASE \/ CallFails \/ RestartOperator \/ RestartRouter \/ GatewayEvent
           \/ \E r \in RouteNames, s \in SpecNames : EditRoute(r, s)
           \/ \E to \in {"absent", "foreign", "ours"} : ChangeGateway(to)
           \/ \E g \in Grants : ChangeGrant(g)
           \/ \E r \in RouteNames : ForeignStatus(r)
  <2>1. Event
    BY <1>2 DEF CallFails, RestartOperator, RestartRouter, GatewayEvent, EditRoute,
                ChangeGateway, ChangeGrant, ForeignStatus
  <2> QED BY <2>1 DEF Event
<1> QED BY <1>1, <1>2 DEF Next

\* No step changes an entry of another controller, except that controller's.
LEMMA StepKeepsForeign ==
  ASSUME VerdictInv, events \in Nat, Next
  PROVE  KeepsForeign
<1>1. CASE UNCHANGED routes
  BY <1>1 DEF KeepsForeign
<1>2. CASE WriteStatus
  <2> DEFINE r == job.route
             merged == MergeRouteParentStatuses(job.copy.status, job.parents)
  <2>1. SUFFICES ASSUME routes[r] = job.copy,
                        routes' = [routes EXCEPT ![r].status = merged]
                 PROVE  KeepsForeign
    BY <1>1, <1>2 DEF WriteStatus
  <2>2. job.at = "write" /\ job \in Jobs
    BY <1>2, NoJobIsIdle DEF WriteStatus, VerdictInv, TypeInv
  <2>3. /\ r \in RouteNames /\ job.parents \in Seq(Entries)
        /\ job.copy.status \in Seq(Entries) /\ AllOurs(job.parents)
    BY <2>2 DEF Jobs, Objects, VerdictInv, JobOK
  <2>4. Foreign(merged) = Foreign(routes[r].status)
    BY <2>1, <2>3, MergeKeepsForeign
  <2> HIDE DEF merged
  <2>5. /\ routes'[r].status = merged
        /\ \A q \in RouteNames : q # r => routes'[q] = routes[q]
    BY <2>1, <2>3 DEF VerdictInv, TypeInv, Objects
  <2> QED BY <2>4, <2>5 DEF KeepsForeign
<1>3. CASE \E r \in RouteNames, s \in SpecNames : EditRoute(r, s)
  <2> PICK r \in RouteNames, s \in SpecNames : EditRoute(r, s)
    BY <1>3
  <2>1. /\ routes'[r].spec = s
        /\ routes'[r].status = IF s = "none" THEN <<>> ELSE routes[r].status
        /\ \A q \in RouteNames : q # r => routes'[q] = routes[q]
    BY DEF EditRoute, VerdictInv, TypeInv
  <2> QED BY <2>1 DEF KeepsForeign
<1>4. CASE \E r \in RouteNames : ForeignStatus(r)
  <2>1. gateway = "foreign" /\ events' = events + 1
    BY <1>4 DEF ForeignStatus, Event
  <2>2. events' # events
    BY <2>1
  <2> QED BY <2>1, <2>2 DEF KeepsForeign
<1>5. CASE RouteWorker /\ ~WriteStatus
  BY <1>1, <1>5 DEF RouteWorker, Take, CountAttached
<1>6. CASE Informer \/ ReconcileGateway \/ Router \/ CallFails
  BY <1>1, <1>6 DEF Informer, DeliverRoute, ReconcileGateway, Router, Sync, Watch, Rebuild,
                    NewLists, NewSets, CallFails
<1>7. CASE \/ RestartOperator \/ RestartRouter \/ GatewayEvent
           \/ \E to \in {"absent", "foreign", "ours"} : ChangeGateway(to)
           \/ \E g \in Grants : ChangeGrant(g)
  BY <1>1, <1>7 DEF RestartOperator, RestartRouter, GatewayEvent, ChangeGateway, ChangeGrant
<1> QED BY <1>2, <1>3, <1>4, <1>5, <1>6, <1>7 DEF Next

\* The HTTPRoute controller never drops, restores or reorders the entry of another
\* controller.
THEOREM ForeignEntriesStay == Spec => ForeignEntriesKept
<1>1. Init => VerdictInv /\ events \in Nat
  <2>1. Init => events \in Nat
    BY DEF Init
  <2> QED BY <2>1, InitVerdicts
<1>2. VerdictInv /\ events \in Nat /\ [Next]_vars => (VerdictInv /\ events \in Nat)'
  BY NextVerdicts, NextEvents
<1>3. VerdictInv /\ events \in Nat /\ [Next]_vars => [KeepsForeign]_vars
  BY StepKeepsForeign
<1>4. Spec => [][KeepsForeign]_vars
  BY <1>1, <1>2, <1>3, PTL DEF Spec
<1> QED BY <1>4 DEF ForeignEntriesKept, KeepsForeign
============================================================================
