------------------------- MODULE GatewayReconciler -------------------------
(***************************************************************************)
(* The Gateway reconciler of internal/controller/gateway_controller.go for *)
(* one Gateway: the choice between Mode A (one Tor Deployment) and Mode B  *)
(* (onionbalance HA), the teardown of the other mode, the finalizer that   *)
(* guards the cross-namespace RBAC, and the status the Gateway publishes.  *)
(*                                                                         *)
(* One API call of the reconciler is one step.  Every call can fail, the   *)
(* manager can restart between any two, users edit the inputs at any time, *)
(* and everything the reconciler reads comes from an informer cache that   *)
(* may lag behind the API server.  Variables of three kinds hold the three *)
(* views: gw, obp and objs are the API server's objects, cgw, cobp and     *)
(* cobjs what the informers have delivered, lgw and lobp what the running  *)
(* Reconcile call has in hand.                                             *)
(***************************************************************************)
EXTENDS Integers, Sequences

CONSTANTS
  Namespaces,   \* namespaces other than the Gateway's that can hold a master key
  Refs,         \* the masterKeySecretRef.namespace values a policy may name
  Lagging,      \* informers that may lag; the others deliver at once
  Edits,        \* the kinds of change users make
  Harvests,     \* whether the TorServicePolicy may ask for a vanityPrefix
  MaxEdits,     \* bound on user changes
  MaxFaults     \* bound on failed API calls and manager restarts

\* masterKeySecretRef names no namespace (or the Gateway's own).
OwnNS == "own"

(***************************************************************************)
(* The child objects, grouped by role.  "torrc" is Mode A's ConfigMap,     *)
(* "haConfig" Mode B's two; "routerRBAC" and "frontendRBAC" are each a     *)
(* ServiceAccount, Role and RoleBinding; "vanity" is the harvest's RBAC,   *)
(* output Secret and Job; "backendSecrets" are the per-replica key         *)
(* Secrets.  A namespace n of Namespaces stands for the Role and           *)
(* RoleBinding the reconciler puts there: they carry no owner reference.   *)
(***************************************************************************)
ModeAOnly == {"deployment", "service", "keys", "torrc", "vanity"}

ModeBOnly == {"frontend", "backends", "headless", "haConfig", "frontendRBAC",
              "backendSecrets"}

Owned == ModeAOnly \cup ModeBOnly \cup {"netpol", "routerRBAC"}

Objects == Owned \cup Namespaces

ASSUME ConstantsAssumption ==
  /\ Namespaces \cap (Owned \cup {OwnNS}) = {}
  /\ Refs \subseteq Namespaces \cup {OwnNS}
  /\ MaxEdits \in Nat /\ MaxFaults \in Nat
  /\ Harvests \subseteq BOOLEAN

VARIABLES
  gw, cgw, lgw,      \* the Gateway: API server, informer cache, Reconcile's copy
  obp, cobp, lobp,   \* the OnionBalancePolicy, the same three views
  objs, cobjs,       \* child objects on the API server and in the cache
  key, ckey, lkey,   \* id of the last key generated, of the cached one, in hand
  misread,           \* history: the key in hand came from a Secret that was gone
                     \* or had been replaced, but not yet in the cache
  retired,           \* history: keys up to this id were superseded by Mode B
  managed,           \* the Gateway's class exists and names our controller
  master, grant,     \* the master key Secret, the ReferenceGrant for it
  harvest,           \* the TorServicePolicy asks for a vanityPrefix
  ready,             \* workloads that got there: frontend Available, harvest done
  phase, step,       \* where Reconcile is: the function and the call in it
  reason,            \* argument of setProgrammingCondition
  queued, obpQueued, \* the workqueues of the Gateway and OBP controllers
  edits, faults      \* changes and faults so far

apiVars   == <<gw, obp, objs, key, retired>>
cacheVars == <<cgw, cobp, cobjs, ckey>>
localVars == <<lgw, lobp, lkey, misread, reason>>
envVars   == <<managed, master, grant, harvest>>
boundVars == <<edits, faults>>
vars == <<apiVars, cacheVars, localVars, envVars, ready, phase, step, queued,
          obpQueued, boundVars>>

\* Reasons of the Programmed condition; only "Programmed" is Programmed=True.
Reasons == {"Unknown", "PolicyNotAccepted", "MasterSecretNotFound",
            "VanityHarvestInProgress", "FrontendNotReady", "BackendsNotReady",
            "Programmed"}

\* Published addresses: none, the master .onion, or the .onion of key k > 0.
NoAddr == 0
MasterAddr == -1

NoGateway == [exists |-> FALSE, deleting |-> FALSE, finalizer |-> FALSE,
              ann |-> FALSE, addr |-> NoAddr, prog |-> "Unknown"]

GatewayType == [exists : BOOLEAN, deleting : BOOLEAN, finalizer : BOOLEAN,
                ann : BOOLEAN, addr : Int, prog : Reasons]

NoPolicy == [attached |-> FALSE, ref |-> OwnNS, accepted |-> FALSE, ready |-> FALSE]

PolicyType == [attached : BOOLEAN, ref : Refs \cup {OwnNS}, accepted : BOOLEAN,
               ready : BOOLEAN]

Phases == {"idle", "finalizer", "dispatch", "condition", "cleanupA", "cleanupB",
           "modeA", "modeB", "unfinalize"}

(***************************************************************************)
(* The calls of each function, in the order the code makes them.           *)
(***************************************************************************)
\* Mutant: the switch to Mode B keeps the key Secret.
CleanupKeepingKeys == <<"deployment", "service", "torrc", "netpol", "vanity">>

CleanupModeA == <<"deployment", "service", "keys", "torrc", "netpol", "vanity">>

CleanupModeB == <<"frontend", "backends", "headless", "haConfig", "frontendRBAC",
                  "crossNS", "backendSecrets", "annotations">>

ModeA == <<"keys", "torrc", "routerRBAC", "deployment", "service", "netpol",
           "status">>

ModeB == <<"crossNSRole", "crossNSStale", "master", "backendSecrets", "headless",
           "frontendRBAC", "haConfig", "routerRBAC", "backends", "frontend",
           "netpol", "annotations", "status">>

Init ==
  /\ gw = [NoGateway EXCEPT !.exists = TRUE] /\ cgw = gw /\ lgw = NoGateway
  /\ obp = NoPolicy /\ cobp = NoPolicy /\ lobp = NoPolicy
  /\ objs = {} /\ cobjs = {}
  /\ key = 0 /\ ckey = 0 /\ lkey = 0 /\ misread = FALSE
  /\ retired = 0
  /\ managed = TRUE /\ master = TRUE /\ grant = TRUE
  /\ harvest \in Harvests
  /\ ready = {}
  /\ phase = "idle" /\ step = 1 /\ reason = "Unknown"
  /\ queued = TRUE /\ obpQueued = FALSE
  /\ edits = 0 /\ faults = 0

----------------------------------------------------------------------------
(***************************************************************************)
(* Writes to the API server.  An informer that does not lag delivers the   *)
(* write at once, and with it the watch event that queues the Gateway      *)
(* (For, Owns and Watches of SetupWithManager) and the policy.  The        *)
(* cross-namespace pairs have no owner, so their events queue nothing.     *)
(***************************************************************************)
Delivered(new, S) == (((new \ objs) \cup (objs \ new)) \ Lagging) \cap S # {}

PutObjs(new) ==
  /\ objs' = new
  /\ cobjs' = (new \ Lagging) \cup (cobjs \cap Lagging)
  /\ ready' = ready \cap new
  /\ queued' = (queued \/ Delivered(new, Owned))
  /\ obpQueued' = (obpQueued \/ Delivered(new, {"backendSecrets"}))

PutGateway(new) ==
  LET seen == "gateway" \notin Lagging /\ new # gw IN
  /\ gw' = new
  /\ cgw' = IF "gateway" \in Lagging THEN cgw ELSE new
  /\ queued' = (queued \/ seen)
  /\ obpQueued' = (obpQueued \/ seen)

PutPolicy(new) ==
  LET seen == "policy" \notin Lagging /\ new # obp IN
  /\ obp' = new
  /\ cobp' = IF "policy" \in Lagging THEN cobp ELSE new
  /\ queued' = (queued \/ seen)

Goto(p, n) == phase' = p /\ step' = n

\* Reconcile returns; what it had in hand is gone.
Return ==
  /\ Goto("idle", 1)
  /\ lgw' = NoGateway /\ lobp' = NoPolicy /\ lkey' = 0 /\ misread' = FALSE
  /\ reason' = "Unknown"

Continue(p, n) == Goto(p, n) /\ UNCHANGED localVars

\* Reconcile returns an error: the workqueue requeues the Gateway.
Fail ==
  /\ Return
  /\ queued' = TRUE
  /\ UNCHANGED <<apiVars, cacheVars, ready, obpQueued>>

----------------------------------------------------------------------------
(***************************************************************************)
(* Reconcile: the reads before the first write, the finalizer, dispatch.   *)
(***************************************************************************)
\* The Gateway is read from the cache; an absent or unmanaged one is left alone.
Reconcile ==
  /\ phase = "idle" /\ queued
  /\ queued' = FALSE
  /\ IF ~cgw.exists \/ ~managed \/ (cgw.deleting /\ ~cgw.finalizer)
       THEN Return
       ELSE /\ Goto(IF cgw.deleting THEN "cleanupB"
                    ELSE IF cgw.finalizer THEN "dispatch" ELSE "finalizer", 1)
            /\ lgw' = cgw
            /\ UNCHANGED <<lobp, lkey, misread, reason>>
  /\ UNCHANGED <<apiVars, cacheVars, envVars, ready, obpQueued, boundVars>>

\* Update with the resourceVersion in hand: a conflict unless it is current.
AddFinalizer ==
  /\ phase = "finalizer"
  /\ \/ /\ lgw = gw
        /\ PutGateway([gw EXCEPT !.finalizer = TRUE])
        /\ lgw' = gw'
        /\ Goto("dispatch", 1)
        /\ UNCHANGED <<obp, objs, key, retired, cobp, cobjs, ckey, lobp, lkey,
                       misread, reason, ready>>
     \/ lgw # gw /\ Fail
  /\ UNCHANGED <<envVars, boundVars>>

\* Mutant: Mode B is provisioned without cleanupModeAResources.
DispatchWithoutTeardown ==
  /\ phase = "dispatch"
  /\ lobp' = cobp
  /\ reason' = IF cobp.attached /\ ~cobp.accepted THEN "PolicyNotAccepted"
               ELSE reason
  /\ Goto(IF ~cobp.attached THEN "cleanupB"
          ELSE IF cobp.accepted THEN "modeB" ELSE "condition", 1)
  /\ UNCHANGED <<apiVars, cacheVars, lgw, lkey, misread, envVars, ready, queued,
                 obpQueued, boundVars>>

\* findEffectiveOnionBalance, then one of the three paths.
Dispatch ==
  /\ phase = "dispatch"
  /\ lobp' = cobp
  /\ reason' = IF cobp.attached /\ ~cobp.accepted THEN "PolicyNotAccepted"
               ELSE reason
  /\ Goto(IF ~cobp.attached THEN "cleanupB"
          ELSE IF cobp.accepted THEN "cleanupA" ELSE "condition", 1)
  /\ UNCHANGED <<apiVars, cacheVars, lgw, lkey, misread, envVars, ready, queued,
                 obpQueued, boundVars>>

\* setProgrammingCondition: Programmed=False with `reason`, then return.
SetProgrammingCondition ==
  LET new == [lgw EXCEPT !.prog = reason] IN
  /\ phase = "condition"
  /\ \/ /\ new = lgw
        /\ Return
        /\ UNCHANGED <<apiVars, cacheVars, ready, queued, obpQueued>>
     \/ /\ new # lgw /\ lgw = gw
        /\ PutGateway(new)
        /\ Return
        /\ UNCHANGED <<obp, objs, key, retired, cobp, cobjs, ckey, ready>>
     \/ new # lgw /\ lgw # gw /\ Fail
  /\ UNCHANGED <<envVars, boundVars>>

----------------------------------------------------------------------------
(***************************************************************************)
(* Teardown of one mode.  Deletes by name reach the API server whatever    *)
(* the cache says; deletes of a List reach only what the cache lists.      *)
(***************************************************************************)
\* Mutant: the loop over the deletes runs one call too far.
CleanupPastTheEnd ==
  /\ phase = "cleanupA"
  /\ PutObjs(objs \ {CleanupModeA[step]})
  /\ IF step <= Len(CleanupModeA) THEN Continue("cleanupA", step + 1)
                                  ELSE Continue("modeB", 1)
  /\ UNCHANGED <<gw, obp, key, retired, cgw, cobp, ckey, envVars, boundVars>>

CleanupModeAResources ==
  /\ phase = "cleanupA"
  /\ PutObjs(objs \ {CleanupModeA[step]})
  /\ IF step < Len(CleanupModeA) THEN Continue("cleanupA", step + 1)
                                 ELSE Continue("modeB", 1)
  /\ UNCHANGED <<gw, obp, key, retired, cgw, cobp, ckey, envVars, boundVars>>

\* Mutant: the cross-namespace pairs are left to owner references.
CleanupWithoutCrossNS(o) ==
  CASE o = "crossNS"        -> {}
    [] o = "backendSecrets" -> cobjs \cap {"backendSecrets"}
    [] OTHER                -> {o}

\* The objects a call of cleanupModeBResources deletes.
CleanupModeBDeletes(o) ==
  CASE o = "crossNS"        -> cobjs \cap Namespaces
    [] o = "backendSecrets" -> cobjs \cap {"backendSecrets"}
    [] OTHER                -> {o}

CleanupModeBResources ==
  /\ phase = "cleanupB" /\ CleanupModeB[step] # "annotations"
  /\ PutObjs(objs \ CleanupModeBDeletes(CleanupModeB[step]))
  /\ Continue("cleanupB", step + 1)
  /\ UNCHANGED <<gw, obp, key, retired, cgw, cobp, ckey, envVars, boundVars>>

\* The last call clears the Mode B annotations, with the copy in hand.
ClearAnnotations ==
  LET after == IF lgw.deleting THEN "unfinalize" ELSE "modeA" IN
  /\ phase = "cleanupB" /\ CleanupModeB[step] = "annotations"
  /\ \/ /\ ~lgw.ann
        /\ Goto(after, 1)
        /\ UNCHANGED <<apiVars, cacheVars, localVars, ready, queued, obpQueued>>
     \/ /\ lgw.ann /\ lgw = gw
        /\ PutGateway([gw EXCEPT !.ann = FALSE])
        /\ lgw' = gw'
        /\ Goto(after, 1)
        /\ UNCHANGED <<obp, objs, key, retired, cobp, cobjs, ckey, lobp, lkey,
                       misread, reason, ready>>
     \/ lgw.ann /\ lgw # gw /\ Fail
  /\ UNCHANGED <<envVars, boundVars>>

\* The re-fetch comes from the cache; removing the finalizer of a deleted
\* Gateway removes the Gateway.
RemoveFinalizer ==
  /\ phase = "unfinalize"
  /\ \/ /\ cgw.exists /\ ~cgw.finalizer
        /\ Return
        /\ UNCHANGED <<apiVars, cacheVars, ready, queued, obpQueued>>
     \/ /\ cgw.finalizer /\ cgw = gw
        /\ PutGateway(NoGateway)
        /\ Return
        /\ UNCHANGED <<obp, objs, key, retired, cobp, cobjs, ckey, ready>>
     \/ ~cgw.exists /\ Fail
     \/ cgw.finalizer /\ cgw # gw /\ Fail
  /\ UNCHANGED <<envVars, boundVars>>

----------------------------------------------------------------------------
(***************************************************************************)
(* Provisioning.                                                           *)
(***************************************************************************)
\* controllerutil.CreateOrUpdate of object o, then on to call `step + 1`.
\* The Get is cached: an object missing from the cache is created, which
\* fails if the API server has it; one the cache still lists is updated,
\* which fails if it is gone, unless there is nothing to change.
CreateOrUpdate(o) ==
  \/ /\ o \in cobjs
     /\ Continue(phase, step + 1)
     /\ UNCHANGED <<objs, cobjs, ready, queued, obpQueued>>
  \/ /\ o \notin cobjs /\ o \notin objs
     /\ PutObjs(objs \cup {o})
     /\ Continue(phase, step + 1)
  \/ /\ (o \in cobjs) # (o \in objs)
     /\ Return
     /\ queued' = TRUE
     /\ UNCHANGED <<objs, cobjs, ready, obpQueued>>

Child(plan) == plan[step] \in Owned \ {"keys"}

EnsureChild ==
  /\ \/ phase = "modeA" /\ Child(ModeA) /\ CreateOrUpdate(ModeA[step])
     \/ phase = "modeB" /\ Child(ModeB) /\ CreateOrUpdate(ModeB[step])
  /\ UNCHANGED <<gw, obp, key, retired, cgw, cobp, ckey, envVars, boundVars>>

\* ensureKeySecret; the harvest itself is the subject of module VanityKey.
\* A key the cache lists is used as it is; otherwise a harvest is awaited or
\* promoted, or a random key is generated, and Create refuses a second one.
EnsureKeySecret ==
  /\ phase = "modeA" /\ ModeA[step] = "keys"
  /\ \/ /\ "keys" \in cobjs
        /\ lkey' = ckey /\ misread' = ("keys" \notin objs \/ ckey # key)
        /\ Goto("modeA", step + 1)
        /\ UNCHANGED <<objs, cobjs, key, ckey, ready, queued, obpQueued, lgw, lobp,
                       reason>>
     \/ /\ "keys" \notin cobjs /\ harvest /\ "vanity" \notin ready
        /\ PutObjs(objs \cup {"vanity"})
        /\ reason' = "VanityHarvestInProgress"
        /\ Goto("condition", 1)
        /\ UNCHANGED <<key, ckey, lgw, lobp, lkey, misread>>
     \/ /\ "keys" \notin cobjs /\ (harvest => "vanity" \in ready) /\ "keys" \notin objs
        /\ key' = key + 1 /\ lkey' = key + 1
        /\ ckey' = IF "keys" \in Lagging THEN ckey ELSE key + 1
        /\ \E left \in SUBSET (objs \cap {"vanity"}) :  \* best-effort cleanup
             PutObjs((objs \ {"vanity"}) \cup left \cup {"keys"})
        /\ Goto("modeA", step + 1)
        /\ UNCHANGED <<lgw, lobp, misread, reason>>
     \/ /\ "keys" \notin cobjs /\ (harvest => "vanity" \in ready) /\ "keys" \in objs
        /\ Return
        /\ queued' = TRUE
        /\ UNCHANGED <<objs, cobjs, key, ckey, ready, obpQueued>>
  /\ UNCHANGED <<gw, obp, retired, cgw, cobp, envVars, boundVars>>

\* updateStatus writes the copy in hand, if anything changes in it.
UpdateStatus ==
  LET new == [lgw EXCEPT !.addr = lkey, !.prog = "Programmed"] IN
  /\ phase = "modeA" /\ ModeA[step] = "status"
  /\ \/ /\ new = lgw
        /\ Return
        /\ UNCHANGED <<apiVars, cacheVars, ready, queued, obpQueued>>
     \/ /\ new # lgw /\ lgw = gw
        /\ PutGateway(new)
        /\ Return
        /\ UNCHANGED <<obp, objs, key, retired, cobp, cobjs, ckey, ready>>
     \/ new # lgw /\ lgw # gw /\ Fail
  /\ UNCHANGED <<envVars, boundVars>>

\* ensureModeB, the cross-namespace part: only when the policy names another
\* namespace; without a ReferenceGrant the reconcile fails.
EnsureCrossNSRole ==
  /\ phase = "modeB" /\ ModeB[step] = "crossNSRole"
  /\ \/ /\ lobp.ref \notin Namespaces
        /\ Continue("modeB", step + 2)
        /\ UNCHANGED <<objs, cobjs, ready, queued, obpQueued>>
     \/ /\ lobp.ref \in Namespaces /\ grant
        /\ CreateOrUpdate(lobp.ref)
     \/ /\ lobp.ref \in Namespaces /\ ~grant
        /\ Return
        /\ queued' = TRUE
        /\ UNCHANGED <<objs, cobjs, ready, obpQueued>>
  /\ UNCHANGED <<gw, obp, key, retired, cgw, cobp, ckey, envVars, boundVars>>

\* Mutant: the stale pairs are not collected.
KeepStaleCrossNSRoles ==
  /\ phase = "modeB" /\ ModeB[step] = "crossNSStale"
  /\ Continue("modeB", step + 1)
  /\ UNCHANGED <<apiVars, cacheVars, envVars, ready, queued, obpQueued, boundVars>>

\* The pairs in other namespaces, as listed by the cache.
DeleteStaleCrossNSRoles ==
  /\ phase = "modeB" /\ ModeB[step] = "crossNSStale"
  /\ PutObjs(objs \ ((cobjs \cap Namespaces) \ {lobp.ref}))
  /\ Continue("modeB", step + 1)
  /\ UNCHANGED <<gw, obp, key, retired, cgw, cobp, ckey, envVars, boundVars>>

GetMasterSecret ==
  /\ phase = "modeB" /\ ModeB[step] = "master"
  /\ IF master
       THEN Goto("modeB", step + 1) /\ UNCHANGED reason
       ELSE Goto("condition", 1) /\ reason' = "MasterSecretNotFound"
  /\ UNCHANGED <<apiVars, cacheVars, lgw, lobp, lkey, misread, envVars, ready,
                 queued, obpQueued, boundVars>>

\* updateStatusModeB, first write: the annotations, on a copy re-fetched from
\* the cache, retried until it is current or the retries are used up.
AnnotateModeB ==
  /\ phase = "modeB" /\ ModeB[step] = "annotations"
  /\ \/ /\ lgw.ann
        /\ Goto("modeB", step + 1)
        /\ UNCHANGED <<apiVars, cacheVars, localVars, ready, queued, obpQueued>>
     \/ /\ ~lgw.ann /\ cgw = gw /\ gw.exists
        /\ PutGateway([gw EXCEPT !.ann = TRUE])
        /\ lgw' = gw'
        /\ Goto("modeB", step + 1)
        /\ UNCHANGED <<obp, objs, key, retired, cobp, cobjs, ckey, lobp, lkey,
                       misread, reason, ready>>
     \/ ~lgw.ann /\ (cgw # gw \/ ~cgw.exists) /\ Fail
  /\ UNCHANGED <<envVars, boundVars>>

ModeBHealth ==
  IF "frontend" \notin cobjs \/ "frontend" \notin ready THEN "FrontendNotReady"
  ELSE IF "backendSecrets" \notin cobjs THEN "BackendsNotReady"
  ELSE "Programmed"

\* updateStatusModeB, second write: the master address and Mode B's health.
UpdateStatusModeB ==
  /\ phase = "modeB" /\ ModeB[step] = "status"
  /\ \/ /\ cgw = gw /\ gw.exists
        /\ PutGateway([gw EXCEPT !.addr = MasterAddr, !.prog = ModeBHealth])
        /\ retired' = key
        /\ Return
        /\ UNCHANGED <<obp, objs, key, cobp, cobjs, ckey, ready>>
     \/ (cgw # gw \/ ~cgw.exists) /\ Fail
  /\ UNCHANGED <<envVars, boundVars>>

----------------------------------------------------------------------------
(***************************************************************************)
(* The OnionBalancePolicy controller: Accepted iff the Gateway is there    *)
(* and the master key can be used; a status write conflicts with an edit   *)
(* its cache has not seen, and is then retried.                            *)
(***************************************************************************)
OBPVerdict ==
  LET ok == cgw.exists /\ master /\ (cobp.ref \in Namespaces => grant) IN
  [cobp EXCEPT !.accepted = ok, !.ready = ok /\ "backendSecrets" \in cobjs]

ReconcileOBP ==
  /\ obpQueued
  /\ \/ /\ ~cobp.attached \/ OBPVerdict = cobp
        /\ obpQueued' = FALSE
        /\ UNCHANGED <<obp, cobp, queued>>
     \/ /\ cobp.attached /\ OBPVerdict # cobp /\ cobp = obp
        /\ PutPolicy(OBPVerdict)
        \* its own status write queues it again
        /\ obpQueued' = ("policy" \notin Lagging)
     \/ /\ cobp.attached /\ OBPVerdict # cobp /\ cobp # obp
        /\ UNCHANGED <<obp, cobp, queued, obpQueued>>
  /\ UNCHANGED <<gw, objs, key, retired, cgw, cobjs, ckey, localVars, envVars,
                 ready, phase, step, boundVars>>

----------------------------------------------------------------------------
(***************************************************************************)
(* The cluster: informers, garbage collection, workloads.                  *)
(***************************************************************************)
\* An informer delivers the current state of object o.
SyncObject(o) ==
  /\ (o \in objs) # (o \in cobjs) \/ (o = "keys" /\ o \in objs /\ ckey # key)
  /\ cobjs' = IF o \in objs THEN cobjs \cup {o} ELSE cobjs \ {o}
  /\ ckey' = IF o = "keys" THEN key ELSE ckey
  /\ queued' = (queued \/ o \in Owned)
  /\ obpQueued' = (obpQueued \/ o = "backendSecrets")
  /\ UNCHANGED <<apiVars, cgw, cobp, localVars, envVars, ready, phase, step,
                 boundVars>>

SyncGateway ==
  /\ cgw # gw
  /\ cgw' = gw
  /\ queued' = TRUE /\ obpQueued' = TRUE
  /\ UNCHANGED <<apiVars, cobp, cobjs, ckey, localVars, envVars, ready, phase,
                 step, boundVars>>

\* Mutant: SetupWithManager does not watch OnionBalancePolicy.
SyncPolicyUnwatched ==
  /\ cobp # obp
  /\ cobp' = obp
  /\ obpQueued' = TRUE
  /\ UNCHANGED <<apiVars, cgw, cobjs, ckey, localVars, envVars, ready, phase,
                 step, queued, boundVars>>

SyncPolicy ==
  /\ cobp # obp
  /\ cobp' = obp
  /\ queued' = TRUE /\ obpQueued' = TRUE
  /\ UNCHANGED <<apiVars, cgw, cobjs, ckey, localVars, envVars, ready, phase,
                 step, boundVars>>

\* Kubernetes removes what a removed Gateway owned.
GarbageCollect ==
  /\ ~gw.exists /\ objs \cap Owned # {}
  /\ PutObjs(objs \ Owned)
  /\ UNCHANGED <<gw, obp, key, retired, cgw, cobp, ckey, localVars, envVars,
                 phase, step, boundVars>>

\* The frontend Deployment becomes Available, the harvest writes its key.
WorkloadReady(o) ==
  /\ o \in objs \ ready
  /\ ready' = ready \cup {o} /\ queued' = TRUE
  /\ UNCHANGED <<apiVars, cacheVars, localVars, envVars, phase, step, obpQueued,
                 boundVars>>

\* An API call fails.
ApiError ==
  /\ phase # "idle" /\ faults < MaxFaults
  /\ faults' = faults + 1
  /\ Fail
  /\ UNCHANGED <<envVars, edits>>

\* The manager restarts: empty queues and caches, then everything is listed.
Restart ==
  /\ faults < MaxFaults
  /\ faults' = faults + 1
  /\ Return
  /\ cgw' = gw /\ cobp' = obp /\ cobjs' = objs /\ ckey' = key
  /\ queued' = TRUE /\ obpQueued' = TRUE
  /\ UNCHANGED <<apiVars, envVars, ready, edits>>

----------------------------------------------------------------------------
(***************************************************************************)
(* Users.  No controller watches the GatewayClass; only the policy         *)
(* controller watches the master Secret and the ReferenceGrant.            *)
(***************************************************************************)
Edit(kind) ==
  /\ kind \in Edits /\ edits < MaxEdits
  /\ edits' = edits + 1
  /\ UNCHANGED <<objs, key, retired, cobjs, ckey, localVars, harvest, ready,
                 phase, step, faults>>

EditPolicy(new) ==
  /\ PutPolicy(new)
  /\ obpQueued' = (obpQueued \/ "policy" \notin Lagging)
  /\ UNCHANGED <<gw, cgw, managed, master, grant>>

AttachPolicy(ref) ==
  /\ Edit("policy") /\ ~obp.attached
  /\ EditPolicy([NoPolicy EXCEPT !.attached = TRUE, !.ref = ref])

DetachPolicy ==
  /\ Edit("policy") /\ obp.attached
  /\ EditPolicy(NoPolicy)

RetargetPolicy(ref) ==
  /\ Edit("retarget") /\ obp.attached /\ ref # obp.ref
  /\ EditPolicy([obp EXCEPT !.ref = ref])

DeleteGateway ==
  /\ Edit("delete") /\ gw.exists /\ ~gw.deleting
  /\ PutGateway(IF gw.finalizer THEN [gw EXCEPT !.deleting = TRUE] ELSE NoGateway)
  /\ UNCHANGED <<obp, cobp, managed, master, grant>>

ToggleMasterSecret ==
  /\ Edit("master")
  /\ master' = ~master /\ obpQueued' = TRUE
  /\ UNCHANGED <<gw, cgw, obp, cobp, managed, grant, queued>>

ToggleGrant ==
  /\ Edit("grant")
  /\ grant' = ~grant /\ obpQueued' = TRUE
  /\ UNCHANGED <<gw, cgw, obp, cobp, managed, master, queued>>

ToggleClass ==
  /\ Edit("class")
  /\ managed' = ~managed
  /\ UNCHANGED <<gw, cgw, obp, cobp, master, grant, queued, obpQueued>>

----------------------------------------------------------------------------
Step ==
  \/ Reconcile \/ AddFinalizer \/ Dispatch \/ SetProgrammingCondition
  \/ CleanupModeAResources \/ CleanupModeBResources \/ ClearAnnotations
  \/ RemoveFinalizer \/ EnsureChild \/ EnsureKeySecret \/ UpdateStatus
  \/ EnsureCrossNSRole \/ DeleteStaleCrossNSRoles \/ GetMasterSecret
  \/ AnnotateModeB \/ UpdateStatusModeB

Sync == SyncGateway \/ SyncPolicy \/ \E o \in Objects : SyncObject(o)

Users ==
  \/ \E ref \in Refs : AttachPolicy(ref) \/ RetargetPolicy(ref)
  \/ DetachPolicy \/ DeleteGateway \/ ToggleMasterSecret \/ ToggleGrant
  \/ ToggleClass

Next ==
  \/ Step \/ ReconcileOBP \/ Sync \/ GarbageCollect
  \/ \E o \in {"frontend", "vanity"} : WorkloadReady(o)
  \/ ApiError \/ Restart \/ Users

Spec == Init /\ [][Next]_vars

\* The workers drain their queues, the informers deliver, Kubernetes collects.
\* Nothing is assumed of users, faults, pods or the harvest.
Fairness ==
  /\ WF_vars(Step) /\ WF_vars(ReconcileOBP) /\ WF_vars(GarbageCollect)
  /\ WF_vars(SyncGateway) /\ WF_vars(SyncPolicy)
  /\ \A o \in Objects : WF_vars(SyncObject(o))

FairSpec == Spec /\ Fairness

----------------------------------------------------------------------------
ViewsOK ==
  /\ gw \in GatewayType /\ cgw \in GatewayType /\ lgw \in GatewayType
  /\ obp \in PolicyType /\ cobp \in PolicyType /\ lobp \in PolicyType

ObjectsOK ==
  /\ objs \subseteq Objects /\ cobjs \subseteq Objects /\ ready \subseteq objs
  /\ key \in Nat /\ ckey \in Nat /\ lkey \in Nat /\ retired \in Nat
  /\ misread \in BOOLEAN

FlagsOK ==
  /\ managed \in BOOLEAN /\ master \in BOOLEAN /\ grant \in BOOLEAN
  /\ harvest \in BOOLEAN /\ queued \in BOOLEAN /\ obpQueued \in BOOLEAN

\* Number of calls a phase of the reconcile makes.
Calls(p) ==
  CASE p = "cleanupA" -> Len(CleanupModeA)
    [] p = "cleanupB" -> Len(CleanupModeB)
    [] p = "modeA"    -> Len(ModeA)
    [] p = "modeB"    -> Len(ModeB)
    [] OTHER          -> 1

ControlOK ==
  /\ phase \in Phases /\ reason \in Reasons
  /\ step \in 1 .. Calls(phase)

BoundsOK == edits \in 0 .. MaxEdits /\ faults \in 0 .. MaxFaults

\* Every view has its shape, a workload is ready only while its object is
\* there, and no function of the reconcile runs past its last call.
TypeOK == ViewsOK /\ ObjectsOK /\ FlagsOK /\ ControlOK /\ BoundsOK

\* The two modes never run side by side: whatever the policy edits, failures,
\* restarts and stale reads, Mode A's Deployment never coexists with Mode B's
\* frontend Deployment or backend StatefulSet, so two Tor instances never
\* publish for the same Gateway from different modes (Reconcile tears the one
\* mode down before it provisions the other).
ModeExclusion ==
  ~("deployment" \in objs /\ {"frontend", "backends"} \cap objs # {})

\* A Role and RoleBinding outside the Gateway's namespace exist only while the
\* Gateway exists and carries the finalizer that will collect them.  Holds when
\* the RBAC informers are current: the collection lists the cache.
FinalizerGuardsCrossNS ==
  objs \cap Namespaces # {} => gw.exists /\ gw.finalizer

\* An onion address that Mode B superseded is not published again, since its key
\* is destroyed in the switch, with one exception: ensureKeySecret reads the key
\* from the cache, and a reconcile that was given a Secret that is gone or has
\* been replaced publishes the address of the old key.
RetiredKeyStaysRetired ==
  [][gw'.addr # gw.addr => gw'.addr \notin 1 .. retired \/ misread]_vars

\* Once a Mode B reconcile has passed its cross-namespace part, the only such
\* pair left is the one the policy names: "GC'd by label in
\* cleanupModeBResources and when the spec namespace changes".
CrossNSRolesFollowPolicy ==
  phase = "modeB" /\ step > 2 => objs \cap Namespaces \subseteq {lobp.ref}

\* "the shared NetworkPolicy guards backend StatefulSet pods too": once both
\* are there, no step removes the NetworkPolicy and leaves the StatefulSet.
NetworkPolicyGuardsBackends ==
  [][{"netpol", "backends"} \subseteq objs /\ "backends" \in objs'
       => "netpol" \in objs']_vars

\* The policy that is attached can be used, so Mode B is what is asked for.
ModeBWanted ==
  /\ gw.exists /\ managed /\ ~gw.deleting
  /\ obp.attached /\ master /\ (obp.ref \in Namespaces => grant)

\* What a settled Gateway looks like, for the inputs as they are, apart from the
\* NetworkPolicy of Mode B.
Settled ==
  CASE ~gw.exists -> objs \cap Owned = {}
    [] gw.exists /\ ~managed -> TRUE
    [] gw.exists /\ managed /\ gw.deleting -> FALSE
    [] gw.exists /\ managed /\ ~gw.deleting /\ ~obp.attached ->
         /\ ModeBOnly \cap objs = {}
         /\ IF harvest /\ "keys" \notin objs
              THEN gw.prog = "VanityHarvestInProgress"
              ELSE /\ (ModeAOnly \ {"vanity"}) \cup {"netpol", "routerRBAC"}
                        \subseteq objs
                   /\ gw.addr = key /\ gw.prog = "Programmed"
    [] ModeBWanted ->
         /\ ModeAOnly \cap objs = {}
         /\ ModeBOnly \cup {"routerRBAC"} \cup ({obp.ref} \cap Namespaces) \subseteq objs
         /\ gw.addr = MasterAddr
         /\ gw.prog = IF "frontend" \in ready THEN "Programmed" ELSE "FrontendNotReady"
    [] OTHER -> gw.prog = "PolicyNotAccepted"

\* When users stop editing, the Gateway settles: the children are those of the
\* mode the policy asks for, the status publishes the address that mode serves,
\* and a deleted Gateway goes away with everything it owned.  Lost races with
\* stale caches, conflicts and failed calls are all retried.  The NetworkPolicy
\* of Mode B never settles: every reconcile deletes it, which queues the next
\* one, and makes it again; that it always comes back is all there is to promise.
Converges == <>[]Settled /\ []<>(ModeBWanted => "netpol" \in objs)

\* "recovery is event-driven ... so the requeue fires reliably": a Gateway does
\* not stay at MasterSecretNotFound once the master key is back for good.
MasterRestored ==
  <>[](master /\ managed /\ obp.attached /\ gw.exists /\ ~gw.deleting)
    => []<>(gw.prog # "MasterSecretNotFound")
============================================================================
