----------------------- MODULE GatewayReconcilerProofs -----------------------
(***************************************************************************)
(* Proofs about GatewayReconciler, for every set of namespaces, every set  *)
(* of lagging informers and any number of user changes and faults.         *)
(***************************************************************************)
EXTENDS GatewayReconciler, TLAPS

\* The call orders, spelled out for the provers.
LEMMA PlanLengths ==
  /\ Len(CleanupModeA) = 6 /\ Len(CleanupModeB) = 8
  /\ Len(ModeA) = 7 /\ Len(ModeB) = 13
BY DEF CleanupModeA, CleanupModeB, ModeA, ModeB

\* The teardown of a mode begins with its workloads.
LEMMA WorkloadsFirst ==
  /\ CleanupModeA[1] = "deployment"
  /\ CleanupModeB[1] = "frontend" /\ CleanupModeB[2] = "backends"
  /\ CleanupModeB[8] = "annotations"
BY DEF CleanupModeA, CleanupModeB

\* The places of the calls that are not a plain CreateOrUpdate.
LEMMA LastCalls == ModeA[7] = "status" /\ ModeB[13] = "status"
BY DEF ModeA, ModeB

\* Mode A generates a key in its first call only.
LEMMA KeysFirst == \A i \in 1 .. 7 : ModeA[i] = "keys" => i = 1
BY DEF ModeA

\* Mode B's calls that are not a CreateOrUpdate of a child: each has one place.
LEMMA CrossNSFirst ==
  /\ \A i \in 1 .. 13 : ModeB[i] = "crossNSRole" => i = 1
  /\ \A i \in 1 .. 13 : ModeB[i] = "crossNSStale" => i = 2
  /\ \A i \in 1 .. 13 : ModeB[i] = "master" => i = 3
  /\ \A i \in 1 .. 13 : ModeB[i] = "annotations" => i = 12
BY DEF ModeB

\* The annotations are cleared in the last call of Mode B's teardown.
LEMMA LastAnnotations == \A i \in 1 .. 8 : CleanupModeB[i] = "annotations" => i = 8
BY DEF CleanupModeB

\* No mode's plan holds a workload of the other mode.
LEMMA PlansDisjoint ==
  /\ \A i \in 1 .. 7 : ModeA[i] \notin {"frontend", "backends"}
  /\ \A i \in 1 .. 13 : ModeB[i] # "deployment"
BY DEF ModeA, ModeB

USE DEF vars, apiVars, cacheVars, localVars, envVars, boundVars

\* The number of calls of each phase.
LEMMA CallCounts ==
  /\ Calls("cleanupA") = 6 /\ Calls("cleanupB") = 8
  /\ Calls("modeA") = 7 /\ Calls("modeB") = 13
  /\ \A p \in {"idle", "finalizer", "dispatch", "condition", "unfinalize"} : Calls(p) = 1
BY PlanLengths DEF Calls

\* The records a step can write.
LEMMA NoRecords == NoGateway \in GatewayType /\ NoPolicy \in PolicyType
BY DEF NoGateway, GatewayType, Reasons, NoAddr, NoPolicy, PolicyType

\* Setting the finalizer, the deletion mark or the annotation of a Gateway
\* leaves a Gateway.
LEMMA GatewayFlags ==
  ASSUME NEW g \in GatewayType, NEW b \in BOOLEAN
  PROVE  /\ [g EXCEPT !.exists = b] \in GatewayType
         /\ [g EXCEPT !.deleting = b] \in GatewayType
         /\ [g EXCEPT !.finalizer = b] \in GatewayType
         /\ [g EXCEPT !.ann = b] \in GatewayType
BY DEF GatewayType

\* So does the status write of either mode.
LEMMA GatewayStatus ==
  ASSUME NEW g \in GatewayType, NEW a \in Int, NEW r \in Reasons
  PROVE  [g EXCEPT !.addr = a, !.prog = r] \in GatewayType
BY DEF GatewayType

\* So does setProgrammingCondition.
LEMMA GatewayProgrammed ==
  ASSUME NEW g \in GatewayType, NEW r \in Reasons
  PROVE  [g EXCEPT !.prog = r] \in GatewayType
BY DEF GatewayType

\* Users' edits and the policy controller's status write leave a policy.
LEMMA PolicyUpdates ==
  ASSUME NEW p \in PolicyType, NEW r \in Refs, NEW a \in BOOLEAN, NEW b \in BOOLEAN
  PROVE  /\ [p EXCEPT !.ref = r] \in PolicyType
         /\ [p EXCEPT !.attached = a, !.ref = r] \in PolicyType
         /\ [p EXCEPT !.accepted = a, !.ready = b] \in PolicyType
BY DEF PolicyType

\* The initial state is well typed.
LEMMA InitTypeOK == Init => TypeOK
<1> SUFFICES ASSUME Init PROVE TypeOK
  OBVIOUS
<1>1. ViewsOK
  BY NoRecords, GatewayFlags DEF Init, ViewsOK
<1>2. ObjectsOK
  BY DEF Init, ObjectsOK
<1>3. FlagsOK
  BY ConstantsAssumption DEF Init, FlagsOK
<1>4. ControlOK
  BY CallCounts DEF Init, ControlOK, Phases, Reasons
<1>5. BoundsOK
  BY ConstantsAssumption DEF Init, BoundsOK
<1> QED
  BY <1>1, <1>2, <1>3, <1>4, <1>5 DEF TypeOK

(***************************************************************************)
(* What the shared pieces of an action leave in place.                     *)
(***************************************************************************)
\* A write of child objects keeps both views of them within Objects.
LEMMA PutObjsType ==
  ASSUME ObjectsOK, FlagsOK, NEW new \in SUBSET Objects, PutObjs(new)
  PROVE  /\ objs' \subseteq Objects /\ cobjs' \subseteq Objects /\ ready' \subseteq objs'
         /\ queued' \in BOOLEAN /\ obpQueued' \in BOOLEAN
BY DEF ObjectsOK, FlagsOK, PutObjs

\* A write of the Gateway leaves a Gateway in the API server and the cache.
LEMMA PutGatewayType ==
  ASSUME ViewsOK, NEW new \in GatewayType, PutGateway(new)
  PROVE  /\ gw' = new /\ gw' \in GatewayType /\ cgw' \in GatewayType
         /\ queued' \in BOOLEAN /\ obpQueued' \in BOOLEAN
BY DEF ViewsOK, PutGateway

\* A write of the policy leaves a policy in the API server and the cache.
LEMMA PutPolicyType ==
  ASSUME ViewsOK, NEW new \in PolicyType, PutPolicy(new)
  PROVE  obp' \in PolicyType /\ cobp' \in PolicyType /\ queued' \in BOOLEAN
BY DEF ViewsOK, PutPolicy

\* Returning from Reconcile resets the copies in hand and the control state.
LEMMA ReturnType ==
  ASSUME Return
  PROVE  /\ lgw' \in GatewayType /\ lobp' \in PolicyType /\ lkey' \in Nat
         /\ misread' \in BOOLEAN
         /\ ControlOK'
<1>1. misread' \in BOOLEAN
  BY Zenon DEF Return
<1> QED
  BY <1>1, NoRecords, CallCounts DEF Return, Goto, ControlOK, Phases, Reasons

\* A failed call changes nothing but the control state and the queue.
LEMMA FailType ==
  ASSUME TypeOK, Fail
  PROVE  ViewsOK' /\ ObjectsOK' /\ ControlOK'
         /\ queued' \in BOOLEAN /\ obpQueued' \in BOOLEAN
BY ReturnType DEF Fail, TypeOK, ViewsOK, ObjectsOK, FlagsOK

\* CreateOrUpdate adds at most its object and moves on or returns.
LEMMA CreateOrUpdateType ==
  ASSUME TypeOK, NEW o \in Objects, CreateOrUpdate(o), step < Calls(phase)
  PROVE  /\ objs' \subseteq Objects /\ cobjs' \subseteq Objects /\ ready' \subseteq objs'
         /\ queued' \in BOOLEAN /\ obpQueued' \in BOOLEAN
         /\ lgw' \in GatewayType /\ lobp' \in PolicyType /\ lkey' \in Nat
         /\ misread' \in BOOLEAN
         /\ ControlOK'
<1>1. CASE o \in cobjs /\ Continue(phase, step + 1)
           /\ UNCHANGED <<objs, cobjs, ready, queued, obpQueued>>
  BY <1>1, CallCounts
     DEF Continue, Goto, TypeOK, ViewsOK, ObjectsOK, FlagsOK, ControlOK, Phases
<1>2. CASE PutObjs(objs \cup {o}) /\ Continue(phase, step + 1)
  <2>1. objs \cup {o} \in SUBSET Objects
    BY DEF TypeOK, ObjectsOK
  <2> QED
    BY <1>2, <2>1, PutObjsType, CallCounts
       DEF Continue, Goto, TypeOK, ViewsOK, ObjectsOK, ControlOK, Phases
<1>3. CASE Return /\ queued' = TRUE /\ UNCHANGED <<objs, cobjs, ready, obpQueued>>
  BY <1>3, ReturnType DEF TypeOK, ObjectsOK, FlagsOK
<1> QED
  BY <1>1, <1>2, <1>3 DEF CreateOrUpdate

\* Every step of every actor preserves the type invariant.
LEMMA StepTypeOK == TypeOK /\ [Next]_vars => TypeOK'
<1> SUFFICES ASSUME TypeOK, [Next]_vars PROVE TypeOK'
  OBVIOUS
<1> USE DEF TypeOK, ViewsOK, ObjectsOK, FlagsOK, ControlOK, BoundsOK
<1>1. CASE Reconcile
  <2>1. CASE ~cgw.exists \/ ~managed \/ (cgw.deleting /\ ~cgw.finalizer)
    BY <1>1, <2>1, ReturnType DEF Reconcile
  <2>2. CASE ~(~cgw.exists \/ ~managed \/ (cgw.deleting /\ ~cgw.finalizer))
    <3>1. phase' \in {"cleanupB", "dispatch", "finalizer"} /\ step' = 1
      BY <1>1, <2>2 DEF Reconcile, Goto
    <3>2. ControlOK'
      BY <1>1, <2>2, <3>1, CallCounts DEF Reconcile, Phases
    <3>3. ViewsOK'
      BY <1>1, <2>2 DEF Reconcile
    <3> QED
      BY <1>1, <2>2, <3>2, <3>3 DEF Reconcile
  <2> QED
    BY <2>1, <2>2
<1>2. CASE AddFinalizer
  <2>1. [gw EXCEPT !.finalizer = TRUE] \in GatewayType
    BY GatewayFlags
  <2>2. CASE lgw = gw
    BY <1>2, <2>1, <2>2, PutGatewayType, CallCounts DEF AddFinalizer, Goto, Phases
  <2>3. CASE lgw # gw
    BY <1>2, <2>3, FailType DEF AddFinalizer
  <2> QED
    BY <2>2, <2>3
<1>3. CASE Dispatch
  BY <1>3, CallCounts DEF Dispatch, Goto, Phases, Reasons
<1>4. CASE SetProgrammingCondition
  <2> DEFINE new == [lgw EXCEPT !.prog = reason]
  <2>1. new \in GatewayType
    BY GatewayProgrammed
  <2> HIDE DEF new
  <2>2. CASE new = lgw
    BY <1>4, <2>2, ReturnType DEF SetProgrammingCondition, new
  <2>3. CASE new # lgw /\ lgw = gw
    BY <1>4, <2>1, <2>3, ReturnType, PutGatewayType DEF SetProgrammingCondition, new
  <2>4. CASE new # lgw /\ lgw # gw
    BY <1>4, <2>4, FailType DEF SetProgrammingCondition, new
  <2> QED
    BY <2>2, <2>3, <2>4
<1>5. CASE CleanupModeAResources
  BY <1>5, CallCounts, PlanLengths, PutObjsType
     DEF CleanupModeAResources, Continue, Goto, Phases
<1>6. CASE CleanupModeBResources
  BY <1>6, CallCounts, PlanLengths, WorkloadsFirst, PutObjsType
     DEF CleanupModeBResources, Continue, Goto, Phases
<1>7. CASE ClearAnnotations
  <2>1. [gw EXCEPT !.ann = FALSE] \in GatewayType
    BY GatewayFlags
  <2>2. \/ phase' \in {"unfinalize", "modeA"} /\ step' = 1 /\ reason' = reason
        \/ Fail
    BY <1>7 DEF ClearAnnotations, Goto
  <2>3. ControlOK'
    BY <2>2, FailType, CallCounts DEF Phases
  <2>4. CASE ~lgw.ann
    BY <1>7, <2>3, <2>4 DEF ClearAnnotations
  <2>5. CASE lgw.ann /\ lgw = gw
    BY <1>7, <2>1, <2>3, <2>5, PutGatewayType DEF ClearAnnotations
  <2>6. CASE lgw.ann /\ lgw # gw
    BY <1>7, <2>6, FailType DEF ClearAnnotations
  <2> QED
    BY <2>4, <2>5, <2>6
<1>8. CASE RemoveFinalizer
  BY <1>8, ReturnType, FailType, PutGatewayType, NoRecords DEF RemoveFinalizer
<1>9. CASE EnsureChild
  <2>1. step < Calls(phase)
    BY <1>9, CallCounts, LastCalls DEF EnsureChild, Child, Owned, ModeAOnly, ModeBOnly
  <2>2. PICK o \in Objects : CreateOrUpdate(o)
    BY <1>9 DEF EnsureChild, Child, Objects
  <2> QED
    BY <1>9, <2>1, <2>2, CreateOrUpdateType DEF EnsureChild
<1>10. CASE EnsureKeySecret
  <2>1. phase = "modeA" /\ step = 1
    BY <1>10, KeysFirst, CallCounts DEF EnsureKeySecret
  <2>2. CASE "keys" \in cobjs
    <3>1. misread' \in BOOLEAN
      BY <1>10, <2>2, Zenon DEF EnsureKeySecret
    <3> QED
      BY <1>10, <2>1, <2>2, <3>1, CallCounts DEF EnsureKeySecret, Goto, Phases
  <2>3. CASE "keys" \notin cobjs /\ harvest /\ "vanity" \notin ready
    <3>1. objs \cup {"vanity"} \in SUBSET Objects
      BY DEF Objects, Owned, ModeAOnly
    <3> QED
      BY <1>10, <2>1, <2>3, <3>1, CallCounts, PutObjsType
         DEF EnsureKeySecret, Goto, Phases, Reasons
  <2>4. CASE "keys" \notin cobjs /\ (harvest => "vanity" \in ready) /\ "keys" \notin objs
    <3>1. PICK left \in SUBSET (objs \cap {"vanity"}) :
             PutObjs((objs \ {"vanity"}) \cup left \cup {"keys"})
      BY <1>10, <2>4 DEF EnsureKeySecret
    <3>2. (objs \ {"vanity"}) \cup left \cup {"keys"} \in SUBSET Objects
      BY DEF Objects, Owned, ModeAOnly
    <3>3. ObjectsOK' /\ FlagsOK'
      BY <1>10, <2>4, <3>1, <3>2, PutObjsType DEF EnsureKeySecret
    <3> QED
      BY <1>10, <2>1, <2>4, <3>3, CallCounts DEF EnsureKeySecret, Goto, Phases
  <2>5. CASE "keys" \notin cobjs /\ (harvest => "vanity" \in ready) /\ "keys" \in objs
    BY <1>10, <2>5, ReturnType DEF EnsureKeySecret
  <2> QED
    BY <2>2, <2>3, <2>4, <2>5
<1>11. CASE UpdateStatus
  <2> DEFINE new == [lgw EXCEPT !.addr = lkey, !.prog = "Programmed"]
  <2>1. new \in GatewayType
    <3>1. lkey \in Int /\ "Programmed" \in Reasons /\ lgw \in GatewayType
      BY DEF Reasons
    <3> QED
      BY <3>1, GatewayStatus
  <2> HIDE DEF new
  <2>2. CASE new = lgw
    BY <1>11, <2>2, ReturnType DEF UpdateStatus, new
  <2>3. CASE new # lgw /\ lgw = gw
    BY <1>11, <2>1, <2>3, ReturnType, PutGatewayType DEF UpdateStatus, new
  <2>4. CASE new # lgw /\ lgw # gw
    BY <1>11, <2>4, FailType DEF UpdateStatus, new
  <2> QED
    BY <2>2, <2>3, <2>4
<1>12. CASE EnsureCrossNSRole
  <2>1. phase = "modeB" /\ step = 1
    <3>1. phase = "modeB" /\ step \in 1 .. 13
      BY <1>12, CallCounts DEF EnsureCrossNSRole
    <3> QED
      BY <1>12, <3>1, CrossNSFirst DEF EnsureCrossNSRole
  <2>2. CASE lobp.ref \notin Namespaces
    BY <1>12, <2>1, <2>2, CallCounts DEF EnsureCrossNSRole, Continue, Goto, Phases
  <2>3. CASE lobp.ref \in Namespaces /\ grant
    BY <1>12, <2>1, <2>3, CallCounts, CreateOrUpdateType DEF EnsureCrossNSRole, Objects
  <2>4. CASE lobp.ref \in Namespaces /\ ~grant
    BY <1>12, <2>4, ReturnType DEF EnsureCrossNSRole
  <2> QED
    BY <2>2, <2>3, <2>4
<1>13. CASE DeleteStaleCrossNSRoles
  <2>1. phase = "modeB" /\ step = 2
    <3>1. phase = "modeB" /\ step \in 1 .. 13
      BY <1>13, CallCounts DEF DeleteStaleCrossNSRoles
    <3> QED
      BY <1>13, <3>1, CrossNSFirst DEF DeleteStaleCrossNSRoles
  <2>2. objs \ ((cobjs \cap Namespaces) \ {lobp.ref}) \in SUBSET Objects
    OBVIOUS
  <2> QED
    BY <1>13, <2>1, <2>2, CallCounts, PutObjsType
       DEF DeleteStaleCrossNSRoles, Continue, Goto, Phases
<1>14. CASE GetMasterSecret
  <2>1. phase = "modeB" /\ step = 3
    <3>1. phase = "modeB" /\ step \in 1 .. 13
      BY <1>14, CallCounts DEF GetMasterSecret
    <3> QED
      BY <1>14, <3>1, CrossNSFirst DEF GetMasterSecret
  <2>2. ControlOK'
    BY <1>14, <2>1, CallCounts DEF GetMasterSecret, Goto, Phases, Reasons
  <2> QED
    BY <1>14, <2>2 DEF GetMasterSecret
<1>15. CASE AnnotateModeB
  <2>1. phase = "modeB" /\ step = 12
    <3>1. phase = "modeB" /\ step \in 1 .. 13
      BY <1>15, CallCounts DEF AnnotateModeB
    <3> QED
      BY <1>15, <3>1, CrossNSFirst DEF AnnotateModeB
  <2>2. [gw EXCEPT !.ann = TRUE] \in GatewayType
    BY GatewayFlags
  <2>3. CASE lgw.ann
    BY <1>15, <2>1, <2>3, CallCounts DEF AnnotateModeB, Goto, Phases
  <2>4. CASE ~lgw.ann /\ cgw = gw /\ gw.exists
    <3>1. ControlOK'
      BY <1>15, <2>1, <2>4, CallCounts DEF AnnotateModeB, Goto, Phases
    <3> QED
      BY <1>15, <2>2, <2>4, <3>1, PutGatewayType DEF AnnotateModeB
  <2>5. CASE ~lgw.ann /\ (cgw # gw \/ ~cgw.exists)
    BY <1>15, <2>5, FailType DEF AnnotateModeB
  <2> QED
    BY <2>3, <2>4, <2>5
<1>16. CASE UpdateStatusModeB
  <2>1. ModeBHealth \in Reasons /\ MasterAddr \in Int
    BY DEF ModeBHealth, MasterAddr, Reasons
  <2>2. [gw EXCEPT !.addr = MasterAddr, !.prog = ModeBHealth] \in GatewayType
    BY <2>1, GatewayStatus
  <2>3. CASE cgw = gw /\ gw.exists
    BY <1>16, <2>2, <2>3, ReturnType, PutGatewayType DEF UpdateStatusModeB
  <2>4. CASE cgw # gw \/ ~cgw.exists
    BY <1>16, <2>4, FailType DEF UpdateStatusModeB
  <2> QED
    BY <2>3, <2>4
<1>17. CASE ReconcileOBP
  <2>1. OBPVerdict \in PolicyType
    BY DEF OBPVerdict, PolicyType
  <2>2. obp' \in PolicyType /\ cobp' \in PolicyType
    BY <1>17, <2>1, PutPolicyType DEF ReconcileOBP
  <2>3. queued' \in BOOLEAN /\ obpQueued' \in BOOLEAN
    BY <1>17, <2>1, PutPolicyType DEF ReconcileOBP
  <2> QED
    BY <1>17, <2>2, <2>3 DEF ReconcileOBP
<1>18. CASE SyncGateway
  BY <1>18 DEF SyncGateway
<1>19. CASE SyncPolicy
  BY <1>19 DEF SyncPolicy
<1>20. CASE \E o \in Objects : SyncObject(o)
  BY <1>20 DEF SyncObject
<1>21. CASE GarbageCollect
  BY <1>21, PutObjsType DEF GarbageCollect
<1>22. CASE \E o \in {"frontend", "vanity"} : WorkloadReady(o)
  BY <1>22 DEF WorkloadReady
<1>23. CASE ApiError
  BY <1>23, FailType, ConstantsAssumption DEF ApiError
<1>24. CASE Restart
  BY <1>24, ReturnType, ConstantsAssumption DEF Restart
<1>25. CASE Users
  <2>1. BoundsOK' /\ ObjectsOK' /\ ControlOK'
    <3>1. \E kind : Edit(kind)
      BY <1>25 DEF Users, AttachPolicy, DetachPolicy, RetargetPolicy,
                   DeleteGateway, ToggleMasterSecret, ToggleGrant, ToggleClass
    <3> QED
      BY <3>1, ConstantsAssumption DEF Edit
  <2>2. ASSUME NEW new \in PolicyType, EditPolicy(new), UNCHANGED <<localVars, harvest>>
        PROVE  ViewsOK' /\ FlagsOK'
    BY <2>2, PutPolicyType DEF EditPolicy
  <2>3. CASE \E ref \in Refs : AttachPolicy(ref) \/ RetargetPolicy(ref)
    <3>1. PICK ref \in Refs : AttachPolicy(ref) \/ RetargetPolicy(ref)
      BY <2>3
    <3>2. /\ [NoPolicy EXCEPT !.attached = TRUE, !.ref = ref] \in PolicyType
          /\ [obp EXCEPT !.ref = ref] \in PolicyType
      BY NoRecords, PolicyUpdates
    <3> QED
      BY <2>1, <2>2, <3>1, <3>2 DEF AttachPolicy, RetargetPolicy, Edit
  <2>4. CASE DetachPolicy
    BY <2>1, <2>2, <2>4, NoRecords DEF DetachPolicy, Edit
  <2>5. CASE DeleteGateway
    <3>1. (IF gw.finalizer THEN [gw EXCEPT !.deleting = TRUE] ELSE NoGateway) \in GatewayType
      BY NoRecords, GatewayFlags
    <3> QED
      BY <2>1, <2>5, <3>1, PutGatewayType DEF DeleteGateway, Edit
  <2>6. CASE ToggleMasterSecret \/ ToggleGrant \/ ToggleClass
    BY <2>1, <2>6 DEF ToggleMasterSecret, ToggleGrant, ToggleClass, Edit
  <2> QED
    BY <1>25, <2>3, <2>4, <2>5, <2>6 DEF Users
<1>26. CASE UNCHANGED vars
  BY <1>26, CallCounts DEF vars
<1> QED
  BY <1>1, <1>2, <1>3, <1>4, <1>5, <1>6, <1>7, <1>8, <1>9, <1>10, <1>11, <1>12,
     <1>13, <1>14, <1>15, <1>16, <1>17, <1>18, <1>19, <1>20, <1>21, <1>22, <1>23, <1>24,
     <1>25, <1>26
     DEF Next, Step, Sync

\* Every view of an object keeps its shape, no workload is ready without its
\* object, and no call order is overrun, for all constants and behaviours.
THEOREM TypeCorrect == Spec => []TypeOK
<1>1. Init => TypeOK
  BY InitTypeOK
<1>2. TypeOK /\ [Next]_vars => TypeOK'
  BY StepTypeOK
<1> QED
  BY <1>1, <1>2, PTL DEF Spec

----------------------------------------------------------------------------
(***************************************************************************)
(* ModeExclusion.  It is not inductive: a reconcile in the middle of       *)
(* provisioning one mode would create its workload next to the other's.    *)
(* What carries it is what the teardown has already removed, call by call, *)
(* and that nothing but this reconcile creates a workload.                 *)
(***************************************************************************)
NoModeA == "deployment" \notin objs

NoModeB == "frontend" \notin objs /\ "backends" \notin objs

ModeInv ==
  /\ NoModeA \/ NoModeB
  /\ phase = "cleanupA" /\ step > 1 => NoModeA
  /\ phase = "modeB" => NoModeA
  /\ phase = "cleanupB" /\ step > 1 => "frontend" \notin objs
  /\ phase = "cleanupB" /\ step > 2 => "backends" \notin objs
  /\ phase = "modeA" => NoModeB

\* A step that creates no workload and does not move the reconcile on.
LEMMA ShrinkingStep ==
  ASSUME ModeInv,
         \A o \in {"deployment", "frontend", "backends"} : o \in objs' => o \in objs,
         \/ UNCHANGED <<phase, step>>
         \/ phase' \in {"idle", "finalizer", "dispatch", "condition", "unfinalize"}
  PROVE  ModeInv'
BY DEF ModeInv, NoModeA, NoModeB

\* CreateOrUpdate of o, in the phase of a mode that may have o.
LEMMA CreateOrUpdateMode ==
  ASSUME TypeOK, ModeInv, NEW o, CreateOrUpdate(o),
         \/ phase = "modeA" /\ o \notin {"frontend", "backends"}
         \/ phase = "modeB" /\ o # "deployment"
  PROVE  ModeInv'
BY DEF CreateOrUpdate, PutObjs, Continue, Goto, Return, ModeInv, NoModeA, NoModeB

\* Every step preserves ModeInv: the teardown of a mode removes its workloads
\* before the other mode's calls begin, and nothing else creates a workload.
LEMMA StepModeInv == TypeOK /\ ModeInv /\ [Next]_vars => ModeInv'
<1> SUFFICES ASSUME TypeOK, ModeInv, [Next]_vars PROVE ModeInv'
  OBVIOUS
<1>1. CASE Reconcile
  BY <1>1 DEF Reconcile, Return, Goto, ModeInv, NoModeA, NoModeB
<1>2. CASE AddFinalizer
  BY <1>2, ShrinkingStep DEF AddFinalizer, Goto, Fail, Return
<1>3. CASE Dispatch
  BY <1>3 DEF Dispatch, Goto, ModeInv, NoModeA, NoModeB
<1>4. CASE SetProgrammingCondition
  BY <1>4, ShrinkingStep DEF SetProgrammingCondition, Goto, Fail, Return
<1>5. CASE CleanupModeAResources
  <2>1. objs' = objs \ {CleanupModeA[step]}
    BY <1>5 DEF CleanupModeAResources, PutObjs
  <2>2. step \in 1 .. 6
    BY <1>5, CallCounts DEF CleanupModeAResources, TypeOK, ControlOK
  <2>3. NoModeA'
    BY <1>5, <2>1, <2>2, WorkloadsFirst DEF CleanupModeAResources, ModeInv, NoModeA
  <2> QED
    BY <1>5, <2>1, <2>2, <2>3, PlanLengths
       DEF CleanupModeAResources, Continue, Goto, ModeInv, NoModeA, NoModeB
<1>6. CASE CleanupModeBResources
  <2>1. /\ phase = "cleanupB" /\ phase' = "cleanupB" /\ step' = step + 1
        /\ objs' = objs \ CleanupModeBDeletes(CleanupModeB[step])
    BY <1>6 DEF CleanupModeBResources, PutObjs, Continue, Goto
  <2>2. step \in 1 .. 8
    BY <2>1, CallCounts DEF TypeOK, ControlOK
  <2>3. step = 1 => "frontend" \notin objs'
    BY <2>1, WorkloadsFirst DEF CleanupModeBDeletes
  <2>4. step = 2 => "backends" \notin objs'
    BY <2>1, WorkloadsFirst DEF CleanupModeBDeletes
  <2> QED
    BY <2>1, <2>2, <2>3, <2>4 DEF ModeInv, NoModeA, NoModeB
<1>7. CASE ClearAnnotations
  <2>1. phase = "cleanupB" /\ step = 8 /\ objs' = objs
    BY <1>7, LastAnnotations, CallCounts
       DEF ClearAnnotations, Fail, TypeOK, ControlOK
  <2>2. phase' \in {"unfinalize", "modeA", "idle"}
    BY <1>7 DEF ClearAnnotations, Goto, Fail, Return
  <2> QED
    BY <2>1, <2>2 DEF ModeInv, NoModeA, NoModeB
<1>8. CASE RemoveFinalizer
  BY <1>8, ShrinkingStep DEF RemoveFinalizer, Goto, Fail, Return
<1>9. CASE EnsureChild
  <2>1. CASE phase = "modeA"
    <3>1. step \in 1 .. 7
      BY <2>1, CallCounts DEF TypeOK, ControlOK
    <3> QED
      BY <1>9, <2>1, <3>1, PlansDisjoint, CreateOrUpdateMode DEF EnsureChild
  <2>2. CASE phase = "modeB"
    <3>1. step \in 1 .. 13
      BY <2>2, CallCounts DEF TypeOK, ControlOK
    <3> QED
      BY <1>9, <2>2, <3>1, PlansDisjoint, CreateOrUpdateMode DEF EnsureChild
  <2> QED
    BY <1>9, <2>1, <2>2 DEF EnsureChild
<1>10. CASE EnsureKeySecret
  <2>1. phase = "modeA" /\ NoModeB
    BY <1>10 DEF EnsureKeySecret, ModeInv
  <2>2. \A o \in {"deployment", "frontend", "backends"} : o \in objs' => o \in objs
    BY <1>10 DEF EnsureKeySecret, PutObjs
  <2>3. phase' \in {"modeA", "condition", "idle"}
    BY <1>10 DEF EnsureKeySecret, Goto, Return
  <2> QED
    BY <2>1, <2>2, <2>3 DEF ModeInv, NoModeA, NoModeB
<1>11. CASE UpdateStatus
  BY <1>11, ShrinkingStep DEF UpdateStatus, Goto, Fail, Return
<1>12. CASE EnsureCrossNSRole
  <2>1. CASE lobp.ref \in Namespaces /\ grant
    <3>1. lobp.ref # "deployment"
      BY <2>1, ConstantsAssumption DEF Owned, ModeAOnly
    <3> QED
      BY <1>12, <2>1, <3>1, CreateOrUpdateMode DEF EnsureCrossNSRole
  <2>2. CASE ~(lobp.ref \in Namespaces /\ grant)
    BY <1>12, <2>2
       DEF EnsureCrossNSRole, Continue, Goto, Return, ModeInv, NoModeA, NoModeB
  <2> QED
    BY <2>1, <2>2
<1>13. CASE DeleteStaleCrossNSRoles
  BY <1>13 DEF DeleteStaleCrossNSRoles, PutObjs, Continue, Goto, ModeInv, NoModeA, NoModeB
<1>14. CASE GetMasterSecret
  BY <1>14 DEF GetMasterSecret, Goto, ModeInv, NoModeA, NoModeB
<1>15. CASE AnnotateModeB
  BY <1>15 DEF AnnotateModeB, Goto, Fail, Return, ModeInv, NoModeA, NoModeB
<1>16. CASE UpdateStatusModeB
  BY <1>16, ShrinkingStep DEF UpdateStatusModeB, Goto, Fail, Return
<1>17. CASE ReconcileOBP
  BY <1>17, ShrinkingStep DEF ReconcileOBP
<1>18. CASE Sync
  BY <1>18, ShrinkingStep DEF Sync, SyncGateway, SyncPolicy, SyncObject
<1>19. CASE GarbageCollect
  BY <1>19, ShrinkingStep DEF GarbageCollect, PutObjs
<1>20. CASE \E o \in {"frontend", "vanity"} : WorkloadReady(o)
  BY <1>20, ShrinkingStep DEF WorkloadReady
<1>21. CASE ApiError \/ Restart
  BY <1>21, ShrinkingStep DEF ApiError, Restart, Fail, Return, Goto
<1>22. CASE Users
  <2>1. \E kind : Edit(kind)
    BY <1>22 DEF Users, AttachPolicy, DetachPolicy, RetargetPolicy, DeleteGateway,
                 ToggleMasterSecret, ToggleGrant, ToggleClass
  <2> QED
    BY <2>1, ShrinkingStep DEF Edit
<1>23. CASE UNCHANGED vars
  BY <1>23, ShrinkingStep
<1> QED
  BY <1>1, <1>2, <1>3, <1>4, <1>5, <1>6, <1>7, <1>8, <1>9, <1>10, <1>11, <1>12,
     <1>13, <1>14, <1>15, <1>16, <1>17, <1>18, <1>19, <1>20, <1>21, <1>22, <1>23
     DEF Next, Step

\* Mode A's Deployment never coexists with Mode B's workloads, whatever the
\* informers miss, users change, calls fail and restarts interrupt.
THEOREM ModesExclude == Spec => []ModeExclusion
<1>1. Init => ModeInv
  BY DEF Init, ModeInv, NoModeA, NoModeB
<1>2. TypeOK /\ ModeInv /\ [Next]_vars => ModeInv'
  BY StepModeInv
<1>3. ModeInv => ModeExclusion
  BY DEF ModeInv, NoModeA, NoModeB, ModeExclusion
<1> QED
  BY <1>1, <1>2, <1>3, TypeCorrect, PTL DEF Spec
=============================================================================
