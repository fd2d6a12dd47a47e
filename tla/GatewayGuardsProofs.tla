------------------------ MODULE GatewayGuardsProofs ------------------------
(***************************************************************************)
(* More proofs about GatewayReconciler: what the finalizer guards, which   *)
(* cross-namespace pairs Mode B leaves, and which addresses are published  *)
(* again.  The first two hold only while the RBAC informers are current,    *)
(* since the code lists their cache.                                       *)
(***************************************************************************)
EXTENDS GatewayReconcilerProofs

\* The RBAC informers of the other namespaces are current, so that the List of
\* cross-namespace pairs shows the pairs there are.
RBACCurrent == Lagging \cap Namespaces = {}

Pairs == objs \cap Namespaces

(***************************************************************************)
(* The inductive invariants.                                               *)
(***************************************************************************)

\* The cached pairs are the pairs.
PairsListed == cobjs \cap Namespaces = Pairs

Guarded == gw.exists /\ gw.finalizer

\* What the copies of the Gateway still say about it.  A deletion is never
\* undone; a copy with the finalizer and without a deletion is of a Gateway
\* whose finalizer nobody has removed.
CopiesOK ==
  /\ gw.finalizer => gw.exists
  /\ cgw.deleting \/ lgw.deleting => gw.deleting \/ ~gw.exists
  /\ cgw.exists /\ cgw.finalizer /\ ~cgw.deleting => Guarded

\* The calls of a reconcile that follow a look at the finalizer are made while
\* it is there, and the removal comes after the collection.
PhasesOK ==
  /\ phase = "finalizer" => lgw.exists
  /\ phase \in {"dispatch", "cleanupA", "modeB"} => Guarded
  /\ phase = "cleanupB" /\ step > 6 => Pairs = {}
  /\ phase = "unfinalize" => lgw.deleting /\ Pairs = {}

GuardInv == PairsListed /\ CopiesOK /\ PhasesOK /\ (Pairs # {} => Guarded)

\* A policy that is attached names another namespace, in every view of it, and
\* Mode B works for an attached policy.
PoliciesAway ==
  /\ obp.attached => obp.ref \in Namespaces
  /\ cobp.attached => cobp.ref \in Namespaces

HandAway == phase \in {"cleanupA", "modeB"} => lobp.ref \in Namespaces

FollowInv == PairsListed /\ PoliciesAway /\ HandAway /\ CrossNSRolesFollowPolicy

\* Mode B has no key Secret, one that is there is newer than what Mode B
\* superseded, and so is the key Mode A has in hand, unless it was misread.
RetiredInv ==
  /\ phase = "cleanupA" /\ step > 3 => "keys" \notin objs
  /\ phase = "modeB" => "keys" \notin objs
  /\ retired <= key
  /\ "keys" \in objs => retired < key
  /\ phase = "modeA" /\ step > 1 => retired < lkey \/ misread

USE DEF vars, apiVars, cacheVars, localVars, envVars, boundVars

(***************************************************************************)
(* Facts about the shared pieces of an action.                             *)
(***************************************************************************)

\* No child object in the Gateway's namespace is a cross-namespace pair.
LEMMA OwnedNotPairs == Owned \cap Namespaces = {} /\ "keys" \notin Namespaces
BY ConstantsAssumption DEF Owned, ModeAOnly

\* The place of the collection of pairs in Mode B's teardown.
LEMMA CollectionSixth ==
  /\ CleanupModeB[6] = "crossNS" /\ CleanupModeA[3] = "keys"
  /\ \A i \in 1 .. 8 : CleanupModeB[i] = "crossNS" => i = 6
BY DEF CleanupModeB, CleanupModeA

\* With current RBAC informers a write of child objects shows in the cache.
LEMMA PutObjsPairs ==
  ASSUME RBACCurrent, PairsListed, NEW new, PutObjs(new)
  PROVE  PairsListed' /\ Pairs' = new \cap Namespaces
BY DEF RBACCurrent, PairsListed, Pairs, PutObjs

\* CreateOrUpdate adds at most its object, and the reconcile moves on or returns.
LEMMA CreateOrUpdatePairs ==
  ASSUME RBACCurrent, PairsListed, NEW o, CreateOrUpdate(o)
  PROVE  /\ PairsListed'
         /\ Pairs' \subseteq Pairs \cup ({o} \cap Namespaces)
         /\ \/ phase' = phase /\ step' = step + 1 /\ UNCHANGED localVars
            \/ Return
<1>1. CASE PutObjs(objs \cup {o})
  BY <1>1, PutObjsPairs DEF CreateOrUpdate, Continue, Goto, Pairs
<1>2. CASE UNCHANGED <<objs, cobjs>>
  BY <1>2 DEF CreateOrUpdate, Continue, Goto, Pairs, PairsListed
<1> QED
  BY <1>1, <1>2 DEF CreateOrUpdate

\* ensureKeySecret touches no pair.
LEMMA EnsureKeyPairs ==
  ASSUME RBACCurrent, PairsListed, EnsureKeySecret
  PROVE  PairsListed' /\ Pairs' = Pairs
<1>1. CASE UNCHANGED <<objs, cobjs>>
  BY <1>1 DEF Pairs, PairsListed
<1>2. CASE PutObjs(objs \cup {"vanity"})
  BY <1>2, PutObjsPairs, OwnedNotPairs DEF Pairs, Owned, ModeAOnly
<1>3. ASSUME NEW left \in SUBSET (objs \cap {"vanity"}),
             PutObjs((objs \ {"vanity"}) \cup left \cup {"keys"})
      PROVE  PairsListed' /\ Pairs' = Pairs
  BY <1>3, PutObjsPairs, OwnedNotPairs DEF Pairs, Owned, ModeAOnly
<1> QED
  BY <1>1, <1>2, <1>3 DEF EnsureKeySecret

\* The edits of users leave the child objects and the reconcile alone.
LEMMA UsersEdit ==
  ASSUME Users
  PROVE  UNCHANGED <<objs, cobjs, key, retired, ckey, localVars, ready, phase, step>>
BY DEF Users, AttachPolicy, DetachPolicy, RetargetPolicy, DeleteGateway,
       ToggleMasterSecret, ToggleGrant, ToggleClass, Edit

\* What a write of the Gateway in place keeps: all but the status and annotations.
InPlace(new, g) ==
  new.exists = g.exists /\ new.deleting = g.deleting /\ new.finalizer = g.finalizer

\* The annotation and status writes are in place.
LEMMA WritesInPlace ==
  ASSUME NEW g \in GatewayType, NEW b, NEW a, NEW r
  PROVE  /\ InPlace([g EXCEPT !.ann = b], g)
         /\ InPlace([g EXCEPT !.prog = r], g)
         /\ InPlace([g EXCEPT !.addr = a, !.prog = r], g)
BY DEF GatewayType, InPlace

\* Setting the finalizer or the deletion mark changes nothing else.
LEMMA MarkFields ==
  ASSUME NEW g \in GatewayType
  PROVE  /\ LET h == [g EXCEPT !.finalizer = TRUE] IN
              h.finalizer /\ h.exists = g.exists /\ h.deleting = g.deleting /\ h.addr = g.addr
         /\ LET h == [g EXCEPT !.deleting = TRUE] IN
              h.deleting /\ h.exists = g.exists /\ h.finalizer = g.finalizer /\ h.addr = g.addr
BY DEF GatewayType

\* A write that keeps the Gateway, its finalizer and its deletion keeps what the
\* copies say; the reconcile then has the new copy, an old one or none.
LEMMA PutGatewayCopies ==
  ASSUME ViewsOK, CopiesOK, NEW new \in GatewayType, PutGateway(new),
         new.exists = gw.exists, new.deleting = gw.deleting,
         new.finalizer = gw.finalizer \/ (new.finalizer /\ gw.exists),
         lgw' \in {gw', lgw, NoGateway}
  PROVE  CopiesOK' /\ (Guarded => Guarded')
BY DEF ViewsOK, CopiesOK, PutGateway, Guarded, NoGateway

\* A step that leaves the Gateway and the pairs alone and does not move the
\* reconcile on keeps the guards.
LEMMA IdleStep ==
  ASSUME GuardInv, UNCHANGED <<gw, cgw>>, PairsListed', Pairs' \subseteq Pairs,
         \/ UNCHANGED <<phase, step, lgw>>
         \/ Return
  PROVE  GuardInv'
BY DEF GuardInv, CopiesOK, PhasesOK, Guarded, Return, Goto, NoGateway

\* So does a call that fails.
LEMMA FailStep ==
  ASSUME GuardInv, Fail
  PROVE  GuardInv'
<1>1. Pairs' = Pairs /\ PairsListed' /\ Return /\ UNCHANGED <<gw, cgw>>
  BY DEF Fail, GuardInv, Pairs, PairsListed
<1> QED
  BY <1>1, IdleStep

(***************************************************************************)
(* The finalizer guards the cross-namespace pairs.                         *)
(***************************************************************************)

\* A status or annotation write of the copy in hand keeps the guards.
LEMMA WriteInPlace ==
  ASSUME ViewsOK, GuardInv, NEW new \in GatewayType, PutGateway(new),
         InPlace(new, gw),
         UNCHANGED <<objs, cobjs>>,
         \/ Return
         \/ phase' = phase /\ phase = "modeB"
  PROVE  lgw' \in {gw', lgw, NoGateway} => GuardInv'
<1> SUFFICES ASSUME lgw' \in {gw', lgw, NoGateway} PROVE GuardInv'
  OBVIOUS
<1>1. CopiesOK' /\ (Guarded => Guarded')
  BY PutGatewayCopies DEF GuardInv, InPlace
<1>2. Pairs' = Pairs /\ PairsListed'
  BY DEF Pairs, PairsListed, GuardInv
<1> QED
  BY <1>1, <1>2 DEF GuardInv, PhasesOK, Return, Goto

\* Every step keeps the guards, if the RBAC informers are current.
LEMMA StepGuardInv ==
  ASSUME RBACCurrent, TypeOK, GuardInv, [Next]_vars
  PROVE  GuardInv'
<1>0. /\ ViewsOK /\ gw \in GatewayType /\ cgw \in GatewayType /\ lgw \in GatewayType
      /\ PairsListed /\ CopiesOK /\ PhasesOK /\ (Pairs # {} => Guarded)
  BY DEF TypeOK, ViewsOK, GuardInv
<1>1. UNCHANGED <<objs, cobjs>> => Pairs' = Pairs /\ PairsListed'
  BY <1>0 DEF Pairs, PairsListed
<1>2. CASE Reconcile
  <2>1. CASE Return
    BY <1>1, <1>2, <2>1, IdleStep DEF Reconcile
  <2>2. CASE ~(~cgw.exists \/ ~managed \/ (cgw.deleting /\ ~cgw.finalizer))
    BY <1>0, <1>1, <1>2, <2>2 DEF Reconcile, Goto, GuardInv, CopiesOK, PhasesOK, Guarded
  <2> QED
    BY <1>2, <2>1, <2>2 DEF Reconcile
<1>3. CASE AddFinalizer
  <2>1. CASE lgw = gw
    <3> DEFINE new == [gw EXCEPT !.finalizer = TRUE]
    <3>1. new \in GatewayType /\ new.exists = gw.exists /\ new.deleting = gw.deleting
          /\ new.finalizer /\ gw.exists
      BY <1>0, <1>3, <2>1, GatewayFlags, MarkFields DEF AddFinalizer, PhasesOK
    <3>2. PutGateway(new) /\ lgw' = gw' /\ phase' = "dispatch" /\ UNCHANGED <<objs, cobjs>>
      BY <1>3, <2>1 DEF AddFinalizer, Goto
    <3> HIDE DEF new
    <3>3. CopiesOK' /\ Guarded'
      BY <1>0, <3>1, <3>2, PutGatewayCopies DEF Guarded, PutGateway
    <3> QED
      BY <1>0, <1>1, <3>2, <3>3 DEF GuardInv, PhasesOK
  <2>2. CASE lgw # gw
    BY <1>3, <2>2, FailStep DEF AddFinalizer
  <2> QED
    BY <2>1, <2>2
<1>4. CASE Dispatch
  <2>1. Guarded
    BY <1>0, <1>4 DEF Dispatch, PhasesOK
  <2> QED
    BY <1>0, <1>1, <1>4, <2>1
       DEF Dispatch, Goto, GuardInv, CopiesOK, PhasesOK, Guarded
<1>5. CASE SetProgrammingCondition
  <2> DEFINE new == [lgw EXCEPT !.prog = reason]
  <2>1. CASE new = lgw
    BY <1>1, <1>5, <2>1, IdleStep DEF SetProgrammingCondition
  <2>2. CASE new # lgw /\ lgw = gw
    <3>1. new \in GatewayType /\ InPlace(new, gw)
      BY <1>0, <2>2, GatewayProgrammed, WritesInPlace DEF TypeOK, ControlOK
    <3>2. PutGateway(new) /\ Return /\ UNCHANGED <<objs, cobjs>>
      BY <1>5, <2>2 DEF SetProgrammingCondition
    <3> HIDE DEF new
    <3> QED
      BY <1>0, <3>1, <3>2, WriteInPlace DEF Return
  <2>3. CASE new # lgw /\ lgw # gw
    BY <1>5, <2>3, FailStep DEF SetProgrammingCondition
  <2> QED
    BY <2>1, <2>2, <2>3
<1>6. CASE CleanupModeAResources
  <2>1. PairsListed' /\ Pairs' \subseteq Pairs
    BY <1>0, <1>6, PutObjsPairs DEF CleanupModeAResources, Pairs
  <2>2. Guarded /\ phase' \in {"cleanupA", "modeB"} /\ UNCHANGED <<gw, cgw, lgw>>
    BY <1>0, <1>6 DEF CleanupModeAResources, PhasesOK, Continue, Goto
  <2> QED
    BY <1>0, <2>1, <2>2 DEF GuardInv, CopiesOK, PhasesOK, Guarded
<1>7. CASE CleanupModeBResources
  <2>1. PairsListed' /\ Pairs' = Pairs \ CleanupModeBDeletes(CleanupModeB[step])
    BY <1>0, <1>7, PutObjsPairs DEF CleanupModeBResources, Pairs
  <2>2. phase = "cleanupB" /\ phase' = "cleanupB" /\ step' = step + 1
        /\ UNCHANGED <<gw, cgw, lgw>> /\ step \in 1 .. 8
    BY <1>7, CallCounts DEF CleanupModeBResources, Continue, Goto, TypeOK, ControlOK
  <2>3. step = 6 => Pairs' = {}
    BY <1>0, <2>1, CollectionSixth DEF CleanupModeBDeletes, PairsListed, Pairs
  <2>4. step' > 6 => Pairs' = {}
    BY <1>0, <2>1, <2>2, <2>3 DEF PhasesOK
  <2> QED
    BY <1>0, <2>1, <2>2, <2>4 DEF GuardInv, CopiesOK, PhasesOK, Guarded
<1>8. CASE ClearAnnotations
  <2>1. phase = "cleanupB" /\ step = 8
    BY <1>8, LastAnnotations, CallCounts DEF ClearAnnotations, TypeOK, ControlOK
  <2>2. Pairs = {}
    BY <1>0, <2>1 DEF PhasesOK
  <2>3. CASE ~lgw.ann
    <3>1. UNCHANGED <<gw, cgw, lgw, objs, cobjs>> /\ phase' \in {"unfinalize", "modeA"}
          /\ (phase' = "unfinalize" => lgw.deleting)
      BY <1>8, <2>3 DEF ClearAnnotations, Goto
    <3> QED
      BY <1>0, <1>1, <2>2, <3>1 DEF GuardInv, CopiesOK, PhasesOK, Guarded
  <2>4. CASE lgw.ann /\ lgw = gw
    <3> DEFINE new == [gw EXCEPT !.ann = FALSE]
    <3>1. new \in GatewayType /\ InPlace(new, gw)
      BY <1>0, GatewayFlags, WritesInPlace
    <3>2. PutGateway(new) /\ lgw' = gw' /\ gw' = new /\ UNCHANGED <<objs, cobjs>>
          /\ phase' \in {"unfinalize", "modeA"}
          /\ (phase' = "unfinalize" => lgw.deleting)
      BY <1>8, <2>4 DEF ClearAnnotations, Goto, PutGateway
    <3> HIDE DEF new
    <3>3. CopiesOK' /\ new.deleting = gw.deleting
      BY <1>0, <3>1, <3>2, PutGatewayCopies DEF InPlace
    <3> QED
      BY <1>0, <1>1, <2>2, <2>4, <3>1, <3>2, <3>3 DEF GuardInv, PhasesOK
  <2>5. CASE lgw.ann /\ lgw # gw
    BY <1>8, <2>5, FailStep DEF ClearAnnotations
  <2> QED
    BY <2>3, <2>4, <2>5
<1>9. CASE RemoveFinalizer
  <2>1. lgw.deleting /\ Pairs = {}
    BY <1>0, <1>9 DEF RemoveFinalizer, PhasesOK
  <2>2. CASE Fail
    BY <2>2, FailStep
  <2>3. CASE Return /\ UNCHANGED <<gw, cgw, objs, cobjs>>
    BY <1>1, <2>3, IdleStep
  <2>4. CASE cgw.finalizer /\ cgw = gw /\ PutGateway(NoGateway) /\ Return
             /\ UNCHANGED <<objs, cobjs>>
    <3>1. gw' = NoGateway /\ lgw' = NoGateway /\ phase' = "idle" /\ cgw' \in {cgw, NoGateway}
      BY <2>4 DEF PutGateway, Return, Goto
    <3>2. cgw.deleting
      BY <1>0, <2>1, <2>4 DEF CopiesOK
    <3> QED
      BY <1>0, <1>1, <2>1, <2>4, <3>1, <3>2 DEF GuardInv, CopiesOK, PhasesOK, NoGateway
  <2> QED
    BY <1>9, <2>2, <2>3, <2>4 DEF RemoveFinalizer
<1>10. CASE EnsureChild
  <2>1. PICK o \in Owned : CreateOrUpdate(o)
    BY <1>10 DEF EnsureChild, Child
  <2>2. PairsListed' /\ Pairs' \subseteq Pairs
    BY <1>0, <2>1, CreateOrUpdatePairs, OwnedNotPairs
  <2>3. CASE Return
    BY <1>10, <2>2, <2>3, IdleStep DEF EnsureChild
  <2>4. CASE phase' = phase /\ UNCHANGED localVars
    <3>1. phase \in {"modeA", "modeB"}
      BY <1>10 DEF EnsureChild
    <3> QED
      BY <1>0, <1>10, <2>2, <2>4, <3>1
         DEF EnsureChild, GuardInv, CopiesOK, PhasesOK, Guarded
  <2> QED
    BY <1>0, <2>1, <2>3, <2>4, CreateOrUpdatePairs
<1>11. CASE EnsureKeySecret
  <2>1. PairsListed' /\ Pairs' = Pairs
    BY <1>0, <1>11, EnsureKeyPairs
  <2>2. CASE Return
    BY <1>11, <2>1, <2>2, IdleStep DEF EnsureKeySecret
  <2>3. CASE phase' \in {"modeA", "condition"} /\ UNCHANGED lgw
    BY <1>0, <1>11, <2>1, <2>3
       DEF EnsureKeySecret, GuardInv, CopiesOK, PhasesOK, Guarded
  <2> QED
    BY <1>11, <2>2, <2>3 DEF EnsureKeySecret, Goto
<1>12. CASE UpdateStatus
  <2> DEFINE new == [lgw EXCEPT !.addr = lkey, !.prog = "Programmed"]
  <2>1. CASE new = lgw
    BY <1>1, <1>12, <2>1, IdleStep DEF UpdateStatus
  <2>2. CASE new # lgw /\ lgw = gw
    <3>1. lkey \in Int /\ "Programmed" \in Reasons
      BY DEF TypeOK, ObjectsOK, Reasons
    <3>2. new \in GatewayType /\ InPlace(new, gw)
      BY <1>0, <2>2, <3>1, GatewayStatus, WritesInPlace
    <3>3. PutGateway(new) /\ Return /\ UNCHANGED <<objs, cobjs>>
      BY <1>12, <2>2 DEF UpdateStatus
    <3> HIDE DEF new
    <3> QED
      BY <1>0, <3>2, <3>3, WriteInPlace DEF Return
  <2>3. CASE new # lgw /\ lgw # gw
    BY <1>12, <2>3, FailStep DEF UpdateStatus
  <2> QED
    BY <2>1, <2>2, <2>3
<1>13. CASE EnsureCrossNSRole
  <2>1. Guarded /\ UNCHANGED <<gw, cgw>>
    BY <1>0, <1>13 DEF EnsureCrossNSRole, PhasesOK
  <2>2. PairsListed' /\ (Return \/ (phase' = "modeB" /\ UNCHANGED lgw))
    <3>1. CASE CreateOrUpdate(lobp.ref)
      BY <1>0, <1>13, <3>1, CreateOrUpdatePairs DEF EnsureCrossNSRole
    <3>2. CASE UNCHANGED <<objs, cobjs>>
      BY <1>1, <1>13, <3>1, <3>2 DEF EnsureCrossNSRole, Continue, Goto
    <3> QED
      BY <1>13, <3>1, <3>2 DEF EnsureCrossNSRole
  <2> QED
    BY <1>0, <2>1, <2>2
       DEF GuardInv, CopiesOK, PhasesOK, Guarded, Return, Goto, NoGateway
<1>14. CASE DeleteStaleCrossNSRoles
  <2>1. PairsListed' /\ Guarded /\ UNCHANGED <<gw, cgw, lgw>> /\ phase' = "modeB"
    BY <1>0, <1>14, PutObjsPairs DEF DeleteStaleCrossNSRoles, PhasesOK, Continue, Goto
  <2> QED
    BY <1>0, <2>1 DEF GuardInv, CopiesOK, PhasesOK, Guarded
<1>15. CASE GetMasterSecret
  <2>1. Guarded /\ UNCHANGED <<gw, cgw, lgw>> /\ phase' \in {"modeB", "condition"}
    BY <1>0, <1>15 DEF GetMasterSecret, PhasesOK, Goto
  <2> QED
    BY <1>0, <1>1, <1>15, <2>1 DEF GetMasterSecret, GuardInv, CopiesOK, PhasesOK, Guarded
<1>16. CASE AnnotateModeB
  <2>1. CASE lgw.ann
    <3>1. UNCHANGED <<gw, cgw, lgw, objs, cobjs>> /\ phase = "modeB" /\ phase' = "modeB"
      BY <1>16, <2>1 DEF AnnotateModeB, Goto
    <3> QED
      BY <1>0, <1>1, <3>1 DEF GuardInv, CopiesOK, PhasesOK, Guarded
  <2>2. CASE ~lgw.ann /\ cgw = gw /\ gw.exists
    <3> DEFINE new == [gw EXCEPT !.ann = TRUE]
    <3>1. new \in GatewayType /\ InPlace(new, gw)
      BY <1>0, GatewayFlags, WritesInPlace
    <3>2. PutGateway(new) /\ lgw' = gw' /\ UNCHANGED <<objs, cobjs>>
          /\ phase = "modeB" /\ phase' = "modeB"
      BY <1>16, <2>2 DEF AnnotateModeB, Goto
    <3> HIDE DEF new
    <3> QED
      BY <1>0, <3>1, <3>2, WriteInPlace
  <2>3. CASE ~lgw.ann /\ (cgw # gw \/ ~cgw.exists)
    BY <1>16, <2>3, FailStep DEF AnnotateModeB
  <2> QED
    BY <2>1, <2>2, <2>3
<1>17. CASE UpdateStatusModeB
  <2>1. CASE cgw = gw /\ gw.exists
    <3> DEFINE new == [gw EXCEPT !.addr = MasterAddr, !.prog = ModeBHealth]
    <3>1. MasterAddr \in Int /\ ModeBHealth \in Reasons
      BY DEF MasterAddr, ModeBHealth, Reasons
    <3>2. new \in GatewayType /\ InPlace(new, gw)
      BY <1>0, <3>1, GatewayStatus, WritesInPlace
    <3>3. PutGateway(new) /\ Return /\ UNCHANGED <<objs, cobjs>>
      BY <1>17, <2>1 DEF UpdateStatusModeB
    <3> HIDE DEF new
    <3> QED
      BY <1>0, <3>2, <3>3, WriteInPlace DEF Return
  <2>2. CASE cgw # gw \/ ~cgw.exists
    BY <1>17, <2>2, FailStep DEF UpdateStatusModeB
  <2> QED
    BY <2>1, <2>2
<1>18. CASE ReconcileOBP
  BY <1>1, <1>18, IdleStep DEF ReconcileOBP
<1>19. CASE SyncGateway
  BY <1>0, <1>1, <1>19 DEF SyncGateway, GuardInv, CopiesOK, PhasesOK, Guarded
<1>20. CASE SyncPolicy
  BY <1>1, <1>20, IdleStep DEF SyncPolicy
<1>21. ASSUME NEW o \in Objects, SyncObject(o) PROVE GuardInv'
  <2>1. PairsListed' /\ Pairs' = Pairs
    BY <1>0, <1>21 DEF SyncObject, PairsListed, Pairs
  <2> QED
    BY <1>21, <2>1, IdleStep DEF SyncObject
<1>22. CASE GarbageCollect
  <2>1. PairsListed' /\ Pairs' \subseteq Pairs
    BY <1>0, <1>22, PutObjsPairs DEF GarbageCollect, Pairs
  <2> QED
    BY <1>22, <2>1, IdleStep DEF GarbageCollect
<1>23. ASSUME NEW o, WorkloadReady(o) PROVE GuardInv'
  BY <1>1, <1>23, IdleStep DEF WorkloadReady
<1>24. CASE ApiError
  BY <1>24, FailStep DEF ApiError
<1>25. CASE Restart
  <2>1. PairsListed' /\ Pairs' = Pairs /\ cgw' = gw /\ gw' = gw
    BY <1>25 DEF Restart, PairsListed, Pairs
  <2> QED
    BY <1>0, <1>25, <2>1
       DEF Restart, Return, Goto, GuardInv, CopiesOK, PhasesOK, Guarded, NoGateway
<1>26. CASE DeleteGateway
  <2>1. UNCHANGED <<objs, cobjs, lgw, phase, step>>
    BY <1>26 DEF DeleteGateway, Edit
  <2>2. CASE gw.finalizer
    <3> DEFINE new == [gw EXCEPT !.deleting = TRUE]
    <3>1. new.exists = gw.exists /\ new.deleting /\ new.finalizer = gw.finalizer
      BY <1>0, MarkFields
    <3>2. gw' = new /\ cgw' \in {cgw, new}
      BY <1>26, <2>2 DEF DeleteGateway, PutGateway
    <3> HIDE DEF new
    <3> QED
      BY <1>0, <1>1, <2>1, <3>1, <3>2 DEF GuardInv, CopiesOK, PhasesOK, Guarded
  <2>3. CASE ~gw.finalizer
    <3>1. gw' = NoGateway /\ cgw' \in {cgw, NoGateway} /\ ~Guarded
      BY <1>26, <2>3 DEF DeleteGateway, PutGateway, Guarded
    <3> QED
      BY <1>0, <1>1, <2>1, <3>1 DEF GuardInv, CopiesOK, PhasesOK, Guarded, NoGateway
  <2> QED
    BY <2>2, <2>3
<1>27. CASE UNCHANGED <<gw, cgw, lgw, objs, cobjs, phase, step>>
  BY <1>1, <1>27, IdleStep
<1>28. CASE Users
  BY <1>26, <1>27, <1>28, UsersEdit
     DEF Users, AttachPolicy, RetargetPolicy, DetachPolicy, EditPolicy, ToggleMasterSecret,
         ToggleGrant, ToggleClass
<1> QED
  BY <1>2, <1>3, <1>4, <1>5, <1>6, <1>7, <1>8, <1>9, <1>10, <1>11, <1>12, <1>13, <1>14,
     <1>15, <1>16, <1>17, <1>18, <1>19, <1>20, <1>21, <1>22, <1>23, <1>24, <1>25, <1>27,
     <1>28 DEF Next, Step, Sync

\* If the RBAC informers are current, a Role and RoleBinding outside the Gateway's
\* namespace exist only while the Gateway exists and carries the finalizer that
\* will collect them, though the reconciler's copies of the Gateway may be old.
THEOREM FinalizerGuards ==
  ASSUME RBACCurrent
  PROVE  Spec => []FinalizerGuardsCrossNS
<1>1. Init => GuardInv
  BY DEF Init, GuardInv, PairsListed, Pairs, CopiesOK, PhasesOK, Guarded, NoGateway
<1>2. TypeOK /\ GuardInv /\ [Next]_vars => GuardInv'
  BY StepGuardInv
<1>3. GuardInv => FinalizerGuardsCrossNS
  BY DEF GuardInv, Pairs, Guarded, FinalizerGuardsCrossNS
<1> QED
  BY <1>1, <1>2, <1>3, TypeCorrect, PTL DEF Spec

(***************************************************************************)
(* The pairs follow the policy.                                            *)
(***************************************************************************)

\* The policies users attach name another namespace, and neither the policy
\* controller nor the informer changes which.
LEMMA StepPoliciesAway ==
  ASSUME Refs \subseteq Namespaces, TypeOK, PoliciesAway, [Next]_vars
  PROVE  PoliciesAway'
<1>0. obp \in PolicyType /\ cobp \in PolicyType
  BY DEF TypeOK, ViewsOK
<1> USE DEF PoliciesAway
<1>1. CASE UNCHANGED <<obp, cobp>>
  BY <1>1
<1>2. ASSUME NEW new, PutPolicy(new), new.attached => new.ref \in Namespaces
      PROVE  PoliciesAway'
  BY <1>2 DEF PutPolicy
<1>3. CASE ReconcileOBP
  <2>1. OBPVerdict.attached = cobp.attached /\ OBPVerdict.ref = cobp.ref
    BY <1>0 DEF OBPVerdict, PolicyType
  <2> QED
    BY <1>1, <1>2, <1>3, <2>1 DEF ReconcileOBP
<1>4. CASE SyncPolicy
  BY <1>4 DEF SyncPolicy
<1>5. CASE Restart
  BY <1>5 DEF Restart
<1>6. ASSUME NEW ref \in Refs, AttachPolicy(ref) PROVE PoliciesAway'
  <2>1. [NoPolicy EXCEPT !.attached = TRUE, !.ref = ref].ref = ref
    BY DEF NoPolicy
  <2> QED
    BY <1>2, <1>6, <2>1 DEF AttachPolicy, EditPolicy
<1>7. ASSUME NEW ref \in Refs, RetargetPolicy(ref) PROVE PoliciesAway'
  <2>1. [obp EXCEPT !.ref = ref].ref = ref
    BY <1>0 DEF PolicyType
  <2> QED
    BY <1>2, <1>7, <2>1 DEF RetargetPolicy, EditPolicy
<1>8. CASE DetachPolicy
  BY <1>2, <1>8 DEF DetachPolicy, EditPolicy, NoPolicy
<1>9. CASE Users
  BY <1>1, <1>6, <1>7, <1>8, <1>9
     DEF Users, DeleteGateway, ToggleMasterSecret, ToggleGrant, ToggleClass
<1>10. CASE Step
  BY <1>1, <1>10
     DEF Step, Reconcile, AddFinalizer, Dispatch, SetProgrammingCondition,
         CleanupModeAResources, CleanupModeBResources, ClearAnnotations, RemoveFinalizer,
         EnsureChild, EnsureKeySecret, UpdateStatus, EnsureCrossNSRole,
         DeleteStaleCrossNSRoles, GetMasterSecret, AnnotateModeB, UpdateStatusModeB, Fail
<1> QED
  BY <1>1, <1>3, <1>4, <1>5, <1>9, <1>10
     DEF Next, Sync, SyncGateway, SyncObject, GarbageCollect, WorkloadReady, ApiError, Fail

\* A step outside Mode B's calls, or one that does not move them on.
LEMMA AwayStep ==
  ASSUME FollowInv, PoliciesAway', PairsListed', Pairs' \subseteq Pairs,
         \/ UNCHANGED <<phase, step, lobp>>
         \/ phase' \notin {"cleanupA", "modeB"}
  PROVE  FollowInv'
BY DEF FollowInv, HandAway, CrossNSRolesFollowPolicy, Pairs

\* A step of Mode B after its cross-namespace part.
LEMMA PastCrossNS ==
  ASSUME FollowInv, PoliciesAway', PairsListed', Pairs' \subseteq Pairs,
         phase = "modeB", step > 2,
         phase' # "cleanupA", phase' = "modeB" => UNCHANGED lobp
  PROVE  FollowInv'
BY DEF FollowInv, HandAway, CrossNSRolesFollowPolicy, Pairs

\* Every step keeps the pairs in line with the policy in hand.
LEMMA StepFollowInv ==
  ASSUME RBACCurrent, Refs \subseteq Namespaces, TypeOK, FollowInv, [Next]_vars
  PROVE  FollowInv'
<1>0. PairsListed /\ PoliciesAway /\ HandAway /\ PoliciesAway'
  BY StepPoliciesAway DEF FollowInv
<1>1. UNCHANGED <<objs, cobjs>> => Pairs' = Pairs /\ PairsListed'
  BY <1>0 DEF Pairs, PairsListed
<1>2. phase = "modeB" => step \in 1 .. 13
  BY CallCounts DEF TypeOK, ControlOK
<1>3. ASSUME UNCHANGED <<objs, cobjs>>,
             UNCHANGED <<phase, step, lobp>> \/ phase' \notin {"cleanupA", "modeB"}
      PROVE  FollowInv'
  BY <1>0, <1>1, <1>3, AwayStep
<1>4. CASE Return /\ UNCHANGED <<objs, cobjs>>
  BY <1>3, <1>4 DEF Return, Goto
<1>5. CASE Reconcile
  BY <1>3, <1>4, <1>5 DEF Reconcile, Goto
<1>6. CASE AddFinalizer \/ SetProgrammingCondition \/ ClearAnnotations \/ RemoveFinalizer
           \/ UpdateStatus \/ UpdateStatusModeB
  BY <1>3, <1>4, <1>6
     DEF AddFinalizer, SetProgrammingCondition, ClearAnnotations, RemoveFinalizer,
         UpdateStatus, UpdateStatusModeB, Fail, Goto
<1>7. CASE Dispatch
  BY <1>0, <1>1, <1>7
     DEF Dispatch, Goto, FollowInv, PoliciesAway, HandAway, CrossNSRolesFollowPolicy
<1>8. CASE CleanupModeAResources
  <2>1. PairsListed' /\ Pairs' \subseteq Pairs
    BY <1>0, <1>8, PutObjsPairs DEF CleanupModeAResources, Pairs
  <2>2. phase = "cleanupA" /\ UNCHANGED lobp
        /\ (phase' = "cleanupA" \/ (phase' = "modeB" /\ step' = 1))
    BY <1>8 DEF CleanupModeAResources, Continue, Goto
  <2> QED
    BY <1>0, <2>1, <2>2 DEF FollowInv, HandAway, CrossNSRolesFollowPolicy
<1>9. CASE CleanupModeBResources
  <2>1. PairsListed' /\ Pairs' \subseteq Pairs /\ phase' = "cleanupB"
    BY <1>0, <1>9, PutObjsPairs DEF CleanupModeBResources, Pairs, Continue, Goto
  <2> QED
    BY <1>0, <2>1, AwayStep
<1>10. CASE EnsureChild
  <2>1. PICK o \in Owned : CreateOrUpdate(o)
    BY <1>10 DEF EnsureChild, Child
  <2>2. /\ PairsListed' /\ Pairs' \subseteq Pairs
        /\ (phase' = phase /\ UNCHANGED lobp) \/ phase' = "idle"
    BY <1>0, <2>1, CreateOrUpdatePairs, OwnedNotPairs DEF Return, Goto
  <2>3. CASE phase = "modeA"
    BY <1>0, <2>2, <2>3, AwayStep
  <2>4. CASE phase = "modeB"
    <3>1. step > 2
      <4>1. ModeB[step] \in Owned /\ step \in 1 .. 13
        BY <1>2, <1>10, <2>4 DEF EnsureChild, Child
      <4>2. ModeB[1] = "crossNSRole" /\ ModeB[2] = "crossNSStale"
        BY DEF ModeB
      <4> QED
        BY <4>1, <4>2 DEF Owned, ModeAOnly, ModeBOnly
    <3> QED
      BY <1>0, <2>2, <2>4, <3>1, PastCrossNS
  <2> QED
    BY <1>10, <2>3, <2>4 DEF EnsureChild
<1>11. CASE EnsureKeySecret
  <2>1. PairsListed' /\ Pairs' = Pairs
    BY <1>0, <1>11, EnsureKeyPairs
  <2>2. phase' \in {"modeA", "condition", "idle"}
    BY <1>11 DEF EnsureKeySecret, Goto, Return
  <2> QED
    BY <1>0, <2>1, <2>2, AwayStep
<1>12. CASE EnsureCrossNSRole
  <2>1. phase = "modeB" /\ step = 1 /\ lobp.ref \in Namespaces
    BY <1>0, <1>2, <1>12, CrossNSFirst DEF EnsureCrossNSRole, HandAway
  <2>2. CASE CreateOrUpdate(lobp.ref)
    <3>1. PairsListed'
      BY <1>0, <2>2, CreateOrUpdatePairs
    <3>2. (phase' = phase /\ step' = step + 1 /\ UNCHANGED localVars) \/ Return
      BY <1>0, <2>2, CreateOrUpdatePairs
    <3>3. (phase' = "modeB" /\ step' = 2 /\ UNCHANGED lobp) \/ phase' = "idle"
      BY <2>1, <3>2 DEF Return, Goto
    <3> QED
      BY <1>0, <2>1, <3>1, <3>3 DEF FollowInv, HandAway, CrossNSRolesFollowPolicy
  <2>3. CASE Return /\ UNCHANGED <<objs, cobjs>>
    BY <1>4, <2>3
  <2> QED
    BY <1>12, <2>1, <2>2, <2>3 DEF EnsureCrossNSRole
<1>13. CASE DeleteStaleCrossNSRoles
  <2>1. PairsListed' /\ Pairs' \subseteq {lobp.ref}
    BY <1>0, <1>13, PutObjsPairs DEF DeleteStaleCrossNSRoles, PairsListed, Pairs
  <2>2. phase = "modeB" /\ phase' = "modeB" /\ UNCHANGED lobp
    BY <1>13 DEF DeleteStaleCrossNSRoles, Continue, Goto
  <2> QED
    BY <1>0, <2>1, <2>2 DEF FollowInv, HandAway, CrossNSRolesFollowPolicy, Pairs
<1>14. CASE GetMasterSecret
  <2>1. phase = "modeB" /\ step = 3 /\ UNCHANGED <<objs, cobjs, lobp>>
        /\ phase' \in {"modeB", "condition"}
    BY <1>2, <1>14, CrossNSFirst DEF GetMasterSecret, Goto
  <2> QED
    BY <1>0, <1>1, <2>1, PastCrossNS
<1>15. CASE AnnotateModeB
  <2>1. phase = "modeB" /\ step = 12 /\ UNCHANGED <<objs, cobjs>>
    BY <1>2, <1>15, CrossNSFirst DEF AnnotateModeB, Fail
  <2>2. (phase' = "modeB" /\ UNCHANGED lobp) \/ phase' = "idle"
    BY <1>15 DEF AnnotateModeB, Goto, Fail, Return
  <2> QED
    BY <1>0, <1>1, <2>1, <2>2, PastCrossNS
<1>16. CASE ReconcileOBP \/ SyncGateway \/ SyncPolicy
            \/ \E o \in {"frontend", "vanity"} : WorkloadReady(o)
  BY <1>3, <1>16 DEF ReconcileOBP, SyncGateway, SyncPolicy, WorkloadReady
<1>17. ASSUME NEW o \in Objects, SyncObject(o) PROVE FollowInv'
  <2>1. PairsListed' /\ Pairs' = Pairs
    BY <1>0, <1>17 DEF SyncObject, PairsListed, Pairs
  <2> QED
    BY <1>0, <1>17, <2>1, AwayStep DEF SyncObject
<1>18. CASE GarbageCollect
  <2>1. PairsListed' /\ Pairs' \subseteq Pairs
    BY <1>0, <1>18, PutObjsPairs DEF GarbageCollect, Pairs
  <2> QED
    BY <1>0, <1>18, <2>1, AwayStep DEF GarbageCollect
<1>19. CASE ApiError
  BY <1>4, <1>19 DEF ApiError, Fail
<1>20. CASE Restart
  <2>1. PairsListed' /\ Pairs' = Pairs /\ phase' = "idle"
    BY <1>20 DEF Restart, Return, Goto, PairsListed, Pairs
  <2> QED
    BY <1>0, <2>1, AwayStep
<1>21. CASE Users
  BY <1>3, <1>21, UsersEdit
<1>22. CASE UNCHANGED vars
  BY <1>3, <1>22
<1> QED
  BY <1>5, <1>6, <1>7, <1>8, <1>9, <1>10, <1>11, <1>12, <1>13, <1>14, <1>15, <1>16, <1>17,
     <1>18, <1>19, <1>20, <1>21, <1>22 DEF Next, Step, Sync

\* If the RBAC informers are current and every policy names another namespace, a
\* Mode B reconcile past its cross-namespace part leaves the one pair the policy
\* names.  Without the second assumption it is false: run gateway_cross_ns.
THEOREM PairsFollowPolicy ==
  ASSUME RBACCurrent, Refs \subseteq Namespaces
  PROVE  Spec => []CrossNSRolesFollowPolicy
<1>1. Init => FollowInv
  BY DEF Init, FollowInv, PairsListed, Pairs, PoliciesAway, HandAway,
         CrossNSRolesFollowPolicy, NoPolicy
<1>2. TypeOK /\ FollowInv /\ [Next]_vars => FollowInv'
  BY StepFollowInv
<1>3. FollowInv => CrossNSRolesFollowPolicy
  BY DEF FollowInv
<1> QED
  BY <1>1, <1>2, <1>3, TypeCorrect, PTL DEF Spec

(***************************************************************************)
(* Retired addresses.                                                      *)
(***************************************************************************)

\* A step that makes no key and retires none, and moves the reconcile no
\* further into a mode.
LEMMA KeyStep ==
  ASSUME RetiredInv, UNCHANGED <<key, retired>>,
         "keys" \in objs' => "keys" \in objs,
         \/ UNCHANGED <<phase, step, lkey, misread>>
         \/ phase' \notin {"cleanupA", "modeA", "modeB"}
  PROVE  RetiredInv'
BY DEF RetiredInv

\* CreateOrUpdate of anything but the key Secret.
LEMMA CreateOrUpdateKey ==
  ASSUME TypeOK, RetiredInv, NEW o, o # "keys", CreateOrUpdate(o),
         \/ phase = "modeA" /\ step > 1
         \/ phase = "modeB",
         UNCHANGED <<key, retired>>
  PROVE  RetiredInv'
<1>1. "keys" \in objs' => "keys" \in objs
  BY DEF CreateOrUpdate, PutObjs
<1>2. CASE Return
  BY <1>1, <1>2, KeyStep DEF Return, Goto
<1>3. CASE phase' = phase /\ step' = step + 1 /\ UNCHANGED localVars
  BY <1>1, <1>3 DEF RetiredInv
<1> QED
  BY <1>2, <1>3 DEF CreateOrUpdate, Continue, Goto

\* Every step keeps retired keys behind the key in use.
LEMMA StepRetiredInv ==
  ASSUME TypeOK, RetiredInv, [Next]_vars
  PROVE  RetiredInv'
<1>0. /\ key \in Nat /\ retired \in Nat /\ lkey \in Nat
      /\ (phase = "modeA" => step \in 1 .. 7) /\ (phase = "modeB" => step \in 1 .. 13)
      /\ (phase = "cleanupA" => step \in 1 .. 6)
  BY CallCounts DEF TypeOK, ObjectsOK, ControlOK, RetiredInv
<1>1. ASSUME UNCHANGED <<objs, key, retired>>,
             \/ UNCHANGED <<phase, step, lkey, misread>>
             \/ phase' \notin {"cleanupA", "modeA", "modeB"}
      PROVE  RetiredInv'
  BY <1>1, KeyStep
<1>2. CASE Fail
  BY <1>1, <1>2 DEF Fail, Return, Goto
<1>3. CASE Reconcile
  BY <1>1, <1>3 DEF Reconcile, Goto, Return
<1>4. CASE AddFinalizer \/ SetProgrammingCondition \/ RemoveFinalizer \/ UpdateStatus
  BY <1>1, <1>2, <1>4
     DEF AddFinalizer, SetProgrammingCondition, RemoveFinalizer, UpdateStatus, Goto, Return
<1>5. CASE Dispatch
  <2>1. UNCHANGED <<objs, key, retired>> /\ step' = 1
        /\ phase' \in {"cleanupB", "cleanupA", "condition"}
    BY <1>5 DEF Dispatch, Goto
  <2> QED
    BY <1>0, <2>1 DEF RetiredInv
<1>6. CASE CleanupModeAResources
  <2>1. phase = "cleanupA" /\ objs' = objs \ {CleanupModeA[step]}
        /\ UNCHANGED <<key, retired>>
        /\ \/ phase' = "cleanupA" /\ step' = step + 1 /\ step < 6
           \/ phase' = "modeB" /\ step = 6
    BY <1>0, <1>6, PlanLengths DEF CleanupModeAResources, PutObjs, Continue, Goto
  <2>2. step > 2 => "keys" \notin objs'
    BY <1>0, <2>1, CollectionSixth DEF RetiredInv
  <2> QED
    BY <1>0, <2>1, <2>2 DEF RetiredInv
<1>7. CASE CleanupModeBResources
  <2>1. ("keys" \in objs' => "keys" \in objs) /\ UNCHANGED <<key, retired>>
        /\ phase' = "cleanupB"
    BY <1>7 DEF CleanupModeBResources, PutObjs, Continue, Goto
  <2> QED
    BY <2>1, KeyStep
<1>8. CASE ClearAnnotations
  <2>1. CASE UNCHANGED <<objs, key, retired>> /\ step' = 1
             /\ phase' \in {"unfinalize", "modeA"}
    BY <1>0, <2>1 DEF RetiredInv
  <2> QED
    BY <1>2, <1>8, <2>1 DEF ClearAnnotations, Goto
<1>9. CASE EnsureChild
  <2>1. CASE phase = "modeA"
    <3>1. step > 1 /\ ModeA[step] # "keys" /\ CreateOrUpdate(ModeA[step])
      <4>1. ModeA[1] = "keys" /\ ModeA[step] # "keys"
        BY <1>9, <2>1 DEF EnsureChild, Child, ModeA
      <4> QED
        BY <1>0, <1>9, <2>1, <4>1 DEF EnsureChild
    <3> QED
      BY <1>9, <2>1, <3>1, CreateOrUpdateKey DEF EnsureChild
  <2>2. CASE phase = "modeB"
    BY <1>9, <2>2, CreateOrUpdateKey DEF EnsureChild, Child
  <2> QED
    BY <1>9, <2>1, <2>2 DEF EnsureChild
<1>10. CASE EnsureKeySecret
  <2>1. phase = "modeA" /\ step = 1 /\ UNCHANGED retired
    BY <1>0, <1>10, KeysFirst DEF EnsureKeySecret
  <2>2. CASE "keys" \in cobjs
    <3>1. UNCHANGED <<objs, key>> /\ phase' = "modeA" /\ lkey' = ckey
      BY <1>10, <2>2 DEF EnsureKeySecret, Goto
    <3>2. misread' \/ ("keys" \in objs /\ ckey = key)
      BY <1>10, <2>2, Zenon DEF EnsureKeySecret
    <3> QED
      BY <1>0, <2>1, <3>1, <3>2 DEF RetiredInv
  <2>3. CASE PutObjs(objs \cup {"vanity"}) /\ UNCHANGED key /\ phase' = "condition"
    <3>1. "keys" \in objs' => "keys" \in objs
      BY <2>3 DEF PutObjs
    <3> QED
      BY <2>1, <2>3, <3>1, KeyStep
  <2>4. CASE "keys" \notin cobjs /\ (harvest => "vanity" \in ready) /\ "keys" \notin objs
    <3>1. key' = key + 1 /\ lkey' = key + 1 /\ phase' = "modeA"
      BY <1>10, <2>4 DEF EnsureKeySecret, Goto
    <3> QED
      BY <1>0, <2>1, <3>1 DEF RetiredInv
  <2>5. CASE Return /\ UNCHANGED <<objs, key>>
    BY <1>1, <2>1, <2>5 DEF Return, Goto
  <2> QED
    BY <1>10, <2>2, <2>3, <2>4, <2>5 DEF EnsureKeySecret, Goto
<1>11. CASE EnsureCrossNSRole
  <2>1. CASE lobp.ref \in Namespaces /\ CreateOrUpdate(lobp.ref)
    BY <1>11, <2>1, CreateOrUpdateKey, OwnedNotPairs DEF EnsureCrossNSRole
  <2>2. CASE Return /\ UNCHANGED objs
    BY <1>1, <1>11, <2>2 DEF EnsureCrossNSRole, Return, Goto
  <2>3. CASE Continue("modeB", step + 2) /\ UNCHANGED objs
    BY <1>0, <1>11, <2>3 DEF EnsureCrossNSRole, Continue, Goto, RetiredInv
  <2> QED
    BY <1>11, <2>1, <2>2, <2>3 DEF EnsureCrossNSRole
<1>12. CASE DeleteStaleCrossNSRoles
  <2>1. ("keys" \in objs' => "keys" \in objs) /\ UNCHANGED <<key, retired>>
        /\ phase = "modeB" /\ phase' = "modeB"
    BY <1>12 DEF DeleteStaleCrossNSRoles, PutObjs, Continue, Goto
  <2> QED
    BY <1>0, <2>1 DEF RetiredInv
<1>13. CASE GetMasterSecret
  BY <1>0, <1>13 DEF GetMasterSecret, Goto, RetiredInv
<1>14. CASE AnnotateModeB
  <2>1. CASE UNCHANGED <<objs, key, retired>> /\ phase' = "modeB"
    BY <1>0, <1>14, <2>1 DEF AnnotateModeB, RetiredInv
  <2> QED
    BY <1>2, <1>14, <2>1 DEF AnnotateModeB, Goto
<1>15. CASE UpdateStatusModeB
  <2>1. CASE UNCHANGED <<objs, key>> /\ retired' = key /\ Return
    BY <1>0, <1>15, <2>1 DEF UpdateStatusModeB, RetiredInv, Return, Goto
  <2> QED
    BY <1>2, <1>15, <2>1 DEF UpdateStatusModeB
<1>16. CASE ReconcileOBP \/ SyncGateway \/ SyncPolicy
            \/ \E o \in {"frontend", "vanity"} : WorkloadReady(o)
  BY <1>1, <1>16 DEF ReconcileOBP, SyncGateway, SyncPolicy, WorkloadReady
<1>17. ASSUME NEW o \in Objects, SyncObject(o) PROVE RetiredInv'
  BY <1>1, <1>17 DEF SyncObject
<1>18. CASE GarbageCollect
  BY <1>18, KeyStep DEF GarbageCollect, PutObjs
<1>19. CASE ApiError
  BY <1>2, <1>19 DEF ApiError
<1>20. CASE Restart
  BY <1>1, <1>20 DEF Restart, Return, Goto
<1>21. CASE Users
  BY <1>1, <1>21, UsersEdit
<1>22. CASE UNCHANGED vars
  BY <1>1, <1>22
<1> QED
  BY <1>3, <1>4, <1>5, <1>6, <1>7, <1>8, <1>9, <1>10, <1>11, <1>12, <1>13, <1>14, <1>15,
     <1>16, <1>17, <1>18, <1>19, <1>20, <1>21, <1>22 DEF Next, Step, Sync

\* Only the status writes of the two modes change a published address to another
\* one: Mode B's to the master address, Mode A's to the key in hand.
LEMMA AddressWrites ==
  ASSUME TypeOK, RetiredInv, [Next]_vars, gw'.addr # gw.addr
  PROVE  gw'.addr \notin 1 .. retired \/ misread
<1>0. gw \in GatewayType /\ lgw \in GatewayType /\ retired \in Nat /\ lkey \in Nat
  BY DEF TypeOK, ViewsOK, ObjectsOK
<1>1. UNCHANGED gw => FALSE
  OBVIOUS
<1>2. CASE gw' = NoGateway
  BY <1>0, <1>2 DEF NoGateway, NoAddr
<1>3. CASE AddFinalizer
  BY <1>0, <1>1, <1>3, MarkFields DEF AddFinalizer, PutGateway, Fail
<1>4. CASE SetProgrammingCondition
  <2>1. gw' = [lgw EXCEPT !.prog = reason] /\ lgw = gw
    BY <1>1, <1>4 DEF SetProgrammingCondition, PutGateway, Fail
  <2> QED
    BY <1>0, <2>1 DEF GatewayType
<1>5. CASE ClearAnnotations
  <2>1. gw' = [gw EXCEPT !.ann = FALSE]
    BY <1>1, <1>5 DEF ClearAnnotations, PutGateway, Fail
  <2> QED
    BY <1>0, <2>1 DEF GatewayType
<1>6. CASE RemoveFinalizer
  BY <1>1, <1>2, <1>6 DEF RemoveFinalizer, PutGateway, Fail
<1>7. CASE UpdateStatus
  <2> DEFINE new == [lgw EXCEPT !.addr = lkey, !.prog = "Programmed"]
  <2>1. phase = "modeA" /\ gw' = new
    BY <1>1, <1>7 DEF UpdateStatus, PutGateway, Fail
  <2>2. step > 1
    <3>1. step \in 1 .. 7 /\ ModeA[1] = "keys" /\ ModeA[step] = "status"
      BY <1>7, <2>1, CallCounts DEF UpdateStatus, TypeOK, ControlOK, ModeA
    <3> QED
      BY <3>1
  <2>3. gw'.addr = lkey
    BY <1>0, <2>1 DEF GatewayType
  <2> QED
    BY <1>0, <2>1, <2>2, <2>3 DEF RetiredInv
<1>8. CASE AnnotateModeB
  <2>1. gw' = [gw EXCEPT !.ann = TRUE]
    BY <1>1, <1>8 DEF AnnotateModeB, PutGateway, Fail
  <2> QED
    BY <1>0, <2>1 DEF GatewayType
<1>9. CASE UpdateStatusModeB
  <2>1. gw' = [gw EXCEPT !.addr = MasterAddr, !.prog = ModeBHealth]
    BY <1>1, <1>9 DEF UpdateStatusModeB, PutGateway, Fail
  <2>2. gw'.addr = MasterAddr
    BY <1>0, <2>1 DEF GatewayType
  <2> QED
    BY <1>0, <2>2 DEF MasterAddr
<1>10. CASE DeleteGateway
  BY <1>0, <1>2, <1>10, MarkFields DEF DeleteGateway, PutGateway
<1>11. CASE Users
  BY <1>1, <1>10, <1>11
     DEF Users, AttachPolicy, RetargetPolicy, DetachPolicy, EditPolicy, ToggleMasterSecret,
         ToggleGrant, ToggleClass
<1> QED
  BY <1>1, <1>3, <1>4, <1>5, <1>6, <1>7, <1>8, <1>9, <1>11
     DEF Next, Step, Sync, Reconcile, Dispatch, CleanupModeAResources,
         CleanupModeBResources, EnsureChild, EnsureKeySecret, EnsureCrossNSRole,
         DeleteStaleCrossNSRoles, GetMasterSecret, ReconcileOBP, SyncGateway, SyncPolicy,
         SyncObject, GarbageCollect, WorkloadReady, ApiError, Restart, Fail

\* An onion address that Mode B superseded is published again only by a reconcile
\* that took its key from a Secret its cache should no longer have had, whatever
\* switches, failures and restarts there are and however old any copy is.
THEOREM RetiredKeysStayRetired == Spec => RetiredKeyStaysRetired
<1>1. Init => RetiredInv
  BY DEF Init, RetiredInv
<1>2. TypeOK /\ RetiredInv /\ [Next]_vars => RetiredInv'
  BY StepRetiredInv
<1>3. TypeOK /\ RetiredInv /\ [Next]_vars =>
        [gw'.addr # gw.addr => gw'.addr \notin 1 .. retired \/ misread]_vars
  BY AddressWrites
<1> QED
  BY <1>1, <1>2, <1>3, TypeCorrect, PTL DEF Spec, RetiredKeyStaysRetired
============================================================================
