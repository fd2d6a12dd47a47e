------------------------ MODULE BackendScalingProofs ------------------------
(***************************************************************************)
(* Proofs about BackendScaling, for every largest number of replicas and   *)
(* any number of policy changes, failed calls, crashes and lost pods.      *)
(***************************************************************************)
EXTENDS BackendScaling, FiniteSetTheorems, TLAPS

(***************************************************************************)
(* The inductive invariants.                                               *)
(***************************************************************************)

\* While the loop over the ordinals runs, its index is below the number of
\* replicas read at the start; the pieces of TypeOK do not say so.
CursorOK == job.at \in {"get", "key"} => job.idx < job.n

\* A pod past its fetch holds the key of its Secret, unless the Secret was
\* deleted under it.  The Secret is there, so no new key is made for it.
PodHoldsItsKey ==
  \A i \in Ordinals :
    pods[i].at \in {"fetched", "serving"} /\ i \notin orphaned
      => keys[i] # 0 /\ pods[i].key = keys[i]

\* No reconcile under way works with fewer replicas than the lowest number ever
\* asked for, and what it condemns is not among its own.
JobAboveLow ==
  /\ low <= replicas
  /\ job.at # "idle" => low <= job.n
  /\ \A i \in job.condemned : i >= job.n /\ i >= low

\* A Secret that was always wanted is there from its first key on.
LowKeys ==
  \A i \in Ordinals : i < low => made[i] <= 1 /\ (keys[i] = 0 => made[i] = 0)

\* A reconcile under way, unless another one is due, works with the policy's
\* replicas.  The ordinals its loop has passed have their Secrets, or the loss of
\* one is still to be seen; once the StatefulSet is written it has these replicas;
\* and what is left for the collection to do, it has condemned.
JobIsCurrent == job.at # "idle" => job.n = replicas
SetIsCurrent == job.at \in {"idle", "settled", "collect"} => ss.spec = replicas
KeysAreNoticed ==
  \A i \in Ordinals : i < replicas =>
    \/ keys[i] # 0 \/ ckeys[i] # 0
    \/ job.at \in {"get", "key"} /\ job.idx <= i
SurplusIsNoticed ==
  job.at \in {"idle", "collect"} /\ css # NoSet /\ css.status = css.spec =>
    \A i \in Ordinals : i >= replicas =>
      keys[i] = 0 \/ ckeys[i] = 0 \/ i \in job.condemned

Noticed == JobIsCurrent /\ SetIsCurrent /\ KeysAreNoticed /\ SurplusIsNoticed

\* Nothing is condemned outside a reconcile, and only what is beyond its replicas.
Condemned ==
  /\ job.at = "idle" => job.condemned = {}
  /\ \A i \in job.condemned : i >= job.n

TypeInv == TypeOK /\ CursorOK
KeyInv == TypeInv /\ PodHoldsItsKey
LowInv == TypeInv /\ JobAboveLow /\ LowKeys
NoticeInv == TypeInv /\ Condemned /\ (queued \/ Noticed)

JobType == [at : {"idle", "get", "key", "set", "settled", "collect"},
            n : 0 .. MaxReplicas, idx : 0 .. MaxReplicas,
            found : BOOLEAN, condemned : SUBSET Ordinals]
SetType == [spec : 0 .. MaxReplicas, status : 0 .. MaxReplicas]
PodType == [at : {"none", "init", "fetched", "serving", "stuck"},
            key : Nat, obConfig : BOOLEAN]

USE DEF vars, history, bounds

(***************************************************************************)
(* The numbers of replicas and pods.                                       *)
(***************************************************************************)

\* The ordinals are as many as the largest number of replicas.
LEMMA OrdinalCount ==
  IsFiniteSet(Ordinals) /\ Cardinality(Ordinals) = MaxReplicas
BY FS_Interval, ScalingAssumption DEF Ordinals

\* The StatefulSet controller never counts more pods than there are ordinals.
LEMMA PodCountBound == PodCount \in 0 .. MaxReplicas
<1> DEFINE P == {i \in Ordinals : pods[i].at # "none"}
<1>1. IsFiniteSet(P) /\ Cardinality(P) <= Cardinality(Ordinals)
  BY OrdinalCount, FS_Subset
<1>2. Cardinality(P) \in Nat
  BY <1>1, FS_CardinalityType
<1> QED
  BY <1>1, <1>2, OrdinalCount, ScalingAssumption DEF PodCount

(***************************************************************************)
(* Types.                                                                  *)
(***************************************************************************)

\* The pieces of TypeOK in the names used here.
LEMMA TypePieces ==
  ASSUME TypeOK
  PROVE  job \in JobType /\ ss \in SetType /\ css \in SetType
         /\ pods \in [Ordinals -> PodType]
BY DEF TypeOK, JobType, SetType, PodType

\* The records a step starts from.
LEMMA NoRecords == NoJob \in JobType /\ NoSet \in SetType /\ NoPod \in PodType
BY ScalingAssumption DEF NoJob, NoSet, NoPod, JobType, SetType, PodType

\* Giving up leaves no job.
LEMMA GiveUpType ==
  ASSUME GiveUp
  PROVE  job' \in JobType /\ CursorOK' /\ queued' \in BOOLEAN
BY NoRecords DEF GiveUp, CursorOK, NoJob

\* The next ordinal is one of the loop's, or the loop has ended.
LEMMA NextOrdinalType ==
  ASSUME job \in JobType, job.idx < job.n, NextOrdinal
  PROVE  job' \in JobType /\ CursorOK'
<1> DEFINE a == IF job.idx + 1 < job.n THEN "get" ELSE "set"
<1>1. a \in {"get", "set"} /\ job.idx + 1 \in 0 .. MaxReplicas /\ job.n \in 0 .. MaxReplicas
  BY ScalingAssumption DEF JobType
<1>2. job' = [job EXCEPT !.at = a, !.idx = job.idx + 1, !.found = FALSE]
  BY DEF NextOrdinal
<1>3. job' \in JobType
  BY <1>1, <1>2 DEF JobType
<1>4. job'.at = a /\ job'.idx = job.idx + 1 /\ job'.n = job.n
  BY <1>2 DEF JobType
<1> QED
  BY <1>3, <1>4 DEF CursorOK

\* Collecting some of the ordinals leaves a job, with those condemned.
LEMMA CollectType ==
  ASSUME job \in JobType, NEW S \in SUBSET Ordinals, Collect(S)
  PROVE  /\ job' \in JobType /\ CursorOK' /\ job'.condemned = S
         /\ job' = NoJob \/ (job'.at = "collect" /\ job'.n = job.n)
<1>1. CASE S = {}
  <2>1. job' = NoJob
    BY <1>1 DEF Collect
  <2> QED
    BY <1>1, <2>1, NoRecords DEF NoJob, CursorOK
<1>2. CASE S # {}
  <2>1. job' = [job EXCEPT !.at = "collect", !.condemned = S]
    BY <1>2 DEF Collect
  <2>2. job'.at = "collect" /\ job'.condemned = S /\ job'.n = job.n
    BY <2>1 DEF JobType
  <2> QED
    BY <2>1, <2>2 DEF JobType, CursorOK
<1> QED
  BY <1>1, <1>2

\* Every change of a pod leaves a pod.
LEMMA PodUpdates ==
  ASSUME NEW p \in PodType, NEW k \in Nat
  PROVE  /\ [NoPod EXCEPT !.at = "init"] \in PodType
         /\ [p EXCEPT !.at = "init"] \in PodType
         /\ [p EXCEPT !.at = "stuck"] \in PodType
         /\ [p EXCEPT !.at = "fetched", !.key = k] \in PodType
         /\ WriteObConfig(p) \in PodType
BY DEF PodType, NoPod, WriteObConfig

\* The initial state is well typed.
LEMMA InitTypeInv == Init => TypeInv
<1> SUFFICES ASSUME Init PROVE TypeInv
  OBVIOUS
<1>1. TypeOK
  BY NoRecords, ScalingAssumption DEF Init, TypeOK, JobType, SetType, PodType
<1>2. CursorOK
  BY DEF Init, CursorOK, NoJob
<1> QED
  BY <1>1, <1>2 DEF TypeInv

\* Every step keeps the types and the loop's index.
LEMMA StepTypeInv == TypeInv /\ [Next]_vars => TypeInv'
<1> SUFFICES ASSUME TypeOK, CursorOK, [Next]_vars PROVE TypeOK' /\ CursorOK'
  BY DEF TypeInv
<1>0. /\ job \in JobType /\ ss \in SetType /\ css \in SetType
      /\ pods \in [Ordinals -> PodType]
  BY TypePieces
<1> USE DEF JobType, SetType, PodType
<1>1. CASE Start
  <2>1. job' = [NoJob EXCEPT !.at = "get", !.n = replicas] /\ replicas \in 1 .. MaxReplicas
    BY <1>1 DEF Start, TypeOK
  <2>2. job' \in JobType /\ job'.idx = 0 /\ job'.n = replicas
    <3>1. replicas \in 0 .. MaxReplicas /\ NoJob.idx = 0
      BY <2>1 DEF NoJob
    <3> QED
      BY <2>1, <3>1, NoRecords
  <2>3. CursorOK'
    BY <2>1, <2>2, ScalingAssumption DEF CursorOK
  <2> QED
    BY <1>1, <2>2, <2>3 DEF Start, TypeOK
<1>2. CASE GetKey
  <2>1. job' = [job EXCEPT !.at = "key", !.found = ckeys[job.idx] # 0]
    BY <1>2 DEF GetKey
  <2>2. job' \in JobType /\ job'.idx = job.idx /\ job'.n = job.n
    BY <1>0, <2>1
  <2> QED
    BY <1>2, <2>2 DEF GetKey, TypeOK, CursorOK
<1>3. CASE EnsureKey
  <2>1. job.idx < job.n /\ job.idx \in Ordinals
    BY <1>0, <1>3, ScalingAssumption DEF EnsureKey, CursorOK, Ordinals
  <2>2. job' \in JobType /\ CursorOK' /\ queued' \in BOOLEAN
    BY <1>0, <1>3, <2>1, NextOrdinalType, GiveUpType DEF EnsureKey, TypeOK
  <2>3. /\ keys' \in [Ordinals -> Nat] /\ made' \in [Ordinals -> Nat]
        /\ \A i \in Ordinals : keys'[i] \in {0, made'[i]}
    <3>1. CASE UNCHANGED <<keys, made>>
      BY <3>1 DEF TypeOK
    <3>2. CASE NewKey(job.idx)
      <4>1. made[job.idx] + 1 \in Nat
        BY <2>1 DEF TypeOK
      <4> QED
        BY <2>1, <3>2, <4>1 DEF NewKey, TypeOK
    <3> QED
      BY <1>3, <3>1, <3>2 DEF EnsureKey
  <2> QED
    BY <1>3, <2>2, <2>3 DEF EnsureKey, TypeOK
<1>4. CASE EnsureStatefulSet
  <2>1. ss' \in SetType
    BY <1>0, <1>4 DEF EnsureStatefulSet, BuildBackendStatefulSet
  <2>2. job' \in JobType /\ CursorOK' /\ queued' \in BOOLEAN
    BY <1>0, <1>4, GiveUpType DEF EnsureStatefulSet, CursorOK, TypeOK
  <2> QED
    BY <1>4, <2>1, <2>2 DEF EnsureStatefulSet, TypeOK
<1>5. CASE GcBackendSecretsIfSettled
  <2> DEFINE S == IF css # NoSet /\ css.status = css.spec THEN Surplus(job.n) ELSE {}
  <2>1. S \in SUBSET Ordinals /\ Collect(S)
    BY <1>5 DEF GcBackendSecretsIfSettled, Surplus
  <2> HIDE DEF S
  <2>2. job' \in JobType /\ CursorOK'
    BY <1>0, <2>1, CollectType
  <2> QED
    BY <1>5, <2>2 DEF GcBackendSecretsIfSettled, TypeOK
<1>6. ASSUME NEW i \in Ordinals, DeleteSecret(i) PROVE TypeOK' /\ CursorOK'
  <2>1. job' \in JobType /\ CursorOK'
    BY <1>0, <1>6, CollectType DEF DeleteSecret
  <2> QED
    BY <1>6, <2>1 DEF DeleteSecret, TypeOK
<1>7. CASE CallFails
  BY <1>7, GiveUpType, ScalingAssumption DEF CallFails, Fault, TypeOK
<1>8. CASE Restart
  BY <1>8, GiveUpType, ScalingAssumption DEF Restart, Fault, TypeOK
<1>9. ASSUME NEW i \in Ordinals, DeliverSecret(i) PROVE TypeOK' /\ CursorOK'
  BY <1>9 DEF DeliverSecret, TypeOK, CursorOK
<1>10. CASE DeliverStatefulSet
  BY <1>10 DEF DeliverStatefulSet, TypeOK, CursorOK
<1>11. ASSUME NEW i \in Ordinals, NEW p \in PodType, SetPod(i, p),
              UNCHANGED <<replicas, keys, ckeys, ss, css, queued, job, made, low, edits>>,
              orphaned' \subseteq Ordinals, faults' \in 0 .. MaxFaults
       PROVE  TypeOK' /\ CursorOK'
  BY <1>11 DEF SetPod, TypeOK, CursorOK
<1>12. ASSUME NEW i \in Ordinals, Fetch(i) PROVE TypeOK' /\ CursorOK'
  BY <1>0, <1>11, <1>12, PodUpdates DEF Fetch, TypeOK
<1>13. ASSUME NEW i \in Ordinals, Finish(i) PROVE TypeOK' /\ CursorOK'
  BY <1>0, <1>11, <1>13, PodUpdates DEF Finish, TypeOK
<1>14. ASSUME NEW i \in Ordinals, CreatePod(i) PROVE TypeOK' /\ CursorOK'
  BY <1>0, <1>11, <1>14, PodUpdates DEF CreatePod, TypeOK
<1>15. ASSUME NEW i \in Ordinals, DeletePod(i) PROVE TypeOK' /\ CursorOK'
  BY <1>0, <1>11, <1>15, NoRecords DEF DeletePod, RemovePod, TypeOK
<1>16. CASE ReportStatus
  BY <1>0, <1>16, PodCountBound DEF ReportStatus, TypeOK, CursorOK
<1>17. ASSUME NEW i \in Ordinals, LosePod(i) PROVE TypeOK' /\ CursorOK'
  BY <1>0, <1>11, <1>17, NoRecords, ScalingAssumption DEF LosePod, RemovePod, Fault, TypeOK
<1>18. ASSUME NEW i \in Ordinals, RestartSandbox(i) PROVE TypeOK' /\ CursorOK'
  <2>1. [pods[i] EXCEPT !.at = "init"] \in PodType
    BY <1>0
  <2>2. faults' \in 0 .. MaxFaults
    BY <1>18, ScalingAssumption DEF RestartSandbox, Fault, TypeOK
  <2> QED
    BY <1>11, <1>18, <2>1, <2>2 DEF RestartSandbox, TypeOK
<1>19. CASE Scale
  BY <1>19, ScalingAssumption DEF Scale, TypeOK, CursorOK
<1>20. CASE UNCHANGED vars
  BY <1>20 DEF TypeOK, CursorOK
<1> QED
  BY <1>1, <1>2, <1>3, <1>4, <1>5, <1>6, <1>7, <1>8, <1>9, <1>10, <1>12, <1>13,
     <1>14, <1>15, <1>16, <1>17, <1>18, <1>19, <1>20 DEF Next

\* Every variable keeps its type, and a Secret holds the latest key made for its
\* ordinal, however the steps of the reconciler, the informers, tor-init and the
\* StatefulSet controller interleave.
THEOREM TypeCorrect == Spec => []TypeOK
<1>1. TypeInv => TypeOK
  BY DEF TypeInv
<1> QED
  BY <1>1, InitTypeInv, StepTypeInv, PTL DEF Spec

(***************************************************************************)
(* The pods' keys.                                                         *)
(***************************************************************************)

\* No step takes the key from under a pod that holds it without marking the pod
\* as orphaned, and none replaces it: a new key is made only where there is none.
LEMMA StepPodHolds ==
  ASSUME TypeInv, PodHoldsItsKey, [Next]_vars
  PROVE  PodHoldsItsKey'
<1>0. /\ keys \in [Ordinals -> Nat] /\ pods \in [Ordinals -> PodType]
      /\ orphaned \subseteq Ordinals
  BY TypePieces DEF TypeInv, TypeOK
<1> USE DEF PodHoldsItsKey, PodType
<1>1. CASE EnsureKey
  <2>1. CASE UNCHANGED keys
    BY <1>1, <2>1 DEF EnsureKey
  <2>2. CASE keys[job.idx] = 0 /\ NewKey(job.idx)
    BY <1>0, <1>1, <2>2 DEF EnsureKey, NewKey
  <2> QED
    BY <1>1, <2>1, <2>2 DEF EnsureKey
<1>2. ASSUME NEW i \in Ordinals, DeleteSecret(i) PROVE PodHoldsItsKey'
  <2>1. UNCHANGED pods /\ \A j \in Ordinals \ {i} : keys'[j] = keys[j]
    BY <1>0, <1>2 DEF DeleteSecret
  <2>2. orphaned \subseteq orphaned'
    BY <1>2 DEF DeleteSecret
  <2>3. pods[i].at \in {"fetched", "serving"} => i \in orphaned'
    BY <1>2 DEF DeleteSecret
  <2> QED
    BY <2>1, <2>2, <2>3
<1>3. ASSUME NEW i \in Ordinals, Fetch(i) PROVE PodHoldsItsKey'
  BY <1>0, <1>3 DEF Fetch, SetPod
<1>4. ASSUME NEW i \in Ordinals, Finish(i) PROVE PodHoldsItsKey'
  <2>1. pods[i].at = "fetched" /\ pods'[i].key = pods[i].key
    BY <1>0, <1>4 DEF Finish, SetPod, WriteObConfig
  <2> QED
    BY <1>0, <1>4, <2>1 DEF Finish, SetPod
<1>5. ASSUME NEW i \in Ordinals, CreatePod(i) PROVE PodHoldsItsKey'
  BY <1>0, <1>5 DEF CreatePod, SetPod, NoPod
<1>6. ASSUME NEW i \in Ordinals, RemovePod(i) PROVE PodHoldsItsKey'
  BY <1>0, <1>6 DEF RemovePod, SetPod, NoPod
<1>7. ASSUME NEW i \in Ordinals, RestartSandbox(i) PROVE PodHoldsItsKey'
  BY <1>0, <1>7 DEF RestartSandbox, SetPod
<1>8. CASE UNCHANGED <<keys, pods, orphaned>>
  BY <1>8
<1> QED
  BY <1>1, <1>2, <1>3, <1>4, <1>5, <1>6, <1>7, <1>8
     DEF Next, Start, GetKey, EnsureStatefulSet, GcBackendSecretsIfSettled,
         CallFails, Restart, DeliverSecret, DeliverStatefulSet, DeletePod,
         ReportStatus, LosePod, Scale

\* A serving pod serves the key of its Secret, whose hostname onionbalance
\* announces, unless the Secret was deleted under it: for any number of replicas
\* and however stale the reconciler's reads are.
THEOREM PodsServeTheirKeys == Spec => []PodServesItsKey
<1>1. Init => KeyInv
  BY InitTypeInv DEF Init, KeyInv, PodHoldsItsKey, NoPod
<1>2. KeyInv /\ [Next]_vars => KeyInv'
  BY StepTypeInv, StepPodHolds DEF KeyInv
<1>3. KeyInv => PodServesItsKey
  BY DEF KeyInv, PodHoldsItsKey, PodServesItsKey
<1> QED
  BY <1>1, <1>2, <1>3, PTL DEF Spec

(***************************************************************************)
(* The keys of ordinals that were always wanted.                           *)
(***************************************************************************)

\* A reconcile under way never counts fewer replicas than were ever asked for.
LEMMA StepJobAboveLow ==
  ASSUME TypeInv, JobAboveLow, [Next]_vars
  PROVE  JobAboveLow'
<1>0. /\ job \in JobType
      /\ replicas \in 1 .. MaxReplicas /\ low \in 1 .. MaxReplicas
      /\ \A i \in Ordinals : i \in Int
  BY TypePieces DEF TypeInv, TypeOK, Ordinals
<1> USE DEF JobAboveLow
<1>1. CASE UNCHANGED <<replicas, low>> /\ job' = NoJob
  BY <1>1 DEF NoJob
<1>2. CASE UNCHANGED <<replicas, low, job>>
  BY <1>2
<1>3. CASE Start
  BY <1>0, <1>3 DEF Start, NoJob
<1>4. ASSUME UNCHANGED <<replicas, low>>, job.at # "idle",
             job'.n = job.n, job'.condemned = job.condemned
      PROVE  JobAboveLow'
  BY <1>4
<1>5. CASE GetKey
  BY <1>0, <1>4, <1>5 DEF GetKey, JobType
<1>6. CASE EnsureKey
  BY <1>0, <1>1, <1>4, <1>6 DEF EnsureKey, NextOrdinal, GiveUp, JobType
<1>7. CASE EnsureStatefulSet
  BY <1>0, <1>1, <1>4, <1>7 DEF EnsureStatefulSet, GiveUp, JobType
<1>8. ASSUME NEW S \in SUBSET Ordinals, Collect(S), UNCHANGED <<replicas, low>>,
             job.at # "idle", \A i \in S : i >= job.n /\ i >= low
      PROVE  JobAboveLow'
  <2>1. job'.condemned = S /\ (job' = NoJob \/ job'.n = job.n)
    BY <1>0, <1>8, CollectType
  <2> QED
    BY <1>1, <1>8, <2>1
<1>9. CASE GcBackendSecretsIfSettled
  <2> DEFINE S == IF css # NoSet /\ css.status = css.spec THEN Surplus(job.n) ELSE {}
  <2>1. S \in SUBSET Ordinals /\ Collect(S) /\ \A i \in S : i >= job.n
    BY <1>9 DEF GcBackendSecretsIfSettled, Surplus
  <2>2. low <= job.n /\ job.n \in Int
    BY <1>0, <1>9 DEF GcBackendSecretsIfSettled, JobType
  <2> HIDE DEF S
  <2>3. \A i \in S : i >= job.n /\ i >= low
    BY <1>0, <2>1, <2>2
  <2> QED
    BY <1>8, <1>9, <2>1, <2>3 DEF GcBackendSecretsIfSettled
<1>10. ASSUME NEW i \in Ordinals, DeleteSecret(i) PROVE JobAboveLow'
  <2>1. job.condemned \ {i} \in SUBSET Ordinals
    BY <1>0 DEF JobType
  <2> QED
    BY <1>8, <1>10, <2>1 DEF DeleteSecret
<1>11. CASE Scale
  BY <1>0, <1>11 DEF Scale, JobType
<1> QED
  BY <1>1, <1>2, <1>3, <1>5, <1>6, <1>7, <1>9, <1>10, <1>11
     DEF Next, CallFails, Restart, GiveUp, DeliverSecret, DeliverStatefulSet, Fetch,
         Finish, CreatePod, DeletePod, RemovePod, ReportStatus, LosePod, RestartSandbox

\* A key is made only for a Secret that is missing, and of an ordinal that was
\* always wanted none is condemned: it is missing only before its first key.
LEMMA StepLowKeys ==
  ASSUME TypeInv, JobAboveLow, LowKeys, [Next]_vars
  PROVE  LowKeys'
<1>0. /\ keys \in [Ordinals -> Nat] /\ made \in [Ordinals -> Nat]
      /\ low \in 1 .. MaxReplicas /\ \A i \in Ordinals : i \in Int
  BY DEF TypeInv, TypeOK, Ordinals
<1> USE DEF LowKeys
<1>1. CASE UNCHANGED <<keys, made, low>>
  BY <1>1
<1>2. CASE EnsureKey
  <2>1. CASE keys[job.idx] = 0 /\ NewKey(job.idx)
    BY <1>0, <1>2, <2>1 DEF EnsureKey, NewKey
  <2> QED
    BY <1>1, <1>2, <2>1 DEF EnsureKey
<1>3. ASSUME NEW i \in Ordinals, DeleteSecret(i) PROVE LowKeys'
  <2>1. ~(i < low)
    BY <1>0, <1>3 DEF DeleteSecret, JobAboveLow
  <2>2. UNCHANGED <<made, low>> /\ \A j \in Ordinals \ {i} : keys'[j] = keys[j]
    BY <1>0, <1>3 DEF DeleteSecret
  <2> QED
    BY <2>1, <2>2
<1>4. CASE Scale
  <2>1. low' <= low /\ low' \in Int
    BY <1>0, <1>4, ScalingAssumption DEF Scale
  <2>2. \A i \in Ordinals : i < low' => i < low
    BY <1>0, <2>1
  <2> QED
    BY <1>4, <2>2 DEF Scale
<1> QED
  BY <1>1, <1>2, <1>3, <1>4
     DEF Next, Start, GetKey, EnsureStatefulSet, GcBackendSecretsIfSettled,
         CallFails, Restart, DeliverSecret, DeliverStatefulSet, Fetch, Finish, CreatePod,
         DeletePod, RemovePod, ReportStatus, LosePod, RestartSandbox

\* An ordinal that every number of replicas asked for includes has one key for
\* ever: no lagging informer, no interrupted collection and no crash makes the
\* operator replace the address of a backend that was wanted all along.
THEOREM WantedKeysKept == Spec => []WantedKeyIsKept
<1>1. Init => LowInv
  <2> SUFFICES ASSUME Init PROVE LowInv
    OBVIOUS
  <2>1. JobAboveLow
    BY DEF Init, JobAboveLow, NoJob
  <2>2. LowKeys
    BY DEF Init, LowKeys
  <2> QED
    BY <2>1, <2>2, InitTypeInv DEF LowInv
<1>2. LowInv /\ [Next]_vars => LowInv'
  BY StepTypeInv, StepJobAboveLow, StepLowKeys DEF LowInv
<1>3. LowInv => WantedKeyIsKept
  BY DEF LowInv, LowKeys, WantedKeyIsKept
<1> QED
  BY <1>1, <1>2, <1>3, PTL DEF Spec

(***************************************************************************)
(* Nothing is overlooked.                                                  *)
(***************************************************************************)

\* What a job of an idle worker condemns is nothing, and no collection condemns
\* an ordinal that its reconcile wants.
LEMMA StepCondemned ==
  ASSUME TypeInv, Condemned, [Next]_vars
  PROVE  Condemned'
<1>0. job \in JobType
  BY TypePieces DEF TypeInv
<1> USE DEF Condemned
<1>1. CASE job' = NoJob
  BY <1>1 DEF NoJob
<1>2. CASE UNCHANGED job
  BY <1>2
<1>3. CASE Start
  BY <1>3 DEF Start, NoJob
<1>4. CASE GetKey
  BY <1>0, <1>4 DEF GetKey, JobType
<1>5. CASE EnsureKey
  BY <1>0, <1>1, <1>5 DEF EnsureKey, NextOrdinal, GiveUp, JobType
<1>6. CASE EnsureStatefulSet
  BY <1>0, <1>1, <1>6 DEF EnsureStatefulSet, GiveUp, JobType
<1>7. ASSUME NEW S \in SUBSET Ordinals, Collect(S), \A i \in S : i >= job.n
      PROVE  Condemned'
  <2>1. CASE S = {}
    BY <1>1, <1>7, <2>1 DEF Collect
  <2>2. CASE S # {}
    BY <1>0, <1>7, <2>2, CollectType DEF Collect, NoJob
  <2> QED
    BY <2>1, <2>2
<1>8. CASE GcBackendSecretsIfSettled
  <2> DEFINE S == IF css # NoSet /\ css.status = css.spec THEN Surplus(job.n) ELSE {}
  <2>1. S \in SUBSET Ordinals /\ Collect(S) /\ \A i \in S : i >= job.n
    BY <1>8 DEF GcBackendSecretsIfSettled, Surplus
  <2> HIDE DEF S
  <2> QED
    BY <1>7, <2>1
<1>9. ASSUME NEW i \in Ordinals, DeleteSecret(i) PROVE Condemned'
  <2>1. job.condemned \ {i} \in SUBSET Ordinals
    BY <1>0 DEF JobType
  <2> QED
    BY <1>7, <1>9, <2>1 DEF DeleteSecret
<1> QED
  BY <1>1, <1>2, <1>3, <1>4, <1>5, <1>6, <1>8, <1>9
     DEF Next, CallFails, Restart, GiveUp, DeliverSecret, DeliverStatefulSet, Fetch,
         Finish, CreatePod, DeletePod, RemovePod, ReportStatus, LosePod,
         RestartSandbox, Scale

\* A step of a reconcile leaves noticed what it passes, or queues the Gateway.
LEMMA StepNoticed ==
  ASSUME TypeInv, Condemned, queued \/ Noticed, [Next]_vars
  PROVE  queued' \/ Noticed'
<1>0. /\ job \in JobType /\ ss \in SetType /\ css \in SetType
      /\ keys \in [Ordinals -> Nat] /\ ckeys \in [Ordinals -> Nat]
      /\ made \in [Ordinals -> Nat]
      /\ replicas \in 1 .. MaxReplicas
      /\ \A i \in Ordinals : i \in Int
  <2>1. TypeOK /\ \A i \in Ordinals : i \in Int
    BY DEF TypeInv, Ordinals
  <2> QED
    BY <2>1, TypePieces DEF TypeOK
<1> USE DEF Noticed
<1>1. CASE queued'
  BY <1>1
<1>2. ASSUME UNCHANGED <<replicas, keys, ckeys, css, queued, job>>,
             ss'.spec = ss.spec
      PROVE  queued' \/ Noticed'
  BY <1>2 DEF JobIsCurrent, SetIsCurrent, KeysAreNoticed, SurplusIsNoticed
<1>3. CASE Start
  <2>1. job'.at = "get" /\ job'.n = replicas /\ job'.idx = 0 /\ UNCHANGED replicas
    BY <1>0, <1>3 DEF Start, NoJob
  <2>2. KeysAreNoticed'
    BY <1>0, <2>1, ScalingAssumption DEF KeysAreNoticed, Ordinals
  <2> QED
    BY <2>1, <2>2 DEF JobIsCurrent, SetIsCurrent, SurplusIsNoticed
<1>4. CASE GetKey
  <2>1. /\ job'.at = "key" /\ job'.n = job.n /\ job'.idx = job.idx
        /\ job.at = "get" /\ UNCHANGED <<replicas, keys, ckeys, queued>>
    BY <1>0, <1>4 DEF GetKey, JobType
  <2> QED
    BY <2>1 DEF JobIsCurrent, SetIsCurrent, KeysAreNoticed, SurplusIsNoticed
<1>5. CASE EnsureKey
  <2>1. CASE queued'
    BY <2>1
  <2>2. CASE /\ NextOrdinal /\ UNCHANGED queued
             /\ keys'[job.idx] # 0 \/ ckeys[job.idx] # 0
             /\ \A i \in Ordinals \ {job.idx} : keys'[i] = keys[i]
             /\ ckeys[job.idx] # 0 => UNCHANGED keys
    <3>1. CASE queued
      BY <2>2, <3>1
    <3>2. CASE Noticed
      <4> DEFINE a == IF job.idx + 1 < job.n THEN "get" ELSE "set"
      <4>1. /\ job'.at = a /\ job'.n = job.n /\ job'.idx = job.idx + 1
            /\ job.at = "key" /\ UNCHANGED <<replicas, ckeys>>
        BY <1>0, <1>5, <2>2 DEF EnsureKey, NextOrdinal, JobType
      <4>2. a \in {"get", "set"} /\ job.n = replicas
            /\ (a = "set" => job.idx + 1 >= replicas)
        BY <1>0, <3>2, <4>1 DEF JobIsCurrent, JobType
      <4>3. job.idx \in Int
        BY <1>0 DEF JobType
      <4> HIDE DEF a
      <4>4. KeysAreNoticed'
        <5> SUFFICES ASSUME NEW i \in Ordinals, i < replicas
                     PROVE  \/ keys'[i] # 0 \/ ckeys[i] # 0
                            \/ a = "get" /\ job.idx + 1 <= i
          BY <4>1, <4>2 DEF KeysAreNoticed
        <5>1. CASE i = job.idx
          BY <2>2, <5>1
        <5>2. CASE i < job.idx
          BY <1>0, <2>2, <3>2, <4>3, <5>2 DEF KeysAreNoticed
        <5>3. CASE i > job.idx
          <6>1. job.idx + 1 <= i
            BY <1>0, <4>3, <5>3
          <6>2. a # "set"
            BY <1>0, <4>2, <4>3, <6>1
          <6> QED
            BY <4>2, <6>1, <6>2
        <5> QED
          BY <1>0, <4>3, <5>1, <5>2, <5>3
      <4> QED
        BY <4>1, <4>2, <4>4 DEF JobIsCurrent, SetIsCurrent, SurplusIsNoticed
    <3> QED
      BY <3>1, <3>2
  <2>3. CASE ckeys[job.idx] = 0 /\ keys[job.idx] = 0 /\ NewKey(job.idx) /\ NextOrdinal
             /\ UNCHANGED queued
    <3>1. job.idx \in Ordinals
      BY <1>0, <1>5, ScalingAssumption DEF EnsureKey, TypeInv, CursorOK, Ordinals, JobType
    <3>2. keys'[job.idx] = made[job.idx] + 1 /\ made[job.idx] \in Nat
      BY <1>0, <2>3, <3>1 DEF NewKey
    <3>3. keys'[job.idx] # 0
      BY <3>2
    <3>4. \A i \in Ordinals \ {job.idx} : keys'[i] = keys[i]
      BY <1>0, <2>3, <3>1 DEF NewKey
    <3> QED
      BY <2>2, <2>3, <3>3, <3>4
  <2> QED
    BY <1>5, <2>1, <2>2, <2>3 DEF EnsureKey, GiveUp
<1>6. CASE EnsureStatefulSet
  <2>1. CASE queued'
    BY <2>1
  <2>2. CASE ss' = BuildBackendStatefulSet(job.n) /\ job' = [job EXCEPT !.at = "settled"]
    <3>1. ss'.spec = job.n /\ job'.at = "settled" /\ job'.n = job.n
      BY <1>0, <2>2 DEF BuildBackendStatefulSet, SetType, JobType
    <3>2. job.at = "set" /\ UNCHANGED <<replicas, keys, ckeys>>
      BY <1>6 DEF EnsureStatefulSet
    <3>3. CASE Noticed
      BY <3>1, <3>2, <3>3 DEF JobIsCurrent, SetIsCurrent, KeysAreNoticed, SurplusIsNoticed
    <3>4. CASE queued /\ UNCHANGED queued
      BY <3>4
    <3> QED
      BY <1>6, <2>1, <3>3, <3>4 DEF EnsureStatefulSet, GiveUp
  <2> QED
    BY <1>6, <2>1, <2>2 DEF EnsureStatefulSet, GiveUp
<1>7. ASSUME NEW S \in SUBSET Ordinals, Collect(S), job.at \in {"settled", "collect"},
             UNCHANGED <<replicas, ckeys, ss, css, queued>>,
             \A i \in Ordinals : i < replicas => keys'[i] = keys[i],
             Noticed,
             css # NoSet /\ css.status = css.spec =>
               \A i \in Ordinals : i >= replicas =>
                 keys'[i] = 0 \/ ckeys[i] = 0 \/ i \in S
      PROVE  queued' \/ Noticed'
  <2>1. job'.condemned = S /\ (job' = NoJob \/ (job'.at = "collect" /\ job'.n = job.n))
    BY <1>0, <1>7, CollectType
  <2>2. JobIsCurrent' /\ SetIsCurrent'
    BY <1>7, <2>1 DEF JobIsCurrent, SetIsCurrent, NoJob
  <2>3. KeysAreNoticed'
    BY <1>7 DEF KeysAreNoticed
  <2>4. SurplusIsNoticed'
    BY <1>7, <2>1 DEF SurplusIsNoticed
  <2> QED
    BY <2>2, <2>3, <2>4
<1>8. CASE GcBackendSecretsIfSettled
  <2> DEFINE S == IF css # NoSet /\ css.status = css.spec THEN Surplus(job.n) ELSE {}
  <2>1. /\ S \in SUBSET Ordinals /\ Collect(S) /\ job.at = "settled"
        /\ UNCHANGED <<replicas, keys, ckeys, ss, css, queued>>
    BY <1>8 DEF GcBackendSecretsIfSettled, Surplus
  <2>2. css # NoSet /\ css.status = css.spec /\ Noticed =>
          \A i \in Ordinals : i >= replicas => ckeys[i] = 0 \/ i \in S
    BY <1>0, <2>1 DEF Surplus, JobIsCurrent
  <2> HIDE DEF S
  <2> QED
    BY <1>1, <1>7, <2>1, <2>2
<1>9. ASSUME NEW i \in Ordinals, DeleteSecret(i) PROVE queued' \/ Noticed'
  <2>1. CASE queued
    BY <1>9, <2>1 DEF DeleteSecret
  <2>2. CASE Noticed
    <3>1. /\ job.condemned \ {i} \in SUBSET Ordinals /\ Collect(job.condemned \ {i})
          /\ job.at = "collect" /\ i \in job.condemned
          /\ UNCHANGED <<replicas, ckeys, ss, css, queued>>
      BY <1>0, <1>9 DEF DeleteSecret, JobType
    <3>2. keys'[i] = 0 /\ \A j \in Ordinals \ {i} : keys'[j] = keys[j]
      BY <1>0, <1>9 DEF DeleteSecret
    <3>3. i >= replicas
      BY <2>2, <3>1 DEF Condemned, JobIsCurrent
    <3>4. \A j \in Ordinals : j < replicas => keys'[j] = keys[j]
      BY <1>0, <3>2, <3>3
    <3>5. css # NoSet /\ css.status = css.spec =>
            \A j \in Ordinals : j >= replicas =>
              keys'[j] = 0 \/ ckeys[j] = 0 \/ j \in job.condemned \ {i}
      BY <2>2, <3>1, <3>2 DEF SurplusIsNoticed
    <3> QED
      BY <1>7, <2>2, <3>1, <3>4, <3>5
  <2> QED
    BY <2>1, <2>2
<1>10. CASE ReportStatus
  <2>1. ss'.spec = ss.spec
    BY <1>0, <1>10 DEF ReportStatus, SetType
  <2> QED
    BY <1>2, <1>10, <2>1 DEF ReportStatus
<1> QED
  BY <1>1, <1>2, <1>3, <1>4, <1>5, <1>6, <1>8, <1>9, <1>10
     DEF Next, CallFails, Restart, GiveUp, DeliverSecret, DeliverStatefulSet, Fetch,
         Finish, CreatePod, DeletePod, RemovePod, LosePod, RestartSandbox, Scale

\* When no reconcile runs or is due, none is needed: whatever a reconcile misses
\* because its copies are overtaken, because a call of it fails or because the
\* operator restarts, queues the Gateway again.  This holds for any number of
\* replicas and of policy changes.
THEOREM NothingOverlooked == Spec => []NothingIsOverlooked
<1>1. Init => NoticeInv
  BY InitTypeInv DEF Init, NoticeInv, Condemned, NoJob
<1>2. NoticeInv /\ [Next]_vars => NoticeInv'
  BY StepTypeInv, StepCondemned, StepNoticed DEF NoticeInv
<1>3. NoticeInv => NothingIsOverlooked
  <2> SUFFICES ASSUME NoticeInv, job = NoJob, ~queued
               PROVE  /\ ss.spec = replicas
                      /\ \A i \in Ordinals : i < replicas => keys[i] # 0 \/ ckeys[i] # 0
                      /\ css # NoSet /\ css.status = css.spec =>
                           \A i \in Ordinals : i >= replicas => keys[i] = 0 \/ ckeys[i] = 0
    BY DEF NothingIsOverlooked
  <2>1. job.at = "idle" /\ job.condemned = {} /\ Noticed
    BY DEF NoticeInv, NoJob
  <2> QED
    BY <2>1 DEF Noticed, SetIsCurrent, KeysAreNoticed, SurplusIsNoticed
<1> QED
  BY <1>1, <1>2, <1>3, PTL DEF Spec
============================================================================
