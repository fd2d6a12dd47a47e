--------------------------- MODULE BackendScaling ---------------------------
(***************************************************************************)
(* Scaling of the Mode B backends: ensureModeB keeps one key Secret per    *)
(* ordinal, sets the StatefulSet's replicas and collects the Secrets of    *)
(* ordinals that are gone (gateway_controller.go); every backend pod       *)
(* fetches its own Secret in its init container (cmd/tor-init).            *)
(*                                                                         *)
(* Secrets and StatefulSet are read from informers that lag.  One step is  *)
(* one API call, or the cached reads before it.  The policy is read as it  *)
(* is: a late event is a later change.  The StatefulSet controller and the *)
(* kubelet are external.                                                   *)
(***************************************************************************)
EXTENDS Integers, FiniteSets

CONSTANTS
  MaxReplicas,  \* the largest number of replicas a policy asks for
  MaxEdits,     \* bound on changes of the policy
  MaxFaults     \* bound on failed calls, crashes and lost pods

ASSUME ScalingAssumption ==
  /\ MaxReplicas \in Nat \ {0}
  /\ MaxEdits \in Nat /\ MaxFaults \in Nat

Ordinals == 0 .. MaxReplicas - 1

VARIABLES
  replicas,     \* of the OnionBalancePolicy
  keys, ckeys,  \* the key in each ordinal's Secret, 0 if there is none; cached
  ss, css,      \* the StatefulSet; cached
  pods,         \* the pod of each ordinal
  queued,       \* a reconcile of the Gateway is due
  job,          \* the reconcile under way
  made,         \* history: the keys made for each ordinal
  orphaned,     \* history: pods whose Secret was deleted under them
  low,          \* history: the lowest number of replicas asked for
  edits, faults

history == <<made, orphaned, low>>
bounds  == <<edits, faults>>
vars == <<replicas, keys, ckeys, ss, css, pods, queued, job, history, bounds>>

NoSet == [spec |-> 0, status |-> 0]
NoPod == [at |-> "none", key |-> 0, obConfig |-> FALSE]

\* n is the policy's replicas as read, idx the next ordinal, found whether the
\* first Get of its Secret found one, condemned the Secrets still to be deleted.
NoJob == [at |-> "idle", n |-> 0, idx |-> 0, found |-> FALSE, condemned |-> {}]

Init ==
  /\ replicas \in 1 .. MaxReplicas
  /\ keys = [i \in Ordinals |-> 0] /\ ckeys = keys
  /\ ss = NoSet /\ css = NoSet
  /\ pods = [i \in Ordinals |-> NoPod]
  /\ queued = TRUE
  /\ job = NoJob
  /\ made = [i \in Ordinals |-> 0] /\ orphaned = {} /\ low = replicas
  /\ edits = 0 /\ faults = 0

Fault ==
  /\ faults < MaxFaults
  /\ faults' = faults + 1

\* Reconcile returns an error: the request goes back to the queue.
GiveUp ==
  /\ job' = NoJob
  /\ queued' = TRUE

----------------------------------------------------------------------------
(***************************************************************************)
(* ensureModeB.                                                            *)
(***************************************************************************)
Start ==
  /\ queued /\ job.at = "idle"
  /\ queued' = FALSE
  /\ job' = [NoJob EXCEPT !.at = "get", !.n = replicas]
  /\ UNCHANGED <<replicas, keys, ckeys, ss, css, pods, history, bounds>>

\* ensureBackendKeySecretForIndex looks for key material to reuse.
GetKey ==
  /\ job.at = "get"
  /\ job' = [job EXCEPT !.at = "key", !.found = ckeys[job.idx] # 0]
  /\ UNCHANGED <<replicas, keys, ckeys, ss, css, pods, queued, history, bounds>>

NextOrdinal ==
  job' = [job EXCEPT !.at = IF job.idx + 1 < job.n THEN "get" ELSE "set",
                     !.idx = job.idx + 1, !.found = FALSE]

NewKey(i) ==
  /\ keys' = [keys EXCEPT ![i] = made[i] + 1]
  /\ made' = [made EXCEPT ![i] = made[i] + 1]

\* Mutant: the data is written on updates too, and it is new when the first Get
\* found nothing.
EnsureKeyWritingData ==
  /\ job.at = "key"
  /\ \/ /\ \/ ckeys[job.idx] = 0 /\ keys[job.idx] = 0
           \/ ckeys[job.idx] # 0 /\ ckeys[job.idx] = keys[job.idx] /\ ~job.found
        /\ NewKey(job.idx)
        /\ NextOrdinal
        /\ UNCHANGED queued
     \/ /\ ckeys[job.idx] # 0 /\ job.found
        /\ NextOrdinal
        /\ UNCHANGED <<keys, made, queued>>
     \/ /\ ckeys[job.idx] # keys[job.idx]
        /\ GiveUp
        /\ UNCHANGED <<keys, made>>
  /\ UNCHANGED <<replicas, ckeys, ss, css, pods, orphaned, low, bounds>>

\* ensureBackendKeySecret: CreateOrUpdate reads the cache again.  A Secret that
\* is there keeps its data; nothing else of it changes, so nothing is sent.
EnsureKey ==
  /\ job.at = "key"
  /\ \/ /\ ckeys[job.idx] # 0
        /\ NextOrdinal
        /\ UNCHANGED <<keys, made, queued>>
     \/ /\ ckeys[job.idx] = 0 /\ keys[job.idx] = 0
        /\ NewKey(job.idx)
        /\ NextOrdinal
        /\ UNCHANGED queued
     \/ /\ ckeys[job.idx] = 0 /\ keys[job.idx] # 0   \* AlreadyExists
        /\ GiveUp
        /\ UNCHANGED <<keys, made>>
  /\ UNCHANGED <<replicas, ckeys, ss, css, pods, orphaned, low, bounds>>

\* Of the manifest only the replicas matter here.
BuildBackendStatefulSet(n) == [ss EXCEPT !.spec = n]

\* Mutant: the frontend is counted as a replica.
EnsureStatefulSetOneMore ==
  /\ job.at = "set"
  /\ \/ /\ css = ss
        /\ ss' = BuildBackendStatefulSet(job.n + 1)
        /\ job' = [job EXCEPT !.at = "settled"]
        /\ UNCHANGED queued
     \/ /\ css # ss
        /\ GiveUp
        /\ UNCHANGED ss
  /\ UNCHANGED <<replicas, keys, ckeys, css, pods, history, bounds>>

\* ensureHAStatefulSet: created, or updated with the cached resourceVersion,
\* which every change of its status outdates too.
EnsureStatefulSet ==
  /\ job.at = "set"
  /\ \/ /\ css = ss
        /\ ss' = BuildBackendStatefulSet(job.n)
        /\ job' = [job EXCEPT !.at = "settled"]
        /\ UNCHANGED queued
     \/ /\ css # ss
        /\ GiveUp
        /\ UNCHANGED ss
  /\ UNCHANGED <<replicas, keys, ckeys, css, pods, history, bounds>>

\* Mutant: the index is compared with one replica less.
SurplusOffByOne(n) == {i \in Ordinals : i >= n - 1 /\ ckeys[i] # 0}

\* gcOrphanBackendSecrets lists the cached Secrets.
Surplus(n) == {i \in Ordinals : i >= n /\ ckeys[i] # 0}

Collect(S) ==
  job' = IF S = {} THEN NoJob ELSE [job EXCEPT !.at = "collect", !.condemned = S]

\* gcBackendSecretsIfSettled reads the StatefulSet it has just written from the
\* cache, which need not have the new spec, or the StatefulSet, yet.
GcBackendSecretsIfSettled ==
  /\ job.at = "settled"
  /\ Collect(IF css # NoSet /\ css.status = css.spec THEN Surplus(job.n) ELSE {})
  /\ UNCHANGED <<replicas, keys, ckeys, ss, css, pods, queued, history, bounds>>

\* A Delete by name; NotFound is ignored.
DeleteSecret(i) ==
  /\ job.at = "collect" /\ i \in job.condemned
  /\ keys' = [keys EXCEPT ![i] = 0]
  /\ orphaned' = IF keys[i] # 0 /\ pods[i].at # "none"
                 THEN orphaned \cup {i} ELSE orphaned
  /\ Collect(job.condemned \ {i})
  /\ UNCHANGED <<replicas, ckeys, ss, css, pods, queued, made, low, bounds>>

\* A call fails.
CallFails ==
  /\ job.at \in {"key", "set", "collect"}
  /\ Fault
  /\ GiveUp
  /\ UNCHANGED <<replicas, keys, ckeys, ss, css, pods, history, edits>>

\* The operator restarts: informers list anew and every Gateway is queued.
Restart ==
  /\ Fault
  /\ GiveUp
  /\ ckeys' = keys /\ css' = ss
  /\ UNCHANGED <<replicas, keys, ss, pods, history, edits>>

----------------------------------------------------------------------------
(***************************************************************************)
(* Informers; the reconciler owns Secrets and StatefulSets.                *)
(***************************************************************************)
\* Mutant: the reconciler does not own the Secrets.
DeliverSecretUnseen(i) ==
  /\ ckeys[i] # keys[i]
  /\ ckeys' = [ckeys EXCEPT ![i] = keys[i]]
  /\ UNCHANGED <<replicas, keys, ss, css, pods, queued, job, history, bounds>>

DeliverSecret(i) ==
  /\ ckeys[i] # keys[i]
  /\ ckeys' = [ckeys EXCEPT ![i] = keys[i]]
  /\ queued' = TRUE
  /\ UNCHANGED <<replicas, keys, ss, css, pods, job, history, bounds>>

\* Mutant: the reconciler does not own the StatefulSet.
DeliverStatefulSetUnseen ==
  /\ css # ss
  /\ css' = ss
  /\ UNCHANGED <<replicas, keys, ckeys, ss, pods, queued, job, history, bounds>>

DeliverStatefulSet ==
  /\ css # ss
  /\ css' = ss
  /\ queued' = TRUE
  /\ UNCHANGED <<replicas, keys, ckeys, ss, pods, job, history, bounds>>

----------------------------------------------------------------------------
(***************************************************************************)
(* tor-init in pod i.                                                      *)
(***************************************************************************)
SetPod(i, p) == pods' = [pods EXCEPT ![i] = p]

\* run up to the fetched Secret; a 404 fails the container, which is restarted.
Fetch(i) ==
  /\ pods[i].at = "init"
  /\ keys[i] # 0
  /\ SetPod(i, [pods[i] EXCEPT !.at = "fetched", !.key = keys[i]])
  /\ UNCHANGED <<replicas, keys, ckeys, ss, css, queued, job, history, bounds>>

\* FixPermissions takes rights away and gives none: an ob_config of an earlier
\* run stays at its mode 0400, which a user other than root cannot write.
ObConfigWritable(p) == ~p.obConfig

WriteObConfig(p) == [p EXCEPT !.at = "serving", !.obConfig = TRUE]

\* The rest of run; after it tor starts.
Finish(i) ==
  /\ pods[i].at = "fetched"
  /\ SetPod(i, IF ObConfigWritable(pods[i]) THEN WriteObConfig(pods[i])
               ELSE [pods[i] EXCEPT !.at = "stuck"])
  /\ UNCHANGED <<replicas, keys, ckeys, ss, css, queued, job, history, bounds>>

----------------------------------------------------------------------------
(***************************************************************************)
(* The StatefulSet controller (parallel pod management) and the kubelet.   *)
(***************************************************************************)
CreatePod(i) ==
  /\ i < ss.spec /\ pods[i].at = "none"
  /\ SetPod(i, [NoPod EXCEPT !.at = "init"])
  /\ UNCHANGED <<replicas, keys, ckeys, ss, css, queued, job, history, bounds>>

RemovePod(i) ==
  /\ SetPod(i, NoPod)
  /\ orphaned' = orphaned \ {i}
  /\ UNCHANGED <<replicas, keys, ckeys, ss, css, queued, job, made, low, edits>>

DeletePod(i) ==
  /\ i >= ss.spec /\ pods[i].at # "none"
  /\ RemovePod(i)
  /\ UNCHANGED faults

PodCount == Cardinality({i \in Ordinals : pods[i].at # "none"})

ReportStatus ==
  /\ ss # NoSet
  /\ ss.status # PodCount
  /\ ss' = [ss EXCEPT !.status = PodCount]
  /\ UNCHANGED <<replicas, keys, ckeys, css, pods, queued, job, history, bounds>>

\* A pod is evicted or its node is lost.
LosePod(i) ==
  /\ pods[i].at # "none"
  /\ Fault
  /\ RemovePod(i)

\* The sandbox of a pod is restarted: its init container runs again, on the same
\* emptyDir.
RestartSandbox(i) ==
  /\ pods[i].at = "serving"
  /\ Fault
  /\ SetPod(i, [pods[i] EXCEPT !.at = "init"])
  /\ UNCHANGED <<replicas, keys, ckeys, ss, css, queued, job, history, edits>>

\* A user changes spec.replicas.
Scale ==
  /\ edits < MaxEdits
  /\ edits' = edits + 1
  /\ \E n \in (1 .. MaxReplicas) \ {replicas} :
       /\ replicas' = n
       /\ low' = IF n < low THEN n ELSE low
  /\ queued' = TRUE
  /\ UNCHANGED <<keys, ckeys, ss, css, pods, job, made, orphaned, faults>>

----------------------------------------------------------------------------
Next ==
  \/ Start \/ GetKey \/ EnsureKey \/ EnsureStatefulSet
  \/ GcBackendSecretsIfSettled
  \/ \E i \in Ordinals : DeleteSecret(i)
  \/ CallFails
  \/ Restart
  \/ \E i \in Ordinals : DeliverSecret(i)
  \/ DeliverStatefulSet
  \/ \E i \in Ordinals : Fetch(i)
  \/ \E i \in Ordinals : Finish(i)
  \/ \E i \in Ordinals : CreatePod(i)
  \/ \E i \in Ordinals : DeletePod(i)
  \/ ReportStatus
  \/ \E i \in Ordinals : LosePod(i)
  \/ \E i \in Ordinals : RestartSandbox(i)
  \/ Scale

Spec == Init /\ [][Next]_vars

\* The worker, the informers, tor-init and the StatefulSet controller go on;
\* users, failures and lost pods need not.
Fairness ==
  /\ WF_vars(Start) /\ WF_vars(GetKey) /\ WF_vars(EnsureKey)
  /\ WF_vars(EnsureStatefulSet) /\ WF_vars(GcBackendSecretsIfSettled)
  /\ WF_vars(\E i \in Ordinals : DeleteSecret(i))
  /\ \A i \in Ordinals : WF_vars(DeliverSecret(i))
  /\ WF_vars(DeliverStatefulSet)
  /\ \A i \in Ordinals : WF_vars(Fetch(i) \/ Finish(i))
  /\ \A i \in Ordinals : WF_vars(CreatePod(i)) /\ WF_vars(DeletePod(i))
  /\ WF_vars(ReportStatus)

FairSpec == Spec /\ Fairness

----------------------------------------------------------------------------
(***************************************************************************)
(* Properties.                                                             *)
(***************************************************************************)

\* Every variable has its type, and a Secret holds the latest key made for it.
TypeOK ==
  /\ replicas \in 1 .. MaxReplicas /\ low \in 1 .. MaxReplicas
  /\ keys \in [Ordinals -> Nat] /\ ckeys \in [Ordinals -> Nat]
  /\ made \in [Ordinals -> Nat]
  /\ \A i \in Ordinals : keys[i] \in {0, made[i]}
  /\ ss \in [spec : 0 .. MaxReplicas, status : 0 .. MaxReplicas]
  /\ css \in [spec : 0 .. MaxReplicas, status : 0 .. MaxReplicas]
  /\ pods \in [Ordinals -> [at : {"none", "init", "fetched", "serving", "stuck"},
                            key : Nat, obConfig : BOOLEAN]]
  /\ queued \in BOOLEAN
  /\ job \in [at : {"idle", "get", "key", "set", "settled", "collect"},
              n : 0 .. MaxReplicas, idx : 0 .. MaxReplicas,
              found : BOOLEAN, condemned : SUBSET Ordinals]
  /\ orphaned \subseteq Ordinals
  /\ edits \in 0 .. MaxEdits /\ faults \in 0 .. MaxFaults

\* A pod serves the key in its Secret, whose hostname onionbalance announces,
\* unless its Secret was deleted under it: no reconcile puts another key into a
\* Secret that exists, though the two reads before the write may disagree.
PodServesItsKey ==
  \A i \in Ordinals :
    pods[i].at = "serving" /\ keys[i] # 0 /\ i \notin orphaned
      => pods[i].key = keys[i]

\* An ordinal that every number of replicas asked for so far includes never has
\* a second key: neither lagging informers nor an interrupted collection make
\* the operator replace the address of a backend that was wanted all along.
WantedKeyIsKept == \A i \in Ordinals : i < low => made[i] <= 1

\* When no reconcile runs or is due, none is needed: the StatefulSet has the
\* replicas of the policy; each wanted ordinal has a Secret, or the loss of the
\* one in the cache is still to be seen; and if the cached status is settled, no
\* surplus Secret is left that the collection could have seen.  Each reconcile
\* works with copies that are overtaken while it runs, and whatever it misses has
\* to queue the Gateway again.
NothingIsOverlooked ==
  job = NoJob /\ ~queued =>
    /\ ss.spec = replicas
    /\ \A i \in Ordinals : i < replicas => keys[i] # 0 \/ ckeys[i] # 0
    /\ css # NoSet /\ css.status = css.spec =>
         \A i \in Ordinals : i >= replicas => keys[i] = 0 \/ ckeys[i] = 0

\* As the comment on gcBackendSecretsIfSettled has it: Secrets are collected only
\* once the surplus pods have terminated, so none is taken from under a pod.  The
\* StatefulSet is read from the cache just after the write that lowered its
\* replicas: the copy may be the old one, whose two numbers agree.
CollectionWaitsForPods ==
  [][\A i \in Ordinals :
       GcBackendSecretsIfSettled /\ pods[i].at # "none"
         => i \notin job'.condemned]_vars

\* After the last change and fault there is a Secret and a pod for each ordinal
\* the policy asks for and none for the others, and each pod serves the key of
\* its Secret, unless the Secret was replaced under it or its init container
\* failed on the ob_config it had written before.
Settles ==
  <>[]\A i \in Ordinals :
        IF i < replicas
        THEN /\ keys[i] # 0
             /\ \/ pods[i].at = "serving"
                     /\ (pods[i].key = keys[i] \/ i \in orphaned)
                \/ pods[i].at = "stuck"
        ELSE keys[i] = 0 /\ pods[i].at = "none"
============================================================================
