-------------------------- MODULE VanityKeyProofs --------------------------
(***************************************************************************)
(* Proofs about VanityKey, for every set of prefixes, every set of lagging *)
(* informers and any number of user changes and faults.                    *)
(***************************************************************************)
EXTENDS VanityKey, TLAPS

(***************************************************************************)
(* The inductive invariants.                                               *)
(***************************************************************************)

\* runVanityHarvest is only entered for a prefix.
WantOK ==
  pc \in {"harvest", "getJob", "getOut", "markFailed", "clearFailed", "promote"}
    => want \in Prefixes

\* The output Secret only ever holds harvested keys, which carry a prefix, and
\* promoteVanityKey has such a key in hand.
HarvestedType == {Absent, Empty} \cup {KeyFor(p) : p \in Prefixes}

HarvestedOK ==
  /\ out \in HarvestedType /\ cout \in HarvestedType /\ lout \in HarvestedType
  /\ pc = "promote" => lout.full

\* asked is the prefix or has been reset, and the reconciler gets as far as
\* generating a key only when the API server showed it no prefix to wait for.
AskedOK ==
  /\ asked \in {prefix, NoPrefix}
  /\ pc = "generate" => ~await /\ asked = NoPrefix

\* The types, one membership for each variable.
Pcs == {"idle", "getKey", "recheck", "generate", "harvest", "getJob", "getOut",
        "markFailed", "clearFailed", "promote", "discardOut", "discardJob"}

PrefixesOK ==
  /\ prefix \in AnyPrefix /\ cprefix \in AnyPrefix /\ want \in AnyPrefix
  /\ failed \in AnyPrefix /\ cfailed \in AnyPrefix /\ lfailed \in AnyPrefix
  /\ asked \in AnyPrefix
SecretsOK ==
  /\ key \in SecretType /\ ckey \in SecretType
  /\ out \in SecretType /\ cout \in SecretType /\ lout \in SecretType
JobsOK ==
  /\ job \in JobType /\ cjob \in JobType /\ ljob \in JobType
  /\ orphans \subseteq Prefixes
ControlOK == pc \in Pcs /\ await \in BOOLEAN /\ queued \in BOOLEAN
BoundsOK == edits \in 0 .. MaxEdits /\ faults \in 0 .. MaxFaults

TypeInv == PrefixesOK /\ SecretsOK /\ JobsOK /\ ControlOK /\ BoundsOK /\ WantOK
KeyInv == TypeInv /\ HarvestedOK /\ AskedOK

USE DEF vars, apiVars, cacheVars, localVars, envUnchanged

(***************************************************************************)
(* Types.                                                                  *)
(***************************************************************************)

\* The pieces and a harvested key in hand make up TypeOK.
LEMMA TypePieces == TypeInv /\ HarvestedOK => TypeOK
<1> SUFFICES ASSUME TypeInv, HarvestedOK PROVE TypeOK
  OBVIOUS
<1>1. pc = "promote" => lout \in {KeyFor(p) : p \in Prefixes}
  BY DEF HarvestedOK, HarvestedType, Absent, Empty
<1> QED
  BY <1>1 DEF TypeInv, TypeOK, PrefixesOK, SecretsOK, JobsOK, ControlOK, BoundsOK, WantOK, Pcs

\* The values a reconcile starts and ends with.
LEMMA NoValues ==
  /\ NoPrefix \in AnyPrefix /\ \A p \in Prefixes : p \in AnyPrefix
  /\ Absent \in SecretType /\ Empty \in SecretType /\ NoJob \in JobType
  /\ Absent \in HarvestedType /\ Empty \in HarvestedType
  /\ \A p \in AnyPrefix : KeyFor(p) \in SecretType
  /\ \A p \in Prefixes : KeyFor(p) \in HarvestedType
BY DEF AnyPrefix, SecretType, JobType, HarvestedType

\* A Job that is there was made for a prefix, and its outcome leaves a Job.
LEMMA JobPrefix ==
  ASSUME NEW j \in JobType
  PROVE  /\ j.state # "none" => j.prefix \in Prefixes
         /\ \A s \in {"running", "done", "failed"} :
              j.state # "none" => [j EXCEPT !.state = s] \in JobType
BY DEF JobType, NoJob

\* Returning from Reconcile drops its copies.
LEMMA ReturnType ==
  ASSUME Return
  PROVE  /\ want' \in AnyPrefix /\ lfailed' \in AnyPrefix /\ asked' \in AnyPrefix
         /\ lout' = Absent /\ lout' \in SecretType /\ lout' \in HarvestedType
         /\ ljob' \in JobType
         /\ pc' = "idle" /\ pc' \in Pcs /\ WantOK' /\ asked' = NoPrefix
BY NoValues DEF Return, Goto, Pcs, WantOK

\* Deleting the harvest Job leaves a pod with the prefix of a running one.
LEMMA DeleteType ==
  ASSUME JobsOK, DeleteVanityJob
  PROVE  job' \in JobType /\ orphans' \subseteq Prefixes
BY NoValues, JobPrefix DEF JobsOK, DeleteVanityJob

\* The initial state is well typed.
LEMMA InitTypeInv == Init => TypeInv
<1> SUFFICES ASSUME Init PROVE TypeInv
  OBVIOUS
<1>1. PrefixesOK
  BY NoValues DEF Init, PrefixesOK
<1>2. SecretsOK /\ JobsOK
  BY NoValues DEF Init, SecretsOK, JobsOK
<1>3. ControlOK /\ WantOK
  BY DEF Init, ControlOK, WantOK, Pcs
<1>4. BoundsOK
  BY PrefixAssumption DEF Init, BoundsOK
<1> QED
  BY <1>1, <1>2, <1>3, <1>4 DEF TypeInv

\* Every step keeps the types, and a harvest has a prefix.
LEMMA StepTypeInv == TypeInv /\ [Next]_vars => TypeInv'
<1> SUFFICES ASSUME TypeInv, [Next]_vars PROVE TypeInv'
  OBVIOUS
<1> DEFINE Good == PrefixesOK /\ SecretsOK /\ JobsOK /\ ControlOK /\ BoundsOK /\ WantOK
<1>0. Good
  BY DEF TypeInv
<1> SUFFICES Good'
  BY DEF TypeInv
<1> USE DEF PrefixesOK, SecretsOK, JobsOK, ControlOK, BoundsOK
<1>1. CASE Reconcile
  BY <1>0, <1>1 DEF Reconcile, Goto, WantOK, Pcs
<1>2. CASE GetKeySecret
  BY <1>0, <1>2, ReturnType DEF GetKeySecret, Report, Goto, WantOK, Pcs, AnyPrefix
<1>3. CASE RecheckPolicy
  BY <1>0, <1>3, ReturnType DEF RecheckPolicy, Report, Goto, WantOK, Pcs, AnyPrefix
<1>4. CASE GenerateKey
  BY <1>0, <1>4, ReturnType, NoValues DEF GenerateKey, Report, Fail
<1>5. CASE EnsureVanityOutSecret
  BY <1>0, <1>5, ReturnType, NoValues DEF EnsureVanityOutSecret, Report, Fail, Goto, WantOK, Pcs
<1>6. CASE GetVanityJob
  <2>1. [prefix |-> want, state |-> "running"] \in JobType
    BY <1>0, <1>6 DEF GetVanityJob, WantOK, JobType
  <2> QED
    BY <1>0, <1>6, <2>1, ReturnType, DeleteType
       DEF GetVanityJob, Report, Fail, Goto, WantOK, Pcs
<1>7. CASE GetVanityOut
  BY <1>0, <1>7, ReturnType DEF GetVanityOut, Report, Fail, Goto, WantOK, Pcs
<1>8. CASE MarkVanityFailed
  BY <1>0, <1>8, ReturnType DEF MarkVanityFailed, Report
<1>9. CASE ClearVanityFailed
  BY <1>0, <1>9, ReturnType, NoValues DEF ClearVanityFailed, Report
<1>10. CASE PromoteVanityKey
  BY <1>0, <1>10, ReturnType DEF PromoteVanityKey, Fail, Goto, WantOK, Pcs
<1>11. CASE DiscardVanityOut
  BY <1>0, <1>11, NoValues DEF DiscardVanityOut, Goto, WantOK, Pcs
<1>12. CASE DiscardVanityJob
  BY <1>0, <1>12, ReturnType, DeleteType, NoValues DEF DiscardVanityJob, Report
<1>13. CASE HarvestSucceeds
  BY <1>0, <1>13, JobPrefix, NoValues DEF HarvestSucceeds, WantOK
<1>14. CASE HarvestFails
  BY <1>0, <1>14, JobPrefix DEF HarvestFails, WantOK
<1>15. ASSUME NEW p \in Prefixes, OrphanWrites(p) \/ OrphanEnds(p) PROVE Good'
  BY <1>0, <1>15, NoValues DEF OrphanWrites, OrphanEnds, WantOK
<1>16. CASE JobExpires
  BY <1>0, <1>16, NoValues DEF JobExpires, WantOK
<1>17. CASE ApiError
  BY <1>0, <1>17, ReturnType, PrefixAssumption DEF ApiError, Fail
<1>18. CASE Restart
  BY <1>0, <1>18, ReturnType, PrefixAssumption DEF Restart, Fail
<1>19. ASSUME NEW p \in AnyPrefix, SetPrefix(p) PROVE Good'
  BY <1>0, <1>19, NoValues, PrefixAssumption DEF SetPrefix, WantOK
<1>20. CASE LoseKey
  BY <1>0, <1>20, NoValues, PrefixAssumption DEF LoseKey, WantOK
<1>21. CASE SyncPolicy \/ SyncKey \/ SyncOut \/ SyncJob \/ SyncGateway
  BY <1>0, <1>21 DEF SyncPolicy, SyncKey, SyncOut, SyncJob, SyncGateway, Deliver, WantOK
<1>22. CASE UNCHANGED vars
  BY <1>0, <1>22 DEF WantOK
<1> QED
  BY <1>1, <1>2, <1>3, <1>4, <1>5, <1>6, <1>7, <1>8, <1>9, <1>10, <1>11, <1>12, <1>13,
     <1>14, <1>15, <1>16, <1>17, <1>18, <1>19, <1>20, <1>21, <1>22
     DEF Next, Step, HarvestEnds, Environment

(***************************************************************************)
(* The key.                                                                *)
(***************************************************************************)

\* A step other than a user's leaves a key Secret that is there alone: both
\* GenerateKey and PromoteVanityKey create it.
LEMMA StepKeepsKey ==
  ASSUME TypeInv, [Next]_vars, key.there, edits' = edits
  PROVE  key' = key
<1>1. edits \in Int
  BY DEF TypeInv, BoundsOK
<1>2. CASE GenerateKey \/ PromoteVanityKey
  BY <1>2 DEF GenerateKey, PromoteVanityKey
<1>3. CASE LoseKey
  BY <1>1, <1>3 DEF LoseKey
<1> QED
  BY <1>2, <1>3
     DEF Next, Step, HarvestEnds, Environment, Reconcile, GetKeySecret, RecheckPolicy,
         EnsureVanityOutSecret, GetVanityJob, GetVanityOut, MarkVanityFailed,
         ClearVanityFailed, DiscardVanityOut, DiscardVanityJob, HarvestSucceeds,
         HarvestFails, OrphanWrites, OrphanEnds, JobExpires, ApiError, Restart, SetPrefix,
         SyncPolicy, SyncKey, SyncOut, SyncJob, SyncGateway, Deliver

\* The reconciler never replaces or removes a hidden-service key, whatever the
\* caches showed it and whichever harvest ended in between.
THEOREM KeysNeverReplaced == Spec => KeyNeverReplaced
<1>1. TypeInv /\ [Next]_vars => [key.there /\ edits' = edits => key' = key]_vars
  BY StepKeepsKey
<1> QED
  BY <1>1, InitTypeInv, StepTypeInv, PTL DEF Spec, KeyNeverReplaced

\* The output Secret and its copies never hold a random key.
LEMMA StepHarvestedOK ==
  ASSUME TypeInv, HarvestedOK, [Next]_vars
  PROVE  HarvestedOK'
<1>0. job \in JobType
  BY DEF TypeInv, JobsOK
<1> USE DEF HarvestedOK
<1>1. CASE UNCHANGED <<out, cout, lout, pc>>
  BY <1>1
<1>2. CASE Return /\ UNCHANGED <<out, cout>>
  BY <1>2, ReturnType
<1>3. CASE Restart
  BY <1>3, ReturnType DEF Restart, Fail
<1>4. CASE EnsureVanityOutSecret
  BY <1>4, ReturnType, NoValues DEF EnsureVanityOutSecret, Report, Fail, Goto
<1>5. CASE GetVanityOut
  BY <1>2, <1>5 DEF GetVanityOut, Report, Fail, Goto
<1>6. CASE DiscardVanityOut
  BY <1>6, NoValues DEF DiscardVanityOut, Goto
<1>7. CASE HarvestSucceeds
  BY <1>0, <1>7, JobPrefix, NoValues DEF HarvestSucceeds
<1>8. ASSUME NEW p \in Prefixes, OrphanWrites(p) PROVE HarvestedOK'
  BY <1>8, NoValues DEF OrphanWrites
<1>9. CASE SyncOut
  BY <1>9 DEF SyncOut, Deliver
<1>10. CASE UNCHANGED <<out, cout, lout>> /\ pc' # "promote"
  BY <1>10
<1>11. CASE Reconcile \/ GetKeySecret \/ RecheckPolicy \/ GenerateKey \/ GetVanityJob
            \/ MarkVanityFailed \/ ClearVanityFailed \/ PromoteVanityKey \/ DiscardVanityJob
  BY <1>2, <1>10, <1>11
     DEF Reconcile, GetKeySecret, RecheckPolicy, GenerateKey, GetVanityJob,
         MarkVanityFailed, ClearVanityFailed, PromoteVanityKey, DiscardVanityJob,
         Report, Fail, Goto
<1>12. CASE ApiError
  BY <1>2, <1>12 DEF ApiError, Fail
<1>13. CASE \/ HarvestFails \/ JobExpires \/ LoseKey
            \/ \E p \in Prefixes : OrphanEnds(p)
            \/ \E p \in AnyPrefix : SetPrefix(p)
            \/ SyncPolicy \/ SyncKey \/ SyncJob \/ SyncGateway
  BY <1>1, <1>13
     DEF HarvestFails, JobExpires, LoseKey, OrphanEnds, SetPrefix, SyncPolicy, SyncKey,
         SyncJob, SyncGateway, Deliver
<1> QED
  BY <1>1, <1>3, <1>4, <1>5, <1>6, <1>7, <1>8, <1>9, <1>11, <1>12, <1>13
     DEF Next, Step, HarvestEnds, Environment

\* Every variable keeps its type, a harvest has a prefix, and only a harvested
\* key is promoted.
THEOREM TypeCorrect == Spec => []TypeOK
<1>1. Init => TypeInv /\ HarvestedOK
  BY InitTypeInv, NoValues DEF Init, HarvestedOK
<1>2. TypeInv /\ HarvestedOK /\ [Next]_vars => TypeInv' /\ HarvestedOK'
  BY StepTypeInv, StepHarvestedOK
<1> QED
  BY <1>1, <1>2, TypePieces, PTL DEF Spec

\* RecheckPolicy, which asks the API server, is the only way to a random key.
LEMMA StepAskedOK ==
  ASSUME TypeInv, AskedOK, [Next]_vars
  PROVE  AskedOK'
<1> USE DEF AskedOK
<1>1. CASE UNCHANGED <<asked, prefix, await, pc>>
  BY <1>1
<1>2. CASE Return /\ UNCHANGED prefix
  BY <1>2, ReturnType
<1>3. CASE UNCHANGED <<asked, prefix>> /\ pc' # "generate"
  BY <1>3
<1>4. CASE RecheckPolicy
  BY <1>2, <1>3, <1>4 DEF RecheckPolicy, Report, Goto
<1>5. ASSUME NEW p \in AnyPrefix, SetPrefix(p) PROVE AskedOK'
  BY <1>5 DEF SetPrefix
<1>6. CASE Reconcile
  BY <1>6 DEF Reconcile, Goto
<1>7. CASE GetKeySecret \/ GenerateKey \/ EnsureVanityOutSecret \/ GetVanityJob
           \/ GetVanityOut \/ MarkVanityFailed \/ ClearVanityFailed \/ PromoteVanityKey
           \/ DiscardVanityOut \/ DiscardVanityJob
  BY <1>2, <1>3, <1>7
     DEF GetKeySecret, GenerateKey, EnsureVanityOutSecret, GetVanityJob, GetVanityOut,
         MarkVanityFailed, ClearVanityFailed, PromoteVanityKey, DiscardVanityOut,
         DiscardVanityJob, Report, Fail, Goto
<1>8. CASE ApiError \/ Restart
  BY <1>2, <1>8 DEF ApiError, Restart, Fail
<1>9. CASE \/ HarvestSucceeds \/ HarvestFails \/ JobExpires \/ LoseKey
           \/ \E p \in Prefixes : OrphanWrites(p) \/ OrphanEnds(p)
           \/ SyncPolicy \/ SyncKey \/ SyncOut \/ SyncJob \/ SyncGateway
  BY <1>1, <1>9
     DEF HarvestSucceeds, HarvestFails, JobExpires, LoseKey, OrphanWrites, OrphanEnds,
         SyncPolicy, SyncKey, SyncOut, SyncJob, SyncGateway, Deliver
<1> QED
  BY <1>1, <1>4, <1>5, <1>6, <1>7, <1>8, <1>9 DEF Next, Step, HarvestEnds, Environment

\* A step that puts a random key where there was none is GenerateKey: a
\* promoted key carries a prefix.
LEMMA RandomKeyGenerated ==
  ASSUME KeyInv, [Next]_vars, ~key.there, key' = KeyFor(NoPrefix)
  PROVE  ~await /\ asked = NoPrefix
<1>1. CASE GenerateKey
  BY <1>1 DEF GenerateKey, KeyInv, AskedOK
<1>2. CASE UNCHANGED key
  BY <1>2 DEF KeyFor
<1>3. CASE LoseKey
  BY <1>3 DEF LoseKey, KeyFor, Absent
<1>4. CASE PromoteVanityKey
  <2>1. PICK p \in Prefixes : lout = KeyFor(p)
    BY <1>4 DEF PromoteVanityKey, KeyInv, HarvestedOK, HarvestedType, Absent, Empty
  <2>2. key' # KeyFor(NoPrefix)
    BY <1>4, <2>1, PrefixAssumption DEF PromoteVanityKey, KeyFor, Fail
  <2> QED
    BY <2>2
<1> QED
  BY <1>1, <1>2, <1>3, <1>4
     DEF Next, Step, HarvestEnds, Environment, Reconcile, GetKeySecret, RecheckPolicy,
         EnsureVanityOutSecret, GetVanityJob, GetVanityOut, MarkVanityFailed,
         ClearVanityFailed, DiscardVanityOut, DiscardVanityJob, HarvestSucceeds,
         HarvestFails, OrphanWrites, OrphanEnds, JobExpires, ApiError, Restart, SetPrefix,
         SyncPolicy, SyncKey, SyncOut, SyncJob, SyncGateway, Deliver

\* A random key is never made for a Gateway that waits for a vanity policy, nor
\* for one whose policy asked for a prefix all through the reconcile, however
\* late the cache sees the policy.
THEOREM NoRandomKeyUnwanted == Spec => NoUnwantedRandomKey
<1>1. Init => KeyInv
  <2> SUFFICES ASSUME Init PROVE KeyInv
    OBVIOUS
  <2>1. HarvestedOK /\ AskedOK
    BY NoValues DEF Init, HarvestedOK, AskedOK
  <2> QED
    BY <2>1, InitTypeInv DEF KeyInv
<1>2. KeyInv /\ [Next]_vars => KeyInv'
  BY StepTypeInv, StepHarvestedOK, StepAskedOK DEF KeyInv
<1>3. KeyInv /\ [Next]_vars =>
        [~key.there /\ key' = KeyFor(NoPrefix) => ~await /\ asked = NoPrefix]_vars
  BY RandomKeyGenerated
<1> QED
  BY <1>1, <1>2, <1>3, PTL DEF Spec, NoUnwantedRandomKey
============================================================================
