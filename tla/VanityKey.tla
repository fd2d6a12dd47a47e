----------------------------- MODULE VanityKey -----------------------------
(***************************************************************************)
(* Where a Gateway's hidden-service key comes from: ensureKeySecret of     *)
(* internal/controller/gateway_controller.go and the vanity harvest of     *)
(* internal/controller/vanity.go, with the harvest Job's pod               *)
(* (cmd/vanity-finalize), the informers and the users around them.         *)
(*                                                                         *)
(* A step of the reconciler is one API call, or a run of cache reads that  *)
(* nothing can come between.  A variable named c... is the informer's copy *)
(* of the object, one named l... the copy the running Reconcile holds.     *)
(***************************************************************************)
EXTENDS Integers

CONSTANTS
  Prefixes,    \* the vanity prefixes users ask for
  NoPrefix,    \* no vanity prefix
  Lagging,     \* informers that may lag; the others deliver before anything else
  MaxEdits,    \* bound on user changes
  MaxFaults    \* bound on failed calls and manager restarts

ASSUME PrefixAssumption ==
  /\ NoPrefix \notin Prefixes
  /\ MaxEdits \in Nat /\ MaxFaults \in Nat

VARIABLES
  prefix, cprefix,   \* vanityPrefix of the effective TorServicePolicy
  await,             \* the Gateway carries torgateway.io/await-vanity=true
  key, ckey,         \* the key Secret: whether it is there, the prefix it carries
  out, cout, lout,   \* the harvest's output Secret and the prefix of its key
  job, cjob, ljob,   \* the harvest Job
  orphans,           \* prefixes of pods that outlive their Job or its deadline
  failed, cfailed, lfailed,  \* the Gateway's vanity-failed annotation
  pc, want,          \* where Reconcile is, and the prefix it harvests for
  prog,              \* reason of the Gateway's Programmed condition
  queued,            \* the Gateway is in the workqueue
  asked,             \* history: the prefix, if unchanged since Reconcile began
  edits, faults

apiVars   == <<prefix, await, key, out, job, failed, prog>>
cacheVars == <<cprefix, ckey, cout, cjob, cfailed>>
localVars == <<lout, ljob, lfailed, want, asked>>
vars == <<apiVars, cacheVars, localVars, orphans, pc, queued, edits, faults>>

AnyPrefix == Prefixes \cup {NoPrefix}

\* A Secret that is absent, one without a key, one with a key that carries a
\* prefix of Prefixes, or NoPrefix for a random key.
Absent == [there |-> FALSE, full |-> FALSE, onion |-> NoPrefix]
Empty  == [there |-> TRUE, full |-> FALSE, onion |-> NoPrefix]
KeyFor(p) == [there |-> TRUE, full |-> TRUE, onion |-> p]
SecretType == {Absent, Empty} \cup {KeyFor(p) : p \in AnyPrefix}

NoJob == [prefix |-> NoPrefix, state |-> "none"]
JobType == {NoJob} \cup [prefix : Prefixes, state : {"running", "done", "failed"}]

Init ==
  /\ prefix \in AnyPrefix /\ cprefix \in {NoPrefix, prefix}
  /\ await \in BOOLEAN
  /\ key = Absent /\ ckey = Absent
  /\ out = Absent /\ cout = Absent /\ lout = Absent
  /\ job = NoJob /\ cjob = NoJob /\ ljob = NoJob
  /\ orphans = {}
  /\ failed = NoPrefix /\ cfailed = NoPrefix /\ lfailed = NoPrefix
  /\ pc = "idle" /\ want = NoPrefix /\ prog = "Unknown"
  /\ queued = TRUE
  /\ asked = NoPrefix
  /\ edits = 0 /\ faults = 0

----------------------------------------------------------------------------
(***************************************************************************)
(* reconcileModeA up to and including ensureKeySecret.                     *)
(***************************************************************************)
Goto(l) == pc' = l

\* The reconcile returns; its copies are gone.
Return ==
  /\ Goto("idle")
  /\ lout' = Absent /\ ljob' = NoJob
  /\ lfailed' = NoPrefix /\ want' = NoPrefix /\ asked' = NoPrefix

\* setProgrammingCondition, or the rest of reconcileModeA for a key in hand.
Report(reason) == prog' = reason /\ Return

\* An error: the workqueue retries.
Fail ==
  /\ Return
  /\ queued' = TRUE

\* The Gateway and its effective policy, read from the cache.
Reconcile ==
  /\ pc = "idle" /\ queued
  /\ queued' = FALSE
  /\ want' = cprefix /\ lfailed' = cfailed
  /\ asked' = prefix
  /\ Goto("getKey")
  /\ UNCHANGED <<apiVars, cacheVars, lout, ljob, orphans, edits, faults>>

\* The cached key Secret decides: use it, harvest, or look for a policy again.
GetKeySecret ==
  /\ pc = "getKey"
  /\ \/ ckey.there /\ Report("Programmed")
     \/ /\ ~ckey.there
        /\ Goto(IF want # NoPrefix THEN "harvest" ELSE "recheck")
        /\ UNCHANGED <<localVars, prog>>
  /\ UNCHANGED <<prefix, await, key, out, job, failed, cacheVars, orphans, queued,
                 edits, faults>>

\* Mutant: the second look goes to the cache again (reader = r.Client).
RecheckCachedPolicy ==
  /\ pc = "recheck"
  /\ \/ /\ cprefix # NoPrefix
        /\ want' = cprefix
        /\ Goto("harvest")
        /\ UNCHANGED <<prog, lout, ljob, lfailed, asked>>
     \/ /\ cprefix = NoPrefix /\ await
        /\ Report("AwaitingVanityPolicy")
     \/ /\ cprefix = NoPrefix /\ ~await
        /\ Goto("generate")
        /\ UNCHANGED <<prog, localVars>>
  /\ UNCHANGED <<prefix, await, key, out, job, failed, cacheVars, orphans, queued,
                 edits, faults>>

\* effectivePolicyFrom(APIReader): before a random key, ask the API server.
RecheckPolicy ==
  /\ pc = "recheck"
  /\ \/ /\ prefix # NoPrefix
        /\ want' = prefix
        /\ Goto("harvest")
        /\ UNCHANGED <<prog, lout, ljob, lfailed, asked>>
     \/ /\ prefix = NoPrefix /\ await
        /\ Report("AwaitingVanityPolicy")
     \/ /\ prefix = NoPrefix /\ ~await
        /\ Goto("generate")
        /\ UNCHANGED <<prog, localVars>>
  /\ UNCHANGED <<prefix, await, key, out, job, failed, cacheVars, orphans, queued,
                 edits, faults>>

\* FreshKeyPair, then Create, which refuses to replace a Secret.
GenerateKey ==
  /\ pc = "generate"
  /\ \/ /\ ~key.there
        /\ key' = KeyFor(NoPrefix)
        /\ Report("Programmed")
        /\ UNCHANGED queued
     \/ key.there /\ Fail /\ UNCHANGED <<key, prog>>
  /\ UNCHANGED <<prefix, await, out, job, failed, cacheVars, orphans, edits,
                 faults>>

----------------------------------------------------------------------------
(***************************************************************************)
(* runVanityHarvest.                                                       *)
(***************************************************************************)
\* A failure recorded for this very prefix ends it; otherwise the RBAC and
\* the output Secret are ensured.
EnsureVanityOutSecret ==
  /\ pc = "harvest"
  /\ \/ /\ lfailed = want
        /\ Report("VanityHarvestFailed")
        /\ UNCHANGED <<out, queued>>
     \/ /\ lfailed # want /\ cout.there
        /\ Goto("getJob")
        /\ UNCHANGED <<out, prog, queued, localVars>>
     \/ /\ lfailed # want /\ ~cout.there /\ ~out.there
        /\ out' = Empty
        /\ Goto("getJob")
        /\ UNCHANGED <<prog, queued, localVars>>
     \/ /\ lfailed # want /\ ~cout.there /\ out.there
        /\ Fail
        /\ UNCHANGED <<out, prog>>
  /\ UNCHANGED <<prefix, await, key, job, failed, cacheVars, orphans, edits,
                 faults>>

\* The Job is gone, its pod only when Kubernetes gets to it.
DeleteVanityJob ==
  /\ job' = NoJob
  /\ orphans' = orphans \cup (IF job.state = "running" THEN {job.prefix} ELSE {})

\* No Job in the cache: createVanityJob.  A Job for another prefix: delete it,
\* whatever Job has the name by now, and forget the failure.
GetVanityJob ==
  /\ pc = "getJob"
  /\ \/ /\ cjob = NoJob /\ job = NoJob
        /\ job' = [prefix |-> want, state |-> "running"]
        /\ Report("VanityHarvestInProgress")
        /\ UNCHANGED <<orphans, queued>>
     \/ /\ cjob = NoJob /\ job # NoJob
        /\ Fail
        /\ UNCHANGED <<job, orphans, prog>>
     \/ /\ cjob # NoJob /\ cjob.prefix # want
        /\ DeleteVanityJob
        /\ Goto("clearFailed")
        /\ UNCHANGED <<prog, queued, localVars>>
     \/ /\ cjob # NoJob /\ cjob.prefix = want
        /\ ljob' = cjob
        /\ Goto("getOut")
        /\ UNCHANGED <<job, orphans, prog, queued, lout, lfailed, want, asked>>
  /\ UNCHANGED <<prefix, await, key, out, failed, cacheVars, edits, faults>>

\* Mutant: the output Secret is promoted as soon as it is there, without
\* vanityOutPopulated.
GetVanityOutUnpopulated ==
  /\ pc = "getOut"
  /\ \/ /\ cout.there
        /\ lout' = cout
        /\ Goto("promote")
        /\ UNCHANGED <<queued, ljob, lfailed, want, asked>>
     \/ ~cout.there /\ Fail
  /\ UNCHANGED <<prefix, await, key, out, job, failed, prog, cacheVars, orphans,
                 edits, faults>>

\* vanityOutPopulated, else jobFailed, else pending.
GetVanityOut ==
  /\ pc = "getOut"
  /\ \/ /\ cout.full
        /\ lout' = cout
        /\ Goto("promote")
        /\ UNCHANGED <<prog, queued, ljob, lfailed, want, asked>>
     \/ ~cout.there /\ Fail /\ UNCHANGED prog
     \/ /\ cout = Empty /\ ljob.state = "failed"
        /\ Goto("markFailed")
        /\ UNCHANGED <<prog, queued, localVars>>
     \/ /\ cout = Empty /\ ljob.state # "failed"
        /\ Report("VanityHarvestInProgress")
        /\ UNCHANGED queued
  /\ UNCHANGED <<prefix, await, key, out, job, failed, cacheVars, orphans,
                 edits, faults>>

\* Mutant: the failure is reported but not recorded.
ReportVanityFailed ==
  /\ pc = "markFailed"
  /\ Report("VanityHarvestFailed")
  /\ UNCHANGED <<prefix, await, key, out, job, failed, cacheVars, orphans, queued,
                 edits, faults>>

\* The annotation patch carries no resourceVersion: it never conflicts.
MarkVanityFailed ==
  /\ pc = "markFailed"
  /\ failed' = want
  /\ Report("VanityHarvestFailed")
  /\ UNCHANGED <<prefix, await, key, out, job, cacheVars, orphans, queued, edits,
                 faults>>

ClearVanityFailed ==
  /\ pc = "clearFailed"
  /\ failed' = IF lfailed = NoPrefix THEN failed ELSE NoPrefix
  /\ Report("VanityHarvestInProgress")
  /\ UNCHANGED <<prefix, await, key, out, job, cacheVars, orphans, queued,
                 edits, faults>>

\* Mutant: the key is written with CreateOrUpdate.
OverwriteVanityKey ==
  /\ pc = "promote"
  /\ key' = lout
  /\ Goto("discardOut")
  /\ UNCHANGED <<prefix, await, out, job, failed, prog, cacheVars, localVars,
                 orphans, queued, edits, faults>>

\* promoteVanityKey: the harvested key becomes the Gateway's key.
PromoteVanityKey ==
  /\ pc = "promote"
  /\ \/ /\ ~key.there
        /\ key' = lout
        /\ Goto("discardOut")
        /\ UNCHANGED <<queued, localVars>>
     \/ key.there /\ Fail /\ UNCHANGED key
  /\ UNCHANGED <<prefix, await, out, job, failed, prog, cacheVars, orphans,
                 edits, faults>>

\* Best effort: each of the three calls may fail and is then forgotten.
DiscardVanityOut ==
  /\ pc = "discardOut"
  /\ out' \in {Absent, out}
  /\ Goto("discardJob")
  /\ UNCHANGED <<prefix, await, key, job, failed, prog, cacheVars, localVars,
                 orphans, queued, edits, faults>>

DiscardVanityJob ==
  /\ pc = "discardJob"
  /\ DeleteVanityJob \/ UNCHANGED <<job, orphans>>
  /\ failed' \in {failed, IF lfailed = NoPrefix THEN failed ELSE NoPrefix}
  /\ Report("Programmed")
  /\ UNCHANGED <<prefix, await, key, out, cacheVars, queued, edits, faults>>

----------------------------------------------------------------------------
(***************************************************************************)
(* The harvest Job.  backoffLimit 0: one pod.  The finalize container      *)
(* updates the output Secret and fails if it is gone or changes under it.  *)
(***************************************************************************)
envUnchanged == <<prefix, await, key, failed, prog, cacheVars, localVars, pc, queued,
                 edits, faults>>

HarvestSucceeds ==
  /\ job.state = "running" /\ out.there
  /\ out' = KeyFor(job.prefix)
  /\ job' = [job EXCEPT !.state = "done"]
  /\ UNCHANGED <<orphans, envUnchanged>>

\* The pod fails, or the deadline passes and the pod is told to stop.
HarvestFails ==
  /\ job.state = "running"
  /\ job' = [job EXCEPT !.state = "failed"]
  /\ orphans' \in {orphans, orphans \cup {job.prefix}}
  /\ UNCHANGED <<out, envUnchanged>>

\* A pod that outlived its Job writes what it found, or ends.
OrphanWrites(p) ==
  /\ p \in orphans /\ out.there
  /\ out' = KeyFor(p)
  /\ orphans' = orphans \ {p}
  /\ UNCHANGED <<job, envUnchanged>>

OrphanEnds(p) ==
  /\ p \in orphans
  /\ orphans' = orphans \ {p}
  /\ UNCHANGED <<job, out, envUnchanged>>

\* ttlSecondsAfterFinished: an hour later everyone has long seen the outcome.
JobExpires ==
  /\ job.state \in {"done", "failed"}
  /\ pc = "idle" /\ ~queued /\ cjob = job /\ cfailed = failed /\ cout = out
  /\ job' = NoJob
  /\ UNCHANGED <<out, orphans, envUnchanged>>

----------------------------------------------------------------------------
(***************************************************************************)
(* Informers, faults, users.                                               *)
(***************************************************************************)
Deliver ==
  /\ queued' = TRUE
  /\ UNCHANGED <<apiVars, localVars, orphans, pc, edits, faults>>

SyncPolicy ==
  /\ cprefix # prefix /\ cprefix' = prefix
  /\ Deliver /\ UNCHANGED <<ckey, cout, cjob, cfailed>>

SyncKey ==
  /\ ckey # key /\ ckey' = key
  /\ Deliver /\ UNCHANGED <<cprefix, cout, cjob, cfailed>>

SyncOut ==
  /\ cout # out /\ cout' = out
  /\ Deliver /\ UNCHANGED <<cprefix, ckey, cjob, cfailed>>

SyncJob ==
  /\ cjob # job /\ cjob' = job
  /\ Deliver /\ UNCHANGED <<cprefix, ckey, cout, cfailed>>

SyncGateway ==
  /\ cfailed # failed /\ cfailed' = failed
  /\ Deliver /\ UNCHANGED <<cprefix, ckey, cout, cjob>>

ApiError ==
  /\ pc # "idle" /\ faults < MaxFaults
  /\ faults' = faults + 1
  /\ Fail
  /\ UNCHANGED <<apiVars, cacheVars, orphans, edits>>

Restart ==
  /\ faults < MaxFaults
  /\ faults' = faults + 1
  /\ Fail
  /\ cprefix' = prefix /\ ckey' = key /\ cout' = out /\ cjob' = job
  /\ cfailed' = failed
  /\ UNCHANGED <<apiVars, orphans, edits>>

\* Users change the policy, or lose the key Secret.  If the cache happens to
\* hold the new state already, the events it has yet to see still queue.
SetPrefix(p) ==
  /\ edits < MaxEdits /\ p # prefix
  /\ edits' = edits + 1
  /\ prefix' = p
  /\ asked' = NoPrefix
  /\ queued' = (queued \/ cprefix = p)
  /\ UNCHANGED <<await, key, out, job, failed, prog, cacheVars, lout, ljob, lfailed,
                 want, orphans, pc, faults>>

LoseKey ==
  /\ edits < MaxEdits /\ key.there
  /\ edits' = edits + 1
  /\ key' = Absent
  /\ queued' = (queued \/ ckey = Absent)
  /\ UNCHANGED <<prefix, await, out, job, failed, prog, cacheVars, localVars,
                 orphans, pc, faults>>

----------------------------------------------------------------------------
Prompt ==
  /\ "policy" \in Lagging \/ cprefix = prefix
  /\ "keys" \in Lagging \/ ckey = key
  /\ "out" \in Lagging \/ cout = out
  /\ "job" \in Lagging \/ cjob = job
  /\ "gateway" \in Lagging \/ cfailed = failed

Step ==
  /\ Prompt
  /\ \/ Reconcile \/ GetKeySecret \/ RecheckPolicy \/ GenerateKey
     \/ EnsureVanityOutSecret \/ GetVanityJob \/ GetVanityOut
     \/ MarkVanityFailed \/ ClearVanityFailed
     \/ PromoteVanityKey \/ DiscardVanityOut \/ DiscardVanityJob

HarvestEnds == Prompt /\ (HarvestSucceeds \/ HarvestFails)

Environment ==
  /\ Prompt
  /\ \/ JobExpires \/ ApiError \/ Restart \/ LoseKey
     \/ \E p \in Prefixes : OrphanWrites(p) \/ OrphanEnds(p)
     \/ \E p \in AnyPrefix : SetPrefix(p)

Next ==
  \/ Step \/ HarvestEnds \/ Environment
  \/ SyncPolicy \/ SyncKey \/ SyncOut \/ SyncJob \/ SyncGateway

Spec == Init /\ [][Next]_vars

\* The worker and the informers make progress, and the Job ends: its deadline
\* and its TTL see to that.
Fairness ==
  /\ WF_vars(Step)
  /\ WF_vars(SyncPolicy) /\ WF_vars(SyncKey) /\ WF_vars(SyncOut)
  /\ WF_vars(SyncJob) /\ WF_vars(SyncGateway)
  /\ WF_vars(HarvestEnds) /\ WF_vars(Prompt /\ JobExpires)

FairSpec == Spec /\ Fairness

----------------------------------------------------------------------------
\* Every variable has its type, runVanityHarvest works for a prefix, and
\* promoteVanityKey is given a key that was harvested.
TypeOK ==
  /\ {prefix, cprefix, want, failed, cfailed, lfailed, asked} \subseteq AnyPrefix
  /\ {key, ckey, out, cout, lout} \subseteq SecretType
  /\ {job, cjob, ljob} \subseteq JobType
  /\ orphans \subseteq Prefixes
  /\ pc \in {"idle", "getKey", "recheck", "generate", "harvest", "getJob", "getOut",
             "markFailed", "clearFailed", "promote", "discardOut", "discardJob"}
  /\ {await, queued} \subseteq BOOLEAN
  /\ pc \in {"harvest", "getJob", "getOut", "markFailed", "clearFailed", "promote"}
       => want \in Prefixes
  /\ pc = "promote" => lout \in {KeyFor(p) : p \in Prefixes}
  /\ edits \in 0 .. MaxEdits /\ faults \in 0 .. MaxFaults

\* The reconciler never replaces or removes a hidden-service key: only users
\* lose one, however stale the caches are when it decides to create one.
KeyNeverReplaced ==
  [][key.there /\ edits' = edits => key' = key]_vars

\* A random key is never generated for a Gateway that waits for a vanity
\* policy, nor for one whose policy asked for a prefix all through the
\* reconcile, even if the cache has not seen the policy ("a same-apply vanity
\* policy is honored").
NoUnwantedRandomKey ==
  [][~key.there /\ key' = KeyFor(NoPrefix) => ~await /\ asked = NoPrefix]_vars

\* What an undisturbed Gateway settles to.
Resolved ==
  IF key.there THEN prog = "Programmed"
  ELSE IF prefix = NoPrefix THEN await /\ prog = "AwaitingVanityPolicy"
  ELSE failed = prefix /\ prog = "VanityHarvestFailed"

\* When users stop editing, the Gateway gets a key, or says what it waits for
\* or why there is none; it does not stay "harvest in progress", and a prefix
\* that failed is not mined again ("avoids an hourly loop once the Job's TTL
\* GCs it").
HarvestResolves == <>[]Resolved

\* The promoted key carries the prefix that was asked for: "a hidden-service
\* key whose .onion carries that prefix".
PromotedKeyHasPrefix ==
  [][~key.there /\ key'.there /\ key' # KeyFor(NoPrefix) => key' = KeyFor(want)]_vars
============================================================================
