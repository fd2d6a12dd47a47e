----------------------------- MODULE Refresher -----------------------------
(***************************************************************************)
(* The obrefresh sidecar of a Mode B frontend pod                          *)
(* (internal/onionbalance/refresher.go, cmd/obrefresh/main.go): it watches *)
(* the backend Secrets, debounces their events with a timer, rewrites      *)
(* onionbalance's config.yaml, signals the daemon, and touches the file    *)
(* its own liveness probe reads.                                           *)
(*                                                                         *)
(* Run's first rebuild and each fired timer are goroutines of their own:   *)
(* nothing keeps two rebuilds apart, r.mu is not held while they work.     *)
(* config.yaml and the health file are in emptyDir volumes and survive a   *)
(* restart of the container.                                               *)
(***************************************************************************)
EXTENDS Integers, FiniteSets

CONSTANTS
  Backends,    \* the backends' Secrets
  Fires,       \* slots for goroutines of fired timers
  MaxEdits,    \* bound on changes of the Secrets
  MaxFaults    \* bound on failed writes and on crashes

ASSUME RefresherAssumption ==
  /\ IsFiniteSet(Backends)
  /\ "run" \notin Fires
  /\ MaxEdits \in Nat /\ MaxFaults \in Nat

VARIABLES
  secrets,         \* the Secrets the selector matches, in the API
  store,           \* the informer's copy
  phase,           \* how far Run is
  notices,         \* handler calls the informer still owes
  timer, pending,  \* of the Refresher
  work,            \* the rebuild each goroutine is at
  config,          \* the instances in config.yaml; none if there is no file
  fresh,           \* the health file is younger than twice the interval
  daemon, loaded,  \* onionbalance, and the instances it serves
  hup,             \* a SIGHUP it has not handled yet
  succeeded,       \* history: the latest finished rebuild reached its end
  overlap,         \* history: the latest rebuild began during another
  ever,            \* history: the backends that have been ready
  edits, faults

podVars   == <<config, fresh>>
obVars    == <<daemon, loaded, hup>>
timerVars == <<timer, pending>>
history   == <<succeeded, overlap>>
userVars  == <<ever, edits>>
vars == <<secrets, store, phase, notices, timerVars, work, podVars, obVars,
          history, userVars, faults>>

Slots == {"run"} \cup Fires

\* "bare" has no hostname; "planted" has labels and a hostname, but the
\* Gateway is not its controller.
SecretState == {"none", "bare", "ready", "planted"}

Pcs == {"idle", "list", "write", "signal", "health", "done"}
Idle == [pc |-> "idle", list |-> {}, again |-> FALSE]

\* The instances the Gateway should have: Secrets it controls, with a hostname.
Wanted(objs) == {b \in DOMAIN objs : objs[b] = "ready"}

Init ==
  /\ secrets \in [Backends -> {"none", "ready"}]
  /\ store = [b \in Backends |-> "none"]
  /\ phase = "start" /\ notices = 0
  /\ timer = FALSE /\ pending = FALSE
  /\ work = [s \in Slots |-> Idle]
  /\ config = {} /\ fresh = FALSE
  /\ daemon = "waiting" /\ loaded = {} /\ hup = FALSE
  /\ succeeded = FALSE /\ overlap = FALSE
  /\ ever = Wanted(secrets)
  /\ edits = 0 /\ faults = 0

----------------------------------------------------------------------------
(***************************************************************************)
(* The informer and Run.                                                   *)
(***************************************************************************)

\* The informer's first list; every Secret in it is an AddFunc call.
Sync ==
  /\ phase = "start"
  /\ store' = secrets
  /\ notices' = Cardinality({b \in Backends : secrets[b] # "none"})
  /\ phase' = "synced"
  /\ UNCHANGED <<secrets, timerVars, work, podVars, obVars, history, userVars, faults>>

\* A watch event reaches the store; its handler is called later.
Watch(b) ==
  /\ phase # "start"
  /\ store[b] # secrets[b]
  /\ store' = [store EXCEPT ![b] = secrets[b]]
  /\ notices' = notices + 1
  /\ UNCHANGED <<secrets, phase, timerVars, work, podVars, obVars, history, userVars, faults>>

\* Run sets r.store and goes on to the initial rebuild.
SetStore ==
  /\ phase = "synced"
  /\ phase' = "running"
  /\ work' = [work EXCEPT !["run"].pc = "list"]
  /\ UNCHANGED <<secrets, store, notices, timerVars, podVars, obVars, history, userVars, faults>>

----------------------------------------------------------------------------
(***************************************************************************)
(* schedule and fire.                                                      *)
(***************************************************************************)
Schedule ==
  /\ timer' = TRUE
  /\ pending' = (pending \/ timer)

\* AddFunc, UpdateFunc or DeleteFunc.
Notify ==
  /\ notices > 0
  /\ notices' = notices - 1
  /\ Schedule
  /\ UNCHANGED <<secrets, store, phase, work, podVars, obVars, history, userVars, faults>>

\* Mutant: pending is read but not reset.
FireKeepingPending(s) ==
  /\ timer /\ work[s].pc = "idle"
  /\ timer' = FALSE
  /\ work' = [work EXCEPT ![s] =
       [pc    |-> IF phase = "running" THEN "list" ELSE "done",
        list  |-> {},
        again |-> pending]]
  /\ UNCHANGED <<secrets, store, phase, notices, pending, podVars, obVars, history, userVars, faults>>

\* fire up to its call of rebuild; the store is nil until SetStore.
Fire(s) ==
  /\ timer /\ work[s].pc = "idle"
  /\ timer' = FALSE /\ pending' = FALSE
  /\ work' = [work EXCEPT ![s] =
       [pc    |-> IF phase = "running" THEN "list" ELSE "done",
        list  |-> {},
        again |-> pending]]
  /\ UNCHANGED <<secrets, store, phase, notices, podVars, obVars, history, userVars, faults>>

\* The goroutine ends; fire first schedules again if it found pending set.
Finish(s) ==
  /\ work[s].pc = "done"
  /\ work' = [work EXCEPT ![s] = Idle]
  /\ IF work[s].again THEN Schedule ELSE UNCHANGED timerVars
  /\ UNCHANGED <<secrets, store, phase, notices, podVars, obVars, history, userVars, faults>>

----------------------------------------------------------------------------
(***************************************************************************)
(* rebuild.                                                                *)
(***************************************************************************)
\* The list is of no use after the write.
Goto(s, l) == work' = [work EXCEPT ![s].pc = l, ![s].list = {}]

Fails(s) ==
  /\ Goto(s, "done")
  /\ succeeded' = FALSE

Fault ==
  /\ faults < MaxFaults
  /\ faults' = faults + 1

\* Mutant: the controller reference is not checked.
BackendsFromAnySecrets(objs) == {b \in Backends : objs[b] \in {"ready", "planted"}}

\* The owner label, the controller reference and the hostname are checked.
BackendsFromSecrets(objs) == {b \in Backends : objs[b] = "ready"}

\* store.List and the rendering of config.yaml, which cannot fail: NewRefresher
\* has refused an empty key path.
List(s) ==
  /\ work[s].pc = "list"
  /\ work' = [work EXCEPT ![s].pc = "write", ![s].list = BackendsFromSecrets(store)]
  /\ overlap' = \E t \in Slots \ {s} : work[t].pc \in {"write", "signal", "health"}
  /\ UNCHANGED <<secrets, store, phase, notices, timerVars, podVars, obVars, succeeded, userVars, faults>>

\* Mutant: rebuild returns early when there is no backend.
WriteSkippingEmpty(s) ==
  /\ work[s].pc = "write"
  /\ \/ /\ work[s].list = {}
        /\ Goto(s, "done")
        /\ UNCHANGED <<config, succeeded, faults>>
     \/ /\ work[s].list # {}
        /\ config' = work[s].list
        /\ Goto(s, "signal")
        /\ UNCHANGED <<succeeded, faults>>
  /\ UNCHANGED <<secrets, store, phase, notices, timerVars, fresh, obVars, overlap, userVars>>

\* atomicWrite.
Write(s) ==
  /\ work[s].pc = "write"
  /\ \/ /\ config' = work[s].list
        /\ Goto(s, "signal")
        /\ UNCHANGED <<succeeded, faults>>
     \/ /\ Fault
        /\ Fails(s)
        /\ UNCHANGED config
  /\ UNCHANGED <<secrets, store, phase, notices, timerVars, fresh, obVars, overlap, userVars>>

\* Mutant: the error of sighupPID is ignored.
SignalAndForget(s) ==
  /\ work[s].pc = "signal"
  /\ hup' = (hup \/ daemon = "running")
  /\ Goto(s, "health")
  /\ UNCHANGED <<secrets, store, phase, notices, timerVars, podVars, daemon, loaded, history, userVars, faults>>

\* sighupPID: the signal arrives only if the pidfile names a live daemon.
Signal(s) ==
  /\ work[s].pc = "signal"
  /\ \/ /\ daemon = "running"
        /\ hup' = TRUE
        /\ Goto(s, "health")
        /\ UNCHANGED succeeded
     \/ /\ daemon # "running"
        /\ Fails(s)
        /\ UNCHANGED hup
  /\ UNCHANGED <<secrets, store, phase, notices, timerVars, podVars, daemon, loaded, overlap, userVars, faults>>

\* The health file; a failure to write it is only logged.
Health(s) ==
  /\ work[s].pc = "health"
  /\ Goto(s, "done")
  /\ succeeded' = TRUE
  /\ \/ fresh' = TRUE /\ UNCHANGED faults
     \/ Fault /\ UNCHANGED fresh
  /\ UNCHANGED <<secrets, store, phase, notices, timerVars, config, obVars, overlap, userVars>>

Rebuild(s) == List(s) \/ Write(s) \/ Signal(s) \/ Health(s) \/ Finish(s)

----------------------------------------------------------------------------
(***************************************************************************)
(* The container: a new process knows nothing of the old one.              *)
(***************************************************************************)
Restart ==
  /\ store' = [b \in Backends |-> "none"]
  /\ phase' = "start" /\ notices' = 0
  /\ timer' = FALSE /\ pending' = FALSE
  /\ work' = [s \in Slots |-> Idle]
  /\ succeeded' = FALSE /\ overlap' = FALSE
  /\ UNCHANGED <<secrets, podVars, obVars, userVars>>

\* Time passes: runHealthcheck would now find the file too old.
HealthExpires ==
  /\ fresh
  /\ fresh' = FALSE
  /\ UNCHANGED <<secrets, store, phase, notices, timerVars, work, config, obVars, history, userVars, faults>>

\* The kubelet restarts the container when --healthcheck keeps failing.  Its
\* initial delay and three periods are longer than Run takes to start.
Probe ==
  /\ phase = "running" /\ work["run"].pc = "idle"
  /\ ~fresh
  /\ Restart
  /\ UNCHANGED faults

Crash ==
  /\ Fault
  /\ Restart

----------------------------------------------------------------------------
(***************************************************************************)
(* The onionbalance container, as obrefresh and its entrypoint rely on it. *)
(***************************************************************************)

\* The entrypoint has seen an instance in config.yaml; onionbalance reads it.
DaemonLoads ==
  /\ daemon = "waiting" /\ config # {}
  /\ daemon' = "loading" /\ loaded' = config
  /\ UNCHANGED <<secrets, store, phase, notices, timerVars, work, podVars, hup, history, userVars, faults>>

\* The pidfile is there.
DaemonReady ==
  /\ daemon = "loading"
  /\ daemon' = "running"
  /\ UNCHANGED <<secrets, store, phase, notices, timerVars, work, podVars, loaded, hup, history, userVars, faults>>

\* On SIGHUP it reads config.yaml again; without instances it may give up.
Reload ==
  /\ daemon = "running" /\ hup
  /\ hup' = FALSE
  /\ loaded' = config
  /\ \/ UNCHANGED daemon
     \/ config = {} /\ daemon' = "waiting"
  /\ UNCHANGED <<secrets, store, phase, notices, timerVars, work, podVars, history, userVars, faults>>

DaemonDies ==
  /\ Fault
  /\ daemon # "waiting"
  /\ daemon' = "waiting" /\ loaded' = {} /\ hup' = FALSE
  /\ UNCHANGED <<secrets, store, phase, notices, timerVars, work, podVars, history, userVars>>

----------------------------------------------------------------------------
(***************************************************************************)
(* The Secrets: the operator creates one with its hostname, adopts or      *)
(* collects one; users may plant one or take its hostname away.            *)
(***************************************************************************)
Edit(b) ==
  /\ edits < MaxEdits
  /\ edits' = edits + 1
  /\ \E st \in SecretState \ {secrets[b]} :
       /\ secrets' = [secrets EXCEPT ![b] = st]
       /\ ever' = ever \cup Wanted(secrets')
  /\ UNCHANGED <<store, phase, notices, timerVars, work, podVars, obVars, history, faults>>

----------------------------------------------------------------------------
Next ==
  \/ Sync
  \/ \E b \in Backends : Watch(b)
  \/ SetStore
  \/ Notify
  \/ \E s \in Fires : Fire(s)
  \/ \E s \in Slots : List(s)
  \/ \E s \in Slots : Write(s)
  \/ \E s \in Slots : Signal(s)
  \/ \E s \in Slots : Health(s)
  \/ \E s \in Slots : Finish(s)
  \/ HealthExpires
  \/ Probe
  \/ Crash
  \/ DaemonLoads
  \/ DaemonReady
  \/ Reload
  \/ DaemonDies
  \/ \E b \in Backends : Edit(b)

Spec == Init /\ [][Next]_vars

\* The informer, every goroutine, the kubelet and onionbalance go on; crashes,
\* failed writes and changes of the Secrets need not happen.
Fairness ==
  /\ WF_vars(Sync) /\ \A b \in Backends : WF_vars(Watch(b))
  /\ WF_vars(SetStore) /\ WF_vars(Notify)
  /\ WF_vars(\E s \in Fires : Fire(s))
  /\ \A s \in Slots : WF_vars(Rebuild(s))
  /\ WF_vars(HealthExpires) /\ WF_vars(Probe)
  /\ WF_vars(DaemonLoads) /\ WF_vars(DaemonReady) /\ WF_vars(Reload)

FairSpec == Spec /\ Fairness

----------------------------------------------------------------------------
(***************************************************************************)
(* Properties.                                                             *)
(***************************************************************************)

\* Every variable has its type, and pending is set only while a timer runs:
\* schedule sets it beside a timer, fire clears both under one lock.
TypeOK ==
  /\ secrets \in [Backends -> SecretState] /\ store \in [Backends -> SecretState]
  /\ phase \in {"start", "synced", "running"}
  /\ notices \in Nat
  /\ timer \in BOOLEAN /\ pending \in BOOLEAN
  /\ pending => timer
  /\ work \in [Slots -> [pc : Pcs, list : SUBSET Backends, again : BOOLEAN]]
  /\ config \subseteq Backends /\ fresh \in BOOLEAN
  /\ daemon \in {"waiting", "loading", "running"}
  /\ loaded \subseteq Backends /\ hup \in BOOLEAN
  /\ succeeded \in BOOLEAN /\ overlap \in BOOLEAN
  /\ ever \subseteq Backends
  /\ edits \in 0 .. MaxEdits /\ faults \in 0 .. MaxFaults

\* Run waits for the end, and nothing is owed, timed or under way.
Quiet ==
  /\ phase = "running"
  /\ notices = 0 /\ ~timer
  /\ \A s \in Slots : work[s].pc = "idle"

\* When the refresher rests after a rebuild that reached its end and ran by
\* itself, config.yaml holds what the informer holds, and a running daemon
\* serves it or has the signal to.
InSync ==
  Quiet /\ succeeded /\ ~overlap =>
    /\ config = Wanted(store)
    /\ daemon = "running" => hup \/ loaded = config

\* Whatever events coincide, rebuilds overlap and signals are lost, config.yaml
\* comes to hold the backends there are, and the daemon to serve them.  A
\* failed rebuild is not retried and the last of two overlapping writes stays:
\* it is the restarts by the liveness probe that repair both.
Heals ==
  <>[](/\ config = Wanted(secrets)
       /\ config # {} => daemon = "running" /\ loaded = config)

\* The promise of BackendPool, with what the API holds as the ready backends and
\* what the daemon has loaded as the announced ones.
Pool == INSTANCE BackendPool WITH ready <- Wanted(secrets), served <- loaded

\* The refresher and the daemon implement that promise: a Secret that was never
\* the Gateway's, or never had a hostname, is announced by no interleaving, and
\* in the end the daemon announces the ready backends, none included.
ImplementsPool == Pool!Spec

\* The liveness probe leaves alone a refresher whose rebuild succeeded and
\* which has nothing to do: its window covers the write cadence.
NoSpuriousRestart ==
  [][Probe => ~(Quiet /\ succeeded /\ store = secrets)]_vars
============================================================================
