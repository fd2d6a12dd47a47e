-------------------------- MODULE RefresherProofs --------------------------
(***************************************************************************)
(* Proofs about Refresher, for every finite set of backends, any number of *)
(* concurrent timer goroutines, changes of the Secrets and faults.         *)
(***************************************************************************)
EXTENDS Refresher, FiniteSetTheorems, TLAPS

(***************************************************************************)
(* The inductive invariants.                                               *)
(***************************************************************************)

\* Goroutine s is between its List and the end of its rebuild.
Active(s) == work[s].pc \in {"write", "signal", "health"}

\* A rebuild that will list the store is on its way: Run has not come to its
\* first one, an event or a timer is outstanding, or a goroutine is about to.
Behind ==
  \/ phase # "running"
  \/ notices > 0 \/ timer
  \/ \E s \in Slots : work[s].pc = "list"

\* The daemon has read config.yaml as it is, or has the signal to.
Served == daemon # "waiting" => hup \/ loaded = config

\* If the latest rebuild began alone, it is the only one that can be active.
Alone ==
  ~overlap => \A s, t \in Slots : Active(s) /\ Active(t) => s = t

\* If no rebuild is on its way, the latest one listed the store as it is: its
\* list, the file it wrote and the signal it sent are current, and they still
\* are when it has reached its end.
Current ==
  ~overlap /\ ~Behind =>
    /\ \A s \in Slots :
         /\ work[s].pc = "write" => work[s].list = Wanted(store)
         /\ work[s].pc \in {"signal", "health"} => config = Wanted(store)
         /\ work[s].pc = "health" => Served
    /\ (\A s \in Slots : ~Active(s)) /\ succeeded => config = Wanted(store) /\ Served

SyncInv == TypeOK /\ Alone /\ Current

\* Whatever holds instances holds only backends that have been ready.
KnownInv ==
  /\ TypeOK
  /\ Wanted(secrets) \subseteq ever /\ Wanted(store) \subseteq ever
  /\ \A s \in Slots : work[s].list \subseteq ever
  /\ config \subseteq ever /\ loaded \subseteq ever

WorkType == [pc : Pcs, list : SUBSET Backends, again : BOOLEAN]

USE DEF vars, podVars, obVars, timerVars, history, userVars

(***************************************************************************)
(* Types.                                                                  *)
(***************************************************************************)

\* The instances rebuild finds are the wanted ones, and they are backends.
LEMMA ListIsWanted ==
  ASSUME NEW objs \in [Backends -> SecretState]
  PROVE  BackendsFromSecrets(objs) = Wanted(objs) /\ Wanted(objs) \subseteq Backends
BY DEF BackendsFromSecrets, Wanted

\* A goroutine that moves on changes its own place only, and drops its list.
LEMMA GotoWork ==
  ASSUME work \in [Slots -> WorkType], NEW s \in Slots, NEW l \in Pcs, Goto(s, l)
  PROVE  /\ work' \in [Slots -> WorkType]
         /\ work'[s].pc = l /\ work'[s].list = {}
         /\ \A t \in Slots \ {s} : work'[t] = work[t]
BY DEF Goto, WorkType

\* schedule leaves a timer running.
LEMMA ScheduleType ==
  ASSUME timer \in BOOLEAN, pending \in BOOLEAN, Schedule
  PROVE  timer' /\ timer' \in BOOLEAN /\ pending' \in BOOLEAN
BY DEF Schedule

\* A fault stays within the bound.
LEMMA FaultType ==
  ASSUME TypeOK, Fault
  PROVE  faults' \in 0 .. MaxFaults
BY RefresherAssumption DEF Fault, TypeOK

\* A new process starts with well-typed state.
LEMMA RestartType ==
  ASSUME TypeOK, Restart, faults' \in 0 .. MaxFaults
  PROVE  TypeOK'
<1>1. Idle \in WorkType
  BY DEF Idle, WorkType, Pcs
<1>2. work' \in [Slots -> WorkType] /\ store' \in [Backends -> SecretState]
  BY <1>1 DEF Restart, SecretState
<1> QED
  BY <1>2 DEF Restart, TypeOK, WorkType

\* The initial state is well typed.
LEMMA InitTypeOK == Init => TypeOK
<1> SUFFICES ASSUME Init PROVE TypeOK
  OBVIOUS
<1>1. Idle \in WorkType
  BY DEF Idle, WorkType, Pcs
<1>2. work \in [Slots -> WorkType]
  BY <1>1 DEF Init
<1>3. secrets \in [Backends -> SecretState] /\ store \in [Backends -> SecretState]
  BY DEF Init, SecretState
<1>4. ever \subseteq Backends
  BY <1>3, ListIsWanted DEF Init
<1>5. notices \in Nat /\ edits \in 0 .. MaxEdits /\ faults \in 0 .. MaxFaults
  BY RefresherAssumption DEF Init
<1> QED
  BY <1>2, <1>3, <1>4, <1>5 DEF Init, TypeOK, WorkType

\* Every step keeps the types, and pending is set beside a timer only.
LEMMA StepTypeOK == TypeOK /\ [Next]_vars => TypeOK'
<1> SUFFICES ASSUME TypeOK, [Next]_vars PROVE TypeOK'
  OBVIOUS
<1>0. /\ work \in [Slots -> WorkType]
      /\ store \in [Backends -> SecretState] /\ secrets \in [Backends -> SecretState]
      /\ "run" \in Slots /\ \A s \in Fires : s \in Slots
  BY DEF TypeOK, WorkType, Slots
<1>1. CASE Sync
  <2> DEFINE there == {b \in Backends : secrets[b] # "none"}
  <2>1. Cardinality(there) \in Nat
    BY RefresherAssumption, FS_Subset, FS_CardinalityType
  <2> QED
    BY <1>1, <2>1 DEF Sync, TypeOK
<1>2. ASSUME NEW b \in Backends, Watch(b) PROVE TypeOK'
  BY <1>2 DEF Watch, TypeOK
<1>3. CASE SetStore
  <2>1. work' \in [Slots -> WorkType]
    BY <1>0, <1>3 DEF SetStore, WorkType, Pcs
  <2> QED
    BY <1>3, <2>1 DEF SetStore, TypeOK, WorkType
<1>4. CASE Notify
  BY <1>4, ScheduleType DEF Notify, TypeOK
<1>5. ASSUME NEW s \in Fires, Fire(s) PROVE TypeOK'
  <2> DEFINE w == [pc    |-> IF phase = "running" THEN "list" ELSE "done",
                   list  |-> {},
                   again |-> pending]
  <2>1. w \in WorkType
    BY DEF TypeOK, WorkType, Pcs
  <2>2. work' = [work EXCEPT ![s] = w]
    BY <1>5 DEF Fire
  <2> HIDE DEF w
  <2>3. work' \in [Slots -> WorkType]
    BY <1>0, <2>1, <2>2
  <2> QED
    BY <1>5, <2>3 DEF Fire, TypeOK, WorkType
<1>6. ASSUME NEW s \in Slots, List(s) PROVE TypeOK'
  <2>1. work' \in [Slots -> WorkType]
    BY <1>0, <1>6, ListIsWanted DEF List, WorkType, Pcs
  <2>2. overlap' \in BOOLEAN
    BY <1>6 DEF List
  <2> QED
    BY <1>6, <2>1, <2>2 DEF List, TypeOK, WorkType
<1>7. ASSUME NEW s \in Slots, Write(s) PROVE TypeOK'
  <2>1. config' \subseteq Backends /\ succeeded' \in BOOLEAN /\ faults' \in 0 .. MaxFaults
    BY <1>0, <1>7, FaultType DEF Write, Fails, WorkType, TypeOK
  <2>2. work' \in [Slots -> WorkType]
    BY <1>0, <1>7, GotoWork DEF Write, Fails, Pcs
  <2> QED
    BY <1>7, <2>1, <2>2 DEF Write, TypeOK, WorkType
<1>8. ASSUME NEW s \in Slots, Signal(s) PROVE TypeOK'
  <2>1. work' \in [Slots -> WorkType]
    BY <1>0, <1>8, GotoWork DEF Signal, Fails, Pcs
  <2>2. succeeded' \in BOOLEAN /\ hup' \in BOOLEAN
    BY <1>8 DEF Signal, Fails, TypeOK
  <2> QED
    BY <1>8, <2>1, <2>2 DEF Signal, TypeOK, WorkType
<1>9. ASSUME NEW s \in Slots, Health(s) PROVE TypeOK'
  <2>1. work' \in [Slots -> WorkType]
    BY <1>0, <1>9, GotoWork DEF Health, Pcs
  <2>2. fresh' \in BOOLEAN /\ faults' \in 0 .. MaxFaults
    BY <1>9, FaultType DEF Health, TypeOK
  <2> QED
    BY <1>9, <2>1, <2>2 DEF Health, TypeOK, WorkType
<1>10. ASSUME NEW s \in Slots, Finish(s) PROVE TypeOK'
  <2>1. Idle \in WorkType
    BY DEF Idle, WorkType, Pcs
  <2>2. work' \in [Slots -> WorkType]
    BY <1>0, <1>10, <2>1 DEF Finish
  <2>3. timer' \in BOOLEAN /\ pending' \in BOOLEAN /\ (pending' => timer')
    BY <1>10, ScheduleType DEF Finish, TypeOK
  <2> QED
    BY <1>10, <2>2, <2>3 DEF Finish, TypeOK, WorkType
<1>11. CASE HealthExpires
  BY <1>11 DEF HealthExpires, TypeOK
<1>12. CASE Probe
  <2>1. faults' \in 0 .. MaxFaults
    BY <1>12 DEF Probe, TypeOK
  <2> QED
    BY <1>12, <2>1, RestartType DEF Probe
<1>13. CASE Crash
  BY <1>13, FaultType, RestartType DEF Crash
<1>14. CASE DaemonLoads
  BY <1>14 DEF DaemonLoads, TypeOK
<1>15. CASE DaemonReady
  BY <1>15 DEF DaemonReady, TypeOK
<1>16. CASE Reload
  BY <1>16 DEF Reload, TypeOK
<1>17. CASE DaemonDies
  BY <1>17, FaultType DEF DaemonDies, TypeOK
<1>18. ASSUME NEW b \in Backends, Edit(b) PROVE TypeOK'
  <2>1. secrets' \in [Backends -> SecretState]
    BY <1>18 DEF Edit, TypeOK
  <2>2. ever' \subseteq Backends
    BY <1>18, <2>1, ListIsWanted DEF Edit, TypeOK
  <2>3. edits' \in 0 .. MaxEdits
    BY <1>18, RefresherAssumption DEF Edit, TypeOK
  <2> QED
    BY <1>18, <2>1, <2>2, <2>3 DEF Edit, TypeOK
<1>19. CASE UNCHANGED vars
  BY <1>19 DEF TypeOK
<1> QED
  BY <1>1, <1>2, <1>3, <1>4, <1>5, <1>6, <1>7, <1>8, <1>9, <1>10, <1>11, <1>12,
     <1>13, <1>14, <1>15, <1>16, <1>17, <1>18, <1>19 DEF Next

\* Every variable keeps its type, and pending is set only beside a running timer,
\* for any number of goroutines.
THEOREM TypeCorrect == Spec => []TypeOK
BY InitTypeOK, StepTypeOK, PTL DEF Spec

(***************************************************************************)
(* config.yaml and the daemon follow the informer.                         *)
(***************************************************************************)

\* A rebuild that begins alone is the only active one; no other step makes a
\* second goroutine active.
LEMMA StepAlone ==
  ASSUME TypeOK, Alone, [Next]_vars
  PROVE  Alone'
<1>0. work \in [Slots -> WorkType] /\ "run" \in Slots /\ \A s \in Fires : s \in Slots
  BY DEF TypeOK, WorkType, Slots
<1> USE DEF Alone, Active
<1>1. ASSUME UNCHANGED overlap, \A s \in Slots : Active(s)' => Active(s)
      PROVE  Alone'
  BY <1>1
<1>2. ASSUME NEW s \in Slots, List(s) PROVE Alone'
  <2>1. \A t \in Slots \ {s} : work'[t] = work[t]
    BY <1>0, <1>2 DEF List
  <2>2. overlap' <=> \E t \in Slots \ {s} : work[t].pc \in {"write", "signal", "health"}
    BY <1>2 DEF List
  <2> QED
    BY <2>1, <2>2
<1>3. ASSUME NEW s \in Slots, NEW l \in Pcs, Goto(s, l), Active(s), UNCHANGED overlap
      PROVE  Alone'
  BY <1>0, <1>1, <1>3, GotoWork
<1>4. ASSUME NEW s \in Slots, Write(s) \/ Signal(s) \/ Health(s) PROVE Alone'
  BY <1>3, <1>4 DEF Write, Signal, Health, Fails, Pcs
<1>5. CASE SetStore
  BY <1>0, <1>1, <1>5 DEF SetStore, WorkType
<1>6. ASSUME NEW s \in Fires, Fire(s) PROVE Alone'
  BY <1>0, <1>1, <1>6 DEF Fire
<1>7. ASSUME NEW s \in Slots, Finish(s) PROVE Alone'
  BY <1>0, <1>1, <1>7 DEF Finish, Idle
<1>8. CASE Restart
  BY <1>8 DEF Restart, Idle
<1>9. CASE UNCHANGED <<work, overlap>>
  BY <1>9
<1> QED
  BY <1>2, <1>4, <1>5, <1>6, <1>7, <1>8, <1>9
     DEF Next, Sync, Watch, Notify, HealthExpires, Probe, Crash, DaemonLoads,
         DaemonReady, Reload, DaemonDies, Edit

\* Only the List of a goroutine ends the wait for a rebuild, and it reads the
\* store as it is; until the store changes again, the steps of that rebuild and
\* of the daemon pass its list on.
LEMMA StepCurrent ==
  ASSUME TypeOK, Alone, Current, [Next]_vars
  PROVE  Current'
<1>0. /\ work \in [Slots -> WorkType] /\ "run" \in Slots /\ \A s \in Fires : s \in Slots
      /\ store \in [Backends -> SecretState] /\ notices \in Nat
  BY DEF TypeOK, WorkType, Slots
<1>1. CASE Behind'
  BY <1>1 DEF Current
<1>2. CASE Sync
  BY <1>1, <1>2 DEF Sync, Behind
<1>3. ASSUME NEW b \in Backends, Watch(b) PROVE Current'
  BY <1>0, <1>1, <1>3 DEF Watch, Behind
<1>4. CASE SetStore
  BY <1>0, <1>1, <1>4 DEF SetStore, Behind, WorkType
<1>5. CASE Notify
  BY <1>1, <1>5 DEF Notify, Schedule, Behind
<1>6. ASSUME NEW s \in Fires, Fire(s) PROVE Current'
  BY <1>0, <1>1, <1>6 DEF Fire, Behind
<1>7. ASSUME NEW s \in Slots, List(s) PROVE Current'
  <2>1. /\ work'[s].pc = "write" /\ work'[s].list = Wanted(store)
        /\ \A t \in Slots \ {s} : work'[t] = work[t]
    BY <1>0, <1>7, ListIsWanted DEF List, WorkType
  <2>2. UNCHANGED store
    BY <1>7 DEF List
  <2>3. ~overlap' => \A t \in Slots \ {s} : ~Active(t)
    BY <1>7 DEF List, Active
  <2>4. ~overlap' => \A t \in Slots \ {s} : ~Active(t)'
    BY <2>1, <2>3 DEF Active
  <2>5. Wanted(store)' = Wanted(store) /\ Active(s)'
    BY <2>1, <2>2 DEF Wanted, Active
  <2> QED
    BY <2>1, <2>4, <2>5 DEF Current, Active
<1>8. ASSUME NEW s \in Slots, NEW l \in Pcs, Goto(s, l), Active(s),
             UNCHANGED <<store, phase, notices, timer, overlap>>
      PROVE  /\ \A t \in Slots : t # s /\ ~overlap => ~Active(t)'
             /\ work'[s].pc = l
             /\ Behind => Behind'
             /\ Wanted(store)' = Wanted(store)
  <2>1. work'[s].pc = l /\ \A t \in Slots \ {s} : work'[t] = work[t]
    BY <1>0, <1>8, GotoWork
  <2>2. \A t \in Slots : t # s /\ ~overlap => ~Active(t)'
    BY <1>8, <2>1 DEF Alone, Active
  <2>3. Behind => Behind'
    BY <1>8, <2>1 DEF Behind, Active
  <2> QED
    BY <1>8, <2>1, <2>2, <2>3 DEF Wanted
<1>9. ASSUME NEW s \in Slots, Fails(s), Active(s),
             UNCHANGED <<store, phase, notices, timer, overlap>>
      PROVE  Current'
  <2>1. Goto(s, "done") /\ "done" \in Pcs /\ ~succeeded'
    BY <1>9 DEF Fails, Pcs
  <2> QED
    BY <1>8, <1>9, <2>1 DEF Current, Active
<1>10. ASSUME NEW s \in Slots, Write(s) PROVE Current'
  <2>1. CASE Fails(s)
    BY <1>9, <1>10, <2>1 DEF Write, Active
  <2>2. CASE config' = work[s].list /\ Goto(s, "signal")
    <3>1. /\ \A t \in Slots : t # s /\ ~overlap => ~Active(t)'
          /\ work'[s].pc = "signal"
          /\ Behind => Behind'
          /\ Wanted(store)' = Wanted(store)
          /\ UNCHANGED overlap
      BY <1>8, <1>10, <2>2 DEF Write, Active, Pcs
    <3> QED
      BY <1>10, <2>2, <3>1 DEF Write, Current, Active
  <2> QED
    BY <1>10, <2>1, <2>2 DEF Write
<1>11. ASSUME NEW s \in Slots, Signal(s) PROVE Current'
  <2>1. CASE Fails(s)
    BY <1>9, <1>11, <2>1 DEF Signal, Active
  <2>2. CASE hup' = TRUE /\ Goto(s, "health")
    <3>1. /\ \A t \in Slots : t # s /\ ~overlap => ~Active(t)'
          /\ work'[s].pc = "health"
          /\ Behind => Behind'
          /\ Wanted(store)' = Wanted(store)
          /\ UNCHANGED <<overlap, config>>
      BY <1>8, <1>11, <2>2 DEF Signal, Active, Pcs
    <3>2. Served'
      BY <2>2 DEF Served
    <3> QED
      BY <1>11, <3>1, <3>2 DEF Signal, Current, Active
  <2> QED
    BY <1>11, <2>1, <2>2 DEF Signal
<1>12. ASSUME NEW s \in Slots, Health(s) PROVE Current'
  <2>1. /\ \A t \in Slots : t # s /\ ~overlap => ~Active(t)'
        /\ work'[s].pc = "done"
        /\ Behind => Behind'
        /\ Wanted(store)' = Wanted(store)
        /\ UNCHANGED <<overlap, config, daemon, hup, loaded>>
    BY <1>8, <1>12 DEF Health, Active, Pcs
  <2> QED
    BY <1>12, <2>1 DEF Health, Current, Active, Served
<1>13. ASSUME NEW s \in Slots, Finish(s) PROVE Current'
  <2>1. work[s].pc = "done" /\ work'[s].pc = "idle"
        /\ \A t \in Slots \ {s} : work'[t] = work[t]
    BY <1>0, <1>13 DEF Finish, Idle
  <2>2. UNCHANGED <<store, phase, notices, config, daemon, loaded, hup, succeeded, overlap>>
        /\ (timer => timer')
    BY <1>13 DEF Finish, Schedule
  <2>3. /\ Behind => Behind'
        /\ Wanted(store)' = Wanted(store) /\ Served' = Served
        /\ \A t \in Slots : Active(t)' = Active(t)
    BY <2>1, <2>2 DEF Behind, Wanted, Served, Active
  <2> QED
    BY <2>1, <2>2, <2>3 DEF Current
<1>14. CASE Restart
  BY <1>1, <1>14 DEF Restart, Behind
<1>15. ASSUME UNCHANGED <<store, phase, notices, timer, work, config, succeeded, overlap>>,
              Served => Served'
       PROVE  Current'
  <2>1. /\ Behind' = Behind /\ Wanted(store)' = Wanted(store)
        /\ \A t \in Slots : Active(t)' = Active(t)
    BY <1>15 DEF Behind, Wanted, Active
  <2> QED
    BY <1>15, <2>1 DEF Current
<1>16. CASE HealthExpires
  BY <1>15, <1>16 DEF HealthExpires, Served
<1>17. CASE DaemonLoads
  BY <1>15, <1>17 DEF DaemonLoads, Served
<1>18. CASE DaemonReady
  BY <1>15, <1>18 DEF DaemonReady, Served
<1>19. CASE Reload
  BY <1>15, <1>19 DEF Reload, Served
<1>20. CASE DaemonDies
  BY <1>15, <1>20 DEF DaemonDies, Served
<1>21. ASSUME NEW b \in Backends, Edit(b) PROVE Current'
  BY <1>15, <1>21 DEF Edit, Served
<1>22. CASE UNCHANGED vars
  BY <1>15, <1>22 DEF Served
<1> QED
  BY <1>2, <1>3, <1>4, <1>5, <1>6, <1>7, <1>10, <1>11, <1>12, <1>13, <1>14, <1>16,
     <1>17, <1>18, <1>19, <1>20, <1>21, <1>22 DEF Next, Probe, Crash

\* When the refresher rests after a rebuild that reached its end and ran by
\* itself, config.yaml holds what the informer holds, and a running daemon serves
\* it or has the signal to: for any number of backends and timer goroutines.
THEOREM RestsInSync == Spec => []InSync
<1>1. Init => SyncInv
  <2> SUFFICES ASSUME Init PROVE SyncInv
    OBVIOUS
  <2>1. Alone
    BY DEF Init, Alone, Active, Idle
  <2>2. Current
    BY DEF Init, Current, Behind
  <2> QED
    BY <2>1, <2>2, InitTypeOK DEF SyncInv
<1>2. SyncInv /\ [Next]_vars => SyncInv'
  BY StepTypeOK, StepAlone, StepCurrent DEF SyncInv
<1>3. SyncInv => InSync
  <2> SUFFICES ASSUME SyncInv, Quiet, succeeded, ~overlap
               PROVE  /\ config = Wanted(store)
                      /\ daemon = "running" => hup \/ loaded = config
    BY DEF InSync
  <2>1. ~Behind /\ \A s \in Slots : ~Active(s)
    BY DEF Quiet, Behind, Active, SyncInv, TypeOK
  <2> QED
    BY <2>1 DEF SyncInv, Current, Served
<1> QED
  BY <1>1, <1>2, <1>3, PTL DEF Spec

(***************************************************************************)
(* Refinement of BackendPool.                                              *)
(***************************************************************************)

\* Instances travel from the API to the daemon; no step makes one up.
LEMMA StepKnown == KnownInv /\ [Next]_vars => KnownInv'
<1> SUFFICES ASSUME KnownInv, [Next]_vars PROVE KnownInv'
  OBVIOUS
<1> DEFINE Views == Wanted(secrets) \subseteq ever /\ Wanted(store) \subseteq ever
<1> DEFINE Lists == \A s \in Slots : work[s].list \subseteq ever
<1> DEFINE Ends == config \subseteq ever /\ loaded \subseteq ever
<1>0. /\ work \in [Slots -> WorkType] /\ "run" \in Slots /\ \A s \in Fires : s \in Slots
      /\ store \in [Backends -> SecretState] /\ secrets \in [Backends -> SecretState]
      /\ Views /\ Lists /\ Ends /\ TypeOK
  BY DEF KnownInv, TypeOK, WorkType, Slots
<1>1. TypeOK'
  BY StepTypeOK DEF KnownInv
<1>2. SUFFICES Views' /\ Lists' /\ Ends'
  BY <1>1 DEF KnownInv
<1>3. UNCHANGED ever \/ \E b \in Backends : Edit(b)
  BY DEF Next, Sync, Watch, SetStore, Notify, Fire, List, Write, Signal, Health, Finish,
         HealthExpires, Probe, Crash, Restart, DaemonLoads, DaemonReady, Reload, DaemonDies
<1>4. Views'
  <2>1. CASE UNCHANGED <<secrets, store, ever>>
    BY <1>0, <2>1 DEF Wanted
  <2>2. CASE Sync
    BY <1>0, <2>2 DEF Sync, Wanted
  <2>3. ASSUME NEW b \in Backends, Watch(b) PROVE Views'
    BY <1>0, <2>3 DEF Watch, Wanted
  <2>4. CASE Restart
    BY <1>0, <2>4 DEF Restart, Wanted
  <2>5. ASSUME NEW b \in Backends, Edit(b) PROVE Views'
    BY <1>0, <2>5 DEF Edit, Wanted
  <2> QED
    BY <2>1, <2>2, <2>3, <2>4, <2>5
       DEF Next, SetStore, Notify, Fire, List, Write, Signal, Health, Finish, HealthExpires,
           Probe, Crash, DaemonLoads, DaemonReady, Reload, DaemonDies
<1>5. Lists'
  <2>1. CASE UNCHANGED work /\ ever \subseteq ever'
    BY <1>0, <2>1
  <2>2. CASE SetStore
    BY <1>0, <2>2 DEF SetStore, WorkType
  <2>3. ASSUME NEW s \in Fires, Fire(s) PROVE Lists'
    BY <1>0, <2>3 DEF Fire
  <2>4. ASSUME NEW s \in Slots, List(s) PROVE Lists'
    BY <1>0, <2>4, ListIsWanted DEF List, WorkType
  <2>5. ASSUME NEW s \in Slots, NEW l \in Pcs, Goto(s, l), UNCHANGED ever PROVE Lists'
    BY <1>0, <2>5, GotoWork
  <2>6. ASSUME NEW s \in Slots, Write(s) \/ Signal(s) \/ Health(s) PROVE Lists'
    BY <2>5, <2>6 DEF Write, Signal, Health, Fails, Pcs
  <2>7. ASSUME NEW s \in Slots, Finish(s) PROVE Lists'
    BY <1>0, <2>7 DEF Finish, Idle
  <2>8. CASE Restart
    BY <2>8 DEF Restart, Idle
  <2> QED
    BY <2>1, <2>2, <2>3, <2>4, <2>6, <2>7, <2>8
       DEF Next, Sync, Watch, Notify, HealthExpires, Probe, Crash, DaemonLoads,
           DaemonReady, Reload, DaemonDies, Edit
<1>6. Ends'
  <2>1. CASE UNCHANGED <<config, loaded>> /\ ever \subseteq ever'
    BY <1>0, <2>1
  <2>2. ASSUME NEW s \in Slots, Write(s) PROVE Ends'
    BY <1>0, <2>2 DEF Write
  <2>3. CASE DaemonLoads \/ Reload \/ DaemonDies
    BY <1>0, <2>3 DEF DaemonLoads, Reload, DaemonDies
  <2> QED
    BY <2>1, <2>2, <2>3
       DEF Next, Sync, Watch, SetStore, Notify, Fire, List, Signal, Health, Finish,
           HealthExpires, Probe, Crash, Restart, DaemonReady, Edit
<1> QED
  BY <1>4, <1>5, <1>6

\* A step of the refresher, the daemon or the API is a change of the ready
\* backends, a new announcement, or invisible in BackendPool.
LEMMA StepRefines == KnownInv /\ [Next]_vars => [Pool!Next]_(Pool!vars)
<1> SUFFICES ASSUME KnownInv, [Next]_vars PROVE [Pool!Next]_(Pool!vars)
  OBVIOUS
<1>0. secrets \in [Backends -> SecretState] /\ TypeOK
  BY DEF KnownInv, TypeOK
<1>1. CASE UNCHANGED <<secrets, ever, loaded>>
  BY <1>1 DEF Pool!vars, Wanted
<1>2. ASSUME NEW b \in Backends, Edit(b) PROVE Pool!Change
  <2>1. secrets' \in [Backends -> SecretState]
    BY <1>0, <1>2 DEF Edit
  <2> QED
    BY <1>2, <2>1 DEF Edit, Pool!Change, Wanted
<1>3. CASE DaemonLoads \/ Reload \/ DaemonDies
  <2>1. loaded' \in SUBSET ever /\ UNCHANGED <<secrets, ever>>
    BY <1>3 DEF DaemonLoads, Reload, DaemonDies, KnownInv
  <2> QED
    BY <2>1 DEF Pool!Next, Pool!Announce, Wanted
<1> QED
  BY <1>1, <1>2, <1>3
     DEF Next, Sync, Watch, SetStore, Notify, Fire, List, Write, Signal, Health, Finish,
         HealthExpires, Probe, Crash, Restart, DaemonReady, Pool!Next

\* The safety of ImplementsPool: what the daemon announces has been a ready
\* backend of this Gateway, through every interleaving of rebuilds, restarts and
\* lost signals.
THEOREM RefinesPool == Spec => Pool!Init /\ [][Pool!Next]_(Pool!vars)
<1>1. Init => Pool!Init /\ KnownInv
  <2> SUFFICES ASSUME Init PROVE Pool!Init /\ KnownInv
    OBVIOUS
  <2>1. TypeOK
    BY InitTypeOK
  <2>2. Wanted(store) = {} /\ Wanted(secrets) \subseteq Backends
    BY <2>1, ListIsWanted DEF Init, Wanted, TypeOK
  <2> QED
    BY <2>1, <2>2 DEF Init, Pool!Init, KnownInv, Idle
<1> QED
  BY <1>1, StepKnown, StepRefines, PTL DEF Spec
============================================================================
