---------------------------- MODULE BackendPool ----------------------------
(***************************************************************************)
(* What a Mode B frontend promises about the instances it announces: each  *)
(* of them is, or once was, a ready backend of this Gateway, and when the  *)
(* backends stop changing it announces exactly the ready ones.  How events *)
(* travel and what fails on the way is not visible here.                   *)
(***************************************************************************)
CONSTANT Backends

VARIABLES
  ready,    \* the backends that are ready now
  ever,     \* those that have been at some time
  served    \* the instances announced

vars == <<ready, ever, served>>

Init ==
  /\ ready \subseteq Backends
  /\ ever = ready
  /\ served = {}

\* Backends come and go.
Change ==
  /\ ready' \in SUBSET Backends
  /\ ever' = ever \cup ready'
  /\ UNCHANGED served

\* The announced instances are replaced by others that have been ready.
Announce ==
  /\ served' \in SUBSET ever
  /\ UNCHANGED <<ready, ever>>

Next == Change \/ Announce

\* In the end the announced instances are the ready ones.
Settles == <>[](served = ready)

Spec == Init /\ [][Next]_vars /\ Settles
============================================================================
