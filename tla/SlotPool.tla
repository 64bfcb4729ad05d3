------------------------------ MODULE SlotPool ------------------------------
(***************************************************************************)
(* What the transfer scheduler promises, and nothing of how it keeps the   *)
(* promise: a pool of transfer slots.  A transfer asks for a slot at an    *)
(* endpoint; one of its tasks may take a slot only while the pool as a     *)
(* whole has one free and so has the endpoint that was asked for; it gives *)
(* the slot back; the limits may be changed at any moment, and a lowered   *)
(* limit takes no slot away from a task that has one.                      *)
(*                                                                         *)
(* A transfer has one request at a time, and its tasks share it.  The slot *)
(* a task takes is one of the endpoint the task names, which is the one    *)
(* that was asked for unless the profile was edited in between.            *)
(***************************************************************************)
EXTENDS Naturals, FiniteSets

CONSTANTS
  Task,            \* the asynchronous tasks that may hold a slot
  IdOf,            \* [Task -> id]: the transfer a task works for
  EndpointsOf      \* [id -> set of endpoints]: what its profile may name

VARIABLES
  limits,          \* [global |-> Nat, perEndpoint |-> Nat]
  asking,          \* the requests, as <<transfer, endpoint>>
  at,              \* [Task -> endpoint]: the endpoint each task names
  holders          \* the tasks that hold a slot

vars == <<limits, asking, at, holders>>

Limit == [global : Nat \ {0}, perEndpoint : Nat \ {0}]

HoldersAt(e) == {h \in holders : at[h] = e}

Init ==
  /\ limits \in Limit
  /\ asking = {}
  /\ \A t \in Task : at[t] \in EndpointsOf[IdOf[t]]
  /\ holders = {}

Ask(t) ==
  /\ t \in Task \ holders
  /\ \E e \in EndpointsOf[IdOf[t]] :
       /\ at' = [at EXCEPT ![t] = e]
       /\ asking' = IF \E q \in asking : q[1] = IdOf[t]
                    THEN asking ELSE asking \cup {<<IdOf[t], e>>}
  /\ UNCHANGED <<limits, holders>>

Take(t) ==
  /\ t \in Task \ holders
  /\ Cardinality(holders) < limits.global
  /\ \E q \in asking :
       /\ q[1] = IdOf[t]
       /\ Cardinality(HoldersAt(q[2])) < limits.perEndpoint
       /\ asking' = asking \ {q}
  /\ holders' = holders \cup {t}
  /\ UNCHANGED <<limits, at>>

Return(t) ==
  /\ t \in holders
  /\ holders' = holders \ {t}
  /\ UNCHANGED <<limits, asking, at>>

SetLimits ==
  /\ limits' \in Limit
  /\ UNCHANGED <<asking, at, holders>>

Next ==
  \/ \E t \in Task : Ask(t) \/ Take(t) \/ Return(t)
  \/ SetLimits

Spec == Init /\ [][Next]_vars

=============================================================================
