-------------------------- MODULE TransferScheduler --------------------------
(***************************************************************************)
(* The transfer scheduler of src-tauri/src/scheduler.rs: transfer tasks    *)
(* wait in one queue for a slot, a slot being limited globally and per     *)
(* endpoint, and are woken through one tokio Notify.                       *)
(*                                                                         *)
(* Every step is one critical section of the scheduler's mutex or one      *)
(* operation on the Notify.  The code changes the state, releases the      *)
(* mutex and only then calls notify_waiters, so the two are separate       *)
(* steps here and everything may happen between them.                      *)
(*                                                                         *)
(* A task is one call of acquire.  Two tasks may carry the same transfer   *)
(* id: pausing and resuming a transfer starts a second worker while the    *)
(* first one may still be alive.  They need not name the same endpoint:    *)
(* run reads it from the profile each time (transfers.rs), and the user    *)
(* may have given the profile another host or port meanwhile.              *)
(***************************************************************************)
EXTENDS Naturals, FiniteSets, SequencesExt

CONSTANTS
  Task,            \* tasks that call acquire, again and again
  Id,              \* transfer ids
  Endpoint,        \* endpoint keys ("sftp://host:port" or a route of two)
  IdOf,            \* [Task -> Id]: the transfer the task works for
  EndpointsOf,     \* [Id -> set of Endpoint]: what its profile says over time
  Caller,          \* user commands that may be inside the scheduler at once
  MaxLimit,        \* bound: the largest limit (12 in the code)
  MaxCommands      \* bound: how many user commands are issued at all

ASSUME ConstantsAssumption ==
  /\ IsFiniteSet(Task)
  /\ IdOf \in [Task -> Id]
  /\ EndpointsOf \in [Id -> (SUBSET Endpoint) \ {{}}]
  /\ Task \cap Caller = {}
  /\ MaxLimit \in Nat \ {0}
  /\ MaxCommands \in Nat

VARIABLES
  limits,            \* Limits { global, per_endpoint }
  active_global,     \* slots in use
  active_by_endpoint,\* slots in use per endpoint; a missing key is a 0
  waiting,           \* the waiting queue of <<id, endpoint>> entries
  pc,                \* where each task is in acquire, or in its transfer
  endpoint,          \* the endpoint argument of each task's latest call
  woken,             \* tasks whose Notified future has been signalled
  notifying,         \* who changed the state and has yet to notify
  commands           \* user commands issued so far

vars == <<limits, active_global, active_by_endpoint, waiting, pc, endpoint,
          woken, notifying, commands>>

PC == {"idle", "arm", "check", "asleep", "holding"}

Limit == [global : 1..MaxLimit, perEndpoint : 1..MaxLimit]

Entry == Id \X Endpoint

HasSlot(t) == pc[t] = "holding"

Holders == {t \in Task : HasSlot(t)}

HoldersAt(e) == {t \in Holders : endpoint[t] = e}

(* A call of acquire that has not been granted yet. *)
InAcquire(t) == pc[t] \in {"arm", "check", "asleep"}

-----------------------------------------------------------------------------
(* The queue: which entry may be granted now. *)

(* Mutant: the limit of the endpoint is not looked at. *)
EntryRunnableGloballyOnly(i) == active_global < limits.global /\ i \in DOMAIN waiting

EntryRunnable(i) ==
  /\ active_global < limits.global
  /\ active_by_endpoint[waiting[i][2]] < limits.perEndpoint

(* Mutant: the queue is scanned from its back. *)
LastRunnable(i) ==
  /\ i \in DOMAIN waiting
  /\ EntryRunnable(i)
  /\ \A j \in (i + 1)..Len(waiting) : ~EntryRunnable(j)

FirstRunnable(i) ==
  /\ i \in DOMAIN waiting
  /\ EntryRunnable(i)
  /\ \A j \in 1..(i - 1) : ~EntryRunnable(j)

SaturatingDec(n) == IF n = 0 THEN 0 ELSE n - 1

-----------------------------------------------------------------------------
Init ==
  /\ limits \in Limit
  /\ active_global = 0
  /\ active_by_endpoint = [e \in Endpoint |-> 0]
  /\ waiting = << >>
  /\ pc = [t \in Task |-> "idle"]
  /\ endpoint = [t \in Task |-> CHOOSE e \in EndpointsOf[IdOf[t]] : TRUE]
  /\ woken = {}
  /\ notifying = {}
  /\ commands = 0

(* acquire, first critical section: enter the queue, unless an entry with *)
(* the same id is in it already, whatever endpoint that entry names.      *)
Enqueue(t) ==
  /\ pc[t] = "idle"
  /\ t \notin notifying
  /\ \E e \in EndpointsOf[IdOf[t]] :
       /\ endpoint' = [endpoint EXCEPT ![t] = e]
       /\ waiting' = IF \E i \in DOMAIN waiting : waiting[i][1] = IdOf[t]
                     THEN waiting
                     ELSE Append(waiting, <<IdOf[t], e>>)
  /\ pc' = [pc EXCEPT ![t] = "arm"]
  /\ UNCHANGED <<limits, active_global, active_by_endpoint, woken, notifying,
                 commands>>

(* let notified = self.changed.notified(): from here on a notify_waiters  *)
(* is not missed, even before the future is awaited.                      *)
Arm(t) ==
  /\ pc[t] = "arm"
  /\ pc' = [pc EXCEPT ![t] = "check"]
  /\ UNCHANGED <<limits, active_global, active_by_endpoint, waiting, endpoint,
                 woken, notifying, commands>>

(* Mutant: the front of the queue is removed, not the entry that was found. *)
GrantPopsFront(t) ==
  /\ pc[t] = "check"
  /\ \E i \in DOMAIN waiting : FirstRunnable(i) /\ waiting[i][1] = IdOf[t]
  /\ waiting' = Tail(waiting)
  /\ active_global' = active_global + 1
  /\ active_by_endpoint' = [active_by_endpoint EXCEPT ![endpoint[t]] = @ + 1]
  /\ pc' = [pc EXCEPT ![t] = "holding"]
  /\ woken' = woken \ {t}
  /\ UNCHANGED <<limits, endpoint, notifying, commands>>

(* The second critical section, when the first runnable entry is ours; the *)
(* Notified future goes out of scope.  The slot is counted for the task's  *)
(* endpoint, which is not looked at again.                                 *)
Grant(t) ==
  /\ pc[t] = "check"
  /\ \E i \in DOMAIN waiting :
       /\ FirstRunnable(i)
       /\ waiting[i][1] = IdOf[t]
       /\ waiting' = RemoveAt(waiting, i)
  /\ active_global' = active_global + 1
  /\ active_by_endpoint' = [active_by_endpoint EXCEPT ![endpoint[t]] = @ + 1]
  /\ pc' = [pc EXCEPT ![t] = "holding"]
  /\ woken' = woken \ {t}
  /\ UNCHANGED <<limits, endpoint, notifying, commands>>

(* ... and when it is not: notified.await, which returns once signalled. *)
Sleep(t) ==
  /\ pc[t] = "check"
  /\ ~ \E i \in DOMAIN waiting : FirstRunnable(i) /\ waiting[i][1] = IdOf[t]
  /\ pc' = [pc EXCEPT ![t] = "asleep"]
  /\ UNCHANGED <<limits, active_global, active_by_endpoint, waiting, endpoint,
                 woken, notifying, commands>>

Wake(t) ==
  /\ pc[t] = "asleep"
  /\ t \in woken
  /\ pc' = [pc EXCEPT ![t] = "arm"]
  /\ woken' = woken \ {t}
  /\ UNCHANGED <<limits, active_global, active_by_endpoint, waiting, endpoint,
                 notifying, commands>>

(* Mutant: the slot of the endpoint is not given back. *)
ReleaseGlobalOnly(t) ==
  /\ pc[t] = "holding"
  /\ active_global' = SaturatingDec(active_global)
  /\ pc' = [pc EXCEPT ![t] = "idle"]
  /\ notifying' = notifying \cup {t}
  /\ UNCHANGED <<limits, active_by_endpoint, waiting, endpoint, woken,
                 commands>>

(* Mutant: nobody is notified of the slot that became free. *)
ReleaseSilently(t) ==
  /\ pc[t] = "holding"
  /\ active_global' = SaturatingDec(active_global)
  /\ active_by_endpoint' =
       [active_by_endpoint EXCEPT ![endpoint[t]] = SaturatingDec(@)]
  /\ pc' = [pc EXCEPT ![t] = "idle"]
  /\ UNCHANGED <<limits, waiting, endpoint, woken, notifying, commands>>

(* Dropping the TransferPermit, up to the release of the mutex. *)
Release(t) ==
  /\ pc[t] = "holding"
  /\ active_global' = SaturatingDec(active_global)
  /\ active_by_endpoint' =
       [active_by_endpoint EXCEPT ![endpoint[t]] = SaturatingDec(@)]
  /\ pc' = [pc EXCEPT ![t] = "idle"]
  /\ notifying' = notifying \cup {t}
  /\ UNCHANGED <<limits, waiting, endpoint, woken, commands>>

(* Mutant: one waiter is signalled instead of all of them (notify_one). *)
NotifyOne(a) ==
  LET waiters == {t \in Task : pc[t] \in {"check", "asleep"}} \ woken
  IN  /\ a \in notifying
      /\ notifying' = notifying \ {a}
      /\ IF waiters = {} THEN UNCHANGED woken
         ELSE \E t \in waiters : woken' = woken \cup {t}
      /\ UNCHANGED <<limits, active_global, active_by_endpoint, waiting, pc,
                     endpoint, commands>>

(* changed.notify_waiters(): signals every Notified that exists now. *)
Notify(a) ==
  /\ a \in notifying
  /\ notifying' = notifying \ {a}
  /\ woken' = woken \cup {t \in Task : pc[t] \in {"check", "asleep"}}
  /\ UNCHANGED <<limits, active_global, active_by_endpoint, waiting, pc,
                 endpoint, commands>>

(* update_limits, called by save_preferences once it has checked that the *)
(* new limits are in 1..12.                                               *)
UpdateLimits(a) ==
  /\ a \in Caller \ notifying
  /\ commands < MaxCommands
  /\ limits' \in Limit
  /\ notifying' = notifying \cup {a}
  /\ commands' = commands + 1
  /\ UNCHANGED <<active_global, active_by_endpoint, waiting, pc, endpoint,
                 woken>>

(* The ranks an order of the transfer queue gives: distinct for the ids   *)
(* it lists, usize::MAX (here the number of ids plus one) for the others. *)
Unranked == Cardinality(Id) + 1

Ranking == {r \in [Id -> 1..Unranked] :
              \A a, b \in Id : a # b /\ r[a] = r[b] => r[a] = Unranked}

Rearrangement(n) ==
  {p \in [1..n -> 1..n] : \A a, b \in 1..n : p[a] = p[b] => a = b}

(* p puts the queue in the order of r, and entries of equal rank stay in  *)
(* the order they had: sort_by_key is a stable sort.                      *)
StableOrder(r, p) ==
  \A a, b \in DOMAIN waiting :
    a < b => LET ra == r[waiting[p[a]][1]]
                 rb == r[waiting[p[b]][1]]
             IN  ra < rb \/ (ra = rb /\ p[a] < p[b])

(* set_waiting_order, called when a transfer is moved or reprioritised. *)
SetWaitingOrder(a) ==
  /\ a \in Caller \ notifying
  /\ commands < MaxCommands
  /\ \E r \in Ranking : \E p \in Rearrangement(Len(waiting)) :
       /\ StableOrder(r, p)
       /\ waiting' = [i \in 1..Len(waiting) |-> waiting[p[i]]]
  /\ notifying' = notifying \cup {a}
  /\ commands' = commands + 1
  /\ UNCHANGED <<limits, active_global, active_by_endpoint, pc, endpoint,
                 woken>>

TaskStep(t) == Arm(t) \/ Grant(t) \/ Sleep(t) \/ Wake(t)

Next ==
  \/ \E t \in Task : Enqueue(t) \/ TaskStep(t) \/ Release(t)
  \/ \E a \in Task \cup Caller : Notify(a)
  \/ \E a \in Caller : UpdateLimits(a) \/ SetWaitingOrder(a)

Spec == Init /\ [][Next]_vars

(* The runtime polls every task that is ready, a notification that is due *)
(* is delivered, and a transfer that holds a slot ends.  Nobody has to    *)
(* start another transfer or issue a command.                             *)
Fairness ==
  /\ \A t \in Task : WF_vars(TaskStep(t)) /\ WF_vars(Release(t))
  /\ \A a \in Task \cup Caller : WF_vars(Notify(a))

FairSpec == Spec /\ Fairness

-----------------------------------------------------------------------------
TypeOK ==
  /\ limits \in Limit
  /\ active_global \in Nat
  /\ active_by_endpoint \in [Endpoint -> Nat]
  /\ waiting \in Seq(Entry)
  /\ pc \in [Task -> PC]
  /\ endpoint \in [Task -> Endpoint]
  /\ woken \in SUBSET Task
  /\ notifying \in SUBSET (Task \cup Caller)
  /\ commands \in 0..MaxCommands

(* The counters are exactly the permits that are alive: the increments of *)
(* acquire and the decrements of TransferPermit::drop balance, per        *)
(* endpoint too, so the saturating subtraction never hides a lost permit. *)
Accounting ==
  /\ active_global = Cardinality(Holders)
  /\ \A e \in Endpoint : active_by_endpoint[e] = Cardinality(HoldersAt(e))

(* The queue holds no ghosts: a transfer has at most one entry, and a task *)
(* of it is in acquire and will take that entry.  An entry nobody takes   *)
(* would stand in front of its endpoint for ever.                         *)
NoGhostEntries ==
  /\ \A i, j \in DOMAIN waiting : waiting[i][1] = waiting[j][1] => i = j
  /\ \A i \in DOMAIN waiting :
       \E t \in Task : InAcquire(t) /\ IdOf[t] = waiting[i][1]

(* No lost wakeup: while some entry may be granted, somebody will look at *)
(* the queue again -- a task of that transfer is awake or signalled, or a *)
(* notification is due, or a permit is alive whose drop will notify.      *)
NoLostWakeup ==
  \A i \in DOMAIN waiting :
    FirstRunnable(i) =>
      \/ notifying # {}
      \/ Holders # {}
      \/ \E t \in Task : /\ IdOf[t] = waiting[i][1]
                         /\ InAcquire(t)
                         /\ pc[t] = "asleep" => t \in woken

(* A queued transfer is granted ahead of every transfer of the same       *)
(* endpoint behind it: acquire scans from the front, so a slot an         *)
(* endpoint has goes to its oldest waiter.                                *)
ServesOldest ==
  \A i \in DOMAIN waiting :
    Len(waiting') < Len(waiting) /\ waiting[i] \notin {waiting'[k] : k \in DOMAIN waiting'}
      => \A j \in 1..(i - 1) : waiting[j][2] # waiting[i][2]

OldestOfEndpointFirst == [][ServesOldest]_vars

(* An entry of the queue is served: no transfer waits for ever, whatever  *)
(* other endpoints do, once the user stops changing limits and order.     *)
EveryEntryIsServed ==
  \A d \in Id : (\E i \in DOMAIN waiting : waiting[i][1] = d)
                  ~> ~(\E i \in DOMAIN waiting : waiting[i][1] = d)

(* A slot is given only while its endpoint is below its limit.  The code   *)
(* does not keep this: the limit it looks at is that of the endpoint in    *)
(* the queue, and the transfer's profile may have been given another.      *)
WithinEndpointLimit ==
  \A e \in Endpoint :
    Cardinality(HoldersAt(e)') > Cardinality(HoldersAt(e))
      => Cardinality(HoldersAt(e)) < limits.perEndpoint

EndpointLimitIsKept == [][WithinEndpointLimit]_vars

(* The scheduler is a slot pool: its holders are the tasks with a permit,  *)
(* and what is asked of it are the entries of the queue.                   *)
Slots == INSTANCE SlotPool WITH holders <- Holders, at <- endpoint,
                                asking <- {waiting[i] : i \in DOMAIN waiting}

SlotPoolSpec == Slots!Spec

=============================================================================
