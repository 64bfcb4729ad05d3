---------------------- MODULE TransferSchedulerProofs ----------------------
(***************************************************************************)
(* Theorems about the transfer scheduler, for every set of tasks, every    *)
(* assignment of transfers to tasks, every endpoint a profile may name at  *)
(* the time, every limit.                                                  *)
(***************************************************************************)
EXTENDS TransferScheduler, FiniteSetTheorems, SequenceTheorems, TLAPS

-----------------------------------------------------------------------------
(* Taking an entry out of the queue keeps the others, in their order. *)
LEMMA RemoveAtProperties ==
  ASSUME NEW S, NEW s \in Seq(S), NEW i \in DOMAIN s
  PROVE  /\ RemoveAt(s, i) \in Seq(S)
         /\ Len(RemoveAt(s, i)) = Len(s) - 1
         /\ \A k \in 1..(Len(s) - 1) :
              RemoveAt(s, i)[k] = IF k < i THEN s[k] ELSE s[k + 1]
  <1> DEFINE front == SubSeq(s, 1, i - 1)
             back  == SubSeq(s, i + 1, Len(s))
  <1>1. i \in 1..Len(s) /\ Len(s) \in Nat
    BY LenProperties
  <1>2. \A k \in 1..Len(s) : s[k] \in S
    BY ElementOfSeq
  <1>3. /\ front \in Seq(S)
        /\ Len(front) = i - 1
        /\ \A k \in 1..(i - 1) : front[k] = s[k]
    BY <1>1, <1>2, SubSeqProperties
  <1>4. /\ back \in Seq(S)
        /\ Len(back) = Len(s) - i
        /\ \A k \in 1..(Len(s) - i) : back[k] = s[i + k]
    BY <1>1, <1>2, SubSeqProperties
  <1>5. RemoveAt(s, i) = front \o back
    BY DEF RemoveAt
  <1> HIDE DEF front, back
  <1>6. /\ front \o back \in Seq(S)
        /\ Len(front \o back) = (i - 1) + (Len(s) - i)
        /\ \A k \in 1..((i - 1) + (Len(s) - i)) :
             (front \o back)[k] = IF k <= i - 1 THEN front[k]
                                                ELSE back[k - (i - 1)]
    <2>1. /\ front \o back \in Seq(S)
          /\ Len(front \o back) = Len(front) + Len(back)
          /\ \A k \in 1..(Len(front) + Len(back)) :
               (front \o back)[k] = IF k <= Len(front) THEN front[k]
                                                      ELSE back[k - Len(front)]
      BY <1>3, <1>4, ConcatProperties, Zenon
    <2>. QED  BY <1>3, <1>4, <2>1
  <1>7. ASSUME NEW k \in 1..(Len(s) - 1)
        PROVE  (front \o back)[k] = IF k < i THEN s[k] ELSE s[k + 1]
    <2>1. k \in 1..((i - 1) + (Len(s) - i)) /\ (k <= i - 1 <=> k < i)
      BY <1>1
    <2>2. CASE k < i
      <3>1. k \in 1..(i - 1)
        BY <1>1, <2>2
      <3>. QED  BY <1>3, <1>6, <2>1, <2>2, <3>1
    <2>3. CASE ~(k < i)
      <3>1. k - (i - 1) \in 1..(Len(s) - i) /\ i + (k - (i - 1)) = k + 1
        BY <1>1, <2>3
      <3>. QED  BY <1>4, <1>6, <2>1, <2>3, <3>1
    <2>. QED  BY <2>2, <2>3
  <1>8. (i - 1) + (Len(s) - i) = Len(s) - 1
    BY <1>1
  <1>. QED  BY <1>5, <1>6, <1>7, <1>8

-----------------------------------------------------------------------------
(* Type correctness. *)

LEMMA InitialEndpoints ==
  Init => \A t \in Task : endpoint[t] \in EndpointsOf[IdOf[t]] /\ endpoint[t] \in Endpoint
  <1> SUFFICES ASSUME Init, NEW t \in Task
               PROVE  endpoint[t] \in EndpointsOf[IdOf[t]] /\ endpoint[t] \in Endpoint
    OBVIOUS
  <1>1. EndpointsOf[IdOf[t]] # {} /\ EndpointsOf[IdOf[t]] \subseteq Endpoint
    <2>1. IdOf[t] \in Id /\ EndpointsOf \in [Id -> (SUBSET Endpoint) \ {{}}]
      BY ConstantsAssumption
    <2>2. EndpointsOf[IdOf[t]] \in (SUBSET Endpoint) \ {{}}
      BY <2>1
    <2>. QED  BY <2>2
  <1>2. PICK S : S = EndpointsOf[IdOf[t]]
    OBVIOUS
  <1>3. (CHOOSE e \in S : TRUE) \in S
    BY <1>1, <1>2
  <1>. QED  BY <1>1, <1>2, <1>3 DEF Init

(* Every variable of the scheduler keeps its type: in particular the      *)
(* counters never leave the naturals.                                     *)
THEOREM Typing == Spec => []TypeOK
  <1>1. Init => TypeOK
    <2> SUFFICES ASSUME Init  PROVE TypeOK
      OBVIOUS
    <2>1. \A t \in Task : endpoint[t] \in Endpoint
      BY InitialEndpoints, ConstantsAssumption
    <2>2. endpoint \in [Task -> Endpoint]
      BY <2>1 DEF Init
    <2>. QED  BY <2>2, ConstantsAssumption DEF Init, TypeOK, PC, Entry
  <1>2. TypeOK /\ [Next]_vars => TypeOK'
    <2> SUFFICES ASSUME TypeOK, [Next]_vars  PROVE TypeOK'
      OBVIOUS
    <2> USE ConstantsAssumption DEF TypeOK, PC
    <2>1. ASSUME NEW t \in Task, Enqueue(t)  PROVE TypeOK'
      <3>1. PICK e \in EndpointsOf[IdOf[t]] :
              /\ endpoint' = [endpoint EXCEPT ![t] = e]
              /\ waiting' = waiting \/ waiting' = Append(waiting, <<IdOf[t], e>>)
        BY <2>1 DEF Enqueue
      <3>2. e \in Endpoint /\ <<IdOf[t], e>> \in Entry
        BY DEF Entry
      <3>3. waiting' \in Seq(Entry)
        <4>1. PICK new \in Entry : new = <<IdOf[t], e>>
          BY <3>2
        <4>2. Append(waiting, new) \in Seq(Entry)
          BY <4>1, AppendProperties
        <4>. QED  BY <3>1, <4>1, <4>2
      <3>4. endpoint' \in [Task -> Endpoint]
        BY <3>1, <3>2
      <3>. QED  BY <2>1, <3>3, <3>4 DEF Enqueue
    <2>2. ASSUME NEW t \in Task, Arm(t)  PROVE TypeOK'
      BY <2>2 DEF Arm
    <2>3. ASSUME NEW t \in Task, Grant(t)  PROVE TypeOK'
      <3>1. waiting' \in Seq(Entry)
        BY <2>3, RemoveAtProperties DEF Grant
      <3>. QED  BY <2>3, <3>1 DEF Grant
    <2>4. ASSUME NEW t \in Task, Sleep(t)  PROVE TypeOK'
      BY <2>4 DEF Sleep
    <2>5. ASSUME NEW t \in Task, Wake(t)  PROVE TypeOK'
      BY <2>5 DEF Wake
    <2>6. ASSUME NEW t \in Task, Release(t)  PROVE TypeOK'
      BY <2>6 DEF Release, SaturatingDec
    <2>7. ASSUME NEW a \in Task \cup Caller, Notify(a)  PROVE TypeOK'
      BY <2>7 DEF Notify
    <2>8. ASSUME NEW a \in Caller, UpdateLimits(a)  PROVE TypeOK'
      BY <2>8 DEF UpdateLimits
    <2>9. ASSUME NEW a \in Caller, SetWaitingOrder(a)  PROVE TypeOK'
      <3>1. PICK p \in Rearrangement(Len(waiting)) :
              waiting' = [i \in 1..Len(waiting) |-> waiting[p[i]]]
        BY <2>9 DEF SetWaitingOrder
      <3>2. waiting' \in Seq(Entry)
        <4>1. \A i \in 1..Len(waiting) : waiting[p[i]] \in Entry
          <5>1. p \in [1..Len(waiting) -> 1..Len(waiting)]
            BY <3>1 DEF Rearrangement
          <5>2. \A k \in 1..Len(waiting) : waiting[k] \in Entry
            OBVIOUS
          <5>. QED  BY <5>1, <5>2
        <4>. QED  BY <3>1, <4>1
      <3>. QED  BY <2>9, <3>2 DEF SetWaitingOrder
    <2>10. CASE UNCHANGED vars
      BY <2>10 DEF vars
    <2>. QED  BY <2>1, <2>2, <2>3, <2>4, <2>5, <2>6, <2>7, <2>8, <2>9, <2>10
              DEF Next, TaskStep
  <1>. QED  BY <1>1, <1>2, PTL DEF Spec

-----------------------------------------------------------------------------
(* There are finitely many permits alive, there being finitely many tasks. *)
LEMMA HoldersFinite ==
  /\ IsFiniteSet(Holders)
  /\ \A e : IsFiniteSet(HoldersAt(e))
  BY ConstantsAssumption, FS_Subset DEF Holders, HoldersAt

(* A step that neither grants nor drops a permit and leaves the counters  *)
(* alone keeps them in balance.                                           *)
LEMMA SameHolders ==
  ASSUME Accounting, Holders' = Holders,
         \A t \in Holders : endpoint'[t] = endpoint[t],
         UNCHANGED <<active_global, active_by_endpoint>>
  PROVE  Accounting'
  BY DEF Accounting, HoldersAt

(* The counters are the permits that are alive (Accounting). *)
THEOREM CountersAreExact == Spec => []Accounting
  <1>1. Init => Accounting
    <2> SUFFICES ASSUME Init  PROVE Accounting
      OBVIOUS
    <2>1. Holders = {} /\ \A e : HoldersAt(e) = {}
      BY DEF Init, Holders, HasSlot, HoldersAt
    <2>. QED  BY <2>1, FS_EmptySet DEF Init, Accounting
  <1>2. TypeOK /\ Accounting /\ [Next]_vars => Accounting'
    <2> SUFFICES ASSUME TypeOK, Accounting, [Next]_vars  PROVE Accounting'
      OBVIOUS
    <2>1. ASSUME NEW t \in Task,
                 Enqueue(t) \/ Arm(t) \/ Sleep(t) \/ Wake(t)
          PROVE  Accounting'
      <3>1. Holders' = Holders
        BY <2>1 DEF TypeOK, Enqueue, Arm, Sleep, Wake, Holders, HasSlot
      <3>2. /\ UNCHANGED <<active_global, active_by_endpoint>>
            /\ \A u \in Holders : endpoint'[u] = endpoint[u]
        BY <2>1 DEF TypeOK, Enqueue, Arm, Sleep, Wake, Holders, HasSlot
      <3>. QED  BY <3>1, <3>2, SameHolders
    <2>2. ASSUME NEW t \in Task, Grant(t)  PROVE Accounting'
      <3>1. t \notin Holders /\ Holders' = Holders \cup {t} /\ endpoint' = endpoint
        BY <2>2 DEF TypeOK, Grant, Holders, HasSlot
      <3>2. active_global' = Cardinality(Holders')
        BY <2>2, <3>1, HoldersFinite, FS_AddElement DEF Accounting, Grant
      <3>3. ASSUME NEW e \in Endpoint
            PROVE  active_by_endpoint'[e] = Cardinality(HoldersAt(e)')
        <4>1. CASE e = endpoint[t]
          <5>1. /\ t \notin HoldersAt(e)
                /\ HoldersAt(e)' = HoldersAt(e) \cup {t}
            BY <3>1, <4>1 DEF HoldersAt
          <5>2. active_by_endpoint'[e] = active_by_endpoint[e] + 1
            BY <2>2, <4>1 DEF Grant, TypeOK
          <5>. QED  BY <5>1, <5>2, HoldersFinite, FS_AddElement DEF Accounting
        <4>2. CASE e # endpoint[t]
          <5>1. HoldersAt(e)' = HoldersAt(e)
            BY <3>1, <4>2 DEF HoldersAt
          <5>2. active_by_endpoint'[e] = active_by_endpoint[e]
            BY <2>2, <4>2 DEF Grant, TypeOK
          <5>. QED  BY <5>1, <5>2 DEF Accounting
        <4>. QED  BY <4>1, <4>2
      <3>. QED  BY <3>2, <3>3 DEF Accounting
    <2>3. ASSUME NEW t \in Task, Release(t)  PROVE Accounting'
      <3>1. t \in Holders /\ Holders' = Holders \ {t} /\ endpoint' = endpoint
        BY <2>3 DEF TypeOK, Release, Holders, HasSlot
      <3>2. active_global' = Cardinality(Holders')
        <4>1. Cardinality(Holders') = Cardinality(Holders) - 1
          BY <3>1, HoldersFinite, FS_RemoveElement
        <4>2. Cardinality(Holders) # 0
          BY <3>1, HoldersFinite, FS_EmptySet
        <4>. QED  BY <2>3, <4>1, <4>2 DEF Accounting, Release, SaturatingDec
      <3>3. ASSUME NEW e \in Endpoint
            PROVE  active_by_endpoint'[e] = Cardinality(HoldersAt(e)')
        <4>1. CASE e = endpoint[t]
          <5>1. t \in HoldersAt(e) /\ HoldersAt(e)' = HoldersAt(e) \ {t}
            BY <3>1, <4>1 DEF HoldersAt
          <5>2. Cardinality(HoldersAt(e)') = Cardinality(HoldersAt(e)) - 1
            BY <5>1, HoldersFinite, FS_RemoveElement
          <5>3. Cardinality(HoldersAt(e)) # 0
            BY <5>1, HoldersFinite, FS_EmptySet
          <5>4. active_by_endpoint'[e] = SaturatingDec(active_by_endpoint[e])
            BY <2>3, <4>1 DEF Release, TypeOK
          <5>. QED  BY <5>2, <5>3, <5>4 DEF Accounting, SaturatingDec
        <4>2. CASE e # endpoint[t]
          <5>1. HoldersAt(e)' = HoldersAt(e)
            BY <3>1, <4>2 DEF HoldersAt
          <5>2. active_by_endpoint'[e] = active_by_endpoint[e]
            BY <2>3, <4>2 DEF Release, TypeOK
          <5>. QED  BY <5>1, <5>2 DEF Accounting
        <4>. QED  BY <4>1, <4>2
      <3>. QED  BY <3>2, <3>3 DEF Accounting
    <2>4. ASSUME NEW a, Notify(a) \/ UpdateLimits(a) \/ SetWaitingOrder(a)
          PROVE  Accounting'
      <3>1. Holders' = Holders
        BY <2>4 DEF Notify, UpdateLimits, SetWaitingOrder, Holders, HasSlot
      <3>2. UNCHANGED <<active_global, active_by_endpoint, endpoint>>
        BY <2>4 DEF Notify, UpdateLimits, SetWaitingOrder
      <3>. QED  BY <3>1, <3>2, SameHolders
    <2>5. CASE UNCHANGED vars
      BY <2>5, SameHolders DEF vars, Holders, HasSlot
    <2>. QED  BY <2>1, <2>2, <2>3, <2>4, <2>5 DEF Next, TaskStep
  <1>. QED  BY <1>1, <1>2, Typing, PTL DEF Spec

-----------------------------------------------------------------------------
(* The queue. *)

(* Rearranging the queue moves every entry to one new place.              *)
LEMMA RearrangedQueue ==
  ASSUME TypeOK, NEW p \in Rearrangement(Len(waiting)),
         waiting' = [i \in 1..Len(waiting) |-> waiting[p[i]]]
  PROVE  /\ DOMAIN waiting' = DOMAIN waiting
         /\ \A i \in DOMAIN waiting' :
              p[i] \in DOMAIN waiting /\ waiting'[i] = waiting[p[i]]
         /\ \A i, j \in DOMAIN waiting' : p[i] = p[j] => i = j
  <1>1. DOMAIN waiting = 1..Len(waiting) /\ DOMAIN waiting' = 1..Len(waiting)
    BY DEF TypeOK
  <1>2. /\ p \in [1..Len(waiting) -> 1..Len(waiting)]
        /\ \A i, j \in 1..Len(waiting) : p[i] = p[j] => i = j
    BY DEF Rearrangement
  <1>. QED  BY <1>1, <1>2

(* A grant takes the first runnable entry, which is the task's, out of the *)
(* queue and moves the entries behind it one place forward.               *)
LEMMA ShortenedQueue ==
  ASSUME TypeOK, NEW t \in Task, Grant(t)
  PROVE  \E i \in DOMAIN waiting :
           /\ FirstRunnable(i)
           /\ waiting[i][1] = IdOf[t]
           /\ Len(waiting') = Len(waiting) - 1
           /\ DOMAIN waiting' = 1..(Len(waiting) - 1)
           /\ \A k \in DOMAIN waiting' :
                /\ k \in DOMAIN waiting /\ k + 1 \in DOMAIN waiting
                /\ waiting'[k] = IF k < i THEN waiting[k] ELSE waiting[k + 1]
  <1>1. PICK i \in DOMAIN waiting :
          /\ FirstRunnable(i)
          /\ waiting[i][1] = IdOf[t]
          /\ waiting' = RemoveAt(waiting, i)
    BY DEF Grant
  <1>2. waiting \in Seq(Entry)
    BY DEF TypeOK
  <1>3. /\ waiting' \in Seq(Entry)
        /\ Len(waiting') = Len(waiting) - 1
        /\ \A k \in 1..(Len(waiting) - 1) :
             waiting'[k] = IF k < i THEN waiting[k] ELSE waiting[k + 1]
    BY <1>1, <1>2, RemoveAtProperties
  <1>4. DOMAIN waiting' = 1..(Len(waiting) - 1)
    BY <1>3
  <1>5. \A k \in 1..(Len(waiting) - 1) :
          k \in DOMAIN waiting /\ k + 1 \in DOMAIN waiting
    BY <1>2
  <1>. QED  BY <1>1, <1>3, <1>4, <1>5

(* A transfer has at most one entry in the queue, and a task that will    *)
(* take it (NoGhostEntries).                                              *)
THEOREM QueueHasNoGhosts == Spec => []NoGhostEntries
  <1>1. Init => NoGhostEntries
    BY DEF Init, NoGhostEntries
  <1>2. TypeOK /\ NoGhostEntries /\ [Next]_vars => NoGhostEntries'
    <2> SUFFICES ASSUME TypeOK, NoGhostEntries, [Next]_vars
                 PROVE  NoGhostEntries'
      OBVIOUS
    <2>1. ASSUME NEW t \in Task, Enqueue(t)  PROVE NoGhostEntries'
      <3>1. /\ InAcquire(t)'
            /\ \A u \in Task : InAcquire(u) => InAcquire(u)'
        BY <2>1 DEF Enqueue, TypeOK, InAcquire
      <3>2. CASE \E i \in DOMAIN waiting : waiting[i][1] = IdOf[t]
        <4>1. waiting' = waiting
          BY <2>1, <3>2 DEF Enqueue
        <4>. QED  BY <3>1, <4>1 DEF NoGhostEntries
      <3>3. CASE ~ \E i \in DOMAIN waiting : waiting[i][1] = IdOf[t]
        <4>1. PICK e : waiting' = Append(waiting, <<IdOf[t], e>>)
          BY <2>1, <3>3 DEF Enqueue
        <4>2. /\ DOMAIN waiting' = 1..(Len(waiting) + 1)
              /\ DOMAIN waiting = 1..Len(waiting)
              /\ Len(waiting) \in Nat
              /\ waiting'[Len(waiting) + 1] = <<IdOf[t], e>>
              /\ \A i \in DOMAIN waiting : waiting'[i] = waiting[i]
          BY <4>1 DEF TypeOK
        <4>3. waiting'[Len(waiting) + 1][1] = IdOf[t]
          BY <4>2
        <4>4. \A i \in DOMAIN waiting' :
                i \in DOMAIN waiting \/ i = Len(waiting) + 1
          BY <4>2
        <4>. QED  BY <3>1, <3>3, <4>2, <4>3, <4>4 DEF NoGhostEntries
      <3>. QED  BY <3>2, <3>3
    <2>2. ASSUME NEW t \in Task, Arm(t) \/ Sleep(t) \/ Wake(t)
          PROVE  NoGhostEntries'
      <3>1. waiting' = waiting
        BY <2>2 DEF Arm, Sleep, Wake
      <3>2. \A u \in Task : InAcquire(u) => InAcquire(u)'
        BY <2>2 DEF Arm, Sleep, Wake, TypeOK, InAcquire
      <3>. QED  BY <3>1, <3>2 DEF NoGhostEntries
    <2>3. ASSUME NEW t \in Task, Grant(t)  PROVE NoGhostEntries'
      <3>1. PICK i \in DOMAIN waiting :
              /\ waiting[i][1] = IdOf[t]
              /\ DOMAIN waiting' = 1..(Len(waiting) - 1)
              /\ \A k \in DOMAIN waiting' :
                   /\ k \in DOMAIN waiting /\ k + 1 \in DOMAIN waiting
                   /\ waiting'[k] = IF k < i THEN waiting[k]
                                             ELSE waiting[k + 1]
        BY <2>3, ShortenedQueue
      <3>2. \A u \in Task \ {t} : InAcquire(u) => InAcquire(u)'
        BY <2>3 DEF Grant, TypeOK, InAcquire
      <3> DEFINE old(k) == IF k < i THEN k ELSE k + 1
      <3>3. \A k \in DOMAIN waiting' :
              /\ old(k) \in DOMAIN waiting
              /\ old(k) # i
              /\ waiting'[k] = waiting[old(k)]
        <4>1. \A k \in DOMAIN waiting' : k \in Int
          BY <3>1
        <4>2. i \in Int
          BY DEF TypeOK
        <4>. QED  BY <3>1, <4>1, <4>2
      <3>4. \A j, k \in DOMAIN waiting' : old(j) = old(k) => j = k
        <4>1. i \in Int /\ \A k \in DOMAIN waiting' : k \in Int
          BY <3>1 DEF TypeOK
        <4>. QED  BY <4>1
      <3> HIDE DEF old
      <3>5. \A k \in DOMAIN waiting' : waiting'[k][1] # IdOf[t]
        BY <3>1, <3>3 DEF NoGhostEntries
      <3>6. \A k \in DOMAIN waiting' :
              \E u \in Task : InAcquire(u)' /\ IdOf[u] = waiting'[k][1]
        BY <3>2, <3>3, <3>5 DEF NoGhostEntries
      <3>7. \A j, k \in DOMAIN waiting' :
              waiting'[j][1] = waiting'[k][1] => j = k
        BY <3>3, <3>4 DEF NoGhostEntries
      <3>. QED  BY <3>6, <3>7 DEF NoGhostEntries
    <2>4. ASSUME NEW t \in Task, Release(t)  PROVE NoGhostEntries'
      <3>1. waiting' = waiting
        BY <2>4 DEF Release
      <3>2. \A u \in Task : InAcquire(u) => InAcquire(u)'
        BY <2>4 DEF Release, TypeOK, InAcquire
      <3>. QED  BY <3>1, <3>2 DEF NoGhostEntries
    <2>5. ASSUME NEW a, Notify(a) \/ UpdateLimits(a)  PROVE NoGhostEntries'
      BY <2>5 DEF Notify, UpdateLimits, NoGhostEntries, InAcquire
    <2>6. ASSUME NEW a, SetWaitingOrder(a)  PROVE NoGhostEntries'
      <3>1. PICK p \in Rearrangement(Len(waiting)) :
              waiting' = [i \in 1..Len(waiting) |-> waiting[p[i]]]
        BY <2>6 DEF SetWaitingOrder
      <3>2. /\ \A i \in DOMAIN waiting' :
                 p[i] \in DOMAIN waiting /\ waiting'[i] = waiting[p[i]]
            /\ \A i, j \in DOMAIN waiting' : p[i] = p[j] => i = j
        BY <3>1, RearrangedQueue
      <3>3. \A u \in Task : InAcquire(u) <=> InAcquire(u)'
        BY <2>6 DEF SetWaitingOrder, InAcquire
      <3>. QED  BY <3>2, <3>3 DEF NoGhostEntries
    <2>7. CASE UNCHANGED vars
      BY <2>7 DEF vars, NoGhostEntries, InAcquire
    <2>. QED  BY <2>1, <2>2, <2>3, <2>4, <2>5, <2>6, <2>7 DEF Next, TaskStep
  <1>. QED  BY <1>1, <1>2, Typing, PTL DEF Spec

-----------------------------------------------------------------------------
(* Wakeups. *)

(* No wakeup is lost (NoLostWakeup).  It is inductive once the queue has  *)
(* no ghosts: a notification reaches a task for every entry, and between  *)
(* notifications only a grant, which leaves a permit alive, can make      *)
(* another entry the first runnable one.                                  *)
THEOREM WakeupsAreNotLost == Spec => []NoLostWakeup
  <1>1. Init => NoLostWakeup
    BY DEF Init, NoLostWakeup
  <1>2. TypeOK /\ NoGhostEntries /\ NoLostWakeup /\ [Next]_vars
          => NoLostWakeup'
    <2> SUFFICES ASSUME TypeOK, NoGhostEntries, NoLostWakeup, [Next]_vars,
                        NEW i \in DOMAIN waiting', FirstRunnable(i)',
                        notifying' = {}, Holders' = {}
                 PROVE  \E u \in Task :
                          /\ IdOf[u] = waiting'[i][1]
                          /\ InAcquire(u)'
                          /\ pc'[u] = "asleep" => u \in woken'
      BY DEF NoLostWakeup
    <2> DEFINE Witness(u) == /\ IdOf[u] = waiting[i][1]
                             /\ InAcquire(u)
                             /\ pc[u] = "asleep" => u \in woken
    <2>1. ASSUME notifying = {}, Holders = {}, i \in DOMAIN waiting,
                 FirstRunnable(i)
          PROVE  \E u \in Task : Witness(u)
      BY <2>1 DEF NoLostWakeup
    <2>2. ASSUME NEW t \in Task, Enqueue(t)  PROVE \E u \in Task : Witness(u)'
      <3>1. notifying = {} /\ Holders = {}
        BY <2>2 DEF Enqueue, Holders, HasSlot, TypeOK
      <3>2. /\ pc'[t] = "arm"
            /\ \A u \in Task \ {t} : pc'[u] = pc[u]
            /\ woken' = woken /\ pc[t] = "idle"
        BY <2>2 DEF Enqueue, TypeOK
      <3>3. CASE waiting' = waiting
        <4>1. FirstRunnable(i)
          BY <2>2, <3>3 DEF Enqueue, FirstRunnable, EntryRunnable
        <4>. QED  BY <2>1, <3>1, <3>2, <3>3, <4>1 DEF InAcquire
      <3>4. ASSUME NEW e, waiting' = Append(waiting, <<IdOf[t], e>>)
            PROVE  \E u \in Task : Witness(u)'
        <4>1. /\ DOMAIN waiting' = 1..(Len(waiting) + 1)
              /\ DOMAIN waiting = 1..Len(waiting)
              /\ Len(waiting) \in Nat
              /\ waiting'[Len(waiting) + 1] = <<IdOf[t], e>>
              /\ \A j \in DOMAIN waiting : waiting'[j] = waiting[j]
          BY <3>4 DEF TypeOK
        <4>2. CASE i = Len(waiting) + 1
          BY <3>2, <4>1, <4>2 DEF InAcquire
        <4>3. CASE i # Len(waiting) + 1
          <5>1. i \in DOMAIN waiting /\ \A j \in 1..(i - 1) : j \in DOMAIN waiting
            BY <4>1, <4>3
          <5>2. FirstRunnable(i)
            BY <2>2, <4>1, <5>1 DEF Enqueue, FirstRunnable, EntryRunnable
          <5>. QED  BY <2>1, <3>1, <3>2, <4>1, <5>1, <5>2 DEF InAcquire
        <4>. QED  BY <4>2, <4>3
      <3>. QED  BY <2>2, <3>3, <3>4 DEF Enqueue
    <2>3. ASSUME NEW t \in Task, Arm(t) \/ Sleep(t) \/ Wake(t)
          PROVE  \E u \in Task : Witness(u)'
      <3>1. notifying = {} /\ Holders = {}
        BY <2>3 DEF Arm, Sleep, Wake, Holders, HasSlot, TypeOK
      <3>2. waiting' = waiting /\ FirstRunnable(i) /\ i \in DOMAIN waiting
        BY <2>3 DEF Arm, Sleep, Wake, FirstRunnable, EntryRunnable
      <3>3. PICK u \in Task : Witness(u)
        BY <2>1, <3>1, <3>2
      <3>4. CASE u # t
        BY <2>3, <3>2, <3>3, <3>4 DEF Arm, Sleep, Wake, TypeOK, InAcquire
      <3>5. CASE u = t
        <4>1. ~Sleep(t)
          BY <3>2, <3>3, <3>5 DEF Sleep
        <4>. QED  BY <2>3, <3>2, <3>3, <3>5, <4>1 DEF Arm, Wake, TypeOK, InAcquire
      <3>. QED  BY <3>4, <3>5
    <2>4. ASSUME NEW t \in Task, Grant(t)  PROVE FALSE
      BY <2>4 DEF Grant, Holders, HasSlot, TypeOK
    <2>5. ASSUME NEW t \in Task, Release(t)  PROVE FALSE
      BY <2>5 DEF Release
    <2>6. ASSUME NEW a, Notify(a)  PROVE \E u \in Task : Witness(u)'
      <3>1. waiting' = waiting /\ pc' = pc
        BY <2>6 DEF Notify
      <3>2. PICK u \in Task : InAcquire(u) /\ IdOf[u] = waiting[i][1]
        BY <3>1 DEF NoGhostEntries
      <3>3. pc[u] = "asleep" => u \in woken'
        BY <2>6 DEF Notify
      <3>. QED  BY <3>1, <3>2, <3>3 DEF InAcquire
    <2>7. ASSUME NEW a, UpdateLimits(a) \/ SetWaitingOrder(a)  PROVE FALSE
      BY <2>7 DEF UpdateLimits, SetWaitingOrder
    <2>8. CASE UNCHANGED vars
      <3>1. notifying = {} /\ Holders = {} /\ i \in DOMAIN waiting
        BY <2>8 DEF vars, Holders, HasSlot
      <3>2. FirstRunnable(i)
        BY <2>8 DEF vars, FirstRunnable, EntryRunnable
      <3>. QED  BY <2>1, <2>8, <3>1, <3>2 DEF vars, InAcquire
    <2>. QED  BY <2>2, <2>3, <2>4, <2>5, <2>6, <2>7, <2>8 DEF Next, TaskStep
  <1>. QED  BY <1>1, <1>2, Typing, QueueHasNoGhosts, PTL DEF Spec

-----------------------------------------------------------------------------
(* The scheduler implements the slot pool. *)

(* The instance counts as this module does. *)
LEMMA SameCardinality == \A S : Slots!Cardinality(S) = Cardinality(S)
  BY DEF Slots!Cardinality, Cardinality

(* What is asked of the pool. *)
Asked == {waiting[i] : i \in DOMAIN waiting}

(* ... and every place gets an entry: nothing is lost or doubled.          *)
LEMMA RearrangedOntoQueue ==
  ASSUME TypeOK, NEW p \in Rearrangement(Len(waiting)),
         waiting' = [i \in 1..Len(waiting) |-> waiting[p[i]]]
  PROVE  Asked' = Asked
  <1>1. PICK n \in Nat : n = Len(waiting) /\ DOMAIN waiting = 1..n /\ DOMAIN waiting' = 1..n
    BY DEF TypeOK
  <1>2. PICK S : S = 1..n
    OBVIOUS
  <1>3. p \in Injection(S, S)
    BY <1>1, <1>2 DEF Rearrangement, Injection, IsInjective
  <1>4. IsFiniteSet(S)
    BY <1>2, FS_Interval
  <1>5. p \in Surjection(S, S)
    BY <1>3, <1>4, FS_Injection
  <1>6. \A k \in S : \E i \in S : p[i] = k
    BY <1>5 DEF Surjection
  <1>7. \A i \in S : p[i] \in S /\ waiting'[i] = waiting[p[i]]
    BY <1>1, <1>2, RearrangedQueue
  <1>. QED  BY <1>1, <1>2, <1>6, <1>7 DEF Asked

(* A permit is handed out to a transfer that asks for one, while the       *)
(* limits of the moment allow one more, globally and where it was asked.   *)
LEMMA GrantTakes ==
  ASSUME TypeOK, Accounting, NoGhostEntries, NEW t \in Task, Grant(t)
  PROVE  Slots!Take(t)
  <1>1. t \notin Holders /\ Holders' = Holders \cup {t} /\ UNCHANGED <<limits, endpoint>>
    BY DEF TypeOK, Grant, Holders, HasSlot
  <1>2. PICK i \in DOMAIN waiting :
          /\ FirstRunnable(i)
          /\ waiting[i][1] = IdOf[t]
          /\ DOMAIN waiting' = 1..(Len(waiting) - 1)
          /\ \A k \in DOMAIN waiting' :
               /\ k \in DOMAIN waiting /\ k + 1 \in DOMAIN waiting
               /\ waiting'[k] = IF k < i THEN waiting[k] ELSE waiting[k + 1]
    BY ShortenedQueue
  <1>3. EntryRunnable(i) /\ waiting[i][2] \in Endpoint
    BY <1>2 DEF FirstRunnable, TypeOK, Entry
  <1>4. Cardinality(Holders) < limits.global
    BY <1>3 DEF EntryRunnable, Accounting
  <1>5. Cardinality(Slots!HoldersAt(waiting[i][2])) < limits.perEndpoint
    <2>1. Slots!HoldersAt(waiting[i][2]) = HoldersAt(waiting[i][2])
      BY DEF Slots!HoldersAt, HoldersAt
    <2>. QED  BY <1>3, <2>1 DEF EntryRunnable, Accounting
  <1>6. Asked' = Asked \ {waiting[i]}
    <2>1. DOMAIN waiting = 1..Len(waiting) /\ Len(waiting) \in Nat
      BY DEF TypeOK
    <2>2. ASSUME NEW k \in DOMAIN waiting'
          PROVE  \E m \in DOMAIN waiting : m # i /\ waiting'[k] = waiting[m]
      <3>1. CASE k < i
        BY <1>2, <2>1, <3>1
      <3>2. CASE ~(k < i)
        BY <1>2, <2>1, <3>2
      <3>. QED  BY <3>1, <3>2
    <2>3. ASSUME NEW m \in DOMAIN waiting, m # i
          PROVE  \E k \in DOMAIN waiting' : waiting'[k] = waiting[m]
      <3>1. CASE m < i
        <4>1. m \in DOMAIN waiting'
          BY <1>2, <2>1, <3>1
        <4>. QED  BY <1>2, <3>1, <4>1
      <3>2. CASE i < m
        <4>1. m - 1 \in DOMAIN waiting' /\ ~(m - 1 < i) /\ (m - 1) + 1 = m
          BY <1>2, <2>1, <3>2
        <4>. QED  BY <1>2, <4>1
      <3>. QED  BY <2>1, <2>3, <3>1, <3>2
    <2>4. \A m \in DOMAIN waiting : m # i => waiting[m] # waiting[i]
      BY DEF NoGhostEntries
    <2>. QED  BY <2>2, <2>3, <2>4 DEF Asked
  <1>7. waiting[i] \in Asked
    BY DEF Asked
  <1>. QED  BY <1>1, <1>2, <1>4, <1>5, <1>6, <1>7, SameCardinality
            DEF Slots!Take, Asked

(* A task that calls acquire asks, unless its transfer has asked already.  *)
LEMMA EnqueueAsks ==
  ASSUME TypeOK, NEW t \in Task, Enqueue(t)
  PROVE  Slots!Ask(t)
  <1>1. t \notin Holders /\ Holders' = Holders /\ limits' = limits
    BY DEF TypeOK, Enqueue, Holders, HasSlot
  <1>2. PICK e \in EndpointsOf[IdOf[t]] :
          /\ endpoint' = [endpoint EXCEPT ![t] = e]
          /\ waiting' = IF \E i \in DOMAIN waiting : waiting[i][1] = IdOf[t]
                        THEN waiting
                        ELSE Append(waiting, <<IdOf[t], e>>)
    BY DEF Enqueue
  <1>3. Asked' = IF \E q \in Asked : q[1] = IdOf[t]
                 THEN Asked ELSE Asked \cup {<<IdOf[t], e>>}
    <2>1. (\E q \in Asked : q[1] = IdOf[t])
            <=> (\E i \in DOMAIN waiting : waiting[i][1] = IdOf[t])
      BY DEF Asked
    <2>2. CASE \E i \in DOMAIN waiting : waiting[i][1] = IdOf[t]
      BY <1>2, <2>1, <2>2 DEF Asked
    <2>3. CASE ~ \E i \in DOMAIN waiting : waiting[i][1] = IdOf[t]
      <3>1. PICK new : new = <<IdOf[t], e>>
        OBVIOUS
      <3>2. waiting' = Append(waiting, new)
        BY <1>2, <2>3, <3>1
      <3>3. /\ DOMAIN waiting' = 1..(Len(waiting) + 1)
            /\ DOMAIN waiting = 1..Len(waiting)
            /\ Len(waiting) \in Nat
            /\ waiting'[Len(waiting) + 1] = new
            /\ \A i \in DOMAIN waiting : waiting'[i] = waiting[i]
        BY <3>2 DEF TypeOK
      <3>4. \A i \in DOMAIN waiting' : i \in DOMAIN waiting \/ i = Len(waiting) + 1
        BY <3>3
      <3>5. /\ \A i \in DOMAIN waiting : i \in DOMAIN waiting'
            /\ Len(waiting) + 1 \in DOMAIN waiting'
        BY <3>3
      <3>6. Asked' = Asked \cup {new}
        BY <3>3, <3>4, <3>5 DEF Asked
      <3>. QED  BY <2>1, <2>3, <3>1, <3>6
    <2>. QED  BY <2>2, <2>3
  <1>. QED  BY <1>1, <1>2, <1>3 DEF Slots!Ask, Asked

(* The scheduler is a slot pool (SlotPoolSpec): a permit is handed out     *)
(* only to a transfer that asks for one, and only while the limits of the  *)
(* moment allow one more, globally and for the endpoint it asked for.      *)
THEOREM ImplementsSlotPool == Spec => SlotPoolSpec
  <1>1. Init => Slots!Init
    BY InitialEndpoints, ConstantsAssumption
    DEF Init, Slots!Init, Slots!Limit, Limit, Holders, HasSlot
  <1>2. /\ TypeOK /\ Accounting /\ NoGhostEntries /\ [Next]_vars
        => [Slots!Next]_(Slots!vars)
    <2> SUFFICES ASSUME TypeOK, Accounting, NoGhostEntries, [Next]_vars
                 PROVE  [Slots!Next]_(Slots!vars)
      OBVIOUS
    <2>1. ASSUME Holders' = Holders, UNCHANGED <<limits, endpoint, waiting>>
          PROVE  UNCHANGED Slots!vars
      BY <2>1 DEF Slots!vars
    <2>2. ASSUME NEW t \in Task, Arm(t) \/ Sleep(t) \/ Wake(t)
          PROVE  UNCHANGED Slots!vars
      <3>1. Holders' = Holders
        BY <2>2 DEF TypeOK, Arm, Sleep, Wake, Holders, HasSlot
      <3>. QED  BY <2>1, <2>2, <3>1 DEF Arm, Sleep, Wake
    <2>3. ASSUME NEW t \in Task, Enqueue(t)  PROVE Slots!Ask(t)
      BY <2>3, EnqueueAsks
    <2>4. ASSUME NEW t \in Task, Grant(t)  PROVE Slots!Take(t)
      BY <2>4, GrantTakes
    <2>5. ASSUME NEW t \in Task, Release(t)  PROVE Slots!Return(t)
      <3>1. t \in Holders /\ Holders' = Holders \ {t}
        BY <2>5 DEF TypeOK, Release, Holders, HasSlot
      <3>. QED  BY <2>5, <3>1 DEF Release, Slots!Return
    <2>6. ASSUME NEW a, UpdateLimits(a)  PROVE Slots!SetLimits
      <3>1. Holders' = Holders
        BY <2>6 DEF UpdateLimits, Holders, HasSlot
      <3>2. limits' \in Slots!Limit
        BY <2>6, ConstantsAssumption DEF UpdateLimits, Limit, Slots!Limit
      <3>. QED  BY <2>6, <3>1, <3>2 DEF UpdateLimits, Slots!SetLimits
    <2>7. ASSUME NEW a, SetWaitingOrder(a)  PROVE UNCHANGED Slots!vars
      <3>1. PICK p \in Rearrangement(Len(waiting)) :
              waiting' = [i \in 1..Len(waiting) |-> waiting[p[i]]]
        BY <2>7 DEF SetWaitingOrder
      <3>2. Asked' = Asked
        BY <3>1, RearrangedOntoQueue DEF Asked
      <3>3. Holders' = Holders /\ UNCHANGED <<limits, endpoint>>
        BY <2>7 DEF SetWaitingOrder, Holders, HasSlot
      <3>. QED  BY <3>2, <3>3 DEF Slots!vars, Asked
    <2>8. ASSUME NEW a, Notify(a)
          PROVE  UNCHANGED Slots!vars
      BY <2>1, <2>8 DEF Notify, Holders, HasSlot
    <2>9. CASE UNCHANGED vars
      BY <2>1, <2>9 DEF vars, Holders, HasSlot
    <2>. QED  BY <2>2, <2>3, <2>4, <2>5, <2>6, <2>7, <2>8, <2>9
              DEF Next, TaskStep, Slots!Next
  <1>. QED  BY <1>1, <1>2, Typing, CountersAreExact, QueueHasNoGhosts, PTL
            DEF Spec, SlotPoolSpec, Slots!Spec

-----------------------------------------------------------------------------
(* The order of grants. *)

(* Every other step keeps the length of the queue, or adds an entry.       *)
LEMMA OnlyGrantsShorten ==
  ASSUME TypeOK, [Next]_vars, Len(waiting') < Len(waiting)
  PROVE  \E t \in Task : Grant(t)
  <1>1. waiting \in Seq(Entry) /\ Len(waiting) \in Nat
    BY DEF TypeOK
  <1>2. ASSUME UNCHANGED waiting
        PROVE  FALSE
    BY <1>1, <1>2
  <1>3. ASSUME NEW t \in Task, Enqueue(t)
        PROVE  FALSE
    <2>1. PICK at \in EndpointsOf[IdOf[t]] :
            waiting' = waiting \/ waiting' = Append(waiting, <<IdOf[t], at>>)
      BY <1>3 DEF Enqueue
    <2>2. PICK e : e = <<IdOf[t], at>>
      OBVIOUS
    <2>3. /\ e \in Entry
          /\ waiting' = waiting \/ waiting' = Append(waiting, e)
      BY <2>1, <2>2, ConstantsAssumption DEF Entry
    <2>4. Len(Append(waiting, e)) = Len(waiting) + 1
      BY <1>1, <2>3, AppendProperties
    <2>. QED  BY <1>1, <1>2, <2>3, <2>4
  <1>4. ASSUME NEW a \in Caller, SetWaitingOrder(a)
        PROVE  FALSE
    <2>1. PICK p \in Rearrangement(Len(waiting)) :
            waiting' = [i \in 1..Len(waiting) |-> waiting[p[i]]]
      BY <1>4 DEF SetWaitingOrder
    <2>2. DOMAIN waiting' = 1..Len(waiting)
      BY <2>1
    <2>3. Len(waiting') = Len(waiting)
      BY <1>1, <2>1
    <2>. QED  BY <1>1, <2>3
  <1>. QED  BY <1>2, <1>3, <1>4
            DEF Next, TaskStep, Arm, Sleep, Wake, Release, Notify, UpdateLimits, vars

(* Of the entries of one endpoint the first is granted first, whatever the *)
(* limits and however often the user changes the order (acquire).          *)
THEOREM EndpointsAreFair == Spec => OldestOfEndpointFirst
  <1>1. ASSUME TypeOK, [Next]_vars,
               NEW i \in DOMAIN waiting,
               Len(waiting') < Len(waiting),
               waiting[i] \notin {waiting'[k] : k \in DOMAIN waiting'},
               NEW j \in 1..(i - 1)
        PROVE  waiting[j][2] # waiting[i][2]
    <2>1. PICK t \in Task : Grant(t)
      BY <1>1, OnlyGrantsShorten
    <2>2. PICK n \in DOMAIN waiting :
            /\ FirstRunnable(n)
            /\ Len(waiting') = Len(waiting) - 1
            /\ DOMAIN waiting' = 1..(Len(waiting) - 1)
            /\ \A k \in DOMAIN waiting' :
                 waiting'[k] = IF k < n THEN waiting[k] ELSE waiting[k + 1]
      BY <1>1, <2>1, ShortenedQueue
    <2>3. DOMAIN waiting = 1..Len(waiting) /\ Len(waiting) \in Nat
      BY <1>1 DEF TypeOK
    <2>4. i = n
      <3>1. CASE i < n
        <4>1. i \in DOMAIN waiting' /\ waiting'[i] = waiting[i]
          BY <2>2, <2>3, <3>1
        <4>. QED  BY <1>1, <4>1
      <3>2. CASE n < i
        <4>1. i - 1 \in DOMAIN waiting'
          BY <2>2, <2>3, <3>2
        <4>2. waiting'[i - 1] = waiting[i]
          BY <2>2, <2>3, <3>2, <4>1
        <4>. QED  BY <1>1, <4>1, <4>2
      <3>. QED  BY <2>3, <3>1, <3>2
    <2>5. EntryRunnable(i) /\ ~EntryRunnable(j)
      BY <2>2, <2>4 DEF FirstRunnable
    <2>. QED  BY <2>5 DEF EntryRunnable
  <1>2. TypeOK /\ [Next]_vars => [ServesOldest]_vars
    BY <1>1 DEF ServesOldest
  <1>. QED  BY <1>2, Typing, PTL DEF Spec, OldestOfEndpointFirst

===============================================================================
