------------------------- MODULE TransferQueueProofs -------------------------
(***************************************************************************)
(* Theorems about the transfer queue and its rows, for every set of        *)
(* transfers, of commands that run at once and of tables at the start.     *)
(***************************************************************************)
EXTENDS TransferQueue, FiniteSetTheorems, SequenceTheorems, WellFoundedInduction,
        TLAPS

-----------------------------------------------------------------------------
(* Tables: what the operators the model is built from do with them. *)

(* A function from transfers to records is a table.                       *)
LEMMA TableIntro ==
  ASSUME NEW S \in SUBSET Job, NEW t \in [S -> Record]
  PROVE  t \in Tables
  BY DEF Tables

LEMMA TableElim ==
  ASSUME NEW t \in Tables
  PROVE  /\ DOMAIN t \subseteq Job
         /\ t \in [DOMAIN t -> Record]
         /\ \A j \in DOMAIN t : t[j] \in Record
  <1>1. PICK S \in SUBSET Job : t \in [S -> Record]
    BY DEF Tables
  <1>. QED  BY <1>1

(* A part of a table is a table with the same records.                    *)
LEMMA RestrictTable ==
  ASSUME NEW t \in Tables, NEW S, S \subseteq DOMAIN t
  PROVE  /\ Restrict(t, S) \in Tables
         /\ DOMAIN Restrict(t, S) = S
         /\ \A j \in S : Restrict(t, S)[j] = t[j]
  <1>1. S \subseteq Job /\ \A j \in S : t[j] \in Record
    BY TableElim
  <1>2. Restrict(t, S) \in [S -> Record]
    BY <1>1 DEF Restrict
  <1>3. Restrict(t, S) \in Tables
    BY <1>1, <1>2, TableIntro
  <1>. QED  BY <1>3 DEF Restrict

(* What is written takes the place of the row there was.                  *)
LEMMA WrittenTable ==
  ASSUME rows \in Tables, NEW t \in Tables
  PROVE  /\ Written(t) \in Tables
         /\ DOMAIN Written(t) = DOMAIN rows \cup DOMAIN t
         /\ \A j \in DOMAIN t : Written(t)[j] = t[j]
         /\ \A j \in DOMAIN rows \ DOMAIN t : Written(t)[j] = rows[j]
  <1>1. /\ DOMAIN rows \cup DOMAIN t \in SUBSET Job
        /\ \A j \in DOMAIN rows : rows[j] \in Record
        /\ \A j \in DOMAIN t : t[j] \in Record
    BY TableElim
  <1>2. Written(t) \in [DOMAIN rows \cup DOMAIN t -> Record]
    BY <1>1 DEF Written
  <1>3. Written(t) \in Tables
    BY <1>1, <1>2, TableIntro
  <1>. QED  BY <1>3 DEF Written

(* New transfers are added, and leave the others as they are.             *)
LEMMA InsertedTable ==
  ASSUME jobs \in Tables, NEW S \in SUBSET Job, NEW s \in State
  PROVE  /\ Inserted(S, s) \in Tables
         /\ DOMAIN Inserted(S, s) = DOMAIN jobs \cup S
         /\ \A j \in DOMAIN jobs \ S : Inserted(S, s)[j] = jobs[j]
         /\ \A j \in S : Inserted(S, s)[j].state = s
  <1>1. /\ DOMAIN jobs \cup S \in SUBSET Job
        /\ \A j \in DOMAIN jobs : jobs[j] \in Record
        /\ [state |-> s, priority |-> "normal"] \in Record
    BY TableElim DEF Record, Priority
  <1>2. Inserted(S, s) \in [DOMAIN jobs \cup S -> Record]
    BY <1>1 DEF Inserted
  <1>3. Inserted(S, s) \in Tables
    BY <1>1, <1>2, TableIntro
  <1>. QED  BY <1>3 DEF Inserted

(* Restoring a record twice is restoring it once.                         *)
LEMMA RestoredRecord ==
  ASSUME NEW r \in Record
  PROVE  /\ Restored(r) \in Record
         /\ Restored(Restored(r)) = Restored(r)
         /\ Restored(r).state = "Queued" => r.state = "Queued"
  BY DEF Restored, Record, State

LEMMA RestoredTable ==
  ASSUME NEW t \in Tables
  PROVE  /\ RestoredJobs(t) \in Tables
         /\ DOMAIN RestoredJobs(t) = DOMAIN t
         /\ \A j \in DOMAIN t : RestoredJobs(t)[j] = Restored(t[j])
  <1>1. DOMAIN t \in SUBSET Job /\ \A j \in DOMAIN t : t[j] \in Record
    BY TableElim
  <1>2. RestoredJobs(t) \in [DOMAIN t -> Record]
    BY <1>1, RestoredRecord DEF RestoredJobs
  <1>3. RestoredJobs(t) \in Tables
    BY <1>1, <1>2, TableIntro
  <1>. QED  BY <1>3 DEF RestoredJobs

(* Giving some transfers a new state keeps the other records.             *)
LEMMA WithStateTable ==
  ASSUME jobs \in Tables, NEW S, NEW s \in State
  PROVE  /\ WithState(S, s) \in Tables
         /\ DOMAIN WithState(S, s) = DOMAIN jobs
         /\ \A j \in DOMAIN jobs : j \notin S => WithState(S, s)[j] = jobs[j]
         /\ \A j \in DOMAIN jobs \cap S : WithState(S, s)[j].state = s
  <1>1. DOMAIN jobs \in SUBSET Job /\ \A j \in DOMAIN jobs : jobs[j] \in Record
    BY TableElim
  <1>2. \A j \in DOMAIN jobs : [jobs[j] EXCEPT !.state = s] \in Record
    BY <1>1 DEF Record
  <1>3. WithState(S, s) \in [DOMAIN jobs -> Record]
    BY <1>1, <1>2 DEF WithState
  <1>4. WithState(S, s) \in Tables
    BY <1>1, <1>3, TableIntro
  <1>5. \A j \in DOMAIN jobs \cap S : WithState(S, s)[j].state = s
    BY <1>1 DEF WithState, Record
  <1>. QED  BY <1>4, <1>5 DEF WithState

-----------------------------------------------------------------------------
(* The list of all transfers. *)

(* SetToSeq lists a finite set: it is the range of the list.              *)
LEMMA SetToSeqRange ==
  ASSUME NEW S, IsFiniteSet(S)
  PROVE  SetToSeq(S) \in Seq(S) /\ Range(SetToSeq(S)) = S
  <1> DEFINE n == Cardinality(S)
             f == SetToSeq(S)
  <1>1. n \in Nat /\ ExistsBijection(1..n, S)
    BY FS_CardinalityType
  <1>2. \E g \in [1..n -> S] : IsInjective(g)
    BY <1>1 DEF ExistsBijection, Bijection, Injection
  <1>3. f \in [1..n -> S] /\ IsInjective(f)
    BY <1>2 DEF SetToSeq
  <1>4. f \in Injection(1..n, S)
    BY <1>3 DEF Injection
  <1>5. IsFiniteSet(1..n) /\ Cardinality(1..n) = n
    BY <1>1, FS_Interval
  <1>6. f \in Surjection(1..n, S)
    BY <1>4, <1>5, FS_Injection
  <1>7. f \in Seq(S)
    BY <1>1, <1>3, SeqDef
  <1>8. Range(f) = S
    BY <1>3, <1>6 DEF Surjection, Range
  <1>. QED  BY <1>7, <1>8

(* A longer list lists what was on it and what was added.                 *)
LEMMA RangeOfConcat ==
  ASSUME NEW s \in Seq(Job), NEW t \in Seq(Job)
  PROVE  s \o t \in Seq(Job) /\ Range(s \o t) = Range(s) \cup Range(t)
  <1>1. /\ s \o t \in Seq(Job)
        /\ Len(s \o t) = Len(s) + Len(t)
        /\ \A i \in 1..(Len(s) + Len(t)) :
             (s \o t)[i] = IF i <= Len(s) THEN s[i] ELSE t[i - Len(s)]
    BY ConcatProperties
  <1>2. /\ Len(s) \in Nat /\ DOMAIN s = 1..Len(s)
        /\ Len(t) \in Nat /\ DOMAIN t = 1..Len(t)
        /\ DOMAIN (s \o t) = 1..(Len(s) + Len(t))
    BY <1>1, LenProperties
  <1>3. ASSUME NEW i \in DOMAIN t  PROVE t[i] \in Range(s \o t)
    <2>1. Len(s) + i \in DOMAIN (s \o t) /\ (s \o t)[Len(s) + i] = t[i]
      BY <1>1, <1>2
    <2>. QED  BY <2>1 DEF Range
  <1>4. ASSUME NEW i \in DOMAIN s  PROVE s[i] \in Range(s \o t)
    <2>1. i \in DOMAIN (s \o t) /\ (s \o t)[i] = s[i]
      BY <1>1, <1>2
    <2>. QED  BY <2>1 DEF Range
  <1>5. ASSUME NEW i \in DOMAIN (s \o t)
        PROVE  (s \o t)[i] \in Range(s) \cup Range(t)
    BY <1>1, <1>2 DEF Range
  <1>. QED  BY <1>1, <1>3, <1>4, <1>5 DEF Range

LEMMA RangeOfAppend ==
  ASSUME NEW s \in Seq(Job), NEW j \in Job
  PROVE  Append(s, j) \in Seq(Job) /\ Range(Append(s, j)) = Range(s) \cup {j}
  <1>1. /\ Append(s, j) \in Seq(Job)
        /\ Len(Append(s, j)) = Len(s) + 1
        /\ \A i \in 1..Len(s) : Append(s, j)[i] = s[i]
        /\ Append(s, j)[Len(s) + 1] = j
    BY AppendProperties
  <1>2. /\ Len(s) \in Nat
        /\ DOMAIN s = 1..Len(s)
        /\ DOMAIN Append(s, j) = 1..(Len(s) + 1)
    BY <1>1, LenProperties
  <1>. QED  BY <1>1, <1>2 DEF Range

-----------------------------------------------------------------------------
(* Well-formedness: what the transfers, the rows and the unfinished calls  *)
(* have to do with each other.                                             *)

Held == Range(created)

(* A call writes transfers that exist; it acknowledges what it writes, and *)
(* deletes the rows of transfers that the queue no longer holds.           *)
CallOK(a) ==
  /\ calls[a].pc = "save" => /\ calls[a].save \in Tables
                             /\ DOMAIN calls[a].save \subseteq Held
                             /\ calls[a].acks \subseteq DOMAIN calls[a].save
  /\ calls[a].pc = "drop" => /\ calls[a].ids \subseteq Held
                             /\ calls[a].ids \cap DOMAIN jobs = {}

WellFormed ==
  /\ jobs \in Tables /\ rows \in Tables
  /\ created \in Seq(Job)
  /\ DOMAIN jobs \subseteq Held /\ DOMAIN rows \subseteq Held /\ acked \subseteq Held
  /\ DOMAIN calls = Actor
  /\ \A a \in Actor : CallOK(a)

(* What a call that has just changed, or read, the transfers S goes on to  *)
(* do with them.                                                           *)
Follows(call, S) ==
  \/ /\ call.pc = "save"
     /\ call.save \in Tables /\ DOMAIN call.save = S
     /\ S \subseteq DOMAIN jobs' /\ (\A j \in S : call.save[j] = jobs'[j])
     /\ call.acks \subseteq S
  \/ call.pc = "drop" /\ call.ids = S /\ S \cap DOMAIN jobs' = {}
  \/ call.pc \in {"idle", "next", "spawn"} /\ S = {}

(* Most steps have one shape: actor a, which is writing nothing, changes   *)
(* some transfers S and goes on to write them.                             *)
Change(a, call, S) ==
  /\ a \in Actor /\ calls[a].pc \notin {"save", "drop"}
  /\ GoesOn(a, call, S) /\ Follows(call, S)
  /\ S \subseteq Range(created')
  /\ jobs' \in Tables
  /\ \A j \in Job \ S : /\ j \in DOMAIN jobs' <=> Known(j)
                        /\ Known(j) => jobs'[j] = jobs[j]
  /\ created' \in Seq(Job) /\ Held \subseteq Range(created')
  /\ (DOMAIN jobs' \ DOMAIN jobs) \cap Held = {}
  /\ DOMAIN jobs' \subseteq Range(created')
  /\ rows' = rows /\ profile' = profile /\ acked' = acked /\ unsaved' = unsaved

Changes == \E a, call, S : Change(a, call, S)

LEMMA SavesIsAChange ==
  ASSUME WellFormed, NEW a \in Actor, IsIdle(a) \/ calls[a].pc = "next",
         NEW S \in SUBSET Job, S \subseteq DOMAIN jobs',
         NEW call, GoesOn(a, call, S),
         call.pc = "save", call.save = Restrict(jobs', S), call.acks \subseteq S,
         jobs' \in Tables,
         \A j \in Job \ S : /\ j \in DOMAIN jobs' <=> Known(j)
                            /\ Known(j) => jobs'[j] = jobs[j],
         created' \in Seq(Job), Held \subseteq Range(created'),
         (DOMAIN jobs' \ DOMAIN jobs) \cap Held = {},
         DOMAIN jobs' \subseteq Range(created'),
         rows' = rows, profile' = profile, acked' = acked, unsaved' = unsaved
  PROVE  Changes
  <1>1. /\ call.save \in Tables
        /\ DOMAIN call.save = S
        /\ \A j \in S : call.save[j] = jobs'[j]
    BY RestrictTable
  <1>2. Follows(call, S)
    BY <1>1 DEF Follows
  <1>3. calls[a].pc \notin {"save", "drop"}
    BY DEF IsIdle
  <1>4. S \subseteq Range(created')
    OBVIOUS
  <1>5. Change(a, call, S)
    BY <1>2, <1>3, <1>4 DEF Change
  <1>. QED  BY <1>5 DEF Changes

(* ... in particular when no transfer is new.                              *)
LEMMA UpdateIsAChange ==
  ASSUME WellFormed, NEW a \in Actor, IsIdle(a) \/ calls[a].pc = "next",
         NEW S \in SUBSET Job, S \subseteq DOMAIN jobs,
         NEW call, GoesOn(a, call, S),
         call.pc = "save", call.save = Restrict(jobs', S), call.acks = {},
         jobs' \in Tables, DOMAIN jobs' = DOMAIN jobs,
         \A j \in DOMAIN jobs \ S : jobs'[j] = jobs[j],
         UNCHANGED <<created, rows, profile, acked, unsaved>>
  PROVE  Changes
  <1>1. created' \in Seq(Job) /\ Range(created') = Held /\ DOMAIN jobs \subseteq Held
    BY DEF WellFormed, Held
  <1>. QED  BY <1>1, SavesIsAChange DEF Known

LEMMA IdleFields ==
  /\ Idle.pc = "idle" /\ Idle.acks = {} /\ Idle.ids = {} /\ Idle.rest = << >>
  /\ \A p, x, y, z, v :
       /\ [Idle EXCEPT !.pc = p, !.save = x].pc = p
       /\ [Idle EXCEPT !.pc = p, !.save = x].save = x
       /\ [Idle EXCEPT !.pc = p, !.save = x].acks = {}
       /\ [Idle EXCEPT !.pc = p, !.save = x, !.ids = y].pc = p
       /\ [Idle EXCEPT !.pc = p, !.save = x, !.ids = y].save = x
       /\ [Idle EXCEPT !.pc = p, !.save = x, !.ids = y].acks = {}
  BY DEF Idle

(* The commands that enqueue add transfers that no list has held before.  *)
LEMMA EnqueueIsAChange ==
  ASSUME WellFormed, NEW c \in Caller, Enqueue(c) \/ EnqueueLink(c)
  PROVE  Changes
  <1>1. c \in Actor /\ IsIdle(c)
    BY DEF Actor, Enqueue, EnqueueLink, Begins
  <1>2. ASSUME NEW S, NEW s \in State, NEW call,
               S \in SUBSET Job, S \cap Held = {}, jobs' = Inserted(S, s),
               created' \in Seq(Job), Range(created') = Held \cup S,
               GoesOn(c, call, S), call.pc = "save",
               call.save = Restrict(jobs', S), call.acks \subseteq S,
               UNCHANGED <<rows, profile, acked, unsaved>>
        PROVE  Changes
    <2>1. /\ jobs' \in Tables
          /\ DOMAIN jobs' = DOMAIN jobs \cup S
          /\ \A j \in DOMAIN jobs \ S : jobs'[j] = jobs[j]
      <3>1. jobs \in Tables /\ S \in SUBSET Job /\ s \in State
        BY <1>2 DEF WellFormed
      <3>2. /\ Inserted(S, s) \in Tables
            /\ DOMAIN Inserted(S, s) = DOMAIN jobs \cup S
            /\ \A j \in DOMAIN jobs \ S : Inserted(S, s)[j] = jobs[j]
        BY <3>1, InsertedTable
      <3>3. jobs' = Inserted(S, s)
        BY <1>2
      <3> HIDE <1>2
      <3>. QED  BY <3>2, <3>3
    <2>2. S \subseteq DOMAIN jobs'
      BY <2>1
    <2>3. \A j \in Job \ S : /\ j \in DOMAIN jobs' <=> Known(j)
                             /\ Known(j) => jobs'[j] = jobs[j]
      BY <2>1 DEF Known
    <2>4. /\ Held \subseteq Range(created')
          /\ (DOMAIN jobs' \ DOMAIN jobs) \cap Held = {}
          /\ DOMAIN jobs' \subseteq Range(created')
      BY <1>2, <2>1 DEF WellFormed
    <2>5. rows' = rows /\ profile' = profile /\ acked' = acked /\ unsaved' = unsaved
      BY <1>2
    <2>. QED  BY <1>1, <1>2, <2>1, <2>2, <2>3, <2>4, <2>5, SavesIsAChange
  <1>3. "Queued" \in State /\ "Completed" \in State
    BY DEF State
  <1>4. CASE Enqueue(c)
    <2>1. PICK new \in (SUBSET NewIds) \ {{}} :
            /\ created' = created \o SetToSeq(new)
            /\ jobs' = Inserted(new, "Queued")
            /\ GoesOn(c, [Idle EXCEPT !.pc = "save", !.save = Restrict(jobs', new),
                                      !.ids = new, !.acks = new], new)
      BY <1>4 DEF Enqueue
    <2>2. new \in SUBSET Job /\ new \cap Held = {}
      BY <2>1 DEF NewIds, Held
    <2>3. IsFiniteSet(new)
      BY <2>2, FS_Subset, ConstantsAssumption
    <2>4. SetToSeq(new) \in Seq(Job) /\ Range(SetToSeq(new)) = new
      BY <2>2, <2>3, SetToSeqRange, SeqMonotonic
    <2>5. created' \in Seq(Job) /\ Range(created') = Held \cup new
      BY <2>1, <2>4, RangeOfConcat DEF WellFormed, Held
    <2>6. UNCHANGED <<rows, profile, acked, unsaved>>
      BY <1>4 DEF Enqueue
    <2> DEFINE call == [Idle EXCEPT !.pc = "save", !.save = Restrict(jobs', new),
                                    !.ids = new, !.acks = new]
    <2>7. call.pc = "save" /\ call.save = Restrict(jobs', new) /\ call.acks = new
      BY DEF Idle
    <2> HIDE DEF call
    <2>8. GoesOn(c, call, new)
      BY <2>1 DEF call
    <2>. QED  BY <1>2, <1>3, <2>1, <2>2, <2>5, <2>6, <2>7, <2>8
  <1>5. CASE EnqueueLink(c)
    <2>1. PICK j \in NewIds :
            /\ created' = Append(created, j)
            /\ jobs' = Inserted({j}, "Completed")
            /\ GoesOn(c, [Idle EXCEPT !.pc = "save", !.save = Restrict(jobs', {j}),
                                      !.acks = {j}], {j})
      BY <1>5 DEF EnqueueLink
    <2>2. {j} \in SUBSET Job /\ {j} \cap Held = {}
      BY <2>1 DEF NewIds, Held
    <2>3. created' \in Seq(Job) /\ Range(created') = Held \cup {j}
      BY <2>1, <2>2, RangeOfAppend DEF WellFormed, Held
    <2>4. UNCHANGED <<rows, profile, acked, unsaved>>
      BY <1>5 DEF EnqueueLink
    <2> DEFINE call == [Idle EXCEPT !.pc = "save", !.save = Restrict(jobs', {j}),
                                    !.acks = {j}]
    <2>5. call.pc = "save" /\ call.save = Restrict(jobs', {j}) /\ call.acks = {j}
      BY DEF Idle
    <2> HIDE DEF call
    <2>6. GoesOn(c, call, {j})
      BY <2>1 DEF call
    <2>. QED  BY <1>2, <1>3, <2>1, <2>2, <2>3, <2>4, <2>5, <2>6
  <1>. QED  BY <1>4, <1>5

(* A move of one transfer that a command has asked for.                   *)
LEMMA ControlledIsAChange ==
  ASSUME WellFormed, NEW c \in Caller, IsIdle(c) \/ calls[c].pc = "next",
         NEW j, NEW action, NEW rest, Known(j), Target(action) \in State,
         Controlled(c, j, action, rest),
         UNCHANGED <<created, rows, profile, acked, unsaved>>
  PROVE  Changes
  <1>1. j \in Job /\ {j} \in SUBSET Job /\ {j} \subseteq DOMAIN jobs
    BY TableElim DEF WellFormed, Known
  <1>2. /\ jobs' \in Tables
        /\ DOMAIN jobs' = DOMAIN jobs
        /\ \A i \in DOMAIN jobs \ {j} : jobs'[i] = jobs[i]
    BY WithStateTable DEF Controlled, WellFormed
  <1> DEFINE call == [Idle EXCEPT !.pc = "save", !.save = Restrict(jobs', {j}),
                            !.ids = Woken(action, j), !.rest = rest,
                            !.action = IF rest = << >> THEN "none" ELSE action]
  <1>3. call.pc = "save" /\ call.save = Restrict(jobs', {j}) /\ call.acks = {}
    BY DEF Idle
  <1> HIDE DEF call
  <1>4. GoesOn(c, call, {j})
    BY DEF Controlled, call
  <1>5. c \in Actor
    BY DEF Actor
  <1>. QED  BY <1>1, <1>2, <1>3, <1>4, <1>5, UpdateIsAChange

(* A change of transfers that the queue holds, which is written next, with *)
(* or without workers to spawn.                                            *)
LEMMA SavesHeld ==
  ASSUME WellFormed, NEW a \in Actor, IsIdle(a),
         NEW S \in SUBSET DOMAIN jobs,
         Saves(a, S) \/ \E ids : SavesAndSpawns(a, S, ids),
         jobs' \in Tables, DOMAIN jobs' = DOMAIN jobs,
         \A j \in DOMAIN jobs \ S : jobs'[j] = jobs[j],
         UNCHANGED <<created, rows, profile, acked, unsaved>>
  PROVE  Changes
  <1>1. S \in SUBSET Job
    BY TableElim DEF WellFormed
  <1>2. PICK call : /\ GoesOn(a, call, S)
                    /\ call.pc = "save" /\ call.save = Restrict(jobs', S)
                    /\ call.acks = {}
    <2>1. CASE Saves(a, S)
      <3> DEFINE call == [Idle EXCEPT !.pc = "save", !.save = Restrict(jobs', S)]
      <3>1. call.pc = "save" /\ call.save = Restrict(jobs', S) /\ call.acks = {}
        BY DEF Idle
      <3>2. GoesOn(a, call, S)
        BY <2>1 DEF Saves
      <3>. QED  BY <3>1, <3>2, Zenon
    <2>2. CASE \E ids : SavesAndSpawns(a, S, ids)
      <3>1. PICK ids : SavesAndSpawns(a, S, ids)
        BY <2>2
      <3> DEFINE call == [Idle EXCEPT !.pc = "save", !.save = Restrict(jobs', S),
                                      !.ids = ids]
      <3>2. call.pc = "save" /\ call.save = Restrict(jobs', S) /\ call.acks = {}
        BY DEF Idle
      <3>3. GoesOn(a, call, S)
        BY <3>1 DEF SavesAndSpawns
      <3>. QED  BY <3>2, <3>3, Zenon
    <2>. QED  BY <2>1, <2>2
  <1>. QED  BY <1>1, <1>2, UpdateIsAChange

(* A command that changes no transfer, or takes some out of the queue.    *)
LEMMA RemovalIsAChange ==
  ASSUME WellFormed, NEW c \in Caller, IsIdle(c) \/ calls[c].pc = "next",
         NEW S \in SUBSET DOMAIN jobs, jobs' = Restrict(jobs, DOMAIN jobs \ S),
         NEW call, GoesOn(c, call, S),
         \/ call.pc = "drop" /\ call.ids = S
         \/ call.pc \in {"idle", "next"} /\ S = {},
         UNCHANGED <<created, rows, profile, acked, unsaved>>
  PROVE  Changes
  <1>1. /\ jobs' \in Tables
        /\ DOMAIN jobs' = DOMAIN jobs \ S
        /\ \A j \in DOMAIN jobs \ S : jobs'[j] = jobs[j]
    BY RestrictTable DEF WellFormed
  <1>2. Follows(call, S)
    BY <1>1 DEF Follows
  <1>3. c \in Actor /\ calls[c].pc \notin {"save", "drop"}
    BY DEF Actor, IsIdle
  <1>4. /\ created' \in Seq(Job) /\ Range(created') = Held
        /\ DOMAIN jobs \subseteq Held
    BY DEF WellFormed, Held
  <1>5. Change(c, call, S)
    BY <1>1, <1>2, <1>3, <1>4 DEF Change, Known
  <1>. QED  BY <1>5 DEF Changes

(* Nothing is removed: the queue stays as it is.                          *)
LEMMA RestrictAll ==
  ASSUME jobs \in Tables
  PROVE  Restrict(jobs, DOMAIN jobs \ {}) = jobs
  <1>1. jobs \in [DOMAIN jobs -> Record]
    BY TableElim
  <1>. QED  BY <1>1 DEF Restrict

LEMMA TargetIsAState ==
  ASSUME NEW action \in Action
  PROVE  Target(action) \in State
  BY DEF Action, Target, State

Quiet == UNCHANGED <<jobs, rows, created, calls, profile, acked, raced, unsaved>>

LEMMA CommandShapes ==
  ASSUME WellFormed, NEW c \in Caller,
         \/ SetPriority(c) \/ Control(c) \/ ControlAll(c) \/ ControlNext(c)
         \/ Resolve(c) \/ Clear(c) \/ Spawn(c)
  PROVE  Changes
  <1>1. c \in Actor /\ jobs \in Tables
    BY DEF Actor, WellFormed
  <1>2. DOMAIN jobs \subseteq Job /\ \A j \in DOMAIN jobs : jobs[j] \in Record
    BY <1>1, TableElim
  <1>3. CASE SetPriority(c)
    <2>1. PICK j \in DOMAIN jobs, p \in Priority :
            jobs' = [jobs EXCEPT ![j].priority = p] /\ Saves(c, {j})
      BY <1>3 DEF SetPriority
    <2>2. \A i \in DOMAIN jobs : jobs'[i] \in Record
      BY <1>2, <2>1 DEF Record
    <2>3. DOMAIN jobs' = DOMAIN jobs /\ \A i \in DOMAIN jobs \ {j} : jobs'[i] = jobs[i]
      BY <2>1
    <2>4. jobs' \in [DOMAIN jobs -> Record]
      BY <2>1, <2>2
    <2>5. jobs' \in Tables
      BY <1>2, <2>4, TableIntro
    <2>6. IsIdle(c) /\ UNCHANGED <<created, rows, profile, acked, unsaved>>
      BY <1>3 DEF SetPriority, Begins
    <2>7. {j} \in SUBSET DOMAIN jobs /\ Saves(c, {j})
      BY <2>1
    <2>. QED  BY <1>1, <2>3, <2>5, <2>6, <2>7, SavesHeld
  <1>4. CASE Control(c)
    <2>1. PICK j \in Job, action \in Action :
            CanMove(j, Target(action)) /\ Controlled(c, j, action, << >>)
      BY <1>4 DEF Control
    <2>2. IsIdle(c) /\ UNCHANGED <<created, rows, profile, acked, unsaved>>
      BY <1>4 DEF Control, Begins
    <2>3. Known(j) /\ Target(action) \in State
      BY <2>1, TargetIsAState DEF CanMove
    <2>. QED  BY <2>1, <2>2, <2>3, ControlledIsAChange
  <1>5. CASE ControlAll(c)
    <2>1. PICK action \in Action :
            LET rest == Only(order, {j \in DOMAIN jobs : Candidate(action, jobs[j].state)})
            IN  GoesOn(c, [Idle EXCEPT !.pc = "next", !.rest = rest,
                                       !.action = action], {})
      BY <1>5 DEF ControlAll
    <2> DEFINE rest == Only(order, {j \in DOMAIN jobs : Candidate(action, jobs[j].state)})
    <2>2. GoesOn(c, [Idle EXCEPT !.pc = "next", !.rest = rest, !.action = action], {})
      BY <2>1
    <2> HIDE DEF rest
    <2> DEFINE call == [Idle EXCEPT !.pc = "next", !.rest = rest, !.action = action]
    <2>3. call.pc = "next"
      BY DEF Idle
    <2>4. GoesOn(c, call, {})
      BY <2>2
    <2> HIDE DEF call
    <2>5. IsIdle(c) /\ UNCHANGED <<jobs, created, rows, profile, acked, unsaved>>
      BY <1>5 DEF ControlAll, Begins
    <2>6. jobs' = Restrict(jobs, DOMAIN jobs \ {})
      BY <1>1, <2>5, RestrictAll
    <2>. QED  BY <2>3, <2>4, <2>5, <2>6, RemovalIsAChange
  <1>6. CASE ControlNext(c)
    <2> DEFINE j == Head(calls[c].rest)
               action == calls[c].action
    <2>1. /\ calls[c].pc = "next"
          /\ UNCHANGED <<created, rows, profile, acked, unsaved>>
      BY <1>6 DEF ControlNext
    <2>2. CASE CanMove(j, Target(action))
      <3>1. Controlled(c, j, action, Tail(calls[c].rest))
        BY <1>6, <2>2 DEF ControlNext
      <3>2. Known(j) /\ Target(action) \in State
        BY <2>2 DEF CanMove, IsValidTransition, ValidTransitions, State
      <3>. QED  BY <2>1, <3>1, <3>2, ControlledIsAChange
    <2>3. CASE ~CanMove(j, Target(action))
      <3>1. GoesOn(c, Idle, {}) /\ UNCHANGED jobs
        BY <1>6, <2>3 DEF ControlNext
      <3>2. jobs' = Restrict(jobs, DOMAIN jobs \ {})
        BY <1>1, <3>1, RestrictAll
      <3>3. Idle.pc = "idle"
        BY DEF Idle
      <3>. QED  BY <2>1, <3>1, <3>2, <3>3, RemovalIsAChange
    <2>. QED  BY <2>2, <2>3
  <1>7. CASE Resolve(c)
    <2>1. PICK j \in DOMAIN jobs, batch \in BOOLEAN :
            LET targets == {i \in DOMAIN jobs :
                              i = j \/ (batch /\ ~IsTerminal(jobs[i].state))}
                woken == {i \in targets : jobs[i].state = "WaitingForConflict"}
            IN  /\ jobs' = WithState(woken, "Queued")
                /\ SavesAndSpawns(c, targets, woken)
      BY <1>7 DEF Resolve
    <2> DEFINE targets == {i \in DOMAIN jobs :
                             i = j \/ (batch /\ ~IsTerminal(jobs[i].state))}
               woken == {i \in targets : jobs[i].state = "WaitingForConflict"}
    <2>2. targets \in SUBSET DOMAIN jobs /\ woken \subseteq targets
      OBVIOUS
    <2>3. jobs' = WithState(woken, "Queued") /\ SavesAndSpawns(c, targets, woken)
      BY <2>1
    <2> HIDE DEF targets, woken
    <2>4. "Queued" \in State
      BY DEF State
    <2>5. /\ jobs' \in Tables
          /\ DOMAIN jobs' = DOMAIN jobs
          /\ \A i \in DOMAIN jobs \ targets : jobs'[i] = jobs[i]
      BY <1>1, <2>2, <2>3, <2>4, WithStateTable
    <2>6. IsIdle(c) /\ UNCHANGED <<created, rows, profile, acked, unsaved>>
      BY <1>7 DEF Resolve, Begins
    <2>7. \E ids : SavesAndSpawns(c, targets, ids)
      BY <2>3
    <2>. QED  BY <1>1, <2>2, <2>5, <2>6, <2>7, SavesHeld
  <1>8. CASE Clear(c)
    <2>1. PICK filter \in Filter :
            LET removed == {j \in DOMAIN jobs : Matches(filter, jobs[j].state)}
            IN  /\ jobs' = Restrict(jobs, DOMAIN jobs \ removed)
                /\ GoesOn(c, [Idle EXCEPT !.pc = "drop", !.ids = removed], removed)
      BY <1>8 DEF Clear
    <2> DEFINE removed == {j \in DOMAIN jobs : Matches(filter, jobs[j].state)}
               call == [Idle EXCEPT !.pc = "drop", !.ids = removed]
    <2>2. /\ removed \in SUBSET DOMAIN jobs
          /\ jobs' = Restrict(jobs, DOMAIN jobs \ removed)
          /\ GoesOn(c, call, removed)
      BY <2>1
    <2>3. call.pc = "drop" /\ call.ids = removed
      BY DEF Idle
    <2> HIDE DEF call, removed
    <2>4. IsIdle(c) /\ UNCHANGED <<created, rows, profile, acked, unsaved>>
      BY <1>8 DEF Clear, Begins
    <2>. QED  BY <2>2, <2>3, <2>4, RemovalIsAChange
  <1>9. CASE Spawn(c)
    <2>1. /\ calls[c].pc = "spawn"
          /\ calls' = [calls EXCEPT ![c] = Remaining(c)]
          /\ UNCHANGED <<jobs, created, rows, profile, acked, unsaved, raced>>
      BY <1>9 DEF Spawn
    <2>2. Remaining(c).pc \in {"idle", "next"}
      BY DEF Remaining, Idle
    <2>3. Follows(Remaining(c), {})
      BY <2>2 DEF Follows
    <2>4. GoesOn(c, Remaining(c), {})
      BY <2>1 DEF GoesOn, Overtaken
    <2>5. created' \in Seq(Job) /\ Range(created') = Held /\ DOMAIN jobs \subseteq Held
      BY <2>1 DEF WellFormed, Held
    <2>6. Change(c, Remaining(c), {})
      BY <1>1, <2>1, <2>3, <2>4, <2>5 DEF Change, Known
    <2>. QED  BY <2>6 DEF Changes
  <1>. QED  BY <1>3, <1>4, <1>5, <1>6, <1>7, <1>8, <1>9

(* A worker's step either leaves the job and its writes alone or is a      *)
(* change of its job.                                                      *)
LEMMA WorkerShapes ==
  ASSUME WellFormed, NEW j \in Job, WorkerStep(j), ~WorkerSavesLocked(j)
  PROVE  Changes \/ Quiet
  <1>1. j \in Actor /\ jobs \in Tables
    BY DEF Actor, WellFormed
  <1>2. ASSUME Known(j), IsIdle(j), Saves(j, {j}),
               jobs' = jobs \/ \E s \in State : jobs' = WithState({j}, s),
               UNCHANGED <<created, rows, profile, acked, unsaved>>
        PROVE  Changes
    <2>1. /\ jobs' \in Tables
          /\ DOMAIN jobs' = DOMAIN jobs
          /\ \A i \in DOMAIN jobs \ {j} : jobs'[i] = jobs[i]
      <3>1. CASE jobs' = jobs
        BY <1>1, <3>1
      <3>2. CASE \E s \in State : jobs' = WithState({j}, s)
        BY <1>1, <3>2, WithStateTable
      <3>. QED  BY <1>2, <3>1, <3>2
    <2>2. {j} \in SUBSET DOMAIN jobs
      BY <1>2 DEF Known
    <2>. QED  BY <1>1, <1>2, <2>1, <2>2, SavesHeld
  <1>3. {"Running", "Completed", "WaitingForConflict", "Interrupted", "Failed",
         "WaitingForAuthentication"} \subseteq State
    BY DEF State
  <1>4. CASE WorkerStarts(j)
    BY <1>2, <1>3, <1>4 DEF WorkerStarts, Works
  <1>5. CASE WorkerSaves(j)
    BY <1>2, <1>5 DEF WorkerSaves, Works
  <1>6. ASSUME NEW s \in {"Completed", "WaitingForConflict"}, WorkerSettles(j, s)
        PROVE  Changes
    BY <1>2, <1>3, <1>6 DEF WorkerSettles, Works, CanMove
  <1>7. CASE WorkerRetries(j)
    BY <1>2, <1>3, <1>7 DEF WorkerRetries, Works, CanMove
  <1>8. ASSUME NEW s \in {"Failed", "WaitingForAuthentication"}, WorkerFails(j, s)
        PROVE  Changes
    BY <1>2, <1>3, <1>8 DEF WorkerFails, Works
  <1>9. CASE WorkerStops(j)
    BY <1>9 DEF WorkerStops, Quiet
  <1>10. CASE WorkerFindsNoProfile(j)
    <2>1. CASE jobs[j].state \in {"Paused", "Cancelled", "WaitingForConflict"}
      BY <1>10, <2>1 DEF WorkerFindsNoProfile, Quiet
    <2>2. CASE jobs[j].state \notin {"Paused", "Cancelled", "WaitingForConflict"}
      BY <1>2, <1>3, <1>10, <2>2 DEF WorkerFindsNoProfile, Works
    <2>. QED  BY <2>1, <2>2
  <1>. QED  BY <1>4, <1>5, <1>6, <1>7, <1>8, <1>9, <1>10 DEF WorkerStep

(* Every step is a change, leaves transfers and writes alone, or is one of *)
(* the few that write or lose the rows.                                    *)
LEMMA StepShapes ==
  ASSUME WellFormed, [Next]_vars
  PROVE  \/ Changes
         \/ Quiet
         \/ \E c \in Caller : \/ ResumeProfile(c) \/ ResumeProfileFails(c)
                              \/ DeleteProfile(c) \/ Drop(c)
         \/ \E a \in Actor : Save(a) \/ SaveFails(a)
         \/ \E j \in Job : WorkerSavesLocked(j)
         \/ Restart
  <1>1. ASSUME NEW c \in Caller, Command(c)
        PROVE  \/ Changes \/ Quiet \/ ResumeProfile(c) \/ ResumeProfileFails(c)
               \/ DeleteProfile(c)
    <2>1. CASE Reorder(c)
      BY <2>1 DEF Reorder, Quiet
    <2>. QED  BY <1>1, <2>1, EnqueueIsAChange, CommandShapes DEF Command
  <1>2. ASSUME NEW c \in Caller, ControlNext(c) \/ Spawn(c)  PROVE Changes
    BY <1>2, CommandShapes
  <1>3. ASSUME NEW j \in Job, WorkerStep(j), ~WorkerSavesLocked(j)
        PROVE  Changes \/ Quiet
    BY <1>3, WorkerShapes
  <1>4. CASE UNCHANGED vars
    BY <1>4 DEF vars, Quiet
  <1>. QED  BY <1>1, <1>2, <1>3, <1>4 DEF Next

-----------------------------------------------------------------------------
(* Well-formedness is kept by every step. *)

(* A set of transfers to which something is added, and a call that goes on *)
(* to less than it did, keep the calls as they should be.                  *)
LEMMA CallsStayOK ==
  ASSUME WellFormed, NEW a \in Actor, NEW call,
         calls' = [calls EXCEPT ![a] = call],
         call.pc \notin {"save", "drop"},
         created' = created, DOMAIN jobs' = DOMAIN jobs
  PROVE  DOMAIN calls' = Actor /\ \A b \in Actor : CallOK(b)'
  <1>1. DOMAIN calls' = Actor
    BY DEF WellFormed
  <1>2. CallOK(a)'
    BY DEF WellFormed, CallOK
  <1>3. ASSUME NEW b \in Actor, b # a  PROVE CallOK(b)'
    <2>1. calls'[b] = calls[b] /\ CallOK(b) /\ Held' = Held
      BY <1>3 DEF WellFormed, Held
    <2>. QED  BY <2>1 DEF CallOK
  <1>. QED  BY <1>1, <1>2, <1>3

LEMMA AfterWriteWritesNothing ==
  ASSUME NEW a
  PROVE  AfterWrite(a).pc \notin {"save", "drop"}
  BY DEF AfterWrite, Remaining, Idle

LEMMA ChangesKeepWellFormed ==
  ASSUME WellFormed, Changes
  PROVE  WellFormed'
  <1>1. PICK a, call, S : Change(a, call, S)
    BY DEF Changes
  <1>2. /\ jobs' \in Tables /\ rows' \in Tables /\ created' \in Seq(Job)
        /\ DOMAIN jobs' \subseteq Held' /\ DOMAIN rows' \subseteq Held'
        /\ acked' \subseteq Held'
    BY <1>1 DEF Change, WellFormed, Held
  <1>3. calls' = [calls EXCEPT ![a] = call] /\ a \in Actor
    BY <1>1 DEF Change, GoesOn
  <1>4. CallOK(a)'
    <2>1. calls'[a] = call
      BY <1>3 DEF WellFormed
    <2>2. Follows(call, S) /\ S \subseteq Held'
      BY <1>1 DEF Change, Held
    <2>. QED  BY <2>1, <2>2 DEF Follows, CallOK
  <1>5. ASSUME NEW b \in Actor, b # a  PROVE CallOK(b)'
    <2>1. calls'[b] = calls[b] /\ CallOK(b)
      BY <1>3, <1>5 DEF WellFormed
    <2>2. Held \subseteq Held' /\ (DOMAIN jobs' \ DOMAIN jobs) \cap Held = {}
      BY <1>1 DEF Change, Held
    <2>. QED  BY <2>1, <2>2 DEF CallOK
  <1>6. DOMAIN calls' = Actor
    BY <1>3 DEF WellFormed
  <1>. QED  BY <1>2, <1>4, <1>5, <1>6 DEF WellFormed

(* The transfers that wait for their profile are Queued, and nothing else  *)
(* changes.                                                                *)
LEMMA QueuedTable ==
  ASSUME WellFormed, NEW S \in SUBSET DOMAIN jobs
  PROVE  /\ WithState(S, "Queued") \in Tables
         /\ DOMAIN WithState(S, "Queued") = DOMAIN jobs
         /\ \A j \in DOMAIN jobs \ S : WithState(S, "Queued")[j] = jobs[j]
  BY WithStateTable DEF WellFormed, State

(* The writes under the mutex: ResumeProfile's, and a worker's.           *)
LEMMA WrittenNow ==
  ASSUME WellFormed, jobs' \in Tables, DOMAIN jobs' = DOMAIN jobs,
         NEW S \in SUBSET DOMAIN jobs, rows' = Written(Restrict(jobs', S))
  PROVE  /\ rows' \in Tables
         /\ DOMAIN rows' = DOMAIN rows \cup S
         /\ \A j \in S : rows'[j] = jobs'[j]
         /\ \A j \in DOMAIN rows \ S : rows'[j] = rows[j]
  <1>1. /\ Restrict(jobs', S) \in Tables
        /\ DOMAIN Restrict(jobs', S) = S
        /\ \A j \in S : Restrict(jobs', S)[j] = jobs'[j]
    BY RestrictTable
  <1> DEFINE t == Restrict(jobs', S)
  <1> HIDE DEF t
  <1>2. /\ Written(t) \in Tables
        /\ DOMAIN Written(t) = DOMAIN rows \cup DOMAIN t
        /\ \A j \in DOMAIN t : Written(t)[j] = t[j]
        /\ \A j \in DOMAIN rows \ DOMAIN t : Written(t)[j] = rows[j]
    BY <1>1, WrittenTable DEF t, WellFormed
  <1>3. rows' = Written(t)
    BY DEF t
  <1>. QED  BY <1>1, <1>2, <1>3 DEF t

LEMMA SaveWrites ==
  ASSUME WellFormed, NEW a \in Actor, Save(a)
  PROVE  /\ rows' \in Tables
         /\ DOMAIN rows' = DOMAIN rows \cup DOMAIN calls[a].save
         /\ \A j \in DOMAIN calls[a].save : rows'[j] = calls[a].save[j]
         /\ \A j \in DOMAIN rows \ DOMAIN calls[a].save : rows'[j] = rows[j]
  <1>1. calls[a].save \in Tables /\ rows \in Tables /\ rows' = Written(calls[a].save)
    BY DEF Save, WellFormed, CallOK
  <1>. QED  BY <1>1, WrittenTable

LEMMA WellFormedInitially ==
  Init => WellFormed
  <1> SUFFICES ASSUME Init PROVE WellFormed
    OBVIOUS
  <1>1. PICK table \in StartOf :
          /\ rows = table /\ jobs = RestoredJobs(table)
          /\ created = SetToSeq(DOMAIN table)
          /\ calls = [a \in Actor |-> Idle] /\ acked = DOMAIN table
    BY DEF Init
  <1>2. table \in Tables /\ DOMAIN table \subseteq Job
    BY StartAssumption, TableElim
  <1>3. IsFiniteSet(DOMAIN table)
    BY <1>2, FS_Subset, ConstantsAssumption
  <1>4. created \in Seq(Job) /\ Held = DOMAIN table
    BY <1>1, <1>2, <1>3, SetToSeqRange, SeqMonotonic DEF Held
  <1>5. jobs \in Tables /\ DOMAIN jobs = DOMAIN table
    BY <1>1, <1>2, RestoredTable
  <1>6. DOMAIN calls = Actor /\ \A a \in Actor : CallOK(a)
    BY <1>1 DEF CallOK, Idle
  <1>. QED  BY <1>1, <1>2, <1>4, <1>5, <1>6 DEF WellFormed

LEMMA WellFormedKept ==
  WellFormed /\ [Next]_vars => WellFormed'
  <1> SUFFICES ASSUME WellFormed, [Next]_vars PROVE WellFormed'
    OBVIOUS
  <1>0. /\ jobs \in Tables /\ rows \in Tables /\ created \in Seq(Job)
        /\ DOMAIN jobs \subseteq Held /\ DOMAIN rows \subseteq Held
        /\ acked \subseteq Held
        /\ DOMAIN calls = Actor /\ \A a \in Actor : CallOK(a)
    BY DEF WellFormed
  <1>1. CASE Changes
    BY <1>1, ChangesKeepWellFormed
  <1>2. CASE Quiet
    BY <1>2 DEF Quiet, WellFormed, CallOK, Held
  <1>3. ASSUME NEW c \in Caller, ResumeProfile(c)  PROVE WellFormed'
    <2>1. c \in Actor /\ Waiting \in SUBSET DOMAIN jobs
      BY DEF Actor, Waiting
    <2>2. jobs' \in Tables /\ DOMAIN jobs' = DOMAIN jobs
      BY <1>3, <2>1, QueuedTable DEF ResumeProfile
    <2>3. rows' \in Tables /\ DOMAIN rows' = DOMAIN rows \cup Waiting
      BY <1>3, <2>1, <2>2, WrittenNow DEF ResumeProfile
    <2> DEFINE call == [Idle EXCEPT !.pc = "spawn", !.ids = Waiting]
    <2>4. call.pc = "spawn"
      BY DEF Idle
    <2>5. calls' = [calls EXCEPT ![c] = call] /\ created' = created /\ acked' = acked
      BY <1>3 DEF ResumeProfile, GoesOn
    <2> HIDE DEF call
    <2>6. DOMAIN calls' = Actor /\ \A b \in Actor : CallOK(b)'
      BY <2>1, <2>2, <2>4, <2>5, CallsStayOK
    <2>. QED  BY <1>0, <2>1, <2>2, <2>3, <2>5, <2>6 DEF WellFormed, Held
  <1>4. ASSUME NEW c \in Caller, ResumeProfileFails(c)  PROVE WellFormed'
    <2>1. PICK done \in SUBSET Waiting, failed \in Waiting :
            /\ jobs' = WithState(done \cup {failed}, "Queued")
            /\ rows' = Written(Restrict(jobs', done))
      BY <1>4 DEF ResumeProfileFails
    <2>2. done \in SUBSET DOMAIN jobs /\ done \cup {failed} \in SUBSET DOMAIN jobs
      BY DEF Waiting
    <2>3. jobs' \in Tables /\ DOMAIN jobs' = DOMAIN jobs
      BY <2>1, <2>2, QueuedTable
    <2>4. rows' \in Tables /\ DOMAIN rows' = DOMAIN rows \cup done
      BY <2>1, <2>2, <2>3, WrittenNow
    <2>5. UNCHANGED <<created, calls, acked>>
      BY <1>4 DEF ResumeProfileFails
    <2>6. \A b \in Actor : CallOK(b)'
      BY <1>0, <2>3, <2>5 DEF CallOK, Held
    <2>. QED  BY <1>0, <2>2, <2>3, <2>4, <2>5, <2>6 DEF WellFormed, Held
  <1>5. ASSUME NEW c \in Caller, DeleteProfile(c)  PROVE WellFormed'
    <2>1. rows' \in Tables /\ DOMAIN rows' = {}
      BY <1>0, <1>5, RestrictTable DEF DeleteProfile
    <2>2. UNCHANGED <<jobs, created, calls, acked>>
      BY <1>5 DEF DeleteProfile
    <2>. QED  BY <1>0, <2>1, <2>2 DEF WellFormed, CallOK, Held
  <1>6. ASSUME NEW c \in Caller, Drop(c)  PROVE WellFormed'
    <2>1. rows' \in Tables /\ DOMAIN rows' \subseteq DOMAIN rows
      BY <1>0, <1>6, RestrictTable DEF Drop
    <2>2. /\ calls' = [calls EXCEPT ![c] = Idle] /\ c \in Actor
          /\ UNCHANGED <<jobs, created, acked>>
      BY <1>6 DEF Drop, Actor
    <2>3. DOMAIN calls' = Actor /\ \A b \in Actor : CallOK(b)'
      BY <2>2, IdleFields, CallsStayOK
    <2>. QED  BY <1>0, <2>1, <2>2, <2>3 DEF WellFormed, Held
  <1>7. ASSUME NEW a \in Actor, Save(a)  PROVE WellFormed'
    <2>1. /\ calls[a].pc = "save"
          /\ DOMAIN calls[a].save \subseteq Held
          /\ calls[a].acks \subseteq DOMAIN calls[a].save
      BY <1>0, <1>7 DEF Save, CallOK
    <2>2. rows' \in Tables /\ DOMAIN rows' = DOMAIN rows \cup DOMAIN calls[a].save
      BY <1>7, SaveWrites
    <2>3. /\ calls' = [calls EXCEPT ![a] = AfterWrite(a)]
          /\ acked' = acked \cup calls[a].acks
          /\ UNCHANGED <<jobs, created>>
      BY <1>7 DEF Save
    <2>4. DOMAIN calls' = Actor /\ \A b \in Actor : CallOK(b)'
      BY <2>3, AfterWriteWritesNothing, CallsStayOK
    <2>. QED  BY <1>0, <2>1, <2>2, <2>3, <2>4 DEF WellFormed, Held
  <1>8. ASSUME NEW a \in Actor, SaveFails(a)  PROVE WellFormed'
    <2>1. /\ calls' = [calls EXCEPT ![a] = Idle]
          /\ UNCHANGED <<jobs, rows, created, acked>>
      BY <1>8 DEF SaveFails
    <2>2. DOMAIN calls' = Actor /\ \A b \in Actor : CallOK(b)'
      BY <2>1, IdleFields, CallsStayOK
    <2>. QED  BY <1>0, <2>1, <2>2 DEF WellFormed, Held
  <1>9. ASSUME NEW j \in Job, WorkerSavesLocked(j)  PROVE WellFormed'
    <2>1. /\ UNCHANGED <<jobs, created, calls, acked>>
          /\ {j} \in SUBSET DOMAIN jobs
          /\ rows' = Written(Restrict(jobs', {j}))
      BY <1>9 DEF WorkerSavesLocked, Known
    <2>2. rows' \in Tables /\ DOMAIN rows' = DOMAIN rows \cup {j}
      BY <1>0, <2>1, WrittenNow
    <2>. QED  BY <1>0, <2>1, <2>2 DEF WellFormed, CallOK, Held
  <1>10. CASE Restart
    <2>1. /\ jobs' = RestoredJobs(rows) /\ acked' = DOMAIN rows
          /\ calls' = [a \in Actor |-> Idle]
          /\ UNCHANGED <<rows, created>>
      BY <1>10 DEF Restart
    <2>2. jobs' \in Tables /\ DOMAIN jobs' = DOMAIN rows
      BY <1>0, <2>1, RestoredTable
    <2>3. DOMAIN calls' = Actor /\ \A a \in Actor : CallOK(a)'
      BY <2>1, IdleFields DEF CallOK
    <2>. QED  BY <1>0, <2>1, <2>2, <2>3 DEF WellFormed, Held
  <1>. QED  BY <1>1, <1>2, <1>3, <1>4, <1>5, <1>6, <1>7, <1>8, <1>9, <1>10,
               StepShapes

-----------------------------------------------------------------------------
(* What the user was told of is in the database. *)

LEMMA DurableKept ==
  WellFormed /\ AckedIsDurable /\ [Next]_vars => AckedIsDurable'
  <1> SUFFICES ASSUME WellFormed, AckedIsDurable, [Next]_vars, profile',
                      NEW j \in acked', j \in DOMAIN jobs'
               PROVE  j \in DOMAIN rows'
    BY DEF AckedIsDurable, Known
  <1>0. /\ jobs \in Tables /\ rows \in Tables
        /\ acked \subseteq Held /\ \A a \in Actor : CallOK(a)
    BY DEF WellFormed
  <1>1. profile /\ j \in acked /\ j \in DOMAIN jobs => j \in DOMAIN rows
    BY DEF AckedIsDurable, Known
  <1>2. CASE Changes
    <2>1. PICK a, call, S : Change(a, call, S)
      BY <1>2 DEF Changes
    <2>2. /\ j \in acked /\ profile /\ rows' = rows
          /\ (DOMAIN jobs' \ DOMAIN jobs) \cap Held = {}
      BY <2>1 DEF Change
    <2>. QED  BY <1>0, <1>1, <2>2
  <1>3. CASE Quiet
    BY <1>1, <1>3 DEF Quiet
  <1>4. ASSUME NEW c \in Caller, ResumeProfile(c)  PROVE j \in DOMAIN rows'
    <2>1. Waiting \in SUBSET DOMAIN jobs
      BY DEF Waiting
    <2>2. jobs' \in Tables /\ DOMAIN jobs' = DOMAIN jobs
      BY <1>4, <2>1, QueuedTable DEF ResumeProfile
    <2>3. DOMAIN rows' = DOMAIN rows \cup Waiting
      BY <1>4, <2>1, <2>2, WrittenNow DEF ResumeProfile
    <2>. QED  BY <1>1, <1>4, <2>2, <2>3 DEF ResumeProfile
  <1>5. ASSUME NEW c \in Caller, ResumeProfileFails(c)  PROVE j \in DOMAIN rows'
    <2>1. PICK done \in SUBSET Waiting, failed \in Waiting :
            /\ jobs' = WithState(done \cup {failed}, "Queued")
            /\ rows' = Written(Restrict(jobs', done))
      BY <1>5 DEF ResumeProfileFails
    <2>2. done \in SUBSET DOMAIN jobs /\ done \cup {failed} \in SUBSET DOMAIN jobs
      BY DEF Waiting
    <2>3. jobs' \in Tables /\ DOMAIN jobs' = DOMAIN jobs
      BY <2>1, <2>2, QueuedTable
    <2>4. DOMAIN rows' = DOMAIN rows \cup done
      BY <2>1, <2>2, <2>3, WrittenNow
    <2>. QED  BY <1>1, <1>5, <2>3, <2>4 DEF ResumeProfileFails
  <1>6. ASSUME NEW c \in Caller, DeleteProfile(c)  PROVE FALSE
    BY <1>6 DEF DeleteProfile
  <1>7. ASSUME NEW c \in Caller, Drop(c)  PROVE j \in DOMAIN rows'
    <2>1. /\ calls[c].pc = "drop" /\ c \in Actor
          /\ UNCHANGED <<jobs, acked, profile>>
          /\ rows' = rows \/ rows' = Restrict(rows, DOMAIN rows \ calls[c].ids)
      BY <1>7 DEF Drop, Actor
    <2>2. j \notin calls[c].ids
      BY <1>0, <2>1 DEF CallOK
    <2>. QED  BY <1>0, <1>1, <2>1, <2>2, RestrictTable
  <1>8. ASSUME NEW a \in Actor, Save(a)  PROVE j \in DOMAIN rows'
    <2>1. /\ calls[a].pc = "save" /\ acked' = acked \cup calls[a].acks
          /\ UNCHANGED <<jobs, profile>>
      BY <1>8 DEF Save
    <2>2. calls[a].acks \subseteq DOMAIN calls[a].save
      BY <1>0, <2>1 DEF CallOK
    <2>3. DOMAIN rows' = DOMAIN rows \cup DOMAIN calls[a].save
      BY <1>8, SaveWrites
    <2>. QED  BY <1>1, <2>1, <2>2, <2>3
  <1>9. ASSUME NEW a \in Actor, SaveFails(a)  PROVE j \in DOMAIN rows'
    BY <1>1, <1>9 DEF SaveFails
  <1>10. ASSUME NEW i \in Job, WorkerSavesLocked(i)  PROVE j \in DOMAIN rows'
    <2>1. /\ UNCHANGED <<jobs, acked, profile>>
          /\ {i} \in SUBSET DOMAIN jobs
          /\ rows' = Written(Restrict(jobs', {i}))
      BY <1>10 DEF WorkerSavesLocked, Known
    <2>2. DOMAIN rows' = DOMAIN rows \cup {i}
      BY <1>0, <2>1, WrittenNow
    <2>. QED  BY <1>1, <2>1, <2>2
  <1>11. CASE Restart
    BY <1>11 DEF Restart
  <1>. QED  BY <1>2, <1>3, <1>4, <1>5, <1>6, <1>7, <1>8, <1>9, <1>10, <1>11,
               StepShapes

(* A transfer whose enqueueing has returned to the user is in the         *)
(* database until the user removes it or its profile.                     *)
THEOREM Durability == Spec => []AckedIsDurable
  <1>1. Init => WellFormed /\ AckedIsDurable
    <2>1. Init => AckedIsDurable
      BY DEF Init, AckedIsDurable
    <2>. QED  BY <2>1, WellFormedInitially
  <1>2. WellFormed /\ AckedIsDurable /\ [Next]_vars => (WellFormed /\ AckedIsDurable)'
    BY WellFormedKept, DurableKept
  <1>. QED  BY <1>1, <1>2, PTL DEF Spec

-----------------------------------------------------------------------------
(* What a restart would bring back. *)

(* The transfers whose writes nothing has disturbed.                      *)
Steady == Job \ (raced \cup unsaved)

(* One call at most writes j, and it writes j as it is; when none does,    *)
(* the row is j as a restart would restore it.                             *)
InStep(j) ==
  /\ \A a, b \in Actor : WriteOf(a, j) /\ WriteOf(b, j) => a = b
  /\ \A a \in Actor :
       calls[a].pc = "save" /\ j \in DOMAIN calls[a].save
         => Known(j) /\ calls[a].save[j] = jobs[j]
  /\ (\A a \in Actor : ~WriteOf(a, j)) =>
       /\ j \in DOMAIN rows <=> Known(j)
       /\ Known(j) => Restored(rows[j]) = Restored(jobs[j])

RowsInStep == profile => \A j \in Steady : InStep(j)

LEMMA ChangesKeepInStep ==
  ASSUME WellFormed, NEW j \in Job, InStep(j), Changes, j \notin raced'
  PROVE  InStep(j)'
  <1>1. PICK a, call, S : Change(a, call, S)
    BY DEF Changes
  <1>2. /\ a \in Actor /\ calls[a].pc \notin {"save", "drop"}
        /\ Follows(call, S) /\ rows' = rows
        /\ raced' = raced \cup Overtaken(S)
    BY <1>1 DEF Change, GoesOn
  <1>3. calls'[a] = call /\ \A b \in Actor : b # a => calls'[b] = calls[b]
    BY <1>1 DEF Change, GoesOn, WellFormed
  <1>4. \A b \in Actor : b # a => (WriteOf(b, j)' <=> WriteOf(b, j))
    BY <1>3 DEF WriteOf
  <1>5. ~WriteOf(a, j)
    BY <1>2 DEF WriteOf
  <1>6. CASE j \in S
    <2>1. \A b \in Actor : ~WriteOf(b, j)
      BY <1>2, <1>6 DEF Overtaken
    <2>2. \A b \in Actor : WriteOf(b, j)' => b = a
      BY <1>4, <2>1
    <2>3. WriteOf(a, j)'
      BY <1>2, <1>3, <1>6 DEF Follows, WriteOf
    <2>4. calls'[a].pc = "save" => j \in DOMAIN jobs' /\ calls'[a].save[j] = jobs'[j]
      BY <1>2, <1>3, <1>6 DEF Follows
    <2>5. ASSUME NEW b \in Actor, calls'[b].pc = "save", j \in DOMAIN calls'[b].save
          PROVE  j \in DOMAIN jobs' /\ calls'[b].save[j] = jobs'[j]
      <3>1. WriteOf(b, j)'
        BY <2>5 DEF WriteOf
      <3>. QED  BY <2>2, <2>4, <2>5, <3>1
    <2>. QED  BY <1>2, <2>2, <2>3, <2>5 DEF InStep, Known
  <1>7. CASE j \notin S
    <2>1. ~WriteOf(a, j)'
      BY <1>2, <1>3, <1>7 DEF Follows, WriteOf
    <2>2. \A b \in Actor : WriteOf(b, j)' <=> WriteOf(b, j)
      BY <1>4, <1>5, <2>1
    <2>3. (j \in DOMAIN jobs' <=> Known(j)) /\ (Known(j) => jobs'[j] = jobs[j])
      BY <1>1, <1>7 DEF Change
    <2>4. ASSUME NEW b \in Actor, calls'[b].pc = "save", j \in DOMAIN calls'[b].save
          PROVE  calls[b].pc = "save" /\ j \in DOMAIN calls[b].save /\ calls'[b] = calls[b]
      <3>1. WriteOf(b, j)'
        BY <2>4 DEF WriteOf
      <3>2. b # a
        BY <2>1, <3>1
      <3>. QED  BY <1>3, <2>4, <3>2
    <2>. QED  BY <1>2, <2>2, <2>3, <2>4 DEF InStep, Known
  <1>. QED  BY <1>6, <1>7

(* A call that ends its write leaves the other calls' writes as they are.  *)
LEMMA WriteEnds ==
  ASSUME WellFormed, NEW a \in Actor, NEW call, call.pc \notin {"save", "drop"},
         calls' = [calls EXCEPT ![a] = call], NEW j
  PROVE  /\ ~WriteOf(a, j)'
         /\ \A b \in Actor : b # a => calls'[b] = calls[b]
         /\ \A b \in Actor : b # a => (WriteOf(b, j)' <=> WriteOf(b, j))
  <1>1. calls'[a] = call /\ \A b \in Actor : b # a => calls'[b] = calls[b]
    BY DEF WellFormed
  <1>. QED  BY <1>1 DEF WriteOf

LEMMA RowsInStepKept ==
  WellFormed /\ RowsInStep /\ [Next]_vars => RowsInStep'
  <1> SUFFICES ASSUME WellFormed, RowsInStep, [Next]_vars, profile',
                      NEW j \in Job, j \notin raced', j \notin unsaved'
               PROVE  InStep(j)'
    BY DEF RowsInStep, Steady
  <1>0. /\ jobs \in Tables /\ rows \in Tables /\ \A a \in Actor : CallOK(a)
        /\ DOMAIN calls = Actor
    BY DEF WellFormed
  <1>1. profile /\ j \notin raced /\ j \notin unsaved => InStep(j)
    BY DEF RowsInStep, Steady
  <1>2. CASE Changes
    <2>1. InStep(j)
      BY <1>1, <1>2 DEF Changes, Change, GoesOn
    <2>. QED  BY <1>2, <2>1, ChangesKeepInStep
  <1>3. CASE Quiet
    BY <1>1, <1>3 DEF Quiet, InStep, WriteOf, Known
  <1>4. ASSUME NEW c \in Caller, ResumeProfile(c)  PROVE InStep(j)'
    <2>1. c \in Actor /\ Waiting \in SUBSET DOMAIN jobs
      BY DEF Actor, Waiting
    <2>2. /\ jobs' \in Tables /\ DOMAIN jobs' = DOMAIN jobs
          /\ \A i \in DOMAIN jobs \ Waiting : jobs'[i] = jobs[i]
      BY <1>4, <2>1, QueuedTable DEF ResumeProfile
    <2>3. /\ DOMAIN rows' = DOMAIN rows \cup Waiting
          /\ \A i \in Waiting : rows'[i] = jobs'[i]
          /\ \A i \in DOMAIN rows \ Waiting : rows'[i] = rows[i]
      BY <1>4, <2>1, <2>2, WrittenNow DEF ResumeProfile
    <2> DEFINE call == [Idle EXCEPT !.pc = "spawn", !.ids = Waiting]
    <2>4. call.pc = "spawn" /\ calls' = [calls EXCEPT ![c] = call]
      BY <1>4 DEF Idle, ResumeProfile, GoesOn
    <2> HIDE DEF call
    <2>5. InStep(j) /\ calls[c].pc = "idle" /\ raced' = raced \cup Overtaken(Waiting)
      BY <1>1, <1>4 DEF ResumeProfile, Begins, IsIdle, GoesOn
    <2>6. /\ ~WriteOf(c, j)'
          /\ \A b \in Actor : b # c => calls'[b] = calls[b]
          /\ \A b \in Actor : b # c => (WriteOf(b, j)' <=> WriteOf(b, j))
      BY <2>1, <2>4, WriteEnds
    <2>7. ~WriteOf(c, j)
      BY <2>5 DEF WriteOf
    <2>8. \A b \in Actor : WriteOf(b, j)' <=> WriteOf(b, j)
      BY <2>6, <2>7
    <2>9. CASE j \in Waiting
      <3>1. \A b \in Actor : ~WriteOf(b, j)'
        BY <2>5, <2>8, <2>9 DEF Overtaken
      <3>. QED  BY <2>1, <2>2, <2>3, <2>9, <3>1 DEF InStep, WriteOf, Known
    <2>10. CASE j \notin Waiting
      <3>1. ASSUME NEW b \in Actor, calls'[b].pc = "save", j \in DOMAIN calls'[b].save
            PROVE  Known(j) /\ calls'[b].save[j] = jobs[j]
        <4>1. WriteOf(b, j)'
          BY <3>1 DEF WriteOf
        <4>2. calls'[b] = calls[b]
          BY <2>6, <4>1
        <4>. QED  BY <2>5, <3>1, <4>2 DEF InStep
      <3>. QED  BY <2>2, <2>3, <2>5, <2>8, <2>10, <3>1 DEF InStep, Known
    <2>. QED  BY <2>9, <2>10
  <1>5. ASSUME NEW c \in Caller, ResumeProfileFails(c)  PROVE InStep(j)'
    <2>1. PICK done \in SUBSET Waiting, failed \in Waiting :
            /\ jobs' = WithState(done \cup {failed}, "Queued")
            /\ rows' = Written(Restrict(jobs', done))
            /\ unsaved' = unsaved \cup {failed}
            /\ raced' = raced \cup Overtaken(done \cup {failed})
      BY <1>5 DEF ResumeProfileFails
    <2>2. done \in SUBSET DOMAIN jobs /\ done \cup {failed} \in SUBSET DOMAIN jobs
      BY DEF Waiting
    <2>3. /\ jobs' \in Tables /\ DOMAIN jobs' = DOMAIN jobs
          /\ \A i \in DOMAIN jobs \ (done \cup {failed}) : jobs'[i] = jobs[i]
      BY <2>1, <2>2, QueuedTable
    <2>4. /\ DOMAIN rows' = DOMAIN rows \cup done
          /\ \A i \in done : rows'[i] = jobs'[i]
          /\ \A i \in DOMAIN rows \ done : rows'[i] = rows[i]
      BY <2>1, <2>2, <2>3, WrittenNow
    <2>5. InStep(j) /\ j # failed /\ UNCHANGED calls
      BY <1>1, <1>5, <2>1 DEF ResumeProfileFails
    <2>6. CASE j \in done
      <3>1. \A b \in Actor : ~WriteOf(b, j)
        BY <2>1, <2>6 DEF Overtaken
      <3>. QED  BY <2>2, <2>3, <2>4, <2>5, <2>6, <3>1 DEF InStep, WriteOf, Known
    <2>7. CASE j \notin done
      BY <2>3, <2>4, <2>5, <2>7 DEF InStep, WriteOf, Known
    <2>. QED  BY <2>6, <2>7
  <1>6. ASSUME NEW c \in Caller, DeleteProfile(c)  PROVE FALSE
    BY <1>6 DEF DeleteProfile
  <1>7. ASSUME NEW c \in Caller, Drop(c)  PROVE InStep(j)'
    <2>1. /\ calls[c].pc = "drop" /\ c \in Actor /\ InStep(j)
          /\ calls' = [calls EXCEPT ![c] = Idle] /\ UNCHANGED jobs
          /\ \/ rows' = Restrict(rows, DOMAIN rows \ calls[c].ids)
             \/ j \notin calls[c].ids /\ rows' = rows
      BY <1>1, <1>7 DEF Drop, Actor
    <2>2. /\ ~WriteOf(c, j)'
          /\ \A b \in Actor : b # c => calls'[b] = calls[b]
          /\ \A b \in Actor : b # c => (WriteOf(b, j)' <=> WriteOf(b, j))
      BY <2>1, IdleFields, WriteEnds
    <2>3. ASSUME NEW b \in Actor, calls'[b].pc = "save", j \in DOMAIN calls'[b].save
          PROVE  Known(j) /\ calls'[b].save[j] = jobs[j]
      <3>1. WriteOf(b, j)'
        BY <2>3 DEF WriteOf
      <3>2. calls'[b] = calls[b]
        BY <2>2, <3>1
      <3>. QED  BY <2>1, <2>3, <3>2 DEF InStep
    <2>4. CASE j \in calls[c].ids
      <3>1. WriteOf(c, j) /\ ~Known(j)
        BY <1>0, <2>1, <2>4 DEF WriteOf, CallOK, Known
      <3>2. rows' = Restrict(rows, DOMAIN rows \ calls[c].ids)
        BY <2>1, <2>4
      <3>3. j \notin DOMAIN rows'
        BY <1>0, <2>4, <3>2, RestrictTable
      <3>. QED  BY <2>1, <2>2, <2>3, <3>1, <3>3 DEF InStep, Known
    <2>5. CASE j \notin calls[c].ids
      <3>1. /\ j \in DOMAIN rows' <=> j \in DOMAIN rows
            /\ j \in DOMAIN rows => rows'[j] = rows[j]
        BY <1>0, <2>1, <2>5, RestrictTable
      <3>2. ~WriteOf(c, j)
        BY <2>1, <2>5 DEF WriteOf
      <3>. QED  BY <2>1, <2>2, <2>3, <3>1, <3>2 DEF InStep, Known
    <2>. QED  BY <2>4, <2>5
  <1>8. ASSUME NEW a \in Actor, Save(a)  PROVE InStep(j)'
    <2>1. /\ calls[a].pc = "save" /\ InStep(j)
          /\ calls' = [calls EXCEPT ![a] = AfterWrite(a)] /\ UNCHANGED jobs
      BY <1>1, <1>8 DEF Save
    <2>2. /\ DOMAIN rows' = DOMAIN rows \cup DOMAIN calls[a].save
          /\ \A i \in DOMAIN calls[a].save : rows'[i] = calls[a].save[i]
          /\ \A i \in DOMAIN rows \ DOMAIN calls[a].save : rows'[i] = rows[i]
      BY <1>8, SaveWrites
    <2>3. /\ ~WriteOf(a, j)'
          /\ \A b \in Actor : b # a => calls'[b] = calls[b]
          /\ \A b \in Actor : b # a => (WriteOf(b, j)' <=> WriteOf(b, j))
      BY <2>1, AfterWriteWritesNothing, WriteEnds
    <2>4. ASSUME NEW b \in Actor, calls'[b].pc = "save", j \in DOMAIN calls'[b].save
          PROVE  Known(j) /\ calls'[b].save[j] = jobs[j]
      <3>1. WriteOf(b, j)'
        BY <2>4 DEF WriteOf
      <3>2. calls'[b] = calls[b]
        BY <2>3, <3>1
      <3>. QED  BY <2>1, <2>4, <3>2 DEF InStep
    <2>5. CASE j \in DOMAIN calls[a].save
      <3>1. Known(j) /\ calls[a].save[j] = jobs[j] /\ WriteOf(a, j)
        BY <2>1, <2>5 DEF InStep, WriteOf
      <3>. QED  BY <2>1, <2>2, <2>3, <2>4, <2>5, <3>1 DEF InStep, Known
    <2>6. CASE j \notin DOMAIN calls[a].save
      <3>1. ~WriteOf(a, j)
        BY <2>1, <2>6 DEF WriteOf
      <3>. QED  BY <2>1, <2>2, <2>3, <2>4, <2>6, <3>1 DEF InStep, Known
    <2>. QED  BY <2>5, <2>6
  <1>9. ASSUME NEW a \in Actor, SaveFails(a)  PROVE InStep(j)'
    <2>1. /\ calls[a].pc = "save" /\ InStep(j) /\ j \notin DOMAIN calls[a].save
          /\ calls' = [calls EXCEPT ![a] = Idle] /\ UNCHANGED <<jobs, rows>>
      BY <1>1, <1>9 DEF SaveFails
    <2>2. /\ ~WriteOf(a, j)'
          /\ \A b \in Actor : b # a => calls'[b] = calls[b]
          /\ \A b \in Actor : b # a => (WriteOf(b, j)' <=> WriteOf(b, j))
      BY <2>1, IdleFields, WriteEnds
    <2>3. ASSUME NEW b \in Actor, calls'[b].pc = "save", j \in DOMAIN calls'[b].save
          PROVE  Known(j) /\ calls'[b].save[j] = jobs[j]
      <3>1. WriteOf(b, j)'
        BY <2>3 DEF WriteOf
      <3>2. calls'[b] = calls[b]
        BY <2>2, <3>1
      <3>. QED  BY <2>1, <2>3, <3>2 DEF InStep
    <2>4. ~WriteOf(a, j)
      BY <2>1 DEF WriteOf
    <2>. QED  BY <2>1, <2>2, <2>3, <2>4 DEF InStep, Known
  <1>10. ASSUME NEW i \in Job, WorkerSavesLocked(i)  PROVE InStep(j)'
    <2>1. /\ InStep(j) /\ UNCHANGED <<jobs, calls>>
          /\ {i} \in SUBSET DOMAIN jobs
          /\ rows' = Written(Restrict(jobs', {i}))
      BY <1>1, <1>10 DEF WorkerSavesLocked, Known
    <2>2. /\ DOMAIN rows' = DOMAIN rows \cup {i}
          /\ rows'[i] = jobs'[i]
          /\ \A k \in DOMAIN rows \ {i} : rows'[k] = rows[k]
      BY <1>0, <2>1, WrittenNow
    <2>. QED  BY <2>1, <2>2 DEF InStep, WriteOf, Known
  <1>11. CASE Restart
    <2>1. /\ jobs' = RestoredJobs(rows) /\ UNCHANGED rows
          /\ calls' = [a \in Actor |-> Idle]
      BY <1>11 DEF Restart
    <2>2. \A a \in Actor : calls'[a].pc = "idle"
      BY <2>1, IdleFields
    <2>3. /\ DOMAIN jobs' = DOMAIN rows
          /\ \A i \in DOMAIN rows : jobs'[i] = Restored(rows[i])
      BY <1>0, <2>1, RestoredTable
    <2>4. \A i \in DOMAIN rows : Restored(Restored(rows[i])) = Restored(rows[i])
      BY <1>0, TableElim, RestoredRecord
    <2>. QED  BY <2>1, <2>2, <2>3, <2>4 DEF InStep, WriteOf, Known
  <1>. QED  BY <1>2, <1>3, <1>4, <1>5, <1>6, <1>7, <1>8, <1>9, <1>10, <1>11,
               StepShapes

LEMMA RowsInStepInitially ==
  Init => RowsInStep
  <1> SUFFICES ASSUME Init, NEW j \in Job PROVE InStep(j)
    BY DEF RowsInStep, Steady
  <1>1. PICK table \in StartOf :
          /\ rows = table /\ jobs = RestoredJobs(table)
          /\ calls = [a \in Actor |-> Idle]
    BY DEF Init
  <1>2. /\ table \in Tables
        /\ DOMAIN jobs = DOMAIN table
        /\ \A i \in DOMAIN table : jobs[i] = Restored(table[i])
    BY <1>1, StartAssumption, RestoredTable
  <1>3. \A i \in DOMAIN table : Restored(Restored(table[i])) = Restored(table[i])
    BY <1>2, TableElim, RestoredRecord
  <1>4. \A a \in Actor : calls[a].pc = "idle"
    BY <1>1, IdleFields
  <1>. QED  BY <1>1, <1>2, <1>3, <1>4 DEF InStep, WriteOf, Known

(* A restart would bring back every transfer as it is now, and no transfer *)
(* that was cleared, except those that are still being written, that a     *)
(* write failed for, or whose writes overtook each other.                  *)
THEOREM RestartFaithful == Spec => []RestartKeepsState
  <1>1. Init => WellFormed /\ RowsInStep
    BY WellFormedInitially, RowsInStepInitially
  <1>2. WellFormed /\ RowsInStep /\ [Next]_vars => (WellFormed /\ RowsInStep)'
    BY WellFormedKept, RowsInStepKept
  <1>3. RowsInStep => RestartKeepsState
    BY DEF RowsInStep, Steady, InStep, RestartKeepsState
  <1>. QED  BY <1>1, <1>2, <1>3, PTL DEF Spec

-----------------------------------------------------------------------------
(* Nobody forgets a Queued transfer. *)

Served(j) == j \in adrift \/ workers[j] = "fresh" \/ SpawnDue(j)

Waits(j) == j \in DOMAIN jobs /\ jobs[j].state = "Queued"

(* A call that has transfers left knows what to do with them.             *)
Directed(call) ==
  call.pc = "next" \/ (call.pc \in {"save", "spawn"} /\ call.rest # << >>)
    => call.action \in Action

QueueServed ==
  /\ DOMAIN workers = Job
  /\ \A c \in Caller : Directed(calls[c])
  /\ \A j \in Job : Waits(j) => Served(j)

(* A command that has not spawned or saved for j before takes care of its  *)
(* own transfers; for the others everything is as it was.                  *)
LEMMA CommandServes ==
  ASSUME WellFormed, QueueServed, NEW c \in Caller, NEW call, NEW S,
         IsIdle(c) \/ calls[c].pc = "next",
         calls' = [calls EXCEPT ![c] = call],
         UNCHANGED <<workers, adrift>>, Directed(call),
         \A j \in Job \ S : Waits(j)' => Waits(j),
         \A j \in Job \cap S : Waits(j)' =>
           call.pc \in {"save", "spawn"} /\ j \in call.ids
  PROVE  QueueServed'
  <1>1. /\ calls'[c] = call
        /\ \A b \in Actor : b # c => calls'[b] = calls[b]
    BY DEF WellFormed, Actor
  <1>2. calls[c].pc \notin {"save", "spawn"}
    BY DEF IsIdle
  <1>3. \A b \in Caller : Directed(calls'[b])
    BY <1>1 DEF QueueServed, Actor
  <1>4. SUFFICES ASSUME NEW j \in Job, Waits(j)' PROVE Served(j)'
    BY <1>3 DEF QueueServed
  <1>5. CASE j \in S
    BY <1>1, <1>4, <1>5 DEF Served, SpawnDue
  <1>6. CASE j \notin S
    <2>1. Served(j)
      BY <1>4, <1>6 DEF QueueServed
    <2>2. SpawnDue(j) => SpawnDue(j)'
      BY <1>1, <1>2 DEF SpawnDue, Actor
    <2>. QED  BY <2>1, <2>2 DEF Served
  <1>. QED  BY <1>5, <1>6

LEMMA CommandQueuesNone ==
  ASSUME WellFormed, QueueServed, NEW c \in Caller, NEW call,
         IsIdle(c) \/ calls[c].pc = "next",
         calls' = [calls EXCEPT ![c] = call],
         UNCHANGED <<workers, adrift>>, Directed(call),
         \A j \in Job : Waits(j)' => Waits(j)
  PROVE  QueueServed'
  <1> DEFINE S == {}
  <1>1. \A j \in Job \ S : Waits(j)' => Waits(j)
    OBVIOUS
  <1>2. \A j \in Job \cap S : Waits(j)' =>
           call.pc \in {"save", "spawn"} /\ j \in call.ids
    OBVIOUS
  <1> HIDE DEF S
  <1>. QED  BY <1>1, <1>2, CommandServes

(* A worker's step is about its own transfer only.                        *)
LEMMA WorkerServes ==
  ASSUME WellFormed, QueueServed, NEW j \in Job,
         calls' = calls \/ \E call : calls' = [calls EXCEPT ![j] = call],
         workers' = workers \/ \E phase : workers' = [workers EXCEPT ![j] = phase],
         adrift \subseteq adrift',
         \A i \in Job \ {j} : Waits(i)' => Waits(i),
         Waits(j)' => j \in adrift' \/ (Waits(j) /\ workers[j] # "fresh")
                                    \/ (Waits(j) /\ workers' = workers)
  PROVE  QueueServed'
  <1>1. \A c \in Caller : calls'[c] = calls[c]
    BY ConstantsAssumption DEF WellFormed, Actor
  <1>2. \A i \in Job : SpawnDue(i) => SpawnDue(i)'
    BY <1>1 DEF SpawnDue
  <1>3. /\ DOMAIN workers' = Job
        /\ \A i \in Job \ {j} : workers'[i] = workers[i]
    BY DEF QueueServed
  <1>4. ASSUME NEW i \in Job, Waits(i)'  PROVE Served(i)'
    <2>1. CASE i = j
      BY <1>2, <1>4, <2>1 DEF QueueServed, Served
    <2>2. CASE i # j
      BY <1>2, <1>3, <1>4, <2>2 DEF QueueServed, Served
    <2>. QED  BY <2>1, <2>2
  <1>. QED  BY <1>1, <1>3, <1>4 DEF QueueServed

(* What a command leaves Queued it has just put there, or it was.         *)
LEMMA MovedOnly ==
  ASSUME WellFormed, NEW S, NEW s \in State, jobs' = WithState(S, s)
  PROVE  /\ \A j \in Job \ S : Waits(j)' => Waits(j)
         /\ s # "Queued" => \A j \in Job \cap S : ~Waits(j)'
         /\ DOMAIN jobs' = DOMAIN jobs
  <1>1. /\ DOMAIN jobs' = DOMAIN jobs
        /\ \A j \in DOMAIN jobs : j \notin S => jobs'[j] = jobs[j]
        /\ \A j \in DOMAIN jobs \cap S : jobs'[j].state = s
    BY WithStateTable DEF WellFormed
  <1>. QED  BY <1>1 DEF Waits

LEMMA ControlledServes ==
  ASSUME WellFormed, QueueServed, NEW c \in Caller, NEW j \in Job,
         IsIdle(c) \/ calls[c].pc = "next",
         NEW action, NEW rest, Target(action) \in State,
         action \in Action, Controlled(c, j, action, rest),
         UNCHANGED <<workers, adrift>>
  PROVE  QueueServed'
  <1> DEFINE call == [Idle EXCEPT !.pc = "save", !.save = Restrict(jobs', {j}),
                            !.ids = Woken(action, j), !.rest = rest,
                            !.action = IF rest = << >> THEN "none" ELSE action]
  <1>1. call.pc = "save" /\ call.ids = Woken(action, j) /\ Directed(call)
    BY DEF Idle, Directed
  <1>2. calls' = [calls EXCEPT ![c] = call] /\ jobs' = WithState({j}, Target(action))
    BY DEF Controlled, GoesOn
  <1> HIDE DEF call
  <1>3. /\ \A i \in Job \ {j} : Waits(i)' => Waits(i)
        /\ Target(action) # "Queued" => ~Waits(j)'
    BY <1>2, MovedOnly
  <1>4. Target(action) = "Queued" => j \in Woken(action, j)
    BY DEF Target, Woken, Action
  <1>5. \A i \in Job \cap {j} : Waits(i)' =>
          call.pc \in {"save", "spawn"} /\ i \in call.ids
    BY <1>1, <1>3, <1>4
  <1> DEFINE S == {j}
  <1>6. \A i \in Job \ S : Waits(i)' => Waits(i)
    BY <1>3
  <1>7. \A i \in Job \cap S : Waits(i)' =>
          call.pc \in {"save", "spawn"} /\ i \in call.ids
    BY <1>5
  <1> HIDE DEF S
  <1>. QED  BY <1>1, <1>2, <1>6, <1>7, CommandServes

LEMMA CommandsServe ==
  ASSUME WellFormed, QueueServed, NEW c \in Caller, Command(c) \/ ControlNext(c)
  PROVE  QueueServed'
  <1>0. /\ jobs \in Tables /\ DOMAIN jobs \subseteq Job
        /\ \A j \in DOMAIN jobs : jobs[j] \in Record
    BY TableElim DEF WellFormed
  <1>1. ASSUME NEW S \in SUBSET Job, jobs' = Inserted(S, "Queued")
        PROVE  \A j \in Job \ S : Waits(j)' => Waits(j)
    <2>1. "Queued" \in State
      BY DEF State
    <2>2. /\ DOMAIN Inserted(S, "Queued") = DOMAIN jobs \cup S
          /\ \A j \in DOMAIN jobs \ S : Inserted(S, "Queued")[j] = jobs[j]
      BY <1>0, <2>1, InsertedTable
    <2>3. /\ DOMAIN jobs' = DOMAIN jobs \cup S
          /\ \A j \in DOMAIN jobs \ S : jobs'[j] = jobs[j]
      BY <1>1, <2>2
    <2>. QED  BY <2>3 DEF Waits
  <1>2. CASE Enqueue(c)
    <2>1. PICK new \in (SUBSET NewIds) \ {{}} :
            /\ jobs' = Inserted(new, "Queued")
            /\ GoesOn(c, [Idle EXCEPT !.pc = "save", !.save = Restrict(jobs', new),
                                      !.ids = new, !.acks = new], new)
      BY <1>2 DEF Enqueue
    <2> DEFINE call == [Idle EXCEPT !.pc = "save", !.save = Restrict(jobs', new),
                                    !.ids = new, !.acks = new]
    <2>2. call.pc = "save" /\ call.ids = new /\ Directed(call)
      BY DEF Idle, Directed
    <2>3. calls' = [calls EXCEPT ![c] = call]
      BY <2>1 DEF GoesOn
    <2> HIDE DEF call
    <2>4. IsIdle(c) /\ UNCHANGED <<workers, adrift>>
      BY <1>2 DEF Enqueue, Begins
    <2>5. new \in SUBSET Job
      BY <2>1 DEF NewIds
    <2>6. \A j \in Job \ new : Waits(j)' => Waits(j)
      BY <1>1, <2>1, <2>5
    <2>. QED  BY <2>2, <2>3, <2>4, <2>6, CommandServes
  <1>3. CASE EnqueueLink(c)
    <2>1. PICK j \in NewIds :
            /\ jobs' = Inserted({j}, "Completed")
            /\ GoesOn(c, [Idle EXCEPT !.pc = "save", !.save = Restrict(jobs', {j}),
                                      !.acks = {j}], {j})
      BY <1>3 DEF EnqueueLink
    <2> DEFINE call == [Idle EXCEPT !.pc = "save", !.save = Restrict(jobs', {j}),
                                    !.acks = {j}]
    <2>2. Directed(call)
      BY DEF Idle, Directed
    <2>3. calls' = [calls EXCEPT ![c] = call]
      BY <2>1 DEF GoesOn
    <2> HIDE DEF call
    <2>4. IsIdle(c) /\ UNCHANGED <<workers, adrift>>
      BY <1>3 DEF EnqueueLink, Begins
    <2>5. {j} \in SUBSET Job /\ "Completed" \in State
      BY <2>1 DEF NewIds, State
    <2> DEFINE S == {j}
    <2> HIDE DEF S
    <2>6. /\ DOMAIN Inserted(S, "Completed") = DOMAIN jobs \cup S
          /\ \A i \in DOMAIN jobs \ S : Inserted(S, "Completed")[i] = jobs[i]
          /\ \A i \in S : Inserted(S, "Completed")[i].state = "Completed"
      BY <1>0, <2>5, InsertedTable DEF S
    <2>7. /\ DOMAIN jobs' = DOMAIN jobs \cup S
          /\ \A i \in DOMAIN jobs \ S : jobs'[i] = jobs[i]
          /\ \A i \in S : jobs'[i].state = "Completed"
      BY <2>1, <2>6 DEF S
    <2>8. \A i \in Job : Waits(i)' => Waits(i)
      BY <2>7 DEF Waits
    <2>. QED  BY <2>2, <2>3, <2>4, <2>8, CommandQueuesNone
  <1>4. CASE SetPriority(c)
    <2>1. PICK j \in DOMAIN jobs, p \in Priority :
            jobs' = [jobs EXCEPT ![j].priority = p] /\ Saves(c, {j})
      BY <1>4 DEF SetPriority
    <2> DEFINE call == [Idle EXCEPT !.pc = "save", !.save = Restrict(jobs', {j})]
    <2>2. Directed(call)
      BY DEF Idle, Directed
    <2>3. calls' = [calls EXCEPT ![c] = call]
      BY <2>1 DEF Saves, GoesOn
    <2> HIDE DEF call
    <2>4. IsIdle(c) /\ UNCHANGED <<workers, adrift>>
      BY <1>4 DEF SetPriority, Begins
    <2>5. \A i \in Job : Waits(i)' => Waits(i)
      BY <1>0, <2>1 DEF Waits, Record
    <2>. QED  BY <2>2, <2>3, <2>4, <2>5, CommandQueuesNone
  <1>5. CASE Reorder(c) \/ DeleteProfile(c)
    BY <1>5 DEF Reorder, DeleteProfile, QueueServed, Waits, Served, SpawnDue
  <1>6. CASE Control(c)
    <2>1. PICK j \in Job, action \in Action :
            CanMove(j, Target(action)) /\ Controlled(c, j, action, << >>)
      BY <1>6 DEF Control
    <2>2. IsIdle(c) /\ UNCHANGED <<workers, adrift>>
      BY <1>6 DEF Control, Begins
    <2>. QED  BY <2>1, <2>2, TargetIsAState, ControlledServes
  <1>7. CASE ControlAll(c)
    <2>1. PICK action \in Action :
            LET rest == Only(order, {j \in DOMAIN jobs : Candidate(action, jobs[j].state)})
            IN  GoesOn(c, [Idle EXCEPT !.pc = "next", !.rest = rest,
                                       !.action = action], {})
      BY <1>7 DEF ControlAll
    <2> DEFINE rest == Only(order, {j \in DOMAIN jobs : Candidate(action, jobs[j].state)})
    <2>2. GoesOn(c, [Idle EXCEPT !.pc = "next", !.rest = rest, !.action = action], {})
      BY <2>1
    <2> HIDE DEF rest
    <2> DEFINE call == [Idle EXCEPT !.pc = "next", !.rest = rest, !.action = action]
    <2>3. Directed(call)
      BY DEF Idle, Directed
    <2>4. calls' = [calls EXCEPT ![c] = call]
      BY <2>2 DEF GoesOn
    <2> HIDE DEF call
    <2>5. IsIdle(c) /\ UNCHANGED <<workers, adrift, jobs>>
      BY <1>7 DEF ControlAll, Begins
    <2>6. \A i \in Job : Waits(i)' => Waits(i)
      BY <2>5 DEF Waits
    <2>. QED  BY <2>3, <2>4, <2>5, <2>6, CommandQueuesNone
  <1>8. CASE ControlNext(c)
    <2> DEFINE j == Head(calls[c].rest)
               action == calls[c].action
    <2>1. calls[c].pc = "next" /\ UNCHANGED <<workers, adrift>>
      BY <1>8 DEF ControlNext
    <2>2. action \in Action
      BY <2>1 DEF QueueServed, Directed
    <2>3. CASE CanMove(j, Target(action))
      <3>1. Controlled(c, j, action, Tail(calls[c].rest))
        BY <1>8, <2>3 DEF ControlNext
      <3>2. j \in Job
        BY <1>0, <2>3 DEF CanMove, Known
      <3>. QED  BY <2>1, <2>2, <3>1, <3>2, TargetIsAState, ControlledServes
    <2>4. CASE ~CanMove(j, Target(action))
      <3>1. GoesOn(c, Idle, {}) /\ UNCHANGED jobs
        BY <1>8, <2>4 DEF ControlNext
      <3>2. Directed(Idle) /\ calls' = [calls EXCEPT ![c] = Idle]
        BY <3>1, IdleFields DEF Directed, GoesOn
      <3>3. \A i \in Job : Waits(i)' => Waits(i)
        BY <3>1 DEF Waits
      <3>. QED  BY <2>1, <3>2, <3>3, CommandQueuesNone
    <2>. QED  BY <2>3, <2>4
  <1>9. CASE Resolve(c)
    <2>1. PICK j \in DOMAIN jobs, batch \in BOOLEAN :
            LET targets == {i \in DOMAIN jobs :
                              i = j \/ (batch /\ ~IsTerminal(jobs[i].state))}
                woken == {i \in targets : jobs[i].state = "WaitingForConflict"}
            IN  /\ jobs' = WithState(woken, "Queued")
                /\ SavesAndSpawns(c, targets, woken)
      BY <1>9 DEF Resolve
    <2> DEFINE targets == {i \in DOMAIN jobs :
                             i = j \/ (batch /\ ~IsTerminal(jobs[i].state))}
               woken == {i \in targets : jobs[i].state = "WaitingForConflict"}
    <2>2. jobs' = WithState(woken, "Queued") /\ SavesAndSpawns(c, targets, woken)
      BY <2>1
    <2> HIDE DEF targets, woken
    <2> DEFINE call == [Idle EXCEPT !.pc = "save", !.save = Restrict(jobs', targets),
                                    !.ids = woken]
    <2>3. call.pc = "save" /\ call.ids = woken /\ Directed(call)
      BY DEF Idle, Directed
    <2>4. calls' = [calls EXCEPT ![c] = call]
      BY <2>2 DEF SavesAndSpawns, GoesOn
    <2> HIDE DEF call
    <2>5. IsIdle(c) /\ UNCHANGED <<workers, adrift>>
      BY <1>9 DEF Resolve, Begins
    <2>6. "Queued" \in State
      BY DEF State
    <2>7. \A i \in Job \ woken : Waits(i)' => Waits(i)
      BY <2>2, <2>6, MovedOnly
    <2>. QED  BY <2>3, <2>4, <2>5, <2>7, CommandServes
  <1>10. CASE Clear(c)
    <2>1. PICK filter \in Filter :
            LET removed == {j \in DOMAIN jobs : Matches(filter, jobs[j].state)}
            IN  /\ jobs' = Restrict(jobs, DOMAIN jobs \ removed)
                /\ GoesOn(c, [Idle EXCEPT !.pc = "drop", !.ids = removed], removed)
      BY <1>10 DEF Clear
    <2> DEFINE removed == {j \in DOMAIN jobs : Matches(filter, jobs[j].state)}
               call == [Idle EXCEPT !.pc = "drop", !.ids = removed]
    <2>2. /\ jobs' = Restrict(jobs, DOMAIN jobs \ removed)
          /\ calls' = [calls EXCEPT ![c] = call]
      BY <2>1 DEF GoesOn
    <2>3. Directed(call)
      BY DEF Idle, Directed
    <2> HIDE DEF call, removed
    <2>4. IsIdle(c) /\ UNCHANGED <<workers, adrift>>
      BY <1>10 DEF Clear, Begins
    <2>5. /\ DOMAIN jobs' = DOMAIN jobs \ removed
          /\ \A i \in DOMAIN jobs \ removed : jobs'[i] = jobs[i]
      BY <1>0, <2>2, RestrictTable
    <2>6. \A i \in Job : Waits(i)' => Waits(i)
      BY <2>5 DEF Waits
    <2>. QED  BY <2>2, <2>3, <2>4, <2>6, CommandQueuesNone
  <1>11. CASE ResumeProfile(c)
    <2> DEFINE call == [Idle EXCEPT !.pc = "spawn", !.ids = Waiting]
    <2>1. call.pc = "spawn" /\ call.ids = Waiting /\ Directed(call)
      BY DEF Idle, Directed
    <2>2. calls' = [calls EXCEPT ![c] = call] /\ jobs' = WithState(Waiting, "Queued")
      BY <1>11 DEF ResumeProfile, GoesOn
    <2> HIDE DEF call
    <2>3. IsIdle(c) /\ UNCHANGED <<workers, adrift>>
      BY <1>11 DEF ResumeProfile, Begins
    <2>4. "Queued" \in State
      BY DEF State
    <2>5. \A i \in Job \ Waiting : Waits(i)' => Waits(i)
      BY <2>2, <2>4, MovedOnly
    <2>. QED  BY <2>1, <2>2, <2>3, <2>5, CommandServes
  <1>12. CASE ResumeProfileFails(c)
    <2>1. PICK done \in SUBSET Waiting, failed \in Waiting :
            /\ jobs' = WithState(done \cup {failed}, "Queued")
            /\ adrift' = adrift \cup done \cup {failed}
      BY <1>12 DEF ResumeProfileFails
    <2>2. "Queued" \in State /\ UNCHANGED <<calls, workers>>
      BY <1>12 DEF ResumeProfileFails, State
    <2>3. \A i \in Job \ (done \cup {failed}) : Waits(i)' => Waits(i)
      BY <2>1, <2>2, MovedOnly
    <2>. QED  BY <2>1, <2>2, <2>3 DEF QueueServed, Served, SpawnDue
  <1>. QED  BY <1>2, <1>3, <1>4, <1>5, <1>6, <1>7, <1>8, <1>9, <1>10, <1>11,
               <1>12 DEF Command

LEMMA WorkersServe ==
  ASSUME WellFormed, QueueServed, NEW j \in Job, WorkerStep(j)
  PROVE  QueueServed'
  <1>0. jobs \in Tables /\ DOMAIN jobs \subseteq Job
    BY TableElim DEF WellFormed
  <1>1. ASSUME NEW s \in State, s # "Queued",
               jobs' = jobs \/ jobs' = WithState({j}, s)
        PROVE  \A i \in Job : Waits(i)' => Waits(i)
    <2>1. CASE jobs' = jobs
      BY <2>1 DEF Waits
    <2>2. CASE jobs' = WithState({j}, s)
      <3> DEFINE S == {j}
      <3>1. jobs' = WithState(S, s)
        BY <2>2
      <3>2. \A i \in S : i = j
        OBVIOUS
      <3> HIDE DEF S
      <3>3. /\ \A i \in Job \ S : Waits(i)' => Waits(i)
            /\ \A i \in Job \cap S : ~Waits(i)'
        BY <1>1, <3>1, MovedOnly
      <3>. QED  BY <3>3
    <2>. QED  BY <1>1, <2>1, <2>2
  <1>2. {"Running", "Completed", "WaitingForConflict", "Interrupted", "Failed",
         "WaitingForAuthentication"} \subseteq State \ {"Queued"}
    BY DEF State
  <1>3. ASSUME NEW S, Saves(j, S)
        PROVE  \E call : calls' = [calls EXCEPT ![j] = call]
    BY <1>3 DEF Saves, GoesOn
  <1>4. ASSUME NEW phase, WorkerGoesTo(j, phase)
        PROVE  \E p : workers' = [workers EXCEPT ![j] = p]
    BY <1>4 DEF WorkerGoesTo
  <1>5. ASSUME \A i \in Job : Waits(i)' => Waits(i),
               calls' = calls \/ Saves(j, {j}),
               workers' = workers \/ \E phase : WorkerGoesTo(j, phase),
               adrift \subseteq adrift',
               Waits(j)' => j \in adrift' \/ workers[j] # "fresh" \/ workers' = workers
        PROVE  QueueServed'
    <2>1. calls' = calls \/ \E call : calls' = [calls EXCEPT ![j] = call]
      BY <1>3, <1>5
    <2>2. workers' = workers \/ \E p : workers' = [workers EXCEPT ![j] = p]
      BY <1>4, <1>5
    <2>. QED  BY <1>5, <2>1, <2>2, WorkerServes
  <1>6. CASE WorkerStarts(j)
    <2>1. \A i \in Job : Waits(i)' => Waits(i)
      BY <1>1, <1>2, <1>6 DEF WorkerStarts
    <2>2. ~Waits(j)'
      <3>1. CASE jobs[j].state \in {"Queued", "Interrupted"}
        <4>1. jobs' = WithState({j}, "Running") /\ "Running" \in State
          BY <1>2, <1>6, <3>1 DEF WorkerStarts
        <4>. QED  BY <4>1, MovedOnly
      <3>2. CASE jobs[j].state \notin {"Queued", "Interrupted"}
        BY <1>6, <3>2 DEF WorkerStarts, Waits
      <3>. QED  BY <3>1, <3>2
    <2>. QED  BY <1>5, <1>6, <2>1, <2>2 DEF WorkerStarts
  <1>7. CASE WorkerSaves(j)
    <2>1. \A i \in Job : Waits(i)' => Waits(i)
      BY <1>7 DEF WorkerSaves, Waits
    <2>. QED  BY <1>5, <1>7, <2>1 DEF WorkerSaves
  <1>8. CASE WorkerSavesLocked(j)
    BY <1>8 DEF WorkerSavesLocked, QueueServed, Waits, Served, SpawnDue
  <1>9. ASSUME NEW s \in {"Completed", "WaitingForConflict"}, WorkerSettles(j, s)
        PROVE  QueueServed'
    <2>1. \A i \in Job : Waits(i)' => Waits(i)
      BY <1>1, <1>2, <1>9 DEF WorkerSettles
    <2>. QED  BY <1>5, <1>9, <2>1 DEF WorkerSettles, Works
  <1>10. CASE WorkerRetries(j)
    <2>1. \A i \in Job : Waits(i)' => Waits(i)
      BY <1>1, <1>2, <1>10 DEF WorkerRetries
    <2>. QED  BY <1>5, <1>10, <2>1 DEF WorkerRetries, Works
  <1>11. ASSUME NEW s \in {"Failed", "WaitingForAuthentication"}, WorkerFails(j, s)
         PROVE  QueueServed'
    <2>1. \A i \in Job : Waits(i)' => Waits(i)
      BY <1>1, <1>2, <1>11 DEF WorkerFails
    <2>2. workers[j] = "fresh" => ~Waits(j)
      BY <1>11 DEF WorkerFails, Works, Waits
    <2>. QED  BY <1>5, <1>11, <2>1, <2>2 DEF WorkerFails
  <1>12. CASE WorkerStops(j)
    <2>1. \A i \in Job : Waits(i)' => Waits(i)
      BY <1>12 DEF WorkerStops, Waits
    <2>2. workers[j] = "fresh" => ~Waits(j)
      BY <1>12 DEF WorkerStops, Works, Waits, Known
    <2>. QED  BY <1>5, <1>12, <2>1, <2>2 DEF WorkerStops
  <1>13. CASE WorkerFindsNoProfile(j)
    <2>1. \A i \in Job : Waits(i)' => Waits(i)
      BY <1>1, <1>2, <1>13 DEF WorkerFindsNoProfile
    <2>2. adrift \subseteq adrift' /\ (Waits(j) => j \in adrift')
      BY <1>13 DEF WorkerFindsNoProfile, Waits
    <2>3. /\ calls' = calls \/ Saves(j, {j})
          /\ \E phase : WorkerGoesTo(j, phase)
      BY <1>13 DEF WorkerFindsNoProfile
    <2>. QED  BY <1>5, <2>1, <2>2, <2>3
  <1>. QED  BY <1>6, <1>7, <1>8, <1>9, <1>10, <1>11, <1>12, <1>13 DEF WorkerStep

LEMMA CallsServe ==
  ASSUME WellFormed, QueueServed, NEW a \in Actor,
         Save(a) \/ SaveFails(a) \/ (a \in Caller /\ (Drop(a) \/ Spawn(a)))
  PROVE  QueueServed'
  <1>0. DOMAIN calls = Actor /\ Caller \subseteq Actor
    BY DEF WellFormed, Actor
  <1>1. /\ Directed(Idle)
        /\ a \in Caller /\ calls[a].pc \in {"save", "spawn"}
             => Directed(Remaining(a))
    <2>1. Directed(Idle)
      BY IdleFields DEF Directed
    <2>2. ASSUME a \in Caller, calls[a].pc \in {"save", "spawn"},
                 calls[a].rest # << >>
          PROVE  Directed(Remaining(a))
      <3>1. calls[a].action \in Action
        BY <2>2 DEF QueueServed, Directed
      <3>. QED  BY <2>2, <3>1 DEF Directed, Remaining, Idle
    <2>3. calls[a].rest = << >> => Remaining(a) = Idle
      BY DEF Remaining
    <2>. QED  BY <2>1, <2>2, <2>3
  <1>2. ASSUME NEW call, calls' = [calls EXCEPT ![a] = call],
               a \in Caller => Directed(call)
        PROVE  \A c \in Caller : Directed(calls'[c])
    BY <1>0, <1>2 DEF QueueServed
  <1>3. ASSUME Ended(a) = workers'
        PROVE  /\ DOMAIN workers' = Job
               /\ \A j \in Job : workers[j] = "fresh" => workers'[j] = "fresh"
    BY <1>3 DEF Ended, QueueServed
  <1>4. \A j \in Job : Waits(j)' <=> Waits(j)
    BY DEF Save, SaveFails, Drop, Spawn, Waits
  <1>5. CASE Save(a)
    <2>1. /\ calls' = [calls EXCEPT ![a] = AfterWrite(a)] /\ calls[a].pc = "save"
          /\ Ended(a) = workers' /\ adrift' = adrift
      BY <1>5 DEF Save
    <2>2. a \in Caller => Directed(AfterWrite(a))
      <3>1. CASE calls[a].ids = {}
        BY <1>1, <2>1, <3>1 DEF AfterWrite
      <3>2. CASE calls[a].ids # {} /\ a \in Caller
        <4>1. Directed(calls[a])
          BY <3>2 DEF QueueServed
        <4>. QED  BY <2>1, <3>2, <4>1 DEF AfterWrite, Directed, Idle
      <3>. QED  BY <3>1, <3>2
    <2>3. \A j \in calls[a].ids : /\ AfterWrite(a).pc = "spawn"
                                  /\ j \in AfterWrite(a).ids
      BY DEF AfterWrite, Idle
    <2>4. \A j \in Job : SpawnDue(j) => SpawnDue(j)'
      BY <1>0, <2>1, <2>3 DEF SpawnDue
    <2>5. \A c \in Caller : Directed(calls'[c])
      BY <1>2, <2>1, <2>2
    <2>. QED  BY <1>3, <1>4, <2>1, <2>4, <2>5 DEF QueueServed, Served
  <1>6. CASE SaveFails(a)
    <2>1. /\ calls' = [calls EXCEPT ![a] = Idle] /\ Ended(a) = workers'
          /\ adrift' = adrift \cup calls[a].ids
      BY <1>6 DEF SaveFails
    <2>2. \A j \in Job : SpawnDue(j) => SpawnDue(j)' \/ j \in adrift'
      BY <1>0, <2>1 DEF SpawnDue
    <2>3. \A c \in Caller : Directed(calls'[c])
      BY <1>1, <1>2, <2>1
    <2>. QED  BY <1>3, <1>4, <2>1, <2>2, <2>3 DEF QueueServed, Served
  <1>7. CASE a \in Caller /\ Drop(a)
    <2>1. /\ calls' = [calls EXCEPT ![a] = Idle] /\ calls[a].pc = "drop"
          /\ UNCHANGED <<workers, adrift>>
      BY <1>7 DEF Drop
    <2>2. \A j \in Job : SpawnDue(j) => SpawnDue(j)'
      BY <1>0, <2>1 DEF SpawnDue
    <2>3. \A c \in Caller : Directed(calls'[c])
      BY <1>1, <1>2, <1>7, <2>1
    <2>. QED  BY <1>4, <2>1, <2>2, <2>3 DEF QueueServed, Served
  <1>8. CASE a \in Caller /\ Spawn(a)
    <2>1. /\ calls' = [calls EXCEPT ![a] = Remaining(a)] /\ calls[a].pc = "spawn"
          /\ workers' = [j \in Job |-> IF j \in calls[a].ids THEN "fresh"
                                                             ELSE workers[j]]
          /\ adrift' = adrift
      BY <1>8 DEF Spawn
    <2>2. \A j \in Job : SpawnDue(j) => SpawnDue(j)' \/ workers'[j] = "fresh"
      BY <1>0, <2>1 DEF SpawnDue
    <2>3. \A c \in Caller : Directed(calls'[c])
      BY <1>1, <1>2, <1>8, <2>1
    <2>. QED  BY <1>4, <2>1, <2>2, <2>3 DEF QueueServed, Served
  <1>. QED  BY <1>5, <1>6, <1>7, <1>8

LEMMA QueueServedInitially ==
  Init => QueueServed
  <1> SUFFICES ASSUME Init PROVE QueueServed
    OBVIOUS
  <1>1. PICK table \in StartOf :
          /\ jobs = RestoredJobs(table) /\ calls = [a \in Actor |-> Idle]
          /\ workers = [j \in Job |-> "none"]
          /\ adrift = {j \in DOMAIN table : table[j].state = "Queued"}
    BY DEF Init
  <1>2. table \in Tables
    BY StartAssumption
  <1>3. \A j \in Job : Waits(j) => j \in adrift
    BY <1>1, <1>2, TableElim, RestoredTable, RestoredRecord DEF Waits
  <1>4. \A c \in Caller : Directed(calls[c])
    BY <1>1, IdleFields DEF Actor, Directed
  <1>. QED  BY <1>1, <1>3, <1>4 DEF QueueServed, Served

LEMMA QueueServedKept ==
  WellFormed /\ QueueServed /\ [Next]_vars => QueueServed'
  <1> SUFFICES ASSUME WellFormed, QueueServed, [Next]_vars PROVE QueueServed'
    OBVIOUS
  <1>1. CASE Restart
    <2>1. /\ jobs' = RestoredJobs(rows) /\ calls' = [a \in Actor |-> Idle]
          /\ workers' = [j \in Job |-> "none"]
          /\ adrift' = {j \in DOMAIN rows : rows[j].state = "Queued"}
      BY <1>1 DEF Restart
    <2>2. rows \in Tables
      BY DEF WellFormed
    <2>3. \A j \in Job : Waits(j)' => j \in adrift'
      BY <2>1, <2>2, TableElim, RestoredTable, RestoredRecord DEF Waits
    <2>4. \A c \in Caller : Directed(calls'[c])
      BY <2>1, IdleFields DEF Actor, Directed
    <2>. QED  BY <2>1, <2>3, <2>4 DEF QueueServed, Served
  <1>2. CASE UNCHANGED vars
    BY <1>2 DEF vars, QueueServed, Waits, Served, SpawnDue
  <1>3. Caller \subseteq Actor
    BY DEF Actor
  <1>. QED  BY <1>1, <1>2, <1>3, CommandsServe, WorkersServe, CallsServe DEF Next

(* A Queued transfer has a worker that is going to start it, or a command *)
(* about to spawn one, unless a restart or a failure left it Queued.      *)
THEOREM QueuedServed == Spec => []QueuedIsServed
  <1>1. Init => WellFormed /\ QueueServed
    BY WellFormedInitially, QueueServedInitially
  <1>2. WellFormed /\ QueueServed /\ [Next]_vars => (WellFormed /\ QueueServed)'
    BY WellFormedKept, QueueServedKept
  <1>3. WellFormed /\ QueueServed => QueuedIsServed
    <2>1. WellFormed => DOMAIN jobs \subseteq Job
      BY TableElim DEF WellFormed
    <2>. QED  BY <2>1 DEF QueueServed, Waits, Served, QueuedIsServed
  <1>. QED  BY <1>1, <1>2, <1>3, PTL DEF Spec

-----------------------------------------------------------------------------
(* The queue's order.  What matters of a list is what is on it and what    *)
(* comes before what; a list has no entry twice when nothing comes before  *)
(* itself.                                                                 *)

LEMMA InjectiveIsUnrepeated ==
  ASSUME NEW s \in Seq(Job)
  PROVE  IsInjective(s) <=> \A i : ~Before(s, i, i)
  <1>1. Len(s) \in Nat /\ DOMAIN s = 1..Len(s)
    BY LenProperties
  <1>2. IsInjective(s) <=> \A m, n \in DOMAIN s : s[m] = s[n] => m = n
    BY DEF IsInjective
  <1>3. ASSUME NEW m \in DOMAIN s, NEW n \in DOMAIN s, s[m] = s[n], m # n,
               \A i : ~Before(s, i, i)
        PROVE  FALSE
    <2>1. m < n \/ n < m
      BY <1>1, <1>3
    <2>2. Before(s, s[m], s[m])
      BY <1>3, <2>1 DEF Before
    <2>. QED  BY <1>3, <2>2
  <1>4. ASSUME NEW i, Before(s, i, i), \A m, n \in DOMAIN s : s[m] = s[n] => m = n
        PROVE  FALSE
    <2>1. PICK m, n \in DOMAIN s : m < n /\ s[m] = i /\ s[n] = i
      BY <1>4 DEF Before
    <2>2. m = n
      BY <1>4, <2>1
    <2>. QED  BY <1>1, <2>1, <2>2
  <1>. QED  BY <1>2, <1>3, <1>4

LEMMA BeforeAreListed ==
  ASSUME NEW s, NEW i, NEW j, Before(s, i, j)
  PROVE  i \in Range(s) /\ j \in Range(s)
  BY DEF Before, Range

(* In s \o t, everything of s comes before everything of t.                *)
LEMMA BeforeInConcat ==
  ASSUME NEW s \in Seq(Job), NEW t \in Seq(Job), NEW i, NEW j
  PROVE  Before(s \o t, i, j) <=>
           Before(s, i, j) \/ Before(t, i, j) \/ (i \in Range(s) /\ j \in Range(t))
  <1> DEFINE u == s \o t
  <1>1. /\ Len(s) \in Nat /\ DOMAIN s = 1..Len(s)
        /\ Len(t) \in Nat /\ DOMAIN t = 1..Len(t)
        /\ DOMAIN u = 1..(Len(s) + Len(t))
        /\ \A n \in 1..(Len(s) + Len(t)) : u[n] = IF n <= Len(s) THEN s[n] ELSE t[n - Len(s)]
    BY ConcatProperties, LenProperties
  <1> HIDE DEF u
  <1>2. \A n \in DOMAIN s : n \in DOMAIN u /\ u[n] = s[n]
    BY <1>1
  <1>3. \A n \in DOMAIN t : Len(s) + n \in DOMAIN u /\ u[Len(s) + n] = t[n]
    BY <1>1
  <1>4. \A n \in DOMAIN u : \/ n \in DOMAIN s /\ u[n] = s[n]
                            \/ n - Len(s) \in DOMAIN t /\ u[n] = t[n - Len(s)]
    BY <1>1
  <1>5. ASSUME Before(s, i, j)  PROVE Before(u, i, j)
    BY <1>2, <1>5 DEF Before
  <1>6. ASSUME Before(t, i, j)  PROVE Before(u, i, j)
    <2>1. PICK m, n \in DOMAIN t : m < n /\ t[m] = i /\ t[n] = j
      BY <1>6 DEF Before
    <2>2. Len(s) + m < Len(s) + n
      BY <1>1, <2>1
    <2>3. /\ Len(s) + m \in DOMAIN u /\ u[Len(s) + m] = i
          /\ Len(s) + n \in DOMAIN u /\ u[Len(s) + n] = j
      BY <1>3, <2>1
    <2>. QED  BY <2>2, <2>3 DEF Before
  <1>7. ASSUME i \in Range(s), j \in Range(t)  PROVE Before(u, i, j)
    <2>1. PICK m \in DOMAIN s, n \in DOMAIN t : s[m] = i /\ t[n] = j
      BY <1>7 DEF Range
    <2>2. m < Len(s) + n
      BY <1>1, <2>1
    <2>3. /\ m \in DOMAIN u /\ u[m] = i
          /\ Len(s) + n \in DOMAIN u /\ u[Len(s) + n] = j
      BY <1>2, <1>3, <2>1
    <2>. QED  BY <2>2, <2>3 DEF Before
  <1>8. ASSUME Before(u, i, j)
        PROVE  Before(s, i, j) \/ Before(t, i, j) \/ (i \in Range(s) /\ j \in Range(t))
    <2>1. PICK m, n \in DOMAIN u : m < n /\ u[m] = i /\ u[n] = j
      BY <1>8 DEF Before
    <2>2. m \in Nat /\ n \in Nat
      BY <1>1
    <2>3. CASE n <= Len(s)
      <3>1. m \in DOMAIN s /\ n \in DOMAIN s /\ s[m] = i /\ s[n] = j
        BY <1>1, <2>1, <2>2, <2>3
      <3>. QED  BY <2>1, <3>1 DEF Before
    <2>4. CASE Len(s) < m
      <3>1. /\ m - Len(s) \in DOMAIN t /\ t[m - Len(s)] = i
            /\ n - Len(s) \in DOMAIN t /\ t[n - Len(s)] = j
            /\ m - Len(s) < n - Len(s)
        BY <1>1, <2>1, <2>2, <2>4
      <3>. QED  BY <3>1 DEF Before
    <2>5. CASE m <= Len(s) /\ Len(s) < n
      <3>1. m \in DOMAIN s /\ s[m] = i /\ n - Len(s) \in DOMAIN t /\ t[n - Len(s)] = j
        BY <1>1, <2>1, <2>2, <2>5
      <3>. QED  BY <3>1 DEF Range
    <2>. QED  BY <1>1, <2>2, <2>3, <2>4, <2>5
  <1>. QED  BY <1>5, <1>6, <1>7, <1>8 DEF u

(* A list of one entry.                                                    *)
LEMMA Single ==
  ASSUME NEW e \in Job
  PROVE  /\ <<e>> \in Seq(Job) /\ Range(<<e>>) = {e}
         /\ \A i, j : ~Before(<<e>>, i, j)
  <1>1. /\ <<e>> \in Seq(Job) /\ DOMAIN <<e>> = {1} /\ <<e>>[1] = e
    OBVIOUS
  <1>. QED  BY <1>1 DEF Range, Before

LEMMA BeforeInAppend ==
  ASSUME NEW s \in Seq(Job), NEW e \in Job, NEW i, NEW j
  PROVE  Before(Append(s, e), i, j) <=> Before(s, i, j) \/ (i \in Range(s) /\ j = e)
  <1>1. Append(s, e) = s \o <<e>>
    BY AppendIsConcat
  <1>2. <<e>> \in Seq(Job) /\ Range(<<e>>) = {e} /\ ~Before(<<e>>, i, j)
    BY Single
  <1>3. PICK t : t = <<e>>
    OBVIOUS
  <1>4. /\ t \in Seq(Job) /\ (j \in Range(t) <=> j = e) /\ ~Before(t, i, j)
        /\ Append(s, e) = s \o t
    BY <1>1, <1>2, <1>3
  <1>5. Before(s \o t, i, j) <=>
          Before(s, i, j) \/ Before(t, i, j) \/ (i \in Range(s) /\ j \in Range(t))
    BY <1>4, BeforeInConcat
  <1>. QED  BY <1>4, <1>5

LEMMA SetToSeqInjective ==
  ASSUME NEW S, IsFiniteSet(S)
  PROVE  IsInjective(SetToSeq(S))
  <1>1. Cardinality(S) \in Nat /\ ExistsBijection(1..Cardinality(S), S)
    BY FS_CardinalityType
  <1>2. \E g \in [1..Cardinality(S) -> S] : IsInjective(g)
    BY <1>1 DEF ExistsBijection, Bijection, Injection
  <1>. QED  BY <1>2 DEF SetToSeq

-----------------------------------------------------------------------------
(* Only: the list of what is in S, in the order of the list it is taken    *)
(* from.  The function it is the last value of exists, by the least n      *)
(* for which it would not.                                                 *)

LEMMA LeastNat ==
  ASSUME NEW T \in SUBSET Nat, T # {}
  PROVE  \E x \in T : \A y \in T : x <= y
  <1> DEFINE R == OpToRel(<, Nat)
  <1>1. IsWellFoundedOn(R, Nat)
    BY NatLessThanWellFounded
  <1>2. \A x, y \in Nat : x < y => <<x, y>> \in R
    BY DEF OpToRel
  <1> HIDE DEF R
  <1>3. PICK x \in T : \A y \in T : <<y, x>> \notin R
    BY <1>1, WFMin
  <1>4. ASSUME NEW y \in T
        PROVE  x <= y
    <2>1. x \in Nat /\ y \in Nat /\ ~(y < x)
      BY <1>2, <1>3
    <2>. QED  BY <2>1
  <1>. QED  BY <1>4

(* What entry k of s makes of what was kept before.                        *)
Step(s, S, g, k) ==
  IF k = 0 THEN << >>
  ELSE IF s[k] \in S THEN Append(g[k - 1], s[k]) ELSE g[k - 1]

(* The first n steps of taking what is in S out of s.                      *)
Keeps(s, S, n, g) == g = [k \in 0..n |-> Step(s, S, g, k)]

LEMMA KeepsAt ==
  ASSUME NEW s, NEW S, NEW n \in Nat, NEW g, Keeps(s, S, n, g)
  PROVE  \A i \in 0..n : g[i] = Step(s, S, g, i)
  BY DEF Keeps

LEMMA KeepsExists ==
  ASSUME NEW s, NEW S, NEW n \in Nat
  PROVE  \E g : Keeps(s, S, n, g)
  <1> DEFINE T == {m \in Nat : ~ \E g : Keeps(s, S, m, g)}
  <1>1. SUFFICES ASSUME T # {}
                 PROVE  FALSE
    OBVIOUS
  <1>2. PICK m \in T : \A y \in T : m <= y
    BY <1>1, LeastNat
  <1>3. m # 0
    <2> DEFINE g == [k \in 0..0 |-> << >>]
    <2>1. g = [k \in 0..0 |-> Step(s, S, g, k)]
      BY DEF Step
    <2>2. Keeps(s, S, 0, g)
      BY <2>1 DEF Keeps
    <2>. QED  BY <2>2
  <1>4. PICK q \in Nat : q = m - 1 /\ q \notin T
    <2>1. m - 1 \in Nat /\ m - 1 \notin T
      BY <1>2, <1>3
    <2>. QED  BY <2>1
  <1>5. PICK h : Keeps(s, S, q, h)
    BY <1>4
  <1> DEFINE g == [k \in 0..m |-> IF k = m THEN Step(s, S, h, m) ELSE h[k]]
  <1>6. \A i \in 0..q : h[i] = Step(s, S, h, i)
    BY <1>5, KeepsAt
  <1>7. \A i \in 0..q : g[i] = h[i]
    BY <1>4
  <1>8. g[m] = Step(s, S, h, m)
    BY <1>4
  <1>9. g = [k \in 0..m |-> g[k]]
    OBVIOUS
  <1> HIDE DEF g
  <1>10. \A i \in 0..m : g[i] = Step(s, S, g, i)
    <2> SUFFICES ASSUME NEW i \in 0..m
                 PROVE  g[i] = Step(s, S, g, i)
      OBVIOUS
    <2>1. i # 0 => i - 1 \in 0..q
      BY <1>4
    <2>2. i # 0 => g[i - 1] = h[i - 1]
      BY <1>7, <2>1
    <2>3. Step(s, S, g, i) = Step(s, S, h, i)
      BY <2>2 DEF Step
    <2>4. i = m \/ i \in 0..q
      BY <1>4
    <2>. QED  BY <1>6, <1>7, <1>8, <2>3, <2>4
  <1>11. Keeps(s, S, m, g)
    BY <1>9, <1>10 DEF Keeps
  <1>. QED  BY <1>2, <1>11

(* t lists what the first n entries of s have of S, in their order.        *)
Kept(s, S, n, t) ==
  /\ t \in Seq(Job)
  /\ \A e : e \in Range(t) <=> e \in S /\ \E k \in 1..n : s[k] = e
  /\ \A i, j : Before(t, i, j) <=>
       i \in S /\ j \in S /\ \E m, k \in 1..n : m < k /\ s[m] = i /\ s[k] = j

(* One entry more.                                                         *)
LEMMA KeptNext ==
  ASSUME NEW s \in Seq(Job), NEW S, NEW m \in Nat, NEW n \in 1..Len(s), m + 1 = n,
         NEW t, Kept(s, S, m, t), NEW u,
         u = IF s[n] \in S THEN Append(t, s[n]) ELSE t
  PROVE  Kept(s, S, n, u)
  <1>1. /\ n \in Nat /\ s[n] \in Job
        /\ \A k : k \in 1..n <=> k \in 1..m \/ k = n
        /\ \A k \in 1..m : k < n
        /\ m \in Int /\ ~(n < n)
    BY LenProperties, ElementOfSeq
  <1>2. t \in Seq(Job)
    BY DEF Kept
  <1>3. \A e : (\E k \in 1..n : s[k] = e) <=> (\E k \in 1..m : s[k] = e) \/ s[n] = e
    BY <1>1
  <1>4. \A i, j : (\E l, k \in 1..n : l < k /\ s[l] = i /\ s[k] = j) <=>
                    \/ \E l, k \in 1..m : l < k /\ s[l] = i /\ s[k] = j
                    \/ j = s[n] /\ \E l \in 1..m : s[l] = i
    <2> SUFFICES ASSUME NEW i, NEW j
                 PROVE  (\E l, k \in 1..n : l < k /\ s[l] = i /\ s[k] = j) <=>
                          \/ \E l, k \in 1..m : l < k /\ s[l] = i /\ s[k] = j
                          \/ j = s[n] /\ \E l \in 1..m : s[l] = i
      OBVIOUS
    <2>1. ASSUME NEW l \in 1..n, NEW k \in 1..n, l < k, s[l] = i, s[k] = j
          PROVE  \/ \E x, y \in 1..m : x < y /\ s[x] = i /\ s[y] = j
                 \/ j = s[n] /\ \E x \in 1..m : s[x] = i
      <3>1. l \in 1..m
        BY <1>1, <2>1
      <3>2. k \in 1..m \/ k = n
        BY <1>1
      <3>. QED  BY <2>1, <3>1, <3>2
    <2>2. ASSUME NEW l \in 1..m, NEW k \in 1..m, l < k, s[l] = i, s[k] = j
          PROVE  \E x, y \in 1..n : x < y /\ s[x] = i /\ s[y] = j
      BY <1>1, <2>2
    <2>3. ASSUME NEW l \in 1..m, s[l] = i, j = s[n]
          PROVE  \E x, y \in 1..n : x < y /\ s[x] = i /\ s[y] = j
      BY <1>1, <2>3
    <2>. QED  BY <2>1, <2>2, <2>3
  <1>5. CASE s[n] \notin S
    <2>1. u = t
      BY <1>5
    <2>. QED  BY <1>3, <1>4, <1>5, <2>1 DEF Kept
  <1>6. CASE s[n] \in S
    <2>1. PICK e : e = s[n]
      OBVIOUS
    <2>2. e \in Job /\ e \in S /\ u = Append(t, e)
      BY <1>1, <1>6, <2>1
    <2>3. u \in Seq(Job) /\ Range(u) = Range(t) \cup {e}
      BY <1>2, <2>2, RangeOfAppend
    <2>4. \A i, j : Before(u, i, j) <=> Before(t, i, j) \/ (i \in Range(t) /\ j = e)
      BY <1>2, <2>2, BeforeInAppend
    <2>5. \A x : x \in Range(u) <=> x \in S /\ \E k \in 1..n : s[k] = x
      BY <1>3, <2>1, <2>2, <2>3 DEF Kept
    <2>6. \A i, j : Before(u, i, j) <=>
            i \in S /\ j \in S /\ \E l, k \in 1..n : l < k /\ s[l] = i /\ s[k] = j
      BY <1>4, <2>1, <2>2, <2>4 DEF Kept
    <2>. QED  BY <2>3, <2>5, <2>6 DEF Kept
  <1>. QED  BY <1>5, <1>6

LEMMA KeepsKept ==
  ASSUME NEW s \in Seq(Job), NEW S, NEW g, Keeps(s, S, Len(s), g)
  PROVE  Kept(s, S, Len(s), g[Len(s)])
  <1> DEFINE T == {n \in 0..Len(s) : ~Kept(s, S, n, g[n])}
  <1>1. Len(s) \in Nat
    BY LenProperties
  <1>2. SUFFICES ASSUME T # {}
                 PROVE  FALSE
    BY <1>1
  <1>3. PICK n \in T : \A y \in T : n <= y
    <2>1. T \in SUBSET Nat
      BY <1>1
    <2>. QED  BY <1>2, <2>1, LeastNat
  <1>4. n \in 0..Len(s) /\ ~Kept(s, S, n, g[n])
    OBVIOUS
  <1>5. n # 0
    <2>1. 0 \in 0..Len(s)
      BY <1>1
    <2>2. g[0] = << >>
      <3>1. g[0] = Step(s, S, g, 0)
        BY <1>1, <2>1, KeepsAt
      <3>. QED  BY <3>1 DEF Step
    <2>3. << >> \in Seq(Job) /\ DOMAIN << >> = {}
      OBVIOUS
    <2>4. Kept(s, S, 0, << >>)
      BY <2>3 DEF Kept, Range, Before
    <2>. QED  BY <1>4, <2>2, <2>4
  <1>6. PICK m \in Nat : m + 1 = n
    <2>1. n - 1 \in Nat /\ (n - 1) + 1 = n
      BY <1>1, <1>4, <1>5
    <2>. QED  BY <2>1
  <1>7. m \in 0..Len(s) /\ m = n - 1 /\ n \in 1..Len(s)
    BY <1>1, <1>4, <1>5, <1>6
  <1>8. Kept(s, S, m, g[m])
    BY <1>3, <1>6, <1>7
  <1>9. g[n] = IF s[n] \in S THEN Append(g[m], s[n]) ELSE g[m]
    <2>1. g[n] = Step(s, S, g, n)
      BY <1>1, <1>4, KeepsAt
    <2>. QED  BY <1>5, <1>7, <2>1 DEF Step
  <1>. QED  BY <1>4, <1>6, <1>7, <1>8, <1>9, KeptNext

(* What a list is when only a part of it is kept.                          *)
LEMMA OnlyIs ==
  ASSUME NEW s \in Seq(Job), NEW S
  PROVE  /\ Only(s, S) \in Seq(Job)
         /\ Range(Only(s, S)) = Range(s) \cap S
         /\ \A i, j : Before(Only(s, S), i, j) <=> i \in S /\ j \in S /\ Before(s, i, j)
  <1>1. Len(s) \in Nat /\ DOMAIN s = 1..Len(s)
    BY LenProperties
  <1>2. \E g : Keeps(s, S, Len(s), g)
    BY <1>1, KeepsExists
  <1> DEFINE g == CHOOSE f : Keeps(s, S, Len(s), f)
  <1>3. Keeps(s, S, Len(s), g)
    BY <1>2
  <1>4. Only(s, S) = g[Len(s)]
    BY DEF Only, Keeps, Step
  <1> HIDE DEF g
  <1>5. Kept(s, S, Len(s), Only(s, S))
    BY <1>3, <1>4, KeepsKept
  <1>6. Only(s, S) \in Seq(Job)
    BY <1>5 DEF Kept
  <1>7. \A e : e \in Range(Only(s, S)) <=> e \in S /\ e \in Range(s)
    BY <1>1, <1>5 DEF Kept, Range
  <1>8. \A i, j : Before(Only(s, S), i, j) <=> i \in S /\ j \in S /\ Before(s, i, j)
    <2>1. \A i, j : Before(Only(s, S), i, j) <=>
            i \in S /\ j \in S /\ \E m, k \in 1..Len(s) : m < k /\ s[m] = i /\ s[k] = j
      BY <1>5 DEF Kept
    <2>2. \A i, j : Before(s, i, j) <=>
            \E m, k \in 1..Len(s) : m < k /\ s[m] = i /\ s[k] = j
      BY <1>1 DEF Before
    <2>. QED  BY <2>1, <2>2
  <1>. QED  BY <1>6, <1>7, <1>8

-----------------------------------------------------------------------------
(* What the queue's operations make of an order.                           *)

(* seq lists the transfers D, each once.                                   *)
Lists(seq, D) == seq \in Seq(Job) /\ IsInjective(seq) /\ Range(seq) = D

LEMMA ListsUnrepeated ==
  ASSUME NEW s \in Seq(Job), NEW D, Range(s) = D, \A i : ~Before(s, i, i)
  PROVE  Lists(s, D)
  BY InjectiveIsUnrepeated DEF Lists

LEMMA ListsElim ==
  ASSUME NEW s, NEW D, Lists(s, D)
  PROVE  /\ s \in Seq(Job) /\ Range(s) = D /\ D \subseteq Job
         /\ \A i : ~Before(s, i, i)
         /\ \A i, j : Before(s, i, j) => i \in D /\ j \in D
  <1>1. s \in Seq(Job) /\ IsInjective(s) /\ Range(s) = D
    BY DEF Lists
  <1>2. \A i : ~Before(s, i, i)
    BY <1>1, InjectiveIsUnrepeated
  <1>3. D \subseteq Job
    <2>1. \A n \in DOMAIN s : s[n] \in Job
      BY <1>1, LenProperties, ElementOfSeq
    <2>. QED  BY <1>1, <2>1 DEF Range
  <1>4. \A i, j : Before(s, i, j) => i \in Range(s) /\ j \in Range(s)
    BY BeforeAreListed
  <1>. QED  BY <1>1, <1>2, <1>3, <1>4

LEMMA OnlyLists ==
  ASSUME NEW s, NEW D, Lists(s, D), NEW S
  PROVE  Lists(Only(s, S), D \cap S)
  <1>1. /\ Only(s, S) \in Seq(Job) /\ Range(Only(s, S)) = D \cap S
        /\ \A i : ~Before(Only(s, S), i, i)
    BY ListsElim, OnlyIs
  <1>. QED  BY <1>1, ListsUnrepeated

LEMMA ConcatLists ==
  ASSUME NEW s, NEW D, Lists(s, D), NEW t, NEW E, Lists(t, E), D \cap E = {}
  PROVE  /\ Lists(s \o t, D \cup E)
         /\ \A i, j : Before(s \o t, i, j) <=>
              Before(s, i, j) \/ Before(t, i, j) \/ (i \in D /\ j \in E)
  <1>1. /\ s \in Seq(Job) /\ Range(s) = D /\ t \in Seq(Job) /\ Range(t) = E
        /\ \A i : ~Before(s, i, i) /\ ~Before(t, i, i)
    BY ListsElim
  <1>2. s \o t \in Seq(Job) /\ Range(s \o t) = D \cup E
    BY <1>1, RangeOfConcat
  <1>3. \A i, j : Before(s \o t, i, j) <=>
          Before(s, i, j) \/ Before(t, i, j) \/ (i \in D /\ j \in E)
    BY <1>1, BeforeInConcat
  <1>4. \A i : ~Before(s \o t, i, i)
    BY <1>1, <1>3
  <1>. QED  BY <1>2, <1>3, <1>4, ListsUnrepeated

LEMMA NewLists ==
  ASSUME NEW S \in SUBSET Job
  PROVE  Lists(SetToSeq(S), S)
  <1>1. IsFiniteSet(S)
    BY ConstantsAssumption, FS_Subset
  <1>2. SetToSeq(S) \in Seq(S) /\ Range(SetToSeq(S)) = S /\ IsInjective(SetToSeq(S))
    BY <1>1, SetToSeqRange, SetToSeqInjective
  <1>3. SetToSeq(S) \in Seq(Job)
    BY <1>2
  <1>. QED  BY <1>2, <1>3 DEF Lists

LEMMA SingleLists ==
  ASSUME NEW e \in Job
  PROVE  Lists(<<e>>, {e}) /\ \A i, j : ~Before(<<e>>, i, j)
  BY Single, ListsUnrepeated

(* Nothing else moves when a transfer is put between two others.           *)
LEMMA InsertLists ==
  ASSUME NEW s, NEW D, Lists(s, D), NEW e \in Job \ D, NEW k \in 1..Len(s)
  PROVE  /\ Lists(InsertAt(s, k, e), D \cup {e})
         /\ \A i, j : i # e /\ j # e => (Before(InsertAt(s, k, e), i, j) <=> Before(s, i, j))
  <1> DEFINE a == SubSeq(s, 1, k - 1)
             b == SubSeq(s, k, Len(s))
             one == <<e>>
  <1>1. s \in Seq(Job) /\ Len(s) \in Nat /\ Range(s) = D /\ \A i : ~Before(s, i, i)
    BY ListsElim, LenProperties
  <1>2. a \in Seq(Job) /\ b \in Seq(Job) /\ a \o b = s
    <2>1. /\ a \in Seq(Job) /\ Len(a) = k - 1 /\ \A i \in 1..(k - 1) : a[i] = s[i]
      BY <1>1
    <2>2. /\ b \in Seq(Job) /\ Len(b) = Len(s) - k + 1
          /\ \A i \in 1..(Len(s) - k + 1) : b[i] = s[k + i - 1]
      BY <1>1
    <2> HIDE DEF a, b
    <2>3. /\ a \o b \in Seq(Job) /\ Len(a \o b) = Len(a) + Len(b)
          /\ \A i \in 1..(Len(a) + Len(b)) :
               (a \o b)[i] = IF i <= Len(a) THEN a[i] ELSE b[i - Len(a)]
      BY <2>1, <2>2, ConcatProperties
    <2>4. Len(a \o b) = Len(s)
      BY <1>1, <2>1, <2>2, <2>3
    <2>5. ASSUME NEW i \in 1..Len(s)
          PROVE  (a \o b)[i] = s[i]
      <3>1. i \in 1..(Len(a) + Len(b))
        BY <1>1, <2>1, <2>2
      <3>2. CASE i <= k - 1
        BY <2>1, <2>3, <3>1, <3>2
      <3>3. CASE i > k - 1
        <4>1. (a \o b)[i] = b[i - (k - 1)]
          BY <2>1, <2>3, <3>1, <3>3
        <4>2. i - (k - 1) \in 1..(Len(s) - k + 1) /\ k + (i - (k - 1)) - 1 = i
          BY <1>1, <3>3
        <4>. QED  BY <2>2, <4>1, <4>2
      <3>4. i <= k - 1 \/ i > k - 1
        BY <1>1
      <3>. QED  BY <3>2, <3>3, <3>4
    <2>. QED  BY <1>1, <2>1, <2>2, <2>3, <2>4, <2>5, SeqEqual
  <1>3. InsertAt(s, k, e) = a \o one \o b
    BY DEF InsertAt
  <1>4. Lists(one, {e}) /\ \A i, j : ~Before(one, i, j)
    BY SingleLists
  <1> HIDE DEF a, b, one
  <1>5. PICK A, B, E : A = Range(a) /\ B = Range(b) /\ E = {e}
    OBVIOUS
  <1>6. /\ D = A \cup B
        /\ \A i, j : Before(s, i, j) <=>
             Before(a, i, j) \/ Before(b, i, j) \/ (i \in A /\ j \in B)
    BY <1>1, <1>2, <1>5, RangeOfConcat, BeforeInConcat
  <1>7. Lists(a, A) /\ Lists(b, B) /\ Lists(one, E) /\ A \cap B = {}
    BY <1>1, <1>2, <1>4, <1>5, <1>6, ListsUnrepeated
  <1>8. A \cap E = {} /\ (A \cup E) \cap B = {} /\ (A \cup E) \cup B = D \cup {e}
    BY <1>5, <1>6, <1>7
  <1>9. /\ Lists(a \o one, A \cup E)
        /\ \A i, j : Before(a \o one, i, j) <=>
             Before(a, i, j) \/ Before(one, i, j) \/ (i \in A /\ j \in E)
    BY <1>7, <1>8, ConcatLists
  <1>10. PICK c, C : c = a \o one /\ C = A \cup E
    OBVIOUS
  <1>11. Lists(c, C) /\ C \cap B = {}
    BY <1>8, <1>9, <1>10
  <1>12. /\ Lists(c \o b, C \cup B)
         /\ \A i, j : Before(c \o b, i, j) <=>
              Before(c, i, j) \/ Before(b, i, j) \/ (i \in C /\ j \in B)
    BY <1>7, <1>11, ConcatLists
  <1>13. Lists(c \o b, D \cup {e})
    BY <1>8, <1>10, <1>12
  <1>14. ASSUME NEW i, NEW j, i # e, j # e
         PROVE  Before(c \o b, i, j) <=> Before(s, i, j)
    <2>1. i \notin E /\ j \notin E
      BY <1>5, <1>14
    <2>. QED  BY <1>4, <1>6, <1>9, <1>10, <1>12, <2>1
  <1>. QED  BY <1>3, <1>10, <1>13, <1>14

(* reorder keeps the queue, and the order of all others.                   *)
LEMMA ReorderedIs ==
  ASSUME NEW D, Lists(order, D), NEW id \in D, NEW before
  PROVE  /\ Lists(Reordered(id, before), D)
         /\ \A i, j : i # id /\ j # id =>
              (Before(Reordered(id, before), i, j) <=> Before(order, i, j))
  <1> DEFINE others == Only(order, Job \ {id})
             index == SelectInSeq(others, LAMBDA j : j = before)
  <1>1. /\ order \in Seq(Job) /\ D \subseteq Job
        /\ \A i, j : Before(order, i, j) => i \in D /\ j \in D
    BY ListsElim
  <1>2. Lists(others, D \ {id})
    <2>1. D \cap (Job \ {id}) = D \ {id}
      BY <1>1
    <2>. QED  BY <2>1, OnlyLists
  <1>3. \A i, j : i # id /\ j # id => (Before(others, i, j) <=> Before(order, i, j))
    BY <1>1, OnlyIs
  <1>4. others \in Seq(Job) /\ Len(others) \in Nat
    BY <1>2, ListsElim, LenProperties
  <1>5. Reordered(id, before) =
          IF index = 0 THEN Append(others, id) ELSE InsertAt(others, index, id)
    BY DEF Reordered
  <1>6. index = 0 \/ index \in 1..Len(others)
    <2> DEFINE I == {i \in 1..Len(others) : others[i] = before}
    <2>1. index = IF I # {} THEN Min(I) ELSE 0
      BY DEF SelectInSeq
    <2>2. I # {} => Min(I) \in I
      <3>1. ASSUME I # {}  PROVE \E x \in I : \A y \in I : x <= y
        <4>1. I \in SUBSET Nat
          OBVIOUS
        <4>. QED  BY <3>1, <4>1, LeastNat
      <3>. QED  BY <3>1 DEF Min
    <2>. QED  BY <2>1, <2>2
  <1> HIDE DEF others, index
  <1>7. (D \ {id}) \cup {id} = D /\ id \in Job \ (D \ {id})
    BY <1>1
  <1>8. CASE index = 0
    <2>1. Reordered(id, before) = others \o <<id>>
      BY <1>4, <1>5, <1>7, <1>8, AppendIsConcat
    <2>2. PICK one, E, O : one = <<id>> /\ E = {id} /\ O = D \ {id}
      OBVIOUS
    <2>3. Lists(one, E) /\ \A i, j : ~Before(one, i, j)
      BY <1>7, <2>2, SingleLists
    <2>4. Lists(others, O) /\ O \cap E = {} /\ O \cup E = D
      BY <1>2, <1>7, <2>2
    <2>5. /\ Lists(others \o one, O \cup E)
          /\ \A i, j : Before(others \o one, i, j) <=>
               Before(others, i, j) \/ Before(one, i, j) \/ (i \in O /\ j \in E)
      BY <2>3, <2>4, ConcatLists
    <2>6. Lists(others \o one, D) /\ Reordered(id, before) = others \o one
      BY <2>1, <2>2, <2>4, <2>5
    <2>7. \A i, j : i # id /\ j # id => (Before(others \o one, i, j) <=> Before(order, i, j))
      BY <1>3, <2>2, <2>3, <2>5
    <2>. QED  BY <2>6, <2>7
  <1>9. CASE index # 0
    <2>1. index \in 1..Len(others) /\ Reordered(id, before) = InsertAt(others, index, id)
      BY <1>5, <1>6, <1>9
    <2>2. /\ Lists(InsertAt(others, index, id), (D \ {id}) \cup {id})
          /\ \A i, j : i # id /\ j # id =>
               (Before(InsertAt(others, index, id), i, j) <=> Before(others, i, j))
      BY <1>2, <1>7, <2>1, InsertLists
    <2>. QED  BY <1>3, <1>7, <2>1, <2>2
  <1>. QED  BY <1>8, <1>9

(* The sort keeps the queue, and the order of the transfers of a priority. *)
LEMMA ByPriorityIs ==
  ASSUME NEW js \in Tables, Lists(order, DOMAIN js)
  PROVE  /\ Lists(ByPriority(js), DOMAIN js)
         /\ \A i, j \in DOMAIN js : js[i].priority = js[j].priority =>
              (Before(ByPriority(js), i, j) <=> Before(order, i, j))
  <1> DEFINE Of(p) == {j \in DOMAIN js : js[j].priority = p}
             H == Of("high")
             N == Of("normal")
             L == Of("low")
             h == OfPriority(js, "high")
             n == OfPriority(js, "normal")
             l == OfPriority(js, "low")
  <1>1. \A j \in DOMAIN js : js[j].priority \in Priority
    BY TableElim DEF Record
  <1>2. /\ DOMAIN js = H \cup N \cup L
        /\ H \cap N = {} /\ (H \cup N) \cap L = {}
    BY <1>1 DEF Priority
  <1>3. order \in Seq(Job)
    BY ListsElim
  <1>4. \A p : DOMAIN js \cap Of(p) = Of(p)
    OBVIOUS
  <1>5. Lists(h, H) /\ Lists(n, N) /\ Lists(l, L)
    BY <1>4, OnlyLists DEF OfPriority
  <1>6. /\ \A i, j : Before(h, i, j) <=> i \in H /\ j \in H /\ Before(order, i, j)
        /\ \A i, j : Before(n, i, j) <=> i \in N /\ j \in N /\ Before(order, i, j)
        /\ \A i, j : Before(l, i, j) <=> i \in L /\ j \in L /\ Before(order, i, j)
    BY <1>3, OnlyIs DEF OfPriority
  <1>7. ByPriority(js) = h \o n \o l
    BY DEF ByPriority
  <1>8. \A i, j \in DOMAIN js : js[i].priority = js[j].priority =>
          \/ i \in H /\ j \in H /\ i \notin N \cup L /\ j \notin N \cup L
          \/ i \in N /\ j \in N /\ i \notin H \cup L /\ j \notin H \cup L
          \/ i \in L /\ j \in L /\ i \notin H \cup N /\ j \notin H \cup N
    BY <1>1 DEF Priority
  <1> HIDE DEF H, N, L, h, n, l
  <1>9. /\ Lists(h \o n, H \cup N)
        /\ \A i, j : Before(h \o n, i, j) <=>
             Before(h, i, j) \/ Before(n, i, j) \/ (i \in H /\ j \in N)
    BY <1>2, <1>5, ConcatLists
  <1>10. /\ Lists(h \o n \o l, (H \cup N) \cup L)
         /\ \A i, j : Before(h \o n \o l, i, j) <=>
              Before(h \o n, i, j) \/ Before(l, i, j) \/ (i \in H \cup N /\ j \in L)
    <2>1. PICK a, A : a = h \o n /\ A = H \cup N
      OBVIOUS
    <2>2. Lists(a, A) /\ Lists(l, L) /\ A \cap L = {}
      BY <1>2, <1>5, <1>9, <2>1
    <2>3. /\ Lists(a \o l, A \cup L)
          /\ \A i, j : Before(a \o l, i, j) <=>
               Before(a, i, j) \/ Before(l, i, j) \/ (i \in A /\ j \in L)
      BY <2>2, ConcatLists
    <2>. QED  BY <2>1, <2>3
  <1>11. ASSUME NEW i \in DOMAIN js, NEW j \in DOMAIN js, js[i].priority = js[j].priority
         PROVE  Before(h \o n \o l, i, j) <=> Before(order, i, j)
    <2>1. \/ i \in H /\ j \in H /\ i \notin N \cup L /\ j \notin N \cup L
          \/ i \in N /\ j \in N /\ i \notin H \cup L /\ j \notin H \cup L
          \/ i \in L /\ j \in L /\ i \notin H \cup N /\ j \notin H \cup N
      BY <1>8, <1>11
    <2>. QED  BY <1>6, <1>9, <1>10, <2>1
  <1>. QED  BY <1>2, <1>7, <1>10, <1>11

-----------------------------------------------------------------------------
(* The queue lists the transfers it holds, each once, and no step moves    *)
(* more than one of them past others of its priority.                      *)

InOrder == Lists(order, DOMAIN jobs) /\ Lists(created, Held)

(* The transfers of both queues are in the same order, but for moved.      *)
InOrderBut(moved) ==
  \A i, j \in (DOMAIN jobs \cap DOMAIN jobs') \ {moved} :
    jobs[i].priority = jobs[j].priority => (Before(order, i, j) <=> Before(order', i, j))

LEMMA InOrderButOne ==
  ASSUME NEW moved \in Job, InOrderBut(moved)
  PROVE  MovesOne
  BY DEF MovesOne, InOrderBut

(* All of them are.                                                        *)
LEMMA InOrderAll ==
  ASSUME \A i, j \in DOMAIN jobs \cap DOMAIN jobs' : Before(order, i, j) <=> Before(order', i, j)
  PROVE  MovesOne
  <1>1. PICK moved : moved \in Job
    BY ConstantsAssumption
  <1>2. InOrderBut(moved)
    BY DEF InOrderBut
  <1>. QED  BY <1>1, <1>2, InOrderButOne

LEMMA SameOrder ==
  ASSUME InOrder, UNCHANGED <<order, created>>, DOMAIN jobs' = DOMAIN jobs
  PROVE  InOrder' /\ MovesOne
  <1>1. order' = order /\ created' = created /\ DOMAIN jobs' = DOMAIN jobs
    OBVIOUS
  <1>2. Lists(order', DOMAIN jobs') /\ Lists(created', Range(created'))
    BY <1>1 DEF InOrder, Held
  <1>3. InOrder'
    BY <1>2 DEF InOrder, Held
  <1>4. MovesOne
    BY <1>1, InOrderAll
  <1>. QED  BY <1>3, <1>4

(* New transfers go to the end of the queue.                               *)
LEMMA AddedLast ==
  ASSUME InOrder, DOMAIN jobs \subseteq Held, NEW new, new \cap Held = {},
         NEW t, Lists(t, new), order' = order \o t, created' = created \o t,
         DOMAIN jobs' = DOMAIN jobs \cup new
  PROVE  InOrder' /\ MovesOne
  <1>1. Lists(order, DOMAIN jobs) /\ Lists(created, Held)
    BY DEF InOrder
  <1>2. PICK D, H : D = DOMAIN jobs /\ H = Held
    OBVIOUS
  <1>3. Lists(order, D) /\ Lists(created, H) /\ D \cap new = {} /\ H \cap new = {}
    BY <1>1, <1>2
  <1>4. /\ Lists(order \o t, D \cup new)
        /\ \A i, j : Before(order \o t, i, j) <=>
             Before(order, i, j) \/ Before(t, i, j) \/ (i \in D /\ j \in new)
    BY <1>3, ConcatLists
  <1>5. Lists(created \o t, H \cup new)
    BY <1>3, ConcatLists
  <1>6. Lists(order', DOMAIN jobs') /\ Lists(created', H \cup new)
    BY <1>2, <1>4, <1>5
  <1>7. Range(created') = H \cup new
    BY <1>6 DEF Lists
  <1>8. InOrder'
    BY <1>6, <1>7 DEF InOrder, Held
  <1>9. \A i, j : Before(t, i, j) => i \in new
    BY ListsElim
  <1>10. \A i, j \in DOMAIN jobs \cap DOMAIN jobs' :
           Before(order, i, j) <=> Before(order', i, j)
    BY <1>2, <1>3, <1>4, <1>9
  <1>11. MovesOne
    BY <1>10, InOrderAll
  <1>. QED  BY <1>8, <1>11

LEMMA CommandsKeepOrder ==
  ASSUME WellFormed, InOrder, NEW c \in Caller, Command(c) \/ ControlNext(c)
  PROVE  InOrder' /\ MovesOne
  <1>1. jobs \in Tables /\ DOMAIN jobs \subseteq Held /\ DOMAIN jobs \subseteq Job
    BY TableElim DEF WellFormed
  <1>2. Lists(order, DOMAIN jobs) /\ Lists(created, Held) /\ order \in Seq(Job)
    BY DEF InOrder, Lists
  <1>3. \A S, s : DOMAIN WithState(S, s) = DOMAIN jobs
    BY DEF WithState
  <1>4. CASE Enqueue(c)
    <2>1. PICK new \in (SUBSET NewIds) \ {{}} :
            /\ order' = order \o SetToSeq(new) /\ created' = created \o SetToSeq(new)
            /\ jobs' = Inserted(new, "Queued")
      BY <1>4 DEF Enqueue
    <2>2. new \subseteq Job /\ new \cap Held = {}
      BY DEF NewIds, Held
    <2>3. DOMAIN jobs' = DOMAIN jobs \cup new
      BY <2>1 DEF Inserted
    <2>4. Lists(SetToSeq(new), new)
      BY <2>2, NewLists
    <2>. QED  BY <1>1, <2>1, <2>2, <2>3, <2>4, AddedLast
  <1>5. CASE EnqueueLink(c)
    <2>1. PICK j \in NewIds :
            /\ order' = Append(order, j) /\ created' = Append(created, j)
            /\ jobs' = Inserted({j}, "Completed")
      BY <1>5 DEF EnqueueLink
    <2>2. j \in Job /\ {j} \cap Held = {} /\ created \in Seq(Job)
      BY DEF NewIds, Held, WellFormed
    <2>3. DOMAIN jobs' = DOMAIN jobs \cup {j}
      BY <2>1 DEF Inserted
    <2>4. PICK new, t : new = {j} /\ t = <<j>>
      OBVIOUS
    <2>5. Lists(t, new)
      BY <2>2, <2>4, SingleLists
    <2>6. order' = order \o t /\ created' = created \o t
      BY <1>2, <2>1, <2>2, <2>4, AppendIsConcat
    <2>7. new \cap Held = {} /\ DOMAIN jobs' = DOMAIN jobs \cup new
      BY <2>2, <2>3, <2>4
    <2>. QED  BY <1>1, <2>5, <2>6, <2>7, AddedLast
  <1>6. CASE SetPriority(c)
    <2>1. PICK j \in DOMAIN jobs, p \in Priority :
            /\ jobs' = [jobs EXCEPT ![j].priority = p]
            /\ order' = ByPriority(jobs')
      BY <1>6 DEF SetPriority
    <2>2. created' = created
      BY <1>6 DEF SetPriority
    <2>3. \A i \in DOMAIN jobs : jobs[i] \in Record
      BY <1>1, TableElim
    <2>4. /\ DOMAIN jobs' = DOMAIN jobs /\ \A i \in DOMAIN jobs \ {j} : jobs'[i] = jobs[i]
          /\ jobs'[j] \in Record
      BY <2>1, <2>3 DEF Record
    <2>5. jobs' \in [DOMAIN jobs -> Record]
      BY <2>1, <2>3, <2>4
    <2>6. jobs' \in Tables
      BY <1>1, <2>5, TableIntro
    <2>7. PICK js : js = jobs'
      OBVIOUS
    <2>8. /\ js \in Tables /\ Lists(order, DOMAIN js) /\ order' = ByPriority(js)
          /\ DOMAIN js = DOMAIN jobs
      BY <1>2, <2>1, <2>4, <2>6, <2>7
    <2>9. /\ Lists(ByPriority(js), DOMAIN js)
          /\ \A i, k \in DOMAIN js : js[i].priority = js[k].priority =>
               (Before(ByPriority(js), i, k) <=> Before(order, i, k))
      BY <2>8, ByPriorityIs
    <2>10. Lists(order', DOMAIN jobs') /\ Lists(created', Range(created'))
      BY <1>2, <2>2, <2>7, <2>8, <2>9 DEF Held
    <2>11. InOrder'
      BY <2>10 DEF InOrder, Held
    <2>12. InOrderBut(j)
      BY <2>4, <2>7, <2>8, <2>9 DEF InOrderBut
    <2>. QED  BY <1>1, <2>11, <2>12, InOrderButOne
  <1>7. CASE Reorder(c)
    <2>1. PICK j \in DOMAIN jobs, before \in Job : order' = Reordered(j, before)
      BY <1>7 DEF Reorder
    <2>2. jobs' = jobs /\ created' = created
      BY <1>7 DEF Reorder
    <2>3. PICK D : D = DOMAIN jobs
      OBVIOUS
    <2>4. Lists(order, D) /\ j \in D
      BY <1>2, <2>3
    <2>5. /\ Lists(Reordered(j, before), D)
          /\ \A i, k : i # j /\ k # j =>
               (Before(Reordered(j, before), i, k) <=> Before(order, i, k))
      BY <2>4, ReorderedIs
    <2>6. Lists(order', DOMAIN jobs') /\ Lists(created', Range(created'))
      BY <1>2, <2>1, <2>2, <2>3, <2>5 DEF Held
    <2>7. InOrder'
      BY <2>6 DEF InOrder, Held
    <2>8. InOrderBut(j)
      BY <2>1, <2>5 DEF InOrderBut
    <2>. QED  BY <1>1, <2>7, <2>8, InOrderButOne
  <1>8. CASE Clear(c)
    <2>1. PICK filter \in Filter :
            LET removed == {j \in DOMAIN jobs : Matches(filter, jobs[j].state)}
            IN  /\ jobs' = Restrict(jobs, DOMAIN jobs \ removed)
                /\ order' = Only(order, DOMAIN jobs \ removed)
      BY <1>8 DEF Clear
    <2>2. PICK S : /\ S \subseteq DOMAIN jobs
                   /\ jobs' = Restrict(jobs, S) /\ order' = Only(order, S)
      BY <2>1
    <2>3. created' = created
      BY <1>8 DEF Clear
    <2>4. DOMAIN jobs' = S
      BY <2>2 DEF Restrict
    <2>5. PICK D : D = DOMAIN jobs
      OBVIOUS
    <2>6. Lists(Only(order, S), D \cap S)
      BY <1>2, <2>5, OnlyLists
    <2>7. Lists(order', DOMAIN jobs') /\ Lists(created', Range(created'))
      <3>1. D \cap S = S
        BY <2>2, <2>5
      <3>. QED  BY <1>2, <2>2, <2>3, <2>4, <2>6, <3>1 DEF Held
    <2>8. InOrder'
      BY <2>7 DEF InOrder, Held
    <2>9. \A i, j : Before(Only(order, S), i, j) <=> i \in S /\ j \in S /\ Before(order, i, j)
      BY <1>2, OnlyIs
    <2>10. MovesOne
      BY <2>2, <2>4, <2>9, InOrderAll
    <2>. QED  BY <2>8, <2>10
  <1>9. CASE Control(c) \/ ControlNext(c)
    <2>1. UNCHANGED <<order, created>>
      BY <1>9 DEF Control, ControlNext
    <2>2. DOMAIN jobs' = DOMAIN jobs
      BY <1>3, <1>9 DEF Control, ControlNext, Controlled
    <2>. QED  BY <2>1, <2>2, SameOrder
  <1>10. CASE ControlAll(c) \/ DeleteProfile(c)
    <2>1. UNCHANGED <<order, created, jobs>>
      BY <1>10 DEF ControlAll, DeleteProfile
    <2>. QED  BY <2>1, SameOrder
  <1>11. CASE Resolve(c) \/ ResumeProfile(c) \/ ResumeProfileFails(c)
    <2>1. UNCHANGED <<order, created>>
      BY <1>11 DEF Resolve, ResumeProfile, ResumeProfileFails
    <2>2. \E S, s : jobs' = WithState(S, s)
      <3>1. CASE Resolve(c)
        BY <3>1 DEF Resolve
      <3>2. CASE ResumeProfile(c)
        BY <3>2 DEF ResumeProfile
      <3>3. CASE ResumeProfileFails(c)
        BY <3>3 DEF ResumeProfileFails
      <3>. QED  BY <1>11, <3>1, <3>2, <3>3
    <2>3. DOMAIN jobs' = DOMAIN jobs
      BY <1>3, <2>2
    <2>. QED  BY <2>1, <2>3, SameOrder
  <1>. QED
    BY <1>4, <1>5, <1>6, <1>7, <1>8, <1>9, <1>10, <1>11 DEF Command

LEMMA OrderKept ==
  ASSUME WellFormed, InOrder, faults \in Nat, [Next]_vars
  PROVE  InOrder' /\ MovesOne
  <1>1. \A S, s : DOMAIN WithState(S, s) = DOMAIN jobs
    BY DEF WithState
  <1>2. ASSUME NEW c \in Caller, Drop(c) \/ Spawn(c)
        PROVE  InOrder' /\ MovesOne
    <2>1. UNCHANGED <<order, created, jobs>>
      BY <1>2 DEF Drop, Spawn
    <2>. QED  BY <2>1, SameOrder
  <1>3. ASSUME NEW a \in Actor, Save(a) \/ SaveFails(a)
        PROVE  InOrder' /\ MovesOne
    <2>1. UNCHANGED <<order, created, jobs>>
      BY <1>3 DEF Save, SaveFails
    <2>. QED  BY <2>1, SameOrder
  <1>4. ASSUME NEW j \in Job, WorkerStep(j)
        PROVE  InOrder' /\ MovesOne
    <2>1. UNCHANGED <<order, created>>
      BY <1>4 DEF WorkerStep, WorkerStarts, WorkerSaves, WorkerSavesLocked, WorkerSettles,
                  WorkerRetries, WorkerFails, WorkerStops, WorkerFindsNoProfile
    <2>2. DOMAIN jobs' = DOMAIN jobs
      BY <1>1, <1>4 DEF WorkerStep, WorkerStarts, WorkerSaves, WorkerSavesLocked,
                  WorkerSettles, WorkerRetries, WorkerFails, WorkerStops, WorkerFindsNoProfile
    <2>. QED  BY <2>1, <2>2, SameOrder
  <1>5. CASE Restart
    <2>1. /\ jobs' = RestoredJobs(rows) /\ order' = Only(created, DOMAIN rows)
          /\ created' = created /\ faults' = faults + 1
      BY <1>5 DEF Restart, Faulty
    <2>2. DOMAIN jobs' = DOMAIN rows
      BY <2>1 DEF RestoredJobs
    <2>3. DOMAIN rows \subseteq Held /\ Lists(created, Held)
      BY DEF WellFormed, InOrder
    <2>4. PICK H, R : H = Held /\ R = DOMAIN rows
      OBVIOUS
    <2>5. Lists(Only(created, R), H \cap R)
      BY <2>3, <2>4, OnlyLists
    <2>6. Lists(order', DOMAIN jobs') /\ Lists(created', Range(created'))
      <3>1. H \cap R = R
        BY <2>3, <2>4
      <3>. QED  BY <2>1, <2>2, <2>3, <2>4, <2>5, <3>1 DEF Held
    <2>7. InOrder'
      BY <2>6 DEF InOrder, Held
    <2>. QED  BY <2>1, <2>7 DEF MovesOne
  <1>6. CASE UNCHANGED vars
    BY <1>6, SameOrder DEF vars
  <1>. QED  BY <1>2, <1>3, <1>4, <1>5, <1>6, CommandsKeepOrder DEF Next

-----------------------------------------------------------------------------
(* The types of the rest: the calls, the workers and the histories.        *)

GoodCall(call) == call \in CallRecord /\ (call.pc = "next" => call.rest # << >>)

CallsTyped == calls \in [Actor -> CallRecord] /\ \A a \in Actor : GoodCall(calls[a])

MarksTyped ==
  /\ workers \in [Job -> {"none", "fresh", "started", "ending"}]
  /\ profile \in BOOLEAN
  /\ acked \in SUBSET Job /\ raced \in SUBSET Job
  /\ unsaved \in SUBSET Job /\ adrift \in SUBSET Job

LEMMA IdleCall ==
  ASSUME rows \in Tables
  PROVE  Idle \in CallRecord /\ GoodCall(Idle)
  <1>1. Restrict(rows, {}) \in Tables
    BY RestrictTable
  <1>2. << >> \in Seq(Job)
    OBVIOUS
  <1>3. Idle \in CallRecord /\ Idle.pc = "idle"
    BY <1>1, <1>2 DEF Idle, CallRecord
  <1>. QED  BY <1>3 DEF GoodCall

(* What a call may go on to do.                                            *)
LEMMA CallShapes ==
  ASSUME rows \in Tables, NEW t \in Tables, NEW D \in SUBSET Job, NEW A \in SUBSET Job,
         NEW r \in Seq(Job), NEW x \in Action \cup {"none"}
  PROVE  /\ GoodCall([Idle EXCEPT !.pc = "save", !.save = t])
         /\ GoodCall([Idle EXCEPT !.pc = "save", !.save = t, !.ids = D])
         /\ GoodCall([Idle EXCEPT !.pc = "save", !.save = t, !.ids = D, !.acks = A])
         /\ GoodCall([Idle EXCEPT !.pc = "save", !.save = t, !.acks = A])
         /\ GoodCall([Idle EXCEPT !.pc = "save", !.save = t, !.ids = D, !.rest = r,
                                  !.action = x])
         /\ GoodCall([Idle EXCEPT !.pc = "drop", !.ids = D])
         /\ GoodCall([Idle EXCEPT !.pc = "spawn", !.ids = D])
         /\ GoodCall([Idle EXCEPT !.pc = "spawn", !.ids = D, !.rest = r, !.action = x])
         /\ r # << >> => GoodCall([Idle EXCEPT !.pc = "next", !.rest = r, !.action = x])
  <1>1. PICK e : /\ e \in Tables
                 /\ Idle = [pc |-> "idle", save |-> e, ids |-> {}, acks |-> {},
                            rest |-> << >>, action |-> "none"]
    BY RestrictTable DEF Idle
  <1>2. << >> \in Seq(Job)
    OBVIOUS
  <1>3. GoodCall([Idle EXCEPT !.pc = "save", !.save = t])
    BY <1>1, <1>2 DEF CallRecord, GoodCall
  <1>4. GoodCall([Idle EXCEPT !.pc = "save", !.save = t, !.ids = D])
    BY <1>1, <1>2 DEF CallRecord, GoodCall
  <1>5. GoodCall([Idle EXCEPT !.pc = "save", !.save = t, !.ids = D, !.acks = A])
    BY <1>1, <1>2 DEF CallRecord, GoodCall
  <1>6. GoodCall([Idle EXCEPT !.pc = "save", !.save = t, !.acks = A])
    BY <1>1, <1>2 DEF CallRecord, GoodCall
  <1>7. GoodCall([Idle EXCEPT !.pc = "save", !.save = t, !.ids = D, !.rest = r,
                              !.action = x])
    BY <1>1, <1>2 DEF CallRecord, GoodCall
  <1>8. GoodCall([Idle EXCEPT !.pc = "drop", !.ids = D])
    BY <1>1, <1>2 DEF CallRecord, GoodCall
  <1>9. GoodCall([Idle EXCEPT !.pc = "spawn", !.ids = D])
    BY <1>1, <1>2 DEF CallRecord, GoodCall
  <1>10. GoodCall([Idle EXCEPT !.pc = "spawn", !.ids = D, !.rest = r, !.action = x])
    BY <1>1, <1>2 DEF CallRecord, GoodCall
  <1>11. r # << >> => GoodCall([Idle EXCEPT !.pc = "next", !.rest = r, !.action = x])
    BY <1>1, <1>2 DEF CallRecord, GoodCall
  <1>. QED  BY <1>3, <1>4, <1>5, <1>6, <1>7, <1>8, <1>9, <1>10, <1>11

LEMMA GoodCallKept ==
  ASSUME CallsTyped, NEW a \in Actor, NEW call, GoodCall(call),
         calls' = [calls EXCEPT ![a] = call]
  PROVE  CallsTyped'
  <1>1. calls' \in [Actor -> CallRecord]
    BY DEF CallsTyped, GoodCall
  <1>2. \A b \in Actor : calls'[b] = IF b = a THEN call ELSE calls[b]
    BY DEF CallsTyped
  <1>3. \A b \in Actor : GoodCall(calls'[b])
    BY <1>2 DEF CallsTyped
  <1>. QED  BY <1>1, <1>3 DEF CallsTyped, GoodCall

LEMMA GoesOnTyped ==
  ASSUME CallsTyped, raced \in SUBSET Job, NEW a \in Actor, NEW call, GoodCall(call),
         NEW S \in SUBSET Job, GoesOn(a, call, S)
  PROVE  CallsTyped' /\ raced' \in SUBSET Job
  <1>1. calls' = [calls EXCEPT ![a] = call] /\ raced' = raced \cup Overtaken(S)
    BY DEF GoesOn
  <1>2. Overtaken(S) \subseteq S
    BY DEF Overtaken
  <1>. QED  BY <1>1, <1>2, GoodCallKept

LEMMA SavesTyped ==
  ASSUME CallsTyped, raced \in SUBSET Job, rows \in Tables, jobs' \in Tables,
         NEW a \in Actor, NEW S \in SUBSET DOMAIN jobs', Saves(a, S)
  PROVE  CallsTyped' /\ raced' \in SUBSET Job
  <1>1. PICK js : js = jobs'
    OBVIOUS
  <1>2. js \in Tables /\ S \subseteq DOMAIN js /\ S \in SUBSET Job
    BY <1>1, TableElim
  <1>3. PICK t : t = Restrict(js, S)
    OBVIOUS
  <1>4. t \in Tables
    BY <1>2, <1>3, RestrictTable
  <1>5. PICK call : call = [Idle EXCEPT !.pc = "save", !.save = t]
    OBVIOUS
  <1>6. GoodCall(call)
    <2>1. {} \in SUBSET Job /\ << >> \in Seq(Job) /\ "none" \in Action \cup {"none"}
      OBVIOUS
    <2>. QED  BY <1>4, <1>5, <2>1, CallShapes
  <1>7. GoesOn(a, call, S)
    BY <1>1, <1>3, <1>5 DEF Saves
  <1>. QED  BY <1>2, <1>6, <1>7, GoesOnTyped

LEMMA ControlledTyped ==
  ASSUME CallsTyped, raced \in SUBSET Job, rows \in Tables, jobs \in Tables, jobs' \in Tables,
         NEW c \in Actor, NEW j \in Job, Known(j), NEW action \in Action \cup {"none"},
         NEW rest \in Seq(Job),
         Controlled(c, j, action, rest)
  PROVE  CallsTyped' /\ raced' \in SUBSET Job
  <1>1. jobs' = WithState({j}, Target(action))
    BY DEF Controlled
  <1>2. j \in DOMAIN jobs'
    BY <1>1 DEF WithState, Known
  <1>3. PICK js, S : js = jobs' /\ S = {j}
    OBVIOUS
  <1>4. js \in Tables /\ S \subseteq DOMAIN js /\ S \in SUBSET Job
    BY <1>2, <1>3
  <1>5. PICK t, D, x : /\ t = Restrict(js, S) /\ D = Woken(action, j)
                       /\ x = IF rest = << >> THEN "none" ELSE action
    OBVIOUS
  <1>6. t \in Tables /\ D \in SUBSET Job /\ x \in Action \cup {"none"}
    <2>1. t \in Tables
      BY <1>4, <1>5, RestrictTable
    <2>2. D \in SUBSET Job
      BY <1>5 DEF Woken
    <2>3. x \in Action \cup {"none"}
      BY <1>5
    <2>. QED  BY <2>1, <2>2, <2>3
  <1>7. PICK call : call = [Idle EXCEPT !.pc = "save", !.save = t, !.ids = D, !.rest = rest,
                                        !.action = x]
    OBVIOUS
  <1>8. GoodCall(call)
    <2>1. {} \in SUBSET Job
      OBVIOUS
    <2>. QED  BY <1>6, <1>7, <2>1, CallShapes
  <1>9. GoesOn(c, call, S)
    BY <1>3, <1>5, <1>7 DEF Controlled
  <1>. QED  BY <1>4, <1>8, <1>9, GoesOnTyped

LEMMA CommandsTyped ==
  ASSUME WellFormed, InOrder, jobs' \in Tables, CallsTyped, MarksTyped,
         NEW c \in Caller, Command(c) \/ ControlNext(c)
  PROVE  CallsTyped' /\ MarksTyped'
  <1>1. /\ jobs \in Tables /\ rows \in Tables /\ DOMAIN jobs \subseteq Job
        /\ c \in Actor /\ raced \in SUBSET Job
    BY TableElim DEF WellFormed, Actor, MarksTyped
  <1>2. PICK js : js = jobs'
    OBVIOUS
  <1>3. js \in Tables /\ DOMAIN js \subseteq Job
    BY <1>2, TableElim
  <1>4. {} \in SUBSET Job /\ << >> \in Seq(Job) /\ "none" \in Action \cup {"none"}
    OBVIOUS
  <1>5. ASSUME CallsTyped', raced' \in SUBSET Job,
               UNCHANGED <<workers, profile, acked, unsaved, adrift>>
        PROVE  MarksTyped'
    BY <1>5 DEF MarksTyped
  <1>6. CASE Enqueue(c)
    <2>1. PICK new \in (SUBSET NewIds) \ {{}} :
            /\ jobs' = Inserted(new, "Queued")
            /\ GoesOn(c, [Idle EXCEPT !.pc = "save", !.save = Restrict(jobs', new),
                                      !.ids = new, !.acks = new], new)
      BY <1>6 DEF Enqueue
    <2>2. new \in SUBSET Job /\ new \subseteq DOMAIN js
      BY <1>2, <2>1 DEF NewIds, Inserted
    <2>3. PICK t : t = Restrict(js, new)
      OBVIOUS
    <2>4. t \in Tables
      BY <1>3, <2>2, <2>3, RestrictTable
    <2>5. PICK call : call = [Idle EXCEPT !.pc = "save", !.save = t, !.ids = new, !.acks = new]
      OBVIOUS
    <2>6. GoodCall(call)
      BY <1>1, <1>4, <2>2, <2>4, <2>5, CallShapes
    <2>7. GoesOn(c, call, new)
      BY <1>2, <2>1, <2>3, <2>5
    <2>8. CallsTyped' /\ raced' \in SUBSET Job
      BY <1>1, <2>2, <2>6, <2>7, GoesOnTyped
    <2>9. UNCHANGED <<workers, profile, acked, unsaved, adrift>>
      BY <1>6 DEF Enqueue
    <2>. QED  BY <1>5, <2>8, <2>9
  <1>7. CASE EnqueueLink(c)
    <2>1. PICK j \in NewIds :
            /\ jobs' = Inserted({j}, "Completed")
            /\ GoesOn(c, [Idle EXCEPT !.pc = "save", !.save = Restrict(jobs', {j}),
                                      !.acks = {j}], {j})
      BY <1>7 DEF EnqueueLink
    <2>2. PICK new : new = {j}
      OBVIOUS
    <2>3. new \in SUBSET Job /\ new \subseteq DOMAIN js
      BY <1>2, <2>1, <2>2 DEF NewIds, Inserted
    <2>4. PICK t : t = Restrict(js, new)
      OBVIOUS
    <2>5. t \in Tables
      BY <1>3, <2>3, <2>4, RestrictTable
    <2>6. PICK call : call = [Idle EXCEPT !.pc = "save", !.save = t, !.acks = new]
      OBVIOUS
    <2>7. GoodCall(call)
      BY <1>1, <1>4, <2>3, <2>5, <2>6, CallShapes
    <2>8. GoesOn(c, call, new)
      BY <1>2, <2>1, <2>2, <2>4, <2>6
    <2>9. CallsTyped' /\ raced' \in SUBSET Job
      BY <1>1, <2>3, <2>7, <2>8, GoesOnTyped
    <2>10. UNCHANGED <<workers, profile, acked, unsaved, adrift>>
      BY <1>7 DEF EnqueueLink
    <2>. QED  BY <1>5, <2>9, <2>10
  <1>8. CASE SetPriority(c)
    <2>1. PICK j \in DOMAIN jobs, p \in Priority :
            jobs' = [jobs EXCEPT ![j].priority = p] /\ Saves(c, {j})
      BY <1>8 DEF SetPriority
    <2>2. {j} \in SUBSET DOMAIN jobs'
      BY <2>1
    <2>3. CallsTyped' /\ raced' \in SUBSET Job
      BY <1>1, <2>1, <2>2, SavesTyped
    <2>4. UNCHANGED <<workers, profile, acked, unsaved, adrift>>
      BY <1>8 DEF SetPriority
    <2>. QED  BY <1>5, <2>3, <2>4
  <1>9. CASE Reorder(c)
    BY <1>9 DEF Reorder, CallsTyped, MarksTyped
  <1>10. CASE Control(c)
    <2>1. PICK j \in Job, action \in Action :
            CanMove(j, Target(action)) /\ Controlled(c, j, action, << >>)
      BY <1>10 DEF Control
    <2>2. CallsTyped' /\ raced' \in SUBSET Job
      BY <1>1, <1>4, <2>1, ControlledTyped DEF CanMove
    <2>3. UNCHANGED <<workers, profile, acked, unsaved, adrift>>
      BY <1>10 DEF Control
    <2>. QED  BY <1>5, <2>2, <2>3
  <1>11. CASE ControlAll(c)
    <2>1. PICK action \in Action :
            LET rest == Only(order, {j \in DOMAIN jobs : Candidate(action, jobs[j].state)})
            IN  /\ rest # << >>
                /\ GoesOn(c, [Idle EXCEPT !.pc = "next", !.rest = rest, !.action = action], {})
      BY <1>11 DEF ControlAll
    <2>2. PICK r : /\ r = Only(order, {j \in DOMAIN jobs : Candidate(action, jobs[j].state)})
                   /\ r # << >>
                   /\ GoesOn(c, [Idle EXCEPT !.pc = "next", !.rest = r, !.action = action], {})
      BY <2>1
    <2>3. r \in Seq(Job)
      BY <2>2, OnlyIs DEF InOrder, Lists
    <2>4. PICK call : call = [Idle EXCEPT !.pc = "next", !.rest = r, !.action = action]
      OBVIOUS
    <2>5. GoodCall(call)
      BY <1>1, <1>4, <2>2, <2>3, <2>4, CallShapes
    <2>6. CallsTyped' /\ raced' \in SUBSET Job
      BY <1>1, <1>4, <2>2, <2>4, <2>5, GoesOnTyped
    <2>7. UNCHANGED <<workers, profile, acked, unsaved, adrift>>
      BY <1>11 DEF ControlAll
    <2>. QED  BY <1>5, <2>6, <2>7
  <1>12. CASE ControlNext(c)
    <2> DEFINE j == Head(calls[c].rest)
               action == calls[c].action
    <2>1. UNCHANGED <<workers, profile, acked, unsaved, adrift>> /\ calls[c].pc = "next"
      BY <1>12 DEF ControlNext
    <2>2. /\ calls[c].rest \in Seq(Job) /\ calls[c].rest # << >>
          /\ action \in Action \cup {"none"}
      BY <1>1, <2>1 DEF CallsTyped, GoodCall, CallRecord
    <2>3. j \in Job /\ Tail(calls[c].rest) \in Seq(Job)
      BY <2>2, HeadTailProperties
    <2>4. CASE CanMove(j, Target(action))
      <3>1. Controlled(c, j, action, Tail(calls[c].rest)) /\ Known(j)
        BY <1>12, <2>4 DEF ControlNext, CanMove
      <3>2. PICK i, x, r : i = j /\ x = action /\ r = Tail(calls[c].rest)
        OBVIOUS
      <3>3. /\ i \in Job /\ Known(i) /\ x \in Action \cup {"none"} /\ r \in Seq(Job)
            /\ Controlled(c, i, x, r)
        BY <2>2, <2>3, <3>1, <3>2
      <3>4. CallsTyped' /\ raced' \in SUBSET Job
        BY <1>1, <3>3, ControlledTyped
      <3>. QED  BY <1>5, <2>1, <3>4
    <2>5. CASE ~CanMove(j, Target(action))
      <3>1. GoesOn(c, Idle, {})
        BY <1>12, <2>5 DEF ControlNext
      <3>2. CallsTyped' /\ raced' \in SUBSET Job
        BY <1>1, <1>4, <3>1, IdleCall, GoesOnTyped
      <3>. QED  BY <1>5, <2>1, <3>2
    <2>. QED  BY <2>4, <2>5
  <1>13. CASE Resolve(c)
    <2>1. PICK j \in DOMAIN jobs, batch \in BOOLEAN :
            LET targets == {i \in DOMAIN jobs :
                              i = j \/ (batch /\ ~IsTerminal(jobs[i].state))}
                woken == {i \in targets : jobs[i].state = "WaitingForConflict"}
            IN  jobs' = WithState(woken, "Queued") /\ SavesAndSpawns(c, targets, woken)
      BY <1>13 DEF Resolve
    <2>2. PICK S, D : /\ S \subseteq DOMAIN jobs /\ D \subseteq S
                      /\ jobs' = WithState(D, "Queued") /\ SavesAndSpawns(c, S, D)
      <3> DEFINE targets == {i \in DOMAIN jobs :
                               i = j \/ (batch /\ ~IsTerminal(jobs[i].state))}
                 woken == {i \in targets : jobs[i].state = "WaitingForConflict"}
      <3>1. jobs' = WithState(woken, "Queued") /\ SavesAndSpawns(c, targets, woken)
        BY <2>1
      <3>2. targets \subseteq DOMAIN jobs /\ woken \subseteq targets
        OBVIOUS
      <3>. QED  BY <3>1, <3>2
    <2>3. S \in SUBSET Job /\ D \in SUBSET Job /\ S \subseteq DOMAIN js
      BY <1>1, <1>2, <2>2 DEF WithState
    <2>4. PICK t : t = Restrict(js, S)
      OBVIOUS
    <2>5. t \in Tables
      BY <1>3, <2>3, <2>4, RestrictTable
    <2>6. PICK call : call = [Idle EXCEPT !.pc = "save", !.save = t, !.ids = D]
      OBVIOUS
    <2>7. GoodCall(call)
      BY <1>1, <1>4, <2>3, <2>5, <2>6, CallShapes
    <2>8. GoesOn(c, call, S)
      BY <1>2, <2>2, <2>4, <2>6 DEF SavesAndSpawns
    <2>9. CallsTyped' /\ raced' \in SUBSET Job
      BY <1>1, <2>3, <2>7, <2>8, GoesOnTyped
    <2>10. UNCHANGED <<workers, profile, acked, unsaved, adrift>>
      BY <1>13 DEF Resolve
    <2>. QED  BY <1>5, <2>9, <2>10
  <1>14. CASE Clear(c)
    <2>1. PICK D : /\ D \subseteq DOMAIN jobs
                   /\ GoesOn(c, [Idle EXCEPT !.pc = "drop", !.ids = D], D)
      <3>1. PICK filter \in Filter :
              LET removed == {j \in DOMAIN jobs : Matches(filter, jobs[j].state)}
              IN  GoesOn(c, [Idle EXCEPT !.pc = "drop", !.ids = removed], removed)
        BY <1>14 DEF Clear
      <3> DEFINE removed == {j \in DOMAIN jobs : Matches(filter, jobs[j].state)}
      <3>2. GoesOn(c, [Idle EXCEPT !.pc = "drop", !.ids = removed], removed)
        BY <3>1
      <3>3. removed \subseteq DOMAIN jobs
        OBVIOUS
      <3>. QED  BY <3>2, <3>3
    <2>2. D \in SUBSET Job
      BY <1>1, <2>1
    <2>3. PICK call : call = [Idle EXCEPT !.pc = "drop", !.ids = D]
      OBVIOUS
    <2>4. GoodCall(call)
      BY <1>1, <1>4, <2>2, <2>3, CallShapes
    <2>5. CallsTyped' /\ raced' \in SUBSET Job
      BY <1>1, <2>1, <2>2, <2>3, <2>4, GoesOnTyped
    <2>6. UNCHANGED <<workers, profile, acked, unsaved, adrift>>
      BY <1>14 DEF Clear
    <2>. QED  BY <1>5, <2>5, <2>6
  <1>15. CASE ResumeProfile(c)
    <2>1. PICK D : /\ D = Waiting
                   /\ GoesOn(c, [Idle EXCEPT !.pc = "spawn", !.ids = D], D)
      BY <1>15 DEF ResumeProfile
    <2>2. D \in SUBSET Job
      BY <1>1, <2>1 DEF Waiting
    <2>3. PICK call : call = [Idle EXCEPT !.pc = "spawn", !.ids = D]
      OBVIOUS
    <2>4. GoodCall(call)
      BY <1>1, <1>4, <2>2, <2>3, CallShapes
    <2>5. CallsTyped' /\ raced' \in SUBSET Job
      BY <1>1, <2>1, <2>2, <2>3, <2>4, GoesOnTyped
    <2>6. UNCHANGED <<workers, profile, acked, unsaved, adrift>>
      BY <1>15 DEF ResumeProfile
    <2>. QED  BY <1>5, <2>5, <2>6
  <1>16. CASE ResumeProfileFails(c)
    <2>1. PICK done \in SUBSET Waiting, failed \in Waiting :
            /\ unsaved' = unsaved \cup {failed}
            /\ adrift' = adrift \cup done \cup {failed}
            /\ raced' = raced \cup Overtaken(done \cup {failed})
      BY <1>16 DEF ResumeProfileFails
    <2>2. failed \in Job /\ done \subseteq Job
      BY <1>1 DEF Waiting
    <2>3. UNCHANGED <<calls, workers, profile, acked>>
      BY <1>16 DEF ResumeProfileFails
    <2>4. unsaved' \in SUBSET Job /\ adrift' \in SUBSET Job /\ raced' \in SUBSET Job
      BY <2>1, <2>2 DEF MarksTyped, Overtaken
    <2>5. CallsTyped'
      BY <2>3 DEF CallsTyped
    <2>. QED  BY <2>3, <2>4, <2>5 DEF MarksTyped
  <1>17. CASE DeleteProfile(c)
    BY <1>17 DEF DeleteProfile, CallsTyped, MarksTyped
  <1>. QED
    BY <1>6, <1>7, <1>8, <1>9, <1>10, <1>11, <1>12, <1>13, <1>14, <1>15, <1>16, <1>17
    DEF Command

(* What is left of a call.                                                 *)
LEMMA RestOfCall ==
  ASSUME rows \in Tables, CallsTyped, NEW a \in Actor
  PROVE  GoodCall(Remaining(a)) /\ GoodCall(AfterWrite(a))
  <1>1. PICK c : c = calls[a]
    OBVIOUS
  <1>2. /\ c.save \in Tables /\ c.ids \in SUBSET Job /\ c.acks \in SUBSET Job
        /\ c.rest \in Seq(Job) /\ c.action \in Action \cup {"none"}
    BY <1>1 DEF CallsTyped, GoodCall, CallRecord
  <1>3. /\ GoodCall([Idle EXCEPT !.pc = "spawn", !.ids = c.ids, !.rest = c.rest,
                                 !.action = c.action])
        /\ c.rest # << >> => GoodCall([Idle EXCEPT !.pc = "next", !.rest = c.rest,
                                                   !.action = c.action])
    BY <1>2, CallShapes
  <1>4. GoodCall(Remaining(a))
    BY <1>1, <1>3, IdleCall DEF Remaining
  <1>5. GoodCall(AfterWrite(a))
    BY <1>1, <1>3, <1>4 DEF AfterWrite
  <1>. QED  BY <1>4, <1>5

LEMMA CallStepsTyped ==
  ASSUME WellFormed, CallsTyped, MarksTyped, NEW a \in Actor,
         Save(a) \/ SaveFails(a) \/ Drop(a) \/ (Spawn(a) /\ a \in Caller)
  PROVE  CallsTyped' /\ MarksTyped'
  <1>1. rows \in Tables
    BY DEF WellFormed
  <1>2. /\ calls[a].save \in Tables /\ calls[a].ids \in SUBSET Job
        /\ calls[a].acks \in SUBSET Job
    BY DEF CallsTyped, GoodCall, CallRecord
  <1>3. GoodCall(Remaining(a)) /\ GoodCall(AfterWrite(a)) /\ GoodCall(Idle)
    BY <1>1, RestOfCall, IdleCall
  <1>4. CallsTyped'
    <2>1. PICK call : GoodCall(call) /\ calls' = [calls EXCEPT ![a] = call]
      BY <1>3 DEF Save, SaveFails, Drop, Spawn
    <2>. QED  BY <2>1, GoodCallKept
  <1>5. Ended(a) \in [Job -> {"none", "fresh", "started", "ending"}]
    BY DEF Ended, MarksTyped
  <1>6. DOMAIN calls[a].save \in SUBSET Job
    BY <1>2, TableElim
  <1>7. CASE Save(a)
    <2>1. /\ workers' = Ended(a) /\ acked' = acked \cup calls[a].acks
          /\ UNCHANGED <<profile, raced, unsaved, adrift>>
      BY <1>7 DEF Save
    <2>. QED  BY <1>2, <1>4, <1>5, <2>1 DEF MarksTyped
  <1>8. CASE SaveFails(a)
    <2>1. /\ workers' = Ended(a) /\ unsaved' = unsaved \cup DOMAIN calls[a].save
          /\ adrift' = adrift \cup calls[a].ids
          /\ UNCHANGED <<profile, acked, raced>>
      BY <1>8 DEF SaveFails
    <2>. QED  BY <1>2, <1>4, <1>5, <1>6, <2>1 DEF MarksTyped
  <1>9. CASE Drop(a)
    <2>1. /\ unsaved' = unsaved \/ unsaved' = unsaved \cup calls[a].ids
          /\ UNCHANGED <<workers, profile, acked, raced, adrift>>
      BY <1>9 DEF Drop
    <2>. QED  BY <1>2, <1>4, <2>1 DEF MarksTyped
  <1>10. CASE Spawn(a)
    <2>1. workers' \in [Job -> {"none", "fresh", "started", "ending"}]
      BY <1>10 DEF Spawn, MarksTyped
    <2>2. UNCHANGED <<profile, acked, raced, unsaved, adrift>>
      BY <1>10 DEF Spawn
    <2>. QED  BY <1>4, <2>1, <2>2 DEF MarksTyped
  <1>. QED  BY <1>4, <1>7, <1>8, <1>9, <1>10

LEMMA WorkersTyped ==
  ASSUME WellFormed, jobs' \in Tables, CallsTyped, MarksTyped, NEW j \in Job, WorkerStep(j)
  PROVE  CallsTyped' /\ MarksTyped'
  <1>1. rows \in Tables /\ j \in Actor /\ raced \in SUBSET Job
    BY DEF WellFormed, Actor, MarksTyped
  <1>2. \A S, s : DOMAIN WithState(S, s) = DOMAIN jobs
    BY DEF WithState
  <1>3. \A phase \in {"none", "fresh", "started", "ending"} :
          WorkerGoesTo(j, phase) => workers' \in [Job -> {"none", "fresh", "started", "ending"}]
    BY DEF WorkerGoesTo, MarksTyped
  <1>4. ASSUME Saves(j, {j}), Known(j), DOMAIN jobs' = DOMAIN jobs
        PROVE  CallsTyped' /\ raced' \in SUBSET Job
    <2>1. {j} \in SUBSET DOMAIN jobs'
      BY <1>4 DEF Known
    <2>. QED  BY <1>1, <1>4, <2>1, SavesTyped
  <1>5. CASE WorkerStarts(j)
    <2>1. Saves(j, {j}) /\ Known(j) /\ DOMAIN jobs' = DOMAIN jobs
      BY <1>2, <1>5 DEF WorkerStarts
    <2>2. /\ workers' \in [Job -> {"none", "fresh", "started", "ending"}]
          /\ UNCHANGED <<profile, acked, unsaved, adrift>>
      BY <1>3, <1>5 DEF WorkerStarts
    <2>. QED  BY <1>4, <2>1, <2>2 DEF MarksTyped
  <1>6. CASE WorkerSaves(j)
    <2>1. Saves(j, {j}) /\ Known(j) /\ DOMAIN jobs' = DOMAIN jobs
      BY <1>6 DEF WorkerSaves
    <2>2. UNCHANGED <<workers, profile, acked, unsaved, adrift>>
      BY <1>6 DEF WorkerSaves
    <2>. QED  BY <1>4, <2>1, <2>2 DEF MarksTyped
  <1>7. CASE WorkerSavesLocked(j)
    <2>1. Overtaken({j}) \in SUBSET Job
      BY DEF Overtaken
    <2>. QED  BY <1>7, <2>1 DEF WorkerSavesLocked, CallsTyped, MarksTyped
  <1>8. ASSUME NEW s \in {"Completed", "WaitingForConflict"}, WorkerSettles(j, s)
        PROVE  CallsTyped' /\ MarksTyped'
    <2>1. Saves(j, {j}) /\ Known(j) /\ DOMAIN jobs' = DOMAIN jobs
      BY <1>2, <1>8 DEF WorkerSettles, CanMove
    <2>2. /\ workers' \in [Job -> {"none", "fresh", "started", "ending"}]
          /\ UNCHANGED <<profile, acked, unsaved, adrift>>
      BY <1>3, <1>8 DEF WorkerSettles
    <2>. QED  BY <1>4, <2>1, <2>2 DEF MarksTyped
  <1>9. CASE WorkerRetries(j)
    <2>1. Saves(j, {j}) /\ Known(j) /\ DOMAIN jobs' = DOMAIN jobs
      BY <1>2, <1>9 DEF WorkerRetries, CanMove
    <2>2. /\ workers' \in [Job -> {"none", "fresh", "started", "ending"}]
          /\ UNCHANGED <<profile, acked, unsaved, adrift>>
      BY <1>3, <1>9 DEF WorkerRetries
    <2>. QED  BY <1>4, <2>1, <2>2 DEF MarksTyped
  <1>10. ASSUME NEW s \in {"Failed", "WaitingForAuthentication"}, WorkerFails(j, s)
         PROVE  CallsTyped' /\ MarksTyped'
    <2>1. Saves(j, {j}) /\ Known(j) /\ DOMAIN jobs' = DOMAIN jobs
      BY <1>2, <1>10 DEF WorkerFails
    <2>2. /\ workers' \in [Job -> {"none", "fresh", "started", "ending"}]
          /\ UNCHANGED <<profile, acked, unsaved, adrift>>
      BY <1>3, <1>10 DEF WorkerFails
    <2>. QED  BY <1>4, <2>1, <2>2 DEF MarksTyped
  <1>11. CASE WorkerStops(j)
    <2>1. /\ workers' \in [Job -> {"none", "fresh", "started", "ending"}]
          /\ UNCHANGED <<calls, profile, acked, raced, unsaved, adrift>>
      BY <1>3, <1>11 DEF WorkerStops
    <2>. QED  BY <2>1 DEF CallsTyped, MarksTyped
  <1>12. CASE WorkerFindsNoProfile(j)
    <2>1. /\ workers' \in [Job -> {"none", "fresh", "started", "ending"}]
          /\ UNCHANGED <<profile, acked, unsaved>>
      BY <1>3, <1>12 DEF WorkerFindsNoProfile
    <2>2. adrift' \in SUBSET Job
      BY <1>12 DEF WorkerFindsNoProfile, MarksTyped
    <2>3. CallsTyped' /\ raced' \in SUBSET Job
      <3>1. CASE UNCHANGED <<calls, raced>>
        BY <1>1, <3>1 DEF CallsTyped
      <3>2. CASE Saves(j, {j})
        <4>1. Known(j) /\ DOMAIN jobs' = DOMAIN jobs
          BY <1>2, <1>12 DEF WorkerFindsNoProfile
        <4>. QED  BY <1>4, <3>2, <4>1
      <3>. QED  BY <1>12, <3>1, <3>2 DEF WorkerFindsNoProfile
    <2>. QED  BY <2>1, <2>2, <2>3 DEF MarksTyped
  <1>. QED
    BY <1>5, <1>6, <1>7, <1>8, <1>9, <1>10, <1>11, <1>12 DEF WorkerStep

LEMMA RestartTyped ==
  ASSUME WellFormed, MarksTyped, Restart
  PROVE  CallsTyped' /\ MarksTyped'
  <1>1. GoodCall(Idle) /\ Idle \in CallRecord /\ DOMAIN rows \subseteq Job
    BY IdleCall, TableElim DEF WellFormed
  <1>2. calls' = [a \in Actor |-> Idle]
    BY DEF Restart
  <1>3. CallsTyped'
    <2>1. calls' \in [Actor -> CallRecord] /\ \A a \in Actor : calls'[a] = Idle
      BY <1>1, <1>2
    <2>2. \A a \in Actor : GoodCall(calls'[a])
      BY <1>1, <2>1
    <2>. QED  BY <2>1, <2>2 DEF CallsTyped, GoodCall
  <1>4. /\ workers' = [j \in Job |-> "none"] /\ acked' = DOMAIN rows /\ profile' = profile
        /\ raced' = {} /\ unsaved' = {}
        /\ adrift' = {j \in DOMAIN rows : rows[j].state = "Queued"}
    BY DEF Restart
  <1>5. MarksTyped'
    BY <1>1, <1>4 DEF MarksTyped
  <1>. QED  BY <1>3, <1>5

(* A step counts at most one change and one fault, within the bounds.      *)
LEMMA StepsAreCounted ==
  ASSUME [Next]_vars
  PROVE  (changes' = changes \/ Counted) /\ (faults' = faults \/ Faulty)
  <1>1. ASSUME NEW c \in Caller, Command(c) \/ ControlNext(c) \/ Drop(c) \/ Spawn(c)
        PROVE  (changes' = changes \/ Counted) /\ (faults' = faults \/ Faulty)
    BY <1>1 DEF Command, Enqueue, EnqueueLink, SetPriority, Reorder, Control, ControlAll,
       Resolve, Clear, ResumeProfile, ResumeProfileFails, DeleteProfile, Begins, ControlNext,
       Drop, Spawn
  <1>2. ASSUME NEW a \in Actor, Save(a) \/ SaveFails(a)
        PROVE  (changes' = changes \/ Counted) /\ (faults' = faults \/ Faulty)
    BY <1>2 DEF Save, SaveFails
  <1>3. ASSUME NEW j \in Job, WorkerStep(j)
        PROVE  (changes' = changes \/ Counted) /\ (faults' = faults \/ Faulty)
    BY <1>3 DEF WorkerStep, WorkerStarts, WorkerSaves, WorkerSavesLocked, WorkerSettles,
       WorkerRetries, WorkerFails, WorkerStops, WorkerFindsNoProfile
  <1>4. CASE Restart
    BY <1>4 DEF Restart
  <1>5. CASE UNCHANGED vars
    BY <1>5 DEF vars
  <1>. QED  BY <1>1, <1>2, <1>3, <1>4, <1>5 DEF Next

(* The inductive invariant of TypeOK.                                      *)
QueueTypes ==
  /\ WellFormed /\ InOrder /\ CallsTyped /\ MarksTyped
  /\ changes \in 0..MaxChanges /\ faults \in 0..MaxFaults

LEMMA TypesInitially ==
  ASSUME Init
  PROVE  QueueTypes
  <1>1. WellFormed
    BY WellFormedInitially
  <1>2. PICK table \in StartOf :
          /\ rows = table /\ jobs = RestoredJobs(table)
          /\ created = SetToSeq(DOMAIN table) /\ order = created
          /\ calls = [a \in Actor |-> Idle] /\ workers = [j \in Job |-> "none"]
          /\ profile = TRUE /\ acked = DOMAIN table /\ raced = {} /\ unsaved = {}
          /\ adrift = {j \in DOMAIN table : table[j].state = "Queued"}
          /\ changes = 0 /\ faults = 0
    BY DEF Init
  <1>3. table \in Tables /\ DOMAIN table \in SUBSET Job
    BY StartAssumption, TableElim
  <1>4. DOMAIN jobs = DOMAIN table
    BY <1>2 DEF RestoredJobs
  <1>5. Lists(created, DOMAIN table)
    BY <1>2, <1>3, NewLists
  <1>6. InOrder
    BY <1>2, <1>4, <1>5 DEF InOrder, Lists, Held
  <1>7. GoodCall(Idle) /\ Idle \in CallRecord
    BY <1>2, <1>3, IdleCall
  <1>8. CallsTyped
    BY <1>2, <1>7 DEF CallsTyped
  <1>9. MarksTyped
    BY <1>2, <1>3 DEF MarksTyped
  <1>10. changes \in 0..MaxChanges /\ faults \in 0..MaxFaults
    BY <1>2, ConstantsAssumption
  <1>. QED  BY <1>1, <1>6, <1>8, <1>9, <1>10 DEF QueueTypes

LEMMA TypesKept ==
  ASSUME QueueTypes, [Next]_vars
  PROVE  QueueTypes' /\ MovesOne
  <1>1. /\ WellFormed /\ InOrder /\ CallsTyped /\ MarksTyped
        /\ changes \in 0..MaxChanges /\ faults \in 0..MaxFaults
    BY DEF QueueTypes
  <1>2. WellFormed' /\ jobs' \in Tables
    BY <1>1, WellFormedKept DEF WellFormed
  <1>3. InOrder' /\ MovesOne
    BY <1>1, OrderKept
  <1>4. changes' \in 0..MaxChanges /\ faults' \in 0..MaxFaults
    BY <1>1, StepsAreCounted, ConstantsAssumption DEF Counted, Faulty
  <1>5. CallsTyped' /\ MarksTyped'
    <2>1. ASSUME NEW c \in Caller, Command(c) \/ ControlNext(c)
          PROVE  CallsTyped' /\ MarksTyped'
      BY <1>1, <1>2, <2>1, CommandsTyped
    <2>2. ASSUME NEW c \in Caller, Drop(c) \/ Spawn(c)
          PROVE  CallsTyped' /\ MarksTyped'
      <3>1. c \in Actor
        BY DEF Actor
      <3>. QED  BY <1>1, <2>2, <3>1, CallStepsTyped
    <2>3. ASSUME NEW a \in Actor, Save(a) \/ SaveFails(a)
          PROVE  CallsTyped' /\ MarksTyped'
      BY <1>1, <2>3, CallStepsTyped
    <2>4. ASSUME NEW j \in Job, WorkerStep(j)
          PROVE  CallsTyped' /\ MarksTyped'
      BY <1>1, <1>2, <2>4, WorkersTyped
    <2>5. CASE Restart
      BY <1>1, <2>5, RestartTyped
    <2>6. CASE UNCHANGED vars
      BY <1>1, <2>6 DEF vars, CallsTyped, MarksTyped
    <2>. QED  BY <2>1, <2>2, <2>3, <2>4, <2>5, <2>6 DEF Next
  <1>. QED  BY <1>2, <1>3, <1>4, <1>5 DEF QueueTypes

LEMMA TypesSuffice ==
  QueueTypes => TypeOK
  BY DEF QueueTypes, TypeOK, WellFormed, InOrder, Lists, CallsTyped, MarksTyped

(* The queue lists the transfers it holds, each exactly once, whatever     *)
(* commands enqueue, reorder, sort, clear and restore at once; and every   *)
(* variable keeps its type.                                                *)
THEOREM QueueTyped == Spec => []TypeOK
  <1>1. Init => QueueTypes
    BY TypesInitially
  <1>2. QueueTypes /\ [Next]_vars => QueueTypes'
    BY TypesKept
  <1>. QED  BY <1>1, <1>2, TypesSuffice, PTL DEF Spec

(* set_priority sorts stably and reorder_transfer moves one transfer: no   *)
(* command moves more than one past others of its priority.                *)
THEOREM OrderIsKept == Spec => OnlyOneMoves
  <1>1. Init => QueueTypes
    BY TypesInitially
  <1>2. QueueTypes /\ [Next]_vars => QueueTypes' /\ MovesOne
    BY TypesKept
  <1>. QED  BY <1>1, <1>2, PTL DEF Spec, OnlyOneMoves

=============================================================================
