---------------------------- MODULE TransferQueue ----------------------------
(***************************************************************************)
(* The transfer queue (crates/siftlane-core/src/transfer.rs) with its rows *)
(* in the database (src-tauri/src/storage.rs) and the commands and workers *)
(* that change both (src-tauri/src/commands.rs, transfers.rs).             *)
(*                                                                         *)
(* A command changes the queue under its mutex, takes a snapshot of what   *)
(* it changed, lets go of the mutex and writes the snapshot from a thread  *)
(* of the blocking pool; then it spawns workers.  Workers write the same   *)
(* way.  The writes of two calls may therefore be made in either order.    *)
(*                                                                         *)
(* All transfers belong to one profile and one batch.  What a worker does  *)
(* between two changes of its job is TransferRunner's subject, what the    *)
(* order means for the waiting workers TransferScheduler's.                *)
(***************************************************************************)
EXTENDS Naturals, Sequences, SequencesExt, FiniteSets, Functions, TLC, TransferStates

CONSTANTS
  Job,           \* transfer ids
  Caller,        \* concurrent user commands
  StartOf,       \* what the database holds at the start: a set of tables
  MaxChanges,    \* bound: commands and worker changes together
  MaxFaults      \* bound: failed database operations and restarts together

ASSUME ConstantsAssumption ==
  /\ IsFiniteSet(Job) /\ Job # {} /\ Job \cap Caller = {}
  /\ MaxChanges \in Nat
  /\ MaxFaults \in Nat

VARIABLES
  order,         \* TransferQueue::order
  jobs,          \* TransferQueue::jobs, id |-> job
  rows,          \* the transfer_jobs table, id |-> job
  created,       \* all ids, in the order of created_at
  calls,         \* what each command, and each worker, is about to do
  workers,       \* the worker of each transfer
  profile,       \* is the profile of the transfers in the database?
  acked,         \* history: transfers whose enqueueing command returned
  raced,         \* history: transfers with two unfinished writes at once
  unsaved,       \* history: transfers a write of which failed
  adrift,        \* history: transfers left Queued by a failure or a restart
  changes,       \* commands and changes so far
  faults         \* failed operations and restarts so far

vars == <<order, jobs, rows, created, calls, workers, profile, acked, raced,
          unsaved, adrift, changes, faults>>

Priority == {"low", "normal", "high"}

Record == [state : State, priority : Priority]

Tables == UNION {[S -> Record] : S \in SUBSET Job}

ASSUME StartAssumption == StartOf \subseteq Tables

Action == {"Pause", "Resume", "Cancel", "Retry"}

Known(j) == j \in DOMAIN jobs

Actor == Caller \cup Job

(* A call is idle, about to write the rows of save, to delete or to spawn *)
(* ids, or to go on with the transfers of rest; a command that enqueues   *)
(* returns acks.                                                          *)
Idle == [pc |-> "idle", save |-> Restrict(rows, {}), ids |-> {}, acks |-> {},
         rest |-> << >>, action |-> "none"]

IsIdle(a) == calls[a].pc = "idle"

WriteOf(a, j) == \/ calls[a].pc = "save" /\ j \in DOMAIN calls[a].save
                 \/ calls[a].pc = "drop" /\ j \in calls[a].ids

SpawnDue(j) == \E c \in Caller : /\ calls[c].pc \in {"save", "spawn"}
                                 /\ j \in calls[c].ids

(* The transfers of S that are being written while they change again.     *)
Overtaken(S) == {j \in S : \E a \in Actor : WriteOf(a, j)}

-----------------------------------------------------------------------------
(* TransferQueue's own operations. *)

(* retain: the transfers of seq that are in S, in the same order.         *)
Only(seq, S) ==
  LET kept[n \in 0..Len(seq)] ==
        IF n = 0 THEN << >>
        ELSE IF seq[n] \in S THEN Append(kept[n - 1], seq[n]) ELSE kept[n - 1]
  IN  kept[Len(seq)]

OfPriority(js, p) == Only(order, {j \in DOMAIN js : js[j].priority = p})

(* Mutant of ByPriority: the sort keeps equals in the opposite order.     *)
ByPriorityUnstable(js) ==
  Reverse(OfPriority(js, "high")) \o Reverse(OfPriority(js, "normal"))
    \o Reverse(OfPriority(js, "low"))

(* set_priority: the stable sort by descending priority.                  *)
ByPriority(js) ==
  OfPriority(js, "high") \o OfPriority(js, "normal") \o OfPriority(js, "low")

(* Mutant of Reordered: the transfer is not taken out first.              *)
ReorderedTwice(id, before) ==
  LET index == SelectInSeq(order, LAMBDA j : j = before)
  IN  IF index = 0 THEN Append(order, id) ELSE InsertAt(order, index, id)

(* reorder *)
Reordered(id, before) ==
  LET others == Only(order, Job \ {id})
      index == SelectInSeq(others, LAMBDA j : j = before)
  IN  IF index = 0 THEN Append(others, id) ELSE InsertAt(others, index, id)

Before(seq, i, j) == \E m, n \in DOMAIN seq : m < n /\ seq[m] = i /\ seq[n] = j

NewIds == Job \ Range(created)

(* New transfers, in state s. *)
Inserted(S, s) == [j \in DOMAIN jobs \cup S |->
                     IF j \in S THEN [state |-> s, priority |-> "normal"] ELSE jobs[j]]

WithState(S, s) == [j \in DOMAIN jobs |->
                      IF j \in S THEN [jobs[j] EXCEPT !.state = s] ELSE jobs[j]]

CanMove(j, s) == Known(j) /\ IsValidTransition(jobs[j].state, s)

(* The upsert of save_transfer and save_transfers. *)
Written(table) == [j \in DOMAIN rows \cup DOMAIN table |->
                     IF j \in DOMAIN table THEN table[j] ELSE rows[j]]

(* What a restart makes of a row. *)
Restored(r) == IF r.state = "Running" THEN [r EXCEPT !.state = "Interrupted"] ELSE r

RestoredJobs(table) == [j \in DOMAIN table |-> Restored(table[j])]

Init ==
  \E table \in StartOf :
    /\ rows = table
    /\ jobs = RestoredJobs(table)
    /\ created = SetToSeq(DOMAIN table)
    /\ order = created
    /\ calls = [a \in Actor |-> Idle]
    /\ workers = [j \in Job |-> "none"]
    /\ profile = TRUE
    /\ acked = DOMAIN table
    /\ raced = {} /\ unsaved = {}
    /\ adrift = {j \in DOMAIN table : table[j].state = "Queued"}
    /\ changes = 0 /\ faults = 0

Counted == changes < MaxChanges /\ changes' = changes + 1

Faulty == faults < MaxFaults /\ faults' = faults + 1

(* Actor a goes on with call; a transfer of S changed, or was read, while *)
(* an older state of it is still being written.                           *)
GoesOn(a, call, S) ==
  /\ calls' = [calls EXCEPT ![a] = call]
  /\ raced' = raced \cup Overtaken(S)

Saves(a, S) == GoesOn(a, [Idle EXCEPT !.pc = "save", !.save = Restrict(jobs', S)], S)

SavesAndSpawns(a, S, ids) ==
  GoesOn(a, [Idle EXCEPT !.pc = "save", !.save = Restrict(jobs', S), !.ids = ids], S)

(* The mutex of the queue is free, and c may start a command.             *)
Begins(c) == IsIdle(c) /\ Counted

-----------------------------------------------------------------------------
(* The commands, up to the point where the mutex is let go. *)

(* Mutant of Enqueue: the command returns before the rows are written.    *)
EnqueueEarly(c) ==
  /\ Begins(c)
  /\ \E new \in (SUBSET NewIds) \ {{}} :
       /\ order' = order \o SetToSeq(new)
       /\ created' = created \o SetToSeq(new)
       /\ jobs' = Inserted(new, "Queued")
       /\ SavesAndSpawns(c, new, new)
       /\ acked' = acked \cup new
  /\ UNCHANGED <<rows, workers, profile, unsaved, adrift, faults>>

(* enqueue_transfer, enqueue_remote_transfer, enqueue_directory_transfer   *)
Enqueue(c) ==
  /\ Begins(c)
  /\ \E new \in (SUBSET NewIds) \ {{}} :
       /\ order' = order \o SetToSeq(new)
       /\ created' = created \o SetToSeq(new)
       /\ jobs' = Inserted(new, "Queued")
       /\ GoesOn(c, [Idle EXCEPT !.pc = "save", !.save = Restrict(jobs', new),
                                 !.ids = new, !.acks = new], new)
  /\ UNCHANGED <<rows, workers, profile, acked, unsaved, adrift, faults>>

(* enqueue_transfer of a symbolic link, which it has copied already.      *)
EnqueueLink(c) ==
  /\ Begins(c)
  /\ \E j \in NewIds :
       /\ order' = Append(order, j)
       /\ created' = Append(created, j)
       /\ jobs' = Inserted({j}, "Completed")
       /\ GoesOn(c, [Idle EXCEPT !.pc = "save", !.save = Restrict(jobs', {j}),
                                 !.acks = {j}], {j})
  /\ UNCHANGED <<rows, workers, profile, acked, unsaved, adrift, faults>>

(* set_transfer_priority *)
SetPriority(c) ==
  /\ Begins(c)
  /\ \E j \in DOMAIN jobs, p \in Priority :
       /\ jobs' = [jobs EXCEPT ![j].priority = p]
       /\ order' = ByPriority(jobs')
       /\ Saves(c, {j})
  /\ UNCHANGED <<rows, created, workers, profile, acked, unsaved, adrift, faults>>

(* reorder_transfer: the order is not written.                            *)
Reorder(c) ==
  /\ Begins(c)
  /\ \E j \in DOMAIN jobs, before \in Job : order' = Reordered(j, before)
  /\ UNCHANGED <<jobs, rows, created, calls, workers, profile, acked, raced,
                 unsaved, adrift, faults>>

Target(action) ==
  CASE action = "Pause" -> "Paused"
    [] action = "Cancel" -> "Cancelled"
    [] action \in {"Resume", "Retry"} -> "Queued"

(* Mutant of Woken: a retried transfer gets no worker.                    *)
WokenOnResume(action, j) == IF action = "Resume" THEN {j} ELSE {}

(* The transfers that get a worker.                                       *)
Woken(action, j) == IF action \in {"Resume", "Retry"} THEN {j} ELSE {}

(* Mutant of Controlled: what a command of all transfers changes is not   *)
(* written.                                                               *)
ControlledUnsaved(c, j, action, rest) ==
  /\ jobs' = WithState({j}, Target(action))
  /\ GoesOn(c, [Idle EXCEPT !.pc = "spawn", !.ids = Woken(action, j),
                            !.rest = rest, !.action = action], {j})

(* control_transfer, when the queue accepts the move.                     *)
Controlled(c, j, action, rest) ==
  /\ jobs' = WithState({j}, Target(action))
  /\ GoesOn(c, [Idle EXCEPT !.pc = "save", !.save = Restrict(jobs', {j}),
                            !.ids = Woken(action, j), !.rest = rest,
                            !.action = IF rest = << >> THEN "none" ELSE action], {j})

Control(c) ==
  /\ Begins(c)
  /\ \E j \in Job, action \in Action :
       CanMove(j, Target(action)) /\ Controlled(c, j, action, << >>)
  /\ UNCHANGED <<order, rows, created, workers, profile, acked, unsaved, adrift,
                 faults>>

Candidate(action, s) ==
  CASE action = "Pause" -> s \in {"Running", "Queued"}
    [] action = "Resume" -> s \in {"Paused", "Interrupted"}
    [] action = "Cancel" -> ~IsTerminal(s)
    [] action = "Retry" -> s = "Failed"

(* control_all_transfers looks once which transfers the action is for.    *)
ControlAll(c) ==
  /\ Begins(c)
  /\ \E action \in Action :
       LET rest == Only(order, {j \in DOMAIN jobs : Candidate(action, jobs[j].state)})
       IN  /\ rest # << >>
           /\ GoesOn(c, [Idle EXCEPT !.pc = "next", !.rest = rest, !.action = action], {})
  /\ UNCHANGED <<order, jobs, rows, created, workers, profile, acked, unsaved,
                 adrift, faults>>

(* ... and controls one after the other, up to the first it cannot move.  *)
ControlNext(c) ==
  /\ calls[c].pc = "next"
  /\ LET j == Head(calls[c].rest)
         action == calls[c].action
     IN  IF CanMove(j, Target(action))
         THEN Controlled(c, j, action, Tail(calls[c].rest))
         ELSE GoesOn(c, Idle, {}) /\ UNCHANGED jobs
  /\ UNCHANGED <<order, rows, created, workers, profile, acked, unsaved, adrift,
                 changes, faults>>

(* resolve_transfer_conflict, for one transfer or all of the batch; the   *)
(* policy it sets is part of the rows it writes.                          *)
Resolve(c) ==
  /\ Begins(c)
  /\ \E j \in DOMAIN jobs, batch \in BOOLEAN :
       LET targets == {i \in DOMAIN jobs :
                         i = j \/ (batch /\ ~IsTerminal(jobs[i].state))}
           woken == {i \in targets : jobs[i].state = "WaitingForConflict"}
       IN  /\ j \in woken
           /\ jobs' = WithState(woken, "Queued")
           /\ SavesAndSpawns(c, targets, woken)
  /\ UNCHANGED <<order, rows, created, workers, profile, acked, unsaved, adrift,
                 faults>>

(* clear_transfers *)
Clear(c) ==
  /\ Begins(c)
  /\ \E filter \in Filter :
       LET removed == {j \in DOMAIN jobs : Matches(filter, jobs[j].state)}
       IN  /\ removed # {}
           /\ jobs' = Restrict(jobs, DOMAIN jobs \ removed)
           /\ order' = Only(order, DOMAIN jobs \ removed)
           /\ GoesOn(c, [Idle EXCEPT !.pc = "drop", !.ids = removed], removed)
  /\ UNCHANGED <<rows, created, workers, profile, acked, unsaved, adrift, faults>>

Waiting == {j \in DOMAIN jobs :
              jobs[j].state \in {"Interrupted", "WaitingForAuthentication"}}

(* resume_profile_transfers writes each row before it lets go of the      *)
(* mutex.                                                                 *)
ResumeProfile(c) ==
  /\ Begins(c) /\ profile /\ Waiting # {}
  /\ jobs' = WithState(Waiting, "Queued")
  /\ rows' = Written(Restrict(jobs', Waiting))
  /\ GoesOn(c, [Idle EXCEPT !.pc = "spawn", !.ids = Waiting], Waiting)
  /\ UNCHANGED <<order, created, workers, profile, acked, unsaved, adrift, faults>>

(* ... and gives up at the first it cannot write, without the spawns.     *)
ResumeProfileFails(c) ==
  /\ Begins(c) /\ Faulty
  /\ \E done \in SUBSET Waiting, failed \in Waiting :
       /\ \A j \in done : Before(order, j, failed)
       /\ \A j \in Waiting : Before(order, j, failed) => j \in done
       /\ jobs' = WithState(done \cup {failed}, "Queued")
       /\ rows' = Written(Restrict(jobs', done))
       /\ unsaved' = unsaved \cup {failed}
       /\ adrift' = adrift \cup done \cup {failed}
       /\ raced' = raced \cup Overtaken(done \cup {failed})
  /\ UNCHANGED <<order, created, calls, workers, profile, acked>>

(* delete_profile: the rows go with it, the queue does not hear of it.    *)
DeleteProfile(c) ==
  /\ Begins(c) /\ profile
  /\ profile' = FALSE
  /\ rows' = Restrict(rows, {})
  /\ UNCHANGED <<order, jobs, created, calls, workers, acked, raced, unsaved,
                 adrift, faults>>

-----------------------------------------------------------------------------
(* What is left of a call: the write, the spawns, the next transfer. *)

Remaining(a) ==
  IF calls[a].rest # << >>
  THEN [Idle EXCEPT !.pc = "next", !.rest = calls[a].rest, !.action = calls[a].action]
  ELSE Idle

AfterWrite(a) ==
  IF calls[a].ids # {}
  THEN [Idle EXCEPT !.pc = "spawn", !.ids = calls[a].ids, !.rest = calls[a].rest,
                    !.action = calls[a].action]
  ELSE Remaining(a)

Ended(a) == IF a \in Job /\ workers[a] = "ending"
            THEN [workers EXCEPT ![a] = "none"] ELSE workers

(* save_transfers (save_transfer for a worker): one transaction.          *)
Save(a) ==
  /\ calls[a].pc = "save" /\ profile
  /\ rows' = Written(calls[a].save)
  /\ calls' = [calls EXCEPT ![a] = AfterWrite(a)]
  /\ workers' = Ended(a)
  /\ acked' = acked \cup calls[a].acks
  /\ UNCHANGED <<order, jobs, created, profile, raced, unsaved, adrift, changes,
                 faults>>

(* The transaction fails, as it must when the profile is gone: the command *)
(* returns the error and spawns nothing.                                  *)
SaveFails(a) ==
  /\ calls[a].pc = "save"
  /\ Faulty \/ (~profile /\ UNCHANGED faults)
  /\ calls' = [calls EXCEPT ![a] = Idle]
  /\ workers' = Ended(a)
  /\ unsaved' = unsaved \cup DOMAIN calls[a].save
  /\ adrift' = adrift \cup calls[a].ids
  /\ UNCHANGED <<order, jobs, rows, created, profile, acked, raced, changes>>

(* delete_transfers *)
Drop(a) ==
  /\ calls[a].pc = "drop"
  /\ \/ rows' = Restrict(rows, DOMAIN rows \ calls[a].ids) /\ UNCHANGED <<unsaved, faults>>
     \/ Faulty /\ unsaved' = unsaved \cup calls[a].ids /\ UNCHANGED rows
  /\ calls' = [calls EXCEPT ![a] = Idle]
  /\ UNCHANGED <<order, jobs, created, workers, profile, acked, raced, adrift, changes>>

(* transfers::spawn for each of the ids; a second worker of a transfer is *)
(* TransferRunner's subject, here the first one ends before.              *)
Spawn(c) ==
  /\ calls[c].pc = "spawn"
  /\ \A j \in calls[c].ids : workers[j] = "none"
  /\ workers' = [j \in Job |-> IF j \in calls[c].ids THEN "fresh" ELSE workers[j]]
  /\ calls' = [calls EXCEPT ![c] = Remaining(c)]
  /\ UNCHANGED <<order, jobs, rows, created, profile, acked, raced, unsaved,
                 adrift, changes, faults>>

-----------------------------------------------------------------------------
(* The workers. *)

(* A worker that has nothing to write may go on.                          *)
Works(j, phase) == workers[j] = phase /\ IsIdle(j)

WorkerGoesTo(j, phase) == workers' = [workers EXCEPT ![j] = phase]

(* run marks the job Running, if it may, and goes on in any case.         *)
WorkerStarts(j) ==
  /\ Works(j, "fresh") /\ Known(j)
  /\ IF jobs[j].state \in {"Queued", "Interrupted"}
     THEN jobs' = WithState({j}, "Running") ELSE UNCHANGED jobs
  /\ Saves(j, {j})
  /\ WorkerGoesTo(j, "started")
  /\ UNCHANGED <<order, rows, created, profile, acked, unsaved, adrift, changes,
                 faults>>

(* set_total and record_progress write the job as it is.                  *)
WorkerSaves(j) ==
  /\ Works(j, "started") /\ Known(j)
  /\ Counted
  /\ UNCHANGED jobs
  /\ Saves(j, {j})
  /\ UNCHANGED <<order, rows, created, workers, profile, acked, unsaved, adrift,
                 faults>>

(* update_destination and set_verification write it under the mutex.      *)
WorkerSavesLocked(j) ==
  /\ Works(j, "started") /\ Known(j) /\ profile
  /\ Counted
  /\ rows' = Written(Restrict(jobs, {j}))
  /\ raced' = raced \cup Overtaken({j})
  /\ UNCHANGED <<order, jobs, created, calls, workers, profile, acked, unsaved,
                 adrift, faults>>

(* The transfer is done, or waits for the user's decision.                *)
WorkerSettles(j, s) ==
  /\ Works(j, "started") /\ CanMove(j, s)
  /\ Counted
  /\ jobs' = WithState({j}, s)
  /\ Saves(j, {j})
  /\ WorkerGoesTo(j, "ending")
  /\ UNCHANGED <<order, rows, created, profile, acked, unsaved, adrift, faults>>

(* prepare_retry *)
WorkerRetries(j) ==
  /\ Works(j, "started") /\ CanMove(j, "Interrupted")
  /\ Counted
  /\ jobs' = WithState({j}, "Interrupted")
  /\ Saves(j, {j})
  /\ WorkerGoesTo(j, "fresh")
  /\ UNCHANGED <<order, rows, created, profile, acked, unsaved, adrift, faults>>

(* fail, after an error that is not retried or that comes from reconnect. *)
WorkerFails(j, s) ==
  /\ Known(j)
  /\ Works(j, "started") \/ (Works(j, "fresh") /\ jobs[j].state = "Interrupted")
  /\ Counted
  /\ jobs[j].state \notin {"Paused", "Cancelled", "WaitingForConflict"}
  /\ IF jobs[j].state \in {"Running", "Interrupted"}
     THEN jobs' = WithState({j}, s) ELSE UNCHANGED jobs
  /\ Saves(j, {j})
  /\ WorkerGoesTo(j, "ending")
  /\ UNCHANGED <<order, rows, created, profile, acked, unsaved, adrift, faults>>

(* fail, for a job that left Running by the user's command, or was        *)
(* removed.                                                               *)
WorkerStops(j) ==
  /\ \/ Works(j, "started")
     \/ Works(j, "fresh") /\ ~Known(j)
  /\ Known(j) => jobs[j].state \in {"Paused", "Cancelled", "WaitingForConflict"}
  /\ WorkerGoesTo(j, "none")
  /\ UNCHANGED <<order, jobs, rows, created, calls, profile, acked, raced,
                 unsaved, adrift, changes, faults>>

(* get_profile fails before the worker has marked the job Running: fail   *)
(* leaves it Queued.                                                      *)
WorkerFindsNoProfile(j) ==
  /\ Works(j, "fresh") /\ Known(j)
  /\ Faulty \/ (~profile /\ UNCHANGED faults)
  /\ IF jobs[j].state = "Interrupted"
     THEN jobs' = WithState({j}, "Failed") ELSE UNCHANGED jobs
  /\ adrift' = IF jobs[j].state = "Queued" THEN adrift \cup {j} ELSE adrift
  /\ IF jobs[j].state \in {"Paused", "Cancelled", "WaitingForConflict"}
     THEN WorkerGoesTo(j, "none") /\ UNCHANGED <<calls, raced>>
     ELSE WorkerGoesTo(j, "ending") /\ Saves(j, {j})
  /\ UNCHANGED <<order, rows, created, profile, acked, unsaved, changes>>

-----------------------------------------------------------------------------
(* The application stops and TransferQueue::restore reads the rows back.  *)
Restart ==
  /\ Faulty
  /\ jobs' = RestoredJobs(rows)
  /\ order' = Only(created, DOMAIN rows)
  /\ calls' = [a \in Actor |-> Idle]
  /\ workers' = [j \in Job |-> "none"]
  /\ acked' = DOMAIN rows
  /\ raced' = {} /\ unsaved' = {}
  /\ adrift' = {j \in DOMAIN rows : rows[j].state = "Queued"}
  /\ UNCHANGED <<rows, created, profile, changes>>

Command(c) ==
  \/ Enqueue(c) \/ EnqueueLink(c) \/ SetPriority(c) \/ Reorder(c) \/ Control(c)
  \/ ControlAll(c) \/ Resolve(c) \/ Clear(c) \/ ResumeProfile(c)
  \/ ResumeProfileFails(c) \/ DeleteProfile(c)

WorkerStep(j) ==
  \/ WorkerStarts(j) \/ WorkerSaves(j) \/ WorkerSavesLocked(j)
  \/ \E s \in {"Completed", "WaitingForConflict"} : WorkerSettles(j, s)
  \/ WorkerRetries(j)
  \/ \E s \in {"Failed", "WaitingForAuthentication"} : WorkerFails(j, s)
  \/ WorkerStops(j) \/ WorkerFindsNoProfile(j)

Next ==
  \/ \E c \in Caller : Command(c) \/ ControlNext(c) \/ Drop(c) \/ Spawn(c)
  \/ \E a \in Actor : Save(a) \/ SaveFails(a)
  \/ \E j \in Job : WorkerStep(j)
  \/ Restart

Spec == Init /\ [][Next]_vars

-----------------------------------------------------------------------------
CallRecord == [pc : {"idle", "save", "drop", "spawn", "next"},
               save : Tables,
               ids : SUBSET Job, acks : SUBSET Job, rest : Seq(Job),
               action : Action \cup {"none"}]

(* The state has its shape, and the queue's order lists every transfer it *)
(* holds exactly once, whatever commands reorder, sort, clear, enqueue    *)
(* and restore.                                                           *)
TypeOK ==
  /\ order \in Seq(Job) /\ IsInjective(order) /\ Range(order) = DOMAIN jobs
  /\ created \in Seq(Job) /\ IsInjective(created)
  /\ jobs \in Tables /\ rows \in Tables
  /\ calls \in [Actor -> CallRecord]
  /\ workers \in [Job -> {"none", "fresh", "started", "ending"}]
  /\ profile \in BOOLEAN
  /\ {acked, raced, unsaved, adrift} \subseteq SUBSET Job
  /\ changes \in 0..MaxChanges /\ faults \in 0..MaxFaults

(* A command that orders the queue moves at most one transfer past others *)
(* of its priority: set_priority sorts stably, reorder moves one.         *)
MovesOne ==
  \/ faults' # faults
  \/ \E moved \in Job :
       \A i, j \in (DOMAIN jobs \cap DOMAIN jobs') \ {moved} :
         jobs[i].priority = jobs[j].priority
           => (Before(order, i, j) <=> Before(order', i, j))

OnlyOneMoves == [][MovesOne]_vars

(* A transfer whose enqueueing has returned to the user is in the         *)
(* database until the user removes it or its profile: a restart does not  *)
(* forget it.                                                             *)
AckedIsDurable ==
  profile => \A j \in acked : Known(j) => j \in DOMAIN rows

(* A restart at this moment would bring back every transfer as it is now, *)
(* and no transfer that was cleared, except those that are still being    *)
(* written, that a write failed for, or whose writes overtook each other. *)
RestartKeepsState ==
  profile =>
    \A j \in Job \ (raced \cup unsaved) :
      (\A a \in Actor : ~WriteOf(a, j)) =>
        /\ j \in DOMAIN rows <=> Known(j)
        /\ Known(j) => Restored(rows[j]) = Restored(jobs[j])

(* A Queued transfer has a worker that is going to start it, or a command *)
(* about to spawn one, unless a restart or a failure left it Queued.      *)
QueuedIsServed ==
  \A j \in DOMAIN jobs :
    jobs[j].state = "Queued" => j \in adrift \/ workers[j] = "fresh" \/ SpawnDue(j)

=============================================================================
