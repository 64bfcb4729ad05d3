---------------------------- MODULE TransferRunner ----------------------------
(***************************************************************************)
(* What the worker of a transfer (src-tauri/src/transfers.rs) does to the  *)
(* job and to the destination: the conflict check, the partial file, the   *)
(* verification, the promotion with its backup and rollback, the retries,  *)
(* and the commands of src-tauri/src/commands.rs that change the job while *)
(* the worker is between two of its steps.                                 *)
(*                                                                         *)
(* A step is one critical section of the queue's mutex or one operation on *)
(* the destination's file system.  Everything a worker read before a step  *)
(* may be out of date when it takes it.                                    *)
(*                                                                         *)
(* Uploads, downloads and remote copies have the same steps; mode.replaces *)
(* tells a local (or FTP) destination, where a rename replaces an existing *)
(* file, from an SFTP one, where it is refused; mode.hashed a source of at *)
(* most 64 MB, which is compared by SHA-256, from a larger one, of which   *)
(* only the size is compared; mode.handle a download, which keeps its      *)
(* partial file open, and whose handle follows the file when it is         *)
(* renamed, from the transfers that write by path.                         *)
(*                                                                         *)
(* The scheduler (TransferScheduler.tla) is here the set of the transfers  *)
(* that have an entry in its waiting queue: an entry lets one worker in.   *)
(***************************************************************************)
EXTENDS Naturals, FiniteSets, SequencesExt, TransferStates

CONSTANTS
  Job,             \* transfer ids
  Name,            \* destination paths
  DestOf,          \* [Job -> Name]: where a transfer is asked to go
  Numbered,        \* [Name -> Seq(Name)]: "n (2)", "n (3)", ... of a path
  Existing,        \* destination paths that hold a file at the start
  Old,             \* the owner of such a file's content
  EnqueuePolicy,   \* conflict policies a transfer may be enqueued with
  BatchOf,         \* [Job -> batch]: directory transfers share a batch
  Chunks,          \* length of every source, in chunks
  Modes,           \* kinds of destination and source, see mode
  RetryLimit,      \* the automatic_retry_limit preference
  MaxWorkers,      \* bound: workers of one transfer alive at once
  MaxDisturbances  \* bound: faults, user commands and restarts together

ASSUME ConstantsAssumption ==
  /\ DestOf \in [Job -> Name]
  /\ Numbered \in [Name -> Seq(Name)]
  /\ Existing \subseteq Name
  /\ Old \notin Job
  /\ EnqueuePolicy \subseteq Policy
  /\ Chunks \in Nat \ {0}
  /\ Modes \subseteq [replaces : BOOLEAN, hashed : BOOLEAN, handle : BOOLEAN]
  /\ \A m \in Modes : m.handle => m.replaces
  /\ RetryLimit \in Nat
  /\ MaxWorkers \in Nat \ {0}
  /\ MaxDisturbances \in Nat

VARIABLES
  jobs,            \* the queue's jobs: state, policy, retries, destination
  workers,         \* [Job -> [1..MaxWorkers -> worker]]: the spawned tasks
  files,           \* the destination's files: path |-> content
  delivered,       \* history: transfers whose file reached its destination
  skipped,         \* history: transfers that met a file and were to skip it
  mode,            \* how the destination is written, replaced and verified
  open,            \* [Job -> [Slot -> the file a worker has open]]
  pending,         \* transfers with an entry in the scheduler's queue
  faults,          \* failed operations so far
  commands,        \* user commands so far
  crashes          \* restarts so far

vars == <<jobs, workers, files, delivered, skipped, mode, open, pending,
          faults, commands, crashes>>

Dest(n) == <<"file", n>>
(* Mutant of Part: the destination is written in place.                   *)
PartInPlace(n, j) == Dest(n)

Part(n, j) == <<"part", n, j>>
Backup(n, j) == <<"backup", n, j>>

Path == {Dest(n) : n \in Name}
          \cup {Part(n, j) : n \in Name, j \in Job}
          \cup {Backup(n, j) : n \in Name, j \in Job}

(* What an open handle may be at besides a path: nothing, or a file that  *)
(* has been removed or replaced.                                          *)
Closed == <<"closed">>
Gone == <<"gone">>

(* A file's length, and which of its chunks have been written: set_len    *)
(* and a write past the end leave the others as holes.                    *)
Content == [owner : Job \cup {Old}, size : 0..Chunks,
            chunks : SUBSET (1..Chunks)]

Whole(c) == c.chunks = 1..Chunks

JobState == State \cup {"unknown", "removed"}

JobRecord == [state : JobState, policy : Policy, retries : 0..RetryLimit,
              dest : Name]

Known(j) == jobs[j].state \notin {"unknown", "removed"}

PC == {"none", "route", "acquire", "conflict", "ask", "skip", "rename",
       "plan", "open", "length", "trim", "check", "write", "verify",
       "commit", "promote", "backup", "swap", "rollback", "cleanup",
       "finish", "error", "fail", "sleep"}

Error == {"none", "retryable", "permanent", "auth"}

WorkerRecord == [pc : PC, dest : Name, off : 0..Chunks, err : Error]

Slot == 1..MaxWorkers

At(j, k, pc) == workers[j][k].pc = pc

NoWorker(j) == [pc |-> "none", dest |-> DestOf[j], off |-> 0, err |-> "none"]

Live(j, k) == ~At(j, k, "none")

-----------------------------------------------------------------------------
(* The file system. *)

Exists(p) == p \in DOMAIN files

CanRename(from, to) == Exists(from) /\ (mode.replaces \/ ~Exists(to))

Renamed(from, to) ==
  [p \in (DOMAIN files \ {from}) \cup {to} |->
     IF p = to THEN files[from] ELSE files[p]]

Without(p) == [q \in DOMAIN files \ {p} |-> files[q]]

(* write_chunk creates the file when it is missing. *)
Written(p, j, i) ==
  [q \in DOMAIN files \cup {p} |->
     IF q # p THEN files[q]
     ELSE IF Exists(p)
     THEN [owner |-> j,
           size |-> IF i > files[p].size THEN i ELSE files[p].size,
           chunks |-> files[p].chunks \cup {i}]
     ELSE [owner |-> j, size |-> i, chunks |-> {i}]]

(* OpenOptions::create: an empty file when there is none. *)
Opened(p, j) ==
  [q \in DOMAIN files \cup {p} |->
     IF Exists(q) THEN files[q]
     ELSE [owner |-> j, size |-> 0, chunks |-> {}]]

(* set_len: the file is cut, or extended with a hole. *)
Cut(p, n) ==
  [q \in DOMAIN files |->
     IF q # p THEN files[q]
     ELSE [files[p] EXCEPT !.size = n, !.chunks = @ \cap (1..n)]]

(* The file a worker writes to: the one it has open, or the one at the    *)
(* partial path.                                                          *)
Target(j, k) == IF mode.handle THEN open[j][k] ELSE Part(workers[j][k].dest, j)

(* What the operation a worker is about to issue does to the files, when  *)
(* it succeeds.                                                           *)
Effect(j, k) ==
  LET w == workers[j][k]
      q == Target(j, k)
  IN
  CASE w.pc = "open" -> Opened(Part(w.dest, j), j)
    [] w.pc = "trim" -> IF q = Gone THEN files ELSE Cut(q, w.off)
    [] w.pc = "write" -> IF q = Gone THEN files ELSE Written(q, j, w.off + 1)
    [] w.pc \in {"promote", "swap"} -> Renamed(Part(w.dest, j), Dest(w.dest))
    [] w.pc = "backup" -> Renamed(Dest(w.dest), Backup(w.dest, j))
    [] w.pc = "rollback" -> Renamed(Backup(w.dest, j), Dest(w.dest))
    [] w.pc = "cleanup" -> Without(Backup(w.dest, j))
    [] OTHER -> files

(* Open handles stay with their file: the one at from goes to to, and     *)
(* what was at to is gone.                                                *)
Followed(from, to) ==
  [j \in Job |-> [k \in Slot |-> IF open[j][k] = from THEN to
                                  ELSE IF open[j][k] = to THEN Gone
                                  ELSE open[j][k]]]

(* ... and what it does to the handles of all workers. *)
Handles(j, k) ==
  LET w == workers[j][k] IN
  CASE w.pc \in {"promote", "swap"} -> Followed(Part(w.dest, j), Dest(w.dest))
    [] w.pc = "backup" -> Followed(Dest(w.dest), Backup(w.dest, j))
    [] w.pc = "rollback" -> Followed(Backup(w.dest, j), Dest(w.dest))
    [] w.pc = "cleanup" -> Followed(Backup(w.dest, j), Gone)
    [] OTHER -> open

Possible(j, k) ==
  LET w == workers[j][k] IN
  CASE w.pc \in {"promote", "swap"} -> CanRename(Part(w.dest, j), Dest(w.dest))
    [] w.pc = "backup" -> CanRename(Dest(w.dest), Backup(w.dest, j))
    [] w.pc = "rollback" -> CanRename(Backup(w.dest, j), Dest(w.dest))
    [] w.pc = "cleanup" -> Exists(Backup(w.dest, j))
    [] OTHER -> TRUE

(* next_available_..._destination: the first numbered name that is free.  *)
FirstFree(n) == SelectInSeq(Numbered[n], LAMBDA m : ~Exists(Dest(m)))

-----------------------------------------------------------------------------
(* Moving a worker. *)

Goto(j, k, pc) == workers' = [workers EXCEPT ![j][k].pc = pc]

Ends(j, k) == workers' = [workers EXCEPT ![j][k] = NoWorker(j)]

Closes(j, k) == open' = [open EXCEPT ![j][k] = Closed]

(* An error leaves run; a retryable one goes to prepare_retry, the others *)
(* go to fail.                                                            *)
Raised(j, e) == [NoWorker(j) EXCEPT
                   !.pc = IF e = "retryable" THEN "error" ELSE "fail",
                   !.err = e]

Raise(j, k, e) == workers' = [workers EXCEPT ![j][k] = Raised(j, e)]

(* The error of an operation the file system refuses: SFTP errors are     *)
(* retryable, local and FTP ones are not.                                 *)
Refusal == IF mode.replaces THEN "permanent" ELSE "retryable"

SetState(j, s) == jobs' = [jobs EXCEPT ![j].state = s]

(* The jobs of S get a worker each: transfers::spawn. *)
CanSpawn(S) == \A j \in S : \E k \in Slot : ~Live(j, k)

FreeSlot(j) == CHOOSE k \in Slot : ~Live(j, k) /\ \A i \in 1..(k - 1) : Live(j, i)

Spawned(S) ==
  [j \in Job |->
     IF j \in S
     THEN [workers[j] EXCEPT ![FreeSlot(j)] = [NoWorker(j) EXCEPT !.pc = "route"]]
     ELSE workers[j]]

Init ==
  /\ \E policyOf \in [{BatchOf[j] : j \in Job} -> EnqueuePolicy] :
       jobs = [j \in Job |-> [state |-> "unknown", policy |-> policyOf[BatchOf[j]],
                              retries |-> 0, dest |-> DestOf[j]]]
  /\ workers = [j \in Job |-> [k \in Slot |-> NoWorker(j)]]
  /\ files = [p \in {Dest(n) : n \in Existing} |->
                [owner |-> Old, size |-> Chunks, chunks |-> 1..Chunks]]
  /\ delivered = {} /\ skipped = {}
  /\ mode \in Modes
  /\ open = [j \in Job |-> [k \in Slot |-> Closed]]
  /\ pending = {}
  /\ faults = 0 /\ commands = 0 /\ crashes = 0

MayDisturb == faults + commands + crashes < MaxDisturbances

-----------------------------------------------------------------------------
(* run looks the job and its profile up and asks the scheduler for a slot: *)
(* acquire pushes an entry unless the transfer has one.                    *)
Route(j, k) ==
  /\ At(j, k, "route")
  /\ IF Known(j)
     THEN Goto(j, k, "acquire") /\ pending' = pending \cup {j}
     ELSE Ends(j, k) /\ UNCHANGED pending
  /\ UNCHANGED <<jobs, files, delivered, skipped, mode, open, faults,
                 commands, crashes>>

(* Mutant of Start: the job is marked Running whatever it was.            *)
StartAnyState(j, k) ==
  /\ At(j, k, "acquire") /\ j \in pending
  /\ pending' = pending \ {j}
  /\ SetState(j, "Running")
  /\ Goto(j, k, "conflict")
  /\ UNCHANGED <<files, delivered, skipped, mode, open, faults, commands,
                 crashes>>

(* The scheduler grants the entry to whichever worker of the transfer      *)
(* looks first, and any other goes on waiting without one.  With the       *)
(* permit, run marks the job Running if it may; whatever the state is, it  *)
(* goes on.                                                                *)
Start(j, k) ==
  /\ At(j, k, "acquire") /\ j \in pending
  /\ pending' = pending \ {j}
  /\ IF Known(j)
     THEN /\ IF jobs[j].state \in {"Queued", "Interrupted"}
             THEN SetState(j, "Running")
             ELSE UNCHANGED jobs
          /\ Goto(j, k, "conflict")
     ELSE Ends(j, k) /\ UNCHANGED jobs
  /\ UNCHANGED <<files, delivered, skipped, mode, open, faults, commands,
                 crashes>>

(* session_client found no session: ConnectionClosed. *)
NoSession(j, k) ==
  /\ At(j, k, "conflict")
  /\ MayDisturb
  /\ faults' = faults + 1
  /\ Raise(j, k, "auth")
  /\ UNCHANGED <<jobs, files, delivered, skipped, mode, open, pending,
                 commands, crashes>>

(* handle_..._conflict looks at the destination and picks what to do from *)
(* the policy the job had.                                                *)
CheckConflict(j, k) ==
  /\ At(j, k, "conflict")
  /\ LET n == jobs[j].dest
         free == FirstFree(n)
     IN  \/ ~Known(j) /\ Raise(j, k, "permanent")
         \/ /\ Known(j)
            /\ ~Exists(Dest(n)) \/ jobs[j].policy = "overwrite"
            /\ Goto(j, k, "plan")
         \/ /\ Known(j) /\ Exists(Dest(n))
            /\ jobs[j].policy \in {"ask", "skip"}
            /\ Goto(j, k, jobs[j].policy)
         \/ /\ Known(j) /\ Exists(Dest(n)) /\ jobs[j].policy = "rename"
            /\ IF free = 0
               THEN Raise(j, k, "permanent")
               ELSE workers' = [workers EXCEPT
                                  ![j][k].pc = "rename",
                                  ![j][k].dest = Numbered[n][free]]
  /\ skipped' = IF Known(j) /\ Exists(Dest(jobs[j].dest)) /\ jobs[j].policy = "skip"
                THEN skipped \cup {j} ELSE skipped
  /\ UNCHANGED <<jobs, files, delivered, mode, open, pending, faults,
                 commands, crashes>>

(* transition(WaitingForConflict) or transition(Completed): the worker    *)
(* ends, or fails when the job has left Running meanwhile.                *)
Settle(j, k, pc, s) ==
  /\ At(j, k, pc)
  /\ IF Known(j) /\ IsValidTransition(jobs[j].state, s)
     THEN SetState(j, s) /\ Ends(j, k)
     ELSE Raise(j, k, "permanent") /\ UNCHANGED jobs
  /\ UNCHANGED <<files, delivered, skipped, mode, open, pending, faults,
                 commands, crashes>>

Ask(j, k) == Settle(j, k, "ask", "WaitingForConflict")

Skip(j, k) == Settle(j, k, "skip", "Completed")

(* update_destination, in whatever state the job is. *)
UpdateDestination(j, k) ==
  /\ At(j, k, "rename")
  /\ IF Known(j)
     THEN /\ jobs' = [jobs EXCEPT ![j].dest = workers[j][k].dest]
          /\ Goto(j, k, "plan")
     ELSE Raise(j, k, "permanent") /\ UNCHANGED jobs
  /\ UNCHANGED <<files, delivered, skipped, mode, open, pending, faults,
                 commands, crashes>>

(* Mutant of PlanCopy: a complete partial file counts as a done transfer. *)
PlanCopyDone(j, k) ==
  /\ At(j, k, "plan")
  /\ LET p == Part(jobs[j].dest, j)
         off == IF Exists(p) THEN files[p].size ELSE 0
     IN  workers' = [workers EXCEPT
                       ![j][k].pc = IF off < Chunks THEN "check" ELSE "finish",
                       ![j][k].dest = jobs[j].dest,
                       ![j][k].off = off]
  /\ UNCHANGED <<jobs, files, delivered, skipped, mode, open, pending, faults,
                 commands, crashes>>

(* The partial file says how much is there already; a complete one skips  *)
(* the copy loop, and with it every look at the job's state.  A download  *)
(* opens the file first.                                                  *)
PlanCopy(j, k) ==
  /\ At(j, k, "plan")
  /\ IF Known(j)
     THEN LET p == Part(jobs[j].dest, j)
              off == IF Exists(p) /\ ~mode.handle THEN files[p].size ELSE 0
          IN  workers' = [workers EXCEPT
                            ![j][k].pc = IF mode.handle THEN "open"
                                         ELSE IF off < Chunks THEN "check"
                                         ELSE "verify",
                            ![j][k].dest = jobs[j].dest,
                            ![j][k].off = off]
     ELSE Raise(j, k, "permanent")
  /\ UNCHANGED <<jobs, files, delivered, skipped, mode, open, pending, faults,
                 commands, crashes>>

(* OpenOptions::open, without truncation. *)
OpenPart(j, k) ==
  /\ At(j, k, "open")
  /\ files' = Effect(j, k)
  /\ open' = [open EXCEPT ![j][k] = Part(workers[j][k].dest, j)]
  /\ Goto(j, k, "length")
  /\ UNCHANGED <<jobs, delivered, skipped, mode, pending, faults, commands,
                 crashes>>

(* destination.metadata().len(); the length of a file that is gone is not *)
(* kept track of.                                                         *)
ReadLength(j, k) ==
  /\ At(j, k, "length")
  /\ \E off \in 0..Chunks :
       /\ Exists(open[j][k]) => off = files[open[j][k]].size
       /\ workers' = [workers EXCEPT ![j][k].pc = "trim", ![j][k].off = off]
  /\ UNCHANGED <<jobs, files, delivered, skipped, mode, open, pending, faults,
                 commands, crashes>>

(* Mutant of SetLength: the partial file is emptied.                      *)
SetLengthToZero(j, k) ==
  /\ At(j, k, "trim")
  /\ files' = IF open[j][k] = Gone THEN files ELSE Cut(open[j][k], 0)
  /\ workers' = [workers EXCEPT ![j][k].pc = "check", ![j][k].off = 0]
  /\ UNCHANGED <<jobs, delivered, skipped, mode, open, pending, faults,
                 commands, crashes>>

(* destination.set_len(offset), with the length read a step before. *)
SetLength(j, k) ==
  /\ At(j, k, "trim")
  /\ files' = Effect(j, k)
  /\ IF workers[j][k].off < Chunks
     THEN Goto(j, k, "check") /\ UNCHANGED open
     ELSE Goto(j, k, "verify") /\ Closes(j, k)
  /\ UNCHANGED <<jobs, delivered, skipped, mode, pending, faults, commands,
                 crashes>>

(* record_progress for the chunk written and ensure_running before the    *)
(* next one: both refuse a job that is not Running.                       *)
CheckRunning(j, k) ==
  /\ At(j, k, "check")
  /\ IF jobs[j].state = "Running"
     THEN IF workers[j][k].off < Chunks
          THEN Goto(j, k, "write") /\ UNCHANGED open
          ELSE Goto(j, k, "verify") /\ Closes(j, k)
     ELSE Raise(j, k, "permanent") /\ Closes(j, k)
  /\ UNCHANGED <<jobs, files, delivered, skipped, mode, pending, faults,
                 commands, crashes>>

WriteChunk(j, k) ==
  /\ At(j, k, "write")
  /\ files' = Effect(j, k)
  /\ workers' = [workers EXCEPT ![j][k].pc = "check", ![j][k].off = @ + 1]
  /\ UNCHANGED <<jobs, delivered, skipped, mode, open, pending, faults,
                 commands, crashes>>

(* sync_file, then the size and, for small files, the SHA-256 of the      *)
(* partial file.                                                          *)
Verified(c) == IF mode.hashed THEN Whole(c) ELSE c.size = Chunks

Verify(j, k) ==
  /\ At(j, k, "verify")
  /\ LET p == Part(jobs[j].dest, j)
     IN  IF Known(j) /\ Exists(p) /\ Verified(files[p])
         THEN workers' = [workers EXCEPT ![j][k].pc = "commit", ![j][k].off = 0]
         ELSE Raise(j, k, IF Known(j) /\ ~Exists(p) THEN Refusal ELSE "permanent")
  /\ UNCHANGED <<jobs, files, delivered, skipped, mode, open, pending, faults,
                 commands, crashes>>

(* commit_...: is there a destination to move aside? *)
Commit(j, k) ==
  /\ At(j, k, "commit")
  /\ IF Known(j)
     THEN workers' = [workers EXCEPT
                        ![j][k].pc = IF Exists(Dest(jobs[j].dest))
                                     THEN "backup" ELSE "promote",
                        ![j][k].dest = jobs[j].dest]
     ELSE Raise(j, k, "permanent")
  /\ UNCHANGED <<jobs, files, delivered, skipped, mode, open, pending, faults,
                 commands, crashes>>

(* One rename or removal of the commit, when it succeeds. *)
CommitStep(j, k, pc, next) ==
  /\ At(j, k, pc)
  /\ Possible(j, k)
  /\ files' = Effect(j, k)
  /\ open' = Handles(j, k)
  /\ Goto(j, k, next)
  /\ UNCHANGED <<jobs, faults, commands, crashes, skipped, mode, pending>>

Promote(j, k) == CommitStep(j, k, "promote", "finish") /\ delivered' = delivered \cup {j}

(* Mutant of MoveAside: the old destination is removed, not renamed.      *)
RemoveDestination(j, k) ==
  /\ At(j, k, "backup")
  /\ Possible(j, k)
  /\ files' = Without(Dest(workers[j][k].dest))
  /\ open' = Followed(Dest(workers[j][k].dest), Gone)
  /\ Goto(j, k, "swap")
  /\ UNCHANGED <<jobs, faults, commands, crashes, skipped, mode, pending,
                 delivered>>

MoveAside(j, k) == CommitStep(j, k, "backup", "swap") /\ UNCHANGED delivered

Swap(j, k) == CommitStep(j, k, "swap", "cleanup") /\ delivered' = delivered \cup {j}

CleanUp(j, k) == CommitStep(j, k, "cleanup", "finish") /\ UNCHANGED delivered

(* Where an error of the operation at pc takes the worker: the failed     *)
(* second rename of a commit is rolled back first.                        *)
AfterError(j, k, e) ==
  IF At(j, k, "swap")
  THEN [workers EXCEPT ![j][k].pc = "rollback", ![j][k].err = e]
  ELSE [workers EXCEPT ![j][k] = Raised(j, e)]

(* The file system refuses a rename or a removal. *)
Refused(j, k) ==
  /\ workers[j][k].pc \in {"promote", "backup", "swap", "cleanup"}
  /\ ~Possible(j, k)
  /\ workers' = AfterError(j, k, Refusal)
  /\ UNCHANGED <<jobs, files, delivered, skipped, mode, open, pending, faults,
                 commands, crashes>>

(* rename(backup, destination), its own error ignored. *)
RollBack(j, k) ==
  /\ At(j, k, "rollback")
  /\ \/ /\ Possible(j, k)
        /\ files' = Effect(j, k) /\ open' = Handles(j, k)
        /\ UNCHANGED faults
     \/ ~Possible(j, k) /\ UNCHANGED <<files, open, faults>>
     \/ MayDisturb /\ faults' = faults + 1 /\ UNCHANGED <<files, open>>
  /\ Raise(j, k, workers[j][k].err)
  /\ UNCHANGED <<jobs, delivered, skipped, mode, pending, commands, crashes>>

(* complete, after the metadata was set. *)
Finish(j, k) == Settle(j, k, "finish", "Completed")

(* Any operation on the network, a file system or the database may fail,  *)
(* before or after it took effect.                                        *)
Fault(j, k) ==
  /\ workers[j][k].pc \in {"route", "conflict", "plan", "open", "length",
                           "trim", "write", "verify", "commit", "promote",
                           "backup", "swap", "cleanup", "finish"}
  /\ MayDisturb
  /\ faults' = faults + 1
  /\ \E e \in Error \ {"none"} : workers' = AfterError(j, k, e)
  /\ \/ UNCHANGED <<files, delivered>> /\ Closes(j, k)
     \/ /\ Possible(j, k)
        /\ files' = Effect(j, k)
        /\ open' = [Handles(j, k) EXCEPT ![j][k] = Closed]
        /\ delivered' = IF workers[j][k].pc \in {"promote", "swap"}
                        THEN delivered \cup {j} ELSE delivered
  /\ UNCHANGED <<jobs, commands, crashes, skipped, mode, pending>>

(* Mutants of PrepareRetry: the limit is not consulted; the retry is not  *)
(* counted.                                                               *)
RetryBeyondLimit(j, k) ==
  /\ At(j, k, "error")
  /\ IF jobs[j].state = "Running"
     THEN /\ jobs' = [jobs EXCEPT ![j].state = "Interrupted",
                                  ![j].retries = @ + 1]
          /\ workers' = [workers EXCEPT ![j][k] = [NoWorker(j) EXCEPT !.pc = "sleep"]]
     ELSE Goto(j, k, "fail") /\ UNCHANGED jobs
  /\ UNCHANGED <<files, delivered, skipped, mode, open, pending, faults,
                 commands, crashes>>

RetryUncounted(j, k) ==
  /\ At(j, k, "error")
  /\ IF jobs[j].state = "Running" /\ jobs[j].retries < RetryLimit
     THEN /\ SetState(j, "Interrupted")
          /\ workers' = [workers EXCEPT ![j][k] = [NoWorker(j) EXCEPT !.pc = "sleep"]]
     ELSE Goto(j, k, "fail") /\ UNCHANGED jobs
  /\ UNCHANGED <<files, delivered, skipped, mode, open, pending, faults,
                 commands, crashes>>

(* prepare_retry; when the row cannot be saved the worker gives up with   *)
(* the job Interrupted already.                                           *)
PrepareRetry(j, k) ==
  /\ At(j, k, "error")
  /\ IF jobs[j].state = "Running" /\ jobs[j].retries < RetryLimit
     THEN /\ jobs' = [jobs EXCEPT ![j].state = "Interrupted",
                                  ![j].retries = @ + 1]
          /\ \/ /\ workers' = [workers EXCEPT ![j][k] = [NoWorker(j) EXCEPT !.pc = "sleep"]]
                /\ UNCHANGED faults
             \/ MayDisturb /\ faults' = faults + 1 /\ Goto(j, k, "fail")
     ELSE Goto(j, k, "fail") /\ UNCHANGED <<jobs, faults>>
  /\ UNCHANGED <<files, delivered, skipped, mode, open, pending, commands,
                 crashes>>

(* Mutant of Fail: the worker ends and the job is left as it is.          *)
FailSilently(j, k) ==
  /\ At(j, k, "fail")
  /\ Ends(j, k)
  /\ UNCHANGED <<jobs, files, delivered, skipped, mode, open, pending, faults,
                 commands, crashes>>

Fail(j, k) ==
  /\ At(j, k, "fail")
  /\ IF jobs[j].state \in {"Running", "Interrupted"}
     THEN SetState(j, IF workers[j][k].err = "auth"
                      THEN "WaitingForAuthentication" ELSE "Failed")
     ELSE UNCHANGED jobs
  /\ Ends(j, k)
  /\ UNCHANGED <<files, delivered, skipped, mode, open, pending, faults,
                 commands, crashes>>

(* The delay is over and the profile was reconnected, or could not be     *)
(* this time; another attempt either way.                                 *)
Reconnect(j, k) ==
  /\ At(j, k, "sleep")
  /\ IF Known(j) THEN Goto(j, k, "route") ELSE Ends(j, k)
  /\ UNCHANGED <<jobs, files, delivered, skipped, mode, open, pending, faults,
                 commands, crashes>>

(* The server wants a password or a host key decision first. *)
ReconnectRefused(j, k) ==
  /\ At(j, k, "sleep") /\ Known(j)
  /\ MayDisturb
  /\ faults' = faults + 1
  /\ \E e \in {"permanent", "auth"} : Raise(j, k, e)
  /\ UNCHANGED <<jobs, files, delivered, skipped, mode, open, pending,
                 commands, crashes>>

-----------------------------------------------------------------------------
(* The commands. *)

(* enqueue_transfer *)
Enqueue(j) ==
  /\ jobs[j].state = "unknown"
  /\ SetState(j, "Queued")
  /\ workers' = Spawned({j})
  /\ UNCHANGED <<files, delivered, skipped, mode, open, pending, faults,
                 commands, crashes>>

Command == MayDisturb /\ commands' = commands + 1

(* control_transfer: Pause and Cancel. *)
Stop(j, s) ==
  /\ Command
  /\ IsValidTransition(jobs[j].state, s)
  /\ SetState(j, s)
  /\ UNCHANGED <<workers, files, delivered, skipped, mode, open, pending,
                 faults, crashes>>

Pause(j) == Stop(j, "Paused")

Cancel(j) == Stop(j, "Cancelled")

(* control_transfer: Resume and Retry, with a new worker. *)
Requeue(j) ==
  /\ Command
  /\ IsValidTransition(jobs[j].state, "Queued")
  /\ CanSpawn({j})
  /\ SetState(j, "Queued")
  /\ workers' = Spawned({j})
  /\ UNCHANGED <<files, delivered, skipped, mode, open, pending, faults,
                 crashes>>

(* resolve_transfer_conflict, for one job or for its batch. *)
Resolve(j) ==
  /\ Command
  /\ jobs[j].state = "WaitingForConflict"
  /\ \E p \in Policy \ {"ask"}, batch \in BOOLEAN :
       LET targets == {i \in Job : \/ i = j
                                   \/ /\ batch /\ BatchOf[i] = BatchOf[j]
                                      /\ Known(i) /\ ~IsTerminal(jobs[i].state)}
           woken == {i \in targets : jobs[i].state = "WaitingForConflict"}
       IN  /\ CanSpawn(woken)
           /\ jobs' = [i \in Job |->
                         [jobs[i] EXCEPT
                            !.policy = IF i \in targets THEN p ELSE @,
                            !.state = IF i \in woken THEN "Queued" ELSE @]]
           /\ workers' = Spawned(woken)
  /\ UNCHANGED <<files, delivered, skipped, mode, open, pending, faults,
                 crashes>>

(* clear_transfers *)
Clear(f) ==
  /\ Command
  /\ \E j \in Job : Known(j) /\ Matches(f, jobs[j].state)
  /\ jobs' = [j \in Job |->
                IF Known(j) /\ Matches(f, jobs[j].state)
                THEN [jobs[j] EXCEPT !.state = "removed"] ELSE jobs[j]]
  /\ UNCHANGED <<workers, files, delivered, skipped, mode, open, pending,
                 faults, crashes>>

(* resume_profile_transfers: the user connects the profile again. *)
ResumeProfile ==
  LET ids == {j \in Job : jobs[j].state \in {"Interrupted", "WaitingForAuthentication"}}
  IN  /\ Command
      /\ ids # {}
      /\ CanSpawn(ids)
      /\ jobs' = [j \in Job |-> IF j \in ids THEN [jobs[j] EXCEPT !.state = "Queued"]
                                             ELSE jobs[j]]
      /\ workers' = Spawned(ids)
      /\ UNCHANGED <<files, delivered, skipped, mode, open, pending, faults,
                     crashes>>

(* The application stops and TransferQueue::restore reads the jobs back.  *)
Restart ==
  /\ MayDisturb
  /\ crashes' = crashes + 1
  /\ jobs' = [j \in Job |->
                IF jobs[j].state = "Running"
                THEN [jobs[j] EXCEPT !.state = "Interrupted"] ELSE jobs[j]]
  /\ workers' = [j \in Job |-> [k \in Slot |-> NoWorker(j)]]
  /\ open' = [j \in Job |-> [k \in Slot |-> Closed]]
  /\ pending' = {}
  /\ UNCHANGED <<files, delivered, skipped, mode, faults, commands>>

(* What a worker does without waiting for the scheduler. *)
Works(j, k) ==
  \/ Route(j, k) \/ NoSession(j, k) \/ CheckConflict(j, k)
  \/ Ask(j, k) \/ Skip(j, k) \/ UpdateDestination(j, k) \/ PlanCopy(j, k)
  \/ OpenPart(j, k) \/ ReadLength(j, k) \/ SetLength(j, k)
  \/ CheckRunning(j, k) \/ WriteChunk(j, k)
  \/ Verify(j, k) \/ Commit(j, k) \/ Promote(j, k) \/ MoveAside(j, k)
  \/ Swap(j, k) \/ CleanUp(j, k) \/ Refused(j, k) \/ RollBack(j, k)
  \/ Finish(j, k) \/ Fault(j, k) \/ PrepareRetry(j, k) \/ Fail(j, k)
  \/ Reconnect(j, k) \/ ReconnectRefused(j, k)

WorkerStep(j, k) == Start(j, k) \/ Works(j, k)

Next ==
  \/ \E j \in Job, k \in Slot : WorkerStep(j, k)
  \/ \E j \in Job : \/ Enqueue(j) \/ Pause(j) \/ Cancel(j)
                    \/ Requeue(j) \/ Resolve(j)
  \/ \E f \in Filter : Clear(f)
  \/ ResumeProfile
  \/ Restart

Spec == Init /\ [][Next]_vars

(* The runtime keeps polling a task that can go on.  The scheduler serves  *)
(* every entry of its queue (EveryEntryIsServed of TransferScheduler), but *)
(* only an entry: of two workers that share one, one may wait for ever.    *)
Fairness ==
  /\ \A j \in Job, k \in Slot : WF_vars(Works(j, k))
  /\ \A j \in Job : WF_vars(\E k \in Slot : Start(j, k))

FairSpec == Spec /\ Fairness

-----------------------------------------------------------------------------
TypeOK ==
  /\ jobs \in [Job -> JobRecord]
  /\ workers \in [Job -> [Slot -> WorkerRecord]]
  /\ DOMAIN files \subseteq Path
  /\ \A p \in DOMAIN files : files[p] \in Content
  /\ delivered \subseteq Job /\ skipped \subseteq Job
  /\ mode \in Modes
  /\ open \in [Job -> [Slot -> Path \cup {Closed, Gone}]]
  /\ pending \subseteq Job
  /\ {faults, commands, crashes} \subseteq 0..MaxDisturbances

(* "Partial destinations prevent an interrupted transfer from appearing   *)
(* complete": whatever fails, and whenever the application stops, a       *)
(* destination path holds one complete file.                              *)
DestinationsAreWhole ==
  \A n \in Name : Exists(Dest(n)) => Whole(files[Dest(n)])

(* A destination that held a file is never lost: at every moment a        *)
(* complete file is there, or a complete backup of it.                    *)
NothingIsLost ==
  \A n \in Existing :
    \/ Exists(Dest(n)) /\ Whole(files[Dest(n)])
    \/ \E j \in Job : Exists(Backup(n, j)) /\ Whole(files[Backup(n, j)])

(* A transfer reported Completed has put its file at the destination,     *)
(* unless the user chose to skip it.                                      *)
CompletedWasDelivered ==
  \A j \in Job : jobs[j].state = "Completed" => j \in delivered \cup skipped

(* A job shown as Running has a worker that works on it, and not only one *)
(* that waits for a slot or for a retry: nothing is stuck in Running.     *)
RunningHasWorker ==
  \A j \in Job : jobs[j].state = "Running" =>
    \E k \in Slot : workers[j][k].pc \notin {"none", "route", "acquire", "sleep"}

(* A settled transfer stays settled: a worker that does not know yet that *)
(* its transfer was cancelled or cleared cannot bring it back.            *)
Settles ==
  \A j \in Job : /\ jobs[j].state \in {"Completed", "Cancelled"}
                    => jobs'[j].state \in {jobs[j].state, "removed"}
                /\ jobs[j].state = "removed" => jobs'[j].state = "removed"

SettledIsFinal == [][Settles]_vars

(* What has been transferred is kept: a partial file only grows, until it *)
(* becomes the destination as it is.  No error, retry or restart makes a  *)
(* transfer start over.                                                   *)
KeepsParts ==
  \A n \in Name, j \in Job :
    LET p == Part(n, j) IN
    Exists(p) => \/ /\ p \in DOMAIN files'
                    /\ files[p].chunks \subseteq files'[p].chunks
                 \/ /\ Dest(n) \in DOMAIN files'
                    /\ files'[Dest(n)] = files[p]

PartialIsKept == [][KeepsParts]_vars

(* A running transfer comes to rest: its retries are counted, and in the  *)
(* end it is not shown as Running and no worker of it is left, but one    *)
(* that waits for a slot without an entry of its own in the queue.        *)
RunningEnds ==
  \A j \in Job : jobs[j].state = "Running"
                   ~> /\ jobs[j].state # "Running"
                      /\ \A k \in Slot : Live(j, k) =>
                           At(j, k, "acquire") /\ j \notin pending

=============================================================================
