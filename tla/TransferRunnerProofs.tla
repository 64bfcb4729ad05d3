-------------------------- MODULE TransferRunnerProofs --------------------------
(***************************************************************************)
(* Theorems about the transfer worker, for any transfers, destinations,    *)
(* sizes and numbers of faults, commands and restarts: what a transfer     *)
(* reports has happened, what settled stays settled and, as long as no     *)
(* transfer has two workers, what was copied is kept and no destination is *)
(* ever incomplete or lost.                                                *)
(***************************************************************************)
EXTENDS TransferRunner, WellFoundedInduction, TLAPS

W == [Job -> [Slot -> WorkerRecord]]

J == [Job -> JobRecord]

(* A chunk is written only while one is missing.                           *)
OffsetOK == \A j \in Job, k \in Slot : At(j, k, "write") => workers[j][k].off < Chunks

Opens == [Job -> [Slot -> Path \cup {Closed, Gone}]]

Copying == {"length", "trim", "check", "write"}

(* Only a download opens its partial file, and it has it open while it     *)
(* copies.                                                                 *)
HandleOK(pc, h) ==
  /\ pc \in {"open", "length", "trim"} => mode.handle
  /\ mode.handle /\ pc \in Copying => h # Closed

HandlesOK == \A j \in Job, k \in Slot : HandleOK(workers[j][k].pc, open[j][k])

TypeInv == TypeOK /\ OffsetOK /\ HandlesOK

-----------------------------------------------------------------------------
(* Numbers. *)

LEMMA LeastNat ==
  ASSUME NEW T \in SUBSET Nat, T # {}
  PROVE  \E x \in T : \A y \in T : x <= y
  <1> DEFINE R == OpToRel(<, Nat)
  <1>1. IsWellFoundedOn(R, Nat)
    BY NatLessThanWellFounded
  <1>2. \A x, y \in Nat : x < y => <<x, y>> \in R
    BY DEF OpToRel
  <1> HIDE DEF R
  <1>3. PICK x \in T : \A y \in T : <<y, x>> \notin R
    BY <1>1, WFMin
  <1>4. ASSUME NEW y \in T
        PROVE  x <= y
    <2>1. x \in Nat /\ y \in Nat /\ ~(y < x)
      BY <1>2, <1>3
    <2>. QED  BY <2>1
  <1>. QED  BY <1>4

LEMMA FirstFreeIs ==
  ASSUME NEW n \in Name
  PROVE  FirstFree(n) = 0 \/ Numbered[n][FirstFree(n)] \in Name
  <1> DEFINE s == Numbered[n]
             I == {i \in 1..Len(s) : ~Exists(Dest(s[i]))}
  <1>1. FirstFree(n) = IF I # {} THEN Min(I) ELSE 0
    BY DEF FirstFree, SelectInSeq
  <1>2. s \in Seq(Name)
    BY ConstantsAssumption
  <1>3. I \subseteq 1..Len(s) /\ I \in SUBSET Nat
    OBVIOUS
  <1> HIDE DEF I
  <1>4. CASE I # {}
    <2>1. Min(I) \in I
      BY <1>3, <1>4, LeastNat DEF Min
    <2> HIDE DEF s
    <2>2. \A i \in 1..Len(s) : s[i] \in Name
      BY <1>2
    <2>3. s[Min(I)] \in Name
      BY <1>3, <2>1, <2>2
    <2>. QED  BY <1>1, <1>4, <2>3 DEF s
  <1>. QED  BY <1>1, <1>4

-----------------------------------------------------------------------------
(* Paths and files. *)

LEMMA PathsDiffer ==
  ASSUME NEW n, NEW m, NEW i, NEW j
  PROVE  /\ (Dest(n) = Dest(m)) <=> (n = m)
         /\ (Part(n, i) = Part(m, j)) <=> (n = m /\ i = j)
         /\ (Backup(n, i) = Backup(m, j)) <=> (n = m /\ i = j)
         /\ Dest(n) # Part(m, j) /\ Dest(n) # Backup(m, j) /\ Part(n, i) # Backup(m, j)
         /\ Closed \notin {Dest(n), Part(n, i), Backup(n, i), Gone}
         /\ Gone \notin {Dest(n), Part(n, i), Backup(n, i)}
  BY DEF Dest, Part, Backup, Closed, Gone

(* What one operation of a worker does to the files.                       *)
Copies(j, p, i) ==
  /\ DOMAIN files' = DOMAIN files \cup {p}
  /\ \A q \in DOMAIN files : q # p => files'[q] = files[q]
  /\ files'[p].owner = j
  /\ p \notin DOMAIN files =>
       files'[p] = [owner |-> j, size |-> i, chunks |-> {i}]
  /\ p \in DOMAIN files =>
       files'[p] = [owner |-> j,
                    size |-> IF i > files[p].size THEN i ELSE files[p].size,
                    chunks |-> files[p].chunks \cup {i}]

Creates(j, p) ==
  /\ DOMAIN files' = DOMAIN files \cup {p}
  /\ \A q \in DOMAIN files : files'[q] = files[q]
  /\ p \notin DOMAIN files => files'[p] = [owner |-> j, size |-> 0, chunks |-> {}]

Cuts(p, n) ==
  /\ DOMAIN files' = DOMAIN files
  /\ \A q \in DOMAIN files : q # p => files'[q] = files[q]
  /\ p \in DOMAIN files =>
       files'[p] = [files[p] EXCEPT !.size = n, !.chunks = files[p].chunks \cap (1..n)]

Moves(from, to) ==
  /\ from \in DOMAIN files
  /\ DOMAIN files' = (DOMAIN files \ {from}) \cup {to}
  /\ files'[to] = files[from]
  /\ \A q \in DOMAIN files : q # from /\ q # to => files'[q] = files[q]

Removes(p) ==
  /\ DOMAIN files' = DOMAIN files \ {p}
  /\ \A q \in DOMAIN files : q # p => files'[q] = files[q]

FilesAre(j, pc, n, off, q) ==
  \/ files' = files
  \/ pc = "open" /\ Creates(j, Part(n, j))
  \/ pc = "trim" /\ q # Gone /\ Cuts(q, off)
  \/ pc = "write" /\ q # Gone /\ Copies(j, q, off + 1)
  \/ pc \in {"promote", "swap"} /\ Moves(Part(n, j), Dest(n))
  \/ pc = "backup" /\ Moves(Dest(n), Backup(n, j))
  \/ pc = "rollback" /\ Moves(Backup(n, j), Dest(n))
  \/ pc = "cleanup" /\ Removes(Backup(n, j))

LEMMA RenameMoves ==
  ASSUME NEW from, NEW to, from # to, CanRename(from, to), files' = Renamed(from, to)
  PROVE  Moves(from, to)
  <1>1. from \in DOMAIN files
    BY DEF CanRename, Exists
  <1>2. /\ DOMAIN Renamed(from, to) = (DOMAIN files \ {from}) \cup {to}
        /\ Renamed(from, to)[to] = files[from]
        /\ \A p \in DOMAIN files : p # from /\ p # to => Renamed(from, to)[p] = files[p]
    BY <1>1 DEF Renamed
  <1>. QED  BY <1>1, <1>2 DEF Moves

LEMMA WriteIs ==
  ASSUME NEW j, NEW p, NEW i, files' = Written(p, j, i)
  PROVE  Copies(j, p, i)
  <1>1. /\ DOMAIN files' = DOMAIN files \cup {p}
        /\ \A q \in DOMAIN files : q # p => files'[q] = files[q]
    BY DEF Written
  <1>2. files'[p] = IF Exists(p)
                    THEN [owner |-> j,
                          size |-> IF i > files[p].size THEN i ELSE files[p].size,
                          chunks |-> files[p].chunks \cup {i}]
                    ELSE [owner |-> j, size |-> i, chunks |-> {i}]
    BY DEF Written
  <1>. QED  BY <1>1, <1>2 DEF Copies, Exists

LEMMA OpenIs ==
  ASSUME NEW j, NEW p, files' = Opened(p, j)
  PROVE  Creates(j, p)
  BY DEF Opened, Creates, Exists

LEMMA CutIs ==
  ASSUME NEW p, NEW n, files' = Cut(p, n)
  PROVE  Cuts(p, n)
  <1>1. /\ DOMAIN files' = DOMAIN files
        /\ \A q \in DOMAIN files : q # p => files'[q] = files[q]
    BY DEF Cut
  <1>2. ASSUME p \in DOMAIN files
        PROVE  files'[p] = [files[p] EXCEPT !.size = n, !.chunks = files[p].chunks \cap (1..n)]
    BY <1>2 DEF Cut
  <1>. QED  BY <1>1, <1>2 DEF Cuts

LEMMA EffectIs ==
  ASSUME NEW j \in Job, NEW k \in Slot, files' = files \/ (Possible(j, k) /\ files' = Effect(j, k))
  PROVE  FilesAre(j, workers[j][k].pc, workers[j][k].dest, workers[j][k].off, Target(j, k))
  <1> DEFINE w == workers[j][k]
             q == Target(j, k)
  <1>1. CASE files' = files
    BY <1>1 DEF FilesAre
  <1>2. CASE Possible(j, k) /\ files' = Effect(j, k) /\ w.pc = "write"
    <2>1. files' = IF q = Gone THEN files ELSE Written(q, j, w.off + 1)
      BY <1>2 DEF Effect
    <2> HIDE DEF w, q
    <2>2. q # Gone => Copies(j, q, w.off + 1)
      BY <2>1, WriteIs
    <2>. QED  BY <1>2, <2>1, <2>2 DEF FilesAre, w, q
  <1>3. CASE Possible(j, k) /\ files' = Effect(j, k) /\ w.pc \in {"open", "trim"}
    <2>1. CASE w.pc = "open"
      <3>1. files' = Opened(Part(w.dest, j), j)
        BY <1>3, <2>1 DEF Effect
      <3> HIDE DEF w
      <3>2. Creates(j, Part(w.dest, j))
        BY <3>1, OpenIs
      <3>. QED  BY <2>1, <3>2 DEF FilesAre, w
    <2>2. CASE w.pc = "trim"
      <3>1. files' = IF q = Gone THEN files ELSE Cut(q, w.off)
        BY <1>3, <2>2 DEF Effect
      <3> HIDE DEF w, q
      <3>2. q # Gone => Cuts(q, w.off)
        BY <3>1, CutIs
      <3>. QED  BY <2>2, <3>1, <3>2 DEF FilesAre, w, q
    <2>. QED  BY <1>3, <2>1, <2>2
  <1>4. CASE Possible(j, k) /\ files' = Effect(j, k) /\ w.pc \in {"promote", "swap"}
    <2>1. CanRename(Part(w.dest, j), Dest(w.dest)) /\ files' = Renamed(Part(w.dest, j), Dest(w.dest))
      BY <1>4 DEF Effect, Possible
    <2>. QED  BY <1>4, <2>1, RenameMoves, PathsDiffer DEF FilesAre
  <1>5. CASE Possible(j, k) /\ files' = Effect(j, k) /\ w.pc = "backup"
    <2>1. CanRename(Dest(w.dest), Backup(w.dest, j))
          /\ files' = Renamed(Dest(w.dest), Backup(w.dest, j))
      BY <1>5 DEF Effect, Possible
    <2>. QED  BY <1>5, <2>1, RenameMoves, PathsDiffer DEF FilesAre
  <1>6. CASE Possible(j, k) /\ files' = Effect(j, k) /\ w.pc = "rollback"
    <2>1. CanRename(Backup(w.dest, j), Dest(w.dest))
          /\ files' = Renamed(Backup(w.dest, j), Dest(w.dest))
      BY <1>6 DEF Effect, Possible
    <2>. QED  BY <1>6, <2>1, RenameMoves, PathsDiffer DEF FilesAre
  <1>7. CASE Possible(j, k) /\ files' = Effect(j, k) /\ w.pc = "cleanup"
    <2>1. files' = Without(Backup(w.dest, j))
      BY <1>7 DEF Effect
    <2>2. Removes(Backup(w.dest, j))
      BY <2>1 DEF Without, Removes
    <2>. QED  BY <1>7, <2>2 DEF FilesAre
  <1>8. CASE w.pc \notin {"open", "trim", "write", "promote", "swap", "backup", "rollback",
                         "cleanup"}
    BY <1>8 DEF Effect, FilesAre
  <1>. QED  BY <1>1, <1>2, <1>3, <1>4, <1>5, <1>6, <1>7, <1>8

LEMMA FilesStayTyped ==
  ASSUME TypeInv, NEW j \in Job, NEW k \in Slot,
         FilesAre(j, workers[j][k].pc, workers[j][k].dest, workers[j][k].off,
                 Target(j, k))
  PROVE  DOMAIN files' \subseteq Path /\ \A p \in DOMAIN files' : files'[p] \in Content
  <1> DEFINE n == workers[j][k].dest
             off == workers[j][k].off
             i == off + 1
             q == Target(j, k)
  <1>1. /\ n \in Name /\ DOMAIN files \subseteq Path /\ \A p \in DOMAIN files : files[p] \in Content
        /\ Part(n, j) \in Path /\ Dest(n) \in Path /\ Backup(n, j) \in Path
        /\ off \in 0..Chunks /\ Chunks \in Nat
    <2>1. workers[j][k] \in WorkerRecord /\ Chunks \in Nat
      BY ConstantsAssumption DEF TypeInv, TypeOK
    <2>2. n \in Name /\ off \in 0..Chunks
      BY <2>1 DEF WorkerRecord
    <2>3. DOMAIN files \subseteq Path /\ \A p \in DOMAIN files : files[p] \in Content
      BY DEF TypeInv, TypeOK
    <2> HIDE DEF n, off
    <2>4. Part(n, j) \in Path /\ Dest(n) \in Path /\ Backup(n, j) \in Path
      BY <2>2 DEF Path
    <2>. QED  BY <2>1, <2>2, <2>3, <2>4
  <1>2. At(j, k, "write") => i \in 1..Chunks
    BY ConstantsAssumption DEF TypeInv, TypeOK, OffsetOK, WorkerRecord
  <1>3. ASSUME At(j, k, "write"), q # Gone, Copies(j, q, i)
        PROVE  DOMAIN files' \subseteq Path /\ \A p \in DOMAIN files' : files'[p] \in Content
    <2>1. q \in Path
      <3>1. open[j][k] \in Path \cup {Closed, Gone}
        BY DEF TypeInv, TypeOK
      <3>2. mode.handle => open[j][k] # Closed
        BY <1>3 DEF TypeInv, HandlesOK, HandleOK, Copying, At
      <3>. QED  BY <1>1, <1>3, <3>1, <3>2 DEF Target
    <2>2. i \in 1..Chunks /\ i \in 0..Chunks
      BY <1>2, <1>3
    <2> HIDE DEF i, q
    <2>3. CASE q \notin DOMAIN files
      <3>1. files'[q] \in Content
        BY <1>3, <2>2, <2>3 DEF Copies, Content
      <3>. QED  BY <1>1, <1>3, <2>1, <3>1 DEF Copies
    <2>4. CASE q \in DOMAIN files
      <3>1. files[q].size \in 0..Chunks /\ files[q].chunks \subseteq 1..Chunks
        BY <1>1, <2>4 DEF Content
      <3>2. /\ (IF i > files[q].size THEN i ELSE files[q].size) \in 0..Chunks
            /\ (files[q].chunks \cup {i}) \in SUBSET (1..Chunks)
        BY <2>2, <3>1
      <3>3. files'[q] \in Content
        BY <1>3, <2>4, <3>2 DEF Copies, Content
      <3>. QED  BY <1>1, <1>3, <2>1, <3>3 DEF Copies
    <2>. QED  BY <2>3, <2>4
  <1>6. ASSUME NEW p, Cuts(p, off)
        PROVE  DOMAIN files' \subseteq Path /\ \A r \in DOMAIN files' : files'[r] \in Content
    <2> HIDE DEF off
    <2>1. ASSUME p \in DOMAIN files
          PROVE  files'[p] \in Content
      <3>1. files[p] \in Content
        BY <1>1, <2>1
      <3>2. files'[p] = [files[p] EXCEPT !.size = off, !.chunks = files[p].chunks \cap (1..off)]
        BY <1>6, <2>1 DEF Cuts
      <3>3. (files[p].chunks \cap (1..off)) \in SUBSET (1..Chunks)
        BY <3>1 DEF Content
      <3>. QED  BY <1>1, <3>1, <3>2, <3>3 DEF Content
    <2>. QED  BY <1>1, <1>6, <2>1 DEF Cuts
  <1>7. ASSUME Creates(j, Part(n, j))
        PROVE  DOMAIN files' \subseteq Path /\ \A p \in DOMAIN files' : files'[p] \in Content
    <2>1. 0 \in 0..Chunks
      BY <1>1
    <2>2. [owner |-> j, size |-> 0, chunks |-> {}] \in Content
      BY <2>1 DEF Content
    <2> HIDE DEF n
    <2>. QED  BY <1>1, <1>7, <2>2 DEF Creates
  <1>4. ASSUME NEW from, NEW to, to \in Path, Moves(from, to)
        PROVE  DOMAIN files' \subseteq Path /\ \A p \in DOMAIN files' : files'[p] \in Content
    BY <1>1, <1>4 DEF Moves
  <1>5. ASSUME NEW p, Removes(p)
        PROVE  DOMAIN files' \subseteq Path /\ \A r \in DOMAIN files' : files'[r] \in Content
    BY <1>1, <1>5 DEF Removes
  <1>. QED  BY <1>1, <1>3, <1>4, <1>5, <1>6, <1>7 DEF FilesAre, At
-----------------------------------------------------------------------------
(* Workers and jobs. *)

(* Only worker k of j has changed.                                         *)
Only(j, k) ==
  /\ workers' \in W
  /\ \A i \in Job, l \in Slot : i # j \/ l # k => workers'[i][l] = workers[i][l]

LEMMA MoveIs ==
  ASSUME workers \in W, NEW j \in Job, NEW k \in Slot, NEW w \in WorkerRecord,
         workers' = [workers EXCEPT ![j][k] = w]
  PROVE  Only(j, k) /\ workers'[j][k] = w
  BY DEF Only, W

LEMMA GotoIs ==
  ASSUME workers \in W, NEW j \in Job, NEW k \in Slot, NEW pc \in PC, Goto(j, k, pc)
  PROVE  /\ Only(j, k) /\ workers'[j][k].pc = pc
         /\ workers'[j][k].dest = workers[j][k].dest /\ workers'[j][k].off = workers[j][k].off
         /\ workers'[j][k].err = workers[j][k].err
  <1> DEFINE w == [workers[j][k] EXCEPT !.pc = pc]
  <1>1. workers[j][k] \in WorkerRecord
    BY DEF W
  <1>2. /\ w \in WorkerRecord /\ w.pc = pc /\ w.dest = workers[j][k].dest
        /\ w.off = workers[j][k].off /\ w.err = workers[j][k].err
    BY <1>1 DEF WorkerRecord
  <1>3. workers' = [workers EXCEPT ![j][k] = w]
    BY DEF Goto, W
  <1> HIDE DEF w
  <1>4. Only(j, k) /\ workers'[j][k] = w
    BY <1>2, <1>3, MoveIs
  <1>. QED  BY <1>2, <1>4

LEMMA NoWorkerIs ==
  ASSUME NEW j \in Job
  PROVE  /\ NoWorker(j) \in WorkerRecord /\ NoWorker(j).pc = "none"
         /\ \A pc \in PC : /\ [NoWorker(j) EXCEPT !.pc = pc] \in WorkerRecord
                           /\ [NoWorker(j) EXCEPT !.pc = pc].pc = pc
         /\ \A e \in Error : /\ Raised(j, e) \in WorkerRecord
                             /\ Raised(j, e).pc \in {"error", "fail"}
  <1>1. DestOf[j] \in Name /\ 0 \in 0..Chunks
    BY ConstantsAssumption
  <1>2. NoWorker(j) \in WorkerRecord /\ NoWorker(j).pc = "none"
    BY <1>1 DEF NoWorker, WorkerRecord, PC, Error
  <1>3. ASSUME NEW pc \in PC
        PROVE  /\ [NoWorker(j) EXCEPT !.pc = pc] \in WorkerRecord
               /\ [NoWorker(j) EXCEPT !.pc = pc].pc = pc
    BY <1>2 DEF WorkerRecord
  <1>4. ASSUME NEW e \in Error
        PROVE  Raised(j, e) \in WorkerRecord /\ Raised(j, e).pc \in {"error", "fail"}
    <2>1. {"error", "fail"} \subseteq PC
      BY DEF PC
    <2> DEFINE pc == IF e = "retryable" THEN "error" ELSE "fail"
    <2>2. pc \in PC /\ pc \in {"error", "fail"}
      BY <2>1
    <2>3. Raised(j, e) = [[NoWorker(j) EXCEPT !.pc = pc] EXCEPT !.err = e]
      BY <1>2 DEF Raised, WorkerRecord
    <2> HIDE DEF pc
    <2>. QED  BY <1>3, <2>2, <2>3 DEF WorkerRecord
  <1>. QED  BY <1>2, <1>3, <1>4

LEMMA EndsIs ==
  ASSUME workers \in W, NEW j \in Job, NEW k \in Slot, Ends(j, k)
  PROVE  Only(j, k) /\ workers'[j][k].pc = "none"
  <1>1. Only(j, k) /\ workers'[j][k] = NoWorker(j)
    BY NoWorkerIs, MoveIs DEF Ends
  <1>. QED  BY <1>1, NoWorkerIs

LEMMA RaiseIs ==
  ASSUME workers \in W, NEW j \in Job, NEW k \in Slot, NEW e \in Error, Raise(j, k, e)
  PROVE  Only(j, k) /\ workers'[j][k].pc \in {"error", "fail"}
  <1>1. Raised(j, e) \in WorkerRecord /\ workers' = [workers EXCEPT ![j][k] = Raised(j, e)]
    BY NoWorkerIs DEF Raise
  <1>2. Only(j, k) /\ workers'[j][k] = Raised(j, e)
    BY <1>1, MoveIs
  <1>. QED  BY <1>2, NoWorkerIs

LEMMA AfterErrorIs ==
  ASSUME workers \in W, NEW j \in Job, NEW k \in Slot, NEW e \in Error,
         workers' = AfterError(j, k, e)
  PROVE  Only(j, k) /\ workers'[j][k].pc \in {"error", "fail", "rollback"}
  <1>1. CASE At(j, k, "swap")
    <2> DEFINE w == [workers[j][k] EXCEPT !.pc = "rollback", !.err = e]
    <2>1. workers[j][k] \in WorkerRecord
      BY DEF W
    <2>2. w \in WorkerRecord /\ w.pc = "rollback"
      BY <2>1 DEF WorkerRecord, PC
    <2>3. workers' = [workers EXCEPT ![j][k] = w]
      BY <1>1 DEF AfterError, W
    <2> HIDE DEF w
    <2>4. Only(j, k) /\ workers'[j][k] = w
      BY <2>2, <2>3, MoveIs
    <2>. QED  BY <2>2, <2>4
  <1>2. CASE ~At(j, k, "swap")
    <2>1. Raise(j, k, e)
      BY <1>2 DEF AfterError, Raise
    <2>. QED  BY <2>1, RaiseIs
  <1>. QED  BY <1>1, <1>2

(* Only job j has changed, and not its destination.                        *)
OnlyJob(j) ==
  /\ jobs' \in J
  /\ \A i \in Job : i # j => jobs'[i] = jobs[i]
  /\ jobs'[j].dest = jobs[j].dest

LEMMA SetStateIs ==
  ASSUME jobs \in J, NEW j \in Job, NEW s \in JobState, SetState(j, s)
  PROVE  OnlyJob(j) /\ jobs'[j].state = s
  <1>1. jobs[j] \in JobRecord /\ jobs' = [jobs EXCEPT ![j] = [jobs[j] EXCEPT !.state = s]]
    BY DEF SetState, J
  <1>2. /\ [jobs[j] EXCEPT !.state = s] \in JobRecord
        /\ [jobs[j] EXCEPT !.state = s].state = s
        /\ [jobs[j] EXCEPT !.state = s].dest = jobs[j].dest
    BY <1>1 DEF JobRecord
  <1> HIDE DEF JobRecord
  <1>. QED  BY <1>1, <1>2 DEF OnlyJob, J

-----------------------------------------------------------------------------
(* What a step of a worker may do. *)

Length(j, n) == IF Exists(Part(n, j)) THEN files[Part(n, j)].size ELSE 0

(* A step of worker k closes no other worker's handle, and moves none of   *)
(* another transfer's partial file.                                        *)
HandlesAre(j, k) ==
  /\ open' \in Opens
  /\ \A i \in Job, l \in Slot : i # j \/ l # k =>
       /\ open[i][l] # Closed => open'[i][l] # Closed
       /\ \A n \in Name : i # j /\ open[i][l] = Part(n, i) => open'[i][l] = Part(n, i)

LEMMA FollowedIs ==
  ASSUME TypeInv, NEW j \in Job, NEW from \in Path, NEW to \in Path \cup {Gone},
         \A n \in Name, i \in Job : i # j => Part(n, i) \notin {from, to}
  PROVE  /\ Followed(from, to) \in Opens
         /\ \A i \in Job, l \in Slot :
              /\ open[i][l] # Closed => Followed(from, to)[i][l] # Closed
              /\ \A n \in Name : i # j /\ open[i][l] = Part(n, i) =>
                   Followed(from, to)[i][l] = Part(n, i)
  <1>1. \A i \in Job, l \in Slot :
          Followed(from, to)[i][l] = IF open[i][l] = from THEN to
                                     ELSE IF open[i][l] = to THEN Gone
                                     ELSE open[i][l]
    BY DEF Followed
  <1>2. \A i \in Job, l \in Slot : open[i][l] \in Path \cup {Closed, Gone}
    BY DEF TypeInv, TypeOK
  <1>3. Closed \notin Path /\ Closed # Gone
    BY PathsDiffer DEF Path
  <1>4. Followed(from, to) \in Opens
    BY <1>1, <1>2 DEF Followed, Opens
  <1>. QED  BY <1>1, <1>3, <1>4

LEMMA HandlesMove ==
  ASSUME TypeInv, NEW j \in Job, NEW k \in Slot, NEW h,
         h = open \/ h = Handles(j, k),
         open' = h \/ open' = [h EXCEPT ![j][k] = Closed]
  PROVE  HandlesAre(j, k)
  <1> DEFINE w == workers[j][k]
  <1>1. open \in Opens /\ w.dest \in Name
    BY DEF TypeInv, TypeOK, Opens, WorkerRecord
  <1>2. /\ Part(w.dest, j) \in Path /\ Dest(w.dest) \in Path /\ Backup(w.dest, j) \in Path
        /\ \A n \in Name, i \in Job : i # j =>
             Part(n, i) \notin {Part(w.dest, j), Dest(w.dest), Backup(w.dest, j), Gone}
    BY <1>1, PathsDiffer DEF Path
  <1>3. /\ h \in Opens
        /\ \A i \in Job, l \in Slot :
             /\ open[i][l] # Closed => h[i][l] # Closed
             /\ \A n \in Name : i # j /\ open[i][l] = Part(n, i) => h[i][l] = Part(n, i)
    <2>1. CASE h = open
      BY <1>1, <2>1
    <2>2. CASE h = Handles(j, k) /\ w.pc \in {"promote", "swap"}
      <3>1. h = Followed(Part(w.dest, j), Dest(w.dest))
        BY <2>2 DEF Handles
      <3> HIDE DEF w
      <3>. QED  BY <1>2, <3>1, FollowedIs
    <2>3. CASE h = Handles(j, k) /\ w.pc = "backup"
      <3>1. h = Followed(Dest(w.dest), Backup(w.dest, j))
        BY <2>3 DEF Handles
      <3> HIDE DEF w
      <3>. QED  BY <1>2, <3>1, FollowedIs
    <2>4. CASE h = Handles(j, k) /\ w.pc = "rollback"
      <3>1. h = Followed(Backup(w.dest, j), Dest(w.dest))
        BY <2>4 DEF Handles
      <3> HIDE DEF w
      <3>. QED  BY <1>2, <3>1, FollowedIs
    <2>5. CASE h = Handles(j, k) /\ w.pc = "cleanup"
      <3>1. h = Followed(Backup(w.dest, j), Gone)
        BY <2>5 DEF Handles
      <3> HIDE DEF w
      <3>. QED  BY <1>2, <3>1, FollowedIs
    <2>6. CASE h = Handles(j, k)
               /\ w.pc \notin {"promote", "swap", "backup", "rollback", "cleanup"}
      <3>1. h = open
        BY <2>6 DEF Handles
      <3>. QED  BY <1>1, <3>1
    <2>. QED  BY <2>1, <2>2, <2>3, <2>4, <2>5, <2>6
  <1>4. open' \in Opens
    BY <1>3 DEF Opens
  <1>5. \A i \in Job, l \in Slot : i # j \/ l # k => open'[i][l] = h[i][l]
    BY <1>3 DEF Opens
  <1>. QED  BY <1>3, <1>4, <1>5 DEF HandlesAre

LEMMA HandlesStay ==
  ASSUME TypeInv, NEW j \in Job, NEW k \in Slot, open' = open \/ Closes(j, k)
  PROVE  HandlesAre(j, k)
  BY HandlesMove DEF Closes

(* Where a worker waits for something outside, and works on nothing.       *)
Idle == {"none", "route", "acquire", "sleep"}

Kept ==
  /\ delivered \subseteq delivered' /\ delivered' \subseteq Job
  /\ skipped \subseteq skipped' /\ skipped' \subseteq Job
  /\ mode' = mode /\ pending' \subseteq Job
  /\ {faults', commands', crashes'} \subseteq 0..MaxDisturbances

(* A step of worker k changes nobody else's job or worker; it settles only *)
(* what has happened, and comes to each point from the one before.         *)
StepIs(j, k) ==
  LET old == workers[j][k]
      new == workers'[j][k]
  IN  /\ Only(j, k) /\ Kept /\ jobs' \in J /\ \A i \in Job : i # j => jobs'[i] = jobs[i]
      /\ FilesAre(j, old.pc, old.dest, old.off, Target(j, k)) /\ old.pc # "none"
      /\ HandlesAre(j, k) /\ HandleOK(new.pc, open'[j][k])
      /\ jobs[j].state \in {"Completed", "Cancelled", "removed"} =>
           jobs'[j].state = jobs[j].state
      /\ jobs'[j].state = "Completed" =>
           jobs[j].state = "Completed" \/ old.pc \in {"skip", "finish"}
      /\ new.pc \in Idle =>
           jobs'[j].state # "Running" \/ (old.pc \in Idle /\ jobs' = jobs)
      /\ new.pc = "skip" => j \in skipped'
      /\ new.pc \in {"finish", "cleanup"} => j \in delivered' \/ old.pc = "cleanup"
      /\ new.pc = "length" =>
           /\ old.pc = "open" /\ new.dest = old.dest
           /\ open'[j][k] = Part(old.dest, j) /\ Creates(j, Part(old.dest, j))
      /\ new.pc = "trim" =>
           /\ old.pc = "length" /\ new.dest = old.dest /\ files' = files /\ open' = open
           /\ Exists(open[j][k]) => new.off = files[open[j][k]].size
      /\ new.pc = "check" =>
           \/ /\ old.pc = "plan" /\ ~mode.handle /\ new.dest = jobs[j].dest
              /\ files' = files /\ new.off = Length(j, new.dest)
           \/ /\ old.pc = "trim" /\ new.dest = old.dest /\ new.off = old.off /\ open' = open
              /\ Target(j, k) # Gone => Cuts(Target(j, k), old.off)
           \/ /\ old.pc = "write" /\ new.dest = old.dest /\ new.off = old.off + 1
              /\ open' = open
              /\ Target(j, k) # Gone => Copies(j, Target(j, k), old.off + 1)
      /\ new.pc = "write" =>
           old.pc = "check" /\ new.dest = old.dest /\ new.off = old.off /\ new.off < Chunks
           /\ files' = files /\ open' = open
      /\ new.pc = "commit" =>
           /\ Exists(Part(jobs[j].dest, j)) /\ Verified(files[Part(jobs[j].dest, j)])
           /\ files' = files /\ jobs' = jobs
      /\ new.pc \in {"promote", "backup"} =>
           old.pc = "commit" /\ new.dest = jobs[j].dest /\ files' = files
      /\ new.pc = "swap" =>
           old.pc = "backup" /\ new.dest = old.dest /\ Moves(Dest(old.dest), Backup(old.dest, j))
      /\ new.pc = "cleanup" =>
           old.pc = "swap" /\ new.dest = old.dest /\ Moves(Part(old.dest, j), Dest(old.dest))

LEMMA TypesAre ==
  ASSUME TypeInv, NEW j \in Job, NEW k \in Slot
  PROVE  /\ workers \in W /\ jobs \in J /\ workers[j][k] \in WorkerRecord /\ jobs[j] \in JobRecord
         /\ jobs[j].dest \in Name /\ workers[j][k].dest \in Name /\ workers[j][k].pc \in PC
         /\ workers[j][k].off \in 0..Chunks /\ workers[j][k].err \in Error
         /\ jobs[j].state \in JobState /\ HandleOK(workers[j][k].pc, open[j][k])
         /\ open \in Opens
  BY DEF TypeInv, TypeOK, HandlesOK, Opens, W, J, WorkerRecord, JobRecord

LEMMA KeptIs ==
  ASSUME TypeInv, UNCHANGED <<delivered, skipped, mode, pending, faults, commands, crashes>>
  PROVE  Kept
  BY DEF TypeInv, TypeOK, Kept

LEMMA FaultIs ==
  ASSUME TypeInv, MayDisturb
  PROVE  /\ faults + 1 \in 0..MaxDisturbances /\ commands + 1 \in 0..MaxDisturbances
         /\ crashes + 1 \in 0..MaxDisturbances
  BY ConstantsAssumption DEF TypeInv, TypeOK, MayDisturb

(* A step to a point where the worker holds nothing yet.                   *)
LEMMA QuietStep ==
  ASSUME TypeInv, NEW j \in Job, NEW k \in Slot, Only(j, k), Kept,
         FilesAre(j, workers[j][k].pc, workers[j][k].dest, workers[j][k].off,
                 Target(j, k)),
         workers[j][k].pc # "none", jobs' \in J, \A i \in Job : i # j => jobs'[i] = jobs[i],
         jobs[j].state \in {"Completed", "Cancelled", "removed"} =>
           jobs'[j].state = jobs[j].state,
         jobs'[j].state = "Completed" =>
           jobs[j].state = "Completed" \/ workers[j][k].pc \in {"skip", "finish"},
         workers'[j][k].pc \in Idle =>
           jobs'[j].state # "Running" \/ (workers[j][k].pc \in Idle /\ jobs' = jobs),
         HandlesAre(j, k),
         workers'[j][k].pc \in {"none", "route", "acquire", "conflict", "ask", "rename", "plan",
                                "verify", "rollback", "error", "fail", "sleep"}
  PROVE  StepIs(j, k)
  <1>1. HandleOK(workers'[j][k].pc, open'[j][k])
    BY DEF HandleOK, Copying
  <1>. QED  BY <1>1 DEF StepIs

LEMMA RaiseStep ==
  ASSUME TypeInv, NEW j \in Job, NEW k \in Slot, NEW e \in Error, Raise(j, k, e), Kept,
         FilesAre(j, workers[j][k].pc, workers[j][k].dest, workers[j][k].off,
                 Target(j, k)),
         workers[j][k].pc # "none", jobs' = jobs, HandlesAre(j, k)
  PROVE  StepIs(j, k)
  <1>1. workers \in W /\ jobs \in J
    BY TypesAre
  <1>2. Only(j, k) /\ workers'[j][k].pc \in {"error", "fail"}
    BY <1>1, RaiseIs
  <1>. QED  BY <1>1, <1>2, QuietStep DEF Idle

LEMMA RouteStep ==
  ASSUME TypeInv, NEW j \in Job, NEW k \in Slot, Route(j, k)
  PROVE  StepIs(j, k)
  <1>1. workers \in W /\ jobs \in J /\ jobs' = jobs
    BY TypesAre DEF Route
  <1>2. /\ workers[j][k].pc = "route"
        /\ FilesAre(j, workers[j][k].pc, workers[j][k].dest, workers[j][k].off, Target(j, k))
        /\ HandlesAre(j, k)
    BY EffectIs, HandlesStay DEF Route, At
  <1>3. Kept
    <2>1. pending' \subseteq Job /\ UNCHANGED <<delivered, skipped, mode, faults, commands, crashes>>
      BY DEF Route, TypeInv, TypeOK
    <2>. QED  BY <2>1 DEF TypeInv, TypeOK, Kept
  <1>4. CASE Goto(j, k, "acquire")
    <2>1. "acquire" \in PC
      BY DEF PC
    <2>2. Only(j, k) /\ workers'[j][k].pc = "acquire"
      BY <1>1, <1>4, <2>1, GotoIs
    <2>. QED  BY <1>1, <1>2, <1>3, <2>2, QuietStep DEF Idle
  <1>5. CASE ~Known(j) /\ Ends(j, k)
    <2>1. Only(j, k) /\ workers'[j][k].pc = "none"
      BY <1>1, <1>5, EndsIs
    <2>. QED  BY <1>1, <1>2, <1>3, <2>1, QuietStep DEF Idle
  <1>. QED  BY <1>4, <1>5 DEF Route

LEMMA StartStep ==
  ASSUME TypeInv, NEW j \in Job, NEW k \in Slot, Start(j, k)
  PROVE  StepIs(j, k)
  <1>1. workers \in W /\ jobs \in J /\ jobs[j].state \in JobState
    BY TypesAre
  <1>2. /\ workers[j][k].pc = "acquire" /\ Kept /\ HandlesAre(j, k)
        /\ FilesAre(j, workers[j][k].pc, workers[j][k].dest, workers[j][k].off, Target(j, k))
    <2>1. pending' \subseteq Job /\ UNCHANGED <<delivered, skipped, mode, faults, commands, crashes>>
      BY DEF Start, TypeInv, TypeOK
    <2>2. Kept
      BY <2>1 DEF TypeInv, TypeOK, Kept
    <2>. QED  BY <2>2, EffectIs, HandlesStay DEF Start, At
  <1>3. CASE Known(j)
    <2>1. Goto(j, k, "conflict") /\ "conflict" \in PC
      BY <1>3 DEF Start, PC
    <2>2. Only(j, k) /\ workers'[j][k].pc = "conflict"
      BY <1>1, <2>1, GotoIs
    <2>3. CASE jobs[j].state \in {"Queued", "Interrupted"}
      <3>1. SetState(j, "Running") /\ "Running" \in JobState
        BY <1>3, <2>3 DEF Start, JobState, State
      <3>2. OnlyJob(j) /\ jobs'[j].state = "Running"
        BY <1>1, <3>1, SetStateIs
      <3>. QED  BY <1>2, <2>2, <2>3, <3>2, QuietStep DEF OnlyJob, Idle
    <2>4. CASE jobs' = jobs
      BY <1>1, <1>2, <2>2, <2>4, QuietStep DEF Idle
    <2>. QED  BY <1>3, <2>3, <2>4 DEF Start
  <1>4. CASE ~Known(j)
    <2>1. Ends(j, k) /\ jobs' = jobs
      BY <1>4 DEF Start
    <2>2. Only(j, k) /\ workers'[j][k].pc = "none"
      BY <1>1, <2>1, EndsIs
    <2>. QED  BY <1>1, <1>2, <1>4, <2>1, <2>2, QuietStep DEF Known, Idle
  <1>. QED  BY <1>3, <1>4

LEMMA NoSessionStep ==
  ASSUME TypeInv, NEW j \in Job, NEW k \in Slot, NoSession(j, k)
  PROVE  StepIs(j, k)
  <1>1. faults + 1 \in 0..MaxDisturbances
    BY FaultIs DEF NoSession
  <1>2. /\ workers[j][k].pc = "conflict" /\ Kept /\ HandlesAre(j, k)
        /\ FilesAre(j, workers[j][k].pc, workers[j][k].dest, workers[j][k].off, Target(j, k))
    <2>1. Kept
      BY <1>1 DEF NoSession, Kept, TypeInv, TypeOK
    <2>. QED  BY <2>1, EffectIs, HandlesStay DEF NoSession, At
  <1>3. Raise(j, k, "auth") /\ jobs' = jobs /\ "auth" \in Error
    BY DEF NoSession, Error
  <1>. QED  BY <1>2, <1>3, RaiseStep

LEMMA CheckConflictStep ==
  ASSUME TypeInv, NEW j \in Job, NEW k \in Slot, CheckConflict(j, k)
  PROVE  StepIs(j, k)
  <1> DEFINE n == jobs[j].dest
             free == FirstFree(n)
  <1>1. /\ workers \in W /\ jobs \in J /\ workers[j][k] \in WorkerRecord /\ n \in Name
        /\ jobs' = jobs /\ files' = files
    BY TypesAre DEF CheckConflict
  <1>2. /\ workers[j][k].pc = "conflict" /\ Kept /\ HandlesAre(j, k)
        /\ FilesAre(j, workers[j][k].pc, workers[j][k].dest, workers[j][k].off, Target(j, k))
    <2>1. skipped' \subseteq Job /\ skipped \subseteq skipped'
      BY DEF CheckConflict, TypeInv, TypeOK
    <2>2. UNCHANGED <<delivered, mode, pending, faults, commands, crashes>>
      BY DEF CheckConflict
    <2>3. Kept
      BY <2>1, <2>2 DEF TypeInv, TypeOK, Kept
    <2>. QED  BY <1>1, <2>3, EffectIs, HandlesStay DEF CheckConflict, At
  <1>3. CASE ~Known(j) /\ Raise(j, k, "permanent")
    BY <1>1, <1>2, <1>3, RaiseStep DEF Error
  <1>4. CASE Goto(j, k, "plan")
    <2>1. "plan" \in PC
      BY DEF PC
    <2>2. Only(j, k) /\ workers'[j][k].pc = "plan"
      BY <1>1, <1>4, <2>1, GotoIs
    <2>. QED  BY <1>1, <1>2, <2>2, QuietStep DEF Idle
  <1>5. CASE /\ Known(j) /\ Exists(Dest(n)) /\ jobs[j].policy \in {"ask", "skip"}
             /\ Goto(j, k, jobs[j].policy)
    <2>1. {"ask", "skip"} \subseteq PC
      BY DEF PC
    <2>2. Only(j, k) /\ workers'[j][k].pc = jobs[j].policy
      BY <1>1, <1>5, <2>1, GotoIs
    <2>3. CASE jobs[j].policy = "ask"
      BY <1>1, <1>2, <2>2, <2>3, QuietStep DEF Idle
    <2>4. CASE jobs[j].policy = "skip"
      <3>1. j \in skipped'
        BY <1>5, <2>4 DEF CheckConflict
      <3>. QED  BY <1>1, <1>2, <2>2, <2>4, <3>1 DEF StepIs, HandleOK, Copying, Idle
    <2>. QED  BY <1>5, <2>3, <2>4
  <1>6. CASE /\ Known(j) /\ Exists(Dest(n)) /\ jobs[j].policy = "rename"
             /\ IF free = 0
                THEN Raise(j, k, "permanent")
                ELSE workers' = [workers EXCEPT
                                   ![j][k].pc = "rename",
                                   ![j][k].dest = Numbered[n][free]]
    <2>1. CASE free = 0
      BY <1>1, <1>2, <1>6, <2>1, RaiseStep DEF Error
    <2>2. CASE free # 0
      <3> DEFINE m == Numbered[n][free]
                 w == [workers[j][k] EXCEPT !.pc = "rename", !.dest = m]
      <3>1. m \in Name
        BY <1>1, <2>2, FirstFreeIs
      <3> HIDE DEF m
      <3>2. w \in WorkerRecord /\ w.pc = "rename"
        BY <1>1, <3>1 DEF WorkerRecord, PC
      <3>3. workers' = [workers EXCEPT ![j][k] = w]
        BY <1>1, <1>6, <2>2 DEF m, W
      <3> HIDE DEF w
      <3>4. Only(j, k) /\ workers'[j][k] = w
        BY <1>1, <3>2, <3>3, MoveIs
      <3>. QED  BY <1>1, <1>2, <3>2, <3>4, QuietStep DEF Idle
    <2>. QED  BY <2>1, <2>2
  <1>. QED  BY <1>3, <1>4, <1>5, <1>6 DEF CheckConflict

(* transition() of a worker that is done.                                  *)
LEMMA SettleStep ==
  ASSUME TypeInv, NEW j \in Job, NEW k \in Slot, NEW pc, NEW s \in JobState, Settle(j, k, pc, s),
         pc # "none", s # "Running", s = "Completed" => pc \in {"skip", "finish"}
  PROVE  StepIs(j, k)
  <1>1. workers \in W /\ jobs \in J /\ jobs[j].state \in JobState
    BY TypesAre
  <1>2. /\ workers[j][k].pc = pc /\ Kept
        /\ FilesAre(j, workers[j][k].pc, workers[j][k].dest, workers[j][k].off, Target(j, k))
        /\ HandlesAre(j, k)
    BY KeptIs, EffectIs, HandlesStay DEF Settle, At
  <1>3. CASE SetState(j, s) /\ Ends(j, k) /\ IsValidTransition(jobs[j].state, s)
    <2>1. OnlyJob(j) /\ jobs'[j].state = s
      BY <1>1, <1>3, SetStateIs
    <2>2. Only(j, k) /\ workers'[j][k].pc = "none"
      BY <1>1, <1>3, EndsIs
    <2>3. jobs[j].state \notin {"Completed", "Cancelled", "removed"}
      BY <1>3 DEF IsValidTransition, ValidTransitions
    <2>. QED  BY <1>2, <2>1, <2>2, <2>3, QuietStep DEF OnlyJob, Idle
  <1>4. CASE Raise(j, k, "permanent") /\ jobs' = jobs
    BY <1>2, <1>4, RaiseStep DEF Error
  <1>. QED  BY <1>3, <1>4 DEF Settle

LEMMA SettlingStep ==
  ASSUME TypeInv, NEW j \in Job, NEW k \in Slot, Ask(j, k) \/ Skip(j, k) \/ Finish(j, k)
  PROVE  StepIs(j, k)
  <1>1. {"WaitingForConflict", "Completed"} \subseteq JobState
    BY DEF JobState, State
  <1>2. CASE Ask(j, k)
    BY <1>1, <1>2, SettleStep DEF Ask
  <1>3. CASE Skip(j, k)
    BY <1>1, <1>3, SettleStep DEF Skip
  <1>4. CASE Finish(j, k)
    BY <1>1, <1>4, SettleStep DEF Finish
  <1>. QED  BY <1>2, <1>3, <1>4

LEMMA UpdateDestinationStep ==
  ASSUME TypeInv, NEW j \in Job, NEW k \in Slot, UpdateDestination(j, k)
  PROVE  StepIs(j, k)
  <1>1. workers \in W /\ jobs \in J /\ jobs[j] \in JobRecord /\ workers[j][k].dest \in Name
    BY TypesAre
  <1>2. /\ workers[j][k].pc = "rename" /\ Kept
        /\ FilesAre(j, workers[j][k].pc, workers[j][k].dest, workers[j][k].off, Target(j, k))
        /\ HandlesAre(j, k)
    BY KeptIs, EffectIs, HandlesStay DEF UpdateDestination, At
  <1>3. CASE Known(j)
    <2>1. Goto(j, k, "plan") /\ "plan" \in PC
      BY <1>3 DEF UpdateDestination, PC
    <2>2. Only(j, k) /\ workers'[j][k].pc = "plan"
      BY <1>1, <2>1, GotoIs
    <2> DEFINE r == [jobs[j] EXCEPT !.dest = workers[j][k].dest]
    <2>3. r \in JobRecord /\ r.state = jobs[j].state
      BY <1>1 DEF JobRecord
    <2>4. jobs' = [jobs EXCEPT ![j] = r]
      BY <1>1, <1>3 DEF UpdateDestination, J
    <2> HIDE DEF r
    <2>5. jobs' \in J /\ jobs'[j].state = jobs[j].state /\ \A i \in Job : i # j => jobs'[i] = jobs[i]
      BY <1>1, <2>3, <2>4 DEF J
    <2>. QED  BY <1>2, <2>2, <2>5, QuietStep DEF Idle
  <1>4. CASE Raise(j, k, "permanent") /\ jobs' = jobs
    BY <1>2, <1>4, RaiseStep DEF Error
  <1>. QED  BY <1>3, <1>4 DEF UpdateDestination

LEMMA PlanCopyStep ==
  ASSUME TypeInv, NEW j \in Job, NEW k \in Slot, PlanCopy(j, k)
  PROVE  StepIs(j, k)
  <1>1. /\ workers \in W /\ jobs \in J /\ workers[j][k] \in WorkerRecord
        /\ jobs[j].dest \in Name /\ jobs' = jobs /\ files' = files /\ open' = open
    BY TypesAre DEF PlanCopy
  <1>2. /\ workers[j][k].pc = "plan" /\ Kept
        /\ FilesAre(j, workers[j][k].pc, workers[j][k].dest, workers[j][k].off, Target(j, k))
        /\ HandlesAre(j, k)
    BY KeptIs, EffectIs, HandlesStay DEF PlanCopy, At
  <1>3. CASE Known(j)
    <2> DEFINE n == jobs[j].dest
               p == Part(n, j)
               off == IF Exists(p) /\ ~mode.handle THEN files[p].size ELSE 0
               pc == IF mode.handle THEN "open" ELSE IF off < Chunks THEN "check" ELSE "verify"
               w == [workers[j][k] EXCEPT !.pc = pc, !.dest = n, !.off = off]
    <2>1. off \in 0..Chunks
      <3>1. Exists(p) => files[p].size \in 0..Chunks
        BY DEF TypeInv, TypeOK, Exists, Content
      <3>. QED  BY <3>1, ConstantsAssumption
    <2>2. pc \in PC /\ pc \in {"open", "check", "verify"}
      BY DEF PC
    <2>3. workers' = [workers EXCEPT ![j][k].pc = pc, ![j][k].dest = n, ![j][k].off = off]
      BY <1>3 DEF PlanCopy
    <2>4. /\ pc = "open" => mode.handle
          /\ pc = "check" => ~mode.handle /\ off = Length(j, n)
      BY DEF Length
    <2> HIDE DEF off, pc
    <2>5. w \in WorkerRecord /\ w.pc = pc /\ w.dest = n /\ w.off = off
      BY <1>1, <2>1, <2>2 DEF WorkerRecord
    <2>6. workers' = [workers EXCEPT ![j][k] = w]
      <3> HIDE DEF n
      <3>. QED  BY <1>1, <2>3 DEF W
    <2> HIDE DEF w
    <2>7. Only(j, k) /\ workers'[j][k] = w
      BY <1>1, <2>5, <2>6, MoveIs
    <2>8. HandleOK(w.pc, open'[j][k])
      BY <2>2, <2>4, <2>5 DEF HandleOK, Copying
    <2>9. CASE pc = "open"
      BY <1>1, <1>2, <2>5, <2>7, <2>8, <2>9 DEF StepIs, Idle
    <2>10. CASE pc = "check"
      BY <1>1, <1>2, <2>4, <2>5, <2>7, <2>8, <2>10 DEF StepIs, Idle
    <2>11. CASE pc = "verify"
      BY <1>1, <1>2, <2>5, <2>7, <2>8, <2>11 DEF StepIs, Idle
    <2>. QED  BY <2>2, <2>9, <2>10, <2>11
  <1>4. CASE Raise(j, k, "permanent")
    BY <1>1, <1>2, <1>4, RaiseStep DEF Error
  <1>. QED  BY <1>3, <1>4 DEF PlanCopy

LEMMA OpenPartStep ==
  ASSUME TypeInv, NEW j \in Job, NEW k \in Slot, OpenPart(j, k)
  PROVE  StepIs(j, k)
  <1> DEFINE d == workers[j][k].dest
             h == Part(d, j)
  <1>1. /\ workers \in W /\ jobs \in J /\ jobs' = jobs /\ d \in Name /\ open \in Opens
        /\ workers[j][k].pc = "open" /\ Kept /\ mode.handle
    BY TypesAre, KeptIs DEF OpenPart, At, HandleOK
  <1>2. FilesAre(j, workers[j][k].pc, d, workers[j][k].off, Target(j, k))
    BY <1>1, EffectIs DEF OpenPart, Possible
  <1>3. Creates(j, h)
    <2>1. files' = Opened(h, j)
      BY <1>1 DEF OpenPart, Effect
    <2> HIDE DEF h
    <2>. QED  BY <2>1, OpenIs
  <1>4. open' = [open EXCEPT ![j][k] = h]
    BY DEF OpenPart
  <1>5. h \in Path /\ h # Closed
    BY <1>1, PathsDiffer DEF Path
  <1>6. open'[j][k] = h /\ HandlesAre(j, k)
    <2> HIDE DEF h
    <2>1. /\ open'[j][k] = h /\ open' \in Opens
          /\ \A i \in Job, l \in Slot : i # j \/ l # k => open'[i][l] = open[i][l]
      BY <1>1, <1>4, <1>5 DEF Opens
    <2>. QED  BY <2>1 DEF HandlesAre
  <1>7. Goto(j, k, "length") /\ "length" \in PC
    BY DEF OpenPart, PC
  <1>8. Only(j, k) /\ workers'[j][k].pc = "length" /\ workers'[j][k].dest = d
    BY <1>1, <1>7, GotoIs
  <1>9. HandleOK("length", open'[j][k])
    BY <1>1, <1>5, <1>6 DEF HandleOK
  <1> HIDE DEF d
  <1>. QED  BY <1>1, <1>2, <1>3, <1>6, <1>8, <1>9 DEF StepIs, Idle, d

LEMMA ReadLengthStep ==
  ASSUME TypeInv, NEW j \in Job, NEW k \in Slot, ReadLength(j, k)
  PROVE  StepIs(j, k)
  <1>1. /\ workers \in W /\ jobs \in J /\ jobs' = jobs /\ workers[j][k] \in WorkerRecord
        /\ workers[j][k].pc = "length" /\ Kept /\ HandleOK("length", open[j][k])
        /\ files' = files /\ open' = open /\ HandlesAre(j, k)
        /\ FilesAre(j, workers[j][k].pc, workers[j][k].dest, workers[j][k].off, Target(j, k))
    BY TypesAre, KeptIs, EffectIs, HandlesStay DEF ReadLength, At
  <1>2. PICK off \in 0..Chunks :
          /\ Exists(open[j][k]) => off = files[open[j][k]].size
          /\ workers' = [workers EXCEPT ![j][k].pc = "trim", ![j][k].off = off]
    BY DEF ReadLength
  <1> DEFINE w == [workers[j][k] EXCEPT !.pc = "trim", !.off = off]
  <1>3. w \in WorkerRecord /\ w.pc = "trim" /\ w.dest = workers[j][k].dest /\ w.off = off
    BY <1>1 DEF WorkerRecord, PC
  <1>4. workers' = [workers EXCEPT ![j][k] = w]
    BY <1>1, <1>2 DEF W
  <1> HIDE DEF w
  <1>5. Only(j, k) /\ workers'[j][k] = w
    BY <1>1, <1>3, <1>4, MoveIs
  <1>6. HandleOK("trim", open'[j][k])
    BY <1>1 DEF HandleOK, Copying
  <1>. QED  BY <1>1, <1>2, <1>3, <1>5, <1>6 DEF StepIs, Idle

LEMMA SetLengthStep ==
  ASSUME TypeInv, NEW j \in Job, NEW k \in Slot, SetLength(j, k)
  PROVE  StepIs(j, k)
  <1>1. /\ workers \in W /\ jobs \in J /\ jobs' = jobs /\ workers[j][k] \in WorkerRecord
        /\ workers[j][k].pc = "trim" /\ Kept /\ HandleOK("trim", open[j][k])
    BY TypesAre, KeptIs DEF SetLength, At
  <1>2. /\ FilesAre(j, workers[j][k].pc, workers[j][k].dest, workers[j][k].off, Target(j, k))
        /\ HandlesAre(j, k)
    BY <1>1, EffectIs, HandlesStay DEF SetLength, Possible
  <1>3. Target(j, k) # Gone => Cuts(Target(j, k), workers[j][k].off)
    BY <1>1, CutIs DEF SetLength, Effect
  <1>4. CASE Goto(j, k, "check") /\ open' = open
    <2>1. "check" \in PC
      BY DEF PC
    <2>2. /\ Only(j, k) /\ workers'[j][k].pc = "check"
          /\ workers'[j][k].dest = workers[j][k].dest /\ workers'[j][k].off = workers[j][k].off
      BY <1>1, <1>4, <2>1, GotoIs
    <2>3. HandleOK("check", open'[j][k])
      BY <1>1, <1>4 DEF HandleOK, Copying
    <2>. QED  BY <1>1, <1>2, <1>3, <1>4, <2>2, <2>3 DEF StepIs, Idle
  <1>5. CASE Goto(j, k, "verify")
    <2>1. "verify" \in PC
      BY DEF PC
    <2>2. Only(j, k) /\ workers'[j][k].pc = "verify"
      BY <1>1, <1>5, <2>1, GotoIs
    <2>. QED  BY <1>1, <1>2, <2>2, QuietStep DEF Idle
  <1>. QED  BY <1>4, <1>5 DEF SetLength

LEMMA CheckRunningStep ==
  ASSUME TypeInv, NEW j \in Job, NEW k \in Slot, CheckRunning(j, k)
  PROVE  StepIs(j, k)
  <1>1. /\ workers \in W /\ jobs \in J /\ jobs' = jobs /\ files' = files
        /\ HandleOK(workers[j][k].pc, open[j][k])
    BY TypesAre DEF CheckRunning
  <1>2. /\ workers[j][k].pc = "check" /\ Kept
        /\ FilesAre(j, workers[j][k].pc, workers[j][k].dest, workers[j][k].off, Target(j, k))
        /\ HandlesAre(j, k)
    BY KeptIs, EffectIs, HandlesStay DEF CheckRunning, At
  <1>3. CASE Goto(j, k, "write") /\ workers[j][k].off < Chunks /\ open' = open
    <2>1. "write" \in PC
      BY DEF PC
    <2>2. /\ Only(j, k) /\ workers'[j][k].pc = "write"
          /\ workers'[j][k].dest = workers[j][k].dest /\ workers'[j][k].off = workers[j][k].off
      BY <1>1, <1>3, <2>1, GotoIs
    <2>3. HandleOK("write", open'[j][k])
      BY <1>1, <1>2, <1>3 DEF HandleOK, Copying
    <2>. QED  BY <1>1, <1>2, <1>3, <2>2, <2>3 DEF StepIs, Idle
  <1>4. CASE Goto(j, k, "verify")
    <2>1. "verify" \in PC
      BY DEF PC
    <2>2. Only(j, k) /\ workers'[j][k].pc = "verify"
      BY <1>1, <1>4, <2>1, GotoIs
    <2>. QED  BY <1>1, <1>2, <2>2, QuietStep DEF Idle
  <1>5. CASE Raise(j, k, "permanent")
    BY <1>1, <1>2, <1>5, RaiseStep DEF Error
  <1>. QED  BY <1>3, <1>4, <1>5 DEF CheckRunning

LEMMA WriteChunkStep ==
  ASSUME TypeInv, NEW j \in Job, NEW k \in Slot, WriteChunk(j, k)
  PROVE  StepIs(j, k)
  <1>1. /\ workers \in W /\ jobs \in J /\ workers[j][k] \in WorkerRecord /\ jobs' = jobs
        /\ workers[j][k].pc = "write" /\ workers[j][k].off < Chunks /\ Kept
        /\ workers[j][k].off \in 0..Chunks /\ open' = open
        /\ HandleOK("write", open[j][k])
    BY TypesAre, KeptIs DEF WriteChunk, At, TypeInv, OffsetOK
  <1>2. /\ FilesAre(j, "write", workers[j][k].dest, workers[j][k].off, Target(j, k))
        /\ HandlesAre(j, k)
    BY <1>1, EffectIs, HandlesStay DEF WriteChunk, Possible
  <1> DEFINE off == workers[j][k].off + 1
             w == [workers[j][k] EXCEPT !.pc = "check", !.off = off]
  <1>3. Target(j, k) # Gone => Copies(j, Target(j, k), off)
    <2>1. Target(j, k) # Gone => files' = Written(Target(j, k), j, off)
      BY <1>1 DEF WriteChunk, Effect
    <2> HIDE DEF off
    <2>. QED  BY <2>1, WriteIs
  <1>4. off \in 0..Chunks
    BY <1>1, ConstantsAssumption
  <1>5. w \in WorkerRecord /\ w.pc = "check" /\ w.dest = workers[j][k].dest /\ w.off = off
    BY <1>1, <1>4 DEF WorkerRecord, PC
  <1>6. workers' = [workers EXCEPT ![j][k] = w]
    BY <1>1 DEF WriteChunk, W
  <1> HIDE DEF w
  <1>7. Only(j, k) /\ workers'[j][k] = w
    BY <1>1, <1>5, <1>6, MoveIs
  <1>8. HandleOK("check", open'[j][k])
    BY <1>1 DEF HandleOK, Copying
  <1>. QED  BY <1>1, <1>2, <1>3, <1>5, <1>7, <1>8 DEF StepIs, Idle

LEMMA VerifyStep ==
  ASSUME TypeInv, NEW j \in Job, NEW k \in Slot, Verify(j, k)
  PROVE  StepIs(j, k)
  <1>1. /\ workers \in W /\ jobs \in J /\ workers[j][k] \in WorkerRecord
        /\ jobs' = jobs /\ files' = files
    BY TypesAre DEF Verify
  <1>2. /\ workers[j][k].pc = "verify" /\ Kept
        /\ FilesAre(j, workers[j][k].pc, workers[j][k].dest, workers[j][k].off, Target(j, k))
        /\ HandlesAre(j, k)
    BY KeptIs, EffectIs, HandlesStay DEF Verify, At
  <1>3. CASE /\ Exists(Part(jobs[j].dest, j)) /\ Verified(files[Part(jobs[j].dest, j)])
             /\ workers' = [workers EXCEPT ![j][k].pc = "commit", ![j][k].off = 0]
    <2> DEFINE w == [workers[j][k] EXCEPT !.pc = "commit", !.off = 0]
    <2>1. w \in WorkerRecord /\ w.pc = "commit"
      <3>1. 0 \in 0..Chunks /\ "commit" \in PC
        BY ConstantsAssumption DEF PC
      <3>. QED  BY <1>1, <3>1 DEF WorkerRecord
    <2>2. workers' = [workers EXCEPT ![j][k] = w]
      BY <1>1, <1>3 DEF W
    <2> HIDE DEF w
    <2>3. Only(j, k) /\ workers'[j][k] = w
      BY <1>1, <2>1, <2>2, MoveIs
    <2>. QED  BY <1>1, <1>2, <1>3, <2>1, <2>3 DEF StepIs, HandleOK, Copying, Idle
  <1>4. ASSUME NEW e \in Error, Raise(j, k, e)
        PROVE  StepIs(j, k)
    BY <1>1, <1>2, <1>4, RaiseStep
  <1>5. Refusal \in Error /\ "permanent" \in Error
    BY DEF Refusal, Error
  <1>. QED  BY <1>3, <1>4, <1>5 DEF Verify

LEMMA CommitStarts ==
  ASSUME TypeInv, NEW j \in Job, NEW k \in Slot, Commit(j, k)
  PROVE  StepIs(j, k)
  <1>1. /\ workers \in W /\ jobs \in J /\ workers[j][k] \in WorkerRecord
        /\ jobs[j].dest \in Name /\ jobs' = jobs /\ files' = files
    BY TypesAre DEF Commit
  <1>2. /\ workers[j][k].pc = "commit" /\ Kept
        /\ FilesAre(j, workers[j][k].pc, workers[j][k].dest, workers[j][k].off, Target(j, k))
        /\ HandlesAre(j, k)
    BY KeptIs, EffectIs, HandlesStay DEF Commit, At
  <1>3. CASE Known(j)
    <2> DEFINE pc == IF Exists(Dest(jobs[j].dest)) THEN "backup" ELSE "promote"
               w == [workers[j][k] EXCEPT !.pc = pc, !.dest = jobs[j].dest]
    <2>1. pc \in {"backup", "promote"} /\ pc \in PC
      BY DEF PC
    <2>2. workers' = [workers EXCEPT ![j][k] = w]
      BY <1>1, <1>3 DEF Commit, W
    <2> HIDE DEF pc
    <2>3. w \in WorkerRecord /\ w.pc = pc /\ w.dest = jobs[j].dest
      BY <1>1, <2>1 DEF WorkerRecord
    <2> HIDE DEF w
    <2>4. Only(j, k) /\ workers'[j][k] = w
      BY <1>1, <2>2, <2>3, MoveIs
    <2>. QED  BY <1>1, <1>2, <2>1, <2>3, <2>4 DEF StepIs, HandleOK, Copying, Idle
  <1>4. CASE Raise(j, k, "permanent")
    BY <1>1, <1>2, <1>4, RaiseStep DEF Error
  <1>. QED  BY <1>3, <1>4 DEF Commit

(* A rename or a removal of the commit succeeds.                           *)
LEMMA CommitGoesOn ==
  ASSUME TypeInv, NEW j \in Job, NEW k \in Slot, NEW pc \in PC, NEW next \in PC,
         CommitStep(j, k, pc, next)
  PROVE  /\ workers[j][k].pc = pc /\ jobs' = jobs /\ jobs' \in J
         /\ Only(j, k) /\ workers'[j][k].pc = next /\ workers'[j][k].dest = workers[j][k].dest
         /\ FilesAre(j, workers[j][k].pc, workers[j][k].dest, workers[j][k].off, Target(j, k))
         /\ HandlesAre(j, k)
         /\ files' = Effect(j, k) /\ Possible(j, k)
         /\ UNCHANGED <<skipped, mode, pending, faults, commands, crashes>>
  <1>1. workers \in W /\ jobs \in J
    BY TypesAre
  <1>2. /\ workers[j][k].pc = pc /\ jobs' = jobs /\ files' = Effect(j, k) /\ Possible(j, k)
        /\ open' = Handles(j, k) /\ Goto(j, k, next)
        /\ UNCHANGED <<skipped, mode, pending, faults, commands, crashes>>
    BY DEF CommitStep, At
  <1>. QED  BY <1>1, <1>2, GotoIs, EffectIs, HandlesMove

LEMMA DeliveryIsKept ==
  ASSUME TypeInv, NEW j \in Job, delivered' \in {delivered, delivered \cup {j}},
         UNCHANGED <<skipped, mode, pending, faults, commands, crashes>>
  PROVE  Kept
  BY DEF TypeInv, TypeOK, Kept

LEMMA PromotionStep ==
  ASSUME TypeInv, NEW j \in Job, NEW k \in Slot,
         Promote(j, k) \/ MoveAside(j, k) \/ Swap(j, k) \/ CleanUp(j, k)
  PROVE  StepIs(j, k)
  <1>1. {"promote", "finish", "backup", "swap", "cleanup"} \subseteq PC
    BY DEF PC
  <1>2. CASE Promote(j, k)
    <2>1. CommitStep(j, k, "promote", "finish") /\ delivered' = delivered \cup {j}
      BY <1>2 DEF Promote
    <2>2. /\ workers[j][k].pc = "promote" /\ jobs' = jobs /\ jobs' \in J
          /\ Only(j, k) /\ workers'[j][k].pc = "finish"
          /\ FilesAre(j, workers[j][k].pc, workers[j][k].dest, workers[j][k].off, Target(j, k))
         /\ HandlesAre(j, k)
          /\ UNCHANGED <<skipped, mode, pending, faults, commands, crashes>>
      BY <1>1, <2>1, CommitGoesOn
    <2>3. Kept
      BY <2>1, <2>2, DeliveryIsKept
    <2>. QED  BY <2>1, <2>2, <2>3 DEF StepIs, HandleOK, Copying, Idle
  <1>3. CASE MoveAside(j, k)
    <2>1. CommitStep(j, k, "backup", "swap") /\ delivered' = delivered
      BY <1>3 DEF MoveAside
    <2>2. /\ workers[j][k].pc = "backup" /\ jobs' = jobs /\ jobs' \in J
          /\ Only(j, k) /\ workers'[j][k].pc = "swap"
          /\ workers'[j][k].dest = workers[j][k].dest
          /\ FilesAre(j, workers[j][k].pc, workers[j][k].dest, workers[j][k].off, Target(j, k))
         /\ HandlesAre(j, k)
          /\ files' = Effect(j, k) /\ Possible(j, k)
          /\ UNCHANGED <<skipped, mode, pending, faults, commands, crashes>>
      BY <1>1, <2>1, CommitGoesOn
    <2>3. Kept
      BY <2>1, <2>2, DeliveryIsKept
    <2>4. Moves(Dest(workers[j][k].dest), Backup(workers[j][k].dest, j))
      <3>1. /\ CanRename(Dest(workers[j][k].dest), Backup(workers[j][k].dest, j))
            /\ files' = Renamed(Dest(workers[j][k].dest), Backup(workers[j][k].dest, j))
        BY <2>2 DEF Effect, Possible
      <3>. QED  BY <3>1, RenameMoves, PathsDiffer
    <2>. QED  BY <2>2, <2>3, <2>4 DEF StepIs, HandleOK, Copying, Idle
  <1>4. CASE Swap(j, k)
    <2>1. CommitStep(j, k, "swap", "cleanup") /\ delivered' = delivered \cup {j}
      BY <1>4 DEF Swap
    <2>2. /\ workers[j][k].pc = "swap" /\ jobs' = jobs /\ jobs' \in J
          /\ Only(j, k) /\ workers'[j][k].pc = "cleanup"
          /\ workers'[j][k].dest = workers[j][k].dest
          /\ FilesAre(j, workers[j][k].pc, workers[j][k].dest, workers[j][k].off, Target(j, k))
         /\ HandlesAre(j, k)
          /\ files' = Effect(j, k) /\ Possible(j, k)
          /\ UNCHANGED <<skipped, mode, pending, faults, commands, crashes>>
      BY <1>1, <2>1, CommitGoesOn
    <2>3. Kept
      BY <2>1, <2>2, DeliveryIsKept
    <2>4. Moves(Part(workers[j][k].dest, j), Dest(workers[j][k].dest))
      <3>1. /\ CanRename(Part(workers[j][k].dest, j), Dest(workers[j][k].dest))
            /\ files' = Renamed(Part(workers[j][k].dest, j), Dest(workers[j][k].dest))
        BY <2>2 DEF Effect, Possible
      <3>. QED  BY <3>1, RenameMoves, PathsDiffer
    <2>. QED  BY <2>1, <2>2, <2>3, <2>4 DEF StepIs, HandleOK, Copying, Idle
  <1>5. CASE CleanUp(j, k)
    <2>1. CommitStep(j, k, "cleanup", "finish") /\ delivered' = delivered
      BY <1>5 DEF CleanUp
    <2>2. /\ workers[j][k].pc = "cleanup" /\ jobs' = jobs /\ jobs' \in J
          /\ Only(j, k) /\ workers'[j][k].pc = "finish"
          /\ FilesAre(j, workers[j][k].pc, workers[j][k].dest, workers[j][k].off, Target(j, k))
         /\ HandlesAre(j, k)
          /\ UNCHANGED <<skipped, mode, pending, faults, commands, crashes>>
      BY <1>1, <2>1, CommitGoesOn
    <2>3. Kept
      BY <2>1, <2>2, DeliveryIsKept
    <2>. QED  BY <2>2, <2>3 DEF StepIs, HandleOK, Copying, Idle
  <1>. QED  BY <1>2, <1>3, <1>4, <1>5

LEMMA FailingStep ==
  ASSUME TypeInv, NEW j \in Job, NEW k \in Slot, Refused(j, k) \/ RollBack(j, k) \/ Fault(j, k)
  PROVE  StepIs(j, k)
  <1>1. workers \in W /\ jobs \in J /\ jobs' = jobs /\ workers[j][k].err \in Error
    BY TypesAre DEF Refused, RollBack, Fault
  <1>2. CASE Refused(j, k)
    <2>1. Refusal \in Error /\ workers' = AfterError(j, k, Refusal)
      BY <1>2 DEF Refusal, Error, Refused
    <2>2. Only(j, k) /\ workers'[j][k].pc \in {"error", "fail", "rollback"}
      BY <1>1, <2>1, AfterErrorIs
    <2>3. /\ workers[j][k].pc # "none" /\ Kept /\ HandlesAre(j, k)
          /\ FilesAre(j, workers[j][k].pc, workers[j][k].dest, workers[j][k].off, Target(j, k))
      BY <1>2, KeptIs, EffectIs, HandlesStay DEF Refused
    <2>. QED  BY <1>1, <2>2, <2>3, QuietStep DEF Idle
  <1>3. CASE RollBack(j, k)
    <2>1. Raise(j, k, workers[j][k].err) /\ workers[j][k].pc = "rollback"
      BY <1>3 DEF RollBack, At
    <2>2. files' = files \/ (Possible(j, k) /\ files' = Effect(j, k))
      BY <1>3 DEF RollBack
    <2>3. FilesAre(j, workers[j][k].pc, workers[j][k].dest, workers[j][k].off, Target(j, k))
      BY <2>2, EffectIs
    <2>4. Kept
      <3>1. faults' = faults \/ (MayDisturb /\ faults' = faults + 1)
        BY <1>3 DEF RollBack
      <3>2. faults' \in 0..MaxDisturbances
        BY <3>1, FaultIs DEF TypeInv, TypeOK
      <3>. QED  BY <1>3, <3>2 DEF RollBack, Kept, TypeInv, TypeOK
    <2>5. HandlesAre(j, k)
      <3>1. open' = open \/ open' = Handles(j, k)
        BY <1>3 DEF RollBack
      <3>. QED  BY <3>1, HandlesMove
    <2>. QED  BY <1>1, <2>1, <2>3, <2>4, <2>5, RaiseStep
  <1>4. CASE Fault(j, k)
    <2>1. PICK e \in Error : workers' = AfterError(j, k, e)
      BY <1>4 DEF Fault
    <2>2. Only(j, k) /\ workers'[j][k].pc \in {"error", "fail", "rollback"}
      BY <1>1, <2>1, AfterErrorIs
    <2>3. files' = files \/ (Possible(j, k) /\ files' = Effect(j, k))
      BY <1>4 DEF Fault
    <2>4. FilesAre(j, workers[j][k].pc, workers[j][k].dest, workers[j][k].off, Target(j, k))
      BY <2>3, EffectIs
    <2>5. Kept /\ workers[j][k].pc # "none"
      <3>1. faults' \in 0..MaxDisturbances
        BY <1>4, FaultIs DEF Fault
      <3>2. delivered' \in {delivered, delivered \cup {j}}
        BY <1>4 DEF Fault
      <3>. QED  BY <1>4, <3>1, <3>2 DEF Fault, Kept, TypeInv, TypeOK
    <2>6. HandlesAre(j, k)
      <3>1. Closes(j, k) \/ open' = [Handles(j, k) EXCEPT ![j][k] = Closed]
        BY <1>4 DEF Fault
      <3>. QED  BY <3>1, HandlesMove DEF Closes
    <2>7. workers'[j][k].pc \notin Idle
      BY <2>2 DEF Idle
    <2>. QED  BY <1>1, <2>2, <2>4, <2>5, <2>6, <2>7, QuietStep
  <1>. QED  BY <1>2, <1>3, <1>4

LEMMA RetryingStep ==
  ASSUME TypeInv, NEW j \in Job, NEW k \in Slot,
         PrepareRetry(j, k) \/ Fail(j, k) \/ Reconnect(j, k) \/ ReconnectRefused(j, k)
  PROVE  StepIs(j, k)
  <1>1. /\ workers \in W /\ jobs \in J /\ jobs[j] \in JobRecord /\ jobs[j].state \in JobState
        /\ files' = files
    BY TypesAre DEF PrepareRetry, Fail, Reconnect, ReconnectRefused
  <1>2. /\ FilesAre(j, workers[j][k].pc, workers[j][k].dest, workers[j][k].off, Target(j, k))
        /\ workers[j][k].pc \in {"error", "fail", "sleep"} /\ HandlesAre(j, k)
    BY <1>1, EffectIs, HandlesStay DEF PrepareRetry, Fail, Reconnect, ReconnectRefused, At
  <1>3. Kept
    <2>1. faults' = faults \/ (MayDisturb /\ faults' = faults + 1)
      BY DEF PrepareRetry, Fail, Reconnect, ReconnectRefused
    <2>2. faults' \in 0..MaxDisturbances
      BY <2>1, FaultIs DEF TypeInv, TypeOK
    <2>3. UNCHANGED <<delivered, skipped, mode, pending, commands, crashes>>
      BY DEF PrepareRetry, Fail, Reconnect, ReconnectRefused
    <2>. QED  BY <2>2, <2>3 DEF Kept, TypeInv, TypeOK
  <1>4. CASE PrepareRetry(j, k)
    <2>1. Only(j, k) /\ workers'[j][k].pc \in {"sleep", "fail"}
      <3>1. {"sleep", "fail"} \subseteq PC
        BY DEF PC
      <3>2. CASE Goto(j, k, "fail")
        BY <1>1, <3>1, <3>2, GotoIs
      <3>3. CASE workers' = [workers EXCEPT ![j][k] = [NoWorker(j) EXCEPT !.pc = "sleep"]]
        <4>1. PICK v : v = [NoWorker(j) EXCEPT !.pc = "sleep"]
          OBVIOUS
        <4>2. v \in WorkerRecord /\ v.pc = "sleep"
          BY <3>1, <4>1, NoWorkerIs
        <4>3. workers' = [workers EXCEPT ![j][k] = v]
          BY <3>3, <4>1
        <4>. QED  BY <1>1, <4>2, <4>3, MoveIs
      <3>. QED  BY <1>4, <3>2, <3>3 DEF PrepareRetry
    <2>2. CASE jobs[j].state = "Running" /\ jobs[j].retries < RetryLimit
      <3> DEFINE r == [jobs[j] EXCEPT !.state = "Interrupted", !.retries = jobs[j].retries + 1]
      <3>1. jobs' = [jobs EXCEPT ![j] = r]
        BY <1>1, <1>4, <2>2 DEF PrepareRetry, J
      <3>2. jobs[j].retries + 1 \in 0..RetryLimit
        BY <1>1, <2>2, ConstantsAssumption DEF JobRecord
      <3>3. r \in JobRecord /\ r.state = "Interrupted"
        BY <1>1, <3>2 DEF JobRecord, JobState, State
      <3> HIDE DEF r
      <3>4. /\ jobs' \in J /\ jobs'[j].state = "Interrupted"
            /\ \A i \in Job : i # j => jobs'[i] = jobs[i]
        BY <1>1, <3>1, <3>3 DEF J
      <3>. QED  BY <1>2, <1>3, <2>1, <2>2, <3>4, QuietStep DEF Idle
    <2>3. CASE ~(jobs[j].state = "Running" /\ jobs[j].retries < RetryLimit)
      <3>1. jobs' = jobs /\ Goto(j, k, "fail") /\ "fail" \in PC
        BY <1>4, <2>3 DEF PrepareRetry, PC
      <3>2. workers'[j][k].pc = "fail"
        BY <1>1, <3>1, GotoIs
      <3>3. workers'[j][k].pc \notin Idle
        BY <3>2 DEF Idle
      <3>. QED  BY <1>1, <1>2, <1>3, <2>1, <3>1, <3>2, <3>3, QuietStep
    <2>. QED  BY <2>2, <2>3
  <1>5. CASE Fail(j, k)
    <2>1. Only(j, k) /\ workers'[j][k].pc = "none"
      BY <1>1, <1>5, EndsIs DEF Fail
    <2>2. CASE jobs[j].state \in {"Running", "Interrupted"}
      <3>1. PICK s \in {"WaitingForAuthentication", "Failed"} : SetState(j, s)
        BY <1>5, <2>2 DEF Fail
      <3>2. s \in JobState
        BY DEF JobState, State
      <3>3. OnlyJob(j) /\ jobs'[j].state = s
        BY <1>1, <3>1, <3>2, SetStateIs
      <3>. QED  BY <1>2, <1>3, <2>1, <2>2, <3>3, QuietStep DEF OnlyJob, Idle
    <2>3. CASE jobs[j].state \notin {"Running", "Interrupted"}
      <3>1. jobs' = jobs
        BY <1>5, <2>3 DEF Fail
      <3>. QED  BY <1>1, <1>2, <1>3, <2>1, <2>3, <3>1, QuietStep DEF Idle
    <2>. QED  BY <2>2, <2>3
  <1>6. CASE Reconnect(j, k)
    <2>1. jobs' = jobs
      BY <1>6 DEF Reconnect
    <2>2. CASE workers[j][k].pc = "sleep" /\ Goto(j, k, "route")
      <3>1. "route" \in PC
        BY DEF PC
      <3>2. Only(j, k) /\ workers'[j][k].pc = "route"
        BY <1>1, <2>2, <3>1, GotoIs
      <3>3. workers[j][k].pc \in Idle
        BY <2>2 DEF Idle
      <3>. QED  BY <1>1, <1>2, <1>3, <2>1, <3>2, <3>3, QuietStep
    <2>3. CASE ~Known(j) /\ Ends(j, k)
      <3>1. Only(j, k) /\ workers'[j][k].pc = "none" /\ jobs[j].state # "Running"
        BY <1>1, <2>3, EndsIs DEF Known
      <3>. QED  BY <1>1, <1>2, <1>3, <2>1, <3>1, QuietStep DEF Idle
    <2>. QED  BY <1>6, <2>2, <2>3 DEF Reconnect, At
  <1>7. CASE ReconnectRefused(j, k)
    <2>1. PICK e \in {"permanent", "auth"} : Raise(j, k, e)
      BY <1>7 DEF ReconnectRefused
    <2>2. e \in Error /\ jobs' = jobs
      BY <1>7 DEF Error, ReconnectRefused
    <2>. QED  BY <1>2, <1>3, <2>1, <2>2, RaiseStep
  <1>. QED  BY <1>4, <1>5, <1>6, <1>7

LEMMA WorkerStepIs ==
  ASSUME TypeInv, NEW j \in Job, NEW k \in Slot, WorkerStep(j, k)
  PROVE  StepIs(j, k)
  BY StartStep, RouteStep, NoSessionStep, CheckConflictStep, SettlingStep, UpdateDestinationStep,
     PlanCopyStep, OpenPartStep, ReadLengthStep, SetLengthStep, CheckRunningStep, WriteChunkStep, VerifyStep, CommitStarts, PromotionStep,
     FailingStep, RetryingStep DEF WorkerStep, Works

-----------------------------------------------------------------------------
(* What a command of the user, or a restart, may do. *)

CommandIs ==
  /\ jobs' \in J /\ workers' \in W /\ open' \in Opens /\ pending' \subseteq Job
  /\ UNCHANGED <<files, delivered, skipped, mode>>
  /\ {faults', commands', crashes'} \subseteq 0..MaxDisturbances
  /\ \A j \in Job :
       /\ jobs'[j].dest = jobs[j].dest
       /\ jobs[j].state \in {"Completed", "Cancelled"} =>
            jobs'[j].state \in {jobs[j].state, "removed"}
       /\ jobs[j].state = "removed" => jobs'[j].state = "removed"
       /\ jobs'[j].state = "Completed" => jobs[j].state = "Completed"
       /\ jobs'[j].state = "Running" =>
            jobs[j].state = "Running" /\ \A k \in Slot : workers'[j][k] = workers[j][k]
       /\ \A k \in Slot :
            \/ workers'[j][k] = workers[j][k] /\ open'[j][k] = open[j][k]
            \/ workers'[j][k].pc \in {"none", "route"}

LEMMA SpawnedIs ==
  ASSUME workers \in W, NEW S \in SUBSET Job
  PROVE  /\ Spawned(S) \in W
         /\ \A j \in Job, k \in Slot :
              /\ Spawned(S)[j][k] = workers[j][k] \/ Spawned(S)[j][k].pc = "route"
              /\ j \notin S => Spawned(S)[j][k] = workers[j][k]
  <1> DEFINE new(j) == [NoWorker(j) EXCEPT !.pc = "route"]
  <1>1. "route" \in PC
    BY DEF PC
  <1>2. \A j \in Job : new(j) \in WorkerRecord /\ new(j).pc = "route"
    BY <1>1, NoWorkerIs
  <1> HIDE DEF new
  <1>3. Spawned(S) = [j \in Job |-> IF j \in S THEN [workers[j] EXCEPT ![FreeSlot(j)] = new(j)]
                                    ELSE workers[j]]
    BY DEF Spawned, new
  <1>4. ASSUME NEW j \in Job
        PROVE  /\ Spawned(S)[j] \in [Slot -> WorkerRecord]
               /\ \A k \in Slot :
                    /\ Spawned(S)[j][k] = workers[j][k] \/ Spawned(S)[j][k].pc = "route"
                    /\ j \notin S => Spawned(S)[j][k] = workers[j][k]
    <2>1. workers[j] \in [Slot -> WorkerRecord]
      BY DEF W
    <2>. QED  BY <1>2, <1>3, <2>1
  <1>5. Spawned(S) \in W
    BY <1>3, <1>4 DEF W
  <1>. QED  BY <1>4, <1>5

(* Commands that leave the workers alone or spawn some.                    *)
LEMMA ListStep ==
  ASSUME TypeInv, NEW S \in SUBSET Job, workers' = workers \/ workers' = Spawned(S),
         jobs' \in J, UNCHANGED <<files, delivered, skipped, mode, open, pending>>,
         {faults', commands', crashes'} \subseteq 0..MaxDisturbances,
         \A j \in Job : jobs'[j].dest = jobs[j].dest, \A j \in S : jobs'[j].state # "Running",
         \A j \in Job : jobs'[j].state = jobs[j].state \/ jobs'[j].state = "removed"
           \/ /\ jobs[j].state \notin {"Completed", "Cancelled", "removed"}
              /\ jobs'[j].state \notin {"Completed", "Running"}
  PROVE  CommandIs
  <1>1. workers \in W /\ open' \in Opens /\ pending' \subseteq Job
    BY DEF TypeInv, TypeOK, W, Opens
  <1>2. /\ workers' \in W
        /\ \A j \in Job, k \in Slot :
             /\ workers'[j][k] = workers[j][k] \/ workers'[j][k].pc = "route"
             /\ j \notin S => workers'[j][k] = workers[j][k]
    BY <1>1, SpawnedIs
  <1>. QED  BY <1>1, <1>2 DEF CommandIs

LEMMA CountersAre ==
  ASSUME TypeInv, UNCHANGED <<faults, crashes>>, commands' = commands \/ Command
  PROVE  {faults', commands', crashes'} \subseteq 0..MaxDisturbances
  BY FaultIs DEF Command, TypeInv, TypeOK

LEMMA EnqueueStep ==
  ASSUME TypeInv, NEW j \in Job, Enqueue(j)
  PROVE  CommandIs
  <1>1. jobs \in J /\ "Queued" \in JobState
    BY DEF TypeInv, TypeOK, J, JobState, State
  <1>2. OnlyJob(j) /\ jobs'[j].state = "Queued" /\ jobs[j].state = "unknown"
    BY <1>1, SetStateIs DEF Enqueue
  <1>3. {faults', commands', crashes'} \subseteq 0..MaxDisturbances
    BY CountersAre DEF Enqueue
  <1>4. /\ UNCHANGED <<files, delivered, skipped, mode, open, pending>> /\ workers' = Spawned({j})
        /\ {j} \in SUBSET Job
    BY DEF Enqueue
  <1>5. /\ jobs' \in J /\ \A i \in Job : jobs'[i].dest = jobs[i].dest
        /\ \A i \in Job : jobs'[i].state = jobs[i].state \/ jobs'[i].state = "removed"
             \/ /\ jobs[i].state \notin {"Completed", "Cancelled", "removed"}
                /\ jobs'[i].state \notin {"Completed", "Running"}
    BY <1>2 DEF OnlyJob
  <1>6. \A i \in {j} : jobs'[i].state # "Running"
    BY <1>2
  <1>. QED  BY <1>3, <1>4, <1>5, <1>6, ListStep

LEMMA ControlStep ==
  ASSUME TypeInv, NEW j \in Job, Pause(j) \/ Cancel(j) \/ Requeue(j)
  PROVE  CommandIs
  <1>1. jobs \in J /\ {"Queued", "Paused", "Cancelled"} \subseteq JobState
    BY DEF TypeInv, TypeOK, J, JobState, State
  <1>2. PICK s \in {"Queued", "Paused", "Cancelled"} :
          SetState(j, s) /\ IsValidTransition(jobs[j].state, s)
    BY DEF Pause, Cancel, Stop, Requeue
  <1>3. jobs[j].state \notin {"Completed", "Cancelled", "removed"}
    BY <1>2 DEF IsValidTransition, ValidTransitions
  <1>4. OnlyJob(j) /\ jobs'[j].state = s
    BY <1>1, <1>2, SetStateIs
  <1>5. {faults', commands', crashes'} \subseteq 0..MaxDisturbances
    BY CountersAre DEF Pause, Cancel, Stop, Requeue
  <1>6. /\ UNCHANGED <<files, delivered, skipped, mode, open, pending>> /\ {j} \in SUBSET Job
        /\ workers' = workers \/ workers' = Spawned({j})
    BY DEF Pause, Cancel, Stop, Requeue
  <1>7. /\ jobs' \in J /\ \A i \in Job : jobs'[i].dest = jobs[i].dest
        /\ \A i \in Job : jobs'[i].state = jobs[i].state \/ jobs'[i].state = "removed"
             \/ /\ jobs[i].state \notin {"Completed", "Cancelled", "removed"}
                /\ jobs'[i].state \notin {"Completed", "Running"}
    BY <1>3, <1>4 DEF OnlyJob
  <1>8. \A i \in {j} : jobs'[i].state # "Running"
    BY <1>4
  <1>. QED  BY <1>5, <1>6, <1>7, <1>8, ListStep

LEMMA ResolveStep ==
  ASSUME TypeInv, NEW j \in Job, Resolve(j)
  PROVE  CommandIs
  <1>1. jobs \in J
    BY DEF TypeInv, TypeOK, J
  <1>2. PICK p \in Policy \ {"ask"}, targets \in SUBSET Job, woken \in SUBSET Job :
          /\ \A i \in woken : jobs[i].state = "WaitingForConflict"
          /\ jobs' = [i \in Job |->
                        [jobs[i] EXCEPT
                           !.policy = IF i \in targets THEN p ELSE @,
                           !.state = IF i \in woken THEN "Queued" ELSE @]]
          /\ workers' = Spawned(woken)
    <2>1. PICK p \in Policy \ {"ask"}, batch \in BOOLEAN :
            LET targets == {i \in Job : \/ i = j
                                        \/ /\ batch /\ BatchOf[i] = BatchOf[j]
                                           /\ Known(i) /\ ~IsTerminal(jobs[i].state)}
                woken == {i \in targets : jobs[i].state = "WaitingForConflict"}
            IN  /\ jobs' = [i \in Job |->
                              [jobs[i] EXCEPT
                                 !.policy = IF i \in targets THEN p ELSE @,
                                 !.state = IF i \in woken THEN "Queued" ELSE @]]
                /\ workers' = Spawned(woken)
      BY DEF Resolve
    <2> DEFINE targets == {i \in Job : \/ i = j
                                       \/ /\ batch /\ BatchOf[i] = BatchOf[j]
                                          /\ Known(i) /\ ~IsTerminal(jobs[i].state)}
               woken == {i \in targets : jobs[i].state = "WaitingForConflict"}
    <2>2. /\ targets \in SUBSET Job /\ woken \in SUBSET Job
          /\ \A i \in woken : jobs[i].state = "WaitingForConflict"
      OBVIOUS
    <2>3. /\ jobs' = [i \in Job |->
                        [jobs[i] EXCEPT
                           !.policy = IF i \in targets THEN p ELSE @,
                           !.state = IF i \in woken THEN "Queued" ELSE @]]
          /\ workers' = Spawned(woken)
      BY <2>1
    <2> HIDE DEF targets, woken
    <2>. QED  BY <2>2, <2>3
  <1>3. ASSUME NEW i \in Job
        PROVE  /\ jobs'[i] \in JobRecord /\ jobs'[i].dest = jobs[i].dest
               /\ jobs'[i].state = IF i \in woken THEN "Queued" ELSE jobs[i].state
    <2>1. jobs[i] \in JobRecord /\ "Queued" \in JobState
      BY <1>1 DEF J, JobState, State
    <2>. QED  BY <1>2, <2>1 DEF JobRecord
  <1>4. jobs' \in J
    BY <1>2, <1>3 DEF J
  <1>5. {faults', commands', crashes'} \subseteq 0..MaxDisturbances
    BY CountersAre DEF Resolve
  <1>6. UNCHANGED <<files, delivered, skipped, mode, open, pending>>
    BY DEF Resolve
  <1>7. \A i \in Job : jobs'[i].dest = jobs[i].dest
    BY <1>3
  <1>8. \A i \in Job : jobs'[i].state = jobs[i].state \/ jobs'[i].state = "removed"
          \/ /\ jobs[i].state \notin {"Completed", "Cancelled", "removed"}
             /\ jobs'[i].state \notin {"Completed", "Running"}
    <2> SUFFICES ASSUME NEW i \in Job, jobs'[i].state # jobs[i].state
                 PROVE  /\ jobs[i].state \notin {"Completed", "Cancelled", "removed"}
                        /\ jobs'[i].state \notin {"Completed", "Running"}
      OBVIOUS
    <2>1. i \in woken /\ jobs'[i].state = "Queued"
      BY <1>3
    <2>2. jobs[i].state = "WaitingForConflict"
      BY <2>1, <1>2
    <2>. QED  BY <2>1, <2>2
  <1>9. \A i \in woken : jobs'[i].state # "Running"
    BY <1>3
  <1>. QED  BY <1>2, <1>4, <1>5, <1>6, <1>7, <1>8, <1>9, ListStep

(* The commands that give each job another state or none.                  *)
LEMMA RelabelIs ==
  ASSUME jobs \in J, NEW S \in SUBSET Job, NEW s \in JobState,
         jobs' = [j \in Job |-> IF j \in S THEN [jobs[j] EXCEPT !.state = s] ELSE jobs[j]]
  PROVE  /\ jobs' \in J /\ \A i \in Job : jobs'[i].dest = jobs[i].dest
         /\ \A i \in Job : jobs'[i].state = IF i \in S THEN s ELSE jobs[i].state
  <1>1. ASSUME NEW i \in Job
        PROVE  /\ jobs'[i] \in JobRecord /\ jobs'[i].dest = jobs[i].dest
               /\ jobs'[i].state = IF i \in S THEN s ELSE jobs[i].state
    <2>1. jobs[i] \in JobRecord
      BY DEF J
    <2>. QED  BY <2>1 DEF JobRecord
  <1>2. jobs' \in J
    BY <1>1 DEF J
  <1>. QED  BY <1>1, <1>2

LEMMA ClearStep ==
  ASSUME TypeInv, NEW f \in Filter, Clear(f)
  PROVE  CommandIs
  <1> DEFINE S == {j \in Job : Known(j) /\ Matches(f, jobs[j].state)}
  <1>1. jobs \in J /\ "removed" \in JobState /\ S \in SUBSET Job
    BY DEF TypeInv, TypeOK, J, JobState
  <1>2. jobs' = [j \in Job |-> IF j \in S THEN [jobs[j] EXCEPT !.state = "removed"] ELSE jobs[j]]
    BY DEF Clear
  <1> HIDE DEF S
  <1>3. /\ jobs' \in J /\ \A i \in Job : jobs'[i].dest = jobs[i].dest
        /\ \A i \in Job : jobs'[i].state = IF i \in S THEN "removed" ELSE jobs[i].state
    BY <1>1, <1>2, RelabelIs
  <1>4. {faults', commands', crashes'} \subseteq 0..MaxDisturbances
    BY CountersAre DEF Clear
  <1>5. UNCHANGED <<files, delivered, skipped, mode, open, pending>> /\ workers' = workers
    BY DEF Clear
  <1>. QED  BY <1>1, <1>3, <1>4, <1>5, ListStep

LEMMA ResumeProfileStep ==
  ASSUME TypeInv, ResumeProfile
  PROVE  CommandIs
  <1> DEFINE S == {j \in Job : jobs[j].state \in {"Interrupted", "WaitingForAuthentication"}}
  <1>1. jobs \in J /\ "Queued" \in JobState /\ S \in SUBSET Job
    BY DEF TypeInv, TypeOK, J, JobState, State
  <1>2. /\ jobs' = [j \in Job |-> IF j \in S THEN [jobs[j] EXCEPT !.state = "Queued"] ELSE jobs[j]]
        /\ workers' = Spawned(S)
    BY DEF ResumeProfile
  <1>3. \A j \in S : jobs[j].state \in {"Interrupted", "WaitingForAuthentication"}
    OBVIOUS
  <1> HIDE DEF S
  <1>4. /\ jobs' \in J /\ \A i \in Job : jobs'[i].dest = jobs[i].dest
        /\ \A i \in Job : jobs'[i].state = IF i \in S THEN "Queued" ELSE jobs[i].state
    BY <1>1, <1>2, RelabelIs
  <1>5. {faults', commands', crashes'} \subseteq 0..MaxDisturbances
    BY CountersAre DEF ResumeProfile
  <1>6. UNCHANGED <<files, delivered, skipped, mode, open, pending>>
    BY DEF ResumeProfile
  <1>7. \A i \in Job : jobs'[i].state = jobs[i].state \/ jobs'[i].state = "removed"
             \/ /\ jobs[i].state \notin {"Completed", "Cancelled", "removed"}
                /\ jobs'[i].state \notin {"Completed", "Running"}
    BY <1>3, <1>4
  <1>. QED  BY <1>1, <1>2, <1>4, <1>5, <1>6, <1>7, ListStep

LEMMA RestartStep ==
  ASSUME TypeInv, Restart
  PROVE  CommandIs
  <1> DEFINE S == {j \in Job : jobs[j].state = "Running"}
  <1>1. jobs \in J /\ "Interrupted" \in JobState /\ S \in SUBSET Job
    BY DEF TypeInv, TypeOK, J, JobState, State
  <1>2. jobs' = [j \in Job |-> IF j \in S THEN [jobs[j] EXCEPT !.state = "Interrupted"] ELSE jobs[j]]
    BY DEF Restart
  <1>3. \A j \in Job : j \in S <=> jobs[j].state = "Running"
    OBVIOUS
  <1> HIDE DEF S
  <1>4. /\ jobs' \in J /\ \A i \in Job : jobs'[i].dest = jobs[i].dest
        /\ \A i \in Job : jobs'[i].state = IF i \in S THEN "Interrupted" ELSE jobs[i].state
    BY <1>1, <1>2, RelabelIs
  <1>5. {faults', commands', crashes'} \subseteq 0..MaxDisturbances
    BY FaultIs DEF Restart, TypeInv, TypeOK
  <1>6. UNCHANGED <<files, delivered, skipped, mode>>
    BY DEF Restart
  <1>7. workers' \in W /\ \A j \in Job, k \in Slot : workers'[j][k].pc = "none"
    BY NoWorkerIs DEF Restart, W
  <1>8. open' \in Opens /\ pending' \subseteq Job
    BY DEF Restart, Opens
  <1>. QED  BY <1>3, <1>4, <1>5, <1>6, <1>7, <1>8 DEF CommandIs

LEMMA NextIs ==
  ASSUME TypeInv, Next
  PROVE  (\E j \in Job, k \in Slot : StepIs(j, k)) \/ CommandIs
  BY WorkerStepIs, EnqueueStep, ControlStep, ResolveStep, ClearStep, ResumeProfileStep, RestartStep
     DEF Next

-----------------------------------------------------------------------------
(* Types, and what is reported. *)

LEMMA TypesBegin == Init => TypeInv
  <1> SUFFICES ASSUME Init
               PROVE  TypeInv
    OBVIOUS
  <1>1. jobs \in J
    <2>1. PICK policyOf \in [{BatchOf[j] : j \in Job} -> EnqueuePolicy] :
            jobs = [j \in Job |-> [state |-> "unknown", policy |-> policyOf[BatchOf[j]],
                                   retries |-> 0, dest |-> DestOf[j]]]
      BY DEF Init
    <2>2. ASSUME NEW j \in Job
          PROVE  [state |-> "unknown", policy |-> policyOf[BatchOf[j]],
                  retries |-> 0, dest |-> DestOf[j]] \in JobRecord
      <3>1. policyOf[BatchOf[j]] \in Policy /\ DestOf[j] \in Name /\ 0 \in 0..RetryLimit
        BY ConstantsAssumption
      <3>. QED  BY <3>1 DEF JobRecord, JobState
    <2>. QED  BY <2>1, <2>2 DEF J
  <1>2. workers \in W /\ \A j \in Job, k \in Slot : workers[j][k].pc = "none"
    BY NoWorkerIs DEF Init, W
  <1>3. DOMAIN files \subseteq Path /\ \A p \in DOMAIN files : files[p] \in Content
    <2>1. [owner |-> Old, size |-> Chunks, chunks |-> 1..Chunks] \in Content
      BY ConstantsAssumption DEF Content
    <2>2. \A n \in Existing : Dest(n) \in Path
      BY ConstantsAssumption DEF Path
    <2>. QED  BY <2>1, <2>2 DEF Init
  <1>4. /\ delivered \subseteq Job /\ skipped \subseteq Job /\ mode \in Modes
        /\ {faults, commands, crashes} \subseteq 0..MaxDisturbances
    BY ConstantsAssumption DEF Init
  <1>5. open \in Opens /\ pending \subseteq Job
    BY DEF Init, Opens
  <1>6. HandlesOK
    BY <1>2 DEF HandlesOK, HandleOK, Copying
  <1>. QED  BY <1>1, <1>2, <1>3, <1>4, <1>5, <1>6 DEF TypeInv, TypeOK, OffsetOK, At, J, W, Opens

LEMMA TypesStay == TypeInv /\ [Next]_vars => TypeInv'
  <1> SUFFICES ASSUME TypeInv, [Next]_vars
               PROVE  TypeInv'
    OBVIOUS
  <1>1. ASSUME NEW j \in Job, NEW k \in Slot, StepIs(j, k)
        PROVE  TypeInv'
    <2>1. /\ Only(j, k) /\ Kept /\ jobs' \in J
          /\ FilesAre(j, workers[j][k].pc, workers[j][k].dest, workers[j][k].off, Target(j, k))
          /\ At(j, k, "write")' => workers'[j][k].off < Chunks
          /\ HandlesAre(j, k) /\ HandleOK(workers'[j][k].pc, open'[j][k])
      BY <1>1 DEF StepIs, At
    <2>2. DOMAIN files' \subseteq Path /\ \A p \in DOMAIN files' : files'[p] \in Content
      BY <2>1, FilesStayTyped
    <2>3. OffsetOK'
      BY <2>1 DEF TypeInv, OffsetOK, Only, At
    <2>4. TypeOK'
      BY <2>1, <2>2 DEF TypeInv, TypeOK, Kept, Only, J, W, HandlesAre, Opens
    <2>5. ASSUME NEW i \in Job, NEW l \in Slot
          PROVE  HandleOK(workers[i][l].pc, open[i][l])'
      <3>1. mode' = mode
        BY <2>1 DEF Kept
      <3>2. CASE i = j /\ l = k
        BY <2>1, <3>1, <3>2 DEF HandleOK
      <3>3. CASE i # j \/ l # k
        <4>1. /\ workers'[i][l] = workers[i][l]
              /\ open[i][l] # Closed => open'[i][l] # Closed
          BY <2>1, <3>3 DEF Only, HandlesAre
        <4>. QED  BY <3>1, <4>1 DEF HandleOK, TypeInv, HandlesOK
      <3>. QED  BY <3>2, <3>3
    <2>6. HandlesOK'
      BY <2>5 DEF HandlesOK, HandleOK
    <2>. QED  BY <2>3, <2>4, <2>6 DEF TypeInv
  <1>2. ASSUME CommandIs
        PROVE  TypeInv'
    <2>1. OffsetOK'
      BY <1>2 DEF TypeInv, OffsetOK, CommandIs, At
    <2>2. TypeOK'
      BY <1>2 DEF TypeInv, TypeOK, CommandIs, J, W, Opens
    <2>3. HandlesOK'
      BY <1>2 DEF TypeInv, HandlesOK, HandleOK, Copying, CommandIs
    <2>. QED  BY <2>1, <2>2, <2>3 DEF TypeInv
  <1>3. ASSUME UNCHANGED vars
        PROVE  TypeInv'
    BY <1>3 DEF TypeInv, TypeOK, OffsetOK, HandlesOK, HandleOK, At, vars
  <1>. QED  BY <1>1, <1>2, <1>3, NextIs

LEMMA TypesAlways == Spec => []TypeInv
BY TypesBegin, TypesStay, PTL DEF Spec

(* Jobs, workers, files and counters stay what they are, and no worker     *)
(* writes past the end of its source.                                      *)
THEOREM WorkersAreTyped == Spec => []TypeOK
  <1>1. TypeInv => TypeOK
    BY DEF TypeInv
  <1>. QED  BY TypesAlways, <1>1, PTL

(* What a worker is about to report has happened.                          *)
Told ==
  /\ CompletedWasDelivered
  /\ \A j \in Job, k \in Slot :
       /\ workers[j][k].pc \in {"finish", "cleanup"} => j \in delivered
       /\ workers[j][k].pc = "skip" => j \in skipped

(* A transfer reported Completed has put its file at the destination,      *)
(* unless it was to be skipped, however many workers it has and whatever   *)
(* fails (complete, TransferQueue::transition).                            *)
THEOREM CompletionIsTrue == Spec => []CompletedWasDelivered
  <1>1. Init => Told
    <2> SUFFICES ASSUME Init
                 PROVE  Told
      OBVIOUS
    <2>1. /\ \A j \in Job : jobs[j].state = "unknown"
          /\ \A j \in Job, k \in Slot : workers[j][k].pc = "none"
      BY NoWorkerIs DEF Init
    <2>. QED  BY <2>1 DEF Told, CompletedWasDelivered
  <1>2. TypeInv /\ Told /\ [Next]_vars => Told'
    <2> SUFFICES ASSUME TypeInv, Told, [Next]_vars
                 PROVE  Told'
      OBVIOUS
    <2>1. ASSUME NEW j \in Job, NEW k \in Slot, StepIs(j, k)
          PROVE  Told'
      <3>1. /\ Only(j, k) /\ Kept /\ \A i \in Job : i # j => jobs'[i] = jobs[i]
            /\ jobs'[j].state = "Completed" =>
                 jobs[j].state = "Completed" \/ workers[j][k].pc \in {"skip", "finish"}
            /\ workers'[j][k].pc = "skip" => j \in skipped'
            /\ workers'[j][k].pc \in {"finish", "cleanup"} =>
                 j \in delivered' \/ workers[j][k].pc = "cleanup"
        BY <2>1 DEF StepIs
      <3>. QED  BY <3>1 DEF Told, CompletedWasDelivered, Only, Kept
    <2>2. ASSUME CommandIs
          PROVE  Told'
      BY <2>2 DEF Told, CompletedWasDelivered, CommandIs
    <2>3. ASSUME UNCHANGED vars
          PROVE  Told'
      BY <2>3 DEF Told, CompletedWasDelivered, vars
    <2>. QED  BY <2>1, <2>2, <2>3, NextIs
  <1>3. Told => CompletedWasDelivered
    BY DEF Told
  <1>. QED  BY <1>1, <1>2, <1>3, TypesAlways, PTL DEF Spec

(* A transfer shown as Running has a worker that will settle it, whatever  *)
(* raises an error and however many workers it has (run, fail).            *)
THEOREM RunningIsWorkedOn == Spec => []RunningHasWorker
  <1>1. Init => RunningHasWorker
    <2> SUFFICES ASSUME Init
                 PROVE  RunningHasWorker
      OBVIOUS
    <2>1. \A j \in Job : jobs[j].state = "unknown"
      BY DEF Init
    <2>. QED  BY <2>1 DEF RunningHasWorker
  <1>2. TypeInv /\ RunningHasWorker /\ [Next]_vars => RunningHasWorker'
    <2> SUFFICES ASSUME TypeInv, RunningHasWorker, [Next]_vars
                 PROVE  RunningHasWorker'
      OBVIOUS
    <2>1. ASSUME NEW j \in Job, NEW k \in Slot, StepIs(j, k)
          PROVE  RunningHasWorker'
      <3>1. /\ Only(j, k) /\ \A i \in Job : i # j => jobs'[i] = jobs[i]
            /\ workers'[j][k].pc \in Idle =>
                 jobs'[j].state # "Running" \/ (workers[j][k].pc \in Idle /\ jobs' = jobs)
        BY <2>1 DEF StepIs
      <3>2. ASSUME NEW i \in Job, jobs'[i].state = "Running", workers'[j][k].pc \in Idle \/ i # j
            PROVE  \E l \in Slot : workers'[i][l].pc \notin Idle
        <4>1. jobs[i].state = "Running" /\ (i = j => workers[j][k].pc \in Idle)
          BY <3>1, <3>2
        <4>2. PICK l \in Slot : workers[i][l].pc \notin Idle
          BY <4>1 DEF RunningHasWorker, Idle
        <4>3. workers'[i][l] = workers[i][l]
          BY <3>1, <4>1, <4>2 DEF Only
        <4>. QED  BY <4>2, <4>3
      <3>3. ASSUME NEW i \in Job, jobs'[i].state = "Running"
            PROVE  \E l \in Slot : workers'[i][l].pc \notin Idle
        BY <3>2, <3>3
      <3>. QED  BY <3>3 DEF RunningHasWorker, Idle
    <2>2. ASSUME CommandIs
          PROVE  RunningHasWorker'
      BY <2>2 DEF RunningHasWorker, CommandIs
    <2>3. ASSUME UNCHANGED vars
          PROVE  RunningHasWorker'
      BY <2>3 DEF RunningHasWorker, vars
    <2>. QED  BY <2>1, <2>2, <2>3, NextIs
  <1>. QED  BY <1>1, <1>2, TypesAlways, PTL DEF Spec

(* A completed, cancelled or cleared transfer is never brought back by a   *)
(* worker that does not know yet (transition, prepare_retry, fail).        *)
THEOREM SettledStays == Spec => SettledIsFinal
  <1>1. TypeInv /\ [Next]_vars => [Settles]_vars
    <2> SUFFICES ASSUME TypeInv, Next
                 PROVE  Settles
      OBVIOUS
    <2>1. ASSUME NEW j \in Job, NEW k \in Slot, StepIs(j, k)
          PROVE  Settles
      <3>1. /\ \A i \in Job : i # j => jobs'[i] = jobs[i]
            /\ jobs[j].state \in {"Completed", "Cancelled", "removed"} =>
                 jobs'[j].state = jobs[j].state
        BY <2>1 DEF StepIs
      <3>. QED  BY <3>1 DEF Settles
    <2>2. CommandIs => Settles
      BY DEF CommandIs, Settles
    <2>. QED  BY <2>1, <2>2, NextIs
  <1>. QED  BY <1>1, TypesAlways, PTL DEF Spec, SettledIsFinal

-----------------------------------------------------------------------------
(* Transfers with one worker at a time.  A second worker of a transfer     *)
(* shares its partial file and its backup: with two, NothingIsLost fails,  *)
(* as the run runner_loss shows, and so do DestinationsAreWhole, when one  *)
(* of them cuts or begins anew what the other has verified or promoted,    *)
(* and PartialIsKept.  Any number of workers may follow one another: what  *)
(* one leaves behind, the next one can use.                                *)

(* No transfer has two workers at once.                                    *)
OneWorkerEach ==
  \A j \in Job, k \in Slot, l \in Slot : Live(j, k) /\ Live(j, l) => k = l

Prefix(c) == c.chunks = 1..c.size

(* Partial files are copied from the start without a hole; what is at a    *)
(* destination, or was moved aside from one, is complete.                  *)
FilesOK ==
  /\ \A n \in Name : Exists(Dest(n)) => Whole(files[Dest(n)])
  /\ \A n \in Name, j \in Job : Exists(Backup(n, j)) => Whole(files[Backup(n, j)])
  /\ \A n \in Name, j \in Job : Exists(Part(n, j)) => Prefix(files[Part(n, j)])

WholeIfThere(n, j) == Exists(Part(n, j)) => Whole(files[Part(n, j)])

(* What a worker knows of its partial file is true: that it is the file it *)
(* writes to, how much of it is there, and, once verified, that it is      *)
(* complete.                                                               *)
WorkerOK(j, k) ==
  LET w == workers[j][k] IN
  /\ w.pc \in Copying => Target(j, k) = Part(w.dest, j)
  /\ w.pc = "length" => Exists(Part(w.dest, j))
  /\ w.pc \in {"trim", "check", "write"} => Length(j, w.dest) = w.off
  /\ w.pc = "commit" => WholeIfThere(jobs[j].dest, j)
  /\ w.pc \in {"promote", "backup", "swap"} => WholeIfThere(w.dest, j)

WorkersOK == \A j \in Job, k \in Slot : WorkerOK(j, k)

CleaningUp(j, n) == \E k \in Slot : At(j, k, "cleanup") /\ workers[j][k].dest = n

(* Each destination that held a file has one, or a backup that nobody is   *)
(* about to remove.                                                        *)
Safe ==
  \A n \in Existing :
    \/ Exists(Dest(n))
    \/ \E j \in Job : Exists(Backup(n, j)) /\ ~CleaningUp(j, n)

LEMMA VerifiedIsWhole ==
  ASSUME NEW c, Prefix(c), Verified(c)
  PROVE  Whole(c)
  BY DEF Verified, Whole, Prefix

(* A worker leaves the partial files of other transfers alone, and those   *)
(* of its own that it does not write or move.                              *)
LEMMA PartStays ==
  ASSUME NEW n, NEW i, NEW j, NEW pc, NEW m, NEW off, NEW q, FilesAre(j, pc, m, off, q),
         pc \in {"trim", "write"} => q = Part(m, j),
         i # j \/ n # m \/ pc \notin {"open", "trim", "write", "promote", "swap"}
  PROVE  /\ Part(n, i) \in DOMAIN files' <=> Part(n, i) \in DOMAIN files
         /\ Part(n, i) \in DOMAIN files => files'[Part(n, i)] = files[Part(n, i)]
  <1>1. ASSUME NEW off1, Part(n, i) # Part(m, j),
               Copies(j, Part(m, j), off1) \/ Creates(j, Part(m, j)) \/ Cuts(Part(m, j), off1)
        PROVE  /\ Part(n, i) \in DOMAIN files' <=> Part(n, i) \in DOMAIN files
               /\ Part(n, i) \in DOMAIN files => files'[Part(n, i)] = files[Part(n, i)]
    BY <1>1 DEF Copies, Creates, Cuts
  <1>2. ASSUME NEW from, NEW to, from # Part(n, i), to # Part(n, i), Moves(from, to)
        PROVE  /\ Part(n, i) \in DOMAIN files' <=> Part(n, i) \in DOMAIN files
               /\ Part(n, i) \in DOMAIN files => files'[Part(n, i)] = files[Part(n, i)]
    BY <1>2 DEF Moves
  <1>3. ASSUME Removes(Backup(m, j))
        PROVE  /\ Part(n, i) \in DOMAIN files' <=> Part(n, i) \in DOMAIN files
               /\ Part(n, i) \in DOMAIN files => files'[Part(n, i)] = files[Part(n, i)]
    BY <1>3, PathsDiffer DEF Removes
  <1>4. /\ Dest(m) # Part(n, i) /\ Backup(m, j) # Part(n, i)
        /\ i # j \/ n # m => Part(n, i) # Part(m, j)
    BY PathsDiffer
  <1>. QED  BY <1>1, <1>2, <1>3, <1>4 DEF FilesAre

LEMMA OneSlot == MaxWorkers = 1 => OneWorkerEach
  BY DEF Slot, OneWorkerEach

(* The worker that takes a step is the only one of its transfer, and the   *)
(* step starts no other.                                                   *)
LEMMA OthersAreOver ==
  ASSUME OneWorkerEach, NEW j \in Job, NEW k \in Slot, StepIs(j, k)
  PROVE  \A l \in Slot : l # k => workers'[j][l].pc = "none"
  BY DEF OneWorkerEach, Live, At, StepIs, Only

LEMMA MovedFilesAreWhole ==
  ASSUME FilesOK, NEW m \in Name, NEW j \in Job, NEW from, NEW to, Moves(from, to),
         \/ from = Part(m, j) /\ to = Dest(m) /\ WholeIfThere(m, j)
         \/ from = Dest(m) /\ to = Backup(m, j)
         \/ from = Backup(m, j) /\ to = Dest(m)
  PROVE  FilesOK'
  <1>1. from \in DOMAIN files /\ Whole(files[from])
    BY DEF Moves, FilesOK, WholeIfThere, Exists
  <1>2. /\ DOMAIN files' = (DOMAIN files \ {from}) \cup {to}
        /\ Whole(files'[to])
        /\ \A q \in DOMAIN files' : q # to => q \in DOMAIN files /\ files'[q] = files[q]
    BY <1>1 DEF Moves
  <1>3. \A n \in Name : Dest(n) \in DOMAIN files' => Whole(files'[Dest(n)])
    BY <1>2 DEF FilesOK, Exists
  <1>4. \A n \in Name, i \in Job : Backup(n, i) \in DOMAIN files' => Whole(files'[Backup(n, i)])
    BY <1>2 DEF FilesOK, Exists
  <1>5. \A n \in Name, i \in Job : Part(n, i) \in DOMAIN files' => Prefix(files'[Part(n, i)])
    <2>1. \A n \in Name, i \in Job : Part(n, i) # to
      BY PathsDiffer
    <2>. QED  BY <1>2, <2>1 DEF FilesOK, Exists
  <1>. QED  BY <1>3, <1>4, <1>5 DEF FilesOK, Exists, Whole, Prefix

(* Only one partial file has changed, and has no hole.                     *)
LEMMA PartChanges ==
  ASSUME FilesOK, NEW m \in Name, NEW j \in Job, NEW p, p = Part(m, j),
         \A q \in DOMAIN files' : q # p => q \in DOMAIN files /\ files'[q] = files[q],
         p \in DOMAIN files' => Prefix(files'[p])
  PROVE  FilesOK'
  <1>1. /\ \A n \in Name : Dest(n) # p
        /\ \A n \in Name, i \in Job : Backup(n, i) # p
    BY PathsDiffer
  <1>2. \A n \in Name : Dest(n) \in DOMAIN files' => Whole(files'[Dest(n)])
    BY <1>1 DEF FilesOK, Exists
  <1>3. \A n \in Name, i \in Job : Backup(n, i) \in DOMAIN files' => Whole(files'[Backup(n, i)])
    BY <1>1 DEF FilesOK, Exists
  <1>4. ASSUME NEW n \in Name, NEW i \in Job, Part(n, i) \in DOMAIN files'
        PROVE  Prefix(files'[Part(n, i)])
    <2>1. CASE Part(n, i) = p
      BY <1>4, <2>1
    <2>2. CASE Part(n, i) # p
      BY <1>4, <2>2 DEF FilesOK, Exists
    <2>. QED  BY <2>1, <2>2
  <1>. QED  BY <1>2, <1>3, <1>4 DEF FilesOK, Exists, Whole, Prefix

LEMMA CopiedFilesAreWhole ==
  ASSUME FilesOK, NEW m \in Name, NEW j \in Job, NEW off \in 0..Chunks, off < Chunks,
         Length(j, m) = off, Copies(j, Part(m, j), off + 1)
  PROVE  FilesOK' /\ Length(j, m)' = off + 1
  <1>1. PICK p, next : p = Part(m, j) /\ next = off + 1
    OBVIOUS
  <1>2. /\ DOMAIN files' = DOMAIN files \cup {p}
        /\ \A q \in DOMAIN files : q # p => files'[q] = files[q]
    BY <1>1 DEF Copies
  <1>3. off \in Nat /\ next \in Nat /\ (1..off) \cup {next} = 1..next /\ next > off
    BY <1>1, ConstantsAssumption
  <1>4. files'[p].size = next /\ files'[p].chunks = 1..next
    <2>1. CASE p \notin DOMAIN files
      <3>1. off = 0 /\ next = 1
        BY <1>1, <2>1 DEF Length, Exists
      <3>2. files'[p] = [owner |-> j, size |-> next, chunks |-> {next}]
        BY <1>1, <2>1 DEF Copies
      <3>. QED  BY <3>1, <3>2
    <2>2. CASE p \in DOMAIN files
      <3>1. files[p].size = off /\ files[p].chunks = 1..off
        BY <1>1, <2>2 DEF Length, Exists, FilesOK, Prefix
      <3>2. files'[p] = [owner |-> j,
                         size |-> IF next > files[p].size THEN next ELSE files[p].size,
                         chunks |-> files[p].chunks \cup {next}]
        BY <1>1, <2>2 DEF Copies
      <3>. QED  BY <1>3, <3>1, <3>2
    <2>. QED  BY <2>1, <2>2
  <1>5. FilesOK'
    BY <1>1, <1>2, <1>4, PartChanges DEF Prefix
  <1>. QED  BY <1>1, <1>2, <1>4, <1>5 DEF Length, Exists

(* A file is cut at its end.                                               *)
LEMMA CutFilesAreWhole ==
  ASSUME TypeInv, FilesOK, NEW m \in Name, NEW j \in Job, NEW off \in 0..Chunks,
         Length(j, m) = off, Cuts(Part(m, j), off)
  PROVE  /\ FilesOK' /\ Length(j, m)' = off
         /\ Exists(Part(m, j)) => files'[Part(m, j)].chunks = files[Part(m, j)].chunks
  <1>1. PICK p : p = Part(m, j)
    OBVIOUS
  <1>2. /\ DOMAIN files' = DOMAIN files
        /\ \A q \in DOMAIN files : q # p => files'[q] = files[q]
    BY <1>1 DEF Cuts
  <1>3. ASSUME p \in DOMAIN files
        PROVE  files'[p].size = off /\ files'[p].chunks = 1..off /\ files[p].chunks = 1..off
    <2>1. /\ files[p].size = off /\ files[p].chunks = 1..off /\ files[p] \in Content
          /\ files'[p] = [files[p] EXCEPT !.size = off, !.chunks = files[p].chunks \cap (1..off)]
      BY <1>1, <1>3 DEF Length, Exists, FilesOK, Prefix, Cuts, TypeInv, TypeOK
    <2>. QED  BY <2>1 DEF Content
  <1>4. FilesOK'
    BY <1>1, <1>2, <1>3, PartChanges DEF Prefix
  <1>. QED  BY <1>1, <1>2, <1>3, <1>4 DEF Length, Exists

LEMMA CreatedFilesAreWhole ==
  ASSUME FilesOK, NEW m \in Name, NEW j \in Job, Creates(j, Part(m, j))
  PROVE  FilesOK'
  <1>1. PICK p : p = Part(m, j)
    OBVIOUS
  <1>2. /\ DOMAIN files' = DOMAIN files \cup {p}
        /\ \A q \in DOMAIN files : files'[q] = files[q]
        /\ p \notin DOMAIN files => files'[p] = [owner |-> j, size |-> 0, chunks |-> {}]
    BY <1>1 DEF Creates
  <1>3. Prefix(files'[p])
    <2>1. CASE p \in DOMAIN files
      BY <1>1, <1>2, <2>1 DEF FilesOK, Exists, Prefix
    <2>2. CASE p \notin DOMAIN files
      <3>1. files'[p].size = 0 /\ files'[p].chunks = {}
        BY <1>2, <2>2
      <3>2. 1..0 = {}
        OBVIOUS
      <3>. QED  BY <3>1, <3>2 DEF Prefix
    <2>. QED  BY <2>1, <2>2
  <1>. QED  BY <1>1, <1>2, <1>3, PartChanges

LEMMA FilesStayWhole ==
  ASSUME TypeInv, FilesOK, NEW j \in Job, NEW k \in Slot, WorkerOK(j, k), StepIs(j, k)
  PROVE  FilesOK'
  <1> DEFINE w == workers[j][k]
             m == w.dest
  <1>1. m \in Name /\ w.off \in 0..Chunks
    BY TypesAre
  <1>2. /\ FilesAre(j, w.pc, m, w.off, Target(j, k))
        /\ w.pc \in {"trim", "write"} => Target(j, k) = Part(m, j) /\ Length(j, m) = w.off
    BY DEF StepIs, WorkerOK, Copying
  <1>3. CASE files' = files
    BY <1>3 DEF FilesOK, Exists, Whole, Prefix
  <1>4. CASE w.pc = "write" /\ Copies(j, Target(j, k), w.off + 1)
    <2>1. Length(j, m) = w.off /\ Copies(j, Part(m, j), w.off + 1)
      BY <1>2, <1>4
    <2>2. w.off < Chunks
      BY <1>4 DEF TypeInv, OffsetOK, At
    <2> HIDE DEF w
    <2>. QED  BY <1>1, <2>1, <2>2, CopiedFilesAreWhole
  <1>8. CASE w.pc = "trim" /\ Cuts(Target(j, k), w.off)
    <2>1. Length(j, m) = w.off /\ Cuts(Part(m, j), w.off)
      BY <1>2, <1>8
    <2> HIDE DEF w
    <2>. QED  BY <1>1, <2>1, CutFilesAreWhole
  <1>9. CASE Creates(j, Part(m, j))
    <2> HIDE DEF w
    <2>. QED  BY <1>1, <1>9, CreatedFilesAreWhole
  <1>5. CASE w.pc \in {"promote", "swap"} /\ Moves(Part(m, j), Dest(m))
    <2>1. WholeIfThere(m, j)
      BY <1>5 DEF WorkerOK
    <2> HIDE DEF w
    <2>. QED  BY <1>1, <1>5, <2>1, MovedFilesAreWhole
  <1>6. CASE Moves(Dest(m), Backup(m, j)) \/ Moves(Backup(m, j), Dest(m))
    <2> HIDE DEF w
    <2>. QED  BY <1>1, <1>6, MovedFilesAreWhole
  <1>7. CASE Removes(Backup(m, j))
    <2> HIDE DEF w
    <2>. QED  BY <1>7 DEF Removes, FilesOK, Exists, Whole, Prefix
  <1>. QED  BY <1>2, <1>3, <1>4, <1>5, <1>6, <1>7, <1>8, <1>9 DEF FilesAre

LEMMA WorkerStaysRight ==
  ASSUME TypeInv, FilesOK, NEW j \in Job, NEW k \in Slot, WorkerOK(j, k), StepIs(j, k)
  PROVE  WorkerOK(j, k)'
  <1>1. PICK pc, d, off : pc = workers[j][k].pc /\ d = workers[j][k].dest /\ off = workers[j][k].off
    OBVIOUS
  <1>2. PICK now, n, o : now = workers'[j][k].pc /\ n = workers'[j][k].dest /\ o = workers'[j][k].off
    OBVIOUS
  <1>3. PICK goal : goal = jobs[j].dest
    OBVIOUS
  <1>4. /\ d \in Name /\ off \in 0..Chunks /\ goal \in Name
    BY <1>1, <1>3, TypesAre
  <1>5. /\ pc \in Copying => Target(j, k) = Part(d, j)
        /\ pc = "length" => Exists(Part(d, j)) /\ open[j][k] = Part(d, j)
        /\ pc \in {"trim", "check", "write"} => Length(j, d) = off
        /\ pc = "write" => off < Chunks
        /\ pc = "commit" => WholeIfThere(goal, j)
        /\ pc \in {"promote", "backup", "swap"} => WholeIfThere(d, j)
    <2>1. pc = "length" => mode.handle
      BY <1>1 DEF TypeInv, HandlesOK, HandleOK
    <2>. QED  BY <1>1, <1>3, <2>1 DEF WorkerOK, TypeInv, OffsetOK, At, Target, Copying
  <1>11. /\ Target(j, k)' = IF mode.handle THEN open'[j][k] ELSE Part(n, j)
         /\ Target(j, k) = IF mode.handle THEN open[j][k] ELSE Part(d, j)
    <2>1. mode' = mode
      BY DEF StepIs, Kept
    <2>. QED  BY <1>1, <1>2, <2>1 DEF Target
  <1>12. now = "length" => Target(j, k)' = Part(n, j) /\ Exists(Part(n, j))'
    <2>1. now = "length" => n = d /\ open'[j][k] = Part(d, j) /\ Creates(j, Part(d, j))
      BY <1>1, <1>2 DEF StepIs
    <2>. QED  BY <1>11, <2>1 DEF Creates, Exists
  <1>13. now = "trim" => Target(j, k)' = Part(n, j) /\ Length(j, n)' = o
    <2>1. now = "trim" => /\ pc = "length" /\ n = d /\ files' = files /\ open' = open
                          /\ Exists(open[j][k]) => o = files[open[j][k]].size
      BY <1>1, <1>2 DEF StepIs
    <2>2. now = "trim" => Exists(Part(d, j)) /\ o = files[Part(d, j)].size
      BY <1>5, <2>1
    <2>. QED  BY <1>5, <1>11, <2>1, <2>2 DEF Length, Exists, Copying
  <1>6. now = "check" => Target(j, k)' = Part(n, j) /\ Length(j, n)' = o
    <2>1. ASSUME ~mode.handle, n = goal, files' = files, o = Length(j, n)
          PROVE  Target(j, k)' = Part(n, j) /\ Length(j, n)' = o
      BY <1>11, <2>1 DEF Length, Exists
    <2>2. ASSUME pc = "write", n = d, o = off + 1, open' = open,
                 Target(j, k) # Gone => Copies(j, Target(j, k), off + 1)
          PROVE  Target(j, k)' = Part(n, j) /\ Length(j, n)' = o
      <3>1. Target(j, k) = Part(d, j) /\ Copies(j, Part(d, j), off + 1)
        BY <1>5, <2>2, PathsDiffer DEF Copying
      <3>2. Length(j, d)' = off + 1
        BY <1>4, <1>5, <2>2, <3>1, CopiedFilesAreWhole
      <3>3. Length(j, n)' = o
        BY <2>2, <3>2 DEF Length, Exists
      <3>. QED  BY <1>11, <2>2, <3>1, <3>3
    <2>3. ASSUME pc = "trim", n = d, o = off, open' = open,
                 Target(j, k) # Gone => Cuts(Target(j, k), off)
          PROVE  Target(j, k)' = Part(n, j) /\ Length(j, n)' = o
      <3>1. Target(j, k) = Part(d, j) /\ Cuts(Part(d, j), off)
        BY <1>5, <2>3, PathsDiffer DEF Copying
      <3>2. Length(j, d)' = off
        BY <1>4, <1>5, <2>3, <3>1, CutFilesAreWhole
      <3>3. Length(j, n)' = o
        BY <2>3, <3>2 DEF Length, Exists
      <3>. QED  BY <1>11, <2>3, <3>1, <3>3
    <2>. QED  BY <1>1, <1>2, <1>3, <2>1, <2>2, <2>3 DEF StepIs
  <1>7. now = "write" => Target(j, k)' = Part(n, j) /\ Length(j, n)' = o
    <2>1. now = "write" => /\ pc = "check" /\ n = d /\ o = off /\ files' = files
                           /\ open' = open
      BY <1>1, <1>2 DEF StepIs
    <2>. QED  BY <1>5, <1>11, <2>1 DEF Length, Exists, Copying
  <1>8. now = "commit" => WholeIfThere(goal, j)' /\ jobs'[j].dest = goal
    <2>1. now = "commit" => /\ Exists(Part(goal, j)) /\ Verified(files[Part(goal, j)])
                            /\ files' = files /\ jobs' = jobs
      BY <1>2, <1>3 DEF StepIs
    <2>2. now = "commit" => Prefix(files[Part(goal, j)])
      BY <1>4, <2>1 DEF FilesOK
    <2>3. now = "commit" => Whole(files[Part(goal, j)])
      BY <2>1, <2>2, VerifiedIsWhole
    <2>. QED  BY <1>3, <2>1, <2>3 DEF WholeIfThere, Whole, Exists
  <1>9. now \in {"promote", "backup"} => WholeIfThere(n, j)'
    BY <1>1, <1>2, <1>3, <1>5 DEF StepIs, WholeIfThere, Whole, Exists
  <1>10. now = "swap" => WholeIfThere(n, j)'
    <2>1. now = "swap" => pc = "backup" /\ n = d
      BY <1>1, <1>2 DEF StepIs
    <2>2. FilesAre(j, pc, d, off, Target(j, k))
      BY <1>1 DEF StepIs
    <2>3. pc = "backup" =>
            /\ Part(d, j) \in DOMAIN files' <=> Part(d, j) \in DOMAIN files
            /\ Part(d, j) \in DOMAIN files => files'[Part(d, j)] = files[Part(d, j)]
      BY <2>2, PartStays
    <2>. QED  BY <1>5, <2>1, <2>3 DEF WholeIfThere, Whole, Exists
  <1>. QED  BY <1>2, <1>6, <1>7, <1>8, <1>9, <1>10, <1>12, <1>13
            DEF WorkerOK, Copying, Length, WholeIfThere, Whole, Exists

(* The worker of another transfer does not see the step.                   *)
LEMMA OthersStayRight ==
  ASSUME TypeInv, NEW j \in Job, NEW k \in Slot, StepIs(j, k), WorkerOK(j, k),
         NEW i \in Job, i # j, NEW l \in Slot, WorkerOK(i, l)
  PROVE  WorkerOK(i, l)'
  <1>1. PICK n, goal : n = workers[i][l].dest /\ goal = jobs[i].dest
    OBVIOUS
  <1>2. /\ workers'[i][l] = workers[i][l] /\ jobs'[i] = jobs[i] /\ mode' = mode
        /\ FilesAre(j, workers[j][k].pc, workers[j][k].dest, workers[j][k].off, Target(j, k))
        /\ workers[j][k].pc \in {"trim", "write"} => Target(j, k) = Part(workers[j][k].dest, j)
    BY DEF StepIs, Only, Kept, WorkerOK, Copying
  <1>3. \A m \in {n, goal} :
          /\ Part(m, i) \in DOMAIN files' <=> Part(m, i) \in DOMAIN files
          /\ Part(m, i) \in DOMAIN files => files'[Part(m, i)] = files[Part(m, i)]
    BY <1>2, PartStays
  <1>4. /\ Length(i, n)' = Length(i, n) /\ (Exists(Part(n, i))' <=> Exists(Part(n, i)))
        /\ WholeIfThere(n, i)' <=> WholeIfThere(n, i)
        /\ WholeIfThere(goal, i)' <=> WholeIfThere(goal, i)
    BY <1>3 DEF Length, WholeIfThere, Whole, Exists
  <1>5. Target(i, l) = Part(n, i) => Target(i, l)' = Part(n, i)
    <2>1. n \in Name
      BY <1>1, TypesAre
    <2>2. open[i][l] = Part(n, i) => open'[i][l] = Part(n, i)
      BY <2>1 DEF StepIs, HandlesAre
    <2>. QED  BY <1>1, <1>2, <2>2 DEF Target
  <1>. QED  BY <1>1, <1>2, <1>4, <1>5 DEF WorkerOK, WholeIfThere, Whole, Exists, Length

(* What a step does to the files of destination n, whoever takes it: the   *)
(* destination goes away only by being moved to a backup, a backup only    *)
(* back to the destination, or when it is cleaned up.                      *)
LEMMA SafeStaysSafe ==
  ASSUME OneWorkerEach, TypeInv, Safe, NEW j \in Job, NEW k \in Slot, StepIs(j, k)
  PROVE  Safe'
  <1>1. PICK pc, m, off : pc = workers[j][k].pc /\ m = workers[j][k].dest
                          /\ off = workers[j][k].off
    OBVIOUS
  <1>2. FilesAre(j, pc, m, off, Target(j, k))
    BY <1>1 DEF StepIs
  <1>3. \A i \in Job, l \in Slot : i # j => workers'[i][l] = workers[i][l]
    BY DEF StepIs, Only
  <1>4. \A l \in Slot : l # k => workers'[j][l].pc = "none"
    BY OthersAreOver
  <1>5. ASSUME workers'[j][k].pc = "cleanup"
        PROVE  pc = "swap" /\ workers'[j][k].dest = m /\ Dest(m) \in DOMAIN files'
    BY <1>1, <1>5 DEF StepIs, Moves
  <1>6. ASSUME NEW n \in Existing, Dest(n) \notin DOMAIN files'
        PROVE  \E i \in Job : Backup(n, i) \in DOMAIN files' /\ ~CleaningUp(i, n)'
    <2>1. ASSUME NEW i \in Job, Backup(n, i) \in DOMAIN files, ~CleaningUp(i, n)
          PROVE  \E h \in Job : Backup(n, h) \in DOMAIN files' /\ ~CleaningUp(h, n)'
      <3>1. i = j /\ n = m => pc # "cleanup"
        BY <1>1, <2>1 DEF CleaningUp, At
      <3>2. Backup(n, i) \in DOMAIN files'
        BY <1>2, <1>6, <2>1, <3>1, PathsDiffer DEF FilesAre, Copies, Creates, Cuts, Moves, Removes
      <3>3. ~CleaningUp(i, n)'
        <4>1. i # j => (CleaningUp(i, n)' <=> CleaningUp(i, n))
          BY <1>3 DEF CleaningUp, At
        <4>2. i = j /\ CleaningUp(i, n)' => workers'[j][k].pc = "cleanup" /\ workers'[j][k].dest = n
          BY <1>4 DEF CleaningUp, At
        <4>. QED  BY <1>5, <1>6, <2>1, <4>1, <4>2
      <3>. QED  BY <3>2, <3>3
    <2>2. ASSUME Dest(n) \in DOMAIN files
          PROVE  \E h \in Job : Backup(n, h) \in DOMAIN files' /\ ~CleaningUp(h, n)'
      <3>1. pc = "backup" /\ n = m /\ Backup(n, j) \in DOMAIN files'
        BY <1>2, <1>6, <2>2, PathsDiffer DEF FilesAre, Copies, Creates, Cuts, Moves, Removes
      <3>2. ~CleaningUp(j, n)'
        BY <1>4, <1>5, <3>1 DEF CleaningUp, At
      <3>. QED  BY <3>1, <3>2
    <2>. QED  BY <2>1, <2>2 DEF Safe, Exists
  <1>. QED  BY <1>6 DEF Safe, Exists

AloneInv == FilesOK /\ WorkersOK /\ Safe

LEMMA AloneBegins == Init => AloneInv
  <1> SUFFICES ASSUME Init
               PROVE  AloneInv
    OBVIOUS
  <1>1. /\ DOMAIN files = {Dest(n) : n \in Existing}
        /\ \A p \in DOMAIN files : Whole(files[p])
        /\ \A j \in Job, k \in Slot : workers[j][k].pc = "none"
    BY DEF Init, NoWorker, Whole
  <1>2. /\ \A n \in Existing : Exists(Dest(n))
        /\ \A n \in Name, j \in Job : ~Exists(Part(n, j)) /\ ~Exists(Backup(n, j))
    BY <1>1, PathsDiffer DEF Exists
  <1>3. FilesOK
    BY <1>1, <1>2 DEF FilesOK, Exists
  <1>4. WorkersOK
    BY <1>1 DEF WorkersOK, WorkerOK, Copying
  <1>. QED  BY <1>2, <1>3, <1>4 DEF AloneInv, Safe

LEMMA AloneStays == TypeInv /\ OneWorkerEach /\ AloneInv /\ [Next]_vars => AloneInv'
  <1> SUFFICES ASSUME TypeInv, OneWorkerEach, AloneInv, [Next]_vars
               PROVE  AloneInv'
    OBVIOUS
  <1>1. ASSUME NEW j \in Job, NEW k \in Slot, StepIs(j, k)
        PROVE  AloneInv'
    <2>1. FilesOK'
      BY <1>1, FilesStayWhole DEF AloneInv, WorkersOK
    <2>2. ASSUME NEW i \in Job, NEW l \in Slot
          PROVE  WorkerOK(i, l)'
      <3>1. WorkerOK(i, l) /\ FilesOK
        BY DEF AloneInv, WorkersOK
      <3>2. CASE i = j /\ l = k
        BY <1>1, <3>1, <3>2, WorkerStaysRight
      <3>3. CASE i = j /\ l # k
        <4>1. workers'[i][l].pc = "none"
          BY <1>1, <3>3, OthersAreOver
        <4>. QED  BY <4>1 DEF WorkerOK, Copying
      <3>4. CASE i # j
        BY <1>1, <3>1, <3>4, OthersStayRight DEF AloneInv, WorkersOK
      <3>. QED  BY <3>2, <3>3, <3>4
    <2>3. Safe'
      BY <1>1, SafeStaysSafe DEF AloneInv
    <2>. QED  BY <2>1, <2>2, <2>3 DEF AloneInv, WorkersOK
  <1>2. ASSUME CommandIs
        PROVE  AloneInv'
    <2>1. files' = files /\ \A j \in Job : jobs'[j].dest = jobs[j].dest
      BY <1>2 DEF CommandIs
    <2>2. \A j \in Job, k \in Slot :
            \/ workers'[j][k] = workers[j][k] /\ open'[j][k] = open[j][k] /\ mode' = mode
            \/ workers'[j][k].pc \in {"none", "route"}
      BY <1>2 DEF CommandIs
    <2>3. FilesOK'
      BY <2>1 DEF AloneInv, FilesOK, Exists, Whole, Prefix
    <2>4. WorkersOK'
      BY <2>1, <2>2 DEF AloneInv, WorkersOK, WorkerOK, Copying, Target, Length, WholeIfThere,
                        Whole, Exists
    <2>5. Safe'
      BY <2>1, <2>2 DEF AloneInv, Safe, CleaningUp, At, Exists
    <2>. QED  BY <2>3, <2>4, <2>5 DEF AloneInv
  <1>3. CASE UNCHANGED vars
    BY <1>3 DEF vars, AloneInv, FilesOK, WorkersOK, WorkerOK, Safe, CleaningUp, At, Length,
                Target, WholeIfThere, Whole, Prefix, Exists
  <1>. QED  BY <1>1, <1>2, <1>3, NextIs

(* "Partial destinations prevent an interrupted transfer from appearing    *)
(* complete": whatever fails, is retried or restarted, and however large   *)
(* the file, what stands at a destination is one complete file, as long as *)
(* no transfer has two workers at once.                                    *)
THEOREM DestinationsStayWhole ==
  Spec /\ []OneWorkerEach => []DestinationsAreWhole
  <1>1. AloneInv => DestinationsAreWhole
    BY DEF AloneInv, FilesOK, DestinationsAreWhole
  <1>. QED  BY <1>1, AloneBegins, AloneStays, TypesAlways, PTL DEF Spec

(* The file a transfer replaces is at every moment complete at its         *)
(* destination or in a backup: between the two renames of a commit, after  *)
(* a failed rollback, and after a restart in between, as long as no        *)
(* transfer has two workers at once.                                       *)
THEOREM ReplacedFilesSurvive ==
  Spec /\ []OneWorkerEach => []NothingIsLost
  <1>1. AloneInv => NothingIsLost
    <2>1. Existing \subseteq Name
      BY ConstantsAssumption
    <2>. QED  BY <2>1 DEF AloneInv, FilesOK, Safe, NothingIsLost
  <1>. QED  BY <1>1, AloneBegins, AloneStays, TypesAlways, PTL DEF Spec

(* What was copied stays: whatever a worker, a command or a restart does,  *)
(* a partial file grows or becomes the destination as it is: the set_len   *)
(* of a new attempt cuts nothing off (download, write_chunk,               *)
(* commit_local_destination).  With two workers of one transfer it may.    *)
THEOREM CopiesAreKept ==
  Spec /\ []OneWorkerEach => PartialIsKept
  <1>1. TypeInv /\ AloneInv /\ [Next]_vars => [KeepsParts]_vars
    <2> SUFFICES ASSUME TypeInv, AloneInv, Next, NEW n \in Name, NEW i \in Job,
                        Exists(Part(n, i))
                 PROVE  \/ /\ Part(n, i) \in DOMAIN files'
                           /\ files[Part(n, i)].chunks \subseteq files'[Part(n, i)].chunks
                        \/ /\ Dest(n) \in DOMAIN files'
                           /\ files'[Dest(n)] = files[Part(n, i)]
      BY DEF KeepsParts
    <2>1. Part(n, i) \in DOMAIN files
      BY DEF Exists
    <2>2. ASSUME NEW j \in Job, NEW k \in Slot, StepIs(j, k)
          PROVE  \/ /\ Part(n, i) \in DOMAIN files'
                    /\ files[Part(n, i)].chunks \subseteq files'[Part(n, i)].chunks
                 \/ /\ Dest(n) \in DOMAIN files'
                    /\ files'[Dest(n)] = files[Part(n, i)]
      <3>1. PICK pc, m, off, q : /\ pc = workers[j][k].pc /\ m = workers[j][k].dest
                                 /\ off = workers[j][k].off /\ q = Target(j, k)
        OBVIOUS
      <3>2. /\ FilesAre(j, pc, m, off, q) /\ m \in Name /\ off \in 0..Chunks
            /\ pc \in {"trim", "write"} => q = Part(m, j) /\ Length(j, m) = off
        BY <2>2, <3>1, TypesAre DEF StepIs, AloneInv, WorkersOK, WorkerOK, Copying
      <3>3. ASSUME NEW x, Copies(j, Part(m, j), x) \/ Creates(j, Part(m, j))
            PROVE  /\ Part(n, i) \in DOMAIN files'
                   /\ files[Part(n, i)].chunks \subseteq files'[Part(n, i)].chunks
        BY <2>1, <3>3 DEF Copies, Creates
      <3>4. ASSUME Cuts(Part(m, j), off), Length(j, m) = off
            PROVE  /\ Part(n, i) \in DOMAIN files'
                   /\ files[Part(n, i)].chunks \subseteq files'[Part(n, i)].chunks
        <4>1. CASE Part(n, i) = Part(m, j)
          <5>1. files'[Part(m, j)].chunks = files[Part(m, j)].chunks
            BY <2>1, <3>2, <3>4, <4>1, CutFilesAreWhole DEF AloneInv, Exists
          <5>. QED  BY <2>1, <3>4, <4>1, <5>1 DEF Cuts
        <4>2. CASE Part(n, i) # Part(m, j)
          BY <2>1, <3>4, <4>2 DEF Cuts
        <4>. QED  BY <4>1, <4>2
      <3>5. ASSUME Moves(Part(m, j), Dest(m))
            PROVE  \/ Part(n, i) \in DOMAIN files' /\ files'[Part(n, i)] = files[Part(n, i)]
                   \/ Dest(n) \in DOMAIN files' /\ files'[Dest(n)] = files[Part(n, i)]
        BY <2>1, <3>5, PathsDiffer DEF Moves
      <3>6. ASSUME NEW from, NEW to, from # Part(n, i), to # Part(n, i), Moves(from, to)
            PROVE  Part(n, i) \in DOMAIN files' /\ files'[Part(n, i)] = files[Part(n, i)]
        BY <2>1, <3>6 DEF Moves
      <3>7. ASSUME Removes(Backup(m, j))
            PROVE  Part(n, i) \in DOMAIN files' /\ files'[Part(n, i)] = files[Part(n, i)]
        BY <2>1, <3>7, PathsDiffer DEF Removes
      <3>8. Dest(m) # Part(n, i) /\ Backup(m, j) # Part(n, i)
        BY PathsDiffer
      <3>. QED  BY <2>1, <3>2, <3>3, <3>4, <3>5, <3>6, <3>7, <3>8 DEF FilesAre
    <2>3. CommandIs => files' = files
      BY DEF CommandIs
    <2>. QED  BY <2>1, <2>2, <2>3, NextIs
  <1>. QED  BY <1>1, AloneBegins, AloneStays, TypesAlways, PTL DEF Spec, PartialIsKept

(* With one place for a worker of each transfer, as in the run runner,     *)
(* nothing else is assumed of the behaviour.                               *)
COROLLARY OneWorkerIsEnough ==
  ASSUME MaxWorkers = 1
  PROVE  Spec => []DestinationsAreWhole /\ []NothingIsLost /\ PartialIsKept
  <1>1. OneWorkerEach
    BY OneSlot
  <1>. QED  BY <1>1, DestinationsStayWhole, ReplacedFilesSurvive, CopiesAreKept, PTL

===============================================================================
