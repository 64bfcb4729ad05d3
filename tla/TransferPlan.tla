---------------------------- MODULE TransferPlan ----------------------------
(***************************************************************************)
(* Transfers of whole directories: planning (transfer_plan.rs), preparing  *)
(* the destination, and queueing the batch (enqueue_directory_transfer).   *)
(*                                                                         *)
(* A path is the sequence of names from the destination base, so a plan    *)
(* and the tree it will make have the same shape.  A link is a name that   *)
(* leads to another entry of the source.  The order of a listing is        *)
(* arbitrary, so the stack of the walk is a set.  Any step that waits for  *)
(* a disk or a server may fail; two commands may run at once, on the same  *)
(* destination or one after the other as a retry.                          *)
(***************************************************************************)
EXTENDS Naturals, FiniteSets, Sequences, SequencesExt

CONSTANTS
  Folder, File, Link,   \* the entries of the source, by name
  In,                   \* In[e]: the folder that lists e
  LeadsTo,              \* LeadsTo[l]: the folder or file a link leads to
  Drafts,               \* what the commands ask for
  Calls,                \* commands in flight
  Foreign,              \* what the destination may hold before: path -> kind
  MaxDepth, MaxFiles,
  MaxCrashes            \* bound: restarts of the application

ASSUME PlanAssumption ==
  /\ {MaxDepth, MaxFiles, MaxCrashes} \subseteq Nat
  /\ Drafts \subseteq [up : BOOLEAN, source : Folder, include : BOOLEAN,
                       links : {"skip", "copy", "dereference"}]
  \* the destination base is a folder a pane shows
  /\ \A before \in Foreign : <<>> \in DOMAIN before /\ before[<<>>] = "folder"

VARIABLES
  call,    \* call[c]: how far the command is, and its plan
  place,   \* place[up]: what the destination holds; a link made by a call is the call
  queue,   \* the batches in memory: pairs of a call and a path
  rows,    \* the batches in the database
  spawned, \* the calls whose transfers were handed to their workers
  crashes

vars == <<call, place, queue, rows, spawned, crashes>>

---------------------------------------------------------------------------
NoDraft == [up |-> FALSE, source |-> "none", include |-> FALSE, links |-> "skip"]

Idle ==
  [at |-> "idle", draft |-> NoDraft, stack |-> {}, folders |-> {}, files |-> {},
   links |-> {}, todo |-> {}, here |-> <<>>]

\* with_prefix(): the source itself is named below the base, or not.
Prefix(d) == IF d.include THEN <<d.source>> ELSE <<>>

Kids(folder) == {e \in DOMAIN In : In[e] = folder}

\* The entry an upload that follows links sees in place of a link.
Seen(d, e) == IF e \in Link /\ d.links = "dereference" THEN LeadsTo[e] ELSE e

Goes(c, k) == call' = [call EXCEPT ![c] = k]

\* An early return: whatever was made at the destination stays there.
Refused(c) ==
  /\ Goes(c, [Idle EXCEPT !.at = "failed"])
  /\ UNCHANGED <<place, queue, rows, spawned, crashes>>

Plans(c, k) ==
  /\ Goes(c, k)
  /\ UNCHANGED <<place, queue, rows, spawned, crashes>>

---------------------------------------------------------------------------
(* Planning.                                                               *)

\* A directory transfer begins: the source is looked at first.
Begin(c) ==
  /\ call[c].at \in {"idle", "failed"}
  /\ \A job \in queue : job[1] # c
  /\ \E d \in Drafts :
       Plans(c, [Idle EXCEPT !.at = "plan", !.draft = d,
                             !.stack = {[dir |-> d.source, path |-> Prefix(d), depth |-> 0]}])

\* What listing one folder adds to the plan.
Below(k, item, kind) ==
  {Append(item.path, e) : e \in {x \in Kids(item.dir) : Seen(k.draft, x) \in kind}}

Listed(k, item) ==
  [k EXCEPT !.stack = (@ \ {item}) \cup
               {[dir |-> Seen(k.draft, e), path |-> Append(item.path, e),
                 depth |-> item.depth + 1] :
                  e \in {x \in Kids(item.dir) : Seen(k.draft, x) \in Folder}},
            !.folders = @ \cup Below(k, item, Folder),
            !.files = @ \cup Below(k, item, File),
            !.links = @ \cup (IF k.draft.links = "copy" THEN Below(k, item, Link) ELSE {})]

\* The remote protocols cannot follow a link.
CannotFollow(k, item) ==
  ~k.draft.up /\ k.draft.links = "dereference" /\ Kids(item.dir) \cap Link # {}

TooDeep(item) == item.depth > MaxDepth

TooMany(k) == Cardinality(k.files) > MaxFiles

(* Mutant of ListFolder: folders too deep are left out. *)
ListFolderInReach(c) ==
  /\ call[c].at = "plan"
  /\ \E item \in call[c].stack :
       LET k == Listed(call[c], item)
       IN  IF CannotFollow(call[c], item) \/ TooMany(k) THEN Refused(c)
           ELSE Plans(c, IF TooDeep(item) THEN [call[c] EXCEPT !.stack = @ \ {item}] ELSE k)

\* One folder is read.
ListFolder(c) ==
  /\ call[c].at = "plan"
  /\ \E item \in call[c].stack :
       LET k == Listed(call[c], item)
       IN  IF TooDeep(item) \/ CannotFollow(call[c], item) \/ TooMany(k)
           THEN Refused(c)
           ELSE Plans(c, k)

Ancestors(p) == {SubSeq(p, 1, n) : n \in 1..(Len(p) - 1)}

\* build_plan(): the folders to make are those found, the root when it is
\* named, and every folder above a folder, a file or a link.
Needed(k) ==
  LET named == IF k.draft.include THEN {Prefix(k.draft)} ELSE {}
      above == UNION {Ancestors(p) : p \in k.folders \cup k.files \cup k.links}
  IN  named \cup k.folders \cup above

\* An empty plan is refused.
BuildPlan(c) ==
  /\ call[c].at = "plan"
  /\ call[c].stack = {}
  /\ LET needed == Needed(call[c])
     IN  IF needed \cup call[c].files \cup call[c].links = {}
         THEN Refused(c)
         ELSE Plans(c, [call[c] EXCEPT !.at = "folders", !.todo = needed])

---------------------------------------------------------------------------
(* Preparing the destination.                                              *)

Up(c) == call[c].draft.up

Exists(up, p) == p \in DOMAIN place[up]

HasFolder(up, p) == Exists(up, p) /\ place[up][p] = "folder"

Makes(c, paths, what) ==
  /\ place' = [place EXCEPT ![Up(c)] =
                 [p \in DOMAIN @ \cup paths |-> IF p \in paths THEN what ELSE @[p]]]
  /\ UNCHANGED <<queue, rows, spawned, crashes>>

\* The shallowest folders come first.
Shallowest(todo) == {p \in todo : \A q \in todo : Len(p) <= Len(q)}

Done(c, p) == [call[c] EXCEPT !.at = "folders", !.todo = @ \ {p}]

\* ensure_remote_directories(): an entry that exists is passed over, whatever
\* it is; otherwise the folder is made in a later step.
LookForFolder(c) ==
  /\ call[c].at = "folders"
  /\ Up(c)
  /\ \E p \in Shallowest(call[c].todo) :
       Plans(c, IF Exists(Up(c), p) THEN Done(c, p)
                ELSE [call[c] EXCEPT !.at = "folder", !.here = p])

(* Mutant of MakeFolder: every error is taken for a folder that exists. *)
MakeFolderOrNot(c) ==
  /\ call[c].at = "folder"
  /\ LET p == call[c].here
     IN  \/ /\ ~Exists(Up(c), p) /\ HasFolder(Up(c), Front(p))
            /\ Goes(c, Done(c, p)) /\ Makes(c, {p}, "folder")
         \/ Plans(c, Done(c, p))

\* Neither protocol tells that the folder exists by now, so that is an error
\* like a missing parent.
MakeFolder(c) ==
  /\ call[c].at = "folder"
  /\ LET p == call[c].here
     IN  IF ~Exists(Up(c), p) /\ HasFolder(Up(c), Front(p))
         THEN Goes(c, Done(c, p)) /\ Makes(c, {p}, "folder")
         ELSE Refused(c)

\* ensure_local_directories(): create_dir_all makes what is missing above too.
MakeLocalFolder(c) ==
  /\ call[c].at = "folders"
  /\ ~Up(c)
  /\ \E p \in Shallowest(call[c].todo) :
       LET line == Ancestors(p) \cup {p}
       IN  IF \A q \in line : Exists(Up(c), q) => HasFolder(Up(c), q)
           THEN /\ Goes(c, Done(c, p))
                /\ Makes(c, {q \in line : ~Exists(Up(c), q)}, "folder")
           ELSE Refused(c)

FoldersAreMade(c) ==
  /\ call[c].at = "folders"
  /\ call[c].todo = {}
  /\ Plans(c, [call[c] EXCEPT !.at = "links", !.todo = call[c].links])

\* A link at the destination is never replaced: anything there is an error.
LookForLink(c) ==
  /\ call[c].at = "links"
  /\ Up(c)
  /\ \E p \in call[c].todo :
       IF Exists(Up(c), p) THEN Refused(c)
       ELSE Plans(c, [call[c] EXCEPT !.at = "link", !.here = p])

(* Mutant of Linked: a link replaces what is there. *)
LinkedOver(c, p) ==
  IF HasFolder(Up(c), Front(p))
  THEN /\ Goes(c, [call[c] EXCEPT !.at = "links", !.todo = @ \ {p}])
       /\ Makes(c, {p}, c)
  ELSE Refused(c)

Linked(c, p) ==
  IF ~Exists(Up(c), p) /\ HasFolder(Up(c), Front(p))
  THEN /\ Goes(c, [call[c] EXCEPT !.at = "links", !.todo = @ \ {p}])
       /\ Makes(c, {p}, c)
  ELSE Refused(c)

MakeLink(c) == call[c].at = "link" /\ Linked(c, call[c].here)

MakeLocalLink(c) ==
  /\ call[c].at = "links"
  /\ ~Up(c)
  /\ \E p \in call[c].todo : Linked(c, p)

\* A listing, a look, a creation or the whole scan of a download fails.
StepFails(c) ==
  /\ call[c].at \in {"plan", "folders", "folder", "links", "link"}
  /\ Refused(c)

---------------------------------------------------------------------------
(* Queueing.                                                               *)

Batch(c) == {c} \X call[c].files

(* Mutant of Enqueue: the workers start before the rows are written. *)
EnqueueAndSpawn(c) ==
  /\ call[c].at = "links"
  /\ call[c].todo = {}
  /\ Goes(c, [call[c] EXCEPT !.at = "queued"])
  /\ queue' = queue \cup Batch(c)
  /\ spawned' = spawned \cup {c}
  /\ UNCHANGED <<place, rows, crashes>>

\* Every job of the batch joins the queue under one lock.
Enqueue(c) ==
  /\ call[c].at = "links"
  /\ call[c].todo = {}
  /\ Goes(c, [call[c] EXCEPT !.at = "queued"])
  /\ queue' = queue \cup Batch(c)
  /\ UNCHANGED <<place, rows, spawned, crashes>>

\* persist_transfer_jobs(): one transaction, then the workers are spawned.
Persist(c) ==
  /\ call[c].at = "queued"
  /\ rows' = rows \cup Batch(c)
  /\ spawned' = spawned \cup {c}
  /\ Goes(c, [call[c] EXCEPT !.at = "done"])
  /\ UNCHANGED <<place, queue, crashes>>

\* The transaction fails: the command fails, the jobs stay in the queue.
PersistFails(c) ==
  /\ call[c].at = "queued"
  /\ Goes(c, [call[c] EXCEPT !.at = "failed"])
  /\ UNCHANGED <<place, queue, rows, spawned, crashes>>

\* The application stops and starts: the queue is loaded from the rows.
Restart ==
  /\ crashes < MaxCrashes
  /\ crashes' = crashes + 1
  /\ call' = [c \in Calls |-> IF call[c].at = "done" THEN call[c] ELSE Idle]
  /\ queue' = rows
  /\ UNCHANGED <<place, rows, spawned>>

---------------------------------------------------------------------------
Init ==
  /\ call = [c \in Calls |-> Idle]
  /\ \E before \in Foreign : place = [up \in BOOLEAN |-> before]
  /\ queue = {}
  /\ rows = {}
  /\ spawned = {}
  /\ crashes = 0

CallStep(c) ==
  \/ ListFolder(c)
  \/ BuildPlan(c)
  \/ LookForFolder(c)
  \/ MakeFolder(c)
  \/ MakeLocalFolder(c)
  \/ FoldersAreMade(c)
  \/ LookForLink(c)
  \/ MakeLink(c)
  \/ MakeLocalLink(c)
  \/ StepFails(c)
  \/ Enqueue(c)
  \/ Persist(c)
  \/ PersistFails(c)

Next == Restart \/ \E c \in Calls : Begin(c) \/ CallStep(c)

Spec == Init /\ [][Next]_vars

---------------------------------------------------------------------------
(* Properties.                                                             *)

Planned(c) == call[c].at \in {"folders", "folder", "links", "link", "queued", "done"}

\* The folders of the source by depth, each with its path in the plan.
FoldersAt(d) ==
  LET at[n \in 0..(MaxDepth + 1)] ==
        IF n = 0 THEN {[dir |-> d.source, path |-> Prefix(d)]}
        ELSE LET above == at[n - 1]
             IN  UNION {{[dir |-> Seen(d, e), path |-> Append(f.path, e)] :
                           e \in {x \in Kids(f.dir) : Seen(d, x) \in Folder}} : f \in above}
  IN  at

Holds(d, kind) ==
  UNION {{Append(f.path, e) : e \in {x \in Kids(f.dir) : Seen(d, x) \in kind}} :
           f \in UNION {FoldersAt(d)[n] : n \in 0..MaxDepth}}

\* A plan that is carried out is the whole source: each file, link and folder
\* once, in its place, nothing cut off by the limits, whatever the order of
\* the walk and wherever followed links lead (a loop refuses the plan).
PlanIsWhole ==
  \A c \in Calls :
    Planned(c) =>
      LET d == call[c].draft IN
      /\ call[c].files = Holds(d, File)
      /\ call[c].links = (IF d.links = "copy" THEN Holds(d, Link) ELSE {})
      /\ call[c].folders = Holds(d, Folder)
      /\ FoldersAt(d)[MaxDepth + 1] = {}

\* What a job of the call needs in place of the path: a download makes sure
\* that it is a folder, an upload passes over whatever stands there.
Stands(c, p) == Exists(Up(c), p) /\ (Up(c) \/ HasFolder(Up(c), p))

\* The folder every queued job writes into was made before the job was queued;
\* only for an upload, something else with its name may stand there instead.
JobsHaveFolders == \A job \in queue : Stands(job[1], Front(job[2]))

\* A batch is queued and stored whole or not at all, through failures and
\* restarts, and no worker runs for a transfer that a restart would forget.
WholeBatch ==
  \A c \in Calls :
    /\ {job \in queue : job[1] = c} \in {{}, Batch(c)}
    /\ {job \in rows : job[1] = c} \in {{}, Batch(c)}
    /\ c \in spawned => Batch(c) \subseteq rows \cap queue

\* The links of a batch that is queued are its own: none was already there and
\* none was made by another transfer that looked at the same time.
LinksAreItsOwn ==
  \A c \in Calls :
    call[c].at \in {"queued", "done"} =>
      \A p \in call[c].links : Exists(Up(c), p) /\ place[Up(c)][p] = c
=============================================================================
