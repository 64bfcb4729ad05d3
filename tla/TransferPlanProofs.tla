-------------------------- MODULE TransferPlanProofs --------------------------
(***************************************************************************)
(* Theorems about the transfers of directories, for any source, any number *)
(* of commands, anything the destination holds before and any failures and *)
(* restarts.                                                               *)
(***************************************************************************)
EXTENDS TransferPlan, SequenceTheorems, WellFoundedInduction, TLAPS

Names == DOMAIN In \cup Folder \cup {"none"}

Paths == Seq(Names)

States == {"idle", "plan", "folders", "folder", "links", "link", "queued", "done", "failed"}

Wanted == [up : BOOLEAN, source : Folder \cup {"none"}, include : BOOLEAN,
           links : {"skip", "copy", "dereference"}]

Item == [dir : Folder, path : Paths, depth : Nat]

Call == [at : States, draft : Wanted, stack : SUBSET Item, folders : SUBSET Paths,
         files : SUBSET (Paths \ {<<>>}), links : SUBSET Paths, todo : SUBSET Paths,
         here : Paths]

CallTypes == call \in [Calls -> Call]

(* Only an upload looks before it makes something.                         *)
WayInv == \A c \in Calls : call[c].at \in {"folder", "link"} => Up(c)

PlaceTypes == /\ DOMAIN place = BOOLEAN
              /\ \A up \in BOOLEAN : HasFolder(up, <<>>)

(* The folders a plan needs are made before anything else is.              *)
FolderInv == \A c \in Calls : \A p \in Needed(call[c]) :
  /\ call[c].at \in {"folders", "folder"} => p \in call[c].todo \/ Stands(c, p)
  /\ call[c].at \in {"links", "link", "queued", "done", "failed"} => Stands(c, p)

Own(c, p) == Exists(Up(c), p) /\ place[Up(c)][p] = c

LinkInv == \A c \in Calls : \A p \in call[c].links :
  /\ call[c].at \in {"links", "link"} => p \in call[c].todo \/ Own(c, p)
  /\ call[c].at \in {"queued", "done"} => Own(c, p)

JobsOf(c, jobs) == {job \in jobs : job[1] = c}

(* What memory, the database and the workers have of a call.               *)
JobsOK(c) ==
  /\ call[c].at \notin {"queued", "done", "failed"} => JobsOf(c, queue) = {}
  /\ call[c].at \in {"queued", "done"} => JobsOf(c, queue) = Batch(c)
  /\ call[c].at = "failed" => JobsOf(c, queue) \in {{}, Batch(c)}
  /\ JobsOf(c, rows) = IF call[c].at = "done" THEN Batch(c) ELSE {}
  /\ c \in spawned => call[c].at = "done"

QueueInv == /\ \A job \in queue \cup rows : job[1] \in Calls
            /\ \A c \in Calls : JobsOK(c)

Inv == CallTypes /\ WayInv /\ PlaceTypes /\ FolderInv /\ LinkInv /\ QueueInv

-----------------------------------------------------------------------------
(* Paths and plans. *)

LEMMA IdleIsCall == Idle \in Call
  <1>1. <<>> \in Paths
    BY DEF Paths
  <1>2. NoDraft \in Wanted
    BY DEF NoDraft, Wanted
  <1>. QED  BY <1>1, <1>2 DEF Idle, Call, States

LEMMA IdleNeedsNothing ==
  ASSUME NEW at
  PROVE  /\ Needed([Idle EXCEPT !.at = at]) = {} /\ Needed(Idle) = {}
         /\ [Idle EXCEPT !.at = at].links = {} /\ [Idle EXCEPT !.at = at].files = {}
         /\ [Idle EXCEPT !.at = at].at = at
         /\ Idle.links = {} /\ Idle.files = {} /\ Idle.at = "idle"
  BY DEF Needed, Idle, NoDraft, Ancestors

(* What a plan needs does not depend on how far the command is.            *)
LEMMA SamePlan ==
  ASSUME NEW k, NEW j, k.draft = j.draft, k.folders = j.folders, k.files = j.files,
         k.links = j.links
  PROVE  Needed(k) = Needed(j)
  BY DEF Needed, Prefix

LEMMA FrontIsNeeded ==
  ASSUME NEW k \in Call, NEW p \in k.files
  PROVE  Front(p) = <<>> \/ Front(p) \in Needed(k)
  <1>1. p \in Seq(Names) /\ p # <<>>
    BY DEF Call, Paths
  <1>2. CASE Len(p) = 1
    BY <1>1, <1>2 DEF Front
  <1>3. CASE Len(p) # 1
    <2> DEFINE n == Len(p)
    <2>1. n \in Nat \ {0, 1}
      BY <1>1, <1>3, EmptySeq
    <2> HIDE DEF n
    <2>2. n - 1 \in 1..(n - 1)
      BY <2>1
    <2>3. Front(p) \in Ancestors(p)
      BY <2>2 DEF Front, Ancestors, n
    <2>. QED  BY <2>3 DEF Needed
  <1>. QED  BY <1>2, <1>3

LEMMA PrefixIsPath ==
  ASSUME NEW d \in Wanted
  PROVE  Prefix(d) \in Paths
  <1>1. d.source \in Names
    BY DEF Wanted, Names
  <1>2. <<d.source>> \in Paths /\ <<>> \in Paths
    BY <1>1 DEF Paths
  <1>. QED  BY <1>2 DEF Prefix

LEMMA AncestorsArePaths ==
  ASSUME NEW p \in Paths
  PROVE  Ancestors(p) \subseteq Paths
  <1> SUFFICES ASSUME NEW n \in 1..(Len(p) - 1)
               PROVE  SubSeq(p, 1, n) \in Paths
    BY DEF Ancestors
  <1>. QED  BY DEF Paths

LEMMA NeededArePaths ==
  ASSUME NEW k \in Call
  PROVE  Needed(k) \subseteq Paths
  <1>1. k.folders \subseteq Paths /\ k.files \subseteq Paths /\ k.links \subseteq Paths
        /\ k.draft \in Wanted
    BY DEF Call
  <1>2. UNION {Ancestors(p) : p \in k.folders \cup k.files \cup k.links} \subseteq Paths
    BY <1>1, AncestorsArePaths
  <1>. QED  BY <1>1, <1>2, PrefixIsPath DEF Needed

LEMMA ListedIsCall ==
  ASSUME NEW k \in Call, NEW item \in k.stack
  PROVE  Listed(k, item) \in Call
  <1>1. item \in Item /\ item.path \in Paths /\ item.depth \in Nat
    BY DEF Call, Item
  <1>2. ASSUME NEW e \in Kids(item.dir)
        PROVE  Append(item.path, e) \in Paths \ {<<>>}
    <2>1. e \in Names /\ item.path \in Seq(Names)
      BY <1>1, <1>2 DEF Kids, Names, Paths
    <2>. QED  BY <2>1 DEF Paths
  <1>3. ASSUME NEW kind
        PROVE  Below(k, item, kind) \subseteq Paths \ {<<>>}
    BY <1>2 DEF Below
  <1> DEFINE more == {[dir |-> Seen(k.draft, e), path |-> Append(item.path, e),
                       depth |-> item.depth + 1] :
                        e \in {x \in Kids(item.dir) : Seen(k.draft, x) \in Folder}}
  <1>4. more \subseteq Item
    <2> SUFFICES ASSUME NEW e, e \in Kids(item.dir), Seen(k.draft, e) \in Folder
                 PROVE  [dir |-> Seen(k.draft, e), path |-> Append(item.path, e),
                         depth |-> item.depth + 1] \in Item
      OBVIOUS
    <2>. QED  BY <1>1, <1>2 DEF Item
  <1> HIDE DEF more
  <1>5. Listed(k, item) =
          [k EXCEPT !.stack = (k.stack \ {item}) \cup more,
                    !.folders = k.folders \cup Below(k, item, Folder),
                    !.files = k.files \cup Below(k, item, File),
                    !.links = k.links \cup
                      (IF k.draft.links = "copy" THEN Below(k, item, Link) ELSE {})]
    BY DEF Listed, more
  <1>6. /\ (k.stack \ {item}) \cup more \in SUBSET Item
        /\ k.folders \cup Below(k, item, Folder) \in SUBSET Paths
        /\ k.files \cup Below(k, item, File) \in SUBSET (Paths \ {<<>>})
        /\ k.links \cup (IF k.draft.links = "copy" THEN Below(k, item, Link) ELSE {})
             \in SUBSET Paths
    BY <1>3, <1>4 DEF Call
  <1>. QED  BY <1>5, <1>6 DEF Call

-----------------------------------------------------------------------------
(* What a step leaves as it was. *)

LEMMA GoesTo ==
  ASSUME CallTypes, NEW c \in Calls, NEW k, Goes(c, k)
  PROVE  /\ call'[c] = k /\ \A b \in Calls : b # c => call'[b] = call[b]
         /\ k \in Call => CallTypes'
  BY DEF CallTypes, Goes

(* Nothing at the destination is removed or replaced.                      *)
Grows == /\ DOMAIN place' = BOOLEAN
         /\ \A up \in BOOLEAN : \A p \in DOMAIN place[up] :
              p \in DOMAIN place'[up] /\ place'[up][p] = place[up][p]

LEMMA PlaceGrows ==
  ASSUME PlaceTypes, Grows
  PROVE  PlaceTypes'
  BY DEF PlaceTypes, Grows, HasFolder, Exists

LEMMA SamePlace ==
  ASSUME PlaceTypes, UNCHANGED place
  PROVE  Grows
  BY DEF PlaceTypes, Grows

LEMMA MakesGrows ==
  ASSUME CallTypes, PlaceTypes, NEW c \in Calls, NEW paths, NEW what, Makes(c, paths, what),
         \A p \in paths : ~Exists(Up(c), p)
  PROVE  /\ Grows
         /\ \A p \in paths : p \in DOMAIN place'[Up(c)] /\ place'[Up(c)][p] = what
  <1>1. Up(c) \in BOOLEAN
    BY DEF CallTypes, Call, Wanted, Up
  <1>2. place' = [place EXCEPT ![Up(c)] =
                    [p \in DOMAIN place[Up(c)] \cup paths |->
                       IF p \in paths THEN what ELSE place[Up(c)][p]]]
    BY DEF Makes
  <1> DEFINE up == Up(c)
             new == [p \in DOMAIN place[up] \cup paths |->
                       IF p \in paths THEN what ELSE place[up][p]]
  <1>3. /\ DOMAIN place' = BOOLEAN /\ place'[up] = new
        /\ \A b \in BOOLEAN : b # up => place'[b] = place[b]
    BY <1>1, <1>2 DEF PlaceTypes
  <1>4. \A p \in DOMAIN place[up] : p \in DOMAIN new /\ new[p] = place[up][p]
    BY DEF Exists
  <1>5. \A p \in paths : p \in DOMAIN new /\ new[p] = what
    OBVIOUS
  <1> HIDE DEF new, up
  <1>6. Grows
    BY <1>3, <1>4 DEF Grows
  <1>. QED  BY <1>3, <1>5, <1>6 DEF up

LEMMA Stays ==
  ASSUME CallTypes, PlaceTypes, Grows, NEW c \in Calls, NEW p,
         call'[c].draft = call[c].draft
  PROVE  /\ Stands(c, p) => Stands(c, p)'
         /\ Own(c, p) => Own(c, p)'
  <1>1. Up(c)' = Up(c) /\ Up(c) \in BOOLEAN
    BY DEF CallTypes, Call, Wanted, Up
  <1>2. \A up \in BOOLEAN : Exists(up, p) =>
          p \in DOMAIN place'[up] /\ place'[up][p] = place[up][p]
    BY DEF Grows, Exists
  <1>3. Stands(c, p) => Stands(c, p)'
    BY <1>1, <1>2 DEF Stands, HasFolder, Exists
  <1>4. Own(c, p) => Own(c, p)'
    BY <1>1, <1>2 DEF Own, Exists
  <1>. QED  BY <1>3, <1>4

FoldersOK(c) == \A p \in Needed(call[c]) :
  /\ call[c].at \in {"folders", "folder"} => p \in call[c].todo \/ Stands(c, p)
  /\ call[c].at \in {"links", "link", "queued", "done", "failed"} => Stands(c, p)

LinksOK(c) == \A p \in call[c].links :
  /\ call[c].at \in {"links", "link"} => p \in call[c].todo \/ Own(c, p)
  /\ call[c].at \in {"queued", "done"} => Own(c, p)

PlaceInv == FolderInv /\ LinkInv

LEMMA PlaceInvParts == PlaceInv <=> \A c \in Calls : FoldersOK(c) /\ LinksOK(c)
  BY DEF PlaceInv, FolderInv, LinkInv, FoldersOK, LinksOK

(* A call that is where it was keeps what it has.                          *)
LEMMA CallStays ==
  ASSUME CallTypes, PlaceTypes, Grows, NEW b \in Calls, FoldersOK(b), LinksOK(b),
         call'[b] = call[b]
  PROVE  FoldersOK(b)' /\ LinksOK(b)'
  BY Stays DEF FoldersOK, LinksOK

LEMMA OneCall ==
  ASSUME CallTypes, PlaceTypes, PlaceInv, Grows, NEW c \in Calls,
         \A b \in Calls : b # c => call'[b] = call[b],
         FoldersOK(c)', LinksOK(c)'
  PROVE  PlaceInv'
  <1>1. \A b \in Calls : (FoldersOK(b) /\ LinksOK(b))'
    BY PlaceInvParts, CallStays
  <1>. QED  BY <1>1 DEF PlaceInv, FolderInv, LinkInv, FoldersOK, LinksOK

(* The jobs of a call change only with the call.                           *)
LEMMA JobsStay ==
  ASSUME QueueInv, NEW c \in Calls, \A b \in Calls : b # c => call'[b] = call[b],
         UNCHANGED <<queue, rows, spawned>>, JobsOK(c)'
  PROVE  QueueInv'
  <1>1. ASSUME NEW b \in Calls, b # c
        PROVE  JobsOK(b)'
    BY <1>1 DEF QueueInv, JobsOK, Batch
  <1>. QED  BY <1>1 DEF QueueInv
-----------------------------------------------------------------------------
(* The steps of a command before its batch is queued. *)

LEMMA EarlyStep ==
  ASSUME Inv, NEW c \in Calls, NEW k \in Call, Goes(c, k), UNCHANGED <<queue, rows, spawned>>,
         Grows, call[c].at # "done", JobsOf(c, queue) = {}, k.at \notin {"queued", "done"},
         k.at \in {"folder", "link"} => k.draft.up, FoldersOK(c)', LinksOK(c)'
  PROVE  Inv'
  <1>1. CallTypes /\ PlaceTypes /\ PlaceInv /\ QueueInv
    BY DEF Inv, PlaceInv
  <1>2. CallTypes' /\ call'[c] = k /\ \A b \in Calls : b # c => call'[b] = call[b]
    BY <1>1, GoesTo
  <1>3. PlaceTypes' /\ PlaceInv'
    BY <1>1, <1>2, PlaceGrows, OneCall
  <1>4. JobsOK(c)'
    BY <1>1, <1>2 DEF QueueInv, JobsOK
  <1>5. QueueInv'
    BY <1>1, <1>2, <1>4, JobsStay
  <1>6. WayInv'
    BY <1>2 DEF Inv, WayInv, Up
  <1>. QED  BY <1>2, <1>3, <1>5, <1>6 DEF Inv, PlaceInv

LEMMA NoJobsYet ==
  ASSUME Inv, NEW c \in Calls, call[c].at \notin {"queued", "done", "failed"}
  PROVE  JobsOf(c, queue) = {} /\ call[c].at # "done"
  BY DEF Inv, QueueInv, JobsOK

LEMMA RefusedStep ==
  ASSUME Inv, NEW c \in Calls, Refused(c), call[c].at \notin {"queued", "done", "failed"}
  PROVE  Inv'
  <1> DEFINE k == [Idle EXCEPT !.at = "failed"]
  <1>1. /\ Goes(c, k) /\ UNCHANGED <<queue, rows, spawned>> /\ Grows /\ CallTypes
        /\ JobsOf(c, queue) = {} /\ call[c].at # "done"
    BY NoJobsYet, SamePlace DEF Refused, Inv
  <1>2. /\ k \in Call /\ Needed(k) = {} /\ k.links = {} /\ k.at = "failed"
    BY IdleIsCall, IdleNeedsNothing DEF Call, States
  <1> HIDE DEF k
  <1>3. FoldersOK(c)' /\ LinksOK(c)'
    BY <1>1, <1>2, GoesTo DEF FoldersOK, LinksOK
  <1>. QED  BY <1>1, <1>2, <1>3, EarlyStep

(* A step that looks or plans, and changes nothing but the plan.           *)
LEMMA PlansStep ==
  ASSUME Inv, NEW c \in Calls, NEW k \in Call, Plans(c, k), call[c].at # "done",
         JobsOf(c, queue) = {}, k.at \notin {"queued", "done"},
         k.at \in {"folder", "link"} => k.draft.up, FoldersOK(c)', LinksOK(c)'
  PROVE  Inv'
  <1>1. Goes(c, k) /\ UNCHANGED <<queue, rows, spawned>> /\ Grows
    BY SamePlace DEF Plans, Inv
  <1>. QED  BY <1>1, EarlyStep

LEMMA BeginStep ==
  ASSUME Inv, NEW c \in Calls, Begin(c)
  PROVE  Inv'
  <1>1. PICK d \in Drafts :
          Plans(c, [Idle EXCEPT !.at = "plan", !.draft = d,
                                !.stack = {[dir |-> d.source, path |-> Prefix(d), depth |-> 0]}])
    BY DEF Begin
  <1> DEFINE root == [dir |-> d.source, path |-> Prefix(d), depth |-> 0]
             k == [Idle EXCEPT !.at = "plan", !.draft = d, !.stack = {root}]
  <1>2. d \in Wanted /\ d.source \in Folder
    BY PlanAssumption DEF Wanted
  <1>3. root \in Item
    BY <1>2, PrefixIsPath DEF Item
  <1> HIDE DEF root
  <1>4. k \in Call /\ k.at = "plan"
    BY <1>2, <1>3, IdleIsCall DEF Call, States
  <1>5. JobsOf(c, queue) = {} /\ call[c].at # "done"
    BY DEF Begin, JobsOf
  <1>6. Plans(c, k)
    BY <1>1 DEF root
  <1> HIDE DEF k
  <1>7. FoldersOK(c)' /\ LinksOK(c)'
    BY <1>4, <1>6, GoesTo DEF FoldersOK, LinksOK, Plans, Inv
  <1>. QED  BY <1>4, <1>5, <1>6, <1>7, PlansStep

LEMMA ListFolderStep ==
  ASSUME Inv, NEW c \in Calls, ListFolder(c)
  PROVE  Inv'
  <1>1. call[c].at = "plan" /\ call[c] \in Call
    BY DEF ListFolder, Inv, CallTypes
  <1>2. PICK item \in call[c].stack : Refused(c) \/ Plans(c, Listed(call[c], item))
    BY DEF ListFolder
  <1>3. CASE Refused(c)
    BY <1>1, <1>3, RefusedStep
  <1>4. CASE Plans(c, Listed(call[c], item))
    <2> DEFINE k == Listed(call[c], item)
    <2>1. k \in Call
      BY <1>1, ListedIsCall
    <2>2. k.at = "plan"
      BY <1>1 DEF Listed, Call
    <2>3. Plans(c, k)
      BY <1>4
    <2> HIDE DEF k
    <2>4. FoldersOK(c)' /\ LinksOK(c)'
      BY <2>2, <2>3, GoesTo DEF FoldersOK, LinksOK, Plans, Inv
    <2>. QED  BY <1>1, <2>1, <2>2, <2>3, <2>4, NoJobsYet, PlansStep
  <1>. QED  BY <1>2, <1>3, <1>4

LEMMA BuildPlanStep ==
  ASSUME Inv, NEW c \in Calls, BuildPlan(c)
  PROVE  Inv'
  <1> DEFINE needed == Needed(call[c])
             k == [call[c] EXCEPT !.at = "folders", !.todo = needed]
  <1>1. call[c].at = "plan" /\ call[c] \in Call
    BY DEF BuildPlan, Inv, CallTypes
  <1>2. Refused(c) \/ Plans(c, k)
    BY DEF BuildPlan
  <1>3. CASE Refused(c)
    BY <1>1, <1>3, RefusedStep
  <1>4. CASE Plans(c, k)
    <2>1. needed \subseteq Paths
      BY <1>1, NeededArePaths
    <2> HIDE DEF needed
    <2>2. k \in Call /\ k.at = "folders" /\ k.todo = needed
      BY <1>1, <2>1 DEF Call, States
    <2>3. Needed(k) = needed
      BY <1>1, SamePlan DEF Call, needed
    <2>4. Plans(c, k)
      BY <1>4
    <2> HIDE DEF k
    <2>5. FoldersOK(c)' /\ LinksOK(c)'
      BY <2>2, <2>3, <2>4, GoesTo DEF FoldersOK, LinksOK, Plans, Inv
    <2>. QED  BY <1>1, <2>2, <2>4, <2>5, NoJobsYet, PlansStep
  <1>. QED  BY <1>2, <1>3, <1>4

(* A folder that is needed stands, whoever made it.                        *)
LEMMA FolderDone ==
  ASSUME Inv, NEW c \in Calls, NEW p, call[c].at \in {"folders", "folder"}, Goes(c, Done(c, p)),
         Grows, UNCHANGED <<queue, rows, spawned>>,
         p \in DOMAIN place'[Up(c)], Up(c) \/ place'[Up(c)][p] = "folder"
  PROVE  Inv'
  <1> DEFINE k == Done(c, p)
  <1>1. call[c] \in Call /\ CallTypes /\ PlaceTypes
    BY DEF Inv, CallTypes
  <1>2. /\ k \in Call /\ k.at = "folders" /\ k.todo = call[c].todo \ {p}
        /\ k.draft = call[c].draft
    BY <1>1 DEF Done, Call, States
  <1>3. Needed(k) = Needed(call[c])
    BY <1>1, SamePlan DEF Done, Call
  <1>4. Goes(c, k)
    OBVIOUS
  <1> HIDE DEF k
  <1>5. call'[c] = k
    BY <1>1, <1>4, GoesTo
  <1>6. Stands(c, p)'
    BY <1>2, <1>5 DEF Stands, Up, HasFolder, Exists
  <1>7. FoldersOK(c)'
    <2> SUFFICES ASSUME NEW q \in Needed(call[c])
                 PROVE  q \in k.todo \/ Stands(c, q)'
      BY <1>2, <1>3, <1>5 DEF FoldersOK
    <2>1. q \in call[c].todo \/ Stands(c, q)
      BY DEF Inv, FolderInv
    <2>. QED  BY <1>1, <1>2, <1>5, <1>6, <2>1, Stays
  <1>8. LinksOK(c)'
    BY <1>2, <1>5 DEF LinksOK
  <1>. QED  BY <1>2, <1>4, <1>7, <1>8, NoJobsYet, EarlyStep

(* A call that goes on with the same plan and the same entries to make.    *)
LEMMA SameTodo ==
  ASSUME Inv, NEW c \in Calls, NEW at \in States, NEW p \in Paths, Up(c),
         Plans(c, [call[c] EXCEPT !.at = at, !.here = p]),
         \/ call[c].at = "folders" /\ at = "folder"
         \/ call[c].at = "links" /\ at = "link"
  PROVE  Inv'
  <1> DEFINE k == [call[c] EXCEPT !.at = at, !.here = p]
  <1>1. call[c] \in Call /\ CallTypes /\ PlaceTypes
    BY DEF Inv, CallTypes
  <1>2. /\ k \in Call /\ k.at = at /\ k.todo = call[c].todo /\ k.links = call[c].links
        /\ k.draft = call[c].draft
    BY <1>1 DEF Call
  <1>3. Needed(k) = Needed(call[c])
    BY <1>1, SamePlan DEF Call
  <1>4. Plans(c, k)
    OBVIOUS
  <1> HIDE DEF k
  <1>5. call'[c] = k /\ Grows
    BY <1>1, <1>4, GoesTo, SamePlace DEF Plans
  <1>6. FoldersOK(c)'
    BY <1>1, <1>2, <1>3, <1>5, Stays DEF FoldersOK, Inv, FolderInv
  <1>7. LinksOK(c)'
    BY <1>1, <1>2, <1>5, Stays DEF LinksOK, Inv, LinkInv
  <1>. QED  BY <1>2, <1>4, <1>6, <1>7, NoJobsYet, PlansStep DEF Up

LEMMA LookForFolderStep ==
  ASSUME Inv, NEW c \in Calls, LookForFolder(c)
  PROVE  Inv'
  <1>1. call[c].at = "folders" /\ Up(c) /\ call[c] \in Call
    BY DEF LookForFolder, Inv, CallTypes
  <1>2. PICK p \in Shallowest(call[c].todo) :
          Plans(c, IF Exists(Up(c), p) THEN Done(c, p)
                   ELSE [call[c] EXCEPT !.at = "folder", !.here = p])
    BY DEF LookForFolder
  <1>3. CASE Exists(Up(c), p)
    <2>1. Goes(c, Done(c, p)) /\ UNCHANGED <<place, queue, rows, spawned>>
      BY <1>2, <1>3 DEF Plans
    <2>2. Grows
      BY <2>1, SamePlace DEF Inv
    <2>3. p \in DOMAIN place'[Up(c)]
      BY <1>3, <2>1 DEF Exists
    <2>4. Up(c) \/ place'[Up(c)][p] = "folder"
      BY <1>1
    <2>5. call[c].at \in {"folders", "folder"} /\ UNCHANGED <<queue, rows, spawned>>
      BY <1>1, <2>1
    <2>6. Goes(c, Done(c, p))
      BY <2>1
    <2>. QED  BY <2>2, <2>3, <2>4, <2>5, <2>6, FolderDone
  <1>4. CASE ~Exists(Up(c), p)
    <2>1. p \in Paths /\ "folder" \in States
      BY <1>1 DEF Shallowest, Call, States
    <2>2. Plans(c, [call[c] EXCEPT !.at = "folder", !.here = p])
      BY <1>2, <1>4
    <2>. QED  BY <1>1, <2>1, <2>2, SameTodo
  <1>. QED  BY <1>3, <1>4

LEMMA MakeFolderStep ==
  ASSUME Inv, NEW c \in Calls, MakeFolder(c)
  PROVE  Inv'
  <1> DEFINE p == call[c].here
  <1>1. call[c].at = "folder" /\ CallTypes /\ PlaceTypes
    BY DEF MakeFolder, Inv
  <1>2. CASE Refused(c)
    BY <1>1, <1>2, RefusedStep
  <1>3. CASE ~Exists(Up(c), p) /\ Goes(c, Done(c, p)) /\ Makes(c, {p}, "folder")
    <2>1. Up(c)
      BY <1>1 DEF Inv, WayInv
    <2> HIDE DEF p
    <2>4. \A q \in {p} : ~Exists(Up(c), q)
      BY <1>3
    <2>2. Grows /\ \A q \in {p} : q \in DOMAIN place'[Up(c)] /\ place'[Up(c)][q] = "folder"
      BY <1>1, <1>3, <2>4, MakesGrows
    <2>3. UNCHANGED <<queue, rows, spawned>>
      BY <1>3 DEF Makes
    <2>5. p \in DOMAIN place'[Up(c)] /\ (Up(c) \/ place'[Up(c)][p] = "folder")
      BY <2>2
    <2>. QED  BY <1>1, <1>3, <2>2, <2>3, <2>5, FolderDone
  <1>. QED  BY <1>2, <1>3 DEF MakeFolder
LEMMA MakeLocalFolderStep ==
  ASSUME Inv, NEW c \in Calls, MakeLocalFolder(c)
  PROVE  Inv'
  <1>1. call[c].at = "folders" /\ CallTypes /\ PlaceTypes
    BY DEF MakeLocalFolder, Inv
  <1>2. PICK p \in Shallowest(call[c].todo) :
          LET line == Ancestors(p) \cup {p}
          IN  IF \A q \in line : Exists(Up(c), q) => HasFolder(Up(c), q)
              THEN /\ Goes(c, Done(c, p))
                   /\ Makes(c, {q \in line : ~Exists(Up(c), q)}, "folder")
              ELSE Refused(c)
    BY DEF MakeLocalFolder
  <1> DEFINE line == Ancestors(p) \cup {p}
             missing == {q \in line : ~Exists(Up(c), q)}
  <1>3. CASE Refused(c)
    BY <1>1, <1>3, RefusedStep
  <1>4. CASE /\ \A q \in line : Exists(Up(c), q) => HasFolder(Up(c), q)
             /\ Goes(c, Done(c, p)) /\ Makes(c, missing, "folder")
    <2>1. p \in line /\ \A q \in missing : ~Exists(Up(c), q)
      OBVIOUS
    <2>2. p \in missing \/ (Exists(Up(c), p) /\ HasFolder(Up(c), p))
      BY <1>4, <2>1
    <2> HIDE DEF line, missing
    <2>3. Grows /\ \A q \in missing : q \in DOMAIN place'[Up(c)] /\ place'[Up(c)][q] = "folder"
      BY <1>1, <1>4, <2>1, MakesGrows
    <2>4. p \in DOMAIN place'[Up(c)] /\ place'[Up(c)][p] = "folder"
      <3>1. CASE p \in missing
        BY <2>3, <3>1
      <3>2. CASE Exists(Up(c), p) /\ HasFolder(Up(c), p)
        <4>1. Up(c) \in BOOLEAN
          BY <1>1 DEF CallTypes, Call, Wanted, Up
        <4>2. p \in DOMAIN place[Up(c)] /\ place[Up(c)][p] = "folder"
          BY <3>2 DEF HasFolder, Exists
        <4>. QED  BY <2>3, <4>1, <4>2 DEF Grows
      <3>. QED  BY <2>2, <3>1, <3>2
    <2>5. call[c].at \in {"folders", "folder"} /\ UNCHANGED <<queue, rows, spawned>>
      BY <1>1, <1>4 DEF Makes
    <2>6. Goes(c, Done(c, p))
      BY <1>4
    <2>7. p \in DOMAIN place'[Up(c)] /\ (Up(c) \/ place'[Up(c)][p] = "folder")
      BY <2>4
    <2>. QED  BY <2>3, <2>5, <2>6, <2>7, FolderDone
  <1>. QED  BY <1>2, <1>3, <1>4

LEMMA FoldersAreMadeStep ==
  ASSUME Inv, NEW c \in Calls, FoldersAreMade(c)
  PROVE  Inv'
  <1> DEFINE k == [call[c] EXCEPT !.at = "links", !.todo = call[c].links]
  <1>1. /\ call[c].at = "folders" /\ call[c].todo = {} /\ Plans(c, k)
        /\ call[c] \in Call /\ CallTypes /\ PlaceTypes
    BY DEF FoldersAreMade, Inv, CallTypes
  <1>2. /\ k \in Call /\ k.at = "links" /\ k.todo = call[c].links /\ k.links = call[c].links
        /\ k.draft = call[c].draft
    BY <1>1 DEF Call, States
  <1>3. Needed(k) = Needed(call[c])
    BY <1>1, SamePlan DEF Call
  <1>4. Plans(c, k)
    BY <1>1
  <1> HIDE DEF k
  <1>5. call'[c] = k /\ Grows
    BY <1>1, <1>4, GoesTo, SamePlace DEF Plans
  <1>6. FoldersOK(c)'
    BY <1>1, <1>2, <1>3, <1>5, Stays DEF FoldersOK, Inv, FolderInv
  <1>7. LinksOK(c)'
    BY <1>2, <1>5 DEF LinksOK
  <1>. QED  BY <1>1, <1>2, <1>4, <1>6, <1>7, NoJobsYet, PlansStep

LEMMA LookForLinkStep ==
  ASSUME Inv, NEW c \in Calls, LookForLink(c)
  PROVE  Inv'
  <1>1. call[c].at = "links" /\ Up(c) /\ call[c] \in Call
    BY DEF LookForLink, Inv, CallTypes
  <1>2. PICK p \in call[c].todo :
          Refused(c) \/ Plans(c, [call[c] EXCEPT !.at = "link", !.here = p])
    BY DEF LookForLink
  <1>3. CASE Refused(c)
    BY <1>1, <1>3, RefusedStep
  <1>4. CASE Plans(c, [call[c] EXCEPT !.at = "link", !.here = p])
    <2>1. p \in Paths /\ "link" \in States
      BY <1>1 DEF Call, States
    <2>. QED  BY <1>1, <1>4, <2>1, SameTodo
  <1>. QED  BY <1>2, <1>3, <1>4

LEMMA LinkedStep ==
  ASSUME Inv, NEW c \in Calls, NEW p, call[c].at \in {"links", "link"}, Linked(c, p)
  PROVE  Inv'
  <1> DEFINE k == [call[c] EXCEPT !.at = "links", !.todo = call[c].todo \ {p}]
  <1>1. call[c] \in Call /\ CallTypes /\ PlaceTypes
    BY DEF Inv, CallTypes
  <1>2. CASE Refused(c)
    BY <1>2, RefusedStep
  <1>3. CASE ~Exists(Up(c), p) /\ Goes(c, k) /\ Makes(c, {p}, c)
    <2>1. /\ k \in Call /\ k.at = "links" /\ k.todo = call[c].todo \ {p}
          /\ k.links = call[c].links /\ k.draft = call[c].draft
      BY <1>1 DEF Call, States
    <2>2. Needed(k) = Needed(call[c])
      BY <1>1, SamePlan DEF Call
    <2>3. Goes(c, k) /\ UNCHANGED <<queue, rows, spawned>>
      BY <1>3 DEF Makes
    <2> HIDE DEF k
    <2>4. call'[c] = k
      BY <1>1, <2>3, GoesTo
    <2>5. \A q \in {p} : ~Exists(Up(c), q)
      BY <1>3
    <2>6. Grows /\ \A q \in {p} : q \in DOMAIN place'[Up(c)] /\ place'[Up(c)][q] = c
      BY <1>1, <1>3, <2>5, MakesGrows
    <2>7. Own(c, p)'
      <3>1. Up(c)' = Up(c)
        BY <2>1, <2>4 DEF Up
      <3>. QED  BY <2>6, <3>1 DEF Own, Exists
    <2>8. FoldersOK(c)'
      <3> SUFFICES ASSUME NEW q \in Needed(call[c])
                   PROVE  Stands(c, q)'
        BY <2>1, <2>2, <2>4 DEF FoldersOK
      <3>1. Stands(c, q)
        BY DEF Inv, FolderInv
      <3>. QED  BY <1>1, <2>1, <2>4, <2>6, <3>1, Stays
    <2>9. LinksOK(c)'
      <3> SUFFICES ASSUME NEW q \in call[c].links
                   PROVE  q \in k.todo \/ Own(c, q)'
        BY <2>1, <2>4 DEF LinksOK
      <3>1. q \in call[c].todo \/ Own(c, q)
        BY DEF Inv, LinkInv
      <3>. QED  BY <1>1, <2>1, <2>4, <2>6, <2>7, <3>1, Stays
    <2>. QED  BY <2>1, <2>3, <2>6, <2>8, <2>9, NoJobsYet, EarlyStep
  <1>. QED  BY <1>2, <1>3 DEF Linked

-----------------------------------------------------------------------------
(* Queueing, and restarts. *)

(* The batch is queued or stored: the call has what it had.                *)
LEMMA LateStep ==
  ASSUME Inv, NEW c \in Calls, NEW at \in {"queued", "done", "failed"},
         Goes(c, [call[c] EXCEPT !.at = at]), UNCHANGED place,
         \/ call[c].at = "links" /\ call[c].todo = {}
         \/ call[c].at = "queued",
         QueueInv'
  PROVE  Inv'
  <1> DEFINE k == [call[c] EXCEPT !.at = at]
  <1>1. call[c] \in Call /\ CallTypes /\ PlaceTypes
    BY DEF Inv, CallTypes
  <1>2. k \in Call /\ k.at = at /\ k.links = call[c].links /\ k.draft = call[c].draft
    BY <1>1 DEF Call, States
  <1>3. Needed(k) = Needed(call[c])
    BY <1>1, SamePlan DEF Call
  <1>4. Goes(c, k)
    OBVIOUS
  <1> HIDE DEF k
  <1>5. /\ call'[c] = k /\ Grows /\ CallTypes' /\ PlaceTypes'
        /\ \A b \in Calls : b # c => call'[b] = call[b]
    BY <1>1, <1>2, <1>4, GoesTo, SamePlace, PlaceGrows
  <1>6. FoldersOK(c)'
    BY <1>1, <1>2, <1>3, <1>5, Stays DEF FoldersOK, Inv, FolderInv
  <1>7. LinksOK(c)'
    <2> SUFFICES ASSUME NEW q \in call[c].links
                 PROVE  Own(c, q)'
      BY <1>2, <1>5 DEF LinksOK
    <2>1. Own(c, q)
      BY DEF Inv, LinkInv
    <2>. QED  BY <1>1, <1>2, <1>5, <2>1, Stays
  <1>8. PlaceInv'
    BY <1>1, <1>5, <1>6, <1>7, OneCall DEF Inv, PlaceInv
  <1>9. WayInv'
    BY <1>2, <1>5 DEF Inv, WayInv, Up
  <1>. QED  BY <1>5, <1>8, <1>9 DEF Inv, PlaceInv

LEMMA SameBatch ==
  ASSUME CallTypes, NEW c \in Calls, NEW at, Goes(c, [call[c] EXCEPT !.at = at])
  PROVE  /\ Batch(c)' = Batch(c) /\ call'[c].at = at
         /\ \A b \in Calls : b # c => call'[b] = call[b] /\ Batch(b)' = Batch(b)
         /\ \A b \in Calls : \A job \in Batch(b) : job[1] = b
  <1>1. call'[c] = [call[c] EXCEPT !.at = at] /\ \A b \in Calls : b # c => call'[b] = call[b]
    BY GoesTo
  <1>2. call[c] \in Call
    BY DEF CallTypes
  <1>3. call'[c].at = at /\ call'[c].files = call[c].files
    BY <1>1, <1>2 DEF Call
  <1>. QED  BY <1>1, <1>3 DEF Batch

LEMMA JobsGrow ==
  ASSUME NEW c \in Calls, NEW jobs, NEW batch, \A job \in batch : job[1] = c
  PROVE  JobsOf(c, jobs \cup batch) = JobsOf(c, jobs) \cup batch
  BY DEF JobsOf

LEMMA EnqueueStep ==
  ASSUME Inv, NEW c \in Calls, Enqueue(c)
  PROVE  Inv'
  <1>1. /\ call[c].at = "links" /\ call[c].todo = {} /\ Goes(c, [call[c] EXCEPT !.at = "queued"])
        /\ queue' = queue \cup Batch(c) /\ UNCHANGED <<place, rows, spawned>>
        /\ CallTypes /\ QueueInv
    BY DEF Enqueue, Inv
  <1>2. /\ Batch(c)' = Batch(c) /\ call'[c].at = "queued"
        /\ \A b \in Calls : b # c => call'[b] = call[b] /\ Batch(b)' = Batch(b)
        /\ \A b \in Calls : \A job \in Batch(b) : job[1] = b
    BY <1>1, SameBatch
  <1>3. JobsOf(c, queue') = JobsOf(c, queue) \cup Batch(c)
    BY <1>1, <1>2, JobsGrow
  <1>4. JobsOK(c)'
    BY <1>1, <1>2, <1>3 DEF QueueInv, JobsOK
  <1>5. ASSUME NEW b \in Calls, b # c
        PROVE  JobsOK(b)'
    <2>1. JobsOf(b, queue') = JobsOf(b, queue)
      <3>1. \A job \in Batch(c) : job[1] = c
        BY <1>2
      <3>2. JobsOf(b, queue \cup Batch(c)) = JobsOf(b, queue)
        BY <1>5, <3>1 DEF JobsOf
      <3>. QED  BY <1>1, <3>2
    <2>. QED  BY <1>1, <1>2, <1>5, <2>1 DEF QueueInv, JobsOK
  <1>6. QueueInv'
    BY <1>1, <1>2, <1>4, <1>5 DEF QueueInv
  <1>. QED  BY <1>1, <1>6, LateStep

LEMMA PersistStep ==
  ASSUME Inv, NEW c \in Calls, Persist(c)
  PROVE  Inv'
  <1>1. /\ call[c].at = "queued" /\ Goes(c, [call[c] EXCEPT !.at = "done"])
        /\ rows' = rows \cup Batch(c) /\ spawned' = spawned \cup {c} /\ UNCHANGED <<place, queue>>
        /\ CallTypes /\ QueueInv
    BY DEF Persist, Inv
  <1>2. /\ Batch(c)' = Batch(c) /\ call'[c].at = "done"
        /\ \A b \in Calls : b # c => call'[b] = call[b] /\ Batch(b)' = Batch(b)
        /\ \A b \in Calls : \A job \in Batch(b) : job[1] = b
    BY <1>1, SameBatch
  <1>3. JobsOf(c, rows') = JobsOf(c, rows) \cup Batch(c)
    BY <1>1, <1>2, JobsGrow
  <1>4. JobsOK(c)'
    BY <1>1, <1>2, <1>3 DEF QueueInv, JobsOK
  <1>5. ASSUME NEW b \in Calls, b # c
        PROVE  JobsOK(b)'
    <2>1. JobsOf(b, rows') = JobsOf(b, rows)
      <3>1. \A job \in Batch(c) : job[1] = c
        BY <1>2
      <3>2. JobsOf(b, rows \cup Batch(c)) = JobsOf(b, rows)
        BY <1>5, <3>1 DEF JobsOf
      <3>. QED  BY <1>1, <3>2
    <2>. QED  BY <1>1, <1>2, <1>5, <2>1 DEF QueueInv, JobsOK
  <1>6. QueueInv'
    BY <1>1, <1>2, <1>4, <1>5 DEF QueueInv
  <1>. QED  BY <1>1, <1>6, LateStep

LEMMA PersistFailsStep ==
  ASSUME Inv, NEW c \in Calls, PersistFails(c)
  PROVE  Inv'
  <1>1. /\ call[c].at = "queued" /\ Goes(c, [call[c] EXCEPT !.at = "failed"])
        /\ UNCHANGED <<place, queue, rows, spawned>> /\ CallTypes /\ QueueInv
    BY DEF PersistFails, Inv
  <1>2. /\ Batch(c)' = Batch(c) /\ call'[c].at = "failed"
        /\ \A b \in Calls : b # c => call'[b] = call[b]
    BY <1>1, SameBatch
  <1>3. JobsOK(c)'
    BY <1>1, <1>2 DEF QueueInv, JobsOK
  <1>4. QueueInv'
    BY <1>1, <1>2, <1>3, JobsStay
  <1>. QED  BY <1>1, <1>4, LateStep

LEMMA RestartStep ==
  ASSUME Inv, Restart
  PROVE  Inv'
  <1>1. /\ call' = [c \in Calls |-> IF call[c].at = "done" THEN call[c] ELSE Idle]
        /\ queue' = rows /\ UNCHANGED <<place, rows, spawned>>
    BY DEF Restart
  <1>2. CallTypes /\ PlaceTypes /\ PlaceInv /\ QueueInv /\ WayInv
    BY DEF Inv, PlaceInv
  <1>3. CallTypes'
    BY <1>1, <1>2, IdleIsCall DEF CallTypes
  <1>4. Grows /\ PlaceTypes'
    BY <1>1, <1>2, SamePlace, PlaceGrows
  <1>5. \A c \in Calls : \/ call'[c] = call[c] /\ call[c].at = "done"
                         \/ call'[c] = Idle /\ call[c].at # "done"
    BY <1>1
  <1>6. ASSUME NEW c \in Calls
        PROVE  FoldersOK(c)' /\ LinksOK(c)' /\ JobsOK(c)'
    <2>1. CASE call'[c] = call[c] /\ call[c].at = "done"
      <3>1. FoldersOK(c)' /\ LinksOK(c)'
        BY <1>2, <1>4, <2>1, CallStays, PlaceInvParts
      <3>2. JobsOK(c)'
        BY <1>1, <1>2, <2>1 DEF QueueInv, JobsOK, Batch
      <3>. QED  BY <3>1, <3>2
    <2>2. CASE call'[c] = Idle /\ call[c].at # "done"
      <3>1. Idle.at = "idle" /\ Idle.links = {} /\ Needed(Idle) = {}
        BY IdleNeedsNothing
      <3>2. FoldersOK(c)' /\ LinksOK(c)'
        BY <2>2, <3>1 DEF FoldersOK, LinksOK
      <3>3. JobsOK(c)'
        BY <1>1, <1>2, <2>2, <3>1 DEF QueueInv, JobsOK
      <3>. QED  BY <3>2, <3>3
    <2>. QED  BY <1>5, <2>1, <2>2
  <1>7. PlaceInv'
    BY <1>6 DEF PlaceInv, FolderInv, LinkInv, FoldersOK, LinksOK
  <1>8. QueueInv'
    BY <1>1, <1>2, <1>6 DEF QueueInv
  <1>9. WayInv'
    BY <1>2, <1>5, IdleNeedsNothing DEF WayInv, Up
  <1>. QED  BY <1>3, <1>4, <1>7, <1>8, <1>9 DEF Inv, PlaceInv

-----------------------------------------------------------------------------
(* The invariant. *)

LEMMA InitInv == Init => Inv
  <1> SUFFICES ASSUME Init
               PROVE  Inv
    OBVIOUS
  <1>1. \A c \in Calls : call[c] = Idle
    BY DEF Init
  <1>2. CallTypes
    BY IdleIsCall DEF Init, CallTypes
  <1>3. PlaceTypes
    <2>1. PICK before \in Foreign : place = [up \in BOOLEAN |-> before]
      BY DEF Init
    <2>2. DOMAIN place = BOOLEAN /\ \A up \in BOOLEAN : place[up] = before
      BY <2>1
    <2>. QED  BY <2>2, PlanAssumption DEF PlaceTypes, HasFolder, Exists
  <1>4. FolderInv /\ LinkInv /\ WayInv
    BY <1>1, IdleNeedsNothing DEF FolderInv, LinkInv, WayInv
  <1>5. QueueInv
    BY <1>1, IdleNeedsNothing DEF Init, QueueInv, JobsOK, JobsOf
  <1>. QED  BY <1>2, <1>3, <1>4, <1>5 DEF Inv

LEMMA CallStepInv ==
  ASSUME Inv, NEW c \in Calls, CallStep(c)
  PROVE  Inv'
  <1>1. CASE MakeLink(c)
    BY <1>1, LinkedStep DEF MakeLink
  <1>2. CASE MakeLocalLink(c)
    BY <1>2, LinkedStep DEF MakeLocalLink
  <1>3. CASE StepFails(c)
    BY <1>3, RefusedStep DEF StepFails
  <1>. QED  BY <1>1, <1>2, <1>3, ListFolderStep, BuildPlanStep, LookForFolderStep, MakeFolderStep,
               MakeLocalFolderStep, FoldersAreMadeStep, LookForLinkStep, EnqueueStep,
               PersistStep, PersistFailsStep DEF CallStep

LEMMA StepInv == Inv /\ [Next]_vars => Inv'
  <1> SUFFICES ASSUME Inv, [Next]_vars
               PROVE  Inv'
    OBVIOUS
  <1>1. CASE Next
    BY <1>1, RestartStep, BeginStep, CallStepInv DEF Next
  <1>2. CASE UNCHANGED vars
    <2>1. CallTypes' /\ PlaceTypes' /\ WayInv'
      BY <1>2 DEF vars, Inv, CallTypes, PlaceTypes, WayInv, HasFolder, Exists, Up
    <2>2. FolderInv' /\ LinkInv'
      BY <1>2 DEF vars, Inv, FolderInv, LinkInv, Stands, Own, HasFolder, Exists, Up
    <2>3. QueueInv'
      BY <1>2 DEF vars, Inv, QueueInv, JobsOK, JobsOf, Batch
    <2>. QED  BY <2>1, <2>2, <2>3 DEF Inv
  <1>. QED  BY <1>1, <1>2

LEMMA InvHolds == Spec => []Inv
  BY InitInv, StepInv, PTL DEF Spec

(* The folder a queued file goes to is there before the file is queued     *)
(* (ensure_remote_directories, ensure_local_directories).                  *)
THEOREM FoldersComeFirst == Spec => []JobsHaveFolders
  <1>1. Inv => JobsHaveFolders
    <2> SUFFICES ASSUME Inv, NEW job \in queue
                 PROVE  Stands(job[1], Front(job[2]))
      BY DEF JobsHaveFolders
    <2> DEFINE c == job[1]
    <2>1. c \in Calls /\ job \in JobsOf(c, queue) /\ JobsOK(c) /\ call[c] \in Call
      BY DEF Inv, QueueInv, JobsOf, CallTypes
    <2>2. job \in Batch(c) /\ call[c].at \in {"queued", "done", "failed"}
      BY <2>1 DEF JobsOK
    <2>3. job[2] \in call[c].files
      BY <2>2 DEF Batch
    <2>4. Front(job[2]) = <<>> \/ Front(job[2]) \in Needed(call[c])
      BY <2>1, <2>3, FrontIsNeeded
    <2>5. Stands(c, <<>>)
      <3>1. Up(c) \in BOOLEAN
        BY <2>1 DEF Call, Wanted, Up
      <3>. QED  BY <3>1 DEF Inv, PlaceTypes, Stands, HasFolder
    <2>6. CASE Front(job[2]) \in Needed(call[c])
      BY <2>1, <2>2, <2>6 DEF Inv, FolderInv
    <2>. QED  BY <2>4, <2>5, <2>6
  <1>. QED  BY <1>1, InvHolds, PTL

(* A batch is in memory and in the database whole or not at all            *)
(* (enqueue_directory_transfer, persist_transfer_jobs).                    *)
THEOREM BatchesAreWhole == Spec => []WholeBatch
  <1>1. Inv => WholeBatch
    <2> SUFFICES ASSUME Inv, NEW c \in Calls
                 PROVE  /\ JobsOf(c, queue) \in {{}, Batch(c)}
                        /\ JobsOf(c, rows) \in {{}, Batch(c)}
                        /\ c \in spawned => Batch(c) \subseteq rows \cap queue
      BY DEF WholeBatch, JobsOf
    <2>1. JobsOK(c)
      BY DEF Inv, QueueInv
    <2>2. c \in spawned => JobsOf(c, queue) = Batch(c) /\ JobsOf(c, rows) = Batch(c)
      BY <2>1 DEF JobsOK
    <2>3. c \in spawned => Batch(c) \subseteq rows \cap queue
      BY <2>2 DEF JobsOf
    <2>. QED  BY <2>1, <2>3 DEF JobsOK
  <1>. QED  BY <1>1, InvHolds, PTL

(* The links of a queued batch are the ones this command made              *)
(* (enqueue_directory_transfer).                                           *)
THEOREM LinksAreNotShared == Spec => []LinksAreItsOwn
  <1>1. Inv => LinksAreItsOwn
    BY DEF Inv, LinkInv, Own, LinksAreItsOwn
  <1>. QED  BY <1>1, InvHolds, PTL

-----------------------------------------------------------------------------
(* Whole plans.  FoldersAt is a recursive function: what is said of it is  *)
(* shown for the least level at which it would fail.                       *)

LEMMA LeastNat ==
  ASSUME NEW T \in SUBSET Nat, T # {}
  PROVE  \E x \in T : \A y \in T : x <= y
  <1> DEFINE R == OpToRel(<, Nat)
  <1>1. IsWellFoundedOn(R, Nat)
    BY NatLessThanWellFounded
  <1>2. \A x, y \in Nat : x < y => <<x, y>> \in R
    BY DEF OpToRel
  <1> HIDE DEF R
  <1>3. PICK x \in T : \A y \in T : <<y, x>> \notin R
    BY <1>1, WFMin
  <1>4. ASSUME NEW y \in T
        PROVE  x <= y
    <2>1. x \in Nat /\ y \in Nat /\ ~(y < x)
      BY <1>2, <1>3
    <2>. QED  BY <2>1
  <1>. QED  BY <1>4

Root(d) == [dir |-> d.source, path |-> Prefix(d)]

(* The folders in the folders A.                                           *)
FoldersIn(d, A) ==
  UNION {{[dir |-> Seen(d, e), path |-> Append(f.path, e)] :
            e \in {x \in Kids(f.dir) : Seen(d, x) \in Folder}} : f \in A}

(* Level i, from the level above it in g.                                  *)
Level(d, g, i) == IF i = 0 THEN {Root(d)} ELSE FoldersIn(d, g[i - 1])

(* The levels up to n of the function that FoldersAt defines.              *)
Levels(d, n, g) == g = [i \in 0..n |-> Level(d, g, i)]

LEMMA LevelsAt ==
  ASSUME NEW d, NEW n \in Nat, NEW g, Levels(d, n, g)
  PROVE  \A i \in 0..n : g[i] = Level(d, g, i)
  BY DEF Levels

LEMMA LevelsExist ==
  ASSUME NEW d, NEW n \in Nat
  PROVE  \E g : Levels(d, n, g)
  <1> DEFINE T == {m \in Nat : ~ \E g : Levels(d, m, g)}
  <1>1. SUFFICES ASSUME T # {}
                 PROVE  FALSE
    OBVIOUS
  <1>2. PICK m \in T : \A y \in T : m <= y
    BY <1>1, LeastNat
  <1>3. m # 0
    <2> DEFINE g == [i \in 0..0 |-> {Root(d)}]
    <2>1. g = [i \in 0..0 |-> Level(d, g, i)]
      BY DEF Level
    <2>2. Levels(d, 0, g)
      BY <2>1 DEF Levels
    <2>. QED  BY <2>2
  <1>4. PICK q \in Nat : q = m - 1 /\ q \notin T
    <2>1. m - 1 \in Nat /\ m - 1 \notin T
      BY <1>2, <1>3
    <2>. QED  BY <2>1
  <1>5. PICK h : Levels(d, q, h)
    BY <1>4
  <1> DEFINE g == [i \in 0..m |-> IF i = m THEN Level(d, h, m) ELSE h[i]]
  <1>6. \A i \in 0..q : h[i] = Level(d, h, i)
    BY <1>5, LevelsAt
  <1>7. \A i \in 0..q : g[i] = h[i]
    BY <1>4
  <1>8. g[m] = Level(d, h, m)
    BY <1>4
  <1>9. g = [i \in 0..m |-> g[i]]
    OBVIOUS
  <1> HIDE DEF g
  <1>10. \A i \in 0..m : g[i] = Level(d, g, i)
    <2> SUFFICES ASSUME NEW i \in 0..m
                 PROVE  g[i] = Level(d, g, i)
      OBVIOUS
    <2>1. i # 0 => i - 1 \in 0..q
      BY <1>4
    <2>2. i # 0 => g[i - 1] = h[i - 1]
      BY <1>7, <2>1
    <2>3. Level(d, g, i) = Level(d, h, i)
      BY <2>2 DEF Level
    <2>4. i = m \/ i \in 0..q
      BY <1>4
    <2>. QED  BY <1>6, <1>7, <1>8, <2>3, <2>4
  <1>11. Levels(d, m, g)
    BY <1>9, <1>10 DEF Levels
  <1>. QED  BY <1>2, <1>11

(* FoldersAt: the root, and below each level the folders in its folders.   *)
LEMMA FoldersAtIs ==
  ASSUME NEW d
  PROVE  /\ FoldersAt(d)[0] = {Root(d)}
         /\ \A n \in 1..(MaxDepth + 1) :
              FoldersAt(d)[n] = FoldersIn(d, FoldersAt(d)[n - 1])
  <1>1. MaxDepth + 1 \in Nat
    BY PlanAssumption
  <1>2. \E g : Levels(d, MaxDepth + 1, g)
    BY <1>1, LevelsExist
  <1>3. Levels(d, MaxDepth + 1, CHOOSE g : Levels(d, MaxDepth + 1, g))
    BY <1>2
  <1>4. Levels(d, MaxDepth + 1, FoldersAt(d))
    BY <1>3 DEF Levels, Level, FoldersAt, FoldersIn, Root
  <1>5. \A i \in 0..(MaxDepth + 1) :
          FoldersAt(d)[i] = IF i = 0 THEN {Root(d)} ELSE FoldersIn(d, FoldersAt(d)[i - 1])
    <2>1. \A i \in 0..(MaxDepth + 1) : FoldersAt(d)[i] = Level(d, FoldersAt(d), i)
      BY <1>1, <1>4, LevelsAt
    <2>. QED  BY <2>1 DEF Level
  <1>. QED  BY <1>1, <1>5
(* What the plan takes from one folder, and the folders to read next.      *)
Found(d, r, kind) == {Append(r.path, e) : e \in {x \in Kids(r.dir) : Seen(d, x) \in kind}}

(* All that is found in the folders R.                                     *)
FoundIn(d, R, kind) == UNION {Found(d, r, kind) : r \in R}

LEMMA FoundInIs ==
  ASSUME NEW d, NEW R, NEW kind, NEW p
  PROVE  p \in FoundIn(d, R, kind) <=> \E r \in R : p \in Found(d, r, kind)
  BY DEF FoundIn

ItemsIn(d, r) ==
  {[dir |-> Seen(d, e), path |-> Append(r.path, e), depth |-> r.depth + 1] :
     e \in {x \in Kids(r.dir) : Seen(d, x) \in Folder}}

Start(d) == [dir |-> d.source, path |-> Prefix(d), depth |-> 0]

AtLevel(d, r) ==
  r.depth \in 0..(MaxDepth + 1) /\ [dir |-> r.dir, path |-> r.path] \in FoldersAt(d)[r.depth]

(* The folders R were read: the plan is what they hold, and their folders  *)
(* were read too or wait on the stack.                                     *)
Reads(k, R) ==
  /\ \A r \in R \cup k.stack : AtLevel(k.draft, r)
  /\ Start(k.draft) \in R \cup k.stack
  /\ \A r \in R : r.depth <= MaxDepth /\ ItemsIn(k.draft, r) \subseteq R \cup k.stack
  /\ k.folders = FoundIn(k.draft, R, Folder)
  /\ k.files = FoundIn(k.draft, R, File)
  /\ k.links = IF k.draft.links = "copy" THEN FoundIn(k.draft, R, Link) ELSE {}

PlanWhole(k) ==
  /\ k.files = Holds(k.draft, File)
  /\ k.links = (IF k.draft.links = "copy" THEN Holds(k.draft, Link) ELSE {})
  /\ k.folders = Holds(k.draft, Folder)
  /\ FoldersAt(k.draft)[MaxDepth + 1] = {}

Made == {"folders", "folder", "links", "link", "queued", "done"}

PlanOK(k) == /\ k.at = "plan" => \E R : Reads(k, R)
             /\ k.at \in Made => PlanWhole(k)

PlanInv == \A c \in Calls : PlanOK(call[c])

(* With nothing left on the stack, every folder of the source was read.    *)
LEMMA AllLevelsRead ==
  ASSUME NEW k, NEW R, Reads(k, R), k.stack = {}
  PROVE  \A n \in 0..(MaxDepth + 1) : \A f \in FoldersAt(k.draft)[n] :
           \E r \in R : r.dir = f.dir /\ r.path = f.path /\ r.depth = n
  <1> DEFINE d == k.draft
             Has(n, f) == \E r \in R : r.dir = f.dir /\ r.path = f.path /\ r.depth = n
             T == {n \in 0..(MaxDepth + 1) : ~ \A f \in FoldersAt(d)[n] : Has(n, f)}
  <1>1. SUFFICES ASSUME T # {}
                 PROVE  FALSE
    OBVIOUS
  <1>2. T \in SUBSET Nat /\ MaxDepth \in Nat
    BY PlanAssumption
  <1>3. PICK n \in T : \A y \in T : n <= y
    BY <1>1, <1>2, LeastNat
  <1>4. PICK f \in FoldersAt(d)[n] : ~Has(n, f)
    BY <1>3
  <1>5. CASE n = 0
    <2>1. f = Root(d)
      BY <1>4, <1>5, FoldersAtIs
    <2>2. Start(d) \in R
      BY DEF Reads
    <2>3. Has(0, f)
      BY <2>1, <2>2 DEF Root, Start
    <2>. QED  BY <1>4, <1>5, <2>3
  <1>6. CASE n # 0
    <2>1. n \in 1..(MaxDepth + 1) /\ n - 1 \in 0..(MaxDepth + 1) /\ n - 1 \notin T
      BY <1>2, <1>3, <1>6
    <2>2. FoldersAt(d)[n] = FoldersIn(d, FoldersAt(d)[n - 1])
      BY <2>1, FoldersAtIs
    <2>3. PICK g \in FoldersAt(d)[n - 1] :
            f \in {[dir |-> Seen(d, e), path |-> Append(g.path, e)] :
                     e \in {x \in Kids(g.dir) : Seen(d, x) \in Folder}}
      BY <1>4, <2>2 DEF FoldersIn
    <2>4. PICK e \in {x \in Kids(g.dir) : Seen(d, x) \in Folder} :
            f = [dir |-> Seen(d, e), path |-> Append(g.path, e)]
      BY <2>3
    <2>5. Has(n - 1, g)
      BY <2>1, <2>3
    <2>6. PICK r \in R : r.dir = g.dir /\ r.path = g.path /\ r.depth = n - 1
      BY <2>5
    <2>7. [dir |-> Seen(d, e), path |-> Append(r.path, e), depth |-> r.depth + 1] \in R
      BY <2>4, <2>6 DEF Reads, ItemsIn
    <2>8. r.depth + 1 = n
      BY <1>2, <2>1, <2>6
    <2>9. Has(n, f)
      BY <2>4, <2>6, <2>7, <2>8
    <2>. QED  BY <1>4, <2>9
  <1>. QED  BY <1>5, <1>6

LEMMA ReadPlanIsWhole ==
  ASSUME NEW k, NEW R, Reads(k, R), k.stack = {}
  PROVE  PlanWhole(k)
  <1> DEFINE d == k.draft
  <1>1. MaxDepth \in Nat
    BY PlanAssumption
  <1>2. FoldersAt(d)[MaxDepth + 1] = {}
    <2> SUFFICES ASSUME NEW f \in FoldersAt(d)[MaxDepth + 1]
                 PROVE  FALSE
      OBVIOUS
    <2>1. MaxDepth + 1 \in 0..(MaxDepth + 1)
      BY <1>1
    <2>2. PICK r \in R : r.depth = MaxDepth + 1
      BY <2>1, AllLevelsRead
    <2>3. r.depth <= MaxDepth
      BY <2>2 DEF Reads
    <2>. QED  BY <1>1, <2>2, <2>3
  <1>3. ASSUME NEW kind
        PROVE  Holds(d, kind) = FoundIn(d, R, kind)
    <2>1. ASSUME NEW p \in Holds(d, kind)
          PROVE  p \in FoundIn(d, R, kind)
      <3>1. PICK f \in UNION {FoldersAt(d)[n] : n \in 0..MaxDepth} :
              p \in {Append(f.path, e) : e \in {x \in Kids(f.dir) : Seen(d, x) \in kind}}
        BY <2>1 DEF Holds
      <3>2. PICK n \in 0..MaxDepth : f \in FoldersAt(d)[n]
        BY <3>1
      <3>3. n \in 0..(MaxDepth + 1)
        BY <1>1, <3>2
      <3>4. PICK r \in R : r.dir = f.dir /\ r.path = f.path
        BY <3>2, <3>3, AllLevelsRead
      <3>5. p \in Found(d, r, kind)
        BY <3>1, <3>4 DEF Found
      <3>. QED  BY <3>4, <3>5, FoundInIs
    <2>2. ASSUME NEW r \in R, NEW p \in Found(d, r, kind)
          PROVE  p \in Holds(d, kind)
      <3> DEFINE f == [dir |-> r.dir, path |-> r.path]
      <3>1. r.depth \in 0..MaxDepth /\ f \in FoldersAt(d)[r.depth]
        BY <1>1 DEF Reads, AtLevel
      <3>2. f.dir = r.dir /\ f.path = r.path
        OBVIOUS
      <3> HIDE DEF f
      <3>3. p \in {Append(f.path, e) : e \in {x \in Kids(f.dir) : Seen(d, x) \in kind}}
        BY <2>2, <3>2 DEF Found
      <3>4. f \in UNION {FoldersAt(d)[n] : n \in 0..MaxDepth}
        BY <3>1
      <3>. QED  BY <3>3, <3>4 DEF Holds
    <2>3. ASSUME NEW p \in FoundIn(d, R, kind)
          PROVE  p \in Holds(d, kind)
      <3>1. \E r \in R : p \in Found(d, r, kind)
        BY <2>3, FoundInIs
      <3>. QED  BY <2>2, <3>1
    <2> DEFINE H == Holds(d, kind)
               F == FoundIn(d, R, kind)
    <2> HIDE DEF H, F
    <2>4. (\A p \in H : p \in F) /\ (\A p \in F : p \in H)
      BY <2>1, <2>3 DEF H, F
    <2>5. H = F
      BY <2>4
    <2>. QED  BY <2>5 DEF H, F
  <1>. QED  BY <1>2, <1>3 DEF Reads, PlanWhole

LEMMA FoundInMore ==
  ASSUME NEW d, NEW R, NEW item, NEW kind
  PROVE  FoundIn(d, R \cup {item}, kind) = FoundIn(d, R, kind) \cup Found(d, item, kind)
  BY FoundInIs

(* One more folder is read.                                                *)
LEMMA ListedReads ==
  ASSUME NEW k \in Call, NEW R, Reads(k, R), NEW item \in k.stack, item.depth <= MaxDepth
  PROVE  Reads(Listed(k, item), R \cup {item})
  <1> DEFINE d == k.draft
             more == ItemsIn(d, item)
             j == Listed(k, item)
             Q == R \cup {item}
  <1>1. /\ j.draft = d /\ j.stack = (k.stack \ {item}) \cup more
        /\ j.folders = k.folders \cup Found(d, item, Folder)
        /\ j.files = k.files \cup Found(d, item, File)
        /\ j.links = k.links \cup (IF d.links = "copy" THEN Found(d, item, Link) ELSE {})
    BY DEF Listed, Below, Found, ItemsIn, Call
  <1>2. AtLevel(d, item) /\ MaxDepth \in Nat
    BY PlanAssumption DEF Reads
  <1>3. ASSUME NEW r \in more
        PROVE  AtLevel(d, r)
    <2>1. PICK e \in {x \in Kids(item.dir) : Seen(d, x) \in Folder} :
            r = [dir |-> Seen(d, e), path |-> Append(item.path, e), depth |-> item.depth + 1]
      BY <1>3 DEF ItemsIn
    <2> DEFINE f == [dir |-> item.dir, path |-> item.path]
               g == [dir |-> r.dir, path |-> r.path]
    <2>2. f \in FoldersAt(d)[item.depth] /\ item.depth \in 0..MaxDepth
      BY <1>2 DEF AtLevel
    <2>3. PICK n \in 1..(MaxDepth + 1) : n = item.depth + 1 /\ n - 1 = item.depth
      BY <1>2, <2>2
    <2>4. FoldersAt(d)[n] = FoldersIn(d, FoldersAt(d)[item.depth])
      BY <2>3, FoldersAtIs
    <2>5. g = [dir |-> Seen(d, e), path |-> Append(f.path, e)] /\ f.dir = item.dir
      BY <2>1
    <2> HIDE DEF f, g
    <2>6. g \in {[dir |-> Seen(d, x), path |-> Append(f.path, x)] :
                   x \in {y \in Kids(f.dir) : Seen(d, y) \in Folder}}
      BY <2>1, <2>5
    <2>7. g \in FoldersIn(d, FoldersAt(d)[item.depth])
      BY <2>2, <2>6 DEF FoldersIn
    <2>8. r.depth = n /\ n \in 0..(MaxDepth + 1)
      BY <1>2, <2>1, <2>3
    <2>. QED  BY <2>4, <2>7, <2>8 DEF AtLevel, g
  <1> HIDE DEF more, j
  <1>4. Q \cup j.stack = R \cup k.stack \cup more
    BY <1>1
  <1>5. \A r \in Q \cup j.stack : AtLevel(d, r)
    BY <1>3, <1>4 DEF Reads
  <1>6. \A r \in Q : r.depth <= MaxDepth /\ ItemsIn(d, r) \subseteq Q \cup j.stack
    BY <1>4 DEF Reads, more
  <1>7. \A kind : FoundIn(d, Q, kind) = FoundIn(d, R, kind) \cup Found(d, item, kind)
    BY FoundInMore
  <1>8. Start(d) \in Q \cup j.stack
    BY <1>4 DEF Reads
  <1>9. /\ j.folders = FoundIn(d, Q, Folder)
        /\ j.files = FoundIn(d, Q, File)
        /\ j.links = IF d.links = "copy" THEN FoundIn(d, Q, Link) ELSE {}
    BY <1>1, <1>7 DEF Reads
  <1>10. Reads(j, Q)
    BY <1>1, <1>5, <1>6, <1>8, <1>9 DEF Reads
  <1>. QED  BY <1>10 DEF j
(* What a command does next has the plan it had.                           *)
LEMMA PlanKept ==
  ASSUME NEW k, NEW j, PlanOK(k), k.at \in Made, j.at \in Made, j.draft = k.draft,
         j.folders = k.folders, j.files = k.files, j.links = k.links
  PROVE  PlanOK(j)
  BY DEF PlanOK, PlanWhole, Made

(* A command that has no plan, or none yet.                                *)
LEMMA NoPlan ==
  ASSUME NEW k, k.at \notin Made \cup {"plan"}
  PROVE  PlanOK(k)
  BY DEF PlanOK

LEMMA RefusedHasNoPlan == PlanOK([Idle EXCEPT !.at = "failed"]) /\ PlanOK(Idle)
  <1>1. [Idle EXCEPT !.at = "failed"].at = "failed" /\ Idle.at = "idle"
    BY DEF Idle
  <1>. QED  BY <1>1, NoPlan DEF Made

LEMMA BeginPlans ==
  ASSUME Inv, NEW c \in Calls, Begin(c)
  PROVE  PlanOK(call'[c])
  <1>1. PICK d \in Drafts :
          Goes(c, [Idle EXCEPT !.at = "plan", !.draft = d,
                               !.stack = {[dir |-> d.source, path |-> Prefix(d), depth |-> 0]}])
    BY DEF Begin, Plans
  <1> DEFINE k == [Idle EXCEPT !.at = "plan", !.draft = d, !.stack = {Start(d)}]
  <1>2. call'[c] = k
    BY <1>1, GoesTo DEF Inv, Start
  <1>3. /\ k.at = "plan" /\ k.draft = d /\ k.stack = {Start(d)}
        /\ k.folders = {} /\ k.files = {} /\ k.links = {}
    BY DEF Idle
  <1> HIDE DEF k
  <1>4. AtLevel(d, Start(d))
    <2>1. 0 \in 0..(MaxDepth + 1)
      BY PlanAssumption
    <2>2. Start(d).depth = 0 /\ [dir |-> Start(d).dir, path |-> Start(d).path] = Root(d)
      BY DEF Start, Root
    <2>. QED  BY <2>1, <2>2, FoldersAtIs DEF AtLevel
  <1>5. Reads(k, {})
    BY <1>3, <1>4 DEF Reads, FoundIn
  <1>. QED  BY <1>2, <1>3, <1>5 DEF PlanOK, Made

LEMMA ListFolderPlans ==
  ASSUME Inv, PlanInv, NEW c \in Calls, ListFolder(c)
  PROVE  PlanOK(call'[c])
  <1>1. PICK item \in call[c].stack :
          IF TooDeep(item) \/ CannotFollow(call[c], item) \/ TooMany(Listed(call[c], item))
          THEN Refused(c)
          ELSE Plans(c, Listed(call[c], item))
    BY DEF ListFolder
  <1>2. CASE Refused(c)
    BY <1>2, GoesTo, RefusedHasNoPlan DEF Inv, Refused
  <1>3. CASE ~TooDeep(item) /\ Plans(c, Listed(call[c], item))
    <2>1. call[c] \in Call /\ call[c].at = "plan"
      BY DEF Inv, CallTypes, ListFolder
    <2>2. PICK R : Reads(call[c], R)
      BY <2>1 DEF PlanInv, PlanOK
    <2>3. item.depth <= MaxDepth
      <3>1. item.depth \in Nat /\ MaxDepth \in Nat
        BY <2>1, PlanAssumption DEF Call, Item
      <3>. QED  BY <1>3, <3>1 DEF TooDeep
    <2>4. Reads(Listed(call[c], item), R \cup {item})
      BY <2>1, <2>2, <2>3, ListedReads
    <2>5. call'[c] = Listed(call[c], item)
      BY <1>3, GoesTo DEF Inv, Plans
    <2>6. call'[c].at = "plan"
      BY <2>1, <2>5 DEF Listed, Call
    <2>. QED  BY <2>4, <2>5, <2>6 DEF PlanOK, Made
  <1>. QED  BY <1>1, <1>2, <1>3

LEMMA BuildPlanPlans ==
  ASSUME Inv, PlanInv, NEW c \in Calls, BuildPlan(c)
  PROVE  PlanOK(call'[c])
  <1>1. CASE Refused(c)
    BY <1>1, GoesTo, RefusedHasNoPlan DEF Inv, Refused
  <1>2. CASE Plans(c, [call[c] EXCEPT !.at = "folders", !.todo = Needed(call[c])])
    <2>1. call[c] \in Call /\ call[c].at = "plan" /\ call[c].stack = {}
      BY DEF Inv, CallTypes, BuildPlan
    <2>2. PICK R : Reads(call[c], R)
      BY <2>1 DEF PlanInv, PlanOK
    <2>3. PlanWhole(call[c])
      BY <2>1, <2>2, ReadPlanIsWhole
    <2>4. call'[c] = [call[c] EXCEPT !.at = "folders", !.todo = Needed(call[c])]
      BY <1>2, GoesTo DEF Inv, Plans
    <2>5. /\ call'[c].at = "folders" /\ call'[c].draft = call[c].draft
          /\ call'[c].folders = call[c].folders /\ call'[c].files = call[c].files
          /\ call'[c].links = call[c].links
      BY <2>1, <2>4 DEF Call
    <2>. QED  BY <2>3, <2>5 DEF PlanOK, PlanWhole
  <1>. QED  BY <1>1, <1>2 DEF BuildPlan

(* The steps after that keep the plan, or give it up.                      *)
SamePlanAs(k, j) ==
  /\ j.draft = k.draft /\ j.folders = k.folders /\ j.files = k.files /\ j.links = k.links
  /\ k.at \in Made /\ j.at \in Made

LEMMA LaterSteps ==
  ASSUME Inv, NEW c \in Calls, CallStep(c), ~ListFolder(c), ~BuildPlan(c)
  PROVE  call'[c].at \notin Made \cup {"plan"} \/ SamePlanAs(call[c], call'[c])
  <1>1. call[c] \in Call
    BY DEF Inv, CallTypes
  <1>2. \A k : Goes(c, k) => call'[c] = k
    BY GoesTo DEF Inv
  <1>3. ASSUME Refused(c)
        PROVE  call'[c].at \notin Made \cup {"plan"}
    <2>1. call'[c] = [Idle EXCEPT !.at = "failed"]
      BY <1>2, <1>3 DEF Refused
    <2>2. [Idle EXCEPT !.at = "failed"].at = "failed"
      BY DEF Idle
    <2>. QED  BY <2>1, <2>2 DEF Made
  <1>4. ASSUME call[c].at \in Made, NEW p, call'[c] = Done(c, p)
        PROVE  SamePlanAs(call[c], call'[c])
    BY <1>1, <1>4 DEF SamePlanAs, Done, Made, Call
  <1>5. ASSUME LookForFolder(c) \/ MakeFolder(c) \/ MakeLocalFolder(c) \/ FoldersAreMade(c)
        PROVE  Refused(c) \/ SamePlanAs(call[c], call'[c])
    <2>1. call[c].at \in Made
      BY <1>5 DEF LookForFolder, MakeFolder, MakeLocalFolder, FoldersAreMade, Made
    <2>2. CASE LookForFolder(c)
      <3>1. PICK p : \/ Plans(c, Done(c, p))
                     \/ Plans(c, [call[c] EXCEPT !.at = "folder", !.here = p])
        BY <2>2 DEF LookForFolder
      <3>2. \/ call'[c] = Done(c, p)
            \/ call'[c] = [call[c] EXCEPT !.at = "folder", !.here = p]
        BY <1>2, <3>1 DEF Plans
      <3>3. CASE call'[c] = [call[c] EXCEPT !.at = "folder", !.here = p]
        BY <1>1, <2>1, <3>3 DEF SamePlanAs, Made, Call
      <3>. QED  BY <1>4, <2>1, <3>2, <3>3
    <2>3. CASE MakeFolder(c)
      <3>1. Refused(c) \/ \E p : Goes(c, Done(c, p))
        BY <2>3 DEF MakeFolder
      <3>. QED  BY <1>2, <1>4, <2>1, <3>1
    <2>4. CASE MakeLocalFolder(c)
      <3>1. Refused(c) \/ \E p : Goes(c, Done(c, p))
        BY <2>4 DEF MakeLocalFolder
      <3>. QED  BY <1>2, <1>4, <2>1, <3>1
    <2>5. CASE FoldersAreMade(c)
      <3>1. call'[c] = [call[c] EXCEPT !.at = "links", !.todo = call[c].links]
        BY <1>2, <2>5 DEF FoldersAreMade, Plans
      <3>. QED  BY <1>1, <2>1, <3>1 DEF SamePlanAs, Made, Call
    <2>. QED  BY <1>5, <2>2, <2>3, <2>4, <2>5
  <1>6. ASSUME LookForLink(c) \/ MakeLink(c) \/ MakeLocalLink(c)
        PROVE  Refused(c) \/ SamePlanAs(call[c], call'[c])
    <2>1. call[c].at \in Made
      BY <1>6 DEF LookForLink, MakeLink, MakeLocalLink, Made
    <2>2. CASE LookForLink(c)
      <3>1. CASE Refused(c)
        BY <3>1
      <3>2. CASE ~Refused(c)
        <4>1. PICK p : Plans(c, [call[c] EXCEPT !.at = "link", !.here = p])
          BY <2>2, <3>2 DEF LookForLink
        <4>2. call'[c] = [call[c] EXCEPT !.at = "link", !.here = p]
          BY <1>2, <4>1 DEF Plans
        <4>. QED  BY <1>1, <2>1, <4>2 DEF SamePlanAs, Made, Call
      <3>. QED  BY <3>1, <3>2
    <2>3. ASSUME NEW p, Linked(c, p)
          PROVE  Refused(c) \/ SamePlanAs(call[c], call'[c])
      <3>1. CASE Refused(c)
        BY <3>1
      <3>2. CASE ~Refused(c)
        <4>1. call'[c] = [call[c] EXCEPT !.at = "links", !.todo = call[c].todo \ {p}]
          BY <1>2, <2>3, <3>2 DEF Linked
        <4>. QED  BY <1>1, <2>1, <4>1 DEF SamePlanAs, Made, Call
      <3>. QED  BY <3>1, <3>2
    <2>. QED  BY <1>6, <2>2, <2>3 DEF MakeLink, MakeLocalLink
  <1>7. ASSUME Enqueue(c) \/ Persist(c) \/ PersistFails(c)
        PROVE  call'[c].at \notin Made \cup {"plan"} \/ SamePlanAs(call[c], call'[c])
    <2>1. call[c].at \in Made
      BY <1>7 DEF Enqueue, Persist, PersistFails, Made
    <2>2. PICK at : /\ call'[c] = [call[c] EXCEPT !.at = at]
                    /\ at \in {"queued", "done", "failed"}
      BY <1>2, <1>7 DEF Enqueue, Persist, PersistFails
    <2>3. CASE at = "failed"
      BY <1>1, <2>2, <2>3 DEF Call, Made
    <2>4. CASE at # "failed"
      BY <1>1, <2>1, <2>2, <2>4 DEF SamePlanAs, Made, Call
    <2>. QED  BY <2>3, <2>4
  <1>. QED  BY <1>3, <1>5, <1>6, <1>7 DEF CallStep, StepFails

LEMMA PlanStays == Inv /\ PlanInv /\ [Next]_vars => PlanInv'
  <1> SUFFICES ASSUME Inv, PlanInv, [Next]_vars, NEW c \in Calls
               PROVE  PlanOK(call'[c])
    BY DEF PlanInv
  <1>1. ASSUME call'[c] = call[c]
        PROVE  PlanOK(call'[c])
    BY <1>1 DEF PlanInv
  <1>2. CASE Restart
    <2>1. call'[c] = call[c] \/ call'[c] = Idle
      BY <1>2 DEF Restart
    <2>. QED  BY <1>1, <2>1, RefusedHasNoPlan
  <1>3. CASE Begin(c)
    BY <1>3, BeginPlans
  <1>4. CASE CallStep(c)
    <2>1. CASE ListFolder(c) \/ BuildPlan(c)
      BY <2>1, ListFolderPlans, BuildPlanPlans
    <2>2. CASE ~ListFolder(c) /\ ~BuildPlan(c)
      <3>1. call'[c].at \notin Made \cup {"plan"} \/ SamePlanAs(call[c], call'[c])
        BY <1>4, <2>2, LaterSteps
      <3>. QED  BY <3>1, NoPlan, PlanKept DEF SamePlanAs, PlanInv
    <2>. QED  BY <2>1, <2>2
  <1>5. ASSUME NEW b \in Calls, b # c, Begin(b) \/ CallStep(b)
        PROVE  call'[c] = call[c]
    <2>1. \E k : Goes(b, k)
      BY <1>5 DEF Begin, CallStep, Plans, Refused, ListFolder, BuildPlan, LookForFolder, MakeFolder,
                  MakeLocalFolder, FoldersAreMade, LookForLink, MakeLink, MakeLocalLink, Linked,
                  StepFails, Enqueue, Persist, PersistFails
    <2>. QED  BY <1>5, <2>1, GoesTo DEF Inv
  <1>6. CASE UNCHANGED vars
    BY <1>1, <1>6 DEF vars
  <1>. QED  BY <1>1, <1>2, <1>3, <1>4, <1>5, <1>6 DEF Next

(* A plan that is carried out is the whole source, whatever tree, limits,  *)
(* links and order of the walk (upload_plan, download_plan, build_plan).   *)
THEOREM PlansAreWhole == Spec => []PlanIsWhole
  <1>1. Init => PlanInv
    <2>1. Init => \A c \in Calls : call[c] = Idle
      BY DEF Init
    <2>. QED  BY <2>1, RefusedHasNoPlan DEF PlanInv
  <1>2. PlanInv => PlanIsWhole
    BY DEF PlanInv, PlanOK, PlanWhole, PlanIsWhole, Planned, Made
  <1>. QED  BY <1>1, <1>2, PlanStays, InvHolds, PTL DEF Spec

===============================================================================
