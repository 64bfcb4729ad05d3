------------------------------- MODULE Search -------------------------------
(***************************************************************************)
(* File-name search: the walks of search.rs, the commands that start and   *)
(* cancel them, and the dialog that listens to their progress.             *)
(*                                                                         *)
(* A walk runs in a task of its own and reads one listing entry per step,  *)
(* because the cancel flag may be raised between two entries.  Its events  *)
(* travel on a channel that is not ordered with the answer of the command  *)
(* that started it: the dialog may hear of a search before it knows its    *)
(* name.  The order of a listing is arbitrary.                             *)
(***************************************************************************)
EXTENDS Naturals, FiniteSets, Sequences, SequencesExt

CONSTANTS
  Folder,        \* folders of the tree
  File,          \* regular files
  Link,          \* symbolic links and special files
  In,            \* In[e]: the folder that lists e (the top folder is in none)
  Heavy,         \* folders on the skip list
  Hits,          \* Hits[q]: the entries whose name contains the query q
  Targets,       \* Targets[s]: what the user may ask of the s-th search
  MaxSearches,   \* bound: searches started in a behaviour
  MaxMatches, MaxVisited, MaxDepth, Batch

ASSUME LimitsAssumption ==
  /\ {MaxMatches, MaxVisited, Batch} \subseteq Nat \ {0}
  /\ {MaxDepth, MaxSearches} \subseteq Nat
  /\ Targets \in [1..MaxSearches -> SUBSET [query : DOMAIN Hits, root : Folder,
                                            remote : BOOLEAN]]
  /\ \A e \in DOMAIN In : In[e] \in Folder

\* No folder lies below itself.
ASSUME TreeAssumption ==
  \A S \in (SUBSET DOMAIN In) \ {{}} : \E e \in S : In[e] \notin S

SearchIds == 1..MaxSearches

Nobody == 0

VARIABLES
  walk,      \* walk[s]: the state of the task of search s; its fields listed, unread
             \* and missed keep, for the properties, the folders it read, those it could
             \* not read and the entries it passed over without knowing what they are
  flag,      \* the cancel flags raised
  searches,  \* the map of running searches the commands share
  sent,      \* sent[s]: every event search s has emitted, in order
  events,    \* the events the dialog has not handled yet
  reply,     \* reply[s]: how far the answer of the start command is
  cancels,   \* cancel commands the dialog has issued and nobody has run yet
  dialog     \* what the dialog shows and which search it listens to

vars == <<walk, flag, searches, sent, events, reply, cancels, dialog>>

---------------------------------------------------------------------------
(* Events and walks.                                                       *)

Event(s, found, w, done, stopped, failed) ==
  [id |-> s, matches |-> found, truncated |-> w.truncated,
   done |-> done, cancelled |-> stopped, error |-> failed]

NoWalk ==
  [at |-> "none", query |-> "", root |-> "", remote |-> FALSE,
   queue |-> <<>>, dir |-> "", depth |-> 0, rest |-> {}, preferred |-> <<>>, other |-> <<>>,
   matches |-> <<>>, pending |-> <<>>, visited |-> 0, truncated |-> FALSE,
   listed |-> {}, unread |-> {}, missed |-> {}]

NewWalk(t) ==
  [NoWalk EXCEPT !.at = "next", !.query = t.query, !.root = t.root, !.remote = t.remote,
                 !.queue = <<[dir |-> t.root, depth |-> 0]>>]

Children(dir) == {e \in DOMAIN In : In[e] = dir}

\* The walk of s becomes w and emits the events in list.
Moves(s, w, list) ==
  /\ walk' = [walk EXCEPT ![s] = w]
  /\ sent' = [sent EXCEPT ![s] = @ \o list]
  /\ events' = events \o list
  /\ UNCHANGED <<flag, searches, reply, cancels, dialog>>

\* An event for the matches not reported yet; none when there are none.
Flushed(s, w) ==
  IF w.pending = <<>> THEN <<>> ELSE <<Event(s, w.pending, w, FALSE, FALSE, FALSE)>>

\* finish(): the last event of a walk that did not fail.
Finish(s, w, stopped) ==
  Moves(s, [w EXCEPT !.at = "ended", !.pending = <<>>, !.queue = <<>>, !.rest = {}],
        <<Event(s, w.pending, w, TRUE, stopped, FALSE)>>)

(* Mutant of Fail: the task reports no error. *)
FailQuietly(s, w) ==
  Moves(s, [w EXCEPT !.at = "ended", !.pending = <<>>, !.queue = <<>>, !.rest = {}], <<>>)

\* The walk returned an error: what was pending is dropped, and the task
\* reports the error with a last event of its own.
Fail(s, w) ==
  Moves(s, [w EXCEPT !.at = "ended", !.pending = <<>>, !.queue = <<>>, !.rest = {}],
        <<Event(s, <<>>, NoWalk, TRUE, FALSE, TRUE)>>)

---------------------------------------------------------------------------
(* The walk.                                                               *)

Stopped(s) ==
  /\ s \in flag
  /\ \/ walk[s].at = "next" /\ walk[s].queue # <<>>
     \/ walk[s].at = "entries" /\ walk[s].rest # {}
  /\ Finish(s, walk[s], TRUE)

Exhausted(s) ==
  /\ walk[s].at = "next"
  /\ walk[s].queue = <<>>
  /\ Finish(s, walk[s], FALSE)

OutOfReach(w) == Head(w.queue).depth > MaxDepth \/ w.visited >= MaxVisited

(* Mutant of GivesUp: truncated is not set. *)
GivesUpSilently(s) ==
  /\ walk[s].at = "next"
  /\ walk[s].queue # <<>>
  /\ s \notin flag
  /\ OutOfReach(walk[s])
  /\ Finish(s, walk[s], FALSE)

\* The walk gives up at a folder too deep, or after too many folders.
GivesUp(s) ==
  /\ walk[s].at = "next"
  /\ walk[s].queue # <<>>
  /\ s \notin flag
  /\ OutOfReach(walk[s])
  /\ Finish(s, [walk[s] EXCEPT !.truncated = TRUE], FALSE)

Opening(s) ==
  /\ walk[s].at = "next"
  /\ walk[s].queue # <<>>
  /\ s \notin flag
  /\ ~OutOfReach(walk[s])

\* The folder at the front of the queue is listed.
OpensFolder(s) ==
  /\ Opening(s)
  /\ LET here == Head(walk[s].queue)
     IN  Moves(s, [walk[s] EXCEPT !.at = "entries", !.queue = Tail(@),
                                  !.visited = @ + 1, !.dir = here.dir, !.depth = here.depth,
                                  !.rest = Children(here.dir), !.listed = @ \cup {here.dir},
                                  !.preferred = <<>>, !.other = <<>>], <<>>)

\* Listing fails.  A remote walk passes over a folder below the root, every
\* other failure ends the search.
ListingFails(s) ==
  /\ Opening(s)
  /\ LET here == Head(walk[s].queue)
         w == [walk[s] EXCEPT !.queue = Tail(@), !.visited = @ + 1]
     IN  IF walk[s].remote /\ here.depth > 0
         THEN Moves(s, [w EXCEPT !.unread = @ \cup {here.dir}], <<>>)
         ELSE Fail(s, w)

(* Mutant of Pushed: the batch is sent and kept. *)
PushedTwice(s, w, e) ==
  LET one == [w EXCEPT !.matches = Append(@, e), !.pending = Append(@, e)]
      full == Len(one.pending) >= Batch
  IN  [w |-> [one EXCEPT !.truncated = Len(one.matches) >= MaxMatches],
       out |-> IF full THEN Flushed(s, one) ELSE <<>>]

\* push_match(): the match counts, fills a batch, or reaches the limit.
Pushed(s, w, e) ==
  LET one == [w EXCEPT !.matches = Append(@, e), !.pending = Append(@, e)]
      full == Len(one.pending) >= Batch
      sentBatch == IF full THEN [one EXCEPT !.pending = <<>>] ELSE one
  IN  [w |-> [sentBatch EXCEPT !.truncated = Len(one.matches) >= MaxMatches],
       out |-> IF full THEN Flushed(s, one) ELSE <<>>]

\* A folder is queued for later: one that matches goes to the front.
Noted(w, e) ==
  IF e \notin Folder \ Heavy THEN w
  ELSE IF e \in Hits[w.query] THEN [w EXCEPT !.preferred = Append(@, e)]
  ELSE [w EXCEPT !.other = Append(@, e)]

\* One entry of the listing.  Reaching the match limit leaves the loop at
\* once, and the folder with it.
ReadsEntry(s) ==
  /\ walk[s].at = "entries"
  /\ s \notin flag
  /\ \E e \in walk[s].rest :
       LET w == [walk[s] EXCEPT !.rest = @ \ {e}]
           found == e \in Hits[w.query] \ Link
           pushed == Pushed(s, w, e)
       IN  IF ~found THEN Moves(s, Noted(w, e), <<>>)
           ELSE Moves(s, IF pushed.w.truncated THEN [pushed.w EXCEPT !.rest = {}]
                         ELSE Noted(pushed.w, e),
                      pushed.out)

\* The kind of an entry of a local listing cannot be read: it is passed over,
\* and the walk says nothing of it.
PassesOver(s) ==
  /\ walk[s].at = "entries"
  /\ ~walk[s].remote
  /\ s \notin flag
  /\ \E e \in walk[s].rest :
       Moves(s, [walk[s] EXCEPT !.rest = @ \ {e}, !.missed = @ \cup {e}], <<>>)

\* A local listing breaks off in the middle.
EntryFails(s) ==
  /\ walk[s].at = "entries"
  /\ walk[s].rest # {}
  /\ ~walk[s].remote
  /\ s \notin flag
  /\ Fail(s, walk[s])

Queued(dirs, depth) == [i \in DOMAIN dirs |-> [dir |-> dirs[i], depth |-> depth]]

\* enqueue_children(): matching folders to the front, the others to the back.
Enqueued(w) ==
  Queued(w.preferred, w.depth + 1) \o w.queue \o Queued(w.other, w.depth + 1)

\* The listing is read: its matches are reported and its folders queued.
LeavesFolder(s) ==
  /\ walk[s].at = "entries"
  /\ walk[s].rest = {}
  /\ LET w == [walk[s] EXCEPT !.pending = <<>>]
     IN  IF w.truncated
         THEN Moves(s, [w EXCEPT !.at = "ended", !.queue = <<>>],
                    Flushed(s, walk[s]) \o <<Event(s, <<>>, w, TRUE, FALSE, FALSE)>>)
         ELSE Moves(s, [w EXCEPT !.at = "next", !.queue = Enqueued(w)],
                    Flushed(s, walk[s]))

\* The task takes the search off the map.
TaskEnds(s) ==
  /\ walk[s].at = "ended"
  /\ walk' = [walk EXCEPT ![s].at = "over"]
  /\ searches' = searches \ {s}
  /\ UNCHANGED <<flag, sent, events, reply, cancels, dialog>>

WalkStep(s) ==
  \/ Stopped(s)
  \/ Exhausted(s)
  \/ GivesUp(s)
  \/ OpensFolder(s)
  \/ ListingFails(s)
  \/ ReadsEntry(s)
  \/ PassesOver(s)
  \/ EntryFails(s)
  \/ LeavesFolder(s)
  \/ TaskEnds(s)

---------------------------------------------------------------------------
(* The dialog and its commands.                                            *)

Fresh ==
  [listens |-> Nobody, query |-> "", root |-> "", running |-> FALSE,
   shown |-> <<>>, truncated |-> FALSE, error |-> FALSE]

\* What leaving the previous effect does: its search is cancelled, and an
\* answer still under way will only be used to cancel.
Released == [s \in SearchIds |-> IF reply[s] = "wanted" THEN "unwanted" ELSE reply[s]]

LetsGo == cancels' = cancels \cup ({dialog.listens} \ {Nobody})

\* A new query or root: start_search_local or start_search_remote inserts the
\* flag and spawns the walk; its answer is on the way.
Asks ==
  \E s \in SearchIds : \E t \in Targets[s] :
    /\ walk[s].at = "none"
    /\ \A earlier \in 1..(s - 1) : walk[earlier].at # "none"
    /\ LetsGo
    /\ reply' = [Released EXCEPT ![s] = "wanted"]
    /\ walk' = [walk EXCEPT ![s] = NewWalk(t)]
    /\ searches' = searches \cup {s}
    /\ dialog' = [Fresh EXCEPT !.query = t.query, !.root = t.root, !.running = TRUE]
    /\ UNCHANGED <<flag, sent, events>>

\* A remote search without a session is refused.
AskFails ==
  /\ LetsGo
  /\ reply' = Released
  /\ \E t \in UNION Range(Targets) :
       t.remote /\ dialog' = [Fresh EXCEPT !.query = t.query, !.root = t.root, !.error = TRUE]
  /\ UNCHANGED <<walk, flag, searches, sent, events>>

\* The query is emptied, the pane is changed or the dialog is closed.
Clears ==
  /\ dialog # Fresh
  /\ LetsGo
  /\ reply' = Released
  /\ dialog' = Fresh
  /\ UNCHANGED <<walk, flag, searches, sent, events>>

\* The stop button: the dialog keeps listening for the last event.
PressesStop ==
  /\ dialog.listens # Nobody
  /\ LetsGo
  /\ UNCHANGED <<walk, flag, searches, sent, events, reply, dialog>>

(* Mutant of AnswerArrives: the unwanted search is not cancelled. *)
AnswerIsForgotten(s) ==
  /\ \/ /\ reply[s] = "wanted"
        /\ dialog' = [dialog EXCEPT !.listens = s]
     \/ /\ reply[s] = "unwanted"
        /\ UNCHANGED dialog
  /\ reply' = [reply EXCEPT ![s] = "given"]
  /\ UNCHANGED <<walk, flag, searches, sent, events, cancels>>

\* The answer of a start command arrives.
AnswerArrives(s) ==
  /\ \/ /\ reply[s] = "wanted"
        /\ dialog' = [dialog EXCEPT !.listens = s]
        /\ UNCHANGED cancels
     \/ /\ reply[s] = "unwanted"
        /\ cancels' = cancels \cup {s}
        /\ UNCHANGED dialog
  /\ reply' = [reply EXCEPT ![s] = "given"]
  /\ UNCHANGED <<walk, flag, searches, sent, events>>

\* cancel_search: nothing happens to a search that is over.
CancelSearch(s) ==
  /\ s \in cancels
  /\ cancels' = cancels \ {s}
  /\ flag' = flag \cup ({s} \cap searches)
  /\ UNCHANGED <<walk, searches, sent, events, reply, dialog>>

Heard(e) ==
  [dialog EXCEPT !.shown = @ \o e.matches, !.truncated = e.truncated,
                 !.error = @ \/ e.error, !.running = @ /\ ~e.done,
                 !.listens = IF e.done THEN Nobody ELSE @]

(* Mutant of HearsEvent: the name of the search is not compared. *)
HearsAnyEvent ==
  /\ events # <<>>
  /\ events' = Tail(events)
  /\ dialog' = IF dialog.listens # Nobody THEN Heard(Head(events)) ELSE dialog
  /\ UNCHANGED <<walk, flag, searches, sent, reply, cancels>>

\* An event is handled: it counts only when it names the search listened to.
HearsEvent ==
  /\ events # <<>>
  /\ events' = Tail(events)
  /\ dialog' = IF Head(events).id = dialog.listens THEN Heard(Head(events)) ELSE dialog
  /\ UNCHANGED <<walk, flag, searches, sent, reply, cancels>>

---------------------------------------------------------------------------
Init ==
  /\ walk = [s \in SearchIds |-> NoWalk]
  /\ flag = {}
  /\ searches = {}
  /\ sent = [s \in SearchIds |-> <<>>]
  /\ events = <<>>
  /\ reply = [s \in SearchIds |-> "none"]
  /\ cancels = {}
  /\ dialog = Fresh

Next ==
  \/ Asks
  \/ AskFails
  \/ Clears
  \/ PressesStop
  \/ HearsEvent
  \/ \E s \in SearchIds : AnswerArrives(s) \/ CancelSearch(s) \/ WalkStep(s)

Spec == Init /\ [][Next]_vars

\* The tasks are polled, the event loop of the window runs, and a command that
\* was sent is executed and answered.  The user owes nothing.
FairSpec ==
  /\ Spec
  /\ WF_vars(HearsEvent)
  /\ \A s \in SearchIds :
       WF_vars(WalkStep(s)) /\ WF_vars(AnswerArrives(s)) /\ WF_vars(CancelSearch(s))

---------------------------------------------------------------------------
(* Properties.                                                             *)

Reported(s) == FlattenSeq([i \in DOMAIN sent[s] |-> sent[s][i].matches])

\* The folders a walk of w.root can list: the smallest set with the root and the
\* folders of its folders.  Those on the skip list, those it could not read and
\* those it passed over hide what is below them.
Closed(w, S) ==
  /\ w.root \in S
  /\ \A d \in ((Folder \ Heavy) \cap DOMAIN In) \ w.missed : In[d] \in S \ w.unread => d \in S

Listed(w) == {d \in Folder : \A S \in SUBSET Folder : Closed(w, S) => d \in S} \ w.unread

Expected(w) ==
  {e \in Hits[w.query] \ (Link \cup w.missed) : e \in DOMAIN In /\ In[e] \in Listed(w)}

\* A search that ends without saying it was truncated, cancelled or failed has
\* reported every matching entry of every folder it could read, but for what lay
\* in or below a folder a remote walk could not list and an entry whose kind a
\* local walk could not read, which are lost without a word: no limit, no other
\* failure and no order of the queue loses a match silently.
SilenceMeansComplete ==
  \A s \in SearchIds :
    LET last == sent[s][Len(sent[s])] IN
    (sent[s] # <<>> /\ last.done /\ ~last.truncated /\ ~last.cancelled /\ ~last.error)
      => ToSet(Reported(s)) = Expected(walk[s])

\* Across all its events a search reports an entry once, in the order found,
\* and never more than the limit, whatever the batches and the limit cut off.
ReportedOnce ==
  \A s \in SearchIds :
    /\ IsInjective(Reported(s))
    /\ IsPrefix(Reported(s), walk[s].matches)
    /\ walk[s].at = "next" => Reported(s) = walk[s].matches
    /\ Len(Reported(s)) <= MaxMatches

\* What the dialog shows answers the query and the root it is set to, however
\* late the events and answers of the searches before it arrive.
ShownAnswersTheQuery ==
  /\ IsInjective(dialog.shown)
  /\ dialog.shown # <<>> =>
       ToSet(dialog.shown) \subseteq
         Expected([NoWalk EXCEPT !.query = dialog.query, !.root = dialog.root])

\* No walk goes on for nobody: it is listened to, its answer is on the way, or
\* a cancel is on the way to it or has reached it.
NoOrphans ==
  \A s \in searches :
    walk[s].at \in {"next", "entries"} =>
      s = dialog.listens \/ reply[s] \in {"wanted", "unwanted"} \/ s \in cancels \cup flag

EndUnheard(s) ==
  \/ walk[s].at \in {"next", "entries"}
  \/ \E i \in DOMAIN events : events[i].id = s /\ events[i].done

\* A dialog that knows its search before it has handled the last event stops
\* listening to it: a failing, stopped or truncated search does not leave the
\* dialog searching.  (One that learns the name later listens for ever.)
HeldSearchEnds ==
  \A s \in SearchIds : (dialog.listens = s /\ EndUnheard(s)) ~> dialog.listens # s
=============================================================================
