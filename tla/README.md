# Siftlane in TLA+

Siftlane is a desktop file-transfer client (Tauri: a Rust backend, a React frontend) for SFTP and
FTP servers. This directory holds TLA+ models of its backend, the TLC configurations that check
small instances of them, and TLAPS proofs for every value of the constants.

## The system

| part | source | state | operations | what makes it correct |
| --- | --- | --- | --- | --- |
| transfer scheduler | `src-tauri/src/scheduler.rs` | limits, counters of granted slots, queue of waiting transfers, `Notify` | `acquire`, drop of a permit, `update_limits`, `set_waiting_order` | counters equal the live permits; no waiter sleeps through its turn; within an endpoint first come first served |
| transfer worker | `src-tauri/src/transfers.rs` | one task per spawned transfer; partial, backup and destination file | conflict check, copy, verify, commit, retry, fail | a destination is always whole and never lost; a stale worker cannot undo a decision; Completed means delivered |
| transfer queue | `crates/siftlane-core/src/transfer.rs` | order and jobs behind one mutex | enqueue, transition, priority, reorder, clear, restore | every job once in the order; only accepted transitions; stable sort |
| rows of the transfers | `src-tauri/src/storage.rs`, commands in `commands.rs` | table `transfer_jobs`, writes in flight | `save_transfer(s)`, `delete_transfers`, cascade of `delete_profile` | what was acknowledged survives a restart; the rows follow the queue |
| transfer planning | `transfer_plan.rs`, `enqueue_directory_transfer` | the plan of a call, the destination's folders and links | walk, plan, make folders and links, enqueue the batch | a plan is the whole source or refused; folders exist before their files; a batch is stored whole |
| sessions, host keys | `commands.rs`, `state.rs`, handshake in `siftlane-sftp` | sessions, pending challenges, trusted keys, `last_reconnect` | connect, answer, reconnect, disconnect, delete a profile | no sign-in without trust; no session loses its connection; a deleted profile leaves nothing |
| remote and external edit | `external_edit.rs`, `commands.rs` | edit records, local copies, watcher tasks, temporary and backup files | open, save, watch, review, commit, end | the text survives any failure; what is opened is a version; every change is reported |
| search | `search.rs`, `SearchDialog.tsx` | cancel flags, walks, events, the dialog | start, walk, cancel, listen | silent truncation never happens; the dialog shows its own search only; no walk for nobody |
| preferences | `commands.rs`, `storage.rs` | row, copy in memory, scheduler's limit, diagnostics switch | `save_preferences` | the four agree |
| profiles, favourites, actions | `commands.rs`, `storage.rs` | tables | save, delete | foreign keys; a bookmark of one place is kept once |
| configuration | `configuration.rs` | none of its own | export, import | an import is applied whole; an exported file stands alone |
| secrets | `secrets.rs` | keyring | save, read, delete | a secret is kept that a server accepted or an import brought |
| bandwidth limiter | `scheduler.rs` | token buckets | `acquire`, refund on drop | no more bytes than the limits allow |
| diagnostics, packaging | `diagnostics.rs`, `package.rs` | log files | record, clear, export | no influence on the rest |
| SFTP and FTP clients | `crates/siftlane-sftp`, `crates/siftlane-ftp` | one connection | file operations | errors are classified as retryable or not |
| frontend | `src/App.tsx`, `store.ts`, `components/` | copy of the transfers | commands, events | shows the backend's state |

The frontend calls commands; most run as tasks of tokio's multi-threaded runtime, the synchronous ones
take turns on the main thread. A command takes a mutex, changes what is behind it, lets it go, writes
rows from a thread of the blocking pool and spawns tasks: a worker per transfer, a walk per search, a
watcher per external edit. Tasks tell the frontend what they do with events, which are not ordered with
the answers of commands. A worker asks the scheduler for a permit, marks its job Running and works on
the destination, looking at the job now and then; when its connection breaks it asks for a
reconnection, which replaces the connection of the profile's sessions. What is hard is between these
steps: a command while a worker copies or commits, two workers of one transfer (pause, then resume),
writes that overtake each other, a profile deleted while it is connected, read or imported, operations
that fail before or after they took effect, an application that stops anywhere. `hazards` in
`PROJECT.json` lists these places by line, with the properties that watch them.

## Modules

| module | models | checked by | proved in |
| --- | --- | --- | --- |
| `SlotPool` | the promise of the scheduler: grants and releases within limits | `MCTransferScheduler` | |
| `TransferScheduler` | `scheduler.rs` without the bandwidth limiter; refines `SlotPool` | `MCTransferScheduler` | `TransferSchedulerProofs` |
| `TransferStates` | states, accepted transitions, list filters | by its users | |
| `TransferRunner` | the worker, with the commands that act on its job and the destination's files | `MCTransferRunner` | `TransferRunnerProofs` |
| `TransferQueue` | queue, rows, commands and their unfinished writes, restarts | `MCTransferQueue` | `TransferQueueProofs` |
| `TransferPlan` | planning, preparing and queueing the transfer of a directory | `MCTransferPlan` | `TransferPlanProofs` |
| `Sessions` | profiles, secrets, trusted keys, challenges, connections | `MCSessions` | `SessionsProofs` |
| `RemoteEdit` | the bounded read, the atomic save, the external edit and its watcher | `MCRemoteEdit` | `RemoteEditProofs` |
| `Search` | walks, events, start and cancel commands, the dialog | `MCSearch` | `SearchProofs` |
| `Preferences` | `save_preferences` and the four places it keeps in step | `MCConfiguration` | `ConfigurationProofs` |
| `Configuration` | the library of the user, its export and import; extends `Preferences` | `MCConfiguration` | `ConfigurationProofs` |

`TransferRunner` and `TransferQueue` both use `TransferStates`. The `MC...` modules define constants
for TLC and nothing else.

### TransferScheduler

A task in `acquire` is at one of the points of the loop: it enqueues its id unless it is queued
(177-183), creates the `notified` future (186), looks at the queue under the mutex and is granted or
sleeps (187-220). The future is created before the look, so a notification in between is not lost:
`woken` is the set of tasks whose future has completed. `Release` is the drop of a permit under the
mutex; its `notify_waiters` comes after the mutex is released and is a step of its own, as are those
of `update_limits` and `set_waiting_order`. `EntryRunnable` and `FirstRunnable` are the `position`
of the first entry for which both counters are below their limits.

The endpoint is what `run` makes of the profile each time it is called (`transfers.rs:95-112`), so `Enqueue`
chooses one of those the profile may name (`EndpointsOf`) and keeps it in `endpoint`. When the profile is
edited between two workers of one transfer, the second finds the entry of the first: the limit is
looked up for the endpoint of the entry, the slot is counted for that of the task. `SlotPool` says so too
(`Take`), and `scheduler_moved` shows what it costs.

A grant notifies nobody (215): a waiter that looked before its predecessor was granted may sleep
although a slot is free for it, until the next release. The model has this; `NoLostWakeup` says what
does hold, that then a notification or a release is still to come.

### TransferRunner

A worker's `pc` names the operation it is about to issue: `route` (the look at job and profile, and
the first half of `acquire`), `acquire`, `conflict`, then `ask`, `skip`
or `rename`, `plan`, for a download `open`, `length` and `trim`, `check` and `write` for each chunk, `verify`, `commit`, then `promote`, or
`backup`, `swap` and `cleanup` with `rollback` on an error, `finish`; and `error`, `fail` and `sleep`
for the error path of `spawn`. One step is one critical section of the queue's mutex or one operation
on the destination. A file's content is its size and the set of the source's chunks it holds, so holes,
cut files and mixtures can be told from whole files. `mode` tells destinations where a rename replaces its target
(local, FTP) from those that refuse (SFTP), sources compared by SHA-256 from larger ones compared
by size, and downloads, which write through the handle they opened, from uploads and copies, which write
by path. `open` says where each handle's file is: a rename takes it along (`Followed`), a removal or a
replacement leaves it `Gone`. A download reads the length of its partial file and then sets the file to
that length, in two steps (`ReadLength`, `SetLength`, 319-325). `pending` has the transfers with an entry in the
scheduler's queue: `Start` takes the entry, and a second worker of the transfer goes on waiting without one.

Abstracted: a job change and its row are one step here (`TransferQueue` takes them apart), a failed
write being one of the faults; the content of the source does not change; preserved times and
permissions, progress and bandwidth are left out; the scheduler grants the entries in any order. What a
download reads as the length of a file that is gone is any number.

### TransferQueue

A command is an action under the mutex followed by what is left of its call: `Save` or `SaveFails`,
`Drop`, `Spawn`, `ControlNext` for the next transfer of a command for all. Workers have calls of the
same kind. `update_destination`, `set_verification` and `resume_profile_transfers` write under the
mutex and are one action. `set_priority` is a stable sort by three priorities, written as the
concatenation of the transfers of each priority. `Restart` reads the rows back in the order of
`created_at`. History variables say which transfers had overlapping writes (`raced`), a failed write
(`unsaved`) or were left Queued by a failure or a restart (`adrift`).

Abstracted: all transfers belong to one profile and one batch; a second worker of a transfer starts
when the first has ended (overlapping workers are in `TransferRunner`); the list that
`set_waiting_order` hands to the scheduler is in `TransferScheduler`, which accepts any list.

### TransferPlan

A call walks the source folder by folder (`ListFolder`), refuses loops, depth and number by its limits,
makes the plan (`BuildPlan`, with `Needed` the folders of `build_plan`), looks for and makes the folders
and links at the destination one request at a time (an upload looks and makes in two steps, a download
has `create_dir_all`), queues the batch under one lock and stores it in one transaction. Paths are the
sequences of names below the destination base, so a plan and the tree it will make have one shape.
The walk's stack is a set because a listing has no order. Abstracted: `normalize` of paths, the bytes
of a name, sizes and times; all links lead into the source, and every entry is a file, a folder or a link
(entries of another kind are skipped, `transfer_plan.rs:195`).

### Sessions

A command is a call with its own copy of what it has read: the profile's row, the offered secret, the
keys of its hops, the sessions it found stale. `Resolve` reads, each `Handshake` is one hop, bastion
first, `SignsIn`, `KeepSecret`, `Register` and `Resume` follow, and a reconnection ends with `Swap` and
`CloseStale`. A key that is not trusted ends the call in a pending challenge, which `Answer` may accept
later with the row and the secret of that time. `Replaced` gives the one new connection to every stale
session, as the code does: closing one of those tabs closes the connection of the others.
`delete_profile` is four steps: the row, the secret (`Forget`, whose failure in the keyring the command
does not notice), the list, the sessions. `import_configuration` is the other writer of the keyring: it writes
its profiles (`ImportRow`), then looks up each secret's profile (`ImportChecks`) and stores it (`ImportLays`),
between the steps of any connection or deletion, and one at a time because it is synchronous. Abstracted: the password and the passphrase of a
profile are one secret; an unreachable host, a refusal and a time-out are one failure (`ConnectFails`);
the five seconds of `last_reconnect` are a choice. History variables keep what a property must compare
with: the keys trusted during a call, the secrets accepted and those imported (`brought`), the tabs the
user has, the profiles that were in use when they were deleted, and the deleted ones whose secret the
keyring kept (`kept`).

### RemoteEdit

`WriteChunk`, `Sync`, `Aside`, `Promote`, `Restore`, `Cleanup` and `Discard` are the requests of
`save_remote_bytes_atomic`. Each is done, refused, or done with its answer lost (`Request`). The editor
and the commit of an external edit are two savers that may run at once, next to readers, another user of
the server and an application that stops. A text is a sequence of chunks; reading is chunk by chunk, so
a file replaced meanwhile gives a mixture. `WatcherReads` and `WatcherReports` are the two halves of a
poll, before and under the lock. `Recorded` is the part of every step that keeps the histories.
Abstracted: hashes are the texts they stand for; the privileged variants (sudo) and the editing of
local files are left out.

### Search

One step of a walk opens a folder, reads one entry (the flag is looked at between two) or leaves the
folder, `Pushed` is `push_match` and `Enqueued` is `enqueue_children` with matching folders at the front.
Every event is put on one channel to the dialog; the answer of the start command comes at any time, so
events may precede it and are then dropped, as in the code: a short search may end before the dialog
knows its name. `Asks`, `Clears` and `PressesStop` are the dialog's effects and their clean-up.
A local entry whose `file_type()` fails is passed over without a sign (`PassesOver`, 244-247); a remote
listing has no such case.
Three fields of a walk are histories: `listed`, the folders it has read, `unread`, those it could
not read, and `missed`, the entries it passed over. Abstracted: names (a query is the set of entries that match it), sizes and times of a match.

### Preferences and Configuration

`Saving(s)` is `save_preferences` statement by statement under its guard. `Configuration` has the rows of
profiles, bookmarks and actions and the secrets as functions from ids, the commands that change one of
them, the three reads and the collection of an export, and an import that writes record by record.
Synchronous commands take turns; `delete_profile` and remembered secrets come between any two of their
accesses. A connection goes by the row it read when it began (`BeginSignIn`, `signing`), so it may store
the secret of a profile that was changed or deleted since (`RememberSecret`). A behaviour follows either the preferences or the library, which share nothing (`part`).
Abstracted: encryption and document format (a file is whole or not), the contents of a record, and the size
of a file, of which an import reads 16 MB (`configuration.rs:325`).

## What is checked

| run | question | bounds | states |
| --- | --- | --- | --- |
| `scheduler` | counters, wake-ups, ghosts, order within an endpoint, refinement of `SlotPool`; every entry is granted in the end | 3 tasks of 2 transfers on 2 endpoints, limits 1-2, 3 user commands | 118,844 |
| `scheduler_moved` | finds: an endpoint above its limit after its profile was edited | as `scheduler` | |
| `runner` | destinations, deliveries, partial files | 2 transfers to one existing file, 2 chunks, 1 worker each, 3 disturbances, verified by size | 2,846,389 |
| `runner_overlap` | states and termination with two workers of one transfer | 1 transfer, 2 workers, 3 disturbances, SHA-256 | 162,452 |
| `runner_loss` | finds: both old and new file lost by overlapping commits | as `runner_overlap`, overwrite | |
| `queue` | order, durability, restarts, served Queued transfers | 3 transfers, 2 commands at once, 3 changes, 1 fault | 1,381,512 |
| `plan` | whole plans, folders before files, whole batches, own links | 2 calls at once, a tree with an empty folder, links and two loops, 1 restart | 1,056,908 |
| `sessions` | trust, secrets, deletion, reconnection | 2 profiles, one the other's bastion, 3 keys of 2 algorithms, 2 calls at once, 3 commands, 1 fault, 1 configuration to import | 3,135,273 |
| `remote_edit` | the text survives, what is opened, what is reported | 2 saves, 2 other writes, 1 fault, a text of two chunks and an empty one | 1,557,218 |
| `edit_review` | finds: an upload nobody has reviewed | as `remote_edit`, no fault | |
| `search` | silent truncation, reports, the dialog, orphans, the end | 2 searches, 5 folders in 4 levels, limits 3 matches, 2 folders, depth 1, batches of 2 | 579,911 |
| `configuration` | the four places of the preferences; imports and exports | 2 saves; 2 profiles, 2 bookmarks, 1 action, 2 changes of records | 2,856,998 |

Why the bounds are enough:

- `scheduler`: one transfer has two workers, which may name the endpoint of the other transfer or another one,
  so an entry is shared, overtaken or granted to a task that moved; three commands put a change of the limits
  and one of the order between a look and a sleep. What the run checks of safety is proved for any number.
- `runner`: a disturbance is a fault, a user command or a restart. Three of them, in any order and place,
  are a fault on top of a pause and a resume, or a crash between two faults. Two chunks tell a partial
  file, a hole and a whole file apart. Two transfers suffice for collisions because an operation
  touches one path of one transfer.
- `queue`: the initial tables already hold transfers in the states from which the commands start, so
  three changes reach the overlap of two writes with a third change; a third transfer is needed to see
  an unstable sort.
- `plan`: two calls are two transfers at once or a first attempt and its retry. The links of the tree
  lead to a file, back to a folder above and to the folder itself, so that one loop meets the limit of
  files and the other that of depth; a destination may hold a file where a folder belongs. The order
  of the walk is free.
- `sessions`: three commands are a connection and a second one (or an answer, or a deletion) around a
  reconnection; the two hosts have keys of one algorithm and of another, so that a key may be unknown,
  changed, or replaced by an import in the middle of a command.
- `remote_edit`: the editor and a commit save at once, each request of a save may fail in three ways, and
  the other user or the program writes twice, between any two chunks.
- `search`: each limit is reached by some search and some listing order and by none of the second
  search, which must be complete; the second search follows the first while its events are on the way.
- `configuration`: a document is laid over an empty library and over one that it overlaps, while a
  profile is deleted and a secret remembered at any point.

The runs with `CHECK_DEADLOCK FALSE` are those where the system may come to rest: everything settled or
the bounds used up. The scheduler, and the library with its preferences, never may, and deadlock is
checked there.

Fairness is weak fairness of each task's next step: tokio polls a task that is ready, a held mutex is
released without waiting for anything. In the runner a worker that waits for a slot is not such a task:
fair is only that some worker of a transfer with an entry in the queue is let in (`EveryEntryIsServed` of the
scheduler). When two workers share an entry the other one may wait for ever, so `RunningEnds` asks
that in the end the transfer is not Running and that a worker still alive is one that waits without an
entry. In the scheduler releases are fair because a worker's permit is
dropped when `run` returns, which the runner's liveness shows for its part (`RunningEnds`): an operation
on a server answers or times out. In `remote_edit` only the watcher is fair: it wakes every half second. In
`search` the walks, the event loop of the window, and commands that were sent are. The user, other
programs and faults owe nothing.

### Findings

- `runner_loss`: resuming a paused transfer spawns a second worker while the first is still in its commit;
  both use the same partial and backup paths, and the clean-up of the first removes what the second has
  moved aside: neither the old nor the new file is left. `NothingIsLost` therefore holds in `runner`, with
  one worker per transfer, and fails here with two.
- `scheduler_moved`: a queue entry outlives an edit of its profile's host or port. The worker that comes later
  names the new endpoint and takes a slot there while the limit of the old one is looked up
  (`scheduler.rs:180-208`), against `docs/architecture.md:28`.
- `edit_review`: `commit_external_edit` reads the local copy again and uploads that; the dialog shows what was
  read before. `README.md:51` promises a diff before any upload.

With two workers `DestinationsAreWhole` fails as well; put in the place of `NothingIsLost` in
`MCTransferRunnerLoss.cfg` it gives the first of the following behaviours. A download's second worker sets the partial file to a length it read before the first went on copying
(`transfers.rs:319-325`); after the first has verified the file, what is promoted and reported Completed is cut short, in
spite of SHA-256. An upload's second worker goes on at the offset it knows although the first has promoted
the partial file; the new one has nothing before that offset, and for more than 64 MB only the size is compared.

Other behaviours the models have, and the properties exempt by name, are listed under `hazards`: a grant
notifies nobody; a roll-back does not cover a rename whose answer was lost; a Keep Both number is not
reserved until the commit; a row may keep an older state when writes overtake each other
(`RestartKeepsState` excludes exactly the transfers with overlapping or failed writes); after a reconnection
the sessions of a profile share one connection; a profile in use while it is deleted may leave a session
and a secret, and the keyring's refusal to delete one, or the end of the application between row and
secret, leaves the secret (`DeletedIsGone` excludes those, by `raced` and `kept`); a local search says
nothing of an entry whose kind it cannot read (`SilenceMeansComplete` excludes those in `missed`); an external edit of a file without a reported size starts
empty; a search that ends before its answer arrives leaves the dialog searching.

## What is proved

`TransferSchedulerProofs` proves for any sets of tasks, transfers, endpoints and callers:
`Typing`, `CountersAreExact`, `QueueHasNoGhosts`, `WakeupsAreNotLost`, `EndpointsAreFair`
(`OldestOfEndpointFirst`) and `ImplementsSlotPool` (`SlotPoolSpec`), whatever endpoints the tasks of
one transfer name. The inductive invariant adds to the
typing that entries are distinct, that each entry has a task inside `acquire` that will look for it,
and that the counters are the cardinalities of the sets of permit holders; without the latter the
saturating decrement could not be replaced by a subtraction. The wake-up theorem is by cases on who
could have changed the queue since a sleeping task looked: each of them owes a notification.
For `EndpointsAreFair`, only a grant shortens the queue; it takes the first runnable entry, and an entry of the
same endpoint ahead of it would be runnable too.

`TransferQueueProofs` proves `Durability` (`AckedIsDurable`), `RestartFaithful` (`RestartKeepsState`)
and `QueuedServed` (`QueuedIsServed`) for any finite set of transfers, any set of concurrent commands
(none of them the id of a transfer) and any tables at the start. The argument has three layers:

- `WellFormed`: queue and rows are tables of transfers that were created, a call acknowledges only what
  it writes, and deletes only rows of transfers the queue no longer holds. Ids are not reused, so what
  was removed stays removed; without this a late deletion could take the row of a newer transfer.
- `Change`: all but a few steps have one shape. An actor that is writing nothing changes some transfers
  and goes on to write exactly those, as they now are. `StepShapes` sorts every step of `Next`
  under it, so the invariants are proved for that shape once, and for the writes, the failures, the
  deletion of the profile and the restart one by one.
- `InStep`: for a transfer with no overlapping and no failed write, at most one call writes it, it
  writes it as it is in the queue, and if none does the row is what a restart would make of it.
  `RestartKeepsState` alone is not inductive: it says nothing of a transfer that is being written, and
  the write could then store anything.

`QueueServed` adds to `QueuedIsServed` that a command with transfers left knows what it does with them.

`QueueTyped` (`TypeOK`) and `OrderIsKept` (`OnlyOneMoves`) are about the order. A list is known by what is on it
and by what comes before what (`Before`); it has no entry twice when nothing comes before itself. In these
terms there is one lemma for each of the queue's operators: `retain` (`Only`, a recursive function, whose
lemma `OnlyIs` argues by the least prefix at which it would fail), appending, inserting, and the sort as the
concatenation of three retained lists (`ByPriorityIs`, `ReorderedIs`). `OrderIsKept` needs some transfer to
name as the one that moved, so the set of transfers is not empty.

`TransferRunnerProofs` proves for any transfers, sizes, workers, faults, commands and restarts
`WorkersAreTyped` (`TypeOK`), `CompletionIsTrue` (`CompletedWasDelivered`), `RunningIsWorkedOn`
(`RunningHasWorker`) and the action property `SettledStays` (`SettledIsFinal`).
`DestinationsStayWhole` (`DestinationsAreWhole`), `ReplacedFilesSurvive` (`NothingIsLost`) and `CopiesAreKept`
(`PartialIsKept`) have the hypothesis `[]OneWorkerEach`, that no transfer has two workers at once, and need
it: with two, a length set too late shortens a partial file and what is promoted from it, and `runner_loss`
shows the second property violated. Any number of
workers may follow one another, and with `MaxWorkers = 1` nothing is assumed (`OneWorkerIsEnough`). `AloneInv` adds what neither property says: a partial
file has no hole (`FilesOK`), what a worker knows of it is true (`WorkersOK`: its offset is the length of
the file, which a download has open, and after the verification the file is complete), and a replaced file that is not at its
destination is in a backup whose transfer is not in its clean-up (`Safe`). `StepIs` sorts the actions of a
worker by what they do to files, so that each property is proved once for a write, a move and a removal.

`TransferPlanProofs` proves `FoldersComeFirst` (`JobsHaveFolders`), `PlansAreWhole` (`PlanIsWhole`),
`BatchesAreWhole` (`WholeBatch`) and `LinksAreNotShared` (`LinksAreItsOwn`) for any tree, any commands at once and anything the destination holds
before, provided that the destination base itself is a folder, as it is where a pane shows it. The
invariant says for each point of a call which of its folders and links are made (`FolderInv`, `LinkInv`),
and what memory, table and workers have of it (`QueueInv`). `JobsHaveFolders` makes a difference
between the directions: a download makes sure that what it finds is a folder, an upload passes over
whatever has the name (`ensure_remote_directories`), so all that is proved of it is that something is there.
For `PlanIsWhole` the invariant `PlanInv` keeps the set of folders a walk has read: each of them is a folder of
the source at its path, the folders found in them are read or on the stack, and the plan has exactly what was
found in them. When the stack is empty, a folder of the source that was not read would have one of least
level (`FoldersAt`), whose parent was read.

`SessionsProofs` proves `TrustComesFirst` (`ConnectsToTrusted`), `SecretsFollowSignIn`
(`SecretsWereAccepted`), `DeletionIsComplete` (`DeletedIsGone`) and `TabsKeepTheirSessions`
(`ReconnectSparesSessions`) for any profiles, hosts, keys and secrets and any number of calls.
Each has its own invariant beside the typing: what a call knows or has passed was trusted while it ran
(`TrustInv`); a secret a call or a challenge will store has been accepted, or came with the import
that stores it (`SecretInv`); nothing but a call that was under way can bring a deleted profile's data back,
and an import only stores the secret of a profile it has brought or has seen, which is then in use (`GoneInv`). The last is the longest:
the numbers of sessions and challenges are never used twice (`NumberInv`), only one reconnection runs
(`OpInv`), a session not yet given to the user is there unless its profile was deleted (`OpenInv`), and two
sessions share a connection only within a profile (`AgreeInv`), so that what a reconnection closes is of
its own profile.

`RemoteEditProofs` proves `NothingIsOverwritten` (`ContentSurvives`), `TheFileComesBack` (`PathIsBack`),
`SavesCleanUp` (`SavedLeavesNothing`) and `OpenedTextsWereThere` (`OpenedIsAVersion`) for any set of texts,
each a sequence of chunks, and any number of saves, writes and faults. One invariant serves all four:
a save that is under way has its own temporary file and backup, in the state its point tells (`SaverInv`);
the last text is at the path, or in a backup its save will not remove (`PlaceInv`); without bad luck a
missing file has a save that brings it back (`LuckInv`); a reader that was not overtaken holds
the beginning of the file (`ReaderInv`); the local copy of an edit is a text of the user before
anything of it is uploaded (`CopyInv`).

`SearchProofs` proves `SilenceIsComplete` (`SilenceMeansComplete`), `EntriesAreReportedOnce`
(`ReportedOnce`), `ShownIsAsked` (`ShownAnswersTheQuery`) and `NoWalkIsForgotten` (`NoOrphans`) for any tree
of folders (none lies below itself), any limits and any number of searches. The folders a walk has to
list are the smallest set that is closed under listing. A walk's invariant is that the folders read, the one
it is in and those in its queue make up such a set when it is at rest, and that every match of a folder
read is found (`Sound`, `Kept`); `Tells` ties the events to it: what was reported, with what is pending, is
what was found. `EventsInv` and `DialogInv` follow the events to the dialog: those on the way carry
different entries, none of which is shown yet, and a dialog that listens, or waits for its answer, is set to
what that search was asked. What a search reports is the concatenation of its batches, a recursive
function; the lemmas on it argue by the least length at which they would fail.

`ConfigurationProofs` proves `SavesAgree` and `SettingsStayAgreed` (`SettingsAgree`, of `PreferencesSpec` and
of `Configuration`, whose behaviours satisfy it by `PreferencesAreApart`), `ExportsAreComplete`
(`ExportsStandAlone`) and `ImportsAreComplete` (`ImportRestores`), for any saves, limits, records and documents
and any tables at the start whose bookmarks have profiles. `SettingsAgree` speaks of the moments
when nobody holds the guard, and is not inductive: `IndInv` adds `OneInside` (only the holder of the guard is
past it) and `Progress`, for each point of `save_preferences`, which of the four places already follow the
value, and that what was read of the diagnostics still holds, so that skipping the switch is right.
`ExportInv` follows an export through its three reads, in the order that makes the result importable: the
profiles read before the bookmarks contain their owners. `ImportInv` says which records are laid down at
each point and that the others are as they were, except for profiles deleted or signed in meanwhile, whose
sign-in may have begun at any time before.
An import lays down only the secrets of profiles that the document or the library has (`LaidSecrets`).

The assumptions are those named in the modules: constants have their types, names that must differ do,
tables at the start satisfy their foreign keys, the folders of a tree do not contain themselves. TLC evaluates
each of them in every run.

### Only model-checked

- Liveness (`EveryEntryIsServed`, `RunningEnds`, `EditsAreReported`, `HeldSearchEnds`), which rests on
  fairness and ENABLED: out of the prover's reach.

## Not modelled, and the plan

`components` in `PROJECT.json` gives each part's status.

- The bandwidth limiter is arithmetic of elapsed seconds in floating point, which TLC cannot represent
  faithfully. Its refund of a cancelled wait uses the limit of the reservation, not the current one
  (`scheduler.rs:64`).
- Diagnostics are file output on which nothing depends (only their switch is in `Preferences`); packaging
  and remote commands wrap `zip` and a remote shell.
- The protocols inside the clients are those of libraries; their operations are requests that are done,
  refused, or done with a lost answer. Archives, permissions and the privileged variants are left out.
- The store's copy of the transfers and the views: lists that commands return and progress events.
- Progress counters, sizes that change during a transfer, preserved times and permissions; encryption and
  the document format of a configuration; normalisation of paths.

Every safety property the passing runs check is proved. What remains worth doing is to say more:

1. `TransferRunner`: a property of the destinations that two workers of one transfer do keep, to say how
   far the damage of an overlap goes;
2. `TransferQueue`: the order after a restart is that of `created_at`, so a reordering is lost by design;
   a property that says when the order does survive.
