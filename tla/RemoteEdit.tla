------------------------------ MODULE RemoteEdit ------------------------------
(***************************************************************************)
(* Editing one remote file: opening it in the built-in editor, saving it   *)
(* (save_remote_bytes_atomic in src-tauri/src/commands.rs), and editing a  *)
(* local copy in an external program that Siftlane watches                 *)
(* (src-tauri/src/external_edit.rs).                                       *)
(*                                                                         *)
(* A text is a sequence of chunks.  A file is read and written chunk by    *)
(* chunk, each chunk a request of its own, and a save moves the file aside *)
(* before the new one takes its name: readers, the two savers, other users *)
(* of the server and faults interleave with all of it.                     *)
(***************************************************************************)
EXTENDS Naturals, Sequences

CONSTANTS
  Chunk,          \* what a file is made of
  Text,           \* the texts users write
  First,          \* the text of the file at the start
  MaxSize,        \* MAX_EDITABLE_FILE_BYTES, in chunks
  MaxSaves,       \* bound: saves
  MaxWrites,      \* bound: writes by the external program and by others
  MaxFaults,      \* bound: failed requests, lost answers and crashes
  NoText

Saver == {"editor", "commit"}

ASSUME ConstantsAssumption ==
  /\ Text \subseteq Seq(Chunk) /\ NoText \notin Seq(Chunk)
  /\ First \in Text /\ MaxSize \in Nat
  /\ MaxSaves \in Nat /\ MaxWrites \in Nat /\ MaxFaults \in Nat

VARIABLES
  files,          \* the remote directory: the file, .siftlane-edit-*, .siftlane-backup-*
  savers,         \* the two calls of save_remote_bytes_atomic
  reader,         \* a call that reads the remote file
  edit,           \* the ExternalEditRecord, with the state of the edit
  local,          \* the local copy
  watcher,        \* the task of spawn_watcher
  event,          \* an external-edit-changed the frontend has not handled
  review,         \* the text the review dialog shows
  current,        \* history: the text the remote file had last
  past,           \* history: all texts it had
  misread,        \* history: something else was opened
  torn,           \* history: the file was replaced while it is read
  blind,          \* history: a commit has uploaded another text than it showed
  unlucky,        \* history: an answer was lost, a rollback failed or a save was cut off
  saves, writes, faults

vars == <<files, savers, reader, edit, local, watcher, event, review, current, past,
          misread, torn, blind, unlucky, saves, writes, faults>>

editing == <<edit, local, watcher, event, review, blind>>

Path == <<"path", 0>>
Temp(k) == <<"temp", k>>
Backup(k) == <<"backup", k>>
Names == {Path} \cup {Temp(k) : k \in 1..MaxSaves} \cup {Backup(k) : k \in 1..MaxSaves}

Missing == NoText

Exists(f) == files[f] # Missing

Fault == faults < MaxFaults /\ faults' = faults + 1

-----------------------------------------------------------------------------
(* Saving.                                                                 *)

NoSave == [pc |-> "idle", k |-> 0, text |-> NoText]

Goes(s, pc) == savers' = [savers EXCEPT ![s].pc = pc]

Returns(s) == savers[s].pc \in {"saved", "failed"} /\ savers' = [savers EXCEPT ![s] = NoSave]

Begins(s, t) ==
  /\ savers[s].pc = "idle" /\ saves < MaxSaves
  /\ saves' = saves + 1
  /\ savers' = [savers EXCEPT ![s] = [pc |-> "write", k |-> saves + 1, text |-> t]]

(* A request that makes the directory d: it is done, or refused, or done   *)
(* although the answer is lost.                                            *)
Request(s, able, d, ok, error) ==
  \/ able /\ files' = d /\ Goes(s, ok) /\ UNCHANGED <<unlucky, faults>>
  \/ ~able /\ Goes(s, error) /\ UNCHANGED <<files, unlucky, faults>>
  \/ able /\ Fault /\ Goes(s, error) /\ UNCHANGED files
       /\ unlucky' = (unlucky \/ savers[s].pc = "restore")
  \/ able /\ Fault /\ Goes(s, error) /\ files' = d /\ unlucky' = TRUE

Renamed(from, to) == [files EXCEPT ![to] = files[from], ![from] = Missing]

Removed(f) == [files EXCEPT ![f] = Missing]

Untouched == UNCHANGED <<reader, editing, misread, saves, writes>>

Written(s) == IF Exists(Temp(savers[s].k)) THEN Len(files[Temp(savers[s].k)]) ELSE 0

(* The next chunk; an empty text is written as one empty chunk.            *)
WriteChunk(s) ==
  /\ savers[s].pc = "write"
  /\ LET text == savers[s].text
         upTo == IF text = << >> THEN 0 ELSE Written(s) + 1
     IN  Request(s, TRUE, [files EXCEPT ![Temp(savers[s].k)] = SubSeq(text, 1, upTo)],
                 IF upTo = Len(text) THEN "sync" ELSE "write", "failed")
  /\ Untouched

Sync(s) == savers[s].pc = "sync" /\ Request(s, TRUE, files, "aside", "failed") /\ Untouched

(* Mutant of Aside: the file is removed instead. *)
AsideRemoved(s) ==
  /\ savers[s].pc = "aside"
  /\ Request(s, Exists(Path), Removed(Path), "promote", "failed")
  /\ Untouched

Aside(s) ==
  /\ savers[s].pc = "aside"
  /\ Request(s, Exists(Path), Renamed(Path, Backup(savers[s].k)), "promote", "failed")
  /\ Untouched

(* Mutant of Promote: a failure is returned at once. *)
PromoteOnly(s) ==
  /\ savers[s].pc = "promote"
  /\ Request(s, Exists(Temp(savers[s].k)), Renamed(Temp(savers[s].k), Path), "discard", "failed")
  /\ Untouched

(* A server may refuse to rename to a name that exists. *)
Promote(s) ==
  /\ savers[s].pc = "promote"
  /\ \/ Request(s, Exists(Temp(savers[s].k)), Renamed(Temp(savers[s].k), Path), "discard",
                "restore")
     \/ Exists(Path) /\ Goes(s, "restore") /\ UNCHANGED <<files, unlucky, faults>>
  /\ Untouched

Restore(s) ==
  /\ savers[s].pc = "restore"
  /\ \/ Request(s, Exists(Backup(savers[s].k)), Renamed(Backup(savers[s].k), Path), "cleanup",
                "cleanup")
     \/ Exists(Path) /\ Goes(s, "cleanup") /\ UNCHANGED <<files, unlucky, faults>>
  /\ Untouched

Cleanup(s) ==
  /\ savers[s].pc = "cleanup"
  /\ Request(s, Exists(Temp(savers[s].k)), Removed(Temp(savers[s].k)), "failed", "failed")
  /\ Untouched

(* Mutant of Discard: the backup stays. *)
DiscardNot(s) ==
  /\ savers[s].pc = "discard"
  /\ Request(s, Exists(Backup(savers[s].k)), files, "saved", "failed")
  /\ Untouched

Discard(s) ==
  /\ savers[s].pc = "discard"
  /\ Request(s, Exists(Backup(savers[s].k)), Removed(Backup(savers[s].k)), "saved", "failed")
  /\ Untouched

(* save_remote_file *)
EditorSaves(t) ==
  /\ Len(t) <= MaxSize
  /\ Begins("editor", t)
  /\ UNCHANGED <<files, reader, editing, misread, unlucky, writes, faults>>

EditorReturns ==
  /\ Returns("editor")
  /\ UNCHANGED <<files, reader, editing, misread, unlucky, saves, writes, faults>>

-----------------------------------------------------------------------------
(* Reading.  The size is the one metadata reported, if the server reports  *)
(* one.  The editor reads until the end (read_remote_bytes_bounded), an    *)
(* external edit until the reported size, which is zero if there is none.  *)

NoReader == [pc |-> "idle", begin |-> FALSE, sized |-> FALSE, size |-> 0, got |-> << >>]

Open(begin, sized) ==
  /\ reader.pc = "idle" /\ Exists(Path)
  /\ begin => edit.state = "none"
  /\ sized => Len(files[Path]) <= MaxSize
  /\ reader' = [pc |-> "read", begin |-> begin, sized |-> sized,
                size |-> IF sized THEN Len(files[Path]) ELSE IF begin THEN 0 ELSE MaxSize + 1,
                got |-> << >>]
  /\ UNCHANGED <<files, savers, editing, misread, unlucky, saves, writes, faults>>

(* Mutant of Complete: the last chunk is left out. *)
CompleteEarly == Len(reader.got) + 1 >= reader.size

Complete == Len(reader.got) >= reader.size

AtEnd == ~Exists(Path) \/ Len(files[Path]) <= Len(reader.got)

ReadChunk ==
  /\ reader.pc = "read" /\ ~Complete /\ ~AtEnd
  /\ reader' = [reader EXCEPT !.got = Append(@, files[Path][Len(@) + 1])]
  /\ UNCHANGED <<files, savers, editing, misread, unlucky, saves, writes, faults>>

(* The text is complete, or an external edit found an earlier end.         *)
Whole == Complete \/ (Exists(Path) /\ AtEnd /\ (reader.begin \/ ~reader.sized))

Opened == /\ reader' = NoReader
          /\ misread' = (misread \/ ~(torn \/ (reader.begin /\ ~reader.sized)
                                     \/ reader.got \in past))

ReadEnds ==
  /\ reader.pc = "read" /\ ~reader.begin /\ Whole
  /\ Len(reader.got) <= MaxSize
  /\ Opened
  /\ UNCHANGED <<files, savers, editing, unlucky, saves, writes, faults>>

(* The file is gone, ended before its size, or is too large. *)
ReadFails ==
  /\ reader.pc = "read"
  /\ \/ ~Complete /\ ~Whole /\ AtEnd
     \/ Len(reader.got) > MaxSize
  /\ reader' = NoReader
  /\ UNCHANGED <<files, savers, editing, misread, unlucky, saves, writes, faults>>

-----------------------------------------------------------------------------
(* The external edit.                                                      *)

NoEdit(state) == [state |-> state, original |-> NoText, observed |-> NoText, sound |-> TRUE]

BeginExternalEdit ==
  /\ reader.pc = "read" /\ reader.begin /\ Whole
  /\ edit' = [state |-> "active", original |-> reader.got, observed |-> reader.got,
              sound |-> ~torn /\ reader.sized]
  /\ local' = reader.got
  /\ watcher' = [pc |-> "sleep", text |-> NoText]
  /\ Opened
  /\ UNCHANGED <<files, savers, event, review, blind, unlucky, saves, writes, faults>>

Quiet == UNCHANGED <<files, savers, reader, misread, unlucky, saves, faults>>

(* The external program saves the copy. *)
ProgramSaves(t) ==
  /\ edit.state = "active" /\ writes < MaxWrites /\ local # t
  /\ writes' = writes + 1 /\ local' = t
  /\ Quiet /\ UNCHANGED <<edit, watcher, event, review, blind>>

(* The watcher reads the copy, compares it with what it has observed ...   *)
WatcherReads ==
  /\ watcher.pc = "sleep" /\ edit.state = "active" /\ local # edit.observed
  /\ watcher' = [pc |-> "report", text |-> local]
  /\ Quiet /\ UNCHANGED <<edit, local, event, review, blind, writes>>

(* Mutant of WatcherReports: what it saw is compared with the original.    *)
WatcherReportsNew ==
  /\ watcher.pc = "report"
  /\ watcher' = [pc |-> IF edit.state = "active" THEN "sleep" ELSE "off", text |-> NoText]
  /\ IF edit.state = "active" /\ edit.original # watcher.text
     THEN edit' = [edit EXCEPT !.observed = watcher.text] /\ event' = TRUE
     ELSE UNCHANGED <<edit, event>>
  /\ Quiet /\ UNCHANGED <<local, review, blind, writes>>

(* ... and under the lock with what is observed by then.                   *)
WatcherReports ==
  /\ watcher.pc = "report"
  /\ watcher' = [pc |-> IF edit.state = "active" THEN "sleep" ELSE "off", text |-> NoText]
  /\ IF edit.state = "active" /\ edit.observed # watcher.text
     THEN edit' = [edit EXCEPT !.observed = watcher.text] /\ event' = TRUE
     ELSE UNCHANGED <<edit, event>>
  /\ Quiet /\ UNCHANGED <<local, review, blind, writes>>

(* get_external_edit_change, for the review dialog. *)
Review ==
  /\ event /\ edit.state = "active" /\ Len(local) <= MaxSize
  /\ event' = FALSE /\ review' = local
  /\ Quiet /\ UNCHANGED <<edit, local, watcher, blind, writes>>

(* commit_external_edit reads the copy again. *)
Commit ==
  /\ review # NoText /\ edit.state = "active" /\ Len(local) <= MaxSize
  /\ Begins("commit", local)
  /\ blind' = (blind \/ local # review)
  /\ UNCHANGED <<files, reader, edit, local, watcher, event, review, misread, unlucky,
                 writes, faults>>

Kept == [edit EXCEPT !.original = savers["commit"].text,
                     !.observed = savers["commit"].text, !.sound = TRUE]

CommitReturns ==
  /\ Returns("commit")
  /\ edit' = IF savers["commit"].pc = "saved" /\ edit.state = "active" THEN Kept ELSE edit
  /\ review' = IF savers["commit"].pc = "saved" THEN NoText ELSE review
  /\ UNCHANGED <<files, reader, local, watcher, event, misread, blind, unlucky,
                 saves, writes, faults>>

EndExternalEdit ==
  /\ edit.state = "active"
  /\ edit' = NoEdit("ended")
  /\ local' = NoText /\ review' = NoText /\ event' = FALSE
  /\ Quiet /\ UNCHANGED <<watcher, blind, writes>>

-----------------------------------------------------------------------------
OtherUserWrites(t) ==
  /\ writes < MaxWrites /\ Exists(Path) /\ files[Path] # t
  /\ writes' = writes + 1
  /\ files' = [files EXCEPT ![Path] = t]
  /\ UNCHANGED <<savers, reader, editing, misread, unlucky, saves, faults>>

(* The application stops, and with it the calls and the local copies.      *)
Crash ==
  /\ Fault
  /\ unlucky' = (unlucky \/ \E s \in Saver : savers[s].pc # "idle")
  /\ savers' = [s \in Saver |-> NoSave]
  /\ reader' = NoReader
  /\ edit' = NoEdit("ended")
  /\ local' = NoText /\ review' = NoText /\ event' = FALSE
  /\ watcher' = [pc |-> "off", text |-> NoText]
  /\ UNCHANGED <<files, misread, blind, saves, writes>>

Init ==
  /\ files = [f \in Names |-> IF f = Path THEN First ELSE Missing]
  /\ savers = [s \in Saver |-> NoSave]
  /\ reader = NoReader
  /\ edit = NoEdit("none")
  /\ local = NoText /\ review = NoText /\ event = FALSE
  /\ watcher = [pc |-> "off", text |-> NoText]
  /\ current = First /\ past = {First} /\ misread = FALSE /\ torn = FALSE
  /\ blind = FALSE /\ unlucky = FALSE
  /\ saves = 0 /\ writes = 0 /\ faults = 0

SaverStep(s) == WriteChunk(s) \/ Sync(s) \/ Aside(s) \/ Promote(s) \/ Restore(s)
                \/ Cleanup(s) \/ Discard(s)

Watches == WatcherReads \/ WatcherReports

Step ==
  \/ \E s \in Saver : SaverStep(s)
  \/ \E t \in Text : EditorSaves(t) \/ ProgramSaves(t) \/ OtherUserWrites(t)
  \/ EditorReturns \/ Commit \/ CommitReturns \/ BeginExternalEdit \/ EndExternalEdit
  \/ \E begin, sized \in BOOLEAN : Open(begin, sized)
  \/ ReadChunk \/ ReadEnds \/ ReadFails
  \/ Watches \/ Review \/ Crash

(* What the histories record of a step. *)
Recorded ==
  /\ current' = IF files'[Path] # Missing THEN files'[Path] ELSE current
  /\ past' = past \cup {current'}
  /\ torn' = (reader'.pc = "read" /\ (torn \/ (reader.pc = "read" /\ files'[Path] # files[Path])))

Next == Step /\ Recorded

Spec == Init /\ [][Next]_vars

(* The watcher wakes every half second; requests are answered or fail.     *)
FairSpec == Spec /\ WF_vars(Watches /\ Recorded)

-----------------------------------------------------------------------------
(* The text the file had last is always somewhere in the directory, as the *)
(* file, its backup or the temporary file, after any failures and crashes  *)
(* (save_remote_bytes_atomic, for the text editor and for external edits). *)
ContentSurvives == \E f \in Names : files[f] = current

(* save_remote_bytes_atomic never leaves a part of a text in the place of  *)
(* the file, whatever fails; and the file is in its place again when a     *)
(* save that moved it aside has returned, unless an answer was lost, the   *)
(* rollback failed or the application was stopped.                         *)
PathIsBack ==
  /\ files[Path] \in Text \cup {Missing}
  /\ (\A s \in Saver : savers[s].pc \notin {"promote", "restore"}) /\ ~unlucky => Exists(Path)

(* A save that reports success leaves neither its temporary file nor its   *)
(* backup behind.                                                          *)
SavedLeavesNothing == \A s \in Saver :
  savers[s].pc = "saved" => ~Exists(Temp(savers[s].k)) /\ ~Exists(Backup(savers[s].k))

(* What is opened is a text the file had, unless the file was replaced     *)
(* while it was read (read_remote_bytes_bounded, begin_external_edit); and *)
(* what an external edit compares with (ExternalEditRecord::original) is   *)
(* one as well, after any failed uploads.                                  *)
OpenedIsAVersion ==
  /\ ~misread
  /\ edit.state = "active" /\ edit.sound => edit.original \in past

(* The watcher: a text the external program leaves in the copy is observed *)
(* and reported, whatever the watcher and an upload did at the time.       *)
EditsAreReported == \A t \in Text :
  (edit.state = "active" /\ local = t) ~> (edit.observed = t \/ local # t)

(* README.md:51 "shows a side-by-side diff before any upload": what a      *)
(* commit uploads is what the dialog shows.                                *)
UploadsWereReviewed == ~blind
===============================================================================
