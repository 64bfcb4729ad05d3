--------------------------- MODULE RemoteEditProofs ---------------------------
(***************************************************************************)
(* Theorems about saving and opening a remote file, for any texts, any     *)
(* number of saves, writes and faults and any interleaving of them.        *)
(***************************************************************************)
EXTENDS RemoteEdit, TLAPS

Content == Seq(Chunk)

Points == {"idle", "write", "sync", "aside", "promote", "restore", "cleanup", "discard",
           "saved", "failed"}

FileTypes ==
  /\ files \in [Names -> Content \cup {NoText}]
  /\ savers \in [Saver -> [pc : Points, k : Nat, text : Content \cup {NoText}]]
  /\ saves \in Nat /\ saves <= MaxSaves

EditTypes ==
  /\ reader \in [pc : {"idle", "read"}, begin : BOOLEAN, sized : BOOLEAN, size : Nat,
                 got : Content]
  /\ edit \in [state : {"none", "active", "ended"}, original : Content \cup {NoText},
               observed : Content \cup {NoText}, sound : BOOLEAN]
  /\ local \in Content \cup {NoText} /\ review \in Content \cup {NoText}
  /\ watcher \in [pc : {"off", "sleep", "report"}, text : Content \cup {NoText}]
  /\ event \in BOOLEAN /\ torn \in BOOLEAN

Busy(s) == savers[s].pc # "idle"

(* The temporary file of a save holds the chunks written so far, and all   *)
(* of them when the file is moved aside.                                   *)
SaverOK(s) ==
  LET k == savers[s].k
      pc == savers[s].pc
      text == savers[s].text
  IN  /\ k \in 1..saves /\ text \in Text
      /\ pc = "write" =>
           \/ files[Temp(k)] = Missing
           \/ \E n \in 1..Len(text) : n < Len(text) /\ files[Temp(k)] = SubSeq(text, 1, n)
      /\ pc \in {"sync", "aside", "promote"} => files[Temp(k)] = text
      /\ pc \in {"discard", "saved"} => files[Temp(k)] = Missing /\ text \in past
      /\ pc = "saved" => files[Backup(k)] = Missing

(* Each save has files of its own. *)
SaverInv ==
  /\ \A s \in Saver : Busy(s) => SaverOK(s)
  /\ \A s, u \in Saver : Busy(s) /\ Busy(u) /\ savers[s].k = savers[u].k => s = u
  /\ \A k \in 1..MaxSaves : k > saves => files[Temp(k)] = Missing

(* The file is at its path, or is the backup of a save that does not       *)
(* remove it.                                                              *)
PlaceInv ==
  /\ \A k \in 1..MaxSaves : files[Backup(k)] \in Text \cup {Missing}
  /\ files[Path] \in Text \cup {Missing}
  /\ Exists(Path) => files[Path] = current /\ current \in past
  /\ ~Exists(Path) => \E k \in 1..MaxSaves :
       /\ files[Backup(k)] = current
       /\ \A s \in Saver : savers[s].pc = "discard" => savers[s].k # k

(* Without bad luck, a save that has moved the file aside still has its    *)
(* backup.                                                                 *)
Away(s) == savers[s].pc \in {"promote", "restore"}

LuckInv == ~unlucky =>
  /\ \A s \in Saver : Away(s) => Exists(Backup(savers[s].k))
  /\ ~Exists(Path) => \E s \in Saver : Away(s)

(* As long as the file is not replaced, what was read is how it begins.    *)
ReaderInv ==
  /\ reader.pc = "idle" => ~torn
  /\ reader.pc = "read" /\ ~torn =>
       /\ Exists(Path)
       /\ Len(reader.got) <= Len(files[Path])
       /\ reader.got = SubSeq(files[Path], 1, Len(reader.got))
       /\ reader.sized => reader.size = Len(files[Path])
  /\ reader.pc = "read" /\ ~reader.sized /\ ~reader.begin => reader.size = MaxSize + 1

(* The local copy holds a text of a user once the external program has     *)
(* saved it, and only such a text is reviewed and uploaded.                *)
CopyInv ==
  /\ edit.state # "active" => ~event /\ review = NoText
  /\ edit.state = "active" =>
       \/ local \in Text
       \/ local = edit.observed /\ watcher.pc = "sleep" /\ ~event /\ review = NoText
  /\ edit.state = "none" => watcher.pc = "off"
  /\ Busy("commit") => edit.state # "none" /\ (edit.state = "active" => local \in Text)
  /\ reader.pc = "read" /\ reader.begin => edit.state = "none"

Inv == /\ FileTypes /\ EditTypes
       /\ SaverInv /\ PlaceInv /\ LuckInv /\ ReaderInv /\ CopyInv /\ OpenedIsAVersion

-----------------------------------------------------------------------------
(* Names and texts. *)

LEMMA NamesDiffer ==
  /\ \A k : Temp(k) # Path /\ Backup(k) # Path
  /\ \A k, j : Temp(k) # Backup(j)
  /\ \A k, j : Temp(k) = Temp(j) => k = j
  /\ \A k, j : Backup(k) = Backup(j) => k = j
  BY DEF Temp, Backup, Path

LEMMA NamesAre ==
  /\ Path \in Names
  /\ \A k \in 1..MaxSaves : Temp(k) \in Names /\ Backup(k) \in Names
  BY DEF Names

LEMMA TextsAreContent ==
  /\ Text \subseteq Content /\ NoText \notin Content /\ NoText \notin Text
  /\ MaxSaves \in Nat /\ MaxSize \in Nat /\ First \in Text
  BY ConstantsAssumption DEF Content

LEMMA Prefix ==
  ASSUME NEW C, NEW t \in Seq(C), NEW n \in Nat, n <= Len(t)
  PROVE  /\ SubSeq(t, 1, n) \in Seq(C) /\ Len(SubSeq(t, 1, n)) = n
         /\ SubSeq(t, 1, Len(t)) = t
         /\ n < Len(t) => Append(SubSeq(t, 1, n), t[n + 1]) = SubSeq(t, 1, n + 1)
  OBVIOUS

-----------------------------------------------------------------------------
(* What a request does. *)

LEMMA GoesTo ==
  ASSUME FileTypes, NEW s \in Saver, NEW pc \in Points, Goes(s, pc)
  PROVE  /\ savers' \in [Saver -> [pc : Points, k : Nat, text : Content \cup {NoText}]]
         /\ savers'[s].pc = pc /\ savers'[s].k = savers[s].k
         /\ savers'[s].text = savers[s].text
         /\ \A u \in Saver : u # s => savers'[u] = savers[u]
  BY DEF FileTypes, Goes

LEMMA RequestMoves ==
  ASSUME FileTypes, NEW s \in Saver, NEW able \in BOOLEAN, NEW d,
         NEW ok \in Points, NEW error \in Points, Request(s, able, d, ok, error)
  PROVE  /\ savers' \in [Saver -> [pc : Points, k : Nat, text : Content \cup {NoText}]]
         /\ savers'[s].k = savers[s].k /\ savers'[s].text = savers[s].text
         /\ \A u \in Saver : u # s => savers'[u] = savers[u]
         /\ \/ able /\ files' = d /\ savers'[s].pc = ok /\ UNCHANGED unlucky
            \/ ~able /\ files' = files /\ savers'[s].pc = error /\ UNCHANGED unlucky
            \/ able /\ files' = files /\ savers'[s].pc = error
                 /\ unlucky' = (unlucky \/ savers[s].pc = "restore")
            \/ able /\ files' = d /\ savers'[s].pc = error /\ unlucky' = TRUE
  BY GoesTo DEF Request

LEMMA RequestDoes ==
  ASSUME FileTypes, NEW s \in Saver, NEW able \in BOOLEAN, NEW d,
         NEW ok \in Points, NEW error \in Points, Request(s, able, d, ok, error)
  PROVE  /\ savers' \in [Saver -> [pc : Points, k : Nat, text : Content \cup {NoText}]]
         /\ savers'[s].k = savers[s].k /\ savers'[s].text = savers[s].text
         /\ \A u \in Saver : u # s => savers'[u] = savers[u]
         /\ ~unlucky' => ~unlucky
         /\ \/ able /\ files' = d /\ savers'[s].pc = ok
            \/ files' = files /\ savers'[s].pc = error
                 /\ (able /\ savers[s].pc = "restore" => unlucky')
            \/ able /\ files' = d /\ savers'[s].pc = error /\ unlucky'
  <1>1. /\ savers' \in [Saver -> [pc : Points, k : Nat, text : Content \cup {NoText}]]
        /\ savers'[s].k = savers[s].k /\ savers'[s].text = savers[s].text
        /\ \A u \in Saver : u # s => savers'[u] = savers[u]
        /\ \/ able /\ files' = d /\ savers'[s].pc = ok /\ UNCHANGED unlucky
           \/ ~able /\ files' = files /\ savers'[s].pc = error /\ UNCHANGED unlucky
           \/ able /\ files' = files /\ savers'[s].pc = error
                /\ unlucky' = (unlucky \/ savers[s].pc = "restore")
           \/ able /\ files' = d /\ savers'[s].pc = error /\ unlucky' = TRUE
    BY RequestMoves
  <1>. QED  BY <1>1

LEMMA RecordedFacts ==
  ASSUME Recorded
  PROVE  /\ past \subseteq past'
         /\ files'[Path] # Missing => current' = files'[Path] /\ current' \in past'
         /\ files'[Path] = Missing => current' = current
  BY DEF Recorded

(* A step of one save leaves the others as they were, if it touches only   *)
(* its own files and the file itself.                                      *)
Moves(s) ==
  /\ Busy(s) /\ savers'[s].k = savers[s].k /\ savers'[s].text = savers[s].text
  /\ \A u \in Saver : u # s => savers'[u] = savers[u]
  /\ \A f \in Names : f \notin {Path, Temp(savers[s].k), Backup(savers[s].k)} =>
       files'[f] = files[f]
  /\ savers' \in [Saver -> [pc : Points, k : Nat, text : Content \cup {NoText}]]
  /\ files' \in [Names -> Content \cup {NoText}]
  /\ UNCHANGED saves

LEMMA SaverFrame ==
  ASSUME FileTypes, SaverInv, Recorded, NEW s \in Saver, Moves(s), SaverOK(s)'
  PROVE  FileTypes' /\ SaverInv'
  <1>1. FileTypes'
    BY DEF Moves, FileTypes
  <1>2. savers[s].k \in 1..saves
    BY DEF Moves, SaverInv, SaverOK
  <1>3. ASSUME NEW u \in Saver, Busy(u)', u # s
        PROVE  SaverOK(u)'
    <2>1. Busy(u) /\ savers'[u] = savers[u] /\ SaverOK(u) /\ savers[u].k # savers[s].k
      BY <1>3 DEF Moves, SaverInv, Busy
    <2>2. savers[u].k \in 1..MaxSaves
      BY <2>1, TextsAreContent DEF SaverOK, FileTypes
    <2>3. /\ files'[Temp(savers[u].k)] = files[Temp(savers[u].k)]
          /\ files'[Backup(savers[u].k)] = files[Backup(savers[u].k)]
      BY <2>1, <2>2, NamesDiffer, NamesAre DEF Moves
    <2>4. past \subseteq past' /\ saves' = saves
      BY RecordedFacts DEF Moves
    <2>. QED  BY <2>1, <2>3, <2>4 DEF SaverOK
  <1>4. \A u, v \in Saver : Busy(u)' /\ Busy(v)' /\ savers'[u].k = savers'[v].k => u = v
    BY DEF Moves, SaverInv, Busy
  <1>5. ASSUME NEW k \in 1..MaxSaves, k > saves'
        PROVE  files'[Temp(k)] = Missing
    <2>1. k # savers[s].k /\ saves' = saves
      BY <1>2, <1>5, TextsAreContent DEF Moves, FileTypes
    <2>2. files'[Temp(k)] = files[Temp(k)]
      BY <2>1, NamesDiffer, NamesAre DEF Moves
    <2>. QED  BY <1>5, <2>1, <2>2 DEF SaverInv
  <1>. QED  BY <1>1, <1>3, <1>4, <1>5 DEF SaverInv

(* Neither the file nor a backup changes, and no save starts to discard.   *)
LEMMA PlaceFrame ==
  ASSUME PlaceInv, Recorded, files'[Path] = files[Path],
         \A k \in 1..MaxSaves : files'[Backup(k)] = files[Backup(k)],
         \A u \in Saver : savers'[u].pc = "discard" =>
           savers[u].pc = "discard" /\ savers'[u].k = savers[u].k
  PROVE  PlaceInv'
  <1>1. CASE Exists(Path)
    BY <1>1, RecordedFacts DEF PlaceInv, Exists, Missing
  <1>2. CASE ~Exists(Path)
    <2>1. PICK k \in 1..MaxSaves :
            /\ files[Backup(k)] = current
            /\ \A s \in Saver : savers[s].pc = "discard" => savers[s].k # k
      BY <1>2 DEF PlaceInv
    <2>2. current' = current /\ files'[Path] = Missing /\ files'[Backup(k)] = current
      BY <1>2, <2>1, RecordedFacts DEF Exists
    <2>3. \A s \in Saver : savers'[s].pc = "discard" => savers'[s].k # k
      BY <2>1
    <2>4. /\ \A j \in 1..MaxSaves : files'[Backup(j)] \in Text \cup {Missing}
          /\ files'[Path] \in Text \cup {Missing}
      BY DEF PlaceInv, Missing
    <2>. QED  BY <2>2, <2>3, <2>4 DEF PlaceInv, Exists, Missing
  <1>. QED  BY <1>1, <1>2

(* The file is in its place. *)
LEMMA PlaceHere ==
  ASSUME PlaceInv, Recorded, files'[Path] \in Text,
         \A k \in 1..MaxSaves : files'[Backup(k)] \in Text \cup {Missing}
  PROVE  PlaceInv'
  <1>1. files'[Path] # Missing
    BY TextsAreContent DEF Missing
  <1>2. current' = files'[Path] /\ current' \in past'
    BY <1>1, RecordedFacts
  <1>. QED  BY <1>1, <1>2 DEF PlaceInv, Exists, Missing

(* Of a save that moves the file neither away nor back. *)
LEMMA LuckFrame ==
  ASSUME LuckInv, NEW s \in Saver, ~unlucky' => ~unlucky,
         \A u \in Saver : u # s => savers'[u] = savers[u],
         files'[Path] = files[Path], savers'[s].k = savers[s].k,
         Away(s)' <=> Away(s),
         \A u \in Saver : Away(u) => files'[Backup(savers[u].k)] = files[Backup(savers[u].k)]
  PROVE  LuckInv'
  BY DEF LuckInv, Away, Exists, Missing

Safe == FileTypes /\ SaverInv /\ PlaceInv /\ LuckInv

LEMMA WriteChunkSafe ==
  ASSUME Safe, Recorded, NEW s \in Saver, WriteChunk(s)
  PROVE  Safe'
  <1> DEFINE k == savers[s].k
             text == savers[s].text
             upTo == IF text = << >> THEN 0 ELSE Written(s) + 1
             put == [files EXCEPT ![Temp(k)] = SubSeq(text, 1, upTo)]
             next == IF upTo = Len(text) THEN "sync" ELSE "write"
  <1>1. savers[s].pc = "write" /\ SaverOK(s) /\ text \in Content
    <2>1. savers[s].pc = "write" /\ SaverOK(s)
      BY DEF WriteChunk, Safe, SaverInv, Busy
    <2>. QED  BY <2>1, TextsAreContent DEF SaverOK
  <1>2. k \in 1..MaxSaves /\ Temp(k) \in Names
    BY <1>1, NamesAre, TextsAreContent DEF SaverOK, Safe, FileTypes
  <1>3. Request(s, TRUE, put, next, "failed") /\ UNCHANGED saves
    BY DEF WriteChunk, Untouched
  <1>4. upTo \in Nat /\ upTo <= Len(text) /\ (text # << >> => upTo >= 1)
    <2>1. CASE files[Temp(k)] = Missing
      BY <1>1, <2>1 DEF Written, Exists, Content
    <2>2. CASE files[Temp(k)] # Missing
      <3>1. PICK n \in 1..Len(text) : n < Len(text) /\ files[Temp(k)] = SubSeq(text, 1, n)
        BY <1>1, <2>2 DEF SaverOK
      <3>2. Written(s) = n
        BY <1>1, <2>2, <3>1, Prefix DEF Written, Exists, Content
      <3>. QED  BY <1>1, <3>1, <3>2 DEF Content
    <2>. QED  BY <2>1, <2>2
  <1> HIDE DEF upTo
  <1>5. /\ SubSeq(text, 1, upTo) \in Content
        /\ upTo = Len(text) => SubSeq(text, 1, upTo) = text
    BY <1>1, <1>4, Prefix DEF Content
  <1>6. next \in Points /\ "failed" \in Points
    BY DEF Points
  <1> HIDE DEF next
  <1>7. /\ savers' \in [Saver -> [pc : Points, k : Nat, text : Content \cup {NoText}]]
        /\ savers'[s].k = k /\ savers'[s].text = text
        /\ \A u \in Saver : u # s => savers'[u] = savers[u]
        /\ \/ files' = put /\ savers'[s].pc = next /\ UNCHANGED unlucky
           \/ files' \in {files, put} /\ savers'[s].pc = "failed" /\ (~unlucky' => ~unlucky)
    <2>1. FileTypes /\ TRUE \in BOOLEAN
      BY DEF Safe
    <2> HIDE DEF put
    <2>2. /\ savers' \in [Saver -> [pc : Points, k : Nat, text : Content \cup {NoText}]]
          /\ savers'[s].k = savers[s].k /\ savers'[s].text = savers[s].text
          /\ \A u \in Saver : u # s => savers'[u] = savers[u]
          /\ \/ files' = put /\ savers'[s].pc = next /\ UNCHANGED unlucky
             \/ files' = files /\ savers'[s].pc = "failed"
                  /\ unlucky' = (unlucky \/ savers[s].pc = "restore")
             \/ files' = put /\ savers'[s].pc = "failed" /\ unlucky' = TRUE
      BY ZenonT(60), <1>3, <1>6, <2>1, RequestMoves
    <2>. QED  BY <2>2
  <1>8. /\ \A f \in Names : f # Temp(k) => files'[f] = files[f]
        /\ files' \in [Names -> Content \cup {NoText}]
        /\ files' = put => files'[Temp(k)] = SubSeq(text, 1, upTo)
    BY <1>2, <1>5, <1>7 DEF Safe, FileTypes
  <1>9. Moves(s)
    BY <1>1, <1>3, <1>7, <1>8 DEF Moves, Busy
  <1>10. SaverOK(s)'
    <2>1. CASE savers'[s].pc = "failed"
      BY <1>1, <1>3, <1>7, <2>1 DEF SaverOK
    <2>2. CASE savers'[s].pc = next /\ files' = put
      <3>1. CASE upTo = Len(text)
        BY <1>1, <1>3, <1>5, <1>7, <1>8, <2>2, <3>1 DEF SaverOK, next
      <3>2. CASE upTo # Len(text)
        <4>1. upTo \in 1..Len(text) /\ upTo < Len(text)
          <5>1. text # << >>
            BY <1>4, <3>2
          <5>. QED  BY <1>1, <1>4, <3>2, <5>1 DEF Content
        <4>2. savers'[s].pc = "write"
          BY <2>2, <3>2 DEF next
        <4>. QED  BY <1>1, <1>3, <1>7, <1>8, <2>2, <4>1, <4>2 DEF SaverOK
      <3>. QED  BY <3>1, <3>2
    <2>. QED  BY <1>7, <2>1, <2>2
  <1>11. /\ files'[Path] = files[Path]
         /\ \A j \in 1..MaxSaves : files'[Backup(j)] = files[Backup(j)]
    BY <1>8, NamesDiffer, NamesAre
  <1>12. FileTypes' /\ SaverInv'
    BY <1>9, <1>10, SaverFrame DEF Safe
  <1>13. savers'[s].pc \in {"sync", "write", "failed"}
    BY <1>7 DEF next
  <1>14. PlaceInv'
    <2>1. \A u \in Saver : savers'[u].pc = "discard" =>
            savers[u].pc = "discard" /\ savers'[u].k = savers[u].k
      BY <1>7, <1>13
    <2>. QED  BY <1>11, <2>1, PlaceFrame DEF Safe
  <1>15. LuckInv'
    <2>1. Away(s)' <=> Away(s)
      BY <1>1, <1>13 DEF Away
    <2>2. \A u \in Saver : Away(u) => savers[u].k \in 1..MaxSaves
      BY TextsAreContent DEF Away, Safe, SaverInv, SaverOK, Busy, FileTypes
    <2>3. ~unlucky' => ~unlucky
      BY <1>7
    <2>. QED  BY <1>7, <1>11, <2>1, <2>2, <2>3, LuckFrame DEF Safe
  <1>. QED  BY <1>12, <1>14, <1>15 DEF Safe

(* What a save at some point knows; and a step of it that changes no file. *)
LEMMA BusySaver ==
  ASSUME Safe, NEW s \in Saver, Busy(s)
  PROVE  /\ SaverOK(s) /\ savers[s].k \in 1..saves /\ savers[s].k \in 1..MaxSaves
         /\ savers[s].text \in Text /\ savers[s].text \in Content
         /\ savers[s].text # Missing
         /\ \A u \in Saver : Busy(u) /\ u # s =>
              savers[u].k \in 1..MaxSaves /\ savers[u].k # savers[s].k
  <1>1. \A u \in Saver : Busy(u) => SaverOK(u)
    BY DEF Safe, SaverInv
  <1>2. \A u \in Saver : Busy(u) => savers[u].k \in 1..MaxSaves
    BY <1>1, TextsAreContent DEF SaverOK, Safe, FileTypes
  <1>3. savers[s].text \in Text /\ savers[s].k \in 1..saves
    BY <1>1 DEF SaverOK
  <1>. QED  BY <1>1, <1>2, <1>3, TextsAreContent DEF Safe, SaverInv, Missing

LEMMA SameFiles ==
  ASSUME Safe, Recorded, NEW s \in Saver, Busy(s), files' = files, UNCHANGED saves,
         savers' \in [Saver -> [pc : Points, k : Nat, text : Content \cup {NoText}]],
         savers'[s].k = savers[s].k, savers'[s].text = savers[s].text,
         \A u \in Saver : u # s => savers'[u] = savers[u],
         savers'[s].pc \in {"restore", "cleanup", "failed"}
           \/ (savers[s].pc = "sync" /\ savers'[s].pc = "aside"),
         ~unlucky' => /\ ~unlucky
                      /\ (Away(s) => Exists(Path) \/ Away(s)')
                      /\ (Away(s)' => Away(s))
  PROVE  Safe'
  <1>1. Moves(s)
    BY DEF Moves, Safe, FileTypes
  <1>2. SaverOK(s)'
    <2>1. SaverOK(s) /\ past \subseteq past'
      BY BusySaver, RecordedFacts
    <2>. QED  BY <2>1 DEF SaverOK
  <1>3. FileTypes' /\ SaverInv'
    BY <1>1, <1>2, SaverFrame DEF Safe
  <1>4. PlaceInv'
    <2>1. \A u \in Saver : savers'[u].pc = "discard" =>
            savers[u].pc = "discard" /\ savers'[u].k = savers[u].k
      OBVIOUS
    <2>. QED  BY <2>1, PlaceFrame DEF Safe
  <1>5. LuckInv'
    <2> SUFFICES ASSUME ~unlucky'
                 PROVE  /\ \A u \in Saver : Away(u)' => Exists(Backup(savers[u].k))'
                        /\ ~Exists(Path)' => \E u \in Saver : Away(u)'
      BY DEF LuckInv
    <2>1. \A u \in Saver : Away(u)' => Away(u) /\ savers'[u].k = savers[u].k
      BY DEF Away
    <2>2. \A u \in Saver : Away(u)' => Exists(Backup(savers[u].k))'
      BY <2>1 DEF Safe, LuckInv, Exists, Missing
    <2>3. ASSUME ~Exists(Path)'
          PROVE  \E u \in Saver : Away(u)'
      <3>1. ~Exists(Path)
        BY <2>3 DEF Exists, Missing
      <3>2. PICK u \in Saver : Away(u)
        BY <3>1 DEF Safe, LuckInv
      <3>3. Away(u)'
        BY <3>1, <3>2 DEF Away
      <3>. QED  BY <3>3
    <2>. QED  BY <2>2, <2>3
  <1>. QED  BY <1>3, <1>4, <1>5 DEF Safe

LEMMA SyncSafe ==
  ASSUME Safe, Recorded, NEW s \in Saver, Sync(s)
  PROVE  Safe'
  <1>1. savers[s].pc = "sync" /\ Request(s, TRUE, files, "aside", "failed") /\ UNCHANGED saves
    BY DEF Sync, Untouched
  <1>2. /\ savers' \in [Saver -> [pc : Points, k : Nat, text : Content \cup {NoText}]]
        /\ savers'[s].k = savers[s].k /\ savers'[s].text = savers[s].text
        /\ \A u \in Saver : u # s => savers'[u] = savers[u]
        /\ files' = files /\ savers'[s].pc \in {"aside", "failed"}
        /\ ~unlucky' => ~unlucky
    <2> DEFINE same == files
    <2>1. "aside" \in Points /\ "failed" \in Points /\ TRUE \in BOOLEAN /\ FileTypes
      BY DEF Points, Safe
    <2>2. Request(s, TRUE, same, "aside", "failed")
      BY <1>1
    <2> HIDE DEF same
    <2>3. /\ savers' \in [Saver -> [pc : Points, k : Nat, text : Content \cup {NoText}]]
          /\ savers'[s].k = savers[s].k /\ savers'[s].text = savers[s].text
          /\ \A u \in Saver : u # s => savers'[u] = savers[u]
          /\ \/ files' = same /\ savers'[s].pc = "aside" /\ UNCHANGED unlucky
             \/ files' = files /\ savers'[s].pc = "failed"
                  /\ unlucky' = (unlucky \/ savers[s].pc = "restore")
             \/ files' = same /\ savers'[s].pc = "failed" /\ unlucky' = TRUE
      BY ZenonT(60), <2>1, <2>2, RequestMoves
    <2>4. ~unlucky' => ~unlucky
      BY <2>3
    <2>5. files' = files /\ savers'[s].pc \in {"aside", "failed"}
      BY <2>3 DEF same
    <2>. QED  BY <2>3, <2>4, <2>5
  <1>. QED  BY <1>1, <1>2, SameFiles DEF Busy, Away

LEMMA AsideSafe ==
  ASSUME Safe, Recorded, NEW s \in Saver, Aside(s)
  PROVE  Safe'
  <1> DEFINE k == savers[s].k
             put == Renamed(Path, Backup(k))
  <1>1. /\ savers[s].pc = "aside" /\ UNCHANGED saves
        /\ Request(s, Exists(Path), put, "promote", "failed")
    BY DEF Aside, Untouched
  <1>2. SaverOK(s) /\ k \in 1..MaxSaves /\ Busy(s)
    BY <1>1, BusySaver DEF Busy
  <1>3. /\ savers' \in [Saver -> [pc : Points, k : Nat, text : Content \cup {NoText}]]
        /\ savers'[s].k = savers[s].k /\ savers'[s].text = savers[s].text
        /\ \A u \in Saver : u # s => savers'[u] = savers[u]
        /\ ~unlucky' => ~unlucky
        /\ \/ Exists(Path) /\ files' = put /\ savers'[s].pc = "promote"
           \/ files' = files /\ savers'[s].pc = "failed"
           \/ Exists(Path) /\ files' = put /\ savers'[s].pc = "failed" /\ unlucky'
    <2>1. "promote" \in Points /\ "failed" \in Points /\ Exists(Path) \in BOOLEAN /\ FileTypes
      BY DEF Points, Safe, Exists
    <2> HIDE DEF put
    <2>. QED  BY <1>1, <2>1, RequestDoes
  <1>4. CASE files' = files /\ savers'[s].pc = "failed"
    BY <1>1, <1>2, <1>3, <1>4, SameFiles DEF Busy, Away
  <1>5. CASE Exists(Path) /\ files' = put /\ savers'[s].pc \in {"promote", "failed"}
             /\ (savers'[s].pc = "failed" => unlucky')
    <2>1. /\ files'[Path] = Missing /\ files'[Backup(k)] = files[Path]
          /\ \A f \in Names : f # Path /\ f # Backup(k) => files'[f] = files[f]
          /\ files' \in [Names -> Content \cup {NoText}]
      <3>1. Path \in Names /\ Backup(k) \in Names /\ Backup(k) # Path
        BY <1>2, NamesAre, NamesDiffer
      <3>2. files \in [Names -> Content \cup {NoText}] /\ files[Path] \in Content \cup {NoText}
        BY <3>1 DEF Safe, FileTypes
      <3>. QED  BY <1>5, <3>1, <3>2 DEF Renamed, Missing
    <2>2. Moves(s)
      BY <1>1, <1>2, <1>3, <2>1 DEF Moves
    <2>3. SaverOK(s)'
      <3>1. files'[Temp(k)] = files[Temp(k)]
        BY <1>2, <2>1, NamesAre, NamesDiffer
      <3>. QED  BY <1>1, <1>2, <1>3, <1>5, <3>1 DEF SaverOK
    <2>4. FileTypes' /\ SaverInv'
      BY <2>2, <2>3, SaverFrame DEF Safe
    <2>5. \A j \in 1..MaxSaves : j # k => files'[Backup(j)] = files[Backup(j)]
      BY <2>1, NamesAre, NamesDiffer
    <2>6. files[Path] \in Text /\ files[Path] = current /\ current' = current
      BY <1>5, <2>1, RecordedFacts DEF Safe, PlaceInv, Exists
    <2>7. PlaceInv'
      <3>1. \A j \in 1..MaxSaves : files'[Backup(j)] \in Text \cup {Missing}
        BY <2>1, <2>5, <2>6 DEF Safe, PlaceInv
      <3>2. \A u \in Saver : savers'[u].pc = "discard" => savers'[u].k # k
        BY <1>2, <1>3, <1>5, BusySaver DEF Busy
      <3>. QED  BY <1>2, <2>1, <2>6, <3>1, <3>2 DEF PlaceInv, Exists, Missing
    <2>8. LuckInv'
      <3> SUFFICES ASSUME ~unlucky'
                   PROVE  /\ \A u \in Saver : Away(u)' => Exists(Backup(savers[u].k))'
                          /\ \E u \in Saver : Away(u)'
        BY DEF LuckInv
      <3>1. Away(s)' /\ Exists(Backup(savers[s].k))'
        BY <1>3, <1>5, <2>1, <2>6, TextsAreContent DEF Away, Exists, Missing
      <3>2. ASSUME NEW u \in Saver, u # s, Away(u)'
            PROVE  Exists(Backup(savers[u].k))'
        <4>1. Away(u) /\ savers'[u].k = savers[u].k /\ Exists(Backup(savers[u].k))
          BY <1>3, <3>2 DEF Away, Safe, LuckInv
        <4>2. savers[u].k \in 1..MaxSaves /\ savers[u].k # k
          BY <1>2, <3>2, <4>1, BusySaver DEF Away, Busy
        <4>. QED  BY <2>5, <4>1, <4>2 DEF Exists, Missing
      <3>. QED  BY <3>1, <3>2
    <2>. QED  BY <2>4, <2>7, <2>8 DEF Safe
  <1>. QED  BY <1>3, <1>4, <1>5

(* A save brings a text to the path: its own, or the one of its backup.    *)
LEMMA BroughtSafe ==
  ASSUME Safe, Recorded, NEW s \in Saver, Moves(s), SaverOK(s)',
         files'[Path] \in Text, ~Away(s)' \/ unlucky', ~unlucky' => ~unlucky,
         \A j \in 1..MaxSaves : files'[Backup(j)] \in Text \cup {Missing}
  PROVE  Safe'
  <1>1. FileTypes' /\ SaverInv'
    BY SaverFrame DEF Safe
  <1>2. PlaceInv'
    BY PlaceHere DEF Safe
  <1>3. LuckInv'
    <2> SUFFICES ASSUME ~unlucky', NEW u \in Saver, Away(u)'
                 PROVE  Exists(Backup(savers[u].k))'
      BY TextsAreContent DEF LuckInv, Exists, Missing
    <2>1. u # s /\ Away(u) /\ savers'[u].k = savers[u].k
      BY DEF Moves, Away
    <2>2. savers[u].k \in 1..MaxSaves /\ savers[u].k # savers[s].k
      BY <2>1, BusySaver DEF Away, Busy, Moves
    <2>3. files'[Backup(savers[u].k)] = files[Backup(savers[u].k)]
      BY <2>2, NamesAre, NamesDiffer DEF Moves
    <2>. QED  BY <2>1, <2>3 DEF Safe, LuckInv, Exists, Missing
  <1>. QED  BY <1>1, <1>2, <1>3 DEF Safe

LEMMA PromoteSafe ==
  ASSUME Safe, Recorded, NEW s \in Saver, Promote(s)
  PROVE  Safe'
  <1> DEFINE k == savers[s].k
             put == Renamed(Temp(k), Path)
  <1>1. /\ savers[s].pc = "promote" /\ UNCHANGED saves
        /\ \/ Request(s, Exists(Temp(k)), put, "discard", "restore")
           \/ Exists(Path) /\ Goes(s, "restore") /\ UNCHANGED <<files, unlucky, faults>>
    BY DEF Promote, Untouched
  <1>2. SaverOK(s) /\ k \in 1..MaxSaves /\ Busy(s) /\ savers[s].text \in Text
    BY <1>1, BusySaver DEF Busy
  <1>3. /\ savers' \in [Saver -> [pc : Points, k : Nat, text : Content \cup {NoText}]]
        /\ savers'[s].k = savers[s].k /\ savers'[s].text = savers[s].text
        /\ \A u \in Saver : u # s => savers'[u] = savers[u]
        /\ ~unlucky' => ~unlucky
        /\ \/ files' = put /\ savers'[s].pc = "discard"
           \/ files' = files /\ savers'[s].pc = "restore"
           \/ files' = put /\ savers'[s].pc = "restore" /\ unlucky'
    <2>1. "discard" \in Points /\ "restore" \in Points /\ Exists(Temp(k)) \in BOOLEAN /\ FileTypes
      BY DEF Points, Safe, Exists
    <2> HIDE DEF put
    <2>2. CASE Request(s, Exists(Temp(k)), put, "discard", "restore")
      BY <2>1, <2>2, RequestDoes
    <2>3. CASE Goes(s, "restore") /\ UNCHANGED <<files, unlucky, faults>>
      BY <2>1, <2>3, GoesTo
    <2>. QED  BY <1>1, <2>2, <2>3
  <1>4. CASE files' = files /\ savers'[s].pc = "restore"
    BY <1>1, <1>2, <1>3, <1>4, SameFiles DEF Busy, Away
  <1>5. CASE files' = put /\ savers'[s].pc \in {"discard", "restore"}
             /\ (savers'[s].pc = "restore" => unlucky')
    <2>1. /\ files'[Path] = savers[s].text /\ files'[Temp(k)] = Missing
          /\ \A f \in Names : f # Path /\ f # Temp(k) => files'[f] = files[f]
          /\ files' \in [Names -> Content \cup {NoText}]
      <3>1. Path \in Names /\ Temp(k) \in Names /\ Temp(k) # Path
        BY <1>2, NamesAre, NamesDiffer
      <3>2. files \in [Names -> Content \cup {NoText}] /\ files[Temp(k)] = savers[s].text
            /\ savers[s].text \in Content
        BY <1>1, <1>2, TextsAreContent DEF Safe, FileTypes, SaverOK
      <3>. QED  BY <1>5, <3>1, <3>2 DEF Renamed, Missing
    <2>2. Moves(s)
      BY <1>1, <1>2, <1>3, <2>1 DEF Moves
    <2>3. SaverOK(s)'
      <3>1. savers[s].text \in past'
        BY <1>2, <2>1, RecordedFacts, TextsAreContent DEF Missing
      <3>. QED  BY <1>1, <1>2, <1>3, <1>5, <2>1, <3>1 DEF SaverOK
    <2>4. \A j \in 1..MaxSaves : files'[Backup(j)] \in Text \cup {Missing}
      BY <2>1, NamesAre, NamesDiffer DEF Safe, PlaceInv
    <2>5. ~Away(s)' \/ unlucky'
      BY <1>5 DEF Away
    <2>. QED  BY <1>2, <1>3, <2>1, <2>2, <2>3, <2>4, <2>5, BroughtSafe
  <1>. QED  BY <1>3, <1>4, <1>5

LEMMA RestoreSafe ==
  ASSUME Safe, Recorded, NEW s \in Saver, Restore(s)
  PROVE  Safe'
  <1> DEFINE k == savers[s].k
             put == Renamed(Backup(k), Path)
  <1>1. /\ savers[s].pc = "restore" /\ UNCHANGED saves
        /\ \/ Request(s, Exists(Backup(k)), put, "cleanup", "cleanup")
           \/ Exists(Path) /\ Goes(s, "cleanup") /\ UNCHANGED <<files, unlucky, faults>>
    BY DEF Restore, Untouched
  <1>2. SaverOK(s) /\ k \in 1..MaxSaves /\ Busy(s) /\ Away(s)
    BY <1>1, BusySaver DEF Busy, Away
  <1>3. /\ savers' \in [Saver -> [pc : Points, k : Nat, text : Content \cup {NoText}]]
        /\ savers'[s].k = savers[s].k /\ savers'[s].text = savers[s].text
        /\ \A u \in Saver : u # s => savers'[u] = savers[u]
        /\ ~unlucky' => ~unlucky
        /\ savers'[s].pc = "cleanup"
        /\ \/ Exists(Backup(k)) /\ files' = put
           \/ files' = files /\ (~unlucky' => Exists(Path))
    <2>1. "cleanup" \in Points /\ Exists(Backup(k)) \in BOOLEAN /\ FileTypes
      BY DEF Points, Safe, Exists
    <2> HIDE DEF put
    <2>2. CASE Request(s, Exists(Backup(k)), put, "cleanup", "cleanup")
      <3>1. ~Exists(Backup(k)) => unlucky
        BY <1>2 DEF Safe, LuckInv
      <3>. QED  BY <1>1, <2>1, <2>2, <3>1, RequestDoes
    <2>3. CASE Exists(Path) /\ Goes(s, "cleanup") /\ UNCHANGED <<files, unlucky, faults>>
      BY <2>1, <2>3, GoesTo
    <2>. QED  BY <1>1, <2>2, <2>3
  <1>4. CASE files' = files /\ (~unlucky' => Exists(Path))
    BY <1>1, <1>2, <1>3, <1>4, SameFiles DEF Busy, Away
  <1>5. CASE Exists(Backup(k)) /\ files' = put
    <2>1. /\ files'[Path] = files[Backup(k)] /\ files'[Backup(k)] = Missing
          /\ \A f \in Names : f # Path /\ f # Backup(k) => files'[f] = files[f]
          /\ files' \in [Names -> Content \cup {NoText}]
      <3>1. Path \in Names /\ Backup(k) \in Names /\ Backup(k) # Path
        BY <1>2, NamesAre, NamesDiffer
      <3>2. files \in [Names -> Content \cup {NoText}] /\ files[Backup(k)] \in Content \cup {NoText}
        BY <3>1 DEF Safe, FileTypes
      <3>. QED  BY <1>5, <3>1, <3>2 DEF Renamed, Missing
    <2>2. Moves(s)
      BY <1>1, <1>2, <1>3, <2>1 DEF Moves
    <2>3. SaverOK(s)'
      BY <1>1, <1>2, <1>3 DEF SaverOK
    <2>4. files'[Path] \in Text
      BY <1>2, <1>5, <2>1 DEF Safe, PlaceInv, Exists
    <2>5. \A j \in 1..MaxSaves : files'[Backup(j)] \in Text \cup {Missing}
      BY <2>1, NamesAre, NamesDiffer DEF Safe, PlaceInv
    <2>6. ~Away(s)'
      BY <1>3 DEF Away
    <2>. QED  BY <1>3, <2>2, <2>3, <2>4, <2>5, <2>6, BroughtSafe
  <1>. QED  BY <1>3, <1>4, <1>5

LEMMA CleanupSafe ==
  ASSUME Safe, Recorded, NEW s \in Saver, Cleanup(s)
  PROVE  Safe'
  <1> DEFINE k == savers[s].k
             put == Removed(Temp(k))
  <1>1. /\ savers[s].pc = "cleanup" /\ UNCHANGED saves
        /\ Request(s, Exists(Temp(k)), put, "failed", "failed")
    BY DEF Cleanup, Untouched
  <1>2. SaverOK(s) /\ k \in 1..MaxSaves /\ Busy(s)
    BY <1>1, BusySaver DEF Busy
  <1>3. /\ savers' \in [Saver -> [pc : Points, k : Nat, text : Content \cup {NoText}]]
        /\ savers'[s].k = savers[s].k /\ savers'[s].text = savers[s].text
        /\ \A u \in Saver : u # s => savers'[u] = savers[u]
        /\ ~unlucky' => ~unlucky
        /\ files' \in {files, put} /\ savers'[s].pc = "failed"
    <2>1. "failed" \in Points /\ Exists(Temp(k)) \in BOOLEAN /\ FileTypes
      BY DEF Points, Safe, Exists
    <2> HIDE DEF put
    <2>. QED  BY <1>1, <2>1, RequestDoes
  <1>4. /\ \A f \in Names : f # Temp(k) => files'[f] = files[f]
        /\ files' \in [Names -> Content \cup {NoText}]
    BY <1>3 DEF Removed, Missing, Safe, FileTypes
  <1>5. Moves(s)
    BY <1>1, <1>2, <1>3, <1>4 DEF Moves
  <1>6. SaverOK(s)'
    BY <1>1, <1>2, <1>3 DEF SaverOK
  <1>7. FileTypes' /\ SaverInv'
    BY <1>5, <1>6, SaverFrame DEF Safe
  <1>8. /\ files'[Path] = files[Path]
        /\ \A j \in 1..MaxSaves : files'[Backup(j)] = files[Backup(j)]
    BY <1>4, NamesAre, NamesDiffer
  <1>9. PlaceInv'
    <2>1. \A u \in Saver : savers'[u].pc = "discard" =>
            savers[u].pc = "discard" /\ savers'[u].k = savers[u].k
      BY <1>3
    <2>. QED  BY <1>8, <2>1, PlaceFrame DEF Safe
  <1>10. LuckInv'
    <2>1. Away(s)' <=> Away(s)
      BY <1>1, <1>3 DEF Away
    <2>2. \A u \in Saver : Away(u) => savers[u].k \in 1..MaxSaves
      BY BusySaver DEF Away, Busy
    <2>. QED  BY <1>3, <1>8, <2>1, <2>2, LuckFrame DEF Safe
  <1>. QED  BY <1>7, <1>9, <1>10 DEF Safe

LEMMA DiscardSafe ==
  ASSUME Safe, Recorded, NEW s \in Saver, Discard(s)
  PROVE  Safe'
  <1> DEFINE k == savers[s].k
             put == Removed(Backup(k))
  <1>1. /\ savers[s].pc = "discard" /\ UNCHANGED saves
        /\ Request(s, Exists(Backup(k)), put, "saved", "failed")
    BY DEF Discard, Untouched
  <1>2. SaverOK(s) /\ k \in 1..MaxSaves /\ Busy(s)
    BY <1>1, BusySaver DEF Busy
  <1>3. /\ savers' \in [Saver -> [pc : Points, k : Nat, text : Content \cup {NoText}]]
        /\ savers'[s].k = savers[s].k /\ savers'[s].text = savers[s].text
        /\ \A u \in Saver : u # s => savers'[u] = savers[u]
        /\ ~unlucky' => ~unlucky
        /\ files' \in {files, put} /\ savers'[s].pc \in {"saved", "failed"}
        /\ savers'[s].pc = "saved" => files' = put
    <2>1. "failed" \in Points /\ "saved" \in Points /\ Exists(Backup(k)) \in BOOLEAN /\ FileTypes
      BY DEF Points, Safe, Exists
    <2> HIDE DEF put
    <2>. QED  BY <1>1, <2>1, RequestDoes
  <1>4. /\ \A f \in Names : f # Backup(k) => files'[f] = files[f]
        /\ files' \in [Names -> Content \cup {NoText}]
        /\ files' = put => files'[Backup(k)] = Missing
        /\ files'[Backup(k)] \in {files[Backup(k)], Missing}
    BY <1>2, <1>3, NamesAre DEF Removed, Missing, Safe, FileTypes
  <1>5. Moves(s)
    BY <1>1, <1>2, <1>3, <1>4 DEF Moves
  <1>6. files'[Temp(k)] = files[Temp(k)] /\ files'[Path] = files[Path]
        /\ \A j \in 1..MaxSaves : j # k => files'[Backup(j)] = files[Backup(j)]
    BY <1>2, <1>4, NamesAre, NamesDiffer
  <1>7. SaverOK(s)'
    BY <1>1, <1>2, <1>3, <1>4, <1>6, RecordedFacts DEF SaverOK
  <1>8. FileTypes' /\ SaverInv'
    BY <1>5, <1>7, SaverFrame DEF Safe
  <1>9. \A j \in 1..MaxSaves : files'[Backup(j)] \in Text \cup {Missing}
    BY <1>4, <1>6 DEF Safe, PlaceInv
  <1>10. PlaceInv'
    <2>1. CASE Exists(Path)
      <3>1. files'[Path] \in Text
        BY <1>6, <2>1 DEF Safe, PlaceInv, Exists
      <3>. QED  BY <1>9, <3>1, PlaceHere DEF Safe
    <2>2. CASE ~Exists(Path)
      <3>1. PICK j \in 1..MaxSaves :
              /\ files[Backup(j)] = current
              /\ \A u \in Saver : savers[u].pc = "discard" => savers[u].k # j
        BY <2>2 DEF Safe, PlaceInv
      <3>2. current' = current /\ files'[Path] = Missing /\ files'[Backup(j)] = current
        BY <1>1, <1>6, <2>2, <3>1, RecordedFacts DEF Exists
      <3>3. \A u \in Saver : savers'[u].pc = "discard" => savers'[u].k # j
        BY <1>3, <3>1
      <3>. QED  BY <1>9, <3>2, <3>3 DEF PlaceInv, Exists, Missing
    <2>. QED  BY <2>1, <2>2
  <1>11. LuckInv'
    <2>1. Away(s)' <=> Away(s)
      BY <1>1, <1>3 DEF Away
    <2>2. \A u \in Saver : Away(u) => files'[Backup(savers[u].k)] = files[Backup(savers[u].k)]
      BY <1>1, <1>2, <1>6, BusySaver DEF Away, Busy
    <2>. QED  BY <1>3, <1>6, <2>1, <2>2, LuckFrame DEF Safe
  <1>. QED  BY <1>8, <1>10, <1>11 DEF Safe
(* The calls and the other users. *)

(* The saves go on, and the files are as they were.                        *)
LEMMA FilesStaySafe ==
  ASSUME Safe, Recorded, UNCHANGED <<files, savers, saves, unlucky>>
  PROVE  Safe'
  <1>1. FileTypes'
    BY DEF Safe, FileTypes
  <1>2. past \subseteq past'
    BY RecordedFacts
  <1>3. ASSUME NEW s \in Saver, Busy(s)'
        PROVE  SaverOK(s)'
    <2>1. SaverOK(s)
      BY <1>3 DEF Safe, SaverInv, Busy
    <2>. QED  BY <1>2, <2>1 DEF SaverOK
  <1>4. SaverInv'
    BY <1>3 DEF Safe, SaverInv, Busy
  <1>5. PlaceInv'
    BY PlaceFrame DEF Safe
  <1>6. LuckInv'
    BY DEF Safe, LuckInv, Away, Exists, Missing
  <1>. QED  BY <1>1, <1>4, <1>5, <1>6 DEF Safe

LEMMA BeginsSafe ==
  ASSUME Safe, Recorded, NEW s \in Saver, NEW t \in Text, Begins(s, t),
         UNCHANGED <<files, unlucky>>
  PROVE  Safe'
  <1> DEFINE k == saves + 1
  <1>1. savers[s].pc = "idle" /\ saves < MaxSaves /\ saves' = k /\ t \in Content
    BY TextsAreContent DEF Begins
  <1>2. k \in 1..MaxSaves /\ k \in Nat /\ k > saves /\ saves \in Nat
    BY <1>1, TextsAreContent DEF Safe, FileTypes
  <1>3. /\ savers' \in [Saver -> [pc : Points, k : Nat, text : Content \cup {NoText}]]
        /\ savers'[s] = [pc |-> "write", k |-> k, text |-> t]
        /\ \A u \in Saver : u # s => savers'[u] = savers[u]
    BY <1>1, <1>2 DEF Begins, Safe, FileTypes, Points
  <1>4. FileTypes'
    BY <1>1, <1>2, <1>3, TextsAreContent DEF Safe, FileTypes
  <1>5. past \subseteq past'
    BY RecordedFacts
  <1>6. files[Temp(k)] = Missing
    BY <1>2 DEF Safe, SaverInv
  <1>7. \A u \in Saver : Busy(u) => savers[u].k < k
    BY <1>2, BusySaver
  <1>8. ASSUME NEW u \in Saver, Busy(u)'
        PROVE  SaverOK(u)'
    <2>1. CASE u = s
      BY <1>1, <1>2, <1>3, <1>6, <2>1 DEF SaverOK, Missing
    <2>2. CASE u # s
      <3>1. SaverOK(u) /\ savers'[u] = savers[u] /\ savers[u].k \in 1..saves'
        BY <1>1, <1>2, <1>3, <1>8, <2>2, BusySaver DEF Busy
      <3>. QED  BY <1>5, <3>1 DEF SaverOK
    <2>. QED  BY <2>1, <2>2
  <1>9. SaverInv'
    <2>1. \A u, v \in Saver : Busy(u)' /\ Busy(v)' /\ savers'[u].k = savers'[v].k => u = v
      <3> SUFFICES ASSUME NEW u \in Saver, NEW v \in Saver, Busy(u)', Busy(v)',
                          savers'[u].k = savers'[v].k, u # v
                   PROVE  FALSE
        OBVIOUS
      <3>1. CASE u = s
        BY <1>2, <1>3, <1>7, <3>1, BusySaver DEF Busy
      <3>2. CASE v = s
        BY <1>2, <1>3, <1>7, <3>2, BusySaver DEF Busy
      <3>3. CASE u # s /\ v # s
        BY <1>3, <3>3 DEF Busy, Safe, SaverInv
      <3>. QED  BY <3>1, <3>2, <3>3
    <2>2. \A j \in 1..MaxSaves : j > saves' => files'[Temp(j)] = Missing
      BY <1>1, <1>2 DEF Safe, SaverInv
    <2>. QED  BY <1>8, <2>1, <2>2 DEF SaverInv, Missing
  <1>10. PlaceInv'
    <2>1. \A u \in Saver : savers'[u].pc = "discard" =>
            savers[u].pc = "discard" /\ savers'[u].k = savers[u].k
      BY <1>3
    <2>. QED  BY <2>1, PlaceFrame DEF Safe
  <1>11. \A u \in Saver : (Away(u)' <=> Away(u)) /\ (Away(u) => savers'[u].k = savers[u].k)
    BY <1>1, <1>3 DEF Away
  <1>12. LuckInv'
    BY <1>11 DEF Safe, LuckInv, Exists, Missing
  <1>. QED  BY <1>4, <1>9, <1>10, <1>12 DEF Safe

LEMMA ReturnsSafe ==
  ASSUME Safe, Recorded, NEW s \in Saver, Returns(s), UNCHANGED <<files, saves, unlucky>>
  PROVE  Safe'
  <1>1. savers[s].pc \in {"saved", "failed"}
    BY DEF Returns
  <1>2. /\ savers' \in [Saver -> [pc : Points, k : Nat, text : Content \cup {NoText}]]
        /\ savers'[s].pc = "idle"
        /\ \A u \in Saver : u # s => savers'[u] = savers[u]
    BY DEF Returns, NoSave, Safe, FileTypes, Points
  <1>3. FileTypes'
    BY <1>2 DEF Safe, FileTypes
  <1>4. past \subseteq past'
    BY RecordedFacts
  <1>5. ASSUME NEW u \in Saver, Busy(u)'
        PROVE  SaverOK(u)'
    <2>1. u # s /\ savers'[u] = savers[u] /\ SaverOK(u)
      BY <1>2, <1>5, BusySaver DEF Busy
    <2>. QED  BY <1>4, <2>1 DEF SaverOK
  <1>6. SaverInv'
    BY <1>2, <1>5 DEF Safe, SaverInv, Busy, Missing
  <1>7. PlaceInv'
    <2>1. \A u \in Saver : savers'[u].pc = "discard" =>
            savers[u].pc = "discard" /\ savers'[u].k = savers[u].k
      BY <1>2
    <2>. QED  BY <2>1, PlaceFrame DEF Safe
  <1>8. \A u \in Saver : (Away(u)' <=> Away(u)) /\ (Away(u) => savers'[u].k = savers[u].k)
    BY <1>1, <1>2 DEF Away
  <1>9. LuckInv'
    BY <1>8 DEF Safe, LuckInv, Exists, Missing
  <1>. QED  BY <1>3, <1>6, <1>7, <1>9 DEF Safe

LEMMA OtherUserWritesSafe ==
  ASSUME Safe, Recorded, NEW t \in Text, OtherUserWrites(t)
  PROVE  Safe'
  <1>1. /\ UNCHANGED <<savers, saves, unlucky>> /\ Exists(Path) /\ t \in Content /\ t # Missing
        /\ files' = [files EXCEPT ![Path] = t]
    BY TextsAreContent DEF OtherUserWrites, Missing
  <1>2. /\ files' \in [Names -> Content \cup {NoText}] /\ files'[Path] = t
        /\ \A f \in Names : f # Path => files'[f] = files[f]
    BY <1>1, NamesAre DEF Safe, FileTypes
  <1>3. \A k \in 1..MaxSaves : /\ files'[Temp(k)] = files[Temp(k)]
                               /\ files'[Backup(k)] = files[Backup(k)]
    BY <1>2, NamesAre, NamesDiffer
  <1>4. FileTypes'
    BY <1>1, <1>2 DEF Safe, FileTypes
  <1>5. past \subseteq past'
    BY RecordedFacts
  <1>6. ASSUME NEW u \in Saver, Busy(u)'
        PROVE  SaverOK(u)'
    <2>1. SaverOK(u) /\ savers[u].k \in 1..MaxSaves
      BY <1>1, <1>6, BusySaver DEF Busy
    <2>. QED  BY <1>1, <1>3, <1>5, <2>1 DEF SaverOK
  <1>7. SaverInv'
    BY <1>1, <1>3, <1>6 DEF Safe, SaverInv, Busy, Missing
  <1>8. PlaceInv'
    BY <1>2, <1>3, PlaceHere DEF Safe, PlaceInv
  <1>9. \A u \in Saver : Away(u)' => Away(u) /\ savers[u].k \in 1..MaxSaves
    BY <1>1, BusySaver DEF Away, Busy
  <1>10. LuckInv'
    BY <1>1, <1>2, <1>3, <1>9 DEF Safe, LuckInv, Exists, Missing
  <1>. QED  BY <1>4, <1>7, <1>8, <1>10 DEF Safe

LEMMA CrashSafe ==
  ASSUME Safe, Recorded, Crash
  PROVE  Safe'
  <1>1. /\ UNCHANGED <<files, saves>>
        /\ unlucky' = (unlucky \/ \E s \in Saver : savers[s].pc # "idle")
        /\ savers' = [s \in Saver |-> NoSave]
    BY DEF Crash
  <1>2. \A s \in Saver : savers'[s] = NoSave
    BY <1>1
  <1>3. FileTypes'
    BY <1>1 DEF Safe, FileTypes, NoSave, Points
  <1>4. \A s \in Saver : ~Busy(s)' /\ ~Away(s)' /\ savers'[s].pc # "discard"
    BY <1>2 DEF Busy, Away, NoSave
  <1>5. SaverInv'
    BY <1>1, <1>4 DEF Safe, SaverInv, Missing
  <1>6. PlaceInv'
    BY <1>1, <1>4, PlaceFrame DEF Safe
  <1>7. LuckInv'
    <2> SUFFICES ASSUME ~unlucky', ~Exists(Path)'
                 PROVE  FALSE
      BY <1>4 DEF LuckInv
    <2>1. ~unlucky /\ \A s \in Saver : savers[s].pc = "idle"
      BY <1>1
    <2>2. ~Exists(Path)
      BY <1>1 DEF Exists, Missing
    <2>. QED  BY <2>1, <2>2 DEF Safe, LuckInv, Away
  <1>. QED  BY <1>3, <1>5, <1>6, <1>7 DEF Safe
(* The steps, for each part of the invariant. *)

(* A step of a save touches its own record only.                           *)
LEMMA SaverStepFrame ==
  ASSUME FileTypes, NEW s \in Saver, SaverStep(s)
  PROVE  /\ Busy(s) /\ \A u \in Saver : u # s => savers'[u] = savers[u]
         /\ UNCHANGED <<reader, edit, local, watcher, event, review, misread>>
  <1>1. ASSUME NEW pc, Goes(s, pc)
        PROVE  \A u \in Saver : u # s => savers'[u] = savers[u]
    BY <1>1 DEF Goes, FileTypes
  <1>2. ASSUME NEW able, NEW d, NEW ok, NEW error, Request(s, able, d, ok, error)
        PROVE  \A u \in Saver : u # s => savers'[u] = savers[u]
    BY <1>1, <1>2 DEF Request
  <1>3. UNCHANGED <<reader, edit, local, watcher, event, review, misread>>
    BY DEF SaverStep, WriteChunk, Sync, Aside, Promote, Restore, Cleanup, Discard,
           Untouched, editing
  <1>4. Busy(s)
    BY DEF SaverStep, WriteChunk, Sync, Aside, Promote, Restore, Cleanup, Discard, Busy
  <1>5. \A u \in Saver : u # s => savers'[u] = savers[u]
    <2>1. CASE WriteChunk(s)
      BY <1>2, <2>1 DEF WriteChunk
    <2>2. CASE Sync(s)
      BY <1>2, <2>2 DEF Sync
    <2>3. CASE Aside(s)
      BY <1>2, <2>3 DEF Aside
    <2>4. CASE Promote(s)
      BY <1>1, <1>2, <2>4 DEF Promote
    <2>5. CASE Restore(s)
      BY <1>1, <1>2, <2>5 DEF Restore
    <2>6. CASE Cleanup(s)
      BY <1>2, <2>6 DEF Cleanup
    <2>7. CASE Discard(s)
      BY <1>2, <2>7 DEF Discard
    <2>. QED  BY <2>1, <2>2, <2>3, <2>4, <2>5, <2>6, <2>7 DEF SaverStep
  <1>. QED  BY <1>3, <1>4, <1>5

LEMMA SaverStepSafe ==
  ASSUME Safe, Recorded, NEW s \in Saver, SaverStep(s)
  PROVE  Safe'
  BY WriteChunkSafe, SyncSafe, AsideSafe, PromoteSafe, RestoreSafe, CleanupSafe, DiscardSafe
     DEF SaverStep

LEMMA StepSafe ==
  ASSUME Inv, Next
  PROVE  Safe'
  <1>1. Safe /\ Recorded
    BY DEF Inv, Safe, Next
  <1>2. CASE \E s \in Saver : SaverStep(s)
    BY <1>1, <1>2, SaverStepSafe
  <1>3. CASE \E t \in Text : EditorSaves(t) \/ ProgramSaves(t) \/ OtherUserWrites(t)
    <2>1. ASSUME NEW t \in Text, EditorSaves(t)
          PROVE  Safe'
      <3>1. "editor" \in Saver /\ Begins("editor", t) /\ UNCHANGED <<files, unlucky>>
        BY <2>1 DEF EditorSaves, Saver
      <3>. QED  BY <1>1, <3>1, BeginsSafe
    <2>2. ASSUME NEW t \in Text, ProgramSaves(t)
          PROVE  Safe'
      BY <1>1, <2>2, FilesStaySafe DEF ProgramSaves, Quiet
    <2>. QED  BY <1>1, <1>3, <2>1, <2>2, OtherUserWritesSafe
  <1>4. CASE EditorReturns
    <2>1. "editor" \in Saver /\ Returns("editor") /\ UNCHANGED <<files, saves, unlucky>>
      BY <1>4 DEF EditorReturns, Saver
    <2>. QED  BY <1>1, <2>1, ReturnsSafe
  <1>5. CASE Commit
    <2>1. "commit" \in Saver /\ Begins("commit", local) /\ UNCHANGED <<files, unlucky>>
      BY <1>5 DEF Commit, Saver
    <2>2. local \in Text
      BY <1>5 DEF Commit, Inv, CopyInv
    <2>. QED  BY <1>1, <2>1, <2>2, BeginsSafe
  <1>6. CASE CommitReturns
    <2>1. "commit" \in Saver /\ Returns("commit") /\ UNCHANGED <<files, saves, unlucky>>
      BY <1>6 DEF CommitReturns, Saver
    <2>. QED  BY <1>1, <2>1, ReturnsSafe
  <1>7. CASE \/ BeginExternalEdit \/ EndExternalEdit \/ ReadChunk \/ ReadEnds \/ ReadFails
             \/ Watches \/ Review \/ \E begin, sized \in BOOLEAN : Open(begin, sized)
    <2>1. UNCHANGED <<files, savers, saves, unlucky>>
      BY <1>7 DEF BeginExternalEdit, EndExternalEdit, ReadChunk, ReadEnds, ReadFails, Watches,
                  WatcherReads, WatcherReports, Review, Open, Quiet
    <2>. QED  BY <1>1, <2>1, FilesStaySafe
  <1>8. CASE Crash
    BY <1>1, <1>8, CrashSafe
  <1>. QED  BY <1>2, <1>3, <1>4, <1>5, <1>6, <1>7, <1>8 DEF Next, Step

(* The reader and the external edit keep their types.                      *)
LEMMA StepTypes ==
  ASSUME Inv, Next
  PROVE  EditTypes'
  <1> USE DEF EditTypes
  <1>1. EditTypes /\ FileTypes /\ Recorded
    BY DEF Inv, Next
  <1>2. torn' \in BOOLEAN
    BY <1>1 DEF Recorded
  <1>3. << >> \in Content /\ 0 \in Nat
    BY DEF Content
  <1>4. CASE \E s \in Saver : SaverStep(s)
    BY <1>1, <1>2, <1>4, SaverStepFrame
  <1>5. CASE \E t \in Text : EditorSaves(t) \/ ProgramSaves(t) \/ OtherUserWrites(t)
    BY <1>1, <1>2, <1>5, TextsAreContent
    DEF EditorSaves, ProgramSaves, OtherUserWrites, Quiet, editing
  <1>6. CASE EditorReturns \/ Commit
    BY <1>1, <1>2, <1>6 DEF EditorReturns, Commit, editing
  <1>7. CASE CommitReturns
    <2>1. savers["commit"].text \in Content \cup {NoText}
      BY <1>1 DEF FileTypes, Saver
    <2>2. Kept \in [state : {"none", "active", "ended"}, original : Content \cup {NoText},
                    observed : Content \cup {NoText}, sound : BOOLEAN]
      BY <1>1, <2>1 DEF Kept
    <2>. QED  BY <1>1, <1>2, <1>7, <2>2 DEF CommitReturns
  <1>8. CASE BeginExternalEdit
    BY <1>1, <1>2, <1>3, <1>8 DEF BeginExternalEdit, Opened, NoReader
  <1>9. CASE EndExternalEdit
    BY <1>1, <1>2, <1>9 DEF EndExternalEdit, Quiet, NoEdit
  <1>10. CASE \E begin, sized \in BOOLEAN : Open(begin, sized)
    <2>1. PICK begin \in BOOLEAN, sized \in BOOLEAN : Open(begin, sized)
      BY <1>10
    <2> DEFINE size == IF sized THEN Len(files[Path]) ELSE IF begin THEN 0 ELSE MaxSize + 1
    <2>2. size \in Nat
      <3>1. files[Path] \in Content
        BY <1>1, <2>1, NamesAre DEF Open, Exists, Missing, FileTypes
      <3>. QED  BY <3>1, TextsAreContent DEF Content
    <2>3. reader' = [pc |-> "read", begin |-> begin, sized |-> sized, size |-> size,
                     got |-> << >>]
          /\ UNCHANGED <<edit, local, watcher, event, review>>
      BY <2>1 DEF Open, editing
    <2> HIDE DEF size
    <2>. QED  BY <1>1, <1>2, <1>3, <2>2, <2>3
  <1>11. CASE ReadChunk
    <2>1. files[Path] \in Content /\ Len(reader.got) + 1 \in 1..Len(files[Path])
      <3>1. files[Path] \in Content /\ reader.got \in Content
        BY <1>1, <1>11, NamesAre DEF ReadChunk, AtEnd, Exists, Missing, FileTypes
      <3>. QED  BY <1>11, <3>1 DEF ReadChunk, AtEnd, Content
    <2>2. Append(reader.got, files[Path][Len(reader.got) + 1]) \in Content
      BY <1>1, <2>1 DEF Content
    <2>3. UNCHANGED <<edit, local, watcher, event, review>>
          /\ reader' = [reader EXCEPT !.got = Append(reader.got, files[Path][Len(reader.got) + 1])]
      BY <1>11 DEF ReadChunk, editing
    <2>. QED  BY <1>1, <1>2, <2>2, <2>3
  <1>12. CASE ReadEnds \/ ReadFails
    <2>1. reader' = NoReader /\ UNCHANGED <<edit, local, watcher, event, review>>
      BY <1>12 DEF ReadEnds, ReadFails, Opened, editing
    <2>. QED  BY <1>1, <1>2, <1>3, <2>1 DEF NoReader
  <1>13. CASE Watches
    <2>1. CASE WatcherReads
      BY <1>1, <1>2, <2>1 DEF WatcherReads, Quiet
    <2>2. CASE WatcherReports
      <3>1. /\ UNCHANGED <<reader, local, review>>
            /\ \/ watcher' = [pc |-> "sleep", text |-> NoText]
               \/ watcher' = [pc |-> "off", text |-> NoText]
            /\ \/ edit' = [edit EXCEPT !.observed = watcher.text] /\ event' = TRUE
               \/ UNCHANGED <<edit, event>>
        BY <2>2 DEF WatcherReports, Quiet
      <3>2. watcher' \in [pc : {"off", "sleep", "report"}, text : Content \cup {NoText}]
        BY <3>1
      <3>3. edit' \in [state : {"none", "active", "ended"}, original : Content \cup {NoText},
                      observed : Content \cup {NoText}, sound : BOOLEAN]
            /\ event' \in BOOLEAN
        BY <1>1, <3>1
      <3>. QED  BY <1>1, <1>2, <3>1, <3>2, <3>3
    <2>. QED  BY <1>13, <2>1, <2>2 DEF Watches
  <1>14. CASE Review
    BY <1>1, <1>2, <1>14 DEF Review, Quiet
  <1>15. CASE Crash
    BY <1>1, <1>2, <1>3, <1>15 DEF Crash, NoReader, NoEdit
  <1>. QED  BY <1>4, <1>5, <1>6, <1>7, <1>8, <1>9, <1>10, <1>11, <1>12, <1>13, <1>14, <1>15
               DEF Next, Step

LEMMA ReaderStays ==
  ASSUME ReaderInv, EditTypes, Recorded, reader' = reader
  PROVE  ReaderInv'
  <1>1. torn' = (reader.pc = "read" /\ (torn \/ files'[Path] # files[Path]))
    BY DEF Recorded
  <1>2. reader.pc = "read" /\ ~torn' => ~torn /\ files'[Path] = files[Path]
    BY <1>1
  <1>3. reader.pc = "idle" => ~torn'
    BY <1>1
  <1>4. reader.pc = "read" /\ ~torn' =>
          /\ Exists(Path)'
          /\ Len(reader.got) <= Len(files'[Path])
          /\ reader.got = SubSeq(files'[Path], 1, Len(reader.got))
          /\ reader.sized => reader.size = Len(files'[Path])
    BY <1>2 DEF ReaderInv, Exists, Missing
  <1>. QED  BY <1>3, <1>4 DEF ReaderInv

LEMMA ReaderLeaves ==
  ASSUME Recorded, reader' = NoReader
  PROVE  ReaderInv'
  BY DEF Recorded, NoReader, ReaderInv

LEMMA StepReader ==
  ASSUME Inv, Next
  PROVE  ReaderInv'
  <1>1. EditTypes /\ FileTypes /\ ReaderInv /\ Recorded
    BY DEF Inv, Next
  <1>2. CASE \E s \in Saver : SaverStep(s)
    BY <1>1, <1>2, SaverStepFrame, ReaderStays
  <1>3. CASE \/ \E t \in Text : EditorSaves(t) \/ ProgramSaves(t) \/ OtherUserWrites(t)
             \/ EditorReturns \/ Commit \/ CommitReturns \/ EndExternalEdit \/ Watches \/ Review
    <2>1. reader' = reader
      BY <1>3 DEF EditorSaves, ProgramSaves, OtherUserWrites, EditorReturns, Commit, CommitReturns,
                  EndExternalEdit, Watches, WatcherReads, WatcherReports, Review, Quiet
    <2>. QED  BY <1>1, <2>1, ReaderStays
  <1>4. CASE BeginExternalEdit \/ ReadEnds \/ ReadFails \/ Crash
    <2>1. reader' = NoReader
      BY <1>4 DEF BeginExternalEdit, ReadEnds, ReadFails, Crash, Opened
    <2>. QED  BY <1>1, <2>1, ReaderLeaves
  <1>5. CASE \E begin, sized \in BOOLEAN : Open(begin, sized)
    <2>1. PICK begin \in BOOLEAN, sized \in BOOLEAN : Open(begin, sized)
      BY <1>5
    <2>2. /\ reader.pc = "idle" /\ Exists(Path) /\ files' = files
          /\ reader'.pc = "read" /\ reader'.got = << >>
          /\ reader'.sized = sized /\ reader'.begin = begin
          /\ sized => reader'.size = Len(files[Path])
          /\ ~sized /\ ~begin => reader'.size = MaxSize + 1
      BY <2>1 DEF Open
    <2>3. files[Path] \in Seq(Chunk)
      BY <1>1, <2>2, NamesAre DEF Exists, Missing, FileTypes, Content
    <2>4. << >> = SubSeq(files[Path], 1, 0) /\ Len(<< >>) = 0 /\ 0 <= Len(files[Path])
      BY <2>3
    <2>. QED  BY <2>2, <2>4 DEF ReaderInv, Exists, Missing
  <1>6. CASE ReadChunk
    <2>1. /\ reader.pc = "read" /\ ~AtEnd /\ files' = files
          /\ reader' = [reader EXCEPT !.got = Append(reader.got, files[Path][Len(reader.got) + 1])]
      BY <1>6 DEF ReadChunk
    <2>2. /\ reader'.pc = "read" /\ reader'.sized = reader.sized /\ reader'.begin = reader.begin
          /\ reader'.size = reader.size
          /\ reader'.got = Append(reader.got, files[Path][Len(reader.got) + 1])
      BY <1>1, <2>1 DEF EditTypes
    <2>3. torn' => torn
      BY <1>1, <2>1 DEF Recorded
    <2>4. torn => torn'
      BY <1>1, <2>1, <2>2 DEF Recorded
    <2>5. ASSUME ~torn
          PROVE  /\ Len(reader'.got) <= Len(files[Path])
                 /\ reader'.got = SubSeq(files[Path], 1, Len(reader'.got))
      <3>1. files[Path] \in Seq(Chunk) /\ reader.got \in Seq(Chunk)
        BY <1>1, <2>1, NamesAre DEF AtEnd, Exists, Missing, FileTypes, EditTypes, Content
      <3>2. Len(reader.got) \in Nat /\ Len(reader.got) < Len(files[Path])
        BY <2>1, <3>1 DEF AtEnd
      <3>3. reader.got = SubSeq(files[Path], 1, Len(reader.got))
        BY <1>1, <2>1, <2>5 DEF ReaderInv
      <3>4. reader'.got = SubSeq(files[Path], 1, Len(reader.got) + 1)
        BY <2>2, <3>1, <3>2, <3>3, Prefix
      <3>5. Len(reader'.got) = Len(reader.got) + 1
        BY <2>2, <3>1, <3>2
      <3>. QED  BY <3>1, <3>2, <3>4, <3>5
    <2>. QED  BY <1>1, <2>1, <2>2, <2>4, <2>5 DEF ReaderInv, AtEnd, Exists, Missing
  <1>. QED  BY <1>2, <1>3, <1>4, <1>5, <1>6 DEF Next, Step

LEMMA StepCopy ==
  ASSUME Inv, Next
  PROVE  CopyInv'
  <1> USE DEF CopyInv
  <1>1. EditTypes /\ FileTypes /\ CopyInv /\ "commit" \in Saver
    BY DEF Inv, Next, Saver
  <1>2. CASE \E s \in Saver : SaverStep(s)
    <2>1. /\ UNCHANGED <<reader, edit, local, watcher, event, review>>
          /\ Busy("commit")' => Busy("commit")
      BY <1>1, <1>2, SaverStepFrame DEF Busy
    <2>. QED  BY <1>1, <2>1
  <1>3. CASE \E t \in Text : EditorSaves(t) \/ OtherUserWrites(t)
    <2>1. UNCHANGED <<reader, edit, local, watcher, event, review>>
          /\ savers'["commit"] = savers["commit"]
      BY <1>1, <1>3 DEF EditorSaves, OtherUserWrites, Begins, editing, FileTypes
    <2>. QED  BY <1>1, <2>1 DEF Busy
  <1>4. CASE \E t \in Text : ProgramSaves(t)
    BY <1>1, <1>4 DEF ProgramSaves, Quiet, Busy
  <1>5. CASE EditorReturns
    <2>1. UNCHANGED <<reader, edit, local, watcher, event, review>>
          /\ savers'["commit"] = savers["commit"]
      BY <1>1, <1>5 DEF EditorReturns, Returns, editing, FileTypes
    <2>. QED  BY <1>1, <2>1 DEF Busy
  <1>6. CASE Commit
    BY <1>1, <1>6 DEF Commit
  <1>7. CASE CommitReturns
    <2>1. ~Busy("commit")' /\ Busy("commit")
      BY <1>1, <1>7 DEF CommitReturns, Returns, NoSave, FileTypes, Busy
    <2>2. /\ UNCHANGED <<reader, local, watcher, event>>
          /\ edit'.state = edit.state /\ (review' = review \/ review' = NoText)
      BY <1>1, <1>7 DEF CommitReturns, Kept, EditTypes
    <2>. QED  BY <1>1, <2>1, <2>2
  <1>8. CASE BeginExternalEdit
    <2>1. edit.state = "none" /\ ~event /\ review = NoText /\ ~Busy("commit")
      BY <1>1, <1>8 DEF BeginExternalEdit
    <2>2. /\ edit'.state = "active" /\ local' = edit'.observed /\ watcher'.pc = "sleep"
          /\ reader'.pc = "idle" /\ UNCHANGED <<savers, event, review>>
      BY <1>8 DEF BeginExternalEdit, Opened, NoReader
    <2>. QED  BY <2>1, <2>2 DEF Busy
  <1>9. CASE EndExternalEdit
    BY <1>1, <1>9 DEF EndExternalEdit, NoEdit, Quiet, Busy
  <1>10. CASE \E begin, sized \in BOOLEAN : Open(begin, sized)
    BY <1>1, <1>10 DEF Open, editing, Busy
  <1>11. CASE ReadChunk
    BY <1>1, <1>11 DEF ReadChunk, editing, Busy, EditTypes
  <1>12. CASE ReadEnds \/ ReadFails
    BY <1>1, <1>12 DEF ReadEnds, ReadFails, Opened, NoReader, editing, Busy
  <1>13. CASE WatcherReads
    BY <1>1, <1>13 DEF WatcherReads, Quiet, Busy
  <1>14. CASE WatcherReports
    <2>1. edit.state # "none" /\ (edit.state = "active" => local \in Text)
      BY <1>1, <1>14 DEF WatcherReports
    <2>2. /\ edit'.state = edit.state /\ UNCHANGED <<savers, reader, local, review>>
          /\ edit.state # "active" => UNCHANGED event
      BY <1>1, <1>14 DEF WatcherReports, Quiet, EditTypes
    <2>. QED  BY <1>1, <2>1, <2>2 DEF Busy
  <1>15. CASE Review
    BY <1>1, <1>15 DEF Review, Quiet, Busy
  <1>16. CASE Crash
    BY <1>1, <1>16 DEF Crash, NoSave, NoEdit, NoReader, Busy
  <1>. QED  BY <1>2, <1>3, <1>4, <1>5, <1>6, <1>7, <1>8, <1>9, <1>10, <1>11, <1>12, <1>13,
               <1>14, <1>15, <1>16 DEF Next, Step, Watches

(* What was read to the end, without a replacement, is the file.           *)
LEMMA WholeIsAVersion ==
  ASSUME Inv, reader.pc = "read", ~torn, Whole,
         reader.sized \/ (~reader.begin /\ Len(reader.got) <= MaxSize)
  PROVE  reader.got \in past
  <1>1. /\ Exists(Path) /\ Len(reader.got) <= Len(files[Path])
        /\ reader.got = SubSeq(files[Path], 1, Len(reader.got))
        /\ reader.sized => reader.size = Len(files[Path])
        /\ ~reader.sized /\ ~reader.begin => reader.size = MaxSize + 1
    BY DEF Inv, ReaderInv
  <1>2. files[Path] \in Seq(Chunk) /\ reader.got \in Seq(Chunk)
    BY <1>1, NamesAre DEF Inv, FileTypes, EditTypes, Exists, Missing, Content
  <1>3. Len(reader.got) = Len(files[Path])
    <2>1. CASE Complete
      BY <1>1, <1>2, <2>1, TextsAreContent DEF Complete
    <2>2. CASE AtEnd
      BY <1>1, <1>2, <2>2 DEF AtEnd
    <2>. QED  BY <2>1, <2>2 DEF Whole
  <1>4. reader.got = files[Path]
    BY <1>1, <1>2, <1>3, Prefix
  <1>. QED  BY <1>1, <1>4 DEF Inv, PlaceInv

LEMMA StepVersions ==
  ASSUME Inv, Next
  PROVE  OpenedIsAVersion'
  <1> USE DEF OpenedIsAVersion
  <1>1. /\ EditTypes /\ FileTypes /\ OpenedIsAVersion /\ past \subseteq past'
    BY RecordedFacts DEF Inv, Next
  <1>2. CASE \E s \in Saver : SaverStep(s)
    BY <1>1, <1>2, SaverStepFrame
  <1>3. CASE \/ \E t \in Text : EditorSaves(t) \/ ProgramSaves(t) \/ OtherUserWrites(t)
             \/ EditorReturns \/ Commit \/ ReadChunk \/ ReadFails \/ WatcherReads \/ Review
             \/ \E begin, sized \in BOOLEAN : Open(begin, sized)
    <2>1. UNCHANGED <<edit, misread>>
      BY <1>3 DEF EditorSaves, ProgramSaves, OtherUserWrites, EditorReturns, Commit, ReadChunk,
                  ReadFails, WatcherReads, Review, Open, Quiet, editing
    <2>. QED  BY <1>1, <2>1
  <1>4. CASE WatcherReports
    <2>1. /\ edit'.state = edit.state /\ edit'.sound = edit.sound
          /\ edit'.original = edit.original /\ UNCHANGED misread
      BY <1>1, <1>4 DEF WatcherReports, Quiet, EditTypes
    <2>. QED  BY <1>1, <2>1
  <1>5. CASE CommitReturns
    <2>1. CASE savers["commit"].pc = "saved" /\ edit.state = "active"
      <3>1. savers["commit"].text \in past
        BY <2>1 DEF Inv, SaverInv, SaverOK, Busy, Saver
      <3>2. edit'.original = savers["commit"].text /\ UNCHANGED misread
        BY <1>1, <1>5, <2>1 DEF CommitReturns, Kept, EditTypes
      <3>. QED  BY <1>1, <3>1, <3>2
    <2>2. CASE ~(savers["commit"].pc = "saved" /\ edit.state = "active")
      BY <1>1, <1>5, <2>2 DEF CommitReturns
    <2>. QED  BY <2>1, <2>2
  <1>6. CASE ReadEnds
    <2>1. torn \/ (reader.begin /\ ~reader.sized) \/ reader.got \in past
      BY <1>6, WholeIsAVersion DEF ReadEnds
    <2>2. ~misread' /\ UNCHANGED edit
      BY <1>1, <1>6, <2>1 DEF ReadEnds, Opened, editing
    <2>. QED  BY <1>1, <2>2
  <1>7. CASE BeginExternalEdit
    <2>1. torn \/ ~reader.sized \/ reader.got \in past
      BY <1>7, WholeIsAVersion DEF BeginExternalEdit
    <2>2. ~misread'
      BY <1>1, <1>7, <2>1 DEF BeginExternalEdit, Opened
    <2>3. edit'.original = reader.got /\ edit'.sound = (~torn /\ reader.sized)
      BY <1>7 DEF BeginExternalEdit
    <2>. QED  BY <1>1, <2>1, <2>2, <2>3
  <1>8. CASE EndExternalEdit \/ Crash
    BY <1>1, <1>8 DEF EndExternalEdit, Crash, NoEdit, Quiet
  <1>. QED  BY <1>2, <1>3, <1>4, <1>5, <1>6, <1>7, <1>8 DEF Next, Step, Watches

-----------------------------------------------------------------------------
(* The invariant. *)

LEMMA InitInv == Init => Inv
  <1> SUFFICES ASSUME Init
               PROVE  Inv
    OBVIOUS
  <1> USE DEF Init
  <1>1. \A f \in Names : files[f] = IF f = Path THEN First ELSE NoText
    BY DEF Missing
  <1>2. \A s \in Saver : savers[s] = NoSave
    OBVIOUS
  <1>3. FileTypes
    BY TextsAreContent DEF FileTypes, Missing, NoSave, Points
  <1>4. EditTypes
    <2>1. << >> \in Content
      BY DEF Content
    <2>. QED  BY <2>1 DEF EditTypes, NoReader, NoEdit
  <1>5. files[Path] = First /\ First # Missing
    BY <1>1, NamesAre, TextsAreContent DEF Missing
  <1>6. \A k \in 1..MaxSaves : files[Temp(k)] = Missing /\ files[Backup(k)] = Missing
    BY <1>1, NamesAre, NamesDiffer DEF Missing
  <1>7. SaverInv
    BY <1>2, <1>6 DEF SaverInv, Busy, NoSave
  <1>8. PlaceInv
    BY <1>5, <1>6, TextsAreContent DEF PlaceInv, Exists
  <1>9. LuckInv
    BY <1>2, <1>5 DEF LuckInv, Away, NoSave, Exists
  <1>10. ReaderInv
    BY DEF ReaderInv, NoReader
  <1>11. CopyInv
    BY <1>2 DEF CopyInv, NoEdit, NoReader, Busy, NoSave, Saver
  <1>12. OpenedIsAVersion
    BY DEF OpenedIsAVersion, NoEdit
  <1>. QED  BY <1>3, <1>4, <1>7, <1>8, <1>9, <1>10, <1>11, <1>12 DEF Inv

LEMMA StepInv == Inv /\ [Next]_vars => Inv'
  <1> SUFFICES ASSUME Inv, [Next]_vars
               PROVE  Inv'
    OBVIOUS
  <1>1. CASE Next
    BY <1>1, StepSafe, StepTypes, StepReader, StepCopy, StepVersions DEF Inv, Safe
  <1>2. CASE UNCHANGED vars
    BY <1>2 DEF vars, editing, Inv, FileTypes, EditTypes, SaverInv, SaverOK, Busy, PlaceInv,
                LuckInv, Away, ReaderInv, CopyInv, OpenedIsAVersion, Exists, Missing
  <1>. QED  BY <1>1, <1>2

LEMMA InvHolds == Spec => []Inv
  BY InitInv, StepInv, PTL DEF Spec

(* The text the file had last is never lost: it is the file, or a backup   *)
(* (save_remote_bytes_atomic).                                             *)
THEOREM NothingIsOverwritten == Spec => []ContentSurvives
  <1>1. Inv => ContentSurvives
    <2> SUFFICES ASSUME Inv
                 PROVE  \E f \in Names : files[f] = current
      BY DEF ContentSurvives
    <2>. QED  BY NamesAre DEF Inv, PlaceInv
  <1>. QED  BY <1>1, InvHolds, PTL

(* The file is a whole text or missing, and missing only while a save has  *)
(* it aside, or after bad luck (save_remote_bytes_atomic).                 *)
THEOREM TheFileComesBack == Spec => []PathIsBack
  <1>1. Inv => PathIsBack
    BY DEF Inv, PlaceInv, LuckInv, Away, PathIsBack
  <1>. QED  BY <1>1, InvHolds, PTL

(* A save that reports success has removed its files                       *)
(* (save_remote_bytes_atomic).                                             *)
THEOREM SavesCleanUp == Spec => []SavedLeavesNothing
  <1>1. Inv => SavedLeavesNothing
    BY DEF Inv, SaverInv, SaverOK, Busy, SavedLeavesNothing, Exists
  <1>. QED  BY <1>1, InvHolds, PTL

(* What is opened, and what an external edit compares with, is a text the  *)
(* file had (read_remote_bytes_bounded, begin_external_edit).              *)
THEOREM OpenedTextsWereThere == Spec => []OpenedIsAVersion
  <1>1. Inv => OpenedIsAVersion
    BY DEF Inv
  <1>. QED  BY <1>1, InvHolds, PTL

===============================================================================
