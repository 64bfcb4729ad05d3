------------------------- MODULE ConfigurationProofs -------------------------
(***************************************************************************)
(* Theorems about the preferences and the library: the four homes of the   *)
(* preferences agree between saves, an export can be imported anywhere and *)
(* an import restores what the file holds, for any records, documents and  *)
(* order of the commands.                                                  *)
(***************************************************************************)
EXTENDS Configuration, TLAPS

-----------------------------------------------------------------------------
(* The preferences. *)

SaveRecord == [at : {"idle", "waiting", "read", "persist", "remember", "limit", "switch"},
               value : Values, was : Switch]

SettingsTypeOK ==
  /\ row \in Values
  /\ memory \in Values
  /\ limit \in Limit
  /\ diagnostics \in Switch
  /\ guard \in Saves \cup {None}
  /\ saves \in [Saves -> SaveRecord]

Inside == {"read", "persist", "remember", "limit", "switch"}

(* Only the holder of the guard is past it.                                *)
OneInside == \A s \in Saves : (guard = s) <=> saves[s].at \in Inside

(* What the holder has brought up to date so far, and that what it read of *)
(* the diagnostics still holds.                                            *)
Progress ==
  \A s \in Saves :
    LET at == saves[s].at
        v == saves[s].value
    IN  /\ at \in {"persist", "remember", "limit", "switch"} =>
             (diagnostics = saves[s].was)
        /\ at \in {"read", "persist"} =>
             memory = row /\ limit = row.limit /\ diagnostics = row.diagnostics
        /\ at = "remember" => row = v
        /\ at \in {"limit", "switch"} => row = v /\ memory = v
        /\ at = "switch" => limit = v.limit

IndInv == SettingsTypeOK /\ OneInside /\ Progress /\ SettingsAgree

LEMMA InitIsInductive == PreferencesInit => IndInv
BY NobodyAssumption, DefaultAssumption
   DEF PreferencesInit, IndInv, SettingsTypeOK, OneInside, Progress, SettingsAgree,
       SaveRecord, Values, Switch, Accepted, Inside

LEMMA StepIsInductive == IndInv /\ [PreferencesNext]_settings => IndInv'
<1> SUFFICES ASSUME IndInv, [PreferencesNext]_settings
             PROVE  IndInv'
  OBVIOUS
<1> USE NobodyAssumption
    DEF IndInv, SettingsTypeOK, OneInside, Progress, SettingsAgree, SaveRecord, Values, Switch, Inside
<1>1. ASSUME NEW s \in Saves, NEW v \in Values, AsksToSave(s, v)
      PROVE  IndInv'
  <2>1. SettingsTypeOK'
    <3>1. saves[s] \in SaveRecord
      OBVIOUS
    <3> HIDE DEF Values, Switch
    <3>2. [saves[s] EXCEPT !.at = "waiting", !.value = v] \in SaveRecord
      BY <3>1
    <3>3. saves' = [saves EXCEPT ![s] = [saves[s] EXCEPT !.at = "waiting", !.value = v]]
      BY <1>1 DEF AsksToSave
    <3> HIDE DEF SaveRecord
    <3> QED
      BY <1>1, <3>2, <3>3 DEF AsksToSave
  <2>2. OneInside'
    BY <1>1, SMTT(30) DEF AsksToSave, At
  <2>3. Progress'
    BY <1>1, SMTT(30) DEF AsksToSave, At
  <2>4. SettingsAgree'
    BY <1>1, SMTT(30) DEF AsksToSave, At
  <2> QED
    BY <2>1, <2>2, <2>3, <2>4
<1>2. ASSUME NEW s \in Saves, TakesGuard(s)
      PROVE  IndInv'
  BY <1>2, SMTT(30) DEF TakesGuard, At, To
<1>3. ASSUME NEW s \in Saves, ReadsDiagnostics(s)
      PROVE  IndInv'
  <2>1. SettingsTypeOK'
    <3>1. memory.diagnostics \in Switch
      OBVIOUS
    <3>2. saves[s] \in SaveRecord
      OBVIOUS
    <3> HIDE DEF Values, Switch
    <3>3. [saves[s] EXCEPT !.at = "persist", !.was = memory.diagnostics] \in SaveRecord
      BY <3>1, <3>2
    <3>4. saves' = [saves EXCEPT ![s] =
                      [saves[s] EXCEPT !.at = "persist", !.was = memory.diagnostics]]
      BY <1>3 DEF ReadsDiagnostics
    <3> HIDE DEF SaveRecord
    <3> QED
      BY <1>3, <3>3, <3>4 DEF ReadsDiagnostics
  <2>2. OneInside'
    BY <1>3, SMTT(30) DEF ReadsDiagnostics, At
  <2>3. Progress'
    BY <1>3, SMTT(30) DEF ReadsDiagnostics, At
  <2>4. SettingsAgree'
    BY <1>3, SMTT(30) DEF ReadsDiagnostics, At
  <2> QED
    BY <2>1, <2>2, <2>3, <2>4
<1>4. ASSUME NEW s \in Saves, Persists(s)
      PROVE  IndInv'
  BY <1>4, SMTT(30) DEF Persists, At, To
<1>5. ASSUME NEW s \in Saves, PersistFails(s)
      PROVE  IndInv'
  BY <1>5, SMTT(30) DEF PersistFails, At, To
<1>6. ASSUME NEW s \in Saves, Remembers(s)
      PROVE  IndInv'
  BY <1>6, SMTT(30) DEF Remembers, At, To
<1>7. ASSUME NEW s \in Saves, UpdatesLimits(s)
      PROVE  IndInv'
  BY <1>7, SMTT(30) DEF UpdatesLimits, At, To
<1>8. ASSUME NEW s \in Saves, SetsEnabled(s)
      PROVE  IndInv'
  BY <1>8, SMTT(30) DEF SetsEnabled, At, To
<1>9. CASE PreferencesRestart
  BY <1>9, SMTT(30) DEF PreferencesRestart
<1>10. CASE UNCHANGED settings
  BY <1>10 DEF settings
<1> QED
  BY <1>1, <1>2, <1>3, <1>4, <1>5, <1>6, <1>7, <1>8, <1>9, <1>10
     DEF PreferencesNext, Saving

(* Between saves the row, the memory, the scheduler and the diagnostics    *)
(* agree, however many saves, limits and restarts there are                *)
(* (save_preferences).                                                     *)
THEOREM SavesAgree == PreferencesSpec => []SettingsAgree
<1>1. IndInv => SettingsAgree
  BY DEF IndInv
<1> QED
  BY InitIsInductive, StepIsInductive, <1>1, PTL DEF PreferencesSpec

(* A behaviour that follows the preferences is one of Preferences, any     *)
(* other leaves them alone.                                                *)
THEOREM PreferencesAreApart == Spec => PreferencesSpec
<1>1. Init => PreferencesInit
  BY DEF Init
<1>2. [Next]_vars => [PreferencesNext]_settings
  BY DEF Next, vars
<1> QED
  BY <1>1, <1>2, PTL DEF Spec, PreferencesSpec

(* The same holds beside the library: between saves the row, the memory,   *)
(* the scheduler and the diagnostics agree (save_preferences).             *)
THEOREM SettingsStayAgreed == Spec => []SettingsAgree
BY SavesAgree, PreferencesAreApart, PTL

-----------------------------------------------------------------------------
(* The library: what its state is made of. *)

Points == {"idle", "list profiles", "list bookmarks", "list actions", "collect", "open", "write",
           "profiles", "bookmarks", "actions", "secrets", "imported"}

Command == [at : Points, doc : Library, todo : SUBSET (Profile \cup Bookmark \cup Action),
            start : Library, raced : SUBSET (Profile \cup {None})]

LibraryTypes ==
  /\ store \in Library
  /\ file \in [whole : BOOLEAN, own : BOOLEAN, doc : Library]
  /\ call \in Command
  /\ deleting \in Profile \cup {None}

(* The secrets of a document belong to profiles that remember them.        *)
Owned(doc) == DOMAIN doc.secrets \subseteq {p \in DOMAIN doc.profiles : doc.profiles[p].remember}

(* Only deletions come between the reads of the lists.                     *)
ExportInv ==
  /\ Related(store, {})
  /\ call.at = "list bookmarks" => DOMAIN store.profiles \subseteq DOMAIN call.doc.profiles
  /\ call.at \in {"list actions", "collect", "open", "write"} => Related(call.doc, {})
  /\ call.at \in {"list profiles", "list bookmarks", "list actions", "collect"} =>
       DOMAIN call.doc.secrets = {}
  /\ call.at \in {"open", "write"} => Owned(call.doc)
  /\ file.whole /\ file.own => Related(file.doc, {}) /\ Owned(file.doc)

Importing == call.at \in {"profiles", "bookmarks", "actions", "secrets", "imported"}

(* What an import has written so far.                                      *)
WrittenProfiles ==
  {p \in DOMAIN call.doc.profiles : call.at = "profiles" => p \notin call.todo}

WrittenBookmarks ==
  {b \in DOMAIN call.doc.bookmarks :
     call.at # "profiles" /\ (call.at = "bookmarks" => b \notin call.todo)}

WrittenActions ==
  {a \in DOMAIN call.doc.actions :
     call.at \in {"actions", "secrets", "imported"} /\ (call.at = "actions" => a \notin call.todo)}

Owners == DOMAIN call.doc.profiles \cup DOMAIN call.start.profiles

WrittenSecrets ==
  {p \in DOMAIN call.doc.secrets \cap Owners :
     call.at \in {"secrets", "imported"} /\ (call.at = "secrets" => p \notin call.todo)}

(* Where x is now: as in the document if it is written, or as it was.      *)
IsLaid(x, now, new, written, old) ==
  /\ x \in DOMAIN now <=> x \in written \cup DOMAIN old
  /\ x \in written => now[x] = new[x]
  /\ x \in DOMAIN old /\ x \notin written => now[x] = old[x]

ToDo ==
  /\ call.at = "profiles" => call.todo \subseteq DOMAIN call.doc.profiles
  /\ call.at = "bookmarks" => call.todo \subseteq DOMAIN call.doc.bookmarks
  /\ call.at = "actions" => call.todo \subseteq DOMAIN call.doc.actions
  /\ call.at = "secrets" => call.todo \subseteq DOMAIN call.doc.secrets
  /\ call.at = "imported" => call.todo = {}

ProfilesLaid == \A p \in Profile \ call.raced :
  IsLaid(p, store.profiles, call.doc.profiles, WrittenProfiles, call.start.profiles)

SecretsLaid == \A p \in Profile \ call.raced :
  IsLaid(p, store.secrets, call.doc.secrets, WrittenSecrets, call.start.secrets)

ActionsLaid == \A a \in Action :
  IsLaid(a, store.actions, call.doc.actions, WrittenActions, call.start.actions)

BookmarksLaid ==
  /\ DOMAIN store.bookmarks \subseteq WrittenBookmarks \cup DOMAIN call.start.bookmarks
  /\ \A b \in WrittenBookmarks : call.doc.bookmarks[b].profile \notin call.raced =>
       b \in DOMAIN store.bookmarks /\ store.bookmarks[b] = call.doc.bookmarks[b]
  /\ \A b \in DOMAIN call.start.bookmarks :
       b \notin WrittenBookmarks /\ call.start.bookmarks[b].profile \notin call.raced =>
         b \in DOMAIN store.bookmarks /\ store.bookmarks[b] = call.start.bookmarks[b]

ImportInv == Importing =>
  /\ ToDo /\ (deleting # None => deleting \in call.raced)
  /\ ProfilesLaid /\ SecretsLaid /\ ActionsLaid /\ BookmarksLaid

LibraryInv == LibraryTypes /\ ExportInv /\ ImportInv

-----------------------------------------------------------------------------
(* Records and lists. *)

LEMMA SomeIs ==
  ASSUME NEW S, NEW T, NEW f \in Some(S, T)
  PROVE  DOMAIN f \subseteq S /\ f \in [DOMAIN f -> T] /\ \A x \in DOMAIN f : f[x] \in T
  BY DEF Some

LEMMA SomeOf ==
  ASSUME NEW S, NEW T, NEW D, D \subseteq S, NEW f \in [D -> T]
  PROVE  f \in Some(S, T)
  BY DEF Some

LEMMA WithIs ==
  ASSUME NEW S, NEW T, NEW f \in Some(S, T), NEW k \in S, NEW v \in T
  PROVE  /\ With(f, k, v) \in Some(S, T)
         /\ DOMAIN With(f, k, v) = DOMAIN f \cup {k} /\ With(f, k, v)[k] = v
         /\ \A x \in DOMAIN f : x # k => With(f, k, v)[x] = f[x]
  <1>1. DOMAIN f \subseteq S /\ \A x \in DOMAIN f : f[x] \in T
    BY SomeIs
  <1>2. With(f, k, v) \in [DOMAIN f \cup {k} -> T]
    BY <1>1 DEF With
  <1>3. With(f, k, v) \in Some(S, T)
    BY <1>1, <1>2, SomeOf
  <1>. QED  BY <1>3 DEF With

LEMMA RestrictIs ==
  ASSUME NEW S, NEW T, NEW f \in Some(S, T), NEW D, D \subseteq DOMAIN f
  PROVE  /\ Restrict(f, D) \in Some(S, T) /\ DOMAIN Restrict(f, D) = D
         /\ \A x \in D : Restrict(f, D)[x] = f[x]
  <1>1. DOMAIN f \subseteq S /\ \A x \in DOMAIN f : f[x] \in T
    BY SomeIs
  <1>2. Restrict(f, D) \in [D -> T] /\ D \subseteq S
    BY <1>1 DEF Restrict
  <1>3. Restrict(f, D) \in Some(S, T)
    BY <1>2, SomeOf
  <1>. QED  BY <1>3 DEF Restrict

LEMMA WithoutIs ==
  ASSUME NEW S, NEW T, NEW f \in Some(S, T), NEW D
  PROVE  /\ Without(f, D) \in Some(S, T) /\ DOMAIN Without(f, D) = DOMAIN f \ D
         /\ \A x \in DOMAIN f \ D : Without(f, D)[x] = f[x]
  BY RestrictIs DEF Without

ProfileRow == [version : Version, remember : BOOLEAN]
BookmarkRow == [profile : Profile, place : Place]

Profiles == Some(Profile, ProfileRow)
Bookmarks == Some(Bookmark, BookmarkRow)
Actions == Some(Action, Version)
Secrets == Some(Profile, Version)

(* What With and Without return.                                          *)
Puts(new, f, k, v) ==
  /\ DOMAIN new = DOMAIN f \cup {k} /\ new[k] = v
  /\ \A x \in DOMAIN f : x # k => new[x] = f[x]

Drops(new, f, D) ==
  /\ DOMAIN new = DOMAIN f \ D
  /\ \A x \in DOMAIN f \ D : new[x] = f[x]

LEMMA PutsProfile ==
  ASSUME NEW f \in Profiles, NEW k \in Profile, NEW v \in ProfileRow
  PROVE  With(f, k, v) \in Profiles /\ Puts(With(f, k, v), f, k, v)
  <1>1. f \in Some(Profile, ProfileRow)
    BY DEF Profiles
  <1>. QED  BY <1>1, WithIs DEF Profiles, Puts

LEMMA PutsBookmark ==
  ASSUME NEW f \in Bookmarks, NEW k \in Bookmark, NEW v \in BookmarkRow
  PROVE  With(f, k, v) \in Bookmarks /\ Puts(With(f, k, v), f, k, v)
  <1>1. f \in Some(Bookmark, BookmarkRow)
    BY DEF Bookmarks
  <1>. QED  BY <1>1, WithIs DEF Bookmarks, Puts

LEMMA PutsAction ==
  ASSUME NEW f \in Actions, NEW k \in Action, NEW v \in Version
  PROVE  With(f, k, v) \in Actions /\ Puts(With(f, k, v), f, k, v)
  <1>1. f \in Some(Action, Version)
    BY DEF Actions
  <1>2. /\ With(f, k, v) \in Some(Action, Version)
        /\ DOMAIN With(f, k, v) = DOMAIN f \cup {k} /\ With(f, k, v)[k] = v
        /\ \A x \in DOMAIN f : x # k => With(f, k, v)[x] = f[x]
    BY <1>1, WithIs DEF With
  <1>. QED  BY <1>2 DEF Actions, Puts

LEMMA PutsSecret ==
  ASSUME NEW f \in Secrets, NEW k \in Profile, NEW v \in Version
  PROVE  With(f, k, v) \in Secrets /\ Puts(With(f, k, v), f, k, v)
  <1>1. f \in Some(Profile, Version)
    BY DEF Secrets
  <1>2. /\ With(f, k, v) \in Some(Profile, Version)
        /\ DOMAIN With(f, k, v) = DOMAIN f \cup {k} /\ With(f, k, v)[k] = v
        /\ \A x \in DOMAIN f : x # k => With(f, k, v)[x] = f[x]
    BY <1>1, WithIs DEF With
  <1>. QED  BY <1>2 DEF Secrets, Puts

LEMMA DropsRows ==
  /\ \A f \in Profiles : \A D : Without(f, D) \in Profiles /\ Drops(Without(f, D), f, D)
  /\ \A f \in Bookmarks : \A D : Without(f, D) \in Bookmarks /\ Drops(Without(f, D), f, D)
  /\ \A f \in Actions : \A D : Without(f, D) \in Actions /\ Drops(Without(f, D), f, D)
  /\ \A f \in Secrets : \A D : Without(f, D) \in Secrets /\ Drops(Without(f, D), f, D)
  <1>1. ASSUME NEW S, NEW T, NEW f \in Some(S, T), NEW D
        PROVE  Without(f, D) \in Some(S, T) /\ Drops(Without(f, D), f, D)
    <2>1. Without(f, D) \in Some(S, T)
      BY WithoutIs
    <2>2. DOMAIN Without(f, D) = DOMAIN f \ D
      BY WithoutIs
    <2>3. \A x \in DOMAIN f \ D : Without(f, D)[x] = f[x]
      BY SomeIs DEF Without, Restrict
    <2>. QED  BY <2>1, <2>2, <2>3 DEF Drops
  <1>. QED  BY <1>1 DEF Profiles, Bookmarks, Actions, Secrets

LEMMA LibraryIs ==
  ASSUME NEW s \in Library
  PROVE  /\ s.profiles \in Profiles /\ s.bookmarks \in Bookmarks
         /\ s.actions \in Actions /\ s.secrets \in Secrets
  BY DEF Library, Profiles, Bookmarks, Actions, Secrets, ProfileRow, BookmarkRow

LEMMA FieldIsSet ==
  ASSUME NEW s \in Library
  PROVE  /\ \A new \in Profiles : LET n == [s EXCEPT !.profiles = new] IN
              /\ n \in Library /\ n.profiles = new /\ n.bookmarks = s.bookmarks
              /\ n.actions = s.actions /\ n.secrets = s.secrets
         /\ \A new \in Bookmarks : LET n == [s EXCEPT !.bookmarks = new] IN
              /\ n \in Library /\ n.profiles = s.profiles /\ n.bookmarks = new
              /\ n.actions = s.actions /\ n.secrets = s.secrets
         /\ \A new \in Actions : LET n == [s EXCEPT !.actions = new] IN
              /\ n \in Library /\ n.profiles = s.profiles /\ n.bookmarks = s.bookmarks
              /\ n.actions = new /\ n.secrets = s.secrets
         /\ \A new \in Secrets : LET n == [s EXCEPT !.secrets = new] IN
              /\ n \in Library /\ n.profiles = s.profiles /\ n.bookmarks = s.bookmarks
              /\ n.actions = s.actions /\ n.secrets = new
  BY DEF Library, Profiles, Bookmarks, Actions, Secrets, ProfileRow, BookmarkRow

LEMMA NothingIs ==
  /\ Nothing \in Library /\ Related(Nothing, {}) /\ DOMAIN Nothing.secrets = {}
  /\ NoCall \in Command /\ NoCall.at = "idle" /\ NoCall.doc = Nothing
  <1>1. <<>> \in Profiles /\ <<>> \in Bookmarks /\ <<>> \in Actions /\ <<>> \in Secrets
    <2>1. ASSUME NEW S, NEW T
          PROVE  <<>> \in Some(S, T)
      <3>1. <<>> \in [{} -> T] /\ {} \subseteq S
        OBVIOUS
      <3>. QED  BY <3>1 DEF Some
    <2>. QED  BY <2>1 DEF Profiles, Bookmarks, Actions, Secrets
  <1>2. Nothing \in Library
    BY <1>1 DEF Nothing, Library, Profiles, Bookmarks, Actions, Secrets, ProfileRow, BookmarkRow
  <1>3. Related(Nothing, {}) /\ DOMAIN Nothing.secrets = {}
    BY DEF Related, Nothing
  <1>. QED  BY <1>2, <1>3 DEF NoCall, Command, Points
-----------------------------------------------------------------------------
(* Single records. *)

(* While nothing is exported or imported, only the foreign key matters.    *)
LEMMA EditStep ==
  ASSUME LibraryInv, Idle, store' \in Library, UNCHANGED <<file, call>>,
         deleting' \in Profile \cup {None}, Related(store', {})
  PROVE  LibraryInv'
  <1>1. call'.at = "idle" /\ LibraryTypes' /\ ~Importing'
    BY DEF LibraryInv, LibraryTypes, Idle, Importing
  <1>2. ExportInv'
    BY <1>1 DEF LibraryInv, ExportInv
  <1>. QED  BY <1>1, <1>2 DEF LibraryInv, ImportInv

LEMMA SaveProfileStep ==
  ASSUME LibraryInv, SaveProfile
  PROVE  LibraryInv'
  <1>1. PICK p \in Profile, v \in Version, remember \in BOOLEAN :
          store' = [store EXCEPT !.profiles =
                      With(store.profiles, p, [version |-> v, remember |-> remember])]
    BY DEF SaveProfile
  <1> DEFINE new == With(store.profiles, p, [version |-> v, remember |-> remember])
  <1>2. store \in Library /\ Related(store, {})
    BY DEF LibraryInv, LibraryTypes, ExportInv
  <1>3. new \in Profiles /\ DOMAIN store.profiles \subseteq DOMAIN new
    <2>1. store.profiles \in Profiles /\ [version |-> v, remember |-> remember] \in ProfileRow
      BY <1>2, LibraryIs DEF ProfileRow
    <2>2. new \in Profiles /\ Puts(new, store.profiles, p, [version |-> v, remember |-> remember])
      BY <2>1, PutsProfile
    <2>. QED  BY <2>2 DEF Puts
  <1> HIDE DEF new
  <1>4. store' = [store EXCEPT !.profiles = new]
    BY <1>1 DEF new
  <1>5. store' \in Library /\ store'.profiles = new /\ store'.bookmarks = store.bookmarks
    BY <1>2, <1>3, <1>4, FieldIsSet
  <1>6. Related(store', {})
    BY <1>2, <1>3, <1>5 DEF Related
  <1>. QED  BY <1>5, <1>6, EditStep DEF SaveProfile, LibraryInv, LibraryTypes

LEMMA SaveFavoriteStep ==
  ASSUME LibraryInv, SaveFavorite
  PROVE  LibraryInv'
  <1>1. PICK b \in Bookmark, p \in DOMAIN store.profiles, place \in Place :
          LET new == [profile |-> p, place |-> place]
              same == {x \in DOMAIN store.bookmarks : store.bookmarks[x] = new}
          IN  \E id \in IF same = {} THEN {b} ELSE same :
                store' = [store EXCEPT !.bookmarks = With(store.bookmarks, id, new)]
    BY DEF SaveFavorite
  <1> DEFINE row1 == [profile |-> p, place |-> place]
  <1>2. PICK id \in {b} \cup DOMAIN store.bookmarks :
          store' = [store EXCEPT !.bookmarks = With(store.bookmarks, id, row1)]
    BY <1>1
  <1> DEFINE new == With(store.bookmarks, id, row1)
  <1>3. /\ store \in Library /\ Related(store, {}) /\ store.bookmarks \in Bookmarks
        /\ store.profiles \in Profiles
    BY LibraryIs DEF LibraryInv, LibraryTypes, ExportInv
  <1>4. p \in Profile /\ id \in Bookmark
    BY <1>3, SomeIs DEF Profiles, Bookmarks
  <1>5. row1 \in BookmarkRow /\ row1.profile = p
    BY <1>4 DEF BookmarkRow
  <1> HIDE DEF row1
  <1>6. /\ new \in Bookmarks /\ DOMAIN new = DOMAIN store.bookmarks \cup {id} /\ new[id] = row1
        /\ \A x \in DOMAIN store.bookmarks : x # id => new[x] = store.bookmarks[x]
    BY <1>3, <1>4, <1>5, PutsBookmark DEF Puts
  <1>7. store' = [store EXCEPT !.bookmarks = new]
    BY <1>2
  <1> HIDE DEF new
  <1>8. store' \in Library /\ store'.bookmarks = new /\ store'.profiles = store.profiles
    BY <1>3, <1>6, <1>7, FieldIsSet
  <1>9. Related(store', {})
    BY <1>3, <1>5, <1>6, <1>8 DEF Related
  <1>. QED  BY <1>8, <1>9, EditStep DEF SaveFavorite, LibraryInv, LibraryTypes

LEMMA DeleteFavoriteStep ==
  ASSUME LibraryInv, DeleteFavorite
  PROVE  LibraryInv'
  <1>1. PICK b \in DOMAIN store.bookmarks :
          store' = [store EXCEPT !.bookmarks = Without(store.bookmarks, {b})]
    BY DEF DeleteFavorite
  <1> DEFINE new == Without(store.bookmarks, {b})
  <1>2. store \in Library /\ Related(store, {}) /\ store.bookmarks \in Bookmarks
    BY LibraryIs DEF LibraryInv, LibraryTypes, ExportInv
  <1>3. /\ new \in Bookmarks /\ DOMAIN new = DOMAIN store.bookmarks \ {b}
        /\ \A x \in DOMAIN store.bookmarks \ {b} : new[x] = store.bookmarks[x]
    BY ZenonT(60), <1>2, DropsRows DEF Drops
  <1>4. store' = [store EXCEPT !.bookmarks = new]
    BY <1>1
  <1> HIDE DEF new
  <1>5. store' \in Library /\ store'.bookmarks = new /\ store'.profiles = store.profiles
    BY <1>2, <1>3, <1>4, FieldIsSet
  <1>6. Related(store', {})
    BY <1>2, <1>3, <1>5 DEF Related
  <1>. QED  BY <1>5, <1>6, EditStep DEF DeleteFavorite, LibraryInv, LibraryTypes

LEMMA ActionStep ==
  ASSUME LibraryInv, SaveAction \/ DeleteAction
  PROVE  LibraryInv'
  <1>1. store \in Library /\ Related(store, {}) /\ store.actions \in Actions
    BY LibraryIs DEF LibraryInv, LibraryTypes, ExportInv
  <1>2. PICK new \in Actions : store' = [store EXCEPT !.actions = new]
    <2>1. CASE SaveAction
      <3>1. PICK a \in Action, v \in Version :
              store' = [store EXCEPT !.actions = With(store.actions, a, v)]
        BY <2>1 DEF SaveAction
      <3>. QED  BY <1>1, <3>1, PutsAction
    <2>2. CASE DeleteAction
      <3>1. PICK a \in DOMAIN store.actions :
              store' = [store EXCEPT !.actions = Without(store.actions, {a})]
        BY <2>2 DEF DeleteAction
      <3>. QED  BY <1>1, <3>1, DropsRows
    <2>. QED  BY <2>1, <2>2
  <1>3. /\ store' \in Library /\ store'.bookmarks = store.bookmarks
        /\ store'.profiles = store.profiles
    BY <1>1, <1>2, FieldIsSet
  <1>4. Related(store', {})
    BY <1>1, <1>3 DEF Related
  <1>. QED  BY <1>3, <1>4, EditStep DEF SaveAction, DeleteAction, LibraryInv, LibraryTypes

-----------------------------------------------------------------------------
(* What comes between two steps of an export or an import. *)

LEMMA RacesIs ==
  ASSUME LibraryTypes, NEW p \in Profile, Races(p)
  PROVE  /\ call' \in Command /\ call'.at = call.at /\ call'.doc = call.doc
         /\ call'.todo = call.todo /\ call'.start = call.start
         /\ call.at # "idle" => call'.raced = call.raced \cup {p}
         /\ call.at = "idle" => call' = call
  BY DEF LibraryTypes, Races, Idle, Command

(* Only what belongs to one profile has changed.                           *)
LEMMA RaceStep ==
  ASSUME LibraryInv, NEW p \in Profile, Races(p), store' \in Library, UNCHANGED file,
         deleting' \in Profile \cup {None}, deleting' \in {None, deleting, p}, Related(store', {}),
         DOMAIN store'.profiles \subseteq DOMAIN store.profiles,
         \A q \in Profile : q # p =>
           /\ q \in DOMAIN store'.profiles <=> q \in DOMAIN store.profiles
           /\ q \in DOMAIN store.profiles => store'.profiles[q] = store.profiles[q]
           /\ q \in DOMAIN store'.secrets <=> q \in DOMAIN store.secrets
           /\ q \in DOMAIN store.secrets => store'.secrets[q] = store.secrets[q],
         store'.actions = store.actions,
         DOMAIN store'.bookmarks \subseteq DOMAIN store.bookmarks,
         \A b \in DOMAIN store.bookmarks : store.bookmarks[b].profile # p =>
           b \in DOMAIN store'.bookmarks /\ store'.bookmarks[b] = store.bookmarks[b]
  PROVE  LibraryInv'
  <1>1. LibraryTypes /\ ExportInv /\ ImportInv
    BY DEF LibraryInv
  <1>2. /\ call' \in Command /\ call'.at = call.at /\ call'.doc = call.doc
        /\ call'.todo = call.todo /\ call'.start = call.start
        /\ call.at # "idle" => call'.raced = call.raced \cup {p}
    BY <1>1, RacesIs
  <1>3. LibraryTypes'
    BY <1>1, <1>2 DEF LibraryTypes
  <1>4. ExportInv'
    BY <1>1, <1>2 DEF ExportInv
  <1>5. ASSUME Importing
        PROVE  /\ ToDo' /\ (deleting' # None => deleting' \in call'.raced)
               /\ ProfilesLaid' /\ SecretsLaid' /\ ActionsLaid' /\ BookmarksLaid'
    <2>1. /\ call'.raced = call.raced \cup {p}
          /\ ToDo /\ ProfilesLaid /\ SecretsLaid /\ ActionsLaid /\ BookmarksLaid
      BY <1>1, <1>2, <1>5 DEF ImportInv, Importing
    <2>2. /\ WrittenProfiles' = WrittenProfiles /\ WrittenBookmarks' = WrittenBookmarks
          /\ WrittenActions' = WrittenActions /\ WrittenSecrets' = WrittenSecrets
      BY <1>2 DEF WrittenProfiles, WrittenBookmarks, WrittenActions, WrittenSecrets, Owners
    <2>3. ToDo'
      BY <1>2, <2>1 DEF ToDo
    <2>4. deleting' # None => deleting' \in call'.raced
      BY <1>1, <1>5, <2>1 DEF ImportInv
    <2>5. ProfilesLaid'
      BY <1>2, <2>1, <2>2 DEF ProfilesLaid, IsLaid
    <2>6. SecretsLaid'
      BY <1>2, <2>1, <2>2 DEF SecretsLaid, IsLaid
    <2>7. ActionsLaid'
      BY <1>2, <2>1, <2>2 DEF ActionsLaid, IsLaid
    <2>8. BookmarksLaid'
      <3>1. DOMAIN store'.bookmarks \subseteq WrittenBookmarks \cup DOMAIN call.start.bookmarks
        BY <2>1 DEF BookmarksLaid
      <3>2. ASSUME NEW b \in WrittenBookmarks, call.doc.bookmarks[b].profile \notin call'.raced
            PROVE  b \in DOMAIN store'.bookmarks /\ store'.bookmarks[b] = call.doc.bookmarks[b]
        BY <2>1, <3>2 DEF BookmarksLaid
      <3>3. ASSUME NEW b \in DOMAIN call.start.bookmarks, b \notin WrittenBookmarks,
                   call.start.bookmarks[b].profile \notin call'.raced
            PROVE  b \in DOMAIN store'.bookmarks /\ store'.bookmarks[b] = call.start.bookmarks[b]
        BY <2>1, <3>3 DEF BookmarksLaid
      <3>. QED  BY <1>2, <2>2, <3>1, <3>2, <3>3 DEF BookmarksLaid
    <2>. QED  BY <2>3, <2>4, <2>5, <2>6, <2>7, <2>8
  <1>6. ImportInv'
    BY <1>2, <1>5 DEF ImportInv, Importing
  <1>. QED  BY <1>3, <1>4, <1>6 DEF LibraryInv

LEMMA RememberSecretStep ==
  ASSUME LibraryInv, RememberSecret
  PROVE  LibraryInv'
  <1>1. PICK p \in Profile, v \in Version :
          store' = [store EXCEPT !.secrets = With(store.secrets, p, v)] /\ Races(p)
    BY DEF RememberSecret
  <1> DEFINE new == With(store.secrets, p, v)
  <1>2. /\ store \in Library /\ Related(store, {}) /\ store.secrets \in Secrets
        /\ store.profiles \in Profiles /\ UNCHANGED <<file, deleting>>
    BY LibraryIs DEF LibraryInv, LibraryTypes, ExportInv, RememberSecret
  <1>4. /\ new \in Secrets /\ DOMAIN new = DOMAIN store.secrets \cup {p}
        /\ \A x \in DOMAIN store.secrets : x # p => new[x] = store.secrets[x]
    BY <1>2, PutsSecret DEF Puts
  <1>5. store' = [store EXCEPT !.secrets = new]
    BY <1>1
  <1> HIDE DEF new
  <1>6. /\ store' \in Library /\ store'.bookmarks = store.bookmarks
        /\ store'.profiles = store.profiles /\ store'.actions = store.actions
        /\ store'.secrets = new
    BY <1>2, <1>4, <1>5, FieldIsSet
  <1>7. Related(store', {})
    BY <1>2, <1>6 DEF Related
  <1>8. \A q \in Profile : q # p =>
          /\ q \in DOMAIN store'.profiles <=> q \in DOMAIN store.profiles
          /\ q \in DOMAIN store.profiles => store'.profiles[q] = store.profiles[q]
          /\ q \in DOMAIN store'.secrets <=> q \in DOMAIN store.secrets
          /\ q \in DOMAIN store.secrets => store'.secrets[q] = store.secrets[q]
    BY <1>4, <1>6
  <1>9. /\ DOMAIN store'.profiles \subseteq DOMAIN store.profiles
        /\ DOMAIN store'.bookmarks \subseteq DOMAIN store.bookmarks
        /\ \A b \in DOMAIN store.bookmarks : store.bookmarks[b].profile # p =>
             b \in DOMAIN store'.bookmarks /\ store'.bookmarks[b] = store.bookmarks[b]
    BY <1>6
  <1>10. /\ deleting' \in Profile \cup {None} /\ deleting' \in {None, deleting, p}
         /\ UNCHANGED file /\ Races(p)
    BY <1>1, <1>2 DEF LibraryInv, LibraryTypes
  <1>. QED  BY <1>6, <1>7, <1>8, <1>9, <1>10, RaceStep

LEMMA DeleteProfileRowStep ==
  ASSUME LibraryInv, DeleteProfileRow
  PROVE  LibraryInv'
  <1>1. PICK p \in DOMAIN store.profiles :
          /\ store' = [store EXCEPT
               !.profiles = Without(store.profiles, {p}),
               !.bookmarks = Without(store.bookmarks,
                                     {b \in DOMAIN store.bookmarks : store.bookmarks[b].profile = p})]
          /\ deleting' = p /\ Races(p)
    BY DEF DeleteProfileRow
  <1> DEFINE gone == {b \in DOMAIN store.bookmarks : store.bookmarks[b].profile = p}
             rows == Without(store.profiles, {p})
             marks == Without(store.bookmarks, gone)
  <1>2. /\ store \in Library /\ Related(store, {}) /\ store.bookmarks \in Bookmarks
        /\ store.profiles \in Profiles /\ UNCHANGED file
    BY LibraryIs DEF LibraryInv, LibraryTypes, ExportInv, DeleteProfileRow
  <1>3. p \in Profile
    BY <1>2, SomeIs DEF Profiles
  <1>4. /\ rows \in Profiles /\ DOMAIN rows = DOMAIN store.profiles \ {p}
        /\ \A x \in DOMAIN store.profiles \ {p} : rows[x] = store.profiles[x]
    <2>1. rows \in Profiles /\ Drops(rows, store.profiles, {p})
      BY <1>2, DropsRows
    <2> HIDE DEF rows
    <2>. QED  BY <2>1 DEF Drops
  <1>5. /\ marks \in Bookmarks /\ DOMAIN marks = DOMAIN store.bookmarks \ gone
        /\ \A x \in DOMAIN store.bookmarks \ gone : marks[x] = store.bookmarks[x]
    <2> HIDE DEF gone
    <2>1. marks \in Bookmarks /\ Drops(marks, store.bookmarks, gone)
      BY <1>2, DropsRows
    <2> HIDE DEF marks
    <2>. QED  BY <2>1 DEF Drops
  <1>6. store' = [[store EXCEPT !.profiles = rows] EXCEPT !.bookmarks = marks]
    BY <1>1, <1>2 DEF Library
  <1>7. \A b \in DOMAIN store.bookmarks : b \in gone <=> store.bookmarks[b].profile = p
    OBVIOUS
  <1> HIDE DEF gone, rows, marks
  <1> DEFINE half == [store EXCEPT !.profiles = rows]
  <1>8. /\ half \in Library /\ half.bookmarks = store.bookmarks /\ half.profiles = rows
        /\ half.actions = store.actions /\ half.secrets = store.secrets
    BY <1>2, <1>4, FieldIsSet
  <1>9. store' = [half EXCEPT !.bookmarks = marks]
    BY <1>6
  <1> HIDE DEF half
  <1>10. /\ store' \in Library /\ store'.bookmarks = marks /\ store'.profiles = rows
         /\ store'.actions = store.actions /\ store'.secrets = store.secrets
    BY <1>5, <1>8, <1>9, FieldIsSet
  <1>11. Related(store', {})
    BY <1>2, <1>4, <1>5, <1>7, <1>10 DEF Related
  <1>12. \A q \in Profile : q # p =>
          /\ q \in DOMAIN store'.profiles <=> q \in DOMAIN store.profiles
          /\ q \in DOMAIN store.profiles => store'.profiles[q] = store.profiles[q]
          /\ q \in DOMAIN store'.secrets <=> q \in DOMAIN store.secrets
          /\ q \in DOMAIN store.secrets => store'.secrets[q] = store.secrets[q]
    BY <1>4, <1>10
  <1>13. /\ DOMAIN store'.profiles \subseteq DOMAIN store.profiles
         /\ DOMAIN store'.bookmarks \subseteq DOMAIN store.bookmarks
         /\ \A b \in DOMAIN store.bookmarks : store.bookmarks[b].profile # p =>
              b \in DOMAIN store'.bookmarks /\ store'.bookmarks[b] = store.bookmarks[b]
    BY <1>4, <1>5, <1>7, <1>10
  <1>14. /\ deleting' \in Profile \cup {None} /\ deleting' \in {None, deleting, p}
         /\ UNCHANGED file /\ Races(p)
    BY <1>1, <1>2, <1>3
  <1>. QED  BY <1>3, <1>10, <1>11, <1>12, <1>13, <1>14, RaceStep

LEMMA DeleteProfileSecretStep ==
  ASSUME LibraryInv, DeleteProfileSecret
  PROVE  LibraryInv'
  <1> DEFINE p == deleting
             new == Without(store.secrets, {p})
  <1>1. /\ store \in Library /\ Related(store, {}) /\ store.secrets \in Secrets
        /\ p \in Profile /\ Races(p) /\ UNCHANGED file /\ deleting' = None
    BY LibraryIs DEF LibraryInv, LibraryTypes, ExportInv, DeleteProfileSecret
  <1>2. /\ new \in Secrets /\ DOMAIN new = DOMAIN store.secrets \ {p}
        /\ \A x \in DOMAIN store.secrets \ {p} : new[x] = store.secrets[x]
    BY ZenonT(60), <1>1, DropsRows DEF Drops
  <1>3. store' = store \/ store' = [store EXCEPT !.secrets = new]
    BY DEF DeleteProfileSecret
  <1> HIDE DEF new
  <1>4. CASE store' = store
    <2>1. deleting' \in Profile \cup {None} /\ deleting' \in {None, deleting, p}
      BY <1>1
    <2>2. Related(store', {}) /\ store' \in Library
      BY <1>1, <1>4
    <2> HIDE DEF p
    <2>. QED  BY <1>1, <1>4, <2>1, <2>2, RaceStep
  <1>5. CASE store' = [store EXCEPT !.secrets = new]
    <2>1. /\ store' \in Library /\ store'.bookmarks = store.bookmarks
          /\ store'.profiles = store.profiles /\ store'.actions = store.actions
          /\ store'.secrets = new
      BY <1>1, <1>2, <1>5, FieldIsSet
    <2>2. Related(store', {})
      BY <1>1, <2>1 DEF Related
    <2>3. \A q \in Profile : q # p =>
            /\ q \in DOMAIN store'.profiles <=> q \in DOMAIN store.profiles
            /\ q \in DOMAIN store.profiles => store'.profiles[q] = store.profiles[q]
            /\ q \in DOMAIN store'.secrets <=> q \in DOMAIN store.secrets
            /\ q \in DOMAIN store.secrets => store'.secrets[q] = store.secrets[q]
      BY <1>2, <2>1
    <2>4. /\ DOMAIN store'.profiles \subseteq DOMAIN store.profiles
          /\ DOMAIN store'.bookmarks \subseteq DOMAIN store.bookmarks
          /\ \A b \in DOMAIN store.bookmarks : store.bookmarks[b].profile # p =>
               b \in DOMAIN store'.bookmarks /\ store'.bookmarks[b] = store.bookmarks[b]
      BY <2>1
    <2>5. deleting' \in Profile \cup {None} /\ deleting' \in {None, deleting, p}
      BY <1>1
    <2> HIDE DEF p
    <2>. QED  BY <1>1, <2>1, <2>2, <2>3, <2>4, <2>5, RaceStep
  <1>. QED  BY <1>3, <1>4, <1>5

-----------------------------------------------------------------------------
(* Export. *)

(* A step of an export changes at most the command and the file.           *)
LEMMA ExportStep ==
  ASSUME LibraryInv, UNCHANGED <<store, deleting>>, call' \in Command,
         file' \in [whole : BOOLEAN, own : BOOLEAN, doc : Library],
         ~Importing', ExportInv'
  PROVE  LibraryInv'
  BY DEF LibraryInv, LibraryTypes, ImportInv

LEMMA CommandIs ==
  ASSUME NEW c \in Command
  PROVE  /\ \A at \in Points : [c EXCEPT !.at = at] \in Command
         /\ \A doc \in Library : [c EXCEPT !.doc = doc] \in Command
         /\ \A todo \in SUBSET (Profile \cup Bookmark \cup Action) :
              [c EXCEPT !.todo = todo] \in Command
         /\ c.at \in Points /\ c.doc \in Library /\ c.start \in Library
         /\ c = [at |-> c.at, doc |-> c.doc, todo |-> c.todo, start |-> c.start, raced |-> c.raced]
  BY DEF Command

LEMMA StartExportStep ==
  ASSUME LibraryInv, StartExport
  PROVE  LibraryInv'
  <1>1. call' = [NoCall EXCEPT !.at = "list profiles"] /\ UNCHANGED <<store, file, deleting>>
    BY DEF StartExport, Goes
  <1>2. call' \in Command /\ call'.at = "list profiles" /\ DOMAIN call'.doc.secrets = {}
    <2>1. "list profiles" \in Points
      BY DEF Points
    <2>2. call'.at = "list profiles" /\ call'.doc = NoCall.doc
      BY <1>1 DEF NoCall
    <2>. QED  BY <1>1, <2>1, <2>2, NothingIs, CommandIs
  <1>3. ~Importing' /\ ExportInv'
    BY <1>1, <1>2 DEF LibraryInv, ExportInv, Importing
  <1>. QED  BY <1>1, <1>2, <1>3, ExportStep DEF LibraryInv, LibraryTypes

LEMMA ListsProfilesStep ==
  ASSUME LibraryInv, ListsProfiles
  PROVE  LibraryInv'
  <1>1. /\ call.at = "list profiles" /\ UNCHANGED <<store, file, deleting>>
        /\ call' = [call EXCEPT !.at = "list bookmarks", !.doc.profiles = store.profiles]
    BY DEF ListsProfiles, Goes
  <1>2. /\ call \in Command /\ store \in Library /\ call.doc \in Library
        /\ store.profiles \in Profiles /\ DOMAIN call.doc.secrets = {}
    BY <1>1, LibraryIs, CommandIs DEF LibraryInv, LibraryTypes, ExportInv
  <1> DEFINE new == [call.doc EXCEPT !.profiles = store.profiles]
  <1>3. new \in Library /\ new.profiles = store.profiles /\ new.secrets = call.doc.secrets
    BY <1>2, FieldIsSet
  <1>4. call' = [[call EXCEPT !.at = "list bookmarks"] EXCEPT !.doc = new]
    BY <1>1, <1>2 DEF Command
  <1> HIDE DEF new
  <1>5. call' \in Command
    BY <1>2, <1>3, <1>4, CommandIs DEF Points
  <1>6. call'.at = "list bookmarks" /\ call'.doc = new
    BY <1>2, <1>4 DEF Command
  <1>7. ~Importing' /\ ExportInv'
    BY <1>1, <1>2, <1>3, <1>6 DEF LibraryInv, ExportInv, Importing
  <1>. QED  BY <1>1, <1>5, <1>7, ExportStep DEF LibraryInv, LibraryTypes

LEMMA ListsBookmarksStep ==
  ASSUME LibraryInv, ListsBookmarks
  PROVE  LibraryInv'
  <1>1. /\ call.at = "list bookmarks" /\ UNCHANGED <<store, file, deleting>>
        /\ call' = [call EXCEPT !.at = "list actions", !.doc.bookmarks = store.bookmarks]
    BY DEF ListsBookmarks, Goes
  <1>2. /\ call \in Command /\ store \in Library /\ call.doc \in Library
        /\ store.bookmarks \in Bookmarks /\ DOMAIN call.doc.secrets = {}
        /\ DOMAIN store.profiles \subseteq DOMAIN call.doc.profiles /\ Related(store, {})
    BY <1>1, LibraryIs, CommandIs DEF LibraryInv, LibraryTypes, ExportInv
  <1> DEFINE new == [call.doc EXCEPT !.bookmarks = store.bookmarks]
  <1>3. /\ new \in Library /\ new.profiles = call.doc.profiles
        /\ new.bookmarks = store.bookmarks /\ new.secrets = call.doc.secrets
    BY <1>2, FieldIsSet
  <1>4. call' = [[call EXCEPT !.at = "list actions"] EXCEPT !.doc = new]
    BY <1>1, <1>2 DEF Command
  <1> HIDE DEF new
  <1>5. call' \in Command
    BY <1>2, <1>3, <1>4, CommandIs DEF Points
  <1>6. call'.at = "list actions" /\ call'.doc = new
    BY <1>2, <1>4 DEF Command
  <1>7. Related(new, {})
    BY <1>2, <1>3 DEF Related
  <1>8. ~Importing' /\ ExportInv'
    BY <1>1, <1>2, <1>3, <1>6, <1>7 DEF LibraryInv, ExportInv, Importing
  <1>. QED  BY <1>1, <1>5, <1>8, ExportStep DEF LibraryInv, LibraryTypes

LEMMA ListsActionsStep ==
  ASSUME LibraryInv, ListsActions
  PROVE  LibraryInv'
  <1>1. PICK next \in {"collect", "open"} :
          call' = [call EXCEPT !.at = next, !.doc.actions = store.actions]
    BY DEF ListsActions, Goes
  <1>2. call.at = "list actions" /\ UNCHANGED <<store, file, deleting>>
    BY DEF ListsActions, Goes
  <1>3. /\ call \in Command /\ store \in Library /\ call.doc \in Library
        /\ store.actions \in Actions /\ DOMAIN call.doc.secrets = {} /\ Related(call.doc, {})
    BY <1>2, LibraryIs, CommandIs DEF LibraryInv, LibraryTypes, ExportInv
  <1> DEFINE new == [call.doc EXCEPT !.actions = store.actions]
  <1>4. /\ new \in Library /\ new.profiles = call.doc.profiles
        /\ new.bookmarks = call.doc.bookmarks /\ new.secrets = call.doc.secrets
    BY <1>3, FieldIsSet
  <1>5. call' = [[call EXCEPT !.at = next] EXCEPT !.doc = new]
    BY <1>1, <1>3 DEF Command
  <1> HIDE DEF new
  <1>6. call' \in Command
    BY <1>3, <1>4, <1>5, CommandIs DEF Points
  <1>7. call'.at = next /\ call'.doc = new
    BY <1>3, <1>5 DEF Command
  <1>8. Related(new, {}) /\ Owned(new)
    BY <1>3, <1>4 DEF Related, Owned
  <1>9. ~Importing' /\ ExportInv'
    BY <1>2, <1>3, <1>4, <1>7, <1>8 DEF LibraryInv, ExportInv, Importing
  <1>. QED  BY <1>2, <1>6, <1>9, ExportStep DEF LibraryInv, LibraryTypes

LEMMA CollectsSecretsStep ==
  ASSUME LibraryInv, CollectsSecrets
  PROVE  LibraryInv'
  <1> DEFINE kept == {p \in DOMAIN call.doc.profiles \cap DOMAIN store.secrets :
                        call.doc.profiles[p].remember}
             secrets == Restrict(store.secrets, kept)
             new == [call.doc EXCEPT !.secrets = secrets]
  <1>1. /\ call.at = "collect" /\ UNCHANGED <<store, file, deleting>>
        /\ call' = [call EXCEPT !.at = "open", !.doc.secrets = secrets]
    BY DEF CollectsSecrets, Goes
  <1>2. /\ call \in Command /\ store \in Library /\ call.doc \in Library
        /\ store.secrets \in Secrets /\ Related(call.doc, {})
    BY <1>1, LibraryIs, CommandIs DEF LibraryInv, LibraryTypes, ExportInv
  <1>3. secrets \in Secrets /\ DOMAIN secrets = kept
    <2>1. store.secrets \in Some(Profile, Version) /\ kept \subseteq DOMAIN store.secrets
      BY <1>2 DEF Secrets
    <2> HIDE DEF kept
    <2>. QED  BY <2>1, RestrictIs DEF Secrets
  <1>4. kept \subseteq {p \in DOMAIN call.doc.profiles : call.doc.profiles[p].remember}
    OBVIOUS
  <1> HIDE DEF secrets, kept
  <1>5. /\ new \in Library /\ new.profiles = call.doc.profiles
        /\ new.bookmarks = call.doc.bookmarks /\ new.secrets = secrets
    BY <1>2, <1>3, FieldIsSet
  <1>6. call' = [[call EXCEPT !.at = "open"] EXCEPT !.doc = new]
    BY <1>1, <1>2 DEF Command
  <1> HIDE DEF new
  <1>7. call' \in Command
    BY <1>2, <1>5, <1>6, CommandIs DEF Points
  <1>8. call'.at = "open" /\ call'.doc = new
    BY <1>2, <1>6 DEF Command
  <1>9. Related(new, {}) /\ Owned(new)
    BY <1>2, <1>3, <1>4, <1>5 DEF Related, Owned
  <1>10. ~Importing' /\ ExportInv'
    BY <1>1, <1>8, <1>9 DEF LibraryInv, ExportInv, Importing
  <1>. QED  BY <1>1, <1>7, <1>10, ExportStep DEF LibraryInv, LibraryTypes

LEMMA OpensFileStep ==
  ASSUME LibraryInv, OpensFile
  PROVE  LibraryInv'
  <1>1. /\ call.at = "open" /\ UNCHANGED <<store, deleting>>
        /\ call' = [call EXCEPT !.at = "write"]
        /\ file' = [whole |-> FALSE, own |-> TRUE, doc |-> Nothing]
    BY DEF OpensFile
  <1>2. call \in Command /\ ExportInv
    BY DEF LibraryInv, LibraryTypes
  <1>3. call' \in Command /\ call'.at = "write" /\ call'.doc = call.doc
    <2>1. "write" \in Points
      BY DEF Points
    <2>2. call' \in Command
      BY <1>1, <1>2, <2>1, CommandIs
    <2>. QED  BY <1>1, <1>2, <2>2 DEF Command
  <1>4. file' \in [whole : BOOLEAN, own : BOOLEAN, doc : Library] /\ ~file'.whole
    BY <1>1, NothingIs
  <1>5. ~Importing' /\ ExportInv'
    BY <1>1, <1>2, <1>3, <1>4 DEF ExportInv, Importing
  <1>. QED  BY <1>1, <1>3, <1>4, <1>5, ExportStep

LEMMA WritesFileStep ==
  ASSUME LibraryInv, WritesFile
  PROVE  LibraryInv'
  <1>1. /\ call.at = "write" /\ UNCHANGED <<store, deleting>> /\ call' = NoCall
        /\ file' = [whole |-> TRUE, own |-> TRUE, doc |-> call.doc]
    BY DEF WritesFile
  <1>2. call.doc \in Library /\ Related(store, {}) /\ Related(call.doc, {}) /\ Owned(call.doc)
    BY <1>1, CommandIs DEF LibraryInv, LibraryTypes, ExportInv
  <1>3. call' \in Command /\ call'.at = "idle"
    BY <1>1, NothingIs
  <1>4. file' \in [whole : BOOLEAN, own : BOOLEAN, doc : Library] /\ file'.doc = call.doc
    BY <1>1, <1>2
  <1>5. ~Importing' /\ ExportInv'
    BY <1>1, <1>2, <1>3, <1>4 DEF ExportInv, Importing
  <1>. QED  BY <1>1, <1>3, <1>4, <1>5, ExportStep

(* A command that returns, in whatever way, and a restart.                 *)
LEMMA CallEnds ==
  ASSUME LibraryInv, call' = NoCall, UNCHANGED <<store, file>>, deleting' \in {deleting, None}
  PROVE  LibraryInv'
  <1>1. call' \in Command /\ call'.at = "idle"
    BY NothingIs
  <1>2. ~Importing' /\ ExportInv'
    BY <1>1 DEF LibraryInv, ExportInv, Importing
  <1>. QED  BY <1>1, <1>2 DEF LibraryInv, LibraryTypes, ImportInv
-----------------------------------------------------------------------------
(* Import. *)

LEMMA ImportStep ==
  ASSUME LibraryInv, UNCHANGED <<file, deleting>>, call' \in Command, store' \in Library,
         Importing', Related(store', {}), deleting' # None => deleting' \in call'.raced,
         ToDo', ProfilesLaid', SecretsLaid', ActionsLaid', BookmarksLaid'
  PROVE  LibraryInv'
  <1>1. LibraryTypes'
    BY DEF LibraryInv, LibraryTypes
  <1>2. ExportInv'
    BY DEF LibraryInv, ExportInv, Importing
  <1>. QED  BY <1>1, <1>2 DEF LibraryInv, ImportInv

LEMMA StartImportStep ==
  ASSUME LibraryInv, StartImport
  PROVE  LibraryInv'
  <1> DEFINE raced == IF deleting = None THEN {} ELSE {deleting}
  <1>1. /\ UNCHANGED <<store, file, deleting>>
        /\ call' = [at |-> "profiles", doc |-> file.doc, todo |-> DOMAIN file.doc.profiles,
                    start |-> store, raced |-> raced]
    BY DEF StartImport, Goes
  <1>2. /\ store \in Library /\ file.doc \in Library /\ Related(store, {})
        /\ deleting \in Profile \cup {None}
    BY DEF LibraryInv, LibraryTypes, ExportInv
  <1>3. DOMAIN file.doc.profiles \subseteq Profile /\ raced \subseteq Profile \cup {None}
    BY <1>2, LibraryIs, SomeIs DEF Profiles
  <1>4. deleting # None => deleting \in raced
    OBVIOUS
  <1> HIDE DEF raced
  <1>5. /\ call'.at = "profiles" /\ call'.doc = file.doc /\ call'.start = store'
        /\ call'.todo = DOMAIN call'.doc.profiles /\ call'.raced = raced
    BY <1>1
  <1>6. call' \in Command
    <2>1. "profiles" \in Points /\ DOMAIN file.doc.profiles \subseteq Profile \cup Bookmark \cup Action
      BY <1>3 DEF Points
    <2>. QED  BY <1>1, <1>2, <1>3, <2>1 DEF Command
  <1>7. /\ WrittenProfiles' = {} /\ WrittenBookmarks' = {}
        /\ WrittenActions' = {} /\ WrittenSecrets' = {}
    BY <1>5 DEF WrittenProfiles, WrittenBookmarks, WrittenActions, WrittenSecrets
  <1>8. ToDo' /\ Importing'
    BY <1>5 DEF ToDo, Importing
  <1>9. ProfilesLaid' /\ SecretsLaid' /\ ActionsLaid'
    BY <1>5, <1>7 DEF ProfilesLaid, SecretsLaid, ActionsLaid, IsLaid
  <1>10. BookmarksLaid'
    BY <1>5, <1>7 DEF BookmarksLaid
  <1>11. deleting' # None => deleting' \in call'.raced
    BY <1>1, <1>4, <1>5
  <1>. QED  BY <1>1, <1>2, <1>6, <1>8, <1>9, <1>10, <1>11, ImportStep

LEMMA TakesIs ==
  ASSUME LibraryTypes, NEW x, NEW new, Takes(x, new)
  PROVE  /\ call' \in Command /\ call'.at = call.at /\ call'.doc = call.doc
         /\ call'.start = call.start /\ call'.raced = call.raced
         /\ call'.todo = call.todo \ {x} /\ store' = new /\ UNCHANGED <<file, deleting>>
  <1>1. call' = [call EXCEPT !.todo = call.todo \ {x}] /\ call \in Command
    BY DEF Takes, LibraryTypes
  <1>2. call.todo \ {x} \in SUBSET (Profile \cup Bookmark \cup Action)
    BY <1>1 DEF Command
  <1>3. call' \in Command
    BY <1>1, <1>2, CommandIs
  <1>. QED  BY <1>1, <1>3 DEF Takes, Command

(* What an import knows between its steps.                                 *)
LEMMA ImportIs ==
  ASSUME LibraryInv, Importing
  PROVE  /\ store \in Library /\ call.doc \in Library /\ call.start \in Library
         /\ store.profiles \in Profiles /\ store.bookmarks \in Bookmarks
         /\ store.actions \in Actions /\ store.secrets \in Secrets
         /\ call.doc.profiles \in Profiles /\ call.doc.bookmarks \in Bookmarks
         /\ call.doc.actions \in Actions /\ call.doc.secrets \in Secrets
         /\ call.start.profiles \in Profiles
         /\ LibraryTypes /\ Related(store, {}) /\ ToDo
         /\ deleting # None => deleting \in call.raced
         /\ ProfilesLaid /\ SecretsLaid /\ ActionsLaid /\ BookmarksLaid
  <1>1. store \in Library /\ call.doc \in Library /\ call.start \in Library
    BY CommandIs DEF LibraryInv, LibraryTypes
  <1>2. /\ LibraryTypes /\ Related(store, {}) /\ ToDo
        /\ deleting # None => deleting \in call.raced
        /\ ProfilesLaid /\ SecretsLaid /\ ActionsLaid /\ BookmarksLaid
    BY DEF LibraryInv, ExportInv, ImportInv
  <1>. QED  BY <1>1, <1>2, LibraryIs

LEMMA ImportsProfileStep ==
  ASSUME LibraryInv, ImportsProfile
  PROVE  LibraryInv'
  <1>1. PICK p \in call.todo :
          Takes(p, [store EXCEPT !.profiles = With(store.profiles, p, call.doc.profiles[p])])
    BY DEF ImportsProfile
  <1>2. call.at = "profiles" /\ Importing
    BY DEF ImportsProfile, Importing
  <1>3. /\ store \in Library /\ store.profiles \in Profiles /\ call.doc.profiles \in Profiles
        /\ LibraryTypes /\ Related(store, {}) /\ ToDo
        /\ deleting # None => deleting \in call.raced
        /\ ProfilesLaid /\ SecretsLaid /\ ActionsLaid /\ BookmarksLaid
    BY <1>2, ImportIs
  <1>4. p \in DOMAIN call.doc.profiles /\ p \in Profile /\ call.doc.profiles[p] \in ProfileRow
    BY <1>2, <1>3, SomeIs DEF ToDo, Profiles
  <1> DEFINE new == With(store.profiles, p, call.doc.profiles[p])
  <1>5. new \in Profiles /\ Puts(new, store.profiles, p, call.doc.profiles[p])
    BY <1>3, <1>4, PutsProfile
  <1> HIDE DEF new
  <1> DEFINE all == [store EXCEPT !.profiles = new]
  <1>6. Takes(p, all)
    BY <1>1 DEF new
  <1>7. /\ all \in Library /\ all.profiles = new /\ all.bookmarks = store.bookmarks
        /\ all.actions = store.actions /\ all.secrets = store.secrets
    BY <1>3, <1>5, FieldIsSet
  <1> HIDE DEF all
  <1>8. /\ call' \in Command /\ call'.at = call.at /\ call'.doc = call.doc
        /\ call'.start = call.start /\ call'.raced = call.raced
        /\ call'.todo = call.todo \ {p} /\ store' = all /\ UNCHANGED <<file, deleting>>
    BY <1>3, <1>6, TakesIs
  <1>9. /\ WrittenProfiles' = WrittenProfiles \cup {p} /\ WrittenBookmarks' = WrittenBookmarks
        /\ WrittenActions' = WrittenActions /\ WrittenSecrets' = WrittenSecrets
    BY <1>2, <1>4, <1>8
       DEF WrittenProfiles, WrittenBookmarks, WrittenActions, WrittenSecrets
  <1>10. Importing' /\ ToDo'
    BY <1>2, <1>3, <1>8 DEF Importing, ToDo
  <1>11. Related(store', {})
    BY <1>3, <1>5, <1>7, <1>8 DEF Related, Puts
  <1>12. ProfilesLaid'
    BY <1>3, <1>5, <1>7, <1>8, <1>9 DEF ProfilesLaid, IsLaid, Puts
  <1>13. SecretsLaid' /\ ActionsLaid'
    BY <1>3, <1>7, <1>8, <1>9 DEF SecretsLaid, ActionsLaid, IsLaid
  <1>14. BookmarksLaid'
    BY <1>3, <1>7, <1>8, <1>9 DEF BookmarksLaid
  <1>. QED  BY <1>3, <1>7, <1>8, <1>10, <1>11, <1>12, <1>13, <1>14, ImportStep

LEMMA ImportsBookmarkStep ==
  ASSUME LibraryInv, ImportsBookmark
  PROVE  LibraryInv'
  <1>1. PICK b \in call.todo :
          IF call.doc.bookmarks[b].profile \in DOMAIN store.profiles
          THEN Takes(b, [store EXCEPT !.bookmarks =
                           With(store.bookmarks, b, call.doc.bookmarks[b])])
          ELSE Goes(NoCall)
    BY DEF ImportsBookmark
  <1>2. call.at = "bookmarks" /\ Importing
    BY DEF ImportsBookmark, Importing
  <1>3. /\ store \in Library /\ store.bookmarks \in Bookmarks /\ call.doc.bookmarks \in Bookmarks
        /\ LibraryTypes /\ Related(store, {}) /\ ToDo
        /\ deleting # None => deleting \in call.raced
        /\ ProfilesLaid /\ SecretsLaid /\ ActionsLaid /\ BookmarksLaid
    BY <1>2, ImportIs
  <1>4. CASE Goes(NoCall)
    BY <1>4, CallEnds DEF Goes
  <1>5. CASE ~Goes(NoCall)
    <2>1. b \in DOMAIN call.doc.bookmarks /\ b \in Bookmark /\ call.doc.bookmarks[b] \in BookmarkRow
      BY <1>2, <1>3, SomeIs DEF ToDo, Bookmarks
    <2> DEFINE new == With(store.bookmarks, b, call.doc.bookmarks[b])
    <2>2. new \in Bookmarks /\ Puts(new, store.bookmarks, b, call.doc.bookmarks[b])
      BY <1>3, <2>1, PutsBookmark
    <2> DEFINE all == [store EXCEPT !.bookmarks = new]
    <2>3. Takes(b, all) /\ call.doc.bookmarks[b].profile \in DOMAIN store.profiles
      BY <1>1, <1>5
    <2> HIDE DEF new
    <2>4. /\ all \in Library /\ all.profiles = store.profiles /\ all.bookmarks = new
          /\ all.actions = store.actions /\ all.secrets = store.secrets
      BY <1>3, <2>2, FieldIsSet
    <2> HIDE DEF all
    <2>5. /\ call' \in Command /\ call'.at = call.at /\ call'.doc = call.doc
          /\ call'.start = call.start /\ call'.raced = call.raced
          /\ call'.todo = call.todo \ {b} /\ store' = all /\ UNCHANGED <<file, deleting>>
      BY <1>3, <2>3, TakesIs
    <2>6. /\ WrittenProfiles' = WrittenProfiles /\ WrittenBookmarks' = WrittenBookmarks \cup {b}
          /\ WrittenActions' = WrittenActions /\ WrittenSecrets' = WrittenSecrets
      BY <1>2, <2>1, <2>5
         DEF WrittenProfiles, WrittenBookmarks, WrittenActions, WrittenSecrets
    <2>7. Importing' /\ ToDo'
      BY <1>2, <1>3, <2>5 DEF Importing, ToDo
    <2>8. Related(store', {})
      BY <1>3, <2>2, <2>3, <2>4, <2>5 DEF Related, Puts
    <2>9. ProfilesLaid' /\ SecretsLaid' /\ ActionsLaid'
      BY <1>3, <2>4, <2>5, <2>6 DEF ProfilesLaid, SecretsLaid, ActionsLaid, IsLaid
    <2>10. BookmarksLaid'
      <3>1. DOMAIN store'.bookmarks \subseteq WrittenBookmarks' \cup DOMAIN call'.start.bookmarks
        BY <1>3, <2>2, <2>4, <2>5, <2>6 DEF BookmarksLaid, Puts
      <3>2. ASSUME NEW c \in WrittenBookmarks', call'.doc.bookmarks[c].profile \notin call'.raced
            PROVE  c \in DOMAIN store'.bookmarks /\ store'.bookmarks[c] = call'.doc.bookmarks[c]
        BY <1>3, <2>2, <2>4, <2>5, <2>6, <3>2 DEF BookmarksLaid, Puts
      <3>3. ASSUME NEW c \in DOMAIN call'.start.bookmarks, c \notin WrittenBookmarks',
                   call'.start.bookmarks[c].profile \notin call'.raced
            PROVE  c \in DOMAIN store'.bookmarks /\ store'.bookmarks[c] = call'.start.bookmarks[c]
        BY <1>3, <2>2, <2>4, <2>5, <2>6, <3>3 DEF BookmarksLaid, Puts
      <3>. QED  BY <3>1, <3>2, <3>3 DEF BookmarksLaid
    <2>. QED  BY <1>3, <2>4, <2>5, <2>7, <2>8, <2>9, <2>10, ImportStep
  <1>. QED  BY <1>4, <1>5

LEMMA ImportsActionStep ==
  ASSUME LibraryInv, ImportsAction
  PROVE  LibraryInv'
  <1>1. PICK a \in call.todo :
          Takes(a, [store EXCEPT !.actions = With(store.actions, a, call.doc.actions[a])])
    BY DEF ImportsAction
  <1>2. call.at = "actions" /\ Importing
    BY DEF ImportsAction, Importing
  <1>3. /\ store \in Library /\ store.actions \in Actions /\ call.doc.actions \in Actions
        /\ LibraryTypes /\ Related(store, {}) /\ ToDo
        /\ deleting # None => deleting \in call.raced
        /\ ProfilesLaid /\ SecretsLaid /\ ActionsLaid /\ BookmarksLaid
    BY <1>2, ImportIs
  <1>4. a \in DOMAIN call.doc.actions /\ a \in Action /\ call.doc.actions[a] \in Version
    BY <1>2, <1>3, SomeIs DEF ToDo, Actions
  <1> DEFINE new == With(store.actions, a, call.doc.actions[a])
  <1>5. new \in Actions /\ Puts(new, store.actions, a, call.doc.actions[a])
    BY <1>3, <1>4, PutsAction
  <1> DEFINE all == [store EXCEPT !.actions = new]
  <1>6. Takes(a, all)
    BY <1>1
  <1> HIDE DEF new
  <1>7. /\ all \in Library /\ all.profiles = store.profiles /\ all.bookmarks = store.bookmarks
        /\ all.actions = new /\ all.secrets = store.secrets
    BY <1>3, <1>5, FieldIsSet
  <1> HIDE DEF all
  <1>8. /\ call' \in Command /\ call'.at = call.at /\ call'.doc = call.doc
        /\ call'.start = call.start /\ call'.raced = call.raced
        /\ call'.todo = call.todo \ {a} /\ store' = all /\ UNCHANGED <<file, deleting>>
    BY <1>3, <1>6, TakesIs
  <1>9. /\ WrittenProfiles' = WrittenProfiles /\ WrittenBookmarks' = WrittenBookmarks
        /\ WrittenActions' = WrittenActions \cup {a} /\ WrittenSecrets' = WrittenSecrets
    BY <1>2, <1>4, <1>8
       DEF WrittenProfiles, WrittenBookmarks, WrittenActions, WrittenSecrets
  <1>10. Importing' /\ ToDo'
    BY <1>2, <1>3, <1>8 DEF Importing, ToDo
  <1>11. Related(store', {})
    BY <1>3, <1>7, <1>8 DEF Related
  <1>12. ActionsLaid'
    BY <1>3, <1>5, <1>7, <1>8, <1>9 DEF ActionsLaid, IsLaid, Puts
  <1>13. SecretsLaid' /\ ProfilesLaid'
    BY <1>3, <1>7, <1>8, <1>9 DEF SecretsLaid, ProfilesLaid, IsLaid
  <1>14. BookmarksLaid'
    BY <1>3, <1>7, <1>8, <1>9 DEF BookmarksLaid
  <1>. QED  BY <1>3, <1>7, <1>8, <1>10, <1>11, <1>12, <1>13, <1>14, ImportStep

(* A secret is written if its profile is there; for a profile that nothing *)
(* else has touched that means that it has an owner.                       *)
LEMMA ImportsSecretStep ==
  ASSUME LibraryInv, ImportsSecret
  PROVE  LibraryInv'
  <1>1. PICK p \in call.todo :
          Takes(p, IF p \in DOMAIN call.doc.profiles \cup DOMAIN store.profiles
                   THEN [store EXCEPT !.secrets = With(store.secrets, p, call.doc.secrets[p])]
                   ELSE store)
    BY DEF ImportsSecret
  <1>2. call.at = "secrets" /\ Importing
    BY DEF ImportsSecret, Importing
  <1>3. /\ store \in Library /\ store.secrets \in Secrets /\ call.doc.secrets \in Secrets
        /\ LibraryTypes /\ Related(store, {}) /\ ToDo
        /\ deleting # None => deleting \in call.raced
        /\ ProfilesLaid /\ SecretsLaid /\ ActionsLaid /\ BookmarksLaid
    BY <1>2, ImportIs
  <1>4. p \in DOMAIN call.doc.secrets /\ p \in Profile /\ call.doc.secrets[p] \in Version
    BY <1>2, <1>3, SomeIs DEF ToDo, Secrets
  <1> DEFINE new == With(store.secrets, p, call.doc.secrets[p])
             known == p \in DOMAIN call.doc.profiles \cup DOMAIN store.profiles
             put == [store EXCEPT !.secrets = new]
             all == IF known THEN put ELSE store
  <1>5. new \in Secrets /\ Puts(new, store.secrets, p, call.doc.secrets[p])
    BY <1>3, <1>4, PutsSecret
  <1>6. Takes(p, all)
    BY <1>1
  <1> HIDE DEF new
  <1>7. /\ put \in Library /\ put.profiles = store.profiles /\ put.bookmarks = store.bookmarks
        /\ put.actions = store.actions /\ put.secrets = new
    BY <1>3, <1>5, FieldIsSet
  <1> HIDE DEF put
  <1>8. /\ all \in Library /\ all.profiles = store.profiles /\ all.bookmarks = store.bookmarks
        /\ all.actions = store.actions
        /\ known => all.secrets = new
        /\ ~known => all.secrets = store.secrets
    BY <1>3, <1>7
  <1>9. p \notin call.raced => (known <=> p \in Owners)
    <2>1. WrittenProfiles = DOMAIN call.doc.profiles
      BY <1>2 DEF WrittenProfiles
    <2>2. p \notin call.raced =>
            (p \in DOMAIN store.profiles <=>
               p \in DOMAIN call.doc.profiles \cup DOMAIN call.start.profiles)
      BY <1>3, <1>4, <2>1 DEF ProfilesLaid, IsLaid
    <2>. QED  BY <2>2 DEF Owners
  <1> HIDE DEF all, known
  <1>10. /\ call' \in Command /\ call'.at = call.at /\ call'.doc = call.doc
         /\ call'.start = call.start /\ call'.raced = call.raced
         /\ call'.todo = call.todo \ {p} /\ store' = all /\ UNCHANGED <<file, deleting>>
    BY <1>3, <1>6, TakesIs
  <1>11. /\ WrittenProfiles' = WrittenProfiles /\ WrittenBookmarks' = WrittenBookmarks
         /\ WrittenActions' = WrittenActions
         /\ WrittenSecrets' = WrittenSecrets \cup (IF p \in Owners THEN {p} ELSE {})
    BY <1>2, <1>4, <1>10
       DEF WrittenProfiles, WrittenBookmarks, WrittenActions, WrittenSecrets, Owners
  <1>12. Importing' /\ ToDo'
    BY <1>2, <1>3, <1>10 DEF Importing, ToDo
  <1>13. Related(store', {})
    BY <1>3, <1>8, <1>10 DEF Related
  <1>14. ProfilesLaid' /\ ActionsLaid'
    BY <1>3, <1>8, <1>10, <1>11 DEF ActionsLaid, ProfilesLaid, IsLaid
  <1>15. BookmarksLaid'
    BY <1>3, <1>8, <1>10, <1>11 DEF BookmarksLaid
  <1>16. SecretsLaid'
    <2> SUFFICES ASSUME NEW q \in Profile \ call.raced
                 PROVE  IsLaid(q, store.secrets, call.doc.secrets, WrittenSecrets,
                               call.start.secrets)'
      BY <1>10 DEF SecretsLaid
    <2>1. IsLaid(q, store.secrets, call.doc.secrets, WrittenSecrets, call.start.secrets)
      BY <1>3 DEF SecretsLaid
    <2>2. CASE q # p
      <3>1. /\ q \in DOMAIN store'.secrets <=> q \in DOMAIN store.secrets
            /\ q \in DOMAIN store.secrets => store'.secrets[q] = store.secrets[q]
            /\ q \in WrittenSecrets' <=> q \in WrittenSecrets
        BY <1>5, <1>8, <1>10, <1>11, <2>2 DEF Puts
      <3>. QED  BY <1>10, <2>1, <3>1 DEF IsLaid
    <2>3. CASE q = p /\ p \in Owners
      <3>1. /\ q \in DOMAIN store'.secrets /\ store'.secrets[q] = call.doc.secrets[q]
            /\ q \in WrittenSecrets'
        BY <1>5, <1>8, <1>9, <1>10, <1>11, <2>3 DEF Puts
      <3>. QED  BY <1>10, <3>1 DEF IsLaid
    <2>4. CASE q = p /\ p \notin Owners
      <3>1. store'.secrets = store.secrets /\ WrittenSecrets' = WrittenSecrets
        BY <1>8, <1>9, <1>10, <1>11, <2>4
      <3>. QED  BY <1>10, <2>1, <3>1 DEF IsLaid
    <2>. QED  BY <2>2, <2>3, <2>4
  <1>. QED  BY <1>3, <1>8, <1>10, <1>12, <1>13, <1>14, <1>15, <1>16, ImportStep

LEMMA ImportGoesOnStep ==
  ASSUME LibraryInv, ImportGoesOn
  PROVE  LibraryInv'
  <1>1. CASE Goes(NoCall)
    BY <1>1, CallEnds DEF Goes
  <1>2. CASE ~Goes(NoCall)
    <2>1. PICK next \in {"bookmarks", "actions", "secrets", "imported"},
               todo \in {DOMAIN call.doc.bookmarks, DOMAIN call.doc.actions,
                         DOMAIN call.doc.secrets, {}} :
            /\ call.todo = {} /\ Importing
            /\ next = "bookmarks" => call.at = "profiles" /\ todo = DOMAIN call.doc.bookmarks
            /\ next = "actions" => call.at = "bookmarks" /\ todo = DOMAIN call.doc.actions
            /\ next = "secrets" => call.at = "actions" /\ todo = DOMAIN call.doc.secrets
            /\ next = "imported" => call.at = "secrets" /\ todo = {}
            /\ call' = [[call EXCEPT !.at = next] EXCEPT !.todo = todo]
            /\ UNCHANGED <<store, file, deleting>>
      <3>1. call \in Command
        BY DEF LibraryInv, LibraryTypes
      <3>. QED  BY ZenonT(60), <1>2, <3>1 DEF ImportGoesOn, Goes, Importing, Command
    <2>2. /\ store \in Library /\ call.doc \in Library /\ Related(store, {})
          /\ call.doc.bookmarks \in Bookmarks /\ call.doc.actions \in Actions
          /\ call.doc.secrets \in Secrets
          /\ deleting # None => deleting \in call.raced
          /\ ProfilesLaid /\ SecretsLaid /\ ActionsLaid /\ BookmarksLaid
      BY <2>1, ImportIs
    <2>3. call \in Command
      BY DEF LibraryInv, LibraryTypes
    <2>4. todo \in SUBSET (Profile \cup Bookmark \cup Action)
      BY <2>1, <2>2, SomeIs DEF Bookmarks, Actions, Secrets
    <2>5. call' \in Command
      <3>1. next \in Points
        BY DEF Points
      <3>2. [call EXCEPT !.at = next] \in Command
        BY <2>3, <3>1, CommandIs
      <3>. QED  BY <2>1, <2>4, <3>2, CommandIs
    <2>6. /\ call'.at = next /\ call'.todo = todo /\ call'.doc = call.doc
          /\ call'.start = call.start /\ call'.raced = call.raced
      BY <2>1, <2>3 DEF Command
    <2>7. WrittenProfiles' = WrittenProfiles
      BY <2>1, <2>6 DEF WrittenProfiles
    <2>8. WrittenBookmarks' = WrittenBookmarks
      BY <2>1, <2>6 DEF WrittenBookmarks
    <2>9. WrittenActions' = WrittenActions
      BY <2>1, <2>6 DEF WrittenActions
    <2>10. WrittenSecrets' = WrittenSecrets
      BY <2>1, <2>6 DEF WrittenSecrets, Owners
    <2>11. Importing' /\ ToDo'
      BY <2>1, <2>6 DEF Importing, ToDo
    <2>12. ProfilesLaid' /\ SecretsLaid' /\ ActionsLaid'
      BY <2>1, <2>2, <2>6, <2>7, <2>9, <2>10 DEF ProfilesLaid, SecretsLaid, ActionsLaid
    <2>13. BookmarksLaid'
      BY <2>1, <2>2, <2>6, <2>8 DEF BookmarksLaid
    <2>14. /\ UNCHANGED <<file, deleting>> /\ store' \in Library /\ Related(store', {})
           /\ deleting' # None => deleting' \in call'.raced
      BY <2>1, <2>2, <2>6
    <2>. QED  BY <2>5, <2>11, <2>12, <2>13, <2>14, ImportStep
  <1>. QED  BY <1>1, <1>2

-----------------------------------------------------------------------------
(* The invariant and what follows from it. *)

LEMMA LibraryBegins == Init => LibraryInv
  <1> SUFFICES ASSUME Init
               PROVE  LibraryInv
    OBVIOUS
  <1>1. store \in Library /\ Related(store, {}) /\ call = NoCall /\ deleting = None
    BY LibraryAssumption DEF Init
  <1>2. file \in [whole : BOOLEAN, own : BOOLEAN, doc : Library] /\ ~file.own
    <2>1. Nothing \in Library /\ Documents \subseteq Library
      BY LibraryAssumption, NothingIs
    <2> HIDE DEF Nothing
    <2>2. \/ file = [whole |-> FALSE, own |-> FALSE, doc |-> Nothing]
          \/ \E doc \in Documents : file = [whole |-> TRUE, own |-> FALSE, doc |-> doc]
      BY DEF Init
    <2>3. CASE file = [whole |-> FALSE, own |-> FALSE, doc |-> Nothing]
      BY <2>1, <2>3
    <2>4. ASSUME NEW doc \in Documents, file = [whole |-> TRUE, own |-> FALSE, doc |-> doc]
          PROVE  file \in [whole : BOOLEAN, own : BOOLEAN, doc : Library] /\ ~file.own
      BY <2>1, <2>4
    <2>. QED  BY <2>2, <2>3, <2>4
  <1>3. call \in Command /\ call.at = "idle"
    BY <1>1, NothingIs
  <1>4. LibraryTypes
    BY <1>1, <1>2, <1>3 DEF LibraryTypes
  <1>5. ExportInv /\ ~Importing
    BY <1>1, <1>2, <1>3 DEF ExportInv, Importing
  <1>. QED  BY <1>4, <1>5 DEF LibraryInv, ImportInv

LEMMA LibraryStands == LibraryInv /\ UNCHANGED <<store, file, call, deleting>> => LibraryInv'
  <1> SUFFICES ASSUME LibraryInv, UNCHANGED <<store, file, call, deleting>>
               PROVE  LibraryInv'
    OBVIOUS
  <1>1. LibraryTypes' /\ ExportInv'
    BY DEF LibraryInv, LibraryTypes, ExportInv
  <1>2. (Importing' <=> Importing) /\ (ToDo' <=> ToDo)
    BY DEF Importing, ToDo
  <1>3. /\ WrittenProfiles' = WrittenProfiles /\ WrittenBookmarks' = WrittenBookmarks
        /\ WrittenActions' = WrittenActions /\ WrittenSecrets' = WrittenSecrets
    BY DEF WrittenProfiles, WrittenBookmarks, WrittenActions, WrittenSecrets, Owners
  <1>4. (ProfilesLaid' <=> ProfilesLaid) /\ (SecretsLaid' <=> SecretsLaid)
        /\ (ActionsLaid' <=> ActionsLaid)
    BY <1>3 DEF ProfilesLaid, SecretsLaid, ActionsLaid
  <1>5. BookmarksLaid' <=> BookmarksLaid
    BY <1>3 DEF BookmarksLaid
  <1>. QED  BY <1>1, <1>2, <1>4, <1>5 DEF LibraryInv, ImportInv

LEMMA LibraryHolds == LibraryInv /\ [Next]_vars => LibraryInv'
  <1> SUFFICES ASSUME LibraryInv, [Next]_vars
               PROVE  LibraryInv'
    OBVIOUS
  <1>1. CASE LibraryNext
    <2>1. CASE CallFails
      BY <2>1, CallEnds DEF CallFails, Goes
    <2>2. CASE Restart
      BY <2>2, CallEnds DEF Restart
    <2>3. CASE BeginSignIn \/ SignInFails
      BY <2>3, LibraryStands DEF BeginSignIn, SignInFails
    <2>. QED
      BY <1>1, <2>1, <2>2, <2>3, SaveProfileStep, SaveFavoriteStep, DeleteFavoriteStep, ActionStep,
         RememberSecretStep, DeleteProfileRowStep, DeleteProfileSecretStep, StartExportStep,
         ListsProfilesStep, ListsBookmarksStep, ListsActionsStep, CollectsSecretsStep,
         OpensFileStep, WritesFileStep, StartImportStep, ImportsProfileStep,
         ImportsBookmarkStep, ImportsActionStep, ImportsSecretStep, ImportGoesOnStep
         DEF LibraryNext
  <1>2. CASE UNCHANGED library
    BY <1>2, LibraryStands DEF library
  <1>. QED  BY <1>1, <1>2 DEF Next, vars

LEMMA LibraryAlways == Spec => []LibraryInv
BY LibraryBegins, LibraryHolds, PTL DEF Spec

(* A file that an export finished can be imported anywhere, whatever rows  *)
(* and secrets there are and whenever they change (export_configuration,   *)
(* validate_related_records).                                              *)
THEOREM ExportsAreComplete == Spec => []ExportsStandAlone
  <1>1. LibraryInv => ExportsStandAlone
    BY DEF LibraryInv, ExportInv, ExportsStandAlone, Owned
  <1>. QED  BY LibraryAlways, <1>1, PTL

(* What the laid lists hold.                                               *)
LEMMA OverIs ==
  ASSUME NEW new, NEW old
  PROVE  /\ DOMAIN Over(new, old) = DOMAIN new \cup DOMAIN old
         /\ \A x \in DOMAIN new : Over(new, old)[x] = new[x]
         /\ \A x \in DOMAIN old \ DOMAIN new : Over(new, old)[x] = old[x]
  BY DEF Over

(* An import that reports success has restored every record of the file    *)
(* and kept every other, whatever was deleted or signed in meanwhile       *)
(* (import_configuration).                                                 *)
THEOREM ImportsAreComplete == Spec => []ImportRestores
  <1>1. LibraryInv => ImportRestores
    <2> SUFFICES ASSUME LibraryInv, call.at = "imported"
                 PROVE  ImportRestores
      BY DEF ImportRestores
    <2>1. Importing
      BY DEF Importing
    <2>2. /\ store.actions \in Actions /\ call.doc.actions \in Actions
          /\ call.start \in Library /\ call.doc \in Library
          /\ call.doc.secrets \in Secrets /\ store.bookmarks \in Bookmarks
          /\ ProfilesLaid /\ SecretsLaid /\ ActionsLaid /\ BookmarksLaid
      BY <2>1, ImportIs
    <2>3. call.start.actions \in Actions
      BY <2>2, LibraryIs
    <2>4. /\ WrittenProfiles = DOMAIN call.doc.profiles
          /\ WrittenBookmarks = DOMAIN call.doc.bookmarks
          /\ WrittenActions = DOMAIN call.doc.actions
          /\ WrittenSecrets = DOMAIN call.doc.secrets \cap Owners
      BY DEF WrittenProfiles, WrittenBookmarks, WrittenActions, WrittenSecrets
    <2> DEFINE profiles == Over(call.doc.profiles, call.start.profiles)
               bookmarks == Over(call.doc.bookmarks, call.start.bookmarks)
               actions == Over(call.doc.actions, call.start.actions)
               owned == Restrict(call.doc.secrets, DOMAIN call.doc.secrets \cap Owners)
               secrets == Over(owned, call.start.secrets)
    <2>5. /\ DOMAIN profiles = Owners
          /\ \A x \in DOMAIN call.doc.profiles : profiles[x] = call.doc.profiles[x]
          /\ \A x \in DOMAIN call.start.profiles \ DOMAIN call.doc.profiles :
               profiles[x] = call.start.profiles[x]
      BY OverIs DEF Owners
    <2>6. /\ DOMAIN bookmarks = DOMAIN call.doc.bookmarks \cup DOMAIN call.start.bookmarks
          /\ \A x \in DOMAIN call.doc.bookmarks : bookmarks[x] = call.doc.bookmarks[x]
          /\ \A x \in DOMAIN call.start.bookmarks \ DOMAIN call.doc.bookmarks :
               bookmarks[x] = call.start.bookmarks[x]
      BY OverIs
    <2>7. DOMAIN owned = DOMAIN call.doc.secrets \cap Owners
          /\ \A x \in DOMAIN owned : owned[x] = call.doc.secrets[x]
      BY DEF Restrict
    <2> HIDE DEF owned
    <2>8. /\ DOMAIN secrets = (DOMAIN call.doc.secrets \cap Owners) \cup DOMAIN call.start.secrets
          /\ \A x \in DOMAIN call.doc.secrets \cap Owners : secrets[x] = call.doc.secrets[x]
          /\ \A x \in DOMAIN call.start.secrets \ (DOMAIN call.doc.secrets \cap Owners) :
               secrets[x] = call.start.secrets[x]
      BY <2>7 DEF Over
    <2>9. /\ Laid("profiles") = profiles /\ Laid("bookmarks") = bookmarks
          /\ Laid("actions") = actions
      BY DEF Laid
    <2>10. LaidSecrets = secrets
      BY <2>5, <2>9 DEF LaidSecrets, owned
    <2>11. store.actions = actions
      <3>1. \A a \in Action :
              IsLaid(a, store.actions, call.doc.actions, DOMAIN call.doc.actions,
                     call.start.actions)
        BY <2>2, <2>4 DEF ActionsLaid
      <3>2. /\ DOMAIN store.actions \subseteq Action /\ DOMAIN call.doc.actions \subseteq Action
            /\ DOMAIN call.start.actions \subseteq Action
            /\ store.actions = [x \in DOMAIN store.actions |-> store.actions[x]]
        BY <2>2, <2>3, SomeIs DEF Actions
      <3>3. DOMAIN store.actions = DOMAIN call.doc.actions \cup DOMAIN call.start.actions
        BY <3>1, <3>2 DEF IsLaid
      <3>4. \A x \in DOMAIN store.actions :
              store.actions[x] = IF x \in DOMAIN call.doc.actions
                                 THEN call.doc.actions[x] ELSE call.start.actions[x]
        BY <3>1, <3>2, <3>3 DEF IsLaid
      <3>. QED  BY <3>2, <3>3, <3>4 DEF Over
    <2> HIDE DEF profiles, bookmarks, actions, secrets
    <2>12. ASSUME NEW p \in Profile \ call.raced
           PROVE  /\ p \in DOMAIN store.profiles <=> p \in DOMAIN profiles
                  /\ p \in DOMAIN store.profiles => store.profiles[p] = profiles[p]
                  /\ p \in DOMAIN store.secrets <=> p \in DOMAIN secrets
                  /\ p \in DOMAIN store.secrets => store.secrets[p] = secrets[p]
      <3>1. /\ IsLaid(p, store.profiles, call.doc.profiles, DOMAIN call.doc.profiles,
                      call.start.profiles)
            /\ IsLaid(p, store.secrets, call.doc.secrets, DOMAIN call.doc.secrets \cap Owners,
                      call.start.secrets)
        BY <2>2, <2>4 DEF ProfilesLaid, SecretsLaid
      <3>2. /\ p \in DOMAIN store.profiles <=> p \in DOMAIN profiles
            /\ p \in DOMAIN store.profiles => store.profiles[p] = profiles[p]
        BY <2>5, <3>1 DEF IsLaid, Owners
      <3>3. /\ p \in DOMAIN store.secrets <=> p \in DOMAIN secrets
            /\ p \in DOMAIN store.secrets => store.secrets[p] = secrets[p]
        BY <2>8, <3>1 DEF IsLaid
      <3>. QED  BY <3>2, <3>3
    <2>13. DOMAIN store.bookmarks \subseteq DOMAIN bookmarks
      BY <2>2, <2>4, <2>6 DEF BookmarksLaid
    <2>14. ASSUME NEW b \in DOMAIN bookmarks, bookmarks[b].profile \notin call.raced
           PROVE  b \in DOMAIN store.bookmarks /\ store.bookmarks[b] = bookmarks[b]
      BY <2>2, <2>4, <2>6, <2>14 DEF BookmarksLaid
    <2>. QED  BY <2>9, <2>10, <2>11, <2>12, <2>13, <2>14 DEF ImportRestores
  <1>. QED  BY LibraryAlways, <1>1, PTL

===============================================================================
