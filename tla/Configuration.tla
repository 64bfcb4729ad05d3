---------------------------- MODULE Configuration ----------------------------
(***************************************************************************)
(* What the user keeps: profiles, bookmarks and saved actions in the       *)
(* database and secrets in the keyring, the commands that change one of    *)
(* them, their export to a file and the import of one (configuration.rs).  *)
(*                                                                         *)
(* These commands are synchronous and take their turns on the main thread; *)
(* delete_profile and the connections are asynchronous and come between    *)
(* any two of their accesses.  The preferences share nothing with this     *)
(* library, so a behaviour follows one half of the state or the other.     *)
(***************************************************************************)
EXTENDS Preferences, Functions

CONSTANTS
  Profile, Bookmark, Action,   \* stable ids
  Place,                       \* sides and paths a bookmark may name
  Version,                     \* contents of a profile, an action or a secret
  Libraries,                   \* what may be there when the application starts
  Documents,                   \* files of other origin that may be imported
  MaxEdits                     \* bound on the changes of single records

VARIABLES
  part,       \* the half of the state this behaviour follows
  store,      \* the rows, and as secrets what the keyring holds
  file,       \* the file: a document, if it is whole, and whether it is ours
  call,       \* the command on the main thread
  deleting,   \* the profile delete_profile is about to forget, or None
  signing,    \* the profiles a connection under way will remember a secret of
  edits       \* changes of single records so far

library == <<store, file, call, deleting, signing, edits>>
vars == <<part, settings, library>>

---------------------------------------------------------------------------
(* The commands that change one record.                                    *)

Nothing == [profiles |-> <<>>, bookmarks |-> <<>>, actions |-> <<>>, secrets |-> <<>>]

NoCall == [at |-> "idle", doc |-> Nothing, todo |-> {}, start |-> Nothing, raced |-> {}]

Idle == call.at = "idle"

With(f, k, v) == [x \in DOMAIN f \cup {k} |-> IF x = k THEN v ELSE f[x]]

Without(f, S) == Restrict(f, DOMAIN f \ S)

Edits == edits < MaxEdits /\ edits' = edits + 1

SaveProfile ==
  /\ Idle
  /\ \E p \in Profile, v \in Version, remember \in BOOLEAN :
       store' = [store EXCEPT !.profiles =
                   With(@, p, [version |-> v, remember |-> remember])]
  /\ Edits /\ UNCHANGED <<file, call, deleting, signing>>

\* save_favorite(): a profile's bookmark of the same place is updated.
SaveFavorite ==
  /\ Idle
  /\ \E b \in Bookmark, p \in DOMAIN store.profiles, place \in Place :
       LET new == [profile |-> p, place |-> place]
           same == {x \in DOMAIN store.bookmarks : store.bookmarks[x] = new}
       IN  \E id \in IF same = {} THEN {b} ELSE same :
             store' = [store EXCEPT !.bookmarks = With(@, id, new)]
  /\ Edits /\ UNCHANGED <<file, call, deleting, signing>>

DeleteFavorite ==
  /\ Idle
  /\ \E b \in DOMAIN store.bookmarks :
       store' = [store EXCEPT !.bookmarks = Without(@, {b})]
  /\ Edits /\ UNCHANGED <<file, call, deleting, signing>>

SaveAction ==
  /\ Idle
  /\ \E a \in Action, v \in Version :
       store' = [store EXCEPT !.actions = With(@, a, v)]
  /\ Edits /\ UNCHANGED <<file, call, deleting, signing>>

DeleteAction ==
  /\ Idle
  /\ \E a \in DOMAIN store.actions :
       store' = [store EXCEPT !.actions = Without(@, {a})]
  /\ Edits /\ UNCHANGED <<file, call, deleting, signing>>

\* An import under way is told which profiles changed behind its back.
Races(p) == call' = IF Idle THEN call ELSE [call EXCEPT !.raced = @ \cup {p}]

\* A connection reads its profile's row and goes by it from then on.
BeginSignIn ==
  /\ \E p \in DOMAIN store.profiles \ signing :
       store.profiles[p].remember /\ signing' = signing \cup {p}
  /\ UNCHANGED <<store, file, call, deleting, edits>>

\* It has succeeded: what the user typed is remembered, although the profile
\* may have been changed or deleted meanwhile.
RememberSecret ==
  /\ \E p \in Profile, v \in Version :
       /\ p \in signing /\ signing' = signing \ {p}
       /\ store' = [store EXCEPT !.secrets = With(@, p, v)]
       /\ Races(p)
  /\ Edits /\ UNCHANGED <<file, deleting>>

\* The server or the keyring refuses.
SignInFails ==
  /\ \E p \in signing : signing' = signing \ {p}
  /\ UNCHANGED <<store, file, call, deleting, edits>>

\* delete_profile: the row and with it the bookmarks, then the secret.
DeleteProfileRow ==
  /\ deleting = None
  /\ \E p \in DOMAIN store.profiles :
       /\ store' = [store EXCEPT
            !.profiles = Without(@, {p}),
            !.bookmarks = Without(@, {b \in DOMAIN @ : @[b].profile = p})]
       /\ deleting' = p
       /\ Races(p)
  /\ Edits /\ UNCHANGED <<file, signing>>

\* An error of the keyring is not looked at: the secret may stay.
DeleteProfileSecret ==
  /\ deleting # None
  /\ store' \in {store, [store EXCEPT !.secrets = Without(@, {deleting})]}
  /\ Races(deleting)
  /\ deleting' = None
  /\ UNCHANGED <<file, signing, edits>>

---------------------------------------------------------------------------
(* Export.                                                                 *)

Goes(c) == call' = c /\ UNCHANGED <<store, file, deleting, signing, edits>>

StartExport == Idle /\ Goes([NoCall EXCEPT !.at = "list profiles"])

\* The three lists are read one after the other, each under its own lock.
ListsProfiles ==
  /\ call.at = "list profiles"
  /\ Goes([call EXCEPT !.at = "list bookmarks", !.doc.profiles = store.profiles])

ListsBookmarks ==
  /\ call.at = "list bookmarks"
  /\ Goes([call EXCEPT !.at = "list actions", !.doc.bookmarks = store.bookmarks])

(* Mutant of ListsActions: the profiles are read anew. *)
ListsActionsAndProfiles ==
  /\ call.at = "list actions"
  /\ \E next \in {"collect", "open"} :
       Goes([call EXCEPT !.at = next, !.doc.actions = store.actions,
                         !.doc.profiles = store.profiles])

\* With the secrets, or without.
ListsActions ==
  /\ call.at = "list actions"
  /\ \E next \in {"collect", "open"} :
       Goes([call EXCEPT !.at = next, !.doc.actions = store.actions])

\* collect_secrets(): what the listed profiles remember.
CollectsSecrets ==
  /\ call.at = "collect"
  /\ LET listed == call.doc.profiles
         kept == {p \in DOMAIN listed \cap DOMAIN store.secrets : listed[p].remember}
     IN  Goes([call EXCEPT !.at = "open", !.doc.secrets = Restrict(store.secrets, kept)])

\* write_export() truncates the file, then writes it.
OpensFile ==
  /\ call.at = "open"
  /\ file' = [whole |-> FALSE, own |-> TRUE, doc |-> Nothing]
  /\ call' = [call EXCEPT !.at = "write"]
  /\ UNCHANGED <<store, deleting, signing, edits>>

WritesFile ==
  /\ call.at = "write"
  /\ file' = [whole |-> TRUE, own |-> TRUE, doc |-> call.doc]
  /\ call' = NoCall
  /\ UNCHANGED <<store, deleting, signing, edits>>

---------------------------------------------------------------------------
(* Import.                                                                 *)

\* validate_related_records(): every bookmark needs a profile, in the document
\* or here.
Related(doc, known) ==
  \A b \in DOMAIN doc.bookmarks : doc.bookmarks[b].profile \in DOMAIN doc.profiles \cup known

Some(S, T) == UNION {[D -> T] : D \in SUBSET S}

Library == [profiles : Some(Profile, [version : Version, remember : BOOLEAN]),
            bookmarks : Some(Bookmark, [profile : Profile, place : Place]),
            actions : Some(Action, Version),
            secrets : Some(Profile, Version)]

\* The foreign key of the bookmarks holds from the start.
ASSUME LibraryAssumption ==
  /\ Libraries \cup Documents \subseteq Library
  /\ \A rows \in Libraries : Related(rows, {})

\* The document is read, checked and decrypted before anything is written.
StartImport ==
  /\ Idle
  /\ file.whole
  /\ Related(file.doc, DOMAIN store.profiles)
  /\ Goes([at |-> "profiles", doc |-> file.doc, todo |-> DOMAIN file.doc.profiles,
           start |-> store, raced |-> IF deleting = None THEN {} ELSE {deleting}])

\* One record of the document is written.
Takes(x, new) ==
  /\ call' = [call EXCEPT !.todo = @ \ {x}]
  /\ store' = new
  /\ UNCHANGED <<file, deleting, signing, edits>>

(* Mutant of ImportsProfile: a profile that is here already is kept. *)
ImportsNewProfile ==
  /\ call.at = "profiles"
  /\ \E p \in call.todo :
       Takes(p, IF p \in DOMAIN store.profiles THEN store
                ELSE [store EXCEPT !.profiles = With(@, p, call.doc.profiles[p])])

ImportsProfile ==
  /\ call.at = "profiles"
  /\ \E p \in call.todo :
       Takes(p, [store EXCEPT !.profiles = With(@, p, call.doc.profiles[p])])

\* A bookmark whose profile is gone by now breaks a foreign key and ends the
\* import.
ImportsBookmark ==
  /\ call.at = "bookmarks"
  /\ \E b \in call.todo :
       IF call.doc.bookmarks[b].profile \in DOMAIN store.profiles
       THEN Takes(b, [store EXCEPT !.bookmarks = With(@, b, call.doc.bookmarks[b])])
       ELSE Goes(NoCall)

ImportsAction ==
  /\ call.at = "actions"
  /\ \E a \in call.todo :
       Takes(a, [store EXCEPT !.actions = With(@, a, call.doc.actions[a])])

\* The secret of a profile that is neither in the document nor here is passed
\* over.
ImportsSecret ==
  /\ call.at = "secrets"
  /\ \E p \in call.todo :
       Takes(p, IF p \in DOMAIN call.doc.profiles \cup DOMAIN store.profiles
                THEN [store EXCEPT !.secrets = With(@, p, call.doc.secrets[p])]
                ELSE store)

ImportGoesOn ==
  /\ call.todo = {}
  /\ \/ call.at = "profiles"
        /\ Goes([call EXCEPT !.at = "bookmarks", !.todo = DOMAIN call.doc.bookmarks])
     \/ call.at = "bookmarks"
        /\ Goes([call EXCEPT !.at = "actions", !.todo = DOMAIN call.doc.actions])
     \/ call.at = "actions"
        /\ Goes([call EXCEPT !.at = "secrets", !.todo = DOMAIN call.doc.secrets])
     \/ call.at = "secrets" /\ Goes([call EXCEPT !.at = "imported"])
     \/ call.at = "imported" /\ Goes(NoCall)

\* A row, a secret or the file cannot be read or written: the command returns
\* and what it has done stays.
CallFails == call.at \notin {"idle", "imported"} /\ Goes(NoCall)

Restart ==
  /\ call' = NoCall
  /\ deleting' = None
  /\ signing' = {}
  /\ UNCHANGED <<store, file, edits>>

LibraryNext ==
  \/ SaveProfile
  \/ SaveFavorite
  \/ DeleteFavorite
  \/ SaveAction
  \/ DeleteAction
  \/ BeginSignIn
  \/ RememberSecret
  \/ SignInFails
  \/ DeleteProfileRow
  \/ DeleteProfileSecret
  \/ StartExport
  \/ ListsProfiles
  \/ ListsBookmarks
  \/ ListsActions
  \/ CollectsSecrets
  \/ OpensFile
  \/ WritesFile
  \/ StartImport
  \/ ImportsProfile
  \/ ImportsBookmark
  \/ ImportsAction
  \/ ImportsSecret
  \/ ImportGoesOn
  \/ CallFails
  \/ Restart

Init ==
  /\ part \in {"library", "settings"}
  /\ PreferencesInit
  /\ store \in Libraries
  /\ file \in {[whole |-> FALSE, own |-> FALSE, doc |-> Nothing]} \cup
              {[whole |-> TRUE, own |-> FALSE, doc |-> doc] : doc \in Documents}
  /\ call = NoCall
  /\ deleting = None
  /\ signing = {}
  /\ edits = 0

Next ==
  \/ part = "library" /\ LibraryNext /\ UNCHANGED <<part, settings>>
  \/ part = "settings" /\ PreferencesNext /\ UNCHANGED <<part, library>>

Spec == Init /\ [][Next]_vars

---------------------------------------------------------------------------
(* Properties.                                                             *)

Over(new, old) ==
  [x \in DOMAIN new \cup DOMAIN old |-> IF x \in DOMAIN new THEN new[x] ELSE old[x]]

\* What a list holds when the document has been laid over what was there.
Laid(kind) == Over(call.doc[kind], call.start[kind])

\* Of the secrets in the document only those that have a profile count.
LaidSecrets ==
  LET owned == DOMAIN call.doc.secrets \cap DOMAIN Laid("profiles")
  IN  Over(Restrict(call.doc.secrets, owned), call.start.secrets)

\* When an import reports success, every record of the document is here as the
\* document says and every other record is as it was, apart from the profiles
\* that were deleted or signed in meanwhile and what belongs to them
\* (import_configuration).
ImportRestores ==
  call.at = "imported" =>
    /\ \A p \in Profile \ call.raced :
         /\ p \in DOMAIN store.profiles <=> p \in DOMAIN Laid("profiles")
         /\ p \in DOMAIN store.profiles => store.profiles[p] = Laid("profiles")[p]
         /\ p \in DOMAIN store.secrets <=> p \in DOMAIN LaidSecrets
         /\ p \in DOMAIN store.secrets => store.secrets[p] = LaidSecrets[p]
    /\ DOMAIN store.bookmarks \subseteq DOMAIN Laid("bookmarks")
    /\ \A b \in DOMAIN Laid("bookmarks") :
         Laid("bookmarks")[b].profile \notin call.raced =>
           b \in DOMAIN store.bookmarks /\ store.bookmarks[b] = Laid("bookmarks")[b]
    /\ store.actions = Laid("actions")

\* A file that an export finished can be imported anywhere: its bookmarks and
\* secrets belong to profiles in it, although profiles may be deleted between
\* the reads of the lists (export_configuration, validate_related_records).
ExportsStandAlone ==
  file.whole /\ file.own =>
    /\ Related(file.doc, {})
    /\ DOMAIN file.doc.secrets \subseteq
         {p \in DOMAIN file.doc.profiles : file.doc.profiles[p].remember}
=============================================================================
