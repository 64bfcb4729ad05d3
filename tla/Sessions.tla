------------------------------- MODULE Sessions -------------------------------
(***************************************************************************)
(* Profiles, saved secrets, trusted host keys and the open sessions:       *)
(* connecting, answering a host-key challenge, the reconnection a transfer *)
(* asks for, closing a session, deleting a profile, importing profiles and *)
(* secrets (src-tauri/src/commands.rs, state.rs, storage.rs, secrets.rs,   *)
(* configuration.rs; the handshake of crates/siftlane-sftp/src/client.rs). *)
(*                                                                         *)
(* A command is an asynchronous call: what it reads before an await (the   *)
(* profile, the secret, the trusted keys, the list of stale sessions) it   *)
(* uses after it.  The session a command registers and the connection it   *)
(* opened for it are both named by the number of the command.  The two     *)
(* kinds of secret of a profile are one here.                              *)
(***************************************************************************)
EXTENDS Naturals, Sequences, Functions

CONSTANTS
  Profile, Host, Key, Secret,
  AlgorithmOf,     \* the algorithm of a host key
  Call,            \* concurrent commands
  RowsOf,          \* what the user may save for a profile
  Stored,          \* the profiles saved at the start
  StoredKeys,      \* the keys trusted at the start
  Serving,         \* the keys the servers may have at the start
  Files,           \* the known_hosts files the user may import
  Bundles,         \* the exported configurations the user may import
  NoValue,
  MaxCommands,     \* bound: commands in a run
  MaxFaults        \* bound: failures, new server keys and restarts

Row == [host : Host, jump : Profile \cup {NoValue}, auth : {"password", "agent"},
        ftp : BOOLEAN, remember : BOOLEAN]

ASSUME ConstantsAssumption ==
  /\ NoValue \notin Profile \cup Secret \cup Call \cup Bundles
  /\ AlgorithmOf \in [Key -> {"ed25519", "rsa"}]
  /\ \A p \in Profile : \A r \in RowsOf[p] :
        r \in Row /\ r.jump # p /\ (r.ftp => r.jump = NoValue /\ r.auth = "password")
  /\ DOMAIN Stored \subseteq Profile /\ (\A p \in DOMAIN Stored : Stored[p] \in Row)
  /\ StoredKeys \subseteq Host \X Key
  /\ Serving \subseteq [Host -> Key] /\ Files \subseteq SUBSET (Host \X Key)
  /\ \A f \in Bundles :
        /\ DOMAIN f.rows \subseteq Profile /\ DOMAIN f.secrets \subseteq Profile
        /\ \A p \in DOMAIN f.rows : f.rows[p] \in RowsOf[p]
        /\ \A p \in DOMAIN f.secrets : f.secrets[p] \in Secret
  /\ MaxCommands \in Nat /\ MaxFaults \in Nat

VARIABLES
  profiles,        \* the connection_profiles table
  keyring,         \* SecretStore, profile |-> secret
  trusted,         \* the known_hosts table, a set of <<host, key>>
  serves,          \* the key each server has
  sessions,        \* AppState::sessions, id |-> profile and connection
  pending,         \* AppState::pending_host_keys, id |-> challenge
  guard,           \* AppState::reconnect_guard
  reconnected,     \* AppState::last_reconnect, the profiles in it
  calls,
  closed,          \* connections that were disconnected
  granted,         \* history: the keys trusted at some time during a call
  accepted,        \* history: secrets a server has accepted
  tabs,            \* the sessions the user has been given, id |-> profile
  deleted,         \* history: profiles that were deleted
  raced,           \* history: profiles that were in use at that time
  shut,            \* history: connections closed for a session the user closed
  brought,         \* history: secrets of the configurations the user imported
  kept,            \* history: deleted profiles whose secret nobody took out
  commands, faults

vars == <<profiles, keyring, trusted, serves, sessions, pending, guard, reconnected,
          calls, closed, granted, accepted, tabs, deleted, raced, shut, brought, kept,
          commands, faults>>

ghosts == <<accepted, tabs, deleted, raced, shut, brought, kept>>

tables == <<profiles, keyring, trusted, serves>>

NoCall == [pc |-> "idle", op |-> "none", id |-> 0, profile |-> NoValue, row |-> NoValue,
           offered |-> NoValue, secret |-> NoValue, known |-> {}, hops |-> << >>,
           via |-> {}, shown |-> NoValue, stale |-> << >>, file |-> NoValue, todo |-> {}]

-----------------------------------------------------------------------------
(* How a call goes on.                                                     *)

Goes(c, rec) == calls' = [calls EXCEPT ![c] = rec]

At(c, pc) == calls[c].pc = pc

(* An entry is added to a table, or takes the place of the one there was.  *)
With(f, k, v) == [x \in DOMAIN f \cup {k} |-> IF x = k THEN v ELSE f[x]]

To(c, pc) == [calls[c] EXCEPT !.pc = pc]

Returns(c) == /\ Goes(c, NoCall)
              /\ guard' = IF guard = c THEN NoValue ELSE guard

(* A new command, numbered. *)
Begins(c, rec) ==
  /\ At(c, "idle") /\ commands < MaxCommands
  /\ commands' = commands + 1
  /\ Goes(c, [rec EXCEPT !.id = commands + 1])
  /\ granted' = [granted EXCEPT ![c] = trusted]

Fault == faults < MaxFaults /\ faults' = faults + 1

Trusts(pairs) ==
  /\ trusted' = {t \in trusted : ~ \E n \in pairs :
                   t[1] = n[1] /\ AlgorithmOf[t[2]] = AlgorithmOf[n[2]]} \cup pairs
  /\ granted' = [c \in Call |-> granted[c] \cup pairs]

SessionsOf(p) == {s \in DOMAIN sessions : sessions[s].profile = p}

\* The profiles a call saves.
Brings(c) == IF calls[c].op = "import" THEN DOMAIN calls[c].file.rows ELSE {}

InUse(p) == \/ \E c \in Call : calls[c].profile = p \/ p \in Brings(c)
            \/ \E ch \in DOMAIN pending : pending[ch].profile = p

-----------------------------------------------------------------------------
(* Profiles and trusted keys.                                              *)

SaveProfile(p) == \E r \in RowsOf[p] :
  /\ commands < MaxCommands /\ commands' = commands + 1
  /\ profiles' = With(profiles, p, r)
  /\ UNCHANGED <<keyring, trusted, serves, sessions, pending, guard, reconnected, calls,
                 closed, granted, ghosts, faults>>

Forgotten(p) == [keyring EXCEPT ![p] = NoValue]

(* delete_profile: the row, the secrets, a list of the sessions, and then  *)
(* the sessions of the list.                                               *)
DeleteProfile(c, p) ==
  /\ p \in DOMAIN profiles
  /\ Begins(c, [NoCall EXCEPT !.pc = "forget", !.op = "delete", !.profile = p])
  /\ profiles' = Restrict(profiles, DOMAIN profiles \ {p})
  /\ deleted' = deleted \cup {p}
  /\ raced' = IF InUse(p) THEN raced \cup {p} ELSE raced
  /\ UNCHANGED <<keyring, trusted, serves, sessions, pending, guard, reconnected, closed,
                 accepted, tabs, shut, brought, kept, faults>>

(* The keyring may refuse; the command does not notice.                    *)
Forget(c) ==
  /\ At(c, "forget")
  /\ Goes(c, To(c, "list"))
  /\ LET p == calls[c].profile
     IN  \/ keyring' = Forgotten(p) /\ kept' = kept \ {p} /\ UNCHANGED faults
         \/ Fault /\ kept' = kept \cup {p} /\ UNCHANGED keyring
  /\ UNCHANGED <<profiles, trusted, serves, sessions, pending, guard, reconnected, closed,
                 granted, accepted, tabs, deleted, raced, shut, brought, commands>>

ListSessions(c) ==
  /\ At(c, "list")
  /\ Goes(c, [To(c, "drop") EXCEPT !.stale = [s \in SessionsOf(calls[c].profile) |-> s]])
  /\ UNCHANGED <<tables, sessions, pending, guard, reconnected, closed, granted, ghosts,
                 commands, faults>>

DropSessions(c) ==
  /\ At(c, "drop")
  /\ sessions' = Restrict(sessions, DOMAIN sessions \ DOMAIN calls[c].stale)
  /\ Returns(c)
  /\ UNCHANGED <<tables, pending, reconnected, closed, granted, ghosts, commands, faults>>

RemoveTrustedHost(h) ==
  /\ \E t \in trusted : t[1] = h
  /\ commands < MaxCommands /\ commands' = commands + 1
  /\ \E a \in {AlgorithmOf[t[2]] : t \in {u \in trusted : u[1] = h}} :
       trusted' = {t \in trusted : ~ (t[1] = h /\ AlgorithmOf[t[2]] = a)}
  /\ UNCHANGED <<profiles, keyring, serves, sessions, pending, guard, reconnected, calls,
                 closed, granted, ghosts, faults>>

(* import_known_hosts: the keys one after the other, until one fails.      *)
ImportKnownHosts == \E file \in Files :
  /\ commands < MaxCommands /\ commands' = commands + 1
  /\ Trusts(file)
  /\ UNCHANGED <<profiles, keyring, serves, sessions, pending, guard, reconnected, calls,
                 closed, ghosts, faults>>

ServerChangesKey == \E h \in Host, k \in Key :
  /\ Fault
  /\ serves[h] # k
  /\ serves' = [serves EXCEPT ![h] = k]
  /\ UNCHANGED <<profiles, keyring, trusted, sessions, pending, guard, reconnected, calls,
                 closed, granted, ghosts, commands>>

-----------------------------------------------------------------------------
(* import_configuration: the profiles of the file one after the other, and *)
(* then its secrets.                                                       *)

(* A synchronous command: there is one at a time.                          *)
ImportConfiguration(c) == \E f \in Bundles :
  /\ \A d \in Call : calls[d].op # "import"
  /\ Begins(c, [NoCall EXCEPT !.pc = "rows", !.op = "import", !.file = f,
                              !.todo = DOMAIN f.rows])
  /\ brought' = brought \cup {<<p, f.secrets[p]>> : p \in DOMAIN f.secrets}
  /\ UNCHANGED <<tables, sessions, pending, guard, reconnected, closed, accepted, tabs,
                 deleted, raced, shut, kept, faults>>

ImportRow(c) ==
  /\ At(c, "rows")
  /\ \E p \in calls[c].todo :
       /\ profiles' = With(profiles, p, calls[c].file.rows[p])
       /\ Goes(c, [calls[c] EXCEPT !.todo = @ \ {p}])
  /\ UNCHANGED <<keyring, trusted, serves, sessions, pending, guard, reconnected, closed,
                 granted, ghosts, commands, faults>>

ImportTurns(c) ==
  /\ At(c, "rows") /\ calls[c].todo = {}
  /\ Goes(c, [To(c, "secrets") EXCEPT !.todo = DOMAIN calls[c].file.secrets])
  /\ UNCHANGED <<tables, sessions, pending, guard, reconnected, closed, granted, ghosts,
                 commands, faults>>

(* Mutant of Belongs: the secret is laid down whoever it is for.           *)
BelongsAnyway(c, p) == TRUE

(* The secret is for a profile of the file, or for one there is.           *)
Belongs(c, p) == p \in Brings(c) \cup DOMAIN profiles

ImportChecks(c) ==
  /\ At(c, "secrets")
  /\ \E p \in calls[c].todo :
       Goes(c, IF Belongs(c, p) THEN [To(c, "lay") EXCEPT !.profile = p]
               ELSE [calls[c] EXCEPT !.todo = @ \ {p}])
  /\ UNCHANGED <<tables, sessions, pending, guard, reconnected, closed, granted, ghosts,
                 commands, faults>>

ImportLays(c) ==
  /\ At(c, "lay")
  /\ LET p == calls[c].profile
     IN  /\ keyring' = [keyring EXCEPT ![p] = calls[c].file.secrets[p]]
         /\ Goes(c, [To(c, "secrets") EXCEPT !.profile = NoValue, !.todo = @ \ {p}])
  /\ UNCHANGED <<profiles, trusted, serves, sessions, pending, guard, reconnected, closed,
                 granted, ghosts, commands, faults>>

(* The import is done, or the database or the keyring fails it.            *)
ImportReturns(c) ==
  /\ calls[c].pc \in {"rows", "secrets", "lay"}
  /\ Returns(c)
  /\ UNCHANGED <<tables, sessions, pending, reconnected, closed, granted, ghosts, commands,
                 faults>>

-----------------------------------------------------------------------------
(* Opening a connection.                                                   *)

ConnectProfile(c, p) ==
  /\ p \in DOMAIN profiles
  /\ \E s \in Secret \cup {NoValue} :
       Begins(c, [NoCall EXCEPT !.pc = "resolve", !.op = "connect", !.profile = p,
                                !.row = profiles[p], !.offered = s])
  /\ UNCHANGED <<tables, sessions, pending, guard, reconnected, closed, ghosts, faults>>

(* The credential given, or else the saved one.                            *)
SecretFor(p, row, offered) ==
  IF row.auth = "agent" THEN NoValue
  ELSE IF offered # NoValue THEN offered ELSE keyring[p]

CanSignIn(p, row, offered) ==
  row.auth = "agent" \/ SecretFor(p, row, offered) # NoValue

(* The bastion must be a stored SFTP profile that uses none itself, with a *)
(* saved credential.                                                       *)
CanJump(row) ==
  row.jump = NoValue \/ /\ row.jump \in DOMAIN profiles
                        /\ ~profiles[row.jump].ftp
                        /\ profiles[row.jump].jump = NoValue
                        /\ CanSignIn(row.jump, profiles[row.jump], NoValue)

Hops(row) == IF row.ftp THEN << >>
             ELSE IF row.jump = NoValue THEN <<row.host>>
             ELSE <<profiles[row.jump].host, row.host>>

KnownKeys(hops) == {t \in trusted : t[1] \in Range(hops)}

(* A call whose challenge was accepted brings its secret along.            *)
Ready(c) == \/ calls[c].op = "answer"
            \/ CanSignIn(calls[c].profile, calls[c].row, calls[c].offered)

Resolve(c) ==
  /\ At(c, "resolve")
  /\ UNCHANGED <<tables, sessions, pending, reconnected, closed, granted, ghosts, commands,
                 faults>>
  /\ LET call == calls[c]
         hops == Hops(call.row)
     IN  \/ /\ Ready(c) /\ CanJump(call.row)
            /\ Goes(c, [To(c, "dial") EXCEPT
                          !.hops = hops, !.known = KnownKeys(hops),
                          !.secret = IF call.op = "answer" THEN @
                                     ELSE SecretFor(call.profile, call.row, call.offered)])
            /\ UNCHANGED guard
         \/ /\ ~(Ready(c) /\ CanJump(call.row))
            /\ Returns(c)

(* Mutant of Classify: any key of the same algorithm will do.              *)
ClassifyByAlgorithm(known, h, k) ==
  IF \E t \in known : t[1] = h /\ AlgorithmOf[t[2]] = AlgorithmOf[k] THEN "Trusted"
  ELSE IF \E t \in known : t[1] = h THEN "Changed" ELSE "Unknown"

(* StoredKeyVerifier *)
Classify(known, h, k) ==
  IF <<h, k>> \in known THEN "Trusted"
  ELSE IF \E t \in known : t[1] = h THEN "Changed" ELSE "Unknown"

(* One hop: the bastion first, then the host itself.                       *)
Handshake(c) ==
  /\ At(c, "dial") /\ calls[c].hops # << >>
  /\ LET h == Head(calls[c].hops)
         k == serves[h]
     IN  IF Classify(calls[c].known, h, k) = "Trusted"
         THEN Goes(c, [calls[c] EXCEPT !.via = @ \cup {<<h, k>>}, !.hops = Tail(@)])
         ELSE Goes(c, [To(c, "challenge") EXCEPT !.shown = <<h, k>>])
  /\ UNCHANGED <<tables, sessions, pending, guard, reconnected, closed, granted, ghosts,
                 commands, faults>>

SignsIn(c) ==
  /\ At(c, "dial") /\ calls[c].hops = << >>
  /\ accepted' = IF calls[c].secret = NoValue THEN accepted
                 ELSE accepted \cup {<<calls[c].profile, calls[c].secret>>}
  /\ Goes(c, To(c, "keep"))
  /\ UNCHANGED <<tables, sessions, pending, guard, reconnected, closed, granted, tabs,
                 deleted, raced, shut, brought, kept, commands, faults>>

Kept(c) ==
  IF calls[c].offered # NoValue /\ calls[c].row.remember /\ calls[c].row.auth = "password"
  THEN [keyring EXCEPT ![calls[c].profile] = calls[c].offered] ELSE keyring

(* Mutant of ConnectFails: the secret is saved before the server is asked. *)
ConnectFailsKept(c) ==
  /\ At(c, "dial")
  /\ keyring' = Kept(c)
  /\ Returns(c)
  /\ UNCHANGED <<profiles, trusted, serves, sessions, pending, reconnected, closed, granted,
                 ghosts, commands, faults>>

(* A hop cannot be reached, the secret is refused, a time-out; or touching *)
(* the keys fails.                                                         *)
ConnectFails(c) ==
  /\ calls[c].pc \in {"dial", "keep"}
  /\ Returns(c)
  /\ UNCHANGED <<tables, sessions, pending, reconnected, closed, granted, ghosts, commands,
                 faults>>

(* persist_supplied_secret *)
KeepSecret(c) ==
  /\ At(c, "keep")
  /\ keyring' = Kept(c)
  /\ Goes(c, To(c, "register"))
  /\ UNCHANGED <<profiles, trusted, serves, sessions, pending, guard, reconnected, closed,
                 granted, ghosts, commands, faults>>

(* A reconnection goes on to replace the stale sessions, the others resume *)
(* the transfers of the profile.                                           *)
Register(c) ==
  /\ At(c, "register")
  /\ sessions' = With(sessions, calls[c].id, [profile |-> calls[c].profile,
                                              client |-> calls[c].id])
  /\ Goes(c, To(c, IF calls[c].op = "reconnect" THEN "swap" ELSE "resume"))
  /\ UNCHANGED <<tables, pending, guard, reconnected, closed, granted, ghosts, commands,
                 faults>>

(* The user gets the id of the session when the transfers were resumed; if *)
(* that fails the session stays all the same.                              *)
Resume(c) ==
  /\ At(c, "resume")
  /\ \/ tabs' = With(tabs, calls[c].id, calls[c].profile) /\ UNCHANGED faults
     \/ Fault /\ UNCHANGED tabs
  /\ Returns(c)
  /\ UNCHANGED <<tables, sessions, pending, reconnected, closed, granted, accepted, deleted,
                 raced, shut, brought, kept, commands>>

-----------------------------------------------------------------------------
(* Challenges.                                                             *)

Challenge(c) ==
  /\ At(c, "challenge")
  /\ pending' = With(pending, calls[c].id, calls[c])
  /\ Returns(c)
  /\ UNCHANGED <<tables, sessions, reconnected, closed, granted, ghosts, commands, faults>>

(* trust_host_key: the challenge is taken out first; the profile, the      *)
(* secret and the key are the challenge's.                                 *)
Answer(c, ch) ==
  /\ ch \in DOMAIN pending
  /\ pending' = Restrict(pending, DOMAIN pending \ {ch})
  /\ LET old == pending[ch]
     IN  Begins(c, [NoCall EXCEPT !.pc = "accept", !.op = "answer", !.profile = old.profile,
                                  !.row = old.row, !.offered = old.offered,
                                  !.secret = old.secret, !.shown = old.shown])
  /\ UNCHANGED <<tables, sessions, guard, reconnected, closed, ghosts, faults>>

Decline(ch) ==
  /\ ch \in DOMAIN pending
  /\ pending' = Restrict(pending, DOMAIN pending \ {ch})
  /\ UNCHANGED <<tables, sessions, guard, reconnected, calls, closed, granted, ghosts,
                 commands, faults>>

Accept(c) ==
  /\ At(c, "accept")
  /\ Trusts({calls[c].shown})
  /\ Goes(c, [To(c, "resolve") EXCEPT !.shown = NoValue])
  /\ UNCHANGED <<profiles, keyring, serves, sessions, pending, guard, reconnected, closed,
                 ghosts, commands, faults>>

-----------------------------------------------------------------------------
(* The reconnection a worker asks for after a retryable error.             *)

(* Under reconnect_guard.  A profile reconnected within five seconds that  *)
(* has a session is left as it is.                                         *)
Reconnect(c, p) ==
  /\ guard = NoValue /\ p \in DOMAIN profiles
  /\ Begins(c, [NoCall EXCEPT
                  !.pc = "resolve", !.op = "reconnect", !.profile = p, !.row = profiles[p],
                  !.stale = [s \in SessionsOf(p) |-> sessions[s].client]])
  /\ guard' = c
  /\ UNCHANGED <<tables, sessions, pending, reconnected, closed, ghosts, faults>>

RecentlyReconnected(c, p) ==
  /\ guard = NoValue /\ p \in reconnected /\ SessionsOf(p) # {}
  /\ At(c, "idle") /\ commands < MaxCommands /\ commands' = commands + 1
  /\ UNCHANGED <<tables, sessions, pending, guard, reconnected, calls, closed, granted,
                 ghosts, faults>>

(* Mutant of Replaced: only one of the stale sessions gets the connection. *)
ReplacedOnce(c) == [s \in DOMAIN sessions \ {calls[c].id} |->
                      IF s \in DOMAIN calls[c].stale
                           /\ \A u \in DOMAIN calls[c].stale : s <= u
                      THEN [sessions[s] EXCEPT !.client = sessions[calls[c].id].client]
                      ELSE sessions[s]]

Replaced(c) == [s \in DOMAIN sessions \ {calls[c].id} |->
                  IF s \in DOMAIN calls[c].stale
                  THEN [sessions[s] EXCEPT !.client = sessions[calls[c].id].client]
                  ELSE sessions[s]]

Swap(c) ==
  /\ At(c, "swap")
  /\ UNCHANGED <<tables, pending, closed, granted, ghosts, commands, faults>>
  /\ \/ /\ DOMAIN calls[c].stale = {}
        /\ reconnected' = reconnected \cup {calls[c].profile}
        /\ Returns(c)
        /\ UNCHANGED sessions
     \/ /\ DOMAIN calls[c].stale # {} /\ calls[c].id \in DOMAIN sessions
        /\ sessions' = Replaced(c)
        /\ Goes(c, To(c, "close"))
        /\ UNCHANGED <<guard, reconnected>>
     \/ /\ DOMAIN calls[c].stale # {} /\ calls[c].id \notin DOMAIN sessions
        /\ Returns(c)
        /\ UNCHANGED <<sessions, reconnected>>

CloseStale(c) ==
  /\ At(c, "close") /\ calls[c].op = "reconnect"
  /\ closed' = closed \cup Range(calls[c].stale)
  /\ reconnected' = reconnected \cup {calls[c].profile}
  /\ Returns(c)
  /\ UNCHANGED <<tables, sessions, pending, granted, ghosts, commands, faults>>

(* The session is taken out under the lock and its connection closed after *)
(* that; without a session the command fails.                              *)
DisconnectSession(c, s) ==
  /\ s \in DOMAIN tabs
  /\ tabs' = Restrict(tabs, DOMAIN tabs \ {s})
  /\ sessions' = Restrict(sessions, DOMAIN sessions \ {s})
  /\ \/ /\ s \in DOMAIN sessions
        /\ Begins(c, [NoCall EXCEPT !.pc = "close", !.op = "disconnect",
                                    !.stale = [x \in {s} |-> sessions[x].client]])
     \/ s \notin DOMAIN sessions /\ UNCHANGED <<calls, granted, commands>>
  /\ UNCHANGED <<tables, pending, guard, reconnected, closed, accepted, deleted, raced, shut,
                 brought, kept, faults>>

Disconnect(c) ==
  /\ At(c, "close") /\ calls[c].op = "disconnect"
  /\ closed' = closed \cup Range(calls[c].stale)
  /\ shut' = shut \cup Range(calls[c].stale)
  /\ Returns(c)
  /\ UNCHANGED <<tables, sessions, pending, reconnected, granted, accepted, tabs, deleted,
                 raced, brought, kept, commands, faults>>

-----------------------------------------------------------------------------
Init ==
  /\ profiles = Stored
  /\ keyring = [p \in Profile |-> NoValue]
  /\ trusted = StoredKeys
  /\ serves \in Serving
  /\ sessions = Restrict([s \in 0..0 |-> NoValue], {})
  /\ pending = Restrict([s \in 0..0 |-> NoValue], {})
  /\ tabs = Restrict([s \in 0..0 |-> NoValue], {})
  /\ guard = NoValue
  /\ reconnected = {}
  /\ calls = [c \in Call |-> NoCall]
  /\ closed = {} /\ accepted = {} /\ deleted = {} /\ raced = {} /\ shut = {}
  /\ brought = {} /\ kept = {}
  /\ granted = [c \in Call |-> {}]
  /\ commands = 0 /\ faults = 0

(* The application stops: the tables and the keyring are what remains.     *)
Restart ==
  /\ Fault
  /\ sessions' = Restrict(sessions, {}) /\ pending' = Restrict(pending, {})
  /\ guard' = NoValue /\ reconnected' = {}
  /\ calls' = [c \in Call |-> NoCall]
  /\ tabs' = Restrict(tabs, {})
  /\ kept' = kept \cup {calls[c].profile : c \in {d \in Call : At(d, "forget")}}
  /\ UNCHANGED <<tables, closed, granted, accepted, deleted, raced, shut, brought, commands>>

CallStep(c) ==
  \/ Forget(c) \/ ListSessions(c) \/ DropSessions(c)
  \/ ImportRow(c) \/ ImportTurns(c) \/ ImportChecks(c) \/ ImportLays(c) \/ ImportReturns(c)
  \/ Resolve(c) \/ Handshake(c) \/ SignsIn(c) \/ ConnectFails(c) \/ KeepSecret(c)
  \/ Register(c) \/ Resume(c)
  \/ Challenge(c) \/ Accept(c)
  \/ Swap(c) \/ CloseStale(c) \/ Disconnect(c)

Command(c) ==
  \/ \E p \in Profile : ConnectProfile(c, p) \/ DeleteProfile(c, p)
                        \/ Reconnect(c, p) \/ RecentlyReconnected(c, p)
  \/ \E ch \in DOMAIN pending : Answer(c, ch)
  \/ \E s \in DOMAIN tabs : DisconnectSession(c, s)
  \/ ImportConfiguration(c)

Next ==
  \/ \E c \in Call : Command(c) \/ CallStep(c)
  \/ \E p \in Profile : SaveProfile(p)
  \/ \E h \in Host : RemoveTrustedHost(h)
  \/ \E ch \in DOMAIN pending : Decline(ch)
  \/ ImportKnownHosts \/ ServerChangesKey \/ Restart

Spec == Init /\ [][Next]_vars

-----------------------------------------------------------------------------
(* connect: no hop of a connection signs in to a server whose key was not  *)
(* trusted at some time during the command, whatever keys were removed,    *)
(* replaced or accepted meanwhile (docs/threat-model.md: "mismatches are   *)
(* never auto-accepted").                                                  *)
ConnectsToTrusted == \A c \in Call : calls[c].via \subseteq granted[c]

(* persist_supplied_secret and import_configuration: what the keyring      *)
(* holds for a profile is a secret a server has accepted for it, or one    *)
(* that a configuration the user imported has for it.                      *)
SecretsWereAccepted == \A p \in Profile :
  keyring[p] # NoValue => <<p, keyring[p]>> \in accepted \cup brought

(* delete_profile: when it has returned, a profile that no connection,     *)
(* challenge or import was using at the time has no session and gets none  *)
(* until it is saved again, and neither has it a secret, unless the        *)
(* keyring refused to delete it or the application stopped before it was   *)
(* asked to.                                                               *)
DeletedIsGone == \A p \in deleted \ raced :
  p \notin DOMAIN profiles /\ ~InUse(p) =>
    SessionsOf(p) = {} /\ (keyring[p] = NoValue \/ p \in kept)

(* reconnect_profile_for_transfer: of the connections it replaced it       *)
(* closes those no session has, so that none is left with a closed one,    *)
(* unless the user closed another session of it; and it keeps the ids the  *)
(* user's tabs have: the session of a tab goes only when the tab is closed *)
(* or its profile is deleted.                                              *)
ReconnectSparesSessions ==
  /\ \A s \in DOMAIN sessions : sessions[s].client \in closed => sessions[s].client \in shut
  /\ \A s \in DOMAIN tabs : s \in DOMAIN sessions \/ tabs[s] \in deleted
===============================================================================
