---------------------------- MODULE SessionsProofs ----------------------------
(***************************************************************************)
(* Theorems about connections, secrets, deleted profiles and reconnection, *)
(* for any profiles, hosts, keys and secrets and any commands at once.     *)
(***************************************************************************)
EXTENDS Sessions, TLAPS

-----------------------------------------------------------------------------
(* Types. *)

Pairs == SUBSET (Host \X Key)

Maps == UNION {[S -> Nat] : S \in SUBSET Nat}

Connecting == {"resolve", "dial", "challenge", "keep", "register", "resume", "accept",
               "swap"}

Importing == {"rows", "secrets", "lay"}

CallRecord ==
  [pc : Connecting \cup Importing \cup {"idle", "forget", "list", "drop", "close"},
   op : {"none", "delete", "import", "connect", "answer", "reconnect", "disconnect"},
   id : Nat, profile : Profile \cup {NoValue}, row : Row \cup {NoValue},
   offered : Secret \cup {NoValue}, secret : Secret \cup {NoValue},
   known : Pairs, hops : Seq(Host), via : Pairs,
   shown : (Host \X Key) \cup {NoValue}, stale : Maps,
   file : Bundles \cup {NoValue}, todo : SUBSET Profile]

SessionRecord == [profile : Profile, client : Nat]

IsTable(f, S, T) == DOMAIN f \subseteq S /\ \A x \in DOMAIN f : f[x] \in T

(* A call that connects knows its profile, and its challenge once there is *)
(* one; an import what it has left to do.                                  *)
CallOK(r) ==
  /\ r.pc \in Connecting => /\ r.profile \in Profile
                            /\ r.row \in Row
                            /\ r.pc \in {"challenge", "accept"} => r.shown \in Host \X Key
  /\ r.pc = "forget" => r.profile \in Profile
  /\ r.op = "import" <=> r.pc \in {"rows", "secrets", "lay"}
  /\ r.op = "import" => r.file \in Bundles
  /\ r.pc = "rows" => r.todo \subseteq DOMAIN r.file.rows
  /\ r.pc \in {"secrets", "lay"} => r.todo \subseteq DOMAIN r.file.secrets
  /\ r.pc \in {"rows", "secrets"} => r.profile = NoValue
  /\ r.pc = "lay" => r.profile \in r.todo

TypeOK ==
  /\ IsTable(profiles, Profile, Row)
  /\ keyring \in [Profile -> Secret \cup {NoValue}]
  /\ trusted \in Pairs
  /\ serves \in [Host -> Key]
  /\ IsTable(sessions, Nat, SessionRecord)
  /\ IsTable(pending, Nat, CallRecord)
  /\ \A ch \in DOMAIN pending : pending[ch].pc = "challenge" /\ CallOK(pending[ch])
  /\ guard \in Call \cup {NoValue}
  /\ calls \in [Call -> CallRecord]
  /\ \A c \in Call : CallOK(calls[c])
  /\ IsTable(tabs, Nat, Profile)
  /\ granted \in [Call -> Pairs]
  /\ commands \in Nat
  /\ deleted \subseteq Profile

-----------------------------------------------------------------------------
(* Records of calls. *)

LEMMA NoCallType ==
  /\ NoCall \in CallRecord
  /\ NoCall.pc = "idle"
  <1>1. << >> \in [{} -> Nat]
    OBVIOUS
  <1>2. << >> \in Maps
    BY <1>1 DEF Maps
  <1>. QED  BY <1>2 DEF NoCall, CallRecord, Importing, Pairs

LEMMA NoCallFields ==
  /\ NoCall.pc = "idle" /\ NoCall.op = "none" /\ NoCall.id = 0 /\ NoCall.profile = NoValue
  /\ NoCall.row = NoValue /\ NoCall.offered = NoValue /\ NoCall.secret = NoValue
  /\ NoCall.shown = NoValue /\ NoCall.hops = << >>
  /\ NoCall.known = {} /\ NoCall.via = {} /\ NoCall.stale = << >>
  /\ NoCall.file = NoValue /\ NoCall.todo = {}
  BY DEF NoCall

LEMMA MapIntro ==
  ASSUME NEW S \in SUBSET Nat, NEW f \in [S -> Nat]
  PROVE  f \in Maps
  BY DEF Maps

LEMMA MapElim ==
  ASSUME NEW f \in Maps
  PROVE  DOMAIN f \subseteq Nat /\ \A x \in DOMAIN f : f[x] \in Nat
  BY DEF Maps

(* What With and Restrict do to a table. *)
LEMMA WithTable ==
  ASSUME NEW S, NEW T, NEW f, IsTable(f, S, T), NEW k \in S, NEW v \in T
  PROVE  /\ IsTable(With(f, k, v), S, T)
         /\ DOMAIN With(f, k, v) = DOMAIN f \cup {k}
         /\ With(f, k, v)[k] = v
         /\ \A x \in DOMAIN f : x # k => With(f, k, v)[x] = f[x]
  BY DEF IsTable, With

LEMMA RestrictTable ==
  ASSUME NEW S, NEW T, NEW f, IsTable(f, S, T), NEW U, U \subseteq DOMAIN f
  PROVE  /\ IsTable(Restrict(f, U), S, T)
         /\ DOMAIN Restrict(f, U) = U
         /\ \A x \in U : Restrict(f, U)[x] = f[x]
  BY DEF IsTable, Restrict

LEMMA TypesInit == Init => TypeOK
  <1> SUFFICES ASSUME Init PROVE TypeOK
    OBVIOUS
  <1> USE ConstantsAssumption DEF Init
  <1>1. /\ IsTable(sessions, Nat, SessionRecord) /\ IsTable(pending, Nat, CallRecord)
        /\ IsTable(tabs, Nat, Profile)
        /\ DOMAIN pending = {}
    BY DEF IsTable, Restrict
  <1>2. \A c \in Call : CallOK(calls[c])
    BY NoCallType, NoCallFields DEF CallOK, Connecting
  <1>3. calls \in [Call -> CallRecord]
    BY NoCallType
  <1>4. serves \in [Host -> Key] /\ trusted \in Pairs
    BY DEF Pairs
  <1>5. granted \in [Call -> Pairs]
    BY DEF Pairs
  <1>. QED  BY <1>1, <1>2, <1>3, <1>4, <1>5 DEF TypeOK, IsTable

(* How a call goes on. *)
LEMMA GoesType ==
  ASSUME TypeOK, NEW c \in Call, NEW rec \in CallRecord, CallOK(rec), Goes(c, rec)
  PROVE  /\ calls' \in [Call -> CallRecord]
         /\ \A d \in Call : CallOK(calls'[d])
  BY DEF TypeOK, Goes

LEMMA ReturnsType ==
  ASSUME TypeOK, NEW c \in Call, Returns(c)
  PROVE  /\ calls' \in [Call -> CallRecord]
         /\ \A d \in Call : CallOK(calls'[d])
         /\ guard' \in Call \cup {NoValue}
  <1>1. CallOK(NoCall)
    BY NoCallType, NoCallFields DEF CallOK, Connecting
  <1>2. Goes(c, NoCall)
    BY DEF Returns
  <1>3. guard' \in Call \cup {NoValue}
    BY DEF Returns, TypeOK
  <1>. QED  BY <1>1, <1>2, <1>3, NoCallType, GoesType

LEMMA BeginsType ==
  ASSUME TypeOK, NEW c \in Call, NEW rec \in CallRecord, CallOK(rec), Begins(c, rec)
  PROVE  /\ calls' \in [Call -> CallRecord]
         /\ \A d \in Call : CallOK(calls'[d])
         /\ granted' \in [Call -> Pairs]
         /\ commands' \in Nat
  <1>1. commands + 1 \in Nat /\ commands' = commands + 1
    BY DEF TypeOK, Begins
  <1>2. [rec EXCEPT !.id = commands + 1] \in CallRecord
    BY <1>1 DEF CallRecord
  <1>3. CallOK([rec EXCEPT !.id = commands + 1])
    BY DEF CallOK, CallRecord
  <1>4. Goes(c, [rec EXCEPT !.id = commands + 1])
    BY DEF Begins
  <1>5. granted' \in [Call -> Pairs]
    BY DEF Begins, TypeOK, Pairs
  <1>. QED  BY <1>1, <1>2, <1>3, <1>4, <1>5, GoesType

(* The point a call has reached does not matter to the rest of its record. *)
LEMMA ToType ==
  ASSUME TypeOK, NEW c \in Call, calls[c].pc \in Connecting,
         NEW pc \in (Connecting \ {"challenge", "accept"}) \cup {"close"}
  PROVE  /\ To(c, pc) \in CallRecord
         /\ CallOK(To(c, pc))
         /\ To(c, pc).pc = pc
         /\ To(c, pc) = [calls[c] EXCEPT !.pc = pc]
  <1>1. calls[c] \in CallRecord /\ CallOK(calls[c])
    BY DEF TypeOK
  <1>. QED  BY <1>1 DEF To, CallRecord, CallOK, Connecting

LEMMA TrustsType ==
  ASSUME TypeOK, NEW new \in Pairs, Trusts(new)
  PROVE  /\ trusted' \in Pairs
         /\ granted' \in [Call -> Pairs]
         /\ trusted' \subseteq trusted \cup new
         /\ \A c \in Call : granted'[c] = granted[c] \cup new
  BY DEF TypeOK, Trusts, Pairs

(* What the steps of an import make of its record: a profile of the file   *)
(* leaves the list when it has been saved, and a secret is laid down for   *)
(* one of the file or one there is.                                        *)
ImportsOn(c, pc, q, T) ==
  /\ Goes(c, [calls[c] EXCEPT !.pc = pc, !.profile = q, !.todo = T])
  /\ calls[c].pc \in Importing /\ calls[c].op = "import" /\ calls[c].file \in Bundles
  /\ pc = "rows" => calls[c].pc = "rows" /\ T \subseteq DOMAIN calls[c].file.rows
  /\ pc # "rows" => T \subseteq DOMAIN calls[c].file.secrets
  /\ IF pc = "lay" THEN q \in T /\ q \in DOMAIN calls[c].file.rows \cup DOMAIN profiles
     ELSE q = NoValue
  /\ calls[c].pc = "rows" =>
       \A p \in calls[c].todo : (pc = "rows" /\ p \in T) \/ p \in DOMAIN profiles'

LEMMA ImportSteps ==
  ASSUME TypeOK, NEW c \in Call,
         ImportRow(c) \/ ImportTurns(c) \/ ImportChecks(c) \/ ImportLays(c)
  PROVE  \E pc \in Importing, q \in Profile \cup {NoValue}, T \in SUBSET Profile :
           ImportsOn(c, pc, q, T)
  <1>1. /\ calls[c] \in CallRecord /\ CallOK(calls[c])
        /\ calls[c].pc \in Importing
    BY DEF TypeOK, ImportRow, ImportTurns, ImportChecks, ImportLays, At, Importing
  <1>2. calls[c].op = "import" /\ calls[c].file \in Bundles
    BY <1>1 DEF CallOK, Importing
  <1>3. /\ calls[c].todo \subseteq Profile /\ calls[c].profile \in Profile \cup {NoValue}
        /\ DOMAIN calls[c].file.rows \subseteq Profile
        /\ DOMAIN calls[c].file.secrets \subseteq Profile
    BY <1>1, <1>2, ConstantsAssumption DEF CallRecord
  <1>4. CASE ImportRow(c)
    <2>1. PICK p \in calls[c].todo :
            /\ profiles' = With(profiles, p, calls[c].file.rows[p])
            /\ Goes(c, [calls[c] EXCEPT !.todo = @ \ {p}])
      BY <1>4 DEF ImportRow
    <2>2. PICK T \in SUBSET Profile : T = calls[c].todo \ {p}
      BY <1>3
    <2>3. calls[c].pc = "rows" /\ calls[c].profile = NoValue
      BY <1>1, <1>4 DEF ImportRow, At, CallOK
    <2>4. [calls[c] EXCEPT !.todo = @ \ {p}] =
            [calls[c] EXCEPT !.pc = "rows", !.profile = NoValue, !.todo = T]
      BY <1>1, <2>2, <2>3 DEF CallRecord
    <2>5. p \in DOMAIN profiles'
      BY <2>1 DEF With
    <2>6. T \subseteq DOMAIN calls[c].file.rows
      BY <1>1, <2>2, <2>3 DEF CallOK
    <2>7. ImportsOn(c, "rows", NoValue, T)
      BY <1>1, <1>2, <2>1, <2>2, <2>3, <2>4, <2>5, <2>6 DEF ImportsOn
    <2>. QED  BY <2>7 DEF Importing
  <1>5. CASE ImportTurns(c)
    <2>1. PICK T \in SUBSET Profile : T = DOMAIN calls[c].file.secrets
      BY <1>3
    <2>2. /\ calls[c].pc = "rows" /\ calls[c].todo = {} /\ calls[c].profile = NoValue
          /\ Goes(c, [To(c, "secrets") EXCEPT !.todo = T])
      BY <1>1, <1>5, <2>1 DEF ImportTurns, At, CallOK
    <2>3. [To(c, "secrets") EXCEPT !.todo = T] =
            [calls[c] EXCEPT !.pc = "secrets", !.profile = NoValue, !.todo = T]
      BY <1>1, <2>2 DEF To, CallRecord
    <2>4. ImportsOn(c, "secrets", NoValue, T)
      BY <1>1, <1>2, <2>1, <2>2, <2>3 DEF ImportsOn
    <2>. QED  BY <2>4 DEF Importing
  <1>6. CASE ImportChecks(c)
    <2>1. PICK p \in calls[c].todo :
            Goes(c, IF Belongs(c, p) THEN [To(c, "lay") EXCEPT !.profile = p]
                    ELSE [calls[c] EXCEPT !.todo = @ \ {p}])
      BY <1>6 DEF ImportChecks
    <2>2. calls[c].pc = "secrets" /\ calls[c].profile = NoValue
          /\ calls[c].todo \subseteq DOMAIN calls[c].file.secrets
      BY <1>1, <1>6 DEF ImportChecks, At, CallOK
    <2>3. CASE Belongs(c, p)
      <3>1. PICK T \in SUBSET Profile : T = calls[c].todo
        BY <1>3
      <3>2. [To(c, "lay") EXCEPT !.profile = p] =
              [calls[c] EXCEPT !.pc = "lay", !.profile = p, !.todo = T]
        BY <1>1, <3>1 DEF To, CallRecord
      <3>3. p \in DOMAIN calls[c].file.rows \cup DOMAIN profiles
        BY <1>2, <2>3 DEF Belongs, Brings
      <3>4. ImportsOn(c, "lay", p, T)
        BY <1>1, <1>2, <2>1, <2>2, <2>3, <3>1, <3>2, <3>3 DEF ImportsOn
      <3>. QED  BY <1>3, <3>4 DEF Importing
    <2>4. CASE ~Belongs(c, p)
      <3>1. PICK T \in SUBSET Profile : T = calls[c].todo \ {p}
        BY <1>3
      <3>2. [calls[c] EXCEPT !.todo = @ \ {p}] =
              [calls[c] EXCEPT !.pc = "secrets", !.profile = NoValue, !.todo = T]
        BY <1>1, <2>2, <3>1 DEF CallRecord
      <3>3. ImportsOn(c, "secrets", NoValue, T)
        BY <1>1, <1>2, <2>1, <2>2, <2>4, <3>1, <3>2 DEF ImportsOn
      <3>. QED  BY <3>3 DEF Importing
    <2>. QED  BY <2>3, <2>4
  <1>7. CASE ImportLays(c)
    <2>1. PICK p : p = calls[c].profile
      OBVIOUS
    <2>2. PICK T \in SUBSET Profile : T = calls[c].todo \ {p}
      BY <1>3
    <2>3. /\ calls[c].pc = "lay" /\ calls[c].todo \subseteq DOMAIN calls[c].file.secrets
          /\ Goes(c, [To(c, "secrets") EXCEPT !.profile = NoValue, !.todo = @ \ {p}])
      BY <1>1, <1>7, <2>1 DEF ImportLays, At, CallOK
    <2>4. [To(c, "secrets") EXCEPT !.profile = NoValue, !.todo = @ \ {p}] =
            [calls[c] EXCEPT !.pc = "secrets", !.profile = NoValue, !.todo = T]
      BY <1>1, <2>2 DEF To, CallRecord
    <2>5. ImportsOn(c, "secrets", NoValue, T)
      BY <1>1, <1>2, <2>2, <2>3, <2>4 DEF ImportsOn
    <2>. QED  BY <2>5 DEF Importing
  <1>. QED  BY <1>4, <1>5, <1>6, <1>7

LEMMA TypesStep == TypeOK /\ [Next]_vars => TypeOK'
  <1> SUFFICES ASSUME TypeOK, [Next]_vars
               PROVE  TypeOK'
    OBVIOUS
  <1> USE ConstantsAssumption
  <1>1. ASSUME NEW p \in Profile, SaveProfile(p)
        PROVE  TypeOK'
    <2>1. PICK r \in RowsOf[p] : profiles' = With(profiles, p, r) /\ commands' = commands + 1
      BY <1>1 DEF SaveProfile
    <2>2. IsTable(profiles', Profile, Row)
      BY <2>1, WithTable DEF TypeOK
    <2>. QED  BY <1>1, <2>1, <2>2 DEF SaveProfile, TypeOK, ghosts
  <1>2. ASSUME NEW c \in Call, NEW p \in Profile, DeleteProfile(c, p)
        PROVE  TypeOK'
    <2> DEFINE rec == [NoCall EXCEPT !.pc = "forget", !.op = "delete", !.profile = p]
    <2>1. rec \in CallRecord /\ CallOK(rec)
      BY ZenonT(60), NoCallType, NoCallFields DEF CallRecord, CallOK, Connecting
    <2>2. Begins(c, rec)
      BY <1>2 DEF DeleteProfile
    <2>3. IsTable(profiles', Profile, Row)
      BY <1>2, RestrictTable DEF DeleteProfile, TypeOK
    <2> HIDE DEF rec
    <2>. QED  BY <1>2, <2>1, <2>2, <2>3, BeginsType DEF DeleteProfile, TypeOK
  <1>3. ASSUME NEW c \in Call, ListSessions(c)
        PROVE  TypeOK'
    <2> DEFINE ours == SessionsOf(calls[c].profile)
               old == [s \in ours |-> s]
               rec == [To(c, "drop") EXCEPT !.stale = old]
    <2>1. ours \in SUBSET Nat
      BY DEF SessionsOf, TypeOK, IsTable
    <2>2. old \in Maps
      <3>1. old \in [ours -> Nat]
        BY <2>1
      <3>. QED  BY <2>1, <3>1, MapIntro
    <2>3. calls[c] \in CallRecord
      BY DEF TypeOK
    <2> HIDE DEF ours, old
    <2>4. rec \in CallRecord /\ CallOK(rec)
      <3>1. rec = [calls[c] EXCEPT !.pc = "drop", !.stale = old]
        BY <2>3 DEF To, CallRecord
      <3>2. calls[c].pc = "list" /\ CallOK(calls[c])
        BY <1>3 DEF ListSessions, At, TypeOK
      <3> HIDE DEF rec
      <3>3. rec \in CallRecord
        BY <2>2, <2>3, <3>1 DEF CallRecord
      <3>4. rec.pc = "drop" /\ rec.op = calls[c].op
        BY <2>3, <3>1 DEF CallRecord
      <3>. QED  BY <3>2, <3>3, <3>4 DEF CallOK, Connecting
    <2>5. Goes(c, rec)
      BY <1>3 DEF ListSessions, ours, old, rec
    <2> HIDE DEF rec
    <2>. QED  BY <1>3, <2>4, <2>5, GoesType DEF ListSessions, TypeOK, tables, ghosts
  <1>4. ASSUME NEW c \in Call, DropSessions(c)
        PROVE  TypeOK'
    <2>1. IsTable(sessions', Nat, SessionRecord)
      BY <1>4, RestrictTable DEF DropSessions, TypeOK
    <2>2. Returns(c)
      BY <1>4 DEF DropSessions
    <2>. QED  BY <1>4, <2>1, <2>2, ReturnsType DEF DropSessions, TypeOK, tables, ghosts
  <1>5. ASSUME NEW h \in Host, RemoveTrustedHost(h)
        PROVE  TypeOK'
    <2>1. trusted' \in Pairs
      BY <1>5 DEF RemoveTrustedHost, TypeOK, Pairs
    <2>. QED  BY <1>5, <2>1 DEF RemoveTrustedHost, TypeOK, ghosts
  <1>6. ASSUME ImportKnownHosts
        PROVE  TypeOK'
    <2>1. PICK new \in Files : Trusts(new) /\ commands' = commands + 1
      BY <1>6 DEF ImportKnownHosts
    <2>2. new \in Pairs
      BY <2>1 DEF Pairs
    <2>. QED  BY <1>6, <2>1, <2>2, TrustsType DEF ImportKnownHosts, TypeOK, ghosts
  <1>7. ASSUME ServerChangesKey
        PROVE  TypeOK'
    BY <1>7 DEF ServerChangesKey, TypeOK, ghosts
  <1>8. ASSUME NEW c \in Call, NEW p \in Profile, ConnectProfile(c, p)
        PROVE  TypeOK'
    <2>1. PICK s \in Secret \cup {NoValue} :
            Begins(c, [NoCall EXCEPT !.pc = "resolve", !.op = "connect", !.profile = p,
                                     !.row = profiles[p], !.offered = s])
      BY <1>8 DEF ConnectProfile
    <2> DEFINE rec == [NoCall EXCEPT !.pc = "resolve", !.op = "connect", !.profile = p,
                                     !.row = profiles[p], !.offered = s]
    <2>2. profiles[p] \in Row
      BY <1>8 DEF ConnectProfile, TypeOK, IsTable
    <2>3. rec \in CallRecord /\ CallOK(rec)
      BY <2>2, NoCallType DEF CallRecord, CallOK, Connecting
    <2> HIDE DEF rec
    <2>4. Begins(c, rec)
      BY <2>1 DEF rec
    <2>. QED  BY <1>8, <2>3, <2>4, BeginsType DEF ConnectProfile, TypeOK, tables, ghosts
  <1>9. ASSUME NEW c \in Call, Resolve(c)
        PROVE  TypeOK'
    <2>1. CASE Returns(c)
      BY <1>9, <2>1, ReturnsType DEF Resolve, TypeOK, tables, ghosts
    <2>2. CASE ~Returns(c)
      <3> DEFINE hops == Hops(calls[c].row)
                 secret == IF calls[c].op = "answer" THEN calls[c].secret
                           ELSE SecretFor(calls[c].profile, calls[c].row, calls[c].offered)
                 rec == [To(c, "dial") EXCEPT !.hops = hops, !.known = KnownKeys(hops),
                                              !.secret = secret]
      <3>1. calls[c] \in CallRecord /\ CallOK(calls[c]) /\ calls[c].pc = "resolve"
        BY <1>9 DEF TypeOK, Resolve, At
      <3>2. calls[c].row \in Row /\ calls[c].profile \in Profile
        BY <3>1 DEF CallOK, Connecting
      <3>3. hops \in Seq(Host)
        <4>1. CanJump(calls[c].row)
          BY <1>9, <2>2 DEF Resolve
        <4>2. calls[c].row.host \in Host
          BY <3>2 DEF Row
        <4>3. calls[c].row.jump # NoValue => profiles[calls[c].row.jump].host \in Host
          BY <4>1 DEF CanJump, TypeOK, IsTable, Row
        <4>. QED  BY <4>2, <4>3 DEF Hops
      <3>4. KnownKeys(hops) \in Pairs
        BY DEF KnownKeys, TypeOK, Pairs
      <3>5. secret \in Secret \cup {NoValue}
        <4>1. calls[c].secret \in Secret \cup {NoValue} /\ calls[c].offered \in Secret \cup {NoValue}
          BY <3>1 DEF CallRecord
        <4>2. keyring[calls[c].profile] \in Secret \cup {NoValue}
          BY <3>2 DEF TypeOK
        <4>. QED  BY <4>1, <4>2 DEF SecretFor
      <3>6. Goes(c, [To(c, "dial") EXCEPT !.hops = hops, !.known = KnownKeys(hops),
                       !.secret = IF calls[c].op = "answer" THEN To(c, "dial").secret
                           ELSE SecretFor(calls[c].profile, calls[c].row, calls[c].offered)])
            /\ guard' = guard
        BY <1>9, <2>2 DEF Resolve
      <3>7. To(c, "dial").secret = calls[c].secret
        BY <3>1 DEF To, CallRecord
      <3> HIDE DEF hops, secret
      <3>8. rec \in CallRecord /\ CallOK(rec)
        <4>1. rec \in CallRecord
          <5>1. rec = [calls[c] EXCEPT !.pc = "dial", !.hops = hops,
                                       !.known = KnownKeys(hops), !.secret = secret]
            BY <3>1 DEF To, CallRecord
          <5>2. "dial" \in Connecting \cup Importing
                             \cup {"idle", "forget", "list", "drop", "close"}
            BY DEF Connecting
          <5> HIDE DEF rec
          <5>. QED  BY <3>1, <3>3, <3>4, <3>5, <5>1, <5>2 DEF CallRecord
        <4>2. /\ rec.pc = "dial" /\ rec.op = calls[c].op /\ rec.profile = calls[c].profile
              /\ rec.row = calls[c].row
          BY <3>1 DEF CallRecord, To
        <4> HIDE DEF rec
        <4>. QED  BY <3>1, <3>2, <4>1, <4>2 DEF CallOK, Connecting
      <3> HIDE DEF rec
      <3>9. Goes(c, rec)
        BY <3>6, <3>7 DEF rec, hops, secret
      <3>. QED  BY <1>9, <3>6, <3>8, <3>9, GoesType DEF Resolve, TypeOK, tables, ghosts
    <2>. QED  BY <2>1, <2>2
  <1>10. ASSUME NEW c \in Call, Handshake(c)
        PROVE  TypeOK'
    <2>1. /\ calls[c] \in CallRecord /\ CallOK(calls[c]) /\ calls[c].pc = "dial"
          /\ calls[c].hops \in Seq(Host) /\ calls[c].hops # << >>
      BY <1>10 DEF TypeOK, Handshake, At, CallRecord
    <2> DEFINE h == Head(calls[c].hops)
               k == serves[h]
    <2>2. h \in Host /\ Tail(calls[c].hops) \in Seq(Host)
      BY <2>1
    <2>3. k \in Key
      BY <2>2 DEF TypeOK
    <2>4. calls[c].via \cup {<<h, k>>} \in Pairs
      BY <2>1, <2>2, <2>3 DEF CallRecord, Pairs
    <2> DEFINE on == [calls[c] EXCEPT !.via = @ \cup {<<h, k>>}, !.hops = Tail(@)]
               asks == [To(c, "challenge") EXCEPT !.shown = <<h, k>>]
    <2>5. Goes(c, on) \/ Goes(c, asks)
      BY <1>10 DEF Handshake
    <2> HIDE DEF h, k
    <2>6. on \in CallRecord /\ CallOK(on)
      BY <2>1, <2>2, <2>4 DEF CallRecord, CallOK, Connecting
    <2>7. asks \in CallRecord /\ CallOK(asks)
      <3>1. asks = [calls[c] EXCEPT !.pc = "challenge", !.shown = <<h, k>>]
        BY <2>1 DEF To, CallRecord
      <3>2. <<h, k>> \in Host \X Key
        BY <2>2, <2>3
      <3> HIDE DEF asks
      <3>. QED  BY <2>1, <3>1, <3>2 DEF CallRecord, CallOK, Connecting
    <2> HIDE DEF on, asks
    <2>. QED  BY <1>10, <2>5, <2>6, <2>7, GoesType DEF Handshake, TypeOK, tables, ghosts
  <1>11. ASSUME NEW c \in Call, SignsIn(c)
        PROVE  TypeOK'
    <2>1. Goes(c, To(c, "keep")) /\ calls[c].pc \in Connecting
      BY <1>11 DEF SignsIn, At, Connecting
    <2>2. To(c, "keep") \in CallRecord /\ CallOK(To(c, "keep"))
      BY <2>1, ToType DEF Connecting
    <2>. QED  BY <1>11, <2>1, <2>2, GoesType DEF SignsIn, TypeOK, tables
  <1>12. ASSUME NEW c \in Call, ConnectFails(c)
        PROVE  TypeOK'
    <2>1. Returns(c)
      BY <1>12 DEF ConnectFails
    <2>. QED  BY <1>12, <2>1, ReturnsType DEF ConnectFails, TypeOK, tables, ghosts
  <1>13. ASSUME NEW c \in Call, KeepSecret(c)
        PROVE  TypeOK'
    <2>1. Goes(c, To(c, "register")) /\ calls[c].pc \in Connecting
      BY <1>13 DEF KeepSecret, At, Connecting
    <2>2. To(c, "register") \in CallRecord /\ CallOK(To(c, "register"))
      BY <2>1, ToType DEF Connecting
    <2>3. keyring' \in [Profile -> Secret \cup {NoValue}]
      <3>1. calls[c].offered \in Secret \cup {NoValue}
        BY DEF TypeOK, CallRecord
      <3>. QED  BY <1>13, <3>1 DEF KeepSecret, Kept, TypeOK
    <2>. QED  BY <1>13, <2>1, <2>2, <2>3, GoesType DEF KeepSecret, TypeOK, ghosts
  <1>14. ASSUME NEW c \in Call, Register(c)
        PROVE  TypeOK'
    <2> DEFINE pc == IF calls[c].op = "reconnect" THEN "swap" ELSE "resume"
    <2>1. Goes(c, To(c, pc)) /\ calls[c].pc \in Connecting
      BY <1>14 DEF Register, At, Connecting
    <2>2. To(c, pc) \in CallRecord /\ CallOK(To(c, pc))
      BY <2>1, ToType DEF Connecting
    <2>3. calls[c].id \in Nat /\ calls[c].profile \in Profile
      BY <2>1 DEF TypeOK, CallRecord, CallOK
    <2>4. [profile |-> calls[c].profile, client |-> calls[c].id] \in SessionRecord
      BY <2>3 DEF SessionRecord
    <2>5. IsTable(sessions', Nat, SessionRecord)
      <3>1. IsTable(sessions, Nat, SessionRecord)
        BY DEF TypeOK
      <3>2. IsTable(With(sessions, calls[c].id,
                         [profile |-> calls[c].profile, client |-> calls[c].id]), Nat, SessionRecord)
        BY ZenonT(60), <2>3, <2>4, <3>1, WithTable
      <3>. QED  BY <1>14, <3>2 DEF Register
    <2> HIDE DEF pc
    <2>. QED  BY <1>14, <2>1, <2>2, <2>5, GoesType DEF Register, TypeOK, tables, ghosts
  <1>15. ASSUME NEW c \in Call, Resume(c)
        PROVE  TypeOK'
    <2>1. Returns(c) /\ calls[c].pc \in Connecting
      BY <1>15 DEF Resume, At, Connecting
    <2>2. calls[c].id \in Nat /\ calls[c].profile \in Profile
      BY <2>1 DEF TypeOK, CallRecord, CallOK
    <2>3. IsTable(tabs', Nat, Profile)
      <3>1. IsTable(tabs, Nat, Profile)
        BY DEF TypeOK
      <3>2. IsTable(With(tabs, calls[c].id, calls[c].profile), Nat, Profile)
        BY <2>2, <3>1, WithTable
      <3>. QED  BY <1>15, <3>1, <3>2 DEF Resume
    <2>. QED  BY <1>15, <2>1, <2>3, ReturnsType DEF Resume, TypeOK, tables
  <1>16. ASSUME NEW c \in Call, Challenge(c)
        PROVE  TypeOK'
    <2>1. Returns(c) /\ calls[c].pc = "challenge"
      BY <1>16 DEF Challenge, At
    <2>2. calls[c] \in CallRecord /\ CallOK(calls[c]) /\ calls[c].id \in Nat
      BY DEF TypeOK, CallRecord
    <2>3. /\ IsTable(pending', Nat, CallRecord)
          /\ \A ch \in DOMAIN pending' : pending'[ch].pc = "challenge" /\ CallOK(pending'[ch])
      <3>1. /\ IsTable(pending, Nat, CallRecord)
            /\ \A ch \in DOMAIN pending : pending[ch].pc = "challenge" /\ CallOK(pending[ch])
        BY DEF TypeOK
      <3>2. pending' = With(pending, calls[c].id, calls[c])
        BY <1>16 DEF Challenge
      <3>3. IsTable(pending', Nat, CallRecord)
        BY <2>2, <3>1, <3>2, WithTable
      <3>4. \A ch \in DOMAIN pending' : pending'[ch].pc = "challenge" /\ CallOK(pending'[ch])
        BY <2>1, <2>2, <3>1, <3>2 DEF With
      <3>. QED  BY <3>3, <3>4
    <2>. QED  BY <1>16, <2>1, <2>3, ReturnsType DEF Challenge, TypeOK, tables, ghosts
  <1>17. ASSUME NEW ch \in DOMAIN pending, Decline(ch) \/ \E c \in Call : Answer(c, ch)
        PROVE  TypeOK'
    <2>1. /\ IsTable(pending', Nat, CallRecord)
          /\ \A x \in DOMAIN pending' : pending'[x].pc = "challenge" /\ CallOK(pending'[x])
      <3>1. pending' = Restrict(pending, DOMAIN pending \ {ch})
        BY <1>17 DEF Answer, Decline
      <3>. QED  BY <3>1, RestrictTable DEF TypeOK
    <2>2. CASE Decline(ch)
      BY <2>1, <2>2 DEF Decline, TypeOK, tables, ghosts
    <2>3. ASSUME NEW c \in Call, Answer(c, ch)
          PROVE  TypeOK'
      <3> DEFINE old == pending[ch]
                 rec == [NoCall EXCEPT !.pc = "accept", !.op = "answer",
                                       !.profile = old.profile, !.row = old.row,
                                       !.offered = old.offered, !.secret = old.secret,
                                       !.shown = old.shown]
      <3>1. old \in CallRecord /\ CallOK(old) /\ old.pc = "challenge"
        BY DEF TypeOK, IsTable
      <3>2. Begins(c, rec)
        BY <2>3 DEF Answer
      <3> HIDE DEF old
      <3>3. rec \in CallRecord
        BY ZenonT(60), <3>1, NoCallType DEF CallRecord, Connecting
      <3>4. /\ rec.pc = "accept" /\ rec.op = "answer" /\ rec.profile = old.profile
            /\ rec.row = old.row /\ rec.shown = old.shown
        BY NoCallType DEF CallRecord
      <3> HIDE DEF rec
      <3>5. CallOK(rec)
        BY <3>1, <3>3, <3>4 DEF CallOK, Connecting
      <3>. QED  BY <2>1, <2>3, <3>2, <3>3, <3>5, BeginsType DEF Answer, TypeOK, tables, ghosts
    <2>. QED  BY <1>17, <2>2, <2>3
  <1>18. ASSUME NEW c \in Call, Accept(c)
        PROVE  TypeOK'
    <2> DEFINE rec == [To(c, "resolve") EXCEPT !.shown = NoValue]
    <2>1. calls[c] \in CallRecord /\ CallOK(calls[c]) /\ calls[c].pc = "accept"
      BY <1>18 DEF TypeOK, Accept, At
    <2>2. {calls[c].shown} \in Pairs
      BY <2>1 DEF CallOK, Connecting, Pairs
    <2>3. rec \in CallRecord /\ CallOK(rec)
      <3> DEFINE old == calls[c]
      <3>1. /\ old \in CallRecord /\ CallOK(old) /\ old.pc = "accept"
            /\ rec = [[old EXCEPT !.pc = "resolve"] EXCEPT !.shown = NoValue]
        BY <2>1 DEF To
      <3> HIDE DEF old, rec
      <3>2. rec \in CallRecord
        BY <3>1 DEF CallRecord, Connecting
      <3>3. /\ rec.pc = "resolve" /\ rec.op = old.op /\ rec.profile = old.profile
            /\ rec.row = old.row
        BY <3>1 DEF CallRecord
      <3>. QED  BY <3>1, <3>2, <3>3 DEF CallOK, Connecting
    <2>4. Goes(c, rec) /\ Trusts({calls[c].shown})
      BY <1>18 DEF Accept
    <2> HIDE DEF rec
    <2>. QED  BY <1>18, <2>2, <2>3, <2>4, GoesType, TrustsType DEF Accept, TypeOK, ghosts
  <1>19. ASSUME NEW c \in Call, NEW p \in Profile, Reconnect(c, p)
        PROVE  TypeOK'
    <2> DEFINE old == [s \in SessionsOf(p) |-> sessions[s].client]
               rec == [NoCall EXCEPT !.pc = "resolve", !.op = "reconnect", !.profile = p,
                                     !.row = profiles[p], !.stale = old]
    <2>1. old \in Maps
      <3>1. SessionsOf(p) \in SUBSET Nat /\ \A s \in SessionsOf(p) : sessions[s].client \in Nat
        BY DEF SessionsOf, TypeOK, IsTable, SessionRecord
      <3>2. old \in [SessionsOf(p) -> Nat]
        BY <3>1
      <3>. QED  BY <3>1, <3>2, MapIntro
    <2>2. profiles[p] \in Row
      BY <1>19 DEF Reconnect, TypeOK, IsTable
    <2>3. Begins(c, rec)
      BY <1>19 DEF Reconnect
    <2> HIDE DEF old
    <2>4. rec \in CallRecord /\ CallOK(rec)
      BY <2>1, <2>2, NoCallType DEF CallRecord, CallOK, Connecting
    <2> HIDE DEF rec
    <2>. QED  BY <1>19, <2>3, <2>4, BeginsType DEF Reconnect, TypeOK, tables, ghosts
  <1>20. ASSUME NEW c \in Call, NEW p \in Profile, RecentlyReconnected(c, p)
        PROVE  TypeOK'
    BY <1>20 DEF RecentlyReconnected, TypeOK, tables, ghosts
  <1>21. ASSUME NEW c \in Call, Swap(c)
        PROVE  TypeOK'
    <2>1. CASE Returns(c) /\ UNCHANGED sessions
      BY <1>21, <2>1, ReturnsType DEF Swap, TypeOK, tables, ghosts
    <2>2. CASE /\ sessions' = Replaced(c) /\ Goes(c, To(c, "close")) /\ guard' = guard
               /\ calls[c].id \in DOMAIN sessions
      <3>1. calls[c].pc \in Connecting
        BY <1>21 DEF Swap, At, Connecting
      <3>2. To(c, "close") \in CallRecord /\ CallOK(To(c, "close"))
        BY <3>1, ToType
      <3>3. \A s \in DOMAIN sessions : [sessions[s] EXCEPT !.client = sessions[calls[c].id].client]
                                         \in SessionRecord
        BY <2>2 DEF TypeOK, IsTable, SessionRecord
      <3>4. IsTable(sessions', Nat, SessionRecord)
        BY <2>2, <3>3 DEF Replaced, TypeOK, IsTable
      <3>. QED  BY <1>21, <2>2, <3>2, <3>4, GoesType DEF Swap, TypeOK, tables, ghosts
    <2>. QED  BY <1>21, <2>1, <2>2 DEF Swap
  <1>22. ASSUME NEW c \in Call, CloseStale(c) \/ Disconnect(c)
        PROVE  TypeOK'
    <2>1. Returns(c)
      BY <1>22 DEF CloseStale, Disconnect
    <2>. QED  BY <1>22, <2>1, ReturnsType DEF CloseStale, Disconnect, TypeOK, tables, ghosts
  <1>23. ASSUME NEW c \in Call, NEW s \in DOMAIN tabs, DisconnectSession(c, s)
        PROVE  TypeOK'
    <2>1. IsTable(tabs', Nat, Profile) /\ IsTable(sessions', Nat, SessionRecord)
      BY <1>23, RestrictTable DEF DisconnectSession, TypeOK
    <2>2. CASE s \in DOMAIN sessions
      <3> DEFINE old == [x \in {s} |-> sessions[x].client]
                 rec == [NoCall EXCEPT !.pc = "close", !.op = "disconnect", !.stale = old]
      <3>1. old \in Maps
        <4>1. {s} \in SUBSET Nat /\ \A x \in {s} : sessions[x].client \in Nat
          BY <2>2 DEF TypeOK, IsTable, SessionRecord
        <4>2. old \in [{s} -> Nat]
          BY <4>1
        <4>. QED  BY <4>1, <4>2, MapIntro
      <3>2. Begins(c, rec)
        BY <1>23, <2>2 DEF DisconnectSession
      <3> HIDE DEF old
      <3>3. rec \in CallRecord /\ CallOK(rec)
        BY ZenonT(60), <3>1, NoCallType DEF CallRecord, CallOK, Connecting
      <3> HIDE DEF rec
      <3>. QED  BY <1>23, <2>1, <3>2, <3>3, BeginsType DEF DisconnectSession, TypeOK, tables
    <2>3. CASE s \notin DOMAIN sessions
      BY <1>23, <2>1, <2>3 DEF DisconnectSession, TypeOK, tables
    <2>. QED  BY <2>2, <2>3
  <1>24. ASSUME Restart
        PROVE  TypeOK'
    <2>1. /\ IsTable(sessions', Nat, SessionRecord) /\ IsTable(tabs', Nat, Profile)
          /\ IsTable(pending', Nat, CallRecord) /\ DOMAIN pending' = {}
      BY <1>24 DEF Restart, IsTable, Restrict
    <2>2. calls' \in [Call -> CallRecord] /\ \A c \in Call : CallOK(calls'[c])
      <3>1. CallOK(NoCall)
        BY NoCallType, NoCallFields DEF CallOK, Connecting
      <3>. QED  BY <1>24, <3>1, NoCallType DEF Restart
    <2>. QED  BY <1>24, <2>1, <2>2 DEF Restart, TypeOK, tables
  <1>28. ASSUME NEW c \in Call, Forget(c)
         PROVE  TypeOK'
    <2>1. calls[c] \in CallRecord /\ CallOK(calls[c]) /\ calls[c].pc = "forget"
      BY <1>28 DEF Forget, At, TypeOK
    <2>2. Goes(c, To(c, "list"))
      BY <1>28 DEF Forget
    <2>3. To(c, "list") \in CallRecord /\ CallOK(To(c, "list"))
      BY <2>1 DEF To, CallRecord, CallOK, Connecting
    <2>4. keyring' \in [Profile -> Secret \cup {NoValue}]
      BY <1>28 DEF Forget, Forgotten, TypeOK
    <2>. QED  BY <1>28, <2>2, <2>3, <2>4, GoesType DEF Forget, TypeOK
  <1>29. ASSUME NEW c \in Call, ImportConfiguration(c)
         PROVE  TypeOK'
    <2>1. PICK f \in Bundles :
            Begins(c, [NoCall EXCEPT !.pc = "rows", !.op = "import", !.file = f,
                                     !.todo = DOMAIN f.rows])
      BY <1>29 DEF ImportConfiguration
    <2> DEFINE T == DOMAIN f.rows
               rec == [NoCall EXCEPT !.pc = "rows", !.op = "import", !.file = f, !.todo = T]
    <2>2. T \subseteq Profile /\ T \subseteq DOMAIN f.rows
      OBVIOUS
    <2> HIDE DEF T
    <2>3. rec \in CallRecord
      BY <2>2, NoCallType DEF CallRecord, Importing
    <2>4. CallOK(rec)
      BY <2>2, NoCallType, NoCallFields DEF CallRecord, CallOK, Connecting
    <2> HIDE DEF rec
    <2>5. Begins(c, rec)
      BY <2>1 DEF rec, T
    <2>. QED  BY <1>29, <2>3, <2>4, <2>5, BeginsType DEF ImportConfiguration, TypeOK, tables
  <1>30. ASSUME NEW c \in Call,
                ImportRow(c) \/ ImportTurns(c) \/ ImportChecks(c) \/ ImportLays(c)
         PROVE  TypeOK'
    <2>1. PICK pc \in Importing, q \in Profile \cup {NoValue}, T \in SUBSET Profile :
            ImportsOn(c, pc, q, T)
      BY <1>30, ImportSteps
    <2>2. calls[c] \in CallRecord /\ CallOK(calls[c])
      BY DEF TypeOK
    <2> DEFINE rec == [calls[c] EXCEPT !.pc = pc, !.profile = q, !.todo = T]
    <2>3. rec \in CallRecord
      <3>1. pc \in Connecting \cup Importing \cup {"idle", "forget", "list", "drop", "close"}
        OBVIOUS
      <3>. QED  BY ZenonT(60), <2>2, <3>1 DEF CallRecord
    <2>10. /\ rec.pc = pc /\ rec.op = calls[c].op /\ rec.file = calls[c].file
           /\ rec.todo = T /\ rec.profile = q
      BY <2>2 DEF CallRecord
    <2>4. CallOK(rec)
      <3> HIDE DEF rec
      <3>. QED  BY <2>1, <2>2, <2>10 DEF ImportsOn, CallOK, Connecting, Importing
    <2>5. Goes(c, rec)
      BY <2>1 DEF ImportsOn
    <2> HIDE DEF rec
    <2>6. /\ calls' \in [Call -> CallRecord] /\ \A d \in Call : CallOK(calls'[d])
      BY <2>3, <2>4, <2>5, GoesType
    <2>7. CASE ImportRow(c)
      <3>1. PICK p \in calls[c].todo : profiles' = With(profiles, p, calls[c].file.rows[p])
        BY <2>7 DEF ImportRow
      <3>2. p \in Profile /\ calls[c].file.rows[p] \in Row
        <4>1. calls[c].file \in Bundles /\ p \in DOMAIN calls[c].file.rows
          BY <2>2, <2>7, <3>1 DEF ImportRow, At, CallOK
        <4>. QED  BY <4>1
      <3>3. IsTable(profiles', Profile, Row)
        <4>1. PICK v \in Row : v = calls[c].file.rows[p]
          BY <3>2
        <4>2. IsTable(profiles, Profile, Row) /\ profiles' = With(profiles, p, v)
          BY <3>1, <4>1 DEF TypeOK
        <4>. QED  BY <3>2, <4>2, WithTable
      <3>. QED  BY <2>6, <2>7, <3>3 DEF ImportRow, TypeOK, ghosts
    <2>8. CASE ImportTurns(c) \/ ImportChecks(c)
      BY <2>6, <2>8 DEF ImportTurns, ImportChecks, TypeOK, tables, ghosts
    <2>9. CASE ImportLays(c)
      <3>1. calls[c].profile \in Profile
            /\ calls[c].file.secrets[calls[c].profile] \in Secret
        BY <2>2, <2>9 DEF ImportLays, At, CallOK
      <3>2. keyring' \in [Profile -> Secret \cup {NoValue}]
        BY <2>9, <3>1 DEF ImportLays, TypeOK
      <3>. QED  BY <2>6, <2>9, <3>2 DEF ImportLays, TypeOK, ghosts
    <2>. QED  BY <1>30, <2>7, <2>8, <2>9
  <1>31. ASSUME NEW c \in Call, ImportReturns(c)
         PROVE  TypeOK'
    BY <1>31, ReturnsType DEF ImportReturns, TypeOK, tables, ghosts
  <1>25. ASSUME UNCHANGED vars
        PROVE  TypeOK'
    BY <1>25 DEF vars, TypeOK
  <1>26. ASSUME NEW c \in Call, Command(c)
         PROVE  TypeOK'
    BY <1>2, <1>8, <1>17, <1>19, <1>20, <1>23, <1>26, <1>29 DEF Command
  <1>27. ASSUME NEW c \in Call, CallStep(c)
         PROVE  TypeOK'
    BY <1>3, <1>4, <1>9, <1>10, <1>11, <1>12, <1>13, <1>14, <1>15, <1>16, <1>18, <1>21,
       <1>22, <1>27, <1>28, <1>30, <1>31 DEF CallStep
  <1>. QED
    BY <1>1, <1>5, <1>6, <1>7, <1>17, <1>24, <1>25, <1>26, <1>27 DEF Next


-----------------------------------------------------------------------------
(* What the actions that begin or advance a call make of its record.       *)

Others(c) == \A d \in Call : d # c => calls'[d] = calls[d]

LEMMA GoesFields ==
  ASSUME TypeOK, NEW c \in Call, NEW rec, Goes(c, rec)
  PROVE  calls'[c] = rec /\ Others(c)
  BY DEF TypeOK, Goes, Others

LEMMA ReturnsFields ==
  ASSUME TypeOK, NEW c \in Call, Returns(c)
  PROVE  calls'[c] = NoCall /\ Others(c)
  BY GoesFields DEF Returns

(* The fields of a record that an action leaves as they were. *)
Keeps(r, q) ==
  /\ r.op = q.op /\ r.id = q.id /\ r.profile = q.profile /\ r.row = q.row
  /\ r.offered = q.offered /\ r.file = q.file /\ r.todo = q.todo

LEMMA ToFields ==
  ASSUME TypeOK, NEW c \in Call, NEW pc, Goes(c, To(c, pc))
  PROVE  /\ Others(c) /\ calls'[c].pc = pc /\ Keeps(calls'[c], calls[c])
         /\ calls'[c].known = calls[c].known /\ calls'[c].via = calls[c].via
         /\ calls'[c].stale = calls[c].stale /\ calls'[c].secret = calls[c].secret
  <1>1. calls'[c] = To(c, pc) /\ Others(c)
    BY GoesFields
  <1>2. calls[c] \in CallRecord
    BY DEF TypeOK
  <1>. QED  BY <1>1, <1>2 DEF To, CallRecord, Keeps

LEMMA BeginsFields ==
  ASSUME TypeOK, NEW c \in Call, NEW rec \in CallRecord, Begins(c, rec)
  PROVE  /\ calls[c].pc = "idle" /\ Others(c)
         /\ commands' = commands + 1 /\ calls'[c].id = commands + 1
         /\ calls'[c].pc = rec.pc /\ calls'[c].op = rec.op
         /\ calls'[c].profile = rec.profile /\ calls'[c].row = rec.row
         /\ calls'[c].offered = rec.offered /\ calls'[c].secret = rec.secret
         /\ calls'[c].known = rec.known /\ calls'[c].via = rec.via
         /\ calls'[c].stale = rec.stale
         /\ calls'[c].file = rec.file /\ calls'[c].todo = rec.todo
         /\ granted'[c] = trusted
         /\ \A d \in Call : d # c => granted'[d] = granted[d]
  <1>1. Goes(c, [rec EXCEPT !.id = commands + 1]) /\ calls[c].pc = "idle"
        /\ granted' = [granted EXCEPT ![c] = trusted] /\ commands' = commands + 1
    BY DEF Begins, At
  <1>2. calls'[c] = [rec EXCEPT !.id = commands + 1] /\ Others(c)
    BY <1>1, GoesFields
  <1>. QED  BY <1>1, <1>2 DEF CallRecord, TypeOK

(* What every new command starts with. *)
Begun(c) ==
  /\ calls[c].pc = "idle" /\ calls'[c].pc # "idle" /\ Others(c)
  /\ commands' = commands + 1 /\ calls'[c].id = commands + 1
  /\ calls'[c].known = {} /\ calls'[c].via = {}
  /\ granted'[c] = trusted /\ \A d \in Call : d # c => granted'[d] = granted[d]
  /\ UNCHANGED trusted

LEMMA ConnectBegins ==
  ASSUME TypeOK, NEW c \in Call, NEW p \in Profile, ConnectProfile(c, p)
  PROVE  /\ Begun(c) /\ calls'[c].pc = "resolve" /\ calls'[c].op = "connect"
         /\ calls'[c].profile = p /\ calls'[c].stale = << >>
  <1>1. PICK s \in Secret \cup {NoValue} :
          Begins(c, [NoCall EXCEPT !.pc = "resolve", !.op = "connect", !.profile = p,
                                   !.row = profiles[p], !.offered = s])
    BY DEF ConnectProfile
  <1> DEFINE row == profiles[p]
             rec == [NoCall EXCEPT !.pc = "resolve", !.op = "connect", !.profile = p,
                                   !.row = row, !.offered = s]
  <1>2. row \in Row
    BY DEF ConnectProfile, TypeOK, IsTable
  <1>3. Begins(c, rec) /\ UNCHANGED trusted
    BY <1>1 DEF ConnectProfile, tables
  <1> HIDE DEF row
  <1>4. /\ rec \in CallRecord
        /\ rec.pc = "resolve" /\ rec.op = "connect" /\ rec.profile = p
        /\ rec.known = {} /\ rec.via = {} /\ rec.stale = << >>
    BY <1>2, NoCallType, NoCallFields DEF CallRecord, Connecting
  <1> HIDE DEF rec
  <1>. QED  BY <1>3, <1>4, BeginsFields DEF Begun

LEMMA DeleteBegins ==
  ASSUME TypeOK, NEW c \in Call, NEW p \in Profile, DeleteProfile(c, p)
  PROVE  /\ Begun(c) /\ calls'[c].pc = "forget" /\ calls'[c].op = "delete"
         /\ calls'[c].profile = p /\ calls'[c].stale = << >>
  <1> DEFINE rec == [NoCall EXCEPT !.pc = "forget", !.op = "delete", !.profile = p]
  <1>1. Begins(c, rec) /\ UNCHANGED trusted
    BY DEF DeleteProfile
  <1>2. /\ rec \in CallRecord
        /\ rec.pc = "forget" /\ rec.op = "delete" /\ rec.profile = p
        /\ rec.known = {} /\ rec.via = {} /\ rec.stale = << >>
    BY NoCallType, NoCallFields DEF CallRecord
  <1> HIDE DEF rec
  <1>. QED  BY <1>1, <1>2, BeginsFields DEF Begun

LEMMA ImportBegins ==
  ASSUME TypeOK, NEW c \in Call, ImportConfiguration(c)
  PROVE  /\ Begun(c) /\ calls'[c].pc = "rows" /\ calls'[c].op = "import"
         /\ calls'[c].profile = NoValue /\ calls'[c].stale = << >>
         /\ \E f \in Bundles :
              /\ calls'[c].file = f /\ calls'[c].todo = DOMAIN f.rows
              /\ brought' = brought \cup {<<p, f.secrets[p]>> : p \in DOMAIN f.secrets}
  <1>1. PICK f \in Bundles :
          /\ Begins(c, [NoCall EXCEPT !.pc = "rows", !.op = "import", !.file = f,
                                      !.todo = DOMAIN f.rows])
          /\ brought' = brought \cup {<<p, f.secrets[p]>> : p \in DOMAIN f.secrets}
    BY DEF ImportConfiguration
  <1> DEFINE T == DOMAIN f.rows
             rec == [NoCall EXCEPT !.pc = "rows", !.op = "import", !.file = f, !.todo = T]
  <1>2. T \subseteq Profile
    BY ConstantsAssumption
  <1>3. Begins(c, rec) /\ UNCHANGED trusted
    BY <1>1 DEF ImportConfiguration, tables
  <1> HIDE DEF T
  <1>4. /\ rec \in CallRecord
        /\ rec.pc = "rows" /\ rec.op = "import" /\ rec.profile = NoValue
        /\ rec.known = {} /\ rec.via = {} /\ rec.stale = << >>
        /\ rec.file = f /\ rec.todo = T
    BY <1>2, NoCallType, NoCallFields DEF CallRecord, Importing
  <1> HIDE DEF rec
  <1>. QED  BY <1>1, <1>3, <1>4, BeginsFields DEF Begun, T

LEMMA AnswerBegins ==
  ASSUME TypeOK, NEW c \in Call, NEW ch \in DOMAIN pending, Answer(c, ch)
  PROVE  /\ Begun(c) /\ calls'[c].pc = "accept" /\ calls'[c].op = "answer"
         /\ calls'[c].profile = pending[ch].profile /\ calls'[c].row = pending[ch].row
         /\ calls'[c].offered = pending[ch].offered
         /\ calls'[c].secret = pending[ch].secret /\ calls'[c].stale = << >>
  <1> DEFINE old == pending[ch]
             rec == [NoCall EXCEPT !.pc = "accept", !.op = "answer", !.profile = old.profile,
                                   !.row = old.row, !.offered = old.offered,
                                   !.secret = old.secret, !.shown = old.shown]
  <1>1. old \in CallRecord
    BY DEF TypeOK, IsTable
  <1>2. Begins(c, rec) /\ UNCHANGED trusted
    BY DEF Answer, tables
  <1> HIDE DEF old
  <1>3. /\ rec \in CallRecord
        /\ rec.pc = "accept" /\ rec.op = "answer" /\ rec.profile = old.profile
        /\ rec.row = old.row /\ rec.offered = old.offered /\ rec.secret = old.secret
        /\ rec.known = {} /\ rec.via = {} /\ rec.stale = << >>
    BY ZenonT(60), <1>1, NoCallType, NoCallFields DEF CallRecord, Connecting
  <1> HIDE DEF rec
  <1>. QED  BY <1>2, <1>3, BeginsFields DEF Begun, old

LEMMA ReconnectBegins ==
  ASSUME TypeOK, NEW c \in Call, NEW p \in Profile, Reconnect(c, p)
  PROVE  /\ Begun(c) /\ calls'[c].pc = "resolve" /\ calls'[c].op = "reconnect"
         /\ calls'[c].profile = p
         /\ calls'[c].stale = [s \in SessionsOf(p) |-> sessions[s].client]
  <1> DEFINE row == profiles[p]
             old == [s \in SessionsOf(p) |-> sessions[s].client]
             rec == [NoCall EXCEPT !.pc = "resolve", !.op = "reconnect", !.profile = p,
                                   !.row = row, !.stale = old]
  <1>1. old \in Maps
    <2>1. SessionsOf(p) \in SUBSET Nat /\ \A s \in SessionsOf(p) : sessions[s].client \in Nat
      BY DEF SessionsOf, TypeOK, IsTable, SessionRecord
    <2>2. old \in [SessionsOf(p) -> Nat]
      BY <2>1
    <2>. QED  BY <2>1, <2>2, MapIntro
  <1>2. row \in Row
    BY DEF Reconnect, TypeOK, IsTable
  <1>3. Begins(c, rec) /\ UNCHANGED trusted
    BY DEF Reconnect, tables
  <1> HIDE DEF row, old
  <1>4. /\ rec \in CallRecord
        /\ rec.pc = "resolve" /\ rec.op = "reconnect" /\ rec.profile = p
        /\ rec.known = {} /\ rec.via = {} /\ rec.stale = old
    BY <1>1, <1>2, NoCallType, NoCallFields DEF CallRecord, Connecting
  <1> HIDE DEF rec
  <1>. QED  BY <1>3, <1>4, BeginsFields DEF Begun, old

LEMMA DisconnectBegins ==
  ASSUME TypeOK, NEW c \in Call, NEW s \in DOMAIN tabs, DisconnectSession(c, s)
  PROVE  \/ /\ s \in DOMAIN sessions
            /\ Begun(c) /\ calls'[c].pc = "close" /\ calls'[c].op = "disconnect"
            /\ calls'[c].profile = NoValue
            /\ calls'[c].stale = [x \in {s} |-> sessions[x].client]
         \/ s \notin DOMAIN sessions /\ UNCHANGED <<calls, granted, commands, trusted>>
  <1> DEFINE old == [x \in {s} |-> sessions[x].client]
             rec == [NoCall EXCEPT !.pc = "close", !.op = "disconnect", !.stale = old]
  <1>1. CASE s \notin DOMAIN sessions
    BY <1>1 DEF DisconnectSession, tables
  <1>2. CASE s \in DOMAIN sessions
    <2>1. old \in Maps
      <3>1. {s} \in SUBSET Nat /\ \A x \in {s} : sessions[x].client \in Nat
        BY <1>2 DEF TypeOK, IsTable, SessionRecord
      <3>2. old \in [{s} -> Nat]
        BY <3>1
      <3>. QED  BY <3>1, <3>2, MapIntro
    <2>2. Begins(c, rec) /\ UNCHANGED trusted
      BY <1>2 DEF DisconnectSession, tables
    <2> HIDE DEF old
    <2>3. /\ rec \in CallRecord
          /\ rec.pc = "close" /\ rec.op = "disconnect" /\ rec.profile = NoValue
          /\ rec.known = {} /\ rec.via = {} /\ rec.stale = old
      BY <2>1, NoCallType, NoCallFields DEF CallRecord
    <2> HIDE DEF rec
    <2>. QED  BY <1>2, <2>2, <2>3, BeginsFields DEF Begun, old
  <1>. QED  BY <1>1, <1>2

(* The steps of a call that do more to its record than move it on. *)
LEMMA ListFields ==
  ASSUME TypeOK, NEW c \in Call, ListSessions(c)
  PROVE  /\ Others(c) /\ Keeps(calls'[c], calls[c])
         /\ calls[c].pc = "list" /\ calls'[c].pc = "drop"
         /\ calls'[c].stale = [s \in SessionsOf(calls[c].profile) |-> s]
         /\ calls'[c].known = calls[c].known /\ calls'[c].via = calls[c].via
  <1> DEFINE old == [s \in SessionsOf(calls[c].profile) |-> s]
  <1>1. Goes(c, [To(c, "drop") EXCEPT !.stale = old]) /\ calls[c].pc = "list"
    BY DEF ListSessions, At
  <1> HIDE DEF old
  <1>2. calls'[c] = [To(c, "drop") EXCEPT !.stale = old] /\ Others(c)
    BY <1>1, GoesFields
  <1>3. calls'[c] = [calls[c] EXCEPT !.pc = "drop", !.stale = old]
    BY <1>2 DEF To, CallRecord, TypeOK
  <1>. QED  BY <1>1, <1>2, <1>3 DEF CallRecord, TypeOK, Keeps, old

LEMMA ResolveFields ==
  ASSUME TypeOK, NEW c \in Call, Resolve(c)
  PROVE  /\ calls[c].pc = "resolve"
         /\ \/ Returns(c)
            \/ /\ Others(c) /\ Keeps(calls'[c], calls[c]) /\ UNCHANGED guard
               /\ calls'[c].pc = "dial" /\ calls'[c].stale = calls[c].stale
               /\ calls'[c].secret =
                    IF calls[c].op = "answer" THEN calls[c].secret
                    ELSE SecretFor(calls[c].profile, calls[c].row, calls[c].offered)
               /\ calls'[c].known \subseteq trusted /\ calls'[c].via = calls[c].via
  <1>1. calls[c].pc = "resolve" /\ calls[c] \in CallRecord
    BY DEF Resolve, At, TypeOK
  <1>2. CASE Returns(c)
    BY <1>1, <1>2
  <1>3. CASE ~Returns(c)
    <2> DEFINE hops == Hops(calls[c].row)
               known == KnownKeys(hops)
               secret == IF calls[c].op = "answer" THEN To(c, "dial").secret
                         ELSE SecretFor(calls[c].profile, calls[c].row, calls[c].offered)
    <2>1. /\ Goes(c, [To(c, "dial") EXCEPT !.hops = hops, !.known = known,
                                           !.secret = secret])
          /\ UNCHANGED guard
      BY <1>3 DEF Resolve
    <2>2. known \subseteq trusted
      BY DEF KnownKeys
    <2>3. To(c, "dial").secret = calls[c].secret
      BY <1>1 DEF To, CallRecord
    <2> HIDE DEF hops, known, secret
    <2>4. /\ calls'[c] = [To(c, "dial") EXCEPT !.hops = hops, !.known = known,
                                               !.secret = secret]
          /\ Others(c)
      BY <2>1, GoesFields
    <2>5. calls'[c] = [calls[c] EXCEPT !.pc = "dial", !.hops = hops, !.known = known,
                                       !.secret = secret]
      BY <1>1, <2>4 DEF To, CallRecord
    <2>6. /\ Keeps(calls'[c], calls[c]) /\ calls'[c].pc = "dial"
          /\ calls'[c].stale = calls[c].stale /\ calls'[c].secret = secret
          /\ calls'[c].known = known /\ calls'[c].via = calls[c].via
      BY <1>1, <2>5 DEF CallRecord, Keeps
    <2>. QED  BY <1>1, <2>1, <2>2, <2>3, <2>4, <2>6 DEF secret
  <1>. QED  BY <1>2, <1>3

LEMMA HandshakeFields ==
  ASSUME TypeOK, NEW c \in Call, Handshake(c)
  PROVE  /\ calls[c].pc = "dial" /\ calls'[c].pc \in {"dial", "challenge"}
         /\ Others(c) /\ Keeps(calls'[c], calls[c])
         /\ calls'[c].stale = calls[c].stale /\ calls'[c].secret = calls[c].secret
         /\ calls'[c].known = calls[c].known
         /\ calls'[c].via \subseteq calls[c].via \cup calls[c].known
  <1> DEFINE h == Head(calls[c].hops)
             k == serves[h]
             pair == <<h, k>>
  <1>1. calls[c].pc = "dial" /\ calls[c] \in CallRecord
    BY DEF Handshake, At, TypeOK
  <1>2. CASE /\ Classify(calls[c].known, h, k) = "Trusted"
             /\ Goes(c, [calls[c] EXCEPT !.via = @ \cup {pair}, !.hops = Tail(@)])
    <2>1. pair \in calls[c].known
      BY <1>2 DEF Classify
    <2> HIDE DEF h, k, pair
    <2>2. calls'[c] = [calls[c] EXCEPT !.via = @ \cup {pair}, !.hops = Tail(@)] /\ Others(c)
      BY <1>2, GoesFields
    <2>3. /\ calls'[c].pc = "dial" /\ Keeps(calls'[c], calls[c])
          /\ calls'[c].stale = calls[c].stale /\ calls'[c].secret = calls[c].secret
          /\ calls'[c].known = calls[c].known /\ calls'[c].via = calls[c].via \cup {pair}
      BY <1>1, <2>2 DEF CallRecord, Keeps
    <2>. QED  BY <1>1, <2>1, <2>2, <2>3
  <1>3. CASE Goes(c, [To(c, "challenge") EXCEPT !.shown = pair])
    <2> HIDE DEF h, k, pair
    <2>1. calls'[c] = [To(c, "challenge") EXCEPT !.shown = pair] /\ Others(c)
      BY <1>3, GoesFields
    <2>2. calls'[c] = [calls[c] EXCEPT !.pc = "challenge", !.shown = pair]
      BY <1>1, <2>1 DEF To, CallRecord
    <2>. QED  BY <1>1, <2>1, <2>2 DEF CallRecord, Keeps
  <1>. QED  BY <1>2, <1>3 DEF Handshake

LEMMA AcceptFields ==
  ASSUME TypeOK, NEW c \in Call, Accept(c)
  PROVE  /\ calls[c].pc = "accept" /\ calls'[c].pc = "resolve"
         /\ Others(c) /\ Keeps(calls'[c], calls[c])
         /\ calls'[c].stale = calls[c].stale /\ calls'[c].secret = calls[c].secret
         /\ calls'[c].known = calls[c].known /\ calls'[c].via = calls[c].via
         /\ {calls[c].shown} \in Pairs /\ Trusts({calls[c].shown})
  <1>1. calls[c].pc = "accept" /\ calls[c] \in CallRecord /\ CallOK(calls[c])
    BY DEF Accept, At, TypeOK
  <1>2. Goes(c, [To(c, "resolve") EXCEPT !.shown = NoValue]) /\ Trusts({calls[c].shown})
    BY DEF Accept
  <1>3. calls'[c] = [To(c, "resolve") EXCEPT !.shown = NoValue] /\ Others(c)
    BY <1>2, GoesFields
  <1>4. calls'[c] = [calls[c] EXCEPT !.pc = "resolve", !.shown = NoValue]
    BY <1>1, <1>3 DEF To, CallRecord
  <1>5. {calls[c].shown} \in Pairs
    BY <1>1 DEF CallOK, Connecting, Pairs
  <1>. QED  BY <1>1, <1>2, <1>3, <1>4, <1>5 DEF CallRecord, Keeps

LEMMA ForgetFields ==
  ASSUME TypeOK, NEW c \in Call, Forget(c)
  PROVE  /\ calls[c].pc = "forget" /\ calls'[c].pc = "list"
         /\ Others(c) /\ Keeps(calls'[c], calls[c])
         /\ calls'[c].stale = calls[c].stale
         /\ calls'[c].known = calls[c].known /\ calls'[c].via = calls[c].via
  BY ToFields DEF Forget, At

(* What an import goes on with. *)
ImportsOnly(c) ==
  /\ Others(c) /\ calls[c].pc \in Importing /\ calls'[c].pc \in Importing
  /\ calls[c].op = "import" /\ calls'[c].op = "import"
  /\ calls'[c].id = calls[c].id /\ calls'[c].file = calls[c].file
  /\ calls'[c].stale = calls[c].stale
  /\ calls'[c].known = calls[c].known /\ calls'[c].via = calls[c].via
  /\ UNCHANGED <<trusted, sessions, pending, guard, closed, granted, ghosts, commands>>

LEMMA ImportFields ==
  ASSUME TypeOK, NEW c \in Call,
         ImportRow(c) \/ ImportTurns(c) \/ ImportChecks(c) \/ ImportLays(c)
  PROVE  /\ ImportsOnly(c)
         /\ \E pc \in Importing, q \in Profile \cup {NoValue}, T \in SUBSET Profile :
              /\ ImportsOn(c, pc, q, T)
              /\ calls'[c].pc = pc /\ calls'[c].profile = q /\ calls'[c].todo = T
  <1>1. PICK pc \in Importing, q \in Profile \cup {NoValue}, T \in SUBSET Profile :
          ImportsOn(c, pc, q, T)
    BY ImportSteps
  <1> DEFINE rec == [calls[c] EXCEPT !.pc = pc, !.profile = q, !.todo = T]
  <1>2. calls'[c] = rec /\ Others(c)
    BY <1>1, GoesFields DEF ImportsOn
  <1>3. calls[c] \in CallRecord
    BY DEF TypeOK
  <1>4. /\ rec.pc = pc /\ rec.profile = q /\ rec.todo = T
        /\ rec.op = calls[c].op /\ rec.id = calls[c].id /\ rec.file = calls[c].file
        /\ rec.stale = calls[c].stale /\ rec.known = calls[c].known /\ rec.via = calls[c].via
    BY <1>3 DEF CallRecord
  <1>5. UNCHANGED <<trusted, sessions, pending, guard, closed, granted, ghosts, commands>>
    BY DEF ImportRow, ImportTurns, ImportChecks, ImportLays, tables
  <1> HIDE DEF rec
  <1>. QED  BY <1>1, <1>2, <1>4, <1>5 DEF ImportsOn, ImportsOnly

(* Every action but these five kinds is a step of one call. *)
LEMMA CommandBegins ==
  ASSUME TypeOK, NEW c \in Call, Command(c)
  PROVE  Begun(c) \/ UNCHANGED <<calls, granted, trusted>>
  <1>1. ASSUME NEW p \in Profile, RecentlyReconnected(c, p)
        PROVE  UNCHANGED <<calls, granted, trusted>>
    BY <1>1 DEF RecentlyReconnected, tables
  <1>. QED  BY <1>1, ConnectBegins, DeleteBegins, AnswerBegins, ReconnectBegins,
               DisconnectBegins, ImportBegins DEF Command

-----------------------------------------------------------------------------
(* Connections. *)

(* The keys a call has read, and those it signed in to, were trusted while *)
(* it ran; and so are all that are trusted now.                            *)
TrustInv == \A c \in Call :
  /\ calls[c].pc # "idle" => trusted \subseteq granted[c]
  /\ calls[c].known \subseteq granted[c]
  /\ calls[c].via \subseteq granted[c]

LEMMA TrustInit == Init => TrustInv
  BY NoCallFields DEF Init, TrustInv

LEMMA TrustGoes ==
  ASSUME TypeOK, TrustInv, NEW c \in Call, Others(c),
         calls'[c].known \subseteq granted[c], calls'[c].via \subseteq granted[c],
         calls'[c].pc # "idle" => calls[c].pc # "idle",
         UNCHANGED <<trusted, granted>>
  PROVE  TrustInv'
  BY DEF Others, TrustInv

LEMMA TrustStep == TypeOK /\ TrustInv /\ [Next]_vars => TrustInv'
  <1> SUFFICES ASSUME TypeOK, TrustInv, [Next]_vars
               PROVE  TrustInv'
    OBVIOUS
  <1>1. ASSUME UNCHANGED <<trusted, granted, calls>>
        PROVE  TrustInv'
    BY <1>1 DEF TrustInv
  <1>2. ASSUME NEW h \in Host, RemoveTrustedHost(h)
        PROVE  TrustInv'
    <2>1. trusted' \subseteq trusted /\ UNCHANGED <<calls, granted>>
      BY <1>2 DEF RemoveTrustedHost
    <2>. QED  BY <2>1 DEF TrustInv
  <1>3. ASSUME NEW new \in Pairs, Trusts(new),
               \A c \in Call : /\ calls'[c].known = calls[c].known
                               /\ calls'[c].via = calls[c].via
                               /\ calls'[c].pc # "idle" => calls[c].pc # "idle"
        PROVE  TrustInv'
    <2>1. /\ trusted' \subseteq trusted \cup new
          /\ \A c \in Call : granted'[c] = granted[c] \cup new
      BY <1>3, TrustsType
    <2>. QED  BY <1>3, <2>1 DEF TrustInv
  <1>4. CASE ImportKnownHosts
    <2>1. PICK new \in Files : Trusts(new)
      BY <1>4 DEF ImportKnownHosts
    <2>2. new \in Pairs /\ UNCHANGED calls
      BY <1>4, ConstantsAssumption DEF ImportKnownHosts, Pairs
    <2>. QED  BY <1>3, <2>1, <2>2
  <1>5. ASSUME NEW c \in Call, Accept(c)
        PROVE  TrustInv'
    BY <1>3, <1>5, AcceptFields DEF Others
  <1>6. ASSUME NEW c \in Call, Command(c)
        PROVE  TrustInv'
    <2>1. CASE Begun(c)
      BY <2>1 DEF Begun, Others, TrustInv
    <2>. QED  BY <1>1, <1>6, <2>1, CommandBegins
  <1>7. ASSUME NEW c \in Call, NEW pc, calls[c].pc # "idle", Goes(c, To(c, pc)),
               UNCHANGED <<trusted, granted>>
        PROVE  TrustInv'
    BY <1>7, ToFields, TrustGoes DEF TrustInv
  <1>8. ASSUME NEW c \in Call, Returns(c), UNCHANGED <<trusted, granted>>
        PROVE  TrustInv'
    BY <1>8, ReturnsFields, NoCallFields, TrustGoes
  <1>9. ASSUME NEW c \in Call, ListSessions(c)
        PROVE  TrustInv'
    <2>1. UNCHANGED <<trusted, granted>>
      BY <1>9 DEF ListSessions, tables
    <2>. QED  BY <1>9, <2>1, ListFields, TrustGoes DEF TrustInv
  <1>10. ASSUME NEW c \in Call, Resolve(c)
         PROVE  TrustInv'
    <2>1. UNCHANGED <<trusted, granted>>
      BY <1>10 DEF Resolve, tables
    <2>. QED  BY <1>8, <1>10, <2>1, ResolveFields, TrustGoes DEF TrustInv
  <1>11. ASSUME NEW c \in Call, Handshake(c)
         PROVE  TrustInv'
    <2>1. UNCHANGED <<trusted, granted>>
      BY <1>11 DEF Handshake, tables
    <2>. QED  BY <1>11, <2>1, HandshakeFields, TrustGoes DEF TrustInv
  <1>12. ASSUME NEW c \in Call, CallStep(c)
         PROVE  TrustInv'
    <2>1. CASE DropSessions(c) \/ ConnectFails(c) \/ Resume(c) \/ Challenge(c) \/ CloseStale(c)
               \/ Disconnect(c)
      BY <1>8, <2>1 DEF DropSessions, ConnectFails, Resume, Challenge, CloseStale, Disconnect,
                        tables
    <2>2. CASE SignsIn(c) \/ KeepSecret(c) \/ Forget(c)
      BY <1>7, <2>2 DEF SignsIn, KeepSecret, Forget, At, tables
    <2>5. CASE ImportRow(c) \/ ImportTurns(c) \/ ImportChecks(c) \/ ImportLays(c)
      <3>1. ImportsOnly(c)
        BY <2>5, ImportFields
      <3>. QED  BY <3>1, TrustGoes DEF ImportsOnly, Importing, TrustInv
    <2>6. CASE ImportReturns(c)
      BY <1>8, <2>6 DEF ImportReturns, tables
    <2>3. CASE Register(c)
      <3>1. calls[c].pc = "register" /\ UNCHANGED <<trusted, granted>>
            /\ Goes(c, To(c, IF calls[c].op = "reconnect" THEN "swap" ELSE "resume"))
        BY <2>3 DEF Register, At, tables
      <3>. QED  BY <1>7, <3>1
    <2>4. CASE Swap(c)
      BY <1>7, <1>8, <2>4 DEF Swap, At, tables
    <2>. QED  BY <1>5, <1>9, <1>10, <1>11, <1>12, <2>1, <2>2, <2>3, <2>4, <2>5, <2>6
              DEF CallStep
  <1>13. CASE Restart
    BY <1>13, NoCallFields DEF Restart, TrustInv
  <1>14. CASE \/ \E p \in Profile : SaveProfile(p)
              \/ \E ch \in DOMAIN pending : Decline(ch)
              \/ ServerChangesKey \/ UNCHANGED vars
    BY <1>1, <1>14 DEF SaveProfile, Decline, ServerChangesKey, tables, vars
  <1>. QED  BY <1>2, <1>4, <1>6, <1>12, <1>13, <1>14 DEF Next

(* connect, for any keys, servers and commands: no hop of a connection     *)
(* signs in to a server whose key was not trusted while the command ran.   *)
THEOREM TrustComesFirst == Spec => []ConnectsToTrusted
  <1>1. Init => TypeOK /\ TrustInv
    BY TypesInit, TrustInit
  <1>2. TypeOK /\ TrustInv /\ [Next]_vars => TypeOK' /\ TrustInv'
    BY TypesStep, TrustStep
  <1>3. TrustInv => ConnectsToTrusted
    BY DEF TrustInv, ConnectsToTrusted
  <1>. QED  BY <1>1, <1>2, <1>3, PTL DEF Spec

-----------------------------------------------------------------------------
(* Secrets. *)

(* From the time a call knows its secret, it is the one the user gave, if  *)
(* the user gave one; and a call that is about to keep its secret has been *)
(* signed in with it.  The secrets an import has left are those of a file  *)
(* the user imported.                                                      *)
SecretSettled(r) == r.offered # NoValue /\ r.row.auth = "password" => r.secret = r.offered

SettledAt(r) ==
  \/ r.pc \in {"dial", "challenge", "keep", "accept"}
  \/ r.pc = "resolve" /\ r.op = "answer"
  => SecretSettled(r)

KeepsAccepted(r) ==
  /\ r.pc = "keep" /\ r.secret # NoValue => <<r.profile, r.secret>> \in accepted
  /\ r.pc \in {"rows", "secrets", "lay"} =>
       \A p \in DOMAIN r.file.secrets : <<p, r.file.secrets[p]>> \in brought

SecretInv ==
  /\ \A c \in Call : SettledAt(calls[c]) /\ KeepsAccepted(calls[c])
  /\ \A ch \in DOMAIN pending : SecretSettled(pending[ch])
  /\ SecretsWereAccepted

LEMMA SecretInit == Init => SecretInv
  <1> SUFFICES ASSUME Init PROVE SecretInv
    OBVIOUS
  <1>1. DOMAIN pending = {}
    BY DEF Init, Restrict
  <1>2. SecretsWereAccepted
    BY DEF Init, SecretsWereAccepted
  <1>. QED  BY <1>1, <1>2, NoCallFields DEF Init, SecretInv, SettledAt, KeepsAccepted

LEMMA SecretGoes ==
  ASSUME SecretInv, NEW c \in Call, Others(c), accepted \subseteq accepted',
         brought \subseteq brought',
         SettledAt(calls'[c]), KeepsAccepted(calls[c])',
         UNCHANGED <<pending, keyring>>
  PROVE  SecretInv'
  BY DEF Others, SecretInv, SecretsWereAccepted, KeepsAccepted

LEMMA SecretReturns ==
  ASSUME TypeOK, SecretInv, NEW c \in Call, Returns(c),
         UNCHANGED <<pending, keyring, accepted, brought>>
  PROVE  SecretInv'
  <1>1. calls'[c] = NoCall /\ Others(c)
    BY ReturnsFields
  <1>2. SettledAt(calls'[c]) /\ KeepsAccepted(calls[c])'
    BY <1>1, NoCallFields DEF SettledAt, KeepsAccepted
  <1>. QED  BY <1>1, <1>2, SecretGoes

LEMMA SecretCalls ==
  ASSUME TypeOK, SecretInv, NEW c \in Call, CallStep(c)
  PROVE  SecretInv'
  <1>1. CASE DropSessions(c) \/ ConnectFails(c) \/ Resume(c) \/ CloseStale(c) \/ Disconnect(c)
    BY <1>1, SecretReturns DEF DropSessions, ConnectFails, Resume, CloseStale, Disconnect,
                               tables, ghosts
  <1>2. CASE ListSessions(c)
    <2>1. UNCHANGED <<pending, keyring, accepted, brought>>
      BY <1>2 DEF ListSessions, tables, ghosts
    <2>2. SettledAt(calls'[c]) /\ KeepsAccepted(calls[c])'
      BY <1>2, ListFields DEF SettledAt, KeepsAccepted
    <2>. QED  BY <1>2, <2>1, <2>2, ListFields, SecretGoes
  <1>3. CASE Resolve(c)
    <2>1. UNCHANGED <<pending, keyring, accepted, brought>>
      BY <1>3 DEF Resolve, tables, ghosts
    <2>2. CASE ~Returns(c)
      <3>1. /\ calls'[c].pc = "dial" /\ Keeps(calls'[c], calls[c]) /\ Others(c)
            /\ calls'[c].secret =
                 IF calls[c].op = "answer" THEN calls[c].secret
                 ELSE SecretFor(calls[c].profile, calls[c].row, calls[c].offered)
            /\ calls[c].pc = "resolve"
        BY <1>3, <2>2, ResolveFields
      <3>2. SecretSettled(calls'[c])
        BY <3>1 DEF SecretFor, SecretSettled, SecretInv, SettledAt, Keeps
      <3>3. SettledAt(calls'[c]) /\ KeepsAccepted(calls[c])'
        BY <3>1, <3>2 DEF SettledAt, KeepsAccepted
      <3>. QED  BY <2>1, <3>1, <3>3, SecretGoes
    <2>. QED  BY <2>1, <2>2, SecretReturns
  <1>4. CASE Handshake(c)
    <2>1. UNCHANGED <<pending, keyring, accepted, brought>>
      BY <1>4 DEF Handshake, tables, ghosts
    <2>2. SettledAt(calls'[c]) /\ KeepsAccepted(calls[c])'
      BY <1>4, HandshakeFields DEF SecretInv, SettledAt, SecretSettled, KeepsAccepted, Keeps
    <2>. QED  BY <1>4, <2>1, <2>2, HandshakeFields, SecretGoes
  <1>5. CASE SignsIn(c)
    <2>1. /\ calls[c].pc = "dial" /\ Goes(c, To(c, "keep"))
          /\ UNCHANGED <<pending, keyring, brought>>
          /\ accepted' = IF calls[c].secret = NoValue THEN accepted
                         ELSE accepted \cup {<<calls[c].profile, calls[c].secret>>}
      BY <1>5 DEF SignsIn, At, tables
    <2>2. /\ Others(c) /\ calls'[c].pc = "keep" /\ Keeps(calls'[c], calls[c])
          /\ calls'[c].secret = calls[c].secret
      BY <2>1, ToFields
    <2>3. SettledAt(calls'[c])
      BY <2>1, <2>2 DEF SecretInv, SettledAt, SecretSettled, Keeps
    <2>4. KeepsAccepted(calls[c])'
      BY <2>1, <2>2 DEF KeepsAccepted, Keeps
    <2>. QED  BY <2>1, <2>2, <2>3, <2>4, SecretGoes
  <1>6. CASE KeepSecret(c)
    <2>1. /\ calls[c].pc = "keep" /\ Goes(c, To(c, "register")) /\ UNCHANGED <<pending, accepted, brought>>
          /\ keyring' = Kept(c)
      BY <1>6 DEF KeepSecret, At, ghosts
    <2>2. /\ Others(c) /\ calls'[c].pc = "register"
      BY <2>1, ToFields
    <2>3. SettledAt(calls'[c]) /\ KeepsAccepted(calls[c])'
      BY <2>2 DEF SettledAt, KeepsAccepted
    <2>4. SecretsWereAccepted'
      <3> SUFFICES ASSUME NEW p \in Profile, keyring'[p] # NoValue
                   PROVE  <<p, keyring'[p]>> \in accepted \cup brought
        BY <2>1 DEF SecretsWereAccepted
      <3>1. CASE keyring'[p] = keyring[p]
        BY <3>1 DEF SecretInv, SecretsWereAccepted
      <3>2. CASE keyring'[p] # keyring[p]
        <4>1. /\ calls[c].offered # NoValue /\ calls[c].row.auth = "password"
              /\ p = calls[c].profile /\ keyring'[p] = calls[c].offered
          BY <2>1, <3>2 DEF Kept, TypeOK
        <4>2. calls[c].secret = calls[c].offered
          BY <2>1, <4>1 DEF SecretInv, SettledAt, SecretSettled
        <4>. QED  BY <2>1, <4>1, <4>2 DEF SecretInv, KeepsAccepted
      <3>. QED  BY <3>1, <3>2
    <2>. QED  BY <2>1, <2>2, <2>3, <2>4 DEF SecretInv, KeepsAccepted, Others
  <1>7. CASE Register(c)
    <2>1. /\ Goes(c, To(c, IF calls[c].op = "reconnect" THEN "swap" ELSE "resume"))
          /\ UNCHANGED <<pending, keyring, accepted, brought>>
      BY <1>7 DEF Register, tables, ghosts
    <2>2. Others(c) /\ calls'[c].pc \in {"swap", "resume"}
      BY <2>1, ToFields
    <2>3. SettledAt(calls'[c]) /\ KeepsAccepted(calls[c])'
      BY <2>2 DEF SettledAt, KeepsAccepted
    <2>. QED  BY <2>1, <2>2, <2>3, SecretGoes
  <1>8. CASE Challenge(c)
    <2>1. /\ calls[c].pc = "challenge" /\ Returns(c) /\ UNCHANGED <<keyring, accepted, brought>>
          /\ pending' = With(pending, calls[c].id, calls[c])
      BY <1>8 DEF Challenge, At, tables, ghosts
    <2>2. SecretSettled(calls[c])
      BY <2>1 DEF SecretInv, SettledAt
    <2>3. \A ch \in DOMAIN pending' : SecretSettled(pending'[ch])
      BY <2>1, <2>2 DEF SecretInv, With
    <2>4. \A d \in Call : SettledAt(calls'[d]) /\ KeepsAccepted(calls[d])'
      BY <2>1, ReturnsFields, NoCallFields
         DEF SecretInv, SettledAt, KeepsAccepted, Others
    <2>. QED  BY <2>1, <2>3, <2>4 DEF SecretInv, SecretsWereAccepted
  <1>9. CASE Accept(c)
    <2>1. UNCHANGED <<pending, keyring, accepted, brought>>
      BY <1>9 DEF Accept, ghosts
    <2>2. SettledAt(calls'[c]) /\ KeepsAccepted(calls[c])'
      BY <1>9, AcceptFields DEF SecretInv, SettledAt, SecretSettled, KeepsAccepted, Keeps
    <2>. QED  BY <1>9, <2>1, <2>2, AcceptFields, SecretGoes
  <1>10. CASE Swap(c)
    <2>1. UNCHANGED <<pending, keyring, accepted, brought>>
      BY <1>10 DEF Swap, tables, ghosts
    <2>2. CASE Goes(c, To(c, "close"))
      <3>1. Others(c) /\ calls'[c].pc = "close"
        BY <2>2, ToFields
      <3>2. SettledAt(calls'[c]) /\ KeepsAccepted(calls[c])'
        BY <3>1 DEF SettledAt, KeepsAccepted
      <3>. QED  BY <2>1, <3>1, <3>2, SecretGoes
    <2>. QED  BY <1>10, <2>1, <2>2, SecretReturns DEF Swap
  <1>11. CASE Forget(c)
    <2>1. /\ UNCHANGED <<pending, accepted, brought>>
          /\ \A p \in Profile : keyring'[p] = keyring[p] \/ keyring'[p] = NoValue
      BY <1>11 DEF Forget, Forgotten, TypeOK
    <2>2. SettledAt(calls'[c]) /\ KeepsAccepted(calls[c])' /\ Others(c)
      BY <1>11, ForgetFields DEF SettledAt, KeepsAccepted
    <2>3. SecretsWereAccepted'
      BY <2>1 DEF SecretInv, SecretsWereAccepted
    <2>. QED  BY <2>1, <2>2, <2>3 DEF SecretInv, KeepsAccepted, Others
  <1>12. CASE ImportRow(c) \/ ImportTurns(c) \/ ImportChecks(c) \/ ImportLays(c)
    <2>1. ImportsOnly(c)
      BY <1>12, ImportFields
    <2>2. UNCHANGED <<pending, accepted, brought>>
      BY <2>1 DEF ImportsOnly, ghosts
    <2>3. SettledAt(calls'[c]) /\ KeepsAccepted(calls[c])'
      BY <2>1, <2>2 DEF ImportsOnly, Importing, SecretInv, SettledAt, KeepsAccepted
    <2>4. CASE UNCHANGED keyring
      BY <2>1, <2>2, <2>3, <2>4, SecretGoes DEF ImportsOnly
    <2>5. CASE ImportLays(c)
      <3>1. PICK q : q = calls[c].profile
        OBVIOUS
      <3>2. /\ calls[c].pc = "lay"
            /\ keyring' = [keyring EXCEPT ![q] = calls[c].file.secrets[q]]
        BY <2>5, <3>1 DEF ImportLays, At
      <3>3. q \in DOMAIN calls[c].file.secrets
        BY <3>1, <3>2 DEF TypeOK, CallOK
      <3>4. <<q, calls[c].file.secrets[q]>> \in brought
        BY <3>2, <3>3 DEF SecretInv, KeepsAccepted
      <3>5. \A p \in Profile : p # q => keyring'[p] = keyring[p]
        BY <3>2 DEF TypeOK
      <3>6. q \in Profile => keyring'[q] = calls[c].file.secrets[q]
        BY <3>2 DEF TypeOK
      <3>7. SecretsWereAccepted'
        BY <2>2, <3>4, <3>5, <3>6 DEF SecretInv, SecretsWereAccepted
      <3>. QED  BY <2>1, <2>2, <2>3, <3>7 DEF ImportsOnly, SecretInv, KeepsAccepted, Others
    <2>. QED  BY <1>12, <2>4, <2>5 DEF ImportRow, ImportTurns, ImportChecks, tables
  <1>13. CASE ImportReturns(c)
    BY <1>13, SecretReturns DEF ImportReturns, tables, ghosts
  <1>. QED  BY <1>1, <1>2, <1>3, <1>4, <1>5, <1>6, <1>7, <1>8, <1>9, <1>10, <1>11, <1>12,
               <1>13 DEF CallStep

LEMMA SecretCommands ==
  ASSUME TypeOK, SecretInv, NEW c \in Call, Command(c)
  PROVE  SecretInv'
  <1>1. ASSUME Begun(c), \/ calls'[c].pc \in {"forget", "close"}
                         \/ calls'[c].pc = "resolve" /\ calls'[c].op # "answer"
        PROVE  Others(c) /\ SettledAt(calls'[c]) /\ KeepsAccepted(calls[c])'
    BY <1>1 DEF Begun, SettledAt, KeepsAccepted
  <1>2. ASSUME NEW p \in Profile, ConnectProfile(c, p) \/ Reconnect(c, p)
        PROVE  SecretInv'
    <2>1. UNCHANGED <<pending, keyring, accepted, brought>>
      BY <1>2 DEF ConnectProfile, Reconnect, tables, ghosts
    <2>. QED  BY <1>1, <1>2, <2>1, ConnectBegins, ReconnectBegins, SecretGoes
  <1>3. ASSUME NEW p \in Profile, DeleteProfile(c, p)
        PROVE  SecretInv'
    <2>1. UNCHANGED <<pending, keyring, accepted, brought>>
      BY <1>3 DEF DeleteProfile
    <2>. QED  BY <1>1, <1>3, <2>1, DeleteBegins, SecretGoes
  <1>4. ASSUME NEW p \in Profile, RecentlyReconnected(c, p)
        PROVE  SecretInv'
    BY <1>4 DEF RecentlyReconnected, tables, ghosts, SecretInv, SecretsWereAccepted,
                KeepsAccepted
  <1>5. ASSUME NEW ch \in DOMAIN pending, Answer(c, ch)
        PROVE  SecretInv'
    <2>1. SettledAt(calls'[c]) /\ KeepsAccepted(calls[c])' /\ Others(c)
      BY <1>5, AnswerBegins DEF SecretInv, SettledAt, SecretSettled, KeepsAccepted, Begun
    <2>2. UNCHANGED <<keyring, accepted, brought>> /\ pending' = Restrict(pending, DOMAIN pending \ {ch})
      BY <1>5 DEF Answer, tables, ghosts
    <2>3. \A x \in DOMAIN pending' : SecretSettled(pending'[x])
      BY <2>2 DEF SecretInv, Restrict
    <2>. QED  BY <2>1, <2>2, <2>3 DEF SecretInv, SecretsWereAccepted, KeepsAccepted, Others
  <1>6. ASSUME NEW s \in DOMAIN tabs, DisconnectSession(c, s)
        PROVE  SecretInv'
    <2>1. UNCHANGED <<pending, keyring, accepted, brought>>
      BY <1>6 DEF DisconnectSession, tables
    <2>2. CASE UNCHANGED calls
      BY <2>1, <2>2 DEF SecretInv, SecretsWereAccepted, KeepsAccepted
    <2>. QED  BY <1>1, <1>6, <2>1, <2>2, DisconnectBegins, SecretGoes
  <1>7. CASE ImportConfiguration(c)
    <2>1. UNCHANGED <<pending, keyring, accepted>>
      BY <1>7 DEF ImportConfiguration, tables
    <2>2. PICK f \in Bundles :
            /\ calls'[c].file = f
            /\ brought' = brought \cup {<<p, f.secrets[p]>> : p \in DOMAIN f.secrets}
      BY <1>7, ImportBegins
    <2>3. Begun(c) /\ calls'[c].pc = "rows"
      BY <1>7, ImportBegins
    <2>4. \A p \in DOMAIN f.secrets : <<p, f.secrets[p]>> \in brought'
      BY <2>2
    <2>5. SettledAt(calls'[c]) /\ KeepsAccepted(calls[c])'
      BY <2>2, <2>3, <2>4 DEF SettledAt, KeepsAccepted
    <2>. QED  BY <2>1, <2>2, <2>3, <2>5, SecretGoes DEF Begun
  <1>. QED  BY <1>2, <1>3, <1>4, <1>5, <1>6, <1>7 DEF Command

LEMMA SecretStep == TypeOK /\ SecretInv /\ [Next]_vars => SecretInv'
  <1> SUFFICES ASSUME TypeOK, SecretInv, [Next]_vars
               PROVE  SecretInv'
    OBVIOUS
  <1>1. CASE UNCHANGED <<pending, keyring, accepted, brought, calls>>
    BY <1>1 DEF SecretInv, SecretsWereAccepted, KeepsAccepted
  <1>2. ASSUME NEW ch \in DOMAIN pending, Decline(ch)
        PROVE  SecretInv'
    <2>1. /\ UNCHANGED <<keyring, accepted, brought, calls>>
          /\ pending' = Restrict(pending, DOMAIN pending \ {ch})
      BY <1>2 DEF Decline, tables, ghosts
    <2>2. \A x \in DOMAIN pending' : SecretSettled(pending'[x])
      BY <2>1 DEF SecretInv, Restrict
    <2>. QED  BY <2>1, <2>2 DEF SecretInv, SecretsWereAccepted, KeepsAccepted
  <1>3. CASE Restart
    <2>1. /\ UNCHANGED <<keyring, accepted, brought>> /\ DOMAIN pending' = {}
          /\ \A c \in Call : calls'[c] = NoCall
      BY <1>3 DEF Restart, tables, Restrict
    <2>. QED  BY <2>1, NoCallFields
              DEF SecretInv, SecretsWereAccepted, KeepsAccepted, SettledAt
  <1>4. CASE \/ \E p \in Profile : SaveProfile(p)
             \/ \E h \in Host : RemoveTrustedHost(h)
             \/ ImportKnownHosts \/ ServerChangesKey \/ UNCHANGED vars
    BY <1>1, <1>4 DEF SaveProfile, RemoveTrustedHost, ImportKnownHosts, ServerChangesKey,
                      ghosts, vars
  <1>. QED  BY <1>2, <1>3, <1>4, SecretCalls, SecretCommands DEF Next

(* persist_supplied_secret and import_configuration, for any profiles,     *)
(* secrets and files: the keyring only holds what a server has accepted    *)
(* for the profile, or what a configuration the user imported has for it.  *)
THEOREM SecretsFollowSignIn == Spec => []SecretsWereAccepted
  <1>1. Init => TypeOK /\ SecretInv
    BY TypesInit, SecretInit
  <1>2. TypeOK /\ SecretInv /\ [Next]_vars => TypeOK' /\ SecretInv'
    BY TypesStep, SecretStep
  <1>3. SecretInv => SecretsWereAccepted
    BY DEF SecretInv
  <1>. QED  BY <1>1, <1>2, <1>3, PTL DEF Spec

-----------------------------------------------------------------------------
(* Deleted profiles. *)

(* A profile that was deleted while nothing used it has no secret, unless  *)
(* it is yet to be taken out or nobody did; and nothing uses it but the    *)
(* command that deletes it, and an import that is yet to save it; what     *)
(* sessions it has are in that command's list, once there is one.          *)
Gone(p) ==
  /\ \/ keyring[p] = NoValue \/ p \in kept
     \/ \E c \in Call : calls[c].profile = p /\ calls[c].pc = "forget"
  /\ \A c \in Call : p \in Brings(c) => calls[c].pc = "rows" /\ p \in calls[c].todo
  /\ \A ch \in DOMAIN pending : pending[ch].profile # p
  /\ \A c \in Call : calls[c].profile = p =>
       /\ calls[c].pc \in {"forget", "list", "drop"}
       /\ calls[c].pc = "drop" => SessionsOf(p) \subseteq DOMAIN calls[c].stale
       /\ \A d \in Call : calls[d].profile = p => d = c
  /\ SessionsOf(p) # {} => \E c \in Call : calls[c].profile = p

GoneInv == \A p \in deleted \ raced : p \notin DOMAIN profiles => Gone(p)

LEMMA GoneInit == Init => GoneInv
  BY DEF Init, GoneInv

(* The points of a call that deletes a profile or imports some.            *)
Ending == {"forget", "list", "drop", "rows", "secrets", "lay"}

(* A step that, of all profiles, touches only the one of a call that does  *)
(* not delete it, and no import takes.                                     *)
LEMMA GoneGoes ==
  ASSUME TypeOK, GoneInv, NEW c \in Call, Others(c), calls[c].pc \notin Ending,
         calls'[c].profile \in {calls[c].profile, NoValue},
         calls'[c].op \in {calls[c].op, "none"},
         UNCHANGED <<profiles, deleted, raced, kept>>,
         \A p \in Profile : p # calls[c].profile => keyring'[p] = keyring[p],
         \A ch \in DOMAIN pending' :
           \/ pending'[ch].profile = calls[c].profile
           \/ ch \in DOMAIN pending /\ pending'[ch].profile = pending[ch].profile,
         \A s \in DOMAIN sessions' :
           \/ sessions'[s].profile = calls[c].profile
           \/ s \in DOMAIN sessions /\ sessions'[s].profile = sessions[s].profile
  PROVE  GoneInv'
  <1> SUFFICES ASSUME NEW p \in deleted \ raced, p \notin DOMAIN profiles
               PROVE  Gone(p)'
    BY DEF GoneInv
  <1>1. Gone(p) /\ p \in Profile /\ p # NoValue
    BY ConstantsAssumption DEF GoneInv, TypeOK
  <1>2. calls[c].profile # p
    BY <1>1 DEF Gone, Ending
  <1>3. keyring'[p] = keyring[p] /\ \A ch \in DOMAIN pending' : pending'[ch].profile # p
    BY <1>1, <1>2 DEF Gone
  <1>4. SessionsOf(p)' \subseteq SessionsOf(p)
    BY <1>2 DEF SessionsOf
  <1>5. calls'[c].profile # p /\ \A d \in Call : d # c => calls'[d] = calls[d]
    BY <1>1, <1>2 DEF Others
  <1>6. calls[c].op # "import"
    BY DEF TypeOK, CallOK, Ending
  <1>7. \A d \in Call : p \in Brings(d)' => d # c
    BY <1>6 DEF Brings
  <1>. QED  BY <1>1, <1>2, <1>3, <1>4, <1>5, <1>7 DEF Gone, Brings

LEMMA GoneCalls ==
  ASSUME TypeOK, GoneInv, NEW c \in Call, CallStep(c)
  PROVE  GoneInv'
  <1> DEFINE Same == UNCHANGED <<profiles, keyring, pending, deleted, raced, kept>>
  <1>1. CASE ListSessions(c)
    <2>1. Same /\ UNCHANGED sessions
      BY <1>1 DEF ListSessions, tables, ghosts
    <2> SUFFICES ASSUME NEW p \in deleted \ raced, p \notin DOMAIN profiles
                 PROVE  Gone(p)'
      BY <2>1 DEF GoneInv
    <2>2. Gone(p) /\ SessionsOf(p)' = SessionsOf(p)
      BY <2>1 DEF GoneInv, SessionsOf
    <2>3. /\ calls'[c].profile = calls[c].profile /\ calls'[c].pc = "drop"
          /\ calls[c].pc = "list" /\ calls'[c].op = calls[c].op
          /\ DOMAIN calls'[c].stale = SessionsOf(calls[c].profile)
          /\ \A d \in Call : d # c => calls'[d] = calls[d]
      BY <1>1, ListFields DEF Keeps, Others
    <2>4. calls[c].op # "import"
      BY <2>3 DEF TypeOK, CallOK
    <2>. QED  BY <2>1, <2>2, <2>3, <2>4 DEF Gone, Brings
  <1>2. CASE DropSessions(c)
    <2>1. /\ Same /\ Returns(c) /\ calls[c].pc = "drop"
          /\ sessions' = Restrict(sessions, DOMAIN sessions \ DOMAIN calls[c].stale)
      BY <1>2 DEF DropSessions, At, tables, ghosts
    <2> SUFFICES ASSUME NEW p \in deleted \ raced, p \notin DOMAIN profiles
                 PROVE  Gone(p)'
      BY <2>1 DEF GoneInv
    <2>2. Gone(p) /\ p # NoValue
      BY ConstantsAssumption DEF GoneInv, TypeOK
    <2>3. SessionsOf(p)' = SessionsOf(p) \ DOMAIN calls[c].stale
      BY <2>1 DEF SessionsOf, Restrict
    <2>4. calls'[c].profile = NoValue /\ calls'[c].op = "none"
          /\ \A d \in Call : d # c => calls'[d] = calls[d]
      BY <2>1, ReturnsFields, NoCallFields DEF Others
    <2>5. CASE calls[c].profile = p
      <3>1. SessionsOf(p)' = {} /\ \A d \in Call : d # c => calls[d].profile # p
        BY <2>1, <2>2, <2>3, <2>5 DEF Gone
      <3>. QED  BY <2>1, <2>2, <2>4, <2>5, <3>1 DEF Gone, Brings
    <2>6. CASE calls[c].profile # p
      BY <2>1, <2>2, <2>3, <2>4, <2>6 DEF Gone, Brings
    <2>. QED  BY <2>5, <2>6
  <1>3. ASSUME Returns(c), Same, UNCHANGED sessions, calls[c].pc \notin Ending
        PROVE  GoneInv'
    BY <1>3, ReturnsFields, NoCallFields, GoneGoes
  <1>4. ASSUME Others(c), Keeps(calls'[c], calls[c]), Same, UNCHANGED sessions,
               calls[c].pc \notin Ending
        PROVE  GoneInv'
    BY <1>4, GoneGoes DEF Keeps
  <1>5. CASE ConnectFails(c) \/ Resume(c) \/ CloseStale(c) \/ Disconnect(c)
    BY <1>3, <1>5 DEF ConnectFails, Resume, CloseStale, Disconnect, At, tables, ghosts,
                      Ending
  <1>6. CASE Resolve(c)
    <2>1. Same /\ UNCHANGED sessions
      BY <1>6 DEF Resolve, tables, ghosts
    <2>. QED  BY <1>3, <1>4, <1>6, <2>1, ResolveFields DEF Ending
  <1>7. CASE Handshake(c)
    <2>1. Same /\ UNCHANGED sessions
      BY <1>7 DEF Handshake, tables, ghosts
    <2>. QED  BY <1>4, <1>7, <2>1, HandshakeFields DEF Ending
  <1>8. CASE Accept(c)
    <2>1. Same /\ UNCHANGED sessions
      BY <1>8 DEF Accept, ghosts
    <2>. QED  BY <1>4, <1>8, <2>1, AcceptFields DEF Ending
  <1>9. CASE SignsIn(c)
    <2>1. Same /\ UNCHANGED sessions /\ calls[c].pc = "dial" /\ Goes(c, To(c, "keep"))
      BY <1>9 DEF SignsIn, At, tables
    <2>. QED  BY <1>4, <2>1, ToFields DEF Ending
  <1>10. CASE KeepSecret(c)
    <2>1. /\ UNCHANGED <<profiles, pending, deleted, raced, kept, sessions>> /\ calls[c].pc = "keep"
          /\ Goes(c, To(c, "register")) /\ keyring' = Kept(c)
      BY <1>10 DEF KeepSecret, At, ghosts
    <2>2. \A p \in Profile : p # calls[c].profile => keyring'[p] = keyring[p]
      BY <2>1 DEF Kept, TypeOK
    <2>3. calls'[c].profile = calls[c].profile /\ calls'[c].op = calls[c].op /\ Others(c)
      BY <2>1, ToFields DEF Keeps
    <2>. QED  BY <2>1, <2>2, <2>3, GoneGoes DEF Ending
  <1>11. CASE Register(c)
    <2>1. /\ Same /\ calls[c].pc = "register"
          /\ Goes(c, To(c, IF calls[c].op = "reconnect" THEN "swap" ELSE "resume"))
          /\ sessions' = With(sessions, calls[c].id, [profile |-> calls[c].profile,
                                                      client |-> calls[c].id])
      BY <1>11 DEF Register, At, tables, ghosts
    <2>2. \A s \in DOMAIN sessions' :
            \/ sessions'[s].profile = calls[c].profile
            \/ s \in DOMAIN sessions /\ sessions'[s].profile = sessions[s].profile
      BY <2>1 DEF With
    <2>3. calls'[c].profile = calls[c].profile /\ calls'[c].op = calls[c].op /\ Others(c)
      BY <2>1, ToFields DEF Keeps
    <2>. QED  BY <2>1, <2>2, <2>3, GoneGoes DEF Ending
  <1>12. CASE Challenge(c)
    <2>1. /\ UNCHANGED <<profiles, keyring, deleted, raced, kept, sessions>>
          /\ calls[c].pc = "challenge" /\ Returns(c)
          /\ pending' = With(pending, calls[c].id, calls[c])
      BY <1>12 DEF Challenge, At, tables, ghosts
    <2>2. \A ch \in DOMAIN pending' :
            \/ pending'[ch].profile = calls[c].profile
            \/ ch \in DOMAIN pending /\ pending'[ch].profile = pending[ch].profile
      BY <2>1 DEF With
    <2>3. calls'[c].profile = NoValue /\ calls'[c].op = "none" /\ Others(c)
      BY <2>1, ReturnsFields, NoCallFields
    <2>. QED  BY <2>1, <2>2, <2>3, GoneGoes DEF Ending
  <1>13. CASE Swap(c)
    <2>1. Same /\ calls[c].pc = "swap"
      BY <1>13 DEF Swap, At, tables, ghosts
    <2>2. CASE Returns(c) /\ UNCHANGED sessions
      BY <1>3, <2>1, <2>2 DEF Ending
    <2>3. CASE /\ Goes(c, To(c, "close")) /\ sessions' = Replaced(c)
               /\ calls[c].id \in DOMAIN sessions
      <3>1. \A s \in DOMAIN sessions' :
              s \in DOMAIN sessions /\ sessions'[s].profile = sessions[s].profile
        BY <2>3 DEF Replaced, TypeOK, IsTable, SessionRecord
      <3>2. calls'[c].profile = calls[c].profile /\ calls'[c].op = calls[c].op /\ Others(c)
        BY <2>3, ToFields DEF Keeps
      <3>. QED  BY <2>1, <3>1, <3>2, GoneGoes DEF Ending
    <2>. QED  BY <1>13, <2>2, <2>3 DEF Swap
  <1>14. CASE Forget(c)
    <2>1. PICK q : q = calls[c].profile
      OBVIOUS
    <2>2. /\ UNCHANGED <<profiles, pending, deleted, raced, sessions>>
          /\ \/ keyring' = Forgotten(q) /\ kept' = kept \ {q}
             \/ keyring' = keyring /\ kept' = kept \cup {q}
      BY <1>14, <2>1 DEF Forget
    <2>3. /\ calls[c].pc = "forget" /\ calls'[c].pc = "list" /\ calls'[c].profile = q
          /\ calls'[c].op = calls[c].op
          /\ \A d \in Call : d # c => calls'[d] = calls[d]
      BY <1>14, <2>1, ForgetFields DEF Keeps, Others
    <2>4. q \in Profile /\ calls[c].op # "import"
      BY <2>1, <2>3 DEF TypeOK, CallOK
    <2>5. \/ keyring'[q] = NoValue \/ q \in kept'
      BY <2>2, <2>4 DEF Forgotten, TypeOK
    <2> SUFFICES ASSUME NEW p \in deleted \ raced, p \notin DOMAIN profiles
                 PROVE  Gone(p)'
      BY <2>2 DEF GoneInv
    <2>6. Gone(p) /\ SessionsOf(p)' = SessionsOf(p)
      BY <2>2 DEF GoneInv, SessionsOf
    <2>7. \A d \in Call : p \in Brings(d)' =>
            calls'[d].pc = "rows" /\ p \in calls'[d].todo
      BY <2>3, <2>4, <2>6 DEF Gone, Brings
    <2>8. CASE p = q
      BY <2>1, <2>2, <2>3, <2>5, <2>6, <2>7, <2>8 DEF Gone
    <2>9. CASE p # q
      <3>1. p \in Profile /\ keyring'[p] = keyring[p] /\ (p \in kept => p \in kept')
        BY <2>2, <2>9 DEF Forgotten, TypeOK
      <3>. QED  BY <2>1, <2>2, <2>3, <2>6, <2>7, <2>9, <3>1 DEF Gone
    <2>. QED  BY <2>8, <2>9
  <1>15. CASE ImportRow(c) \/ ImportTurns(c) \/ ImportChecks(c) \/ ImportLays(c)
    <2>1. ImportsOnly(c)
      BY <1>15, ImportFields
    <2>2. PICK pc \in Importing, q \in Profile \cup {NoValue}, T \in SUBSET Profile :
            /\ ImportsOn(c, pc, q, T)
            /\ calls'[c].pc = pc /\ calls'[c].profile = q /\ calls'[c].todo = T
      BY <1>15, ImportFields
    <2>3. /\ UNCHANGED <<pending, deleted, raced, kept, sessions>>
          /\ calls[c].op = "import" /\ calls'[c].op = "import"
          /\ calls'[c].file = calls[c].file
          /\ \A d \in Call : d # c => calls'[d] = calls[d]
      BY <2>1 DEF ImportsOnly, Others, ghosts
    <2>4. DOMAIN profiles \subseteq DOMAIN profiles'
      BY <1>15 DEF ImportRow, ImportTurns, ImportChecks, ImportLays, With, tables
    <2> SUFFICES ASSUME NEW p \in deleted \ raced, p \notin DOMAIN profiles'
                 PROVE  Gone(p)'
      BY <2>3 DEF GoneInv
    <2>5. Gone(p) /\ SessionsOf(p)' = SessionsOf(p) /\ p \notin DOMAIN profiles
          /\ p \in Profile /\ p # NoValue
      BY <2>3, <2>4, ConstantsAssumption DEF GoneInv, SessionsOf, TypeOK
    <2>6. calls[c].profile # p
      BY <2>1, <2>5 DEF ImportsOnly, Importing, Gone
    <2>7. p \in DOMAIN calls[c].file.rows =>
            calls[c].pc = "rows" /\ pc = "rows" /\ p \in T
      BY <2>2, <2>3, <2>5 DEF Gone, Brings, ImportsOn
    <2>8. q # p
      BY <2>2, <2>5, <2>7 DEF ImportsOn
    <2>9. keyring'[p] = keyring[p]
      BY <1>15, <2>5, <2>6 DEF ImportRow, ImportTurns, ImportChecks, ImportLays, tables, TypeOK
    <2>10. \A d \in Call : p \in Brings(d)' =>
             calls'[d].pc = "rows" /\ p \in calls'[d].todo
      BY <2>2, <2>3, <2>5, <2>7 DEF Gone, Brings
    <2>11. \A d \in Call : calls'[d].profile = p \/ calls[d].profile = p => d # c
      BY <2>2, <2>6, <2>8
    <2>. QED  BY <2>3, <2>5, <2>9, <2>10, <2>11 DEF Gone
  <1>16. CASE ImportReturns(c)
    <2>1. Same /\ UNCHANGED sessions /\ Returns(c)
      BY <1>16 DEF ImportReturns, tables, ghosts
    <2>2. calls'[c] = NoCall /\ \A d \in Call : d # c => calls'[d] = calls[d]
      BY <2>1, ReturnsFields DEF Others
    <2> SUFFICES ASSUME NEW p \in deleted \ raced, p \notin DOMAIN profiles
                 PROVE  Gone(p)'
      BY <2>1 DEF GoneInv
    <2>3. Gone(p) /\ SessionsOf(p)' = SessionsOf(p) /\ p # NoValue
      BY <2>1, ConstantsAssumption DEF GoneInv, SessionsOf, TypeOK
    <2>4. calls[c].profile # p
      BY <1>16, <2>3 DEF ImportReturns, Gone
    <2>5. calls'[c].profile = NoValue /\ calls'[c].op = "none"
      BY <2>2, NoCallFields
    <2>. QED  BY <2>1, <2>2, <2>3, <2>4, <2>5 DEF Gone, Brings
  <1>. QED  BY <1>1, <1>2, <1>5, <1>6, <1>7, <1>8, <1>9, <1>10, <1>11, <1>12, <1>13, <1>14,
               <1>15, <1>16 DEF CallStep

LEMMA GoneCommands ==
  ASSUME TypeOK, GoneInv, NEW c \in Call, Command(c)
  PROVE  GoneInv'
  (* A command that begins for a profile there is, or for none. *)
  <1>1. ASSUME Begun(c), \/ calls'[c].profile \in DOMAIN profiles
                         \/ calls'[c].profile = NoValue,
               \A p \in Profile : p \in Brings(c)' =>
                 calls'[c].pc = "rows" /\ p \in calls'[c].todo,
               UNCHANGED <<profiles, keyring, deleted, raced, kept>>,
               \A ch \in DOMAIN pending' :
                 ch \in DOMAIN pending /\ pending'[ch] = pending[ch],
               \A s \in DOMAIN sessions' :
                 s \in DOMAIN sessions /\ sessions'[s] = sessions[s]
        PROVE  GoneInv'
    <2> SUFFICES ASSUME NEW p \in deleted \ raced, p \notin DOMAIN profiles
                 PROVE  Gone(p)'
      BY <1>1 DEF GoneInv
    <2>1. Gone(p) /\ p # NoValue
      BY ConstantsAssumption DEF GoneInv, TypeOK
    <2>2. calls'[c].profile # p /\ calls[c].profile # p
      BY <1>1, <2>1 DEF Begun, Gone
    <2>3. SessionsOf(p)' \subseteq SessionsOf(p)
      BY <1>1 DEF SessionsOf
    <2>4. p \in Profile
      BY DEF TypeOK
    <2>. QED  BY <1>1, <2>1, <2>2, <2>3, <2>4 DEF Gone, Brings, Begun, Others
  <1>2. ASSUME NEW p \in Profile, ConnectProfile(c, p) \/ Reconnect(c, p)
        PROVE  GoneInv'
    <2>1. UNCHANGED <<profiles, keyring, deleted, raced, kept, pending, sessions>>
          /\ p \in DOMAIN profiles
      BY <1>2 DEF ConnectProfile, Reconnect, tables, ghosts
    <2>. QED  BY <1>1, <1>2, <2>1, ConnectBegins, ReconnectBegins DEF Brings
  <1>3. ASSUME NEW q \in Profile, DeleteProfile(c, q)
        PROVE  GoneInv'
    <2>1. /\ q \in DOMAIN profiles /\ UNCHANGED <<pending, sessions>>
          /\ DOMAIN profiles' = DOMAIN profiles \ {q}
          /\ UNCHANGED <<keyring, kept>>
          /\ deleted' = deleted \cup {q}
          /\ raced' = IF InUse(q) THEN raced \cup {q} ELSE raced
      BY <1>3 DEF DeleteProfile, Restrict
    <2>2. Begun(c) /\ calls'[c].profile = q /\ calls'[c].pc = "forget"
          /\ calls'[c].op = "delete"
      BY <1>3, DeleteBegins
    <2> SUFFICES ASSUME NEW p \in deleted' \ raced', p \notin DOMAIN profiles'
                 PROVE  Gone(p)'
      BY DEF GoneInv
    <2>3. SessionsOf(p)' = SessionsOf(p)
      BY <2>1 DEF SessionsOf
    <2>4. CASE p = q
      <3>1. ~InUse(q)
        BY <2>1, <2>4
      <3>2. /\ \A d \in Call : d # c => calls'[d].profile # q
            /\ \A ch \in DOMAIN pending' : pending'[ch].profile # q
        BY <2>1, <2>2, <3>1 DEF InUse, Begun, Others
      <3>3. \A d \in Call : q \notin Brings(d)'
        BY <2>2, <3>1 DEF InUse, Brings, Begun, Others
      <3>. QED  BY <2>2, <2>4, <3>2, <3>3 DEF Gone
    <2>5. CASE p # q
      <3>1. Gone(p)
        BY <2>1, <2>5 DEF GoneInv
      <3>2. calls[c].profile # p
        BY <2>2, <3>1 DEF Gone, Begun
      <3>. QED  BY <2>1, <2>2, <2>3, <2>5, <3>1, <3>2 DEF Gone, Brings, Begun, Others
    <2>. QED  BY <2>4, <2>5
  <1>4. ASSUME NEW p \in Profile, RecentlyReconnected(c, p)
        PROVE  GoneInv'
    BY <1>4 DEF RecentlyReconnected, tables, ghosts, GoneInv, Gone, Brings, SessionsOf
  <1>5. ASSUME NEW ch \in DOMAIN pending, Answer(c, ch)
        PROVE  GoneInv'
    <2>1. /\ UNCHANGED <<profiles, keyring, deleted, raced, kept, sessions>>
          /\ pending' = Restrict(pending, DOMAIN pending \ {ch}) /\ UNCHANGED kept
      BY <1>5 DEF Answer, tables, ghosts
    <2>2. Begun(c) /\ calls'[c].profile = pending[ch].profile /\ calls'[c].op = "answer"
      BY <1>5, AnswerBegins
    <2> SUFFICES ASSUME NEW p \in deleted \ raced, p \notin DOMAIN profiles
                 PROVE  Gone(p)'
      BY <2>1 DEF GoneInv
    <2>3. Gone(p) /\ SessionsOf(p)' = SessionsOf(p)
      BY <2>1 DEF GoneInv, SessionsOf
    <2>4. calls'[c].profile # p /\ calls[c].profile # p
      BY <2>2, <2>3 DEF Gone, Begun
    <2>5. \A x \in DOMAIN pending' : pending'[x].profile # p
      BY <2>1, <2>3 DEF Restrict, Gone
    <2>6. \A d \in Call : /\ calls'[d].profile = p <=> calls[d].profile = p
                          /\ calls[d].profile = p => calls'[d] = calls[d]
      BY <2>2, <2>4 DEF Begun, Others
    <2>7. \A d \in Call : p \in Brings(d)' => p \in Brings(d) /\ calls'[d] = calls[d]
      BY <2>2 DEF Begun, Others, Brings
    <2>8. \A d \in Call : p \in Brings(d)' => calls'[d].pc = "rows" /\ p \in calls'[d].todo
      BY <2>3, <2>7 DEF Gone
    <2>9. \A d \in Call : calls[d].profile = p <=> calls'[d].profile = p
      BY <2>2, <2>4 DEF Begun, Others
    <2>10. \A d \in Call : calls'[d].profile = p => calls'[d] = calls[d]
      BY <2>6, <2>9
    <2>11. \/ keyring'[p] = NoValue \/ p \in kept'
           \/ \E d \in Call : calls'[d].profile = p /\ calls'[d].pc = "forget"
      BY <2>1, <2>3, <2>9, <2>10 DEF Gone
    <2>12. SessionsOf(p)' # {} => \E d \in Call : calls'[d].profile = p
      BY <2>3, <2>9 DEF Gone
    <2>13. \A d \in Call : calls'[d].profile = p =>
             /\ calls'[d].pc \in {"forget", "list", "drop"}
             /\ calls'[d].pc = "drop" => SessionsOf(p)' \subseteq DOMAIN calls'[d].stale
             /\ \A e \in Call : calls'[e].profile = p => e = d
      BY <2>3, <2>9, <2>10 DEF Gone
    <2>. QED  BY <2>5, <2>8, <2>11, <2>12, <2>13 DEF Gone
  <1>6. ASSUME NEW s \in DOMAIN tabs, DisconnectSession(c, s)
        PROVE  GoneInv'
    <2>1. /\ UNCHANGED <<profiles, keyring, deleted, raced, kept, pending>>
          /\ sessions' = Restrict(sessions, DOMAIN sessions \ {s})
      BY <1>6 DEF DisconnectSession, tables
    <2>2. \A x \in DOMAIN sessions' : x \in DOMAIN sessions /\ sessions'[x] = sessions[x]
      BY <2>1 DEF Restrict
    <2>4. CASE s \notin DOMAIN sessions
      <3>1. UNCHANGED calls
        BY <1>6, <2>4 DEF DisconnectSession
      <3>2. \A p \in Profile : SessionsOf(p)' = SessionsOf(p)
        BY <2>1, <2>4 DEF SessionsOf, Restrict
      <3>. QED  BY <2>1, <3>1, <3>2 DEF GoneInv, Gone, Brings, TypeOK
    <2>5. CASE Begun(c) /\ calls'[c].profile = NoValue /\ calls'[c].op = "disconnect"
      BY <1>1, <2>1, <2>2, <2>5 DEF Brings
    <2>. QED  BY <1>6, <2>4, <2>5, DisconnectBegins
  <1>7. CASE ImportConfiguration(c)
    <2>1. UNCHANGED <<profiles, keyring, deleted, raced, kept, pending, sessions>>
      BY <1>7 DEF ImportConfiguration, tables
    <2>2. /\ Begun(c) /\ calls'[c].pc = "rows" /\ calls'[c].profile = NoValue
          /\ calls'[c].todo = DOMAIN calls'[c].file.rows
      BY <1>7, ImportBegins
    <2>. QED  BY <1>1, <2>1, <2>2 DEF Brings
  <1>. QED  BY <1>2, <1>3, <1>4, <1>5, <1>6, <1>7 DEF Command

LEMMA GoneStep == TypeOK /\ GoneInv /\ [Next]_vars => GoneInv'
  <1> SUFFICES ASSUME TypeOK, GoneInv, [Next]_vars
               PROVE  GoneInv'
    OBVIOUS
  <1>1. CASE UNCHANGED <<profiles, keyring, deleted, raced, kept, pending, sessions, calls>>
    BY <1>1 DEF GoneInv, Gone, Brings, SessionsOf
  <1>2. ASSUME NEW p \in Profile, SaveProfile(p)
        PROVE  GoneInv'
    <2>1. /\ UNCHANGED <<keyring, deleted, raced, kept, pending, sessions, calls>>
          /\ DOMAIN profiles' = DOMAIN profiles \cup {p}
      BY <1>2 DEF SaveProfile, With, ghosts
    <2>. QED  BY <2>1 DEF GoneInv, Gone, Brings, SessionsOf
  <1>3. ASSUME NEW ch \in DOMAIN pending, Decline(ch)
        PROVE  GoneInv'
    <2>1. /\ UNCHANGED <<profiles, keyring, deleted, raced, kept, sessions, calls>>
          /\ pending' = Restrict(pending, DOMAIN pending \ {ch})
      BY <1>3 DEF Decline, tables, ghosts
    <2> SUFFICES ASSUME NEW p \in deleted \ raced, p \notin DOMAIN profiles
                 PROVE  Gone(p)'
      BY <2>1 DEF GoneInv
    <2>2. Gone(p) /\ SessionsOf(p)' = SessionsOf(p)
      BY <2>1 DEF GoneInv, SessionsOf
    <2>3. \A x \in DOMAIN pending' : pending'[x].profile # p
      BY <2>1, <2>2 DEF Restrict, Gone
    <2>. QED  BY <2>1, <2>2, <2>3 DEF Gone, Brings
  <1>4. CASE Restart
    <2>1. /\ UNCHANGED <<profiles, keyring, deleted, raced>>
          /\ DOMAIN pending' = {} /\ DOMAIN sessions' = {} /\ kept \subseteq kept'
          /\ \A c \in Call : calls'[c].profile = NoValue /\ calls'[c].op = "none"
          /\ \A c \in Call : calls[c].pc = "forget" => calls[c].profile \in kept'
      BY <1>4, NoCallFields DEF Restart, At, tables, Restrict
    <2>2. \A p \in deleted : p # NoValue
      BY ConstantsAssumption DEF TypeOK
    <2>. QED  BY <2>1, <2>2 DEF GoneInv, Gone, Brings, SessionsOf
  <1>5. CASE \/ \E h \in Host : RemoveTrustedHost(h)
             \/ ImportKnownHosts \/ ServerChangesKey \/ UNCHANGED vars
    BY <1>1, <1>5 DEF RemoveTrustedHost, ImportKnownHosts, ServerChangesKey, ghosts, vars
  <1>. QED  BY <1>2, <1>3, <1>4, <1>5, GoneCalls, GoneCommands DEF Next

(* delete_profile, for any commands and imports at once: when it has       *)
(* returned, a profile nothing else was using has no session and gets none *)
(* until it is saved again, and no secret either, unless the keyring       *)
(* refused to delete it or the application stopped before it was asked to. *)
THEOREM DeletionIsComplete == Spec => []DeletedIsGone
  <1>1. Init => TypeOK /\ GoneInv
    BY TypesInit, GoneInit
  <1>2. TypeOK /\ GoneInv /\ [Next]_vars => TypeOK' /\ GoneInv'
    BY TypesStep, GoneStep
  <1>3. GoneInv => DeletedIsGone
    BY DEF GoneInv, Gone, DeletedIsGone, InUse
  <1>. QED  BY <1>1, <1>2, <1>3, PTL DEF Spec

-----------------------------------------------------------------------------
(* Sessions and their connections. *)

(* The numbers in use for sessions and connections.                        *)
Taken == {n \in Nat :
  \/ n \in DOMAIN sessions \cup DOMAIN tabs \cup closed
  \/ \E s \in DOMAIN sessions : sessions[s].client = n
  \/ \E c \in Call : \E s \in DOMAIN calls[c].stale : n \in {s, calls[c].stale[s]}}

Unregistered == {"resolve", "dial", "challenge", "keep", "register", "accept"}

(* The number of a call is its own until it has registered its session.    *)
NumberInv ==
  /\ \A n \in Taken : n <= commands
  /\ \A c \in Call :
       /\ calls[c].id <= commands
       /\ calls[c].pc \in Unregistered => calls[c].id \notin Taken
       /\ \A d \in Call : calls[c].pc # "idle" /\ calls[d].pc # "idle"
                          /\ calls[c].id = calls[d].id => c = d

(* One reconnection at a time; each command reaches its own points only.   *)
OpInv == \A c \in Call :
  /\ calls[c].pc \in {"forget", "list", "drop"} <=> calls[c].op = "delete"
  /\ calls[c].op = "delete" => calls[c].profile \in deleted
  /\ calls[c].pc = "swap" => calls[c].op = "reconnect"
  /\ calls[c].pc = "resume" => calls[c].op # "reconnect"
  /\ calls[c].pc = "close" => calls[c].op \in {"reconnect", "disconnect"}
  /\ calls[c].op = "reconnect" <=> guard = c
  /\ calls[c].pc = "idle" => calls[c].op = "none"

(* A session registered and not yet given to the user is there, unless its *)
(* profile was deleted.                                                    *)
OpenInv == \A c \in Call : calls[c].pc \in {"resume", "swap"} =>
  /\ calls[c].id \notin DOMAIN tabs
  /\ calls[c].id \in DOMAIN sessions =>
       sessions[calls[c].id].profile = calls[c].profile
  /\ calls[c].id \notin DOMAIN sessions => calls[c].profile \in deleted

(* Tabs are of the profile of their session, and sessions share a          *)
(* connection only within a profile.                                       *)
AgreeInv ==
  /\ \A s \in DOMAIN tabs : s \in DOMAIN sessions => tabs[s] = sessions[s].profile
  /\ \A s, t \in DOMAIN sessions :
       sessions[s].client = sessions[t].client => sessions[s].profile = sessions[t].profile

(* The list a command works through holds sessions of its profile only;    *)
(* and that of a reconnection all those with a connection it is to close,  *)
(* until it has replaced them and none is left.                            *)
StaleInv == \A c \in Call :
  /\ calls[c].op \in {"delete", "reconnect"} =>
       \A s \in DOMAIN calls[c].stale : s \in DOMAIN sessions =>
         sessions[s].profile = calls[c].profile
  /\ calls[c].op = "reconnect" /\ calls[c].pc = "close" =>
       \A s \in DOMAIN sessions : \A t \in DOMAIN calls[c].stale :
         sessions[s].client # calls[c].stale[t]
  /\ calls[c].op = "reconnect" /\ calls[c].pc # "close" =>
       /\ calls[c].id \notin DOMAIN calls[c].stale
       /\ \A s \in DOMAIN sessions : \A t \in DOMAIN calls[c].stale :
            sessions[s].client = calls[c].stale[t] => s \in DOMAIN calls[c].stale

SpareInv == NumberInv /\ OpInv /\ OpenInv /\ AgreeInv /\ StaleInv /\ ReconnectSparesSessions

LEMMA Numbers ==
  ASSUME TypeOK
  PROVE  /\ commands \in Nat
         /\ \A c \in Call : /\ calls[c].id \in Nat /\ DOMAIN calls[c].stale \subseteq Nat
                            /\ \A x \in DOMAIN calls[c].stale : calls[c].stale[x] \in Nat
         /\ \A s \in DOMAIN sessions : s \in Nat /\ sessions[s].client \in Nat
         /\ \A s \in DOMAIN tabs : s \in Nat
  <1>1. \A c \in Call : calls[c].id \in Nat /\ calls[c].stale \in Maps
    BY DEF TypeOK, CallRecord
  <1>2. \A s \in DOMAIN sessions : s \in Nat /\ sessions[s].client \in Nat
    BY DEF TypeOK, IsTable, SessionRecord
  <1>3. commands \in Nat /\ \A s \in DOMAIN tabs : s \in Nat
    BY DEF TypeOK, IsTable
  <1>. QED  BY <1>1, <1>2, <1>3, MapElim

Shrinks(old, new) == \A x \in DOMAIN new : x \in DOMAIN old /\ new[x] = old[x]

(* A call ends: sessions of deleted profiles may go, a tab for its session *)
(* may come, the connections of its list may be closed.                    *)
Ends(c) ==
  /\ calls[c].pc # "idle" /\ Returns(c) /\ UNCHANGED <<commands, deleted>>
  /\ Shrinks(sessions, sessions')
  /\ \A s \in DOMAIN sessions : s \notin DOMAIN sessions' => sessions[s].profile \in deleted
  /\ \A t \in DOMAIN tabs' :
       \/ t \in DOMAIN tabs /\ tabs'[t] = tabs[t]
       \/ calls[c].pc = "resume" /\ t = calls[c].id /\ tabs'[t] = calls[c].profile
  /\ \A n \in closed' : n \in closed \/ \E x \in DOMAIN calls[c].stale : n = calls[c].stale[x]
  /\ \A s \in DOMAIN sessions' :
       sessions[s].client \in closed' => sessions[s].client \in closed \cup shut'
  /\ shut \subseteq shut'

LEMMA SpareEnds ==
  ASSUME TypeOK, SpareInv, NEW c \in Call, Ends(c)
  PROVE  SpareInv'
  <1> USE DEF Ends, Shrinks
  <1>1. /\ calls'[c] = NoCall /\ \A d \in Call : d # c => calls'[d] = calls[d]
        /\ calls'[c].pc = "idle" /\ calls'[c].op = "none" /\ calls'[c].id = 0
        /\ DOMAIN calls'[c].stale = {}
        /\ guard' = IF guard = c THEN NoValue ELSE guard
    BY ReturnsFields, NoCallFields DEF Returns, Others
  <1>2. NumberInv'
    <2>1. \A n \in Taken' : n \in Taken \/ (calls[c].pc = "resume" /\ n = calls[c].id)
      <3> SUFFICES ASSUME NEW n, n \in Taken'
                   PROVE  n \in Taken \/ (calls[c].pc = "resume" /\ n = calls[c].id)
        OBVIOUS
      <3>0. n \in Nat
        BY DEF Taken
      <3>1. CASE n \in DOMAIN sessions' \cup DOMAIN tabs'
        BY <3>0, <3>1 DEF Taken
      <3>2. CASE n \in closed'
        BY <3>0, <3>2 DEF Taken
      <3>3. CASE \E s \in DOMAIN sessions' : sessions'[s].client = n
        BY <3>0, <3>3 DEF Taken
      <3>4. CASE \E d \in Call : \E s \in DOMAIN calls'[d].stale : n \in {s, calls'[d].stale[s]}
        BY <1>1, <3>0, <3>4 DEF Taken
      <3>. QED  BY <3>1, <3>2, <3>3, <3>4 DEF Taken
    <2>2. \A d \in Call : d # c /\ calls[d].pc # "idle" => calls[d].id # calls[c].id
      BY DEF SpareInv, NumberInv
    <2>3. \A n \in Taken' : n <= commands
      BY <2>1 DEF SpareInv, NumberInv
    <2>4. \A d \in Call : calls'[d].pc \in Unregistered => calls'[d].id \notin Taken'
      BY <1>1, <2>1, <2>2 DEF SpareInv, NumberInv, Unregistered
    <2>5. \A d \in Call : calls'[d].id <= commands
      BY <1>1, Numbers DEF SpareInv, NumberInv
    <2>. QED  BY <1>1, <2>3, <2>4, <2>5 DEF SpareInv, NumberInv
  <1>3. OpInv'
    BY <1>1, ConstantsAssumption DEF SpareInv, OpInv
  <1>4. OpenInv'
    <2>1. \A d \in Call : d # c /\ calls[d].pc # "idle" => calls[d].id # calls[c].id
      BY DEF SpareInv, NumberInv
    <2>. QED  BY <1>1, <2>1 DEF SpareInv, OpenInv
  <1>5. AgreeInv'
    BY DEF SpareInv, AgreeInv, OpenInv
  <1>6. StaleInv'
    BY <1>1 DEF SpareInv, StaleInv
  <1>7. ReconnectSparesSessions'
    <2>1. \A s \in DOMAIN sessions' : sessions'[s].client \in closed' => sessions'[s].client \in shut'
      BY DEF SpareInv, ReconnectSparesSessions
    <2>2. \A s \in DOMAIN tabs' : s \in DOMAIN sessions' \/ tabs'[s] \in deleted'
      BY DEF SpareInv, ReconnectSparesSessions, AgreeInv, OpenInv
    <2>. QED  BY <2>1, <2>2 DEF ReconnectSparesSessions
  <1>. QED  BY <1>2, <1>3, <1>4, <1>5, <1>6, <1>7 DEF SpareInv

(* A call that has not registered its session yet goes on. *)
Advances(c) ==
  /\ Others(c) /\ Keeps(calls'[c], calls[c]) /\ calls'[c].stale = calls[c].stale
  /\ calls[c].pc \in Unregistered /\ calls'[c].pc \in Unregistered
  /\ UNCHANGED <<sessions, tabs, closed, shut, commands, deleted, guard>>

LEMMA SpareAdvances ==
  ASSUME TypeOK, SpareInv, NEW c \in Call, Advances(c)
  PROVE  SpareInv'
  <1>1. /\ \A d \in Call : /\ calls'[d].op = calls[d].op /\ calls'[d].id = calls[d].id
                           /\ calls'[d].profile = calls[d].profile
                           /\ calls'[d].stale = calls[d].stale
                           /\ \/ calls'[d].pc = calls[d].pc
                              \/ calls'[d].pc \in Unregistered /\ calls[d].pc \in Unregistered
        /\ UNCHANGED <<sessions, tabs, closed, shut, commands, deleted, guard>>
    BY DEF Advances, Others, Keeps
  <1>2. NumberInv'
    <2>1. Taken' = Taken
      BY <1>1 DEF Taken
    <2>. QED  BY <1>1, <2>1 DEF SpareInv, NumberInv, Unregistered
  <1>3. OpInv'
    BY <1>1 DEF SpareInv, OpInv, Unregistered
  <1>4. OpenInv'
    BY <1>1 DEF SpareInv, OpenInv, Unregistered
  <1>5. AgreeInv' /\ ReconnectSparesSessions'
    BY <1>1 DEF SpareInv, AgreeInv, ReconnectSparesSessions
  <1>6. StaleInv'
    BY <1>1 DEF SpareInv, StaleInv, Unregistered
  <1>. QED  BY <1>2, <1>3, <1>4, <1>5, <1>6 DEF SpareInv

(* A call that has nothing to do with sessions at the time goes on: it     *)
(* takes the secret of a deleted profile out, or imports a configuration.  *)
Minds(c) ==
  /\ Others(c) /\ calls'[c].stale = calls[c].stale
  /\ calls'[c].op = calls[c].op /\ calls'[c].id = calls[c].id
  /\ \/ /\ calls[c].pc = "forget" /\ calls'[c].pc = "list"
        /\ calls'[c].profile = calls[c].profile
     \/ calls[c].op = "import" /\ calls[c].pc \in Importing /\ calls'[c].pc \in Importing
  /\ UNCHANGED <<sessions, tabs, closed, shut, commands, deleted, guard>>

LEMMA SpareMinds ==
  ASSUME TypeOK, SpareInv, NEW c \in Call, Minds(c)
  PROVE  SpareInv'
  <1>1. /\ \A d \in Call : d # c => calls'[d] = calls[d]
        /\ \A d \in Call : calls'[d].op = calls[d].op /\ calls'[d].id = calls[d].id
                           /\ calls'[d].stale = calls[d].stale
        /\ UNCHANGED <<sessions, tabs, closed, shut, commands, deleted, guard>>
        /\ calls[c].op = "import" \/ calls'[c].profile = calls[c].profile
        /\ \/ calls[c].pc = "forget" /\ calls'[c].pc = "list"
           \/ calls[c].pc \in Importing /\ calls'[c].pc \in Importing
    BY DEF Minds, Others
  <1>2. NumberInv'
    <2>1. Taken' = Taken
      BY <1>1 DEF Taken
    <2>. QED  BY <1>1, <2>1 DEF SpareInv, NumberInv, Unregistered, Importing
  <1>3. OpInv'
    BY <1>1 DEF SpareInv, OpInv, Importing
  <1>4. OpenInv'
    BY <1>1 DEF SpareInv, OpenInv, Importing
  <1>5. AgreeInv' /\ ReconnectSparesSessions'
    BY <1>1 DEF SpareInv, AgreeInv, ReconnectSparesSessions
  <1>6. StaleInv'
    <2>1. \A d \in Call : calls'[d].op \in {"delete", "reconnect"} =>
            /\ calls'[d].profile = calls[d].profile
            /\ calls'[d].pc = "close" <=> calls[d].pc = "close"
      BY <1>1 DEF Importing
    <2>. QED  BY <1>1, <2>1 DEF SpareInv, StaleInv
  <1>. QED  BY <1>2, <1>3, <1>4, <1>5, <1>6 DEF SpareInv

(* No call moves; tabs may go, and the commands that are no call count.    *)
Idles ==
  /\ UNCHANGED <<calls, closed, shut, deleted, guard>>
  /\ commands' \in {commands, commands + 1}
  /\ Shrinks(tabs, tabs') /\ Shrinks(sessions, sessions')
  /\ DOMAIN sessions' = DOMAIN sessions

LEMMA SpareIdles ==
  ASSUME TypeOK, SpareInv, Idles
  PROVE  SpareInv'
  <1> USE DEF Idles, Shrinks
  <1>1. NumberInv'
    <2>1. \A n \in Taken' : n \in Taken
      BY DEF Taken
    <2>2. \A n \in Taken' : n \in Nat /\ n <= commands'
      BY <2>1, Numbers DEF SpareInv, NumberInv, Taken
    <2>. QED  BY <2>1, <2>2, Numbers DEF SpareInv, NumberInv
  <1>2. OpInv' /\ OpenInv' /\ AgreeInv' /\ ReconnectSparesSessions'
    BY DEF SpareInv, OpInv, OpenInv, AgreeInv, ReconnectSparesSessions
  <1>3. StaleInv'
    BY DEF SpareInv, StaleInv
  <1>. QED  BY <1>1, <1>2, <1>3 DEF SpareInv

(* A command begins; a session may go with its tab.                        *)
Starts(c) ==
  /\ Begun(c) /\ UNCHANGED <<closed, shut>> /\ deleted \subseteq deleted'
  /\ Shrinks(sessions, sessions') /\ Shrinks(tabs, tabs')
  /\ \A s \in DOMAIN sessions : s \notin DOMAIN sessions' =>
       s \in DOMAIN tabs /\ s \notin DOMAIN tabs'
  /\ \A x \in DOMAIN calls'[c].stale :
       x \in DOMAIN sessions /\ calls'[c].stale[x] = sessions[x].client
  /\ \/ /\ calls'[c].pc \in {"resolve", "accept"} /\ calls'[c].op \in {"connect", "answer"}
        /\ UNCHANGED guard
     \/ /\ calls'[c].pc = "forget" /\ calls'[c].op = "delete" /\ UNCHANGED guard
        /\ calls'[c].profile \in deleted' /\ DOMAIN calls'[c].stale = {}
     \/ /\ calls'[c].pc = "close" /\ calls'[c].op = "disconnect" /\ UNCHANGED guard
     \/ /\ calls'[c].pc = "rows" /\ calls'[c].op = "import" /\ UNCHANGED guard
     \/ /\ calls'[c].pc = "resolve" /\ calls'[c].op = "reconnect"
        /\ guard = NoValue /\ guard' = c
        /\ DOMAIN calls'[c].stale = SessionsOf(calls'[c].profile)

LEMMA SpareStarts ==
  ASSUME TypeOK, SpareInv, NEW c \in Call, Starts(c)
  PROVE  SpareInv'
  <1> USE DEF Starts, Shrinks
  <1>1. /\ \A d \in Call : d # c => calls'[d] = calls[d]
        /\ calls[c].pc = "idle" /\ calls[c].op = "none" /\ guard # c
        /\ commands' = commands + 1 /\ calls'[c].id = commands + 1
    BY DEF Begun, Others, SpareInv, OpInv
  <1>2. \A n \in Taken' : n \in Taken
    BY <1>1, Numbers DEF Taken
  <1>3. commands + 1 \notin Taken /\ commands \in Nat
    BY Numbers DEF SpareInv, NumberInv
  <1>4. NumberInv'
    <2>1. \A n \in Taken' : n \in Nat /\ n <= commands'
      BY <1>1, <1>2, <1>3 DEF SpareInv, NumberInv, Taken
    <2>2. \A d \in Call : calls'[d].id <= commands'
      BY <1>1, Numbers DEF SpareInv, NumberInv
    <2>3. \A d \in Call : calls'[d].pc \in Unregistered => calls'[d].id \notin Taken'
      BY <1>1, <1>2, <1>3 DEF SpareInv, NumberInv
    <2>4. \A d \in Call : d # c => calls'[d].id # calls'[c].id
      BY <1>1, Numbers DEF SpareInv, NumberInv
    <2>. QED  BY <1>1, <2>1, <2>2, <2>3, <2>4 DEF SpareInv, NumberInv
  <1>5. OpInv'
    BY <1>1, ConstantsAssumption DEF SpareInv, OpInv
  <1>6. OpenInv'
    BY <1>1 DEF SpareInv, OpenInv
  <1>7. AgreeInv' /\ ReconnectSparesSessions'
    BY DEF SpareInv, AgreeInv, ReconnectSparesSessions
  <1>8. StaleInv'
    <2>1. \A d \in Call : d # c => calls'[d] = calls[d]
      BY <1>1
    <2>2. CASE calls'[c].op # "reconnect"
      BY <2>1, <2>2 DEF SpareInv, StaleInv
    <2>3. CASE calls'[c].op = "reconnect"
      <3>1. /\ calls'[c].pc # "close"
            /\ DOMAIN calls'[c].stale = SessionsOf(calls'[c].profile)
        BY <2>3
      <3>2. calls'[c].id \notin DOMAIN calls'[c].stale
        BY <1>1, <1>3, Numbers DEF Taken
      <3>3. \A s \in DOMAIN sessions' : \A t \in DOMAIN calls'[c].stale :
              sessions'[s].client = calls'[c].stale[t] => s \in DOMAIN calls'[c].stale
        BY <3>1 DEF SpareInv, AgreeInv, SessionsOf
      <3>4. \A s \in DOMAIN calls'[c].stale : s \in DOMAIN sessions' =>
              sessions'[s].profile = calls'[c].profile
        BY <3>1 DEF SessionsOf
      <3>. QED  BY <2>1, <3>1, <3>2, <3>3, <3>4 DEF SpareInv, StaleInv
    <2>. QED  BY <2>2, <2>3
  <1>. QED  BY <1>4, <1>5, <1>6, <1>7, <1>8 DEF SpareInv

LEMMA SpareLists ==
  ASSUME TypeOK, SpareInv, NEW c \in Call, ListSessions(c)
  PROVE  SpareInv'
  <1>1. /\ \A d \in Call : d # c => calls'[d] = calls[d]
        /\ calls'[c].op = calls[c].op /\ calls'[c].id = calls[c].id
        /\ calls'[c].profile = calls[c].profile
        /\ calls[c].pc = "list" /\ calls'[c].pc = "drop"
        /\ calls'[c].stale = [s \in SessionsOf(calls[c].profile) |-> s]
    BY ListFields DEF Others, Keeps
  <1>2. UNCHANGED <<sessions, tabs, closed, shut, commands, deleted, guard>>
    BY DEF ListSessions, ghosts
  <1>3. NumberInv'
    <2>1. \A x \in DOMAIN calls'[c].stale : x \in DOMAIN sessions /\ calls'[c].stale[x] = x
      BY <1>1 DEF SessionsOf
    <2>2. \A n \in Taken' : n \in Taken
      BY <1>1, <1>2, <2>1 DEF Taken
    <2>. QED  BY <1>1, <1>2, <2>2 DEF SpareInv, NumberInv, Unregistered
  <1>4. OpInv' /\ OpenInv'
    BY <1>1, <1>2 DEF SpareInv, OpInv, OpenInv
  <1>5. AgreeInv' /\ ReconnectSparesSessions'
    BY <1>2 DEF SpareInv, AgreeInv, ReconnectSparesSessions
  <1>6. StaleInv'
    <2>1. calls'[c].op # "reconnect"
      BY <1>1 DEF SpareInv, OpInv
    <2>2. \A s \in DOMAIN calls'[c].stale : sessions[s].profile = calls'[c].profile
      BY <1>1 DEF SessionsOf
    <2>. QED  BY <1>1, <1>2, <2>1, <2>2 DEF SpareInv, StaleInv
  <1>. QED  BY <1>3, <1>4, <1>5, <1>6 DEF SpareInv

LEMMA SpareRegisters ==
  ASSUME TypeOK, SpareInv, NEW c \in Call, Register(c)
  PROVE  SpareInv'
  <1> DEFINE n == calls[c].id
             new == [profile |-> calls[c].profile, client |-> n]
  <1>1. /\ \A d \in Call : d # c => calls'[d] = calls[d]
        /\ calls'[c].op = calls[c].op /\ calls'[c].id = n
        /\ calls'[c].profile = calls[c].profile /\ calls'[c].stale = calls[c].stale
        /\ calls[c].pc = "register"
        /\ calls'[c].pc = IF calls[c].op = "reconnect" THEN "swap" ELSE "resume"
    <2>1. /\ Goes(c, To(c, IF calls[c].op = "reconnect" THEN "swap" ELSE "resume"))
          /\ calls[c].pc = "register"
      BY DEF Register, At
    <2>. QED  BY <2>1, ToFields DEF Others, Keeps
  <1>2. UNCHANGED <<tabs, closed, shut, commands, deleted, guard>>
    BY DEF Register, ghosts
  <1>3. n \in Nat /\ n \notin Taken /\ n <= commands
    BY <1>1, Numbers DEF SpareInv, NumberInv, Unregistered
  <1>4. /\ DOMAIN sessions' = DOMAIN sessions \cup {n} /\ sessions'[n] = new
        /\ \A s \in DOMAIN sessions : s # n => sessions'[s] = sessions[s]
    BY DEF Register, With
  <1>5. new.profile = calls[c].profile /\ new.client = n
    OBVIOUS
  <1>6. /\ n \notin DOMAIN sessions /\ n \notin DOMAIN tabs /\ n \notin closed
        /\ \A s \in DOMAIN sessions : sessions[s].client # n
        /\ \A d \in Call : \A x \in DOMAIN calls[d].stale : x # n /\ calls[d].stale[x] # n
    BY <1>3 DEF Taken
  <1>7. \A d \in Call : d # c /\ calls[d].pc # "idle" => calls[d].id # n
    BY <1>1 DEF SpareInv, NumberInv
  <1> HIDE DEF n, new
  <1>8. NumberInv'
    <2>1. \A m \in Taken' : m \in Taken \/ m = n
      BY <1>1, <1>2, <1>4, <1>5 DEF Taken
    <2>2. \A m \in Taken' : m <= commands
      BY <1>3, <2>1 DEF SpareInv, NumberInv
    <2>3. \A d \in Call : calls'[d].pc \in Unregistered => calls'[d].id \notin Taken'
      BY <1>1, <1>7, <2>1 DEF SpareInv, NumberInv, Unregistered
    <2>. QED  BY <1>1, <1>2, <1>3, <1>7, <2>2, <2>3 DEF SpareInv, NumberInv
  <1>9. OpInv'
    BY <1>1, <1>2 DEF SpareInv, OpInv
  <1>10. OpenInv'
    BY <1>1, <1>2, <1>4, <1>5, <1>6, <1>7 DEF SpareInv, OpenInv
  <1>11. AgreeInv'
    BY <1>2, <1>4, <1>5, <1>6 DEF SpareInv, AgreeInv
  <1>12. StaleInv'
    <2>1. \A d \in Call : /\ calls'[d].op = calls[d].op /\ calls'[d].profile = calls[d].profile
                          /\ calls'[d].stale = calls[d].stale /\ calls'[d].id = calls[d].id
                          /\ calls'[d].pc = "close" <=> calls[d].pc = "close"
      BY <1>1 DEF n
    <2>. QED  BY <1>4, <1>5, <1>6, <2>1 DEF SpareInv, StaleInv
  <1>13. ReconnectSparesSessions'
    BY <1>2, <1>4, <1>5, <1>6 DEF SpareInv, ReconnectSparesSessions
  <1>. QED  BY <1>8, <1>9, <1>10, <1>11, <1>12, <1>13 DEF SpareInv

LEMMA SpareSwaps ==
  ASSUME TypeOK, SpareInv, NEW c \in Call, Swap(c), sessions' = Replaced(c),
         calls[c].id \in DOMAIN sessions, Goes(c, To(c, "close")), UNCHANGED guard
  PROVE  SpareInv'
  <1> DEFINE n == calls[c].id
  <1>1. /\ \A d \in Call : d # c => calls'[d] = calls[d]
        /\ calls'[c].op = calls[c].op /\ calls'[c].id = n
        /\ calls'[c].profile = calls[c].profile /\ calls'[c].stale = calls[c].stale
        /\ calls[c].pc = "swap" /\ calls'[c].pc = "close"
    BY ToFields DEF Others, Keeps, Swap, At
  <1>2. UNCHANGED <<tabs, closed, shut, commands, deleted>>
    BY DEF Swap, ghosts
  <1>3. /\ DOMAIN sessions' = DOMAIN sessions \ {n}
        /\ \A s \in DOMAIN sessions' :
             /\ sessions'[s].profile = sessions[s].profile
             /\ sessions'[s].client = IF s \in DOMAIN calls[c].stale THEN sessions[n].client
                                      ELSE sessions[s].client
    <2>1. \A s \in DOMAIN sessions : sessions[s] \in SessionRecord
      BY DEF TypeOK, IsTable
    <2>. QED  BY <2>1 DEF Replaced, SessionRecord
  <1>4. \A d \in Call : d # c /\ calls[d].pc # "idle" => calls[d].id # n
    BY <1>1 DEF SpareInv, NumberInv
  <1>5. /\ calls[c].op = "reconnect" /\ n \notin DOMAIN calls[c].stale
        /\ n \notin DOMAIN tabs /\ n \in DOMAIN sessions
        /\ sessions[n].profile = calls[c].profile
    BY <1>1 DEF SpareInv, OpInv, StaleInv, OpenInv
  <1>6. \A d \in Call : d # c => calls[d].op # "reconnect"
    BY <1>5 DEF SpareInv, OpInv
  <1> HIDE DEF n
  <1>7. NumberInv'
    <2>1. \A m \in Taken' : m \in Taken
      BY <1>1, <1>2, <1>3, <1>5 DEF Taken
    <2>. QED  BY <1>1, <1>2, <1>4, <2>1, Numbers DEF SpareInv, NumberInv, Unregistered, n
  <1>8. OpInv'
    BY <1>1, <1>2 DEF SpareInv, OpInv
  <1>9. OpenInv'
    BY <1>1, <1>2, <1>3, <1>4 DEF SpareInv, OpenInv
  <1>10. AgreeInv'
    <2>1. \A s \in DOMAIN sessions : s \in DOMAIN calls[c].stale =>
            sessions[s].profile = sessions[n].profile
      BY <1>5 DEF SpareInv, StaleInv
    <2>. QED  BY <1>2, <1>3, <1>5, <2>1 DEF SpareInv, AgreeInv
  <1>11. StaleInv'
    <2>1. \A s \in DOMAIN sessions : \A t \in DOMAIN calls[c].stale :
            sessions[s].client = calls[c].stale[t] => s \in DOMAIN calls[c].stale
      BY <1>1, <1>5 DEF SpareInv, StaleInv
    <2>2. \A s \in DOMAIN sessions' : \A t \in DOMAIN calls[c].stale :
            sessions'[s].client # calls[c].stale[t]
      BY <1>3, <1>5, <2>1
    <2>3. \A d \in Call : calls'[d].op \in {"delete", "reconnect"} =>
            \A s \in DOMAIN calls'[d].stale : s \in DOMAIN sessions' =>
              sessions'[s].profile = calls'[d].profile
      BY <1>1, <1>3 DEF SpareInv, StaleInv
    <2>. QED  BY <1>1, <1>6, <2>2, <2>3 DEF StaleInv
  <1>12. ReconnectSparesSessions'
    BY <1>2, <1>3, <1>5 DEF SpareInv, ReconnectSparesSessions
  <1>. QED  BY <1>7, <1>8, <1>9, <1>10, <1>11, <1>12 DEF SpareInv

LEMMA SpareInit == Init => SpareInv
  <1> SUFFICES ASSUME Init PROVE SpareInv
    OBVIOUS
  <1>1. /\ DOMAIN sessions = {} /\ DOMAIN tabs = {} /\ closed = {} /\ commands = 0
        /\ guard = NoValue
        /\ \A c \in Call : /\ calls[c].pc = "idle" /\ calls[c].op = "none" /\ calls[c].id = 0
                           /\ DOMAIN calls[c].stale = {}
    BY NoCallFields DEF Init, Restrict
  <1>2. NumberInv
    BY <1>1 DEF NumberInv, Taken, Unregistered
  <1>3. OpInv /\ OpenInv /\ AgreeInv /\ StaleInv /\ ReconnectSparesSessions
    BY <1>1, ConstantsAssumption DEF OpInv, OpenInv, AgreeInv, StaleInv, ReconnectSparesSessions
  <1>. QED  BY <1>2, <1>3 DEF SpareInv

LEMMA SpareRestarts ==
  ASSUME TypeOK, SpareInv, Restart
  PROVE  SpareInv'
  <1>1. /\ DOMAIN sessions' = {} /\ DOMAIN tabs' = {} /\ UNCHANGED <<closed, shut, commands>>
        /\ guard' = NoValue /\ commands \in Nat
        /\ \A c \in Call : /\ calls'[c].pc = "idle" /\ calls'[c].op = "none"
                           /\ calls'[c].id = 0 /\ DOMAIN calls'[c].stale = {}
    BY NoCallFields, Numbers DEF Restart, Restrict
  <1>2. NumberInv'
    <2>1. \A n \in Taken' : n \in Taken
      BY <1>1 DEF Taken
    <2>. QED  BY <1>1, <2>1 DEF SpareInv, NumberInv, Unregistered
  <1>3. OpInv' /\ OpenInv' /\ AgreeInv' /\ StaleInv' /\ ReconnectSparesSessions'
    BY <1>1, ConstantsAssumption DEF OpInv, OpenInv, AgreeInv, StaleInv, ReconnectSparesSessions
  <1>. QED  BY <1>2, <1>3 DEF SpareInv

LEMMA SpareCalls ==
  ASSUME TypeOK, SpareInv, NEW c \in Call, CallStep(c)
  PROVE  SpareInv'
  <1>1. CASE DropSessions(c)
    <2>1. /\ calls[c].pc = "drop" /\ Returns(c)
          /\ UNCHANGED <<commands, deleted, tabs, closed, shut>>
          /\ sessions' = Restrict(sessions, DOMAIN sessions \ DOMAIN calls[c].stale)
      BY <1>1 DEF DropSessions, At, ghosts
    <2>2. /\ Shrinks(sessions, sessions')
          /\ DOMAIN sessions' = DOMAIN sessions \ DOMAIN calls[c].stale
      BY <2>1 DEF Restrict, Shrinks
    <2>3. calls[c].op = "delete" /\ calls[c].profile \in deleted
      BY <2>1 DEF SpareInv, OpInv
    <2>4. \A s \in DOMAIN sessions : s \notin DOMAIN sessions' => sessions[s].profile \in deleted
      BY <2>2, <2>3 DEF SpareInv, StaleInv
    <2>. QED  BY <2>1, <2>2, <2>4, SpareEnds DEF Ends
  <1>2. ASSUME calls[c].pc # "idle", Returns(c),
               UNCHANGED <<commands, deleted, tabs, closed, shut, sessions>>
        PROVE  SpareInv'
    BY <1>2, SpareEnds DEF Ends, Shrinks
  <1>3. CASE ConnectFails(c) \/ Challenge(c) \/ ImportReturns(c)
    BY <1>2, <1>3 DEF ConnectFails, Challenge, ImportReturns, At, ghosts
  <1>4. CASE Resume(c)
    <2>1. /\ calls[c].pc = "resume" /\ Returns(c)
          /\ UNCHANGED <<commands, deleted, closed, shut, sessions>>
          /\ tabs' = With(tabs, calls[c].id, calls[c].profile) \/ UNCHANGED tabs
      BY <1>4 DEF Resume, At
    <2>2. \A t \in DOMAIN tabs' :
            \/ t \in DOMAIN tabs /\ tabs'[t] = tabs[t]
            \/ t = calls[c].id /\ tabs'[t] = calls[c].profile
      BY <2>1 DEF With
    <2>. QED  BY <2>1, <2>2, SpareEnds DEF Ends, Shrinks
  <1>5. CASE CloseStale(c)
    <2>1. /\ calls[c].pc = "close" /\ calls[c].op = "reconnect" /\ Returns(c)
          /\ UNCHANGED <<commands, deleted, tabs, shut, sessions>>
          /\ closed' = closed \cup Range(calls[c].stale)
      BY <1>5 DEF CloseStale, At, ghosts
    <2>2. \A n \in closed' : n \in closed \/ \E x \in DOMAIN calls[c].stale : n = calls[c].stale[x]
      BY <2>1 DEF Range
    <2>3. \A s \in DOMAIN sessions : sessions[s].client \in closed' => sessions[s].client \in closed
      BY <2>1, <2>2 DEF SpareInv, StaleInv
    <2>. QED  BY <2>1, <2>2, <2>3, SpareEnds DEF Ends, Shrinks
  <1>6. CASE Disconnect(c)
    <2>1. /\ calls[c].pc = "close" /\ Returns(c)
          /\ UNCHANGED <<commands, deleted, tabs, sessions>>
          /\ closed' = closed \cup Range(calls[c].stale)
          /\ shut' = shut \cup Range(calls[c].stale)
      BY <1>6 DEF Disconnect, At
    <2>2. \A n \in closed' : n \in closed \/ \E x \in DOMAIN calls[c].stale : n = calls[c].stale[x]
      BY <2>1 DEF Range
    <2>3. \A n \in closed' : n \in closed \cup shut'
      BY <2>1
    <2>. QED  BY <2>1, <2>2, <2>3, SpareEnds DEF Ends, Shrinks
  <1>7. CASE Resolve(c)
    <2>1. UNCHANGED <<commands, deleted, tabs, closed, shut, sessions>> /\ calls[c].pc = "resolve"
      BY <1>7 DEF Resolve, At, ghosts
    <2>2. CASE ~Returns(c)
      BY <1>7, <2>1, <2>2, ResolveFields, SpareAdvances DEF Advances, Unregistered
    <2>. QED  BY <1>2, <2>1, <2>2
  <1>8. CASE Handshake(c)
    <2>1. UNCHANGED <<commands, deleted, tabs, closed, shut, sessions, guard>>
      BY <1>8 DEF Handshake, ghosts
    <2>. QED  BY <1>8, <2>1, HandshakeFields, SpareAdvances DEF Advances, Unregistered
  <1>9. CASE Accept(c)
    <2>1. UNCHANGED <<commands, deleted, tabs, closed, shut, sessions, guard>>
      BY <1>9 DEF Accept, ghosts
    <2>. QED  BY <1>9, <2>1, AcceptFields, SpareAdvances DEF Advances, Unregistered
  <1>10. CASE SignsIn(c)
    <2>1. /\ UNCHANGED <<commands, deleted, tabs, closed, shut, sessions, guard>>
          /\ calls[c].pc = "dial" /\ Goes(c, To(c, "keep"))
      BY <1>10 DEF SignsIn, At
    <2>. QED  BY <2>1, ToFields, SpareAdvances DEF Advances, Unregistered
  <1>11. CASE KeepSecret(c)
    <2>1. /\ UNCHANGED <<commands, deleted, tabs, closed, shut, sessions, guard>>
          /\ calls[c].pc = "keep" /\ Goes(c, To(c, "register"))
      BY <1>11 DEF KeepSecret, At, ghosts
    <2>. QED  BY <2>1, ToFields, SpareAdvances DEF Advances, Unregistered
  <1>12. CASE Swap(c)
    <2>1. calls[c].pc = "swap" /\ UNCHANGED <<commands, deleted, tabs, closed, shut>>
      BY <1>12 DEF Swap, At, ghosts
    <2>2. CASE Returns(c) /\ UNCHANGED sessions
      BY <1>2, <2>1, <2>2
    <2>. QED  BY <1>12, <2>2, SpareSwaps DEF Swap
  <1>13. CASE Forget(c)
    <2>1. UNCHANGED <<commands, deleted, tabs, closed, shut, sessions, guard>>
      BY <1>13 DEF Forget
    <2>. QED  BY <1>13, <2>1, ForgetFields, SpareMinds DEF Minds, Keeps
  <1>14. CASE ImportRow(c) \/ ImportTurns(c) \/ ImportChecks(c) \/ ImportLays(c)
    <2>1. ImportsOnly(c)
      BY <1>14, ImportFields
    <2>. QED  BY <2>1, SpareMinds DEF ImportsOnly, Minds, ghosts
  <1>. QED  BY <1>1, <1>3, <1>4, <1>5, <1>6, <1>7, <1>8, <1>9, <1>10, <1>11, <1>12, <1>13,
               <1>14, SpareLists, SpareRegisters DEF CallStep

LEMMA SpareCommands ==
  ASSUME TypeOK, SpareInv, NEW c \in Call, Command(c)
  PROVE  SpareInv'
  <1>1. ASSUME NEW p \in Profile, ConnectProfile(c, p)
        PROVE  SpareInv'
    <2>1. UNCHANGED <<closed, shut, deleted, sessions, tabs, guard>>
      BY <1>1 DEF ConnectProfile, ghosts
    <2>. QED  BY <1>1, <2>1, ConnectBegins, SpareStarts DEF Starts, Shrinks
  <1>2. ASSUME NEW p \in Profile, DeleteProfile(c, p)
        PROVE  SpareInv'
    <2>1. UNCHANGED <<closed, shut, sessions, tabs, guard>> /\ deleted' = deleted \cup {p}
      BY <1>2 DEF DeleteProfile
    <2>. QED  BY <1>2, <2>1, DeleteBegins, SpareStarts DEF Starts, Shrinks
  <1>3. ASSUME NEW p \in Profile, Reconnect(c, p)
        PROVE  SpareInv'
    <2>1. UNCHANGED <<closed, shut, deleted, sessions, tabs>> /\ guard = NoValue /\ guard' = c
      BY <1>3 DEF Reconnect, ghosts
    <2>2. /\ Begun(c) /\ calls'[c].pc = "resolve" /\ calls'[c].op = "reconnect"
          /\ calls'[c].profile = p
          /\ calls'[c].stale = [s \in SessionsOf(p) |-> sessions[s].client]
      BY <1>3, ReconnectBegins
    <2>3. /\ DOMAIN calls'[c].stale = SessionsOf(p)
          /\ \A x \in DOMAIN calls'[c].stale :
               x \in DOMAIN sessions /\ calls'[c].stale[x] = sessions[x].client
      BY <2>2 DEF SessionsOf
    <2>. QED  BY <2>1, <2>2, <2>3, SpareStarts DEF Starts, Shrinks
  <1>4. ASSUME NEW p \in Profile, RecentlyReconnected(c, p)
        PROVE  SpareInv'
    <2>1. /\ UNCHANGED <<calls, closed, shut, deleted, sessions, tabs, guard>>
          /\ commands' = commands + 1
      BY <1>4 DEF RecentlyReconnected, ghosts
    <2>. QED  BY <2>1, SpareIdles DEF Idles, Shrinks
  <1>5. ASSUME NEW ch \in DOMAIN pending, Answer(c, ch)
        PROVE  SpareInv'
    <2>1. UNCHANGED <<closed, shut, deleted, sessions, tabs, guard>>
      BY <1>5 DEF Answer, ghosts
    <2>. QED  BY <1>5, <2>1, AnswerBegins, SpareStarts DEF Starts, Shrinks
  <1>6. ASSUME NEW s \in DOMAIN tabs, DisconnectSession(c, s)
        PROVE  SpareInv'
    <2>1. /\ UNCHANGED <<closed, shut, deleted, guard>>
          /\ DOMAIN tabs' = DOMAIN tabs \ {s} /\ Shrinks(tabs, tabs')
          /\ DOMAIN sessions' = DOMAIN sessions \ {s} /\ Shrinks(sessions, sessions')
      BY <1>6 DEF DisconnectSession, Restrict, Shrinks
    <2>2. CASE s \notin DOMAIN sessions
      <3>1. UNCHANGED <<calls, commands>>
        BY <1>6, <2>2 DEF DisconnectSession
      <3>. QED  BY <2>1, <2>2, <3>1, SpareIdles DEF Idles
    <2>3. CASE s \in DOMAIN sessions
      <3>1. /\ Begun(c) /\ calls'[c].pc = "close" /\ calls'[c].op = "disconnect"
            /\ calls'[c].stale = [x \in {s} |-> sessions[x].client]
        BY <1>6, <2>3, DisconnectBegins
      <3>2. \A x \in DOMAIN calls'[c].stale :
              x \in DOMAIN sessions /\ calls'[c].stale[x] = sessions[x].client
        BY <2>3, <3>1
      <3>. QED  BY <2>1, <3>1, <3>2, SpareStarts DEF Starts
    <2>. QED  BY <2>2, <2>3
  <1>7. CASE ImportConfiguration(c)
    <2>1. UNCHANGED <<closed, shut, deleted, sessions, tabs, guard>>
      BY <1>7 DEF ImportConfiguration
    <2>. QED  BY <1>7, <2>1, ImportBegins, SpareStarts DEF Starts, Shrinks
  <1>. QED  BY <1>1, <1>2, <1>3, <1>4, <1>5, <1>6, <1>7 DEF Command

LEMMA SpareStep == TypeOK /\ SpareInv /\ [Next]_vars => SpareInv'
  <1> SUFFICES ASSUME TypeOK, SpareInv, [Next]_vars
               PROVE  SpareInv'
    OBVIOUS
  <1>1. CASE \/ \E p \in Profile : SaveProfile(p)
             \/ \E h \in Host : RemoveTrustedHost(h)
             \/ \E ch \in DOMAIN pending : Decline(ch)
             \/ ImportKnownHosts \/ ServerChangesKey \/ UNCHANGED vars
    <2>1. /\ UNCHANGED <<calls, closed, shut, deleted, sessions, tabs, guard>>
          /\ commands' \in {commands, commands + 1}
      BY <1>1 DEF SaveProfile, RemoveTrustedHost, Decline, ImportKnownHosts,
                  ServerChangesKey, ghosts, vars
    <2>. QED  BY <2>1, SpareIdles DEF Idles, Shrinks
  <1>. QED  BY <1>1, SpareRestarts, SpareCalls, SpareCommands DEF Next

(* reconnect_profile_for_transfer, for any commands at once: no session is *)
(* left with a connection it closed, unless the user closed another one of *)
(* that connection, and the user's tabs keep their sessions until they are *)
(* closed or their profile is deleted.                                     *)
THEOREM TabsKeepTheirSessions == Spec => []ReconnectSparesSessions
  <1>1. Init => TypeOK /\ SpareInv
    BY TypesInit, SpareInit
  <1>2. TypeOK /\ SpareInv /\ [Next]_vars => TypeOK' /\ SpareInv'
    BY TypesStep, SpareStep
  <1>3. SpareInv => ReconnectSparesSessions
    BY DEF SpareInv
  <1>. QED  BY <1>1, <1>2, <1>3, PTL DEF Spec

===============================================================================
