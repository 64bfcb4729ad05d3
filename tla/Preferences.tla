----------------------------- MODULE Preferences -----------------------------
(***************************************************************************)
(* The preferences: the row in the database, the copy in memory that the   *)
(* commands read, the limits of the scheduler and the switch of the        *)
(* diagnostics, and save_preferences (commands.rs), which brings the four  *)
(* up to date one after the other while it holds preferences_save_guard.   *)
(***************************************************************************)
EXTENDS Naturals

CONSTANTS
  Saves,        \* save_preferences commands
  Limit,        \* concurrency limits a user may ask for
  Greatest,     \* 12: the highest that is accepted
  Default,      \* Preferences::default(), there while nothing was saved
  None          \* nobody

ASSUME NobodyAssumption == None \notin Saves

Switch == {"on", "off"}

Values == [limit : Limit, diagnostics : Switch]

Accepted(v) == v.limit # 0 /\ v.limit <= Greatest

ASSUME DefaultAssumption == Default \in Values /\ Accepted(Default)

VARIABLES
  row,          \* what is in the database
  memory,       \* state.preferences
  limit,        \* the limit of the scheduler
  diagnostics,  \* whether diagnostics are recorded
  guard,        \* the save that holds preferences_save_guard, or None
  saves         \* saves[s]: how far it is, with what, and the diagnostics it read

settings == <<row, memory, limit, diagnostics, guard, saves>>

---------------------------------------------------------------------------

PreferencesInit ==
  /\ row = Default
  /\ memory = row
  /\ limit = row.limit
  /\ diagnostics = row.diagnostics
  /\ guard = None
  /\ saves = [s \in Saves |-> [at |-> "idle", value |-> row, was |-> "off"]]

At(s, at) == saves[s].at = at

To(s, at) == saves' = [saves EXCEPT ![s].at = at]

\* Values out of range are refused before anything is locked.
AsksToSave(s, v) ==
  /\ At(s, "idle")
  /\ Accepted(v)
  /\ saves' = [saves EXCEPT ![s].at = "waiting", ![s].value = v]
  /\ UNCHANGED <<row, memory, limit, diagnostics, guard>>

(* Mutant of TakesGuard: the saves do not wait for each other. *)
TakesNoGuard(s) ==
  /\ At(s, "waiting")
  /\ To(s, "read")
  /\ guard' = s
  /\ UNCHANGED <<row, memory, limit, diagnostics>>

TakesGuard(s) ==
  /\ At(s, "waiting")
  /\ guard = None
  /\ To(s, "read")
  /\ guard' = s
  /\ UNCHANGED <<row, memory, limit, diagnostics>>

\* Whether the diagnostics change is decided against the memory of this moment.
ReadsDiagnostics(s) ==
  /\ At(s, "read")
  /\ saves' = [saves EXCEPT ![s].at = "persist", ![s].was = memory.diagnostics]
  /\ UNCHANGED <<row, memory, limit, diagnostics, guard>>

Persists(s) ==
  /\ At(s, "persist")
  /\ To(s, "remember")
  /\ row' = saves[s].value
  /\ UNCHANGED <<memory, limit, diagnostics, guard>>

\* The row cannot be written: the guard is dropped with nothing changed.
PersistFails(s) ==
  /\ At(s, "persist")
  /\ To(s, "idle")
  /\ guard' = None
  /\ UNCHANGED <<row, memory, limit, diagnostics>>

Remembers(s) ==
  /\ At(s, "remember")
  /\ To(s, "limit")
  /\ memory' = saves[s].value
  /\ UNCHANGED <<row, limit, diagnostics, guard>>

UpdatesLimits(s) ==
  /\ At(s, "limit")
  /\ To(s, "switch")
  /\ limit' = saves[s].value.limit
  /\ UNCHANGED <<row, memory, diagnostics, guard>>

\* set_enabled() is called only for a change.
SetsEnabled(s) ==
  /\ At(s, "switch")
  /\ To(s, "idle")
  /\ diagnostics' = IF saves[s].was # saves[s].value.diagnostics
                    THEN saves[s].value.diagnostics ELSE diagnostics
  /\ guard' = None
  /\ UNCHANGED <<row, memory, limit>>

\* AppState::new(): everything follows the row.
PreferencesRestart ==
  /\ memory' = row
  /\ limit' = row.limit
  /\ diagnostics' = row.diagnostics
  /\ guard' = None
  /\ saves' = [s \in Saves |-> [saves[s] EXCEPT !.at = "idle"]]
  /\ UNCHANGED row

Saving(s) ==
  \/ \E v \in Values : AsksToSave(s, v)
  \/ TakesGuard(s)
  \/ ReadsDiagnostics(s)
  \/ Persists(s)
  \/ PersistFails(s)
  \/ Remembers(s)
  \/ UpdatesLimits(s)
  \/ SetsEnabled(s)

PreferencesNext == (\E s \in Saves : Saving(s)) \/ PreferencesRestart

PreferencesSpec == PreferencesInit /\ [][PreferencesNext]_settings

---------------------------------------------------------------------------

\* Whenever no save is under way, the row, the copy in memory, the limits of
\* the scheduler and the diagnostics say the same, whichever saves crossed
\* each other, failed or were cut short by a restart (save_preferences).
SettingsAgree ==
  guard = None =>
    /\ memory = row
    /\ limit = row.limit
    /\ diagnostics = row.diagnostics
=============================================================================
