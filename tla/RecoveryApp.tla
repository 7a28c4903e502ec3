----------------------------- MODULE RecoveryApp -----------------------------
(***************************************************************************)
(* slm-recovery-app: what runs in place of the shell in a recovery         *)
(* session.  Its first frame clears the recovery state; its buttons change *)
(* the configuration files and the state.  One thread: an invokable runs   *)
(* to its end before the next starts, but other processes can write        *)
(* between its load and its save of state.json.                            *)
(***************************************************************************)
EXTENDS LoginState

VARIABLES
  apc,      \* new, idle, or the step an invokable stands at
  adraft,   \* the SessionState it has loaded
  leaving,  \* QCoreApplication::quit() follows
  greeted   \* the single-shot first-frame handler has run

appVars == <<apc, adraft, leaving, greeted>>

AppTypeOK ==
  /\ apc \in {"new", "idle", "clear.save", "clear.marker", "defaults.load", "defaults.save"}
  /\ adraft \in SessionState
  /\ leaving \in BOOLEAN
  /\ greeted \in BOOLEAN

NoApp ==
  /\ apc = "idle"
  /\ adraft = DefaultState
  /\ leaving = FALSE
  /\ greeted = FALSE

\* There is no such process any more ...
AppReset == apc' = "idle" /\ adraft' = DefaultState /\ leaving' = FALSE /\ greeted' = FALSE

\* ... or, in a recovery session, a new one.
AppLaunched ==
  /\ apc' = IF mode = "recovery" THEN "new" ELSE "idle"
  /\ adraft' = DefaultState
  /\ leaving' = FALSE
  /\ greeted' = FALSE

\* The constructor: its config.load() repairs the active file.
Construct ==
  /\ apc = "new"
  /\ apc' = "idle"
  /\ store' = Load(store)
  /\ UNCHANGED <<st, marker, mode, up, frame, adraft, leaving, greeted>>

\* clearRecoveryState(source, true), up to its save.
ClearLoad ==
  /\ apc = "idle"
  /\ apc' = "clear.save"
  /\ adraft' = MarkedHealthy(st, st.good)

\* markRecoveryUiHealthy(), called when the first frame is swapped.
MarkRecoveryUiHealthy ==
  /\ frame /\ ~greeted
  /\ greeted' = TRUE
  /\ ClearLoad
  /\ UNCHANGED <<sharedVars, leaving>>

\* exitToDesktop()
ExitToDesktop ==
  /\ greeted /\ ~leaving
  /\ leaving' = TRUE
  /\ ClearLoad
  /\ UNCHANGED <<sharedVars, greeted>>

ClearSave ==
  /\ apc = "clear.save"
  /\ apc' = "clear.marker"
  /\ st' = adraft
  /\ adraft' = DefaultState
  /\ UNCHANGED <<store, marker, mode, up, frame, leaving, greeted>>

ClearRequest ==
  /\ apc = "clear.marker"
  /\ apc' = "idle"
  /\ marker' = FALSE
  /\ UNCHANGED <<store, st, mode, up, frame, adraft, leaving, greeted>>

\* restartDesktop() quits and clears nothing.
RestartDesktop ==
  /\ apc = "idle" /\ greeted /\ ~leaving
  /\ leaving' = TRUE
  /\ UNCHANGED <<sharedVars, apc, adraft, greeted>>

\* resetToSafeDefaults(): the files, then the crash counter.
ResetToSafeDefaults ==
  /\ apc = "idle" /\ greeted /\ ~leaving
  /\ apc' = "defaults.load"
  /\ store' = RollbackToSafe(Load(store))
  /\ UNCHANGED <<st, marker, mode, up, frame, adraft, leaving, greeted>>

DefaultsLoad ==
  /\ apc = "defaults.load"
  /\ apc' = "defaults.save"
  /\ adraft' = [st EXCEPT !.count = 0, !.forced = FALSE]
  /\ UNCHANGED <<sharedVars, leaving, greeted>>

DefaultsSave ==
  /\ apc = "defaults.save"
  /\ apc' = "idle"
  /\ st' = adraft
  /\ adraft' = DefaultState
  /\ UNCHANGED <<store, marker, mode, up, frame, leaving, greeted>>

\* The buttons that change configuration files only.  Without a previous
\* configuration rollbackToPrevious() has still made its load().
RestoreConfig ==
  /\ apc = "idle" /\ greeted /\ ~leaving
  /\ LET loaded == Load(store) IN
     \/ store' = IF HasPrevious(loaded) THEN RollbackToPrevious(loaded) ELSE loaded
     \/ \E id \in loaded.snaps : store' = RestoreSnapshot(loaded, id)
     \/ store' = FactoryReset(loaded)
  /\ UNCHANGED <<st, marker, mode, up, frame, appVars>>
=============================================================================
