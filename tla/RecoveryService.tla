--------------------------- MODULE RecoveryService ---------------------------
(***************************************************************************)
(* slm-recoveryd, the recovery daemon of the user session: D-Bus methods   *)
(* that count crash reports per component and, when a component crashes in *)
(* a loop, roll the configuration back, force safe mode for the next       *)
(* session and finally request the recovery partition.  Calls are served   *)
(* one at a time; between the load and the save of state.json inside a     *)
(* call the other processes of the login stack go on.                      *)
(***************************************************************************)
EXTENDS LoginState

CONSTANTS
  Component,            \* what crash reports name
  Critical,             \* "compositor" and "shell" among them
  BurstThreshold,       \* kCrashLoopThreshold of recoveryservice.cpp
  MaxAutoAttempts       \* kMaxAutoRecoveryAttempts

ASSUME RecoveryAssumption ==
  /\ Critical \subseteq Component
  /\ BurstThreshold \in Nat
  /\ MaxAutoAttempts \in Nat

VARIABLES
  rpc,        \* the step the served call stands at
  rdraft,     \* the SessionState setSafeModeForced() has loaded
  burst,      \* m_crashHistoryByComponent: reports in the last 10 seconds
  attempts    \* m_autoRecoveryAttempts

recoverydVars == <<rpc, rdraft, burst, attempts>>

RecoverydTypeOK ==
  /\ rpc \in {"idle", "auto.load", "auto.save", "auto.escalate", "auto.partition",
              "request.load", "request.save", "clear.load", "clear.save",
              "clear.marker"}
  /\ rdraft \in SessionState
  /\ burst \in [Component -> 0 .. BurstThreshold + 1]
  /\ attempts \in 0 .. MaxAutoAttempts

NoReports ==
  /\ rpc = "idle"
  /\ rdraft = DefaultState
  /\ burst = [c \in Component |-> 0]
  /\ attempts = 0

\* A daemon that is restarted remembers nothing.
RecoverydReset ==
  /\ rpc' = "idle"
  /\ rdraft' = DefaultState
  /\ burst' = [c \in Component |-> 0]
  /\ attempts' = 0

\* The first step of TriggerAutoRecovery(): the rollback and the attempt.
\* Only whether attempts reaches its limit matters, so it stops there.
AutoRecovery ==
  /\ rpc' = "auto.load"
  /\ store' = IF HasPrevious(store) THEN RollbackToPrevious(store)
                                    ELSE RollbackToSafe(store)
  /\ attempts' = IF attempts < MaxAutoAttempts THEN attempts + 1 ELSE attempts

TriggerAutoRecovery ==
  /\ rpc = "idle"
  /\ AutoRecovery
  /\ UNCHANGED <<st, marker, mode, up, frame, rdraft, burst>>

\* ReportCrash(): kept reports are still inside the window (which ones depends
\* on the clock); more than one above the threshold counts as one above.
ReportCrash(c, kept) ==
  LET reports == IF kept <= BurstThreshold THEN kept + 1 ELSE kept IN
  /\ rpc = "idle"
  /\ kept <= burst[c]
  /\ burst' = [burst EXCEPT ![c] = reports]
  /\ IF c \in Critical /\ reports > BurstThreshold
       THEN AutoRecovery
       ELSE UNCHANGED <<rpc, store, attempts>>
  /\ UNCHANGED <<st, marker, mode, up, frame, rdraft>>

RequestSafeMode ==
  /\ rpc = "idle"
  /\ rpc' = "request.load"
  /\ UNCHANGED <<sharedVars, rdraft, burst, attempts>>

RequestRecoveryPartition ==
  /\ rpc = "idle"
  /\ marker' = TRUE
  /\ UNCHANGED <<store, st, mode, up, frame, recoverydVars>>

ClearRecoveryFlags ==
  /\ rpc = "idle"
  /\ rpc' = "clear.load"
  /\ UNCHANGED <<sharedVars, rdraft, burst, attempts>>

\* setSafeModeForced(): load, change one field, save the whole record.
ForceLoad(from, to, enabled) ==
  /\ rpc = from
  /\ rpc' = to
  /\ rdraft' = [st EXCEPT !.forced = enabled]
  /\ UNCHANGED <<sharedVars, burst, attempts>>

ForceSave(from, to) ==
  /\ rpc = from
  /\ rpc' = to
  /\ st' = rdraft
  /\ rdraft' = DefaultState
  /\ UNCHANGED <<store, marker, mode, up, frame, burst, attempts>>

AutoLoad == ForceLoad("auto.load", "auto.save", TRUE)
AutoSave == ForceSave("auto.save", "auto.escalate")
RequestLoad == ForceLoad("request.load", "request.save", TRUE)
RequestSave == ForceSave("request.save", "idle")
ClearLoadFlags == ForceLoad("clear.load", "clear.save", FALSE)
ClearSaveFlags == ForceSave("clear.save", "clear.marker")

\* state.json cannot be read or written: safe mode was not forced.  Auto
\* recovery then escalates at once, the other two calls report the error;
\* ClearRecoveryFlags() still removes the marker but keeps its counters.
ForceFails ==
  /\ \/ rpc \in {"auto.load", "auto.save"} /\ rpc' = "auto.partition"
     \/ rpc \in {"request.load", "request.save"} /\ rpc' = "idle"
     \/ rpc \in {"clear.load", "clear.save"} /\ rpc' = "idle"
  /\ marker' = (marker /\ rpc \notin {"clear.load", "clear.save"})
  /\ rdraft' = DefaultState
  /\ UNCHANGED <<store, st, mode, up, frame, burst, attempts>>

\* The rest of TriggerAutoRecovery(): from the second attempt on, or when safe
\* mode could not be forced, ask for the recovery partition as well.
Escalate ==
  /\ rpc \in {"auto.escalate", "auto.partition"}
  /\ rpc' = "idle"
  /\ marker' = (marker \/ rpc = "auto.partition" \/ attempts >= MaxAutoAttempts)
  /\ UNCHANGED <<store, st, mode, up, frame, rdraft, burst, attempts>>

ClearMarkerFlag ==
  /\ rpc = "clear.marker"
  /\ rpc' = "idle"
  /\ marker' = FALSE
  /\ attempts' = 0
  /\ UNCHANGED <<store, st, mode, up, frame, rdraft, burst>>
=============================================================================
