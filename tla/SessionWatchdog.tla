--------------------------- MODULE SessionWatchdog ---------------------------
(***************************************************************************)
(* slm-watchdog: a process the broker starts with every session stack.  It *)
(* sleeps for kHealthySessionSeconds, looks once whether the session is    *)
(* healthy, and if so rewrites state.json, makes the active configuration  *)
(* the safe baseline and removes the recovery-partition request.           *)
(***************************************************************************)
EXTENDS LoginState

VARIABLES
  wpc,      \* off, armed, baseline, save or clear
  wmode,    \* SLM_SESSION_MODE in its environment
  wdraft,   \* the SessionState markSessionHealthy() has loaded
  age       \* 0: just started; 1: the first-frame timeout has passed;
            \* 2: its own timer has

watchdogVars == <<wpc, wmode, wdraft, age>>

WatchdogTypeOK ==
  /\ wpc \in {"off", "armed", "baseline", "save", "clear"}
  /\ wmode \in Mode
  /\ wdraft \in SessionState
  /\ age \in 0 .. 2

NoWatchdog ==
  /\ wpc = "off"
  /\ wmode = "normal"
  /\ wdraft = DefaultState
  /\ age = 0

\* The constructor starts the single-shot timer.
Arm ==
  /\ wpc' = "armed"
  /\ wmode' = mode
  /\ wdraft' = DefaultState
  /\ age' = 0

Stopped ==
  /\ wpc' = "off"
  /\ age' = 0
  /\ wdraft' = DefaultState
  /\ UNCHANGED wmode

\* Time passes: kShellFirstFrameTimeoutMs, then kHealthySessionSeconds.
Tick ==
  /\ wpc = "armed"
  /\ age < 2
  /\ age' = age + 1
  /\ UNCHANGED <<sharedVars, wpc, wmode, wdraft>>

\* Mutant: a running recovery application will do as well.
AliveIsHealthy(stable, alive) == up /\ (frame \/ alive)

\* isSessionHealthy(): the socket is there, and the first frame is.  In recovery
\* the frame must have been there for a while (stable); otherwise a running
\* shell (alive) will do.
IsSessionHealthy(stable, alive) ==
  /\ up
  /\ IF wmode = "recovery" THEN frame /\ stable ELSE frame \/ alive

\* onHealthyTimeout(), and the load and the changes of markSessionHealthy().
OnHealthyTimeout(stable, alive) ==
  /\ wpc = "armed" /\ age = 2
  /\ IF IsSessionHealthy(stable, alive)
       THEN /\ wpc' = "baseline"
            /\ wdraft' = MarkedHealthy(st, st.good)
            /\ UNCHANGED <<wmode, age>>
       ELSE Stopped
  /\ UNCHANGED sharedVars

\* config.load(), config.snapshot() and config.promoteToLastGood().
PromoteBaseline ==
  LET loaded == Load(store) IN
  /\ wpc = "baseline"
  /\ wpc' = "save"
  /\ store' = WithBaseline(loaded)
  /\ wdraft' = [wdraft EXCEPT !.good = SnapshotId(loaded, wdraft)]
  /\ UNCHANGED <<st, marker, mode, up, frame, wmode, age>>

SaveHealthy ==
  /\ wpc = "save"
  /\ wpc' = "clear"
  /\ st' = wdraft
  /\ UNCHANGED <<store, marker, mode, up, frame, wmode, wdraft, age>>

ClearMarker ==
  /\ wpc = "clear"
  /\ Stopped
  /\ marker' = FALSE
  /\ UNCHANGED <<store, st, mode, up, frame>>
=============================================================================
