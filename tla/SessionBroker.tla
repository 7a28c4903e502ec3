---------------------------- MODULE SessionBroker ----------------------------
(***************************************************************************)
(* slm-session-broker: one run of SessionBroker::run() per login, with the *)
(* compositor and the shell it starts as child processes.                  *)
(*                                                                         *)
(* pc names where run() stands: "off" (no broker), "boot" and "select"     *)
(* (the two halves of readState() and the choice of the mode), "prepare",  *)
(* "launch", "monitor" (monitorSession() or monitorRecoverySession()),     *)
(* "promote" (inside promoteHealthyAfterFirstFrame()), "end" and "record"  *)
(* (writeSessionEnded()) and "exit".  A boundary between two labels is a   *)
(* place where another process can write a file, or the machine can stop.  *)
(***************************************************************************)
EXTENDS LoginState

CONSTANTS
  MaxRestarts     \* 3 in monitorSession(), for the shell and for the stack

ASSUME RestartAssumption == MaxRestarts \in Nat

VARIABLES
  pc,
  requested,      \* m_requestedMode
  mst,            \* m_state
  plan,           \* m_config: what compositor() and shell() read
  promoted,       \* m_promotedHealthyFromFirstFrame
  draft,          \* the state promoteHealthyAfterFirstFrame() has loaded
  compositor,     \* child process: none, running or how it exited
  shell,          \* child process
  shellRestarts,  \* m_shellRestartCount
  stackRestarts,  \* m_compositorRestartCount
  crashed,        \* crashReason is not empty
  term            \* s_terminationRequested

brokerVars == <<pc, requested, mst, plan, promoted, draft, compositor, shell,
                shellRestarts, stackRestarts, crashed, term>>

Label == {"off", "boot", "select", "prepare", "launch", "monitor", "promote",
          "end", "record", "exit"}
Process == {"none", "running", "clean", "failed"}

BrokerTypeOK ==
  /\ pc \in Label
  /\ requested \in Mode
  /\ mst \in SessionState
  /\ plan \in Content
  /\ promoted \in BOOLEAN
  /\ draft \in SessionState
  /\ compositor \in Process
  /\ shell \in Process
  /\ shellRestarts \in 0 .. MaxRestarts
  /\ stackRestarts \in 0 .. MaxRestarts
  /\ crashed \in BOOLEAN
  /\ term \in BOOLEAN

NoBroker ==
  /\ pc = "off"
  /\ requested = "normal"
  /\ mst = DefaultState
  /\ plan = Empty
  /\ promoted = FALSE
  /\ draft = DefaultState
  /\ compositor = "none"
  /\ shell = "none"
  /\ shellRestarts = 0
  /\ stackRestarts = 0
  /\ crashed = FALSE
  /\ term = FALSE

\* The process is gone and its members with it.
BrokerGone ==
  /\ pc' = "off"
  /\ requested' = "normal"
  /\ mst' = DefaultState
  /\ plan' = Empty
  /\ promoted' = FALSE
  /\ draft' = DefaultState
  /\ compositor' = "none"
  /\ shell' = "none"
  /\ shellRestarts' = 0
  /\ stackRestarts' = 0
  /\ crashed' = FALSE
  /\ term' = FALSE

childVars == <<compositor, shell, shellRestarts, stackRestarts>>

-----------------------------------------------------------------------------
(* Startup *)

\* Mutant: an unconfirmed configuration is not undone.
StartAsItIs(m) ==
  /\ pc = "off"
  /\ pc' = "boot"
  /\ requested' = m
  /\ mst' = st
  /\ promoted' = FALSE
  /\ crashed' = FALSE
  /\ term' = FALSE
  /\ UNCHANGED <<sharedVars, plan, draft, childVars>>

\* readState(), first half: load state.json and undo a configuration that was
\* tried and not confirmed.  A new process: every member starts afresh.
Start(m) ==
  /\ pc = "off"
  /\ pc' = "boot"
  /\ requested' = m
  /\ mst' = st
  /\ store' = IF st.pending /\ st.status # "healthy" /\ HasPrevious(store)
                THEN RollbackToPrevious(store) ELSE store
  /\ promoted' = FALSE
  /\ crashed' = FALSE
  /\ term' = FALSE
  /\ compositor' = "none"
  /\ shell' = "none"
  /\ shellRestarts' = 0
  /\ stackRestarts' = 0
  /\ UNCHANGED <<st, marker, mode, up, frame, plan, draft>>

\* Mutant: the boot is counted in memory only.
CountUnsaved ==
  /\ pc = "boot"
  /\ pc' = "select"
  /\ mst' = [mst EXCEPT !.count = IF @ < CrashLoopThreshold + 1 THEN @ + 1 ELSE @,
                        !.status = "started"]
  /\ UNCHANGED <<sharedVars, requested, plan, promoted, draft, crashed, term, childVars>>

\* readState(), second half: count the boot before anything can go wrong.
CountBoot ==
  LET counted == [mst EXCEPT !.count = IF @ < CrashLoopThreshold + 1 THEN @ + 1 ELSE @,
                             !.status = "started"]
  IN
  /\ pc = "boot"
  /\ pc' = "select"
  /\ mst' = counted
  /\ st' = counted
  /\ UNCHANGED <<store, marker, mode, up, frame, requested, plan, promoted,
                 draft, crashed, term, childVars>>

\* Mutant: the threshold has to be exceeded.
LaterRecovery(platformOk) ==
  IF marker THEN "recovery"
  ELSE IF mst.forced THEN "safe"
  ELSE IF mst.count > CrashLoopThreshold THEN "recovery"
  ELSE IF ~platformOk /\ requested = "normal" THEN "safe"
  ELSE requested

\* evaluateMode(): the first reason that applies wins.
EvaluateMode(platformOk) ==
  IF marker THEN "recovery"
  ELSE IF mst.forced THEN "safe"
  ELSE IF mst.count >= CrashLoopThreshold THEN "recovery"
  ELSE IF ~platformOk /\ requested = "normal" THEN "safe"
  ELSE requested

\* rollbackRecoveryConfig()
RollbackRecovery(s) ==
  IF mst.good # NoSnapshot /\ HasSnapshot(s, mst.good)
    THEN RestoreSnapshot(s, mst.good)
  ELSE IF HasPrevious(s) THEN RollbackToPrevious(s)
  ELSE RollbackToSafe(s)

\* Mutant: recovery runs on the configuration that brought it about.
RecoverInPlace(m, s) == IF m = "safe" THEN RollbackToSafe(s) ELSE s

\* performRollback()
RolledBack(m, s) ==
  CASE m = "normal" -> s
    [] m = "safe" -> RollbackToSafe(s)
    [] m = "recovery" -> RollbackRecovery(s)

\* m_config.load(), evaluateMode() and performRollback(): the broker runs what
\* is then in the active file.
SelectMode(platformOk) ==
  /\ pc = "select"
  /\ pc' = "prepare"
  /\ mode' = EvaluateMode(platformOk)
  /\ store' = RolledBack(mode', Load(store))
  /\ plan' = ReadFile(store'.active)
  /\ UNCHANGED <<st, marker, up, frame, requested, mst, promoted, draft,
                 crashed, term, childVars>>

\* prepareEnvironment(): a normal session is pending until it is confirmed.
\* The state it saves is the one readState() loaded.
Prepare ==
  /\ pc = "prepare"
  /\ pc' = "launch"
  /\ mst' = [mst EXCEPT !.pending = (mode = "normal")]
  /\ st' = mst'
  /\ UNCHANGED <<store, marker, mode, up, frame, requested, plan, promoted,
                 draft, crashed, term, childVars>>

\* Preflight, the compositor, its socket, the shell or the watchdog fails:
\* writeStartupFailed() saves m_state as it is, and run() returns.
LaunchFails ==
  /\ pc = "launch"
  /\ pc' = "exit"
  /\ mst' = [mst EXCEPT !.status = "crashed"]
  /\ st' = mst'
  /\ up' = FALSE
  /\ UNCHANGED <<store, marker, mode, frame, requested, plan, promoted, draft,
                 crashed, term, childVars>>

\* Mutant: the lifecycle file of the shell before is left in place.
StackUpOverOldFrame ==
  /\ compositor' = "running"
  /\ shell' = "running"
  /\ up' = TRUE
  /\ UNCHANGED frame

\* The stack comes up; launchShell() removes the lifecycle file first.  The
\* watchdog is started in the same step (LoginSystem).
StackUp ==
  /\ compositor' = "running"
  /\ shell' = "running"
  /\ up' = TRUE
  /\ frame' = FALSE

LaunchStack ==
  /\ pc = "launch"
  /\ Runs(plan) \in GoodCompositor
  /\ pc' = "monitor"
  /\ StackUp
  /\ UNCHANGED <<store, st, marker, mode, requested, mst, plan, promoted,
                 draft, shellRestarts, stackRestarts, crashed, term>>

-----------------------------------------------------------------------------
(* The session: promotion at the first frame *)

\* promoteHealthyAfterFirstFrame(): nothing to do if somebody else has marked
\* the session healthy already ...
AlreadyHealthy == st.status = "healthy" /\ ~st.pending /\ st.count = 0

AdoptHealthy ==
  /\ pc = "monitor" /\ mode # "recovery"
  /\ frame /\ ~promoted /\ AlreadyHealthy
  /\ promoted' = TRUE
  /\ mst' = st
  /\ UNCHANGED <<sharedVars, pc, requested, plan, draft, crashed, term, childVars>>

\* ... or else load the state, ...
PromoteLoad ==
  /\ pc = "monitor" /\ mode # "recovery"
  /\ frame /\ ~promoted /\ ~AlreadyHealthy
  /\ pc' = "promote"
  /\ draft' = st
  /\ UNCHANGED <<sharedVars, requested, mst, plan, promoted, crashed, term, childVars>>

\* ... make the active file the baseline and save the state.
PromoteSave ==
  /\ pc = "promote"
  /\ pc' = "monitor"
  /\ store' = WithBaseline(store)
  /\ st' = MarkedHealthy(draft, SnapshotId(store, draft))
  /\ mst' = st'
  /\ draft' = DefaultState
  /\ promoted' = TRUE
  /\ UNCHANGED <<marker, mode, up, frame, requested, plan, crashed, term, childVars>>

\* Every branch of the monitor loop that finds a first frame promotes before
\* it goes on.
Settled == frame => promoted

-----------------------------------------------------------------------------
(* The session: monitorSession() *)

InSession == pc = "monitor" /\ mode # "recovery"

\* run() leaves its monitor with or without a reason; the compositor is gone.
Leave(withReason) ==
  /\ pc' = "end"
  /\ crashed' = withReason
  /\ up' = FALSE
  /\ compositor' = "none"

\* Mutant: the flag is looked at while the first frame is awaited only.
TerminateEarly ==
  /\ InSession
  /\ term /\ ~frame
  /\ Leave(FALSE)
  /\ UNCHANGED <<store, st, marker, mode, frame, requested, mst, plan, promoted,
                 draft, shell, shellRestarts, stackRestarts, term>>

MonitorTerminate ==
  /\ InSession
  /\ term
  /\ Leave(FALSE)
  /\ UNCHANGED <<store, st, marker, mode, frame, requested, mst, plan, promoted,
                 draft, shell, shellRestarts, stackRestarts, term>>

CompositorGone == compositor \in {"clean", "failed"}

\* The compositor exited after the first frame: restartSessionStack() ...
RestartStack ==
  /\ InSession
  /\ CompositorGone /\ frame /\ promoted
  /\ stackRestarts < MaxRestarts
  /\ stackRestarts' = stackRestarts + 1
  /\ StackUp
  /\ UNCHANGED <<store, st, marker, mode, pc, requested, mst, plan, promoted,
                 draft, shellRestarts, crashed, term>>

\* ... which may fail on the way; beyond the limit the session has crashed.
RestartStackFails ==
  /\ InSession
  /\ CompositorGone /\ frame /\ promoted
  /\ stackRestarts' = IF stackRestarts < MaxRestarts THEN stackRestarts + 1
                                                      ELSE stackRestarts
  /\ Leave(TRUE)
  /\ UNCHANGED <<store, st, marker, mode, frame, requested, mst, plan, promoted,
                 draft, shell, shellRestarts, term>>

\* The compositor exited and the shell has not drawn: its exit code decides.
\* The recovery session decides the same way whatever was drawn.
CompositorFinished ==
  /\ pc = "monitor"
  /\ CompositorGone
  /\ mode = "recovery" \/ ~frame
  /\ Leave(compositor = "failed")
  /\ UNCHANGED <<store, st, marker, mode, frame, requested, mst, plan, promoted,
                 draft, shell, shellRestarts, stackRestarts, term>>

ShellGone == shell \in {"clean", "failed"}

\* shellFailed in monitorSession(); fast stands for an uptime below
\* kShellFastExitMs.
ShellFailed(fast) ==
  /\ st.status # "healthy"
  /\ shell = "failed" \/ fast \/ ~frame

ShellCrash(fast) ==
  /\ InSession
  /\ compositor = "running" /\ ShellGone /\ Settled
  /\ ShellFailed(fast)
  /\ Leave(TRUE)
  /\ UNCHANGED <<store, st, marker, mode, frame, requested, mst, plan, promoted,
                 draft, shell, shellRestarts, stackRestarts, term>>

\* Mutant: the restarts of the shell are not limited.
RestartShellAgain(fast) ==
  /\ InSession
  /\ compositor = "running" /\ ShellGone /\ Settled
  /\ ~ShellFailed(fast)
  /\ shellRestarts' = shellRestarts + 1
  /\ shell' = "running"
  /\ frame' = FALSE
  /\ UNCHANGED <<store, st, marker, mode, up, pc, requested, mst, plan, promoted,
                 draft, compositor, stackRestarts, crashed, term>>

RestartShell(fast) ==
  /\ InSession
  /\ compositor = "running" /\ ShellGone /\ Settled
  /\ ~ShellFailed(fast)
  /\ shellRestarts < MaxRestarts
  /\ shellRestarts' = shellRestarts + 1
  /\ shell' = "running"
  /\ frame' = FALSE
  /\ UNCHANGED <<store, st, marker, mode, up, pc, requested, mst, plan, promoted,
                 draft, compositor, stackRestarts, crashed, term>>

ShellRestartFails(fast) ==
  /\ InSession
  /\ compositor = "running" /\ ShellGone /\ Settled
  /\ ~ShellFailed(fast)
  /\ shellRestarts' = IF shellRestarts < MaxRestarts THEN shellRestarts + 1
                                                      ELSE shellRestarts
  /\ frame' = (frame /\ shellRestarts = MaxRestarts)
  /\ Leave(TRUE)
  /\ UNCHANGED <<store, st, marker, mode, requested, mst, plan, promoted,
                 draft, shell, stackRestarts, term>>

\* What the first-frame timer waits for, kShellFirstFrameTimeoutMs after the
\* shell was started.
FirstFrameMissing ==
  InSession /\ ~promoted /\ ~frame /\ st.status # "healthy"

FirstFrameTimeout ==
  /\ FirstFrameMissing
  /\ Leave(TRUE)
  /\ UNCHANGED <<store, st, marker, mode, frame, requested, mst, plan, promoted,
                 draft, shell, shellRestarts, stackRestarts, term>>

\* monitorRecoverySession(): the recovery application has exited.
RecoveryShellEnded ==
  /\ pc = "monitor" /\ mode = "recovery"
  /\ compositor = "running" /\ ShellGone
  /\ Leave(shell = "failed")
  /\ UNCHANGED <<store, st, marker, mode, frame, requested, mst, plan, promoted,
                 draft, shell, shellRestarts, stackRestarts, term>>

-----------------------------------------------------------------------------
(* The end: writeSessionEnded() *)

\* Mutant: the state in memory is taken for the one in the file.
EndStale ==
  /\ pc = "end"
  /\ pc' = "record"
  /\ UNCHANGED <<sharedVars, requested, mst, plan, promoted, draft, crashed, term, childVars>>

EndLoad ==
  /\ pc = "end"
  /\ pc' = "record"
  /\ mst' = st
  /\ UNCHANGED <<sharedVars, requested, plan, promoted, draft, crashed, term, childVars>>

\* A session that ends without a crash gives the boot back if it drew a frame
\* or was a recovery session, even when nobody marked it healthy.
EndSave ==
  LET status == IF crashed THEN "crashed"
                ELSE IF mst.status # "healthy" THEN "ended" ELSE "healthy"
      count == IF ~crashed /\ status # "healthy" /\ (frame \/ mode = "recovery")
                 THEN 0 ELSE mst.count
  IN
  /\ pc = "record"
  /\ pc' = "exit"
  /\ mst' = [mst EXCEPT !.status = status, !.count = count]
  /\ st' = mst'
  /\ UNCHANGED <<store, marker, mode, up, frame, requested, plan, promoted,
                 draft, crashed, term, childVars>>

\* The broker's process ends: the destructors of its QProcess members kill the
\* children that are left.
Exit ==
  /\ pc = "exit"
  /\ BrokerGone
  /\ up' = FALSE
  /\ UNCHANGED <<store, st, marker, mode, frame>>

-----------------------------------------------------------------------------
(* The children and the signal *)

\* The shell, or the recovery application, writes "firstFrame".
FirstFrame ==
  /\ shell = "running" /\ up /\ ~frame
  /\ Renders(mode, plan)
  /\ frame' = TRUE
  /\ UNCHANGED <<store, st, marker, mode, up, brokerVars>>

ShellExits(how) ==
  /\ shell = "running"
  /\ pc \in {"monitor", "promote"}
  /\ shell' = how
  /\ UNCHANGED <<sharedVars, pc, requested, mst, plan, promoted, draft,
                 compositor, shellRestarts, stackRestarts, crashed, term>>

CompositorExits(how) ==
  /\ compositor = "running"
  /\ pc \in {"monitor", "promote"}
  /\ compositor' = how
  /\ up' = FALSE
  /\ UNCHANGED <<store, st, marker, mode, frame, pc, requested, mst, plan,
                 promoted, draft, shell, shellRestarts, stackRestarts, crashed, term>>

\* The handler of main.cpp sets a flag; only monitorSession() looks at it.
Sigterm ==
  /\ pc # "off" /\ ~term
  /\ term' = TRUE
  /\ UNCHANGED <<sharedVars, pc, requested, mst, plan, promoted, draft, crashed, childVars>>

=============================================================================
