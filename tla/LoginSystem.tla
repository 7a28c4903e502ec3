----------------------------- MODULE LoginSystem -----------------------------
(***************************************************************************)
(* The login stack as a whole: the broker with its children, the watchdog, *)
(* the recovery application and the recovery daemon over their common      *)
(* files, the user who logs in, logs out and edits the configuration, and  *)
(* a machine that can lose power between any two steps.                    *)
(***************************************************************************)
EXTENDS SessionBroker, SessionWatchdog, RecoveryApp, RecoveryService

CONSTANTS
  Request,        \* modes the user picks in the greeter
  Call,           \* recovery daemon methods somebody calls
  MaxCalls,       \* bound on those calls
  MaxEdits,       \* bound on configurations saved by the user
  MaxFaults,      \* bound on failures that the configuration does not explain
  EditsInSession  \* whether the user changes the configuration of a session
                  \* that runs and has not been confirmed for good

ASSUME SystemAssumption ==
  /\ Request \subseteq Mode
  /\ MaxCalls \in Nat /\ MaxEdits \in Nat /\ MaxFaults \in Nat
  /\ EditsInSession \in BOOLEAN

VARIABLES
  calls, edits, faults,   \* used up so far
  seen                    \* history, read by the properties only:
                          \*   drawn   a frame was drawn since the boot was counted
                          \*   streak  boots counted since one last paid off
                          \*   shown   configurations a session has drawn on
                          \*   failed  what the last normal session ran in vain
                          \*   asked   safe mode was forced by the recovery daemon
                          \*           and not taken back: "quiet" if no other
                          \*           process was between a load and a save of
                          \*           state.json then, "raced" if one was
                          \*   confirmed  the broker has confirmed the configuration

boundVars == <<calls, edits, faults>>
vars == <<sharedVars, brokerVars, watchdogVars, appVars, recoverydVars,
          boundVars, seen>>

History ==
  [drawn : BOOLEAN, streak : 0 .. CrashLoopThreshold + 1,
   shown : SUBSET Content,
   failed : Content \cup {NoSnapshot}, asked : {"no", "quiet", "raced"},
   confirmed : BOOLEAN]

TypeOK ==
  /\ SharedTypeOK
  /\ BrokerTypeOK
  /\ WatchdogTypeOK
  /\ AppTypeOK
  /\ RecoverydTypeOK
  /\ calls \in Nat /\ edits \in Nat /\ faults \in Nat
  /\ seen \in History

CONSTANT InitialStore     \* the files the stack finds when it is installed

ASSUME InitialStoreAssumption == InitialStore \in Store

Init ==
  /\ store = InitialStore
  /\ st = [DefaultState EXCEPT !.good =
              IF InitialStore.safe \in InitialStore.snaps THEN InitialStore.safe ELSE @]
  /\ marker = FALSE
  /\ mode = "normal"
  /\ up = FALSE
  /\ frame = FALSE
  /\ NoBroker
  /\ NoWatchdog
  /\ NoApp
  /\ NoReports
  /\ calls = 0 /\ edits = 0 /\ faults = 0
  /\ LET known == {Default} \cup ({InitialStore.safe} \ {Absent}) IN
     seen = [drawn |-> FALSE, streak |-> 0, shown |-> known,
             failed |-> NoSnapshot, asked |-> "no",
             confirmed |-> FALSE]

-----------------------------------------------------------------------------

Fault == faults < MaxFaults /\ faults' = faults + 1
NoFault == UNCHANGED faults

\* A normal session that drew nothing leaves its configuration in failed.
Outcome == IF mode = "normal" /\ ~seen.drawn THEN Runs(plan) ELSE NoSnapshot

\* Nobody but the recovery daemon is between its load and its save.
Quiet ==
  /\ pc \notin {"promote", "record"}
  /\ wpc \notin {"baseline", "save"}
  /\ apc \notin {"clear.save", "defaults.save"}

Others == <<appVars, recoverydVars, calls, edits>>

\* ---- the broker ----
BrokerStart ==
  /\ rpc = "idle"     \* a D-Bus call lasts milliseconds, a login seconds
  /\ \E m \in Request : Start(m)
  /\ UNCHANGED <<watchdogVars, Others, faults, seen>>

BrokerCountBoot ==
  /\ CountBoot
  /\ seen' = [seen EXCEPT !.drawn = FALSE,
                          !.streak = IF @ <= CrashLoopThreshold THEN @ + 1 ELSE @]
  /\ UNCHANGED <<watchdogVars, Others, faults>>

\* The platform check depends on the machine; a failure of it is a fault.
BrokerSelectMode ==
  /\ \/ SelectMode(TRUE) /\ NoFault
     \/ SelectMode(FALSE) /\ Fault
  /\ UNCHANGED <<watchdogVars, Others, seen>>

BrokerPrepare ==
  /\ Prepare
  /\ seen' = [seen EXCEPT !.confirmed = FALSE]
  /\ UNCHANGED <<watchdogVars, Others, faults>>

\* Programs that are missing or do not come up are the configuration's; anything
\* else that keeps the stack down is a fault.
BrokerLaunchFails ==
  /\ LaunchFails
  /\ IF Renders(mode, plan) THEN Fault ELSE NoFault
  /\ seen' = [seen EXCEPT !.failed = Outcome]
  /\ UNCHANGED <<watchdogVars, Others>>

\* launchWatchdog() arms the watchdog of the new stack; in recovery the shell
\* is a new recovery application.
BrokerLaunchStack ==
  /\ LaunchStack
  /\ Arm
  /\ AppLaunched
  /\ UNCHANGED <<recoverydVars, boundVars, seen>>

BrokerPromotes ==
  /\ \/ AdoptHealthy /\ seen' = [seen EXCEPT !.confirmed = TRUE]
     \/ PromoteLoad /\ UNCHANGED seen
     \/ PromoteSave /\ seen' = [seen EXCEPT !.confirmed = TRUE, !.asked = "no"]
  /\ UNCHANGED <<watchdogVars, Others, faults>>

\* restartSessionStack() stops the old watchdog before it arms a new one.
BrokerRestartStack ==
  /\ RestartStack
  /\ Arm
  /\ UNCHANGED <<Others, faults, seen>>

BrokerRestartStackFails ==
  /\ RestartStackFails
  /\ IF stackRestarts < MaxRestarts
       THEN Fault /\ Stopped
       ELSE NoFault /\ UNCHANGED watchdogVars
  /\ UNCHANGED <<Others, seen>>

BrokerShellRestartFails ==
  /\ \E fast \in BOOLEAN : ShellRestartFails(fast)
  /\ IF shellRestarts < MaxRestarts THEN Fault ELSE NoFault
  /\ UNCHANGED <<watchdogVars, Others, seen>>

BrokerMonitor ==
  /\ \/ MonitorTerminate
     \/ CompositorFinished
     \/ \E fast \in BOOLEAN : ShellCrash(fast) \/ RestartShell(fast)
     \/ RecoveryShellEnded
  /\ UNCHANGED <<watchdogVars, Others, faults, seen>>

\* ... kShellFirstFrameTimeoutMs after the start of the stack.  A shell that can
\* draw is late by a fault only.
BrokerFirstFrameTimeout ==
  /\ age >= 1
  /\ FirstFrameTimeout
  /\ IF shell = "running" /\ Renders(mode, plan) THEN Fault ELSE NoFault
  /\ UNCHANGED <<watchdogVars, Others, seen>>

BrokerEndLoad ==
  /\ EndLoad
  /\ seen' = [seen EXCEPT !.failed = Outcome]
  /\ UNCHANGED <<watchdogVars, Others, faults>>

\* A clean recovery session pays its boot back even if it drew nothing.
BrokerEndSave ==
  /\ EndSave
  /\ seen' = [seen EXCEPT !.streak = IF mode = "recovery" /\ ~crashed THEN 0 ELSE @]
  /\ UNCHANGED <<watchdogVars, Others, faults>>

BrokerExit ==
  /\ Exit
  /\ Stopped
  /\ AppReset
  /\ UNCHANGED <<recoverydVars, boundVars, seen>>

\* ---- the session's processes ----
ShellFirstFrame ==
  /\ FirstFrame
  /\ apc # "new"
  /\ LET drew == {plan, Runs(plan)} IN
     seen' = [seen EXCEPT !.drawn = TRUE, !.streak = 0, !.shown = @ \cup drew]
  /\ UNCHANGED <<watchdogVars, Others, faults>>

\* A shell that has drawn may exit when it likes; before that it is the
\* configuration or a fault.  The recovery application exits when told to.
ShellExit ==
  /\ \E how \in {"clean", "failed"} :
       /\ ShellExits(how)
       /\ IF mode = "recovery"
            THEN IF how = "clean" THEN leaving /\ apc = "idle" /\ NoFault ELSE Fault
            ELSE IF frame \/ ~Renders(mode, plan) THEN NoFault ELSE Fault
  /\ AppReset
  /\ UNCHANGED <<watchdogVars, recoverydVars, calls, edits, seen>>

CompositorExit ==
  /\ \E how \in {"clean", "failed"} : CompositorExits(how)
  /\ Fault
  /\ UNCHANGED <<watchdogVars, Others, seen>>

\* Logging out, and shutting down; before the first frame it is premature.
Logout ==
  /\ Sigterm
  /\ IF pc \in {"monitor", "promote"} /\ frame THEN NoFault ELSE Fault
  /\ UNCHANGED <<watchdogVars, Others, seen>>

\* ---- the watchdog ----
\* The broker polls every 250 ms: it has acted on a frame that is there, and on
\* one that is missing after 10 seconds, before the watchdog's 30 have passed.
WatchdogTick ==
  /\ Tick
  /\ age = 1 => ~FirstFrameMissing /\ ~(InSession /\ frame /\ ~promoted)
  /\ UNCHANGED <<brokerVars, appVars, recoverydVars, boundVars, seen>>

\* pgrep looks for a process name: it finds the shell of whatever session runs.
WatchdogStep ==
  /\ \/ /\ \/ \E stable \in BOOLEAN : OnHealthyTimeout(stable, shell = "running")
           \/ PromoteBaseline
           \/ ClearMarker
        /\ UNCHANGED seen
     \/ SaveHealthy /\ seen' = [seen EXCEPT !.asked = "no"]
  /\ UNCHANGED <<brokerVars, appVars, recoverydVars, boundVars>>

\* ---- the recovery application ----
AppRuns == mode = "recovery" /\ shell = "running" /\ up /\ pc = "monitor"

AppStep ==
  /\ AppRuns
  /\ \/ (Construct \/ MarkRecoveryUiHealthy \/ ClearRequest \/ DefaultsLoad) /\ UNCHANGED seen
     \/ (ClearSave \/ DefaultsSave) /\ seen' = [seen EXCEPT !.asked = "no"]
  /\ UNCHANGED <<brokerVars, watchdogVars, recoverydVars, boundVars>>

AppLeave ==
  /\ AppRuns
  /\ ExitToDesktop \/ RestartDesktop
  /\ UNCHANGED <<brokerVars, watchdogVars, recoverydVars, boundVars, seen>>

\* Choosing another configuration by hand uses up an edit.
AppChoice ==
  /\ AppRuns
  /\ EditsInSession \/ wpc = "off"
  /\ edits < MaxEdits
  /\ edits' = edits + 1
  /\ ResetToSafeDefaults \/ RestoreConfig
  /\ UNCHANGED <<brokerVars, watchdogVars, recoverydVars, calls, faults, seen>>

\* ---- the recovery daemon ----
\* Its unit is part of graphical-session.target and its callers are programs of
\* the session.
Called(method) ==
  /\ pc \in {"monitor", "promote"}
  /\ method \in Call
  /\ calls < MaxCalls
  /\ calls' = calls + 1

RecoverydCall ==
  /\ \/ /\ Called("ReportCrash")
        /\ \E c \in Component, kept \in 0 .. BurstThreshold + 1 : ReportCrash(c, kept)
     \/ Called("TriggerAutoRecovery") /\ TriggerAutoRecovery
     \/ Called("RequestSafeMode") /\ RequestSafeMode
     \/ Called("RequestRecoveryPartition") /\ RequestRecoveryPartition
     \/ Called("ClearRecoveryFlags") /\ ClearRecoveryFlags
  /\ UNCHANGED <<brokerVars, watchdogVars, appVars, edits, faults, seen>>

RecoverydStep ==
  /\ \/ /\ AutoLoad \/ RequestLoad \/ ClearLoadFlags \/ ClearMarkerFlag \/ Escalate
        /\ UNCHANGED seen
     \/ /\ AutoSave \/ RequestSave
        /\ seen' = [seen EXCEPT !.asked = IF Quiet THEN "quiet" ELSE "raced"]
     \/ ClearSaveFlags /\ seen' = [seen EXCEPT !.asked = "no"]
  /\ UNCHANGED <<brokerVars, watchdogVars, appVars, boundVars>>

RecoverydForceFails ==
  /\ ForceFails
  /\ Fault
  /\ UNCHANGED <<brokerVars, watchdogVars, appVars, calls, edits, seen>>

\* ---- the user and the machine ----
\* save() of a configuration by the user's own means.
UserSaves ==
  /\ edits < MaxEdits
  /\ edits' = edits + 1
  /\ pc = "off" \/ (EditsInSession /\ pc = "monitor")
  /\ \E c \in Valid : store' = Save(store, c)
  /\ seen' = [seen EXCEPT !.failed = NoSnapshot]
  /\ UNCHANGED <<st, marker, mode, up, frame, brokerVars, watchdogVars, appVars,
                 recoverydVars, calls, faults>>

\* Power loss: files stay, processes and /run go.
PowerLoss ==
  /\ pc # "off"
  /\ Fault
  /\ BrokerGone
  /\ up' = FALSE
  /\ frame' = FALSE
  /\ Stopped
  /\ AppReset
  /\ RecoverydReset
  /\ seen' = [seen EXCEPT !.failed =
                IF pc \in {"launch", "monitor", "promote", "end"} THEN Outcome ELSE @]
  /\ UNCHANGED <<store, st, marker, mode, calls, edits>>

-----------------------------------------------------------------------------

BrokerNext ==
  \/ BrokerStart \/ BrokerCountBoot \/ BrokerSelectMode \/ BrokerPrepare
  \/ BrokerLaunchFails \/ BrokerLaunchStack \/ BrokerPromotes
  \/ BrokerRestartStack \/ BrokerRestartStackFails \/ BrokerShellRestartFails
  \/ BrokerMonitor \/ BrokerFirstFrameTimeout
  \/ BrokerEndLoad \/ BrokerEndSave \/ BrokerExit

SessionNext == ShellFirstFrame \/ ShellExit \/ CompositorExit \/ Logout

HelperNext ==
  \/ WatchdogTick \/ WatchdogStep
  \/ AppStep \/ AppLeave \/ AppChoice
  \/ RecoverydCall \/ RecoverydStep \/ RecoverydForceFails

Next == BrokerNext \/ SessionNext \/ HelperNext \/ UserSaves \/ PowerLoss

Spec == Init /\ [][Next]_vars

-----------------------------------------------------------------------------
(* Safety *)

\* The mode is chosen and nothing has been started in it.
Chosen == pc \in {"prepare", "launch"}

\* A crash loop ends in recovery: after CrashLoopThreshold counted boots none
\* of which drew a frame or was a clean recovery session, the session runs in
\* recovery, or in the safe mode somebody has forced.  Whatever the processes
\* write into state.json meanwhile, no boot is lost from the count.
CrashLoopEscalates ==
  (Chosen /\ seen.streak >= CrashLoopThreshold /\ ~mst.forced) => mode = "recovery"

\* Nobody records a session as healthy that has not drawn a frame.
HealthyIsEarned ==
  (pc \notin {"off", "boot"} /\ st.status = "healthy") => seen.drawn

\* What safe mode and recovery fall back on has been run: the safe baseline and
\* the last-good snapshot are configurations on which a session drew a frame.
BaselineHasRun ==
  /\ store.safe \in seen.shown \cup {Absent}
  /\ st.good \in seen.shown \cup {NoSnapshot}

\* A configuration that was run in vain is not run again by the next normal
\* session while there is a previous one to go back to.
FailedNotRepeated ==
  (pc = "launch" /\ mode = "normal" /\ seen.failed = Runs(plan))
    => store.prev \notin Valid \/ store.prev = plan

\* A configuration that the broker has confirmed at its first frame stays
\* confirmed: no later save of an older state.json makes it pending again, so
\* the next login does not roll it back.
ConfirmedIsKept == seen.confirmed => ~st.pending

\* Safe mode forced by the recovery daemon is not lost: unless a process that
\* was just then rewriting state.json overwrote it, or the session has proved
\* itself since, the next session is not a normal one.
SafeModeSurvives ==
  (Chosen /\ seen.asked = "quiet") => mode # "normal"

\* The files and processes together keep the ledger of boots: no interleaving of
\* the broker, the watchdog and the recovery application over state.json, and no
\* loss of power, drops a boot from the count or takes one back unearned.
Ledger == INSTANCE BootLedger
  WITH Limit <- CrashLoopThreshold, tally <- st.count, drew <- seen.drawn,
       kind <- mode,
       stage <- CASE pc \in {"off", "boot"} -> "idle"
                  [] pc = "select" -> "counted"
                  [] OTHER -> "running"

KeepsLedger == Ledger!Spec

-----------------------------------------------------------------------------
(* Liveness *)

\* The processes run: the broker's loops poll, the timers fire, a shell that can
\* draw does, a recovery application that was told to quit quits.  None of this
\* needs a new fault.
SystemFairness ==
  /\ WF_vars(BrokerNext /\ pc # "off" /\ NoFault)
  /\ WF_vars(ShellFirstFrame)
  /\ WF_vars(WatchdogTick)
  /\ WF_vars(WatchdogStep)
  /\ WF_vars(AppStep)
  /\ WF_vars(ShellExit /\ mode = "recovery" /\ NoFault)
  /\ WF_vars(RecoverydStep)

\* The user logs in again, leaves the recovery application and logs out of a
\* session in the end.
UserFairness ==
  /\ WF_vars(BrokerStart)
  /\ WF_vars(AppLeave)
  /\ WF_vars(Logout /\ NoFault)

UnattendedSpec == Spec /\ SystemFairness
FairSpec == Spec /\ SystemFairness /\ UserFairness

\* Whatever the user saved, whatever failed, whenever the power went: a user who
\* keeps logging in gets a normal session that draws, again and again.
Converges == []<>(pc = "monitor" /\ mode = "normal" /\ frame)

\* A normal or safe session ends once the broker has been told to terminate.
LogoutEnds == (term /\ InSession) ~> pc = "off"

=============================================================================
