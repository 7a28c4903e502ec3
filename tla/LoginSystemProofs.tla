-------------------------- MODULE LoginSystemProofs --------------------------
(***************************************************************************)
(* What the login stack promises about boots, for every threshold, every   *)
(* set of configurations, any number of edits, calls and failures, and any *)
(* interleaving of its processes.                                          *)
(*                                                                         *)
(* A process may save a state.json that is older than the one it           *)
(* overwrites.  The invariant says why no boot is lost from the count all  *)
(* the same: whoever holds a copy with a lower count holds it in a session *)
(* that has drawn a frame, and the streak of boots ended with that frame.  *)
(***************************************************************************)
EXTENDS LoginSystem, TLAPS

-----------------------------------------------------------------------------
(* Type correctness: a lemma per component, then one per action *)

Snapshots == Content \cup {NoSnapshot}

LEMMA ContentFacts ==
  /\ Valid \subseteq Content
  /\ Empty \in Content /\ Absent \in Content /\ Default \in Content
  /\ Empty # Absent
  BY StoreAssumption DEF Content

LEMMA DefaultStateType == DefaultState \in SessionState
  <1>1. 0 \in 0 .. CrashLoopThreshold + 1
    BY LoginAssumption
  <1>. QED BY <1>1 DEF DefaultState, SessionState, BootStatus

\* Every record the processes write to state.json is one.
LEMMA StateUpdates ==
  ASSUME NEW s \in SessionState
  PROVE  /\ s.count \in 0 .. CrashLoopThreshold + 1
         /\ \A id \in Snapshots : MarkedHealthy(s, id) \in SessionState
         /\ \A b \in BOOLEAN : [s EXCEPT !.forced = b] \in SessionState
         /\ \A b \in BOOLEAN : [s EXCEPT !.pending = b] \in SessionState
         /\ \A id \in Snapshots : [s EXCEPT !.good = id] \in SessionState
         /\ \A v \in BootStatus : [s EXCEPT !.status = v] \in SessionState
         /\ \A v \in BootStatus, n \in 0 .. CrashLoopThreshold + 1 :
              [s EXCEPT !.count = n, !.status = v] \in SessionState
         /\ \A v \in BootStatus, n \in 0 .. CrashLoopThreshold + 1 :
              [s EXCEPT !.status = v, !.count = n] \in SessionState
         /\ [s EXCEPT !.count = 0, !.forced = FALSE] \in SessionState
  <1>. USE LoginAssumption DEF SessionState, Snapshots
  <1>1. 0 \in 0 .. CrashLoopThreshold + 1
    OBVIOUS
  <1>. QED
    BY <1>1 DEF MarkedHealthy, BootStatus

\* Every store the processes write is one.
LEMMA StoreUpdates ==
  ASSUME NEW s \in Store
  PROVE  /\ Load(s) \in Store
         /\ HasPrevious(s) => RollbackToPrevious(s) \in Store
         /\ RollbackToSafe(s) \in Store
         /\ \A id \in s.snaps : RestoreSnapshot(s, id) \in Store
         /\ FactoryReset(s) \in Store
         /\ \A c \in Valid : Save(s, c) \in Store
         /\ WithBaseline(s) \in Store
         /\ \A x \in SessionState : SnapshotId(s, x) \in Snapshots
         /\ s.active \in Content
  <1>. Valid \subseteq Content /\ Empty \in Content /\ Absent \in Content
       /\ Default \in Content
    BY ContentFacts
  <1>1. WithBaseline(s) \in Store
    BY DEF WithBaseline, CanSnapshot, Snapshot, PromoteToLastGood, Store
  <1>2. s.active \in Content
    BY DEF Store
  <1>3. \A x \in SessionState : SnapshotId(s, x) \in Snapshots
    BY <1>2 DEF SnapshotId, SessionState, Snapshots
  <1>4. Load(s) \in Store
    BY StoreAssumption DEF Load, LoadChoice, Store
  <1>5. RollbackToSafe(s) \in Store /\ FactoryReset(s) \in Store
    BY DEF RollbackToSafe, ReadFile, FactoryReset, Store
  <1>6. /\ HasPrevious(s) => RollbackToPrevious(s) \in Store
        /\ \A id \in s.snaps : RestoreSnapshot(s, id) \in Store
        /\ \A c \in Valid : Save(s, c) \in Store
    BY DEF RollbackToPrevious, RestoreSnapshot, Save, Store
  <1>. QED BY <1>1, <1>2, <1>3, <1>4, <1>5, <1>6

LEMMA RollbackUpdates ==
  ASSUME NEW s \in Store, NEW m \in Mode
  PROVE  RolledBack(m, Load(s)) \in Store
  BY StoreUpdates
  DEF RolledBack, RollbackRecovery, Mode, HasSnapshot

LEMMA OutcomeType == plan \in Content => Outcome \in Snapshots
  BY ContentFacts DEF Outcome, Runs, Snapshots

LEMMA HistoryUpdates ==
  ASSUME NEW h \in History
  PROVE  /\ h.streak \in 0 .. CrashLoopThreshold + 1
         /\ [h EXCEPT !.drawn = FALSE,
                      !.streak = IF @ <= CrashLoopThreshold THEN @ + 1 ELSE @] \in History
         /\ \A b \in BOOLEAN : [h EXCEPT !.confirmed = b] \in History
         /\ \A f \in Snapshots : [h EXCEPT !.failed = f] \in History
         /\ \A a \in {"no", "quiet", "raced"} : [h EXCEPT !.asked = a] \in History
         /\ [h EXCEPT !.confirmed = TRUE, !.asked = "no"] \in History
         /\ [h EXCEPT !.streak = IF mode = "recovery" /\ ~crashed THEN 0 ELSE @] \in History
         /\ \A drew \in SUBSET Content :
              [h EXCEPT !.drawn = TRUE, !.streak = 0, !.shown = @ \cup drew]
                \in History
  <1>1. \A n \in 0 .. CrashLoopThreshold : n + 1 \in 0 .. CrashLoopThreshold + 1
    BY LoginAssumption
  <1>2. 0 \in 0 .. CrashLoopThreshold + 1
    BY LoginAssumption
  <1>3. h.streak <= CrashLoopThreshold => h.streak + 1 \in 0 .. CrashLoopThreshold + 1
    BY <1>1, LoginAssumption DEF History
  <1>. QED BY <1>2, <1>3 DEF History, Snapshots

LEMMA TypeInit == Init => TypeOK
  <1>. SUFFICES ASSUME Init PROVE TypeOK
    OBVIOUS
  <1>1. InitialStore.safe \in Content
    BY InitialStoreAssumption DEF Store
  <1>2. st \in SessionState
    <2>1. st = [DefaultState EXCEPT !.good =
                  IF InitialStore.safe \in InitialStore.snaps THEN InitialStore.safe
                  ELSE DefaultState.good]
      BY DEF Init
    <2>2. DefaultState.good \in Snapshots
      BY DEF DefaultState, Snapshots
    <2>. QED BY <1>1, <2>1, <2>2, DefaultStateType, StateUpdates DEF Snapshots
  <1>3. SharedTypeOK
    BY <1>2, InitialStoreAssumption DEF Init, SharedTypeOK, Mode
  <1>4. BrokerTypeOK
    <2>1. NoBroker
      BY DEF Init
    <2>2. 0 \in 0 .. MaxRestarts
      BY RestartAssumption
    <2>. QED
      BY <2>1, <2>2, DefaultStateType, ContentFacts
      DEF BrokerTypeOK, NoBroker, Label, Mode, Process
  <1>5. WatchdogTypeOK
    BY DefaultStateType DEF Init, WatchdogTypeOK, NoWatchdog, Mode
  <1>6. AppTypeOK
    BY DefaultStateType DEF Init, AppTypeOK, NoApp
  <1>7. RecoverydTypeOK
    BY DefaultStateType, RecoveryAssumption DEF Init, RecoverydTypeOK, NoReports
  <1>8. seen \in History
    BY <1>1, ContentFacts, LoginAssumption DEF Init, History
  <1>9. calls \in Nat /\ edits \in Nat /\ faults \in Nat
    BY DEF Init
  <1>. QED
    BY <1>3, <1>4, <1>5, <1>6, <1>7, <1>8, <1>9 DEF TypeOK

-----------------------------------------------------------------------------
(* What a step leaves alone *)

LEMMA SharedSame == SharedTypeOK /\ UNCHANGED sharedVars => SharedTypeOK'
  BY DEF SharedTypeOK, sharedVars

LEMMA BrokerSame == BrokerTypeOK /\ UNCHANGED brokerVars => BrokerTypeOK'
  BY DEF BrokerTypeOK, brokerVars

LEMMA WatchdogSame == WatchdogTypeOK /\ UNCHANGED watchdogVars => WatchdogTypeOK'
  BY DEF WatchdogTypeOK, watchdogVars

LEMMA AppSame == AppTypeOK /\ UNCHANGED appVars => AppTypeOK'
  BY DEF AppTypeOK, appVars

LEMMA RecoverydSame == RecoverydTypeOK /\ UNCHANGED recoverydVars => RecoverydTypeOK'
  BY DEF RecoverydTypeOK, recoverydVars

BoundTypeOK == calls \in Nat /\ edits \in Nat /\ faults \in Nat

LEMMA BoundSame == BoundTypeOK /\ UNCHANGED boundVars => BoundTypeOK'
  BY DEF BoundTypeOK, boundVars

LEMMA FaultType ==
  BoundTypeOK /\ UNCHANGED <<calls, edits>> /\ (Fault \/ NoFault) => BoundTypeOK'
  BY DEF BoundTypeOK, Fault, NoFault

-----------------------------------------------------------------------------
(* The broker *)

LEMMA TypeStart ==
  ASSUME SharedTypeOK, BrokerTypeOK, NEW m \in Mode, Start(m)
  PROVE  SharedTypeOK' /\ BrokerTypeOK'
  <1>1. store' \in Store
    BY StoreUpdates DEF Start, SharedTypeOK
  <1>2. SharedTypeOK'
    BY <1>1 DEF Start, SharedTypeOK
  <1>3. 0 \in 0 .. MaxRestarts
    BY RestartAssumption
  <1>4. BrokerTypeOK'
    BY <1>3 DEF Start, BrokerTypeOK, SharedTypeOK, Label, Process
  <1>. QED BY <1>2, <1>4

LEMMA TypeCountBoot ==
  ASSUME SharedTypeOK, BrokerTypeOK, CountBoot
  PROVE  SharedTypeOK' /\ BrokerTypeOK'
  <1>. DEFINE n == IF mst.count < CrashLoopThreshold + 1 THEN mst.count + 1
                                                        ELSE mst.count
  <1>1. n \in 0 .. CrashLoopThreshold + 1
    <2>1. mst.count \in 0 .. CrashLoopThreshold + 1
      BY DEF BrokerTypeOK, SessionState
    <2>. QED BY <2>1, LoginAssumption
  <1>2. mst' = [mst EXCEPT !.count = n, !.status = "started"] /\ st' = mst'
    BY DEF CountBoot
  <1>. HIDE DEF n
  <1>3. mst' \in SessionState
    <2>1. mst \in SessionState /\ "started" \in BootStatus
      BY DEF BrokerTypeOK, BootStatus
    <2>. QED BY <1>1, <1>2, <2>1, StateUpdates
  <1>. QED BY <1>2, <1>3 DEF CountBoot, BrokerTypeOK, SharedTypeOK, childVars, Label

LEMMA TypeSelectMode ==
  ASSUME SharedTypeOK, BrokerTypeOK, NEW ok \in BOOLEAN, SelectMode(ok)
  PROVE  SharedTypeOK' /\ BrokerTypeOK'
  <1>1. mode' \in Mode
    BY DEF SelectMode, EvaluateMode, Mode, BrokerTypeOK
  <1>2. store' \in Store
    BY <1>1, RollbackUpdates DEF SelectMode, SharedTypeOK
  <1>3. plan' \in Content
    BY <1>2, ContentFacts DEF SelectMode, ReadFile, Store
  <1>. QED
    BY <1>1, <1>2, <1>3 DEF SelectMode, BrokerTypeOK, SharedTypeOK, childVars, Label

LEMMA TypePrepare ==
  ASSUME SharedTypeOK, BrokerTypeOK, Prepare
  PROVE  SharedTypeOK' /\ BrokerTypeOK'
  <1>1. mst' \in SessionState /\ st' = mst'
    BY StateUpdates DEF Prepare, BrokerTypeOK
  <1>. QED BY <1>1 DEF Prepare, BrokerTypeOK, SharedTypeOK, childVars, Label

LEMMA TypeLaunch ==
  ASSUME SharedTypeOK, BrokerTypeOK, LaunchFails \/ LaunchStack
  PROVE  SharedTypeOK' /\ BrokerTypeOK'
  <1>1. CASE LaunchFails
    <2>1. mst' \in SessionState /\ st' = mst'
      BY <1>1, StateUpdates DEF LaunchFails, BrokerTypeOK, BootStatus
    <2>. QED
      BY <1>1, <2>1 DEF LaunchFails, BrokerTypeOK, SharedTypeOK, childVars, Label
  <1>2. CASE LaunchStack
    BY <1>2 DEF LaunchStack, StackUp, BrokerTypeOK, SharedTypeOK, Label, Process
  <1>. QED BY <1>1, <1>2

LEMMA TypePromotion ==
  ASSUME SharedTypeOK, BrokerTypeOK, AdoptHealthy \/ PromoteLoad \/ PromoteSave
  PROVE  SharedTypeOK' /\ BrokerTypeOK'
  <1>1. CASE AdoptHealthy
    BY <1>1, SharedSame DEF AdoptHealthy, BrokerTypeOK, SharedTypeOK, childVars
  <1>2. CASE PromoteLoad
    BY <1>2, SharedSame DEF PromoteLoad, BrokerTypeOK, SharedTypeOK, childVars, Label
  <1>3. CASE PromoteSave
    <2>1. store' \in Store
      BY <1>3, StoreUpdates DEF PromoteSave, SharedTypeOK
    <2>2. st' \in SessionState /\ mst' = st'
      BY <1>3, StoreUpdates, StateUpdates DEF PromoteSave, SharedTypeOK, BrokerTypeOK
    <2>. QED
      BY <1>3, <2>1, <2>2, DefaultStateType
      DEF PromoteSave, BrokerTypeOK, SharedTypeOK, childVars, Label
  <1>. QED BY <1>1, <1>2, <1>3

LEMMA TypeMonitor ==
  ASSUME SharedTypeOK, BrokerTypeOK, NEW fast \in BOOLEAN,
         \/ MonitorTerminate \/ RestartStack \/ RestartStackFails
         \/ CompositorFinished \/ ShellCrash(fast) \/ RestartShell(fast)
         \/ ShellRestartFails(fast) \/ FirstFrameTimeout \/ RecoveryShellEnded
  PROVE  SharedTypeOK' /\ BrokerTypeOK'
  <1>1. \A n \in 0 .. MaxRestarts : n < MaxRestarts => n + 1 \in 0 .. MaxRestarts
    BY RestartAssumption
  <1>2. stackRestarts' \in 0 .. MaxRestarts /\ shellRestarts' \in 0 .. MaxRestarts
    BY <1>1
    DEF BrokerTypeOK, MonitorTerminate, RestartStack, RestartStackFails,
        CompositorFinished, ShellCrash, RestartShell, ShellRestartFails,
        FirstFrameTimeout, RecoveryShellEnded
  <1>3. /\ pc' \in Label /\ crashed' \in BOOLEAN
        /\ compositor' \in Process /\ shell' \in Process
    BY DEF BrokerTypeOK, MonitorTerminate, RestartStack, RestartStackFails,
        CompositorFinished, ShellCrash, RestartShell, ShellRestartFails,
        FirstFrameTimeout, RecoveryShellEnded, Leave, StackUp, Label, Process,
        InSession
  <1>4. /\ UNCHANGED <<store, st, marker, mode, requested, mst, plan, promoted,
                        draft, term>>
        /\ up' \in BOOLEAN /\ frame' \in BOOLEAN
    BY DEF SharedTypeOK, MonitorTerminate, RestartStack, RestartStackFails,
        CompositorFinished, ShellCrash, RestartShell, ShellRestartFails,
        FirstFrameTimeout, RecoveryShellEnded, Leave, StackUp
  <1>. QED BY <1>2, <1>3, <1>4 DEF SharedTypeOK, BrokerTypeOK

LEMMA TypeEnd ==
  ASSUME SharedTypeOK, BrokerTypeOK, EndLoad \/ EndSave \/ Exit
  PROVE  SharedTypeOK' /\ BrokerTypeOK'
  <1>1. CASE EndLoad
    BY <1>1, SharedSame DEF EndLoad, BrokerTypeOK, SharedTypeOK, childVars, Label
  <1>2. CASE EndSave
    <2>1. 0 \in 0 .. CrashLoopThreshold + 1
      BY LoginAssumption
    <2>2. mst' \in SessionState /\ st' = mst'
      BY <1>2, <2>1, StateUpdates DEF EndSave, BrokerTypeOK, BootStatus
    <2>. QED BY <1>2, <2>2 DEF EndSave, BrokerTypeOK, SharedTypeOK, childVars, Label
  <1>3. CASE Exit
    <2>1. 0 \in 0 .. MaxRestarts
      BY RestartAssumption
    <2>. QED
      BY <1>3, <2>1, DefaultStateType, ContentFacts
      DEF Exit, BrokerGone, BrokerTypeOK, SharedTypeOK, Label, Process, Mode
  <1>. QED BY <1>1, <1>2, <1>3

LEMMA TypeChildren ==
  ASSUME SharedTypeOK, BrokerTypeOK, NEW how \in {"clean", "failed"},
         FirstFrame \/ ShellExits(how) \/ CompositorExits(how) \/ Sigterm
  PROVE  SharedTypeOK' /\ BrokerTypeOK'
  <1>1. CASE FirstFrame
    BY <1>1, BrokerSame DEF FirstFrame, SharedTypeOK
  <1>2. CASE ShellExits(how)
    BY <1>2, SharedSame DEF ShellExits, BrokerTypeOK, Process
  <1>3. CASE CompositorExits(how)
    BY <1>3 DEF CompositorExits, BrokerTypeOK, SharedTypeOK, Process
  <1>4. CASE Sigterm
    BY <1>4, SharedSame DEF Sigterm, BrokerTypeOK, childVars
  <1>. QED BY <1>1, <1>2, <1>3, <1>4

-----------------------------------------------------------------------------
(* The watchdog *)

LEMMA TypeArm ==
  /\ SharedTypeOK /\ Arm => WatchdogTypeOK'
  /\ WatchdogTypeOK /\ Stopped => WatchdogTypeOK'
  BY DefaultStateType DEF SharedTypeOK, Arm, Stopped, WatchdogTypeOK, Mode

LEMMA TypeWatchdog ==
  ASSUME SharedTypeOK, WatchdogTypeOK, NEW stable \in BOOLEAN, NEW alive \in BOOLEAN,
         \/ Tick \/ OnHealthyTimeout(stable, alive)
         \/ PromoteBaseline \/ SaveHealthy \/ ClearMarker
  PROVE  SharedTypeOK' /\ WatchdogTypeOK'
  <1>1. CASE Tick
    BY <1>1, SharedSame DEF Tick, WatchdogTypeOK
  <1>2. CASE OnHealthyTimeout(stable, alive)
    <2>1. MarkedHealthy(st, st.good) \in SessionState
      BY StateUpdates DEF SharedTypeOK, SessionState, Snapshots
    <2>. QED
      BY <1>2, <2>1, SharedSame, TypeArm DEF OnHealthyTimeout, WatchdogTypeOK
  <1>3. CASE PromoteBaseline
    <2>1. Load(store) \in Store
      BY StoreUpdates DEF SharedTypeOK
    <2>2. WithBaseline(Load(store)) \in Store
      BY <2>1, StoreUpdates
    <2>3. [wdraft EXCEPT !.good = SnapshotId(Load(store), wdraft)] \in SessionState
      BY <2>1, StoreUpdates, StateUpdates DEF WatchdogTypeOK
    <2>. QED
      BY <1>3, <2>2, <2>3 DEF PromoteBaseline, WatchdogTypeOK, SharedTypeOK
  <1>4. CASE SaveHealthy
    BY <1>4 DEF SaveHealthy, WatchdogTypeOK, SharedTypeOK
  <1>5. CASE ClearMarker
    BY <1>5, TypeArm DEF ClearMarker, SharedTypeOK
  <1>. QED BY <1>1, <1>2, <1>3, <1>4, <1>5

-----------------------------------------------------------------------------
(* The recovery application *)

LEMMA TypeAppReset == AppReset \/ AppLaunched => AppTypeOK'
  BY DefaultStateType DEF AppReset, AppLaunched, AppTypeOK

LEMMA TypeApp ==
  ASSUME SharedTypeOK, AppTypeOK,
         \/ Construct \/ MarkRecoveryUiHealthy \/ ExitToDesktop \/ ClearSave
         \/ ClearRequest \/ RestartDesktop \/ ResetToSafeDefaults \/ DefaultsLoad \/ DefaultsSave
         \/ RestoreConfig
  PROVE  SharedTypeOK' /\ AppTypeOK'
  <1>1. /\ MarkedHealthy(st, st.good) \in SessionState
        /\ [st EXCEPT !.count = 0, !.forced = FALSE] \in SessionState
    BY StateUpdates DEF SharedTypeOK, SessionState, Snapshots
  <1>2. Load(store) \in Store
    BY StoreUpdates DEF SharedTypeOK
  <1>3. CASE MarkRecoveryUiHealthy \/ ExitToDesktop
    BY <1>1, <1>3, SharedSame
    DEF MarkRecoveryUiHealthy, ExitToDesktop, ClearLoad, AppTypeOK
  <1>4. CASE ClearSave \/ DefaultsSave
    BY <1>4, DefaultStateType DEF ClearSave, DefaultsSave, AppTypeOK, SharedTypeOK
  <1>5. CASE ClearRequest
    BY <1>5 DEF ClearRequest, AppTypeOK, SharedTypeOK
  <1>6. CASE RestartDesktop
    BY <1>6, SharedSame DEF RestartDesktop, AppTypeOK
  <1>7. CASE ResetToSafeDefaults
    BY <1>2, <1>7, StoreUpdates DEF ResetToSafeDefaults, AppTypeOK, SharedTypeOK
  <1>8. CASE DefaultsLoad
    BY <1>1, <1>8, SharedSame DEF DefaultsLoad, AppTypeOK
  <1>9. CASE RestoreConfig
    <2>1. store' \in Store
      BY <1>2, <1>9, StoreUpdates DEF RestoreConfig
    <2>. QED BY <1>9, <2>1, AppSame DEF RestoreConfig, SharedTypeOK
  <1>10. CASE Construct
    BY <1>2, <1>10 DEF Construct, AppTypeOK, SharedTypeOK
  <1>. QED BY <1>3, <1>4, <1>5, <1>6, <1>7, <1>8, <1>9, <1>10

-----------------------------------------------------------------------------
(* The recovery daemon *)

LEMMA TypeRecoveryd ==
  ASSUME SharedTypeOK, RecoverydTypeOK,
         \/ \E c \in Component, kept \in 0 .. BurstThreshold + 1 : ReportCrash(c, kept)
         \/ TriggerAutoRecovery \/ RequestSafeMode \/ RequestRecoveryPartition
         \/ ClearRecoveryFlags \/ AutoLoad \/ AutoSave \/ RequestLoad \/ RequestSave
         \/ ClearLoadFlags \/ ClearSaveFlags \/ ForceFails \/ Escalate \/ ClearMarkerFlag
  PROVE  SharedTypeOK' /\ RecoverydTypeOK'
  <1>1. ASSUME AutoRecovery
        PROVE  /\ store' \in Store /\ attempts' \in 0 .. MaxAutoAttempts
               /\ rpc' = "auto.load"
    <2>1. attempts < MaxAutoAttempts => attempts + 1 \in 0 .. MaxAutoAttempts
      BY RecoveryAssumption DEF RecoverydTypeOK
    <2>. QED
      BY <1>1, <2>1, StoreUpdates DEF AutoRecovery, RecoverydTypeOK, SharedTypeOK
  <1>2. ASSUME NEW c \in Component, NEW kept \in 0 .. BurstThreshold + 1,
               ReportCrash(c, kept)
        PROVE  SharedTypeOK' /\ RecoverydTypeOK'
    <2>. DEFINE reports == IF kept <= BurstThreshold THEN kept + 1 ELSE kept
    <2>1. reports \in 0 .. BurstThreshold + 1
      BY RecoveryAssumption
    <2>2. burst' = [burst EXCEPT ![c] = reports]
      BY <1>2 DEF ReportCrash
    <2>3. burst' \in [Component -> 0 .. BurstThreshold + 1]
      BY <2>1, <2>2 DEF RecoverydTypeOK
    <2>4. /\ store' \in Store /\ attempts' \in 0 .. MaxAutoAttempts
          /\ rpc' \in {rpc, "auto.load"}
      BY <1>1, <1>2 DEF ReportCrash, RecoverydTypeOK, SharedTypeOK
    <2>. QED
      BY <1>2, <2>3, <2>4 DEF ReportCrash, RecoverydTypeOK, SharedTypeOK
  <1>3. CASE TriggerAutoRecovery
    BY <1>1, <1>3 DEF TriggerAutoRecovery, RecoverydTypeOK, SharedTypeOK
  <1>4. CASE RequestSafeMode \/ ClearRecoveryFlags
    BY <1>4, SharedSame DEF RequestSafeMode, ClearRecoveryFlags, RecoverydTypeOK
  <1>5. CASE RequestRecoveryPartition
    BY <1>5, RecoverydSame DEF RequestRecoveryPartition, SharedTypeOK
  <1>6. CASE AutoLoad \/ RequestLoad \/ ClearLoadFlags
    <2>1. \A b \in BOOLEAN : [st EXCEPT !.forced = b] \in SessionState
      BY StateUpdates DEF SharedTypeOK
    <2>. QED
      BY <1>6, <2>1, SharedSame
      DEF AutoLoad, RequestLoad, ClearLoadFlags, ForceLoad, RecoverydTypeOK
  <1>7. CASE AutoSave \/ RequestSave \/ ClearSaveFlags
    BY <1>7, DefaultStateType
    DEF AutoSave, RequestSave, ClearSaveFlags, ForceSave, RecoverydTypeOK, SharedTypeOK
  <1>8. CASE ForceFails
    BY <1>8, DefaultStateType DEF ForceFails, RecoverydTypeOK, SharedTypeOK
  <1>9. CASE Escalate
    BY <1>9 DEF Escalate, RecoverydTypeOK, SharedTypeOK
  <1>10. CASE ClearMarkerFlag
    <2>1. 0 \in 0 .. MaxAutoAttempts
      BY RecoveryAssumption
    <2>. QED
      BY <1>10, <2>1 DEF ClearMarkerFlag, RecoverydTypeOK, SharedTypeOK
  <1>. QED
    BY <1>2, <1>3, <1>4, <1>5, <1>6, <1>7, <1>8, <1>9, <1>10, Zenon

-----------------------------------------------------------------------------
(* The system *)

LEMMA TypeParts ==
  /\ TypeOK => /\ SharedTypeOK /\ BrokerTypeOK /\ WatchdogTypeOK /\ AppTypeOK
               /\ RecoverydTypeOK /\ BoundTypeOK /\ seen \in History
  /\ (/\ SharedTypeOK' /\ BrokerTypeOK' /\ WatchdogTypeOK' /\ AppTypeOK'
      /\ RecoverydTypeOK' /\ BoundTypeOK' /\ seen' \in History) => TypeOK'
  BY DEF TypeOK, BoundTypeOK

LEMMA OthersSame ==
  ASSUME TypeOK, UNCHANGED Others, Fault \/ NoFault
  PROVE  AppTypeOK' /\ RecoverydTypeOK' /\ BoundTypeOK'
  BY TypeParts, AppSame, RecoverydSame, FaultType DEF Others

LEMMA TypeBroker ==
  ASSUME TypeOK, BrokerNext
  PROVE  TypeOK'
  <1>. USE TypeParts
  <1>1. CASE BrokerStart
    <2>1. SharedTypeOK' /\ BrokerTypeOK'
      BY <1>1, TypeStart, SystemAssumption DEF BrokerStart
    <2>. QED BY <1>1, <2>1, OthersSame, WatchdogSame DEF BrokerStart, NoFault
  <1>2. CASE BrokerCountBoot
    <2>1. SharedTypeOK' /\ BrokerTypeOK'
      BY <1>2, TypeCountBoot DEF BrokerCountBoot
    <2>2. seen' \in History
      BY <1>2, HistoryUpdates DEF BrokerCountBoot
    <2>. QED
      BY <1>2, <2>1, <2>2, OthersSame, WatchdogSame DEF BrokerCountBoot, NoFault
  <1>3. CASE BrokerSelectMode
    <2>1. SharedTypeOK' /\ BrokerTypeOK'
      BY <1>3, TypeSelectMode DEF BrokerSelectMode
    <2>2. seen' = seen
      BY <1>3 DEF BrokerSelectMode
    <2>. QED
      BY <1>3, <2>1, <2>2, OthersSame, WatchdogSame DEF BrokerSelectMode
  <1>4. CASE BrokerPrepare
    <2>1. SharedTypeOK' /\ BrokerTypeOK'
      BY <1>4, TypePrepare DEF BrokerPrepare
    <2>2. seen' \in History
      BY <1>4, HistoryUpdates DEF BrokerPrepare
    <2>. QED
      BY <1>4, <2>1, <2>2, OthersSame, WatchdogSame DEF BrokerPrepare, NoFault
  <1>5. CASE BrokerLaunchFails
    <2>1. SharedTypeOK' /\ BrokerTypeOK'
      BY <1>5, TypeLaunch DEF BrokerLaunchFails
    <2>2. seen' \in History
      BY <1>5, HistoryUpdates, OutcomeType DEF BrokerLaunchFails, BrokerTypeOK
    <2>. QED
      BY <1>5, <2>1, <2>2, OthersSame, WatchdogSame DEF BrokerLaunchFails
  <1>6. CASE BrokerLaunchStack
    <2>1. SharedTypeOK' /\ BrokerTypeOK' /\ WatchdogTypeOK' /\ AppTypeOK'
      BY <1>6, TypeLaunch, TypeArm, TypeAppReset DEF BrokerLaunchStack
    <2>. QED BY <1>6, <2>1, RecoverydSame, BoundSame DEF BrokerLaunchStack
  <1>7. CASE BrokerPromotes
    <2>1. SharedTypeOK' /\ BrokerTypeOK'
      BY <1>7, TypePromotion DEF BrokerPromotes
    <2>2. seen' \in History
      BY <1>7, HistoryUpdates DEF BrokerPromotes
    <2>. QED
      BY <1>7, <2>1, <2>2, OthersSame, WatchdogSame DEF BrokerPromotes, NoFault
  <1>8. CASE BrokerRestartStack
    <2>1. SharedTypeOK' /\ BrokerTypeOK' /\ WatchdogTypeOK'
      BY <1>8, TypeMonitor, TypeArm DEF BrokerRestartStack
    <2>. QED BY <1>8, <2>1, OthersSame DEF BrokerRestartStack, NoFault
  <1>9. CASE BrokerRestartStackFails
    <2>1. SharedTypeOK' /\ BrokerTypeOK'
      BY <1>9, TypeMonitor DEF BrokerRestartStackFails
    <2>2. WatchdogTypeOK'
      BY <1>9, TypeArm, WatchdogSame DEF BrokerRestartStackFails
    <2>. QED BY <1>9, <2>1, <2>2, OthersSame DEF BrokerRestartStackFails
  <1>10. CASE BrokerShellRestartFails
    <2>1. SharedTypeOK' /\ BrokerTypeOK'
      BY <1>10, TypeMonitor DEF BrokerShellRestartFails
    <2>. QED BY <1>10, <2>1, OthersSame, WatchdogSame DEF BrokerShellRestartFails
  <1>11. CASE BrokerMonitor
    <2>1. SharedTypeOK' /\ BrokerTypeOK'
      BY <1>11, TypeMonitor DEF BrokerMonitor
    <2>. QED BY <1>11, <2>1, OthersSame, WatchdogSame DEF BrokerMonitor, NoFault
  <1>12. CASE BrokerFirstFrameTimeout
    <2>1. SharedTypeOK' /\ BrokerTypeOK'
      BY <1>12, TypeMonitor DEF BrokerFirstFrameTimeout
    <2>. QED BY <1>12, <2>1, OthersSame, WatchdogSame DEF BrokerFirstFrameTimeout
  <1>13. CASE BrokerEndLoad
    <2>1. SharedTypeOK' /\ BrokerTypeOK'
      BY <1>13, TypeEnd DEF BrokerEndLoad
    <2>2. seen' \in History
      BY <1>13, HistoryUpdates, OutcomeType DEF BrokerEndLoad, BrokerTypeOK
    <2>. QED BY <1>13, <2>1, <2>2, OthersSame, WatchdogSame DEF BrokerEndLoad, NoFault
  <1>14. CASE BrokerEndSave
    <2>1. SharedTypeOK' /\ BrokerTypeOK'
      BY <1>14, TypeEnd DEF BrokerEndSave
    <2>2. seen' \in History
      BY <1>14, HistoryUpdates DEF BrokerEndSave
    <2>. QED BY <1>14, <2>1, <2>2, OthersSame, WatchdogSame DEF BrokerEndSave, NoFault
  <1>15. CASE BrokerExit
    <2>1. SharedTypeOK' /\ BrokerTypeOK' /\ WatchdogTypeOK' /\ AppTypeOK'
      BY <1>15, TypeEnd, TypeArm, TypeAppReset DEF BrokerExit
    <2>. QED BY <1>15, <2>1, RecoverydSame, BoundSame DEF BrokerExit
  <1>. QED
    BY <1>1, <1>2, <1>3, <1>4, <1>5, <1>6, <1>7, <1>8, <1>9, <1>10, <1>11, <1>12,
       <1>13, <1>14, <1>15
    DEF BrokerNext

LEMMA TypeSession ==
  ASSUME TypeOK, SessionNext
  PROVE  TypeOK'
  <1>. USE TypeParts
  <1>1. CASE ShellFirstFrame
    <2>1. SharedTypeOK' /\ BrokerTypeOK'
      BY <1>1, TypeChildren DEF ShellFirstFrame
    <2>2. {plan, Runs(plan)} \in SUBSET Content
      BY ContentFacts DEF BrokerTypeOK, Runs
    <2>3. seen' \in History
      BY <1>1, <2>2, HistoryUpdates DEF ShellFirstFrame
    <2>. QED
      BY <1>1, <2>1, <2>3, OthersSame, WatchdogSame DEF ShellFirstFrame, NoFault
  <1>2. CASE ShellExit
    <2>1. SharedTypeOK' /\ BrokerTypeOK' /\ AppTypeOK'
      BY <1>2, TypeChildren, TypeAppReset DEF ShellExit
    <2>2. BoundTypeOK'
      BY <1>2, FaultType DEF ShellExit
    <2>. QED BY <1>2, <2>1, <2>2, RecoverydSame, WatchdogSame DEF ShellExit
  <1>3. CASE CompositorExit
    <2>1. SharedTypeOK' /\ BrokerTypeOK'
      BY <1>3, TypeChildren DEF CompositorExit
    <2>. QED BY <1>3, <2>1, OthersSame, WatchdogSame DEF CompositorExit
  <1>4. CASE Logout
    <2>1. SharedTypeOK' /\ BrokerTypeOK'
      BY <1>4, TypeChildren DEF Logout
    <2>. QED BY <1>4, <2>1, OthersSame, WatchdogSame DEF Logout
  <1>. QED BY <1>1, <1>2, <1>3, <1>4 DEF SessionNext

LEMMA TypeHelper ==
  ASSUME TypeOK, HelperNext
  PROVE  TypeOK'
  <1>. USE TypeParts
  <1>1. CASE WatchdogTick
    <2>1. SharedTypeOK' /\ WatchdogTypeOK'
      BY <1>1, TypeWatchdog DEF WatchdogTick
    <2>. QED
      BY <1>1, <2>1, BrokerSame, AppSame, RecoverydSame, BoundSame DEF WatchdogTick
  <1>2. CASE WatchdogStep
    <2>1. SharedTypeOK' /\ WatchdogTypeOK'
      BY <1>2, TypeWatchdog DEF WatchdogStep
    <2>2. seen' \in History
      BY <1>2, HistoryUpdates DEF WatchdogStep
    <2>. QED
      BY <1>2, <2>1, <2>2, BrokerSame, AppSame, RecoverydSame, BoundSame
      DEF WatchdogStep
  <1>3. CASE AppStep
    <2>1. SharedTypeOK' /\ AppTypeOK'
      BY <1>3, TypeApp DEF AppStep
    <2>2. seen' \in History
      BY <1>3, HistoryUpdates DEF AppStep
    <2>. QED
      BY <1>3, <2>1, <2>2, BrokerSame, WatchdogSame, RecoverydSame, BoundSame
      DEF AppStep
  <1>4. CASE AppLeave
    <2>1. SharedTypeOK' /\ AppTypeOK'
      BY <1>4, TypeApp DEF AppLeave
    <2>. QED
      BY <1>4, <2>1, BrokerSame, WatchdogSame, RecoverydSame, BoundSame DEF AppLeave
  <1>5. CASE AppChoice
    <2>1. SharedTypeOK' /\ AppTypeOK'
      BY <1>5, TypeApp DEF AppChoice
    <2>2. BoundTypeOK'
      BY <1>5 DEF AppChoice, BoundTypeOK
    <2>. QED
      BY <1>5, <2>1, <2>2, BrokerSame, WatchdogSame, RecoverydSame DEF AppChoice
  <1>6. CASE RecoverydCall
    <2>1. SharedTypeOK' /\ RecoverydTypeOK'
      BY <1>6, TypeRecoveryd DEF RecoverydCall
    <2>2. BoundTypeOK'
      BY <1>6 DEF RecoverydCall, Called, BoundTypeOK
    <2>. QED
      BY <1>6, <2>1, <2>2, BrokerSame, WatchdogSame, AppSame DEF RecoverydCall
  <1>7. CASE RecoverydStep
    <2>1. SharedTypeOK' /\ RecoverydTypeOK'
      BY <1>7, TypeRecoveryd DEF RecoverydStep
    <2>2. seen' \in History
      BY <1>7, HistoryUpdates DEF RecoverydStep
    <2>. QED
      BY <1>7, <2>1, <2>2, BrokerSame, WatchdogSame, AppSame, BoundSame
      DEF RecoverydStep
  <1>8. CASE RecoverydForceFails
    <2>1. SharedTypeOK' /\ RecoverydTypeOK'
      BY <1>8, TypeRecoveryd DEF RecoverydForceFails
    <2>2. BoundTypeOK'
      BY <1>8, FaultType DEF RecoverydForceFails
    <2>. QED
      BY <1>8, <2>1, <2>2, BrokerSame, WatchdogSame, AppSame DEF RecoverydForceFails
  <1>. QED
    BY <1>1, <1>2, <1>3, <1>4, <1>5, <1>6, <1>7, <1>8 DEF HelperNext

LEMMA TypeWorld ==
  ASSUME TypeOK, UserSaves \/ PowerLoss
  PROVE  TypeOK'
  <1>. USE TypeParts
  <1>1. CASE UserSaves
    <2>1. store' \in Store
      BY <1>1, StoreUpdates DEF UserSaves, SharedTypeOK
    <2>2. seen' \in History
      BY <1>1, HistoryUpdates DEF UserSaves, Snapshots
    <2>3. SharedTypeOK' /\ BoundTypeOK'
      BY <1>1, <2>1 DEF UserSaves, SharedTypeOK, BoundTypeOK
    <2>. QED
      BY <1>1, <2>2, <2>3, BrokerSame, WatchdogSame, AppSame, RecoverydSame
      DEF UserSaves
  <1>2. CASE PowerLoss
    <2>1. seen' \in History
      <3>1. seen.failed \in Snapshots
        BY DEF History, Snapshots
      <3>. QED
        BY <1>2, <3>1, HistoryUpdates, OutcomeType DEF PowerLoss, BrokerTypeOK
    <2>2. SharedTypeOK'
      BY <1>2 DEF PowerLoss, SharedTypeOK
    <2>3. BrokerTypeOK'
      <3>1. 0 \in 0 .. MaxRestarts
        BY RestartAssumption
      <3>. QED
        BY <1>2, <3>1, DefaultStateType, ContentFacts
        DEF PowerLoss, BrokerGone, BrokerTypeOK, Label, Process, Mode
    <2>4. WatchdogTypeOK' /\ AppTypeOK'
      BY <1>2, TypeArm, TypeAppReset DEF PowerLoss
    <2>5. RecoverydTypeOK'
      <3>1. 0 \in 0 .. MaxAutoAttempts /\ 0 \in 0 .. BurstThreshold + 1
        BY RecoveryAssumption
      <3>. QED
        BY <1>2, <3>1, DefaultStateType DEF PowerLoss, RecoverydReset, RecoverydTypeOK
    <2>6. BoundTypeOK'
      BY <1>2, FaultType DEF PowerLoss
    <2>. QED BY <2>1, <2>2, <2>3, <2>4, <2>5, <2>6
  <1>. QED BY <1>1, <1>2

LEMMA TypeNext == TypeOK /\ [Next]_vars => TypeOK'
  <1>. SUFFICES ASSUME TypeOK, [Next]_vars
                PROVE  TypeOK'
    OBVIOUS
  <1>1. CASE UNCHANGED vars
    BY <1>1, TypeParts, SharedSame, BrokerSame, WatchdogSame, AppSame, RecoverydSame,
       BoundSame
    DEF vars
  <1>2. CASE Next
    BY <1>2, TypeBroker, TypeSession, TypeHelper, TypeWorld DEF Next
  <1>. QED BY <1>1, <1>2

\* Whatever the processes of the login stack do to each other's files, every file
\* keeps its shape and no counter leaves its range.
THEOREM TypeCorrect == Spec => []TypeOK
  BY TypeInit, TypeNext, PTL DEF Spec

-----------------------------------------------------------------------------
(* Boots and evidence *)

Starting == {"off", "boot", "select", "prepare", "launch"}
Running == {"monitor", "promote"}

\* Where the recovery daemon holds a state.json it has loaded.
Saving == {"auto.save", "request.save", "clear.save"}

\* The helpers belong to a session that has been launched.
HelpersRest ==
  /\ pc \in Starting => wpc = "off" /\ apc = "idle" /\ ~greeted
  /\ pc \in Starting \ {"off"} => rpc = "idle"
  /\ up => pc \in Running
  /\ wpc # "off" => wmode = mode

\* Whatever speaks for the session speaks of a frame that was drawn.
EvidenceIsDrawn ==
  /\ frame /\ pc \notin Starting \cup {"exit"} => seen.drawn
  /\ promoted => seen.drawn /\ pc \notin Starting
  /\ pc = "promote" => seen.drawn
  /\ wpc \in {"baseline", "save"} => seen.drawn
  /\ greeted \/ apc \notin {"idle", "new"} => seen.drawn
  /\ wpc = "armed" /\ age = 2 /\ up /\ mode # "recovery" => seen.drawn

\* Nobody has "healthy" in hand, or in the file, without such evidence.
HealthyIsDrawn ==
  /\ st.status = "healthy" => seen.drawn
  /\ mst.status = "healthy" => seen.drawn
  /\ rpc \in Saving /\ rdraft.status = "healthy" => seen.drawn

\* Nobody has a count in hand, or in the file, below the boots that count.
CountsAreKept ==
  /\ seen.drawn => seen.streak = 0
  /\ st.count >= seen.streak
  /\ pc # "off" => mst.count >= seen.streak
  /\ rpc \in Saving => rdraft.count >= seen.streak

ModeFollowsCount ==
  (Chosen /\ mst.count >= CrashLoopThreshold /\ ~mst.forced) => mode = "recovery"

SafetyInv ==
  HelpersRest /\ EvidenceIsDrawn /\ HealthyIsDrawn /\ CountsAreKept /\ ModeFollowsCount

-----------------------------------------------------------------------------

\* The types the proof of the invariant uses.
SafetyTypes ==
  /\ st \in SessionState /\ mst \in SessionState /\ rdraft \in SessionState
  /\ draft \in SessionState /\ wdraft \in SessionState /\ adraft \in SessionState
  /\ seen \in History
  /\ age \in 0 .. 2

LEMMA UseTypes == TypeOK => SafetyTypes
  BY DEF TypeOK, SafetyTypes, SharedTypeOK, BrokerTypeOK, WatchdogTypeOK,
         AppTypeOK, RecoverydTypeOK

LEMMA SafetyInit == Init => SafetyInv
  <1>. SUFFICES ASSUME Init PROVE SafetyInv
    OBVIOUS
  <1>1. st.count = 0 /\ mst.count = 0
    BY DEF Init, NoBroker, DefaultState
  <1>2. st.status # "healthy" /\ mst.status # "healthy"
    <2>1. st.status = "" /\ mst.status = ""
      BY DEF Init, NoBroker, DefaultState
    <2>. QED BY <2>1, Zenon
  <1>3. ~seen.drawn /\ seen.streak = 0
    BY DEF Init
  <1>4. /\ pc = "off" /\ ~up /\ ~frame /\ ~promoted
        /\ wpc = "off" /\ apc = "idle" /\ ~greeted /\ rpc = "idle"
    BY DEF Init, NoBroker, NoWatchdog, NoApp, NoReports
  <1>5. HelpersRest
    BY <1>4 DEF HelpersRest, Starting, Running
  <1>6. EvidenceIsDrawn
    BY <1>4 DEF EvidenceIsDrawn, Starting
  <1>7. HealthyIsDrawn
    BY <1>2, <1>4 DEF HealthyIsDrawn, Saving
  <1>8. CountsAreKept /\ ModeFollowsCount
    BY <1>1, <1>3, <1>4 DEF CountsAreKept, ModeFollowsCount, Chosen, Saving
  <1>. QED BY <1>5, <1>6, <1>7, <1>8 DEF SafetyInv

LEMMA SafetyStart ==
  ASSUME SafetyTypes, SafetyInv,
         BrokerStart \/ BrokerCountBoot \/ BrokerSelectMode \/ BrokerPrepare
         \/ BrokerLaunchFails \/ BrokerLaunchStack
  PROVE  SafetyInv'
  <1>. USE LoginAssumption
       DEF SafetyTypes, SafetyInv, HelpersRest, EvidenceIsDrawn, HealthyIsDrawn,
           CountsAreKept, ModeFollowsCount, Starting, Running, Saving, Chosen,
           SessionState, History, Others, watchdogVars, appVars, recoverydVars
  <1>1. CASE BrokerStart
    BY <1>1 DEF BrokerStart, Start
  <1>2. CASE BrokerCountBoot
    BY <1>2 DEF BrokerCountBoot, CountBoot
  <1>3. CASE BrokerSelectMode
    BY <1>3 DEF BrokerSelectMode, SelectMode, EvaluateMode
  <1>4. CASE BrokerPrepare
    BY <1>4 DEF BrokerPrepare, Prepare
  <1>5. CASE BrokerLaunchFails
    BY <1>5 DEF BrokerLaunchFails, LaunchFails
  <1>6. CASE BrokerLaunchStack
    BY <1>6 DEF BrokerLaunchStack, LaunchStack, StackUp, Arm, AppLaunched
  <1>. QED BY <1>1, <1>2, <1>3, <1>4, <1>5, <1>6

\* A promotion is no new evidence: it keeps what is known of the frames drawn.
LEMMA PromotionKeepsFrames ==
  ASSUME SafetyTypes, BrokerPromotes
  PROVE  seen'.drawn = seen.drawn /\ seen'.streak = seen.streak
  BY DEF SafetyTypes, BrokerPromotes, History

LEMMA SafetyMonitor ==
  ASSUME SafetyTypes, SafetyInv,
         \/ BrokerPromotes \/ BrokerRestartStack \/ BrokerRestartStackFails
         \/ BrokerShellRestartFails \/ BrokerMonitor \/ BrokerFirstFrameTimeout
  PROVE  SafetyInv'
  <1>. USE LoginAssumption
       DEF SafetyTypes, SafetyInv, HelpersRest, EvidenceIsDrawn, HealthyIsDrawn,
           CountsAreKept, ModeFollowsCount, Starting, Running, Saving, Chosen,
           SessionState, History, Others, watchdogVars, appVars, recoverydVars
  <1>1. CASE BrokerPromotes
    <2>1. CASE AdoptHealthy
      BY <1>1, <2>1 DEF BrokerPromotes, AdoptHealthy, PromoteLoad, PromoteSave,
                        AlreadyHealthy, sharedVars, childVars
    <2>2. CASE PromoteLoad
      BY <1>1, <2>2 DEF BrokerPromotes, AdoptHealthy, PromoteLoad, PromoteSave,
                        sharedVars, childVars
    <2>3. CASE PromoteSave
      <3>1. st'.count = 0 /\ mst' = st'
        BY <2>3 DEF PromoteSave, MarkedHealthy
      <3>2. seen.drawn /\ seen.streak = 0
        BY <2>3 DEF PromoteSave
      <3>3. seen'.drawn = seen.drawn /\ seen'.streak = seen.streak
        BY <1>1, PromotionKeepsFrames
      <3>4. EvidenceIsDrawn' /\ HealthyIsDrawn'
        BY <1>1, <2>3, <3>1, <3>2, <3>3 DEF BrokerPromotes, PromoteSave
      <3>5. HelpersRest'
        BY <1>1, <2>3 DEF BrokerPromotes, PromoteSave
      <3>6. CountsAreKept' /\ ModeFollowsCount'
        BY <1>1, <2>3, <3>1, <3>2, <3>3 DEF BrokerPromotes, PromoteSave
      <3>. QED BY <3>4, <3>5, <3>6
    <2>. QED BY <1>1, <2>1, <2>2, <2>3 DEF BrokerPromotes
  <1>2. CASE BrokerRestartStack
    BY <1>2 DEF BrokerRestartStack, RestartStack, StackUp, Arm, InSession
  <1>3. CASE BrokerRestartStackFails
    BY <1>3 DEF BrokerRestartStackFails, RestartStackFails, Leave, Stopped, InSession
  <1>4. CASE BrokerShellRestartFails
    BY <1>4 DEF BrokerShellRestartFails, ShellRestartFails, Leave, InSession
  <1>5. CASE BrokerMonitor
    BY <1>5 DEF BrokerMonitor, MonitorTerminate, CompositorFinished, ShellCrash,
                RestartShell, RecoveryShellEnded, Leave, InSession
  <1>6. CASE BrokerFirstFrameTimeout
    BY <1>6 DEF BrokerFirstFrameTimeout, FirstFrameTimeout, FirstFrameMissing, Leave,
                InSession
  <1>. QED BY <1>1, <1>2, <1>3, <1>4, <1>5, <1>6

LEMMA SafetyEnd ==
  ASSUME SafetyTypes, SafetyInv, BrokerEndLoad \/ BrokerEndSave \/ BrokerExit
  PROVE  SafetyInv'
  <1>. USE LoginAssumption
       DEF SafetyTypes, SafetyInv, HelpersRest, EvidenceIsDrawn, HealthyIsDrawn,
           CountsAreKept, ModeFollowsCount, Starting, Running, Saving, Chosen,
           SessionState, History, Others, watchdogVars, appVars, recoverydVars
  <1>1. CASE BrokerEndLoad
    BY <1>1 DEF BrokerEndLoad, EndLoad, sharedVars, childVars
  <1>2. CASE BrokerEndSave
    BY <1>2 DEF BrokerEndSave, EndSave
  <1>3. CASE BrokerExit
    BY <1>3 DEF BrokerExit, Exit, BrokerGone, Stopped, AppReset, DefaultState
  <1>. QED BY <1>1, <1>2, <1>3

LEMMA SafetySession ==
  ASSUME SafetyTypes, SafetyInv, SessionNext
  PROVE  SafetyInv'
  <1>. USE LoginAssumption
       DEF SafetyTypes, SafetyInv, HelpersRest, EvidenceIsDrawn, HealthyIsDrawn,
           CountsAreKept, ModeFollowsCount, Starting, Running, Saving, Chosen,
           SessionState, History, Others, watchdogVars, appVars, recoverydVars,
           brokerVars, sharedVars, childVars
  <1>1. CASE ShellFirstFrame
    BY <1>1 DEF ShellFirstFrame, FirstFrame
  <1>2. CASE ShellExit
    BY <1>2 DEF ShellExit, ShellExits, AppReset
  <1>3. CASE CompositorExit
    BY <1>3 DEF CompositorExit, CompositorExits
  <1>4. CASE Logout
    BY <1>4 DEF Logout, Sigterm
  <1>. QED BY <1>1, <1>2, <1>3, <1>4 DEF SessionNext

LEMMA SafetyWatchdog ==
  ASSUME SafetyTypes, SafetyInv, WatchdogTick \/ WatchdogStep
  PROVE  SafetyInv'
  <1>. USE LoginAssumption
       DEF SafetyTypes, SafetyInv, HelpersRest, EvidenceIsDrawn, HealthyIsDrawn,
           CountsAreKept, ModeFollowsCount, Starting, Running, Saving, Chosen,
           SessionState, History, Others, appVars, recoverydVars,
           brokerVars, sharedVars, childVars
  <1>1. CASE WatchdogTick
    BY <1>1 DEF WatchdogTick, Tick, FirstFrameMissing, InSession
  <1>2. CASE WatchdogStep
    <2>1. ASSUME NEW stable \in BOOLEAN, OnHealthyTimeout(stable, shell = "running"),
                 UNCHANGED seen
          PROVE  SafetyInv'
      BY <1>2, <2>1 DEF WatchdogStep, OnHealthyTimeout, IsSessionHealthy, Stopped
    <2>2. CASE PromoteBaseline /\ UNCHANGED seen
      BY <1>2, <2>2 DEF WatchdogStep, PromoteBaseline
    <2>3. CASE ClearMarker /\ UNCHANGED seen
      BY <1>2, <2>3 DEF WatchdogStep, ClearMarker, Stopped
    <2>4. CASE SaveHealthy
      BY <1>2, <2>4 DEF WatchdogStep, SaveHealthy
    <2>. QED BY <1>2, <2>1, <2>2, <2>3, <2>4 DEF WatchdogStep
  <1>. QED BY <1>1, <1>2

LEMMA SafetyApp ==
  ASSUME SafetyTypes, SafetyInv, AppStep \/ AppLeave \/ AppChoice
  PROVE  SafetyInv'
  <1>. USE LoginAssumption
       DEF SafetyTypes, SafetyInv, HelpersRest, EvidenceIsDrawn, HealthyIsDrawn,
           CountsAreKept, ModeFollowsCount, Starting, Running, Saving, Chosen,
           SessionState, History, watchdogVars, recoverydVars,
           brokerVars, sharedVars, appVars, boundVars, AppRuns
  <1>1. CASE AppStep
    <2>1. CASE MarkRecoveryUiHealthy /\ UNCHANGED seen
      BY <1>1, <2>1 DEF AppStep, MarkRecoveryUiHealthy, ClearLoad
    <2>2. CASE ClearRequest /\ UNCHANGED seen
      BY <1>1, <2>2 DEF AppStep, ClearRequest
    <2>3. CASE DefaultsLoad /\ UNCHANGED seen
      BY <1>1, <2>3 DEF AppStep, DefaultsLoad
    <2>4. CASE ClearSave
      BY <1>1, <2>4 DEF AppStep, ClearSave
    <2>5. CASE DefaultsSave
      BY <1>1, <2>5 DEF AppStep, DefaultsSave
    <2>6. CASE Construct /\ UNCHANGED seen
      BY <1>1, <2>6 DEF AppStep, Construct
    <2>. QED BY <1>1, <2>1, <2>2, <2>3, <2>4, <2>5, <2>6 DEF AppStep
  <1>2. CASE AppLeave
    BY <1>2 DEF AppLeave, ExitToDesktop, RestartDesktop, ClearLoad
  <1>3. CASE AppChoice
    BY <1>3 DEF AppChoice, ResetToSafeDefaults, RestoreConfig
  <1>. QED BY <1>1, <1>2, <1>3

LEMMA SafetyRecoveryd ==
  ASSUME SafetyTypes, SafetyInv, RecoverydCall \/ RecoverydStep \/ RecoverydForceFails
  PROVE  SafetyInv'
  <1>. USE LoginAssumption
       DEF SafetyTypes, SafetyInv, HelpersRest, EvidenceIsDrawn, HealthyIsDrawn,
           CountsAreKept, ModeFollowsCount, Starting, Running, Saving, Chosen,
           SessionState, History, watchdogVars, appVars, brokerVars, sharedVars
  <1>1. CASE RecoverydCall
    BY <1>1
    DEF RecoverydCall, Called, ReportCrash, TriggerAutoRecovery, AutoRecovery,
        RequestSafeMode, RequestRecoveryPartition, ClearRecoveryFlags, recoverydVars
  <1>2. CASE RecoverydStep
    <2>1. CASE (AutoLoad \/ RequestLoad \/ ClearLoadFlags) /\ UNCHANGED seen
      BY <1>2, <2>1
      DEF RecoverydStep, AutoLoad, RequestLoad, ClearLoadFlags, ForceLoad
    <2>2. CASE (ClearMarkerFlag \/ Escalate) /\ UNCHANGED seen
      BY <1>2, <2>2 DEF RecoverydStep, ClearMarkerFlag, Escalate
    <2>3. CASE AutoSave \/ RequestSave \/ ClearSaveFlags
      BY <1>2, <2>3
      DEF RecoverydStep, AutoSave, RequestSave, ClearSaveFlags, ForceSave
    <2>. QED BY <1>2, <2>1, <2>2, <2>3 DEF RecoverydStep
  <1>3. CASE RecoverydForceFails
    BY <1>3 DEF RecoverydForceFails, ForceFails
  <1>. QED BY <1>1, <1>2, <1>3

LEMMA SafetyWorld ==
  ASSUME SafetyTypes, SafetyInv, UserSaves \/ PowerLoss
  PROVE  SafetyInv'
  <1>. USE LoginAssumption
       DEF SafetyTypes, SafetyInv, HelpersRest, EvidenceIsDrawn, HealthyIsDrawn,
           CountsAreKept, ModeFollowsCount, Starting, Running, Saving, Chosen,
           SessionState, History, watchdogVars, appVars, recoverydVars, brokerVars
  <1>1. CASE UserSaves
    BY <1>1 DEF UserSaves
  <1>2. CASE PowerLoss
    BY <1>2 DEF PowerLoss, BrokerGone, Stopped, AppReset, RecoverydReset, DefaultState
  <1>. QED BY <1>1, <1>2

LEMMA SafetyNext == TypeOK /\ SafetyInv /\ [Next]_vars => SafetyInv'
  <1>. SUFFICES ASSUME SafetyTypes, SafetyInv, [Next]_vars
                PROVE  SafetyInv'
    BY UseTypes
  <1>1. CASE UNCHANGED vars
    BY <1>1
    DEF vars, sharedVars, brokerVars, watchdogVars, appVars, recoverydVars, SafetyInv,
        HelpersRest, EvidenceIsDrawn, HealthyIsDrawn, CountsAreKept, ModeFollowsCount,
        Chosen
  <1>2. CASE BrokerNext
    BY <1>2, SafetyStart, SafetyMonitor, SafetyEnd DEF BrokerNext
  <1>3. CASE HelperNext
    BY <1>3, SafetyWatchdog, SafetyApp, SafetyRecoveryd DEF HelperNext
  <1>4. CASE SessionNext \/ UserSaves \/ PowerLoss
    BY <1>4, SafetySession, SafetyWorld
  <1>. QED BY <1>1, <1>2, <1>3, <1>4 DEF Next

LEMMA SafetyHolds == Spec => []SafetyInv
  BY TypeCorrect, SafetyInit, SafetyNext, PTL DEF Spec

-----------------------------------------------------------------------------
(* The promises *)

\* A crash loop ends in recovery, whatever the watchdog, the recovery application
\* and the recovery daemon write into state.json meanwhile: no interleaving loses
\* a boot from the count.
THEOREM NoBootIsLost == Spec => []CrashLoopEscalates
  <1>1. TypeOK /\ SafetyInv => CrashLoopEscalates
    <2>. SUFFICES ASSUME SafetyTypes, SafetyInv, Chosen,
                         seen.streak >= CrashLoopThreshold, ~mst.forced
                  PROVE  mode = "recovery"
      BY UseTypes DEF CrashLoopEscalates
    <2>1. mst.count >= seen.streak
      BY DEF SafetyInv, CountsAreKept, Chosen
    <2>2. mst.count \in Nat /\ seen.streak \in Nat /\ CrashLoopThreshold \in Nat
      BY LoginAssumption DEF SafetyTypes, SessionState, History
    <2>. QED BY <2>1, <2>2 DEF SafetyInv, ModeFollowsCount
  <1>. QED BY <1>1, TypeCorrect, SafetyHolds, PTL

\* No process ever records a session as healthy in which nothing was drawn.
THEOREM HealthIsEarned == Spec => []HealthyIsEarned
  <1>1. SafetyInv => HealthyIsEarned
    BY DEF SafetyInv, HealthyIsDrawn, HealthyIsEarned
  <1>. QED BY <1>1, SafetyHolds, PTL

-----------------------------------------------------------------------------
(* A confirmed configuration *)

\* Of the recovery daemon's methods, those that leave state.json alone.  The
\* others save a record they have loaded some time before: a call that crosses
\* the broker's promotion undoes it, and no invariant of the stack prevents that.
NoRewrites == Call \subseteq {"RequestRecoveryPartition"}

\* No process holds a record that is pending while the session is confirmed, or
\* on its way to being so.
ConfirmedInv ==
  /\ rpc = "idle"
  /\ wpc \in {"baseline", "save"} => ~wdraft.pending
  /\ apc = "clear.save" => ~adraft.pending
  /\ pc = "launch" => ~seen.confirmed
  /\ pc = "promote" => mode # "recovery"
  /\ mode = "recovery" /\ pc = "monitor" => ~seen.confirmed
  /\ seen.confirmed => ~st.pending /\ (pc \in {"boot", "record"} => ~mst.pending)

LEMMA ConfirmedInit == Init => ConfirmedInv
  BY DEF Init, ConfirmedInv, NoBroker, NoWatchdog, NoApp, NoReports, DefaultState

LEMMA ConfirmedNext ==
  ASSUME SafetyTypes, SafetyInv, NoRewrites, ConfirmedInv, [Next]_vars
  PROVE  ConfirmedInv'
  <1>. USE LoginAssumption DEF SafetyTypes, SafetyInv, HelpersRest,
         EvidenceIsDrawn, HealthyIsDrawn, ConfirmedInv, Starting, Running,
         Saving, Chosen, SessionState, History, Others, watchdogVars, appVars,
         recoverydVars, brokerVars, sharedVars, childVars, boundVars,
         NoRewrites
  <1>1. CASE BrokerStart
    BY <1>1 DEF BrokerStart, Start
  <1>2. CASE BrokerCountBoot
    BY <1>2 DEF BrokerCountBoot, CountBoot
  <1>3. CASE BrokerSelectMode
    BY <1>3 DEF BrokerSelectMode, SelectMode, EvaluateMode
  <1>4. CASE BrokerPrepare
    BY <1>4 DEF BrokerPrepare, Prepare
  <1>5. CASE BrokerLaunchFails
    BY <1>5 DEF BrokerLaunchFails, LaunchFails
  <1>6. CASE BrokerLaunchStack
    BY <1>6 DEF BrokerLaunchStack, LaunchStack, StackUp, Arm, AppLaunched
  <1>7. CASE BrokerPromotes
    BY <1>7 DEF BrokerPromotes, AdoptHealthy, PromoteLoad, PromoteSave,
      AlreadyHealthy, MarkedHealthy
  <1>8. CASE BrokerRestartStack
    BY <1>8 DEF BrokerRestartStack, RestartStack, StackUp, Arm, InSession
  <1>9. CASE BrokerRestartStackFails
    BY <1>9 DEF BrokerRestartStackFails, RestartStackFails, Leave, Stopped,
      InSession
  <1>10. CASE BrokerShellRestartFails
    BY <1>10 DEF BrokerShellRestartFails, ShellRestartFails, Leave, InSession
  <1>11. CASE BrokerMonitor
    BY <1>11 DEF BrokerMonitor, MonitorTerminate, CompositorFinished,
      ShellCrash, RestartShell, RecoveryShellEnded, Leave, InSession
  <1>12. CASE BrokerFirstFrameTimeout
    BY <1>12 DEF BrokerFirstFrameTimeout, FirstFrameTimeout,
      FirstFrameMissing, Leave, InSession
  <1>13. CASE BrokerEndLoad
    BY <1>13 DEF BrokerEndLoad, EndLoad
  <1>14. CASE BrokerEndSave
    BY <1>14 DEF BrokerEndSave, EndSave
  <1>15. CASE BrokerExit
    BY <1>15 DEF BrokerExit, Exit, BrokerGone, Stopped, AppReset, DefaultState
  <1>16. CASE ShellFirstFrame
    BY <1>16 DEF ShellFirstFrame, FirstFrame
  <1>17. CASE ShellExit
    BY <1>17 DEF ShellExit, ShellExits, AppReset
  <1>18. CASE CompositorExit
    BY <1>18 DEF CompositorExit, CompositorExits
  <1>19. CASE Logout
    BY <1>19 DEF Logout, Sigterm
  <1>20. CASE WatchdogTick
    BY <1>20 DEF WatchdogTick, Tick, FirstFrameMissing, InSession
  <1>21. CASE WatchdogStep
    BY <1>21 DEF WatchdogStep, OnHealthyTimeout, IsSessionHealthy,
      PromoteBaseline, SaveHealthy, ClearMarker, Stopped, MarkedHealthy,
      DefaultState
  <1>22. CASE AppStep
    BY <1>22 DEF AppStep, AppRuns, Construct, MarkRecoveryUiHealthy,
      ClearLoad, ClearRequest, DefaultsLoad, ClearSave, DefaultsSave,
      MarkedHealthy, DefaultState
  <1>23. CASE AppLeave
    BY <1>23 DEF AppLeave, AppRuns, ExitToDesktop, RestartDesktop, ClearLoad,
      MarkedHealthy
  <1>24. CASE AppChoice
    BY <1>24 DEF AppChoice, AppRuns, ResetToSafeDefaults, RestoreConfig
  <1>25. CASE RecoverydCall
    BY <1>25 DEF RecoverydCall, Called, ReportCrash, TriggerAutoRecovery,
      AutoRecovery, RequestSafeMode, RequestRecoveryPartition,
      ClearRecoveryFlags
  <1>26. CASE RecoverydStep
    BY <1>26 DEF RecoverydStep, AutoLoad, RequestLoad, ClearLoadFlags,
      ForceLoad, ClearMarkerFlag, Escalate, AutoSave, RequestSave,
      ClearSaveFlags, ForceSave, Quiet
  <1>27. CASE RecoverydForceFails
    BY <1>27 DEF RecoverydForceFails, ForceFails
  <1>28. CASE UserSaves
    BY <1>28 DEF UserSaves, Save
  <1>29. CASE PowerLoss
    BY <1>29 DEF PowerLoss, BrokerGone, Stopped, AppReset, RecoverydReset,
      DefaultState
  <1>30. CASE UNCHANGED vars
    BY <1>30 DEF vars
  <1>. QED BY <1>1, <1>2, <1>3, <1>4, <1>5, <1>6, <1>7, <1>8, <1>9, <1>10,
       <1>11, <1>12, <1>13, <1>14, <1>15, <1>16, <1>17, <1>18, <1>19, <1>20,
       <1>21, <1>22, <1>23, <1>24, <1>25, <1>26, <1>27, <1>28, <1>29, <1>30
       DEF Next, BrokerNext, SessionNext, HelperNext

\* A session that was confirmed is never pending again, by whatever interleaving
\* of the processes that rewrite state.json: the next login does not undo it.
THEOREM ConfirmedStays ==
  ASSUME NoRewrites
  PROVE  Spec => []ConfirmedIsKept
  <1>1. TypeOK /\ SafetyInv /\ ConfirmedInv /\ [Next]_vars => ConfirmedInv'
    BY UseTypes, ConfirmedNext
  <1>2. ConfirmedInv => ConfirmedIsKept
    BY DEF ConfirmedInv, ConfirmedIsKept
  <1>. QED BY <1>1, <1>2, ConfirmedInit, TypeCorrect, SafetyHolds, PTL DEF Spec

-----------------------------------------------------------------------------
(* A configuration that was run in vain *)

\* What a normal session ran without drawing stays pending, in the file and in
\* every record that will be saved over it, until the next start undoes it; and
\* once undone, what was undone is not taken up again.
FailedInv ==
  /\ seen.failed # NoSnapshot /\ pc \in {"off", "boot", "select", "prepare", "record", "exit"} =>
       /\ ~seen.drawn /\ st.pending
       /\ rpc \in Saving => rdraft.pending
       /\ pc \in {"boot", "record"} => mst.pending
  /\ mode = "normal" /\ ~seen.drawn /\ pc \in {"launch", "monitor", "promote", "end"} =>
       /\ st.pending
       /\ rpc \in Saving => rdraft.pending
       /\ pc = "launch" => mst.pending
  /\ seen.failed # NoSnapshot =>
       /\ pc \in {"boot", "select"} => store.prev = Absent \/ store.active = store.prev
       /\ pc \in {"prepare", "launch"} /\ mode = "normal" =>
            store.prev \notin Valid \/ store.prev = plan

LEMMA FailedInit == Init => FailedInv
  <1>. SUFFICES ASSUME Init PROVE FailedInv
    OBVIOUS
  <1>1. pc = "off" /\ rpc = "idle"
    BY DEF Init, NoBroker, NoReports
  <1>2. seen.failed = NoSnapshot
    BY DEF Init
  <1>. QED BY <1>1, <1>2 DEF FailedInv

LEMMA FailedNext ==
  ASSUME SafetyTypes, SafetyInv, pc \in Label, store \in Store, plan \in Content,
         FailedInv, [Next]_vars
  PROVE  FailedInv'
  <1>. USE LoginAssumption DEF SafetyTypes, SafetyInv, HelpersRest,
         EvidenceIsDrawn, HealthyIsDrawn, FailedInv, Starting, Running,
         Saving, Chosen, SessionState, History, Others, watchdogVars, appVars,
         recoverydVars, brokerVars, sharedVars, childVars, boundVars, Outcome
  <1>1. CASE BrokerStart
    <2>1. ASSUME seen.failed # NoSnapshot
          PROVE  store'.prev = Absent \/ store'.active = store'.prev
      <3>1. st.pending /\ st.status # "healthy"
        BY <1>1, <2>1 DEF BrokerStart, Start
      <3>2. store' = IF HasPrevious(store) THEN RollbackToPrevious(store) ELSE store
        BY <1>1, <3>1 DEF BrokerStart, Start
      <3>. QED BY <3>2 DEF RollbackToPrevious, HasPrevious, Store
    <2>. QED BY <1>1, <2>1 DEF BrokerStart, Start
  <1>2. CASE BrokerCountBoot
    BY <1>2 DEF BrokerCountBoot, CountBoot
  <1>3. CASE BrokerSelectMode
    <2>1. /\ store' = RolledBack(mode', Load(store)) /\ plan' = ReadFile(store'.active)
          /\ pc = "select" /\ pc' = "prepare" /\ seen' = seen /\ st' = st
          /\ rpc' = rpc /\ rdraft' = rdraft /\ mst' = mst
      BY <1>3 DEF BrokerSelectMode, SelectMode
    <2>2. ASSUME mode' = "normal", store.prev = Absent \/ store.active = store.prev
          PROVE  store'.prev \notin Valid \/ store'.prev = plan'
      <3>1. store' = Load(store)
        BY <2>1, <2>2 DEF RolledBack
      <3>2. store'.prev = store.prev /\ store'.active = LoadChoice(store)
        BY <3>1 DEF Load, Store
      <3>. QED BY <2>1, <2>2, <3>2, StoreAssumption DEF LoadChoice, ReadFile
    <2>. QED BY <2>1, <2>2
  <1>4. CASE BrokerPrepare
    BY <1>4 DEF BrokerPrepare, Prepare
  <1>5. CASE BrokerLaunchFails
    BY <1>5 DEF BrokerLaunchFails, LaunchFails
  <1>6. CASE BrokerLaunchStack
    BY <1>6 DEF BrokerLaunchStack, LaunchStack, StackUp, Arm, AppLaunched
  <1>7. CASE BrokerPromotes
    BY <1>7 DEF BrokerPromotes, AdoptHealthy, PromoteLoad, PromoteSave,
      AlreadyHealthy, MarkedHealthy
  <1>8. CASE BrokerRestartStack
    BY <1>8 DEF BrokerRestartStack, RestartStack, StackUp, Arm, InSession
  <1>9. CASE BrokerRestartStackFails
    BY <1>9 DEF BrokerRestartStackFails, RestartStackFails, Leave, Stopped,
      InSession
  <1>10. CASE BrokerShellRestartFails
    BY <1>10 DEF BrokerShellRestartFails, ShellRestartFails, Leave, InSession
  <1>11. CASE BrokerMonitor
    BY <1>11 DEF BrokerMonitor, MonitorTerminate, CompositorFinished,
      ShellCrash, RestartShell, RecoveryShellEnded, Leave, InSession
  <1>12. CASE BrokerFirstFrameTimeout
    BY <1>12 DEF BrokerFirstFrameTimeout, FirstFrameTimeout,
      FirstFrameMissing, Leave, InSession
  <1>13. CASE BrokerEndLoad
    BY <1>13 DEF BrokerEndLoad, EndLoad
  <1>14. CASE BrokerEndSave
    BY <1>14 DEF BrokerEndSave, EndSave
  <1>15. CASE BrokerExit
    BY <1>15 DEF BrokerExit, Exit, BrokerGone, Stopped, AppReset, DefaultState
  <1>16. CASE ShellFirstFrame
    BY <1>16 DEF ShellFirstFrame, FirstFrame
  <1>17. CASE ShellExit
    BY <1>17 DEF ShellExit, ShellExits, AppReset
  <1>18. CASE CompositorExit
    BY <1>18 DEF CompositorExit, CompositorExits
  <1>19. CASE Logout
    BY <1>19 DEF Logout, Sigterm
  <1>20. CASE WatchdogTick
    BY <1>20 DEF WatchdogTick, Tick, FirstFrameMissing, InSession
  <1>21. CASE WatchdogStep
    BY <1>21 DEF WatchdogStep, OnHealthyTimeout, IsSessionHealthy,
      PromoteBaseline, SaveHealthy, ClearMarker, Stopped, MarkedHealthy,
      DefaultState
  <1>22. CASE AppStep
    BY <1>22 DEF AppStep, AppRuns, Construct, MarkRecoveryUiHealthy,
      ClearLoad, ClearRequest, DefaultsLoad, ClearSave, DefaultsSave,
      MarkedHealthy, DefaultState
  <1>23. CASE AppLeave
    BY <1>23 DEF AppLeave, AppRuns, ExitToDesktop, RestartDesktop, ClearLoad,
      MarkedHealthy
  <1>24. CASE AppChoice
    BY <1>24 DEF AppChoice, AppRuns, ResetToSafeDefaults, RestoreConfig
  <1>25. CASE RecoverydCall
    BY <1>25 DEF RecoverydCall, Called, ReportCrash, TriggerAutoRecovery,
      AutoRecovery, RequestSafeMode, RequestRecoveryPartition,
      ClearRecoveryFlags
  <1>26. CASE RecoverydStep
    BY <1>26 DEF RecoverydStep, AutoLoad, RequestLoad, ClearLoadFlags,
      ForceLoad, ClearMarkerFlag, Escalate, AutoSave, RequestSave,
      ClearSaveFlags, ForceSave, Quiet
  <1>27. CASE RecoverydForceFails
    BY <1>27 DEF RecoverydForceFails, ForceFails
  <1>28. CASE UserSaves
    BY <1>28 DEF UserSaves, Save
  <1>29. CASE PowerLoss
    <2>1. /\ pc' = "off" /\ rpc' = "idle" /\ st' = st /\ seen'.drawn = seen.drawn
          /\ seen'.failed = IF pc \in {"launch", "monitor", "promote", "end"}
                             THEN Outcome ELSE seen.failed
      BY <1>29 DEF PowerLoss, BrokerGone, RecoverydReset
    <2>2. pc \in Label
      OBVIOUS
    <2>. QED BY <2>1, <2>2 DEF Label
  <1>30. CASE UNCHANGED vars
    BY <1>30 DEF vars
  <1>. QED BY <1>1, <1>2, <1>3, <1>4, <1>5, <1>6, <1>7, <1>8, <1>9, <1>10,
       <1>11, <1>12, <1>13, <1>14, <1>15, <1>16, <1>17, <1>18, <1>19, <1>20,
       <1>21, <1>22, <1>23, <1>24, <1>25, <1>26, <1>27, <1>28, <1>29, <1>30
       DEF Next, BrokerNext, SessionNext, HelperNext

\* After a normal session that drew nothing the next normal session runs the
\* previous configuration if there is a valid one, whoever has called the recovery
\* daemon meanwhile and wherever the session or the machine was stopped.
THEOREM FailureIsUndone == Spec => []FailedNotRepeated
  <1>. USE DEF TypeOK, SharedTypeOK, BrokerTypeOK
  <1>1. TypeOK /\ SafetyInv /\ FailedInv /\ [Next]_vars => FailedInv'
    BY UseTypes, FailedNext
  <1>2. TypeOK /\ FailedInv => FailedNotRepeated
    <2>1. plan \in Content => Runs(plan) # NoSnapshot
      BY LoginAssumption, StoreAssumption DEF Runs, Content
    <2>. QED BY <2>1 DEF FailedInv, FailedNotRepeated
  <1>. QED BY <1>1, <1>2, FailedInit, TypeCorrect, SafetyHolds, PTL DEF Spec

-----------------------------------------------------------------------------
(* Safe mode that was asked for *)

\* A request that nobody was about to overwrite is in the file, in the broker's
\* copy of it and in the record of any other call of the recovery daemon.
SafeModeInv ==
  /\ rpc \in {"auto.save", "request.save"} => rdraft.forced
  /\ seen.asked = "quiet" =>
       st.forced /\ (pc \in {"boot", "select", "prepare", "launch", "record"} => mst.forced)
  /\ Chosen /\ mst.forced => mode # "normal"

LEMMA SafeModeInit == Init => SafeModeInv
  BY DEF Init, SafeModeInv, NoBroker, NoReports, Chosen

LEMMA SafeModeNext ==
  ASSUME SafetyTypes, SafetyInv, SafeModeInv, [Next]_vars
  PROVE  SafeModeInv'
  <1>. USE LoginAssumption DEF SafetyTypes, SafetyInv, HelpersRest,
         EvidenceIsDrawn, HealthyIsDrawn, SafeModeInv, Starting, Running,
         Saving, Chosen, SessionState, History, Others, watchdogVars, appVars,
         recoverydVars, brokerVars, sharedVars, childVars, boundVars
  <1>1. CASE BrokerStart
    BY <1>1 DEF BrokerStart, Start
  <1>2. CASE BrokerCountBoot
    BY <1>2 DEF BrokerCountBoot, CountBoot
  <1>3. CASE BrokerSelectMode
    BY <1>3 DEF BrokerSelectMode, SelectMode, EvaluateMode
  <1>4. CASE BrokerPrepare
    BY <1>4 DEF BrokerPrepare, Prepare
  <1>5. CASE BrokerLaunchFails
    BY <1>5 DEF BrokerLaunchFails, LaunchFails
  <1>6. CASE BrokerLaunchStack
    BY <1>6 DEF BrokerLaunchStack, LaunchStack, StackUp, Arm, AppLaunched
  <1>7. CASE BrokerPromotes
    BY <1>7 DEF BrokerPromotes, AdoptHealthy, PromoteLoad, PromoteSave,
      AlreadyHealthy, MarkedHealthy
  <1>8. CASE BrokerRestartStack
    BY <1>8 DEF BrokerRestartStack, RestartStack, StackUp, Arm, InSession
  <1>9. CASE BrokerRestartStackFails
    BY <1>9 DEF BrokerRestartStackFails, RestartStackFails, Leave, Stopped,
      InSession
  <1>10. CASE BrokerShellRestartFails
    BY <1>10 DEF BrokerShellRestartFails, ShellRestartFails, Leave, InSession
  <1>11. CASE BrokerMonitor
    BY <1>11 DEF BrokerMonitor, MonitorTerminate, CompositorFinished,
      ShellCrash, RestartShell, RecoveryShellEnded, Leave, InSession
  <1>12. CASE BrokerFirstFrameTimeout
    BY <1>12 DEF BrokerFirstFrameTimeout, FirstFrameTimeout,
      FirstFrameMissing, Leave, InSession
  <1>13. CASE BrokerEndLoad
    BY <1>13 DEF BrokerEndLoad, EndLoad
  <1>14. CASE BrokerEndSave
    BY <1>14 DEF BrokerEndSave, EndSave
  <1>15. CASE BrokerExit
    BY <1>15 DEF BrokerExit, Exit, BrokerGone, Stopped, AppReset, DefaultState
  <1>16. CASE ShellFirstFrame
    BY <1>16 DEF ShellFirstFrame, FirstFrame
  <1>17. CASE ShellExit
    BY <1>17 DEF ShellExit, ShellExits, AppReset
  <1>18. CASE CompositorExit
    BY <1>18 DEF CompositorExit, CompositorExits
  <1>19. CASE Logout
    BY <1>19 DEF Logout, Sigterm
  <1>20. CASE WatchdogTick
    BY <1>20 DEF WatchdogTick, Tick, FirstFrameMissing, InSession
  <1>21. CASE WatchdogStep
    BY <1>21 DEF WatchdogStep, OnHealthyTimeout, IsSessionHealthy,
      PromoteBaseline, SaveHealthy, ClearMarker, Stopped, MarkedHealthy,
      DefaultState
  <1>22. CASE AppStep
    BY <1>22 DEF AppStep, AppRuns, Construct, MarkRecoveryUiHealthy,
      ClearLoad, ClearRequest, DefaultsLoad, ClearSave, DefaultsSave,
      MarkedHealthy, DefaultState
  <1>23. CASE AppLeave
    BY <1>23 DEF AppLeave, AppRuns, ExitToDesktop, RestartDesktop, ClearLoad,
      MarkedHealthy
  <1>24. CASE AppChoice
    BY <1>24 DEF AppChoice, AppRuns, ResetToSafeDefaults, RestoreConfig
  <1>25. CASE RecoverydCall
    BY <1>25 DEF RecoverydCall, Called, ReportCrash, TriggerAutoRecovery,
      AutoRecovery, RequestSafeMode, RequestRecoveryPartition,
      ClearRecoveryFlags
  <1>26. CASE RecoverydStep
    BY <1>26 DEF RecoverydStep, AutoLoad, RequestLoad, ClearLoadFlags,
      ForceLoad, ClearMarkerFlag, Escalate, AutoSave, RequestSave,
      ClearSaveFlags, ForceSave, Quiet
  <1>27. CASE RecoverydForceFails
    BY <1>27 DEF RecoverydForceFails, ForceFails
  <1>28. CASE UserSaves
    BY <1>28 DEF UserSaves, Save
  <1>29. CASE PowerLoss
    BY <1>29 DEF PowerLoss, BrokerGone, Stopped, AppReset, RecoverydReset,
      DefaultState
  <1>30. CASE UNCHANGED vars
    BY <1>30 DEF vars
  <1>. QED BY <1>1, <1>2, <1>3, <1>4, <1>5, <1>6, <1>7, <1>8, <1>9, <1>10,
       <1>11, <1>12, <1>13, <1>14, <1>15, <1>16, <1>17, <1>18, <1>19, <1>20,
       <1>21, <1>22, <1>23, <1>24, <1>25, <1>26, <1>27, <1>28, <1>29, <1>30
       DEF Next, BrokerNext, SessionNext, HelperNext

\* Safe mode forced by the recovery daemon reaches the next session, for any
\* calls to the daemon and any faults of the session in between.
THEOREM SafeModeArrives == Spec => []SafeModeSurvives
  <1>1. TypeOK /\ SafetyInv /\ SafeModeInv /\ [Next]_vars => SafeModeInv'
    BY UseTypes, SafeModeNext
  <1>2. SafeModeInv => SafeModeSurvives
    BY DEF SafeModeInv, SafeModeSurvives, Chosen
  <1>. QED BY <1>1, <1>2, SafeModeInit, TypeCorrect, SafetyHolds, PTL DEF Spec

-----------------------------------------------------------------------------
(* The ledger of boots *)

\* Nobody forces safe mode, and what the watchdog and the recovery application
\* are about to save has paid its boot.
UnforcedInv ==
  /\ rpc = "idle" /\ ~st.forced /\ ~mst.forced
  /\ wpc \in {"baseline", "save"} => wdraft.count = 0 /\ ~wdraft.forced
  /\ apc \in {"clear.save", "defaults.save"} => adraft.count = 0 /\ ~adraft.forced

\* The broker's copy of the count is the one in the file, except at the end of a
\* recovery session that was confirmed in between.  In a normal or safe session
\* the watchdog's timer runs out after the broker has promoted or given up.
TallyInv ==
  /\ pc \in {"boot", "select", "prepare", "launch"} => mst.count = st.count
  /\ pc = "record" /\ mst.count # st.count => st.count = 0 /\ seen.drawn /\ mode = "recovery"
  /\ wpc = "off" => age = 0
  /\ pc \in {"select", "prepare", "launch"} => st.status # "healthy" /\ mst.status # "healthy"
  /\ pc = "promote" => mode # "recovery"
  /\ mode # "recovery" /\ ~promoted /\ pc \in {"monitor", "end", "record"} =>
       /\ wpc \in {"off", "armed"} /\ (pc = "monitor" => age < 2 /\ st.status # "healthy")
  /\ mode # "recovery" /\ promoted /\ pc \in {"monitor", "end", "record"} =>
       st.count = 0 /\ (pc = "record" => mst.count = 0)

LEMMA UnforcedInit == Init => UnforcedInv
  BY DEF Init, UnforcedInv, NoBroker, NoWatchdog, NoApp, NoReports, DefaultState

LEMMA TallyInit == Init => TallyInv
  BY DEF Init, TallyInv, NoBroker, NoWatchdog, DefaultState

LEMMA UnforcedNext ==
  ASSUME SafetyTypes, SafetyInv, NoRewrites, UnforcedInv, [Next]_vars
  PROVE  UnforcedInv'
  <1>. USE LoginAssumption DEF SafetyTypes, SafetyInv, HelpersRest,
         EvidenceIsDrawn, HealthyIsDrawn, UnforcedInv, Starting, Running,
         Saving, Chosen, SessionState, History, Others, watchdogVars, appVars,
         recoverydVars, brokerVars, sharedVars, childVars, boundVars,
         NoRewrites
  <1>1. CASE BrokerStart
    BY <1>1 DEF BrokerStart, Start
  <1>2. CASE BrokerCountBoot
    BY <1>2 DEF BrokerCountBoot, CountBoot
  <1>3. CASE BrokerSelectMode
    BY <1>3 DEF BrokerSelectMode, SelectMode, EvaluateMode
  <1>4. CASE BrokerPrepare
    BY <1>4 DEF BrokerPrepare, Prepare
  <1>5. CASE BrokerLaunchFails
    BY <1>5 DEF BrokerLaunchFails, LaunchFails
  <1>6. CASE BrokerLaunchStack
    BY <1>6 DEF BrokerLaunchStack, LaunchStack, StackUp, Arm, AppLaunched
  <1>7. CASE BrokerPromotes
    <2>1. CASE AdoptHealthy \/ PromoteLoad
      BY <1>7, <2>1 DEF BrokerPromotes, AdoptHealthy, PromoteLoad
    <2>2. CASE PromoteSave
      <3>1. ~st'.forced /\ mst' = st'
        BY <2>2 DEF PromoteSave, MarkedHealthy
      <3>. QED BY <1>7, <2>2, <3>1 DEF BrokerPromotes, PromoteSave
    <2>. QED BY <1>7, <2>1, <2>2 DEF BrokerPromotes
  <1>8. CASE BrokerRestartStack
    BY <1>8 DEF BrokerRestartStack, RestartStack, StackUp, Arm, InSession
  <1>9. CASE BrokerRestartStackFails
    BY <1>9 DEF BrokerRestartStackFails, RestartStackFails, Leave, Stopped,
      InSession
  <1>10. CASE BrokerShellRestartFails
    BY <1>10 DEF BrokerShellRestartFails, ShellRestartFails, Leave, InSession
  <1>11. CASE BrokerMonitor
    BY <1>11 DEF BrokerMonitor, MonitorTerminate, CompositorFinished,
      ShellCrash, RestartShell, RecoveryShellEnded, Leave, InSession
  <1>12. CASE BrokerFirstFrameTimeout
    BY <1>12 DEF BrokerFirstFrameTimeout, FirstFrameTimeout,
      FirstFrameMissing, Leave, InSession
  <1>13. CASE BrokerEndLoad
    BY <1>13 DEF BrokerEndLoad, EndLoad
  <1>14. CASE BrokerEndSave
    BY <1>14 DEF BrokerEndSave, EndSave
  <1>15. CASE BrokerExit
    BY <1>15 DEF BrokerExit, Exit, BrokerGone, Stopped, AppReset, DefaultState
  <1>16. CASE ShellFirstFrame
    BY <1>16 DEF ShellFirstFrame, FirstFrame
  <1>17. CASE ShellExit
    BY <1>17 DEF ShellExit, ShellExits, AppReset
  <1>18. CASE CompositorExit
    BY <1>18 DEF CompositorExit, CompositorExits
  <1>19. CASE Logout
    BY <1>19 DEF Logout, Sigterm
  <1>20. CASE WatchdogTick
    BY <1>20 DEF WatchdogTick, Tick, FirstFrameMissing, InSession
  <1>21. CASE WatchdogStep
    BY <1>21 DEF WatchdogStep, OnHealthyTimeout, IsSessionHealthy,
      PromoteBaseline, SaveHealthy, ClearMarker, Stopped, MarkedHealthy,
      DefaultState
  <1>22. CASE AppStep
    BY <1>22 DEF AppStep, AppRuns, Construct, MarkRecoveryUiHealthy,
      ClearLoad, ClearRequest, DefaultsLoad, ClearSave, DefaultsSave,
      MarkedHealthy, DefaultState
  <1>23. CASE AppLeave
    BY <1>23 DEF AppLeave, AppRuns, ExitToDesktop, RestartDesktop, ClearLoad,
      MarkedHealthy
  <1>24. CASE AppChoice
    BY <1>24 DEF AppChoice, AppRuns, ResetToSafeDefaults, RestoreConfig
  <1>25. CASE RecoverydCall
    BY <1>25 DEF RecoverydCall, Called, ReportCrash, TriggerAutoRecovery,
      AutoRecovery, RequestSafeMode, RequestRecoveryPartition,
      ClearRecoveryFlags
  <1>26. CASE RecoverydStep
    BY <1>26 DEF RecoverydStep, AutoLoad, RequestLoad, ClearLoadFlags,
      ForceLoad, ClearMarkerFlag, Escalate, AutoSave, RequestSave,
      ClearSaveFlags, ForceSave, Quiet
  <1>27. CASE RecoverydForceFails
    BY <1>27 DEF RecoverydForceFails, ForceFails
  <1>28. CASE UserSaves
    BY <1>28 DEF UserSaves, Save
  <1>29. CASE PowerLoss
    BY <1>29 DEF PowerLoss, BrokerGone, Stopped, AppReset, RecoverydReset,
      DefaultState
  <1>30. CASE UNCHANGED vars
    BY <1>30 DEF vars
  <1>. QED BY <1>1, <1>2, <1>3, <1>4, <1>5, <1>6, <1>7, <1>8, <1>9, <1>10,
       <1>11, <1>12, <1>13, <1>14, <1>15, <1>16, <1>17, <1>18, <1>19, <1>20,
       <1>21, <1>22, <1>23, <1>24, <1>25, <1>26, <1>27, <1>28, <1>29, <1>30
       DEF Next, BrokerNext, SessionNext, HelperNext

LEMMA TallyNext ==
  ASSUME SafetyTypes, SafetyInv, UnforcedInv, NoRewrites, TallyInv, [Next]_vars
  PROVE  TallyInv'
  <1>. USE LoginAssumption DEF SafetyTypes, SafetyInv, HelpersRest,
         EvidenceIsDrawn, HealthyIsDrawn, TallyInv, Starting, Running, Saving,
         Chosen, SessionState, History, Others, watchdogVars, appVars,
         recoverydVars, brokerVars, sharedVars, childVars, boundVars,
         UnforcedInv, NoRewrites
  <1>1. CASE BrokerStart
    BY <1>1 DEF BrokerStart, Start
  <1>2. CASE BrokerCountBoot
    BY <1>2 DEF BrokerCountBoot, CountBoot
  <1>3. CASE BrokerSelectMode
    BY <1>3 DEF BrokerSelectMode, SelectMode, EvaluateMode
  <1>4. CASE BrokerPrepare
    BY <1>4 DEF BrokerPrepare, Prepare
  <1>5. CASE BrokerLaunchFails
    BY <1>5 DEF BrokerLaunchFails, LaunchFails
  <1>6. CASE BrokerLaunchStack
    BY <1>6 DEF BrokerLaunchStack, LaunchStack, StackUp, Arm, AppLaunched
  <1>7. CASE BrokerPromotes
    BY <1>7 DEF BrokerPromotes, AdoptHealthy, PromoteLoad, PromoteSave,
      AlreadyHealthy, MarkedHealthy
  <1>8. CASE BrokerRestartStack
    BY <1>8 DEF BrokerRestartStack, RestartStack, StackUp, Arm, InSession
  <1>9. CASE BrokerRestartStackFails
    BY <1>9 DEF BrokerRestartStackFails, RestartStackFails, Leave, Stopped,
      InSession
  <1>10. CASE BrokerShellRestartFails
    BY <1>10 DEF BrokerShellRestartFails, ShellRestartFails, Leave, InSession
  <1>11. CASE BrokerMonitor
    BY <1>11 DEF BrokerMonitor, MonitorTerminate, CompositorFinished,
      ShellCrash, RestartShell, RecoveryShellEnded, Leave, InSession
  <1>12. CASE BrokerFirstFrameTimeout
    BY <1>12 DEF BrokerFirstFrameTimeout, FirstFrameTimeout,
      FirstFrameMissing, Leave, InSession
  <1>13. CASE BrokerEndLoad
    BY <1>13 DEF BrokerEndLoad, EndLoad
  <1>14. CASE BrokerEndSave
    BY <1>14 DEF BrokerEndSave, EndSave
  <1>15. CASE BrokerExit
    BY <1>15 DEF BrokerExit, Exit, BrokerGone, Stopped, AppReset, DefaultState
  <1>16. CASE ShellFirstFrame
    BY <1>16 DEF ShellFirstFrame, FirstFrame
  <1>17. CASE ShellExit
    BY <1>17 DEF ShellExit, ShellExits, AppReset
  <1>18. CASE CompositorExit
    BY <1>18 DEF CompositorExit, CompositorExits
  <1>19. CASE Logout
    BY <1>19 DEF Logout, Sigterm
  <1>20. CASE WatchdogTick
    BY <1>20 DEF WatchdogTick, Tick, FirstFrameMissing, InSession
  <1>21. CASE WatchdogStep
    <2>1. ASSUME NEW stable \in BOOLEAN, OnHealthyTimeout(stable, shell = "running")
          PROVE  TallyInv'
      BY <1>21, <2>1 DEF WatchdogStep, OnHealthyTimeout, IsSessionHealthy, Stopped
    <2>2. CASE PromoteBaseline
      BY <1>21, <2>2 DEF WatchdogStep, PromoteBaseline
    <2>3. CASE ClearMarker
      BY <1>21, <2>3 DEF WatchdogStep, ClearMarker, Stopped
    <2>4. CASE SaveHealthy
      BY <1>21, <2>4 DEF WatchdogStep, SaveHealthy
    <2>. QED BY <1>21, <2>1, <2>2, <2>3, <2>4 DEF WatchdogStep
  <1>22. CASE AppStep
    BY <1>22 DEF AppStep, AppRuns, Construct, MarkRecoveryUiHealthy,
      ClearLoad, ClearRequest, DefaultsLoad, ClearSave, DefaultsSave,
      MarkedHealthy, DefaultState
  <1>23. CASE AppLeave
    BY <1>23 DEF AppLeave, AppRuns, ExitToDesktop, RestartDesktop, ClearLoad,
      MarkedHealthy
  <1>24. CASE AppChoice
    BY <1>24 DEF AppChoice, AppRuns, ResetToSafeDefaults, RestoreConfig
  <1>25. CASE RecoverydCall
    BY <1>25 DEF RecoverydCall, Called, ReportCrash, TriggerAutoRecovery,
      AutoRecovery, RequestSafeMode, RequestRecoveryPartition,
      ClearRecoveryFlags
  <1>26. CASE RecoverydStep
    BY <1>26 DEF RecoverydStep, AutoLoad, RequestLoad, ClearLoadFlags,
      ForceLoad, ClearMarkerFlag, Escalate, AutoSave, RequestSave,
      ClearSaveFlags, ForceSave, Quiet
  <1>27. CASE RecoverydForceFails
    BY <1>27 DEF RecoverydForceFails, ForceFails
  <1>28. CASE UserSaves
    BY <1>28 DEF UserSaves, Save
  <1>29. CASE PowerLoss
    BY <1>29 DEF PowerLoss, BrokerGone, Stopped, AppReset, RecoverydReset,
      DefaultState
  <1>30. CASE UNCHANGED vars
    BY <1>30 DEF vars
  <1>. QED BY <1>1, <1>2, <1>3, <1>4, <1>5, <1>6, <1>7, <1>8, <1>9, <1>10,
       <1>11, <1>12, <1>13, <1>14, <1>15, <1>16, <1>17, <1>18, <1>19, <1>20,
       <1>21, <1>22, <1>23, <1>24, <1>25, <1>26, <1>27, <1>28, <1>29, <1>30
       DEF Next, BrokerNext, SessionNext, HelperNext

LEMMA LedgerInit == Init => Ledger!Init
  <1>. SUFFICES ASSUME Init PROVE Ledger!Init
    OBVIOUS
  <1>1. st.count = 0
    BY DEF Init, DefaultState
  <1>2. pc = "off" /\ seen.drawn = FALSE /\ mode = "normal"
    BY DEF Init, NoBroker
  <1>. QED BY <1>1, <1>2 DEF Ledger!Init

\* Every step of the stack counts a boot, chooses a mode, draws, settles, lapses
\* or leaves, or is none of the ledger's.
LEMMA LedgerNext ==
  ASSUME SafetyTypes, SafetyInv, TallyInv', SafetyInv', UnforcedInv, NoRewrites,
         pc \in Label, mode \in Mode, requested \in Mode, TallyInv, [Next]_vars
  PROVE  [Ledger!Next]_(Ledger!ledgerVars)
  <1>. USE LoginAssumption DEF SafetyTypes, SafetyInv, HelpersRest,
         EvidenceIsDrawn, HealthyIsDrawn, TallyInv, Starting, Running, Saving,
         Chosen, SessionState, History, Others, watchdogVars, appVars,
         recoverydVars, brokerVars, sharedVars, childVars, boundVars,
         UnforcedInv, NoRewrites, Ledger!Next, Ledger!Count, Ledger!Choose,
         Ledger!Draw, Ledger!Settle, Ledger!Lapse, Ledger!Leave,
         Ledger!ledgerVars
  <1>1. CASE BrokerStart
    BY <1>1 DEF BrokerStart, Start
  <1>2. CASE BrokerCountBoot
    BY <1>2 DEF BrokerCountBoot, CountBoot
  <1>3. CASE BrokerSelectMode
    <2>1. /\ mode' \in {"normal", "safe", "recovery"}
          /\ mst.count >= CrashLoopThreshold => mode' = "recovery"
      BY <1>3 DEF BrokerSelectMode, SelectMode, EvaluateMode, Mode
    <2>2. pc = "select" /\ pc' = "prepare" /\ UNCHANGED <<st, seen>>
      BY <1>3 DEF BrokerSelectMode, SelectMode
    <2>3. st.count = mst.count
      BY <2>2
    <2>4. Ledger!Choose
      BY <2>1, <2>2, <2>3
    <2>. QED BY <2>4
  <1>4. CASE BrokerPrepare
    BY <1>4 DEF BrokerPrepare, Prepare
  <1>5. CASE BrokerLaunchFails
    BY <1>5 DEF BrokerLaunchFails, LaunchFails
  <1>6. CASE BrokerLaunchStack
    BY <1>6 DEF BrokerLaunchStack, LaunchStack, StackUp, Arm, AppLaunched
  <1>7. CASE BrokerPromotes
    BY <1>7 DEF BrokerPromotes, AdoptHealthy, PromoteLoad, PromoteSave,
      AlreadyHealthy, MarkedHealthy
  <1>8. CASE BrokerRestartStack
    BY <1>8 DEF BrokerRestartStack, RestartStack, StackUp, Arm, InSession
  <1>9. CASE BrokerRestartStackFails
    BY <1>9 DEF BrokerRestartStackFails, RestartStackFails, Leave, Stopped,
      InSession
  <1>10. CASE BrokerShellRestartFails
    BY <1>10 DEF BrokerShellRestartFails, ShellRestartFails, Leave, InSession
  <1>11. CASE BrokerMonitor
    BY <1>11 DEF BrokerMonitor, MonitorTerminate, CompositorFinished,
      ShellCrash, RestartShell, RecoveryShellEnded, Leave, InSession
  <1>12. CASE BrokerFirstFrameTimeout
    BY <1>12 DEF BrokerFirstFrameTimeout, FirstFrameTimeout,
      FirstFrameMissing, Leave, InSession
  <1>13. CASE BrokerEndLoad
    BY <1>13 DEF BrokerEndLoad, EndLoad
  <1>14. CASE BrokerEndSave
    BY <1>14 DEF BrokerEndSave, EndSave
  <1>15. CASE BrokerExit
    BY <1>15 DEF BrokerExit, Exit, BrokerGone, Stopped, AppReset, DefaultState
  <1>16. CASE ShellFirstFrame
    BY <1>16 DEF ShellFirstFrame, FirstFrame
  <1>17. CASE ShellExit
    BY <1>17 DEF ShellExit, ShellExits, AppReset
  <1>18. CASE CompositorExit
    BY <1>18 DEF CompositorExit, CompositorExits
  <1>19. CASE Logout
    BY <1>19 DEF Logout, Sigterm
  <1>20. CASE WatchdogTick
    BY <1>20 DEF WatchdogTick, Tick, FirstFrameMissing, InSession
  <1>21. CASE WatchdogStep
    BY <1>21 DEF WatchdogStep, OnHealthyTimeout, IsSessionHealthy,
      PromoteBaseline, SaveHealthy, ClearMarker, Stopped, MarkedHealthy,
      DefaultState
  <1>22. CASE AppStep
    BY <1>22 DEF AppStep, AppRuns, Construct, MarkRecoveryUiHealthy,
      ClearLoad, ClearRequest, DefaultsLoad, ClearSave, DefaultsSave,
      MarkedHealthy, DefaultState
  <1>23. CASE AppLeave
    BY <1>23 DEF AppLeave, AppRuns, ExitToDesktop, RestartDesktop, ClearLoad,
      MarkedHealthy
  <1>24. CASE AppChoice
    BY <1>24 DEF AppChoice, AppRuns, ResetToSafeDefaults, RestoreConfig
  <1>25. CASE RecoverydCall
    BY <1>25 DEF RecoverydCall, Called, ReportCrash, TriggerAutoRecovery,
      AutoRecovery, RequestSafeMode, RequestRecoveryPartition,
      ClearRecoveryFlags
  <1>26. CASE RecoverydStep
    BY <1>26 DEF RecoverydStep, AutoLoad, RequestLoad, ClearLoadFlags,
      ForceLoad, ClearMarkerFlag, Escalate, AutoSave, RequestSave,
      ClearSaveFlags, ForceSave, Quiet
  <1>27. CASE RecoverydForceFails
    BY <1>27 DEF RecoverydForceFails, ForceFails
  <1>28. CASE UserSaves
    BY <1>28 DEF UserSaves, Save
  <1>29. CASE PowerLoss
    BY <1>29 DEF PowerLoss, BrokerGone, Stopped, AppReset, RecoverydReset,
      DefaultState
  <1>30. CASE UNCHANGED vars
    BY <1>30 DEF vars
  <1>. QED BY <1>1, <1>2, <1>3, <1>4, <1>5, <1>6, <1>7, <1>8, <1>9, <1>10,
       <1>11, <1>12, <1>13, <1>14, <1>15, <1>16, <1>17, <1>18, <1>19, <1>20,
       <1>21, <1>22, <1>23, <1>24, <1>25, <1>26, <1>27, <1>28, <1>29, <1>30
       DEF Next, BrokerNext, SessionNext, HelperNext

\* The files and the processes keep the ledger of boots: the login stack
\* implements BootLedger.
THEOREM LedgerIsKept ==
  ASSUME NoRewrites
  PROVE  Spec => KeepsLedger
  <1>. USE DEF TypeOK, SharedTypeOK, BrokerTypeOK
  <1>1. TypeOK /\ SafetyInv /\ UnforcedInv /\ [Next]_vars => UnforcedInv'
    BY UseTypes, UnforcedNext
  <1>2. TypeOK /\ SafetyInv /\ UnforcedInv /\ TallyInv /\ [Next]_vars => TallyInv'
    BY UseTypes, TallyNext
  <1>3. TypeOK /\ SafetyInv /\ UnforcedInv /\ TallyInv /\ SafetyInv' /\ TallyInv'
        /\ [Next]_vars
        => [Ledger!Next]_(Ledger!ledgerVars)
    BY UseTypes, LedgerNext
  <1>. QED
    BY <1>1, <1>2, <1>3, UnforcedInit, TallyInit, LedgerInit, TypeCorrect,
       SafetyHolds, PTL DEF Spec, KeepsLedger, Ledger!Spec

-----------------------------------------------------------------------------
(* The safe baseline *)

\* Of the recovery daemon's methods, those that leave the configuration alone: a
\* rollback inside a session changes what the watchdog then takes as the baseline.
NoRollbackCalls == Call \cap {"ReportCrash", "TriggerAutoRecovery"} = {}

\* Where a process loads the configuration inside a session, load() finds the
\* active or the safe file valid, or no previous configuration to fall back on:
\* it does not turn to one that may never have run.
LoadsWhatRan ==
  (wpc = "baseline" \/ apc = "new") =>
    store.active \in Valid \/ store.safe \in Valid \/ store.prev \notin Valid

SawGood(snapshot) == snapshot \in seen.shown \cup {NoSnapshot}

\* Every record of state.json, saved or not, names a snapshot that has drawn.
ShownInv ==
  /\ Default \in seen.shown
  /\ SawGood(st.good) /\ SawGood(mst.good) /\ SawGood(draft.good)
  /\ SawGood(wdraft.good) /\ SawGood(adraft.good) /\ SawGood(rdraft.good)

FilesInv == store.safe \in seen.shown \cup {Absent}

\* The active file is what the session runs, or something that has drawn before,
\* wherever somebody can still make a baseline of it.
RanInv ==
  /\ pc = "promote" => mode # "recovery"
  /\ pc \in {"select", "prepare", "launch"} => ~seen.drawn
  /\ pc \notin Starting /\ seen.drawn => plan \in seen.shown
  /\ \/ pc \in {"prepare", "launch"}
     \/ pc \notin Starting /\ (mode # "recovery" \/ wpc # "off")
     => store.active \in {plan} \cup seen.shown

BaselineInv == ShownInv /\ FilesInv /\ RanInv

LEMMA BaselineInit == Init => BaselineInv
  <1>. SUFFICES ASSUME Init PROVE BaselineInv
    OBVIOUS
  <1>1. pc = "off" /\ wpc = "off"
    BY DEF Init, NoBroker, NoWatchdog
  <1>2. seen.shown = {Default} \cup ({InitialStore.safe} \ {Absent})
    BY DEF Init
  <1>3. st.good = IF InitialStore.safe \in InitialStore.snaps THEN InitialStore.safe ELSE NoSnapshot
    BY DEF Init, DefaultState
  <1>4. InitialStore.snaps \subseteq Content \ {Absent}
    BY InitialStoreAssumption DEF Store
  <1>5. /\ mst.good = NoSnapshot /\ draft.good = NoSnapshot /\ wdraft.good = NoSnapshot
        /\ adraft.good = NoSnapshot /\ rdraft.good = NoSnapshot
    BY DEF Init, NoBroker, NoWatchdog, NoApp, NoReports, DefaultState
  <1>6. ShownInv
    BY <1>2, <1>3, <1>4, <1>5 DEF ShownInv, SawGood
  <1>7. FilesInv /\ RanInv
    BY <1>1, <1>2 DEF Init, FilesInv, RanInv, Starting
  <1>. QED BY <1>6, <1>7 DEF BaselineInv

LEMMA DefaultGood == DefaultState.good = NoSnapshot
  BY DEF DefaultState


LEMMA StoreParts ==
  ASSUME NEW s \in Store
  PROVE  /\ Load(s).active = LoadChoice(s) /\ Load(s).safe = s.safe
         /\ Load(s).prev = s.prev /\ Load(s).snaps = s.snaps
         /\ LoadChoice(s) # Absent
         /\ WithBaseline(s).active = s.active
         /\ s.active = Absent => WithBaseline(s).safe = s.safe
         /\ s.active # Absent => WithBaseline(s).safe = s.active
         /\ RollbackToPrevious(s).safe = s.safe /\ RollbackToPrevious(s).active = s.prev
         /\ RollbackToSafe(s).safe = s.safe /\ RollbackToSafe(s).active # Absent
         /\ \A id : RestoreSnapshot(s, id).safe = s.safe /\ RestoreSnapshot(s, id).active = id
         /\ \A c : Save(s, c).safe = s.safe
  BY StoreAssumption
  DEF Load, LoadChoice, WithBaseline, CanSnapshot, Snapshot, PromoteToLastGood,
      RollbackToPrevious, RollbackToSafe, ReadFile, RestoreSnapshot, Save, Store

\* The files and the plan a session is started with.
LEMMA SelectedParts ==
  ASSUME NEW s \in Store, NEW m \in Mode
  PROVE  RolledBack(m, Load(s)).safe = s.safe /\ RolledBack(m, Load(s)).active # Absent
  <1>. DEFINE l == Load(s)
  <1>1. /\ l \in Store /\ l.safe = s.safe /\ l.active # Absent
    BY StoreParts, StoreUpdates
  <1>2. /\ RollbackToPrevious(l).safe = l.safe
        /\ HasPrevious(l) => RollbackToPrevious(l).active # Absent
    BY <1>1, StoreParts DEF HasPrevious
  <1>3. \A id \in l.snaps : RestoreSnapshot(l, id).safe = l.safe /\ id # Absent
    BY <1>1, StoreParts DEF Store
  <1>4. \A id : RestoreSnapshot(l, id).active = id
    BY <1>1, StoreParts
  <1>5. RollbackToSafe(l).safe = l.safe /\ RollbackToSafe(l).active # Absent
    BY <1>1, StoreParts
  <1>. HIDE DEF l
  <1>6. RollbackRecovery(l).safe = l.safe /\ RollbackRecovery(l).active # Absent
    BY <1>1, <1>2, <1>3, <1>4, <1>5 DEF RollbackRecovery, HasSnapshot
  <1>7. RolledBack(m, l).safe = s.safe /\ RolledBack(m, l).active # Absent
    BY <1>1, <1>5, <1>6 DEF RolledBack, Mode
  <1>. QED BY <1>7 DEF l

LEMMA GoodParts ==
  ASSUME NEW x \in SessionState, NEW g
  PROVE  MarkedHealthy(x, g).good = g
  BY DEF MarkedHealthy, SessionState

\* What the broker's promotion leaves in the files and in its records.
LEMMA PromotionParts ==
  ASSUME PromoteSave, store \in Store, draft \in SessionState
  PROVE  /\ store'.active = store.active
         /\ store'.safe \in {store.safe, store.active}
         /\ st'.good \in {draft.good, store.active}
         /\ mst' = st' /\ draft'.good = NoSnapshot
  <1>1. store'.active = store.active /\ store'.safe \in {store.safe, store.active}
    BY StoreParts DEF PromoteSave
  <1>2. st'.good \in {draft.good, store.active} /\ mst' = st' /\ draft'.good = NoSnapshot
    BY GoodParts, DefaultGood DEF PromoteSave, SnapshotId
  <1>. QED BY <1>1, <1>2

\* What the watchdog's timer and its promotion leave there.
LEMMA TimeoutParts ==
  ASSUME NEW stable, NEW alive, OnHealthyTimeout(stable, alive), st \in SessionState
  PROVE  wpc = "armed" /\ wdraft'.good \in {st.good, NoSnapshot} /\ UNCHANGED <<store, st>>
  <1>1. CASE wdraft' = MarkedHealthy(st, st.good)
    BY <1>1, GoodParts DEF OnHealthyTimeout, Stopped, sharedVars
  <1>2. CASE wdraft' = DefaultState
    BY <1>2, DefaultGood DEF OnHealthyTimeout, Stopped, sharedVars
  <1>. QED BY <1>1, <1>2 DEF OnHealthyTimeout, Stopped

LEMMA WatchdogParts ==
  ASSUME PromoteBaseline, store \in Store, wdraft \in SessionState
  PROVE  /\ wpc = "baseline" /\ wpc' = "save" /\ UNCHANGED <<st, mode>>
         /\ store'.active = LoadChoice(store) /\ store'.safe = LoadChoice(store)
         /\ wdraft'.good = LoadChoice(store)
  <1>. DEFINE l == Load(store)
  <1>1. l \in Store /\ l.active = LoadChoice(store) /\ l.active # Absent
    <2>1. l \in Store
      BY StoreUpdates
    <2>2. l.active = LoadChoice(store) /\ l.active # Absent
      BY StoreParts
    <2>. QED BY <2>1, <2>2
  <1>2. wdraft'.good = l.active
    BY <1>1 DEF PromoteBaseline, SnapshotId, CanSnapshot, SessionState
  <1>3. store' = WithBaseline(l)
    BY DEF PromoteBaseline
  <1>4. wpc = "baseline" /\ wpc' = "save" /\ UNCHANGED <<st, mode>>
    BY DEF PromoteBaseline
  <1>. HIDE DEF l
  <1>5. store'.active = l.active /\ store'.safe = l.active
    BY <1>1, <1>3, StoreParts
  <1>. QED BY <1>1, <1>2, <1>4, <1>5

LEMMA ShownNext ==
  ASSUME SafetyTypes, SafetyInv, pc \in Label, requested \in Mode, store \in Store,
         plan \in Content, ~EditsInSession, NoRollbackCalls, LoadsWhatRan,
         BaselineInv, [Next]_vars
  PROVE  ShownInv'
  <1>. USE LoginAssumption, DefaultGood DEF SafetyTypes, SafetyInv, HelpersRest,
         EvidenceIsDrawn, HealthyIsDrawn, BaselineInv, Starting, Running,
         Saving, Chosen, SessionState, History, Others, watchdogVars, appVars,
         recoverydVars, brokerVars, sharedVars, childVars, boundVars, SawGood,
         ShownInv, FilesInv, RanInv, NoRollbackCalls, LoadsWhatRan
  <1>1. CASE BrokerStart
    BY <1>1 DEF BrokerStart, Start
  <1>2. CASE BrokerCountBoot
    BY <1>2 DEF BrokerCountBoot, CountBoot
  <1>3. CASE BrokerSelectMode
    BY <1>3 DEF BrokerSelectMode, SelectMode, EvaluateMode
  <1>4. CASE BrokerPrepare
    BY <1>4 DEF BrokerPrepare, Prepare
  <1>5. CASE BrokerLaunchFails
    BY <1>5 DEF BrokerLaunchFails, LaunchFails
  <1>6. CASE BrokerLaunchStack
    BY <1>6 DEF BrokerLaunchStack, LaunchStack, StackUp, Arm, AppLaunched
  <1>7. CASE BrokerPromotes
    <2>1. CASE AdoptHealthy \/ PromoteLoad
      BY <1>7, <2>1 DEF BrokerPromotes, AdoptHealthy, PromoteLoad
    <2>2. CASE PromoteSave
      <3>1. store.active \in seen.shown
        BY <2>2 DEF PromoteSave
      <3>2. /\ seen'.shown = seen.shown /\ seen'.drawn = seen.drawn
            /\ UNCHANGED <<wdraft, adraft, rdraft, wpc>>
        BY <1>7, <2>2 DEF BrokerPromotes, AdoptHealthy, PromoteLoad, PromoteSave
      <3>3. pc = "promote" /\ pc' = "monitor" /\ UNCHANGED <<mode, plan>>
        BY <2>2 DEF PromoteSave
      <3>. QED BY <2>2, <3>1, <3>2, <3>3, PromotionParts
    <2>. QED BY <1>7, <2>1, <2>2 DEF BrokerPromotes
  <1>8. CASE BrokerRestartStack
    BY <1>8 DEF BrokerRestartStack, RestartStack, StackUp, Arm, InSession
  <1>9. CASE BrokerRestartStackFails
    <2>1. wdraft'.good \in {wdraft.good, NoSnapshot}
      BY <1>9, DefaultGood DEF BrokerRestartStackFails, RestartStackFails, Stopped
    <2>. QED BY <1>9, <2>1 DEF BrokerRestartStackFails, RestartStackFails, Leave
  <1>10. CASE BrokerShellRestartFails
    BY <1>10 DEF BrokerShellRestartFails, ShellRestartFails, Leave, InSession
  <1>11. CASE BrokerMonitor
    BY <1>11 DEF BrokerMonitor, MonitorTerminate, CompositorFinished,
      ShellCrash, RestartShell, RecoveryShellEnded, Leave, InSession
  <1>12. CASE BrokerFirstFrameTimeout
    BY <1>12 DEF BrokerFirstFrameTimeout, FirstFrameTimeout,
      FirstFrameMissing, Leave, InSession
  <1>13. CASE BrokerEndLoad
    BY <1>13 DEF BrokerEndLoad, EndLoad
  <1>14. CASE BrokerEndSave
    BY <1>14 DEF BrokerEndSave, EndSave
  <1>15. CASE BrokerExit
    BY <1>15 DEF BrokerExit, Exit, BrokerGone, Stopped, AppReset, DefaultState
  <1>16. CASE ShellFirstFrame
    BY <1>16 DEF ShellFirstFrame, FirstFrame
  <1>17. CASE ShellExit
    BY <1>17 DEF ShellExit, ShellExits, AppReset
  <1>18. CASE CompositorExit
    BY <1>18 DEF CompositorExit, CompositorExits
  <1>19. CASE Logout
    BY <1>19 DEF Logout, Sigterm
  <1>20. CASE WatchdogTick
    BY <1>20 DEF WatchdogTick, Tick, FirstFrameMissing, InSession
  <1>21. CASE WatchdogStep
    <2>1. CASE PromoteBaseline /\ UNCHANGED seen
      <3>1. store.active \in seen.shown /\ wpc = "baseline"
        BY <2>1 DEF PromoteBaseline
      <3>2. LoadChoice(store) \in seen.shown
        BY <3>1, StoreAssumption DEF LoadChoice
      <3>3. UNCHANGED <<mst, draft, adraft, rdraft, pc, plan>>
        BY <1>21 DEF WatchdogStep
      <3>. QED BY <2>1, <3>1, <3>2, <3>3, WatchdogParts
    <2>2. CASE UNCHANGED seen /\
               (ClearMarker \/ \E stable \in BOOLEAN : OnHealthyTimeout(stable, shell = "running"))
      <3>1. wdraft'.good \in {st.good, NoSnapshot} /\ UNCHANGED <<store, st>>
            /\ wpc # "off" /\ pc \notin Starting
        BY <2>2, TimeoutParts, DefaultGood DEF ClearMarker, Stopped
      <3>2. UNCHANGED <<mst, draft, adraft, rdraft, pc, plan, mode>>
        BY <1>21, <2>2 DEF WatchdogStep, ClearMarker, OnHealthyTimeout
      <3>. QED BY <2>2, <3>1, <3>2
    <2>3. CASE SaveHealthy /\ seen' = [seen EXCEPT !.asked = "no"]
      BY <1>21, <2>3 DEF WatchdogStep, SaveHealthy
    <2>. QED BY <1>21, <2>1, <2>2, <2>3 DEF WatchdogStep
  <1>22. CASE AppStep
    <2>1. CASE Construct /\ UNCHANGED seen
      <3>1. LoadChoice(store) \in {store.active} \cup seen.shown
        BY <2>1, StoreAssumption DEF Construct, LoadChoice
      <3>2. store'.active = LoadChoice(store) /\ store'.safe = store.safe
        BY <2>1, StoreParts DEF Construct
      <3>. QED BY <1>22, <2>1, <3>1, <3>2 DEF AppStep, Construct
    <2>2. CASE (MarkRecoveryUiHealthy \/ ClearRequest \/ DefaultsLoad) /\ UNCHANGED seen
      <3>1. adraft'.good \in {st.good, adraft.good}
        BY <2>2
        DEF MarkRecoveryUiHealthy, ClearLoad, ClearRequest, DefaultsLoad, MarkedHealthy, SessionState
      <3>. QED BY <1>22, <2>2, <3>1 DEF AppStep, MarkRecoveryUiHealthy, ClearRequest, DefaultsLoad
    <2>3. CASE (ClearSave \/ DefaultsSave) /\ seen' = [seen EXCEPT !.asked = "no"]
      BY <1>22, <2>3, DefaultGood DEF AppStep, ClearSave, DefaultsSave
    <2>. QED BY <1>22, <2>1, <2>2, <2>3 DEF AppStep
  <1>23. CASE AppLeave
    BY <1>23 DEF AppLeave, AppRuns, ExitToDesktop, RestartDesktop, ClearLoad,
      MarkedHealthy
  <1>24. CASE AppChoice
    BY <1>24 DEF AppChoice, AppRuns, ResetToSafeDefaults, RestoreConfig
  <1>25. CASE RecoverydCall
    BY <1>25 DEF RecoverydCall, Called, ReportCrash, TriggerAutoRecovery,
      AutoRecovery, RequestSafeMode, RequestRecoveryPartition,
      ClearRecoveryFlags
  <1>26. CASE RecoverydStep
    <2>1. CASE AutoLoad \/ RequestLoad \/ ClearLoadFlags
      <3>1. rdraft'.good = st.good
        BY <2>1 DEF AutoLoad, RequestLoad, ClearLoadFlags, ForceLoad, SessionState
      <3>. QED BY <1>26, <2>1, <3>1 DEF RecoverydStep, AutoLoad, RequestLoad, ClearLoadFlags,
             ForceLoad, AutoSave, RequestSave, ClearSaveFlags, ForceSave, ClearMarkerFlag, Escalate
    <2>2. CASE ClearMarkerFlag \/ Escalate
      BY <1>26, <2>2 DEF RecoverydStep, AutoLoad, RequestLoad, ClearLoadFlags,
             ForceLoad, AutoSave, RequestSave, ClearSaveFlags, ForceSave, ClearMarkerFlag, Escalate
    <2>3. CASE AutoSave \/ RequestSave \/ ClearSaveFlags
      <3>1. st' = rdraft /\ rdraft'.good = NoSnapshot
        BY <2>3, DefaultGood DEF AutoSave, RequestSave, ClearSaveFlags, ForceSave
      <3>2. seen'.shown = seen.shown
        BY <1>26 DEF RecoverydStep
      <3>3. UNCHANGED <<mst, draft, wdraft, adraft>>
        BY <1>26 DEF RecoverydStep
      <3>. QED BY <3>1, <3>2, <3>3
    <2>. QED BY <1>26, <2>1, <2>2, <2>3 DEF RecoverydStep
  <1>27. CASE RecoverydForceFails
    BY <1>27 DEF RecoverydForceFails, ForceFails
  <1>28. CASE UserSaves
    BY <1>28 DEF UserSaves, Save
  <1>29. CASE PowerLoss
    BY <1>29 DEF PowerLoss, BrokerGone, Stopped, AppReset, RecoverydReset,
      DefaultState
  <1>30. CASE UNCHANGED vars
    BY <1>30 DEF vars
  <1>. QED BY <1>1, <1>2, <1>3, <1>4, <1>5, <1>6, <1>7, <1>8, <1>9, <1>10,
       <1>11, <1>12, <1>13, <1>14, <1>15, <1>16, <1>17, <1>18, <1>19, <1>20,
       <1>21, <1>22, <1>23, <1>24, <1>25, <1>26, <1>27, <1>28, <1>29, <1>30
       DEF Next, BrokerNext, SessionNext, HelperNext

LEMMA FilesNext ==
  ASSUME SafetyTypes, SafetyInv, pc \in Label, requested \in Mode, store \in Store,
         plan \in Content, ~EditsInSession, NoRollbackCalls, LoadsWhatRan,
         BaselineInv, [Next]_vars
  PROVE  FilesInv'
  <1>. USE LoginAssumption DEF SafetyTypes, SafetyInv, HelpersRest,
         EvidenceIsDrawn, HealthyIsDrawn, BaselineInv, Starting, Running,
         Saving, Chosen, SessionState, History, Others, watchdogVars, appVars,
         recoverydVars, brokerVars, sharedVars, childVars, boundVars, SawGood,
         ShownInv, FilesInv, RanInv, NoRollbackCalls, LoadsWhatRan
  <1>1. CASE BrokerStart
    <2>1. store'.safe = store.safe
      BY <1>1, StoreParts DEF BrokerStart, Start
    <2>. QED BY <1>1, <2>1 DEF BrokerStart, Start
  <1>2. CASE BrokerCountBoot
    BY <1>2 DEF BrokerCountBoot, CountBoot
  <1>3. CASE BrokerSelectMode
    <2>1. mode' \in Mode
      BY <1>3 DEF BrokerSelectMode, SelectMode, EvaluateMode, Mode
    <2>2. store'.safe = store.safe /\ store'.active # Absent
      <3>1. store' = RolledBack(mode', Load(store))
        BY <1>3 DEF BrokerSelectMode, SelectMode
      <3>2. /\ RolledBack(mode', Load(store)).safe = store.safe
            /\ RolledBack(mode', Load(store)).active # Absent
        BY <2>1, SelectedParts
      <3>. QED BY <3>1, <3>2
    <2>. QED BY <1>3, <2>2 DEF BrokerSelectMode, SelectMode, ReadFile
  <1>4. CASE BrokerPrepare
    BY <1>4 DEF BrokerPrepare, Prepare
  <1>5. CASE BrokerLaunchFails
    BY <1>5 DEF BrokerLaunchFails, LaunchFails
  <1>6. CASE BrokerLaunchStack
    BY <1>6 DEF BrokerLaunchStack, LaunchStack, StackUp, Arm, AppLaunched
  <1>7. CASE BrokerPromotes
    <2>1. CASE AdoptHealthy \/ PromoteLoad
      BY <1>7, <2>1 DEF BrokerPromotes, AdoptHealthy, PromoteLoad
    <2>2. CASE PromoteSave
      <3>1. store.active \in seen.shown
        BY <2>2 DEF PromoteSave
      <3>2. /\ seen'.shown = seen.shown /\ seen'.drawn = seen.drawn
            /\ UNCHANGED <<wdraft, adraft, rdraft, wpc>>
        BY <1>7, <2>2 DEF BrokerPromotes, AdoptHealthy, PromoteLoad, PromoteSave
      <3>3. pc = "promote" /\ pc' = "monitor" /\ UNCHANGED <<mode, plan>>
        BY <2>2 DEF PromoteSave
      <3>. QED BY <2>2, <3>1, <3>2, <3>3, PromotionParts
    <2>. QED BY <1>7, <2>1, <2>2 DEF BrokerPromotes
  <1>8. CASE BrokerRestartStack
    BY <1>8 DEF BrokerRestartStack, RestartStack, StackUp, Arm, InSession
  <1>9. CASE BrokerRestartStackFails
    BY <1>9 DEF BrokerRestartStackFails, RestartStackFails, Leave, Stopped,
      InSession
  <1>10. CASE BrokerShellRestartFails
    BY <1>10 DEF BrokerShellRestartFails, ShellRestartFails, Leave, InSession
  <1>11. CASE BrokerMonitor
    BY <1>11 DEF BrokerMonitor, MonitorTerminate, CompositorFinished,
      ShellCrash, RestartShell, RecoveryShellEnded, Leave, InSession
  <1>12. CASE BrokerFirstFrameTimeout
    BY <1>12 DEF BrokerFirstFrameTimeout, FirstFrameTimeout,
      FirstFrameMissing, Leave, InSession
  <1>13. CASE BrokerEndLoad
    BY <1>13 DEF BrokerEndLoad, EndLoad
  <1>14. CASE BrokerEndSave
    BY <1>14 DEF BrokerEndSave, EndSave
  <1>15. CASE BrokerExit
    BY <1>15 DEF BrokerExit, Exit, BrokerGone, Stopped, AppReset, DefaultState
  <1>16. CASE ShellFirstFrame
    BY <1>16 DEF ShellFirstFrame, FirstFrame
  <1>17. CASE ShellExit
    BY <1>17 DEF ShellExit, ShellExits, AppReset
  <1>18. CASE CompositorExit
    BY <1>18 DEF CompositorExit, CompositorExits
  <1>19. CASE Logout
    BY <1>19 DEF Logout, Sigterm
  <1>20. CASE WatchdogTick
    BY <1>20 DEF WatchdogTick, Tick, FirstFrameMissing, InSession
  <1>21. CASE WatchdogStep
    <2>1. CASE PromoteBaseline /\ UNCHANGED seen
      <3>1. store.active \in seen.shown /\ wpc = "baseline"
        BY <2>1 DEF PromoteBaseline
      <3>2. LoadChoice(store) \in seen.shown
        BY <3>1, StoreAssumption DEF LoadChoice
      <3>3. UNCHANGED <<mst, draft, adraft, rdraft, pc, plan>>
        BY <1>21 DEF WatchdogStep
      <3>. QED BY <2>1, <3>1, <3>2, <3>3, WatchdogParts
    <2>2. CASE UNCHANGED seen /\
               (ClearMarker \/ \E stable \in BOOLEAN : OnHealthyTimeout(stable, shell = "running"))
      <3>1. wdraft'.good \in {st.good, NoSnapshot} /\ UNCHANGED <<store, st>>
            /\ wpc # "off" /\ pc \notin Starting
        BY <2>2, TimeoutParts, DefaultGood DEF ClearMarker, Stopped
      <3>2. UNCHANGED <<mst, draft, adraft, rdraft, pc, plan, mode>>
        BY <1>21, <2>2 DEF WatchdogStep, ClearMarker, OnHealthyTimeout
      <3>. QED BY <2>2, <3>1, <3>2
    <2>3. CASE SaveHealthy /\ seen' = [seen EXCEPT !.asked = "no"]
      BY <1>21, <2>3 DEF WatchdogStep, SaveHealthy
    <2>. QED BY <1>21, <2>1, <2>2, <2>3 DEF WatchdogStep
  <1>22. CASE AppStep
    <2>1. CASE Construct /\ UNCHANGED seen
      <3>1. LoadChoice(store) \in {store.active} \cup seen.shown
        BY <2>1, StoreAssumption DEF Construct, LoadChoice
      <3>2. store'.active = LoadChoice(store) /\ store'.safe = store.safe
        BY <2>1, StoreParts DEF Construct
      <3>. QED BY <1>22, <2>1, <3>1, <3>2 DEF AppStep, Construct
    <2>2. CASE (MarkRecoveryUiHealthy \/ ClearRequest \/ DefaultsLoad) /\ UNCHANGED seen
      <3>1. adraft'.good \in {st.good, adraft.good}
        BY <2>2
        DEF MarkRecoveryUiHealthy, ClearLoad, ClearRequest, DefaultsLoad, MarkedHealthy, SessionState
      <3>. QED BY <1>22, <2>2, <3>1 DEF AppStep, MarkRecoveryUiHealthy, ClearRequest, DefaultsLoad
    <2>3. CASE (ClearSave \/ DefaultsSave) /\ seen' = [seen EXCEPT !.asked = "no"]
      BY <1>22, <2>3, DefaultGood DEF AppStep, ClearSave, DefaultsSave
    <2>. QED BY <1>22, <2>1, <2>2, <2>3 DEF AppStep
  <1>23. CASE AppLeave
    BY <1>23 DEF AppLeave, AppRuns, ExitToDesktop, RestartDesktop, ClearLoad,
      MarkedHealthy
  <1>24. CASE AppChoice
    <2>1. wpc = "off" /\ mode = "recovery" /\ pc = "monitor"
      BY <1>24 DEF AppChoice, AppRuns
    <2>2. UNCHANGED <<st, mst, draft, wdraft, adraft, rdraft, seen, wpc, mode, pc, plan>>
      BY <1>24 DEF AppChoice, ResetToSafeDefaults, RestoreConfig
    <2>3. store'.safe \in {store.safe, Absent}
      <3>. DEFINE l == Load(store)
      <3>1. l \in Store /\ l.safe = store.safe
        BY StoreParts, StoreUpdates
      <3>. HIDE DEF l
      <3>2. CASE ResetToSafeDefaults
        BY <3>1, <3>2, StoreParts DEF ResetToSafeDefaults, l
      <3>3. CASE RestoreConfig
        <4>1. \/ store' = RollbackToPrevious(l) \/ store' = l \/ store' = FactoryReset(l)
              \/ \E id \in l.snaps : store' = RestoreSnapshot(l, id)
          BY <3>3 DEF RestoreConfig, l
        <4>2. FactoryReset(l).safe = Absent
          BY DEF FactoryReset
        <4>. QED BY <3>1, <4>1, <4>2, StoreParts
      <3>. QED BY <1>24, <3>2, <3>3 DEF AppChoice
    <2>. QED BY <2>1, <2>2, <2>3
  <1>25. CASE RecoverydCall
    BY <1>25 DEF RecoverydCall, Called, ReportCrash, TriggerAutoRecovery,
      AutoRecovery, RequestSafeMode, RequestRecoveryPartition,
      ClearRecoveryFlags
  <1>26. CASE RecoverydStep
    BY <1>26 DEF RecoverydStep, AutoLoad, RequestLoad, ClearLoadFlags,
      ForceLoad, ClearMarkerFlag, Escalate, AutoSave, RequestSave,
      ClearSaveFlags, ForceSave, Quiet
  <1>27. CASE RecoverydForceFails
    BY <1>27 DEF RecoverydForceFails, ForceFails
  <1>28. CASE UserSaves
    <2>1. store'.safe = store.safe
      BY <1>28, StoreParts DEF UserSaves
    <2>. QED BY <1>28, <2>1 DEF UserSaves
  <1>29. CASE PowerLoss
    BY <1>29 DEF PowerLoss, BrokerGone, Stopped, AppReset, RecoverydReset,
      DefaultState
  <1>30. CASE UNCHANGED vars
    BY <1>30 DEF vars
  <1>. QED BY <1>1, <1>2, <1>3, <1>4, <1>5, <1>6, <1>7, <1>8, <1>9, <1>10,
       <1>11, <1>12, <1>13, <1>14, <1>15, <1>16, <1>17, <1>18, <1>19, <1>20,
       <1>21, <1>22, <1>23, <1>24, <1>25, <1>26, <1>27, <1>28, <1>29, <1>30
       DEF Next, BrokerNext, SessionNext, HelperNext

LEMMA RanNext ==
  ASSUME SafetyTypes, SafetyInv, pc \in Label, requested \in Mode, store \in Store,
         plan \in Content, ~EditsInSession, NoRollbackCalls, LoadsWhatRan,
         BaselineInv, [Next]_vars
  PROVE  RanInv'
  <1>. USE LoginAssumption DEF SafetyTypes, SafetyInv, HelpersRest,
         EvidenceIsDrawn, HealthyIsDrawn, BaselineInv, Starting, Running,
         Saving, Chosen, SessionState, History, Others, watchdogVars, appVars,
         recoverydVars, brokerVars, sharedVars, childVars, boundVars, SawGood,
         ShownInv, FilesInv, RanInv, NoRollbackCalls, LoadsWhatRan
  <1>1. CASE BrokerStart
    BY <1>1 DEF BrokerStart, Start
  <1>2. CASE BrokerCountBoot
    BY <1>2 DEF BrokerCountBoot, CountBoot
  <1>3. CASE BrokerSelectMode
    <2>1. mode' \in Mode
      BY <1>3 DEF BrokerSelectMode, SelectMode, EvaluateMode, Mode
    <2>2. store'.safe = store.safe /\ store'.active # Absent
      <3>1. store' = RolledBack(mode', Load(store))
        BY <1>3 DEF BrokerSelectMode, SelectMode
      <3>2. /\ RolledBack(mode', Load(store)).safe = store.safe
            /\ RolledBack(mode', Load(store)).active # Absent
        BY <2>1, SelectedParts
      <3>. QED BY <3>1, <3>2
    <2>. QED BY <1>3, <2>2 DEF BrokerSelectMode, SelectMode, ReadFile
  <1>4. CASE BrokerPrepare
    BY <1>4 DEF BrokerPrepare, Prepare
  <1>5. CASE BrokerLaunchFails
    BY <1>5 DEF BrokerLaunchFails, LaunchFails
  <1>6. CASE BrokerLaunchStack
    BY <1>6 DEF BrokerLaunchStack, LaunchStack, StackUp, Arm, AppLaunched
  <1>7. CASE BrokerPromotes
    <2>1. CASE AdoptHealthy \/ PromoteLoad
      BY <1>7, <2>1 DEF BrokerPromotes, AdoptHealthy, PromoteLoad
    <2>2. CASE PromoteSave
      <3>1. store.active \in seen.shown
        BY <2>2 DEF PromoteSave
      <3>2. /\ seen'.shown = seen.shown /\ seen'.drawn = seen.drawn
            /\ UNCHANGED <<wdraft, adraft, rdraft, wpc>>
        BY <1>7, <2>2 DEF BrokerPromotes, AdoptHealthy, PromoteLoad, PromoteSave
      <3>3. pc = "promote" /\ pc' = "monitor" /\ UNCHANGED <<mode, plan>>
        BY <2>2 DEF PromoteSave
      <3>. QED BY <2>2, <3>1, <3>2, <3>3, PromotionParts
    <2>. QED BY <1>7, <2>1, <2>2 DEF BrokerPromotes
  <1>8. CASE BrokerRestartStack
    BY <1>8 DEF BrokerRestartStack, RestartStack, StackUp, Arm, InSession
  <1>9. CASE BrokerRestartStackFails
    BY <1>9 DEF BrokerRestartStackFails, RestartStackFails, Leave, Stopped,
      InSession
  <1>10. CASE BrokerShellRestartFails
    BY <1>10 DEF BrokerShellRestartFails, ShellRestartFails, Leave, InSession
  <1>11. CASE BrokerMonitor
    BY <1>11 DEF BrokerMonitor, MonitorTerminate, CompositorFinished,
      ShellCrash, RestartShell, RecoveryShellEnded, Leave, InSession
  <1>12. CASE BrokerFirstFrameTimeout
    BY <1>12 DEF BrokerFirstFrameTimeout, FirstFrameTimeout,
      FirstFrameMissing, Leave, InSession
  <1>13. CASE BrokerEndLoad
    BY <1>13 DEF BrokerEndLoad, EndLoad
  <1>14. CASE BrokerEndSave
    BY <1>14 DEF BrokerEndSave, EndSave
  <1>15. CASE BrokerExit
    BY <1>15 DEF BrokerExit, Exit, BrokerGone, Stopped, AppReset, DefaultState
  <1>16. CASE ShellFirstFrame
    BY <1>16 DEF ShellFirstFrame, FirstFrame
  <1>17. CASE ShellExit
    BY <1>17 DEF ShellExit, ShellExits, AppReset
  <1>18. CASE CompositorExit
    BY <1>18 DEF CompositorExit, CompositorExits
  <1>19. CASE Logout
    BY <1>19 DEF Logout, Sigterm
  <1>20. CASE WatchdogTick
    BY <1>20 DEF WatchdogTick, Tick, FirstFrameMissing, InSession
  <1>21. CASE WatchdogStep
    <2>1. CASE PromoteBaseline /\ UNCHANGED seen
      <3>1. store.active \in seen.shown /\ wpc = "baseline"
        BY <2>1 DEF PromoteBaseline
      <3>2. LoadChoice(store) \in seen.shown
        BY <3>1, StoreAssumption DEF LoadChoice
      <3>3. UNCHANGED <<mst, draft, adraft, rdraft, pc, plan>>
        BY <1>21 DEF WatchdogStep
      <3>. QED BY <2>1, <3>1, <3>2, <3>3, WatchdogParts
    <2>2. CASE UNCHANGED seen /\
               (ClearMarker \/ \E stable \in BOOLEAN : OnHealthyTimeout(stable, shell = "running"))
      <3>1. wdraft'.good \in {st.good, NoSnapshot} /\ UNCHANGED <<store, st>>
            /\ wpc # "off" /\ pc \notin Starting
        BY <2>2, TimeoutParts, DefaultGood DEF ClearMarker, Stopped
      <3>2. UNCHANGED <<mst, draft, adraft, rdraft, pc, plan, mode>>
        BY <1>21, <2>2 DEF WatchdogStep, ClearMarker, OnHealthyTimeout
      <3>. QED BY <2>2, <3>1, <3>2
    <2>3. CASE SaveHealthy /\ seen' = [seen EXCEPT !.asked = "no"]
      BY <1>21, <2>3 DEF WatchdogStep, SaveHealthy
    <2>. QED BY <1>21, <2>1, <2>2, <2>3 DEF WatchdogStep
  <1>22. CASE AppStep
    <2>1. CASE Construct /\ UNCHANGED seen
      <3>1. LoadChoice(store) \in {store.active} \cup seen.shown
        BY <2>1, StoreAssumption DEF Construct, LoadChoice
      <3>2. store'.active = LoadChoice(store) /\ store'.safe = store.safe
        BY <2>1, StoreParts DEF Construct
      <3>. QED BY <1>22, <2>1, <3>1, <3>2 DEF AppStep, Construct
    <2>2. CASE (MarkRecoveryUiHealthy \/ ClearRequest \/ DefaultsLoad) /\ UNCHANGED seen
      <3>1. adraft'.good \in {st.good, adraft.good}
        BY <2>2
        DEF MarkRecoveryUiHealthy, ClearLoad, ClearRequest, DefaultsLoad, MarkedHealthy, SessionState
      <3>. QED BY <1>22, <2>2, <3>1 DEF AppStep, MarkRecoveryUiHealthy, ClearRequest, DefaultsLoad
    <2>3. CASE (ClearSave \/ DefaultsSave) /\ seen' = [seen EXCEPT !.asked = "no"]
      BY <1>22, <2>3, DefaultGood DEF AppStep, ClearSave, DefaultsSave
    <2>. QED BY <1>22, <2>1, <2>2, <2>3 DEF AppStep
  <1>23. CASE AppLeave
    BY <1>23 DEF AppLeave, AppRuns, ExitToDesktop, RestartDesktop, ClearLoad,
      MarkedHealthy
  <1>24. CASE AppChoice
    BY <1>24 DEF AppChoice, AppRuns, ResetToSafeDefaults, RestoreConfig
  <1>25. CASE RecoverydCall
    BY <1>25 DEF RecoverydCall, Called, ReportCrash, TriggerAutoRecovery,
      AutoRecovery, RequestSafeMode, RequestRecoveryPartition,
      ClearRecoveryFlags
  <1>26. CASE RecoverydStep
    BY <1>26 DEF RecoverydStep, AutoLoad, RequestLoad, ClearLoadFlags,
      ForceLoad, ClearMarkerFlag, Escalate, AutoSave, RequestSave,
      ClearSaveFlags, ForceSave, Quiet
  <1>27. CASE RecoverydForceFails
    BY <1>27 DEF RecoverydForceFails, ForceFails
  <1>28. CASE UserSaves
    BY <1>28 DEF UserSaves, Save
  <1>29. CASE PowerLoss
    BY <1>29 DEF PowerLoss, BrokerGone, Stopped, AppReset, RecoverydReset,
      DefaultState
  <1>30. CASE UNCHANGED vars
    BY <1>30 DEF vars
  <1>. QED BY <1>1, <1>2, <1>3, <1>4, <1>5, <1>6, <1>7, <1>8, <1>9, <1>10,
       <1>11, <1>12, <1>13, <1>14, <1>15, <1>16, <1>17, <1>18, <1>19, <1>20,
       <1>21, <1>22, <1>23, <1>24, <1>25, <1>26, <1>27, <1>28, <1>29, <1>30
       DEF Next, BrokerNext, SessionNext, HelperNext

\* The safe baseline and the last-good snapshot are configurations on which a
\* session has drawn a frame, as long as nobody changes the configuration under a
\* running session and load() never has to take up the previous configuration
\* there, as it can after a session in safe mode without a safe file.
THEOREM BaselineIsEarned ==
  ASSUME ~EditsInSession, NoRollbackCalls
  PROVE  Spec /\ []LoadsWhatRan => []BaselineHasRun
  <1>. USE DEF TypeOK, SharedTypeOK, BrokerTypeOK
  <1>1. TypeOK /\ SafetyInv /\ BaselineInv /\ LoadsWhatRan /\ [Next]_vars => BaselineInv'
    BY UseTypes, ShownNext, FilesNext, RanNext DEF BaselineInv
  <1>2. BaselineInv => BaselineHasRun
    BY DEF BaselineInv, ShownInv, FilesInv, SawGood, BaselineHasRun
  <1>. QED BY <1>1, <1>2, BaselineInit, TypeCorrect, SafetyHolds, PTL DEF Spec
=============================================================================
