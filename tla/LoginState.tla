------------------------------ MODULE LoginState ------------------------------
(***************************************************************************)
(* What the processes of the login stack share.  The session broker, the   *)
(* watchdog it starts, the recovery application it runs in place of the    *)
(* shell and the recovery daemon talk to each other only through files:    *)
(*                                                                         *)
(*   store    the configuration files (ConfigStore)                        *)
(*   st       state.json, read and rewritten as a whole by each of them    *)
(*   marker   recovery-partition-request.json exists                       *)
(*   frame    the lifecycle file of the running shell has a "firstFrame"   *)
(*                                                                         *)
(* and through what the broker puts in their environment (mode) and the    *)
(* compositor's socket (up).  Every update of state.json is a load, a      *)
(* change and a save with no lock: each process keeps the record it loaded *)
(* in a variable of its own until it saves it.                             *)
(***************************************************************************)
EXTENDS ConfigStore, Naturals

CONSTANTS
  CrashLoopThreshold,   \* kCrashLoopThreshold
  GoodCompositor,       \* configurations whose compositor comes up
  GoodShell,            \* configurations whose shell draws a frame
  NoSnapshot            \* an empty last_good_snapshot

ASSUME LoginAssumption ==
  /\ CrashLoopThreshold \in Nat \ {0}
  /\ GoodCompositor \subseteq Object
  /\ GoodShell \subseteq Object
  /\ NoSnapshot \notin Content

Mode == {"normal", "safe", "recovery"}

BootStatus == {"", "started", "healthy", "ended", "crashed"}

\* The fields of state.json that the code's decisions read; last_mode and the
\* reasons are only reported.
SessionState ==
  [count : 0 .. CrashLoopThreshold + 1, status : BootStatus,
   pending : BOOLEAN, forced : BOOLEAN, good : Content \cup {NoSnapshot}]

\* What load() yields when there is no state.json yet.
DefaultState ==
  [count |-> 0, status |-> "", pending |-> FALSE, forced |-> FALSE,
   good |-> NoSnapshot]

VARIABLES store, st, marker, mode, up, frame

sharedVars == <<store, st, marker, mode, up, frame>>

\* Mutant: the record stays pending.
StillPending(state, snapshot) ==
  [state EXCEPT !.count = 0, !.status = "healthy", !.forced = FALSE, !.good = snapshot]

\* The record written when a session has proved itself; snapshot is the id
\* config.snapshot() returned, or the old one if it failed.
MarkedHealthy(state, snapshot) ==
  [state EXCEPT !.count = 0, !.status = "healthy", !.pending = FALSE,
                !.forced = FALSE, !.good = snapshot]

\* snapshot() followed by promoteToLastGood() on files s, and the snapshot id
\* that state.json then gets.
WithBaseline(s) == IF CanSnapshot(s) THEN PromoteToLastGood(Snapshot(s)) ELSE s
SnapshotId(s, state) == IF CanSnapshot(s) THEN s.active ELSE state.good

\* Whether a session in mode m on a ConfigManager holding config can draw: the
\* recovery application needs the compositor only.
Renders(m, config) ==
  /\ Runs(config) \in GoodCompositor
  /\ m = "recovery" \/ Runs(config) \in GoodShell

SharedTypeOK ==
  /\ store \in Store
  /\ st \in SessionState
  /\ marker \in BOOLEAN
  /\ mode \in Mode
  /\ up \in BOOLEAN
  /\ frame \in BOOLEAN
=============================================================================
