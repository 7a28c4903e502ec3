---------------------------- MODULE ConfigManager ----------------------------
(***************************************************************************)
(* Slm::Login::ConfigManager at the grain of its file accesses.  Every     *)
(* process of the login stack (broker, watchdog, recovery application,     *)
(* recovery daemon) has a ConfigManager of its own over the same files and *)
(* takes no lock, so the accesses of two processes interleave, and a       *)
(* process or the machine may die between any two of them.  QSaveFile      *)
(* replaces a file atomically: a single write is never torn.               *)
(*                                                                         *)
(* Each operation is a walk over labels; `at` holds the label a process is *)
(* about to execute, `buf` what atomicCopy() or load() has read and not    *)
(* yet written, `arg` the configuration save() was called with.            *)
(***************************************************************************)
EXTENDS ConfigStore, Naturals

CONSTANTS
  Proc,         \* processes that own a ConfigManager
  MaxOps,       \* bound on the operations started
  MaxEdits,     \* bound on edits of the active file by other means
  MaxFaults     \* bound on file operations that fail

ASSUME BoundAssumption == MaxOps \in Nat /\ MaxEdits \in Nat /\ MaxFaults \in Nat

VARIABLES
  store,        \* the files
  at, arg, buf, \* per process: label, argument, content in hand
  config,       \* per process: m_config
  begun,        \* operations started so far
  edits, faults,
  before,       \* history: the files when the process began its operation
  goal,         \* history: what that operation makes of them, run on its own
  clean         \* history: nobody else has written, and nothing failed, since

cmVars == <<store, at, arg, buf, config, begun, edits, faults, before, goal, clean>>

Label == {"idle",
          "save.backup", "save.prev", "save.active",
          "load.active", "load.safe", "load.prev", "load.write",
          "prev.read", "safe.read", "restore.read", "active.write",
          "snapshot.read", "snapshot.write",
          "promote.read", "promote.write",
          "reset.active", "reset.prev", "reset.safe", "reset.snaps",
          "reset.write"}

TypeOK ==
  /\ store \in Store
  /\ at \in [Proc -> Label]
  /\ arg \in [Proc -> Content \ {Absent}]
  /\ buf \in [Proc -> Content \ {Absent}]
  /\ config \in [Proc -> Content \ {Absent}]
  /\ begun \in Nat
  /\ edits \in Nat
  /\ faults \in Nat
  /\ before \in [Proc -> Store]
  /\ goal \in [Proc -> Store]
  /\ clean \in [Proc -> BOOLEAN]

Init ==
  /\ store = NoFiles
  /\ at = [p \in Proc |-> "idle"]
  /\ arg = [p \in Proc |-> Empty]
  /\ buf = [p \in Proc |-> Empty]
  /\ config = [p \in Proc |-> Empty]
  /\ begun = 0
  /\ edits = 0
  /\ faults = 0
  /\ before = [p \in Proc |-> NoFiles]
  /\ goal = [p \in Proc |-> NoFiles]
  /\ clean = [p \in Proc |-> TRUE]

-----------------------------------------------------------------------------

\* Process p enters an operation at its first label.  An operation that
\* fails its first test (no previous config, unknown snapshot, a config that
\* does not validate) returns without touching a file and is not begun.
Begin(p, label, value, whole) ==
  /\ at[p] = "idle"
  /\ begun < MaxOps
  /\ begun' = begun + 1
  /\ at' = [at EXCEPT ![p] = label]
  /\ arg' = [arg EXCEPT ![p] = value]
  /\ before' = [before EXCEPT ![p] = store]
  /\ goal' = [goal EXCEPT ![p] = whole]
  /\ clean' = [clean EXCEPT ![p] = TRUE]
  /\ UNCHANGED <<store, buf, config, edits, faults>>

BeginSave(p) == \E c \in Valid : Begin(p, "save.backup", c, Save(store, c))
BeginLoad(p) == Begin(p, "load.active", Empty, Load(store))
BeginRollbackToPrevious(p) ==
  /\ HasPrevious(store)
  /\ Begin(p, "prev.read", Empty, RollbackToPrevious(store))
BeginRollbackToSafe(p) == Begin(p, "safe.read", Empty, RollbackToSafe(store))
BeginRestoreSnapshot(p) ==
  \E id \in store.snaps :
    Begin(p, "restore.read", id, RestoreSnapshot(store, id))
BeginSnapshot(p) ==
  Begin(p, "snapshot.read", Empty,
        IF CanSnapshot(store) THEN Snapshot(store) ELSE store)
BeginPromote(p) == Begin(p, "promote.read", Empty, PromoteToLastGood(store))
BeginFactoryReset(p) == Begin(p, "reset.active", Empty, FactoryReset(store))

\* Reading moves a content into the buffer, writing moves it into a file.
Read(p, from, to, content) ==
  /\ at[p] = from
  /\ at' = [at EXCEPT ![p] = to]
  /\ buf' = [buf EXCEPT ![p] = content]
  /\ UNCHANGED <<store, arg, config, begun, edits, faults, before, goal, clean>>

Write(p, from, to, newStore) ==
  /\ at[p] = from
  /\ at' = [at EXCEPT ![p] = to]
  /\ store' = newStore
  /\ clean' = [q \in Proc |-> q = p /\ clean[q]]
  /\ UNCHANGED <<arg, buf, begun, edits, faults, before, goal>>

\* ---- save() ----
\* Mutant: the backup is a rename of the active file.
RenamingBackup(p) ==
  /\ Write(p, "save.backup", "save.active",
           IF store.active = Absent THEN store
           ELSE [store EXCEPT !.prev = store.active, !.active = Absent])
  /\ UNCHANGED config

SaveBackup(p) ==
  IF store.active = Absent
    THEN Read(p, "save.backup", "save.active", Empty)
    ELSE Read(p, "save.backup", "save.prev", store.active)

SavePrev(p) ==
  /\ Write(p, "save.prev", "save.active", [store EXCEPT !.prev = buf[p]])
  /\ UNCHANGED config

SaveActive(p) ==
  /\ Write(p, "save.active", "idle", [store EXCEPT !.active = arg[p]])
  /\ config' = [config EXCEPT ![p] = arg[p]]

\* ---- load() ----
\* A valid active file is taken as it is and nothing is written.
LoadActive(p) ==
  /\ at[p] = "load.active"
  /\ IF store.active \in Valid
       THEN /\ at' = [at EXCEPT ![p] = "idle"]
            /\ config' = [config EXCEPT ![p] = store.active]
       ELSE /\ at' = [at EXCEPT ![p] = "load.safe"]
            /\ UNCHANGED config
  /\ UNCHANGED <<store, arg, buf, begun, edits, faults, before, goal, clean>>

LoadSafe(p) ==
  IF store.safe \in Valid
    THEN Read(p, "load.safe", "load.write", store.safe)
    ELSE Read(p, "load.safe", "load.prev", Empty)

LoadPrev(p) ==
  Read(p, "load.prev", "load.write",
       IF store.prev \in Valid THEN store.prev ELSE Default)

LoadWrite(p) ==
  /\ Write(p, "load.write", "idle", [store EXCEPT !.active = buf[p]])
  /\ config' = [config EXCEPT ![p] = buf[p]]

\* ---- rollbackToPrevious(), rollbackToSafe(), restoreSnapshot() ----
\* atomicCopy() fails when its source has gone since the operation began.
ReadSource(p, from, content) ==
  IF content = Absent
    THEN Read(p, from, "idle", buf[p])
    ELSE Read(p, from, "active.write", content)

PrevRead(p) == ReadSource(p, "prev.read", store.prev)
SafeRead(p) == Read(p, "safe.read", "active.write", ReadFile(store.safe))
RestoreRead(p) ==
  ReadSource(p, "restore.read", IF arg[p] \in store.snaps THEN arg[p] ELSE Absent)

ActiveWrite(p) ==
  /\ Write(p, "active.write", "idle", [store EXCEPT !.active = buf[p]])
  /\ config' = [config EXCEPT ![p] = buf[p]]

\* ---- snapshot() and promoteToLastGood() copy the active file ----
\* Mutant: atomicCopy() does not notice that its source is missing.
UncheckedCopy(p, from, to) == Read(p, from, to, store.active)

CopyActive(p, from, to) ==
  IF store.active = Absent
    THEN Read(p, from, "idle", buf[p])
    ELSE Read(p, from, to, store.active)

SnapshotRead(p) == CopyActive(p, "snapshot.read", "snapshot.write")
SnapshotWrite(p) ==
  /\ Write(p, "snapshot.write", "idle", [store EXCEPT !.snaps = @ \cup {buf[p]}])
  /\ UNCHANGED config

PromoteRead(p) == CopyActive(p, "promote.read", "promote.write")
PromoteWrite(p) ==
  /\ Write(p, "promote.write", "idle", [store EXCEPT !.safe = buf[p]])
  /\ UNCHANGED config

\* ---- factoryReset(): four removals, then one write ----
\* Mutant: the files are removed in another order, the safe one first.
SafeFirst(p) ==
  /\ Write(p, "reset.active", "reset.prev", [store EXCEPT !.safe = Absent])
  /\ UNCHANGED config

ResetActive(p) ==
  /\ Write(p, "reset.active", "reset.prev", [store EXCEPT !.active = Absent])
  /\ UNCHANGED config
ResetPrev(p) ==
  /\ Write(p, "reset.prev", "reset.safe", [store EXCEPT !.prev = Absent])
  /\ UNCHANGED config
ResetSafe(p) ==
  /\ Write(p, "reset.safe", "reset.snaps", [store EXCEPT !.safe = Absent])
  /\ UNCHANGED config

\* Mutant: the snapshots are forgotten.
KeptSnaps(p) ==
  /\ Write(p, "reset.snaps", "reset.write", store)
  /\ UNCHANGED config

ResetSnaps(p) ==
  /\ Write(p, "reset.snaps", "reset.write", [store EXCEPT !.snaps = {}])
  /\ UNCHANGED config
ResetWrite(p) ==
  /\ Write(p, "reset.write", "idle", [store EXCEPT !.active = Default])
  /\ config' = [config EXCEPT ![p] = Default]

\* A file operation fails.  save() goes on without its backup, load() keeps the
\* configuration it chose and factoryReset() ignores snapshots it cannot remove;
\* every other operation returns an error.
Fail(p) ==
  /\ faults < MaxFaults
  /\ faults' = faults + 1
  /\ \/ /\ at[p] = "save.prev"
        /\ at' = [at EXCEPT ![p] = "save.active"]
        /\ UNCHANGED config
     \/ /\ at[p] = "reset.snaps"
        /\ at' = [at EXCEPT ![p] = "reset.write"]
        /\ UNCHANGED config
     \/ /\ at[p] = "load.write"
        /\ at' = [at EXCEPT ![p] = "idle"]
        /\ config' = [config EXCEPT ![p] = buf[p]]
     \/ /\ at[p] \in {"save.active", "active.write", "snapshot.write",
                     "promote.write", "reset.active", "reset.prev",
                     "reset.safe", "reset.write"}
        /\ at' = [at EXCEPT ![p] = "idle"]
        /\ UNCHANGED config
  /\ clean' = [clean EXCEPT ![p] = FALSE]
  /\ UNCHANGED <<store, arg, buf, begun, edits, before, goal>>

\* The process dies, or the machine does, in the middle of an operation; the
\* next process has a ConfigManager that has loaded nothing yet.
Crash(p) ==
  /\ at[p] # "idle"
  /\ at' = [at EXCEPT ![p] = "idle"]
  /\ config' = [config EXCEPT ![p] = Empty]
  /\ UNCHANGED <<store, arg, buf, begun, edits, faults, before, goal, clean>>

\* The active file is a JSON file in the user's home: it is edited by hand,
\* truncated or deleted behind the back of every ConfigManager.
EditActive ==
  /\ edits < MaxEdits
  /\ edits' = edits + 1
  /\ \E content \in Content : store' = [store EXCEPT !.active = content]
  /\ clean' = [p \in Proc |-> FALSE]
  /\ UNCHANGED <<at, arg, buf, config, begun, faults, before, goal>>

-----------------------------------------------------------------------------

BeginOp(p) ==
  \/ BeginSave(p) \/ BeginLoad(p)
  \/ BeginRollbackToPrevious(p) \/ BeginRollbackToSafe(p)
  \/ BeginRestoreSnapshot(p) \/ BeginSnapshot(p)
  \/ BeginPromote(p) \/ BeginFactoryReset(p)

LoadStep(p) == LoadActive(p) \/ LoadSafe(p) \/ LoadPrev(p) \/ LoadWrite(p)
SaveStep(p) == SaveBackup(p) \/ SavePrev(p) \/ SaveActive(p)
CopyStep(p) ==
  \/ PrevRead(p) \/ SafeRead(p) \/ RestoreRead(p) \/ ActiveWrite(p)
  \/ SnapshotRead(p) \/ SnapshotWrite(p) \/ PromoteRead(p) \/ PromoteWrite(p)
ResetStep(p) ==
  \/ ResetActive(p) \/ ResetPrev(p) \/ ResetSafe(p)
  \/ ResetSnaps(p) \/ ResetWrite(p)

Step(p) == LoadStep(p) \/ SaveStep(p) \/ CopyStep(p) \/ ResetStep(p)

\* The bound on begun ends every behaviour in a state where all are idle.
Finished == begun = MaxOps /\ (\A p \in Proc : at[p] = "idle") /\ UNCHANGED cmVars

Next ==
  \/ \E p \in Proc : BeginOp(p) \/ Step(p) \/ Fail(p) \/ Crash(p)
  \/ EditActive
  \/ Finished

Spec == Init /\ [][Next]_cmVars

-----------------------------------------------------------------------------
(***************************************************************************)
(* Properties.  ConfigManager takes no lock: of two processes that write   *)
(* at once either can lose the other's file.  What it promises, it         *)
(* promises to an operation that is not disturbed while it runs (clean).   *)
(***************************************************************************)

\* An undisturbed operation that runs to its end has the effect that
\* ConfigStore gives it: the code's sequence of reads, removals and writes
\* adds up to one step on the files.
CoarseGrain ==
  [][ \A p \in Proc :
        (Step(p) /\ at'[p] = "idle" /\ clean[p]) => store' = goal[p] ]_cmVars

Resetting(p) ==
  at[p] \in {"reset.active", "reset.prev", "reset.safe", "reset.snaps", "reset.write"}
Saving(p) == at[p] \in {"save.backup", "save.prev", "save.active"}

BeforeOrAfter(p) ==
  LoadChoice(store) \in {LoadChoice(before[p]), LoadChoice(goal[p])}

\* Wherever an operation other than factoryReset() is cut short, the next
\* load() finds the configuration it would have found before the operation or
\* the one it finds after it: never a third one.  The exception is a save()
\* over an active file that does not validate: its backup has then replaced the
\* previous file, the one load() would have fallen back on.
AllOrNothing ==
  \A p \in Proc :
    /\ at[p] # "idle" /\ clean[p] /\ ~Resetting(p)
    /\ Saving(p) => before[p].active \in Valid
    => BeforeOrAfter(p)

\* load() repairs the active file without changing what the next load() will
\* choose: running it twice, or dying inside it, is harmless.
LoadIsStable ==
  [][ \A p \in Proc :
        (LoadStep(p) /\ clean[p]) => LoadChoice(store') = LoadChoice(store) ]_cmVars

\* save() replaces an active file only once that very content is in the
\* previous file: rollbackToPrevious() undoes any save() whose backup could be
\* written.
SaveCanBeUndone ==
  [][ \A p \in Proc :
        (SaveActive(p) /\ clean[p]) => store.active \in {Absent, store'.prev} ]_cmVars

\* A factoryReset() cut short leaves the safe baseline in force until the safe
\* file is removed, and the defaults from then on; the configuration that was
\* active, the one the user is getting rid of, is never in force again unless
\* it is the baseline or the backup too.
ResetFallsBackToBaseline ==
  \A p \in Proc :
    (at[p] \in {"reset.prev", "reset.safe", "reset.snaps", "reset.write"} /\ clean[p])
      => LoadChoice(store) \in
           IF at[p] \in {"reset.snaps", "reset.write"} THEN {Default}
           ELSE IF before[p].safe \in Valid THEN {before[p].safe}
           ELSE {before[p].prev, Default}

=============================================================================
