------------------------- MODULE ConfigManagerProofs -------------------------
(***************************************************************************)
(* The promises of ConfigManager, for any number of processes, operations, *)
(* edits and failures, and any set of configurations.                      *)
(*                                                                         *)
(* The inductive invariant says, for every label an undisturbed process    *)
(* can stand at, what it has made of the files it began with and what it   *)
(* holds in hand: Walk relates store, buf, before and goal.                *)
(***************************************************************************)
EXTENDS ConfigManager, TLAPS

(* The operations of ConfigStore, as functions *)

\* load() always settles on a configuration that validates.
LEMMA LoadChoiceIsValid == \A s \in Store : LoadChoice(s) \in Valid
  BY StoreAssumption DEF LoadChoice, Store

\* No operation leaves the shape of the store: in particular none of them turns
\* a missing file into a snapshot.
LEMMA OperationsKeepTheStore ==
  ASSUME NEW s \in Store
  PROVE  /\ Load(s) \in Store
         /\ \A c \in Valid : Save(s, c) \in Store
         /\ HasPrevious(s) => RollbackToPrevious(s) \in Store
         /\ RollbackToSafe(s) \in Store
         /\ CanSnapshot(s) => Snapshot(s) \in Store
         /\ \A id \in s.snaps : RestoreSnapshot(s, id) \in Store
         /\ PromoteToLastGood(s) \in Store
         /\ FactoryReset(s) \in Store
  <1>. Valid \subseteq Content /\ Empty \in Content /\ Absent \in Content
       /\ Default \in Content
    BY StoreAssumption DEF Content
  <1>1. Load(s) \in Store
    BY LoadChoiceIsValid DEF Load, Store
  <1>2. \A c \in Valid : Save(s, c) \in Store
    BY DEF Save, Store
  <1>3. HasPrevious(s) => RollbackToPrevious(s) \in Store
    BY DEF RollbackToPrevious, Store
  <1>4. RollbackToSafe(s) \in Store
    BY DEF RollbackToSafe, ReadFile, Store
  <1>5. CanSnapshot(s) => Snapshot(s) \in Store
    BY DEF CanSnapshot, Snapshot, Store
  <1>6. \A id \in s.snaps : RestoreSnapshot(s, id) \in Store
    BY DEF RestoreSnapshot, Store
  <1>7. PromoteToLastGood(s) \in Store
    BY DEF PromoteToLastGood, Store
  <1>8. FactoryReset(s) \in Store
    BY DEF FactoryReset, Store
  <1>. QED BY <1>1, <1>2, <1>3, <1>4, <1>5, <1>6, <1>7, <1>8

\* The repair that load() makes does not change what the next load() chooses,
\* and a second load() finds nothing left to repair.
THEOREM LoadIsIdempotent ==
  ASSUME NEW s \in Store
  PROVE  LoadChoice(Load(s)) = LoadChoice(s) /\ Load(Load(s)) = Load(s)
  <1>1. Load(s).active = LoadChoice(s)
    BY DEF Load, Store
  <1>2. LoadChoice(Load(s)) = LoadChoice(s)
    BY <1>1, LoadChoiceIsValid DEF LoadChoice
  <1>. QED BY <1>2 DEF Load, Store

\* The configuration that save() was given is the one the next load() finds, and
\* rollbackToPrevious() brings back the one before, if that one was valid.
THEOREM SaveAndUndo ==
  ASSUME NEW s \in Store, NEW c \in Valid
  PROVE  /\ LoadChoice(Save(s, c)) = c
         /\ s.active \in Valid =>
              LoadChoice(RollbackToPrevious(Save(s, c))) = LoadChoice(s)
  <1>1. Save(s, c).active = c
    BY DEF Save, Store
  <1>2. s.active \in Valid => RollbackToPrevious(Save(s, c)).active = s.active
    BY StoreAssumption DEF RollbackToPrevious, Save, Store
  <1>. QED BY <1>1, <1>2 DEF LoadChoice

\* With a valid safe file rollbackToSafe() puts that file in force; without one,
\* and without a previous file that validates, it puts the defaults in force.
THEOREM SafeRollbackFallsBack ==
  ASSUME NEW s \in Store
  PROVE  /\ s.safe \in Valid => LoadChoice(RollbackToSafe(s)) = s.safe
         /\ (s.safe = Absent /\ s.prev \notin Valid) =>
              LoadChoice(RollbackToSafe(s)) = Default
  <1>1. /\ RollbackToSafe(s).active = ReadFile(s.safe)
        /\ RollbackToSafe(s).safe = s.safe
        /\ RollbackToSafe(s).prev = s.prev
    BY DEF RollbackToSafe, Store
  <1>2. Absent \notin Valid /\ Empty \notin Valid
    BY StoreAssumption
  <1>. QED BY <1>1, <1>2 DEF LoadChoice, ReadFile

-----------------------------------------------------------------------------
(* The walk of an operation *)

\* The files at each label of save(), when nobody else has written.
SaveWalk(p) ==
  /\ Saving(p) => goal[p] = Save(before[p], arg[p])
  /\ at[p] \in {"save.backup", "save.prev"} => store = before[p]
  /\ at[p] = "save.prev" => before[p].active # Absent /\ buf[p] = before[p].active
  /\ at[p] = "save.active" =>
       store = [before[p] EXCEPT
                  !.prev = IF before[p].active = Absent THEN @ ELSE before[p].active]

LoadLabels == {"load.active", "load.safe", "load.prev", "load.write"}

\* load() writes once, at its end: until then it has excluded candidates.
LoadWalk(p) ==
  /\ at[p] \in LoadLabels => store = before[p] /\ goal[p] = Load(before[p])
  /\ at[p] \in {"load.safe", "load.prev"} => store.active \notin Valid
  /\ at[p] = "load.prev" => store.safe \notin Valid
  /\ at[p] = "load.write" => buf[p] = LoadChoice(store)

CopyLabels == {"prev.read", "safe.read", "restore.read", "active.write",
               "snapshot.read", "snapshot.write", "promote.read", "promote.write"}

\* The operations that copy one file read it, then write once.
CopyWalk(p) ==
  /\ at[p] \in CopyLabels => store = before[p]
  /\ at[p] = "prev.read" => HasPrevious(store) /\ goal[p] = RollbackToPrevious(store)
  /\ at[p] = "safe.read" => goal[p] = RollbackToSafe(store)
  /\ at[p] = "restore.read" =>
       HasSnapshot(store, arg[p]) /\ goal[p] = RestoreSnapshot(store, arg[p])
  /\ at[p] = "active.write" => goal[p] = [store EXCEPT !.active = buf[p]]
  /\ at[p] = "snapshot.read" =>
       goal[p] = IF CanSnapshot(store) THEN Snapshot(store) ELSE store
  /\ at[p] = "snapshot.write" => goal[p] = [store EXCEPT !.snaps = @ \cup {buf[p]}]
  /\ at[p] = "promote.read" => goal[p] = PromoteToLastGood(store)
  /\ at[p] = "promote.write" => goal[p] = [store EXCEPT !.safe = buf[p]]

\* factoryReset() has removed the files up to its label.
ResetWalk(p) ==
  /\ Resetting(p) => goal[p] = FactoryReset(before[p])
  /\ at[p] = "reset.active" => store = before[p]
  /\ at[p] = "reset.prev" => store = [before[p] EXCEPT !.active = Absent]
  /\ at[p] = "reset.safe" =>
       store = [before[p] EXCEPT !.active = Absent, !.prev = Absent]
  /\ at[p] = "reset.snaps" =>
       store = [before[p] EXCEPT !.active = Absent, !.prev = Absent, !.safe = Absent]
  /\ at[p] = "reset.write" => store = NoFiles

Walk ==
  \A p \in Proc : clean[p] => SaveWalk(p) /\ LoadWalk(p) /\ CopyWalk(p) /\ ResetWalk(p)

IInv == TypeOK /\ Walk

-----------------------------------------------------------------------------
(* Types *)

LEMMA ContentFacts ==
  /\ Valid \subseteq Content \ {Absent}
  /\ Empty \in Content \ {Absent}
  /\ Absent \in Content
  /\ Default \in Valid
  /\ NoFiles \in Store
  BY StoreAssumption DEF Content, NoFiles, Store

LEMMA TypeInit == Init => TypeOK
  BY ContentFacts DEF Init, TypeOK, Label

LEMMA TypeBegin ==
  ASSUME TypeOK, NEW p \in Proc, BeginOp(p)
  PROVE  TypeOK'
  <1>1. ASSUME NEW label \in Label, NEW value \in Content \ {Absent},
               NEW whole \in Store, Begin(p, label, value, whole)
        PROVE  TypeOK'
    BY <1>1 DEF TypeOK, Begin
  <1>2. CASE BeginSave(p)
    BY <1>1, <1>2, ContentFacts, OperationsKeepTheStore
    DEF BeginSave, Label, TypeOK
  <1>3. CASE BeginLoad(p)
    BY <1>1, <1>3, ContentFacts, OperationsKeepTheStore
    DEF BeginLoad, Label, TypeOK
  <1>4. CASE BeginRollbackToPrevious(p)
    BY <1>1, <1>4, ContentFacts, OperationsKeepTheStore
    DEF BeginRollbackToPrevious, Label, TypeOK
  <1>5. CASE BeginRollbackToSafe(p)
    BY <1>1, <1>5, ContentFacts, OperationsKeepTheStore
    DEF BeginRollbackToSafe, Label, TypeOK
  <1>6. CASE BeginRestoreSnapshot(p)
    BY <1>1, <1>6, ContentFacts, OperationsKeepTheStore
    DEF BeginRestoreSnapshot, Label, TypeOK, Store
  <1>7. CASE BeginSnapshot(p)
    BY <1>1, <1>7, ContentFacts, OperationsKeepTheStore
    DEF BeginSnapshot, Label, TypeOK
  <1>8. CASE BeginPromote(p)
    BY <1>1, <1>8, ContentFacts, OperationsKeepTheStore
    DEF BeginPromote, Label, TypeOK
  <1>9. CASE BeginFactoryReset(p)
    BY <1>1, <1>9, ContentFacts, OperationsKeepTheStore
    DEF BeginFactoryReset, Label, TypeOK
  <1>. QED
    BY <1>2, <1>3, <1>4, <1>5, <1>6, <1>7, <1>8, <1>9 DEF BeginOp

\* A step that reads, and one that writes, keep the types if what they read and
\* write does.
LEMMA TypeRead ==
  ASSUME TypeOK, NEW p \in Proc, NEW from, NEW to \in Label,
         NEW content \in Content \ {Absent}, Read(p, from, to, content)
  PROVE  TypeOK'
  BY DEF TypeOK, Read

LEMMA TypeWrite ==
  ASSUME TypeOK, NEW p \in Proc, NEW from, NEW to \in Label, NEW newStore \in Store,
         Write(p, from, to, newStore),
         config' \in [Proc -> Content \ {Absent}]
  PROVE  TypeOK'
  BY DEF TypeOK, Write

LEMMA TypeLoad ==
  ASSUME TypeOK, NEW p \in Proc, LoadStep(p)
  PROVE  TypeOK'
  <1>1. CASE LoadActive(p)
    BY <1>1, ContentFacts DEF LoadActive, TypeOK, Label
  <1>2. CASE LoadSafe(p)
    BY <1>2, ContentFacts, TypeRead DEF LoadSafe, Label
  <1>3. CASE LoadPrev(p)
    BY <1>3, ContentFacts, TypeRead DEF LoadPrev, Label
  <1>4. CASE LoadWrite(p)
    <2>1. [store EXCEPT !.active = buf[p]] \in Store
      BY DEF TypeOK, Store
    <2>2. config' \in [Proc -> Content \ {Absent}]
      BY <1>4 DEF LoadWrite, TypeOK
    <2>. QED BY <1>4, <2>1, <2>2, TypeWrite DEF LoadWrite, Label
  <1>. QED BY <1>1, <1>2, <1>3, <1>4 DEF LoadStep

LEMMA TypeSave ==
  ASSUME TypeOK, NEW p \in Proc, SaveStep(p)
  PROVE  TypeOK'
  <1>1. CASE SaveBackup(p)
    <2>1. store.active \in Content
      BY DEF TypeOK, Store
    <2>. QED BY <1>1, <2>1, ContentFacts, TypeRead DEF SaveBackup, Label
  <1>2. CASE SavePrev(p)
    <2>1. [store EXCEPT !.prev = buf[p]] \in Store
      BY DEF TypeOK, Store
    <2>2. config' \in [Proc -> Content \ {Absent}]
      BY <1>2 DEF SavePrev, TypeOK
    <2>. QED BY <1>2, <2>1, <2>2, TypeWrite DEF SavePrev, Label
  <1>3. CASE SaveActive(p)
    <2>1. [store EXCEPT !.active = arg[p]] \in Store
      BY DEF TypeOK, Store
    <2>2. config' \in [Proc -> Content \ {Absent}]
      BY <1>3 DEF SaveActive, TypeOK
    <2>. QED BY <1>3, <2>1, <2>2, TypeWrite DEF SaveActive, Label
  <1>. QED BY <1>1, <1>2, <1>3 DEF SaveStep

LEMMA TypeCopy ==
  ASSUME TypeOK, NEW p \in Proc, CopyStep(p)
  PROVE  TypeOK'
  <1>1. ASSUME NEW from, NEW content \in Content, ReadSource(p, from, content)
        PROVE  TypeOK'
    <2>1. buf[p] \in Content \ {Absent}
      BY DEF TypeOK
    <2>. QED BY <1>1, <2>1, TypeRead DEF ReadSource, Label
  <1>2. ASSUME NEW from, NEW to \in Label, CopyActive(p, from, to)
        PROVE  TypeOK'
    <2>1. buf[p] \in Content \ {Absent} /\ store.active \in Content
      BY DEF TypeOK, Store
    <2>. QED BY <1>2, <2>1, TypeRead DEF CopyActive, Label
  <1>3. /\ store.prev \in Content /\ store.safe \in Content
        /\ store.snaps \subseteq Content
        /\ arg[p] \in Content
    BY DEF TypeOK, Store
  <1>4. CASE PrevRead(p)
    BY <1>1, <1>3, <1>4 DEF PrevRead
  <1>5. CASE SafeRead(p)
    <2>1. ReadFile(store.safe) \in Content \ {Absent}
      BY <1>3, ContentFacts DEF ReadFile
    <2>. QED BY <1>5, <2>1, TypeRead DEF SafeRead, Label
  <1>6. CASE RestoreRead(p)
    BY <1>1, <1>3, <1>6, ContentFacts DEF RestoreRead
  <1>7. CASE ActiveWrite(p)
    <2>1. [store EXCEPT !.active = buf[p]] \in Store
      BY DEF TypeOK, Store
    <2>2. config' \in [Proc -> Content \ {Absent}]
      BY <1>7 DEF ActiveWrite, TypeOK
    <2>. QED BY <1>7, <2>1, <2>2, TypeWrite DEF ActiveWrite, Label
  <1>8. CASE SnapshotRead(p)
    BY <1>2, <1>8 DEF SnapshotRead, Label
  <1>9. CASE SnapshotWrite(p)
    <2>1. [store EXCEPT !.snaps = @ \cup {buf[p]}] \in Store
      BY DEF TypeOK, Store
    <2>2. config' \in [Proc -> Content \ {Absent}]
      BY <1>9 DEF SnapshotWrite, TypeOK
    <2>. QED BY <1>9, <2>1, <2>2, TypeWrite DEF SnapshotWrite, Label
  <1>10. CASE PromoteRead(p)
    BY <1>2, <1>10 DEF PromoteRead, Label
  <1>11. CASE PromoteWrite(p)
    <2>1. [store EXCEPT !.safe = buf[p]] \in Store
      BY DEF TypeOK, Store
    <2>2. config' \in [Proc -> Content \ {Absent}]
      BY <1>11 DEF PromoteWrite, TypeOK
    <2>. QED BY <1>11, <2>1, <2>2, TypeWrite DEF PromoteWrite, Label
  <1>. QED
    BY <1>4, <1>5, <1>6, <1>7, <1>8, <1>9, <1>10, <1>11 DEF CopyStep

LEMMA TypeReset ==
  ASSUME TypeOK, NEW p \in Proc, ResetStep(p)
  PROVE  TypeOK'
  <1>1. /\ [store EXCEPT !.active = Absent] \in Store
        /\ [store EXCEPT !.prev = Absent] \in Store
        /\ [store EXCEPT !.safe = Absent] \in Store
        /\ [store EXCEPT !.snaps = {}] \in Store
        /\ [store EXCEPT !.active = Default] \in Store
    BY ContentFacts DEF TypeOK, Store
  <1>2. config' \in [Proc -> Content \ {Absent}]
    BY ContentFacts
    DEF ResetStep, ResetActive, ResetPrev, ResetSafe, ResetSnaps, ResetWrite, TypeOK
  <1>. QED
    BY <1>1, <1>2, TypeWrite
    DEF ResetStep, ResetActive, ResetPrev, ResetSafe, ResetSnaps, ResetWrite, Label

LEMMA TypeOther ==
  ASSUME TypeOK,
         EditActive \/ \E p \in Proc : Fail(p) \/ Crash(p)
  PROVE  TypeOK'
  <1>1. CASE EditActive
    <2>1. \A content \in Content : [store EXCEPT !.active = content] \in Store
      BY DEF TypeOK, Store
    <2>. QED BY <1>1, <2>1 DEF EditActive, TypeOK
  <1>2. ASSUME NEW p \in Proc, Fail(p)
        PROVE  TypeOK'
    BY <1>2 DEF Fail, TypeOK, Label
  <1>3. ASSUME NEW p \in Proc, Crash(p)
        PROVE  TypeOK'
    BY <1>3, ContentFacts DEF Crash, TypeOK, Label
  <1>. QED BY <1>1, <1>2, <1>3

LEMMA TypeNext == TypeOK /\ [Next]_cmVars => TypeOK'
  <1>. SUFFICES ASSUME TypeOK, [Next]_cmVars
                PROVE  TypeOK'
    OBVIOUS
  <1>1. CASE UNCHANGED cmVars
    BY <1>1 DEF cmVars, TypeOK
  <1>2. CASE Next
    BY <1>1, <1>2, TypeBegin, TypeLoad, TypeSave, TypeCopy, TypeReset, TypeOther
    DEF Next, Step, Finished
  <1>. QED BY <1>1, <1>2

\* Every process always stands at a label with contents in hand that its next
\* step can write: no missing file is ever copied, run or kept as a snapshot.
THEOREM TypeCorrect == Spec => []TypeOK
  BY TypeInit, TypeNext, PTL DEF Spec

-----------------------------------------------------------------------------
(* The walk of one process *)

\* Whatever leaves the files and a process alone leaves its walk alone.
LEMMA WalkUntouched ==
  ASSUME NEW p \in Proc,
         clean[p] => SaveWalk(p) /\ LoadWalk(p) /\ CopyWalk(p) /\ ResetWalk(p),
         clean'[p] => /\ clean[p] /\ store' = store
                      /\ at'[p] = at[p] /\ arg'[p] = arg[p] /\ buf'[p] = buf[p]
                      /\ before'[p] = before[p] /\ goal'[p] = goal[p]
  PROVE  clean'[p] =>
           SaveWalk(p)' /\ LoadWalk(p)' /\ CopyWalk(p)' /\ ResetWalk(p)'
  BY DEF SaveWalk, LoadWalk, CopyWalk, ResetWalk, Saving, Resetting

WalkOf(p) == clean[p] => SaveWalk(p) /\ LoadWalk(p) /\ CopyWalk(p) /\ ResetWalk(p)

LEMMA WalkBegin ==
  ASSUME TypeOK, NEW p \in Proc, BeginOp(p)
  PROVE  WalkOf(p)'
  <1>. USE DEF WalkOf, SaveWalk, LoadWalk, CopyWalk, ResetWalk, Saving, Resetting,
               LoadLabels, CopyLabels, Begin, TypeOK
  <1>1. CASE BeginSave(p)
    BY <1>1 DEF BeginSave
  <1>2. CASE BeginLoad(p)
    BY <1>2 DEF BeginLoad
  <1>3. CASE BeginRollbackToPrevious(p)
    BY <1>3 DEF BeginRollbackToPrevious
  <1>4. CASE BeginRollbackToSafe(p)
    BY <1>4 DEF BeginRollbackToSafe
  <1>5. CASE BeginRestoreSnapshot(p)
    BY <1>5 DEF BeginRestoreSnapshot, HasSnapshot
  <1>6. CASE BeginSnapshot(p)
    BY <1>6 DEF BeginSnapshot
  <1>7. CASE BeginPromote(p)
    BY <1>7 DEF BeginPromote
  <1>8. CASE BeginFactoryReset(p)
    BY <1>8 DEF BeginFactoryReset
  <1>. QED
    BY <1>1, <1>2, <1>3, <1>4, <1>5, <1>6, <1>7, <1>8 DEF BeginOp

LEMMA WalkLoad ==
  ASSUME TypeOK, NEW p \in Proc, WalkOf(p), LoadStep(p)
  PROVE  WalkOf(p)'
  <1>. USE DEF WalkOf, SaveWalk, LoadWalk, CopyWalk, ResetWalk, Saving, Resetting,
               LoadLabels, CopyLabels, Read, Write, TypeOK
  <1>1. CASE LoadActive(p)
    BY <1>1 DEF LoadActive
  <1>2. CASE LoadSafe(p)
    BY <1>2 DEF LoadSafe, LoadChoice
  <1>3. CASE LoadPrev(p)
    BY <1>3 DEF LoadPrev, LoadChoice
  <1>4. CASE LoadWrite(p)
    BY <1>4 DEF LoadWrite
  <1>. QED BY <1>1, <1>2, <1>3, <1>4 DEF LoadStep

LEMMA WalkSave ==
  ASSUME TypeOK, NEW p \in Proc, WalkOf(p), SaveStep(p)
  PROVE  WalkOf(p)'
  <1>. USE DEF WalkOf, SaveWalk, LoadWalk, CopyWalk, ResetWalk, Saving, Resetting,
               LoadLabels, CopyLabels, Read, Write, TypeOK
  <1>1. CASE SaveBackup(p)
    BY <1>1 DEF SaveBackup, Store
  <1>2. CASE SavePrev(p)
    BY <1>2 DEF SavePrev, Store
  <1>3. CASE SaveActive(p)
    BY <1>3 DEF SaveActive
  <1>. QED BY <1>1, <1>2, <1>3 DEF SaveStep

LEMMA WalkCopy ==
  ASSUME TypeOK, NEW p \in Proc, WalkOf(p), CopyStep(p)
  PROVE  WalkOf(p)'
  <1>. USE DEF WalkOf, SaveWalk, LoadWalk, CopyWalk, ResetWalk, Saving, Resetting,
               LoadLabels, CopyLabels, Read, Write, TypeOK
  <1>1. CASE PrevRead(p)
    BY <1>1 DEF PrevRead, ReadSource, HasPrevious, RollbackToPrevious
  <1>2. CASE SafeRead(p)
    BY <1>2 DEF SafeRead, RollbackToSafe
  <1>3. CASE RestoreRead(p)
    BY <1>3 DEF RestoreRead, ReadSource, HasSnapshot, RestoreSnapshot
  <1>4. CASE ActiveWrite(p)
    BY <1>4 DEF ActiveWrite
  <1>5. CASE SnapshotRead(p)
    <2>1. CASE store.active = Absent
      BY <1>5, <2>1 DEF SnapshotRead, CopyActive
    <2>2. CASE store.active # Absent
      <3>1. clean[p] => goal[p] = Snapshot(store)
        BY <1>5, <2>2 DEF SnapshotRead, CopyActive, CanSnapshot
      <3>. QED BY <1>5, <2>2, <3>1 DEF SnapshotRead, CopyActive, Snapshot
    <2>. QED BY <2>1, <2>2
  <1>6. CASE SnapshotWrite(p)
    BY <1>6 DEF SnapshotWrite
  <1>7. CASE PromoteRead(p)
    BY <1>7 DEF PromoteRead, CopyActive, PromoteToLastGood
  <1>8. CASE PromoteWrite(p)
    BY <1>8 DEF PromoteWrite
  <1>. QED
    BY <1>1, <1>2, <1>3, <1>4, <1>5, <1>6, <1>7, <1>8 DEF CopyStep

\* A store without files, once its snapshots are gone.
LEMMA EmptiedStore ==
  ASSUME NEW s \in Store, s.active = Absent, s.prev = Absent, s.safe = Absent
  PROVE  [s EXCEPT !.snaps = {}] = NoFiles
  BY DEF Store, NoFiles

LEMMA SnapshotsReset ==
  ASSUME TypeOK, NEW p \in Proc, WalkOf(p), ResetSnaps(p)
  PROVE  clean[p] => store' = NoFiles
  <1>. SUFFICES ASSUME clean[p] PROVE store' = NoFiles
    OBVIOUS
  <1>1. store \in Store /\ before[p] \in Store
    BY DEF TypeOK
  <1>2. store = [before[p] EXCEPT !.active = Absent, !.prev = Absent, !.safe = Absent]
    BY DEF WalkOf, ResetWalk, ResetSnaps, Write, Read
  <1>3. store.active = Absent /\ store.prev = Absent /\ store.safe = Absent
    BY <1>1, <1>2 DEF Store
  <1>4. store' = [store EXCEPT !.snaps = {}]
    BY DEF ResetSnaps, Write
  <1>. QED BY <1>1, <1>3, <1>4, EmptiedStore

LEMMA WalkReset ==
  ASSUME TypeOK, NEW p \in Proc, WalkOf(p), ResetStep(p)
  PROVE  WalkOf(p)'
  <1>. USE DEF WalkOf, SaveWalk, LoadWalk, CopyWalk, ResetWalk, Saving, Resetting,
               LoadLabels, CopyLabels, Read, Write, TypeOK
  <1>1. CASE ResetActive(p)
    BY <1>1 DEF ResetActive
  <1>2. CASE ResetPrev(p)
    BY <1>2 DEF ResetPrev
  <1>3. CASE ResetSafe(p)
    BY <1>3 DEF ResetSafe
  <1>4. CASE ResetSnaps(p)
    <2>1. clean[p] => store' = NoFiles
      BY <1>4, SnapshotsReset
    <2>. QED BY <1>4, <2>1 DEF ResetSnaps
  <1>5. CASE ResetWrite(p)
    BY <1>5 DEF ResetWrite
  <1>. QED BY <1>1, <1>2, <1>3, <1>4, <1>5 DEF ResetStep

\* A step of another process either writes, and p is disturbed, or it does not
\* touch what the walk of p is about.
LEMMA WalkOfOthers ==
  ASSUME TypeOK, NEW p \in Proc, NEW q \in Proc, p # q,
         BeginOp(q) \/ Step(q) \/ Fail(q) \/ Crash(q)
  PROVE  clean'[p] => /\ clean[p] /\ store' = store
                      /\ at'[p] = at[p] /\ arg'[p] = arg[p] /\ buf'[p] = buf[p]
                      /\ before'[p] = before[p] /\ goal'[p] = goal[p]
  <1>. USE DEF TypeOK
  <1>1. CASE BeginOp(q)
    BY <1>1
    DEF BeginOp, Begin, BeginSave, BeginLoad, BeginRollbackToPrevious,
        BeginRollbackToSafe, BeginRestoreSnapshot, BeginSnapshot, BeginPromote,
        BeginFactoryReset
  <1>2. CASE LoadStep(q)
    BY <1>2 DEF LoadStep, LoadActive, LoadSafe, LoadPrev, LoadWrite, Read, Write
  <1>3. CASE SaveStep(q)
    BY <1>3 DEF SaveStep, SaveBackup, SavePrev, SaveActive, Read, Write
  <1>4. CASE CopyStep(q)
    BY <1>4
    DEF CopyStep, PrevRead, SafeRead, RestoreRead, ActiveWrite, SnapshotRead,
        SnapshotWrite, PromoteRead, PromoteWrite, ReadSource, CopyActive, Read, Write
  <1>5. CASE ResetStep(q)
    BY <1>5
    DEF ResetStep, ResetActive, ResetPrev, ResetSafe, ResetSnaps, ResetWrite, Write
  <1>6. CASE Fail(q)
    BY <1>6 DEF Fail
  <1>7. CASE Crash(q)
    BY <1>7 DEF Crash
  <1>. QED BY <1>1, <1>2, <1>3, <1>4, <1>5, <1>6, <1>7 DEF Step

LEMMA InductiveInit == Init => IInv
  BY TypeInit
  DEF Init, IInv, Walk, SaveWalk, LoadWalk, CopyWalk, ResetWalk, Saving, Resetting,
      LoadLabels, CopyLabels

LEMMA InductiveNext == IInv /\ [Next]_cmVars => IInv'
  <1>. SUFFICES ASSUME IInv, [Next]_cmVars
                PROVE  Walk'
    BY TypeNext DEF IInv
  <1>. TypeOK /\ \A p \in Proc : WalkOf(p)
    BY DEF IInv, Walk, WalkOf
  <1>. SUFFICES ASSUME NEW p \in Proc
                PROVE  WalkOf(p)'
    BY DEF Walk, WalkOf
  <1>1. CASE BeginOp(p) \/ Step(p)
    BY <1>1, WalkBegin, WalkLoad, WalkSave, WalkCopy, WalkReset DEF Step
  <1>2. CASE Fail(p)
    BY <1>2 DEF Fail, WalkOf, TypeOK
  <1>3. CASE Crash(p)
    BY <1>3
    DEF Crash, TypeOK, WalkOf, SaveWalk, LoadWalk, CopyWalk, ResetWalk, Saving,
        Resetting, LoadLabels, CopyLabels
  <1>4. ASSUME NEW q \in Proc, p # q, BeginOp(q) \/ Step(q) \/ Fail(q) \/ Crash(q)
        PROVE  WalkOf(p)'
    BY <1>4, WalkOfOthers, WalkUntouched DEF WalkOf
  <1>5. CASE EditActive
    BY <1>5 DEF EditActive, WalkOf
  <1>6. CASE UNCHANGED cmVars
    BY <1>6, WalkUntouched DEF cmVars, WalkOf
  <1>. QED BY <1>1, <1>2, <1>3, <1>4, <1>5, <1>6 DEF Next, Finished

LEMMA Inductive == Spec => []IInv
  BY InductiveInit, InductiveNext, PTL DEF Spec

-----------------------------------------------------------------------------
(* The promises *)

LEMMA AllOrNothingHolds == IInv => AllOrNothing
  <1>. SUFFICES ASSUME IInv, NEW p \in Proc, at[p] # "idle", clean[p], ~Resetting(p),
                       Saving(p) => before[p].active \in Valid
                PROVE  BeforeOrAfter(p)
    BY DEF AllOrNothing
  <1>1. before[p] \in Store /\ at[p] \in Label
    BY DEF IInv, TypeOK
  <1>2. CASE at[p] = "save.active"
    <2>1. store = [before[p] EXCEPT !.prev = before[p].active]
      BY <1>2, StoreAssumption DEF IInv, Walk, SaveWalk, Content, Saving
    <2>2. store.active = before[p].active
      BY <1>1, <2>1 DEF Store
    <2>. QED BY <1>2, <2>2 DEF LoadChoice, BeforeOrAfter, Saving
  <1>3. CASE at[p] # "save.active"
    <2>1. store = before[p]
      BY <1>1, <1>3
      DEF IInv, Walk, SaveWalk, LoadWalk, CopyWalk, Resetting, Label, LoadLabels,
          CopyLabels
    <2>. QED BY <2>1 DEF BeforeOrAfter
  <1>. QED BY <1>2, <1>3

\* An operation cut short anywhere, by a crash of its process or a loss of
\* power, leaves the configuration of before or of after in force.
THEOREM NothingInBetween == Spec => []AllOrNothing
  BY Inductive, AllOrNothingHolds, PTL

LEMMA ResetHolds == IInv => ResetFallsBackToBaseline
  <1>. SUFFICES ASSUME IInv, NEW p \in Proc, clean[p],
                       at[p] \in {"reset.prev", "reset.safe", "reset.snaps", "reset.write"}
                PROVE  LoadChoice(store) \in
                         IF at[p] \in {"reset.snaps", "reset.write"} THEN {Default}
                         ELSE IF before[p].safe \in Valid THEN {before[p].safe}
                         ELSE {before[p].prev, Default}
    BY DEF ResetFallsBackToBaseline
  <1>1. before[p] \in Store /\ Absent \notin Valid
    BY StoreAssumption DEF IInv, TypeOK
  <1>2. ResetWalk(p)
    BY DEF IInv, Walk
  <1>3. store.active = Absent
    <2>1. CASE at[p] = "reset.prev"
      BY <1>1, <1>2, <2>1 DEF ResetWalk, Store
    <2>2. CASE at[p] = "reset.safe"
      BY <1>1, <1>2, <2>2 DEF ResetWalk, Store
    <2>3. CASE at[p] = "reset.snaps"
      BY <1>1, <1>2, <2>3 DEF ResetWalk, Store
    <2>4. CASE at[p] = "reset.write"
      BY <1>2, <2>4 DEF ResetWalk, NoFiles
    <2>. QED BY <2>1, <2>2, <2>3, <2>4
  <1>4. CASE at[p] \in {"reset.snaps", "reset.write"}
    <2>1. store.prev = Absent /\ store.safe = Absent
      <3>1. CASE at[p] = "reset.snaps"
        BY <1>1, <1>2, <3>1 DEF ResetWalk, Store
      <3>2. CASE at[p] = "reset.write"
        BY <1>2, <3>2 DEF ResetWalk, NoFiles
      <3>. QED BY <1>4, <3>1, <3>2
    <2>. QED BY <1>1, <1>3, <1>4, <2>1 DEF LoadChoice
  <1>5. CASE at[p] \in {"reset.prev", "reset.safe"}
    <2>1. store.safe = before[p].safe /\ store.prev \in {before[p].prev, Absent}
      BY <1>1, <1>2, <1>5 DEF ResetWalk, Store
    <2>. QED BY <1>1, <1>3, <1>5, <2>1 DEF LoadChoice
  <1>. QED BY <1>4, <1>5

\* A factory reset cut short never brings the configuration back that the user
\* wanted to be rid of, unless it is the baseline or the backup.
THEOREM ResetIsSafe == Spec => []ResetFallsBackToBaseline
  BY Inductive, ResetHolds, PTL

\* The last step of each operation, taken undisturbed, completes the effect the
\* operation has when nothing else runs.
LEMMA LastStep ==
  ASSUME IInv, NEW p \in Proc, Step(p), at'[p] = "idle", clean[p]
  PROVE  store' = goal[p]
  <1>. USE DEF Read, Write, TypeOK, IInv
  <1>1. before[p] \in Store /\ store \in Store /\ p \in DOMAIN at
    OBVIOUS
  <1>2. SaveWalk(p) /\ LoadWalk(p) /\ CopyWalk(p) /\ ResetWalk(p)
    BY DEF Walk
  <1>3. CASE LoadStep(p)
    <2>1. CASE LoadActive(p)
      <3>1. LoadChoice(store) = store.active
        BY <1>1, <2>1 DEF LoadActive, LoadChoice
      <3>2. [store EXCEPT !.active = store.active] = store
        BY DEF Store
      <3>. QED BY <1>2, <2>1, <3>1, <3>2 DEF LoadActive, LoadWalk, LoadLabels, Load
    <2>2. CASE LoadWrite(p)
      BY <1>2, <2>2 DEF LoadWrite, LoadWalk, LoadLabels, Load
    <2>. QED
      BY <1>1, <1>3, <2>1, <2>2 DEF LoadStep, LoadSafe, LoadPrev
  <1>4. CASE SaveStep(p)
    <2>1. CASE SaveActive(p)
      BY <1>1, <1>2, <2>1 DEF SaveActive, SaveWalk, Saving, Save
    <2>. QED
      BY <1>1, <1>4, <2>1 DEF SaveStep, SaveBackup, SavePrev
  <1>5. CASE CopyStep(p)
    <2>1. CASE PrevRead(p)
      BY <1>1, <1>2, <2>1 DEF PrevRead, ReadSource, CopyWalk, HasPrevious
    <2>2. CASE SafeRead(p)
      BY <1>1, <2>2 DEF SafeRead
    <2>3. CASE RestoreRead(p)
      BY <1>1, <1>2, <2>3 DEF RestoreRead, ReadSource, CopyWalk, HasSnapshot, Store
    <2>4. CASE ActiveWrite(p)
      BY <1>2, <2>4 DEF ActiveWrite, CopyWalk
    <2>5. CASE SnapshotRead(p)
      BY <1>1, <1>2, <2>5 DEF SnapshotRead, CopyActive, CopyWalk, CanSnapshot
    <2>6. CASE SnapshotWrite(p)
      BY <1>2, <2>6 DEF SnapshotWrite, CopyWalk
    <2>7. CASE PromoteRead(p)
      <3>1. [store EXCEPT !.safe = store.safe] = store
        BY DEF Store
      <3>. QED
        BY <1>1, <1>2, <2>7, <3>1 DEF PromoteRead, CopyActive, CopyWalk, PromoteToLastGood
    <2>8. CASE PromoteWrite(p)
      BY <1>2, <2>8 DEF PromoteWrite, CopyWalk
    <2>. QED
      BY <1>5, <2>1, <2>2, <2>3, <2>4, <2>5, <2>6, <2>7, <2>8 DEF CopyStep
  <1>6. CASE ResetStep(p)
    <2>1. CASE ResetWrite(p)
      <3>1. [NoFiles EXCEPT !.active = Default] = FactoryReset(before[p])
        BY DEF NoFiles, FactoryReset
      <3>. QED BY <1>2, <2>1, <3>1 DEF ResetWrite, ResetWalk, Resetting
    <2>. QED
      BY <1>1, <1>6, <2>1 DEF ResetStep, ResetActive, ResetPrev, ResetSafe, ResetSnaps
  <1>. QED BY <1>3, <1>4, <1>5, <1>6 DEF Step

\* The reads, removals and writes of an undisturbed operation add up to the one
\* step that ConfigStore makes of it.
THEOREM OneStepPerOperation == Spec => CoarseGrain
  <1>1. IInv /\ [Next]_cmVars =>
          [\A p \in Proc :
             (Step(p) /\ at'[p] = "idle" /\ clean[p]) => store' = goal[p]]_cmVars
    BY LastStep
  <1>. QED BY <1>1, Inductive, PTL DEF Spec, CoarseGrain

\* Repairing the active file never changes what the next load() will choose.
THEOREM RepairIsStable == Spec => LoadIsStable
  <1>1. IInv /\ [Next]_cmVars =>
          [\A p \in Proc :
             (LoadStep(p) /\ clean[p]) => LoadChoice(store') = LoadChoice(store)]_cmVars
    <2>. SUFFICES ASSUME IInv, NEW p \in Proc, LoadStep(p), clean[p]
                  PROVE  LoadChoice(store') = LoadChoice(store)
      OBVIOUS
    <2>1. CASE LoadWrite(p)
      <3>1. store' = Load(store)
        BY <2>1 DEF LoadWrite, Write, IInv, Walk, LoadWalk, Load
      <3>. QED BY <3>1, LoadIsIdempotent DEF IInv, TypeOK
    <2>2. CASE ~LoadWrite(p)
      BY <2>2 DEF LoadStep, LoadActive, LoadSafe, LoadPrev, Read
    <2>. QED BY <2>1, <2>2
  <1>. QED BY <1>1, Inductive, PTL DEF Spec, LoadIsStable

\* The active file that save() overwrites is in the previous file by then.
THEOREM BackupBeforeSave == Spec => SaveCanBeUndone
  <1>1. IInv /\ [Next]_cmVars =>
          [\A p \in Proc :
             (SaveActive(p) /\ clean[p]) => store.active \in {Absent, store'.prev}]_cmVars
    <2>. SUFFICES ASSUME IInv, NEW p \in Proc, SaveActive(p), clean[p]
                  PROVE  store.active \in {Absent, store'.prev}
      OBVIOUS
    <2>1. before[p] \in Store /\ store \in Store
      BY DEF IInv, TypeOK
    <2>2. store = [before[p] EXCEPT
                     !.prev = IF before[p].active = Absent THEN @ ELSE before[p].active]
      BY DEF SaveActive, Write, IInv, Walk, SaveWalk
    <2>3. store'.prev = store.prev
      BY <2>1 DEF SaveActive, Write, Store
    <2>. QED BY <2>1, <2>2, <2>3 DEF Store
  <1>. QED BY <1>1, Inductive, PTL DEF Spec, SaveCanBeUndone
=============================================================================
