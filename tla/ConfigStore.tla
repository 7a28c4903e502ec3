----------------------------- MODULE ConfigStore -----------------------------
(***************************************************************************)
(* The configuration store of the login stack: the files that              *)
(* Slm::Login::ConfigManager keeps in its configuration directory, and     *)
(* what each of its operations makes of them when it runs to its end.      *)
(*                                                                         *)
(*   active   config.json, what the next session runs                      *)
(*   prev     config.prev.json, the backup save() takes                    *)
(*   safe     config.safe.json, the baseline promoteToLastGood() writes    *)
(*   snaps    the contents of snapshots/*.json                             *)
(*                                                                         *)
(* The content of a file is abstract.  Object holds the JSON objects with  *)
(* at least one key, Valid those that validateConfig() accepts; two        *)
(* objects that normalise to the same configuration are one value.  A file *)
(* that does not parse and the empty object {} are both read as an object  *)
(* without keys: Empty.  A snapshot is named by its content: ids are       *)
(* timestamps, a snapshot is never rewritten, and only factoryReset()      *)
(* removes snapshots, all of them at once.                                 *)
(***************************************************************************)

CONSTANTS
  Object,     \* non-empty JSON objects
  Valid,      \* the objects validateConfig() accepts
  Default,    \* defaultConfig()
  Empty,      \* {} or a file that does not parse
  Absent      \* there is no such file

ASSUME StoreAssumption ==
  /\ Valid \subseteq Object
  /\ Default \in Valid
  /\ Empty \notin Object
  /\ Absent \notin Object
  /\ Empty # Absent

Content == Object \cup {Empty, Absent}

Store == [active : Content, prev : Content, safe : Content,
          snaps : SUBSET (Content \ {Absent})]

\* A fresh installation: no file at all.
NoFiles == [active |-> Absent, prev |-> Absent, safe |-> Absent, snaps |-> {}]

\* loadFile(): a missing file reads as an object without keys.
ReadFile(content) == IF content = Absent THEN Empty ELSE content

\* The compositor and shell a ConfigManager whose m_config is content runs:
\* compositor() and shell() fall back to the defaults for a missing key.
Runs(content) == IF content = Empty THEN Default ELSE content

-----------------------------------------------------------------------------

\* The configuration load() settles on: the first of active, safe and prev
\* that validates, or else the built-in defaults.
LoadChoice(store) ==
  CASE store.active \in Valid -> store.active
    [] store.active \notin Valid /\ store.safe \in Valid -> store.safe
    [] /\ store.active \notin Valid
       /\ store.safe \notin Valid
       /\ store.prev \in Valid -> store.prev
    [] OTHER -> Default

\* load() repairs the active file when it did not validate.
Load(store) == [store EXCEPT !.active = LoadChoice(store)]

\* save(): back up the active file if there is one, then replace it.
Save(store, config) ==
  [store EXCEPT !.prev = IF store.active = Absent THEN @ ELSE store.active,
                !.active = config]

HasPrevious(store) == store.prev # Absent

RollbackToPrevious(store) == [store EXCEPT !.active = store.prev]

\* Without a safe file rollbackToSafe() writes the empty object.
RollbackToSafe(store) == [store EXCEPT !.active = ReadFile(store.safe)]

\* snapshot() fails when there is no active file.
CanSnapshot(store) == store.active # Absent
Snapshot(store) == [store EXCEPT !.snaps = @ \cup {store.active}]

HasSnapshot(store, id) == id \in store.snaps
RestoreSnapshot(store, id) == [store EXCEPT !.active = id]

PromoteToLastGood(store) ==
  [store EXCEPT !.safe = IF store.active = Absent THEN @ ELSE store.active]

\* The file factoryReset() writes adds two markers to the defaults and runs as
\* they do.
FactoryReset(store) ==
  [active |-> Default, prev |-> Absent, safe |-> Absent, snaps |-> {}]

=============================================================================
