--------------------------- MODULE SessionLockProofs ---------------------------
(***************************************************************************)
(* The session lock, for any number of operations, faults and deaths.      *)
(***************************************************************************)
EXTENDS SessionLock, SequenceTheorems, TLAPS

\* What desktopd is in the middle of is the first of its calls.
Busy == desktopd = "busy" => calls # <<>>

TypeInv == TypeOK /\ Busy

\* TypeOK process by process, so that a step can leave most of it alone.
DesktopdOK == /\ desktopd \in {"down", "ready", "busy"} /\ state \in LockState
              /\ idle \in BOOLEAN /\ calls \in Seq(Call)
SaverOK == saver \in BOOLEAN /\ echoes \in Seq(BOOLEAN)
ShellOK == /\ shell \in {"down", "named", "up"} \cup Waiting
           /\ valid \in BOOLEAN /\ locked \in BOOLEAN /\ visible \in BOOLEAN
           /\ inbox \in Seq(Signal) /\ answer \in Answer
LockdOK == /\ lockd \in {"down", "watching", "up", "calling"}
           /\ alive \in BOOLEAN /\ notices \in Seq(BOOLEAN)
HistoryOK == owed \in BOOLEAN /\ astray \in BOOLEAN /\ adrift \in BOOLEAN
BoundsOK == ops \in 0 .. MaxOps /\ faults \in 0 .. MaxFaults /\ deaths \in 0 .. MaxDeaths

LEMMA TypeParts ==
  /\ TypeOK <=> DesktopdOK /\ SaverOK /\ ShellOK /\ LockdOK /\ HistoryOK /\ BoundsOK
  /\ TypeOK' <=> DesktopdOK' /\ SaverOK' /\ ShellOK' /\ LockdOK' /\ HistoryOK' /\ BoundsOK'
  BY Zenon DEF TypeOK, DesktopdOK, SaverOK, ShellOK, LockdOK, HistoryOK, BoundsOK

LEMMA PartsStay ==
  ASSUME TypeOK
  PROVE  /\ UNCHANGED desktopdVars => DesktopdOK'
         /\ UNCHANGED saverVars => SaverOK'
         /\ UNCHANGED shellVars => ShellOK'
         /\ UNCHANGED lockdVars => LockdOK'
         /\ UNCHANGED historyVars => HistoryOK'
         /\ UNCHANGED boundVars => BoundsOK'
  <1>1. UNCHANGED desktopdVars => DesktopdOK'
    BY TypeParts DEF desktopdVars, DesktopdOK
  <1>2. UNCHANGED saverVars => SaverOK'
    BY TypeParts DEF saverVars, SaverOK
  <1>3. UNCHANGED shellVars => ShellOK'
    BY TypeParts DEF shellVars, ShellOK
  <1>4. UNCHANGED lockdVars => LockdOK'
    BY TypeParts DEF lockdVars, LockdOK
  <1>5. UNCHANGED historyVars => HistoryOK'
    BY TypeParts DEF historyVars, HistoryOK
  <1>6. UNCHANGED boundVars => BoundsOK'
    BY TypeParts DEF boundVars, BoundsOK
  <1>. QED BY <1>1, <1>2, <1>3, <1>4, <1>5, <1>6

\* The sequences the processes send and receive.
LEMMA SequenceTypes ==
  ASSUME NEW S, NEW s \in Seq(S)
  PROVE  /\ \A x \in S : Append(s, x) \in Seq(S) /\ Append(s, x) # <<>>
         /\ \A t \in Seq(S) : s \o t \in Seq(S)
         /\ s # <<>> => Head(s) \in S /\ Tail(s) \in Seq(S)
  BY AppendProperties, ConcatProperties, HeadTailProperties

\* What setLockState() stores and emits.
LEMMA SetLockStateTypes ==
  ASSUME TypeOK, NEW s \in LockState, SetLockState(s)
  PROVE  state' = s /\ state' \in LockState /\ inbox' \in Seq(Signal)
  <1>. DEFINE sent == CASE s = "Locked" -> <<s, "SessionLocked">>
                        [] s = "Active" -> <<s, "SessionUnlocked">>
                        [] OTHER        -> <<s>>
  <1>1. sent \in Seq(Signal)
    <2>1. s \in Signal /\ "SessionLocked" \in Signal /\ "SessionUnlocked" \in Signal
      BY DEF LockState, Signal
    <2>2. \A x, y \in Signal : <<x>> \in Seq(Signal) /\ <<x, y>> \in Seq(Signal)
      OBVIOUS
    <2>. QED BY <2>1, <2>2
  <1>2. inbox' = inbox \/ inbox' = inbox \o sent
    BY DEF SetLockState, Send
  <1>. HIDE DEF sent
  <1>. QED BY <1>1, <1>2, SequenceTypes DEF TypeOK, SetLockState

\* Answering a call takes it off the queue.
LEMMA ReturnTypes ==
  ASSUME TypeOK, calls # <<>>, NEW value \in Answer, Return(value)
  PROVE  /\ calls' \in Seq(Call) /\ answer' \in Answer
         /\ lockd' \in {"down", "watching", "up", "calling"}
  BY SequenceTypes DEF TypeOK, Return

LEMMA CallFromTypes ==
  ASSUME TypeOK, NEW who \in {"shell", "lockd"},
         NEW op \in {"Lock", "Unlock", "lockState", "ForceLocked"}, CallFrom(who, op)
  PROVE  calls' \in Seq(Call) /\ calls' # <<>>
  <1>1. [op |-> op, from |-> who] \in Call
    BY DEF Call
  <1>. QED BY <1>1, SequenceTypes DEF TypeOK, CallFrom

\* A caller that goes away leaves its calls where they are.
LEMMA OrphanedTypes ==
  ASSUME TypeOK, NEW who
  PROVE  /\ Orphaned(who) \in Seq(Call)
         /\ calls # <<>> => /\ Orphaned(who) # <<>>
                            /\ Head(Orphaned(who)).op = Head(calls).op
  <1>1. calls \in Seq(Call) /\ Len(calls) \in Nat /\ DOMAIN calls = 1 .. Len(calls)
    BY DEF TypeOK
  <1>2. ASSUME NEW i \in DOMAIN calls
        PROVE  /\ calls[i] \in Call
               /\ [calls[i] EXCEPT !.from = "nobody"] \in Call
               /\ [calls[i] EXCEPT !.from = "nobody"].op = calls[i].op
    <2>1. calls[i] \in Call
      BY <1>1
    <2>. QED BY <2>1 DEF Call
  <1>3. /\ Orphaned(who) \in [1 .. Len(calls) -> Call]
        /\ \A i \in DOMAIN calls : Orphaned(who)[i].op = calls[i].op
    BY <1>1, <1>2 DEF Orphaned
  <1>. HIDE DEF Orphaned
  <1>4. Orphaned(who) \in Seq(Call) /\ Len(Orphaned(who)) = Len(calls)
    BY <1>1, <1>3
  <1>. QED BY <1>1, <1>3, <1>4

\* A change of the screen saver, and the signal that tells of it.
LEMMA SetSaverTypes ==
  ASSUME TypeOK, NEW active \in BOOLEAN, SetSaver(active)
  PROVE  saver' \in BOOLEAN /\ echoes' \in Seq(BOOLEAN)
  BY SequenceTypes DEF TypeOK, SetSaver

\* The manager's two operations.
LEMMA ManagerTypes ==
  ASSUME TypeOK, ManagerLock \/ ManagerUnlock
  PROVE  /\ idle' \in BOOLEAN /\ saver' \in BOOLEAN /\ echoes' \in Seq(BOOLEAN)
         /\ adrift' \in BOOLEAN /\ faults' \in 0 .. MaxFaults
  <1>1. \A active \in BOOLEAN : SetSaver(active) => saver' \in BOOLEAN /\ echoes' \in Seq(BOOLEAN)
    BY SetSaverTypes
  <1>2. Fault => faults' \in 0 .. MaxFaults
    <2>1. faults \in 0 .. MaxFaults /\ MaxFaults \in Nat
      BY BoundsAssumption DEF TypeOK
    <2>. QED BY <2>1 DEF Fault
  <1>. QED BY <1>1, <1>2 DEF TypeOK, ManagerLock, ManagerUnlock, saverVars

\* The signals of the bus: a client that is not bound gets none.
LEMMA SendTypes ==
  ASSUME TypeOK, Send(<<"Lost">>) \/ Send(<<"Owned">>)
  PROVE  inbox' \in Seq(Signal)
  <1>1. "Lost" \in Signal /\ "Owned" \in Signal /\ \A x \in Signal : <<x>> \in Seq(Signal)
    BY DEF Signal
  <1>. QED BY <1>1, SequenceTypes DEF TypeOK, Send

\* The bounds on the environment.
LEMMA BoundTypes ==
  ASSUME TypeOK
  PROVE  /\ Op => ops' \in 0 .. MaxOps
         /\ Fault => faults' \in 0 .. MaxFaults
         /\ Death => deaths' \in 0 .. MaxDeaths
  <1>1. /\ ops \in 0 .. MaxOps /\ faults \in 0 .. MaxFaults /\ deaths \in 0 .. MaxDeaths
        /\ MaxOps \in Nat /\ MaxFaults \in Nat /\ MaxDeaths \in Nat
    BY BoundsAssumption DEF TypeOK
  <1>. QED BY <1>1 DEF Op, Fault, Death

\* What the client and the lock screen make of a signal or a snapshot.
LEMMA SetLockedTypes ==
  ASSUME TypeOK
  PROVE  /\ \A new \in BOOLEAN : SetLocked(new) => locked' \in BOOLEAN /\ visible' \in BOOLEAN
         /\ \A s : OnLockStateChanged(s) => locked' \in BOOLEAN /\ visible' \in BOOLEAN
  BY DEF TypeOK, SetLocked, OnLockStateChanged

\* A step of desktopd keeps the types, one case per operation.
LEMMA DesktopdTypes == TypeInv /\ Desktopd => TypeInv'
  <1> SUFFICES ASSUME TypeOK, Busy, Desktopd PROVE TypeOK' /\ Busy'
    BY DEF TypeInv
  <1>. USE DEF desktopdVars, saverVars, shellVars, lockdVars, historyVars, boundVars
  <1>1. LockState \subseteq Answer /\ {"done", "yes", "no", "error"} \subseteq Answer
    BY DEF Answer
  <1>2. {"Active", "Locking", "Locked", "Unlocking"} \subseteq LockState
    BY DEF LockState
  <1>3. \A op : Serving(op) => desktopd = "ready" /\ calls # <<>>
    BY DEF Serving
  <1>4. state \in Answer
    BY <1>1 DEF TypeOK
  <1>5. CASE GetLockState
    BY <1>3, <1>4, <1>5, ReturnTypes DEF GetLockState, TypeOK, Busy
  <1>6. CASE Refuse
    BY <1>1, <1>3, <1>6, ReturnTypes, BoundTypes DEF Refuse, TypeOK, Busy
  <1>7. CASE BeginLock
    <2>1. CASE state \in {"Locked", "Locking"}
      BY <1>1, <1>3, <1>7, <2>1, ReturnTypes DEF BeginLock, TypeOK, Busy
    <2>2. CASE state \notin {"Locked", "Locking"}
      <3>1. SetLockState("Locking")
        BY <1>7, <2>2 DEF BeginLock
      <3>. QED BY <1>2, <1>3, <1>7, <2>2, <3>1, SetLockStateTypes DEF BeginLock, TypeOK, Busy
    <2>. QED BY <2>1, <2>2
  <1>8. CASE EndLock
    BY <1>1, <1>2, <1>8, ReturnTypes, SetLockStateTypes, ManagerTypes DEF EndLock, TypeOK, Busy
  <1>9. CASE UnlockRefused
    BY <1>1, <1>3, <1>9, ReturnTypes DEF UnlockRefused, TypeOK, Busy
  <1>10. CASE BeginUnlock
    BY <1>2, <1>3, <1>10, SetLockStateTypes DEF BeginUnlock, TypeOK, Busy
  <1>11. CASE EndUnlock
    BY <1>1, <1>2, <1>11, ReturnTypes, SetLockStateTypes, ManagerTypes DEF EndUnlock, TypeOK, Busy
  <1>12. CASE ForceLocked
    BY <1>1, <1>2, <1>3, <1>12, ReturnTypes, SetLockStateTypes DEF ForceLocked, TypeOK, Busy
  <1>13. CASE OnPrepareForSleep
    <2>1. state' \in LockState /\ inbox' \in Seq(Signal)
      BY <1>2, <1>13, SetLockStateTypes DEF OnPrepareForSleep, TypeOK
    <2>. QED BY <1>13, <2>1, ManagerTypes, BoundTypes DEF OnPrepareForSleep, TypeOK, Busy
  <1>14. CASE OnScreenSaverActiveChanged
    <2>1. Head(echoes) \in BOOLEAN /\ Tail(echoes) \in Seq(BOOLEAN)
      BY <1>14, SequenceTypes DEF OnScreenSaverActiveChanged, TypeOK
    <2>2. /\ idle' \in BOOLEAN /\ state' \in LockState /\ inbox' \in Seq(Signal)
          /\ desktopd' = "ready" /\ calls' = calls
      BY <1>2, <1>14, <2>1, SetLockStateTypes DEF OnScreenSaverActiveChanged, EmitIdle, TypeOK
    <2>3. DesktopdOK' /\ Busy'
      BY <2>2, TypeParts DEF DesktopdOK, Busy
    <2>4. saver' = saver /\ echoes' = Tail(echoes)
          /\ UNCHANGED <<shell, valid, locked, visible, answer, lockdVars, historyVars, boundVars>>
      BY <1>14 DEF OnScreenSaverActiveChanged
    <2>5. SaverOK'
      BY <2>1, <2>4, TypeParts DEF SaverOK
    <2>6. ShellOK'
      BY <2>2, <2>4, TypeParts DEF ShellOK
    <2>. QED BY <2>3, <2>4, <2>5, <2>6, PartsStay, TypeParts
  <1>15. CASE DesktopdDies
    <2>1. <<>> \in Seq(Call) /\ <<>> \in Seq(BOOLEAN)
      OBVIOUS
    <2>2. inbox' \in Seq(Signal) /\ answer' \in Answer /\ deaths' \in 0 .. MaxDeaths
      BY <1>1, <1>15, SendTypes, BoundTypes DEF DesktopdDies, TypeOK
    <2>3. /\ desktopd' = "down" /\ calls' = <<>> /\ echoes' = <<>>
          /\ owed' = FALSE /\ adrift' = TRUE
          /\ UNCHANGED <<state, idle, saver, shell, valid, locked, visible, alive, notices,
                         astray, ops, faults>>
      BY <1>15 DEF DesktopdDies
    <2>4. DesktopdOK' /\ Busy'
      BY <2>1, <2>3, TypeParts DEF DesktopdOK, Busy
    <2>5. SaverOK' /\ HistoryOK' /\ BoundsOK'
      BY <2>1, <2>2, <2>3, TypeParts DEF SaverOK, HistoryOK, BoundsOK
    <2>6. ShellOK'
      BY <2>2, <2>3, TypeParts DEF ShellOK
    <2>7. LockdOK'
      BY <1>15, <2>3, TypeParts DEF DesktopdDies, LockdOK
    <2>. QED BY <2>4, <2>5, <2>6, <2>7, TypeParts
  <1>16. CASE DesktopdStart
    <2>1. inbox' \in Seq(Signal)
      BY <1>16, SendTypes DEF DesktopdStart
    <2>2. /\ desktopd' = "ready" /\ state' = "Active" /\ idle' = FALSE
          /\ UNCHANGED <<calls, saverVars, shell, valid, locked, visible, answer, lockdVars,
                         historyVars, boundVars>>
      BY <1>16 DEF DesktopdStart
    <2>3. DesktopdOK' /\ Busy'
      BY <1>2, <2>2, TypeParts DEF DesktopdOK, Busy
    <2>4. ShellOK'
      BY <2>1, <2>2, TypeParts DEF ShellOK
    <2>. QED BY <2>2, <2>3, <2>4, PartsStay, TypeParts
  <1>. QED BY <1>5, <1>6, <1>7, <1>8, <1>9, <1>10, <1>11, <1>12, <1>13, <1>14, <1>15, <1>16
           DEF Desktopd

\* Whether a step that leaves desktopd's part alone, but for the queue, keeps Busy.
LEMMA BusyStays ==
  ASSUME Busy, UNCHANGED desktopd, calls # <<>> => calls' # <<>>
  PROVE  Busy'
  BY DEF Busy

\* The shell's calls, answered at once if there is no desktopd.
LEMMA AskTypes ==
  ASSUME TypeOK, NEW op \in {"Lock", "Unlock", "lockState"}, Ask(op)
  PROVE  /\ calls' \in Seq(Call) /\ (calls # <<>> => calls' # <<>>)
         /\ answer' \in Answer
  BY CallFromTypes DEF Ask, TypeOK, Answer

\* A step of the shell keeps the types.
LEMMA ShellTypes == TypeInv /\ Shell => TypeInv'
  <1> SUFFICES ASSUME TypeOK, Busy, Shell PROVE TypeOK' /\ Busy'
    BY DEF TypeInv
  <1>. USE DEF desktopdVars, saverVars, shellVars, lockdVars, historyVars, boundVars
  <1>1. /\ Append(notices, TRUE) \in Seq(BOOLEAN) /\ Append(notices, FALSE) \in Seq(BOOLEAN)
        /\ inbox # <<>> => Tail(inbox) \in Seq(Signal)
        /\ <<>> \in Seq(Signal)
    BY SequenceTypes DEF TypeOK
  <1>2. "none" \in Answer /\ "error" \in Answer /\ {"starting", "asking", "locking", "unlocking"} = Waiting
    BY DEF Answer, Waiting
  <1>3. CASE ShellStart
    <2>1. notices' \in Seq(BOOLEAN)
      BY <1>1, <1>3 DEF ShellStart, TypeOK
    <2>2. /\ shell' = "named"
          /\ UNCHANGED <<desktopdVars, saverVars, valid, locked, visible, inbox, answer, lockd,
                         alive, historyVars, boundVars>>
      BY <1>3 DEF ShellStart
    <2>. QED BY <2>1, <2>2 DEF TypeOK, Busy
  <1>4. CASE NewClient
    BY <1>2, <1>4, AskTypes DEF NewClient, TypeOK, Busy
  <1>5. CASE OnSignal
    BY <1>1, <1>5, SetLockedTypes DEF OnSignal, TypeOK, Busy
  <1>6. CASE OnOwned
    BY <1>1, <1>2, <1>6, AskTypes DEF OnOwned, TypeOK, Busy
  <1>7. CASE Lock
    <2>1. calls' \in Seq(Call) /\ (calls # <<>> => calls' # <<>>) /\ answer' \in Answer
      <3>1. Ask("Lock") \/ UNCHANGED <<calls, answer>>
        BY <1>7 DEF Lock
      <3>. QED BY <3>1, AskTypes DEF TypeOK
    <2>2. locked' \in BOOLEAN /\ visible' \in BOOLEAN
      BY <1>7 DEF Lock, TypeOK
    <2>3. shell' \in {"up", "locking"} /\ Op
          /\ UNCHANGED <<desktopd, state, idle, saverVars, valid, inbox, lockdVars,
                         historyVars, faults, deaths>>
      BY <1>7 DEF Lock
    <2>. QED BY <1>2, <2>1, <2>2, <2>3, BoundTypes DEF TypeOK, Busy
  <1>8. CASE RequestUnlock
    BY <1>2, <1>8, AskTypes, BoundTypes DEF RequestUnlock, TypeOK, Busy
  <1>9. CASE Answered
    <2>1. locked' \in BOOLEAN /\ visible' \in BOOLEAN
      <3>1. CASE shell = "locking"
        BY <1>9, <3>1, SetLockedTypes DEF Answered
      <3>2. CASE shell = "unlocking"
        BY <1>9, <3>2 DEF Answered, TypeOK
      <3>3. CASE shell \in {"starting", "asking"}
        BY <1>9, <3>3, SetLockedTypes DEF Answered
      <3>. QED BY <1>2, <1>9, <3>1, <3>2, <3>3 DEF Answered
    <2>. QED BY <1>2, <1>9, <2>1 DEF Answered, TypeOK, Busy
  <1>10. CASE TimesOut
    BY <1>2, <1>10, OrphanedTypes, BoundTypes DEF TimesOut, TypeOK, Busy
  <1>11. CASE ShellDies
    <2>1. /\ calls' \in Seq(Call) /\ (calls # <<>> => calls' # <<>>)
          /\ deaths' \in 0 .. MaxDeaths /\ notices' \in Seq(BOOLEAN)
      BY <1>1, <1>11, OrphanedTypes, BoundTypes DEF ShellDies, TypeOK
    <2>2. /\ shell' = "down" /\ valid' = FALSE /\ locked' = FALSE /\ visible' = FALSE
          /\ inbox' = <<>> /\ answer' = "none" /\ owed' \in BOOLEAN
          /\ UNCHANGED <<desktopd, state, idle, saverVars, lockd, alive, astray, adrift,
                         ops, faults>>
      BY <1>11, TypeParts DEF ShellDies, HistoryOK
    <2>3. DesktopdOK' /\ Busy'
      BY <2>1, <2>2, TypeParts DEF DesktopdOK, Busy
    <2>4. ShellOK' /\ LockdOK'
      BY <1>1, <1>2, <2>1, <2>2, TypeParts DEF ShellOK, LockdOK
    <2>5. HistoryOK' /\ BoundsOK'
      BY <2>1, <2>2, TypeParts DEF HistoryOK, BoundsOK
    <2>. QED BY <2>2, <2>3, <2>4, <2>5, PartsStay, TypeParts
  <1>12. CASE OnLost
    <2>1. /\ valid' = FALSE /\ inbox' \in Seq(Signal)
          /\ UNCHANGED <<desktopdVars, saverVars, shell, locked, visible, answer, lockdVars,
                         historyVars, boundVars>>
      BY <1>1, <1>12 DEF OnLost
    <2>2. ShellOK' /\ Busy'
      BY <2>1, TypeParts DEF ShellOK, Busy
    <2>. QED BY <2>1, <2>2, PartsStay, TypeParts
  <1>. QED BY <1>3, <1>4, <1>5, <1>6, <1>7, <1>8, <1>9, <1>10, <1>11, <1>12 DEF Shell

\* A step of lockd or of the screen saver keeps the types.
LEMMA OtherTypes == TypeInv /\ (Lockd \/ SaverChanges) => TypeInv'
  <1> SUFFICES ASSUME TypeOK, Busy, Lockd \/ SaverChanges PROVE TypeOK' /\ Busy'
    BY DEF TypeInv
  <1>. USE DEF desktopdVars, saverVars, shellVars, lockdVars, historyVars, boundVars
  <1>1. <<>> \in Seq(BOOLEAN) /\ (notices # <<>> => Head(notices) \in BOOLEAN /\ Tail(notices) \in Seq(BOOLEAN))
    BY SequenceTypes DEF TypeOK
  <1>2. CASE LockdStart
    BY <1>2 DEF LockdStart, TypeOK, Busy
  <1>3. CASE PrimeFromCurrentOwner
    BY <1>3 DEF PrimeFromCurrentOwner, TypeOK, Busy
  <1>4. CASE OnServiceOwnerChanged
    <2>1. calls' \in Seq(Call) /\ (calls # <<>> => calls' # <<>>)
      <3>1. CallFrom("lockd", "ForceLocked") \/ UNCHANGED calls
        BY <1>4 DEF OnServiceOwnerChanged
      <3>. QED BY <3>1, CallFromTypes DEF TypeOK
    <2>2. lockd' \in {"up", "calling"} /\ alive' \in BOOLEAN /\ notices' \in Seq(BOOLEAN)
      BY <1>1, <1>4 DEF OnServiceOwnerChanged
    <2>3. UNCHANGED <<desktopd, state, idle, saverVars, shellVars, historyVars, boundVars>>
      BY <1>4 DEF OnServiceOwnerChanged
    <2>. QED BY <2>1, <2>2, <2>3 DEF TypeOK, Busy
  <1>5. CASE LockdDies
    <2>1. calls' \in Seq(Call) /\ (calls # <<>> => calls' # <<>>)
      BY <1>5, OrphanedTypes DEF LockdDies
    <2>2. /\ lockd' = "down" /\ alive' = FALSE /\ notices' = <<>> /\ owed' = FALSE
          /\ deaths' \in 0 .. MaxDeaths
          /\ UNCHANGED <<desktopd, state, idle, saverVars, shellVars, astray, adrift, ops, faults>>
      BY <1>5, BoundTypes DEF LockdDies
    <2>3. DesktopdOK' /\ Busy'
      BY <2>1, <2>2, TypeParts DEF DesktopdOK, Busy
    <2>4. LockdOK' /\ HistoryOK' /\ BoundsOK'
      BY <1>1, <2>2, TypeParts DEF LockdOK, HistoryOK, BoundsOK
    <2>. QED BY <2>2, <2>3, <2>4, PartsStay, TypeParts
  <1>6. CASE SaverChanges
    <2>1. saver' \in BOOLEAN /\ echoes' \in Seq(BOOLEAN)
      BY <1>6, SetSaverTypes DEF SaverChanges
    <2>. QED BY <1>6, <2>1, BoundTypes DEF SaverChanges, TypeOK, Busy
  <1>. QED BY <1>2, <1>3, <1>4, <1>5, <1>6 DEF Lockd

\* desktopd is only ever in the middle of a call it has received.
LEMMA TypesHold == Spec => []TypeInv
  <1>1. Init => TypeInv
    <2>1. <<>> \in Seq(Call) /\ <<>> \in Seq(Signal) /\ <<>> \in Seq(BOOLEAN)
      OBVIOUS
    <2>2. 0 \in 0 .. MaxOps /\ 0 \in 0 .. MaxFaults /\ 0 \in 0 .. MaxDeaths
      BY BoundsAssumption
    <2>3. "Active" \in LockState /\ "none" \in Answer
      BY DEF LockState, Answer
    <2>. QED BY <2>1, <2>2, <2>3 DEF Init, TypeInv, TypeOK, Busy
  <1>2. TypeInv /\ [Next]_vars => TypeInv'
    <2>1. TypeInv /\ UNCHANGED vars => TypeInv'
      <3> SUFFICES ASSUME TypeOK, Busy, UNCHANGED vars PROVE TypeOK' /\ Busy'
        BY DEF TypeInv
      <3>. USE DEF vars, desktopdVars, saverVars, shellVars, lockdVars, historyVars, boundVars
      <3>1. Busy'
        BY DEF Busy
      <3>. QED BY <3>1 DEF TypeOK
    <2>2. Rest => UNCHANGED vars
      BY DEF Rest
    <2>. QED BY <2>1, <2>2, DesktopdTypes, ShellTypes, OtherTypes DEF Next
  <1>. QED BY <1>1, <1>2, PTL DEF Spec

\* The variables keep their types: setLockState() stores names of states only, and
\* the queues hold what their receivers know.
THEOREM SessionLockTypes == Spec => []TypeOK
  <1>1. TypeInv => TypeOK
    BY DEF TypeInv
  <1>. QED BY <1>1, TypesHold, PTL
-----------------------------------------------------------------------------
\* How m_lockState and m_idle hang together: the intermediate states last as long
\* as the calls, and an idle session is locked, so that the early return of the
\* manager's Lock() leaves none unlocked.
LockInv ==
  /\ desktopd = "ready" => state \in {"Active", "Locked"}
  /\ desktopd = "busy" => \/ Head(calls).op = "Lock" /\ state = "Locking"
                          \/ Head(calls).op = "Unlock" /\ state = "Unlocking"
  /\ desktopd # "down" /\ idle => state \in {"Locked", "Unlocking"}

\* New calls do not displace the one desktopd is in the middle of.
LEMMA HeadStays ==
  ASSUME TypeOK, calls # <<>>, NEW who, NEW op, CallFrom(who, op)
  PROVE  Head(calls') = Head(calls)
  BY DEF TypeOK, CallFrom

\* The processes around desktopd leave what LockInv speaks of alone.
LEMMA OthersKeepLock ==
  ASSUME TypeInv, LockInv, UNCHANGED <<desktopd, state, idle>>,
         \/ UNCHANGED calls
         \/ \E who, op : CallFrom(who, op)
         \/ \E who : calls' = Orphaned(who)
  PROVE  LockInv'
  <1>1. calls # <<>> => Head(calls').op = Head(calls).op
    BY HeadStays, OrphanedTypes DEF TypeInv
  <1>. QED BY <1>1 DEF LockInv, TypeInv, Busy

\* What the manager's Lock() leaves: an idle session, or one whose screen saver and
\* logind have failed.
LEMMA ManagerLockDoes ==
  ASSUME TypeOK, ManagerLock
  PROVE  /\ idle' \in BOOLEAN /\ (idle => idle')
         /\ faults' = faults => idle'
  <1>1. faults \in Nat /\ idle \in BOOLEAN
    BY BoundsAssumption DEF TypeOK
  <1>2. CASE idle /\ UNCHANGED idle
    BY <1>1, <1>2
  <1>3. CASE ~idle /\ idle' = TRUE
    BY <1>3
  <1>4. CASE ~idle /\ idle' \in BOOLEAN /\ faults' = faults + 1
    BY <1>1, <1>4
  <1>. QED BY <1>2, <1>3, <1>4 DEF ManagerLock, Fault

\* LockInv is inductive.
LEMMA LockStep == TypeInv /\ LockInv /\ [Next]_vars => LockInv'
  <1> SUFFICES ASSUME TypeInv, TypeOK, Busy, LockInv, [Next]_vars PROVE LockInv'
    BY DEF TypeInv
  <1>. USE DEF desktopdVars, saverVars, shellVars, lockdVars, historyVars, boundVars
  <1>1. \A op : Serving(op) => /\ desktopd = "ready" /\ calls # <<>> /\ Head(calls).op = op
                               /\ state \in {"Active", "Locked"}
    BY DEF Serving, LockInv
  <1>2. \A s : SetLockState(s) => state' = s
    BY DEF SetLockState
  <1>3. CASE UNCHANGED vars \/ Rest
    BY <1>3, OthersKeepLock DEF vars, Rest
  <1>4. CASE GetLockState
    BY <1>1, <1>4 DEF GetLockState, LockInv
  <1>5. CASE Refuse
    BY <1>1, <1>5 DEF Refuse, LockInv
  <1>6. CASE BeginLock
    BY <1>1, <1>2, <1>6 DEF BeginLock, LockInv
  <1>7. CASE EndLock
    BY <1>2, <1>7 DEF EndLock, LockInv
  <1>8. CASE UnlockRefused
    BY <1>1, <1>8 DEF UnlockRefused, LockInv
  <1>9. CASE BeginUnlock
    BY <1>1, <1>2, <1>9 DEF BeginUnlock, LockInv
  <1>10. CASE EndUnlock
    BY <1>2, <1>10 DEF EndUnlock, ManagerUnlock, LockInv
  <1>11. CASE ForceLocked
    BY <1>1, <1>2, <1>11 DEF ForceLocked, LockInv
  <1>12. CASE OnPrepareForSleep
    BY <1>2, <1>12, ManagerLockDoes DEF OnPrepareForSleep, LockInv
  <1>13. CASE OnScreenSaverActiveChanged
    BY <1>2, <1>13 DEF OnScreenSaverActiveChanged, EmitIdle, LockInv
  <1>14. CASE DesktopdDies
    BY <1>14 DEF DesktopdDies, LockInv
  <1>15. CASE DesktopdStart
    BY <1>15 DEF DesktopdStart, LockInv
  <1>16. CASE Shell
    BY <1>16, OthersKeepLock
       DEF Shell, ShellStart, NewClient, OnSignal, OnLost, OnOwned, Lock, RequestUnlock,
           Answered, TimesOut, ShellDies, Ask
  <1>17. CASE Lockd \/ SaverChanges
    BY <1>17, OthersKeepLock
       DEF Lockd, LockdStart, PrimeFromCurrentOwner, OnServiceOwnerChanged, LockdDies,
           SaverChanges
  <1>. QED BY <1>3, <1>4, <1>5, <1>6, <1>7, <1>8, <1>9, <1>10, <1>11, <1>12, <1>13, <1>14,
              <1>15, <1>16, <1>17 DEF Next, Desktopd

LEMMA LockHolds == Spec => [](TypeInv /\ LockInv)
  <1>1. Init => LockInv
    BY DEF Init, LockInv
  <1>. QED BY <1>1, TypesHold, LockStep, PTL DEF Spec

\* A session that goes to sleep is locked, unless screen saver and logind both fail:
\* the early returns of the two Lock() do not get in each other's way.
THEOREM SuspendIsLocked == Spec => SuspendLocks
  <1>1. TypeInv /\ LockInv => (OnPrepareForSleep /\ faults' = faults => state' = "Locked")
    BY ManagerLockDoes DEF TypeInv, LockInv, OnPrepareForSleep, SetLockState
  <1>. QED BY <1>1, LockHolds, PTL DEF Spec, SuspendLocks

\* While desktopd runs and the screen saver is off, a locked session is only unlocked
\* by an accepted password.
THEOREM ForcedLockHolds == Spec => ForcedNeedsPam
  <1>1. ASSUME TypeInv, LockInv, [Next]_vars, state = "Locked", ~idle, desktopd # "down"
        PROVE  state' \in {"Locked", "Unlocking"}
    <2>. USE <1>1 DEF desktopdVars, saverVars, shellVars, lockdVars, historyVars, boundVars
    <2>1. \A s : SetLockState(s) => state' = s
      BY DEF SetLockState
    <2>2. desktopd = "ready"
      BY DEF LockInv, TypeInv, TypeOK
    <2>3. CASE UNCHANGED state
      BY <2>3
    <2>4. CASE BeginLock
      BY <2>4 DEF BeginLock
    <2>5. CASE BeginUnlock
      BY <2>1, <2>5 DEF BeginUnlock
    <2>6. CASE ForceLocked
      BY <2>1, <2>6 DEF ForceLocked
    <2>7. CASE OnPrepareForSleep
      BY <2>1, <2>7 DEF OnPrepareForSleep
    <2>8. CASE OnScreenSaverActiveChanged
      <3>1. Head(echoes) \in BOOLEAN
        BY <2>8, SequenceTypes DEF OnScreenSaverActiveChanged, TypeInv, TypeOK
      <3>2. Head(echoes) \/ Head(echoes) = idle
        BY <3>1 DEF TypeInv, TypeOK
      <3>. QED BY <2>1, <2>8, <3>2 DEF OnScreenSaverActiveChanged, EmitIdle
    <2>9. CASE EndLock \/ EndUnlock \/ DesktopdStart
      BY <2>2, <2>9 DEF EndLock, EndUnlock, DesktopdStart
    <2>10. CASE GetLockState \/ Refuse \/ UnlockRefused \/ DesktopdDies
      BY <2>10 DEF GetLockState, Refuse, UnlockRefused, DesktopdDies
    <2>11. CASE Shell
      BY <2>11 DEF Shell, ShellStart, NewClient, OnSignal, OnLost, OnOwned, Lock, RequestUnlock,
                   Answered, TimesOut, ShellDies
    <2>12. CASE Lockd \/ SaverChanges \/ Rest
      BY <2>12 DEF Lockd, LockdStart, PrimeFromCurrentOwner, OnServiceOwnerChanged,
                   LockdDies, SaverChanges, Rest, vars
    <2>13. CASE UNCHANGED vars
      BY <2>13 DEF vars
    <2>. QED BY <2>4, <2>5, <2>6, <2>7, <2>8, <2>9, <2>10, <2>11, <2>12, <2>13
             DEF Next, Desktopd
  <1>2. TypeInv /\ LockInv /\ [Next]_vars =>
          [state = "Locked" /\ ~idle /\ desktopd # "down" => state' \in {"Locked", "Unlocking"}]_vars
    BY <1>1
  <1>. QED BY <1>2, LockHolds, PTL DEF Spec, ForcedNeedsPam
-----------------------------------------------------------------------------
\* The last signal on its way to desktopd, or what it knows already.
LastWord == IF echoes = <<>> THEN idle ELSE echoes[Len(echoes)]

\* The inductive form of SaverAgrees: a desktopd that has not run yet knows nothing.
SaverInv == adrift \/ (saver = LastWord /\ (desktopd = "down" => ~idle /\ echoes = <<>>))

\* The last element of a sequence that grows at its end or loses its head.
LEMMA LastElements ==
  ASSUME NEW s \in Seq(BOOLEAN)
  PROVE  /\ \A x \in BOOLEAN : Append(s, x) # <<>> /\ Append(s, x)[Len(Append(s, x))] = x
         /\ s # <<>> /\ Tail(s) = <<>> => Head(s) = s[Len(s)]
         /\ s # <<>> /\ Tail(s) # <<>> => Tail(s)[Len(Tail(s))] = s[Len(s)]
  <1>1. ASSUME NEW x \in BOOLEAN PROVE Append(s, x) # <<>> /\ Append(s, x)[Len(Append(s, x))] = x
    BY AppendProperties
  <1>2. ASSUME s # <<>>
        PROVE  /\ Len(s) \in Nat \ {0} /\ Len(Tail(s)) = Len(s) - 1 /\ Head(s) = s[1]
               /\ Tail(s) \in Seq(BOOLEAN)
               /\ \A i \in 1 .. Len(Tail(s)) : Tail(s)[i] = s[i + 1]
    BY <1>2, EmptySeq, HeadTailProperties
  <1>3. ASSUME s # <<>>, Tail(s) = <<>> PROVE Head(s) = s[Len(s)]
    <2>1. Len(Tail(s)) = 0
      BY <1>3, EmptySeq
    <2>2. Len(s) = 1
      BY <1>2, <1>3, <2>1
    <2>. QED BY <1>2, <1>3, <2>2
  <1>4. ASSUME s # <<>>, Tail(s) # <<>> PROVE Tail(s)[Len(Tail(s))] = s[Len(s)]
    <2>1. Len(Tail(s)) \in Nat \ {0}
      BY <1>2, <1>4, EmptySeq
    <2>. QED BY <1>2, <1>4, <2>1
  <1>. QED BY <1>1, <1>3, <1>4

\* A screen saver that is made active or inactive says so, if it was not.
LEMMA SetSaverTells ==
  ASSUME TypeOK, NEW active \in BOOLEAN, SetSaver(active), desktopd # "down",
         saver = LastWord, idle' = active \/ (idle' = idle /\ active # saver)
  PROVE  saver' = LastWord'
  <1>1. CASE active = saver
    BY <1>1 DEF SetSaver, LastWord
  <1>2. CASE active # saver
    BY <1>2, LastElements DEF SetSaver, LastWord, TypeOK
  <1>. QED BY <1>1, <1>2

\* SaverInv is inductive: only desktopd and the screen saver itself touch what it
\* speaks of.
LEMMA SaverStep == TypeInv /\ SaverInv /\ [Next]_vars => SaverInv'
  <1> SUFFICES ASSUME TypeInv, TypeOK, SaverInv, [Next]_vars, ~adrift' PROVE SaverInv'
    BY DEF TypeInv, SaverInv
  <1>. USE DEF desktopdVars, saverVars, shellVars, lockdVars, historyVars, boundVars
  <1>1. CASE UNCHANGED <<desktopd, saver, echoes, idle, adrift>>
    BY <1>1 DEF SaverInv, LastWord
  <1>2. \A op : Serving(op) => desktopd = "ready"
    BY DEF Serving
  <1>3. CASE BeginLock \/ BeginUnlock
    <2>1. desktopd = "ready" /\ desktopd' # "down" /\ UNCHANGED <<saver, echoes, idle, adrift>>
      BY <1>2, <1>3 DEF BeginLock, BeginUnlock
    <2>. QED BY <2>1 DEF SaverInv, LastWord
  <1>4. ASSUME ManagerLock \/ ManagerUnlock, desktopd # "down", desktopd' # "down"
        PROVE  SaverInv'
    <2>1. CASE idle /\ UNCHANGED <<idle, saverVars, adrift>>
      BY <1>4, <2>1 DEF SaverInv, LastWord
    <2>2. ASSUME NEW active \in BOOLEAN, SetSaver(active), idle' = active, UNCHANGED adrift
          PROVE  SaverInv'
      BY <1>4, <2>2, SetSaverTells DEF SaverInv
    <2>. QED BY <1>4, <2>1, <2>2 DEF ManagerLock, ManagerUnlock
  <1>5. CASE EndLock \/ EndUnlock \/ OnPrepareForSleep
    BY <1>4, <1>5 DEF EndLock, EndUnlock, OnPrepareForSleep
  <1>6. CASE OnScreenSaverActiveChanged
    <2>1. /\ echoes # <<>> /\ echoes \in Seq(BOOLEAN) /\ idle' = Head(echoes)
          /\ echoes' = Tail(echoes) /\ desktopd = "ready" /\ desktopd' = "ready"
          /\ UNCHANGED <<saver, adrift>>
      BY <1>6 DEF OnScreenSaverActiveChanged, EmitIdle, TypeOK
    <2>2. LastWord' = LastWord
      BY <2>1, LastElements DEF LastWord
    <2>. QED BY <2>1, <2>2 DEF SaverInv
  <1>7. CASE SaverChanges
    <2>1. adrift' = (adrift \/ desktopd = "down") /\ adrift \in BOOLEAN
      <3>1. adrift' = (adrift \/ desktopd = "down")
        BY <1>7, Zenon DEF SaverChanges
      <3>2. adrift \in BOOLEAN
        BY DEF TypeOK
      <3>. QED BY <3>1, <3>2, Zenon
    <2>2. ~adrift /\ desktopd # "down"
      BY <2>1, Zenon
    <2>3. PICK active \in BOOLEAN : active # saver /\ SetSaver(active)
      BY <1>7 DEF SaverChanges
    <2>4. UNCHANGED <<desktopd, idle>>
      BY <1>7 DEF SaverChanges
    <2>5. saver = LastWord
      BY <2>2 DEF SaverInv
    <2>6. saver' = LastWord'
      BY <2>2, <2>3, <2>4, <2>5, SetSaverTells
    <2>. QED BY <2>2, <2>4, <2>6 DEF SaverInv
  <1>8. CASE DesktopdStart
    <2>1. /\ desktopd = "down" /\ desktopd' = "ready" /\ idle' = FALSE
          /\ UNCHANGED <<saver, echoes, adrift>> /\ idle \in BOOLEAN
      BY <1>8 DEF DesktopdStart, TypeOK
    <2>. QED BY <2>1 DEF SaverInv, LastWord
  <1>9. CASE DesktopdDies
    BY <1>9 DEF DesktopdDies
  <1>10. CASE GetLockState \/ Refuse \/ UnlockRefused \/ ForceLocked
    BY <1>1, <1>10 DEF GetLockState, Refuse, UnlockRefused, ForceLocked
  <1>11. CASE Shell
    BY <1>1, <1>11 DEF Shell, ShellStart, NewClient, OnSignal, OnLost, OnOwned, Lock, RequestUnlock,
                       Answered, TimesOut, ShellDies
  <1>12. CASE Lockd
    BY <1>1, <1>12 DEF Lockd, LockdStart, PrimeFromCurrentOwner, OnServiceOwnerChanged,
                       LockdDies
  <1>13. CASE Rest \/ UNCHANGED vars
    BY <1>1, <1>13 DEF Rest, vars
  <1>. QED BY <1>3, <1>5, <1>6, <1>7, <1>8, <1>9, <1>10, <1>11, <1>12, <1>13
           DEF Next, Desktopd

\* As long as the screen saver does what it is told and desktopd has not ended, the
\* two agree once the signals between them have arrived.
THEOREM SaverIsFollowed == Spec => []SaverAgrees
  <1>1. Init => SaverInv
    BY DEF Init, SaverInv, LastWord
  <1>2. SaverInv => SaverAgrees
    BY DEF SaverInv, SaverAgrees, LastWord
  <1>. QED BY <1>1, <1>2, TypesHold, SaverStep, PTL DEF Spec
-----------------------------------------------------------------------------
(* Why the lock screen, the client and desktopd come to say the same. What  *)
(* desktopd last said is on its way to the shell, or the shell knows it.    *)

\* A call from the shell is the one it waits for.
OpOf(s) == CASE s = "locking" -> "Lock" [] s = "unlocking" -> "Unlock" [] OTHER -> "lockState"

CallsInv ==
  /\ shell \notin Waiting => answer = "none"
  /\ \A i \in DOMAIN calls : calls[i].from = "shell" =>
       shell \in Waiting /\ answer = "none" /\ calls[i].op = OpOf(shell)
  /\ \A i, j \in DOMAIN calls : calls[i].from = "shell" /\ calls[j].from = "shell" => i = j

\* Is one of these signals on its way to the shell?
Has(words) == \E i \in DOMAIN inbox : inbox[i] \in words

\* A desktopd that went has come back, or its coming is on its way.
Comes(i) == desktopd = "down" \/ \E j \in DOMAIN inbox : j > i /\ inbox[j] = "Owned"

InboxInv ==
  /\ ~Bound => inbox = <<>>
  /\ \A i \in DOMAIN inbox : inbox[i] = "Lost" => Comes(i)
  /\ Bound /\ ~valid => desktopd = "down" \/ Has({"Owned"})

Unlocks == {"Active", "SessionUnlocked"}

\* The lock screen differs from the client while a call or a signal that changes the
\* client is on its way.
ShownInv ==
  /\ shell = "unlocking" /\ answer = "yes" => Has(Unlocks)
  /\ \/ visible = locked
     \/ shell = "locking" /\ visible /\ ~locked
     \/ ~visible /\ locked /\ Has(Unlocks)

\* The signals that set the client's copy, and those that set it to what is the case.
Decisive == {"Locking", "Locked", "SessionLocked", "Active", "SessionUnlocked"}

Right(word) ==
  \/ word = "Owned"
  \/ word = "SessionLocked" /\ state = "Locked"
  \/ word = "SessionUnlocked" /\ state = "Active"

LockAsked == \E i \in DOMAIN calls : calls[i].op = "Lock"

\* The client is right once the call it waits for has returned, and a Lock() that it
\* did not wait for has been served.
Settled ==
  CASE shell \in {"starting", "asking"} -> answer \in {"none", state}
    [] shell = "locking"                -> state = "Locked" \/ LockAsked
    [] OTHER                            -> \/ locked = (state = "Locked")
                                           \/ locked /\ LockAsked

Agreed ==
  \/ \E i \in DOMAIN inbox :
       Right(inbox[i]) /\ \A j \in DOMAIN inbox : j > i => inbox[j] \notin Decisive
  \/ ~Has(Decisive \cup {"Owned"}) /\ Settled

AgreeInv == desktopd = "ready" /\ Bound /\ ~astray => Agreed

CopiesInv == CallsInv /\ InboxInv /\ ShownInv /\ AgreeInv

\* A sequence without its first element.
LEMMA WithoutHead ==
  ASSUME NEW S, NEW s \in Seq(S), s # <<>>
  PROVE  /\ DOMAIN s \subseteq Nat /\ 1 \in DOMAIN s /\ Head(s) = s[1]
         /\ DOMAIN Tail(s) \subseteq Nat
         /\ \A i \in DOMAIN Tail(s) : i + 1 \in DOMAIN s /\ Tail(s)[i] = s[i + 1] /\ i + 1 # 1
         /\ \A i \in DOMAIN s : i # 1 => i - 1 \in DOMAIN Tail(s) /\ Tail(s)[i - 1] = s[i]
  <1>1. /\ Len(s) \in Nat \ {0} /\ DOMAIN s = 1 .. Len(s) /\ Head(s) = s[1]
        /\ Tail(s) \in Seq(S) /\ Len(Tail(s)) = Len(s) - 1
        /\ \A i \in 1 .. Len(Tail(s)) : Tail(s)[i] = s[i + 1]
    BY EmptySeq, HeadTailProperties
  <1>2. DOMAIN Tail(s) = 1 .. Len(s) - 1
    BY <1>1
  <1>. QED BY <1>1, <1>2

\* A sequence with others after it.
LEMMA WithMore ==
  ASSUME NEW S, NEW s \in Seq(S), NEW t \in Seq(S)
  PROVE  /\ s \o t \in Seq(S) /\ DOMAIN (s \o t) \subseteq Nat /\ DOMAIN s \subseteq Nat
         /\ \A i \in DOMAIN s : i \in DOMAIN (s \o t) /\ (s \o t)[i] = s[i]
         /\ \A i \in DOMAIN (s \o t) : i \in DOMAIN s \/ \E j \in DOMAIN t : (s \o t)[i] = t[j]
         /\ t # <<>> => /\ Len(s \o t) \in DOMAIN (s \o t) /\ Len(s \o t) \notin DOMAIN s
                        /\ (s \o t)[Len(s \o t)] = t[Len(t)]
                        /\ \A i \in DOMAIN (s \o t) : i <= Len(s \o t)
  <1>1. /\ s \o t \in Seq(S) /\ Len(s \o t) = Len(s) + Len(t)
        /\ \A i \in 1 .. Len(s) + Len(t) : (s \o t)[i] = IF i <= Len(s) THEN s[i] ELSE t[i - Len(s)]
    BY ConcatProperties
  <1>2. /\ Len(s) \in Nat /\ Len(t) \in Nat /\ DOMAIN s = 1 .. Len(s) /\ DOMAIN t = 1 .. Len(t)
        /\ DOMAIN (s \o t) = 1 .. Len(s) + Len(t)
    BY <1>1
  <1>3. t # <<>> => Len(t) # 0
    BY EmptySeq
  <1>4. ASSUME NEW i \in DOMAIN (s \o t), i \notin DOMAIN s
        PROVE  i - Len(s) \in DOMAIN t /\ (s \o t)[i] = t[i - Len(s)]
    BY <1>1, <1>2, <1>4
  <1>. QED BY <1>1, <1>2, <1>3, <1>4

\* The first call is answered, to whoever waits for it.
LEMMA CallsReturned ==
  ASSUME TypeOK, CallsInv, calls # <<>>, NEW value, value # "none", Return(value), UNCHANGED shell
  PROVE  /\ CallsInv'
         /\ LockAsked' => LockAsked
         /\ Head(calls).op # "Lock" => (LockAsked => LockAsked')
         /\ \/ Head(calls).from = "shell" /\ shell \in Waiting /\ Head(calls).op = OpOf(shell)
               /\ answer = "none" /\ answer' = value
            \/ answer' = answer
  <1>1. /\ 1 \in DOMAIN calls /\ Head(calls) = calls[1] /\ calls' = Tail(calls)
        /\ \A i \in DOMAIN calls' : i + 1 \in DOMAIN calls /\ calls'[i] = calls[i + 1] /\ i + 1 # 1
        /\ \A i \in DOMAIN calls : i # 1 => i - 1 \in DOMAIN calls' /\ calls'[i - 1] = calls[i]
        /\ DOMAIN calls' \subseteq Nat
    BY WithoutHead DEF TypeOK, Return
  <1>2. ASSUME NEW i \in DOMAIN calls', calls'[i].from = "shell"
        PROVE  /\ shell \in Waiting /\ answer = "none" /\ answer' = "none"
               /\ calls'[i].op = OpOf(shell)
               /\ \A j \in DOMAIN calls' : calls'[j].from = "shell" => i = j
    <2>1. /\ i + 1 \in DOMAIN calls /\ calls[i + 1].from = "shell" /\ i \in Nat
          /\ calls'[i].op = calls[i + 1].op
      BY <1>1, <1>2
    <2>2. calls[1].from # "shell"
      BY <1>1, <2>1 DEF CallsInv
    <2>3. ASSUME NEW j \in DOMAIN calls', calls'[j].from = "shell" PROVE i = j
      <3>1. j + 1 \in DOMAIN calls /\ calls[j + 1].from = "shell" /\ j \in Nat
        BY <1>1, <2>3
      <3>2. i + 1 = j + 1
        BY <2>1, <3>1 DEF CallsInv
      <3>. QED BY <2>1, <3>1, <3>2
    <2>. QED BY <1>1, <2>1, <2>2, <2>3 DEF CallsInv, Return
  <1>3. shell \notin Waiting => answer' = "none"
    BY <1>1 DEF CallsInv, Return
  <1>4. CallsInv'
    BY <1>2, <1>3 DEF CallsInv
  <1>. QED BY <1>1, <1>4 DEF CallsInv, Return, LockAsked

\* A call is added after the others.
LEMMA CallsAdded ==
  ASSUME TypeOK, NEW who \in {"shell", "lockd"},
         NEW op \in {"Lock", "Unlock", "lockState", "ForceLocked"}, CallFrom(who, op)
  PROVE  /\ \A i \in DOMAIN calls : i \in DOMAIN calls' /\ calls'[i] = calls[i]
         /\ \A i \in DOMAIN calls' : \/ i \in DOMAIN calls
                                     \/ /\ i = Len(calls) + 1
                                        /\ calls'[i] = [op |-> op, from |-> who]
         /\ Len(calls) + 1 \in DOMAIN calls' /\ Len(calls) + 1 \notin DOMAIN calls
         /\ calls'[Len(calls) + 1] = [op |-> op, from |-> who]
  <1>1. calls \in Seq(Call) /\ [op |-> op, from |-> who] \in Call
    BY DEF TypeOK, Call
  <1>2. /\ calls' \in Seq(Call) /\ Len(calls') = Len(calls) + 1 /\ Len(calls) \in Nat
        /\ \A i \in 1 .. Len(calls) : calls'[i] = calls[i]
        /\ calls'[Len(calls) + 1] = [op |-> op, from |-> who]
    BY <1>1, AppendProperties DEF CallFrom
  <1>3. DOMAIN calls = 1 .. Len(calls) /\ DOMAIN calls' = 1 .. Len(calls) + 1
    BY <1>1, <1>2
  <1>4. /\ DOMAIN calls \subseteq DOMAIN calls' /\ Len(calls) + 1 \in DOMAIN calls'
        /\ Len(calls) + 1 \notin DOMAIN calls
        /\ \A i \in DOMAIN calls' : i \in DOMAIN calls \/ i = Len(calls) + 1
    BY <1>2, <1>3
  <1>5. \A i \in DOMAIN calls : calls'[i] = calls[i]
    BY <1>2, <1>3
  <1>. QED BY <1>2, <1>4, <1>5

\* A caller that gives up leaves its calls, but is not told of them.
LEMMA CallsOrphaned ==
  ASSUME TypeOK, NEW who, calls' = Orphaned(who), who # "nobody"
  PROVE  /\ DOMAIN calls' = DOMAIN calls
         /\ \A i \in DOMAIN calls :
              /\ calls'[i].op = calls[i].op /\ calls'[i].from # who
              /\ calls'[i].from = "shell" => calls[i].from = "shell"
  <1>1. \A i \in DOMAIN calls : calls[i] \in Call
    <2>1. calls \in Seq(Call) /\ DOMAIN calls = 1 .. Len(calls)
      BY DEF TypeOK
    <2>. QED BY <2>1
  <1>. QED BY <1>1 DEF Orphaned, Call

\* Nothing on its way to the shell is lost or overtaken.
Kept == \A i \in DOMAIN inbox : i \in DOMAIN inbox' /\ inbox'[i] = inbox[i]

LEMMA KeptStays ==
  /\ UNCHANGED inbox => Kept
  /\ Kept => \A words : Has(words) => Has(words)'
  BY DEF Kept, Has

\* setLockState() tells the shell of a new state, and the last it says is decisive.
LEMMA LockStateTold ==
  ASSUME TypeOK, NEW s \in LockState, SetLockState(s)
  PROVE  /\ state' = s /\ Kept
         /\ \A i \in DOMAIN inbox' : i \in DOMAIN inbox \/ inbox'[i] # "Lost"
         /\ ~Bound \/ s = state => inbox' = inbox
         /\ Bound /\ s # state /\ s \in {"Locked", "Active"} =>
              \E i \in DOMAIN inbox' :
                /\ inbox'[i] = IF s = "Locked" THEN "SessionLocked" ELSE "SessionUnlocked"
                /\ \A j \in DOMAIN inbox' : ~(j > i)
  <1>. DEFINE sent == CASE s = "Locked" -> <<s, "SessionLocked">>
                        [] s = "Active" -> <<s, "SessionUnlocked">>
                        [] OTHER        -> <<s>>
  <1>1. /\ state' = s
        /\ ~Bound \/ s = state => inbox' = inbox
        /\ Bound /\ s # state => inbox' = inbox \o sent
    BY DEF SetLockState, Send
  <1>2. /\ sent \in Seq(Signal) /\ sent # <<>>
        /\ \A i \in DOMAIN sent : sent[i] # "Lost"
        /\ s = "Locked" => sent[Len(sent)] = "SessionLocked"
        /\ s = "Active" => sent[Len(sent)] = "SessionUnlocked"
    <2>1. s \in Signal /\ s # "Lost" /\ "SessionLocked" \in Signal /\ "SessionUnlocked" \in Signal
      BY DEF LockState, Signal
    <2>2. \A x, y \in Signal : /\ <<x>> \in Seq(Signal) /\ <<x, y>> \in Seq(Signal)
                               /\ DOMAIN <<x>> = {1} /\ DOMAIN <<x, y>> = {1, 2}
                               /\ <<x>>[1] = x /\ <<x, y>>[1] = x /\ <<x, y>>[2] = y
                               /\ Len(<<x, y>>) = 2 /\ <<x>> # <<>> /\ <<x, y>> # <<>>
      OBVIOUS
    <2>3. CASE s = "Locked"
      BY <2>1, <2>2, <2>3
    <2>4. CASE s = "Active"
      BY <2>1, <2>2, <2>4
    <2>5. CASE s # "Locked" /\ s # "Active"
      BY <2>1, <2>2, <2>5
    <2>. QED BY <2>3, <2>4, <2>5
  <1>. HIDE DEF sent
  <1>3. CASE ~Bound \/ s = state
    BY <1>1, <1>3 DEF Kept
  <1>4. CASE Bound /\ s # state
    <2>1. inbox \in Seq(Signal) /\ inbox' = inbox \o sent
      BY <1>1, <1>4 DEF TypeOK
    <2>2. /\ DOMAIN inbox' \subseteq Nat
          /\ \A i \in DOMAIN inbox : i \in DOMAIN inbox' /\ inbox'[i] = inbox[i]
          /\ \A i \in DOMAIN inbox' : i \in DOMAIN inbox \/ \E j \in DOMAIN sent : inbox'[i] = sent[j]
          /\ Len(inbox') \in DOMAIN inbox' /\ inbox'[Len(inbox')] = sent[Len(sent)]
          /\ \A i \in DOMAIN inbox' : i <= Len(inbox')
      BY <1>2, <2>1, WithMore
    <2>3. \A j \in DOMAIN inbox' : ~(j > Len(inbox'))
      BY <2>2
    <2>. QED BY <1>1, <1>2, <1>4, <2>2, <2>3 DEF Kept
  <1>. QED BY <1>3, <1>4

\* The bus tells the shell that desktopd comes or goes.
LEMMA OwnerTold ==
  ASSUME TypeOK, NEW word \in {"Lost", "Owned"}, Send(<<word>>)
  PROVE  /\ Kept
         /\ ~Bound => inbox' = inbox
         /\ Bound => \E i \in DOMAIN inbox' : /\ inbox'[i] = word /\ i \notin DOMAIN inbox
                                              /\ \A j \in DOMAIN inbox' : ~(j > i)
                                              /\ \A j \in DOMAIN inbox : i > j
         /\ \A i \in DOMAIN inbox' : i \in DOMAIN inbox \/ inbox'[i] = word
  <1>1. CASE ~Bound
    BY <1>1 DEF Send, Kept
  <1>2. CASE Bound
    <2>1. inbox \in Seq(Signal) /\ inbox' = inbox \o <<word>>
      BY <1>2 DEF TypeOK, Send
    <2>2. /\ <<word>> \in Seq(Signal) /\ <<word>> # <<>> /\ Len(<<word>>) = 1 /\ <<word>>[1] = word
          /\ \A i \in DOMAIN <<word>> : <<word>>[i] = word
      BY DEF Signal
    <2>3. /\ DOMAIN inbox' \subseteq Nat /\ Len(inbox') \in DOMAIN inbox'
          /\ \A i \in DOMAIN inbox : i \in DOMAIN inbox' /\ inbox'[i] = inbox[i]
          /\ \A i \in DOMAIN inbox' : i \in DOMAIN inbox \/ inbox'[i] = word
          /\ inbox'[Len(inbox')] = word /\ Len(inbox') \notin DOMAIN inbox
          /\ \A i \in DOMAIN inbox' : i <= Len(inbox')
      BY <2>1, <2>2, WithMore
    <2>4. /\ \A j \in DOMAIN inbox' : ~(j > Len(inbox'))
          /\ \A j \in DOMAIN inbox : Len(inbox') > j
      BY <2>3
    <2>. QED BY <1>2, <2>3, <2>4 DEF Kept
  <1>. QED BY <1>1, <1>2

\* A shell that waits for nothing has no call to be answered.
LEMMA NoCalls ==
  ASSUME CallsInv, shell \notin Waiting \/ answer # "none"
  PROVE  \A i \in DOMAIN calls : calls[i].from # "shell"
  BY DEF CallsInv

\* A shell that starts to wait has one call, or its answer.
LEMMA AskKeepsCalls ==
  ASSUME TypeOK, CallsInv, shell \notin Waiting, shell' \in Waiting, Ask(OpOf(shell'))
  PROVE  CallsInv'
  <1>1. \A i \in DOMAIN calls : calls[i].from # "shell"
    BY NoCalls
  <1>2. CASE desktopd = "down"
    BY <1>1, <1>2 DEF Ask, CallsInv
  <1>3. CASE desktopd # "down"
    <2>1. OpOf(shell') \in {"Lock", "Unlock", "lockState", "ForceLocked"}
      BY DEF OpOf
    <2>2. CallFrom("shell", OpOf(shell')) /\ answer' = answer
      BY <1>3 DEF Ask
    <2>3. \A i \in DOMAIN calls' : \/ i \in DOMAIN calls /\ calls'[i] = calls[i]
                                   \/ /\ i = Len(calls) + 1
                                      /\ calls'[i] = [op |-> OpOf(shell'), from |-> "shell"]
      BY <2>1, <2>2, CallsAdded
    <2>4. \A i \in DOMAIN calls' : calls'[i].from = "shell" =>
            i = Len(calls) + 1 /\ calls'[i].op = OpOf(shell')
      BY <1>1, <2>3
    <2>. QED BY <2>2, <2>4 DEF CallsInv
  <1>. QED BY <1>2, <1>3

\* A caller that gives up has no call left.
LEMMA OrphansKeepCalls ==
  ASSUME TypeOK, CallsInv, NEW who \in {"shell", "lockd"}, calls' = Orphaned(who),
         who = "shell" => (shell' \notin Waiting => answer' = "none"),
         who = "lockd" => UNCHANGED <<shell, answer>>
  PROVE  CallsInv'
  <1>1. /\ DOMAIN calls' = DOMAIN calls
        /\ \A i \in DOMAIN calls :
             /\ calls'[i].op = calls[i].op /\ calls'[i].from # who
             /\ calls'[i].from = "shell" => calls[i].from = "shell"
    BY CallsOrphaned
  <1>2. CASE who = "shell"
    BY <1>1, <1>2 DEF CallsInv
  <1>3. CASE who = "lockd"
    BY <1>1, <1>3 DEF CallsInv
  <1>. QED BY <1>2, <1>3

\* CallsInv is inductive.
LEMMA CallsStep == TypeInv /\ CallsInv /\ [Next]_vars => CallsInv'
  <1> SUFFICES ASSUME TypeOK, Busy, CallsInv, [Next]_vars PROVE CallsInv'
    BY DEF TypeInv
  <1>. USE DEF desktopdVars, saverVars, shellVars, lockdVars, historyVars, boundVars
  <1>1. CASE UNCHANGED <<calls, shell, answer>>
    BY <1>1 DEF CallsInv
  <1>2. \A op : Serving(op) => calls # <<>>
    BY DEF Serving
  <1>3. ASSUME calls # <<>>, NEW value, value # "none", Return(value), UNCHANGED shell
        PROVE  CallsInv'
    BY <1>3, CallsReturned
  <1>4. CASE GetLockState
    <2>1. state # "none"
      BY DEF TypeOK, LockState
    <2>. QED BY <1>2, <1>3, <1>4, <2>1 DEF GetLockState
  <1>5. CASE Refuse
    BY <1>2, <1>3, <1>5 DEF Refuse
  <1>6. CASE BeginLock
    BY <1>1, <1>2, <1>3, <1>6 DEF BeginLock
  <1>7. CASE EndLock
    BY <1>3, <1>7 DEF EndLock, Busy
  <1>8. CASE UnlockRefused
    BY <1>2, <1>3, <1>8 DEF UnlockRefused
  <1>9. CASE EndUnlock
    BY <1>3, <1>9 DEF EndUnlock, Busy
  <1>10. CASE ForceLocked
    BY <1>2, <1>3, <1>10 DEF ForceLocked
  <1>11. CASE BeginUnlock \/ OnPrepareForSleep \/ OnScreenSaverActiveChanged \/ DesktopdStart
    BY <1>1, <1>11 DEF BeginUnlock, OnPrepareForSleep, OnScreenSaverActiveChanged, DesktopdStart
  <1>12. CASE DesktopdDies
    <2>1. calls' = <<>> /\ shell' = shell /\ (answer = "none" /\ shell \notin Waiting => answer' = "none")
      BY <1>12 DEF DesktopdDies
    <2>2. DOMAIN calls' = {}
      BY <2>1
    <2>. QED BY <2>1, <2>2 DEF CallsInv
  <1>13. CASE ShellStart
    BY <1>13 DEF ShellStart, CallsInv, Waiting
  <1>14. CASE OnSignal \/ OnLost
    BY <1>1, <1>14 DEF OnSignal, OnLost
  <1>15. CASE NewClient
    <2>1. CASE shell' = "starting" /\ Ask("lockState")
      BY <1>15, <2>1, AskKeepsCalls DEF NewClient, Waiting, OpOf
    <2>2. CASE shell' = "up" /\ UNCHANGED <<calls, answer>>
      BY <1>15, <2>2 DEF NewClient, Waiting, CallsInv
    <2>. QED BY <1>15, <2>1, <2>2 DEF NewClient
  <1>16. CASE OnOwned
    BY <1>16, AskKeepsCalls DEF OnOwned, Waiting, OpOf
  <1>17. CASE Lock
    <2>1. CASE valid
      BY <1>17, <2>1, AskKeepsCalls DEF Lock, Waiting, OpOf
    <2>2. CASE ~valid
      BY <1>1, <1>17, <2>2 DEF Lock
    <2>. QED BY <2>1, <2>2
  <1>18. CASE RequestUnlock
    BY <1>18, AskKeepsCalls DEF RequestUnlock, Waiting, OpOf
  <1>19. CASE Answered
    BY <1>19, NoCalls DEF Answered, Waiting, CallsInv
  <1>20. CASE TimesOut \/ ShellDies
    BY <1>20, OrphansKeepCalls DEF TimesOut, ShellDies
  <1>21. CASE LockdStart \/ PrimeFromCurrentOwner \/ SaverChanges \/ Rest \/ UNCHANGED vars
    BY <1>1, <1>21 DEF LockdStart, PrimeFromCurrentOwner, SaverChanges, Rest, vars
  <1>22. CASE OnServiceOwnerChanged
    <2>1. CASE CallFrom("lockd", "ForceLocked")
      <3>1. \A i \in DOMAIN calls' : \/ i \in DOMAIN calls /\ calls'[i] = calls[i]
                                     \/ calls'[i] = [op |-> "ForceLocked", from |-> "lockd"]
        BY <2>1, CallsAdded
      <3>2. \A i \in DOMAIN calls' : calls'[i].from = "shell" =>
              i \in DOMAIN calls /\ calls'[i] = calls[i]
        BY <3>1
      <3>. QED BY <1>22, <3>2 DEF OnServiceOwnerChanged, CallsInv
    <2>. QED BY <1>1, <1>22, <2>1 DEF OnServiceOwnerChanged
  <1>23. CASE LockdDies
    BY <1>23, OrphansKeepCalls DEF LockdDies
  <1>. QED BY <1>4, <1>5, <1>6, <1>7, <1>8, <1>9, <1>10, <1>11, <1>12, <1>13, <1>14, <1>15,
              <1>16, <1>17, <1>18, <1>19, <1>20, <1>21, <1>22, <1>23
           DEF Next, Desktopd, Shell, Lockd

\* A step that only adds signals, none of them the loss of desktopd.
LEMMA KeptInbox ==
  ASSUME InboxInv, UNCHANGED <<shell, valid>>, Kept,
         desktopd = "down" <=> desktopd' = "down", ~Bound => UNCHANGED inbox,
         \A i \in DOMAIN inbox' : i \in DOMAIN inbox \/ inbox'[i] # "Lost"
  PROVE  InboxInv'
  BY DEF InboxInv, Kept, Has, Comes, Bound

\* The shell takes the first signal.
LEMMA TakenInbox ==
  ASSUME TypeOK, inbox # <<>>, inbox' = Tail(inbox)
  PROVE  /\ 1 \in DOMAIN inbox /\ Head(inbox) = inbox[1] /\ inbox \in Seq(Signal)
         /\ DOMAIN inbox \subseteq Nat /\ DOMAIN inbox' \subseteq Nat
         /\ \A i \in DOMAIN inbox' : i + 1 \in DOMAIN inbox /\ inbox'[i] = inbox[i + 1]
         /\ \A i \in DOMAIN inbox : i # 1 => i - 1 \in DOMAIN inbox' /\ inbox'[i - 1] = inbox[i]
         /\ \A words : Has(words) => Head(inbox) \in words \/ Has(words)'
         /\ \A words : Has(words)' => Has(words)
  <1>1. inbox \in Seq(Signal)
    BY DEF TypeOK
  <1>2. /\ 1 \in DOMAIN inbox /\ Head(inbox) = inbox[1]
        /\ DOMAIN inbox \subseteq Nat /\ DOMAIN inbox' \subseteq Nat
        /\ \A i \in DOMAIN inbox' : i + 1 \in DOMAIN inbox /\ inbox'[i] = inbox[i + 1]
        /\ \A i \in DOMAIN inbox : i # 1 => i - 1 \in DOMAIN inbox' /\ inbox'[i - 1] = inbox[i]
    BY <1>1, WithoutHead
  <1>. QED BY <1>1, <1>2 DEF Has

LEMMA TakenKeepsInbox ==
  ASSUME TypeOK, InboxInv, Bound, Bound', inbox # <<>>, inbox' = Tail(inbox), UNCHANGED desktopd,
         \/ Head(inbox) \notin {"Lost", "Owned"} /\ valid' = valid
         \/ Head(inbox) = "Lost" /\ valid' = FALSE
         \/ Head(inbox) = "Owned" /\ valid' = TRUE
  PROVE  InboxInv'
  <1>1. ASSUME NEW i \in DOMAIN inbox', inbox'[i] = "Lost" PROVE Comes(i)'
    <2>1. i + 1 \in DOMAIN inbox /\ inbox[i + 1] = "Lost" /\ i \in Nat
      BY <1>1, TakenInbox
    <2>2. Comes(i + 1)
      BY <2>1 DEF InboxInv
    <2>3. CASE desktopd # "down"
      <3>1. PICK j \in DOMAIN inbox : j > i + 1 /\ inbox[j] = "Owned"
        BY <2>2, <2>3 DEF Comes
      <3>2. j \in Nat /\ j # 1 /\ j - 1 \in DOMAIN inbox' /\ inbox'[j - 1] = "Owned"
        BY <2>1, <3>1, TakenInbox
      <3>. QED BY <2>1, <3>1, <3>2 DEF Comes
    <2>. QED BY <2>3 DEF Comes
  <1>2. ASSUME ~valid', desktopd # "down" PROVE Has({"Owned"})'
    <2>1. CASE Head(inbox) = "Lost"
      <3>1. Comes(1)
        BY <2>1, TakenInbox DEF InboxInv
      <3>2. PICK j \in DOMAIN inbox : j > 1 /\ inbox[j] = "Owned"
        BY <1>2, <3>1 DEF Comes
      <3>3. j # 1 /\ j - 1 \in DOMAIN inbox' /\ inbox'[j - 1] = "Owned"
        <4>1. j \in Nat
          BY TakenInbox
        <4>. QED BY <3>2, <4>1, TakenInbox
      <3>. QED BY <3>3 DEF Has
    <2>2. CASE Head(inbox) \notin {"Lost", "Owned"} /\ valid' = valid
      <3>1. Has({"Owned"})
        BY <1>2, <2>2 DEF InboxInv
      <3>2. Head(inbox) \notin {"Owned"}
        BY <2>2
      <3>. QED BY <3>1, <3>2, TakenInbox
    <2>. QED BY <1>2, <2>1, <2>2
  <1>. QED BY <1>1, <1>2 DEF InboxInv

\* InboxInv is inductive.
LEMMA InboxStep == TypeInv /\ InboxInv /\ [Next]_vars => InboxInv'
  <1> SUFFICES ASSUME TypeOK, Busy, InboxInv, [Next]_vars PROVE InboxInv'
    BY DEF TypeInv
  <1>. USE DEF desktopdVars, saverVars, shellVars, lockdVars, historyVars, boundVars
  <1>1. ASSUME UNCHANGED <<shell, valid>>, desktopd # "down", desktopd' # "down",
               UNCHANGED inbox \/ \E s \in LockState : SetLockState(s)
        PROVE  InboxInv'
    <2>1. Kept /\ (~Bound => UNCHANGED inbox)
          /\ \A i \in DOMAIN inbox' : i \in DOMAIN inbox \/ inbox'[i] # "Lost"
      BY <1>1, KeptStays, LockStateTold
    <2>. QED BY <1>1, <2>1, KeptInbox
  <1>2. {"Active", "Locking", "Locked", "Unlocking"} \subseteq LockState
    BY DEF LockState
  <1>3. \A op : Serving(op) => desktopd = "ready"
    BY DEF Serving
  <1>4. CASE GetLockState \/ Refuse \/ UnlockRefused
    BY <1>1, <1>3, <1>4 DEF GetLockState, Refuse, UnlockRefused
  <1>5. CASE BeginLock
    BY <1>1, <1>2, <1>3, <1>5 DEF BeginLock
  <1>6. CASE EndLock \/ EndUnlock
    BY <1>1, <1>2, <1>6 DEF EndLock, EndUnlock
  <1>7. CASE BeginUnlock
    BY <1>1, <1>2, <1>3, <1>7 DEF BeginUnlock
  <1>8. CASE ForceLocked
    BY <1>1, <1>2, <1>3, <1>8 DEF ForceLocked
  <1>9. CASE OnPrepareForSleep
    BY <1>1, <1>2, <1>9 DEF OnPrepareForSleep
  <1>10. CASE OnScreenSaverActiveChanged
    BY <1>1, <1>2, <1>10 DEF OnScreenSaverActiveChanged, EmitIdle
  <1>11. CASE DesktopdDies
    <2>1. desktopd' = "down" /\ UNCHANGED <<shell, valid>> /\ (~Bound => inbox' = inbox)
      BY <1>11, OwnerTold DEF DesktopdDies
    <2>. QED BY <2>1 DEF InboxInv, Comes, Bound
  <1>12. CASE DesktopdStart
    <2>1. Send(<<"Owned">>) /\ UNCHANGED <<shell, valid>>
      BY <1>12 DEF DesktopdStart
    <2>2. CASE ~Bound
      <3>1. inbox' = inbox
        BY <2>1, <2>2, OwnerTold
      <3>2. DOMAIN inbox = {}
        BY <2>2 DEF InboxInv
      <3>. QED BY <2>1, <2>2, <3>1, <3>2 DEF InboxInv, Bound
    <2>3. CASE Bound
      <3>1. Kept
        BY <2>1, OwnerTold
      <3>2. PICK k \in DOMAIN inbox' : /\ inbox'[k] = "Owned"
                                       /\ \A j \in DOMAIN inbox : k > j
        BY <2>1, <2>3, OwnerTold
      <3>3. \A i \in DOMAIN inbox' : i \in DOMAIN inbox \/ inbox'[i] = "Owned"
        BY <2>1, OwnerTold
      <3>4. \A i \in DOMAIN inbox' : inbox'[i] = "Lost" => k > i
        BY <3>2, <3>3
      <3>. QED BY <2>1, <2>3, <3>2, <3>4 DEF InboxInv, Bound, Has, Comes
    <2>. QED BY <2>2, <2>3
  <1>13. CASE ShellStart
    BY <1>13 DEF ShellStart, InboxInv, Bound
  <1>14. CASE NewClient
    <2>1. inbox' = inbox /\ inbox = <<>> /\ UNCHANGED desktopd /\ valid' = (desktopd # "down")
      BY <1>14 DEF NewClient, InboxInv, Bound
    <2>2. DOMAIN inbox' = {}
      BY <2>1
    <2>. QED BY <2>1, <2>2 DEF InboxInv
  <1>15. CASE OnSignal \/ OnLost \/ OnOwned
    <2>1. Bound /\ Bound' /\ inbox # <<>> /\ inbox' = Tail(inbox) /\ UNCHANGED desktopd
      BY <1>15 DEF OnSignal, OnLost, OnOwned, Bound
    <2>2. \/ Head(inbox) \notin {"Lost", "Owned"} /\ valid' = valid
          \/ Head(inbox) = "Lost" /\ valid' = FALSE
          \/ Head(inbox) = "Owned" /\ valid' = TRUE
      BY <1>15 DEF OnSignal, OnLost, OnOwned
    <2>. QED BY <2>1, <2>2, TakenKeepsInbox
  <1>16. CASE Lock \/ RequestUnlock \/ Answered \/ TimesOut
    <2>1. UNCHANGED <<desktopd, inbox, valid>> /\ Bound /\ Bound'
      BY <1>16 DEF Lock, RequestUnlock, Answered, TimesOut, Bound, Waiting
    <2>. QED BY <2>1 DEF InboxInv, Has, Comes
  <1>17. CASE ShellDies
    <2>1. inbox' = <<>> /\ ~Bound'
      BY <1>17 DEF ShellDies, Bound
    <2>2. DOMAIN inbox' = {}
      BY <2>1
    <2>. QED BY <2>1, <2>2 DEF InboxInv
  <1>18. CASE Lockd \/ SaverChanges \/ Rest \/ UNCHANGED vars
    <2>1. UNCHANGED <<desktopd, inbox, valid, shell>>
      BY <1>18 DEF Lockd, LockdStart, PrimeFromCurrentOwner, OnServiceOwnerChanged, LockdDies,
                   SaverChanges, Rest, vars
    <2>. QED BY <2>1 DEF InboxInv, Has, Comes, Bound
  <1>. QED BY <1>4, <1>5, <1>6, <1>7, <1>8, <1>9, <1>10, <1>11, <1>12, <1>13, <1>14, <1>15,
              <1>16, <1>17, <1>18
           DEF Next, Desktopd, Shell

\* A step of another process adds signals, and answers "yes" only with the signals of
\* an unlocked session.
LEMMA KeptShown ==
  ASSUME ShownInv, UNCHANGED <<shell, locked, visible>>, Kept,
         shell = "unlocking" /\ answer' = "yes" => answer = "yes" \/ Has(Unlocks)'
  PROVE  ShownInv'
  <1>1. Has(Unlocks) => Has(Unlocks)'
    BY KeptStays
  <1>. QED BY <1>1 DEF ShownInv

\* Booleans, for the case analysis of what the shell shows.
LEMMA ShellBooleans ==
  ASSUME TypeOK
  PROVE  locked \in BOOLEAN /\ visible \in BOOLEAN
  BY DEF TypeOK

\* ShownInv is inductive.
LEMMA ShownStep ==
  TypeInv /\ LockInv /\ CallsInv /\ InboxInv /\ ShownInv /\ [Next]_vars => ShownInv'
  <1> SUFFICES ASSUME TypeOK, Busy, LockInv, CallsInv, InboxInv, ShownInv, [Next]_vars
               PROVE  ShownInv'
    BY DEF TypeInv
  <1>. USE DEF desktopdVars, saverVars, shellVars, lockdVars, historyVars, boundVars
  <1>1. \A s \in LockState : SetLockState(s) => Kept
    BY LockStateTold
  <1>2. {"Active", "Locking", "Locked", "Unlocking"} \subseteq LockState
    BY DEF LockState
  <1>3. \A op : Serving(op) => calls # <<>>
    BY DEF Serving
  <1>4. ASSUME calls # <<>>, NEW value, value \notin {"none", "yes"}, Return(value), Kept,
               UNCHANGED <<shell, locked, visible>>
        PROVE  ShownInv'
    <2>1. answer' = value \/ answer' = answer
      BY <1>4, CallsReturned
    <2>. QED BY <1>4, <2>1, KeptShown
  <1>5. CASE GetLockState
    <2>1. state \notin {"none", "yes"}
      BY DEF TypeOK, LockState
    <2>. QED BY <1>3, <1>4, <1>5, <2>1, KeptStays DEF GetLockState
  <1>6. CASE Refuse
    BY <1>3, <1>4, <1>6, KeptStays DEF Refuse
  <1>7. CASE UnlockRefused
    BY <1>3, <1>4, <1>7, KeptStays DEF UnlockRefused
  <1>8. CASE BeginLock
    <2>1. CASE state \in {"Locked", "Locking"}
      BY <1>3, <1>4, <1>8, <2>1, KeptStays DEF BeginLock
    <2>2. CASE state \notin {"Locked", "Locking"}
      BY <1>1, <1>2, <1>8, <2>2, KeptShown DEF BeginLock
    <2>. QED BY <2>1, <2>2
  <1>9. CASE EndLock
    BY <1>1, <1>2, <1>4, <1>9 DEF EndLock, Busy
  <1>10. CASE ForceLocked
    BY <1>1, <1>2, <1>3, <1>4, <1>10 DEF ForceLocked
  <1>11. CASE BeginUnlock
    BY <1>1, <1>2, <1>11, KeptShown DEF BeginUnlock
  <1>12. CASE EndUnlock
    <2>1. /\ state = "Unlocking" /\ SetLockState("Active") /\ Return("yes") /\ calls # <<>>
          /\ UNCHANGED <<shell, locked, visible>>
      BY <1>12 DEF EndUnlock, LockInv, Busy
    <2>2. Kept
      BY <1>1, <1>2, <2>1
    <2>3. ASSUME shell = "unlocking" PROVE Has(Unlocks)'
      <3>1. Bound
        BY <2>3 DEF Bound
      <3>2. \E i \in DOMAIN inbox' : inbox'[i] = "SessionUnlocked"
        BY <1>2, <2>1, <3>1, LockStateTold
      <3>. QED BY <3>2 DEF Has, Unlocks
    <2>. QED BY <2>1, <2>2, <2>3, KeptShown
  <1>13. CASE OnPrepareForSleep
    BY <1>1, <1>2, <1>13, KeptStays, KeptShown DEF OnPrepareForSleep
  <1>14. CASE OnScreenSaverActiveChanged
    BY <1>1, <1>2, <1>14, KeptStays, KeptShown DEF OnScreenSaverActiveChanged, EmitIdle
  <1>15. CASE DesktopdDies
    <2>1. answer' \in {answer, "error"} /\ Kept /\ UNCHANGED <<shell, locked, visible>>
      BY <1>15, OwnerTold DEF DesktopdDies
    <2>. QED BY <2>1, KeptShown
  <1>16. CASE DesktopdStart
    BY <1>16, OwnerTold, KeptShown DEF DesktopdStart
  <1>17. CASE ShellStart
    BY <1>17 DEF ShellStart, ShownInv, Has
  <1>18. CASE NewClient
    <2>1. inbox = <<>> /\ UNCHANGED <<inbox, locked, visible>> /\ shell' \in {"starting", "up"}
          /\ shell = "named"
      BY <1>18 DEF NewClient, InboxInv, Bound
    <2>2. ~Has(Unlocks)
      BY <2>1 DEF Has
    <2>3. visible = locked
      BY <2>1, <2>2 DEF ShownInv
    <2>. QED BY <2>1, <2>3 DEF ShownInv
  <1>19. CASE OnSignal
    <2>1. /\ shell = "up" /\ shell' = "up" /\ inbox # <<>> /\ inbox' = Tail(inbox)
          /\ OnLockStateChanged(Head(inbox))
      BY <1>19 DEF OnSignal
    <2>2. Has(Unlocks) => Head(inbox) \in Unlocks \/ Has(Unlocks)'
      BY <2>1, TakenInbox
    <2>3. CASE Head(inbox) \in Unlocks
      <3>1. locked' = FALSE /\ visible' = IF locked = FALSE THEN visible ELSE FALSE
        BY <2>1, <2>3 DEF OnLockStateChanged, SetLocked, Unlocks
      <3>2. ~locked => ~visible
        BY <2>1, ShellBooleans DEF ShownInv
      <3>3. visible' = locked'
        BY <3>1, <3>2, ShellBooleans
      <3>. QED BY <2>1, <3>3 DEF ShownInv
    <2>4. CASE Head(inbox) \notin Unlocks
      <3>1. \/ locked' = TRUE /\ visible' = IF locked = TRUE THEN visible ELSE TRUE
            \/ UNCHANGED <<locked, visible>>
        BY <2>1, <2>4 DEF OnLockStateChanged, SetLocked, Unlocks
      <3>2. visible = locked \/ (~visible /\ locked /\ Has(Unlocks)')
        BY <2>1, <2>2, <2>4 DEF ShownInv
      <3>3. CASE UNCHANGED <<locked, visible>>
        BY <2>1, <3>2, <3>3 DEF ShownInv
      <3>4. CASE locked' = TRUE /\ visible' = IF locked = TRUE THEN visible ELSE TRUE
        BY <2>1, <3>2, <3>4, ShellBooleans DEF ShownInv
      <3>. QED BY <3>1, <3>3, <3>4
    <2>. QED BY <2>3, <2>4
  <1>20. CASE OnLost \/ OnOwned
    <2>1. /\ shell = "up" /\ shell' \in {"up", "asking"} /\ inbox # <<>> /\ inbox' = Tail(inbox)
          /\ Head(inbox) \notin Unlocks /\ UNCHANGED <<locked, visible>>
      BY <1>20 DEF OnLost, OnOwned, Unlocks
    <2>2. Has(Unlocks) => Has(Unlocks)'
      BY <2>1, TakenInbox
    <2>. QED BY <2>1, <2>2 DEF ShownInv
  <1>21. CASE Lock
    <2>1. PICK shown \in {visible, TRUE} :
            \/ shell' = "locking" /\ visible' = shown /\ UNCHANGED locked
            \/ shell' = "up" /\ locked' = TRUE /\ visible' = (shown \/ ~locked)
      BY <1>21 DEF Lock
    <2>2. shell = "up" /\ inbox' = inbox
      BY <1>21 DEF Lock
    <2>3. Has(Unlocks) => Has(Unlocks)'
      BY <2>2 DEF Has
    <2>4. visible = locked \/ (~visible /\ locked /\ Has(Unlocks)')
      BY <2>2, <2>3 DEF ShownInv
    <2>5. CASE shell' = "locking" /\ visible' = shown /\ UNCHANGED locked
      BY <2>1, <2>4, <2>5, ShellBooleans DEF ShownInv
    <2>6. CASE shell' = "up" /\ locked' = TRUE /\ visible' = (shown \/ ~locked)
      <3>1. visible \in BOOLEAN /\ locked \in BOOLEAN /\ shown \in {visible, TRUE}
        BY <2>1, ShellBooleans
      <3>2. visible' = TRUE \/ (visible' = FALSE /\ visible = FALSE /\ locked = TRUE)
        BY <2>6, <3>1
      <3>. QED BY <2>4, <2>6, <3>2 DEF ShownInv
    <2>. QED BY <2>1, <2>5, <2>6
  <1>22. CASE RequestUnlock
    <2>1. shell = "up" /\ UNCHANGED <<locked, visible, inbox>> /\ shell' = "unlocking"
          /\ answer = "none" /\ answer' \in {"none", "error"}
      BY <1>22 DEF RequestUnlock, Ask, CallsInv, Waiting
    <2>. QED BY <2>1 DEF ShownInv, Has
  <1>23. CASE Answered
    <2>1. shell' = "up" /\ inbox' = inbox /\ shell \in Waiting
      BY <1>23 DEF Answered
    <2>2. Has(Unlocks)' <=> Has(Unlocks)
      BY <2>1 DEF Has
    <2>3. CASE shell = "locking"
      <3>1. locked' = TRUE /\ visible' = IF locked = TRUE THEN visible ELSE TRUE
        BY <1>23, <2>3 DEF Answered, SetLocked
      <3>. QED BY <2>1, <2>2, <2>3, <3>1, ShellBooleans DEF ShownInv
    <2>4. CASE shell = "unlocking"
      <3>1. visible' = (visible /\ answer # "yes") /\ UNCHANGED locked
        BY <1>23, <2>4 DEF Answered
      <3>. QED BY <2>1, <2>2, <2>4, <3>1, ShellBooleans DEF ShownInv
    <2>5. CASE shell \in {"starting", "asking"}
      <3>1. OnLockStateChanged(answer)
        BY <1>23, <2>5 DEF Answered
      <3>2. \/ locked' = TRUE /\ visible' = IF locked = TRUE THEN visible ELSE TRUE
            \/ locked' = FALSE /\ visible' = IF locked = FALSE THEN visible ELSE FALSE
            \/ UNCHANGED <<locked, visible>>
        BY <3>1 DEF OnLockStateChanged, SetLocked
      <3>3. visible = locked \/ (~visible /\ locked /\ Has(Unlocks)')
        BY <2>2, <2>5 DEF ShownInv
      <3>4. CASE UNCHANGED <<locked, visible>>
        BY <2>1, <3>3, <3>4 DEF ShownInv
      <3>5. CASE locked' = TRUE /\ visible' = IF locked = TRUE THEN visible ELSE TRUE
        BY <2>1, <3>3, <3>5, ShellBooleans DEF ShownInv
      <3>6. CASE locked' = FALSE /\ visible' = IF locked = FALSE THEN visible ELSE FALSE
        BY <2>1, <3>3, <3>6, ShellBooleans DEF ShownInv
      <3>. QED BY <3>2, <3>4, <3>5, <3>6
    <2>. QED BY <2>1, <2>3, <2>4, <2>5 DEF Waiting
  <1>24. CASE TimesOut
    <2>1. answer' = "error" /\ UNCHANGED <<shell, locked, visible, inbox>>
      BY <1>24 DEF TimesOut
    <2>. QED BY <2>1, KeptStays, KeptShown
  <1>25. CASE ShellDies
    BY <1>25 DEF ShellDies, ShownInv
  <1>26. CASE Lockd \/ SaverChanges \/ Rest \/ UNCHANGED vars
    <2>1. UNCHANGED <<shell, locked, visible, inbox, answer>>
      BY <1>26 DEF Lockd, LockdStart, PrimeFromCurrentOwner, OnServiceOwnerChanged, LockdDies,
                   SaverChanges, Rest, vars
    <2>. QED BY <2>1, KeptStays, KeptShown
  <1>. QED BY <1>5, <1>6, <1>7, <1>8, <1>9, <1>10, <1>11, <1>12, <1>13, <1>14, <1>15,
              <1>16, <1>17, <1>18, <1>19, <1>20, <1>21, <1>22, <1>23, <1>24, <1>25, <1>26
           DEF Next, Desktopd, Shell

\* desktopd has just told the shell of its state.
LEMMA ToldAgrees ==
  ASSUME TypeOK, NEW s \in {"Locked", "Active"}, SetLockState(s), s # state, UNCHANGED shell
  PROVE  AgreeInv'
  <1>1. s \in LockState /\ (Bound <=> Bound')
    BY DEF LockState, Bound
  <1>2. CASE Bound
    <2>1. state' = s
      BY <1>1, LockStateTold
    <2>2. PICK i \in DOMAIN inbox' :
            /\ inbox'[i] = IF s = "Locked" THEN "SessionLocked" ELSE "SessionUnlocked"
            /\ \A j \in DOMAIN inbox' : ~(j > i)
      BY <1>1, <1>2, LockStateTold
    <2>3. Right(inbox[i])'
      BY <2>1, <2>2 DEF Right
    <2>. QED BY <2>2, <2>3 DEF AgreeInv, Agreed
  <1>3. CASE ~Bound
    BY <1>1, <1>3 DEF AgreeInv
  <1>. QED BY <1>2, <1>3

\* What desktopd does, tells and answers leaves the shell with the right state ahead.
LEMMA DesktopdAgrees ==
  ASSUME TypeOK, AgreeInv, desktopd = "ready", UNCHANGED <<shell, locked, astray>>,
         UNCHANGED <<state, inbox>> \/ \E s \in {"Locked", "Active"} : SetLockState(s),
         LockAsked => LockAsked' \/ state = "Locked",
         shell \in {"starting", "asking"} => answer' \in {answer, state}
  PROVE  AgreeInv'
  <1>1. CASE UNCHANGED <<state, inbox>>
    <2>1. Settled => Settled'
      <3>1. CASE shell \in {"starting", "asking"}
        BY <1>1, <3>1 DEF Settled
      <3>2. CASE shell = "locking"
        BY <1>1, <3>2 DEF Settled
      <3>3. CASE shell \notin {"starting", "asking", "locking"}
        BY <1>1, <3>3, ShellBooleans DEF Settled
      <3>. QED BY <3>1, <3>2, <3>3
    <2>. QED BY <1>1, <2>1 DEF AgreeInv, Agreed, Has, Right, Bound
  <1>2. ASSUME NEW s \in {"Locked", "Active"}, SetLockState(s)
        PROVE  AgreeInv'
    <2>1. CASE s = state
      BY <1>1, <1>2, <2>1 DEF SetLockState
    <2>. QED BY <1>2, <2>1, ToldAgrees
  <1>. QED BY <1>1, <1>2

\* What the shell takes from the bus is overtaken by what follows it, or settles it.
LEMMA TakenAgrees ==
  ASSUME TypeOK, Agreed, inbox # <<>>, inbox' = Tail(inbox), UNCHANGED state,
         Right(Head(inbox)) => Settled',
         Head(inbox) \notin Decisive \cup {"Owned"} /\ Settled => Settled'
  PROVE  Agreed'
  <1>1. /\ 1 \in DOMAIN inbox /\ Head(inbox) = inbox[1]
        /\ DOMAIN inbox \subseteq Nat /\ DOMAIN inbox' \subseteq Nat
        /\ \A i \in DOMAIN inbox' : i + 1 \in DOMAIN inbox /\ inbox'[i] = inbox[i + 1]
        /\ \A i \in DOMAIN inbox : i # 1 => i - 1 \in DOMAIN inbox' /\ inbox'[i - 1] = inbox[i]
    BY TakenInbox
  <1>2. \A w : Right(w)' <=> Right(w)
    BY DEF Right
  <1>3. ASSUME NEW i \in DOMAIN inbox, i # 1, Right(inbox[i]),
               \A j \in DOMAIN inbox : j > i => inbox[j] \notin Decisive
        PROVE  Agreed'
    <2>1. i - 1 \in DOMAIN inbox' /\ Right(inbox'[i - 1])
      BY <1>1, <1>3
    <2>2. \A j \in DOMAIN inbox' : j > i - 1 => inbox'[j] \notin Decisive
      <3> SUFFICES ASSUME NEW j \in DOMAIN inbox', j > i - 1 PROVE inbox'[j] \notin Decisive
        OBVIOUS
      <3>1. j \in Nat /\ i \in Nat /\ j + 1 \in DOMAIN inbox /\ inbox'[j] = inbox[j + 1]
        BY <1>1
      <3>2. j + 1 > i
        BY <3>1
      <3>. QED BY <1>3, <3>1, <3>2
    <2>3. Right(inbox[i - 1])'
      BY <1>2, <2>1
    <2>. QED BY <2>1, <2>2, <2>3 DEF Agreed
  <1>4. ASSUME \A j \in DOMAIN inbox : j > 1 => inbox[j] \notin Decisive, Settled'
        PROVE  Agreed'
    <2>1. \A j \in DOMAIN inbox' : inbox'[j] \notin Decisive
      BY <1>1, <1>4
    <2>2. CASE Has({"Owned"})'
      BY <2>1, <2>2 DEF Agreed, Has, Right
    <2>3. CASE ~Has({"Owned"})'
      BY <1>4, <2>1, <2>3 DEF Agreed, Has
    <2>. QED BY <2>2, <2>3
  <1>5. CASE ~Has(Decisive \cup {"Owned"}) /\ Settled
    <2>1. Head(inbox) \notin Decisive \cup {"Owned"}
      BY <1>1, <1>5 DEF Has
    <2>2. \A j \in DOMAIN inbox : inbox[j] \notin Decisive
      BY <1>5 DEF Has
    <2>. QED BY <1>4, <1>5, <2>1, <2>2
  <1>6. ASSUME NEW i \in DOMAIN inbox, Right(inbox[i]),
               \A j \in DOMAIN inbox : j > i => inbox[j] \notin Decisive
        PROVE  Agreed'
    BY <1>1, <1>3, <1>4, <1>6
  <1>. QED BY <1>5, <1>6 DEF Agreed

\* A step of the shell that takes nothing from the bus.
LEMMA ShellAgrees ==
  ASSUME AgreeInv, Bound, UNCHANGED <<desktopd, state, inbox>>, astray => astray',
         desktopd = "ready" /\ ~astray' /\ Settled /\ ~Has(Decisive \cup {"Owned"}) => Settled'
  PROVE  AgreeInv'
  BY DEF AgreeInv, Agreed, Has, Right, Bound

\* AgreeInv is inductive.
LEMMA AgreeStep ==
  TypeInv /\ LockInv /\ CallsInv /\ InboxInv /\ AgreeInv /\ [Next]_vars => AgreeInv'
  <1> SUFFICES ASSUME TypeInv, TypeOK, Busy, LockInv, CallsInv, InboxInv, AgreeInv, [Next]_vars,
                      ~astray', desktopd' = "ready", Bound'
               PROVE  AgreeInv'
    BY DEF TypeInv, AgreeInv
  <1>. USE DEF desktopdVars, saverVars, shellVars, lockdVars, historyVars, boundVars
  <1>1. \A op : Serving(op) => desktopd = "ready" /\ calls # <<>> /\ Head(calls).op = op
    BY DEF Serving
  <1>2. ASSUME desktopd = "ready", calls # <<>>, NEW value, value # "none", Return(value),
               UNCHANGED <<shell, locked, astray>>,
               UNCHANGED <<state, inbox>> \/ SetLockState("Locked"),
               Head(calls).op # "Lock" \/ state = "Locked",
               Head(calls).op # "lockState" \/ value = state
        PROVE  AgreeInv'
    <2>1. /\ Head(calls).op # "Lock" => (LockAsked => LockAsked')
          /\ \/ shell \in Waiting /\ Head(calls).op = OpOf(shell) /\ answer' = value
             \/ answer' = answer
      BY <1>2, CallsReturned
    <2>2. shell \in {"starting", "asking"} => answer' \in {answer, state}
      BY <1>2, <2>1 DEF OpOf
    <2>. QED BY <1>2, <2>1, <2>2, DesktopdAgrees
  <1>3. CASE GetLockState
    <2>1. state # "none"
      BY DEF TypeOK, LockState
    <2>. QED BY <1>1, <1>2, <1>3, <2>1 DEF GetLockState
  <1>4. CASE Refuse
    BY <1>4 DEF Refuse
  <1>5. CASE BeginLock
    <2>1. CASE state \in {"Locked", "Locking"}
      <3>1. state = "Locked"
        BY <1>1, <1>5, <2>1 DEF BeginLock, LockInv
      <3>. QED BY <1>1, <1>2, <1>5, <2>1, <3>1 DEF BeginLock
    <2>2. CASE state \notin {"Locked", "Locking"}
      BY <1>5, <2>2 DEF BeginLock
    <2>. QED BY <2>1, <2>2
  <1>6. CASE EndLock
    <2>1. state # "Locked"
      BY <1>6 DEF EndLock, LockInv
    <2>. QED BY <1>6, <2>1, ToldAgrees DEF EndLock
  <1>7. CASE EndUnlock
    <2>1. state # "Active"
      BY <1>7 DEF EndUnlock, LockInv
    <2>. QED BY <1>7, <2>1, ToldAgrees DEF EndUnlock
  <1>8. CASE UnlockRefused
    BY <1>1, <1>2, <1>8 DEF UnlockRefused
  <1>9. CASE BeginUnlock
    BY <1>9 DEF BeginUnlock
  <1>10. CASE ForceLocked
    BY <1>1, <1>2, <1>10 DEF ForceLocked
  <1>11. CASE OnPrepareForSleep
    <2>1. /\ UNCHANGED <<state, inbox>> \/ SetLockState("Locked")
          /\ desktopd = "ready" /\ UNCHANGED <<shell, locked, astray, answer, calls>>
      BY <1>11 DEF OnPrepareForSleep
    <2>2. LockAsked => LockAsked'
      BY <2>1 DEF LockAsked
    <2>. QED BY <2>1, <2>2, DesktopdAgrees
  <1>12. CASE OnScreenSaverActiveChanged
    <2>1. /\ UNCHANGED <<state, inbox>> \/ \E s \in {"Locked", "Active"} : SetLockState(s)
          /\ desktopd = "ready" /\ UNCHANGED <<shell, locked, astray, answer, calls>>
      BY <1>12 DEF OnScreenSaverActiveChanged, EmitIdle
    <2>2. LockAsked => LockAsked'
      BY <2>1 DEF LockAsked
    <2>. QED BY <2>1, <2>2, DesktopdAgrees
  <1>13. CASE DesktopdDies
    BY <1>13 DEF DesktopdDies
  <1>14. CASE DesktopdStart
    <2>1. Send(<<"Owned">>) /\ Bound
      BY <1>14 DEF DesktopdStart, Bound
    <2>2. \E i \in DOMAIN inbox' : inbox'[i] = "Owned" /\ \A j \in DOMAIN inbox' : ~(j > i)
      BY <2>1, OwnerTold
    <2>. QED BY <2>2 DEF AgreeInv, Agreed, Right
  <1>15. CASE ShellStart \/ ShellDies
    BY <1>15 DEF ShellStart, ShellDies, Bound
  <1>16. CASE NewClient
    <2>1. /\ inbox' = inbox /\ inbox = <<>> /\ desktopd = "ready" /\ shell' = "starting"
          /\ Ask("lockState") /\ answer = "none"
      BY <1>16 DEF NewClient, InboxInv, Bound, CallsInv, Waiting
    <2>2. answer' = "none" /\ ~Has(Decisive \cup {"Owned"})'
      BY <2>1 DEF Ask, Has
    <2>. QED BY <2>1, <2>2 DEF AgreeInv, Agreed, Settled
  <1>17. CASE OnSignal \/ OnLost \/ OnOwned
    <2>1. /\ shell = "up" /\ inbox # <<>> /\ inbox' = Tail(inbox) /\ desktopd = "ready"
          /\ UNCHANGED <<state, astray>> /\ Bound
      BY <1>17 DEF OnSignal, OnLost, OnOwned, Bound
    <2>2. Agreed /\ state \in {"Active", "Locked"}
      BY <2>1 DEF AgreeInv, LockInv
    <2>3. CASE OnSignal
      <3>1. shell' = "up" /\ calls' = calls /\ OnLockStateChanged(Head(inbox))
        BY <2>3 DEF OnSignal
      <3>2. Right(Head(inbox)) => locked' = (state = "Locked")
        BY <2>2, <2>3, <3>1 DEF OnSignal, OnLockStateChanged, SetLocked, Right
      <3>3. Head(inbox) \notin Decisive \cup {"Owned"} => locked' = locked
        BY <3>1 DEF OnLockStateChanged, SetLocked, Decisive
      <3>4. Right(Head(inbox)) => Settled'
        BY <2>1, <3>1, <3>2 DEF Settled
      <3>5. Head(inbox) \notin Decisive \cup {"Owned"} /\ Settled => Settled'
        BY <2>1, <3>1, <3>3 DEF Settled, LockAsked
      <3>6. Agreed'
        BY <2>1, <2>2, <3>4, <3>5, TakenAgrees
      <3>. QED BY <3>6 DEF AgreeInv
    <2>4. CASE OnLost
      <3>1. shell' = "up" /\ UNCHANGED <<calls, locked>> /\ Head(inbox) = "Lost"
        BY <2>4 DEF OnLost
      <3>2. ~Right(Head(inbox))
        BY <3>1 DEF Right
      <3>3. Settled => Settled'
        BY <2>1, <3>1 DEF Settled, LockAsked
      <3>4. Agreed'
        BY <2>1, <2>2, <3>2, <3>3, TakenAgrees
      <3>. QED BY <3>4 DEF AgreeInv
    <2>5. CASE OnOwned
      <3>1. shell' = "asking" /\ Ask("lockState") /\ answer = "none"
        BY <2>5 DEF OnOwned, CallsInv, Waiting
      <3>2. answer' = "none"
        BY <2>1, <3>1 DEF Ask
      <3>3. Settled'
        BY <3>1, <3>2 DEF Settled
      <3>4. Agreed'
        BY <2>1, <2>2, <3>3, TakenAgrees
      <3>. QED BY <3>4 DEF AgreeInv
    <2>. QED BY <1>17, <2>3, <2>4, <2>5
  <1>18. ASSUME NEW op \in {"Lock", "Unlock"}, Ask(op), desktopd = "ready"
         PROVE  (LockAsked => LockAsked') /\ (op = "Lock" => LockAsked')
    <2>1. CallFrom("shell", op)
      BY <1>18 DEF Ask
    <2>2. /\ \A i \in DOMAIN calls : i \in DOMAIN calls' /\ calls'[i] = calls[i]
          /\ Len(calls) + 1 \in DOMAIN calls'
          /\ calls'[Len(calls) + 1] = [op |-> op, from |-> "shell"]
      BY <2>1, CallsAdded
    <2>. QED BY <2>2 DEF LockAsked
  <1>19. CASE Lock
    <2>1. /\ shell = "up" /\ UNCHANGED <<desktopd, state, inbox, astray>> /\ Bound
          /\ \/ valid /\ shell' = "locking" /\ Ask("Lock")
             \/ ~valid
      BY <1>19 DEF Lock, Bound
    <2>2. CASE ~valid
      <3>1. Has({"Owned"})
        BY <2>1, <2>2 DEF InboxInv
      <3>2. Has(Decisive \cup {"Owned"})
        BY <3>1 DEF Has
      <3>. QED BY <2>1, <3>2, ShellAgrees
    <2>3. CASE valid
      <3>1. Settled'
        BY <1>18, <2>1, <2>3 DEF Settled
      <3>. QED BY <2>1, <3>1, ShellAgrees
    <2>. QED BY <2>2, <2>3
  <1>20. CASE RequestUnlock
    <2>1. /\ shell = "up" /\ UNCHANGED <<desktopd, state, inbox, astray, locked>> /\ Bound
          /\ shell' = "unlocking" /\ Ask("Unlock")
      BY <1>20 DEF RequestUnlock, Bound
    <2>2. LockAsked => LockAsked'
      BY <1>18, <2>1
    <2>3. Settled => Settled'
      BY <2>1, <2>2 DEF Settled
    <2>. QED BY <2>1, <2>3, ShellAgrees
  <1>21. CASE Answered
    <2>1. /\ shell \in Waiting /\ answer # "none" /\ shell' = "up"
          /\ UNCHANGED <<desktopd, state, inbox, astray, calls>> /\ Bound
      BY <1>21 DEF Answered, Bound, Waiting
    <2>2. LockAsked => LockAsked'
      BY <2>1 DEF LockAsked
    <2>3. state \in {"Active", "Locked"}
      BY <2>1 DEF LockInv
    <2>4. ASSUME Settled PROVE Settled'
      <3>1. CASE shell = "locking"
        <4>1. locked' = TRUE /\ (state = "Locked" \/ LockAsked)
          BY <1>21, <2>4, <3>1 DEF Answered, SetLocked, Settled
        <4>. QED BY <2>1, <2>2, <4>1 DEF Settled
      <3>2. CASE shell = "unlocking"
        <4>1. locked' = locked
          BY <1>21, <3>2 DEF Answered
        <4>. QED BY <2>1, <2>2, <2>4, <3>2, <4>1 DEF Settled
      <3>3. CASE shell \in {"starting", "asking"}
        <4>1. answer = state /\ OnLockStateChanged(answer)
          BY <1>21, <2>1, <2>4, <3>3 DEF Answered, Settled
        <4>2. locked' = (state' = "Locked")
          BY <2>1, <2>3, <4>1 DEF OnLockStateChanged, SetLocked
        <4>. QED BY <2>1, <4>2 DEF Settled
      <3>. QED BY <2>1, <3>1, <3>2, <3>3 DEF Waiting
    <2>. QED BY <2>1, <2>4, ShellAgrees
  <1>22. CASE TimesOut
    <2>1. /\ shell \in Waiting /\ calls' = Orphaned("shell") /\ Bound
          /\ UNCHANGED <<desktopd, state, inbox, shell, locked>>
      BY <1>22 DEF TimesOut, Bound, Waiting
    <2>2. ~astray /\ shell \notin {"starting", "asking"}
      BY <1>22, Zenon DEF TimesOut
    <2>3. DOMAIN calls' = DOMAIN calls /\ \A i \in DOMAIN calls : calls'[i].op = calls[i].op
      BY <2>1, CallsOrphaned
    <2>4. LockAsked => LockAsked'
      BY <2>3 DEF LockAsked
    <2>5. Settled => Settled'
      BY <2>1, <2>2, <2>4 DEF Settled
    <2>. QED BY <2>1, <2>2, <2>5, ShellAgrees
  <1>23. CASE Lockd \/ SaverChanges \/ Rest \/ UNCHANGED vars
    <2>1. /\ UNCHANGED <<desktopd, state, shell, locked, inbox, answer, astray>>
          /\ \/ UNCHANGED calls
             \/ CallFrom("lockd", "ForceLocked")
             \/ calls' = Orphaned("lockd")
      BY <1>23 DEF Lockd, LockdStart, PrimeFromCurrentOwner, OnServiceOwnerChanged, LockdDies,
                   SaverChanges, Rest, vars
    <2>2. LockAsked => LockAsked'
      <3>1. CASE CallFrom("lockd", "ForceLocked")
        <4>1. \A i \in DOMAIN calls : i \in DOMAIN calls' /\ calls'[i] = calls[i]
          BY <3>1, CallsAdded
        <4>. QED BY <4>1 DEF LockAsked
      <3>2. CASE calls' = Orphaned("lockd")
        <4>1. DOMAIN calls' = DOMAIN calls /\ \A i \in DOMAIN calls : calls'[i].op = calls[i].op
          BY <3>2, CallsOrphaned
        <4>. QED BY <4>1 DEF LockAsked
      <3>3. CASE UNCHANGED calls
        BY <3>3 DEF LockAsked
      <3>. QED BY <2>1, <3>1, <3>2, <3>3
    <2>3. shell \in {"starting", "asking"} => answer' \in {answer, state}
      BY <2>1
    <2>. QED BY <2>1, <2>2, <2>3, DesktopdAgrees
  <1>. QED BY <1>3, <1>4, <1>5, <1>6, <1>7, <1>8, <1>9, <1>10, <1>11, <1>12, <1>13, <1>14,
              <1>15, <1>16, <1>17, <1>19, <1>20, <1>21, <1>22, <1>23
           DEF Next, Desktopd, Shell

LEMMA CopiesHold == Spec => [](TypeInv /\ LockInv /\ CopiesInv)
  <1>1. Init => CopiesInv
    <2>1. ASSUME Init PROVE CallsInv /\ InboxInv /\ ShownInv /\ AgreeInv
      <3>1. DOMAIN calls = {} /\ DOMAIN inbox = {}
        BY <2>1 DEF Init
      <3>. QED BY <2>1, <3>1 DEF Init, CallsInv, InboxInv, ShownInv, AgreeInv, Bound
    <2>. QED BY <2>1 DEF CopiesInv
  <1>2. TypeInv /\ LockInv /\ CopiesInv /\ [Next]_vars => CopiesInv'
    BY CallsStep, InboxStep, ShownStep, AgreeStep DEF CopiesInv
  <1>. QED BY <1>1, <1>2, LockHolds, PTL DEF Spec

\* When nothing is on its way, the lock screen, the client and desktopd say the same,
\* whichever of them has ended and started again, unless a call was refused or the
\* snapshot of a new client has timed out.
THEOREM CopiesComeToAgree == Spec => []CopiesAgree
  <1>1. TypeInv /\ CopiesInv => CopiesAgree
    <2> SUFFICES ASSUME CopiesInv, Quiet
                 PROVE  visible = locked /\ (astray \/ locked = (state = "Locked"))
      BY DEF CopiesAgree
    <2>1. DOMAIN inbox = {} /\ DOMAIN calls = {} /\ shell = "up" /\ desktopd = "ready"
      BY DEF Quiet
    <2>2. visible = locked
      BY <2>1 DEF CopiesInv, ShownInv, Has
    <2>3. ~LockAsked /\ Bound
      BY <2>1 DEF LockAsked, Bound
    <2>4. astray \/ Settled
      BY <2>1, <2>3 DEF CopiesInv, AgreeInv, Agreed
    <2>5. astray \/ locked = (state = "Locked")
      BY <2>1, <2>3, <2>4 DEF Settled
    <2>. QED BY <2>2, <2>5
  <1>. QED BY <1>1, CopiesHold, PTL
=============================================================================
