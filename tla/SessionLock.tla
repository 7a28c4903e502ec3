------------------------------ MODULE SessionLock ------------------------------
(***************************************************************************)
(* The lock screen of a session: desktopd, which owns the lock state, the  *)
(* shell, which shows it, lockd, which has the session locked when the     *)
(* shell disappears, and the screen saver desktopd locks the session with. *)
(* They are connected by the message bus: what one process sends arrives   *)
(* in order, what two send arrives in any order.                           *)
(*                                                                         *)
(* Whether a password is right, and the throttle, are in UnlockThrottle:   *)
(* here an unlock is accepted or refused.                                  *)
(***************************************************************************)
EXTENDS Naturals, Sequences

CONSTANTS
  MaxOps,     \* bound on what the user, the screen saver and a suspend do
  MaxFaults,  \* bound on calls that fail, are refused or time out
  MaxDeaths   \* bound on processes that end

ASSUME BoundsAssumption == MaxOps \in Nat /\ MaxFaults \in Nat /\ MaxDeaths \in Nat

VARIABLES
  desktopd,  \* "down", "ready", or "busy" with the first of calls
  state,     \* SessionStateService::m_lockState
  idle,      \* SessionStateManager::m_idle
  calls,     \* the calls desktopd has not answered
  saver,     \* is the screen saver active?
  echoes,    \* its ActiveChanged signals on their way to desktopd
  shell,     \* "down", "named", "up", or what the call it waits for is part of
  valid,     \* QDBusInterface::isValid(): the shell takes desktopd to be there
  locked,    \* SessionStateClient::m_locked
  visible,   \* lockScreenVisible of Main.qml
  inbox,     \* signals on their way to the shell
  answer,    \* what the call the shell waits for has returned
  lockd,     \* "down", "watching", "up", or "calling" ForceLocked
  alive,     \* ShellLiveness::m_shellAlive
  notices,   \* owners of the shell's name come and gone, on their way to lockd
  owed,      \* history: a shell has died under lockd's eyes, and desktopd is not told
  astray,    \* history: a call was refused, or a snapshot timed out
  adrift,    \* history: the screen saver did not obey, or desktopd has ended
  ops, faults, deaths

desktopdVars == <<desktopd, state, idle, calls>>
saverVars == <<saver, echoes>>
shellVars == <<shell, valid, locked, visible, inbox, answer>>
lockdVars == <<lockd, alive, notices>>
historyVars == <<owed, astray, adrift>>
boundVars == <<ops, faults, deaths>>
vars == <<desktopdVars, saverVars, shellVars, lockdVars, historyVars, boundVars>>

LockState == {"Active", "Locking", "Locked", "Unlocking"}
Call == [op : {"Lock", "Unlock", "lockState", "ForceLocked"}, from : {"shell", "lockd", "nobody"}]
Signal == LockState \cup {"SessionLocked", "SessionUnlocked", "Lost", "Owned"}
Waiting == {"starting", "asking", "locking", "unlocking"}
Answer == LockState \cup {"none", "done", "yes", "no", "error"}

\* Not a property of interest by itself: the values the variables take.
TypeOK ==
  /\ desktopd \in {"down", "ready", "busy"}
  /\ state \in LockState /\ idle \in BOOLEAN /\ calls \in Seq(Call)
  /\ saver \in BOOLEAN /\ echoes \in Seq(BOOLEAN)
  /\ shell \in {"down", "named", "up"} \cup Waiting
  /\ valid \in BOOLEAN /\ locked \in BOOLEAN /\ visible \in BOOLEAN
  /\ inbox \in Seq(Signal) /\ answer \in Answer
  /\ lockd \in {"down", "watching", "up", "calling"}
  /\ alive \in BOOLEAN /\ notices \in Seq(BOOLEAN)
  /\ owed \in BOOLEAN /\ astray \in BOOLEAN /\ adrift \in BOOLEAN
  /\ ops \in 0 .. MaxOps /\ faults \in 0 .. MaxFaults /\ deaths \in 0 .. MaxDeaths

Init ==
  /\ desktopd = "down" /\ state = "Active" /\ idle = FALSE /\ calls = <<>>
  /\ saver = FALSE /\ echoes = <<>>
  /\ shell = "down" /\ valid = FALSE /\ locked = FALSE /\ visible = FALSE
  /\ inbox = <<>> /\ answer = "none"
  /\ lockd = "down" /\ alive = FALSE /\ notices = <<>>
  /\ owed = FALSE /\ astray = FALSE /\ adrift = FALSE
  /\ ops = 0 /\ faults = 0 /\ deaths = 0

Op == ops < MaxOps /\ ops' = ops + 1
Fault == faults < MaxFaults /\ faults' = faults + 1
Death == deaths < MaxDeaths /\ deaths' = deaths + 1
-----------------------------------------------------------------------------
(* desktopd: SessionStateService and SessionStateManager. *)

Bound == shell \notin {"down", "named"}
Send(signals) == inbox' = IF Bound THEN inbox \o signals ELSE inbox

\* setLockState(), and the signals it emits.
SetLockState(s) ==
  /\ state' = s
  /\ IF s = state THEN UNCHANGED inbox
     ELSE Send(CASE s = "Locked" -> <<s, "SessionLocked">>
                 [] s = "Active" -> <<s, "SessionUnlocked">>
                 [] OTHER        -> <<s>>)

\* The first of calls is answered, to whoever still waits for it.
Return(value) ==
  /\ calls' = Tail(calls)
  /\ answer' = IF Head(calls).from = "shell" THEN value ELSE answer
  /\ lockd' = IF Head(calls).from = "lockd" THEN "up" ELSE lockd

Serving(op) == desktopd = "ready" /\ calls # <<>> /\ Head(calls).op = op

\* Mutant: the property is not one of the names of the states.
GetIsLocked ==
  /\ Serving("lockState")
  /\ Return(IF state = "Locked" THEN "yes" ELSE "unlocked")
  /\ UNCHANGED <<desktopd, state, idle, saverVars, shell, valid, locked, visible, inbox,
                 alive, notices, historyVars, boundVars>>

\* The shell reads the property lockState.
GetLockState ==
  /\ Serving("lockState")
  /\ Return(state)
  /\ UNCHANGED <<desktopd, state, idle, saverVars, shell, valid, locked, visible, inbox,
                 alive, notices, historyVars, boundVars>>

\* checkPermission() refuses a Lock, an Unlock or a ForceLocked.
Refuse ==
  /\ \E op \in {"Lock", "Unlock", "ForceLocked"} : Serving(op)
  /\ Fault
  /\ Return("error")
  /\ astray' = TRUE
  /\ UNCHANGED <<desktopd, state, idle, saverVars, shell, valid, locked, visible, inbox,
                 alive, notices, owed, adrift, ops, deaths>>

\* The screen saver becomes active or inactive, at desktopd's word or its own.
SetSaver(active) ==
  /\ saver' = active
  /\ echoes' = IF active = saver \/ desktopd = "down" THEN echoes
               ELSE Append(echoes, active)

\* SessionStateManager::Lock(): the screen saver, else logind, else nothing.
ManagerLock ==
  \/ idle /\ UNCHANGED <<idle, saverVars, adrift, faults>>
  \/ ~idle /\ SetSaver(TRUE) /\ idle' = TRUE /\ UNCHANGED <<adrift, faults>>
  \/ ~idle /\ Fault /\ idle' \in BOOLEAN /\ adrift' = TRUE /\ UNCHANGED saverVars

\* Mutants: emitIdle(false) is forgotten; the screen saver is.
ManagerUnlockOnly ==
  /\ UNCHANGED idle
  /\ \/ SetSaver(FALSE) /\ UNCHANGED <<adrift, faults>>
     \/ Fault /\ adrift' = TRUE /\ UNCHANGED saverVars

ManagerUnlockUnheard ==
  idle' = FALSE /\ UNCHANGED <<saverVars, adrift, faults>>

\* SessionStateManager::Unlock(): the session is unlocked even if that fails.
ManagerUnlock ==
  /\ idle' = FALSE
  /\ \/ SetSaver(FALSE) /\ UNCHANGED <<adrift, faults>>
     \/ Fault /\ adrift' = TRUE /\ UNCHANGED saverVars

\* Lock() up to the call of the screen saver, and its early return.
BeginLock ==
  /\ Serving("Lock")
  /\ IF state \in {"Locked", "Locking"}
       THEN Return("done") /\ UNCHANGED <<desktopd, state, inbox>>
       ELSE /\ desktopd' = "busy"
            /\ SetLockState("Locking")
            /\ UNCHANGED <<calls, answer, lockd>>
  /\ UNCHANGED <<idle, saverVars, shell, valid, locked, visible, alive, notices,
                 historyVars, boundVars>>

\* The rest of Lock(): locked, whatever the manager has achieved.
EndLock ==
  /\ desktopd = "busy" /\ Head(calls).op = "Lock"
  /\ desktopd' = "ready"
  /\ ManagerLock
  /\ SetLockState("Locked")
  /\ Return("done")
  /\ UNCHANGED <<shell, valid, locked, visible, alive, notices, owed, astray, ops, deaths>>

\* Unlock(): the password is wrong, or the caller is locked out.
UnlockRefused ==
  /\ Serving("Unlock")
  /\ Return("no")
  /\ UNCHANGED <<desktopd, state, idle, saverVars, shell, valid, locked, visible, inbox,
                 alive, notices, historyVars, boundVars>>

\* PAM accepts: Unlock() up to the call of the screen saver.
BeginUnlock ==
  /\ Serving("Unlock")
  /\ desktopd' = "busy"
  /\ SetLockState("Unlocking")
  /\ UNCHANGED <<idle, calls, saverVars, shell, valid, locked, visible, answer, lockdVars,
                 historyVars, boundVars>>

EndUnlock ==
  /\ desktopd = "busy" /\ Head(calls).op = "Unlock"
  /\ desktopd' = "ready"
  /\ ManagerUnlock
  /\ SetLockState("Active")
  /\ Return("yes")
  /\ UNCHANGED <<shell, valid, locked, visible, alive, notices, owed, astray, ops, deaths>>

ForceLocked ==
  /\ Serving("ForceLocked")
  /\ SetLockState("Locked")
  /\ Return("done")
  /\ owed' = (FALSE \in {notices[i] : i \in DOMAIN notices})
  /\ UNCHANGED <<desktopd, idle, saverVars, shell, valid, locked, visible, alive, notices,
                 astray, adrift, boundVars>>

\* onPrepareForSleep(true).
OnPrepareForSleep ==
  /\ desktopd = "ready"
  /\ Op
  /\ ManagerLock
  /\ IF idle' /\ ~idle THEN SetLockState("Locked") ELSE UNCHANGED <<state, inbox>>
  /\ UNCHANGED <<desktopd, calls, shell, valid, locked, visible, answer, lockdVars,
                 owed, astray, deaths>>

\* Mutant: emitIdle() without its early return.
EmitIdleAlways(active) ==
  idle' = active /\ SetLockState(IF active THEN "Locked" ELSE "Active")

EmitIdle(active) ==
  /\ idle' = active
  /\ IF active = idle THEN UNCHANGED <<state, inbox>>
     ELSE SetLockState(IF active THEN "Locked" ELSE "Active")

OnScreenSaverActiveChanged ==
  /\ desktopd = "ready" /\ echoes # <<>>
  /\ EmitIdle(Head(echoes))
  /\ echoes' = Tail(echoes)
  /\ UNCHANGED <<desktopd, calls, saver, shell, valid, locked, visible, answer, lockdVars,
                 historyVars, boundVars>>

\* What the user and the screen saver do without desktopd.
SaverChanges ==
  /\ Op
  /\ \E active \in BOOLEAN : active # saver /\ SetSaver(active)
  /\ adrift' = (adrift \/ desktopd = "down")
  /\ UNCHANGED <<desktopdVars, shellVars, lockdVars, owed, astray, faults, deaths>>

\* desktopd ends and starts again: nothing of its state is kept.
DesktopdDies ==
  /\ desktopd # "down"
  /\ Death
  /\ desktopd' = "down" /\ calls' = <<>> /\ echoes' = <<>>
  /\ answer' = IF shell \in Waiting /\ answer = "none" THEN "error" ELSE answer
  /\ lockd' = IF lockd = "calling" THEN "up" ELSE lockd
  /\ Send(<<"Lost">>)
  /\ owed' = FALSE /\ adrift' = TRUE
  /\ UNCHANGED <<state, idle, saver, shell, valid, locked, visible, alive, notices,
                 astray, ops, faults>>

DesktopdStart ==
  /\ desktopd = "down"
  /\ desktopd' = "ready" /\ state' = "Active" /\ idle' = FALSE
  /\ Send(<<"Owned">>)
  /\ UNCHANGED <<calls, saverVars, shell, valid, locked, visible, answer, lockdVars,
                 historyVars, boundVars>>
-----------------------------------------------------------------------------
(* The shell: SessionStateClient and the lock screen of Main.qml. *)

CallFrom(who, op) == calls' = Append(calls, [op |-> op, from |-> who])
Orphaned(who) ==
  [i \in DOMAIN calls |->
     IF calls[i].from = who THEN [calls[i] EXCEPT !.from = "nobody"] ELSE calls[i]]

\* The shell calls desktopd; if there is none, that fails at once.
Ask(op) ==
  IF desktopd = "down" THEN answer' = "error" /\ UNCHANGED calls
  ELSE CallFrom("shell", op) /\ UNCHANGED answer

\* setLocked(), and onLockedChanged of Main.qml.
SetLocked(new) ==
  /\ locked' = new
  /\ visible' = IF new = locked THEN visible ELSE new

OnLockStateChanged(s) ==
  SetLocked(CASE s \in {"Locked", "Locking", "SessionLocked"} -> TRUE
              [] s \in {"Active", "SessionUnlocked"}          -> FALSE
              [] OTHER                                        -> locked)

ShellStart ==
  /\ shell = "down"
  /\ shell' = "named"
  /\ notices' = IF lockd = "down" THEN notices ELSE Append(notices, TRUE)
  /\ UNCHANGED <<desktopdVars, saverVars, valid, locked, visible, inbox, answer, lockd,
                 alive, historyVars, boundVars>>

\* The constructor of the client: bindSignals(), then refreshLockStateSnapshot().
NewClient ==
  /\ shell = "named"
  /\ valid' = (desktopd # "down")
  /\ IF valid' THEN shell' = "starting" /\ Ask("lockState")
     ELSE shell' = "up" /\ UNCHANGED <<calls, answer>>
  /\ UNCHANGED <<desktopd, state, idle, saverVars, locked, visible, inbox,
                 lockdVars, historyVars, boundVars>>

OnSignal ==
  /\ shell = "up" /\ inbox # <<>> /\ Head(inbox) \notin {"Lost", "Owned"}
  /\ OnLockStateChanged(Head(inbox))
  /\ inbox' = Tail(inbox)
  /\ UNCHANGED <<desktopdVars, saverVars, shell, valid, answer, lockdVars,
                 historyVars, boundVars>>

\* onNameOwnerChanged() when desktopd is gone.
OnLost ==
  /\ shell = "up" /\ inbox # <<>> /\ Head(inbox) = "Lost"
  /\ valid' = FALSE
  /\ inbox' = Tail(inbox)
  /\ UNCHANGED <<desktopdVars, saverVars, shell, locked, visible, answer, lockdVars,
                 historyVars, boundVars>>

\* Mutant: the snapshot is taken by the constructor only.
OnOwnedIgnored ==
  /\ shell = "up" /\ inbox # <<>> /\ Head(inbox) = "Owned"
  /\ valid' = TRUE
  /\ inbox' = Tail(inbox)
  /\ UNCHANGED <<desktopdVars, saverVars, shell, locked, visible, answer, lockdVars,
                 historyVars, boundVars>>

\* onNameOwnerChanged() when desktopd is back: a new snapshot.
OnOwned ==
  /\ shell = "up" /\ inbox # <<>> /\ Head(inbox) = "Owned"
  /\ valid' = TRUE
  /\ inbox' = Tail(inbox)
  /\ shell' = "asking" /\ Ask("lockState")
  /\ UNCHANGED <<desktopd, state, idle, saverVars, locked, visible, lockdVars,
                 historyVars, boundVars>>

\* Meta+L shows the lock screen first, the menu entry leaves that to the client.
\* lock() waits for desktopd's answer, if any, and locks the shell in any case.
Lock ==
  \E shown \in {visible, TRUE} :
    /\ shell = "up"
    /\ Op
    /\ IF valid
         THEN /\ shell' = "locking" /\ Ask("Lock")
              /\ visible' = shown /\ UNCHANGED locked
         ELSE /\ locked' = TRUE /\ visible' = (shown \/ ~locked)
              /\ UNCHANGED <<shell, calls, answer>>
    /\ UNCHANGED <<desktopd, state, idle, saverVars, valid, inbox, lockdVars,
                   historyVars, faults, deaths>>

\* requestUnlock(), from the lock screen.
RequestUnlock ==
  /\ shell = "up" /\ visible /\ valid
  /\ Op
  /\ shell' = "unlocking" /\ Ask("Unlock")
  /\ UNCHANGED <<desktopd, state, idle, saverVars, valid, locked, visible, inbox,
                 lockdVars, historyVars, faults, deaths>>

\* The call the shell waits for is over.
Answered ==
  /\ shell \in Waiting /\ answer # "none"
  /\ shell' = "up" /\ answer' = "none"
  /\ CASE shell = "locking"                    -> SetLocked(TRUE)
       [] shell = "unlocking"                  -> /\ visible' = (visible /\ answer # "yes")
                                                  /\ UNCHANGED locked
       [] shell \in {"starting", "asking"}     -> OnLockStateChanged(answer)
  /\ UNCHANGED <<desktopdVars, saverVars, valid, inbox, lockdVars, historyVars, boundVars>>

\* The shell gives the call up; desktopd will still serve it.
TimesOut ==
  /\ shell \in Waiting /\ answer = "none"
  /\ Fault
  /\ answer' = "error" /\ calls' = Orphaned("shell")
  /\ astray' = (astray \/ shell \in {"starting", "asking"})
  /\ UNCHANGED <<desktopd, state, idle, saverVars, shell, valid, locked, visible, inbox,
                 lockdVars, owed, adrift, ops, deaths>>

ShellDies ==
  /\ shell # "down"
  /\ Death
  /\ shell' = "down" /\ valid' = FALSE /\ locked' = FALSE /\ visible' = FALSE
  /\ inbox' = <<>> /\ answer' = "none" /\ calls' = Orphaned("shell")
  /\ notices' = IF lockd = "down" THEN notices ELSE Append(notices, FALSE)
  /\ owed' = (owed \/ (lockd \in {"up", "calling"} /\ desktopd # "down"))
  /\ UNCHANGED <<desktopd, state, idle, saverVars, lockd, alive, astray, adrift, ops, faults>>
-----------------------------------------------------------------------------
(* lockd: ShellLiveness and callForceLocked. *)

\* The watcher of the shell's name, then primeFromCurrentOwner().
LockdStart ==
  /\ lockd = "down"
  /\ lockd' = "watching"
  /\ UNCHANGED <<desktopdVars, saverVars, shellVars, alive, notices, historyVars, boundVars>>

PrimeFromCurrentOwner ==
  /\ lockd = "watching"
  /\ lockd' = "up" /\ alive' = (shell # "down")
  /\ UNCHANGED <<desktopdVars, saverVars, shellVars, notices, historyVars, boundVars>>

\* Mutant: setShellAlive() comes before the comparison.
OnOwnerChangedTooLate ==
  /\ lockd = "up" /\ notices # <<>>
  /\ alive' = Head(notices) /\ notices' = Tail(notices)
  /\ UNCHANGED <<desktopdVars, saverVars, shellVars, lockd, historyVars, boundVars>>

\* onServiceOwnerChanged(): a shell that was alive and is gone has the session locked.
OnServiceOwnerChanged ==
  /\ lockd = "up" /\ notices # <<>>
  /\ alive' = Head(notices) /\ notices' = Tail(notices)
  /\ IF alive /\ ~Head(notices) /\ desktopd # "down"
       THEN lockd' = "calling" /\ CallFrom("lockd", "ForceLocked")
       ELSE UNCHANGED <<lockd, calls>>
  /\ UNCHANGED <<desktopd, state, idle, saverVars, shellVars, historyVars, boundVars>>

LockdDies ==
  /\ lockd # "down"
  /\ Death
  /\ lockd' = "down" /\ alive' = FALSE /\ notices' = <<>>
  /\ calls' = Orphaned("lockd")
  /\ owed' = FALSE
  /\ UNCHANGED <<desktopd, state, idle, saverVars, shellVars, astray, adrift, ops, faults>>
-----------------------------------------------------------------------------
Desktopd ==
  \/ GetLockState \/ Refuse \/ BeginLock \/ EndLock
  \/ UnlockRefused \/ BeginUnlock \/ EndUnlock \/ ForceLocked
  \/ OnPrepareForSleep \/ OnScreenSaverActiveChanged
  \/ DesktopdDies \/ DesktopdStart

Shell ==
  \/ ShellStart \/ NewClient \/ OnSignal \/ OnLost \/ OnOwned \/ Lock \/ RequestUnlock
  \/ Answered \/ TimesOut \/ ShellDies

Lockd == LockdStart \/ PrimeFromCurrentOwner \/ OnServiceOwnerChanged \/ LockdDies

\* Everybody is there, and nobody waits for anything.
Rest ==
  /\ desktopd = "ready" /\ calls = <<>> /\ echoes = <<>>
  /\ shell = "up" /\ inbox = <<>> /\ lockd = "up" /\ notices = <<>>
  /\ UNCHANGED vars

Next == Desktopd \/ Shell \/ Lockd \/ SaverChanges \/ Rest

Spec == Init /\ [][Next]_vars

\* desktopd and lockd take what is sent to them, and a blocking call returns.
Fairness ==
  /\ WF_vars(GetLockState \/ BeginLock \/ UnlockRefused \/ BeginUnlock \/ ForceLocked)
  /\ WF_vars(EndLock \/ EndUnlock)
  /\ WF_vars(OnServiceOwnerChanged)

LiveSpec == Spec /\ Fairness
-----------------------------------------------------------------------------
(* Properties. *)

\* When nothing is on its way, the lock screen, the client and desktopd say the
\* same, whichever of them has restarted.
Quiet == desktopd = "ready" /\ calls = <<>> /\ shell = "up" /\ inbox = <<>>
CopiesAgree ==
  Quiet => visible = locked /\ (astray \/ locked = (state = "Locked"))

\* The two early returns, on m_idle and on m_lockState, do not leave a session
\* unlocked that goes to sleep, unless screen saver and logind both fail.
SuspendLocks ==
  [][OnPrepareForSleep /\ faults' = faults => state' = "Locked"]_vars

\* desktopd and the screen saver are of one mind, but for the signals on their way.
SaverAgrees ==
  adrift \/ saver = IF echoes = <<>> THEN idle ELSE echoes[Len(echoes)]

\* A session locked without the screen saver, by lockd above all, is unlocked by an
\* accepted password only, as long as desktopd runs and the screen saver stays off: an
\* old signal, a repeated one, a suspend or another call does not unlock it.
ForcedNeedsPam ==
  [][state = "Locked" /\ ~idle /\ desktopd # "down" => state' \in {"Locked", "Unlocking"}]_vars

\* A shell that dies under lockd's eyes leaves a locked session behind.
DeathLocks ==
  owed ~> (state = "Locked" \/ desktopd = "down" \/ lockd = "down" \/ astray)
=============================================================================
