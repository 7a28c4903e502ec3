# A verification of the SLM desktop's login, lock and consent in TLA+

SLM desktop is a Qt/KWin desktop made of some forty daemons and services. This
directory models, checks and proves the parts of it that stand between a person
and the session: where several processes or threads have to agree, although each
can be late, time out or restart.

* *Login*: the greeter; and how the session broker, the watchdog, the recovery
  application and the recovery daemon keep a user from being locked out by a bad
  configuration, although they talk only through files that none of them locks.
* *Lock*: how desktopd, the shell, lockd and the screen saver agree on whether
  the session is locked, and how failed unlocks are throttled.
* *Consent*: the portal's requests and the shell's dialogs for them; input
  capture, with its tables in portald, desktopd and the shell; the polkit agent's
  two threads over one queue of requests.

## 1. Inventory

### 1.1 Parts of the system

| part | code | state it keeps | interacts through |
|---|---|---|---|
| configuration store | `libslmlogin/slmconfigmanager.cpp` | `config.json`, `.prev`, `.safe`, `snapshots/` | owned by every process of the login stack, no lock |
| session state | `libslmlogin/slmsessionstate.cpp` | `state.json`: crash count, boot status, pending, forced safe mode, last-good snapshot | loaded and saved as a whole by everybody |
| session broker | `session-broker/*.cpp` | a run per login: mode, restarts, promotion | both file sets, child processes, lifecycle file |
| watchdog | `watchdog/sessionwatchdog.cpp` | a 30 s timer | both file sets, recovery request, `pgrep` |
| recovery application | `recovery-app/recoveryapp.cpp` | a record loaded and not yet saved | both file sets, recovery request |
| recovery daemon | `daemon/recoveryd/recoveryservice.cpp` | crash history per component, attempts | D-Bus in, both file sets and recovery request out |
| greeter | `greeter/*.cpp`, `Qml/greeter/LoginPage.qml` | step of the greetd conversation, PAM handle, session process | greetd's socket, PAM; starts the broker |
| polkit agent | `polkit-agent/*.cpp` | pending and queued requests, one helper session, dialog, timer | polkitd through libpolkit's own thread, helper, dialog |
| session lock | `daemon/desktopd/sessionstate*.cpp`, `daemon/lockd`, `services/session` | lock state in four processes | D-Bus, logind, ScreenSaver |
| supervision | `daemon/desktopd/daemonhealthmonitor.cpp`, `services/svcmgr` | ping timers, restart counters | D-Bus, systemd |
| input capture | `daemon/desktopd/inputcapture*`, `core/workspace/compositorinputcapturebackendservice.cpp`, `services/portal/inputcaptureprivacymodel.cpp` | a table of sessions in desktopd and one in the shell | blocking D-Bus calls between portald, desktopd and shell |
| screen cast | `daemon/desktopd/screencast*` | sessions, streams | portal, PipeWire |
| portal and permissions | `daemon/portald`, `core/permissions`, `services/portal/portaluibridge.cpp` | requests, sessions, stored consent, nested event loops | D-Bus, SQLite, dialogs |
| file operations, fsd | `apps/filemanager/ops`, `daemon/fsd` | jobs, tokens, recovery trash | threads, D-Bus |
| settings, environment | `services/settingsd`, `services/envd*` | versioned stores | D-Bus, privileged helper |
| notifications, clipboard, printing, spaces, app lifecycle | `services/*`, `printing`, `core/workspace` | tables fed by events | D-Bus, CUPS, KWin |
| wrappers and user interface | network, sound, power, storage, search, QML, installer, tools | mirrors of other services | — |

`PROJECT.json` lists every part with its files and whether it is modelled.

### 1.2 Hard behaviours

* **Unlocked read-modify-write.** Four processes load `state.json`, change a few
  fields and save all of it. The broker alone does so at five places.
* **Copies kept in memory.** The broker saves the record it loaded at its start
  (`prepareEnvironment()`, `writeStartupFailed()`) long after others wrote.
* **Sequences of file accesses.** `save()`, `load()` and `factoryReset()` make
  two to five accesses; the process, or the machine, can stop between any two.
* **Two judges of health.** The broker confirms a session at its first frame, the
  watchdog after 30 s, the recovery application at its own first frame, in any
  order, and each resets the crash count.
* **Rollback rules that meet.** An unconfirmed configuration is rolled back at
  the next login; safe mode and recovery roll back again; the user edits.
* **Restarts and timeouts.** Shell and compositor are restarted a limited number
  of times, each time with a new watchdog; the first frame has a deadline.
* **Termination.** SIGTERM sets a flag that a loop has to look at.
* **Calls that time out and are served all the same.** Every blocking D-Bus call
  has a deadline at the caller only; the callee runs it later, in order.
* **Event loops inside event loops.** The shell waits for an answer in a nested
  loop, in which the next question arrives; libpolkit reports the end of a
  session inside the call that cancels it.
* **Answers without a name.** greetd's answers, and the polkit agent's posted
  events, do not say which request they belong to.
* **Two threads, no lock.** libpolkit's listener and the agent's main thread
  share one pending request and one queue.
* **Tables in two processes.** desktopd and the shell each keep which session
  captures input, and third parties change one of them.

### 1.3 What makes each part correct

* *Configuration store*: an operation cut short leaves the configuration of
  before or of after it in force; `load()` is idempotent; `save()` can be undone;
  an undisturbed operation has the effect of one step.
* *Session state*: no interleaving loses a boot from the crash count, or a
  confirmation, or a request for safe mode.
* *Broker*: a crash loop ends in recovery; a configuration that failed is not run
  again; a session that is told to end does; a session is confirmed only if it
  drew.
* *Watchdog, recovery application*: only what has drawn becomes the baseline.
* *System*: a user who keeps logging in gets a desktop again.
* *Greeter*: what it sends meets the conversation it is meant for; every login
  ends in a session or back at the form.
* *Polkit agent*: every task is returned at most once; a dialog asks for a request
  that waits.
* *Portal*: an answer is the one the user gave, for that request and in time; what
  lasts was granted; every question is answered.
* *Input capture*: one session captures; what captures is known to its host; what
  was switched off stays off; a session is displaced only as the user agreed.
* *Session lock*: the copies of the lock state agree when nothing is on its way; a
  suspended session is locked; a shell that dies leaves a locked session; a
  lockout that was announced is kept through decay, restart and crash.

## 2. Plan

Done, in this order:

1. `ConfigStore`, `ConfigManager` and their proofs.
2. `LoginState`, `SessionBroker`, `SessionWatchdog`, `RecoveryApp`,
   `RecoveryService`, composed by `LoginSystem`; `BootLedger` as its abstract
   specification; type correctness and the two most important invariants proved.
3. `UnlockThrottle` and `SessionLock` with their proofs.
4. `CaptureProvider` and `InputCapture` with their proofs.
5. `ConsentUi` and `PortalRequests`; `PolkitAgent`; `Greeter`.
6. The proofs of all of them: every invariant of a run, the refinement of
   `BootLedger`, and the action properties of the session lock and of input
   capture (section 5).

Next, the most important first:

7. `Supervision`: daemon health monitor and service manager.
8. Screen cast sessions; the portal's other methods.
9. File operations, fsd tokens; settings and environment stores; notifications.

Theorems to add: `BaselineHasRun` for the calls of recoveryd that roll back inside
a session; `ConfirmedIsKept` for calls that do not cross a promotion; facts about the
session lock's restarts that `DeathLocks` rests on, as far as they are safety.

## 3. Modules

    ConfigStore  <---- ConfigManager <---- MCConfigManager
        ^                   ^--- ConfigManagerProofs
    LoginState
        ^--- SessionBroker ---\
        ^--- SessionWatchdog --\
        ^--- RecoveryApp -------> LoginSystem <- MCLoginSystem
        ^--- RecoveryService --/      |   ^--- LoginSystemProofs
                                 BootLedger (refined)

    UnlockThrottle <- MCUnlockThrottle        SessionLock <- SessionLockProofs
        ^--- UnlockThrottleProofs

    CaptureProvider <.. InputCapture <- MCInputCapture     ConsentUi <- PortalRequests
                            ^--- InputCaptureProofs              ^--- PortalRequestsProofs
    PolkitAgent <- MCPolkitAgent              Greeter <- GreeterProofs
        ^--- PolkitAgentProofs

**ConfigStore** — the files as a record and each operation of `ConfigManager` as
a function on it. Contents are abstract: `Valid` is what `validateConfig()`
accepts, `Empty` is `{}` or a file that does not parse, `Absent` no file.
Snapshots are named by their content and removed together.

**ConfigManager** — the same operations file access by file access, for several
processes. `at[p]` is the access a process is about to make, `buf[p]` what it has
read. `goal[p]` and `clean[p]` are history: what the operation would make of the
files alone, and whether anybody interfered. `Fail` is an access that fails,
handled as each operation handles it, `Crash` the end of the process.

**LoginState** — what the processes share: `store`, `st` (state.json), `marker`
(the request for the recovery partition), `mode` (what the broker puts in the
environment), `up` (the compositor's socket), `frame` (the lifecycle file).
`LoginSystem` takes an operation of the store as one step, which `CoarseGrain`
justifies for one that is not disturbed.

**SessionBroker** — one run of `SessionBroker::run()` per login. `pc` says where
it stands; `mst` is `m_state`, `plan` is `m_config`, `draft` is the record a
promotion has loaded. Each branch of `monitorSession()` is an action guarded by
the conditions of the branches before it; a load and the save that belongs to it
are separate steps, everything between two labels is one.

**SessionWatchdog** — the watchdog the broker arms with every stack. `age` counts
the two deadlines, 10 s and 30 s. **RecoveryApp** — constructor, first frame,
buttons. **RecoveryService** — the D-Bus methods of recoveryd, each load and save
of `state.json` a step of its own, with the outcomes of a failed load or save.

**LoginSystem** — the composition: the user (requests, edits, log out), the exits
of children, failures, power loss. `seen` is history that only properties read.
**BootLedger** — what the stack promises about boots in six small actions.

**UnlockThrottle** — `SessionUnlockThrottle` and what `Unlock()` does with it.
`throttle` is `m_unlockThrottle`, `file` the JSON file. An unlock is two steps,
`AskPam` and `PamAccepts` or `PamRefuses`, because the time read before PAM is
asked is used after it has answered. `Stop` and `Crash` are the end of desktopd,
with and without the save of the destructor, followed by `Load`. Times are whole
numbers; `promised`, `fails` and `served` are history.

**SessionLock** — one variable per copy of the lock: `state` and `idle` in desktopd
(`m_lockState`, `m_idle`), `locked` and `visible` in the shell (`m_locked`,
`lockScreenVisible` of `Main.qml`), `saver`. `calls` is the queue of D-Bus calls
desktopd has not answered; the operations that block on another process, `Lock`
and `Unlock`, are a Begin and an End step around that call, the others one step.
`inbox`, `echoes` and `notices` are signals on their way: one queue per receiver
and sender, so what one process sends stays in order and what two send does not.
The client's `isValid()` is `valid`, which follows the bus name with the delay of
the signal. A shell that waits for an answer receives no signal, as its calls
block. Each process can end and start at any point; what desktopd kept is gone,
and lockd primes itself from the current owner of the shell's name. The client's
own `m_lockState`, which only the lock screen's texts read, is left out.

**CaptureProvider** — the shell's provider of input capture, one operator per D-Bus
method: the table, the active session and the count it reports. `stuck` is the
choice of the environment whether the compositor's command could be applied, and
`ok` the method's answer. A take-over that cannot be applied is undone.
**InputCapture** — three single-threaded processes and the blocking calls between
them. `job` is the frontend call portald serves, `serving` the call of desktopd
whose answer from the shell it waits for, `inbox` and `outbox` the calls that have
arrived; a call that timed out stays there with `live = FALSE`. The shell's own
`Lock` call to desktopd makes it wait in the other direction. `backend` is chosen
when desktopd starts, `gen` is portald's name on the bus, which `isOwnerAllowed()`
compares. `UserStops` is the privacy indicator, which calls the provider alone.
`open`, `off` and `disturbed` are history.

**ConsentUi** — the shell's side of a question: `loops` is the stack of nested event
loops, `dialog` what the screen shows, `results` is `m_consentResults`. A loop told
to quit returns only when it is the innermost (`Depth`), so one turn of the event
loop may return several. **PortalRequests** — the mediator's three handlers, from the
policy's decision over the question to the response, the stored permission and the
session; `pending` is the bridge's table of callbacks. What a callback finds
through a pointer whose request or session was closed is an arbitrary choice
(`Dangles`). `asked`, `said`, `buried` and `gaveUp` are history.

**PolkitAgent** — the listener's thread (`at`) and the main thread (`stack`), whose
calls are frames: cancelling the helper's session emits its completion at once,
so `Complete` can lie on top of another, and so does a helper that cannot be spawned
(`SpawnFails`), before its request is in the slot. `posted` are the events one thread has
queued for the other, with no request in them. Where both threads are inside at the
same time, `Torn` adds the outcome in which the process does not survive.

**Greeter** — the login form, `GreeterApp` and its two ways in. Over greetd,
`requests` and `replies` are the socket and `conv` the conversation greetd has;
greetd itself is external, an automaton that answers every request in order. A
login is its number, so that a request can be told to belong to another one. Through
PAM a login is one blocking step with the outcomes its calls have (`LoginViaPam`);
`opened` and `procs` are what PAM and the system still have, `handle`, `open` and
`proc` what the greeter knows of it.

Each variable and action is tied to its lines by `map` in `PROJECT.json`. The
operators commented *Mutant* are not part of any specification: each is a
plausible mistake in the definition above or below it, kept to show that a
property would notice it.

## 4. What is checked

| run | what it asks | size |
|---|---|---|
| `config_manager` | two processes, three operations, one edit, one failed access, any number of deaths | 1 198 713 states |
| `login_sessions` | broker, watchdog, recovery application; two edits, two faults; safety and the refinement of `BootLedger` | 3 197 855 |
| `login_recoveryd` | the recovery daemon's calls against every writer; two calls, one fault, a configuration that was saved twice and does not draw | 3 714 943 |
| `login_converges` | liveness: a normal session that draws comes back; logging out ends; what safe mode falls back on has drawn | 98 239 |
| `unlock_throttle` | two callers, limit and top level 2, window 3 of 8 ticks, one fault | 818 628 |
| `session_lock` | three operations, one fault, two ends of processes; safety, and `DeathLocks` as liveness | 1 642 776 |
| `input_capture` | three sessions, four calls of clients or the user, one end of a process, calls served late | 691 649 |
| `input_capture_ends` | two sessions, four calls, the shell's lock call: liveness | 395 820 |
| `portal_requests` | two requests of any kind, a file chooser, one close, two ends of processes; safety and liveness | 380 885 |
| `polkit_agent` | four requests, one lock of the screen | 916 438 |
| `greeter` | four logins, two prompts each, a disconnect, PAM; safety and `LoginEnds` | 4 440 |
| `polkit_timeout_doc` | violated: a request that is begun at once does not time out | |

**Bounds.** The failure modes come in with the configurations: `default` works,
`noShell` never draws a frame, `noCompositor` does not come up. The threshold is
the code's 5 in the safety runs: the crash count is reached with bad
configurations, which cost no fault, so two faults remain for the interleaving
in question. Liveness uses 3, so that two faults are enough to reach recovery
after a bad edit. Restarts are limited to 1 instead of 3: below and at the limit
are both reached. Two edits allow the case that the previous configuration is
bad too. In `login_recoveryd` the system starts with that case, and a burst is
two reports. Three operations and one edit of the store are enough for a valid
previous, safe and active file that differ. `BurstThreshold`, `MaxAutoAttempts`,
`CrashLoopThreshold` and `MaxRestarts` are constants, so the proofs cover every
value. In `unlock_throttle` the order of sizes is the code's, a lockout not longer
than the window, in fewer ticks: the limit is reached twice, levels rise to the
top and decay by one and by two windows within 8 ticks, and two callers show that
entries are independent. In `session_lock` a lock, an unlock and a suspend or a
change of the screen saver meet in one run; two ends let desktopd and the shell,
the shell and lockd, or one of them twice, restart during a call. In
`input_capture` three sessions let one be displaced while another is named, and
four calls are enough to create and enable two of them or to switch one off while
calls are late; `input_capture_ends` has the lock call instead of ends of
processes. In `portal_requests` two requests and a file chooser make three nested
loops, the least in which one lies between others. In `polkit_agent` four
requests are one begun, one queued, one started by a nested completion and one
that meets it from the other thread; more would repeat these. In `greeter`
three logins are needed for two stale answers to meet a third, and four for a login
after a session through PAM. The counters of these bounds are in the guards, so
that liveness is not cut off by a constraint.

**Assumptions of the model.**

* A step of the broker's 250 ms loop comes before the next deadline of 10 or 30 s
  (`WatchdogTick`), and a D-Bus call to recoveryd ends before the next login.
* recoveryd is called while a session is up: its unit is part of
  `graphical-session.target`.
* Saves of `state.json` succeed, except in recoveryd, whose escalation depends on
  it. Writing the partition request succeeds.
* A broker that is killed takes its watchdog along.
* An edit of the configuration goes through `save()`; edits of other kinds are in
  `ConfigManager`.
* `BaselineHasRun`, `Converges` and `LogoutEnds` are checked for a user who does
  not change the configuration of a session that is not confirmed for good
  (`EditsInSession = FALSE`). With such edits, the watchdog promotes what is in
  the file rather than what runs, and the first two do not hold. `login_converges`
  starts with a safe file, as the first healthy login leaves it; what can happen
  without one is described below.
* `KeepsLedger` is checked where nobody calls recoveryd: a safe mode that is
  forced is looked at before the crash count.
* The wall clock does not run backwards (`UnlockThrottle`). A caller is its key in
  the table, which the code takes from its name on the bus.
* The message bus delivers in order what one process sends to another, and drops
  what is sent to one that is not there.
* `ForcedNeedsPam` speaks of a screen saver that is off. The screen saver is
  trusted otherwise: `onScreenSaverActiveChanged(false)` unlocks the session, by
  the code, after one that was `true`.
* Refused calls and snapshots that time out excuse `CopiesAgree` (`astray`), a
  screen saver that does not obey and an end of desktopd excuse `SaverAgrees`
  (`adrift`), a file that cannot be read or written the properties of the throttle
  (`faults`): the code logs these and goes on. Each is set by the event itself, and
  the runs reach the states without it.
* A client's proxy is valid when it looks for the lock state: a client that was
  started while desktopd is absent returns early there (`SessionStateClient.cpp:238`)
  and does not look, which `SessionLock` leaves out.
* portald is the only caller of desktopd's input capture, its clients follow the
  portal's protocol, and barriers are data (`InputCapture`). `CaptureIsKnown` is
  excused by an end of a process and by a call the backend refused (`disturbed`).
* All requests are one application's; a turn of the shell's event loop is one step;
  what the policy decides without a stored permission is arbitrary; a session's
  handle is fresh (`PortalRequests`).
* libpolkit emits `completed` inside `polkit_agent_session_cancel()`; Qt queues a
  signal whose receiver lives in another thread (`PolkitAgent`).
* greetd answers each request once and in order, refuses one its state does not
  allow, and asks at most `MaxQuestions` times (`Greeter`).

**Fairness.** `SystemFairness`: the broker's loops poll, timers fire, a shell
that can draw does, the recovery application's handlers run, and a D-Bus call
once begun goes on; none of it needs a new fault. `UserFairness`: the user logs
in again, leaves the recovery application and logs out in the end. `LogoutEnds`
is about the system; the fairness of the user does not help it, since nothing
the user does then is enabled before the broker has exited. `SessionLock`
assumes that desktopd serves its queue, that its blocking calls return and that
lockd handles the signal of a lost name: what their event loops do. Nothing is
assumed of the user, the shell, the screen saver or a process that is to restart.
`InputCapture` assumes that each process goes on with what it can do, that a call
nobody answers times out, that a dialog closes (the bridge's own timer) and that
the shell is restarted; nobody has to ask or to answer. `PortalRequests` assumes
only portald's loop and its 190 s timer: no liveness of the shell is needed.
`PolkitAgent` assumes its two threads, the timer where it runs, and that a locked
screen is unlocked in the end (not that an unlock is signalled otherwise); `Greeter` that
greetd answers and the greeter's loop runs.

**Observed while modelling.** `polkit_timeout_doc` is the one disagreement kept as a
run. The following are read off the code, and the models contain them, but no run
is kept for them.

*Login.* `docs/architecture-login-stack.md:128` gives the threshold as 3, the code
as 5 (`slmlogindefs.h:7`); line 84 of the same document says the count stays
elevated if the compositor crashes before the watchdog fires, but the broker has
reset it at the first frame. One burst of crash reports reaches the limit of
automatic recoveries (`recoveryservice.cpp:164`), where
`docs/architecture/HYBRID_RECOVERY_ARCHITECTURE.md:91` speaks of repeated failed
ones; line 143 there names a fallback the code has not if the last-good compositor
does not come up (`sessionrollback.cpp:11`). `rollbackToSafe()` without a safe
file leaves `{}`, which the next `load()` replaces with the previous configuration,
not with the defaults the comment at `slmconfigmanager.cpp:290` names. So after two
saves, without a safe file, a session in safe mode makes a configuration the baseline
that has never run: it draws with `{}`, and 30 seconds later the watchdog's `load()`
takes up the previous one, which `promoteToLastGood()` and `snapshot()` then keep
(`sessionwatchdog.cpp:142`), where `slmconfigmanager.h:40` speaks of marking the current
one as known-good. It was found in proving `BaselineHasRun`; TLC finds it in 14 steps in
`LoginConverges.cfg` with `InitialStore <- NoFiles`, `Request = {"normal", "safe"}`
and no faults. `save()`
over a damaged active file copies the damage over the only valid one before it
writes (`slmconfigmanager.cpp:260`). Recovery promotes a configuration whose shell
never ran (`sessionwatchdog.cpp:142`, against
`docs/architecture-login-stack.md:154`) and does not look at SIGTERM
(`sessionbroker.cpp:1487`). Safe mode forced while another process rewrites
`state.json` is overwritten (`sessionbroker.cpp:1682`), which is why
`SafeModeSurvives` speaks of a quiet moment.

*Lock.* A suspend leaves the session unlocked if both screen saver and logind
refuse (`sessionstatemanager.cpp:123`).

*Input capture.* portald reports what the mediator of permissions decided but does
not act on it, and the host takes a session as enabled whatever `applied` says. A restart of portald
changes its unique name, so its old records belong to nobody; a restart of
desktopd forgets records the provider keeps. A stop from the indicator is not told to
the host, which then answers the client's next `Enable` without calling the provider
(the session is on in its table); an `Enable` that was already on its way to the shell is
served after the stop and captures again. The provider calls the compositor's
primitive before it looks for a conflict. The shell's `Lock` and desktopd's call
to the provider wait for each other until 25 s have passed.

*Portal.* A question that arrives while another is shown is refused inside the
signal that announces it, before the loop has begun: the quit is lost, the loop
runs its whole 180 s and buries the ones below, so that an allow can be lost
(`buried` in `AnswerIsTheUsers`). A dialog stays on the screen after its timeout.
An allowed `ScreencastStop` closes its session twice. Entries of `m_consentResults`
are never removed if they come late.

*Polkit.* A cancelled or timed-out request with another behind it starts that one
inside its own cancellation, and the outer call then clears its session and fails it
at once, against the comment at `polkitagentapp.cpp:389`. A request that is queued
just after the main thread has looked waits for the next one. Late `completed` and
cancelled events hit whatever is pending, and are not told apart by request. When both
threads begin a request at the same time the slot keeps the last, the dialog may be the
other's, and that one is never answered: it is the exception in `AskedForSomeone`. A
helper that cannot be spawned reports its end inside `start()` (`authsession.cpp:125`),
which returns true all the same: the request becomes pending without a session and
without a dialog, and waits two minutes for its timer; begun in the listener's thread it
has none, and waits until the screen is unlocked or something else completes.

*Greeter.* The success of a `cancel_session` after a quick retry is taken for the
authentication's: `start_session` goes out too early and a right password fails;
two of them make the greeter exit for a session that was not started. Texts that
greetd wants acknowledged never are. A disconnect leaves the step as it is, so that
`login()` refuses for ever. The form accepts a login while a session through PAM
runs: the first handle is ended without closing its session
(`slmpamsession.cpp:157`), and the end of the first process closes the second one.

## 5. What is proved

Every invariant of a passing run, and every property of a single step, is stated by a
theorem. One module of proofs belongs to each of eight modules. A proof has one
lemma per action, or per group of actions that change the same things in the same
way; TLC has checked each inductive invariant on the instance of the run before it
was proved.

`ConfigManagerProofs` — first facts about the operations as functions
(`LoadIsIdempotent`, `SaveAndUndo`, `SafeRollbackFallsBack`). Then, for any set of processes and any bounds, all
properties of the run, and two action properties of the single file accesses that
are proved only: no write of `load()` changes what the next one chooses
(`RepairIsStable`), and `save()` replaces an active file only when its content is in
the previous one (`BackupBeforeSave`). None of them is inductive: what an operation cut short
leaves in force depends on which files it has written so far. The invariant
`IInv == TypeOK /\ Walk` adds, for every label, what `store`, `buf` and `before`
have to do with each other while `clean[p]` holds; each action then moves one
process along its walk, and a write makes every other process unclean.

`LoginSystemProofs` — `TypeOK` for every value of the constants: one lemma per action
of each component, then one step per action of the composition. Then
`CrashLoopEscalates` and `HealthyIsEarned`. Both need

    SafetyInv == HelpersRest /\ EvidenceIsDrawn /\ HealthyIsDrawn
                 /\ CountsAreKept /\ ModeFollowsCount

`CountsAreKept` is the heart: in every copy of the record that somebody may still
save, in `state.json`, in the broker, in the watchdog, in the recovery
application and in recoveryd, the crash count is at least the number of boots
since one last drew a frame or ended as a clean recovery session. It is needed
for all copies at once because any of them can be the next to be saved.
`HealthyIsDrawn` says the same of the status, `EvidenceIsDrawn` that a frame or a
confirmation is only there in a boot that drew, `HelpersRest` that no helper
holds a copy from an earlier boot, and `ModeFollowsCount` carries the count into
the mode that was chosen from it. The other properties each add to these:

* `FailedNotRepeated` and `SafeModeSurvives`, for any calls of recoveryd (the run of
  the first has none, that of the second two). `FailedInv`: a configuration that ran in vain stays
  pending in the file *and* in every record that will be saved over it, until the
  next start undoes it. `SafeModeInv`: a request that nobody was about to overwrite
  is in the file, in the broker's copy and in the records of the daemon's calls.
* `ConfirmedIsKept`, where recoveryd is not called to rewrite state.json
  (`NoRewrites`: its other methods save a record they have loaded some time before,
  and one that crosses the broker's promotion makes the session pending again).
  `ConfirmedInv`: no record in anybody's hands is pending once the session is
  confirmed.
* `KeepsLedger`, under the same condition: `LedgerIsKept` is the refinement of
  `BootLedger`, each step of the composition a step of the ledger or none. It needs
  `TallyInv`: the broker's copy of the count is the one in the file except in a
  recovery session that was confirmed meanwhile, and the watchdog's timer never runs
  out before the broker has promoted or given up, so that a boot is paid once.
* `BaselineHasRun`, from `BaselineInv`: wherever somebody can still make a baseline of
  the active file, it is what the session runs or something that drew before. This is
  the one property that does not hold without a hypothesis on behaviours:
  `LoadsWhatRan` says that a `load()` inside a session does not turn to the previous
  file. Without a safe file it can (section 4); TLC finds `LoadsWhatRan` true in every
  state of `login_converges`. Calls of recoveryd that roll back inside a
  session (`NoRollbackCalls`) and edits there are excluded too, for the same reason.

`UnlockThrottleProofs` — `TypeOK`, and `LockoutHonoured` from `ThrottleInv`: both
copies of the table, in memory and in the file, keep every lockout that was
promised and is not over, and no lockout reaches further than one window beyond
the last failure. The second part is what makes the first inductive: decay clears
an entry only after a whole window, when its lockout is over. The file is part of
it because a crash makes it the table. `DecayIsExact` and `BurstStopped` come from
`HistoryInv`, which relates an entry of either copy to what happened: `Aged` says how
many windows have been taken off since the last failure and up to when, `Counts` that
the failures of the row which the streak does not count are a window old. That one
decay equals many rests on lemmas about integer division by the window, which the
module proves.

`SessionLockProofs` — `TypeOK` with the fact that desktopd is only busy with a
call it has received; `SuspendLocks` and `ForcedNeedsPam` from `LockInv`:
between calls the state is `Active` or `Locked`, during a call it is the one
that belongs to the call, and an idle session is locked or being unlocked, so
that the early return on `m_idle` never skips an unlocked session; `SaverAgrees`
from `SaverInv`, which compares the screen saver with the last signal on its
way. `CopiesAgree` needs `CopiesInv`: the copies differ only while a signal is on its
way that will bring them together, and behind it no signal that would part them.
`CallsInv` says which of the shell's calls desktopd has, `InboxInv` that a shell which
takes desktopd for gone will hear that it is there, `ShownInv` how the lock screen can
differ from the client, and `AgreeInv` which signal decides: the last one is that of
desktopd's state, or the bus name's, whose handler asks for the state.

`InputCaptureProofs` — `TypeOK` and `OneCapture` from `CaptureInv`, for any set of
sessions, any bounds and any number of ends of processes. It says of each process
what its tables are (`PortaldOK`, `HostOK`, `ProviderOK`, `ShellOK`, `GhostsOK`) and
that the host enables at most one session (`HostOne`). Both halves
follow operation by operation, whoever calls and however late: the host changes its
table before it calls the provider and not on the answer, and the provider's active
session and count are settled from its table at the end of every method. The shapes
of the queues are part of the invariant because what arrives late is executed.

What relates the two tables is the calls on their way, and `WayInv` says what these
are. `WaitInv`: portald waits for one call at most, the last it made; what it gave up
lies before it. `RetryInv`: from the answer that named a capturing session, through
the dialog, to the Enable that displaces it, no other session can start to capture,
because portald has one call under way and the shell changes only its own table; hence
`DisplacedAsAgreed`. `KnownInv`: behind an Enable in the shell's queue, and for a
session the provider still captures for, there is a call that ends it unless desktopd
has it enabled; hence `CaptureIsKnown`. `OffInv` follows the end of a capture along its
way: desktopd clears its flag before it calls (`ClearedInv`), the call it waits for is
the last in the shell's queue (`LastInv`), so when the provider has applied it, no
Enable is left anywhere (`AppliedInv`, `ToldInv`), and none will come before the client
makes one (`AgainInv`); hence `OffMeansOff`. A call that was given up still runs, and
the proof is that it runs before the one that is waited for.

`PortalRequestsProofs` — `TypeOK`, `AnswerIsTheUsers` and `GrantsAreTheUsers`. The first
says that no request has two event loops, which with the bound on nested loops needs
the greatest element of a finite set (`MaxProperties`, by well-founded order rather
than by induction). The other two come from `Ledger`: a request still owes an answer
until it has one (`OwedInv`), one that put nothing to the user has left no trace (`FreshInv`), what
lies in the shell's results is what the user said (`SaysInv`), and every session and
stored permission has an answer behind it (`SessionInv`, `StoredInv`, `AnswerInv`).

`PolkitAgentProofs` — `TypeOK`, `AnsweredOnce` and `AskedForSomeone` from `AgentInv`. Its
heart is `PlaceInv`: a request is in one place only, being begun by the listener or in a
call of the main thread, in the slot, or in the queue, and one that has a place has no
answer. So a completion inside another call finds another request or none. Several calls
of the main thread may each begin a request, one inside another (`Called`, with `Distinct`
saying that no two have the same); `GoesCalls` says what becomes of them when the
innermost call goes on. `DialogInv` follows the dialog's own request through these places,
and `HookInv` says that what is in the slot is hooked.

`GreeterProofs` — `TypeOK`, with what it says of the form and the session's process, and
`OwnConversation` from `ConversationInv`. An answer has no name, but each request on its
way meets the conversation its predecessor leaves: every creation comes when the
conversation is clear (`Clear`), everything else in the conversation of its own login
(`Meets`), because whatever ends a login sends `cancel_session` before the form is free.

Assumptions: the named `ASSUME`s of the modules, which TLC evaluates in the
runs: the threshold is positive, a lockout is not longer than the window, the
sets of good configurations are sets of configurations, the bounds are natural
numbers; and the hypotheses of single theorems of `LoginSystemProofs` named above,
`NoRewrites` and `NoRollbackCalls` on the calls somebody makes of recoveryd,
`~EditsInSession`, and `LoadsWhatRan`.

Model-checked only: the liveness properties (`Converges`, `LogoutEnds`, `DeathLocks`,
`CallsEnd`, `EveryAskIsAnswered`, `LoginEnds`), which are out of the prover's reach. Of
`BaselineHasRun`, `ConfirmedIsKept` and `KeepsLedger` nothing is proved without the
hypotheses, and the instances of their runs satisfy them; the first is refuted without
`LoadsWhatRan`.

## 6. What is not modelled

Inside the login stack: the reasons and texts in `state.json`; the compositor's
own configuration and environment; terminal, network and system repair in the
recovery application; `ReportHealth` and the bootloader trigger in recoveryd; a
watchdog that survives a killed broker; the platform check, whose answer is an
input. Inside the session lock: inhibitors, log out and reboot, the active
application, the resume signal, the compatibility service (whose `Lock()` is the
manager's alone, as a suspend's), the failure counter the lock screen keeps for
itself, the window that blocks input when there is no shell, and the events of
`updateFromEvent()` that lock and unlock, which the only window back end never
sends. Inside input capture: the data of barriers, the helper, null and probe
backends. Inside the portal: the methods of the other portals, secrets, deny
always, more than one application. Inside the polkit agent: registration, the lock
file, shutdown, prompts and texts, what a request is answered. Inside the greeter:
virtual terminals, the list of users, power actions, missing components, SIGTERM,
its own restart. Outside: everything listed as `not_modelled` in `PROJECT.json`, because it
comes later in the plan or because it has no protocol to check: mirrors of other
services' state, user interface, the installer, text parsing.
