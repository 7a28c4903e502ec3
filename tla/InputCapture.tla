--------------------------- MODULE InputCapture ---------------------------
(***************************************************************************)
(* Input capture across three processes of a user's session.               *)
(*                                                                         *)
(*   portald   ImplPortalService: the Bridge* calls of the portal frontend *)
(*   desktopd  InputCaptureService: who may capture; drives a backend      *)
(*   shell     CompositorInputCaptureBackendService (CaptureProvider), the *)
(*             indicator's stop buttons, the consent dialog, and the lock  *)
(*             call of SessionStateClient                                  *)
(*                                                                         *)
(* Each process has one thread, and every call between them is a blocking  *)
(* D-Bus call: a process that waits serves nobody.  A call that times out  *)
(* is not withdrawn: the callee still runs it, in the order of the bus.    *)
(* The shell locks the session by a blocking call to desktopd while        *)
(* desktopd may be waiting for the shell, so only the timeouts end that    *)
(* wait.                                                                   *)
(***************************************************************************)
EXTENDS Naturals, Sequences, FiniteSets

CONSTANTS Sessions,    \* session paths
          NoSession,   \* no path
          Bypassed,    \* the D-Bus guard is disabled (m_guard.isEnabled())
          Strict,      \* the values of require_compositor_command in use
          MaxAsks,     \* bound on the calls of clients and user
          MaxLocks,    \* bound on the shell's lock calls
          MaxDeaths    \* bound on the processes that die

ASSUME SessionsAssumption ==
    /\ IsFiniteSet(Sessions) /\ NoSession \notin Sessions

ASSUME BoundsAssumption ==
    /\ Bypassed \in BOOLEAN /\ Strict \subseteq BOOLEAN
    /\ MaxAsks \in Nat /\ MaxLocks \in Nat /\ MaxDeaths \in Nat

VARIABLES
    job,       \* portald: the frontend call it serves
    gen,       \* portald's unique bus name: which of its runs this is
    host,      \* desktopd: m_sessions
    backend,   \* desktopd: the backend chosen when it started
    inbox,     \* desktopd: calls that have arrived
    serving,   \* desktopd: the call whose backend answer it waits for
    prov, active, count,   \* shell: the provider
    shell,     \* shell: "down", "ready", or "locking" (waits for desktopd)
    outbox,    \* shell: backend calls that have arrived
    open,      \* clients: the sessions they created and still use
    off,       \* history: sessions whose end the backend has confirmed
    disturbed, \* history: a process died or a backend call was refused
    asks, locks, deaths

Provider == INSTANCE CaptureProvider

portaldVars == <<job, gen>>
hostVars    == <<host, backend, inbox, serving>>
provVars    == <<prov, active, count>>
shellVars   == <<prov, active, count, shell, outbox>>
ghosts      == <<open, off, disturbed>>
bounds      == <<asks, locks, deaths>>
vars == <<job, gen, host, backend, inbox, serving, prov, active, count,
          shell, outbox, open, off, disturbed, asks, locks, deaths>>

Ops == {"create", "barriers", "enable", "disable", "release"}

(* How a client's Enable asks for a preempt: not at all, with a gesture    *)
(* from official UI (canAttemptInputCapturePreempt), with nothing, or with *)
(* a claim of official UI that is not believed.                            *)
Modes == {"plain", "trusted", "asking", "claimed"}

(* A call to desktopd, and by desktopd to the shell.  `by' is the caller's *)
(* name, `over' the session an allow_preempt is meant to displace, `live'  *)
(* whether the caller still waits for the answer.                          *)
Call == [op : Ops \cup {"lock"}, s : Sessions \cup {NoSession},
         by : Nat, over : Sessions \cup {NoSession},
         strict : BOOLEAN, live : BOOLEAN]

(* What a caller gets back: ok, whether the backend applied it, and the    *)
(* session named by conflict-active-session.  `lost' is no answer at all.  *)
Reply == [ok : BOOLEAN, applied : BOOLEAN, conflict : Sessions \cup {NoSession},
          lost : BOOLEAN]

None == [none |-> TRUE]

Answer(ok, applied, conflict) ==
    [ok |-> ok, applied |-> applied, conflict |-> conflict, lost |-> FALSE]

Lost == [ok |-> FALSE, applied |-> FALSE, conflict |-> NoSession, lost |-> TRUE]

Job == [op : Ops, s : Sessions, mode : Modes, strict : BOOLEAN,
        at : {"probe", "consent", "retry"}, over : Sessions \cup {NoSession},
        reply : Reply \cup {None}]

HostRecord == [known : BOOLEAN, enabled : BOOLEAN, owner : Nat]

NoHostRecord == [known |-> FALSE, enabled |-> FALSE, owner |-> 0]

HostCapturing == {s \in Sessions : host[s].enabled}

ProviderCapturing == Provider!Capturing(prov)

TypeOK ==
    /\ job \in Job \cup {None} /\ gen \in Nat
    /\ host \in [Sessions -> HostRecord] /\ backend \in {"dbus", "none"}
    /\ inbox \in Seq(Call)
    /\ serving \in [call : Call, reply : Reply \cup {None}] \cup {None}
    /\ prov \in [Sessions -> Provider!Record]
    /\ active \in Sessions \cup {NoSession} /\ count \in Nat
    /\ shell \in {"down", "ready", "locking"} /\ outbox \in Seq(Call)
    /\ open \subseteq Sessions /\ off \subseteq Sessions
    /\ disturbed \in BOOLEAN
    /\ asks \in Nat /\ locks \in Nat /\ deaths \in Nat

(* desktopd looks for the shell's service once, when it starts: it has the *)
(* provider as its backend only if the shell came first.                   *)
Init ==
    /\ job = None /\ gen = 1
    /\ host = [s \in Sessions |-> NoHostRecord]
    /\ backend \in {"dbus", "none"}
    /\ inbox = <<>> /\ serving = None
    /\ Provider!ProviderInit
    /\ shell = "ready" /\ outbox = <<>>
    /\ open = {} /\ off = {} /\ disturbed = FALSE
    /\ asks = 0 /\ locks = 0 /\ deaths = 0

-----------------------------------------------------------------------------
(* portald *)

(* callInputCaptureService: one blocking call to desktopd. *)
CallHost(op, s, over, strict) ==
    inbox' = Append(inbox, [op |-> op, s |-> s, by |-> gen, over |-> over,
                            strict |-> strict, live |-> TRUE])

(* A bridge call of a client that keeps to the protocol.  The first Enable *)
(* is a probe: it carries no allow_preempt, whatever the client asked.     *)
Ask(op, s, mode, strict) ==
    /\ job = None /\ asks < MaxAsks
    /\ IF op = "create" THEN s \notin open ELSE s \in open
    /\ op # "enable" => mode = "plain"
    /\ strict => op \in {"enable", "disable"}
    /\ job' = [op |-> op, s |-> s, mode |-> mode, strict |-> strict,
               at |-> "probe", over |-> NoSession, reply |-> None]
    /\ CallHost(op, s, NoSession, strict)
    /\ open' = CASE op = "create"  -> open \cup {s}
                 [] op = "release" -> open \ {s}
                 [] OTHER          -> open
    /\ off' = IF op = "enable" THEN off \ {s} ELSE off
    /\ asks' = asks + 1
    /\ UNCHANGED <<gen, host, backend, serving, shellVars, disturbed,
                   locks, deaths>>

(* The call returns to the client. *)
Return ==
    /\ job' = None
    /\ off' = IF job.op \in {"disable", "release"} /\ job.reply # None
                   /\ job.reply.ok /\ job.reply.applied
              THEN off \cup {job.s} ELSE off

(* The probe was refused because another session captures, and the client  *)
(* wants it displaced.                                                     *)
Conflicted ==
    /\ job # None /\ job.at = "probe" /\ job.reply # None
    /\ job.op = "enable" /\ job.mode # "plain"
    /\ job.reply.conflict # NoSession

(* The second EnableSession, now with allow_preempt. *)
Retry(over) ==
    /\ job' = [job EXCEPT !.at = "retry", !.over = over, !.reply = None]
    /\ CallHost("enable", job.s, over, job.strict)
    /\ UNCHANGED off

(* A trusted gesture, or (dialog missing, guard disabled, no claim of      *)
(* official UI) the direct preempt.                                        *)
RetryUnasked ==
    /\ Conflicted
    /\ \/ job.mode = "trusted"
       \/ job.mode = "asking" /\ shell = "down" /\ Bypassed
    /\ Retry(job.reply.conflict)
    /\ UNCHANGED <<gen, host, backend, serving, shellVars, open, disturbed,
                   bounds>>

(* requestTrustedInputCapturePreemptConsent: the dialog names the session  *)
(* that would be displaced, and portald waits in the call.                 *)
AskUser ==
    /\ Conflicted /\ job.mode \in {"asking", "claimed"} /\ shell # "down"
    /\ job' = [job EXCEPT !.at = "consent", !.over = job.reply.conflict]
    /\ UNCHANGED <<gen, hostVars, shellVars, ghosts, bounds>>

UserAllows ==
    /\ job # None /\ job.at = "consent" /\ shell = "ready"
    /\ Retry(job.over)
    /\ UNCHANGED <<gen, host, backend, serving, shellVars, open, disturbed,
                   bounds>>

(* A mutant: neither dialog nor call has a timer. *)
ConsentEndsWithShell ==
    /\ job # None /\ job.at = "consent" /\ shell = "down"
    /\ Return
    /\ UNCHANGED <<gen, hostVars, shellVars, open, disturbed, bounds>>

(* Denied, or left unanswered until the dialog's own timer (180 s), or the *)
(* call's (190 s), or the shell died with the dialog.                      *)
ConsentEnds ==
    /\ job # None /\ job.at = "consent"
    /\ Return
    /\ UNCHANGED <<gen, hostVars, shellVars, open, disturbed, bounds>>

(* Any other answer ends the bridge call; so does a missing dialog. *)
BridgeReturns ==
    /\ job # None /\ job.at # "consent" /\ job.reply # None
    /\ Conflicted => /\ shell = "down" /\ job.mode # "trusted"
                     /\ ~(job.mode = "asking" /\ Bypassed)
    /\ Return
    /\ UNCHANGED <<gen, hostVars, shellVars, open, disturbed, bounds>>

(* Nobody waits for the answers to portald's calls any more. *)
Abandon(queue) ==
    [i \in DOMAIN queue |->
        IF queue[i].op = "lock" THEN queue[i]
                                ELSE [queue[i] EXCEPT !.live = FALSE]]

AbandonServing ==
    IF serving = None THEN None ELSE [serving EXCEPT !.call.live = FALSE]

(* 25 s without an answer: an empty map, which is read as "not synced".    *)
(* The call stays on its way.                                              *)
PortaldTimesOut ==
    /\ job # None /\ job.at # "consent" /\ job.reply = None
    /\ job' = [job EXCEPT !.reply = Lost]
    /\ inbox' = Abandon(inbox) /\ serving' = AbandonServing
    /\ UNCHANGED <<gen, host, backend, shellVars, ghosts, bounds>>

-----------------------------------------------------------------------------
(* desktopd *)

(* The answer reaches portald if it still waits for this call. *)
ReplyTo(m, reply) ==
    job' = IF m.live THEN [job EXCEPT !.reply = reply] ELSE job

(* isOwnerAllowed: the caller is the bus name that created the session. *)
IsOwnerAllowed(m) == host[m.s].owner \in {0, m.by}

(* The backend call: made and waited for, or refused on the spot because   *)
(* there is no provider to call.                                           *)
CallBackend(m) ==
    IF backend = "dbus" /\ shell # "down"
    THEN /\ outbox' = Append(outbox, [m EXCEPT !.live = TRUE])
         /\ serving' = [call |-> m, reply |-> None]
         /\ UNCHANGED <<job, disturbed>>
    ELSE /\ ReplyTo(m, Answer(TRUE, FALSE, NoSession))
         /\ disturbed' = TRUE
         /\ UNCHANGED <<outbox, serving>>

Refuse(m, conflict) ==
    /\ ReplyTo(m, Answer(FALSE, FALSE, conflict))
    /\ UNCHANGED <<host, outbox, serving, disturbed>>

(* CreateSession takes an existing record over, flag and all. *)
HostCreate(m) ==
    /\ host' = [host EXCEPT ![m.s].known = TRUE, ![m.s].owner = m.by]
    /\ CallBackend(m)

HostBarriers(m) ==
    IF IsOwnerAllowed(m)
    THEN host' = [host EXCEPT ![m.s].known = TRUE] /\ CallBackend(m)
    ELSE Refuse(m, NoSession)

(* A mutant: the probe displaces as well. *)
HostEnableOver(m) ==
    \/ ~IsOwnerAllowed(m) /\ Refuse(m, NoSession)
    \/ /\ IsOwnerAllowed(m)
       /\ host' = [s \in Sessions |->
                     IF s = m.s THEN [host[s] EXCEPT !.known = TRUE,
                                                     !.enabled = TRUE]
                     ELSE [host[s] EXCEPT !.enabled = FALSE]]
       /\ CallBackend(m)

(* EnableSession.  Only a call that carries allow_preempt displaces.  The  *)
(* displaced session's flag is cleared here; the backend is told of the    *)
(* new session only, and its refusal changes nothing.                      *)
HostEnable(m) ==
    LET others == HostCapturing \ {m.s} IN
    \/ ~IsOwnerAllowed(m) /\ Refuse(m, NoSession)
    \/ /\ IsOwnerAllowed(m) /\ host[m.s].enabled
       /\ ReplyTo(m, Answer(TRUE, FALSE, NoSession))
       /\ UNCHANGED <<host, outbox, serving, disturbed>>
    \/ /\ IsOwnerAllowed(m) /\ ~host[m.s].enabled
       /\ m.over = NoSession
       /\ \E other \in others : Refuse(m, other)
    \/ /\ IsOwnerAllowed(m) /\ ~host[m.s].enabled
       /\ others = {}
       /\ host' = [host EXCEPT ![m.s].known = TRUE, ![m.s].enabled = TRUE]
       /\ CallBackend(m)
    \/ /\ IsOwnerAllowed(m) /\ ~host[m.s].enabled
       /\ m.over # NoSession
       /\ \E other \in others :
             host' = [host EXCEPT ![other].enabled = FALSE,
                                  ![m.s].known = TRUE, ![m.s].enabled = TRUE]
       /\ CallBackend(m)

HostDisable(m) ==
    IF IsOwnerAllowed(m)
    THEN /\ host' = [host EXCEPT ![m.s].known = TRUE, ![m.s].enabled = FALSE]
         /\ CallBackend(m)
    ELSE Refuse(m, NoSession)

(* A mutant: the backend is not told. *)
HostReleaseUnheard(m) ==
    /\ host' = [host EXCEPT ![m.s] = NoHostRecord]
    /\ ReplyTo(m, Answer(TRUE, TRUE, NoSession))
    /\ UNCHANGED <<outbox, serving, disturbed>>

HostRelease(m) ==
    IF IsOwnerAllowed(m)
    THEN host' = [host EXCEPT ![m.s] = NoHostRecord] /\ CallBackend(m)
    ELSE Refuse(m, NoSession)

(* desktopd takes the next call.  A lock call is answered at once: the     *)
(* shell goes on if it still waits for it.                                 *)
HostServes ==
    /\ serving = None /\ inbox # <<>>
    /\ inbox' = Tail(inbox)
    /\ LET m == Head(inbox) IN
       \/ /\ m.op = "lock"
          /\ shell' = IF m.live THEN "ready" ELSE shell
          /\ UNCHANGED <<job, host, outbox, serving, disturbed>>
       \/ /\ \/ m.op = "create"   /\ HostCreate(m)
             \/ m.op = "barriers" /\ HostBarriers(m)
             \/ m.op = "enable"   /\ HostEnable(m)
             \/ m.op = "disable"  /\ HostDisable(m)
             \/ m.op = "release"  /\ HostRelease(m)
          /\ UNCHANGED shell
    /\ UNCHANGED <<gen, backend, provVars, open, off, bounds>>

(* A mutant: the backend's answer is not passed on. *)
HostRepliesApplied ==
    /\ serving # None /\ serving.reply # None
    /\ ReplyTo(serving.call, Answer(TRUE, TRUE, NoSession))
    /\ serving' = None
    /\ UNCHANGED <<gen, host, backend, inbox, shellVars, ghosts, bounds>>

(* The backend call has ended; the operation succeeds whatever it said. *)
HostReplies ==
    /\ serving # None /\ serving.reply # None
    /\ ReplyTo(serving.call, Answer(TRUE, serving.reply.applied, NoSession))
    /\ serving' = None
    /\ UNCHANGED <<gen, host, backend, inbox, shellVars, ghosts, bounds>>

(* 25 s without an answer from the shell, which still has the call. *)
HostTimesOut ==
    /\ serving # None /\ serving.reply = None
    /\ serving' = [serving EXCEPT !.reply = Lost]
    /\ outbox' = Abandon(outbox)
    /\ UNCHANGED <<portaldVars, host, backend, inbox, provVars, shell,
                   ghosts, bounds>>

-----------------------------------------------------------------------------
(* The shell *)

(* The provider's method for a backend call. *)
ProviderServes(m, stuck, ok) ==
    \/ m.op = "create"   /\ Provider!CreateSession(m.s, ok)
    \/ m.op = "barriers" /\ Provider!SetPointerBarriers(m.s, stuck, ok)
    \/ m.op = "enable"   /\ Provider!EnableSession(m.s, m.over # NoSession,
                                                   stuck, ok)
    \/ m.op = "disable"  /\ Provider!DisableSession(m.s, stuck, ok)
    \/ m.op = "release"  /\ Provider!ReleaseSession(m.s, ok)

ShellServes ==
    /\ shell = "ready" /\ outbox # <<>>
    /\ outbox' = Tail(outbox)
    /\ LET m == Head(outbox) IN
       \E stuck, ok \in BOOLEAN :
          /\ stuck => m.strict
          /\ ProviderServes(m, stuck, ok)
          /\ serving' = IF m.live
                        THEN [serving EXCEPT !.reply = Answer(ok, ok, NoSession)]
                        ELSE serving
          /\ disturbed' = (disturbed \/ ~ok)
    /\ UNCHANGED <<portaldVars, host, backend, inbox, shell, open, off, bounds>>

(* InputCapturePrivacyModel: the user stops a session from the indicator.  *)
(* The call goes to the provider of the same process; desktopd is not told.*)
UserStops(s) ==
    /\ shell = "ready" /\ prov[s].known /\ asks < MaxAsks
    /\ \/ Provider!DisableSession(s, FALSE, TRUE)
       \/ Provider!ReleaseSession(s, TRUE)
    /\ asks' = asks + 1
    /\ UNCHANGED <<portaldVars, hostVars, shell, outbox, ghosts, locks, deaths>>

(* SessionStateClient::lock(): a blocking call to desktopd. *)
ShellLocks ==
    /\ shell = "ready" /\ locks < MaxLocks
    /\ shell' = "locking"
    /\ inbox' = Append(inbox, [op |-> "lock", s |-> NoSession, by |-> 0,
                               over |-> NoSession, strict |-> FALSE,
                               live |-> TRUE])
    /\ locks' = locks + 1
    /\ UNCHANGED <<portaldVars, host, backend, serving, provVars, outbox,
                   ghosts, asks, deaths>>

(* The lock calls nobody waits for any more. *)
AbandonLocks(queue) ==
    [i \in DOMAIN queue |->
        IF queue[i].op = "lock" THEN [queue[i] EXCEPT !.live = FALSE]
                                ELSE queue[i]]

LockTimesOut ==
    /\ shell = "locking"
    /\ shell' = "ready" /\ inbox' = AbandonLocks(inbox)
    /\ UNCHANGED <<portaldVars, host, backend, serving, provVars, outbox,
                   ghosts, bounds>>

-----------------------------------------------------------------------------
(* Deaths: what a process knew is gone, and whoever waits for it is told.  *)

Dies == deaths < MaxDeaths /\ deaths' = deaths + 1 /\ disturbed' = TRUE

(* portald comes back under another unique bus name. *)
PortaldDies ==
    /\ Dies
    /\ job' = None /\ gen' = gen + 1
    /\ inbox' = Abandon(inbox) /\ serving' = AbandonServing
    /\ UNCHANGED <<host, backend, shellVars, open, off, asks, locks>>

(* A waiting caller's job; the answer is an error. *)
JobUnanswered ==
    IF job # None /\ job.at # "consent" /\ job.reply = None
    THEN [job EXCEPT !.reply = Lost] ELSE job

DesktopdDies ==
    /\ Dies
    /\ host' = [s \in Sessions |-> NoHostRecord]
    /\ backend' = IF shell = "down" THEN "none" ELSE "dbus"
    /\ inbox' = <<>> /\ serving' = None
    /\ job' = JobUnanswered
    /\ shell' = IF shell = "locking" THEN "ready" ELSE shell
    /\ outbox' = Abandon(outbox)
    /\ UNCHANGED <<gen, provVars, open, off, asks, locks>>

ShellDies ==
    /\ Dies /\ shell # "down"
    /\ shell' = "down" /\ outbox' = <<>>
    /\ prov' = [s \in Sessions |-> Provider!NoRecord]
    /\ active' = NoSession /\ count' = 0
    /\ serving' = IF serving # None /\ serving.reply = None
                  THEN [serving EXCEPT !.reply = Lost] ELSE serving
    /\ inbox' = AbandonLocks(inbox)
    /\ UNCHANGED <<portaldVars, host, backend, open, off, asks, locks>>

ShellStarts ==
    /\ shell = "down"
    /\ shell' = "ready"
    /\ UNCHANGED <<portaldVars, hostVars, provVars, outbox, ghosts, bounds>>

-----------------------------------------------------------------------------

PortaldStep == RetryUnasked \/ AskUser \/ BridgeReturns

HostStep == HostServes \/ HostReplies

Next ==
    \/ \E op \in Ops, s \in Sessions, mode \in Modes, strict \in Strict :
          Ask(op, s, mode, strict)
    \/ PortaldStep \/ UserAllows \/ ConsentEnds \/ PortaldTimesOut
    \/ HostStep \/ HostTimesOut
    \/ ShellServes \/ (\E s \in Sessions : UserStops(s))
    \/ ShellLocks \/ LockTimesOut
    \/ PortaldDies \/ DesktopdDies \/ ShellDies \/ ShellStarts

(* Each process goes on with what it can do, a call that is not answered   *)
(* times out and a dialog closes; nobody has to ask, answer, lock or die.  *)
Fairness ==
    /\ WF_vars(PortaldStep) /\ WF_vars(ConsentEnds)
    /\ WF_vars(PortaldTimesOut)
    /\ WF_vars(HostStep) /\ WF_vars(HostTimesOut)
    /\ WF_vars(ShellServes) /\ WF_vars(LockTimesOut) /\ WF_vars(ShellStarts)

Spec == Init /\ [][Next]_vars /\ Fairness

-----------------------------------------------------------------------------

(* One capture: each of the two tables enables at most one session, and    *)
(* the provider reports the one its table has, through take-overs that are *)
(* undone, late calls and restarts (the active_session and enabled_count   *)
(* of GetState).                                                           *)
OneCapture ==
    /\ \A s, t \in HostCapturing : s = t
    /\ ProviderCapturing = {active} \ {NoSession}
    /\ count = Cardinality(ProviderCapturing)

(* A session loses its capture at the host only by its own Disable or      *)
(* Release, by the host's death, or to an Enable that was granted over     *)
(* that very session: the one a dialog or the probe's answer named.        *)
DisplacedAsAgreed ==
    [][\A s \in HostCapturing :
          \/ host'[s].enabled
          \/ deaths' # deaths
          \/ /\ inbox # <<>>
             /\ LET m == Head(inbox) IN
                \/ m.s = s /\ m.op \in {"disable", "release"}
                \/ m.op = "enable" /\ m.over = s]_vars

(* No hidden capture: while every backend call was applied (however late)  *)
(* and no process died, a session the provider captures for once all calls *)
(* have been served is one the host has enabled.                           *)
CaptureIsKnown ==
    ~disturbed /\ inbox = <<>> /\ serving = None /\ outbox = <<>>
        => ProviderCapturing \subseteq HostCapturing

(* A Disable or Release that was answered as applied is final: neither     *)
(* table has the session enabled until a client enables it again, whatever *)
(* calls had timed out before and are served late.                         *)
OffMeansOff ==
    \A s \in off : ~host[s].enabled /\ ~prov[s].enabled

(* Every bridge call returns and the shell's lock call returns, although   *)
(* the shell and desktopd may wait for each other.                         *)
CallsEnd ==
    /\ job # None ~> job = None
    /\ shell = "locking" ~> shell # "locking"
    /\ serving # None ~> serving = None
=============================================================================
