------------------------------ MODULE Greeter ------------------------------
(***************************************************************************)
(* The greeter: LoginPage.qml, GreeterApp, GreetdClient, SlmPamSession.    *)
(*                                                                         *)
(* With greetd the greeter writes requests to a socket and reads answers,  *)
(* in order, that do not say which request they answer.  Without it, it    *)
(* logs in through PAM itself, blocking, and stays behind the session.     *)
(*                                                                         *)
(* A login is its number: `post' carries the password that was typed for   *)
(* it, `start' the mode that was chosen with it.                           *)
(***************************************************************************)
EXTENDS Naturals, Sequences

CONSTANTS MaxLogins,      \* bound on how often the form is submitted
          MaxQuestions    \* bound on the prompts of one conversation

ASSUME BoundsAssumption == MaxLogins \in Nat /\ MaxQuestions \in Nat

VARIABLES
    busy,       \* LoginPage: loginBusy
    greeter,    \* the process: running, leaving (exit is queued) or gone
    step,       \* m_loginStep
    pending,    \* the login of m_pendingPassword and m_pendingMode, or 0
    link,       \* the socket: none, connecting, up
    requests, replies,   \* on their way to and from greetd
    conv,       \* greetd: the conversation it has
    handle,     \* m_pamh: the login it belongs to, or 0
    open,       \* m_sessionOpen
    proc,       \* m_proc
    active,     \* m_sessionActive
    opened,     \* PAM: sessions opened and not closed
    procs,      \* the session processes that run
    logins      \* submitted so far

greetdVars == <<step, pending, link, requests, replies, conv>>
pamVars    == <<handle, open, proc, active, opened, procs>>
vars       == <<busy, greeter, greetdVars, pamVars, logins>>

Logins == 1..MaxLogins

Message == [type : {"create", "post", "start", "cancel"}, login : 0..MaxLogins]

NoConv == [at |-> "none", login |-> 0, questions |-> 0]

Init ==
    /\ busy = FALSE /\ greeter = "running"
    /\ step = "idle" /\ pending = 0
    /\ link \in {"none", "connecting"}
    /\ requests = <<>> /\ replies = <<>> /\ conv = NoConv
    /\ handle = 0 /\ open = FALSE /\ proc = 0 /\ active = FALSE
    /\ opened = {} /\ procs = {} /\ logins = 0

-----------------------------------------------------------------------------
(* greetd: it answers every request, in order *)

Connect ==
    /\ link = "connecting"
    /\ link' \in {"up", "none"}
    /\ UNCHANGED <<busy, greeter, step, pending, requests, replies, conv, pamVars, logins>>

(* What a conversation comes to: a prompt that wants an answer, a text that*)
(* wants an empty one, the end of the questions, or a refusal.             *)
Goes(login, questions) ==
    \/ /\ questions < MaxQuestions
       /\ \E at \in {"asking", "told"} :
             /\ conv' = [at |-> at, login |-> login, questions |-> questions + 1]
             /\ replies' = Append(replies, at)
    \/ /\ conv' = [at |-> "ready", login |-> login, questions |-> questions]
       /\ replies' = Append(replies, "success")
    \/ conv' = NoConv /\ replies' = Append(replies, "error")

OutOfPlace == conv' \in {conv, NoConv} /\ replies' = Append(replies, "error")

GreetdAnswers ==
    /\ requests # <<>> /\ requests' = Tail(requests)
    /\ LET m == Head(requests) IN
       \/ m.type = "create" /\ conv.at = "none" /\ Goes(m.login, 0)
       \/ m.type = "post" /\ conv.at \in {"asking", "told"} /\ Goes(conv.login, conv.questions)
       \/ m.type = "start" /\ conv.at = "ready" /\ conv' = NoConv /\ replies' = Append(replies, "success")
       \/ m.type = "cancel" /\ conv' = NoConv /\ replies' = Append(replies, "success")
       \/ m.type = "start" /\ conv.at # "ready" /\ OutOfPlace
       \/ m.type = "post" /\ conv.at \in {"none", "ready"} /\ OutOfPlace
       \/ m.type = "create" /\ conv.at # "none" /\ OutOfPlace
    /\ UNCHANGED <<busy, greeter, step, pending, link, pamVars, logins>>

(* The greeter does not connect again, and forgets nothing. *)
Disconnect ==
    /\ link = "up"
    /\ link' = "none" /\ requests' = <<>> /\ replies' = <<>> /\ conv' = NoConv
    /\ UNCHANGED <<busy, greeter, step, pending, pamVars, logins>>

-----------------------------------------------------------------------------
(* The greeter reads an answer *)

Send(type, login) == requests' = Append(requests, [type |-> type, login |-> login])

LoginError == step' = "idle" /\ busy' = FALSE

(* A mutant: one prompt is expected. *)
OnAuthMessageOnce(type) ==
    /\ IF step = "auth" /\ type = "asking"
       THEN Send("post", pending) /\ step' = "start" ELSE UNCHANGED <<requests, step>>
    /\ UNCHANGED <<busy, greeter>>

OnAuthMessage(type) ==
    /\ IF step = "auth" /\ type = "asking" THEN Send("post", pending) ELSE UNCHANGED requests
    /\ UNCHANGED <<busy, greeter, step>>

(* Any success is taken for the one that is waited for. *)
OnSuccess ==
    \/ step = "idle" /\ UNCHANGED <<busy, greeter, step, requests>>
    \/ /\ step = "auth" /\ step' = "start" /\ Send("start", pending)
       /\ UNCHANGED <<busy, greeter>>
    \/ /\ step = "auth" /\ LoginError /\ Send("cancel", 0)    \* no session broker
       /\ UNCHANGED greeter
    \/ /\ step = "start" /\ step' = "idle" /\ busy' = FALSE /\ greeter' = "leaving"
       /\ UNCHANGED requests

(* A mutant: the conversation is left to greetd. *)
OnErrorUncancelled == LoginError /\ UNCHANGED <<greeter, requests>>

OnError == LoginError /\ Send("cancel", 0) /\ UNCHANGED greeter

OnReadyRead ==
    /\ greeter # "gone" /\ replies # <<>> /\ replies' = Tail(replies)
    /\ LET type == Head(replies) IN
       \/ type \in {"asking", "told"} /\ OnAuthMessage(type)
       \/ type = "success" /\ OnSuccess
       \/ type = "error" /\ OnError
    /\ UNCHANGED <<pending, link, conv, pamVars, logins>>

Exit ==
    /\ greeter = "leaving" /\ greeter' = "gone"
    /\ UNCHANGED <<busy, greetdVars, pamVars, logins>>

-----------------------------------------------------------------------------
(* The greeter logs in through PAM: everything in one call *)

(* A mutant: m_sessionOpen is not reset. *)
CloseSessionStillOpen(h, o, p, running) ==
    /\ handle' = 0 /\ open' = o /\ proc' = 0
    /\ opened' = opened \ {h} /\ procs' = running \ {p} /\ UNCHANGED greeter

(* closeSession(), for whatever handle h and process p it has by now.  A    *)
(* process that still runs is ended, and used after the handler of its end *)
(* has deleted it: the greeter may not survive that.                       *)
CloseSession(h, o, p, running) ==
    /\ handle' = 0 /\ open' = FALSE /\ proc' = 0
    /\ opened' = IF o THEN opened \ {h} ELSE opened
    /\ procs' = running \ {p}
    /\ greeter' \in {greeter} \cup {"gone" : r \in running \cap {p}}

(* authenticate() ends an older handle without closing its session, and    *)
(* may refuse; or openSession() does; or launchSession() does, before it   *)
(* has a new process or after; or the session runs.                        *)
LoginViaPam(n) ==
    \/ UNCHANGED <<pamVars, greeter>>                         \* no session broker
    \/ /\ handle' \in {0, n} /\ open' = FALSE
       /\ UNCHANGED <<proc, active, opened, procs, greeter>>
    \/ \E p \in {proc, 0} :
          /\ CloseSession(n, TRUE, p, procs)
          /\ active' = (active /\ p \notin procs)
    \/ /\ handle' = n /\ open' = TRUE /\ opened' = opened \cup {n}
       /\ proc' = n /\ procs' = procs \cup {n} /\ active' = TRUE
       /\ UNCHANGED greeter

(* A session's process has ended, not always the one in m_proc. *)
OnProcessFinished(p) ==
    /\ greeter # "gone" /\ p \in procs
    /\ CloseSession(handle, open, proc, procs \ {p})
    /\ active' = FALSE
    /\ UNCHANGED <<busy, greetdVars, logins>>

-----------------------------------------------------------------------------

(* GreeterApp::login(): nothing is asked of a session that may be active.  *)
(* (Before the greeter exits, the password is cleared.)                    *)
Login(n) ==
    \/ /\ link = "up"
       /\ busy' = TRUE /\ step' = "auth" /\ pending' = n
       /\ Send("create", n)
       /\ UNCHANGED <<pamVars, greeter>>
    \/ /\ link # "up" /\ LoginViaPam(n)
       /\ UNCHANGED <<busy, step, pending, requests>>

Submit ==
    /\ greeter = "running" /\ ~busy /\ logins < MaxLogins
    /\ logins' = logins + 1
    /\ Login(logins')
    /\ UNCHANGED <<link, replies, conv>>

Next ==
    \/ Connect \/ GreetdAnswers \/ Disconnect
    \/ OnReadyRead \/ Exit \/ Submit
    \/ \E p \in Logins : OnProcessFinished(p)

(* greetd answers and the greeter's event loop runs. *)
Fairness == WF_vars(GreetdAnswers) /\ WF_vars(OnReadyRead) /\ WF_vars(Exit)

Spec == Init /\ [][Next]_vars /\ Fairness

-----------------------------------------------------------------------------

(* Types; the form is busy exactly as long as login() would refuse it, and *)
(* an open session of the handle there is has its process running, however *)
(* far a login through PAM came and whatever ended first.                  *)
TypeOK ==
    /\ busy \in BOOLEAN /\ greeter \in {"running", "leaving", "gone"}
    /\ step \in {"idle", "auth", "start"} /\ busy = (step # "idle")
    /\ pending \in 0..MaxLogins /\ link \in {"none", "connecting", "up"}
    /\ requests \in Seq(Message)
    /\ replies \in Seq({"asking", "told", "success", "error"})
    /\ conv \in [at : {"none", "asking", "told", "ready"}, login : 0..MaxLogins,
                 questions : 0..MaxQuestions]
    /\ handle \in 0..MaxLogins /\ open \in BOOLEAN /\ (open => handle \in procs \cap {proc})
    /\ proc \in 0..MaxLogins /\ active \in BOOLEAN
    /\ opened \subseteq Logins /\ procs \subseteq Logins /\ logins \in 0..MaxLogins

(* Although the greeter takes answers for those of its last request, what  *)
(* it sends meets the conversation it is meant for: no password is given   *)
(* in the conversation of another login, no session is started with the    *)
(* mode of another, and a new conversation finds none in its way.          *)
OwnConversation ==
    requests # <<>> =>
        LET m == Head(requests) IN
        /\ m.type = "create" => conv.at = "none"
        /\ m.type \in {"post", "start"} /\ conv.at # "none" => m.login = conv.login

(* A login comes to an end, in an error or in a session, unless greetd goes*)
(* away or sends a text and waits for it to be acknowledged, which the     *)
(* greeter never does.                                                     *)
LoginEnds ==
    step # "idle" ~> step = "idle" \/ greeter = "gone" \/ link # "up" \/ conv.at = "told"
=============================================================================
