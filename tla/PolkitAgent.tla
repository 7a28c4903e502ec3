---------------------------- MODULE PolkitAgent ----------------------------
(***************************************************************************)
(* The polkit agent: PolkitAgentApp, AuthSession, AuthDialogController.    *)
(*                                                                         *)
(* The agent runs in two threads that take no lock.  libpolkit's listener  *)
(* (POLKIT_AGENT_REGISTER_FLAGS_RUN_IN_THREAD) begins and cancels requests *)
(* in a thread of its own and runs the helper sessions begun there; the Qt *)
(* main thread has the dialog, the timer, the queue's other end, and every *)
(* completion.  `stack' is what is left to do of the main thread's calls,  *)
(* the innermost first: polkit_agent_session_cancel() emits "completed"    *)
(* before it returns, so a completion runs inside a cancellation.          *)
(*                                                                         *)
(* What a request is answered is left out: polkitd goes by the helper.     *)
(***************************************************************************)
EXTENDS Naturals, Sequences

CONSTANTS Requests, NoRequest,
          MaxLocks     \* bound on how often the screen is locked

ASSUME RequestsAssumption == NoRequest \notin Requests
ASSUME MaxLocksAssumption == MaxLocks \in Nat

VARIABLES
    at,        \* listener: where in beginAuthenticationRequest it is
    stack,     \* main thread: the calls it is in
    posted,    \* main thread: what other threads have queued for it
    session,   \* m_authSession->m_session (m_active goes with it)
    helper,    \* the thread whose loop hears the helper of a request
    pending,   \* m_pendingTask, with its cancellable and handler
    hooked,    \* the requests whose cancellation is listened to
    queue,     \* m_requestQueue
    dialog,    \* the dialog's request while m_active
    timer,     \* m_requestTimeout.isActive()
    locked, locks,
    asked,     \* polkitd: the requests it has sent
    cancelled, \* ... and those it has cancelled
    answers    \* how often the task of each request was returned

shared == <<session, helper, pending, hooked, queue, dialog>>
world  == <<locked, locks, asked, cancelled>>
vars   == <<at, stack, posted, shared, timer, world, answers>>

Threads == {"listener", "main"}

(* A frame of the main thread, with the request it is for where there is one. *)
Frame == [do : {"complete", "cancel", "clear", "hide", "finish", "next", "attach", "pend"},
          for : Requests \cup {NoRequest}]

Do(what) == [do |-> what, for |-> NoRequest]

Idle == [do |-> "idle", for |-> NoRequest]

Init ==
    /\ at = Idle /\ stack = <<>> /\ posted = <<>>
    /\ session = NoRequest /\ helper = [r \in Requests |-> "none"]
    /\ pending = NoRequest /\ hooked = {} /\ queue = <<>> /\ dialog = NoRequest
    /\ timer = FALSE /\ locked = FALSE /\ locks = 0
    /\ asked = {} /\ cancelled = {} /\ answers = [r \in Requests |-> 0]

Answer(r) == answers' = [answers EXCEPT ![r] = @ + 1]

(* A mutant: the dialog stays. *)
RefusedShown(r) == dialog' = r /\ Answer(r)

(* start() refuses (session-already-active): endRequest() and an error. *)
Refused(r) == dialog' = NoRequest /\ Answer(r)

(* AuthSession::clearSession() of whatever session it has, after the       *)
(* helper of r has gone: the helper of a session that is dropped is killed.*)
ClearSession(r) ==
    /\ session' = NoRequest
    /\ helper' = [h \in Requests |-> IF h \in {r, session} THEN "none" ELSE helper[h]]

-----------------------------------------------------------------------------
(* The listener's thread *)

(* beginAuthenticationRequest up to the test for a session in              *)
(* AuthSession::start(): with a request pending this one is to be queued.  *)
Begin(r) ==
    /\ at = Idle /\ r \notin asked
    /\ asked' = asked \cup {r}
    /\ \/ /\ pending # NoRequest
          /\ at' = [do |-> "enqueue", for |-> r]
          /\ UNCHANGED <<dialog, answers>>
       \/ /\ pending = NoRequest /\ session = NoRequest
          /\ at' = [do |-> "attach", for |-> r]
          /\ dialog' = r /\ UNCHANGED answers
       \/ /\ pending = NoRequest /\ session # NoRequest
          /\ Refused(r) /\ UNCHANGED at
    /\ UNCHANGED <<stack, posted, session, helper, pending, hooked, queue, timer,
                   locked, locks, cancelled>>

Enqueue ==
    /\ at.do = "enqueue"
    /\ queue' = Append(queue, at.for) /\ at' = Idle
    /\ UNCHANGED <<stack, posted, session, helper, pending, hooked, dialog, timer, world, answers>>

Attach(r, thread) == session' = r /\ helper' = [helper EXCEPT ![r] = thread]

Pend(r) == pending' = r /\ hooked' = hooked \cup {r}

(* polkit_agent_session_initiate() cannot spawn the helper: "completed" is *)
(* emitted at once, and clears the session; start() returns true.          *)
SpawnFails == session' = NoRequest /\ UNCHANGED helper

ListenerAttaches ==
    /\ at.do = "attach" /\ at' = [at EXCEPT !.do = "pend"]
    /\ \/ Attach(at.for, "listener") /\ UNCHANGED posted
       \/ SpawnFails /\ posted' = Append(posted, "completed")
    /\ UNCHANGED <<stack, pending, hooked, queue, dialog, timer, world, answers>>

(* m_requestTimeout lives in the main thread: Qt does not start it here. *)
ListenerPends ==
    /\ at.do = "pend"
    /\ Pend(at.for) /\ at' = Idle
    /\ UNCHANGED <<stack, posted, session, helper, queue, dialog, timer, world, answers>>

(* polkitd cancels a request: onPendingCancelled queues its completion. *)
Cancel(r) ==
    /\ at = Idle /\ r \in asked \ cancelled /\ answers[r] = 0
    /\ cancelled' = cancelled \cup {r}
    /\ posted' = IF r \in hooked THEN Append(posted, "cancelled") ELSE posted
    /\ UNCHANGED <<at, stack, shared, timer, locked, locks, asked, answers>>

(* The helper of a session begun in this thread has ended: completed() is  *)
(* delivered to the main thread, without saying whose it is.               *)
HelperEndsHere(r) ==
    /\ at = Idle /\ helper[r] = "listener"
    /\ ClearSession(r)
    /\ posted' = Append(posted, "completed")
    /\ UNCHANGED <<at, stack, pending, hooked, queue, dialog, timer, world, answers>>

-----------------------------------------------------------------------------
(* The main thread: what its event loop calls *)

Calls(what, frames) == stack = <<>> /\ what /\ stack' = frames

TakePosted ==
    /\ Calls(posted # <<>>, <<Do("complete")>>)
    /\ posted' = Tail(posted)
    /\ dialog' = IF Head(posted) = "completed" THEN NoRequest ELSE dialog
    /\ UNCHANGED <<at, session, helper, pending, hooked, queue, timer, world, answers>>

HelperEnds(r) ==
    /\ Calls(helper[r] = "main", <<Do("complete")>>)
    /\ ClearSession(r) /\ dialog' = NoRequest
    /\ UNCHANGED <<at, posted, pending, hooked, queue, timer, world, answers>>

TimesOut ==
    /\ Calls(timer, <<Do("complete")>>)
    /\ timer' = FALSE
    /\ UNCHANGED <<at, posted, shared, world, answers>>

(* AuthDialogController::cancel() *)
UserCancels ==
    /\ Calls(dialog # NoRequest, <<Do("cancel"), Do("hide")>>)
    /\ UNCHANGED <<at, posted, shared, timer, world, answers>>

(* The signals of desktopd; the handlers do not look at m_sessionLocked. *)
SessionLocked ==
    /\ stack = <<>> /\ locks < MaxLocks
    /\ locked' = TRUE /\ locks' = locks + 1 /\ timer' = FALSE
    /\ UNCHANGED <<at, stack, posted, shared, asked, cancelled, answers>>

SessionUnlocked ==
    /\ stack = <<>>
    /\ locked' = FALSE /\ timer' = (timer \/ pending # NoRequest)
    /\ UNCHANGED <<at, stack, posted, shared, locks, asked, cancelled, answers>>

-----------------------------------------------------------------------------
(* The main thread: the calls it is in *)

In(what) == stack # <<>> /\ Head(stack).do = what

Goes(frames) == stack' = frames \o Tail(stack)

(* completeAuthenticationRequest: whatever is pending now. *)
Complete ==
    /\ In("complete")
    /\ \/ pending = NoRequest /\ Goes(<<>>) /\ UNCHANGED timer
       \/ /\ pending # NoRequest /\ timer' = FALSE
          /\ Goes(IF session = NoRequest THEN <<Do("finish")>>
                                         ELSE <<Do("cancel"), Do("finish")>>)
    /\ UNCHANGED <<at, posted, shared, world, answers>>

(* AuthSession::cancel: libpolkit emits "completed", which clears the      *)
(* session, hides the dialog and completes; then the rest of cancel().     *)
CancelSession ==
    /\ In("cancel")
    /\ \/ session = NoRequest /\ Goes(<<>>) /\ UNCHANGED <<session, helper, dialog>>
       \/ /\ session # NoRequest
          /\ ClearSession(session) /\ dialog' = NoRequest
          /\ Goes(<<Do("complete"), Do("clear")>>)
    /\ UNCHANGED <<at, posted, pending, hooked, queue, timer, world, answers>>

ClearAgain ==
    /\ In("clear") /\ Goes(<<>>)
    /\ ClearSession(session)
    /\ UNCHANGED <<at, posted, pending, hooked, queue, dialog, timer, world, answers>>

Hide ==
    /\ In("hide") /\ Goes(<<>>)
    /\ dialog' = NoRequest
    /\ UNCHANGED <<at, posted, session, helper, pending, hooked, queue, timer, world, answers>>

(* A mutant: the slot is not emptied before the next request is looked for. *)
FinishInPlace ==
    /\ In("finish") /\ Goes(<<Do("next")>>)
    /\ dialog' = NoRequest /\ hooked' = hooked \ {pending}
    /\ IF pending = NoRequest THEN UNCHANGED answers ELSE Answer(pending)
    /\ UNCHANGED <<at, posted, session, helper, pending, queue, timer, world>>

(* The rest of completeAuthenticationRequest: the task that is in the slot *)
(* now, which a completion inside cancel() may have emptied or filled.     *)
Finish ==
    /\ In("finish") /\ Goes(<<Do("next")>>)
    /\ dialog' = NoRequest /\ hooked' = hooked \ {pending} /\ pending' = NoRequest
    /\ IF pending = NoRequest THEN UNCHANGED answers ELSE Answer(pending)
    /\ UNCHANGED <<at, posted, session, helper, queue, timer, world>>

(* A mutant: head() instead of dequeue(). *)
Peeked == queue

Dequeued == Tail(queue)

(* processNextRequest up to the test for a session in start(). *)
ProcessNext ==
    /\ In("next")
    /\ \/ queue = <<>> /\ Goes(<<>>) /\ UNCHANGED <<queue, dialog, answers>>
       \/ /\ queue # <<>> /\ queue' = Dequeued
          /\ LET r == Head(queue) IN
             \/ /\ r \in cancelled
                /\ Answer(r) /\ UNCHANGED <<stack, dialog>>
             \/ /\ r \notin cancelled /\ session = NoRequest
                /\ dialog' = r /\ Goes(<<[do |-> "attach", for |-> r]>>) /\ UNCHANGED answers
             \/ /\ r \notin cancelled /\ session # NoRequest
                /\ Refused(r) /\ UNCHANGED stack
    /\ UNCHANGED <<at, posted, session, helper, pending, hooked, timer, world>>

(* A completion inside start() is over before the request is pending. *)
MainAttaches ==
    /\ In("attach")
    /\ LET begun == [Head(stack) EXCEPT !.do = "pend"] IN
       \/ Attach(begun.for, "main") /\ Goes(<<begun>>) /\ UNCHANGED dialog
       \/ SpawnFails /\ Goes(<<Do("complete"), begun>>) /\ dialog' = NoRequest
    /\ UNCHANGED <<at, posted, pending, hooked, queue, timer, world, answers>>

(* g_cancellable_connect calls back at once if it was cancelled meanwhile. *)
MainPends ==
    /\ In("pend") /\ Goes(<<>>)
    /\ Pend(Head(stack).for) /\ timer' = TRUE
    /\ posted' = IF Head(stack).for \in cancelled THEN Append(posted, "cancelled") ELSE posted
    /\ UNCHANGED <<at, session, helper, queue, dialog, world, answers>>

(* While both threads are inside, anything may be torn: the process may    *)
(* end, and polkitd fails what it had asked of it.                         *)
Torn ==
    /\ at # Idle /\ stack # <<>>
    /\ at' = Idle /\ stack' = <<>> /\ posted' = <<>>
    /\ session' = NoRequest /\ helper' = [r \in Requests |-> "none"]
    /\ pending' = NoRequest /\ hooked' = {} /\ queue' = <<>> /\ dialog' = NoRequest
    /\ timer' = FALSE
    /\ cancelled' = asked
    /\ UNCHANGED <<locked, locks, asked, answers>>

-----------------------------------------------------------------------------

ListenerStep == Enqueue \/ ListenerAttaches \/ ListenerPends

MainStep ==
    \/ TakePosted
    \/ Complete \/ CancelSession \/ ClearAgain \/ Hide
    \/ Finish \/ ProcessNext \/ MainAttaches \/ MainPends

Next ==
    \/ ListenerStep \/ MainStep
    \/ \E r \in Requests : Begin(r) \/ Cancel(r) \/ HelperEndsHere(r) \/ HelperEnds(r)
    \/ TimesOut \/ UserCancels \/ SessionLocked \/ SessionUnlocked
    \/ Torn

(* The threads go on, timers fire and the screen is unlocked in the end;   *)
(* nobody has to answer or to cancel anything.                             *)
Fairness ==
    /\ WF_vars(ListenerStep) /\ WF_vars(MainStep)
    /\ WF_vars(TimesOut) /\ WF_vars(locked /\ SessionUnlocked)

Spec == Init /\ [][Next]_vars /\ Fairness

-----------------------------------------------------------------------------

(* Types; a request is in the queue once, and not also in the slot. *)
TypeOK ==
    /\ at \in [do : {"idle", "enqueue", "attach", "pend"}, for : Requests \cup {NoRequest}]
    /\ stack \in Seq(Frame) /\ posted \in Seq({"cancelled", "completed"})
    /\ session \in Requests \cup {NoRequest} /\ helper \in [Requests -> Threads \cup {"none"}]
    /\ pending \in Requests \cup {NoRequest} /\ hooked \subseteq Requests
    /\ dialog \in Requests \cup {NoRequest}
    /\ queue \in Seq(Requests)
    /\ \A i \in DOMAIN queue : /\ queue[i] # pending
                               /\ \A j \in DOMAIN queue : queue[i] = queue[j] => i = j
    /\ timer \in BOOLEAN /\ locked \in BOOLEAN /\ locks \in 0..MaxLocks
    /\ asked \subseteq Requests /\ cancelled \subseteq asked
    /\ answers \in [Requests -> Nat]

(* No task is returned twice, although a completion runs inside the        *)
(* cancellation of another, late completions hit whatever is pending, and  *)
(* two threads may begin a request at the same time.                       *)
AnsweredOnce == \A r \in Requests : answers[r] <= 1

(* A dialog never asks for the password of a request that was answered.    *)
(* When both threads are at rest and nothing is posted, a request that has *)
(* no answer is pending, and the dialog is its own, unless the two threads *)
(* have begun a request each at the same time and the dialog is that of    *)
(* the one the other has displaced from the slot: it is still hooked.      *)
AskedForSomeone ==
    dialog # NoRequest =>
        /\ answers[dialog] = 0
        /\ at = Idle /\ stack = <<>> /\ posted = <<>> =>
              /\ pending # NoRequest /\ answers[pending] = 0
              /\ dialog = pending \/ {dialog, pending} \subseteq hooked

(* tests/polkit_agent_contract_test.cpp:176: "A pending auth request must  *)
(* time out if the user never answers."                                    *)
PendingTimesOut == \A r \in Requests : pending = r ~> pending # r
=============================================================================
