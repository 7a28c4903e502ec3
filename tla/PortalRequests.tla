--------------------------- MODULE PortalRequests ---------------------------
(***************************************************************************)
(* portald's requests and sessions (PortalAccessMediator,                  *)
(* PortalRequestObject, PortalSessionObject and their managers), the       *)
(* permission policy and store they consult, and the consent the mediator  *)
(* asks of the shell through PortalDialogBridge (ConsentUi).               *)
(*                                                                         *)
(* A request is `once' (a one-shot method), `create' (a method that makes  *)
(* a session) or `use' (an operation on a session).  A session is named by *)
(* the request that created it.  All requests are one application's.       *)
(***************************************************************************)
EXTENDS ConsentUi

CONSTANTS Lasting,    \* the kinds whose grants may be stored (persistenceAllowed)
          MaxDeaths, MaxCloses, MaxChoosers     \* bounds of the model

Kinds == {"once", "create", "use"}

ASSUME LastingAssumption == Lasting \subseteq Kinds

VARIABLES call,      \* what each request asks
          state,     \* PortalRequestState, with "lost" for one that died with portald
          pending,   \* PortalDialogBridge::m_pending
          reply,     \* an answer of the shell that portald has not read yet
          session,   \* the session each request created
          stored,    \* the permissions table
          deaths, closes, choosers,             \* counters for the bounds
          asked,     \* the requests put to the user
          said,      \* what the user answered while the request's loop waited for it
          buried,    \* ... with another loop above that of the request
          gaveUp     \* portald stopped waiting for the shell's answer

portaldVars == <<call, state, pending, reply, session, stored>>
historyVars == <<asked, said, buried, gaveUp>>
counters == <<deaths, closes, choosers>>
vars == <<uiVars, portaldVars, historyVars, counters>>

Unused == [kind |-> "none", on |-> NoRequest]

(* What a stored permission is about: the capability, and for an operation *)
(* the session it is on (resourceId).                                      *)
Subject == {[kind |-> k, on |-> NoRequest] : k \in {"once", "create"}}
               \cup [kind : {"use"}, on : Requests]

Init ==
    /\ UiInit
    /\ call = [r \in Requests |-> Unused]
    /\ state = [r \in Requests |-> "unused"]
    /\ pending = {}
    /\ reply = [r \in Requests |-> NoAnswer]
    /\ session = [r \in Requests |-> "none"]
    /\ stored = [k \in Subject |-> "none"]
    /\ deaths = 0 /\ closes = 0 /\ choosers = 0
    /\ asked = {} /\ gaveUp = {} /\ buried = {}
    /\ said = [r \in Requests |-> NoAnswer]

----------------------------------------------------------------------------
(* The mediator *)

(* PolicyEngine::evaluate: a stored decision comes before the default of   *)
(* the capability and the caller's trust.                                  *)
Policy(k, p) == IF stored[k] = "none" THEN p \in {"allow", "deny", "ask"}
                                      ELSE p = stored[k]

Answered(r, response) == state' = [state EXCEPT ![r] = response]

(* The session of a `create' request that was allowed is active. *)
Opens(r, k) == session' = IF k.kind = "create" THEN [session EXCEPT ![r] = "active"]
                                               ELSE session

(* handlePortalRequest, handlePortalSessionRequest and                     *)
(* handlePortalSessionOperation up to the consent: the policy answers at   *)
(* once or the user is to be asked.  Without a shell the refusal           *)
(* (no-consent-ui-bridge) is queued.                                       *)
Ask(r, k) ==
    /\ state[r] = "unused"
    /\ k.kind = "use" => session[k.on] = "active"
    /\ call' = [call EXCEPT ![r] = k]
    /\ \E p \in {"allow", "deny", "ask"} :
        /\ Policy(k, p)
        /\ \/ p = "allow" /\ Answered(r, "allowed") /\ Opens(r, k)
              /\ UNCHANGED <<pending, reply, asked, inbox>>
           \/ p = "deny" /\ Answered(r, "denied")
              /\ UNCHANGED <<session, pending, reply, asked, inbox>>
           \/ /\ p = "ask"
              /\ Answered(r, "awaiting")
              /\ pending' = pending \cup {r}
              /\ asked' = asked \cup {r}
              /\ IF up THEN inbox' = Append(inbox, r) /\ UNCHANGED reply
                       ELSE reply' = [reply EXCEPT ![r] = "deny"] /\ UNCHANGED inbox
              /\ UNCHANGED session
    /\ UNCHANGED <<stored, up, loops, dialog, results, said, buried, gaveUp, counters>>

(* A mutant: every "always" is stored. *)
StoresEvery(k, a) == a = "allow_always"

(* shouldPersist; the dialog asks for it with allow_always only. *)
Stores(k, a) == k.kind \in Lasting /\ a = "allow_always"

(* What the request answers the application. *)
Response(a) == CASE a \in Allows     -> "allowed"
                 [] a = "cancelled" -> "cancelled"
                 [] OTHER            -> "denied"

(* A mutant: any answer is stored. *)
SaveAny(k, a) == stored' = [stored EXCEPT ![k] = IF a \in Allows THEN "allow" ELSE "deny"]

(* saveDecision *)
Save(k, a) == stored' = IF Stores(k, a) THEN [stored EXCEPT ![k] = "allow"] ELSE stored

(* What is left when portald's process ends: the table and the shell. *)
Emptied ==
    /\ state' = [r \in Requests |-> IF state[r] = "awaiting" THEN "lost" ELSE state[r]]
    /\ pending' = {}
    /\ reply' = [r \in Requests |-> NoAnswer]
    /\ session' = [r \in Requests |-> IF session[r] = "active" THEN "gone" ELSE session[r]]

(* The consent callback of an operation that is allowed writes the         *)
(* metadata of a session object it has kept a pointer to: if the session   *)
(* was closed meanwhile the object is deleted and the process may end.     *)
Dangles(r, a) == a \in Allows /\ call[r].kind = "use" /\ session[call[r].on] # "active"

(* submitConsent(r, a) and the callback.  A request that is completed is   *)
(* deleted, and the callback still has its pointer: it may see that it was *)
(* completed, go on as if it was not, or end the process.                  *)
Submit(r, a) ==
    \/ /\ state[r] = "awaiting"
       /\ pending' = pending \ {r}
       /\ Answered(r, Response(a))
       /\ Save(call[r], a)
       /\ IF a \in Allows THEN Opens(r, call[r]) ELSE UNCHANGED session
       /\ reply' = [reply EXCEPT ![r] = NoAnswer]
       /\ UNCHANGED call
    \/ /\ state[r] # "awaiting"
       /\ pending' = pending \ {r}
       /\ reply' = [reply EXCEPT ![r] = NoAnswer]
       /\ \/ UNCHANGED <<stored, session>>
          \/ Save(call[r], a) /\ IF a \in Allows THEN Opens(r, call[r]) ELSE UNCHANGED session
       /\ UNCHANGED <<call, state>>
    \/ /\ \/ Save(call[r], a) /\ (state[r] # "awaiting" \/ Dangles(r, a))
          \/ UNCHANGED stored /\ state[r] # "awaiting"
       /\ Emptied
       /\ UNCHANGED call

(* The watcher of the call has the shell's answer, or the queued refusal   *)
(* runs.                                                                   *)
Deliver(r) ==
    /\ r \in pending /\ reply[r] # NoAnswer
    /\ Submit(r, reply[r])
    /\ UNCHANGED <<uiVars, historyVars, counters>>

(* A mutant: an error of the call is not answered. *)
FailSilently(r) == pending' = pending \ {r} /\ UNCHANGED <<call, state, reply, session, stored>>

(* The error branch of the watcher: ui-consent-call-failed. *)
Fail(r) == Submit(r, "deny")

(* The call has been out for 190 s.  A loop answers after 180 s unless     *)
(* others lie above it or the shell was blocked before it read the call.   *)
CallTimesOut(r) ==
    /\ r \in pending /\ r \in Owed
    /\ Fail(r)
    /\ gaveUp' = gaveUp \cup {r}
    /\ UNCHANGED <<uiVars, asked, said, buried, counters>>

(* The application closes its request (Request.Close). *)
CloseRequest(r) ==
    /\ state[r] = "awaiting" /\ closes < MaxCloses
    /\ closes' = closes + 1
    /\ Answered(r, "cancelled")
    /\ UNCHANGED <<call, pending, reply, session, stored, uiVars, historyVars, deaths, choosers>>

(* A session ends: its application closes it or stops it (ScreencastStop,  *)
(* which the policy always allows), or the system revokes it.              *)
CloseSession(r) ==
    /\ session[r] = "active" /\ closes < MaxCloses
    /\ closes' = closes + 1
    /\ session' = [session EXCEPT ![r] = "gone"]
    /\ UNCHANGED <<call, state, pending, reply, stored, uiVars, historyVars, deaths, choosers>>

PortaldDies ==
    /\ deaths < MaxDeaths /\ deaths' = deaths + 1
    /\ Emptied
    /\ UNCHANGED <<call, stored, uiVars, historyVars, closes, choosers>>

----------------------------------------------------------------------------
(* The shell, with what portald hears of it *)

(* The answers of a turn reach portald unless it has stopped waiting. *)
Answering(verdicts) ==
    reply' = [r \in Requests |-> IF r \in DOMAIN verdicts /\ r \in pending
                                 THEN verdicts[r] ELSE reply[r]]

UserDecides(a) ==
    /\ Decide(a)
    /\ Answering(Verdicts(Quitting(dialog), Filed(dialog, a)))
    /\ said' = IF Serves(dialog) THEN [said EXCEPT ![dialog] = a] ELSE said
    /\ buried' = IF Serves(dialog) /\ loops[Len(loops)].req # dialog
                 THEN buried \cup {dialog} ELSE buried
    /\ UNCHANGED <<call, state, pending, session, stored, asked, gaveUp, counters>>

UserChooses ==
    /\ Choose
    /\ Answering(Verdicts(Quitting(Chooser), results))
    /\ UNCHANGED <<call, state, pending, session, stored, historyVars, counters>>

LoopTimesOut(i) ==
    /\ Ring(i)
    /\ Answering(Verdicts(Rung(i), results))
    /\ UNCHANGED <<call, state, pending, session, stored, historyVars, counters>>

ShellTakes == TakeCall /\ UNCHANGED <<portaldVars, historyVars, counters>>

ShellChooses ==
    /\ choosers < MaxChoosers /\ choosers' = choosers + 1
    /\ TakeChooser
    /\ UNCHANGED <<portaldVars, historyVars, deaths, closes>>

(* The bus answers the calls of a shell that has gone with an error. *)
ShellDies ==
    /\ deaths < MaxDeaths /\ deaths' = deaths + 1
    /\ ShellEnds
    /\ reply' = [r \in Requests |-> IF r \in Owed \cap pending THEN "deny" ELSE reply[r]]
    /\ UNCHANGED <<call, state, pending, session, stored, historyVars, closes, choosers>>

ShellRestarts == ShellStarts /\ UNCHANGED <<portaldVars, historyVars, counters>>

----------------------------------------------------------------------------

Next ==
    \/ \E r \in Requests : \/ \E k \in Subject : Ask(r, k)
                           \/ Deliver(r)
                           \/ CallTimesOut(r)
                           \/ CloseRequest(r)
                           \/ CloseSession(r)
    \/ PortaldDies
    \/ \E a \in Answers : UserDecides(a)
    \/ UserChooses
    \/ \E i \in 1..(Cardinality(Requests) + 1) : LoopTimesOut(i)
    \/ ShellTakes \/ ShellChooses \/ ShellDies \/ ShellRestarts

(* portald reads what reaches it and its timers run.  Nothing is assumed   *)
(* of the shell or of the user.                                            *)
Fairness == \A r \in Requests : WF_vars(Deliver(r)) /\ WF_vars(CallTimesOut(r))

Spec == Init /\ [][Next]_vars /\ Fairness

----------------------------------------------------------------------------
(* Properties *)

(* Types, and the shell never serves a request twice. *)
TypeOK ==
    /\ up \in BOOLEAN /\ inbox \in Seq(Requests)
    /\ loops \in Seq(Loop)
    /\ \A i, j \in DOMAIN loops : loops[i].req = loops[j].req => i = j
    /\ dialog \in Requests \cup {NoRequest}
    /\ results \in [Requests -> Answers \cup {NoAnswer}]
    /\ call \in [Requests -> Subject \cup {Unused}]
    /\ state \in [Requests -> {"unused", "awaiting", "allowed", "denied", "cancelled", "lost"}]
    /\ pending \subseteq Requests
    /\ reply \in [Requests -> Answers \cup {NoAnswer}]
    /\ session \in [Requests -> {"none", "active", "gone"}]
    /\ stored \in [Subject -> {"none", "allow"}]
    /\ said \in [Requests -> Answers \cup {NoAnswer}]

(* A request that was put to the user is allowed only if the user allowed  *)
(* it, in time and in the dialog of that request; and one the user allowed *)
(* is refused only if another loop lay above its own when the user spoke,  *)
(* or portald had stopped waiting.  Busy refusals, timeouts of either side *)
(* and deaths never turn into a grant (portaluibridge.cpp,                 *)
(* PortalDialogBridge.cpp).                                                *)
AnswerIsTheUsers ==
    \A r \in asked :
        /\ state[r] = "allowed" => said[r] \in Allows
        /\ state[r] = "denied" /\ said[r] \in Allows => r \in buried \cup gaveUp

(* What lasts was granted: an active session's request was allowed by the  *)
(* policy or by the user, and a stored permission goes back to an          *)
(* allow_always of the user for a capability that may be stored.           *)
GrantsAreTheUsers ==
    /\ \A r \in Requests : session[r] = "active" =>
            call[r].kind = "create" /\ (r \in asked => said[r] \in Allows)
    /\ \A k \in Subject : stored[k] # "none" =>
            \E r \in Requests : call[r] = k /\ said[r] = "allow_always" /\ k.kind \in Lasting

(* Whatever the shell and the user do, a request that waits for the user   *)
(* is answered in the end (or its portald is gone).                        *)
EveryAskIsAnswered ==
    \A r \in Requests : state[r] = "awaiting" ~> state[r] # "awaiting"
=============================================================================
