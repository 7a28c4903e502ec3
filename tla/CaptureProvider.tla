-------------------------- MODULE CaptureProvider --------------------------
(***************************************************************************)
(* The shell's input-capture provider                                      *)
(* (compositorinputcapturebackendservice.cpp): the table of sessions the   *)
(* compositor works for, the session it reports as active and the number   *)
(* it reports as enabled.  Each operator is one D-Bus method; the shell    *)
(* runs it to its end before it serves anything else.  `stuck' says that   *)
(* the caller required a compositor command (require_compositor_command)   *)
(* and neither the primitive nor the forwarded command was applied; `ok'   *)
(* is the method's answer.                                                 *)
(***************************************************************************)
EXTENDS Naturals, FiniteSets

CONSTANTS Sessions, NoSession

VARIABLES prov,     \* m_sessions: which paths have a record, and its flag
          active,   \* m_activeSession
          count     \* m_enabledSessionCount

provVars == <<prov, active, count>>

Record == [known : BOOLEAN, enabled : BOOLEAN]

NoRecord == [known |-> FALSE, enabled |-> FALSE]

(* The sessions a table has enabled. *)
Capturing(table) == {s \in Sessions : table[s].enabled}

(* first is what firstEnabledSessionKey() may return for the table. *)
FirstEnabled(table, first) ==
    IF Capturing(table) = {} THEN first = NoSession
                             ELSE first \in Capturing(table)

(* A mutant: the count is kept by steps. *)
SettleByStep(table, first) ==
    /\ prov' = table
    /\ active' = first
    /\ count' = IF first = NoSession THEN count - 1 ELSE count + 1

(* setActiveSession and setEnabledSessionCount(recompute...) after a change. *)
Settle(table, first) ==
    /\ prov' = table
    /\ active' = first
    /\ count' = Cardinality(Capturing(table))

(* A mutant: the session stays the active one. *)
PassOnStale(s, table) == Settle(table, active)

(* A session has left the table's enabled ones: another becomes active. *)
PassOn(s, table) ==
    \E first \in Sessions \cup {NoSession} :
        /\ IF active = s THEN FirstEnabled(table, first) ELSE first = active
        /\ Settle(table, first)

ProviderInit ==
    /\ prov = [s \in Sessions |-> NoRecord]
    /\ active = NoSession
    /\ count = 0

(* A record that exists keeps its flag. *)
CreateSession(s, ok) ==
    /\ ok
    /\ prov' = [prov EXCEPT ![s].known = TRUE]
    /\ UNCHANGED <<active, count>>

(* Barriers are data no property tells apart: only the answer is modelled. *)
SetPointerBarriers(s, stuck, ok) ==
    /\ ok = (prov[s].known /\ ~stuck)
    /\ UNCHANGED provVars

(* The session takes over from `other', the first other one that is        *)
(* enabled (NoSession: there is none).  Without its compositor command the *)
(* take-over is undone: the other one is enabled and active again.         *)
TakeOver(s, other, stuck, ok) ==
    LET taken == [t \in Sessions |->
                    CASE t = s     -> [known |-> TRUE, enabled |-> TRUE]
                      [] t = other -> [prov[t] EXCEPT !.enabled = FALSE]
                      [] OTHER     -> prov[t]]
        undone == [prov EXCEPT ![s].enabled = FALSE]
    IN  /\ ok = ~stuck
        /\ IF ~stuck
           THEN Settle(taken, s)
           ELSE \E first \in Sessions \cup {NoSession} :
                   /\ IF other # NoSession THEN first = other
                                           ELSE FirstEnabled(undone, first)
                   /\ Settle(undone, first)

(* EnableSession: missing-session, conflict-active-session, or taken over. *)
EnableSession(s, preempt, stuck, ok) ==
    LET others == Capturing(prov) \ {s} IN
    \/ /\ ~prov[s].known \/ (others # {} /\ ~preempt)
       /\ ~ok
       /\ UNCHANGED provVars
    \/ /\ prov[s].known /\ others = {}
       /\ TakeOver(s, NoSession, stuck, ok)
    \/ /\ prov[s].known /\ preempt
       /\ \E other \in others : TakeOver(s, other, stuck, ok)

(* Without its compositor command the session is enabled and active again. *)
DisableSession(s, stuck, ok) ==
    LET off == [prov EXCEPT ![s].enabled = FALSE] IN
    \/ ~prov[s].known /\ ~ok /\ UNCHANGED provVars
    \/ prov[s].known /\ ~stuck /\ ok /\ PassOn(s, off)
    \/ /\ prov[s].known /\ stuck /\ ~ok
       /\ IF prov[s].enabled THEN Settle(prov, s) ELSE PassOn(s, off)

(* A release always succeeds; only a known session changes anything. *)
ReleaseSession(s, ok) ==
    /\ ok
    /\ IF prov[s].known THEN PassOn(s, [prov EXCEPT ![s] = NoRecord])
                        ELSE UNCHANGED provVars
=============================================================================
