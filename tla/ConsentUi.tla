----------------------------- MODULE ConsentUi -----------------------------
(***************************************************************************)
(* The consent dialog of the shell: PortalUiBridge::ConsentRequest         *)
(* (portaluibridge.cpp) and the QML that shows the question                *)
(* (ShellServiceBridge.qml).  A call is served inside a nested event loop; *)
(* the loops lie on top of one another, so that a call which arrives while *)
(* another is served opens its loop above it, and a loop that was told to  *)
(* quit returns only when the ones above it have returned.  FileChooser    *)
(* waits in the same way and is modelled as one more loop.                 *)
(*                                                                         *)
(* A turn of the shell's event loop is a step: the slot or timer that ran  *)
(* and the return of every loop that can return after it.                  *)
(***************************************************************************)
EXTENDS Naturals, Sequences, FiniteSetsExt

CONSTANTS Requests, NoRequest, Chooser

ASSUME RequestsAssumption == NoRequest \notin Requests /\ Chooser \notin Requests

VARIABLES up,        \* org.slm.desktop.PortalUI has its name on the bus
          inbox,     \* ConsentRequest calls the shell has not read yet
          loops,     \* the nested loops, the innermost last
          dialog,    \* consentRequestPath while consentDialogVisible
          results    \* m_consentResults

uiVars == <<up, inbox, loops, dialog, results>>

Allows  == {"allow_once", "allow_always"}
Answers == Allows \cup {"deny", "cancelled"}
NoAnswer == "none"

(* quit: the loop was told to exit; completed: the local of that name;     *)
(* rang: its single-shot timer has fired.                                  *)
Loop == [req : Requests \cup {Chooser}, quit : BOOLEAN, completed : BOOLEAN, rang : BOOLEAN]

UiInit ==
    /\ up = TRUE
    /\ inbox = <<>>
    /\ loops = <<>>
    /\ dialog = NoRequest
    /\ results = [r \in Requests |-> NoAnswer]

Serves(r) == \E i \in DOMAIN loops : loops[i].req = r

(* The calls the shell has still to answer. *)
Owed == {r \in Requests : Serves(r) \/ \E i \in DOMAIN inbox : inbox[i] = r}

(* How many of the loops stay: those up to the innermost not told to quit. *)
Depth(stack) == Max({0} \cup {i \in DOMAIN stack : ~stack[i].quit})

Returning(stack) == {stack[i] : i \in (Depth(stack) + 1)..Len(stack)}

(* What a loop that returns answers: the result filed under its own        *)
(* request, or a refusal (consent-timeout) when it was not completed.      *)
Verdict(loop, filed) ==
    IF loop.completed /\ filed[loop.req] # NoAnswer THEN filed[loop.req] ELSE "deny"

(* The answers of a turn after which the loops are stack. *)
Verdicts(stack, filed) ==
    [r \in {l.req : l \in Returning(stack)} \cap Requests |->
        Verdict(CHOOSE l \in Returning(stack) : l.req = r, filed)]

(* The end of a turn: the loops that can return do.  An entry of the table *)
(* that no loop will take is left out: nothing reads it.                   *)
Unwind(stack, filed) ==
    /\ loops' = SubSeq(stack, 1, Depth(stack))
    /\ results' = [r \in Requests |->
                     IF \E i \in 1..Depth(stack) : stack[i].req = r THEN filed[r] ELSE NoAnswer]

Opened(r) == Append(loops, [req |-> r, quit |-> FALSE, completed |-> FALSE, rang |-> FALSE])

(* A ConsentRequest call is read.  With a question on the screen the QML   *)
(* refuses (consent-ui-busy) inside the emit, before exec(): the loop is   *)
(* entered all the same, and entering it forgets that it was told to quit. *)
TakeCall ==
    /\ up /\ inbox # <<>>
    /\ inbox' = Tail(inbox)
    /\ loops' = Opened(Head(inbox))
    /\ IF dialog = NoRequest
       THEN dialog' = Head(inbox) /\ UNCHANGED results
       ELSE results' = [results EXCEPT ![Head(inbox)] = "deny"] /\ UNCHANGED dialog
    /\ UNCHANGED up

(* A FileChooser call is read: one more loop, with a dialog of its own. *)
TakeChooser ==
    /\ up /\ ~\E i \in DOMAIN loops : loops[i].req = Chooser
    /\ loops' = Opened(Chooser)
    /\ UNCHANGED <<up, inbox, dialog, results>>

(* consentResultSubmitted(r): the loop of r, if it is still there, is told *)
(* to quit as completed.                                                   *)
Quitting(r) == [i \in DOMAIN loops |->
    IF loops[i].req = r THEN [loops[i] EXCEPT !.quit = TRUE, !.completed = TRUE]
                        ELSE loops[i]]

(* A mutant: the signal is emitted before the result is inserted. *)
FiledAfterwards(r, a) == results

(* The user's answer a as filed under r: submitConsentResult inserts it    *)
(* before it emits.                                                        *)
Filed(r, a) == [results EXCEPT ![r] = a]

(* The user answers the question on the screen, whether or not a loop      *)
(* still waits for it.                                                     *)
Decide(a) ==
    /\ dialog # NoRequest
    /\ Unwind(Quitting(dialog), Filed(dialog, a))
    /\ dialog' = NoRequest
    /\ UNCHANGED <<up, inbox>>

(* The user is done with the file chooser. *)
Choose ==
    /\ Serves(Chooser)
    /\ Unwind(Quitting(Chooser), results)
    /\ UNCHANGED <<up, inbox, dialog>>

(* The timer of loop i fires; those of the loops below it, which were      *)
(* started before it and run as long, have fired.  It takes back what the  *)
(* user said if the loop has not returned; the question stays on screen.   *)
Rung(i) == [loops EXCEPT ![i].quit = TRUE, ![i].completed = FALSE, ![i].rang = TRUE]

Ring(i) ==
    /\ i \in DOMAIN loops /\ ~loops[i].rang
    /\ \A j \in 1..(i - 1) : loops[j].rang
    /\ Unwind(Rung(i), results)
    /\ UNCHANGED <<up, inbox, dialog>>

(* The shell's process ends, and is started again. *)
ShellEnds ==
    /\ up
    /\ up' = FALSE /\ inbox' = <<>> /\ loops' = <<>> /\ dialog' = NoRequest
    /\ results' = [r \in Requests |-> NoAnswer]

ShellStarts == ~up /\ up' = TRUE /\ UNCHANGED <<inbox, loops, dialog, results>>
=============================================================================
