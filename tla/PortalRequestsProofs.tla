------------------------- MODULE PortalRequestsProofs -------------------------
(***************************************************************************)
(* portald's requests and the shell's consent dialog, for any set of       *)
(* requests, any choice of lasting capabilities and any number of deaths,  *)
(* of closes and of file choosers.                                         *)
(***************************************************************************)
EXTENDS PortalRequests, SequenceTheorems, WellFoundedInduction, TLAPS

\* A set of bounded numbers has a greatest one, and Max is it.
LEMMA MaxProperties ==
  ASSUME NEW n \in Nat, NEW S \in SUBSET (0..n), S # {}
  PROVE  Max(S) \in S /\ \A y \in S : Max(S) >= y
  <1>. DEFINE R == OpToRel(<, Nat)
              T == {m \in Nat : n - m \in S}
  <1>1. IsWellFoundedOn(R, Nat)
    BY NatLessThanWellFounded
  <1>2. T # {} /\ T \subseteq Nat
    <2>1. PICK x \in S : TRUE
      OBVIOUS
    <2>2. n - x \in Nat /\ n - (n - x) = x
      OBVIOUS
    <2>. QED BY <2>1, <2>2
  <1>3. \A x, y \in Nat : y < x => <<y, x>> \in R
    BY DEF OpToRel
  <1>. HIDE DEF R, T
  <1>4. PICK m \in T : \A k \in T : ~ (<<k, m>> \in R)
    BY <1>1, <1>2, WFMin
  <1>5. \A k \in T : k >= m
    <2>. SUFFICES ASSUME NEW k \in T PROVE k >= m
      OBVIOUS
    <2>1. k \in Nat /\ m \in Nat /\ ~(k < m)
      BY <1>2, <1>3, <1>4
    <2>. QED BY <2>1
  <1>6. \A y \in S : n - y \in T
    <2>1. \A y \in S : n - y \in Nat /\ n - (n - y) = y
      OBVIOUS
    <2>. QED BY <2>1 DEF T
  <1>7. n - m \in S /\ m \in Nat
    BY <1>4 DEF T
  <1>8. \A y \in S : n - m >= y
    BY <1>5, <1>6, <1>7
  <1>. QED BY <1>7, <1>8 DEF Max

-----------------------------------------------------------------------------
(* The nested loops *)

\* The loops that stay are the ones up to the innermost not told to quit.
LEMMA DepthProperties ==
  ASSUME NEW stack \in Seq(Loop)
  PROVE  /\ Depth(stack) \in 0..Len(stack) /\ Len(stack) \in Nat
         /\ \A i \in (Depth(stack) + 1)..Len(stack) : stack[i].quit
         /\ Depth(stack) # 0 => ~stack[Depth(stack)].quit
  <1>. DEFINE S == {0} \cup {i \in DOMAIN stack : ~stack[i].quit}
  <1>1. Len(stack) \in Nat /\ DOMAIN stack = 1..Len(stack)
    BY LenProperties
  <1>2. S \in SUBSET (0..Len(stack)) /\ S # {}
    BY <1>1
  <1>3. \A i \in 1..Len(stack) : ~stack[i].quit => i \in S
    BY <1>1
  <1>4. \A i \in S : i # 0 => ~stack[i].quit
    OBVIOUS
  <1>5. Depth(stack) = Max(S)
    BY DEF Depth
  <1>. HIDE DEF S
  <1>6. Depth(stack) \in S /\ \A i \in S : Depth(stack) >= i
    BY <1>1, <1>2, <1>5, MaxProperties
  <1>7. Depth(stack) \in 0..Len(stack)
    BY <1>2, <1>6
  <1>8. \A i \in (Depth(stack) + 1)..Len(stack) : stack[i].quit
    <2>. SUFFICES ASSUME NEW i \in (Depth(stack) + 1)..Len(stack), ~stack[i].quit PROVE FALSE
      OBVIOUS
    <2>1. i \in 1..Len(stack)
      BY <1>1, <1>7
    <2>2. Depth(stack) >= i
      BY Zenon, <1>3, <1>6, <2>1
    <2>. QED BY <1>1, <1>7, <2>1, <2>2
  <1>. QED BY <1>1, <1>4, <1>6, <1>7, <1>8

Distinct(stack) == \A i, j \in DOMAIN stack : stack[i].req = stack[j].req => i = j

\* stack is the loops of now, some of them told to quit.
Turned(stack) ==
    /\ stack \in Seq(Loop) /\ Len(stack) = Len(loops)
    /\ \A i \in 1..Len(loops) : stack[i].req = loops[i].req

LEMMA LoopsRange ==
  ASSUME NEW stack \in Seq(Loop)
  PROVE  /\ Len(stack) \in Nat /\ DOMAIN stack = 1..Len(stack)
         /\ \A i \in 1..Len(stack) : stack[i] \in Loop /\ stack[i].req \in Requests \cup {Chooser}
  <1>1. \A l \in Loop : l.req \in Requests \cup {Chooser}
    BY DEF Loop
  <1>2. \A i \in 1..Len(stack) : stack[i] \in Loop
    BY ElementOfSeq
  <1>. QED BY <1>1, <1>2, LenProperties

LEMMA QuittingTurned ==
  ASSUME loops \in Seq(Loop), NEW r
  PROVE  /\ Turned(Quitting(r))
         /\ \A i \in 1..Len(loops) : Quitting(r)[i] =
               IF loops[i].req = r THEN [loops[i] EXCEPT !.quit = TRUE, !.completed = TRUE]
                                   ELSE loops[i]
  <1>1. Len(loops) \in Nat /\ DOMAIN loops = 1..Len(loops) /\ \A i \in 1..Len(loops) : loops[i] \in Loop
    BY LoopsRange
  <1>2. \A l \in Loop : /\ [l EXCEPT !.quit = TRUE, !.completed = TRUE] \in Loop
                        /\ [l EXCEPT !.quit = TRUE, !.completed = TRUE].req = l.req
    BY DEF Loop
  <1>. DEFINE q == Quitting(r)
  <1>3. /\ q \in [1..Len(loops) -> Loop]
        /\ \A i \in 1..Len(loops) :
              q[i] = IF loops[i].req = r THEN [loops[i] EXCEPT !.quit = TRUE, !.completed = TRUE]
                                         ELSE loops[i]
    BY <1>1, <1>2 DEF Quitting
  <1>. HIDE DEF q
  <1>4. q \in Seq(Loop) /\ Len(q) = Len(loops)
    <2>1. q \in Seq(Loop)
      BY <1>1, <1>3, SeqDef
    <2>2. Len(q) \in Nat /\ 1..Len(q) = 1..Len(loops)
      BY <1>3, <2>1, LenProperties
    <2>. QED BY <1>1, <2>1, <2>2
  <1>. QED BY <1>2, <1>1, <1>3, <1>4 DEF Turned, q

LEMMA RungTurned ==
  ASSUME loops \in Seq(Loop), NEW i \in DOMAIN loops
  PROVE  /\ Turned(Rung(i))
         /\ \A j \in 1..Len(loops) : j # i => Rung(i)[j] = loops[j]
         /\ ~Rung(i)[i].completed
  <1>. DEFINE e == [loops[i] EXCEPT !.quit = TRUE, !.completed = FALSE, !.rang = TRUE]
  <1>1. Len(loops) \in Nat /\ DOMAIN loops = 1..Len(loops) /\ \A j \in 1..Len(loops) : loops[j] \in Loop
    BY LoopsRange
  <1>2. e \in Loop /\ e.req = loops[i].req /\ e.completed = FALSE
    BY <1>1 DEF Loop
  <1>3. Rung(i) = [loops EXCEPT ![i] = e]
    BY <1>1 DEF Rung, Loop
  <1>. HIDE DEF e
  <1>4. /\ Rung(i) \in Seq(Loop) /\ Len(Rung(i)) = Len(loops)
        /\ \A j \in 1..Len(loops) : Rung(i)[j] = IF j = i THEN e ELSE loops[j]
    BY <1>1, <1>2, <1>3, ExceptSeq
  <1>. QED BY <1>1, <1>2, <1>4 DEF Turned

\* The end of a turn: each loop stays with what is filed under its request,
\* or it answers, and nothing is filed under a request that no loop serves.
LEMMA TurnEnds ==
  ASSUME loops \in Seq(Loop), Distinct(loops), NEW stack, Turned(stack), NEW filed,
         Unwind(stack, filed), Answering(Verdicts(stack, filed))
  PROVE  /\ loops' \in Seq(Loop) /\ Distinct(loops') /\ Len(loops') = Depth(stack)
         /\ \A i \in DOMAIN loops' : i \in DOMAIN loops /\ loops'[i].req = loops[i].req
         /\ \A r \in Requests :
               /\ Serves(r)' => /\ Serves(r) /\ reply'[r] = reply[r] /\ results'[r] = filed[r]
               /\ ~Serves(r)' => results'[r] = NoAnswer
               /\ \/ reply'[r] = reply[r]
                  \/ /\ ~Serves(r)'
                     /\ \E i \in 1..Len(loops) :
                           loops[i].req = r /\ reply'[r] = Verdict(stack[i], filed)
  <1>. DEFINE n == Len(loops)
              d == Depth(stack)
  <1>1. /\ n \in Nat /\ DOMAIN loops = 1..n /\ d \in 0..n
        /\ stack \in Seq(Loop) /\ DOMAIN stack = 1..n /\ Len(stack) = n
        /\ \A i \in 1..n : stack[i] \in Loop /\ stack[i].req = loops[i].req
    BY LoopsRange, DepthProperties DEF Turned
  <1>2. /\ loops' \in Seq(Loop) /\ Len(loops') = d /\ DOMAIN loops' = 1..d
        /\ \A i \in 1..d : loops'[i] = stack[i]
    <2>1. loops' = SubSeq(stack, 1, d) /\ \A i \in 1..d : stack[i] \in Loop
      BY <1>1 DEF Unwind
    <2>. QED BY <1>1, <2>1, SubSeqProperties, LenProperties
  <1>3. \A i, j \in 1..n : loops[i].req = loops[j].req => i = j
    BY <1>1 DEF Distinct
  <1>4. Distinct(loops') /\ \A i \in 1..d : i \in 1..n /\ loops'[i].req = loops[i].req
    <2>1. \A i \in 1..d : i \in 1..n /\ loops'[i].req = loops[i].req
      BY <1>1, <1>2
    <2>2. ASSUME NEW i \in 1..d, NEW j \in 1..d, loops'[i].req = loops'[j].req PROVE i = j
      BY <1>3, <2>1, <2>2
    <2>. QED BY <1>2, <2>1, <2>2 DEF Distinct
  <1>5. \A r : /\ Serves(r) <=> \E i \in 1..n : loops[i].req = r
               /\ Serves(r)' <=> \E i \in 1..d : loops[i].req = r
    BY <1>1, <1>2, <1>4 DEF Serves
  <1>6. /\ results' = [r \in Requests |->
                         IF \E i \in 1..d : stack[i].req = r THEN filed[r] ELSE NoAnswer]
        /\ reply' = [r \in Requests |->
                       IF r \in DOMAIN Verdicts(stack, filed) /\ r \in pending
                       THEN Verdicts(stack, filed)[r] ELSE reply[r]]
    BY DEF Unwind, Answering
  <1>7. Returning(stack) = {stack[i] : i \in (d + 1)..n}
    BY <1>1 DEF Returning
  <1>. HIDE DEF d, n
  <1>8. ASSUME NEW r \in Requests, r \in DOMAIN Verdicts(stack, filed)
        PROVE  /\ ~Serves(r)'
               /\ \E i \in 1..n : loops[i].req = r /\ Verdicts(stack, filed)[r] = Verdict(stack[i], filed)
    <2>1. PICK i \in (d + 1)..n : stack[i].req = r
      BY <1>7, <1>8 DEF Verdicts
    <2>2. i \in 1..n /\ stack[i] \in Returning(stack)
      BY <1>1, <1>7, <2>1
    <2>3. \A l \in Returning(stack) : l.req = r => l = stack[i]
      BY <1>1, <1>3, <1>7, <2>1, <2>2
    <2>4. (CHOOSE l \in Returning(stack) : l.req = r) = stack[i]
      BY <2>1, <2>2, <2>3
    <2>5. Verdicts(stack, filed)[r] = Verdict(stack[i], filed)
      BY <1>8, <2>4 DEF Verdicts
    <2>6. ~Serves(r)'
      BY <1>1, <1>3, <1>5, <2>1, <2>2
    <2>. QED BY <1>1, <2>1, <2>2, <2>5, <2>6
  <1>9. \A r \in Requests : Serves(r)' => Serves(r) /\ results'[r] = filed[r]
    BY <1>1, <1>5, <1>6
  <1>10. \A r \in Requests : ~Serves(r)' => results'[r] = NoAnswer
    BY <1>1, <1>5, <1>6
  <1>11. ASSUME NEW r \in Requests
         PROVE  \/ reply'[r] = reply[r]
                \/ /\ ~Serves(r)'
                   /\ \E i \in 1..n : loops[i].req = r /\ reply'[r] = Verdict(stack[i], filed)
    BY <1>6, <1>8
  <1>12. \A r \in Requests : Serves(r)' => reply'[r] = reply[r]
    BY <1>11
  <1>. QED BY <1>1, <1>2, <1>4, <1>9, <1>10, <1>11, <1>12 DEF d, n

-----------------------------------------------------------------------------
(* Types, and what the shell still owes *)

MaybeAnswer == Answers \cup {NoAnswer}

RequestState == {"unused", "awaiting", "allowed", "denied", "cancelled", "lost"}

UiOK ==
    /\ up \in BOOLEAN /\ inbox \in Seq(Requests) /\ loops \in Seq(Loop)
    /\ dialog \in Requests \cup {NoRequest}
    /\ results \in [Requests -> MaybeAnswer]

PortaldOK ==
    /\ call \in [Requests -> Subject \cup {Unused}]
    /\ state \in [Requests -> RequestState]
    /\ pending \subseteq Requests
    /\ reply \in [Requests -> MaybeAnswer]
    /\ session \in [Requests -> {"none", "active", "gone"}]
    /\ stored \in [Subject -> {"none", "allow"}]

SaidOK == said \in [Requests -> MaybeAnswer]

(* A call is read once, and served once. *)
ShellInv ==
    /\ Distinct(loops)
    /\ \A i, j \in DOMAIN inbox : inbox[i] = inbox[j] => i = j
    /\ \A i \in DOMAIN inbox, j \in DOMAIN loops : inbox[i] # loops[j].req

(* What the shell owes was asked, and what was asked is not asked again. *)
AskedInv ==
    \A r \in Requests : /\ r \in Owed => r \in asked
                        /\ r \in asked => state[r] # "unused"

Types == UiOK /\ PortaldOK /\ SaidOK /\ ShellInv /\ AskedInv

LEMMA OwedIs ==
  /\ \A r \in Requests : r \in Owed <=> Serves(r) \/ \E i \in DOMAIN inbox : inbox[i] = r
  /\ \A r \in Requests : r \in Owed' <=> Serves(r)' \/ \E i \in DOMAIN inbox' : inbox'[i] = r
  BY DEF Owed

LEMMA ShellIdle ==
  ASSUME UNCHANGED <<inbox, loops>>
  PROVE  Owed' = Owed /\ (ShellInv => ShellInv')
  BY DEF Owed, Serves, ShellInv, Distinct

LEMMA InboxRange ==
  ASSUME UiOK
  PROVE  Len(inbox) \in Nat /\ DOMAIN inbox = 1..Len(inbox) /\ \A i \in 1..Len(inbox) : inbox[i] \in Requests
  BY LenProperties, ElementOfSeq DEF UiOK

\* A request that is put to the user is one more that the shell owes.
LEMMA AskShell ==
  ASSUME UiOK, ShellInv, NEW r \in Requests, r \notin Owed,
         inbox' = Append(inbox, r), loops' = loops
  PROVE  inbox' \in Seq(Requests) /\ ShellInv' /\ Owed' = Owed \cup {r}
  <1>. DEFINE n == Len(inbox)
  <1>1. /\ n \in Nat /\ DOMAIN inbox = 1..n /\ inbox' \in Seq(Requests) /\ DOMAIN inbox' = 1..(n + 1)
        /\ inbox'[n + 1] = r /\ \A i \in 1..n : inbox'[i] = inbox[i]
    BY InboxRange, AppendProperties, LenProperties DEF UiOK
  <1>2. \A i \in 1..n : inbox[i] # r
    BY <1>1 DEF Owed
  <1>3. \A j \in DOMAIN loops : loops[j].req # r
    BY DEF Owed, Serves
  <1>. HIDE DEF n
  <1>4. \A i, j \in DOMAIN inbox' : inbox'[i] = inbox'[j] => i = j
    BY <1>1, <1>2 DEF ShellInv
  <1>5. \A i \in DOMAIN inbox', j \in DOMAIN loops' : inbox'[i] # loops'[j].req
    BY <1>1, <1>3 DEF ShellInv
  <1>6. Serves(r)' = Serves(r) /\ \A q : Serves(q)' <=> Serves(q)
    BY DEF Serves
  <1>7. Owed' = Owed \cup {r}
    BY <1>1, <1>6 DEF Owed
  <1>. QED BY <1>1, <1>4, <1>5, <1>7 DEF ShellInv

LEMMA OpenedProperties ==
  ASSUME loops \in Seq(Loop), NEW r \in Requests \cup {Chooser}
  PROVE  /\ Opened(r) \in Seq(Loop) /\ Len(loops) \in Nat
         /\ DOMAIN loops = 1..Len(loops) /\ DOMAIN Opened(r) = 1..(Len(loops) + 1)
         /\ \A i \in 1..Len(loops) : Opened(r)[i] = loops[i]
         /\ Opened(r)[Len(loops) + 1].req = r
  <1>. DEFINE l == [req |-> r, quit |-> FALSE, completed |-> FALSE, rang |-> FALSE]
  <1>1. l \in Loop /\ l.req = r
    BY DEF Loop
  <1>2. Opened(r) = Append(loops, l)
    BY DEF Opened
  <1>. HIDE DEF l
  <1>. QED BY <1>1, <1>2, AppendProperties, LenProperties

\* A call is read: it is served instead of waiting.
LEMMA TakeCallShell ==
  ASSUME UiOK, ShellInv, TakeCall
  PROVE  UiOK' /\ ShellInv' /\ Owed' = Owed
  <1>. DEFINE n == Len(inbox)
              m == Len(loops)
              r == Head(inbox)
  <1>1. /\ n \in Nat \ {0} /\ DOMAIN inbox = 1..n /\ r = inbox[1] /\ r \in Requests
        /\ inbox' \in Seq(Requests) /\ DOMAIN inbox' = 1..(n - 1)
        /\ \A i \in 1..(n - 1) : inbox'[i] = inbox[i + 1]
    BY HeadTailProperties, LenProperties, EmptySeq DEF UiOK, TakeCall
  <1>2. /\ loops' \in Seq(Loop) /\ m \in Nat /\ DOMAIN loops = 1..m /\ DOMAIN loops' = 1..(m + 1)
        /\ loops'[m + 1].req = r /\ \A i \in 1..m : loops'[i] = loops[i]
    BY <1>1, OpenedProperties DEF UiOK, TakeCall
  <1>3. /\ \A i, j \in 1..n : inbox[i] = inbox[j] => i = j
        /\ \A i \in 1..n, j \in 1..m : inbox[i] # loops[j].req
        /\ \A i, j \in 1..m : loops[i].req = loops[j].req => i = j
    BY <1>1, <1>2 DEF ShellInv, Distinct
  <1>4. UiOK'
    <2>1. results' \in [Requests -> MaybeAnswer] /\ dialog' \in Requests \cup {NoRequest}
      BY <1>1 DEF TakeCall, UiOK, MaybeAnswer, Answers
    <2>. QED BY <1>1, <1>2, <2>1 DEF TakeCall, UiOK
  <1>. HIDE DEF n, m, r
  <1>5. 1 \in 1..n /\ \A i \in 1..(n - 1) : i + 1 \in 1..n /\ i + 1 # 1
    BY <1>1
  <1>6. \A j \in 1..m : loops[j].req # r
    BY <1>1, <1>3, <1>5
  <1>7. \A i, j \in 1..(m + 1) : loops'[i].req = loops'[j].req => i = j
    BY <1>2, <1>3, <1>6
  <1>8. \A i \in 1..(n - 1) : inbox'[i] # r
    BY <1>1, <1>3, <1>5
  <1>9. \A i \in 1..(n - 1), j \in 1..(m + 1) : inbox'[i] # loops'[j].req
    BY <1>1, <1>2, <1>3, <1>5, <1>8
  <1>10. ASSUME NEW i \in 1..(n - 1), NEW j \in 1..(n - 1), inbox'[i] = inbox'[j]
         PROVE  i = j
    <2>1. i + 1 = j + 1
      BY <1>1, <1>3, <1>5, <1>10
    <2>. QED BY <2>1
  <1>11. ShellInv'
    BY <1>1, <1>2, <1>7, <1>9, <1>10 DEF ShellInv, Distinct
  <1>12. \A q : Serves(q)' <=> Serves(q) \/ q = r
    <2>1. \A i \in 1..m : i \in 1..(m + 1)
      BY <1>2
    <2>2. m + 1 \in 1..(m + 1) /\ \A i \in 1..(m + 1) : i \in 1..m \/ i = m + 1
      BY <1>2
    <2>. QED BY <1>2, <2>1, <2>2 DEF Serves
  <1>13. \A q : (\E i \in 1..n : inbox[i] = q) <=> (\E i \in 1..(n - 1) : inbox'[i] = q) \/ q = r
    <2>1. \A i \in 1..n : i = 1 \/ (i - 1 \in 1..(n - 1) /\ (i - 1) + 1 = i)
      BY <1>1
    <2>. QED BY <1>1, <1>5, <2>1
  <1>14. Owed' = Owed
    BY <1>1, <1>12, <1>13 DEF Owed
  <1>. QED BY <1>4, <1>11, <1>14

\* One more loop, for a file chooser.
LEMMA TakeChooserShell ==
  ASSUME UiOK, ShellInv, TakeChooser
  PROVE  UiOK' /\ ShellInv' /\ Owed' = Owed
  <1>. DEFINE m == Len(loops)
  <1>1. /\ loops' \in Seq(Loop) /\ m \in Nat /\ DOMAIN loops = 1..m /\ DOMAIN loops' = 1..(m + 1)
        /\ loops'[m + 1].req = Chooser /\ \A i \in 1..m : loops'[i] = loops[i]
    BY OpenedProperties DEF UiOK, TakeChooser
  <1>2. UiOK'
    BY <1>1 DEF TakeChooser, UiOK
  <1>. HIDE DEF m
  <1>3. \A i \in 1..m : i \in 1..(m + 1)
    BY <1>1
  <1>4. m + 1 \in 1..(m + 1) /\ \A i \in 1..(m + 1) : i \in 1..m \/ i = m + 1
    BY <1>1
  <1>5. \A j \in 1..m : loops[j].req # Chooser
    BY <1>1 DEF TakeChooser
  <1>6. Distinct(loops')
    BY <1>1, <1>4, <1>5 DEF ShellInv, Distinct
  <1>7. \A i \in DOMAIN inbox : inbox[i] # Chooser
    BY InboxRange, RequestsAssumption
  <1>8. \A i \in DOMAIN inbox', j \in DOMAIN loops' : inbox'[i] # loops'[j].req
    BY <1>1, <1>4, <1>7 DEF ShellInv, TakeChooser
  <1>9. \A q \in Requests : Serves(q)' <=> Serves(q)
    BY <1>1, <1>3, <1>4, RequestsAssumption DEF Serves
  <1>10. Owed' = Owed
    BY <1>9 DEF Owed, TakeChooser
  <1>. QED BY <1>2, <1>6, <1>8, <1>10 DEF ShellInv, TakeChooser

\* After a turn the shell owes what it still serves or has not read.
LEMMA TurnShell ==
  ASSUME UiOK, ShellInv, reply \in [Requests -> MaybeAnswer],
         NEW stack, Turned(stack), NEW filed \in [Requests -> MaybeAnswer],
         Unwind(stack, filed), Answering(Verdicts(stack, filed)), inbox' = inbox,
         up' = up, dialog' \in {dialog, NoRequest}
  PROVE  /\ UiOK' /\ ShellInv' /\ reply' \in [Requests -> MaybeAnswer]
         /\ \A r \in Requests :
               /\ r \in Owed' => r \in Owed /\ reply'[r] = reply[r]
               /\ results'[r] # NoAnswer => Serves(r) /\ results'[r] = filed[r]
               /\ \/ reply'[r] = reply[r]
                  \/ /\ r \in Owed
                     /\ \E i \in 1..Len(loops) :
                           loops[i].req = r /\ reply'[r] = Verdict(stack[i], filed)
  <1>1. loops \in Seq(Loop) /\ Distinct(loops)
    BY DEF UiOK, ShellInv
  <1>2. /\ loops' \in Seq(Loop) /\ Distinct(loops')
        /\ \A i \in DOMAIN loops' : i \in DOMAIN loops /\ loops'[i].req = loops[i].req
        /\ \A r \in Requests :
               /\ Serves(r)' => /\ Serves(r) /\ reply'[r] = reply[r] /\ results'[r] = filed[r]
               /\ ~Serves(r)' => results'[r] = NoAnswer
               /\ \/ reply'[r] = reply[r]
                  \/ /\ ~Serves(r)'
                     /\ \E i \in 1..Len(loops) :
                           loops[i].req = r /\ reply'[r] = Verdict(stack[i], filed)
    BY <1>1, TurnEnds
  <1>3. ShellInv'
    BY <1>2 DEF ShellInv
  <1>4. Len(loops) \in Nat /\ DOMAIN loops = 1..Len(loops) /\ Len(stack) = Len(loops)
        /\ \A i \in 1..Len(loops) : stack[i].req = loops[i].req
    BY <1>1, LoopsRange DEF Turned
  <1>5. ASSUME NEW r \in Requests, NEW i \in 1..Len(loops), loops[i].req = r
        PROVE  Serves(r) /\ Verdict(stack[i], filed) \in MaybeAnswer
    BY <1>4, <1>5 DEF Serves, Verdict, MaybeAnswer, Answers
  <1>6. /\ results' \in [Requests -> MaybeAnswer]
        /\ reply' = [r \in Requests |-> reply'[r]]
    <2>1. NoAnswer \in MaybeAnswer
      BY DEF MaybeAnswer
    <2>. QED BY <2>1 DEF Unwind, Answering
  <1>7. \A r \in Requests : reply'[r] \in MaybeAnswer
    BY <1>2, <1>5
  <1>8. reply' \in [Requests -> MaybeAnswer]
    BY <1>6, <1>7
  <1>9. UiOK'
    BY <1>2, <1>6, RequestsAssumption DEF UiOK
  <1>10. ASSUME NEW r \in Requests, \E i \in DOMAIN inbox : inbox[i] = r
         PROVE  ~Serves(r)
    BY <1>10 DEF ShellInv, Serves
  <1>11. ASSUME NEW r \in Requests
         PROVE  /\ r \in Owed' => r \in Owed /\ reply'[r] = reply[r]
                /\ results'[r] # NoAnswer => Serves(r) /\ results'[r] = filed[r]
                /\ \/ reply'[r] = reply[r]
                   \/ /\ r \in Owed
                      /\ \E i \in 1..Len(loops) :
                            loops[i].req = r /\ reply'[r] = Verdict(stack[i], filed)
    <2>1. r \in Owed' => r \in Owed /\ reply'[r] = reply[r]
      BY <1>2, <1>5, <1>10, OwedIs
    <2>2. results'[r] # NoAnswer => Serves(r) /\ results'[r] = filed[r]
      BY <1>2
    <2>3. \/ reply'[r] = reply[r]
          \/ /\ r \in Owed
             /\ \E i \in 1..Len(loops) :
                   loops[i].req = r /\ reply'[r] = Verdict(stack[i], filed)
      BY <1>2, <1>5, OwedIs
    <2>. QED BY <2>1, <2>2, <2>3
  <1>. QED BY <1>3, <1>8, <1>9, <1>11

LEMMA TypesInit == Init => Types
  <1>. SUFFICES ASSUME Init PROVE Types
    OBVIOUS
  <1>1. UiOK
    <2>1. inbox \in Seq(Requests) /\ loops \in Seq(Loop) /\ dialog \in Requests \cup {NoRequest}
      BY EmptySeq DEF Init, UiInit
    <2>2. results \in [Requests -> MaybeAnswer]
      BY DEF Init, UiInit, MaybeAnswer
    <2>3. up \in BOOLEAN
      BY Zenon DEF Init, UiInit
    <2>. QED BY <2>1, <2>2, <2>3 DEF UiOK
  <1>2. PortaldOK
    BY DEF Init, PortaldOK, MaybeAnswer, RequestState
  <1>3. SaidOK
    BY DEF Init, SaidOK, MaybeAnswer
  <1>4. ShellInv
    BY DEF Init, UiInit, ShellInv, Distinct
  <1>5. AskedInv
    BY DEF Init, UiInit, AskedInv, Owed, Serves
  <1>. QED BY <1>1, <1>2, <1>3, <1>4, <1>5 DEF Types

LEMMA ResponseIs ==
  ASSUME NEW a \in Answers
  PROVE  /\ a \in Allows => Response(a) = "allowed"
         /\ a = "cancelled" => Response(a) = "cancelled"
         /\ a = "deny" => Response(a) = "denied"
         /\ a \in Allows \/ a = "cancelled" \/ a = "deny"
  BY DEF Response, Answers, Allows

LEMMA ShellStays ==
  ASSUME Types, UNCHANGED uiVars
  PROVE  UiOK' /\ ShellInv' /\ Owed' = Owed
  <1>1. inbox' = inbox /\ loops' = loops
    BY DEF uiVars
  <1>2. UiOK'
    BY DEF Types, UiOK, uiVars
  <1>. QED BY <1>1, <1>2, ShellIdle DEF Types

\* What one or all of portald's records become.
LEMMA Updates ==
  ASSUME PortaldOK, NEW r \in Requests
  PROVE  /\ \A x \in RequestState : Answered(r, x) => state' \in [Requests -> RequestState]
         /\ \A k : Opens(r, k) => session' \in [Requests -> {"none", "active", "gone"}]
         /\ \A k, a : Save(k, a) => stored' \in [Subject -> {"none", "allow"}]
  <1>1. \A x \in RequestState : Answered(r, x) => state' \in [Requests -> RequestState]
    BY DEF PortaldOK, Answered
  <1>2. \A k : Opens(r, k) => session' \in [Requests -> {"none", "active", "gone"}]
    BY DEF PortaldOK, Opens
  <1>3. \A k, a : Save(k, a) => stored' \in [Subject -> {"none", "allow"}]
    BY DEF PortaldOK, Save
  <1>. QED BY <1>1, <1>2, <1>3

LEMMA EmptiedTypes ==
  ASSUME PortaldOK, Emptied
  PROVE  /\ state' \in [Requests -> RequestState] /\ pending' \subseteq Requests
         /\ reply' \in [Requests -> MaybeAnswer]
         /\ session' \in [Requests -> {"none", "active", "gone"}]
         /\ \A r \in Requests : state'[r] = "unused" => state[r] = "unused"
  BY DEF PortaldOK, Emptied, RequestState, MaybeAnswer

LEMMA SubmitTypes ==
  ASSUME Types, NEW r \in Requests, NEW a \in Answers, Submit(r, a)
  PROVE  PortaldOK' /\ \A q \in Requests : state'[q] = "unused" => state[q] = "unused"
  <1>. USE DEF Types
  <1>1. Response(a) \in RequestState \ {"unused"}
    BY ResponseIs DEF RequestState
  <1>2. [reply EXCEPT ![r] = NoAnswer] \in [Requests -> MaybeAnswer] /\ pending \ {r} \subseteq Requests
    BY DEF PortaldOK, MaybeAnswer
  <1>3. CASE /\ state[r] = "awaiting"
             /\ pending' = pending \ {r}
             /\ Answered(r, Response(a))
             /\ Save(call[r], a)
             /\ IF a \in Allows THEN Opens(r, call[r]) ELSE UNCHANGED session
             /\ reply' = [reply EXCEPT ![r] = NoAnswer]
             /\ UNCHANGED call
    <2>1. state' \in [Requests -> RequestState] /\ stored' \in [Subject -> {"none", "allow"}]
          /\ session' \in [Requests -> {"none", "active", "gone"}]
      BY <1>1, <1>3, Updates DEF PortaldOK
    <2>2. \A q \in Requests : state'[q] = "unused" => state[q] = "unused"
      BY <1>1, <1>3 DEF Answered, PortaldOK
    <2>. QED BY <1>2, <1>3, <2>1, <2>2 DEF PortaldOK
  <1>4. CASE /\ state[r] # "awaiting"
             /\ pending' = pending \ {r}
             /\ reply' = [reply EXCEPT ![r] = NoAnswer]
             /\ \/ UNCHANGED <<stored, session>>
                \/ Save(call[r], a) /\ IF a \in Allows THEN Opens(r, call[r]) ELSE UNCHANGED session
             /\ UNCHANGED <<call, state>>
    <2>1. stored' \in [Subject -> {"none", "allow"}] /\ session' \in [Requests -> {"none", "active", "gone"}]
      BY <1>4, Updates DEF PortaldOK
    <2>. QED BY <1>2, <1>4, <2>1 DEF PortaldOK
  <1>5. CASE /\ \/ Save(call[r], a) /\ (state[r] # "awaiting" \/ Dangles(r, a))
                \/ UNCHANGED stored /\ state[r] # "awaiting"
             /\ Emptied
             /\ UNCHANGED call
    <2>1. stored' \in [Subject -> {"none", "allow"}]
      BY <1>5, Updates DEF PortaldOK
    <2>. QED BY <1>5, <2>1, EmptiedTypes DEF PortaldOK
  <1>. QED BY <1>3, <1>4, <1>5 DEF Submit

LEMMA AskTypes ==
  ASSUME Types, NEW r \in Requests, NEW k \in Subject, Ask(r, k)
  PROVE  Types' /\ (r \notin asked) /\ (Owed' = Owed \/ (Owed' = Owed \cup {r} /\ r \in asked'))
  <1>. USE DEF Types
  <1>1. /\ r \notin asked /\ r \notin Owed /\ state[r] = "unused"
        /\ loops' = loops /\ up' = up /\ dialog' = dialog /\ results' = results /\ said' = said
        /\ stored' = stored
    BY DEF Ask, AskedInv
  <1>2. call' \in [Requests -> Subject \cup {Unused}] /\ pending' \subseteq Requests
        /\ session' \in [Requests -> {"none", "active", "gone"}]
    BY Updates DEF Ask, PortaldOK
  <1>3. /\ state' \in [Requests -> RequestState]
        /\ \A q \in Requests : q # r => state'[q] = state[q]
        /\ state'[r] # "unused"
    BY DEF Ask, Answered, PortaldOK, RequestState
  <1>4. reply' \in [Requests -> MaybeAnswer]
    BY DEF Ask, PortaldOK, MaybeAnswer, Answers
  <1>5. SaidOK' /\ PortaldOK'
    BY <1>1, <1>2, <1>3, <1>4 DEF PortaldOK, SaidOK
  <1>6. CASE inbox' = inbox /\ asked' \in {asked, asked \cup {r}}
    <2>1. Owed' = Owed /\ ShellInv'
      BY <1>1, <1>6, ShellIdle
    <2>2. AskedInv' /\ UiOK'
      BY <1>1, <1>3, <1>6, <2>1 DEF AskedInv, UiOK
    <2>. QED BY <1>1, <1>5, <2>1, <2>2
  <1>7. CASE inbox' = Append(inbox, r) /\ asked' = asked \cup {r}
    <2>1. inbox' \in Seq(Requests) /\ ShellInv' /\ Owed' = Owed \cup {r}
      BY <1>1, <1>7, AskShell
    <2>2. AskedInv' /\ UiOK'
      BY <1>1, <1>3, <1>7, <2>1 DEF AskedInv, UiOK
    <2>. QED BY <1>1, <1>5, <1>7, <2>1, <2>2
  <1>. QED BY <1>6, <1>7 DEF Ask

\* The steps of portald after which the shell is as it was.
LEMMA PortaldTypes ==
  ASSUME Types,
         \/ PortaldDies
         \/ \E r \in Requests : Deliver(r) \/ CallTimesOut(r) \/ CloseRequest(r) \/ CloseSession(r)
  PROVE  Types' /\ Owed' = Owed
  <1>. USE DEF Types
  <1>1. UNCHANGED uiVars /\ asked' = asked /\ said' = said
    BY DEF Deliver, CallTimesOut, CloseRequest, CloseSession, PortaldDies, historyVars
  <1>2. UiOK' /\ ShellInv' /\ Owed' = Owed
    BY <1>1, ShellStays
  <1>3. PortaldOK' /\ \A q \in Requests : state'[q] = "unused" => state[q] = "unused"
    <2>1. ASSUME NEW r \in Requests, Deliver(r) \/ CallTimesOut(r)
          PROVE  PortaldOK' /\ \A q \in Requests : state'[q] = "unused" => state[q] = "unused"
      <3>1. \E a \in Answers : Submit(r, a)
        BY <2>1 DEF Deliver, CallTimesOut, Fail, PortaldOK, MaybeAnswer, Answers
      <3>. QED BY <3>1, SubmitTypes
    <2>2. ASSUME NEW r \in Requests, CloseRequest(r)
          PROVE  PortaldOK' /\ \A q \in Requests : state'[q] = "unused" => state[q] = "unused"
      <3>1. "cancelled" \in RequestState
        BY DEF RequestState
      <3>. QED BY <2>2, <3>1, Updates DEF CloseRequest, PortaldOK, Answered
    <2>3. ASSUME NEW r \in Requests, CloseSession(r)
          PROVE  PortaldOK' /\ \A q \in Requests : state'[q] = "unused" => state[q] = "unused"
      BY <2>3 DEF CloseSession, PortaldOK
    <2>4. CASE PortaldDies
      BY <2>4, EmptiedTypes DEF PortaldDies, PortaldOK
    <2>. QED BY <2>1, <2>2, <2>3, <2>4
  <1>4. AskedInv'
    BY <1>1, <1>2, <1>3 DEF AskedInv, PortaldOK
  <1>5. SaidOK'
    BY <1>1 DEF SaidOK
  <1>. QED BY <1>2, <1>3, <1>4, <1>5

\* The turn in which the user answers.
LEMMA DecideTurn ==
  ASSUME Types, NEW a \in Answers, UserDecides(a)
  PROVE  /\ dialog \in Requests /\ Turned(Quitting(dialog))
         /\ Filed(dialog, a) \in [Requests -> MaybeAnswer]
         /\ Unwind(Quitting(dialog), Filed(dialog, a))
         /\ Answering(Verdicts(Quitting(dialog), Filed(dialog, a)))
         /\ inbox' = inbox /\ up' = up /\ dialog' = NoRequest
         /\ UNCHANGED <<call, state, pending, session, stored, asked, gaveUp>>
  <1>1. dialog \in Requests /\ loops \in Seq(Loop) /\ results \in [Requests -> MaybeAnswer]
    BY DEF Types, UiOK, UserDecides, Decide
  <1>2. Turned(Quitting(dialog))
    BY <1>1, QuittingTurned
  <1>3. Filed(dialog, a) \in [Requests -> MaybeAnswer]
    BY <1>1 DEF Filed, MaybeAnswer
  <1>. QED BY <1>1, <1>2, <1>3 DEF UserDecides, Decide

\* A turn in which the user does not answer.
LEMMA OtherTurn ==
  ASSUME Types, UserChooses \/ \E i \in 1..(Cardinality(Requests) + 1) : LoopTimesOut(i)
  PROVE  \E stack : /\ Turned(stack)
                    /\ \/ stack = Quitting(Chooser)
                       \/ \E i \in DOMAIN loops : stack = Rung(i)
                    /\ Unwind(stack, results)
                    /\ Answering(Verdicts(stack, results))
                    /\ inbox' = inbox /\ up' = up /\ dialog' = dialog
                    /\ UNCHANGED <<call, state, pending, session, stored, historyVars>>
  <1>1. loops \in Seq(Loop)
    BY DEF Types, UiOK
  <1>2. CASE UserChooses
    <2>1. Turned(Quitting(Chooser))
      BY <1>1, QuittingTurned
    <2>. QED BY <1>2, <2>1 DEF UserChooses, Choose
  <1>3. CASE \E i \in 1..(Cardinality(Requests) + 1) : LoopTimesOut(i)
    <2>1. PICK i : LoopTimesOut(i)
      BY <1>3
    <2>2. i \in DOMAIN loops
      BY <2>1 DEF LoopTimesOut, Ring
    <2>3. Turned(Rung(i))
      BY <1>1, <2>2, RungTurned
    <2>. QED BY <2>1, <2>2, <2>3 DEF LoopTimesOut, Ring
  <1>. QED BY <1>2, <1>3

LEMMA TurnTypes ==
  ASSUME Types,
         \/ \E a \in Answers : UserDecides(a)
         \/ UserChooses
         \/ \E i \in 1..(Cardinality(Requests) + 1) : LoopTimesOut(i)
  PROVE  Types'
  <1>. USE DEF Types
  <1>1. /\ UiOK' /\ ShellInv' /\ reply' \in [Requests -> MaybeAnswer]
        /\ \A r \in Requests : r \in Owed' => r \in Owed
        /\ UNCHANGED <<call, state, pending, session, stored, asked>>
    <2>1. reply \in [Requests -> MaybeAnswer] /\ results \in [Requests -> MaybeAnswer]
      BY DEF PortaldOK, UiOK
    <2>2. CASE \E a \in Answers : UserDecides(a)
      <3>1. PICK a \in Answers : UserDecides(a)
        BY <2>2
      <3>. QED BY <2>1, <3>1, DecideTurn, TurnShell
    <2>3. CASE UserChooses \/ \E i \in 1..(Cardinality(Requests) + 1) : LoopTimesOut(i)
      <3>1. PICK stack : /\ Turned(stack)
                         /\ Unwind(stack, results)
                         /\ Answering(Verdicts(stack, results))
                         /\ inbox' = inbox /\ up' = up /\ dialog' = dialog
                         /\ UNCHANGED <<call, state, pending, session, stored, historyVars>>
        BY <2>3, OtherTurn
      <3>2. asked' = asked
        BY <3>1 DEF historyVars
      <3>. QED BY <2>1, <3>1, <3>2, TurnShell
    <2>. QED BY <2>2, <2>3
  <1>2. SaidOK'
    <2>1. CASE \E a \in Answers : UserDecides(a)
      <3>1. PICK a \in Answers : UserDecides(a)
        BY <2>1
      <3>2. a \in MaybeAnswer
        BY DEF MaybeAnswer
      <3>. QED BY <3>1, <3>2 DEF UserDecides, SaidOK
    <2>2. CASE said' = said
      BY <2>2 DEF SaidOK
    <2>. QED BY <2>1, <2>2, OtherTurn DEF historyVars
  <1>3. PortaldOK' /\ AskedInv'
    BY <1>1 DEF PortaldOK, AskedInv
  <1>. QED BY <1>1, <1>2, <1>3

\* The shell reads a call, ends or starts.
LEMMA ShellTypes ==
  ASSUME Types, ShellTakes \/ ShellChooses \/ ShellDies \/ ShellRestarts
  PROVE  Types' /\ Owed' \in {Owed, {}}
  <1>. USE DEF Types
  <1>1. asked' = asked /\ said' = said /\ state' = state
    BY DEF ShellTakes, ShellChooses, ShellDies, ShellRestarts, portaldVars, historyVars
  <1>2. CASE ShellTakes \/ ShellChooses
    <2>1. UiOK' /\ ShellInv' /\ Owed' = Owed
      BY <1>2, TakeCallShell, TakeChooserShell DEF ShellTakes, ShellChooses
    <2>2. PortaldOK' /\ SaidOK'
      BY <1>1, <1>2 DEF ShellTakes, ShellChooses, portaldVars, PortaldOK, SaidOK
    <2>. QED BY <1>1, <2>1, <2>2 DEF AskedInv
  <1>3. CASE ShellDies
    <2>1. /\ inbox' = <<>> /\ loops' = <<>> /\ dialog' = NoRequest
          /\ results' = [r \in Requests |-> NoAnswer] /\ up' = FALSE
      BY <1>3 DEF ShellDies, ShellEnds
    <2>2. inbox' \in Seq(Requests) /\ loops' \in Seq(Loop) /\ results' \in [Requests -> MaybeAnswer]
      BY <2>1, EmptySeq DEF MaybeAnswer
    <2>3. Owed' = {} /\ ShellInv'
      BY <2>1 DEF Owed, Serves, ShellInv, Distinct
    <2>4. up' \in BOOLEAN /\ dialog' \in Requests \cup {NoRequest}
      BY <2>1
    <2>5. PortaldOK'
      BY <1>3 DEF ShellDies, PortaldOK, MaybeAnswer, Answers
    <2>. QED BY <1>1, <2>2, <2>3, <2>4, <2>5 DEF UiOK, SaidOK, AskedInv
  <1>4. CASE ShellRestarts
    <2>1. inbox' = inbox /\ loops' = loops /\ dialog' = dialog /\ results' = results /\ up' = TRUE
      BY <1>4 DEF ShellRestarts, ShellStarts
    <2>2. Owed' = Owed /\ ShellInv'
      BY <2>1, ShellIdle
    <2>3. PortaldOK'
      BY <1>4 DEF ShellRestarts, portaldVars, PortaldOK
    <2>4. up' \in BOOLEAN
      BY <2>1
    <2>5. UiOK'
      BY <2>1, <2>4 DEF UiOK
    <2>. QED BY <1>1, <2>2, <2>3, <2>5 DEF SaidOK, AskedInv
  <1>. QED BY <1>2, <1>3, <1>4

LEMMA TypesNext == Types /\ [Next]_vars => Types'
  <1>. SUFFICES ASSUME Types, [Next]_vars PROVE Types'
    OBVIOUS
  <1>1. CASE UNCHANGED vars
    <2>1. UNCHANGED uiVars /\ UNCHANGED portaldVars /\ UNCHANGED historyVars
      BY <1>1 DEF vars
    <2>2. UiOK' /\ ShellInv' /\ Owed' = Owed
      BY <2>1, ShellStays
    <2>. QED BY <2>1, <2>2 DEF portaldVars, historyVars, Types, PortaldOK, SaidOK, AskedInv
  <1>2. CASE Next
    BY <1>2, AskTypes, PortaldTypes, TurnTypes, ShellTypes DEF Next
  <1>. QED BY <1>1, <1>2

LEMMA TypesHold == Spec => []Types
  BY TypesInit, TypesNext, PTL DEF Spec

\* The types, and the shell never has two loops for one request although it
\* serves calls inside calls.
THEOREM TypeCorrect == Spec => []TypeOK
  <1>1. Types => TypeOK
    BY DEF Types, UiOK, PortaldOK, SaidOK, ShellInv, Distinct, TypeOK, MaybeAnswer, RequestState
  <1>. QED BY <1>1, TypesHold, PTL

-----------------------------------------------------------------------------
(* Whose answers they are *)

(* Of a request that the shell still owes an answer nothing has been heard:*)
(* it is not granted, and if the user has spoken, another loop lay above.  *)
OwedInv ==
    \A r \in Requests : r \in Owed =>
        /\ reply[r] = NoAnswer /\ state[r] # "allowed" /\ session[r] # "active"
        /\ (said[r] # NoAnswer => r \in buried)
        /\ (state[r] = "denied" => r \in gaveUp)

FreshInv ==
    \A r \in Requests : r \notin asked => said[r] = NoAnswer /\ reply[r] = NoAnswer /\ r \notin pending

(* A grant on its way, in the table or in the bus, is the user's; a refusal*)
(* of what the user allowed has come of a loop above, or too late.         *)
SaysInv ==
    \A r \in Requests :
        /\ results[r] \in Allows => said[r] = results[r]
        /\ reply[r] \in Allows => said[r] = reply[r]
        /\ reply[r] = "deny" /\ said[r] \in Allows => r \in buried \cup gaveUp

SessionInv ==
    \A r \in Requests : session[r] = "active" =>
        /\ state[r] # "unused" /\ call[r].kind = "create"
        /\ (r \in asked => said[r] \in Allows)

(* The request behind a stored permission has been answered for good. *)
StoredInv ==
    \A k \in Subject : stored[k] # "none" =>
        \E r \in Requests : /\ r \in asked /\ r \notin Owed
                            /\ call[r] = k /\ said[r] = "allow_always" /\ k.kind \in Lasting

AnswerInv ==
    \A r \in Requests : r \in asked =>
        /\ (state[r] = "allowed" => said[r] \in Allows)
        /\ (state[r] = "denied" /\ said[r] \in Allows => r \in buried \cup gaveUp)

Ledger == OwedInv /\ FreshInv /\ SaysInv /\ SessionInv /\ StoredInv /\ AnswerInv

LEMMA LedgerInit == Init => Ledger
  <1>. SUFFICES ASSUME Init PROVE Ledger
    OBVIOUS
  <1>1. \A r \in Requests : /\ state[r] = "unused" /\ reply[r] = NoAnswer /\ session[r] = "none"
                            /\ said[r] = NoAnswer /\ results[r] = NoAnswer
    BY DEF Init, UiInit
  <1>2. asked = {} /\ pending = {} /\ \A k \in Subject : stored[k] = "none"
    BY DEF Init
  <1>3. NoAnswer \notin Allows /\ NoAnswer # "deny"
    BY DEF NoAnswer, Allows
  <1>. QED BY <1>1, <1>2, <1>3
           DEF Ledger, OwedInv, FreshInv, SaysInv, SessionInv, StoredInv, AnswerInv

\* A step that hears nothing new: what is owed, under way, active or stored
\* was so before, and nothing is forgotten.
LEMMA LedgerStays ==
  ASSUME Types, Ledger,
         \A r \in Requests : r \in Owed' => r \in Owed,
         UNCHANGED <<call, stored, said, asked>>,
         buried \subseteq buried', gaveUp \subseteq gaveUp',
         pending' \subseteq pending,
         \A r \in Requests :
            /\ state'[r] = state[r] \/ (state[r] # "unused" /\ state'[r] \in {"lost", "cancelled"})
            /\ session'[r] = "active" => session[r] = "active"
            /\ reply'[r] \in {reply[r], NoAnswer}
            /\ results'[r] \in {results[r], NoAnswer, "deny"}
  PROVE  Ledger'
  <1>1. NoAnswer \notin Allows /\ NoAnswer # "deny" /\ "deny" \notin Allows
    BY DEF NoAnswer, Allows
  <1>2. OwedInv'
    BY DEF Ledger, OwedInv
  <1>3. FreshInv'
    BY DEF Ledger, FreshInv
  <1>4. SaysInv'
    BY <1>1 DEF Ledger, SaysInv
  <1>5. SessionInv'
    BY DEF Ledger, SessionInv
  <1>6. StoredInv'
    BY DEF Ledger, StoredInv
  <1>7. AnswerInv'
    BY DEF Ledger, AnswerInv
  <1>. QED BY <1>2, <1>3, <1>4, <1>5, <1>6, <1>7 DEF Ledger

\* Asking: the policy's own answer is not the user's.
LEMMA AskLedger ==
  ASSUME Types, Ledger, NEW r \in Requests, NEW k \in Subject, Ask(r, k)
  PROVE  Ledger'
  <1>1. /\ r \notin asked /\ (Owed' = Owed \/ (Owed' = Owed \cup {r} /\ r \in asked'))
        /\ r \notin Owed /\ state[r] = "unused"
    BY AskTypes DEF Types, AskedInv, Ask
  <1>2. /\ UNCHANGED <<results, stored, said, buried, gaveUp>>
        /\ pending' \subseteq pending \cup {r} /\ asked' \in {asked, asked \cup {r}}
        /\ \A q \in Requests : q # r => /\ state'[q] = state[q] /\ session'[q] = session[q]
                                        /\ call'[q] = call[q] /\ reply'[q] = reply[q]
        /\ call'[r] = k
    BY DEF Ask, Answered, Opens, Types, PortaldOK
  <1>3. /\ said[r] = NoAnswer /\ reply[r] = NoAnswer /\ results[r] \notin Allows /\ session[r] # "active"
        /\ r \notin pending
    <2>1. NoAnswer \notin Allows
      BY DEF NoAnswer, Allows
    <2>. QED BY <1>1, <2>1 DEF Ledger, FreshInv, SaysInv, SessionInv
  <1>4. \/ /\ asked' = asked \cup {r} /\ state'[r] = "awaiting" /\ session'[r] # "active"
           /\ (reply'[r] = reply[r] \/ (reply'[r] = "deny" /\ Owed' = Owed))
        \/ /\ asked' = asked /\ reply'[r] = reply[r] /\ state'[r] # "unused" /\ pending' = pending
           /\ session'[r] = "active" => k.kind = "create"
           /\ Owed' = Owed
    <2>1. /\ state' = [state EXCEPT ![r] = state'[r]] /\ state \in [Requests -> RequestState]
          /\ session \in [Requests -> {"none", "active", "gone"}] /\ reply \in [Requests -> MaybeAnswer]
      BY DEF Ask, Answered, Types, PortaldOK
    <2>2. CASE state'[r] = "awaiting" /\ asked' = asked \cup {r} /\ session' = session /\ reply' = reply
      BY <1>3, <2>2
    <2>3. CASE /\ state'[r] = "awaiting" /\ asked' = asked \cup {r} /\ session' = session
               /\ reply' = [reply EXCEPT ![r] = "deny"] /\ inbox' = inbox
      <3>1. Owed' = Owed
        BY <2>3, ShellIdle DEF Ask
      <3>. QED BY <1>3, <2>1, <2>3, <3>1
    <2>4. CASE asked' = asked /\ inbox' = inbox /\ reply' = reply /\ pending' = pending
      <3>1. Owed' = Owed
        BY <2>4, ShellIdle DEF Ask
      <3>2. state'[r] # "unused"
        BY <2>1, <2>4 DEF Ask, Answered
      <3>3. session'[r] = "active" => k.kind = "create"
        BY <1>3, <2>1 DEF Ask, Opens
      <3>. QED BY <2>4, <3>1, <3>2, <3>3
    <2>. QED BY <2>1, <2>2, <2>3, <2>4 DEF Ask, Answered
  <1>5. NoAnswer \notin Allows /\ NoAnswer # "deny" /\ "deny" \notin Allows
    BY DEF NoAnswer, Allows
  <1>6. OwedInv'
    BY <1>1, <1>2, <1>3, <1>4 DEF Ledger, OwedInv
  <1>7. FreshInv'
    BY <1>1, <1>2, <1>3, <1>4 DEF Ledger, FreshInv
  <1>8. SaysInv'
    BY <1>2, <1>3, <1>4, <1>5 DEF Ledger, SaysInv
  <1>9. SessionInv'
    BY <1>1, <1>2, <1>4 DEF Ledger, SessionInv
  <1>10. StoredInv'
    <2>. SUFFICES ASSUME NEW h \in Subject, stored[h] # "none"
                  PROVE  \E q \in Requests : /\ q \in asked' /\ q \notin Owed'
                                             /\ call'[q] = h /\ said[q] = "allow_always" /\ h.kind \in Lasting
      BY <1>2 DEF StoredInv
    <2>1. PICK q \in Requests : /\ q \in asked /\ q \notin Owed
                                /\ call[q] = h /\ said[q] = "allow_always" /\ h.kind \in Lasting
      BY DEF Ledger, StoredInv
    <2>2. q # r
      BY <1>1, <2>1
    <2>. QED BY <1>1, <1>2, <2>1, <2>2
  <1>11. AnswerInv'
    BY <1>1, <1>2, <1>3, <1>4, <1>5 DEF Ledger, AnswerInv
  <1>. QED BY <1>6, <1>7, <1>8, <1>9, <1>10, <1>11 DEF Ledger

\* An answer is taken: a grant is the user's and the shell owes nothing more,
\* and a refusal has its reason.
LEMMA SubmitLedger ==
  ASSUME Types, Ledger, NEW r \in Requests, NEW a \in Answers, Submit(r, a), r \in asked,
         Owed' = Owed, UNCHANGED <<asked, said, buried, results>>, gaveUp \subseteq gaveUp',
         a \in Allows => said[r] = a /\ r \notin Owed,
         a = "deny" /\ said[r] \in Allows => r \in buried \cup gaveUp',
         a = "deny" /\ r \in Owed => r \in gaveUp',
         a = "cancelled" => r \notin Owed
  PROVE  Ledger'
  <1>0. /\ NoAnswer \notin Allows /\ NoAnswer # "deny" /\ "deny" \notin Allows
        /\ "cancelled" \notin Allows /\ (a \in Allows \/ a = "cancelled" \/ a = "deny")
    BY DEF NoAnswer, Allows, Answers
  <1>1. /\ call' = call /\ pending' \subseteq pending
        /\ \A q \in Requests : reply'[q] \in {reply[q], NoAnswer}
    BY DEF Submit, Emptied, Types, PortaldOK
  <1>2. \A q \in Requests : \/ state'[q] = state[q]
                            \/ state[q] # "unused" /\ state'[q] \in {"lost", "cancelled"}
                            \/ /\ q = r /\ state[r] # "unused" /\ a # "cancelled"
                               /\ state'[q] = IF a \in Allows THEN "allowed" ELSE "denied"
    BY ResponseIs DEF Submit, Answered, Emptied, Types, PortaldOK
  <1>3. \A q \in Requests : session'[q] = "active" => \/ session[q] = "active"
                                                      \/ q = r /\ a \in Allows /\ call[r].kind = "create"
    BY DEF Submit, Opens, Emptied, Types, PortaldOK
  <1>4. stored' = stored \/ Save(call[r], a)
    BY DEF Submit
  <1>5. OwedInv'
    BY <1>0, <1>1, <1>2, <1>3 DEF Ledger, OwedInv
  <1>6. FreshInv'
    BY <1>1 DEF Ledger, FreshInv
  <1>7. SaysInv'
    BY <1>0, <1>1 DEF Ledger, SaysInv
  <1>8. SessionInv'
    <2>1. \A q \in Requests : state[q] # "unused" => state'[q] # "unused"
      BY <1>2
    <2>2. state[r] # "unused"
      BY DEF Types, AskedInv
    <2>. QED BY <1>1, <1>3, <2>1, <2>2 DEF Ledger, SessionInv
  <1>9. StoredInv'
    <2>1. CASE stored' = stored
      BY <1>1, <2>1 DEF Ledger, StoredInv
    <2>2. CASE Save(call[r], a) /\ ~Stores(call[r], a)
      BY <1>1, <2>2 DEF Save, Ledger, StoredInv
    <2>3. CASE Save(call[r], a) /\ Stores(call[r], a)
      <3>1. a = "allow_always" /\ said[r] = "allow_always" /\ r \notin Owed /\ call[r].kind \in Lasting
        BY <2>3 DEF Stores, Allows
      <3>2. \A h \in Subject : stored'[h] # "none" => h = call[r] \/ stored[h] # "none"
        BY <2>3 DEF Save, Types, PortaldOK
      <3>. QED BY <1>1, <3>1, <3>2 DEF Ledger, StoredInv
    <2>. QED BY <1>4, <2>1, <2>2, <2>3
  <1>10. AnswerInv'
    BY <1>0, <1>1, <1>2 DEF Ledger, AnswerInv
  <1>. QED BY <1>5, <1>6, <1>7, <1>8, <1>9, <1>10 DEF Ledger

LEMMA PortaldLedger ==
  ASSUME Types, Ledger,
         \/ PortaldDies
         \/ \E r \in Requests : Deliver(r) \/ CallTimesOut(r) \/ CloseRequest(r) \/ CloseSession(r)
  PROVE  Ledger'
  <1>1. Owed' = Owed
    BY PortaldTypes
  <1>2. asked' = asked /\ said' = said /\ buried' = buried /\ results' = results /\ gaveUp \subseteq gaveUp'
    BY DEF Deliver, CallTimesOut, CloseRequest, CloseSession, PortaldDies, historyVars, uiVars
  <1>3. ASSUME NEW r \in Requests, Deliver(r)
        PROVE  Ledger'
    <2>1. reply[r] \in Answers /\ reply[r] # NoAnswer /\ Submit(r, reply[r])
      BY <1>3 DEF Deliver, Types, PortaldOK, MaybeAnswer
    <2>2. r \in asked /\ r \notin Owed
      BY <1>3, <2>1 DEF Deliver, Ledger, FreshInv, OwedInv
    <2>3. /\ reply[r] \in Allows => said[r] = reply[r]
          /\ reply[r] = "deny" /\ said[r] \in Allows => r \in buried \cup gaveUp'
      BY <1>2 DEF Ledger, SaysInv
    <2>. QED BY <1>1, <1>2, <2>1, <2>2, <2>3, SubmitLedger
  <1>4. ASSUME NEW r \in Requests, CallTimesOut(r)
        PROVE  Ledger'
    <2>1. Submit(r, "deny") /\ r \in Owed /\ r \in asked /\ r \in gaveUp'
      BY <1>4 DEF CallTimesOut, Fail, Types, AskedInv
    <2>2. "deny" \in Answers /\ "deny" \notin Allows
      BY DEF Answers, Allows
    <2>. QED BY <1>1, <1>2, <2>1, <2>2, SubmitLedger
  <1>5. CASE PortaldDies
    <2>1. \A r \in Requests : /\ state'[r] = state[r] \/ (state[r] # "unused" /\ state'[r] = "lost")
                              /\ session'[r] = "active" => session[r] = "active"
                              /\ reply'[r] = NoAnswer
      BY <1>5 DEF PortaldDies, Emptied
    <2>. QED BY <1>1, <1>2, <1>5, <2>1, LedgerStays DEF PortaldDies, Emptied
  <1>6. ASSUME NEW r \in Requests, CloseRequest(r) \/ CloseSession(r)
        PROVE  Ledger'
    <2>1. \A q \in Requests : /\ state'[q] = state[q] \/ (state[q] # "unused" /\ state'[q] = "cancelled")
                              /\ session'[q] = "active" => session[q] = "active"
      BY <1>6 DEF CloseRequest, CloseSession, Answered, Types, PortaldOK
    <2>. QED BY <1>1, <1>2, <1>6, <2>1, LedgerStays DEF CloseRequest, CloseSession
  <1>. QED BY <1>3, <1>4, <1>5, <1>6

\* The loop that answers says what is filed under its request, or it refuses.
LEMMA VerdictIs ==
  ASSUME NEW l, NEW filed, NEW r, l.req = r
  PROVE  /\ Verdict(l, filed) \in {filed[r], "deny"}
         /\ l.completed = TRUE /\ filed[r] # NoAnswer => Verdict(l, filed) = filed[r]
  BY DEF Verdict

\* A loop that is told to quit stays only if another lies above it.
LEMMA InnermostReturns ==
  ASSUME Types, NEW a \in Answers, UserDecides(a), Serves(dialog),
         loops[Len(loops)].req = dialog
  PROVE  dialog \notin Owed'
  <1>. DEFINE stack == Quitting(dialog)
              n == Len(loops)
  <1>1. /\ dialog \in Requests /\ Turned(stack) /\ Unwind(stack, Filed(dialog, a))
        /\ Answering(Verdicts(stack, Filed(dialog, a))) /\ inbox' = inbox
    BY DecideTurn
  <1>2. /\ loops \in Seq(Loop) /\ Distinct(loops) /\ stack \in Seq(Loop) /\ Len(stack) = n
        /\ \A i \in DOMAIN inbox, j \in DOMAIN loops : inbox[i] # loops[j].req
    BY <1>1 DEF Types, UiOK, ShellInv, Turned
  <1>3. n \in Nat /\ DOMAIN loops = 1..n
    BY <1>2, LoopsRange
  <1>4. n # 0 /\ n \in 1..n
    BY <1>3 DEF Serves
  <1>5. stack[n].quit
    <2>1. stack[n] = [loops[n] EXCEPT !.quit = TRUE, !.completed = TRUE] /\ loops[n] \in Loop
      BY <1>2, <1>4, QuittingTurned, LoopsRange
    <2>. QED BY <2>1 DEF Loop
  <1>6. Depth(stack) \in 0..(n - 1)
    BY <1>2, <1>3, <1>4, <1>5, DepthProperties
  <1>7. /\ loops' \in Seq(Loop) /\ Len(loops') = Depth(stack)
        /\ \A i \in DOMAIN loops' : i \in DOMAIN loops /\ loops'[i].req = loops[i].req
    BY <1>1, <1>2, TurnEnds
  <1>8. DOMAIN loops' = 1..Depth(stack)
    BY <1>7, LenProperties
  <1>9. \A i \in DOMAIN loops' : loops'[i].req # dialog
    <2>. SUFFICES ASSUME NEW i \in DOMAIN loops', loops[i].req = dialog PROVE FALSE
      BY <1>7
    <2>1. i \in 1..n /\ i # n
      BY <1>3, <1>6, <1>8
    <2>. QED BY <1>2, <1>3, <1>4, <2>1 DEF Distinct
  <1>10. \A i \in DOMAIN inbox : inbox[i] # dialog
    BY <1>2 DEF Serves
  <1>. QED BY <1>1, <1>9, <1>10 DEF Owed, Serves

\* The user speaks: what is said is said of a request that is still owed, and
\* its loop answers with it or has another above.
LEMMA DecideLedger ==
  ASSUME Types, Ledger, NEW a \in Answers, UserDecides(a)
  PROVE  Ledger'
  <1>. DEFINE stack == Quitting(dialog)
              filed == Filed(dialog, a)
  <1>0. NoAnswer \notin Allows /\ NoAnswer # "deny" /\ "deny" \notin Allows /\ NoAnswer \notin Answers
    BY DEF NoAnswer, Allows, Answers
  <1>1. /\ dialog \in Requests /\ Turned(stack) /\ filed \in [Requests -> MaybeAnswer]
        /\ Unwind(stack, filed) /\ Answering(Verdicts(stack, filed))
        /\ inbox' = inbox /\ up' = up /\ dialog' = NoRequest
        /\ UNCHANGED <<call, state, pending, session, stored, asked, gaveUp>>
    BY DecideTurn
  <1>2. \A r \in Requests :
           /\ r \in Owed' => r \in Owed /\ reply'[r] = reply[r]
           /\ results'[r] # NoAnswer => Serves(r) /\ results'[r] = filed[r]
           /\ \/ reply'[r] = reply[r]
              \/ /\ r \in Owed
                 /\ \E i \in 1..Len(loops) :
                       loops[i].req = r /\ reply'[r] = Verdict(stack[i], filed)
    BY <1>1, TurnShell DEF Types, PortaldOK
  <1>3. loops \in Seq(Loop) /\ DOMAIN loops = 1..Len(loops) /\ \A i \in 1..Len(loops) : loops[i] \in Loop
    BY LoopsRange DEF Types, UiOK
  <1>4. filed[dialog] = a /\ \A r \in Requests : r # dialog => filed[r] = results[r]
    BY <1>1 DEF Filed, Types, UiOK
  <1>5. \A r \in Requests : said'[r] = IF r = dialog /\ Serves(r) THEN a ELSE said[r]
    BY <1>1 DEF UserDecides, Types, SaidOK
  <1>6. Serves(dialog) => dialog \in Owed
    BY <1>1, OwedIs
  <1>7. buried \subseteq buried' /\ (Serves(dialog) /\ dialog \in Owed' => dialog \in buried')
    BY InnermostReturns DEF UserDecides
  <1>15. \A i \in 1..Len(loops) : /\ stack[i].req = loops[i].req
                                  /\ loops[i].req = dialog => stack[i].completed = TRUE
    <2>. SUFFICES ASSUME NEW i \in 1..Len(loops), loops[i].req = dialog
                  PROVE  stack[i].completed = TRUE
      BY <1>1 DEF Turned
    <2>1. stack[i] = [loops[i] EXCEPT !.quit = TRUE, !.completed = TRUE] /\ loops[i] \in Loop
      BY <1>3, QuittingTurned
    <2>. QED BY <2>1 DEF Loop
  <1>. HIDE DEF stack, filed
  <1>8. ASSUME NEW r \in Requests
        PROVE  \/ reply'[r] = reply[r]
               \/ r = dialog /\ Serves(r) /\ reply'[r] = a
               \/ r # dialog /\ r \in Owed /\ reply'[r] \in {results[r], "deny"}
    <2>. SUFFICES ASSUME reply'[r] # reply[r]
                  PROVE  \/ r = dialog /\ Serves(r) /\ reply'[r] = a
                         \/ r # dialog /\ r \in Owed /\ reply'[r] \in {results[r], "deny"}
      OBVIOUS
    <2>1. PICK i \in 1..Len(loops) : loops[i].req = r /\ reply'[r] = Verdict(stack[i], filed)
      BY <1>2
    <2>2. stack[i].req = r /\ r \in Owed /\ Serves(r)
      BY <1>2, <1>3, <1>15, <2>1 DEF Serves
    <2>3. /\ reply'[r] \in {filed[r], "deny"}
          /\ stack[i].completed = TRUE /\ filed[r] # NoAnswer => reply'[r] = filed[r]
      BY <2>1, <2>2 DEF Verdict
    <2>. QED BY <1>0, <1>4, <1>15, <2>1, <2>2, <2>3
  <1>9. OwedInv'
    BY <1>1, <1>2, <1>5, <1>7 DEF Ledger, OwedInv
  <1>10. FreshInv'
    <2>. SUFFICES ASSUME NEW r \in Requests, r \notin asked
                  PROVE  said'[r] = NoAnswer /\ reply'[r] = NoAnswer /\ r \notin pending
      BY <1>1 DEF FreshInv
    <2>1. r \notin Owed /\ ~(r = dialog /\ Serves(r))
      BY <1>6 DEF Types, AskedInv
    <2>. QED BY <1>5, <1>8, <2>1 DEF Ledger, FreshInv
  <1>11. SaysInv'
    <2>. SUFFICES ASSUME NEW r \in Requests
                  PROVE  /\ results'[r] \in Allows => said'[r] = results'[r]
                         /\ reply'[r] \in Allows => said'[r] = reply'[r]
                         /\ reply'[r] = "deny" /\ said'[r] \in Allows => r \in buried' \cup gaveUp'
      BY DEF SaysInv
    <2>1. results'[r] \in Allows => said'[r] = results'[r]
      BY <1>0, <1>2, <1>4, <1>5 DEF Ledger, SaysInv
    <2>2. CASE r = dialog /\ Serves(r)
      <3>1. reply[r] = NoAnswer /\ said'[r] = a
        BY <1>5, <1>6, <2>2 DEF Ledger, OwedInv
      <3>. QED BY <1>0, <1>8, <2>1, <2>2, <3>1
    <2>3. CASE ~(r = dialog /\ Serves(r))
      <3>1. said'[r] = said[r]
        BY <1>5, <2>3
      <3>2. CASE reply'[r] = reply[r]
        BY <1>1, <1>7, <2>1, <3>1, <3>2 DEF Ledger, SaysInv
      <3>3. CASE r \in Owed /\ reply'[r] \in {results[r], "deny"}
        <4>1. said[r] # NoAnswer => r \in buried
          BY <3>3 DEF Ledger, OwedInv
        <4>. QED BY <1>0, <1>7, <2>1, <3>1, <3>3, <4>1 DEF Ledger, SaysInv
      <3>. QED BY <1>8, <2>3, <3>2, <3>3
    <2>. QED BY <2>2, <2>3
  <1>12. SessionInv'
    BY <1>1, <1>5, <1>6 DEF Ledger, SessionInv, OwedInv
  <1>13. StoredInv'
    BY <1>1, <1>2, <1>5, <1>6 DEF Ledger, StoredInv
  <1>14. AnswerInv'
    BY <1>1, <1>5, <1>6, <1>7 DEF Ledger, AnswerInv, OwedInv
  <1>. QED BY <1>9, <1>10, <1>11, <1>12, <1>13, <1>14 DEF Ledger

\* A step of the shell in which the user says nothing: what it answers is
\* filed already, or it refuses.
LEMMA AnswersFiled ==
  ASSUME Types, Ledger,
         UNCHANGED <<call, state, pending, session, stored, historyVars>>,
         \A r \in Requests :
            /\ r \in Owed' => r \in Owed /\ reply'[r] = reply[r]
            /\ results'[r] \in {results[r], NoAnswer}
            /\ reply'[r] = reply[r] \/ (r \in Owed /\ reply'[r] \in {results[r], "deny"})
  PROVE  Ledger'
  <1>1. NoAnswer \notin Allows /\ NoAnswer # "deny" /\ "deny" \notin Allows
    BY DEF NoAnswer, Allows
  <1>2. asked' = asked /\ said' = said /\ buried' = buried /\ gaveUp' = gaveUp
    BY DEF historyVars
  <1>3. OwedInv'
    BY <1>2 DEF Ledger, OwedInv
  <1>4. FreshInv'
    BY <1>2 DEF Ledger, FreshInv, Types, AskedInv
  <1>5. SaysInv'
    BY <1>1, <1>2 DEF Ledger, SaysInv, OwedInv
  <1>6. SessionInv' /\ StoredInv' /\ AnswerInv'
    BY <1>2 DEF Ledger, SessionInv, StoredInv, AnswerInv
  <1>. QED BY <1>3, <1>4, <1>5, <1>6 DEF Ledger

LEMMA OtherTurnLedger ==
  ASSUME Types, Ledger, UserChooses \/ \E i \in 1..(Cardinality(Requests) + 1) : LoopTimesOut(i)
  PROVE  Ledger'
  <1>1. PICK stack : /\ Turned(stack)
                     /\ Unwind(stack, results)
                     /\ Answering(Verdicts(stack, results))
                     /\ inbox' = inbox /\ up' = up /\ dialog' = dialog
                     /\ UNCHANGED <<call, state, pending, session, stored, historyVars>>
    BY OtherTurn
  <1>2. results \in [Requests -> MaybeAnswer] /\ reply \in [Requests -> MaybeAnswer]
    BY DEF Types, UiOK, PortaldOK
  <1>3. \A r \in Requests :
           /\ r \in Owed' => r \in Owed /\ reply'[r] = reply[r]
           /\ results'[r] # NoAnswer => Serves(r) /\ results'[r] = results[r]
           /\ \/ reply'[r] = reply[r]
              \/ /\ r \in Owed
                 /\ \E i \in 1..Len(loops) :
                       loops[i].req = r /\ reply'[r] = Verdict(stack[i], results)
    BY <1>1, <1>2, TurnShell DEF Types
  <1>4. ASSUME NEW i \in 1..Len(loops)
        PROVE  Verdict(stack[i], results) \in {results[loops[i].req], "deny"}
    BY <1>1 DEF Turned, Verdict
  <1>5. \A r \in Requests : reply'[r] = reply[r] \/ (r \in Owed /\ reply'[r] \in {results[r], "deny"})
    BY <1>3, <1>4
  <1>. QED BY <1>1, <1>3, <1>5, AnswersFiled

LEMMA ShellLedger ==
  ASSUME Types, Ledger, ShellTakes \/ ShellChooses \/ ShellDies \/ ShellRestarts
  PROVE  Ledger'
  <1>1. CASE ShellDies
    <2>1. /\ inbox' = <<>> /\ loops' = <<>> /\ results' = [r \in Requests |-> NoAnswer]
          /\ reply' = [r \in Requests |-> IF r \in Owed \cap pending THEN "deny" ELSE reply[r]]
          /\ UNCHANGED <<call, state, pending, session, stored, historyVars>>
      BY <1>1 DEF ShellDies, ShellEnds
    <2>2. Owed' = {}
      BY <2>1 DEF Owed, Serves
    <2>. QED BY <2>1, <2>2, AnswersFiled
  <1>2. CASE ShellTakes \/ ShellChooses \/ ShellRestarts
    <2>1. UNCHANGED portaldVars /\ UNCHANGED historyVars
      BY <1>2 DEF ShellTakes, ShellChooses, ShellRestarts
    <2>2. \A r \in Requests : results'[r] \in {results[r], "deny"}
      BY <1>2 DEF ShellTakes, TakeCall, ShellChooses, TakeChooser, ShellRestarts, ShellStarts, Types, UiOK
    <2>3. \A r \in Requests : r \in Owed' => r \in Owed
      BY ShellTypes
    <2>. QED BY <2>1, <2>2, <2>3, LedgerStays DEF portaldVars, historyVars
  <1>. QED BY <1>1, <1>2

LEMMA LedgerNext == Types /\ Ledger /\ [Next]_vars => Ledger'
  <1>. SUFFICES ASSUME Types, Ledger, [Next]_vars PROVE Ledger'
    OBVIOUS
  <1>1. CASE UNCHANGED vars
    <2>1. UNCHANGED uiVars /\ UNCHANGED portaldVars /\ UNCHANGED historyVars
      BY <1>1 DEF vars
    <2>2. results' = results /\ Owed' = Owed
      BY <2>1, ShellStays DEF uiVars
    <2>. QED BY <2>1, <2>2, LedgerStays DEF portaldVars, historyVars
  <1>2. CASE Next
    BY <1>2, AskLedger, PortaldLedger, DecideLedger, OtherTurnLedger, ShellLedger DEF Next
  <1>. QED BY <1>1, <1>2

\* Only requests are put to the user.
LEMMA AskedNext == asked \subseteq Requests /\ [Next]_vars => (asked \subseteq Requests)'
  BY DEF Next, vars, historyVars, Ask, Deliver, CallTimesOut, CloseRequest, CloseSession,
         PortaldDies, UserDecides, UserChooses, LoopTimesOut, ShellTakes, ShellChooses,
         ShellDies, ShellRestarts

LEMMA LedgerHolds == Spec => [](Ledger /\ asked \subseteq Requests)
  <1>1. Init => Ledger /\ asked \subseteq Requests
    BY LedgerInit DEF Init
  <1>2. Types /\ Ledger /\ asked \subseteq Requests /\ [Next]_vars
          => (Ledger /\ asked \subseteq Requests)'
    BY LedgerNext, AskedNext
  <1>. QED BY <1>1, <1>2, TypesHold, PTL DEF Spec

\* A request that was put to the user is allowed only if the user allowed it,
\* in time and in the dialog of that request, and one the user allowed is
\* refused only for a loop above its own or for an answer that came too late,
\* through busy refusals, timeouts of either side and deaths of both.
THEOREM AnswersAreTheUsers == Spec => []AnswerIsTheUsers
  <1>1. Ledger /\ asked \subseteq Requests => AnswerIsTheUsers
    BY DEF Ledger, AnswerInv, AnswerIsTheUsers
  <1>. QED BY <1>1, LedgerHolds, PTL

\* An active session was allowed by the policy or by the user, and a stored
\* permission goes back to an allow_always of the user for a capability that
\* may be stored, although the callback of a completed request may go on as if
\* it was not.
THEOREM GrantsGoBackToTheUser == Spec => []GrantsAreTheUsers
  <1>1. Ledger => GrantsAreTheUsers
    BY DEF Ledger, SessionInv, StoredInv, GrantsAreTheUsers
  <1>. QED BY <1>1, LedgerHolds, PTL
=============================================================================
