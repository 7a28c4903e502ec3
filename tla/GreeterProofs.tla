----------------------------- MODULE GreeterProofs -----------------------------
(***************************************************************************)
(* The greeter, for any number of logins and of questions.                 *)
(***************************************************************************)
EXTENDS Greeter, SequenceTheorems, TLAPS

ReplyType == {"asking", "told", "success", "error"}

ConvType == [at : {"none", "asking", "told", "ready"}, login : 0..MaxLogins,
             questions : 0..MaxQuestions]

LEMMA Bounds == MaxLogins \in Nat /\ MaxQuestions \in Nat
  BY BoundsAssumption

\* A request or an answer more, and one less.
LEMMA QueueTypes ==
  ASSUME NEW S, NEW q \in Seq(S)
  PROVE  /\ \A x \in S : Append(q, x) \in Seq(S)
         /\ q # <<>> => Tail(q) \in Seq(S) /\ Head(q) \in S
  BY AppendProperties, HeadTailProperties

\* TypeOK side by side: greetd and the socket, PAM, and the form.
GreetdOK ==
    /\ step \in {"idle", "auth", "start"}
    /\ pending \in 0..MaxLogins /\ link \in {"none", "connecting", "up"}
    /\ requests \in Seq(Message) /\ replies \in Seq(ReplyType) /\ conv \in ConvType

PamOK ==
    /\ handle \in 0..MaxLogins /\ open \in BOOLEAN /\ (open => handle \in procs \cap {proc})
    /\ proc \in 0..MaxLogins /\ active \in BOOLEAN
    /\ opened \subseteq Logins /\ procs \subseteq Logins

FormOK ==
    /\ busy \in BOOLEAN /\ busy = (step # "idle")
    /\ greeter \in {"running", "leaving", "gone"} /\ logins \in 0..MaxLogins

LEMMA TypeParts ==
  /\ TypeOK <=> GreetdOK /\ PamOK /\ FormOK
  /\ TypeOK' <=> GreetdOK' /\ PamOK' /\ FormOK'
  BY Zenon DEF TypeOK, GreetdOK, PamOK, FormOK, ReplyType, ConvType

LEMMA PamStays ==
  ASSUME PamOK, UNCHANGED pamVars
  PROVE  PamOK'
  BY DEF PamOK, pamVars

LEMMA TypeInit == Init => TypeOK
  <1>. SUFFICES ASSUME Init PROVE GreetdOK /\ PamOK /\ FormOK
    BY TypeParts
  <1>1. conv \in ConvType
    BY Bounds DEF Init, NoConv, ConvType
  <1>2. requests \in Seq(Message) /\ replies \in Seq(ReplyType)
    BY EmptySeq DEF Init
  <1>3. GreetdOK
    BY <1>1, <1>2, Bounds DEF Init, GreetdOK
  <1>4. 0 \in 0..MaxLogins
    BY Bounds
  <1>5. PamOK
    BY Zenon, <1>4 DEF Init, PamOK
  <1>6. FormOK
    BY Zenon, <1>4 DEF Init, FormOK
  <1>. QED BY <1>3, <1>5, <1>6

\* What greetd makes of a request: a conversation, and one answer.
LEMMA GoesTypes ==
  ASSUME TypeOK, NEW n \in 0..MaxLogins, NEW q \in 0..MaxQuestions, Goes(n, q)
  PROVE  /\ conv' \in ConvType /\ replies' \in Seq(ReplyType)
         /\ conv'.at = "none" \/ conv'.login = n
  <1>1. NoConv \in ConvType /\ NoConv.at = "none"
    BY Bounds DEF NoConv, ConvType
  <1>2. \A x \in ReplyType : Append(replies, x) \in Seq(ReplyType)
    BY QueueTypes, TypeParts DEF GreetdOK
  <1>3. ASSUME NEW at \in {"asking", "told", "ready"}, NEW k \in 0..MaxQuestions
        PROVE  /\ [at |-> at, login |-> n, questions |-> k] \in ConvType
               /\ [at |-> at, login |-> n, questions |-> k].login = n
    BY DEF ConvType
  <1>4. q < MaxQuestions => q + 1 \in 0..MaxQuestions
    BY Bounds
  <1>5. CASE /\ q < MaxQuestions
             /\ \E at \in {"asking", "told"} :
                   /\ conv' = [at |-> at, login |-> n, questions |-> q + 1]
                   /\ replies' = Append(replies, at)
    BY <1>2, <1>3, <1>4, <1>5 DEF ReplyType
  <1>6. CASE /\ conv' = [at |-> "ready", login |-> n, questions |-> q]
             /\ replies' = Append(replies, "success")
    BY <1>2, <1>3, <1>6 DEF ReplyType
  <1>7. CASE conv' = NoConv /\ replies' = Append(replies, "error")
    BY <1>1, <1>2, <1>7 DEF ReplyType
  <1>. QED BY <1>5, <1>6, <1>7 DEF Goes

LEMMA AnswerTypes ==
  ASSUME TypeOK, GreetdAnswers
  PROVE  TypeOK'
  <1>. DEFINE m == Head(requests)
  <1>1. m \in Message /\ requests' \in Seq(Message)
    BY QueueTypes, TypeParts DEF GreetdAnswers, GreetdOK
  <1>2. m.login \in 0..MaxLogins /\ conv.login \in 0..MaxLogins /\ conv.questions \in 0..MaxQuestions
        /\ 0 \in 0..MaxQuestions
    BY <1>1, TypeParts, Bounds DEF GreetdOK, ConvType, Message
  <1>3. NoConv \in ConvType /\ conv \in ConvType
    BY TypeParts, Bounds DEF GreetdOK, ConvType, NoConv
  <1>4. \A x \in ReplyType : Append(replies, x) \in Seq(ReplyType)
    BY QueueTypes, TypeParts DEF GreetdOK
  <1>5. conv' \in ConvType /\ replies' \in Seq(ReplyType)
    <2>1. CASE Goes(m.login, 0) \/ Goes(conv.login, conv.questions)
      BY <2>1, <1>2, GoesTypes
    <2>2. CASE OutOfPlace \/ (conv' = NoConv /\ replies' = Append(replies, "success"))
      BY <2>2, <1>3, <1>4 DEF OutOfPlace, ReplyType
    <2>. QED BY <2>1, <2>2 DEF GreetdAnswers
  <1>6. GreetdOK'
    BY <1>1, <1>5, TypeParts DEF GreetdAnswers, GreetdOK
  <1>7. PamOK' /\ FormOK'
    BY PamStays, TypeParts DEF GreetdAnswers, FormOK
  <1>. QED BY <1>6, <1>7, TypeParts

LEMMA SendTypes ==
  ASSUME TypeOK, NEW t \in {"create", "post", "start", "cancel"}, NEW n \in 0..MaxLogins,
         Send(t, n)
  PROVE  requests' \in Seq(Message)
  <1>1. [type |-> t, login |-> n] \in Message
    BY DEF Message
  <1>. QED BY <1>1, QueueTypes, TypeParts DEF Send, GreetdOK

LEMMA ReadTypes ==
  ASSUME TypeOK, OnReadyRead
  PROVE  TypeOK'
  <1>. USE DEF GreetdOK, FormOK
  <1>1. replies' \in Seq(ReplyType) /\ 0 \in 0..MaxLogins
    BY QueueTypes, TypeParts, Bounds DEF OnReadyRead
  <1>2. PamOK' /\ pending' = pending /\ link' = link /\ conv' = conv /\ logins' = logins
    BY PamStays, TypeParts DEF OnReadyRead
  <1>3. /\ step' \in {"idle", "auth", "start"} /\ busy' \in BOOLEAN /\ busy' = (step' # "idle")
        /\ greeter' \in {"running", "leaving", "gone"} /\ requests' \in Seq(Message)
    <2>1. CASE \E type \in {"asking", "told"} : OnAuthMessage(type)
      BY <2>1, SendTypes, TypeParts DEF OnAuthMessage
    <2>2. CASE OnSuccess
      BY <2>2, <1>1, SendTypes, TypeParts DEF OnSuccess, LoginError
    <2>3. CASE OnError
      BY <2>3, <1>1, SendTypes, TypeParts DEF OnError, LoginError
    <2>. QED BY <2>1, <2>2, <2>3 DEF OnReadyRead
  <1>. QED BY <1>1, <1>2, <1>3, TypeParts

\* Closing a session leaves none open, whoever's it was.
LEMMA CloseTypes ==
  ASSUME TypeOK, NEW h, NEW o, NEW p, NEW running \in SUBSET Logins, CloseSession(h, o, p, running),
         active' \in BOOLEAN
  PROVE  PamOK' /\ greeter' \in {"running", "leaving", "gone"}
  <1>1. greeter' \in {greeter} \cup {"gone" : r \in running \cap {p}} => greeter' \in {greeter, "gone"}
    BY Zenon
  <1>2. greeter' \in {"running", "leaving", "gone"}
    BY <1>1, TypeParts DEF CloseSession, FormOK
  <1>3. opened' \subseteq Logins /\ procs' \subseteq Logins
    BY TypeParts DEF CloseSession, PamOK
  <1>4. handle' = 0 /\ open' = FALSE /\ proc' = 0 /\ 0 \in 0..MaxLogins
    BY Bounds DEF CloseSession
  <1>. QED BY <1>2, <1>3, <1>4 DEF PamOK

LEMMA PamLoginTypes ==
  ASSUME TypeOK, NEW n \in Logins, LoginViaPam(n)
  PROVE  PamOK' /\ greeter' \in {"running", "leaving", "gone"}
  <1>0. n \in 0..MaxLogins /\ 0 \in 0..MaxLogins
    BY Bounds DEF Logins
  <1>. USE TypeParts
  <1>1. CASE UNCHANGED <<pamVars, greeter>>
    BY <1>1, PamStays DEF FormOK
  <1>2. CASE /\ handle' \in {0, n} /\ open' = FALSE
             /\ UNCHANGED <<proc, active, opened, procs, greeter>>
    BY <1>0, <1>2 DEF PamOK, FormOK
  <1>3. CASE \E p \in {proc, 0} :
                /\ CloseSession(n, TRUE, p, procs)
                /\ active' = (active /\ p \notin procs)
    <2>1. PICK p \in {proc, 0} : /\ CloseSession(n, TRUE, p, procs)
                                 /\ active' = (active /\ p \notin procs)
      BY <1>3
    <2>2. active' \in BOOLEAN
      BY Zenon, <2>1
    <2>3. procs \in SUBSET Logins
      BY DEF PamOK
    <2>. QED BY <2>1, <2>2, <2>3, CloseTypes
  <1>4. CASE /\ handle' = n /\ open' = TRUE /\ opened' = opened \cup {n}
             /\ proc' = n /\ procs' = procs \cup {n} /\ active' = TRUE
             /\ UNCHANGED greeter
    BY <1>0, <1>4 DEF PamOK, FormOK
  <1>. QED BY <1>1, <1>2, <1>3, <1>4 DEF LoginViaPam

LEMMA SubmitTypes ==
  ASSUME TypeOK, Submit
  PROVE  TypeOK'
  <1>1. logins' \in Logins /\ logins' \in 0..MaxLogins
    BY TypeParts, Bounds DEF Submit, FormOK, Logins
  <1>2. link' = link /\ replies' = replies /\ conv' = conv
    BY DEF Submit
  <1>3. CASE /\ busy' = TRUE /\ step' = "auth" /\ pending' = logins' /\ Send("create", logins')
             /\ UNCHANGED <<pamVars, greeter>>
    <2>1. requests' \in Seq(Message)
      BY <1>1, <1>3, SendTypes
    <2>. QED BY <1>1, <1>2, <1>3, <2>1, PamStays, TypeParts DEF GreetdOK, FormOK
  <1>4. CASE /\ LoginViaPam(logins') /\ UNCHANGED <<busy, step, pending, requests>>
    BY <1>1, <1>2, <1>4, PamLoginTypes, TypeParts DEF GreetdOK, FormOK
  <1>. QED BY <1>3, <1>4 DEF Submit, Login

LEMMA TypeNext == TypeOK /\ [Next]_vars => TypeOK'
  <1>. SUFFICES ASSUME TypeOK, [Next]_vars PROVE TypeOK'
    OBVIOUS
  <1>. USE TypeParts
  <1>1. CASE Connect
    BY <1>1, PamStays DEF Connect, GreetdOK, FormOK
  <1>2. CASE GreetdAnswers
    BY <1>2, AnswerTypes
  <1>3. CASE Disconnect
    <2>1. requests' \in Seq(Message) /\ replies' \in Seq(ReplyType) /\ conv' \in ConvType
      BY <1>3, EmptySeq, Bounds DEF Disconnect, NoConv, ConvType
    <2>. QED BY <1>3, <2>1, PamStays DEF Disconnect, GreetdOK, FormOK
  <1>4. CASE OnReadyRead
    BY <1>4, ReadTypes
  <1>5. CASE Exit
    BY <1>5, PamStays DEF Exit, GreetdOK, FormOK, greetdVars
  <1>6. CASE Submit
    BY <1>6, SubmitTypes
  <1>7. ASSUME NEW p \in Logins, OnProcessFinished(p)
        PROVE  TypeOK'
    <2>1. procs \ {p} \in SUBSET Logins /\ active' \in BOOLEAN
      BY <1>7 DEF PamOK, OnProcessFinished
    <2>2. PamOK' /\ greeter' \in {"running", "leaving", "gone"}
      BY <1>7, <2>1, CloseTypes DEF OnProcessFinished
    <2>. QED BY <1>7, <2>2 DEF OnProcessFinished, GreetdOK, FormOK, greetdVars
  <1>8. CASE UNCHANGED vars
    BY <1>8, PamStays DEF vars, greetdVars, GreetdOK, FormOK
  <1>. QED BY <1>1, <1>2, <1>3, <1>4, <1>5, <1>6, <1>7, <1>8 DEF Next

\* The types of the greeter, the form that is busy exactly while a login is
\* under way, and the process of the session that is open (closeSession() and
\* launchSession() of SlmPamSession).
THEOREM TypeCorrect == Spec => []TypeOK
  BY TypeInit, TypeNext, PTL DEF Spec

-----------------------------------------------------------------------------
(* What the requests before the i-th leave behind when greetd has answered *)
(* them: no conversation, or at most one of login n.                       *)
Clear(i) == IF i = 1 THEN conv.at = "none" ELSE requests[i - 1].type = "cancel"

Meets(i, n) == Clear(i) \/ (IF i = 1 THEN conv.login ELSE requests[i - 1].login) = n

(* Every request on its way meets the conversation it is meant for, and so *)
(* does the next one that may be sent: an answer to the pending login's,   *)
(* or, once the form can be used again, the creation of a new one.         *)
QueueInv ==
    \A i \in 1..Len(requests) :
        /\ requests[i].type = "create" => Clear(i)
        /\ requests[i].type \in {"post", "start"} => Meets(i, requests[i].login)

PendingInv == step # "idle" => Meets(Len(requests) + 1, pending)

FormInv == greeter = "running" /\ step = "idle" => Clear(Len(requests) + 1)

ConversationInv == QueueInv /\ PendingInv /\ FormInv

LEMMA ConversationInit == Init => ConversationInv
  BY DEF Init, NoConv, ConversationInv, QueueInv, PendingInv, FormInv, Clear, Meets

\* A request that is sent behind the others meets what they leave.
LEMMA Sending ==
  ASSUME TypeOK, QueueInv, NEW t \in {"create", "post", "start", "cancel"}, NEW n \in 0..MaxLogins,
         Send(t, n), conv' = conv,
         t = "create" => Clear(Len(requests) + 1),
         t \in {"post", "start"} => Meets(Len(requests) + 1, n)
  PROVE  /\ QueueInv'
         /\ Meets(Len(requests) + 1, n)'
         /\ t = "cancel" => Clear(Len(requests) + 1)'
  <1>. DEFINE m == [type |-> t, login |-> n]
  <1>1. m \in Message /\ requests \in Seq(Message) /\ requests' = Append(requests, m)
    BY TypeParts DEF GreetdOK, Message, Send
  <1>2. /\ Len(requests) \in Nat /\ Len(requests') = Len(requests) + 1
        /\ \A i \in 1..Len(requests) : requests'[i] = requests[i]
        /\ requests'[Len(requests) + 1] = m
    BY <1>1, AppendProperties, LenProperties
  <1>3. m.type = t /\ m.login = n
    OBVIOUS
  <1>. HIDE DEF m
  <1>4. \A i \in 1..(Len(requests) + 1) :
            /\ Clear(i) => Clear(i)'
            /\ \A k : Meets(i, k) => Meets(i, k)'
    BY <1>2 DEF Clear, Meets
  <1>5. QueueInv'
    <2>. SUFFICES ASSUME NEW i \in 1..(Len(requests) + 1)
                  PROVE  /\ (requests[i].type = "create" => Clear(i))'
                         /\ (requests[i].type \in {"post", "start"} => Meets(i, requests[i].login))'
      BY <1>2 DEF QueueInv
    <2>1. CASE i \in 1..Len(requests)
      BY <2>1, <1>2, <1>4 DEF QueueInv
    <2>2. CASE i = Len(requests) + 1
      BY <2>2, <1>2, <1>3, <1>4
    <2>. QED BY <2>1, <2>2, <1>2
  <1>6. Meets(Len(requests) + 1, n)' /\ (t = "cancel" => Clear(Len(requests) + 1)')
    BY <1>2, <1>3 DEF Clear, Meets
  <1>. QED BY <1>5, <1>6

\* What greetd makes of the first request is what the next one meets.
LEMMA Answering ==
  ASSUME TypeOK, QueueInv, GreetdAnswers
  PROVE  /\ QueueInv'
         /\ Clear(Len(requests) + 1) => Clear(Len(requests) + 1)'
         /\ \A n : Meets(Len(requests) + 1, n) => Meets(Len(requests) + 1, n)'
  <1>. DEFINE m == Head(requests)
  <1>1. requests \in Seq(Message) /\ requests # <<>> /\ requests' = Tail(requests) /\ conv \in ConvType
    BY TypeParts DEF GreetdOK, GreetdAnswers
  <1>2. /\ Len(requests) \in Nat \ {0} /\ m = requests[1]
        /\ Len(requests') = Len(requests) - 1
        /\ \A i \in 1..(Len(requests) - 1) : requests'[i] = requests[i + 1]
    BY <1>1, HeadTailProperties, EmptySeq
  <1>3. m \in Message
    BY <1>1, HeadTailProperties
  <1>4. m.type = "cancel" => conv'.at = "none"
    BY DEF GreetdAnswers, NoConv
  <1>5. conv'.at = "none" \/ conv'.login = m.login
    <2>1. m.login \in 0..MaxLogins /\ conv.login \in 0..MaxLogins
          /\ conv.questions \in 0..MaxQuestions /\ 0 \in 0..MaxQuestions
      BY <1>1, <1>3, Bounds DEF Message, ConvType
    <2>2. /\ m.type = "create" => conv.at = "none"
          /\ m.type \in {"post", "start"} => conv.at = "none" \/ conv.login = m.login
      BY <1>2 DEF QueueInv, Clear, Meets
    <2>3. CASE m.type = "create" /\ Goes(m.login, 0)
      BY <2>1, <2>3, GoesTypes
    <2>4. CASE m.type = "post" /\ conv.at \in {"asking", "told"} /\ Goes(conv.login, conv.questions)
      BY <2>1, <2>2, <2>4, GoesTypes
    <2>5. CASE conv' = NoConv
      BY <2>5 DEF NoConv
    <2>6. CASE m.type \in {"create", "post", "start"} /\ OutOfPlace
      BY <2>2, <2>6 DEF OutOfPlace, NoConv
    <2>. QED BY <2>3, <2>4, <2>5, <2>6 DEF GreetdAnswers
  <1>. HIDE DEF m
  <1>6. \A i \in 1..Len(requests) :
            /\ Clear(i + 1) => Clear(i)'
            /\ \A k : Meets(i + 1, k) => Meets(i, k)'
    <2>. SUFFICES ASSUME NEW i \in 1..Len(requests)
                  PROVE  /\ Clear(i + 1) => Clear(i)'
                         /\ \A k : Meets(i + 1, k) => Meets(i, k)'
      OBVIOUS
    <2>1. i + 1 # 1 /\ (i + 1) - 1 = i
      BY <1>2
    <2>2. CASE i = 1
      BY <2>1, <2>2, <1>2, <1>4, <1>5 DEF Clear, Meets
    <2>3. CASE i # 1
      <3>1. i - 1 \in 1..(Len(requests) - 1) /\ (i - 1) + 1 = i
        BY <1>2, <2>3
      <3>2. requests'[i - 1] = requests[i]
        BY <1>2, <3>1
      <3>. QED BY <2>1, <2>3, <3>2 DEF Clear, Meets
    <2>. QED BY <2>2, <2>3
  <1>7. QueueInv'
    <2>. SUFFICES ASSUME NEW i \in 1..(Len(requests) - 1)
                  PROVE  /\ (requests[i].type = "create" => Clear(i))'
                         /\ (requests[i].type \in {"post", "start"} => Meets(i, requests[i].login))'
      BY <1>2 DEF QueueInv
    <2>1. i + 1 \in 1..Len(requests) /\ i \in 1..Len(requests)
      BY <1>2
    <2>. QED BY <2>1, <1>2, <1>6 DEF QueueInv
  <1>8. ASSUME NEW k, k = Len(requests)
        PROVE  /\ Clear(k + 1) => Clear(k)'
               /\ \A n : Meets(k + 1, n) => Meets(k, n)'
    BY <1>2, <1>6, <1>8
  <1>9. Len(requests') + 1 = Len(requests)
    BY <1>2
  <1>. QED BY <1>7, <1>8, <1>9 DEF Clear, Meets

\* Reading an answer: a password or a start goes to the pending login, and
\* whatever ends the login cancels what is left of it.
LEMMA Reading ==
  ASSUME TypeOK, ConversationInv, OnReadyRead
  PROVE  ConversationInv'
  <1>. USE DEF ConversationInv
  <1>1. /\ pending \in 0..MaxLogins /\ 0 \in 0..MaxLogins
        /\ pending' = pending /\ conv' = conv
    BY TypeParts, Bounds DEF GreetdOK, OnReadyRead
  <1>2. CASE UNCHANGED requests /\ greeter' = greeter /\ step' = step
    BY <1>1, <1>2 DEF QueueInv, PendingInv, FormInv, Clear, Meets
  <1>3. ASSUME NEW t \in {"post", "start"}, step # "idle", step' # "idle", Send(t, pending)
        PROVE  ConversationInv'
    <2>1. QueueInv' /\ Meets(Len(requests) + 1, pending)'
      BY <1>1, <1>3, Sending DEF PendingInv
    <2>. QED BY <1>3, <2>1, <1>1 DEF PendingInv, FormInv
  <1>4. ASSUME step' = "idle", Send("cancel", 0)
        PROVE  ConversationInv'
    <2>1. QueueInv' /\ Clear(Len(requests) + 1)'
      BY <1>1, <1>4, Sending
    <2>. QED BY <1>4, <2>1 DEF PendingInv, FormInv
  <1>5. CASE step' = "idle" /\ greeter' = "leaving" /\ UNCHANGED requests
    BY <1>1, <1>5 DEF QueueInv, PendingInv, FormInv, Clear, Meets
  <1>6. CASE \E type \in {"asking", "told"} : OnAuthMessage(type)
    BY <1>2, <1>3, <1>6 DEF OnAuthMessage
  <1>7. CASE OnSuccess
    BY <1>2, <1>3, <1>4, <1>5, <1>7 DEF OnSuccess, LoginError
  <1>8. CASE OnError
    BY <1>4, <1>8 DEF OnError, LoginError
  <1>. QED BY <1>6, <1>7, <1>8 DEF OnReadyRead

LEMMA ConversationNext == TypeOK /\ ConversationInv /\ [Next]_vars => ConversationInv'
  <1>. SUFFICES ASSUME TypeOK, ConversationInv, [Next]_vars PROVE ConversationInv'
    OBVIOUS
  <1>. USE DEF ConversationInv
  <1>1. ASSUME UNCHANGED <<step, pending, requests, conv>>, greeter' = greeter \/ greeter' # "running"
        PROVE  ConversationInv'
    BY <1>1 DEF QueueInv, PendingInv, FormInv, Clear, Meets
  <1>2. CASE Connect \/ Exit
    BY <1>1, <1>2 DEF Connect, Exit, greetdVars
  <1>3. CASE GreetdAnswers
    BY <1>3, Answering DEF GreetdAnswers, PendingInv, FormInv
  <1>4. CASE Disconnect
    BY <1>4 DEF Disconnect, NoConv, QueueInv, PendingInv, FormInv, Clear, Meets
  <1>5. CASE OnReadyRead
    BY <1>5, Reading
  <1>6. CASE Submit
    <2>1. logins' \in 0..MaxLogins /\ logins' \in Logins
      BY <1>6, TypeParts, Bounds DEF Submit, FormOK, Logins
    <2>2. CASE busy' = TRUE /\ step' = "auth" /\ pending' = logins' /\ Send("create", logins')
      <3>1. Clear(Len(requests) + 1) /\ conv' = conv
        BY <1>6, TypeParts DEF Submit, FormOK, FormInv
      <3>2. QueueInv' /\ (\A n : n = logins' => Meets(Len(requests) + 1, n)')
        BY <2>1, <2>2, <3>1, Sending
      <3>. QED BY <2>2, <3>2 DEF PendingInv, FormInv
    <2>3. CASE LoginViaPam(logins') /\ UNCHANGED <<busy, step, pending, requests>>
      <3>1. greeter' = greeter \/ greeter' # "running"
        <4>1. \A p : greeter' \in {greeter} \cup {"gone" : r \in procs \cap {p}}
                       => greeter' \in {greeter, "gone"}
          BY Zenon
        <4>. QED BY <2>3, <4>1 DEF LoginViaPam, CloseSession
      <3>. QED BY <1>6, <2>3, <3>1, <1>1 DEF Submit
    <2>. QED BY <1>6, <2>2, <2>3 DEF Submit, Login
  <1>7. ASSUME NEW p \in Logins, OnProcessFinished(p)
        PROVE  ConversationInv'
    <2>1. greeter' \in {greeter} \cup {"gone" : r \in (procs \ {p}) \cap {proc}} => greeter' \in {greeter, "gone"}
      BY Zenon
    <2>. QED BY <1>1, <1>7, <2>1 DEF OnProcessFinished, CloseSession, greetdVars
  <1>8. CASE UNCHANGED vars
    BY <1>1, <1>8 DEF vars, greetdVars
  <1>. QED BY <1>2, <1>3, <1>4, <1>5, <1>6, <1>7, <1>8 DEF Next

LEMMA ConversationHolds == Spec => []ConversationInv
  BY TypeCorrect, ConversationInit, ConversationNext, PTL DEF Spec

\* greetd's answers do not say what they answer, and GreeterApp takes each for
\* the answer to its last request; still no password and no mode reaches the
\* conversation of another login, and a new login finds none in its way,
\* because whatever ends a login cancels it before the form is free again.
THEOREM RequestsMeetTheirOwn == Spec => []OwnConversation
  <1>1. TypeOK /\ ConversationInv => OwnConversation
    <2>. SUFFICES ASSUME TypeOK, ConversationInv, requests # <<>>
                  PROVE  LET m == Head(requests) IN
                         /\ m.type = "create" => conv.at = "none"
                         /\ m.type \in {"post", "start"} /\ conv.at # "none" => m.login = conv.login
      BY DEF OwnConversation
    <2>1. 1 \in 1..Len(requests) /\ Head(requests) = requests[1]
      BY TypeParts, EmptySeq DEF GreetdOK
    <2>. QED BY <2>1 DEF ConversationInv, QueueInv, Clear, Meets
  <1>. QED BY <1>1, TypeCorrect, ConversationHolds, PTL
=============================================================================
