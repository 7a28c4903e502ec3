--------------------------- MODULE PolkitAgentProofs ---------------------------
(***************************************************************************)
(* The polkit agent, for any set of requests and any number of locks.      *)
(***************************************************************************)
EXTENDS PolkitAgent, SequenceTheorems, TLAPS

MaybeRequest == Requests \cup {NoRequest}

LEMMA NoRequestIsNone == NoRequest \in MaybeRequest /\ NoRequest \notin Requests
  BY RequestsAssumption DEF MaybeRequest

\* A frame or a request more, and one less.
LEMMA SequenceTypes ==
  ASSUME NEW S, NEW s \in Seq(S)
  PROVE  /\ \A x \in S : Append(s, x) \in Seq(S)
         /\ s # <<>> => Head(s) \in S /\ Tail(s) \in Seq(S)
         /\ \A t \in Seq(S) : t \o s \in Seq(S)
  BY AppendProperties, HeadTailProperties, ConcatProperties

\* TypeOK thread by thread, without what it says of the queue.
ListenerOK == at \in [do : {"idle", "enqueue", "attach", "pend"}, for : MaybeRequest]
MainOK == stack \in Seq(Frame) /\ posted \in Seq({"cancelled", "completed"}) /\ timer \in BOOLEAN
SessionOK == session \in MaybeRequest /\ helper \in [Requests -> Threads \cup {"none"}]
SlotOK == /\ pending \in MaybeRequest /\ hooked \subseteq Requests
          /\ dialog \in MaybeRequest /\ queue \in Seq(Requests)
WorldOK == /\ locked \in BOOLEAN /\ locks \in 0..MaxLocks
           /\ asked \subseteq Requests /\ cancelled \subseteq asked
AnswersOK == answers \in [Requests -> Nat]

(* The calls of the main thread that begin a request: `attach' and `pend'  *)
(* in frames, the requests they are for, and those of the calls in which   *)
(* the innermost one is.                                                   *)
Calling == {"attach", "pend"}

CallingAt(frames) == {i \in DOMAIN frames : frames[i].do \in Calling}

CalledBy(frames) == {frames[i].for : i \in CallingAt(frames)}

Called == CalledBy(stack)

Outer == {stack[i].for : i \in CallingAt(stack) \ {1}}

(* Each of them begins a request of its own. *)
Distinct(frames) == \A i, j \in CallingAt(frames) : frames[i].for = frames[j].for => i = j

ListenerInv == at.do # "idle" => at.for \in Requests

StackInv == Called \subseteq Requests

Types == ListenerOK /\ MainOK /\ SessionOK /\ SlotOK /\ WorldOK /\ AnswersOK
             /\ ListenerInv /\ StackInv

LEMMA TypesInit == Init => Types
  <1>. SUFFICES ASSUME Init PROVE Types
    OBVIOUS
  <1>. USE DEF Init
  <1>1. ListenerOK
    BY NoRequestIsNone DEF ListenerOK, Idle
  <1>2. MainOK
    BY Zenon, EmptySeq DEF MainOK
  <1>3. SessionOK /\ SlotOK
    BY NoRequestIsNone DEF SessionOK, SlotOK
  <1>4. AnswersOK /\ locks \in 0..MaxLocks
    BY MaxLocksAssumption DEF AnswersOK
  <1>5. WorldOK
    BY Zenon, <1>4 DEF WorldOK
  <1>6. ListenerInv /\ StackInv
    BY DEF ListenerInv, StackInv, Idle, Called, CalledBy, CallingAt
  <1>. QED BY <1>1, <1>2, <1>3, <1>4, <1>5, <1>6 DEF Types

LEMMA PartsStay ==
  ASSUME Types
  PROVE  /\ UNCHANGED at => ListenerOK' /\ ListenerInv'
         /\ UNCHANGED <<stack, posted, timer>> => MainOK'
         /\ UNCHANGED stack => StackInv' /\ stack' \in Seq(Frame)
         /\ UNCHANGED posted => posted' \in Seq({"cancelled", "completed"})
         /\ UNCHANGED timer => timer' \in BOOLEAN
         /\ UNCHANGED <<session, helper>> => SessionOK'
         /\ UNCHANGED <<pending, hooked, queue, dialog>> => SlotOK'
         /\ UNCHANGED world => WorldOK'
         /\ UNCHANGED answers => AnswersOK'
  BY DEF Types, ListenerOK, MainOK, SessionOK, SlotOK, WorldOK, AnswersOK, world,
         ListenerInv, StackInv, Called, CalledBy, CallingAt

LEMMA AnswerType ==
  ASSUME AnswersOK, NEW r \in Requests, Answer(r)
  PROVE  AnswersOK'
  BY DEF AnswersOK, Answer

LEMMA ClearSessionType ==
  ASSUME SessionOK, NEW r, ClearSession(r)
  PROVE  SessionOK'
  BY NoRequestIsNone DEF SessionOK, ClearSession

LEMMA AttachType ==
  ASSUME SessionOK, NEW r \in Requests, NEW t \in Threads, Attach(r, t)
  PROVE  SessionOK'
  BY DEF SessionOK, Attach, MaybeRequest

LEMMA SpawnFailsType ==
  ASSUME SessionOK, SpawnFails
  PROVE  SessionOK'
  BY NoRequestIsNone DEF SessionOK, SpawnFails

Plain == {"complete", "cancel", "clear", "hide", "finish", "next"}

\* Frames that begin nothing, and one that begins a request, alone or below the
\* completion that runs inside it.
LEMMA FrameTypes ==
  /\ <<>> \in Seq(Frame) /\ CalledBy(<<>>) = {} /\ Distinct(<<>>)
  /\ \A v, w \in Plain :
        /\ <<Do(v)>> \in Seq(Frame) /\ CalledBy(<<Do(v)>>) = {} /\ Distinct(<<Do(v)>>)
        /\ <<Do(v), Do(w)>> \in Seq(Frame) /\ CalledBy(<<Do(v), Do(w)>>) = {}
        /\ Distinct(<<Do(v), Do(w)>>)
  /\ \A v \in Plain, f \in Frame : f.do \in Calling =>
        /\ <<f>> \in Seq(Frame) /\ CalledBy(<<f>>) = {f.for} /\ Distinct(<<f>>)
        /\ <<Do(v), f>> \in Seq(Frame) /\ CalledBy(<<Do(v), f>>) = {f.for}
        /\ Distinct(<<Do(v), f>>)
  <1>1. \A w \in Plain : Do(w) \in Frame /\ Do(w).do \notin Calling
    BY DEF Do, Frame, Calling, Plain
  <1>2. <<>> \in Seq(Frame) /\ \A f, g \in Frame : <<f>> \in Seq(Frame) /\ <<f, g>> \in Seq(Frame)
    OBVIOUS
  <1>3. CallingAt(<<>>) = {}
    BY DEF CallingAt
  <1>4. \A f, g \in Frame : f.do \notin Calling /\ g.do \notin Calling
                            => CallingAt(<<f>>) = {} /\ CallingAt(<<f, g>>) = {}
    BY DEF CallingAt
  <1>5. \A f, g \in Frame : f.do \in Calling /\ g.do \notin Calling
                            => CallingAt(<<f>>) = {1} /\ CallingAt(<<g, f>>) = {2}
    BY DEF CallingAt
  <1>6. \A f, g \in Frame : <<f>>[1] = f /\ <<g, f>>[2] = f
    OBVIOUS
  <1>. QED BY <1>1, <1>2, <1>3, <1>4, <1>5, <1>6 DEF CalledBy, Distinct

\* The frames that are put in place of the innermost one, and what the calls
\* begin afterwards.
LEMMA GoesCalls ==
  ASSUME stack \in Seq(Frame), stack # <<>>, NEW frames \in Seq(Frame), Goes(frames)
  PROVE  /\ stack' \in Seq(Frame)
         /\ Called' = CalledBy(frames) \cup Outer
         /\ Outer \subseteq Called
         /\ Head(stack).do \notin Calling => Outer = Called
         /\ Head(stack).do \in Calling => Called = Outer \cup {Head(stack).for}
         /\ Distinct(stack) /\ Distinct(frames) /\ CalledBy(frames) \cap Outer = {}
              => Distinct(stack')
         /\ Distinct(stack) /\ Head(stack).do \in Calling => Head(stack).for \notin Outer
  <1>. DEFINE n == Len(frames)
              m == Len(stack)
  <1>1. /\ Tail(stack) \in Seq(Frame) /\ stack' = frames \o Tail(stack) /\ Head(stack) = stack[1]
        /\ n \in Nat /\ m \in Nat \ {0} /\ Len(Tail(stack)) = m - 1
        /\ DOMAIN frames = 1..n /\ DOMAIN stack = 1..m
        /\ \A i \in 1..(m - 1) : Tail(stack)[i] = stack[i + 1]
    BY HeadTailProperties, LenProperties, EmptySeq DEF Goes
  <1>2. /\ stack' \in Seq(Frame) /\ DOMAIN stack' = 1..(n + (m - 1))
        /\ \A i \in 1..(n + (m - 1)) : stack'[i] = IF i <= n THEN frames[i] ELSE Tail(stack)[i - n]
    BY <1>1, ConcatProperties, LenProperties
  <1>. HIDE DEF n, m
  <1>3. \A i \in 1..n : i \in DOMAIN stack' /\ stack'[i] = frames[i]
    BY <1>1, <1>2
  <1>4. \A i \in 2..m : i - 1 + n \in DOMAIN stack' /\ stack'[i - 1 + n] = stack[i]
    BY <1>1, <1>2
  <1>5. \A i \in DOMAIN stack' : i \in 1..n \/ (i - n + 1 \in 2..m /\ stack'[i] = stack[i - n + 1])
    BY <1>1, <1>2
  <1>6. CallingAt(stack) \ {1} = {i \in 2..m : stack[i].do \in Calling}
    BY <1>1 DEF CallingAt
  <1>7. Called' = CalledBy(frames) \cup Outer
    <2>1. ASSUME NEW r \in CalledBy(frames) PROVE r \in Called'
      BY <1>1, <1>3 DEF Called, CalledBy, CallingAt
    <2>2. ASSUME NEW r \in Outer PROVE r \in Called'
      <3>1. PICK i \in 2..m : stack[i].do \in Calling /\ r = stack[i].for
        BY <1>6 DEF Outer
      <3>. QED BY <1>4, <3>1 DEF Called, CalledBy, CallingAt
    <2>3. ASSUME NEW r \in Called' PROVE r \in CalledBy(frames) \cup Outer
      <3>1. PICK i \in DOMAIN stack' : stack'[i].do \in Calling /\ r = stack'[i].for
        BY DEF Called, CalledBy, CallingAt
      <3>2. CASE i \in 1..n
        BY <1>1, <1>3, <3>1, <3>2 DEF CalledBy, CallingAt
      <3>3. CASE i - n + 1 \in 2..m /\ stack'[i] = stack[i - n + 1]
        BY <1>6, <3>1, <3>3 DEF Outer
      <3>. QED BY <1>5, <3>2, <3>3
    <2>. QED BY <2>1, <2>2, <2>3
  <1>8. Outer \subseteq Called
    BY DEF Outer, Called, CalledBy
  <1>9. Head(stack).do \notin Calling => Outer = Called
    BY <1>1 DEF Outer, Called, CalledBy, CallingAt
  <1>10. Head(stack).do \in Calling => 1 \in CallingAt(stack) /\ Called = Outer \cup {Head(stack).for}
    BY <1>1 DEF Outer, Called, CalledBy, CallingAt
  <1>11. Distinct(stack) /\ Head(stack).do \in Calling => Head(stack).for \notin Outer
    BY <1>1, <1>10 DEF Outer, Distinct
  <1>12. ASSUME Distinct(stack), Distinct(frames), CalledBy(frames) \cap Outer = {}
         PROVE  Distinct(stack')
    <2>. SUFFICES ASSUME NEW i \in CallingAt(stack'), NEW j \in CallingAt(stack'),
                         stack'[i].for = stack'[j].for
                  PROVE  i = j
      BY DEF Distinct
    <2>1. \A k \in CallingAt(stack') :
             \/ k \in CallingAt(frames) /\ stack'[k] = frames[k]
             \/ k - n + 1 \in CallingAt(stack) \ {1} /\ stack'[k] = stack[k - n + 1]
      BY <1>1, <1>3, <1>5, <1>6 DEF CallingAt
    <2>2. CASE i \in CallingAt(frames) /\ stack'[i] = frames[i]
               /\ j \in CallingAt(frames) /\ stack'[j] = frames[j]
      BY <1>12, <2>2 DEF Distinct
    <2>3. CASE i - n + 1 \in CallingAt(stack) \ {1} /\ stack'[i] = stack[i - n + 1]
               /\ j - n + 1 \in CallingAt(stack) \ {1} /\ stack'[j] = stack[j - n + 1]
      <3>1. i - n + 1 = j - n + 1
        BY <1>12, <2>3 DEF Distinct
      <3>2. i \in Nat /\ j \in Nat
        BY <1>2, <1>1 DEF CallingAt
      <3>. QED BY <1>1, <3>1, <3>2
    <2>4. \A k, l \in CallingAt(stack') :
             k \in CallingAt(frames) /\ stack'[k] = frames[k]
               /\ l - n + 1 \in CallingAt(stack) \ {1} /\ stack'[l] = stack[l - n + 1]
             => stack'[k].for # stack'[l].for
      BY <1>12 DEF CalledBy, Outer
    <2>. QED BY <2>1, <2>2, <2>3, <2>4
  <1>. QED BY <1>2, <1>7, <1>8, <1>9, <1>10, <1>11, <1>12

\* The main thread goes on, and begins nothing.
LEMMA GoesPlain ==
  ASSUME stack \in Seq(Frame), stack # <<>>,
         \E v, w \in Plain : Goes(<<>>) \/ Goes(<<Do(v)>>) \/ Goes(<<Do(v), Do(w)>>)
  PROVE  /\ stack' \in Seq(Frame)
         /\ Called' = Outer /\ Outer \subseteq Called
         /\ Head(stack).do \notin Calling => Called' = Called
         /\ Distinct(stack) => Distinct(stack')
  <1>1. PICK frames \in Seq(Frame) : /\ Goes(frames) /\ CalledBy(frames) = {} /\ Distinct(frames)
    BY FrameTypes
  <1>. QED BY <1>1, GoesCalls

\* The innermost call, when it begins a request.
LEMMA InnermostBegins ==
  ASSUME stack \in Seq(Frame), In("attach") \/ In("pend"), StackInv
  PROVE  LET begun == [Head(stack) EXCEPT !.do = "pend"] IN
         /\ stack # <<>> /\ Head(stack).do \in Calling
         /\ Head(stack).for \in Requests /\ Head(stack).for \in Called
         /\ begun \in Frame /\ begun.do \in Calling /\ begun.for = Head(stack).for
  <1>1. stack # <<>> /\ Head(stack).do \in Calling /\ Head(stack) \in Frame
    BY SequenceTypes DEF In, Calling
  <1>2. Head(stack) = stack[1] /\ 1 \in DOMAIN stack
    BY <1>1, HeadTailProperties, LenProperties, EmptySeq
  <1>3. Head(stack).for \in Called
    BY <1>1, <1>2 DEF Called, CalledBy, CallingAt
  <1>4. [Head(stack) EXCEPT !.do = "pend"] = [do |-> "pend", for |-> Head(stack).for]
    BY <1>1 DEF Frame
  <1>. QED BY <1>1, <1>3, <1>4 DEF StackInv, Frame, Calling

\* It begins one, alone or below the completion that runs inside it.
LEMMA GoesBeginning ==
  ASSUME stack \in Seq(Frame), stack # <<>>, NEW f \in Frame, f.do \in Calling,
         Goes(<<f>>) \/ Goes(<<Do("complete"), f>>)
  PROVE  /\ stack' \in Seq(Frame)
         /\ Called' = Outer \cup {f.for} /\ Outer \subseteq Called
         /\ Distinct(stack) /\ f.for \notin Outer => Distinct(stack')
         /\ Head(stack).do \notin Calling => Called' = Called \cup {f.for} /\ Outer = Called
         /\ Head(stack).do \in Calling /\ f.for = Head(stack).for
              => /\ Called' = Called
                 /\ Distinct(stack) => Distinct(stack')
  <1>1. "complete" \in Plain
    BY DEF Plain
  <1>2. CASE Goes(<<f>>)
    <2>1. <<f>> \in Seq(Frame) /\ CalledBy(<<f>>) = {f.for} /\ Distinct(<<f>>)
      BY <1>1, FrameTypes
    <2>. QED BY <1>2, <2>1, GoesCalls
  <1>3. CASE Goes(<<Do("complete"), f>>)
    <2>1. /\ <<Do("complete"), f>> \in Seq(Frame) /\ CalledBy(<<Do("complete"), f>>) = {f.for}
          /\ Distinct(<<Do("complete"), f>>)
      BY <1>1, FrameTypes
    <2>. QED BY <1>3, <2>1, GoesCalls
  <1>. QED BY <1>2, <1>3

\* ... and what it is called for when it is at rest.
LEMMA StartsPlain ==
  ASSUME stack = <<>>, stack' \in {<<>>, <<Do("complete")>>, <<Do("cancel"), Do("hide")>>}
  PROVE  stack' \in Seq(Frame) /\ Called = {} /\ Called' = {} /\ Distinct(stack')
  <1>1. {"complete", "cancel", "hide"} \subseteq Plain
    BY DEF Plain
  <1>2. /\ <<Do("complete")>> \in Seq(Frame) /\ CalledBy(<<Do("complete")>>) = {}
        /\ Distinct(<<Do("complete")>>)
    BY <1>1, FrameTypes
  <1>3. /\ <<Do("cancel"), Do("hide")>> \in Seq(Frame)
        /\ CalledBy(<<Do("cancel"), Do("hide")>>) = {} /\ Distinct(<<Do("cancel"), Do("hide")>>)
    BY <1>1, FrameTypes
  <1>. QED BY <1>2, <1>3, FrameTypes DEF Called

-----------------------------------------------------------------------------
(* Types *)

LEMMA ListenerTypes ==
  ASSUME Types,
         ListenerStep \/ \E r \in Requests : Begin(r) \/ Cancel(r) \/ HelperEndsHere(r)
  PROVE  Types'
  <1>. USE PartsStay DEF Types, shared, world
  <1>1. CASE Enqueue
    <2>1. at.for \in Requests /\ queue \in Seq(Requests)
      BY <1>1 DEF Enqueue, ListenerInv, SlotOK
    <2>2. queue' \in Seq(Requests)
      BY <1>1, <2>1, SequenceTypes DEF Enqueue
    <2>3. ListenerOK' /\ ListenerInv'
      BY <1>1, NoRequestIsNone DEF Enqueue, Idle, ListenerOK, ListenerInv
    <2>. QED BY <1>1, <2>2, <2>3 DEF Enqueue, SlotOK
  <1>2. CASE ListenerAttaches
    <2>1. SessionOK'
      BY <1>2, AttachType, SpawnFailsType DEF ListenerAttaches, ListenerInv, Threads
    <2>3. posted' \in Seq({"cancelled", "completed"})
      BY <1>2, SequenceTypes DEF ListenerAttaches, MainOK
    <2>2. ListenerOK' /\ ListenerInv'
      BY <1>2 DEF ListenerAttaches, ListenerOK, ListenerInv
    <2>. QED BY <1>2, <2>1, <2>2, <2>3 DEF ListenerAttaches, MainOK
  <1>3. CASE ListenerPends
    <2>1. SlotOK'
      BY <1>3 DEF ListenerPends, Pend, ListenerInv, SlotOK, MaybeRequest
    <2>2. ListenerOK' /\ ListenerInv'
      BY <1>3, NoRequestIsNone DEF ListenerPends, Idle, ListenerOK, ListenerInv
    <2>. QED BY <1>3, <2>1, <2>2 DEF ListenerPends
  <1>4. ASSUME NEW r \in Requests, Begin(r)
        PROVE  Types'
    <2>1. r \in MaybeRequest
      BY DEF MaybeRequest
    <2>2. ListenerOK' /\ ListenerInv'
      BY <1>4, <2>1 DEF Begin, Idle, ListenerOK, ListenerInv
    <2>3. SlotOK' /\ AnswersOK'
      BY <1>4, <2>1, NoRequestIsNone, AnswerType DEF Begin, Refused, SlotOK
    <2>4. WorldOK'
      BY <1>4 DEF Begin, WorldOK
    <2>. QED BY <1>4, <2>2, <2>3, <2>4 DEF Begin
  <1>5. ASSUME NEW r \in Requests, Cancel(r)
        PROVE  Types'
    <2>1. posted' \in Seq({"cancelled", "completed"})
      BY <1>5, SequenceTypes DEF Cancel, MainOK
    <2>2. WorldOK'
      BY <1>5 DEF Cancel, WorldOK
    <2>. QED BY <1>5, <2>1, <2>2 DEF Cancel, MainOK
  <1>6. ASSUME NEW r \in Requests, HelperEndsHere(r)
        PROVE  Types'
    <2>1. posted' \in Seq({"cancelled", "completed"})
      BY <1>6, SequenceTypes DEF HelperEndsHere, MainOK
    <2>2. SessionOK'
      BY <1>6, ClearSessionType DEF HelperEndsHere
    <2>. QED BY <1>6, <2>1, <2>2 DEF HelperEndsHere, MainOK
  <1>. QED BY <1>1, <1>2, <1>3, <1>4, <1>5, <1>6 DEF ListenerStep

\* What the event loop calls.
LEMMA LoopTypes ==
  ASSUME Types,
         \/ TakePosted \/ TimesOut \/ UserCancels \/ SessionLocked \/ SessionUnlocked
         \/ \E r \in Requests : HelperEnds(r)
  PROVE  Types'
  <1>. USE PartsStay DEF Types, shared, world
  <1>1. ASSUME stack = <<>>, stack' \in {<<Do("complete")>>, <<Do("cancel"), Do("hide")>>}
        PROVE  stack' \in Seq(Frame) /\ StackInv'
    BY <1>1, StartsPlain DEF StackInv
  <1>2. CASE TakePosted
    <2>1. posted' \in Seq({"cancelled", "completed"})
      BY <1>2, SequenceTypes DEF TakePosted, Calls, MainOK
    <2>2. SlotOK'
      BY <1>2, NoRequestIsNone DEF TakePosted, SlotOK
    <2>. QED BY <1>1, <1>2, <2>1, <2>2 DEF TakePosted, Calls, MainOK
  <1>3. CASE TimesOut
    BY <1>1, <1>3 DEF TimesOut, Calls, MainOK
  <1>4. CASE UserCancels
    BY <1>1, <1>4 DEF UserCancels, Calls, MainOK
  <1>5. CASE SessionLocked
    <2>1. locks' \in 0..MaxLocks
      BY <1>5, MaxLocksAssumption DEF SessionLocked, WorldOK
    <2>. QED BY <1>5, <2>1 DEF SessionLocked, WorldOK, MainOK
  <1>6. CASE SessionUnlocked
    <2>1. timer' \in BOOLEAN
      BY Zenon, <1>6 DEF SessionUnlocked
    <2>. QED BY <1>6, <2>1 DEF SessionUnlocked, WorldOK, MainOK
  <1>7. ASSUME NEW r \in Requests, HelperEnds(r)
        PROVE  Types'
    <2>1. SessionOK' /\ SlotOK'
      BY <1>7, ClearSessionType, NoRequestIsNone DEF HelperEnds, SlotOK
    <2>. QED BY <1>1, <1>7, <2>1 DEF HelperEnds, Calls, MainOK
  <1>. QED BY <1>2, <1>3, <1>4, <1>5, <1>6, <1>7

\* The calls of the main thread.
LEMMA CallTypes ==
  ASSUME Types,
         \/ Complete \/ CancelSession \/ ClearAgain \/ Hide \/ Finish \/ ProcessNext
         \/ MainAttaches \/ MainPends \/ Torn
  PROVE  Types'
  <1>. USE PartsStay DEF Types, shared, world, In
  <1>0. stack \in Seq(Frame)
    BY DEF MainOK
  <1>1. ASSUME stack # <<>>,
               \E v, w \in Plain : Goes(<<>>) \/ Goes(<<Do(v)>>) \/ Goes(<<Do(v), Do(w)>>)
        PROVE  stack' \in Seq(Frame) /\ StackInv'
    BY <1>0, <1>1, GoesPlain DEF StackInv
  <1>. USE DEF Plain
  <1>2. CASE Complete
    BY <1>1, <1>2 DEF Complete, MainOK
  <1>3. CASE CancelSession
    <2>1. SessionOK' /\ SlotOK'
      BY <1>3, ClearSessionType, NoRequestIsNone DEF CancelSession, SlotOK
    <2>. QED BY <1>1, <1>3, <2>1 DEF CancelSession, MainOK
  <1>4. CASE ClearAgain
    BY <1>1, <1>4, ClearSessionType DEF ClearAgain, MainOK
  <1>5. CASE Hide
    BY <1>1, <1>5, NoRequestIsNone DEF Hide, MainOK, SlotOK
  <1>6. CASE Finish
    <2>1. SlotOK'
      BY <1>6, NoRequestIsNone DEF Finish, SlotOK
    <2>2. AnswersOK'
      BY <1>6, AnswerType DEF Finish, SlotOK, MaybeRequest
    <2>. QED BY <1>1, <1>6, <2>1, <2>2 DEF Finish, MainOK
  <1>7. CASE ProcessNext
    <2>1. CASE queue = <<>>
      BY <1>1, <1>7, <2>1 DEF ProcessNext, MainOK
    <2>2. CASE queue # <<>>
      <3>. DEFINE r == Head(queue)
      <3>1. r \in Requests /\ r \in MaybeRequest /\ queue' \in Seq(Requests)
        BY <1>7, <2>2, SequenceTypes DEF ProcessNext, Dequeued, SlotOK, MaybeRequest
      <3>2. CASE (r \in cancelled /\ Answer(r) /\ UNCHANGED <<stack, dialog>>)
                 \/ (Refused(r) /\ UNCHANGED stack)
        BY <1>7, <3>1, <3>2, AnswerType, NoRequestIsNone DEF ProcessNext, Refused, SlotOK, MainOK
      <3>3. CASE dialog' = r /\ Goes(<<[do |-> "attach", for |-> r]>>) /\ UNCHANGED answers
        <4>. DEFINE f == [do |-> "attach", for |-> r]
        <4>0. f \in Frame /\ f.do \in Calling /\ f.for = r
          BY <3>1 DEF Frame, Calling
        <4>. HIDE DEF f
        <4>1. stack' \in Seq(Frame) /\ StackInv'
          <5>1. stack # <<>> /\ Goes(<<f>>)
            BY <1>7, <3>3 DEF ProcessNext, f
          <5>2. stack' \in Seq(Frame) /\ Called' \subseteq Called \cup {r}
            BY <1>0, <4>0, <5>1, GoesBeginning
          <5>. QED BY <3>1, <5>2 DEF StackInv
        <4>. QED BY <1>7, <3>1, <3>3, <4>1 DEF ProcessNext, SlotOK, MainOK
      <3>. QED BY <1>7, <2>2, <3>2, <3>3 DEF ProcessNext
    <2>. QED BY <2>1, <2>2
  <1>8. CASE MainAttaches
    <2>. DEFINE begun == [Head(stack) EXCEPT !.do = "pend"]
    <2>1. /\ begun \in Frame /\ begun.do \in Calling /\ begun.for \in Requests
          /\ \/ Attach(begun.for, "main") /\ Goes(<<begun>>) /\ UNCHANGED dialog
             \/ SpawnFails /\ Goes(<<Do("complete"), begun>>) /\ dialog' = NoRequest
      BY <1>0, <1>8, InnermostBegins DEF MainAttaches
    <2>. HIDE DEF begun
    <2>2. stack' \in Seq(Frame) /\ StackInv'
      <3>1. stack # <<>> /\ (Goes(<<begun>>) \/ Goes(<<Do("complete"), begun>>))
        BY <1>8, <2>1 DEF MainAttaches
      <3>2. stack' \in Seq(Frame) /\ Called' \subseteq Called \cup {begun.for}
        BY <1>0, <2>1, <3>1, GoesBeginning
      <3>. QED BY <2>1, <3>2 DEF StackInv
    <2>3. SessionOK'
      BY <2>1, AttachType, SpawnFailsType DEF Threads
    <2>4. SlotOK'
      BY <1>8, <2>1, NoRequestIsNone DEF MainAttaches, SlotOK
    <2>. QED BY <1>8, <2>2, <2>3, <2>4 DEF MainAttaches, MainOK
  <1>9. CASE MainPends
    <2>1. Head(stack).for \in Requests
      BY <1>0, <1>9, InnermostBegins DEF MainPends
    <2>2. posted' \in Seq({"cancelled", "completed"})
      BY <1>9, SequenceTypes DEF MainPends, MainOK
    <2>3. SlotOK'
      BY <1>9, <2>1 DEF MainPends, Pend, SlotOK, MaybeRequest
    <2>. QED BY <1>1, <1>9, <2>2, <2>3 DEF MainPends, MainOK
  <1>10. CASE Torn
    <2>1. ListenerOK' /\ ListenerInv' /\ StackInv'
      BY <1>10, FrameTypes, NoRequestIsNone
         DEF Torn, Idle, ListenerOK, ListenerInv, StackInv, Called
    <2>2. stack' \in Seq(Frame) /\ posted' \in Seq({"cancelled", "completed"}) /\ queue' \in Seq(Requests)
      BY <1>10, EmptySeq DEF Torn
    <2>3. SessionOK' /\ SlotOK'
      BY <1>10, <2>2, NoRequestIsNone DEF Torn, SessionOK, SlotOK
    <2>4. WorldOK'
      BY <1>10 DEF Torn, WorldOK
    <2>. QED BY <1>10, <2>1, <2>2, <2>3, <2>4 DEF Torn, MainOK
  <1>. QED BY <1>2, <1>3, <1>4, <1>5, <1>6, <1>7, <1>8, <1>9, <1>10

LEMMA TypesNext == Types /\ [Next]_vars => Types'
  <1>1. Types /\ UNCHANGED vars => Types'
    BY PartsStay DEF Types, MainOK, vars, shared
  <1>. QED BY <1>1, ListenerTypes, LoopTypes, CallTypes DEF Next, MainStep

LEMMA TypesHold == Spec => []Types
  BY TypesInit, TypesNext, PTL DEF Spec

-----------------------------------------------------------------------------
(* Where a request that waits for its answer is: in the listener, in a call*)
(* of the main thread, in the slot or in the queue.                        *)
Beginning == IF at.do = "idle" THEN NoRequest ELSE at.for

Queued == {queue[i] : i \in DOMAIN queue}

Waits(r) == r \in {Beginning, pending} \cup Called \cup Queued

(* ... and it is in one of them. *)
OncePlaced(r) ==
    /\ r = Beginning => r \notin Called /\ r # pending /\ r \notin Queued
    /\ r \in Called => r # pending /\ r \notin Queued
    /\ r = pending => r \notin Queued

QueueInv == \A i, j \in DOMAIN queue : queue[i] = queue[j] => i = j

PlaceInv ==
    \A r \in Requests :
        /\ OncePlaced(r)
        /\ Waits(r) => r \in asked /\ answers[r] = 0
        /\ r \notin asked => answers[r] = 0
        /\ answers[r] <= 1

(* The dialog on the screen is that of a request one of the threads begins *)
(* or has put into the slot, and with it somebody waits.                   *)
DialogInv ==
    dialog # NoRequest =>
        /\ pending # NoRequest \/ Called # {} \/ at.do \in Calling
        /\ dialog \in asked /\ answers[dialog] = 0 /\ dialog \notin Queued
        /\ at.do = "enqueue" => at.for # dialog
        /\ \/ dialog \in hooked \cup Called
           \/ at.do \in Calling /\ at.for = dialog

HookInv == pending \in hooked \cup {NoRequest}

AgentInv == QueueInv /\ PlaceInv /\ DialogInv /\ HookInv /\ Distinct(stack)

LEMMA AgentInit == Init => AgentInv
  <1>. SUFFICES ASSUME Init PROVE AgentInv
    OBVIOUS
  <1>1. /\ Beginning = NoRequest /\ Called = {} /\ pending = NoRequest /\ Queued = {}
        /\ Distinct(stack)
    BY FrameTypes DEF Init, Idle, Beginning, Called, Queued
  <1>2. \A r \in Requests : answers[r] = 0
    BY DEF Init
  <1>3. \A r \in Requests : OncePlaced(r) /\ ~Waits(r)
    BY <1>1, NoRequestIsNone DEF OncePlaced, Waits
  <1>4. 0 <= 1
    OBVIOUS
  <1>5. PlaceInv
    BY Zenon, <1>2, <1>3, <1>4 DEF PlaceInv
  <1>. QED BY <1>1, <1>5 DEF Init, AgentInv, QueueInv, DialogInv, HookInv

\* A step after which the waiting requests are where they were, and a dialog
\* that was not there before is of one of them.
LEMMA PlacesStay ==
  ASSUME AgentInv, Beginning' = Beginning, Called' = Called, Distinct(stack'),
         UNCHANGED <<pending, hooked, queue, answers, asked>>,
         dialog' \in {dialog, NoRequest}, at' = at
  PROVE  AgentInv'
  <1>1. Queued' = Queued
    BY DEF Queued
  <1>2. QueueInv' /\ PlaceInv' /\ HookInv'
    BY <1>1 DEF AgentInv, QueueInv, PlaceInv, OncePlaced, Waits, HookInv
  <1>3. DialogInv'
    BY <1>1 DEF AgentInv, DialogInv
  <1>. QED BY <1>2, <1>3 DEF AgentInv

LEMMA ListenerPlaces ==
  ASSUME Types, AgentInv,
         ListenerStep \/ \E r \in Requests : Begin(r) \/ Cancel(r) \/ HelperEndsHere(r)
  PROVE  AgentInv'
  <1>. USE DEF AgentInv, shared, world
  <1>0. stack' = stack /\ Called' = Called /\ Distinct(stack') /\ pending' \in {pending, Beginning}
    BY DEF ListenerStep, Enqueue, ListenerAttaches, ListenerPends, Begin, Cancel,
           HelperEndsHere, Called, Beginning, Pend, Idle
  <1>1. CASE Enqueue
    <2>1. /\ Beginning = at.for /\ Beginning' = NoRequest /\ at.for \in Requests
          /\ queue' = Append(queue, at.for) /\ queue \in Seq(Requests)
      BY <1>1 DEF Enqueue, Beginning, Idle, Types, ListenerInv, SlotOK
    <2>2. /\ DOMAIN queue = 1..Len(queue) /\ DOMAIN queue' = 1..(Len(queue) + 1)
          /\ Len(queue) \in Nat /\ queue'[Len(queue) + 1] = at.for
          /\ \A i \in 1..Len(queue) : queue'[i] = queue[i]
      BY <2>1, AppendProperties, LenProperties
    <2>3. at.for \notin Queued
      BY <2>1 DEF PlaceInv, OncePlaced
    <2>4. Queued' = Queued \cup {at.for}
      BY <2>2 DEF Queued
    <2>5. QueueInv'
      BY <2>2, <2>3 DEF QueueInv, Queued
    <2>6. PlaceInv'
      BY <1>0, <1>1, <2>1, <2>4, NoRequestIsNone DEF Enqueue, PlaceInv, OncePlaced, Waits
    <2>7. DialogInv'
      BY <1>0, <1>1, <2>4 DEF Enqueue, DialogInv, Calling, Idle
    <2>8. HookInv'
      BY <1>1 DEF Enqueue, HookInv
    <2>. QED BY <1>0, <2>5, <2>6, <2>7, <2>8
  <1>2. CASE ListenerAttaches
    <2>1. /\ Beginning' = Beginning /\ at.do = "attach" /\ at'.do = "pend" /\ at'.for = at.for
          /\ Queued' = Queued
      BY <1>2 DEF ListenerAttaches, Beginning, Queued, Types, ListenerOK
    <2>2. QueueInv' /\ PlaceInv' /\ HookInv'
      BY <1>0, <1>2, <2>1 DEF ListenerAttaches, QueueInv, PlaceInv, OncePlaced, Waits, HookInv
    <2>3. DialogInv'
      BY <1>0, <1>2, <2>1 DEF ListenerAttaches, DialogInv, Calling
    <2>. QED BY <1>0, <2>2, <2>3
  <1>3. CASE ListenerPends
    <2>1. /\ Beginning = at.for /\ Beginning' = NoRequest /\ at.for \in Requests
          /\ pending' = at.for /\ hooked' = hooked \cup {at.for} /\ Queued' = Queued
      BY <1>3 DEF ListenerPends, Pend, Beginning, Idle, Types, ListenerInv, Queued
    <2>2. QueueInv' /\ PlaceInv' /\ HookInv'
      BY <1>0, <1>3, <2>1, NoRequestIsNone
         DEF ListenerPends, QueueInv, PlaceInv, OncePlaced, Waits, HookInv
    <2>3. DialogInv'
      BY <1>0, <1>3, <2>1, NoRequestIsNone DEF ListenerPends, DialogInv, Idle
    <2>. QED BY <1>0, <2>2, <2>3
  <1>4. ASSUME NEW r \in Requests, Begin(r)
        PROVE  AgentInv'
    <2>1. /\ Beginning = NoRequest /\ Queued' = Queued /\ pending' = pending
          /\ answers[r] = 0 /\ ~Waits(r) /\ r \notin asked /\ asked' = asked \cup {r}
          /\ QueueInv' /\ HookInv' /\ at.do = "idle"
      BY <1>4 DEF Begin, Beginning, Idle, Queued, PlaceInv, QueueInv, HookInv
    <2>2. CASE at'.do # "idle" /\ at'.for = r /\ UNCHANGED answers
      <3>1. PlaceInv'
        BY <1>0, <2>1, <2>2, NoRequestIsNone DEF Beginning, PlaceInv, OncePlaced, Waits
      <3>2. CASE at'.do = "enqueue" /\ dialog' = dialog /\ pending # NoRequest
        BY <1>0, <1>4, <2>1, <2>2, <3>1, <3>2 DEF Begin, DialogInv, Calling
      <3>3. CASE at'.do = "attach" /\ dialog' = r
        BY <1>0, <2>1, <2>2, <3>1, <3>3 DEF DialogInv, Calling, Waits
      <3>4. \/ at'.do = "enqueue" /\ dialog' = dialog /\ pending # NoRequest
            \/ at'.do = "attach" /\ dialog' = r
        BY <1>4, <2>1, <2>2 DEF Begin
      <3>. QED BY <3>2, <3>3, <3>4
    <2>3. CASE Refused(r) /\ UNCHANGED at
      <3>1. answers' = [answers EXCEPT ![r] = 1] /\ answers \in [Requests -> Nat]
        BY <2>1, <2>3 DEF Refused, Answer, Types, AnswersOK
      <3>2. Beginning' = Beginning
        BY <2>3 DEF Beginning
      <3>3. PlaceInv'
        BY <1>0, <2>1, <3>1, <3>2 DEF PlaceInv, OncePlaced, Waits
      <3>. QED BY <1>0, <2>1, <2>3, <3>3 DEF Refused, DialogInv
    <2>4. \/ at'.do # "idle" /\ at'.for = r /\ UNCHANGED answers
          \/ Refused(r) /\ UNCHANGED at
      BY <1>4 DEF Begin
    <2>. QED BY <2>2, <2>3, <2>4
  <1>5. ASSUME NEW r \in Requests, Cancel(r) \/ HelperEndsHere(r)
        PROVE  AgentInv'
    BY <1>0, <1>5, PlacesStay DEF Cancel, HelperEndsHere, Beginning
  <1>. QED BY <1>1, <1>2, <1>3, <1>4, <1>5 DEF ListenerStep

LEMMA LoopPlaces ==
  ASSUME Types, AgentInv,
         \/ TakePosted \/ TimesOut \/ UserCancels \/ SessionLocked \/ SessionUnlocked
         \/ \E r \in Requests : HelperEnds(r)
  PROVE  AgentInv'
  <1>. USE DEF shared, world
  <1>1. /\ stack = <<>> /\ stack' \in {<<>>, <<Do("complete")>>, <<Do("cancel"), Do("hide")>>}
        /\ at' = at /\ dialog' \in {dialog, NoRequest}
        /\ UNCHANGED <<pending, hooked, queue, answers, asked>>
    BY DEF TakePosted, TimesOut, UserCancels, SessionLocked, SessionUnlocked, HelperEnds, Calls
  <1>. QED BY <1>1, StartsPlain, PlacesStay DEF Beginning

LEMMA CallPlaces ==
  ASSUME Types, AgentInv,
         \/ Complete \/ CancelSession \/ ClearAgain \/ Hide \/ Finish \/ ProcessNext
         \/ MainAttaches \/ MainPends \/ Torn
  PROVE  AgentInv'
  <1>. USE DEF shared, world
  <1>0. stack \in Seq(Frame) /\ StackInv /\ Distinct(stack)
    BY DEF Types, MainOK, AgentInv
  <1>1. CASE Complete \/ CancelSession \/ ClearAgain \/ Hide
    <2>1. /\ stack # <<>> /\ Head(stack).do \notin Calling
          /\ \E v, w \in Plain : Goes(<<>>) \/ Goes(<<Do(v)>>) \/ Goes(<<Do(v), Do(w)>>)
      BY <1>1 DEF Complete, CancelSession, ClearAgain, Hide, In, Calling, Plain
    <2>2. /\ at' = at /\ dialog' \in {dialog, NoRequest}
          /\ UNCHANGED <<pending, hooked, queue, answers, asked>>
      BY <1>1 DEF Complete, CancelSession, ClearAgain, Hide
    <2>. QED BY <1>0, <2>1, <2>2, GoesPlain, PlacesStay DEF Beginning
  <1>2. CASE Finish
    <2>1. Called' = Called /\ Distinct(stack')
      BY <1>0, <1>2, GoesPlain DEF Finish, In, Calling, Plain
    <2>2. /\ Beginning' = Beginning /\ Queued' = Queued /\ pending' = NoRequest
          /\ dialog' = NoRequest /\ asked' = asked /\ queue' = queue
      BY <1>2 DEF Finish, Beginning, Queued
    <2>3. \A r \in Requests : answers'[r] = IF r = pending THEN answers[r] + 1 ELSE answers[r]
      BY <1>2, NoRequestIsNone DEF Finish, Answer, Types, AnswersOK
    <2>4. PlaceInv'
      BY <2>1, <2>2, <2>3, NoRequestIsNone DEF AgentInv, PlaceInv, OncePlaced, Waits
    <2>. QED BY <2>1, <2>2, <2>4 DEF AgentInv, QueueInv, DialogInv, HookInv
  <1>3. CASE ProcessNext
    <2>1. CASE queue = <<>>
      <3>1. Called' = Called /\ Distinct(stack')
        BY <1>0, <1>3, <2>1, GoesPlain DEF ProcessNext, In, Calling, Plain
      <3>. QED BY <1>3, <2>1, <3>1, PlacesStay DEF ProcessNext, Beginning
    <2>2. CASE queue # <<>>
      <3>. DEFINE r == Head(queue)
      <3>1. queue \in Seq(Requests) /\ queue' = Tail(queue) /\ r \in Requests
        BY <1>3, <2>2, SequenceTypes DEF ProcessNext, Dequeued, Types, SlotOK
      <3>2. /\ Len(queue) \in Nat \ {0} /\ DOMAIN queue = 1..Len(queue) /\ r = queue[1]
            /\ DOMAIN queue' = 1..(Len(queue) - 1)
            /\ \A i \in 1..(Len(queue) - 1) : queue'[i] = queue[i + 1]
        BY <2>2, <3>1, HeadTailProperties, LenProperties, EmptySeq
      <3>. HIDE DEF r
      <3>3. QueueInv' /\ r \in Queued /\ r \notin Queued' /\ Queued' \subseteq Queued
        <4>1. \A i \in 1..(Len(queue) - 1) : i + 1 \in DOMAIN queue /\ i + 1 # 1
          BY <3>2
        <4>2. 1 \in DOMAIN queue
          BY <3>2
        <4>3. \A i, j \in DOMAIN queue : queue[i] = queue[j] => i = j
          BY DEF AgentInv, QueueInv
        <4>4. r \in Queued /\ Queued' \subseteq Queued
          BY <3>2, <4>1, <4>2 DEF Queued
        <4>5. r \notin Queued'
          BY <3>2, <4>1, <4>2, <4>3 DEF Queued
        <4>6. ASSUME NEW i \in 1..(Len(queue) - 1), NEW j \in 1..(Len(queue) - 1), queue'[i] = queue'[j]
              PROVE  i = j
          <5>1. queue[i + 1] = queue[j + 1]
            BY <3>2, <4>6
          <5>2. i + 1 = j + 1
            BY <4>1, <4>3, <5>1
          <5>. QED BY <5>2
        <4>7. QueueInv'
          BY <3>2, <4>6 DEF QueueInv
        <4>. QED BY <4>4, <4>5, <4>7
      <3>4. answers[r] = 0 /\ r \in asked /\ r # Beginning /\ r # pending /\ r \notin Called
        BY <3>1, <3>3 DEF AgentInv, PlaceInv, OncePlaced, Waits
      <3>5. Beginning' = Beginning /\ UNCHANGED <<pending, hooked, asked, at>> /\ HookInv'
        BY <1>3 DEF ProcessNext, Beginning, AgentInv, HookInv
      <3>6. CASE (Answer(r) /\ UNCHANGED <<stack, dialog>>) \/ (Refused(r) /\ UNCHANGED stack)
        <4>1. answers' = [answers EXCEPT ![r] = 1] /\ answers \in [Requests -> Nat]
          BY <3>4, <3>6 DEF Refused, Answer, Types, AnswersOK
        <4>2. Called' = Called /\ Distinct(stack') /\ dialog' \in {dialog, NoRequest}
          BY <1>0, <3>6 DEF Refused, Called
        <4>3. PlaceInv'
          BY <3>1, <3>3, <3>4, <3>5, <4>1, <4>2, NoRequestIsNone
             DEF AgentInv, PlaceInv, OncePlaced, Waits
        <4>4. DialogInv'
          BY <3>3, <3>4, <3>5, <4>1, <4>2 DEF AgentInv, DialogInv
        <4>. QED BY <3>3, <3>5, <4>2, <4>3, <4>4 DEF AgentInv
      <3>7. CASE /\ dialog' = r /\ Goes(<<[do |-> "attach", for |-> r]>>) /\ UNCHANGED answers
        <4>. DEFINE f == [do |-> "attach", for |-> r]
        <4>1. f \in Frame /\ f.do \in Calling /\ f.for = r
          BY <3>1 DEF Frame, Calling
        <4>2. stack # <<>> /\ Goes(<<f>>) /\ Head(stack).do \notin Calling
          BY <1>3, <3>7 DEF ProcessNext, In, Calling
        <4>. HIDE DEF f
        <4>3. Called' = Called \cup {r} /\ Distinct(stack')
          BY <1>0, <3>4, <4>1, <4>2, GoesBeginning
        <4>4. PlaceInv'
          BY <3>1, <3>3, <3>4, <3>5, <3>7, <4>3, NoRequestIsNone
             DEF AgentInv, PlaceInv, OncePlaced, Waits
        <4>5. at.do # "idle" => at.for # r
          BY <3>4 DEF Beginning
        <4>6. DialogInv'
          BY <3>3, <3>4, <3>5, <3>7, <4>3, <4>5 DEF DialogInv
        <4>. QED BY <3>3, <3>5, <4>3, <4>4, <4>6 DEF AgentInv
      <3>. QED BY <1>3, <2>2, <3>6, <3>7 DEF ProcessNext, r
    <2>. QED BY <2>1, <2>2
  <1>4. CASE MainAttaches
    <2>. DEFINE begun == [Head(stack) EXCEPT !.do = "pend"]
    <2>1. /\ begun \in Frame /\ begun.do \in Calling /\ begun.for = Head(stack).for
          /\ stack # <<>> /\ Head(stack).do \in Calling
      BY <1>0, <1>4, InnermostBegins DEF MainAttaches
    <2>2. Goes(<<begun>>) \/ Goes(<<Do("complete"), begun>>)
      BY <1>4 DEF MainAttaches
    <2>. HIDE DEF begun
    <2>3. Called' = Called /\ Distinct(stack')
      BY <1>0, <2>1, <2>2, GoesBeginning
    <2>. QED BY <1>4, <2>3, PlacesStay DEF MainAttaches, Beginning
  <1>5. CASE MainPends
    <2>. DEFINE r == Head(stack).for
    <2>1. stack # <<>> /\ Head(stack).do \in Calling /\ r \in Requests /\ r \in Called
      BY <1>0, <1>5, InnermostBegins DEF MainPends
    <2>2. Called' = Called \ {r} /\ Distinct(stack')
      <3>1. <<>> \in Seq(Frame) /\ CalledBy(<<>>) = {} /\ Distinct(<<>>) /\ Goes(<<>>)
        BY <1>5, FrameTypes DEF MainPends
      <3>. QED BY <1>0, <2>1, <3>1, GoesCalls
    <2>3. /\ Beginning' = Beginning /\ Queued' = Queued /\ pending' = r /\ hooked' = hooked \cup {r}
          /\ UNCHANGED <<at, queue, dialog, answers, asked>>
      BY <1>5 DEF MainPends, Pend, Beginning, Queued
    <2>. HIDE DEF r
    <2>4. PlaceInv'
      BY <2>1, <2>2, <2>3, NoRequestIsNone DEF AgentInv, PlaceInv, OncePlaced, Waits
    <2>5. DialogInv'
      BY <2>1, <2>2, <2>3, NoRequestIsNone DEF AgentInv, DialogInv
    <2>. QED BY <2>2, <2>3, <2>4, <2>5 DEF AgentInv, QueueInv, HookInv
  <1>6. CASE Torn
    <2>1. /\ Beginning' = NoRequest /\ Called' = {} /\ pending' = NoRequest /\ Queued' = {}
          /\ Distinct(stack')
      BY <1>6, FrameTypes DEF Torn, Idle, Beginning, Called, Queued
    <2>2. PlaceInv'
      BY <1>6, <2>1, NoRequestIsNone DEF Torn, AgentInv, PlaceInv, OncePlaced, Waits
    <2>. QED BY <1>6, <2>1, <2>2 DEF Torn, AgentInv, QueueInv, DialogInv, HookInv
  <1>. QED BY <1>1, <1>2, <1>3, <1>4, <1>5, <1>6

LEMMA AgentNext == Types /\ AgentInv /\ [Next]_vars => AgentInv'
  <1>1. AgentInv /\ UNCHANGED vars => AgentInv'
    BY PlacesStay DEF vars, shared, world, Beginning, Called, AgentInv
  <1>. QED BY <1>1, ListenerPlaces, LoopPlaces, CallPlaces DEF Next, MainStep

LEMMA AgentHolds == Spec => []AgentInv
  BY TypesHold, AgentInit, AgentNext, PTL DEF Spec

\* The types, and a request that is in m_requestQueue is there once and not
\* also in the slot.
THEOREM TypeCorrect == Spec => []TypeOK
  <1>1. ASSUME Types, AgentInv PROVE TypeOK
    <2>1. \A i \in DOMAIN queue : queue[i] # pending
      <3>. SUFFICES ASSUME NEW i \in DOMAIN queue PROVE queue[i] # pending
        OBVIOUS
      <3>1. queue[i] \in Queued /\ queue[i] \in Requests
        BY <1>1, LenProperties, ElementOfSeq DEF Queued, Types, SlotOK
      <3>. QED BY <1>1, <3>1 DEF AgentInv, PlaceInv, OncePlaced
    <2>2. /\ queue \in Seq(Requests)
          /\ \A i \in DOMAIN queue : /\ queue[i] # pending
                                     /\ \A j \in DOMAIN queue : queue[i] = queue[j] => i = j
      BY <1>1, <2>1 DEF AgentInv, QueueInv, Types, SlotOK
    <2>. QED BY Zenon, <1>1, <2>2
             DEF Types, ListenerOK, MainOK, SessionOK, SlotOK, WorldOK, AnswersOK, TypeOK, MaybeRequest
  <1>. QED BY <1>1, TypesHold, AgentHolds, PTL

\* completeAuthenticationRequest() runs inside the cancellation of a session,
\* late completions are taken for whatever is pending, and the listener begins
\* a request while the main thread may begin another: no task is returned
\* twice, because a request that has no answer yet is in one place only.
THEOREM NoAnswerTwice == Spec => []AnsweredOnce
  <1>1. AgentInv => AnsweredOnce
    BY DEF AgentInv, PlaceInv, AnsweredOnce
  <1>. QED BY <1>1, AgentHolds, PTL

\* No dialog asks for a request that was answered. One that is on the screen when
\* both threads are at rest is that of the request that is pending and has no
\* answer, or, after both threads have begun one at the same time, that of the
\* other of the two.
THEOREM DialogIsSomeones == Spec => []AskedForSomeone
  <1>1. ASSUME Types, AgentInv PROVE AskedForSomeone
    <2>. SUFFICES ASSUME dialog # NoRequest
                  PROVE  /\ answers[dialog] = 0
                         /\ at = Idle /\ stack = <<>> =>
                               /\ pending # NoRequest /\ answers[pending] = 0
                               /\ {dialog, pending} \subseteq hooked
      BY DEF AskedForSomeone
    <2>1. answers[dialog] = 0
      BY <1>1 DEF AgentInv, DialogInv
    <2>2. ASSUME at = Idle, stack = <<>>
          PROVE  /\ pending # NoRequest /\ answers[pending] = 0
                 /\ {dialog, pending} \subseteq hooked
      <3>1. Called = {} /\ at.do \notin Calling
        BY <2>2, FrameTypes DEF Called, Idle, Calling
      <3>2. pending # NoRequest /\ pending \in Requests /\ {dialog, pending} \subseteq hooked
        BY <1>1, <3>1 DEF AgentInv, DialogInv, HookInv, Types, SlotOK, MaybeRequest
      <3>. QED BY <1>1, <3>2 DEF AgentInv, PlaceInv, Waits
    <2>. QED BY <2>1, <2>2
  <1>. QED BY <1>1, TypesHold, AgentHolds, PTL
=============================================================================
