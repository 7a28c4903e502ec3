------------------------- MODULE InputCaptureProofs -------------------------
(***************************************************************************)
(* Input capture for every set of sessions and any number of calls, locks  *)
(* and deaths.                                                             *)
(*                                                                         *)
(* At most one session captures, in either table.  Neither table looks at  *)
(* the other to keep this, and a late or refused call changes only the     *)
(* table it reaches, so CaptureInv is local: each method of the provider,  *)
(* and each of desktopd's, keeps it from any state that has it, whatever   *)
(* call arrives.                                                           *)
(*                                                                         *)
(* What relates the tables is the calls that are on their way between      *)
(* them.  WayInv says which of them are still waited for (WaitInv,         *)
(* LastInv), which sessions each of them will end (KnownInv), what an      *)
(* Enable that displaces was told before it (RetryInv), and that behind a  *)
(* confirmed end there is no Enable left (OffInv).                         *)
(***************************************************************************)
EXTENDS InputCapture, FiniteSetTheorems, SequenceTheorems, TLAPS

\* Only a lock call is about no session.
Asked == {m \in Call : m.op # "lock" => m.s \in Sessions}

\* What desktopd passes on to the shell.
Passed == {m \in Call : m.op # "lock" /\ m.s \in Sessions}

Served == [call : Call, reply : Reply \cup {None}]

PortaldOK == job \in Job \cup {None} /\ gen \in Nat

HostOK ==
  /\ host \in [Sessions -> HostRecord] /\ backend \in {"dbus", "none"}
  /\ inbox \in Seq(Asked) /\ serving \in Served \cup {None}

HostOne == \A s, t \in HostCapturing : s = t

ProviderOK ==
  /\ prov \in [Sessions -> Provider!Record] /\ active \in Sessions \cup {NoSession}
  /\ ProviderCapturing = {active} \ {NoSession}
  /\ count = Cardinality(ProviderCapturing)

ShellOK == shell \in {"down", "ready", "locking"} /\ outbox \in Seq(Passed)

GhostsOK ==
  /\ open \subseteq Sessions /\ off \subseteq Sessions /\ disturbed \in BOOLEAN
  /\ asks \in Nat /\ locks \in Nat /\ deaths \in Nat

CaptureInv ==
  PortaldOK /\ HostOK /\ HostOne /\ ProviderOK /\ ShellOK /\ GhostsOK

-----------------------------------------------------------------------------
\* What the invariant says.

LEMMA FiniteCounts ==
  ASSUME NEW table \in [Sessions -> Provider!Record]
  PROVE  Cardinality(Provider!Capturing(table)) \in Nat
  <1>1. Provider!Capturing(table) \in SUBSET Sessions
    BY DEF Provider!Capturing
  <1>. QED BY <1>1, SessionsAssumption, FS_Subset, FS_CardinalityType

LEMMA InvGives ==
  ASSUME CaptureInv
  PROVE  TypeOK /\ OneCapture
  <1>1. count \in Nat
    BY FiniteCounts DEF CaptureInv, ProviderOK, ProviderCapturing
  <1>2. Seq(Asked) \subseteq Seq(Call) /\ Seq(Passed) \subseteq Seq(Call)
    BY DEF Asked, Passed
  <1>3. TypeOK
    BY <1>1, <1>2 DEF CaptureInv, PortaldOK, HostOK, ProviderOK, ShellOK, GhostsOK, TypeOK, Served
  <1>4. OneCapture
    BY DEF CaptureInv, HostOne, ProviderOK, OneCapture
  <1>. QED BY <1>3, <1>4

-----------------------------------------------------------------------------
\* The provider's methods.

\* The provider's module counts as this one does.
LEMMA SameCardinality == \A S : Provider!Cardinality(S) = Cardinality(S)
  BY DEF Provider!Cardinality, Cardinality

LEMMA SettleKeeps ==
  ASSUME NEW table \in [Sessions -> Provider!Record],
         NEW first \in Sessions \cup {NoSession},
         Provider!Capturing(table) = {first} \ {NoSession},
         Provider!Settle(table, first)
  PROVE  ProviderOK'
  <1>1. prov' = table /\ active' = first /\ count' = Cardinality(Provider!Capturing(table))
    BY SameCardinality DEF Provider!Settle
  <1>2. ProviderCapturing' = Provider!Capturing(table)
    BY <1>1 DEF ProviderCapturing, Provider!Capturing
  <1>. QED BY <1>1, <1>2 DEF ProviderOK

LEMMA PassOnKeeps ==
  ASSUME ProviderOK, NEW s \in Sessions, NEW table \in [Sessions -> Provider!Record],
         Provider!Capturing(table) = ProviderCapturing \ {s},
         Provider!PassOn(s, table)
  PROVE  ProviderOK'
  <1>1. PICK first \in Sessions \cup {NoSession} :
          /\ IF active = s THEN Provider!FirstEnabled(table, first) ELSE first = active
          /\ Provider!Settle(table, first)
    BY DEF Provider!PassOn
  <1>2. Provider!Capturing(table) = {first} \ {NoSession}
    <2>1. CASE active = s
      <3>1. Provider!Capturing(table) = {}
        BY <2>1 DEF ProviderOK
      <3>. QED BY <1>1, <2>1, <3>1 DEF Provider!FirstEnabled
    <2>2. CASE active # s
      BY <1>1, <2>2 DEF ProviderOK
    <2>. QED BY <2>1, <2>2
  <1>. QED BY <1>1, <1>2, SettleKeeps

\* A session's record changes, and it does not capture any more.
LEMMA CeasesToCapture ==
  ASSUME ProviderOK, NEW s \in Sessions, NEW r \in Provider!Record, ~r.enabled
  PROVE  /\ [prov EXCEPT ![s] = r] \in [Sessions -> Provider!Record]
         /\ Provider!Capturing([prov EXCEPT ![s] = r]) = ProviderCapturing \ {s}
  BY DEF ProviderOK, ProviderCapturing, Provider!Capturing

LEMMA TakeOverKeeps ==
  ASSUME ProviderOK, NEW s \in Sessions, NEW other \in Sessions \cup {NoSession},
         ProviderCapturing \ {s} = {other} \ {NoSession}, other # s,
         NEW stuck, NEW ok, Provider!TakeOver(s, other, stuck, ok)
  PROVE  ProviderOK'
  <1>. DEFINE taken == [t \in Sessions |->
                          CASE t = s     -> [known |-> TRUE, enabled |-> TRUE]
                            [] t = other -> [prov[t] EXCEPT !.enabled = FALSE]
                            [] OTHER     -> prov[t]]
              undone == [prov EXCEPT ![s].enabled = FALSE]
  <1>1. CASE ~stuck
    <2>1. Provider!Settle(taken, s)
      BY <1>1 DEF Provider!TakeOver
    <2>2. taken \in [Sessions -> Provider!Record]
      BY DEF ProviderOK, Provider!Record
    <2>3. Provider!Capturing(taken) = {s}
      BY DEF ProviderOK, ProviderCapturing, Provider!Capturing, Provider!Record
    <2>4. s # NoSession
      BY SessionsAssumption
    <2>. QED BY <2>1, <2>2, <2>3, <2>4, SettleKeeps
  <1>2. CASE stuck
    <2>1. PICK first \in Sessions \cup {NoSession} :
            /\ IF other # NoSession THEN first = other
                                    ELSE Provider!FirstEnabled(undone, first)
            /\ Provider!Settle(undone, first)
      BY <1>2 DEF Provider!TakeOver
    <2>2. [prov[s] EXCEPT !.enabled = FALSE] \in Provider!Record
          /\ ~[prov[s] EXCEPT !.enabled = FALSE].enabled
          /\ undone = [prov EXCEPT ![s] = [prov[s] EXCEPT !.enabled = FALSE]]
      BY DEF ProviderOK, Provider!Record
    <2>3. /\ undone \in [Sessions -> Provider!Record]
          /\ Provider!Capturing(undone) = {other} \ {NoSession}
      BY <2>2, CeasesToCapture
    <2>4. Provider!Capturing(undone) = {first} \ {NoSession}
      <3>1. CASE other # NoSession
        BY <2>1, <2>3, <3>1
      <3>2. CASE other = NoSession
        BY <2>1, <2>3, <3>2 DEF Provider!FirstEnabled
      <3>. QED BY <3>1, <3>2
    <2>. QED BY <2>1, <2>3, <2>4, SettleKeeps
  <1>. QED BY <1>1, <1>2

LEMMA ProviderStays ==
  ASSUME ProviderOK, UNCHANGED provVars
  PROVE  ProviderOK'
  BY DEF ProviderOK, ProviderCapturing, Provider!Capturing, provVars

\* At most one session captures, so a take-over names the only other one.
LEMMA EnableKeeps ==
  ASSUME ProviderOK, NEW s \in Sessions, NEW preempt, NEW stuck, NEW ok,
         Provider!EnableSession(s, preempt, stuck, ok)
  PROVE  ProviderOK'
  <1>1. CASE UNCHANGED <<prov, active, count>>
    BY <1>1, ProviderStays DEF provVars
  <1>2. CASE /\ ProviderCapturing \ {s} = {}
             /\ Provider!TakeOver(s, NoSession, stuck, ok)
    <2>1. s # NoSession
      BY SessionsAssumption
    <2>. QED BY <1>2, <2>1, TakeOverKeeps
  <1>3. CASE \E other \in ProviderCapturing \ {s} : Provider!TakeOver(s, other, stuck, ok)
    <2>1. PICK other \in ProviderCapturing \ {s} : Provider!TakeOver(s, other, stuck, ok)
      BY <1>3
    <2>2. other \in Sessions /\ other # s /\ ProviderCapturing \ {s} = {other} \ {NoSession}
      BY <2>1 DEF ProviderOK, ProviderCapturing, Provider!Capturing
    <2>. QED BY <2>1, <2>2, TakeOverKeeps
  <1>. QED BY <1>1, <1>2, <1>3 DEF Provider!EnableSession, Provider!provVars, ProviderCapturing

LEMMA DisableKeeps ==
  ASSUME ProviderOK, NEW s \in Sessions, NEW stuck, NEW ok,
         Provider!DisableSession(s, stuck, ok)
  PROVE  ProviderOK'
  <1>. DEFINE ended == [prov EXCEPT ![s].enabled = FALSE]
  <1>1. /\ ended \in [Sessions -> Provider!Record]
        /\ Provider!Capturing(ended) = ProviderCapturing \ {s}
    <2>1. /\ [prov[s] EXCEPT !.enabled = FALSE] \in Provider!Record
          /\ ~[prov[s] EXCEPT !.enabled = FALSE].enabled
          /\ ended = [prov EXCEPT ![s] = [prov[s] EXCEPT !.enabled = FALSE]]
      BY DEF ProviderOK, Provider!Record
    <2>. QED BY <2>1, CeasesToCapture
  <1>2. CASE UNCHANGED <<prov, active, count>>
    BY <1>2, ProviderStays DEF provVars
  <1>3. CASE Provider!PassOn(s, ended)
    BY <1>1, <1>3, PassOnKeeps
  <1>4. CASE prov[s].enabled /\ Provider!Settle(prov, s)
    <2>1. Provider!Capturing(prov) = {s} /\ s # NoSession
      BY <1>4, SessionsAssumption DEF ProviderOK, ProviderCapturing, Provider!Capturing
    <2>. QED BY <1>4, <2>1, SettleKeeps DEF ProviderOK
  <1>. QED BY <1>2, <1>3, <1>4 DEF Provider!DisableSession, Provider!provVars

LEMMA ReleaseKeeps ==
  ASSUME ProviderOK, NEW s \in Sessions, NEW ok, Provider!ReleaseSession(s, ok)
  PROVE  ProviderOK'
  <1>1. CASE UNCHANGED <<prov, active, count>>
    BY <1>1, ProviderStays DEF provVars
  <1>2. CASE Provider!PassOn(s, [prov EXCEPT ![s] = Provider!NoRecord])
    <2>1. Provider!NoRecord \in Provider!Record /\ ~Provider!NoRecord.enabled
      BY DEF Provider!NoRecord, Provider!Record
    <2>. QED BY <1>2, <2>1, CeasesToCapture, PassOnKeeps
  <1>. QED BY <1>1, <1>2 DEF Provider!ReleaseSession, Provider!provVars

LEMMA CreateKeeps ==
  ASSUME ProviderOK, NEW s \in Sessions, NEW ok, Provider!CreateSession(s, ok)
  PROVE  ProviderOK'
  <1>1. /\ prov' = [prov EXCEPT ![s].known = TRUE] /\ active' = active /\ count' = count
    BY DEF Provider!CreateSession
  <1>2. /\ prov' \in [Sessions -> Provider!Record]
        /\ \A t \in Sessions : prov'[t].enabled = prov[t].enabled
    BY <1>1 DEF ProviderOK, Provider!Record
  <1>3. ProviderCapturing' = ProviderCapturing
    BY <1>2 DEF ProviderCapturing, Provider!Capturing
  <1>. QED BY <1>1, <1>2, <1>3 DEF ProviderOK

LEMMA ProviderServesKeeps ==
  ASSUME ProviderOK, NEW m \in Passed, NEW stuck, NEW ok, ProviderServes(m, stuck, ok)
  PROVE  ProviderOK'
  <1>1. m.s \in Sessions
    BY DEF Passed
  <1>2. Provider!SetPointerBarriers(m.s, stuck, ok) => UNCHANGED <<prov, active, count>>
    BY DEF Provider!SetPointerBarriers, Provider!provVars
  <1>. QED BY <1>1, <1>2, CreateKeeps, EnableKeeps, DisableKeeps, ReleaseKeeps, ProviderStays
         DEF ProviderServes, provVars

-----------------------------------------------------------------------------
\* Calls and answers.

LEMMA QueueTypes ==
  ASSUME NEW S, NEW q \in Seq(S)
  PROVE  /\ \A m \in S : Append(q, m) \in Seq(S)
         /\ q # <<>> => Head(q) \in S /\ Tail(q) \in Seq(S)
         /\ \A g : (\A m \in S : g[m] \in S) =>
                [i \in DOMAIN q |-> g[q[i]]] \in Seq(S)
  <1>1. Len(q) \in Nat /\ DOMAIN q = 1 .. Len(q) /\ \A i \in DOMAIN q : q[i] \in S
    OBVIOUS
  <1>2. ASSUME NEW g, \A m \in S : g[m] \in S
        PROVE  [i \in DOMAIN q |-> g[q[i]]] \in Seq(S)
    <2>1. [i \in DOMAIN q |-> g[q[i]]] \in [1 .. Len(q) -> S]
      BY <1>1, <1>2
    <2>. QED BY <1>1, <2>1
  <1>. QED BY <1>2, AppendProperties, HeadTailProperties

\* A call that is no longer waited for is the same call.
LEMMA Unwaited ==
  ASSUME NEW m \in Call
  PROVE  /\ [m EXCEPT !.live = FALSE] \in Call /\ [m EXCEPT !.live = TRUE] \in Call
         /\ m \in Asked => [m EXCEPT !.live = FALSE] \in Asked
         /\ m \in Passed => [m EXCEPT !.live = FALSE] \in Passed
         /\ m \in Asked /\ m.op # "lock" => [m EXCEPT !.live = TRUE] \in Passed
  <1>1. /\ [m EXCEPT !.live = FALSE] \in Call /\ [m EXCEPT !.live = TRUE] \in Call
        /\ [m EXCEPT !.live = FALSE].op = m.op /\ [m EXCEPT !.live = FALSE].s = m.s
        /\ [m EXCEPT !.live = TRUE].op = m.op /\ [m EXCEPT !.live = TRUE].s = m.s
    BY DEF Call
  <1>. QED BY <1>1 DEF Asked, Passed

LEMMA AbandonTypes ==
  ASSUME NEW S, S = Asked \/ S = Passed, NEW q \in Seq(S)
  PROVE  Abandon(q) \in Seq(S) /\ AbandonLocks(q) \in Seq(S)
  <1>0. \A m \in S : m \in Call /\ [m EXCEPT !.live = FALSE] \in S
    BY Unwaited DEF Asked, Passed
  <1>1. Abandon(q) \in Seq(S)
    <2>. DEFINE g == [m \in S |-> IF m.op = "lock" THEN m ELSE [m EXCEPT !.live = FALSE]]
    <2>1. \A m \in S : g[m] \in S
      BY <1>0
    <2>2. [i \in DOMAIN q |-> g[q[i]]] \in Seq(S)
      BY <2>1, QueueTypes
    <2>3. \A i \in DOMAIN q : q[i] \in S
      OBVIOUS
    <2>4. Abandon(q) = [i \in DOMAIN q |-> g[q[i]]]
      BY <2>3 DEF Abandon
    <2>. QED BY <2>2, <2>4
  <1>2. AbandonLocks(q) \in Seq(S)
    <2>. DEFINE g == [m \in S |-> IF m.op = "lock" THEN [m EXCEPT !.live = FALSE] ELSE m]
    <2>1. \A m \in S : g[m] \in S
      BY <1>0
    <2>2. [i \in DOMAIN q |-> g[q[i]]] \in Seq(S)
      BY <2>1, QueueTypes
    <2>3. \A i \in DOMAIN q : q[i] \in S
      OBVIOUS
    <2>4. AbandonLocks(q) = [i \in DOMAIN q |-> g[q[i]]]
      BY <2>3 DEF AbandonLocks
    <2>. QED BY <2>2, <2>4
  <1>. QED BY <1>1, <1>2

\* An answer to a portald that waits for none, or for nothing, is lost.
LEMMA AnsweredJob ==
  ASSUME job \in Job \cup {None}, NEW reply \in Reply
  PROVE  [job EXCEPT !.reply = reply] \in Job \cup {None}
  <1>1. CASE job \in Job
    BY <1>1 DEF Job
  <1>2. CASE job = None
    BY <1>2 DEF None
  <1>. QED BY <1>1, <1>2

LEMMA Replies ==
  /\ \A ok, applied \in BOOLEAN : \A conflict \in Sessions \cup {NoSession} :
        Answer(ok, applied, conflict) \in Reply
  /\ Lost \in Reply
  BY DEF Answer, Lost, Reply

LEMMA RepliesTo ==
  ASSUME job \in Job \cup {None}, NEW m, NEW reply \in Reply, ReplyTo(m, reply)
  PROVE  job' \in Job \cup {None}
  BY AnsweredJob DEF ReplyTo

LEMMA AbandonedServing ==
  ASSUME serving \in Served \cup {None}
  PROVE  AbandonServing \in Served \cup {None}
  BY DEF AbandonServing, Served, Call

LEMMA LostServing ==
  ASSUME serving \in Served \cup {None}, serving # None, NEW reply \in Reply
  PROVE  [serving EXCEPT !.reply = reply] \in Served \cup {None}
  BY DEF Served

\* What portald asks for in a job it has.
LEMMA JobShape ==
  ASSUME job \in Job
  PROVE  /\ job.op \in Ops /\ job.s \in Sessions /\ job.strict \in BOOLEAN
         /\ job.over \in Sessions \cup {NoSession}
         /\ job.reply # None => job.reply.conflict \in Sessions \cup {NoSession}
  BY DEF Job, Reply

LEMMA CallHostTypes ==
  ASSUME inbox \in Seq(Asked), gen \in Nat,
         NEW op \in Ops, NEW s \in Sessions, NEW over \in Sessions \cup {NoSession},
         NEW strict \in BOOLEAN, CallHost(op, s, over, strict)
  PROVE  inbox' \in Seq(Asked)
  <1>1. [op |-> op, s |-> s, by |-> gen, over |-> over, strict |-> strict, live |-> TRUE]
          \in Asked
    BY DEF Asked, Call
  <1>. QED BY <1>1, QueueTypes DEF CallHost

-----------------------------------------------------------------------------
\* The steps.

\* portald's steps leave both tables alone.
LEMMA TablesStay ==
  ASSUME CaptureInv, UNCHANGED <<host, prov, active, count>>,
         PortaldOK', inbox' \in Seq(Asked), serving' \in Served \cup {None},
         backend' \in {"dbus", "none"}, ShellOK', GhostsOK'
  PROVE  CaptureInv'
  <1>1. HostOK' /\ HostOne'
    BY DEF CaptureInv, HostOK, HostOne, HostCapturing
  <1>2. ProviderOK'
    BY ProviderStays DEF CaptureInv, provVars
  <1>. QED BY <1>1, <1>2 DEF CaptureInv

LEMMA AskStep ==
  ASSUME CaptureInv, Strict \subseteq BOOLEAN,
         NEW op \in Ops, NEW s \in Sessions, NEW mode \in Modes, NEW strict \in Strict,
         Ask(op, s, mode, strict)
  PROVE  CaptureInv'
  <1>1. inbox' \in Seq(Asked)
    BY CallHostTypes DEF Ask, CaptureInv, HostOK, PortaldOK
  <1>2. PortaldOK'
    BY DEF Ask, CaptureInv, PortaldOK, Job
  <1>3. ShellOK' /\ serving' \in Served \cup {None} /\ backend' \in {"dbus", "none"}
    BY DEF Ask, CaptureInv, HostOK, ShellOK, shellVars
  <1>4. open' \subseteq Sessions /\ off' \subseteq Sessions
    BY DEF Ask, CaptureInv, GhostsOK
  <1>5. GhostsOK'
    BY <1>4 DEF Ask, CaptureInv, GhostsOK
  <1>6. UNCHANGED <<host, prov, active, count>>
    BY DEF Ask, shellVars
  <1>. QED BY <1>1, <1>2, <1>3, <1>5, <1>6, TablesStay

LEMMA RetryStep ==
  ASSUME CaptureInv, job \in Job, NEW over \in Sessions \cup {NoSession}, Retry(over),
         UNCHANGED <<gen, host, backend, serving, shellVars, open, disturbed, bounds>>
  PROVE  CaptureInv'
  <1>1. inbox' \in Seq(Asked)
    <2>1. "enable" \in Ops
      BY DEF Ops
    <2>. QED BY <2>1, JobShape, CallHostTypes DEF Retry, CaptureInv, HostOK, PortaldOK
  <1>2. PortaldOK'
    BY DEF Retry, CaptureInv, PortaldOK, Job
  <1>3. ShellOK' /\ serving' \in Served \cup {None} /\ backend' \in {"dbus", "none"}
    BY DEF CaptureInv, HostOK, ShellOK, shellVars
  <1>4. GhostsOK'
    BY DEF Retry, CaptureInv, GhostsOK, bounds
  <1>5. UNCHANGED <<host, prov, active, count>>
    BY DEF shellVars
  <1>. QED BY <1>1, <1>2, <1>3, <1>4, <1>5, TablesStay

LEMMA ReturnStep ==
  ASSUME CaptureInv, job # None, Return,
         UNCHANGED <<gen, hostVars, shellVars, open, disturbed, bounds>>
  PROVE  CaptureInv'
  <1>1. PortaldOK'
    BY DEF Return, CaptureInv, PortaldOK
  <1>2. inbox' \in Seq(Asked) /\ serving' \in Served \cup {None}
        /\ backend' \in {"dbus", "none"} /\ ShellOK'
    BY DEF CaptureInv, HostOK, ShellOK, hostVars, shellVars
  <1>3. off' \subseteq Sessions
    <2>1. job \in Job
      BY DEF CaptureInv, PortaldOK
    <2>. QED BY <2>1, JobShape DEF Return, CaptureInv, GhostsOK
  <1>4. GhostsOK'
    BY <1>3 DEF CaptureInv, GhostsOK, bounds
  <1>5. UNCHANGED <<host, prov, active, count>>
    BY DEF hostVars, shellVars
  <1>. QED BY <1>1, <1>2, <1>3, <1>4, <1>5, TablesStay

LEMMA PortaldSteps ==
  ASSUME CaptureInv,
         RetryUnasked \/ AskUser \/ BridgeReturns \/ UserAllows \/ ConsentEnds
  PROVE  CaptureInv'
  <1>1. job # None /\ job \in Job
    BY DEF CaptureInv, PortaldOK, RetryUnasked, AskUser, BridgeReturns, UserAllows,
           ConsentEnds, Conflicted
  <1>2. Conflicted => job.reply.conflict \in Sessions \cup {NoSession}
    BY <1>1, JobShape DEF Conflicted
  <1>3. CASE RetryUnasked
    BY <1>1, <1>2, <1>3, RetryStep DEF RetryUnasked
  <1>4. CASE UserAllows
    BY <1>1, <1>4, JobShape, RetryStep DEF UserAllows
  <1>5. CASE BridgeReturns \/ ConsentEnds
    BY <1>1, <1>5, ReturnStep DEF BridgeReturns, ConsentEnds
  <1>6. CASE AskUser
    <2>1. PortaldOK'
      BY <1>1, <1>2, <1>6 DEF AskUser, CaptureInv, PortaldOK, Job
    <2>2. inbox' \in Seq(Asked) /\ serving' \in Served \cup {None}
          /\ backend' \in {"dbus", "none"} /\ ShellOK'
      BY <1>6 DEF AskUser, CaptureInv, HostOK, ShellOK, hostVars, shellVars
    <2>3. GhostsOK'
      BY <1>6 DEF AskUser, CaptureInv, GhostsOK, ghosts, bounds
    <2>4. UNCHANGED <<host, prov, active, count>>
      BY <1>6 DEF AskUser, hostVars, shellVars
    <2>. QED BY <2>1, <2>2, <2>3, <2>4, TablesStay
  <1>. QED BY <1>3, <1>4, <1>5, <1>6

LEMMA PortaldTimesOutStep ==
  ASSUME CaptureInv, PortaldTimesOut
  PROVE  CaptureInv'
  <1>1. PortaldOK'
    BY AnsweredJob, Replies DEF PortaldTimesOut, CaptureInv, PortaldOK
  <1>2. inbox' \in Seq(Asked)
    BY AbandonTypes DEF PortaldTimesOut, CaptureInv, HostOK
  <1>3. serving' \in Served \cup {None} /\ backend' \in {"dbus", "none"} /\ ShellOK'
    BY AbandonedServing DEF PortaldTimesOut, CaptureInv, HostOK, ShellOK, shellVars
  <1>4. GhostsOK'
    BY DEF PortaldTimesOut, CaptureInv, GhostsOK, ghosts, bounds
  <1>5. UNCHANGED <<host, prov, active, count>>
    BY DEF PortaldTimesOut, shellVars
  <1>. QED BY <1>1, <1>2, <1>3, <1>4, <1>5, TablesStay

-----------------------------------------------------------------------------
\* desktopd's methods: what they do to the table, and to everything else.

HostTable == host \in [Sessions -> HostRecord] /\ HostOne

HostAnswers == /\ job' \in Job \cup {None} /\ serving' \in Served \cup {None}
               /\ outbox' \in Seq(Passed) /\ disturbed' \in BOOLEAN

LEMMA ReplyAnswers ==
  ASSUME CaptureInv, NEW m, NEW reply \in Reply, ReplyTo(m, reply),
         UNCHANGED <<outbox, serving, disturbed>>
  PROVE  HostAnswers
  BY RepliesTo DEF CaptureInv, PortaldOK, HostOK, ShellOK, GhostsOK, HostAnswers

LEMMA CallBackendAnswers ==
  ASSUME CaptureInv, NEW m \in Asked, m.op # "lock", CallBackend(m)
  PROVE  HostAnswers
  <1>1. Answer(TRUE, FALSE, NoSession) \in Reply
    BY Replies
  <1>2. CASE backend = "dbus" /\ shell # "down"
    <2>1. m \in Call /\ [m EXCEPT !.live = TRUE] \in Passed
      BY Unwaited DEF Asked
    <2>2. outbox' \in Seq(Passed)
      BY <1>2, <2>1, QueueTypes DEF CallBackend, CaptureInv, ShellOK
    <2>3. serving' \in Served \cup {None}
      BY <1>2, <2>1 DEF CallBackend, Served
    <2>. QED BY <1>2, <2>2, <2>3
         DEF CallBackend, CaptureInv, PortaldOK, GhostsOK, HostAnswers
  <1>3. CASE ~(backend = "dbus" /\ shell # "down")
    BY <1>1, <1>3, RepliesTo
       DEF CallBackend, CaptureInv, PortaldOK, HostOK, ShellOK, HostAnswers
  <1>. QED BY <1>2, <1>3

LEMMA RefuseAnswers ==
  ASSUME CaptureInv, NEW m, NEW conflict \in Sessions \cup {NoSession}, Refuse(m, conflict)
  PROVE  HostTable' /\ HostAnswers
  <1>1. Answer(FALSE, FALSE, conflict) \in Reply
    BY Replies
  <1>2. HostAnswers
    BY <1>1, ReplyAnswers DEF Refuse
  <1>3. HostTable'
    BY DEF Refuse, CaptureInv, HostOK, HostOne, HostCapturing, HostTable
  <1>. QED BY <1>2, <1>3

\* A session's record changes, and nothing captures that did not before.
LEMMA NobodyElseCaptures ==
  ASSUME CaptureInv, NEW s \in Sessions, NEW r \in HostRecord,
         r.enabled => host[s].enabled, host' = [host EXCEPT ![s] = r]
  PROVE  HostTable'
  <1>1. host' \in [Sessions -> HostRecord] /\ HostCapturing' \subseteq HostCapturing
    BY DEF CaptureInv, HostOK, HostCapturing
  <1>. QED BY <1>1 DEF CaptureInv, HostOne, HostTable

LEMMA EnableAnswers ==
  ASSUME CaptureInv, NEW m \in Asked, m.op # "lock", HostEnable(m)
  PROVE  HostTable' /\ HostAnswers
  <1>. DEFINE others == HostCapturing \ {m.s}
  <1>0. m.s \in Sessions /\ host \in [Sessions -> HostRecord]
        /\ host[m.s] \in HostRecord /\ \A s, t \in HostCapturing : s = t
    BY DEF Asked, CaptureInv, HostOK, HostOne
  <1>1. CASE Refuse(m, NoSession)
    BY <1>1, RefuseAnswers
  <1>2. CASE \E other \in others : Refuse(m, other)
    BY <1>2, RefuseAnswers DEF HostCapturing
  <1>3. CASE /\ ReplyTo(m, Answer(TRUE, FALSE, NoSession))
             /\ UNCHANGED <<host, outbox, serving, disturbed>>
    <2>1. HostTable'
      BY <1>3 DEF CaptureInv, HostOK, HostOne, HostCapturing, HostTable
    <2>. QED BY <1>3, <2>1, Replies, ReplyAnswers
  <1>4. CASE /\ others = {} /\ CallBackend(m)
             /\ host' = [host EXCEPT ![m.s].known = TRUE, ![m.s].enabled = TRUE]
    <2>1. host' \in [Sessions -> HostRecord] /\ \A s \in Sessions \ {m.s} : host'[s] = host[s]
      BY <1>0, <1>4 DEF HostRecord
    <2>2. HostCapturing' \subseteq {m.s}
      BY <1>4, <2>1 DEF HostCapturing
    <2>. QED BY <1>4, <2>1, <2>2, CallBackendAnswers DEF HostOne, HostTable
  <1>5. CASE /\ CallBackend(m)
             /\ \E other \in others :
                   host' = [host EXCEPT ![other].enabled = FALSE,
                                        ![m.s].known = TRUE, ![m.s].enabled = TRUE]
    <2>1. PICK other \in others :
                   host' = [host EXCEPT ![other].enabled = FALSE,
                                        ![m.s].known = TRUE, ![m.s].enabled = TRUE]
      BY <1>5
    <2>2. other \in Sessions /\ other # m.s /\ others = {other}
      BY <1>0, <2>1 DEF HostCapturing
    <2>3. /\ host' \in [Sessions -> HostRecord] /\ ~host'[other].enabled
          /\ \A s \in Sessions \ {m.s, other} : host'[s] = host[s]
      BY <1>0, <2>1, <2>2 DEF HostRecord
    <2>4. HostCapturing' \subseteq {m.s}
      BY <2>2, <2>3 DEF HostCapturing
    <2>. QED BY <1>5, <2>3, <2>4, CallBackendAnswers DEF HostOne, HostTable
  <1>. QED BY <1>1, <1>2, <1>3, <1>4, <1>5 DEF HostEnable

LEMMA OtherAnswers ==
  ASSUME CaptureInv, NEW m \in Asked, m.op # "lock",
         HostCreate(m) \/ HostBarriers(m) \/ HostDisable(m) \/ HostRelease(m)
  PROVE  HostTable' /\ HostAnswers
  <1>0. m.s \in Sessions /\ m.by \in Nat /\ host \in [Sessions -> HostRecord]
        /\ host[m.s] \in HostRecord
    BY DEF Asked, Call, CaptureInv, HostOK
  <1>1. CASE Refuse(m, NoSession)
    BY <1>1, RefuseAnswers
  <1>2. CASE HostCreate(m)
    <2>. DEFINE r == [host[m.s] EXCEPT !.known = TRUE, !.owner = m.by]
    <2>1. r \in HostRecord /\ r.enabled = host[m.s].enabled /\ host' = [host EXCEPT ![m.s] = r]
      BY <1>0, <1>2 DEF HostCreate, HostRecord
    <2>. QED BY <1>0, <1>2, <2>1, NobodyElseCaptures, CallBackendAnswers DEF HostCreate
  <1>3. CASE CallBackend(m) /\ host' = [host EXCEPT ![m.s].known = TRUE]
    <2>. DEFINE r == [host[m.s] EXCEPT !.known = TRUE]
    <2>1. r \in HostRecord /\ r.enabled = host[m.s].enabled /\ host' = [host EXCEPT ![m.s] = r]
      BY <1>0, <1>3 DEF HostRecord
    <2>. QED BY <1>0, <1>3, <2>1, NobodyElseCaptures, CallBackendAnswers
  <1>4. CASE /\ CallBackend(m)
             /\ host' = [host EXCEPT ![m.s].known = TRUE, ![m.s].enabled = FALSE]
    <2>. DEFINE r == [host[m.s] EXCEPT !.known = TRUE, !.enabled = FALSE]
    <2>1. r \in HostRecord /\ ~r.enabled /\ host' = [host EXCEPT ![m.s] = r]
      BY <1>0, <1>4 DEF HostRecord
    <2>. QED BY <1>0, <1>4, <2>1, NobodyElseCaptures, CallBackendAnswers
  <1>5. CASE CallBackend(m) /\ host' = [host EXCEPT ![m.s] = NoHostRecord]
    <2>1. NoHostRecord \in HostRecord /\ ~NoHostRecord.enabled
      BY DEF NoHostRecord, HostRecord
    <2>. QED BY <1>0, <1>5, <2>1, NobodyElseCaptures, CallBackendAnswers
  <1>. QED BY <1>1, <1>2, <1>3, <1>4, <1>5 DEF HostBarriers, HostDisable, HostRelease

LEMMA HostServesStep ==
  ASSUME CaptureInv, HostServes
  PROVE  CaptureInv'
  <1>. DEFINE m == Head(inbox)
  <1>1. m \in Asked /\ inbox' \in Seq(Asked)
    BY QueueTypes DEF HostServes, CaptureInv, HostOK
  <1>2. HostTable' /\ HostAnswers /\ shell' \in {"down", "ready", "locking"}
    <2>1. CASE /\ shell' = IF m.live THEN "ready" ELSE shell
               /\ UNCHANGED <<job, host, outbox, serving, disturbed>>
      BY <2>1 DEF CaptureInv, PortaldOK, HostOK, HostOne, HostCapturing, ShellOK, GhostsOK,
                  HostTable, HostAnswers
    <2>2. CASE m.op # "lock" /\ HostEnable(m) /\ UNCHANGED shell
      BY <1>1, <2>2, EnableAnswers DEF CaptureInv, ShellOK
    <2>3. CASE /\ m.op # "lock" /\ UNCHANGED shell
               /\ HostCreate(m) \/ HostBarriers(m) \/ HostDisable(m) \/ HostRelease(m)
      BY <1>1, <2>3, OtherAnswers DEF CaptureInv, ShellOK
    <2>. QED BY <2>1, <2>2, <2>3 DEF HostServes
  <1>3. ProviderOK'
    BY ProviderStays DEF HostServes, CaptureInv
  <1>4. backend' \in {"dbus", "none"} /\ gen' \in Nat /\ open' \subseteq Sessions
        /\ off' \subseteq Sessions /\ asks' \in Nat /\ locks' \in Nat /\ deaths' \in Nat
    BY DEF HostServes, CaptureInv, PortaldOK, HostOK, GhostsOK, bounds
  <1>. QED BY <1>1, <1>2, <1>3, <1>4
       DEF CaptureInv, PortaldOK, HostOK, ShellOK, GhostsOK, HostTable, HostAnswers

LEMMA HostEndsStep ==
  ASSUME CaptureInv, HostReplies \/ HostTimesOut
  PROVE  CaptureInv'
  <1>1. CASE HostReplies
    <2>1. serving \in Served /\ serving.reply \in Reply
      BY <1>1 DEF HostReplies, CaptureInv, HostOK, Served
    <2>2. Answer(TRUE, serving.reply.applied, NoSession) \in Reply
      BY <2>1, Replies DEF Reply
    <2>3. PortaldOK'
      BY <1>1, <2>2, RepliesTo DEF HostReplies, CaptureInv, PortaldOK
    <2>4. inbox' \in Seq(Asked) /\ serving' \in Served \cup {None}
          /\ backend' \in {"dbus", "none"} /\ ShellOK'
      BY <1>1 DEF HostReplies, CaptureInv, HostOK, ShellOK, shellVars
    <2>5. GhostsOK' /\ UNCHANGED <<host, prov, active, count>>
      BY <1>1 DEF HostReplies, CaptureInv, GhostsOK, ghosts, bounds, shellVars
    <2>. QED BY <2>3, <2>4, <2>5, TablesStay
  <1>2. CASE HostTimesOut
    <2>1. serving' \in Served \cup {None}
      BY <1>2, LostServing, Replies DEF HostTimesOut, CaptureInv, HostOK
    <2>2. ShellOK'
      BY <1>2, AbandonTypes DEF HostTimesOut, CaptureInv, ShellOK
    <2>3. PortaldOK' /\ inbox' \in Seq(Asked) /\ backend' \in {"dbus", "none"}
      BY <1>2 DEF HostTimesOut, CaptureInv, PortaldOK, HostOK, portaldVars
    <2>4. GhostsOK' /\ UNCHANGED <<host, prov, active, count>>
      BY <1>2 DEF HostTimesOut, CaptureInv, GhostsOK, ghosts, bounds, provVars
    <2>. QED BY <2>1, <2>2, <2>3, <2>4, TablesStay
  <1>. QED BY <1>1, <1>2

-----------------------------------------------------------------------------
\* The shell's steps leave desktopd's table alone.

LEMMA HostStays ==
  ASSUME CaptureInv, UNCHANGED <<host, backend>>,
         inbox' \in Seq(Asked), serving' \in Served \cup {None}
  PROVE  HostOK' /\ HostOne'
  BY DEF CaptureInv, HostOK, HostOne, HostCapturing

LEMMA ShellServesStep ==
  ASSUME CaptureInv, ShellServes
  PROVE  CaptureInv'
  <1>. DEFINE m == Head(outbox)
  <1>1. m \in Passed /\ outbox' \in Seq(Passed)
    BY QueueTypes DEF ShellServes, CaptureInv, ShellOK
  <1>2. PICK stuck, ok \in BOOLEAN :
          /\ ProviderServes(m, stuck, ok)
          /\ serving' = IF m.live
                        THEN [serving EXCEPT !.reply = Answer(ok, ok, NoSession)]
                        ELSE serving
          /\ disturbed' = (disturbed \/ ~ok)
    BY DEF ShellServes
  <1>3. ProviderOK'
    BY <1>1, <1>2, ProviderServesKeeps DEF CaptureInv
  <1>4. serving' \in Served \cup {None}
    <2>1. Answer(ok, ok, NoSession) \in Reply
      BY Replies
    <2>2. CASE serving = None
      BY <1>2, <2>2 DEF None
    <2>3. CASE serving # None
      BY <1>2, <2>1, <2>3, LostServing DEF CaptureInv, HostOK
    <2>. QED BY <2>2, <2>3
  <1>5. HostOK' /\ HostOne'
    <2>1. inbox' \in Seq(Asked) /\ UNCHANGED <<host, backend>>
      BY DEF ShellServes, CaptureInv, HostOK
    <2>. QED BY <1>4, <2>1, HostStays
  <1>6. PortaldOK' /\ ShellOK'
    BY <1>1 DEF ShellServes, CaptureInv, PortaldOK, ShellOK, portaldVars
  <1>7. disturbed' \in BOOLEAN
    BY <1>2 DEF CaptureInv, GhostsOK
  <1>8. GhostsOK'
    BY <1>7 DEF ShellServes, CaptureInv, GhostsOK, bounds
  <1>. QED BY <1>3, <1>5, <1>6, <1>8 DEF CaptureInv

LEMMA UserStopsStep ==
  ASSUME CaptureInv, NEW s \in Sessions, UserStops(s)
  PROVE  CaptureInv'
  <1>1. ProviderOK'
    BY DisableKeeps, ReleaseKeeps DEF UserStops, CaptureInv
  <1>2. HostOK' /\ HostOne'
    <2>1. /\ inbox' \in Seq(Asked) /\ serving' \in Served \cup {None}
          /\ UNCHANGED <<host, backend>>
      BY DEF UserStops, CaptureInv, HostOK, hostVars
    <2>. QED BY <2>1, HostStays
  <1>3. PortaldOK' /\ ShellOK'
    BY DEF UserStops, CaptureInv, PortaldOK, ShellOK, portaldVars
  <1>4. GhostsOK'
    BY DEF UserStops, CaptureInv, GhostsOK, ghosts
  <1>. QED BY <1>1, <1>2, <1>3, <1>4 DEF CaptureInv

LEMMA LockSteps ==
  ASSUME CaptureInv, ShellLocks \/ LockTimesOut
  PROVE  CaptureInv'
  <1>1. inbox' \in Seq(Asked)
    <2>1. CASE ShellLocks
      <3>1. [op |-> "lock", s |-> NoSession, by |-> 0, over |-> NoSession,
             strict |-> FALSE, live |-> TRUE] \in Asked
        BY DEF Asked, Call
      <3>. QED BY <2>1, <3>1, QueueTypes DEF ShellLocks, CaptureInv, HostOK
    <2>2. CASE LockTimesOut
      BY <2>2, AbandonTypes DEF LockTimesOut, CaptureInv, HostOK
    <2>. QED BY <2>1, <2>2
  <1>2. /\ PortaldOK' /\ ShellOK'
        /\ serving' \in Served \cup {None} /\ backend' \in {"dbus", "none"}
    BY DEF ShellLocks, LockTimesOut, CaptureInv, PortaldOK, HostOK, ShellOK, portaldVars
  <1>3. GhostsOK' /\ UNCHANGED <<host, prov, active, count>>
    BY DEF ShellLocks, LockTimesOut, CaptureInv, GhostsOK, ghosts, bounds, provVars
  <1>. QED BY <1>1, <1>2, <1>3, TablesStay

-----------------------------------------------------------------------------
\* Deaths: a table that is lost enables nobody.

LEMMA EmptyProvider ==
  ASSUME prov' = [s \in Sessions |-> Provider!NoRecord], active' = NoSession, count' = 0
  PROVE  ProviderOK'
  <1>1. prov' \in [Sessions -> Provider!Record]
    BY DEF Provider!NoRecord, Provider!Record
  <1>2. ProviderCapturing' = {}
    BY DEF ProviderCapturing, Provider!Capturing, Provider!NoRecord
  <1>3. Cardinality({}) = 0
    BY FS_EmptySet
  <1>. QED BY <1>1, <1>2, <1>3 DEF ProviderOK

LEMMA PortaldDiesStep ==
  ASSUME CaptureInv, PortaldDies
  PROVE  CaptureInv'
  <1>1. PortaldOK'
    BY DEF PortaldDies, CaptureInv, PortaldOK
  <1>2. inbox' \in Seq(Asked)
    BY AbandonTypes DEF PortaldDies, CaptureInv, HostOK
  <1>3. serving' \in Served \cup {None} /\ backend' \in {"dbus", "none"} /\ ShellOK'
    BY AbandonedServing DEF PortaldDies, CaptureInv, HostOK, ShellOK, shellVars
  <1>4. GhostsOK' /\ UNCHANGED <<host, prov, active, count>>
    BY DEF PortaldDies, Dies, CaptureInv, GhostsOK, shellVars
  <1>. QED BY <1>1, <1>2, <1>3, <1>4, TablesStay

LEMMA DesktopdDiesStep ==
  ASSUME CaptureInv, DesktopdDies
  PROVE  CaptureInv'
  <1>1. PortaldOK'
    BY AnsweredJob, Replies DEF DesktopdDies, JobUnanswered, CaptureInv, PortaldOK
  <1>2. host' \in [Sessions -> HostRecord] /\ HostOne'
    BY DEF DesktopdDies, NoHostRecord, HostRecord, HostOne, HostCapturing
  <1>3. HostOK'
    BY <1>2 DEF DesktopdDies, HostOK
  <1>4. ShellOK'
    BY AbandonTypes DEF DesktopdDies, CaptureInv, ShellOK
  <1>5. ProviderOK'
    BY ProviderStays DEF DesktopdDies, CaptureInv
  <1>6. GhostsOK'
    BY DEF DesktopdDies, Dies, CaptureInv, GhostsOK
  <1>. QED BY <1>1, <1>2, <1>3, <1>4, <1>5, <1>6 DEF CaptureInv

LEMMA ShellDiesStep ==
  ASSUME CaptureInv, ShellDies
  PROVE  CaptureInv'
  <1>1. ProviderOK'
    BY EmptyProvider DEF ShellDies
  <1>2. serving' \in Served \cup {None}
    BY LostServing, Replies DEF ShellDies, CaptureInv, HostOK
  <1>3. inbox' \in Seq(Asked) /\ UNCHANGED <<host, backend>>
    BY AbandonTypes DEF ShellDies, CaptureInv, HostOK
  <1>4. HostOK' /\ HostOne'
    BY <1>2, <1>3, HostStays
  <1>5. PortaldOK' /\ ShellOK'
    BY DEF ShellDies, CaptureInv, PortaldOK, ShellOK, portaldVars
  <1>6. GhostsOK'
    BY DEF ShellDies, Dies, CaptureInv, GhostsOK
  <1>. QED BY <1>1, <1>4, <1>5, <1>6 DEF CaptureInv

LEMMA ShellStartsStep ==
  ASSUME CaptureInv, ShellStarts \/ UNCHANGED vars
  PROVE  CaptureInv'
  <1>1. /\ PortaldOK' /\ ShellOK' /\ inbox' \in Seq(Asked)
        /\ serving' \in Served \cup {None} /\ backend' \in {"dbus", "none"}
    BY DEF ShellStarts, vars, CaptureInv, PortaldOK, HostOK, ShellOK, portaldVars, hostVars
  <1>2. GhostsOK' /\ UNCHANGED <<host, prov, active, count>>
    BY DEF ShellStarts, vars, CaptureInv, GhostsOK, ghosts, bounds, provVars, hostVars
  <1>. QED BY <1>1, <1>2, TablesStay

-----------------------------------------------------------------------------

LEMMA CaptureInvStarts ==
  ASSUME Init
  PROVE  CaptureInv
  <1>1. prov \in [Sessions -> Provider!Record] /\ ProviderCapturing = {}
    BY DEF Init, Provider!ProviderInit, ProviderCapturing, Provider!Capturing,
           Provider!NoRecord, Provider!Record
  <1>2. ProviderOK
    BY <1>1, FS_EmptySet DEF Init, Provider!ProviderInit, ProviderOK
  <1>3. host \in [Sessions -> HostRecord] /\ HostOne
    BY DEF Init, NoHostRecord, HostRecord, HostOne, HostCapturing
  <1>4. inbox \in Seq(Asked) /\ outbox \in Seq(Passed)
    BY EmptySeq DEF Init
  <1>5. HostOK /\ ShellOK
    BY <1>3, <1>4 DEF Init, HostOK, ShellOK
  <1>6. PortaldOK /\ GhostsOK
    BY DEF Init, PortaldOK, GhostsOK
  <1>. QED BY <1>2, <1>3, <1>5, <1>6 DEF CaptureInv

LEMMA CaptureInvStays ==
  ASSUME CaptureInv, [Next]_vars
  PROVE  CaptureInv'
  <1>1. CASE \E op \in Ops, s \in Sessions, mode \in Modes, strict \in Strict :
                Ask(op, s, mode, strict)
    BY <1>1, AskStep, BoundsAssumption
  <1>2. CASE PortaldStep \/ UserAllows \/ ConsentEnds
    BY <1>2, PortaldSteps DEF PortaldStep
  <1>3. CASE PortaldTimesOut
    BY <1>3, PortaldTimesOutStep
  <1>4. CASE HostServes
    BY <1>4, HostServesStep
  <1>5. CASE HostReplies \/ HostTimesOut
    BY <1>5, HostEndsStep
  <1>6. CASE ShellServes
    BY <1>6, ShellServesStep
  <1>7. CASE \E s \in Sessions : UserStops(s)
    BY <1>7, UserStopsStep
  <1>8. CASE ShellLocks \/ LockTimesOut
    BY <1>8, LockSteps
  <1>9. CASE PortaldDies
    BY <1>9, PortaldDiesStep
  <1>10. CASE DesktopdDies
    BY <1>10, DesktopdDiesStep
  <1>11. CASE ShellDies
    BY <1>11, ShellDiesStep
  <1>12. CASE ShellStarts \/ UNCHANGED vars
    BY <1>12, ShellStartsStep
  <1>. QED BY <1>1, <1>2, <1>3, <1>4, <1>5, <1>6, <1>7, <1>8, <1>9, <1>10, <1>11, <1>12
       DEF Next, HostStep

LEMMA CaptureInvHolds == Spec => []CaptureInv
  <1>1. Init => CaptureInv
    BY CaptureInvStarts
  <1>2. CaptureInv /\ [Next]_vars => CaptureInv'
    BY CaptureInvStays
  <1>. QED BY <1>1, <1>2, PTL DEF Spec

\* Types: calls, answers and records stay well formed, whichever of the
\* three processes dies or gives a call up.
THEOREM CaptureTypes == Spec => []TypeOK
  <1>1. CaptureInv => TypeOK
    BY InvGives
  <1>. QED BY <1>1, CaptureInvHolds, PTL

\* One capture: neither desktopd's table nor the provider's ever enables two
\* sessions, and the provider reports exactly the one it has, through
\* take-overs that are undone, calls that are served late, and restarts.
THEOREM OneCaptureHolds == Spec => []OneCapture
  <1>1. CaptureInv => OneCapture
    BY InvGives
  <1>. QED BY <1>1, CaptureInvHolds, PTL
-----------------------------------------------------------------------------
(* Which calls are on their way.  The tables follow the calls, so what a    *)
(* client, the user or the host may rely on is a matter of what is still    *)
(* to be served, and in which order.                                        *)

\* The calls of portald that are on their way to desktopd.
Idle(queue) == \A i \in DOMAIN queue : queue[i].op = "lock"

\* A call portald waits for is the last it made, and the one its job is about.
IsJobs(m) ==
  /\ job # None /\ job.reply = None /\ job.at # "consent"
  /\ m.op = job.op /\ m.s = job.s

WaitInv ==
  /\ \A i \in DOMAIN inbox : inbox[i].op # "lock" /\ inbox[i].live =>
       /\ IsJobs(inbox[i])
       /\ \A j \in DOMAIN inbox : j > i => inbox[j].op = "lock"
  /\ serving # None => serving.call.op # "lock"
  /\ serving # None /\ serving.call.live => IsJobs(serving.call) /\ Idle(inbox)

\* What portald has been told of the capturing session, or asks the user of, is so.
Foretold(s, other) == HostCapturing \ {s} \subseteq {other}

RetryInv ==
  /\ \A i \in DOMAIN inbox : inbox[i].over # NoSession =>
       /\ Foretold(inbox[i].s, inbox[i].over)
       /\ \A j \in DOMAIN inbox : j < i => inbox[j].op = "lock"
  /\ Conflicted => Idle(inbox) /\ Foretold(job.s, job.reply.conflict)
  /\ job # None /\ job.at = "consent" => Idle(inbox) /\ Foretold(job.s, job.over)

\* A call that ends the capture of s, once the provider serves it.
Ends(m, s) ==
  \/ m.op \in {"disable", "release"} /\ m.s = s
  \/ m.op = "enable" /\ m.s # s

Enables(m, s) == m.op = "enable" /\ m.s = s

KnownInv ==
  ~disturbed =>
    \A s \in Sessions \ HostCapturing :
      /\ prov[s].enabled => \E i \in DOMAIN outbox : Ends(outbox[i], s)
      /\ \A i \in DOMAIN outbox : Enables(outbox[i], s) =>
           \E j \in DOMAIN outbox : j > i /\ Ends(outbox[j], s)

\* Neither table has s enabled, and no call will enable it.
Gone(s) ==
  /\ ~host[s].enabled /\ ~prov[s].enabled
  /\ \A i \in DOMAIN inbox : ~Enables(inbox[i], s)
  /\ \A i \in DOMAIN outbox : ~Enables(outbox[i], s)

Ending == {"disable", "release"}

\* The provider enables only sessions it has a record of.
RecordsInv == \A s \in Sessions : prov[s].enabled => prov[s].known

\* What a client was told of the end of a capture, or is about to be told, is so.
\* The call that is waited for is the last that the shell was sent,
LastInv ==
  \A i \in DOMAIN outbox : outbox[i].live =>
    /\ i = Len(outbox) /\ serving # None /\ serving.reply = None
    /\ outbox[i].op = serving.call.op /\ outbox[i].s = serving.call.s

\* desktopd has cleared its flag before it calls,
ClearedInv == serving # None /\ serving.call.op \in Ending => ~host[serving.call.s].enabled

\* so when the provider's answer is in, and portald still waits, nothing is left,
AppliedInv ==
  /\ serving # None /\ serving.call.op \in Ending /\ serving.call.live
  /\ serving.reply # None /\ serving.reply.applied
  => Gone(serving.call.s)

\* nor when portald has it,
ToldInv ==
  job # None /\ job.op \in Ending /\ job.reply # None /\ job.reply.applied => Gone(job.s)

\* nor when the client has, until a client enables the session.
AgainInv == job # None /\ job.op = "enable" => job.s \notin off

FinalInv == \A s \in off : Gone(s)

OffInv == LastInv /\ ClearedInv /\ AppliedInv /\ ToldInv /\ AgainInv /\ FinalInv

\* Only an Enable is asked about and made again.
JobInv == job # None /\ job.at # "probe" => job.op = "enable"

WayInv == JobInv /\ WaitInv /\ RetryInv /\ RecordsInv /\ KnownInv /\ OffInv

\* No answer, and no call, is not an answer or a call.
LEMMA NoneIsNone ==
  /\ \A r \in Reply : r # None
  /\ \A j \in Job : j # None
  /\ \A c \in Served : c # None
  BY DEF None, Reply, Job, Served

\* A queue that a call is added to, or taken from.
LEMMA AddedCall ==
  ASSUME NEW S, NEW q \in Seq(S), NEW m \in S
  PROVE  /\ DOMAIN Append(q, m) = DOMAIN q \cup {Len(q) + 1} /\ Len(Append(q, m)) = Len(q) + 1
         /\ \A i \in DOMAIN q : Append(q, m)[i] = q[i] /\ i < Len(q) + 1 /\ i \in Nat
         /\ Append(q, m)[Len(q) + 1] = m /\ Len(q) + 1 \notin DOMAIN q /\ Len(q) \in Nat
  <1>1. /\ Append(q, m) \in Seq(S) /\ Len(Append(q, m)) = Len(q) + 1 /\ Len(q) \in Nat
        /\ \A i \in 1 .. Len(q) : Append(q, m)[i] = q[i]
        /\ Append(q, m)[Len(q) + 1] = m
    BY AppendProperties
  <1>2. DOMAIN q = 1 .. Len(q) /\ DOMAIN Append(q, m) = 1 .. Len(q) + 1
    BY <1>1
  <1>3. DOMAIN Append(q, m) = DOMAIN q \cup {Len(q) + 1} /\ Len(q) + 1 \notin DOMAIN q
    BY <1>1, <1>2
  <1>4. \A i \in DOMAIN q : i < Len(q) + 1 /\ i \in Nat
    BY <1>1, <1>2
  <1>. QED BY <1>1, <1>2, <1>3, <1>4

LEMMA TakenCall ==
  ASSUME NEW S, NEW q \in Seq(S), q # <<>>
  PROVE  /\ 1 \in DOMAIN q /\ Head(q) = q[1] /\ DOMAIN q \subseteq Nat
         /\ Len(Tail(q)) + 1 = Len(q) /\ Len(q) \in Nat /\ DOMAIN Tail(q) \subseteq Nat
         /\ \A i \in DOMAIN Tail(q) : i + 1 \in DOMAIN q /\ Tail(q)[i] = q[i + 1] /\ i + 1 > 1
         /\ \A i \in DOMAIN q : i # 1 => i > 1 /\ i - 1 \in DOMAIN Tail(q) /\ Tail(q)[i - 1] = q[i]
  <1>1. /\ Len(q) \in Nat \ {0} /\ DOMAIN q = 1 .. Len(q) /\ Head(q) = q[1]
        /\ Tail(q) \in Seq(S) /\ Len(Tail(q)) = Len(q) - 1
        /\ \A i \in 1 .. Len(Tail(q)) : Tail(q)[i] = q[i + 1]
    BY EmptySeq, HeadTailProperties
  <1>2. DOMAIN Tail(q) = 1 .. Len(q) - 1
    BY <1>1
  <1>. QED BY <1>1, <1>2

\* The same calls, though nobody may wait for some of them any more.
SameCalls(q, r) ==
  /\ DOMAIN r = DOMAIN q /\ Len(r) = Len(q)
  /\ \A i \in DOMAIN q : /\ r[i].op = q[i].op /\ r[i].s = q[i].s /\ r[i].over = q[i].over
                         /\ r[i].live => q[i].live

LEMMA AbandonedCalls ==
  ASSUME NEW q \in Seq(Call)
  PROVE  /\ SameCalls(q, Abandon(q)) /\ SameCalls(q, AbandonLocks(q)) /\ SameCalls(q, q)
         /\ \A i \in DOMAIN q : q[i].op # "lock" => ~Abandon(q)[i].live
  <1>1. DOMAIN q = 1 .. Len(q) /\ Len(q) \in Nat /\ \A i \in DOMAIN q : q[i] \in Call
    OBVIOUS
  <1>2. ASSUME NEW m \in Call
        PROVE  /\ [m EXCEPT !.live = FALSE].op = m.op /\ [m EXCEPT !.live = FALSE].s = m.s
               /\ [m EXCEPT !.live = FALSE].over = m.over /\ ~[m EXCEPT !.live = FALSE].live
    BY DEF Call
  <1>3. /\ DOMAIN Abandon(q) = 1 .. Len(q) /\ DOMAIN AbandonLocks(q) = 1 .. Len(q)
        /\ Abandon(q) \in [1 .. Len(q) -> {Abandon(q)[i] : i \in 1 .. Len(q)}]
        /\ AbandonLocks(q) \in [1 .. Len(q) -> {AbandonLocks(q)[i] : i \in 1 .. Len(q)}]
    BY <1>1 DEF Abandon, AbandonLocks
  <1>4. Len(Abandon(q)) = Len(q) /\ Len(AbandonLocks(q)) = Len(q)
    BY <1>1, <1>3
  <1>5. SameCalls(q, Abandon(q)) /\ \A i \in DOMAIN q : q[i].op # "lock" => ~Abandon(q)[i].live
    BY <1>1, <1>2, <1>3, <1>4 DEF SameCalls, Abandon
  <1>6. SameCalls(q, AbandonLocks(q))
    BY <1>1, <1>2, <1>3, <1>4 DEF SameCalls, AbandonLocks
  <1>7. SameCalls(q, q)
    BY DEF SameCalls
  <1>. QED BY <1>5, <1>6, <1>7

\* portald's job, answered.
LEMMA JobFields ==
  ASSUME job \in Job, NEW reply
  PROVE  /\ [job EXCEPT !.reply = reply].op = job.op /\ [job EXCEPT !.reply = reply].s = job.s
         /\ [job EXCEPT !.reply = reply].at = job.at /\ [job EXCEPT !.reply = reply].over = job.over
         /\ [job EXCEPT !.reply = reply].mode = job.mode
         /\ [job EXCEPT !.reply = reply].reply = reply
  BY DEF Job

LEMMA CallFields ==
  ASSUME NEW m \in Call, NEW live
  PROVE  /\ [m EXCEPT !.live = live].op = m.op /\ [m EXCEPT !.live = live].s = m.s
         /\ [m EXCEPT !.live = live].over = m.over /\ [m EXCEPT !.live = live].live = live
  BY DEF Call

LEMMA ServingFields ==
  ASSUME serving \in Served
  PROVE  /\ serving.call \in Call
         /\ AbandonServing \in Served /\ AbandonServing.call.op = serving.call.op
         /\ AbandonServing.call.s = serving.call.s /\ ~AbandonServing.call.live
         /\ AbandonServing.reply = serving.reply
         /\ \A r : [serving EXCEPT !.reply = r].call = serving.call
                   /\ [serving EXCEPT !.reply = r].reply = r
  BY NoneIsNone DEF AbandonServing, Served, Call

\* What CaptureInv says of the calls.
LEMMA WayTypes ==
  ASSUME CaptureInv
  PROVE  /\ inbox \in Seq(Asked) /\ inbox \in Seq(Call)
         /\ outbox \in Seq(Passed) /\ outbox \in Seq(Call)
         /\ \A i \in DOMAIN outbox : outbox[i] \in Call /\ outbox[i].op # "lock"
         /\ \A i \in DOMAIN inbox : inbox[i] \in Call
         /\ job # None => job \in Job
         /\ serving # None => serving \in Served
         /\ gen \in Nat
  <1>1. inbox \in Seq(Asked) /\ outbox \in Seq(Passed) /\ gen \in Nat
    BY DEF CaptureInv, HostOK, ShellOK, PortaldOK
  <1>2. Asked \subseteq Call /\ Passed \subseteq Call /\ \A m \in Passed : m.op # "lock"
    BY DEF Asked, Passed
  <1>3. inbox \in Seq(Call) /\ outbox \in Seq(Call)
    BY <1>1, <1>2
  <1>4. /\ \A i \in DOMAIN outbox : outbox[i] \in Passed
        /\ \A i \in DOMAIN inbox : inbox[i] \in Asked
    BY <1>1
  <1>. QED BY <1>1, <1>2, <1>3, <1>4 DEF CaptureInv, PortaldOK, HostOK

-----------------------------------------------------------------------------
\* Who waits for what.

\* A portald that waits for no call has none that is waited for.
NobodyWaits ==
  /\ \A i \in DOMAIN inbox : inbox[i].op # "lock" => ~inbox[i].live
  /\ serving # None => ~serving.call.live

LEMMA NotWaiting ==
  ASSUME WaitInv, job = None \/ job.reply # None \/ job.at = "consent"
  PROVE  NobodyWaits
  BY DEF WaitInv, IsJobs, NobodyWaits

\* Steps that call nobody.
LEMMA WaitStays ==
  ASSUME WaitInv, SameCalls(inbox, inbox'), UNCHANGED job \/ NobodyWaits',
         serving' # None => /\ serving # None /\ serving'.call.op = serving.call.op
                            /\ serving'.call.s = serving.call.s
                            /\ serving'.call.live => serving.call.live
  PROVE  WaitInv'
  <1>1. CASE NobodyWaits'
    BY <1>1 DEF WaitInv, NobodyWaits
  <1>2. CASE UNCHANGED job
    <2>1. ASSUME NEW i \in DOMAIN inbox', inbox'[i].op # "lock", inbox'[i].live
          PROVE  IsJobs(inbox[i])' /\ \A j \in DOMAIN inbox' : j > i => inbox'[j].op = "lock"
      <3>1. /\ i \in DOMAIN inbox /\ inbox[i].op # "lock" /\ inbox[i].live
            /\ inbox'[i].op = inbox[i].op /\ inbox'[i].s = inbox[i].s
        BY <2>1 DEF SameCalls
      <3>2. IsJobs(inbox[i]) /\ \A j \in DOMAIN inbox : j > i => inbox[j].op = "lock"
        BY <3>1 DEF WaitInv
      <3>3. \A j \in DOMAIN inbox' : j > i => inbox'[j].op = "lock"
        BY <3>2 DEF SameCalls
      <3>. QED BY <1>2, <3>1, <3>2, <3>3 DEF IsJobs
    <2>2. ASSUME serving' # None
          PROVE  /\ serving'.call.op # "lock"
                 /\ serving'.call.live => IsJobs(serving.call)' /\ Idle(inbox)'
      <3>1. CASE serving'.call.live
        <4>1. IsJobs(serving.call) /\ Idle(inbox)
          BY <2>2, <3>1 DEF WaitInv
        <4>. QED BY <1>2, <2>2, <4>1 DEF WaitInv, IsJobs, Idle, SameCalls
      <3>. QED BY <2>2, <3>1 DEF WaitInv
    <2>. QED BY <2>1, <2>2 DEF WaitInv
  <1>. QED BY <1>1, <1>2

\* portald makes a call.
LEMMA WaitAsks ==
  ASSUME CaptureInv, NobodyWaits, WaitInv, UNCHANGED serving,
         NEW op \in Ops, NEW s \in Sessions, NEW over \in Sessions \cup {NoSession},
         NEW strict \in BOOLEAN, CallHost(op, s, over, strict),
         job' # None, job'.reply = None, job'.at # "consent", job'.op = op, job'.s = s
  PROVE  WaitInv'
  <1>1. PICK m \in Call : inbox' = Append(inbox, m) /\ m.op = op /\ m.s = s
    <2>1. [op |-> op, s |-> s, by |-> gen, over |-> over, strict |-> strict, live |-> TRUE] \in Call
      BY WayTypes DEF Call
    <2>. QED BY <2>1 DEF CallHost
  <1>3. /\ DOMAIN inbox' = DOMAIN inbox \cup {Len(inbox) + 1}
        /\ \A i \in DOMAIN inbox : inbox'[i] = inbox[i] /\ i < Len(inbox) + 1 /\ i \in Nat
        /\ inbox'[Len(inbox) + 1] = m /\ Len(inbox) \in Nat
    BY <1>1, WayTypes, AddedCall
  <1>4. IsJobs(m)'
    BY <1>1 DEF IsJobs
  <1>5. ASSUME NEW i \in DOMAIN inbox', inbox'[i].op # "lock", inbox'[i].live
        PROVE  IsJobs(inbox[i])' /\ \A j \in DOMAIN inbox' : j > i => inbox'[j].op = "lock"
    <2>1. i = Len(inbox) + 1
      BY <1>3, <1>5 DEF NobodyWaits
    <2>2. \A j \in DOMAIN inbox' : ~(j > i)
      BY <1>3, <2>1
    <2>3. inbox'[i] = m
      BY <1>3, <2>1
    <2>. QED BY <1>4, <2>2, <2>3 DEF IsJobs
  <1>. QED BY <1>5 DEF WaitInv, NobodyWaits

\* The shell's lock call is behind portald's.
LEMMA WaitLocks ==
  ASSUME CaptureInv, WaitInv, ShellLocks
  PROVE  WaitInv'
  <1>1. /\ UNCHANGED <<job, serving>>
        /\ \E m \in Call : inbox' = Append(inbox, m) /\ m.op = "lock"
    <2>1. [op |-> "lock", s |-> NoSession, by |-> 0, over |-> NoSession,
           strict |-> FALSE, live |-> TRUE] \in Call
      BY DEF Call
    <2>. QED BY <2>1 DEF ShellLocks, portaldVars
  <1>2. PICK m \in Call : inbox' = Append(inbox, m) /\ m.op = "lock"
    BY <1>1
  <1>3. /\ DOMAIN inbox' = DOMAIN inbox \cup {Len(inbox) + 1}
        /\ \A i \in DOMAIN inbox : inbox'[i] = inbox[i] /\ i \in Nat
        /\ inbox'[Len(inbox) + 1] = m
    BY <1>2, WayTypes, AddedCall
  <1>4. ASSUME NEW i \in DOMAIN inbox', inbox'[i].op # "lock", inbox'[i].live
        PROVE  IsJobs(inbox[i])' /\ \A j \in DOMAIN inbox' : j > i => inbox'[j].op = "lock"
    <2>1. i \in DOMAIN inbox /\ inbox'[i] = inbox[i]
      BY <1>2, <1>3, <1>4
    <2>2. IsJobs(inbox[i]) /\ \A j \in DOMAIN inbox : j > i => inbox[j].op = "lock"
      BY <1>4, <2>1 DEF WaitInv
    <2>. QED BY <1>1, <1>2, <1>3, <2>1, <2>2 DEF IsJobs
  <1>5. Idle(inbox) => Idle(inbox)'
    BY <1>2, <1>3 DEF Idle
  <1>. QED BY <1>1, <1>4, <1>5 DEF WaitInv, IsJobs

\* What desktopd makes of the call it takes: it answers, or calls the backend.
LEMMA HostTakes ==
  ASSUME CaptureInv, HostServes
  PROVE  /\ inbox # <<>> /\ inbox' = Tail(inbox) /\ serving = None
         /\ \/ /\ Head(inbox).op = "lock" /\ UNCHANGED <<job, host, outbox, serving, disturbed>>
            \/ /\ Head(inbox).op # "lock"
               /\ \/ \E reply \in Reply :
                       /\ ReplyTo(Head(inbox), reply) /\ ~reply.applied
                       /\ UNCHANGED <<outbox, serving>>
                  \/ /\ serving' = [call |-> Head(inbox), reply |-> None]
                     /\ outbox' = Append(outbox, [Head(inbox) EXCEPT !.live = TRUE])
                     /\ UNCHANGED job
  <1>. DEFINE m == Head(inbox)
  <1>1. inbox # <<>> /\ inbox' = Tail(inbox) /\ serving = None
    BY DEF HostServes
  <1>2. \A ok, applied \in BOOLEAN : \A conflict \in Sessions \cup {NoSession} :
           /\ Answer(ok, applied, conflict) \in Reply
           /\ Answer(ok, applied, conflict).applied = applied
    BY Replies DEF Answer
  <1>3. ASSUME \/ CallBackend(m)
               \/ \E conflict \in Sessions \cup {NoSession} : Refuse(m, conflict)
               \/ ReplyTo(m, Answer(TRUE, FALSE, NoSession)) /\ UNCHANGED <<outbox, serving>>
        PROVE  \/ \E reply \in Reply :
                    /\ ReplyTo(m, reply) /\ ~reply.applied
                    /\ UNCHANGED <<outbox, serving>>
               \/ /\ serving' = [call |-> m, reply |-> None]
                  /\ outbox' = Append(outbox, [m EXCEPT !.live = TRUE])
                  /\ UNCHANGED job
    <2>. HIDE DEF m
    <2>1. ASSUME NEW conflict \in Sessions \cup {NoSession}, NEW ok \in BOOLEAN,
                 ReplyTo(m, Answer(ok, FALSE, conflict)), UNCHANGED <<outbox, serving>>
          PROVE  \E reply \in Reply : /\ ReplyTo(m, reply) /\ ~reply.applied
                                      /\ UNCHANGED <<outbox, serving>>
      BY <1>2, <2>1
    <2>. QED BY <1>3, <2>1 DEF CallBackend, Refuse
  <1>4. CASE m.op = "lock"
    BY <1>1, <1>4 DEF HostServes
  <1>5. CASE m.op # "lock"
    <2>1. \/ HostCreate(m) \/ HostBarriers(m) \/ HostEnable(m) \/ HostDisable(m) \/ HostRelease(m)
      BY <1>5 DEF HostServes
    <2>2. HostCapturing \subseteq Sessions
      BY DEF HostCapturing
    <2>3. \/ CallBackend(m)
          \/ \E conflict \in Sessions \cup {NoSession} : Refuse(m, conflict)
          \/ ReplyTo(m, Answer(TRUE, FALSE, NoSession)) /\ UNCHANGED <<outbox, serving>>
      <3>. HIDE DEF m
      <3>. QED BY <2>1, <2>2 DEF HostCreate, HostBarriers, HostEnable, HostDisable, HostRelease
    <2>. QED BY <1>1, <1>3, <1>5, <2>3
  <1>. QED BY <1>1, <1>4, <1>5

\* An answer reaches portald's job, if portald waits for it.
LEMMA Told ==
  ASSUME CaptureInv, WaitInv, NEW m \in Call, m.live => IsJobs(m), NEW reply \in Reply,
         ReplyTo(m, reply)
  PROVE  /\ ~m.live => UNCHANGED job
         /\ m.live => /\ job \in Job /\ job' \in Job /\ job'.reply = reply
                      /\ job'.op = job.op /\ job'.s = job.s /\ job'.at = job.at
                      /\ job'.over = job.over /\ job'.mode = job.mode
  <1>1. CASE ~m.live
    BY <1>1 DEF ReplyTo
  <1>2. CASE m.live
    <2>1. job \in Job /\ job' = [job EXCEPT !.reply = reply]
      BY <1>2, WayTypes DEF IsJobs, ReplyTo
    <2>2. job' \in Job \cup {None} /\ job'.reply = reply
      BY <2>1, AnsweredJob, JobFields
    <2>3. job' # None
      BY <2>1 DEF Job, None
    <2>4. /\ job'.op = job.op /\ job'.s = job.s /\ job'.at = job.at
          /\ job'.over = job.over /\ job'.mode = job.mode
      BY <2>1, JobFields
    <2>. QED BY <1>2, <2>1, <2>2, <2>3, <2>4
  <1>. QED BY <1>1, <1>2

\* The call desktopd takes was the last that portald waits for, if it waits for it.
LEMMA WaitHost ==
  ASSUME CaptureInv, WaitInv, HostServes
  PROVE  WaitInv'
  <1>. DEFINE m == Head(inbox)
  <1>1. /\ 1 \in DOMAIN inbox /\ m = inbox[1] /\ m \in Call /\ serving = None
        /\ DOMAIN inbox' \subseteq Nat
        /\ \A i \in DOMAIN inbox' : i + 1 \in DOMAIN inbox /\ inbox'[i] = inbox[i + 1] /\ i + 1 > 1
    BY HostTakes, WayTypes, TakenCall
  <1>2. m.op # "lock" /\ m.live => IsJobs(m) /\ Idle(inbox)'
    BY <1>1 DEF WaitInv, Idle
  <1>3. ASSUME NEW i \in DOMAIN inbox', inbox'[i].op # "lock", inbox'[i].live
        PROVE  /\ IsJobs(inbox'[i]) /\ \A j \in DOMAIN inbox' : j > i => inbox'[j].op = "lock"
               /\ ~(m.op # "lock" /\ m.live)
    <2>1. i + 1 \in DOMAIN inbox /\ inbox'[i] = inbox[i + 1]
      BY <1>1
    <2>2. IsJobs(inbox[i + 1]) /\ \A j \in DOMAIN inbox : j > i + 1 => inbox[j].op = "lock"
      BY <1>3, <2>1 DEF WaitInv
    <2>3. \A j \in DOMAIN inbox' : j > i => inbox'[j].op = "lock"
      <3> SUFFICES ASSUME NEW j \in DOMAIN inbox', j > i PROVE inbox'[j].op = "lock"
        OBVIOUS
      <3>1. j \in Nat /\ i \in Nat /\ j + 1 \in DOMAIN inbox /\ inbox'[j] = inbox[j + 1]
        BY <1>1
      <3>2. j + 1 > i + 1
        BY <3>1
      <3>. QED BY <2>2, <3>1, <3>2
    <2>. QED BY <1>2, <1>3, <2>1, <2>2, <2>3 DEF Idle
  <1>4. CASE m.op = "lock"
    <2>1. UNCHANGED <<job, serving>>
      BY <1>4, HostTakes
    <2>. QED BY <1>1, <1>3, <2>1 DEF WaitInv, IsJobs
  <1>5. CASE m.op # "lock" /\ \E reply \in Reply : ReplyTo(m, reply) /\ UNCHANGED serving
    <2>1. PICK reply \in Reply : ReplyTo(m, reply) /\ UNCHANGED serving
      BY <1>5
    <2>2. ~m.live => UNCHANGED job
      BY <2>1 DEF ReplyTo
    <2>. QED BY <1>1, <1>2, <1>3, <1>5, <2>1, <2>2 DEF WaitInv, IsJobs, Idle
  <1>6. CASE m.op # "lock" /\ serving' = [call |-> m, reply |-> None] /\ UNCHANGED job
    <2>1. serving'.call = m
      BY <1>6
    <2>2. serving' # None => serving'.call.op # "lock"
      BY <1>6, <2>1
    <2>3. serving' # None /\ serving'.call.live => IsJobs(serving.call)' /\ Idle(inbox)'
      BY <1>2, <1>6, <2>1 DEF IsJobs
    <2>4. ASSUME NEW i \in DOMAIN inbox', inbox'[i].op # "lock", inbox'[i].live
          PROVE  IsJobs(inbox[i])' /\ \A j \in DOMAIN inbox' : j > i => inbox'[j].op = "lock"
      BY <1>3, <1>6, <2>4 DEF IsJobs
    <2>. QED BY <2>2, <2>3, <2>4 DEF WaitInv
  <1>. QED BY <1>4, <1>5, <1>6, HostTakes

LEMMA JobStep ==
  ASSUME CaptureInv, JobInv, WaitInv, [Next]_vars
  PROVE  JobInv'
  <1>. USE DEF portaldVars, hostVars, shellVars, provVars, ghosts, bounds
  <1>1. ASSUME job' = None \/ UNCHANGED job PROVE JobInv'
    BY <1>1 DEF JobInv
  <1>2. ASSUME NEW reply, job' = [job EXCEPT !.reply = reply], job \in Job PROVE JobInv'
    BY <1>2, JobFields, NoneIsNone DEF JobInv
  <1>3. CASE \E op \in Ops, s \in Sessions, mode \in Modes, strict \in Strict :
                Ask(op, s, mode, strict)
    BY <1>3 DEF Ask, JobInv
  <1>4. CASE RetryUnasked \/ AskUser \/ UserAllows
    <2>1. job \in Job /\ job.op = "enable"
      BY <1>4, WayTypes DEF RetryUnasked, AskUser, UserAllows, Conflicted, JobInv
    <2>2. job'.op = job.op
      BY <1>4, <2>1 DEF RetryUnasked, AskUser, UserAllows, Retry, Job
    <2>. QED BY <2>1, <2>2 DEF JobInv
  <1>5. CASE ConsentEnds \/ BridgeReturns \/ PortaldDies
    BY <1>1, <1>5 DEF ConsentEnds, BridgeReturns, PortaldDies, Return
  <1>6. CASE PortaldTimesOut
    BY <1>2, <1>6, WayTypes DEF PortaldTimesOut
  <1>7. ASSUME NEW m \in Call, m.live => IsJobs(m), NEW reply \in Reply, ReplyTo(m, reply)
        PROVE  JobInv'
    <2>1. /\ ~m.live => UNCHANGED job
          /\ m.live => job \in Job /\ job'.op = job.op /\ job'.at = job.at
      BY <1>7, Told
    <2>. QED BY <2>1, NoneIsNone DEF JobInv
  <1>8. CASE HostServes
    <2>1. CASE UNCHANGED job
      BY <1>1, <2>1
    <2>2. CASE Head(inbox).op # "lock" /\ \E reply \in Reply : ReplyTo(Head(inbox), reply)
      <3>1. Head(inbox) \in Call /\ 1 \in DOMAIN inbox /\ Head(inbox) = inbox[1]
        BY <1>8, HostTakes, WayTypes, TakenCall
      <3>2. Head(inbox).live => IsJobs(Head(inbox))
        BY <2>2, <3>1 DEF WaitInv
      <3>. QED BY <1>7, <2>2, <3>1, <3>2
    <2>. QED BY <1>8, <2>1, <2>2, HostTakes
  <1>9. CASE HostReplies
    <2>1. /\ serving.call \in Call /\ (serving.call.live => IsJobs(serving.call))
          /\ serving.reply \in Reply
      BY <1>9, WayTypes, ServingFields DEF HostReplies, WaitInv, Served
    <2>2. Answer(TRUE, serving.reply.applied, NoSession) \in Reply
      BY <2>1, Replies DEF Reply
    <2>. QED BY <1>7, <1>9, <2>1, <2>2 DEF HostReplies
  <1>10. CASE DesktopdDies
    BY <1>1, <1>2, <1>10, WayTypes DEF DesktopdDies, JobUnanswered
  <1>11. CASE \/ HostTimesOut \/ ShellServes \/ (\E s \in Sessions : UserStops(s)) \/ ShellLocks
              \/ LockTimesOut \/ ShellDies \/ ShellStarts \/ UNCHANGED vars
    BY <1>1, <1>11 DEF HostTimesOut, ShellServes, UserStops, ShellLocks, LockTimesOut, ShellDies,
                       ShellStarts, vars
  <1>. QED BY <1>3, <1>4, <1>5, <1>6, <1>8, <1>9, <1>10, <1>11 DEF Next, PortaldStep, HostStep

LEMMA WaitStep ==
  ASSUME CaptureInv, JobInv, WaitInv, [Next]_vars
  PROVE  WaitInv'
  <1>. USE DEF portaldVars, hostVars, shellVars, provVars, ghosts, bounds
  <1>1. /\ SameCalls(inbox, Abandon(inbox)) /\ SameCalls(inbox, AbandonLocks(inbox))
        /\ SameCalls(inbox, inbox)
        /\ \A i \in DOMAIN inbox : inbox[i].op # "lock" => ~Abandon(inbox)[i].live
    BY WayTypes, AbandonedCalls
  <1>2. serving # None =>
          /\ AbandonServing.call.op = serving.call.op /\ AbandonServing.call.s = serving.call.s
          /\ ~AbandonServing.call.live
          /\ \A r : [serving EXCEPT !.reply = r].call = serving.call
    BY WayTypes, ServingFields
  <1>3. serving = None => AbandonServing = None
    BY DEF AbandonServing
  <1>4. CASE \E op \in Ops, s \in Sessions, mode \in Modes, strict \in Strict :
                Ask(op, s, mode, strict)
    <2>1. PICK op \in Ops, s \in Sessions, mode \in Modes, strict \in Strict :
                 Ask(op, s, mode, strict)
      BY <1>4
    <2>2. NobodyWaits
      BY <2>1, NotWaiting DEF Ask
    <2>3. strict \in BOOLEAN
      BY BoundsAssumption
    <2>4. /\ job'.reply = None /\ job'.at # "consent" /\ job'.op = op /\ job'.s = s
          /\ job' \in Job
      BY <2>1, <2>3 DEF Ask, Job
    <2>5. job' # None
      BY <2>4, NoneIsNone
    <2>. QED BY <2>1, <2>2, <2>3, <2>4, <2>5, WaitAsks DEF Ask
  <1>5. CASE \E over \in Sessions \cup {NoSession} :
                /\ job # None /\ (job.reply # None \/ job.at = "consent")
                /\ job.op = "enable" /\ Retry(over) /\ UNCHANGED serving
    <2>1. PICK over \in Sessions \cup {NoSession} : Retry(over)
      BY <1>5
    <2>2. NobodyWaits /\ job \in Job
      BY <1>5, NotWaiting, WayTypes
    <2>3. /\ job'.reply = None /\ job'.at = "retry" /\ job'.op = "enable" /\ job'.s = job.s
          /\ job' \in Job /\ job.s \in Sessions /\ job.strict \in BOOLEAN /\ "enable" \in Ops
      BY <1>5, <2>1, <2>2 DEF Retry, Job, Ops
    <2>4. job' # None
      BY <2>3, NoneIsNone
    <2>. QED BY <1>5, <2>1, <2>2, <2>3, <2>4, WaitAsks DEF Retry
  <1>6. CASE AskUser \/ BridgeReturns \/ ConsentEnds
    <2>1. UNCHANGED <<inbox, serving>> /\ NobodyWaits
      BY <1>6, NotWaiting DEF AskUser, BridgeReturns, ConsentEnds, Conflicted
    <2>. QED BY <1>1, <2>1, WaitStays DEF NobodyWaits
  <1>7. CASE PortaldTimesOut \/ PortaldDies
    <2>1. inbox' = Abandon(inbox) /\ serving' = AbandonServing
      BY <1>7 DEF PortaldTimesOut, PortaldDies
    <2>2. NobodyWaits'
      BY <1>1, <1>2, <1>3, <2>1 DEF NobodyWaits, SameCalls
    <2>3. SameCalls(inbox, inbox')
      BY <1>1, <2>1
    <2>. QED BY <1>2, <1>3, <2>1, <2>2, <2>3, WaitStays
  <1>8. CASE HostServes
    BY <1>8, WaitHost
  <1>9. CASE HostReplies
    <2>1. inbox' = inbox /\ serving' = None /\ (~serving.call.live => UNCHANGED job) /\ serving # None
      BY <1>9 DEF HostReplies, ReplyTo
    <2>2. serving.call.live => NobodyWaits'
      BY <2>1 DEF WaitInv, NobodyWaits, Idle
    <2>. QED BY <1>1, <2>1, <2>2, WaitStays
  <1>10. CASE HostTimesOut \/ ShellServes
    <2>1. UNCHANGED <<inbox, job>>
      BY <1>10 DEF HostTimesOut, ShellServes
    <2>2. serving' = serving \/ \E r : serving' = [serving EXCEPT !.reply = r]
      BY <1>10 DEF HostTimesOut, ShellServes
    <2>3. serving' # None => serving # None /\ serving'.call = serving.call
      <3>1. CASE serving = None
        <4>1. \A r : [serving EXCEPT !.reply = r] = None
          BY <3>1 DEF None
        <4>. QED BY <2>2, <3>1, <4>1
      <3>2. CASE serving # None
        BY <1>2, <2>2, <3>2
      <3>. QED BY <3>1, <3>2
    <2>. QED BY <1>1, <2>1, <2>3, WaitStays
  <1>11. CASE (\E s \in Sessions : UserStops(s)) \/ LockTimesOut \/ ShellStarts \/ UNCHANGED vars
    <2>1. UNCHANGED <<job, serving>> /\ (inbox' = inbox \/ inbox' = AbandonLocks(inbox))
      BY <1>11 DEF UserStops, LockTimesOut, ShellStarts, vars
    <2>2. SameCalls(inbox, inbox')
      BY <1>1, <2>1
    <2>. QED BY <2>1, <2>2, WaitStays
  <1>12. CASE ShellLocks
    BY <1>12, WaitLocks
  <1>13. CASE DesktopdDies
    <2>1. inbox' = <<>> /\ serving' = None
      BY <1>13 DEF DesktopdDies
    <2>2. DOMAIN inbox' = {}
      BY <2>1
    <2>. QED BY <2>1, <2>2 DEF WaitInv
  <1>14. CASE ShellDies
    <2>1. UNCHANGED job /\ inbox' = AbandonLocks(inbox)
          /\ serving' = IF serving # None /\ serving.reply = None
                        THEN [serving EXCEPT !.reply = Lost] ELSE serving
      BY <1>14 DEF ShellDies
    <2>2. serving' # None => serving # None /\ serving'.call = serving.call
      BY <1>2, <2>1
    <2>3. SameCalls(inbox, inbox')
      BY <1>1, <2>1
    <2>. QED BY <2>1, <2>2, <2>3, WaitStays
  <1>15. CASE RetryUnasked \/ UserAllows
    <2>1. /\ job # None /\ job \in Job /\ UNCHANGED serving
          /\ job.reply # None \/ job.at = "consent"
      BY <1>15, WayTypes DEF RetryUnasked, UserAllows, Conflicted
    <2>2. CASE RetryUnasked
      BY <1>5, <2>1, <2>2, JobShape DEF RetryUnasked, Conflicted
    <2>3. CASE UserAllows
      <3>1. job.op = "enable"
        BY <2>3 DEF UserAllows, JobInv
      <3>. QED BY <1>5, <2>1, <2>3, <3>1, JobShape DEF UserAllows
    <2>. QED BY <1>15, <2>2, <2>3
  <1>. QED BY <1>4, <1>6, <1>7, <1>8, <1>9, <1>10, <1>11, <1>12, <1>13, <1>14, <1>15
       DEF Next, PortaldStep, HostStep

-----------------------------------------------------------------------------
\* Whom a retried Enable displaces.

\* desktopd's table, call by call.
LEMMA TableAfter ==
  ASSUME CaptureInv, HostServes, Head(inbox).op # "lock"
  PROVE  /\ \A t \in Sessions : host'[t].enabled => host[t].enabled \/ Enables(Head(inbox), t)
         /\ \A t \in HostCapturing :
              \/ host'[t].enabled
              \/ Head(inbox).s = t /\ Head(inbox).op \in Ending
              \/ /\ Head(inbox).op = "enable" /\ Head(inbox).over # NoSession
                 /\ t # Head(inbox).s
         /\ Head(inbox).op \in Ending => ~host'[Head(inbox).s].enabled \/ UNCHANGED <<outbox, serving>>
         /\ \/ UNCHANGED job
            \/ \E reply \in Reply :
                 /\ ReplyTo(Head(inbox), reply)
                 /\ reply.conflict # NoSession =>
                      /\ UNCHANGED host
                      /\ reply.conflict \in HostCapturing \ {Head(inbox).s}
  <1>1. PICK m : m = Head(inbox)
    OBVIOUS
  <1>2. /\ m.op # "lock" /\ m \in Asked /\ m.s \in Sessions /\ host \in [Sessions -> HostRecord]
        /\ \/ m.op = "create" /\ HostCreate(m)
           \/ m.op = "barriers" /\ HostBarriers(m)
           \/ m.op = "enable" /\ HostEnable(m)
           \/ m.op = "disable" /\ HostDisable(m)
           \/ m.op = "release" /\ HostRelease(m)
    <2>1. m \in Asked
      BY <1>1, HostTakes, WayTypes, QueueTypes
    <2>. QED BY <1>1, <2>1 DEF HostServes, Asked, CaptureInv, HostOK
  <1>3. /\ \A ok, applied \in BOOLEAN : \A conflict \in Sessions \cup {NoSession} :
              /\ Answer(ok, applied, conflict) \in Reply
              /\ Answer(ok, applied, conflict).conflict = conflict
    BY Replies DEF Answer
  <1>4. CallBackend(m) =>
          \/ UNCHANGED job
          \/ \E reply \in Reply : ReplyTo(m, reply) /\ reply.conflict = NoSession
    BY <1>3 DEF CallBackend
  <1>5. Refuse(m, NoSession) =>
          /\ UNCHANGED <<host, outbox, serving>>
          /\ \E reply \in Reply : ReplyTo(m, reply) /\ reply.conflict = NoSession
    BY <1>3 DEF Refuse
  <1>. DEFINE Table == /\ \A t \in Sessions : host'[t].enabled => host[t].enabled \/ Enables(m, t)
                       /\ \A t \in HostCapturing :
                            \/ host'[t].enabled
                            \/ m.s = t /\ m.op \in Ending
                            \/ m.op = "enable" /\ m.over # NoSession /\ t # m.s
                       /\ m.op \in Ending => ~host'[m.s].enabled \/ UNCHANGED <<outbox, serving>>
              Tells == \/ UNCHANGED job
                       \/ \E reply \in Reply :
                            /\ ReplyTo(m, reply)
                            /\ reply.conflict # NoSession =>
                                 /\ UNCHANGED host
                                 /\ reply.conflict \in HostCapturing \ {m.s}
  <1>6. ASSUME Refuse(m, NoSession) PROVE Table /\ Tells
    <2>1. Table
      BY <1>5, <1>6 DEF HostCapturing
    <2>2. Tells
      BY <1>5, <1>6
    <2>. QED BY <2>1, <2>2
  <1>7. CASE m.op = "create" /\ HostCreate(m)
    <2>1. /\ host' = [host EXCEPT ![m.s].known = TRUE, ![m.s].owner = m.by] /\ CallBackend(m)
      BY <1>7 DEF HostCreate
    <2>2. Table
      BY <1>2, <1>7, <2>1 DEF HostRecord, HostCapturing, Ending
    <2>3. Tells
      BY <1>4, <2>1
    <2>. QED BY <1>1, <2>2, <2>3
  <1>8. CASE m.op = "barriers" /\ HostBarriers(m)
    <2>1. CASE Refuse(m, NoSession)
      BY <1>1, <1>6, <2>1
    <2>2. CASE host' = [host EXCEPT ![m.s].known = TRUE] /\ CallBackend(m)
      <3>1. Table
        BY <1>2, <1>8, <2>2 DEF HostRecord, HostCapturing, Ending
      <3>2. Tells
        BY <1>4, <2>2
      <3>. QED BY <1>1, <3>1, <3>2
    <2>. QED BY <1>8, <2>1, <2>2 DEF HostBarriers
  <1>9. CASE m.op = "disable" /\ HostDisable(m)
    <2>1. CASE Refuse(m, NoSession)
      BY <1>1, <1>6, <2>1
    <2>2. CASE host' = [host EXCEPT ![m.s].known = TRUE, ![m.s].enabled = FALSE] /\ CallBackend(m)
      <3>1. Table
        BY <1>2, <1>9, <2>2 DEF HostRecord, HostCapturing, Ending
      <3>2. Tells
        BY <1>4, <2>2
      <3>. QED BY <1>1, <3>1, <3>2
    <2>. QED BY <1>9, <2>1, <2>2 DEF HostDisable
  <1>10. CASE m.op = "release" /\ HostRelease(m)
    <2>1. CASE Refuse(m, NoSession)
      BY <1>1, <1>6, <2>1
    <2>2. CASE host' = [host EXCEPT ![m.s] = NoHostRecord] /\ CallBackend(m)
      <3>1. Table
        BY <1>2, <1>10, <2>2 DEF NoHostRecord, HostCapturing, Ending
      <3>2. Tells
        BY <1>4, <2>2
      <3>. QED BY <1>1, <3>1, <3>2
    <2>. QED BY <1>10, <2>1, <2>2 DEF HostRelease
  <1>11. CASE m.op = "enable" /\ HostEnable(m)
    <2>. DEFINE others == HostCapturing \ {m.s}
    <2>1. CASE Refuse(m, NoSession)
      BY <1>1, <1>6, <2>1
    <2>2. CASE ReplyTo(m, Answer(TRUE, FALSE, NoSession)) /\ UNCHANGED <<host, outbox, serving>>
      <3>1. Table
        BY <2>2 DEF HostCapturing
      <3>2. Tells
        BY <1>3, <2>2
      <3>. QED BY <1>1, <3>1, <3>2
    <2>3. ASSUME NEW other \in others, Refuse(m, other) PROVE Table /\ Tells
      <3>1. UNCHANGED <<host, outbox, serving>> /\ ReplyTo(m, Answer(FALSE, FALSE, other))
        BY <2>3 DEF Refuse
      <3>2. Table
        BY <3>1 DEF HostCapturing
      <3>3. Answer(FALSE, FALSE, other) \in Reply /\ Answer(FALSE, FALSE, other).conflict = other
        BY <1>3 DEF HostCapturing
      <3>4. Tells
        BY <3>1, <3>3
      <3>. QED BY <3>2, <3>4
    <2>4. CASE /\ others = {} /\ CallBackend(m)
               /\ host' = [host EXCEPT ![m.s].known = TRUE, ![m.s].enabled = TRUE]
      <3>1. Table
        BY <1>2, <1>11, <2>4 DEF HostRecord, HostCapturing, Ending, Enables
      <3>2. Tells
        BY <1>4, <2>4
      <3>. QED BY <1>1, <3>1, <3>2
    <2>5. CASE /\ m.over # NoSession /\ CallBackend(m)
               /\ \E other \in others :
                     host' = [host EXCEPT ![other].enabled = FALSE,
                                          ![m.s].known = TRUE, ![m.s].enabled = TRUE]
      <3>1. PICK other \in others :
                     host' = [host EXCEPT ![other].enabled = FALSE,
                                          ![m.s].known = TRUE, ![m.s].enabled = TRUE]
        BY <2>5
      <3>2. other \in Sessions /\ other # m.s
        BY DEF HostCapturing
      <3>3. /\ host'[m.s].enabled /\ ~host'[other].enabled
            /\ \A t \in Sessions : t # m.s /\ t # other => host'[t] = host[t]
        BY <1>2, <3>1, <3>2 DEF HostRecord
      <3>4. Table
        BY <1>11, <2>5, <3>2, <3>3 DEF HostCapturing, Ending, Enables
      <3>5. Tells
        BY <1>4, <2>5
      <3>. QED BY <1>1, <3>4, <3>5
    <2>6. CASE \E other \in others : Refuse(m, other)
      BY <1>1, <2>3, <2>6
    <2>7. \/ Refuse(m, NoSession)
          \/ ReplyTo(m, Answer(TRUE, FALSE, NoSession)) /\ UNCHANGED <<host, outbox, serving>>
          \/ \E other \in others : Refuse(m, other)
          \/ /\ others = {} /\ CallBackend(m)
             /\ host' = [host EXCEPT ![m.s].known = TRUE, ![m.s].enabled = TRUE]
          \/ /\ m.over # NoSession /\ CallBackend(m)
             /\ \E other \in others :
                     host' = [host EXCEPT ![other].enabled = FALSE,
                                          ![m.s].known = TRUE, ![m.s].enabled = TRUE]
      BY <1>11 DEF HostEnable
    <2>. QED BY <2>1, <2>2, <2>4, <2>5, <2>6, <2>7
  <1>. QED BY <1>2, <1>7, <1>8, <1>9, <1>10, <1>11

\* portald knows of no other session and asks nobody.
Unworried == ~Conflicted /\ ~(job # None /\ job.at = "consent")

\* Steps that call nobody, and give nobody a capture.
LEMMA RetryStays ==
  ASSUME RetryInv, SameCalls(inbox, inbox'), HostCapturing' \subseteq HostCapturing,
         UNCHANGED job \/ Unworried'
  PROVE  RetryInv'
  <1>1. \A s, t : Foretold(s, t) => Foretold(s, t)'
    BY DEF Foretold
  <1>2. Idle(inbox) => Idle(inbox)'
    BY DEF Idle, SameCalls
  <1>3. ASSUME NEW i \in DOMAIN inbox', inbox'[i].over # NoSession
        PROVE  /\ HostCapturing' \ {inbox'[i].s} \subseteq {inbox'[i].over}
               /\ \A j \in DOMAIN inbox' : j < i => inbox'[j].op = "lock"
    <2>1. /\ i \in DOMAIN inbox /\ inbox[i].over # NoSession
          /\ inbox'[i].s = inbox[i].s /\ inbox'[i].over = inbox[i].over
      BY <1>3 DEF SameCalls
    <2>2. /\ HostCapturing \ {inbox[i].s} \subseteq {inbox[i].over}
          /\ \A j \in DOMAIN inbox : j < i => inbox[j].op = "lock"
      BY <2>1 DEF RetryInv, Foretold
    <2>. QED BY <2>1, <2>2 DEF SameCalls
  <1>4. CASE Unworried'
    BY <1>3, <1>4 DEF RetryInv, Unworried, Foretold
  <1>5. CASE UNCHANGED job
    <2>1. Conflicted' => /\ Conflicted /\ Idle(inbox)'
                         /\ HostCapturing' \ {job'.s} \subseteq {job'.reply.conflict}
      BY <1>2, <1>5 DEF Conflicted, RetryInv, Foretold
    <2>2. job' # None /\ job'.at = "consent" =>
            Idle(inbox)' /\ HostCapturing' \ {job'.s} \subseteq {job'.over}
      BY <1>2, <1>5 DEF RetryInv, Foretold
    <2>. QED BY <1>3, <2>1, <2>2 DEF RetryInv, Foretold
  <1>. QED BY <1>4, <1>5

\* A call behind the others: a lock call, a probe, or the second Enable.
LEMMA RetryAdds ==
  ASSUME CaptureInv, RetryInv, UNCHANGED host, NEW m \in Call, inbox' = Append(inbox, m),
         m.over # NoSession => Idle(inbox) /\ Foretold(m.s, m.over),
         Unworried' \/ (UNCHANGED job /\ m.op = "lock")
  PROVE  RetryInv'
  <1>1. /\ DOMAIN inbox' = DOMAIN inbox \cup {Len(inbox) + 1}
        /\ \A i \in DOMAIN inbox : inbox'[i] = inbox[i] /\ i < Len(inbox) + 1 /\ i \in Nat
        /\ inbox'[Len(inbox) + 1] = m /\ Len(inbox) \in Nat
    BY WayTypes, AddedCall
  <1>2. HostCapturing' = HostCapturing
    BY DEF HostCapturing
  <1>3. ASSUME NEW i \in DOMAIN inbox', inbox'[i].over # NoSession
        PROVE  /\ HostCapturing' \ {inbox'[i].s} \subseteq {inbox'[i].over}
               /\ \A j \in DOMAIN inbox' : j < i => inbox'[j].op = "lock"
    <2>1. CASE i \in DOMAIN inbox
      <3>1. /\ HostCapturing \ {inbox[i].s} \subseteq {inbox[i].over}
            /\ \A j \in DOMAIN inbox : j < i => inbox[j].op = "lock"
        BY <1>1, <1>3, <2>1 DEF RetryInv, Foretold
      <3>2. \A j \in DOMAIN inbox' : j < i => j \in DOMAIN inbox
        BY <1>1, <2>1
      <3>. QED BY <1>1, <1>2, <2>1, <3>1, <3>2
    <2>2. CASE i = Len(inbox) + 1
      <3>1. Idle(inbox) /\ HostCapturing \ {m.s} \subseteq {m.over}
        BY <1>1, <1>3, <2>2 DEF Foretold
      <3>2. \A j \in DOMAIN inbox' : j < i => j \in DOMAIN inbox
        BY <1>1, <2>2
      <3>. QED BY <1>1, <1>2, <2>2, <3>1, <3>2 DEF Idle
    <2>. QED BY <1>1, <2>1, <2>2
  <1>4. CASE Unworried'
    BY <1>3, <1>4 DEF RetryInv, Unworried, Foretold
  <1>5. CASE UNCHANGED job /\ m.op = "lock"
    <2>1. Idle(inbox) => Idle(inbox)'
      BY <1>1, <1>5 DEF Idle
    <2>2. Conflicted' => Idle(inbox)' /\ HostCapturing' \ {job'.s} \subseteq {job'.reply.conflict}
      BY <1>2, <1>5, <2>1 DEF Conflicted, RetryInv, Foretold
    <2>3. job' # None /\ job'.at = "consent" =>
            Idle(inbox)' /\ HostCapturing' \ {job'.s} \subseteq {job'.over}
      BY <1>2, <1>5, <2>1 DEF RetryInv, Foretold
    <2>. QED BY <1>3, <2>2, <2>3 DEF RetryInv, Foretold
  <1>. QED BY <1>4, <1>5

\* desktopd takes a call.  The second Enable is behind lock calls only, so that what
\* portald was told is still so when it is served.
LEMMA RetryHost ==
  ASSUME CaptureInv, WaitInv, RetryInv, HostServes
  PROVE  RetryInv'
  <1>1. PICK m : m = Head(inbox)
    OBVIOUS
  <1>2. /\ 1 \in DOMAIN inbox /\ m = inbox[1] /\ m \in Call /\ DOMAIN inbox' \subseteq Nat
        /\ DOMAIN inbox \subseteq Nat
        /\ \A i \in DOMAIN inbox' : i + 1 \in DOMAIN inbox /\ inbox'[i] = inbox[i + 1] /\ i + 1 > 1
    BY <1>1, HostTakes, WayTypes, TakenCall
  <1>3. ASSUME NEW i \in DOMAIN inbox', inbox'[i].over # NoSession
        PROVE  /\ m.op = "lock"
               /\ HostCapturing \ {inbox'[i].s} \subseteq {inbox'[i].over}
               /\ \A j \in DOMAIN inbox' : j < i => inbox'[j].op = "lock"
    <2>1. /\ HostCapturing \ {inbox[i + 1].s} \subseteq {inbox[i + 1].over}
          /\ \A j \in DOMAIN inbox : j < i + 1 => inbox[j].op = "lock"
      BY <1>2, <1>3 DEF RetryInv, Foretold
    <2>2. m.op = "lock"
      BY <1>2, <2>1
    <2>3. ASSUME NEW j \in DOMAIN inbox', j < i PROVE inbox'[j].op = "lock"
      <3>1. j + 1 \in DOMAIN inbox /\ inbox'[j] = inbox[j + 1] /\ j \in Nat /\ i \in Nat
        BY <1>2
      <3>2. j + 1 < i + 1
        BY <2>3, <3>1
      <3>. QED BY <2>1, <3>1, <3>2
    <2>. QED BY <1>2, <2>1, <2>2, <2>3
  <1>4. Idle(inbox) => Idle(inbox)' /\ m.op = "lock"
    BY <1>2 DEF Idle
  <1>5. CASE m.op = "lock"
    <2>1. UNCHANGED <<job, host>>
      BY <1>1, <1>5, HostTakes
    <2>2. HostCapturing' = HostCapturing
      BY <2>1 DEF HostCapturing
    <2>3. Conflicted' => Idle(inbox)' /\ HostCapturing' \ {job'.s} \subseteq {job'.reply.conflict}
      BY <1>4, <2>1, <2>2 DEF Conflicted, RetryInv, Foretold
    <2>4. job' # None /\ job'.at = "consent" =>
            Idle(inbox)' /\ HostCapturing' \ {job'.s} \subseteq {job'.over}
      BY <1>4, <2>1, <2>2 DEF RetryInv, Foretold
    <2>. QED BY <1>3, <2>2, <2>3, <2>4 DEF RetryInv, Foretold
  <1>6. CASE m.op # "lock"
    <2>1. Unworried
      BY <1>4, <1>6 DEF RetryInv, Unworried
    <2>2. CASE UNCHANGED job
      BY <1>3, <1>6, <2>1, <2>2 DEF RetryInv, Unworried, Conflicted
    <2>3. ASSUME NEW reply \in Reply, ReplyTo(m, reply),
                 reply.conflict # NoSession =>
                   UNCHANGED host /\ reply.conflict \in HostCapturing \ {m.s}
          PROVE  RetryInv'
      <3>1. m.live => IsJobs(m) /\ \A j \in DOMAIN inbox : j > 1 => inbox[j].op = "lock"
        BY <1>2, <1>6 DEF WaitInv
      <3>2. /\ ~m.live => UNCHANGED job
            /\ m.live => job'.reply = reply /\ job'.s = job.s /\ job'.at = job.at
        BY <1>2, <2>3, <3>1, Told
      <3>3. CASE m.live
        <4>1. Idle(inbox)'
          BY <1>2, <3>1, <3>3 DEF Idle
        <4>2. ASSUME Conflicted' PROVE HostCapturing' \ {job'.s} \subseteq {job'.reply.conflict}
          <5>1. reply.conflict # NoSession /\ job'.s = m.s
            BY <3>1, <3>2, <3>3, <4>2 DEF Conflicted, IsJobs
          <5>2. HostCapturing' = HostCapturing /\ reply.conflict \in HostCapturing
            BY <2>3, <5>1 DEF HostCapturing
          <5>3. \A s, t \in HostCapturing : s = t
            BY DEF CaptureInv, HostOne
          <5>. QED BY <3>2, <3>3, <5>2, <5>3
        <4>3. ~(job' # None /\ job'.at = "consent")
          BY <3>1, <3>2, <3>3 DEF IsJobs
        <4>. QED BY <1>3, <1>6, <4>1, <4>2, <4>3 DEF RetryInv, Foretold
      <3>. QED BY <2>2, <3>2, <3>3
    <2>. QED BY <1>1, <1>6, <2>2, <2>3, TableAfter
  <1>. QED BY <1>5, <1>6

LEMMA RetryInvStep ==
  ASSUME CaptureInv, JobInv, WaitInv, RetryInv, [Next]_vars
  PROVE  RetryInv'
  <1>. USE DEF portaldVars, hostVars, shellVars, provVars, ghosts, bounds
  <1>1. /\ SameCalls(inbox, Abandon(inbox)) /\ SameCalls(inbox, AbandonLocks(inbox))
        /\ SameCalls(inbox, inbox)
    BY WayTypes, AbandonedCalls
  <1>2. ASSUME UNCHANGED host PROVE HostCapturing' \subseteq HostCapturing
    BY <1>2 DEF HostCapturing
  <1>3. ASSUME job' = None PROVE Unworried'
    BY <1>3 DEF Unworried, Conflicted
  <1>4. ASSUME job \in Job, job' = [job EXCEPT !.reply = Lost], job.at # "consent"
        PROVE  Unworried'
    <2>1. job'.at # "consent" /\ job'.reply.conflict = NoSession
      BY <1>4, JobFields DEF Lost
    <2>. QED BY <2>1 DEF Unworried, Conflicted
  <1>5. CASE \E op \in Ops, s \in Sessions, mode \in Modes, strict \in Strict :
                Ask(op, s, mode, strict)
    <2>1. PICK op \in Ops, s \in Sessions, mode \in Modes, strict \in Strict :
                 Ask(op, s, mode, strict)
      BY <1>5
    <2>2. PICK m \in Call : inbox' = Append(inbox, m) /\ m.over = NoSession
      <3>1. [op |-> op, s |-> s, by |-> gen, over |-> NoSession, strict |-> strict, live |-> TRUE]
              \in Call
        BY WayTypes, BoundsAssumption DEF Call
      <3>. QED BY <2>1, <3>1 DEF Ask, CallHost
    <2>3. Unworried' /\ UNCHANGED host
      BY <2>1 DEF Ask, Unworried, Conflicted
    <2>. QED BY <2>2, <2>3, RetryAdds
  <1>6. ASSUME NEW over \in Sessions \cup {NoSession}, job \in Job, Retry(over), UNCHANGED host,
               Idle(inbox), Foretold(job.s, over)
        PROVE  RetryInv'
    <2>1. PICK m \in Call : inbox' = Append(inbox, m) /\ m.over = over /\ m.s = job.s
      <3>1. [op |-> "enable", s |-> job.s, by |-> gen, over |-> over,
             strict |-> job.strict, live |-> TRUE] \in Call
        BY <1>6, WayTypes, JobShape DEF Call, Ops
      <3>. QED BY <1>6, <3>1 DEF Retry, CallHost
    <2>2. job'.at = "retry"
      BY <1>6 DEF Retry, Job
    <2>3. Unworried'
      BY <2>2 DEF Unworried, Conflicted
    <2>. QED BY <1>6, <2>1, <2>3, RetryAdds
  <1>7. CASE RetryUnasked
    <2>1. Conflicted /\ Retry(job.reply.conflict) /\ UNCHANGED host
      BY <1>7 DEF RetryUnasked
    <2>2. job \in Job /\ job.reply.conflict \in Sessions \cup {NoSession}
      BY <2>1, WayTypes, JobShape DEF Conflicted
    <2>. QED BY <1>6, <2>1, <2>2 DEF RetryInv
  <1>8. CASE UserAllows
    <2>1. job # None /\ job.at = "consent" /\ Retry(job.over) /\ UNCHANGED host
      BY <1>8 DEF UserAllows
    <2>2. job \in Job /\ job.over \in Sessions \cup {NoSession}
      BY <2>1, WayTypes, JobShape
    <2>. QED BY <1>6, <2>1, <2>2 DEF RetryInv
  <1>9. CASE AskUser
    <2>1. /\ Conflicted /\ job \in Job /\ UNCHANGED <<inbox, host>>
          /\ job' = [job EXCEPT !.at = "consent", !.over = job.reply.conflict]
      BY <1>9, WayTypes DEF AskUser, Conflicted
    <2>2. job'.at = "consent" /\ job'.over = job.reply.conflict /\ job'.s = job.s
      BY <2>1 DEF Job
    <2>3. HostCapturing' = HostCapturing
      BY <2>1 DEF HostCapturing
    <2>4. Idle(inbox) /\ HostCapturing \ {job.s} \subseteq {job.reply.conflict}
      BY <2>1 DEF RetryInv, Foretold
    <2>5. ~Conflicted'
      BY <2>2 DEF Conflicted
    <2>. QED BY <2>1, <2>2, <2>3, <2>4, <2>5 DEF RetryInv, Foretold, Idle
  <1>10. CASE ConsentEnds \/ BridgeReturns \/ PortaldDies
    <2>1. job' = None /\ UNCHANGED host /\ (inbox' = inbox \/ inbox' = Abandon(inbox))
      BY <1>10 DEF ConsentEnds, BridgeReturns, PortaldDies, Return
    <2>2. SameCalls(inbox, inbox')
      BY <1>1, <2>1
    <2>. QED BY <1>2, <1>3, <2>1, <2>2, RetryStays
  <1>11. CASE PortaldTimesOut
    <2>1. /\ job \in Job /\ job' = [job EXCEPT !.reply = Lost] /\ job.at # "consent"
          /\ UNCHANGED host /\ inbox' = Abandon(inbox)
      BY <1>11, WayTypes DEF PortaldTimesOut
    <2>2. SameCalls(inbox, inbox')
      BY <1>1, <2>1
    <2>. QED BY <1>2, <1>4, <2>1, <2>2, RetryStays
  <1>12. CASE HostServes
    BY <1>12, RetryHost
  <1>13. CASE HostReplies
    <2>1. /\ serving.call \in Call /\ (serving.call.live => IsJobs(serving.call))
          /\ serving.reply \in Reply /\ UNCHANGED <<host, inbox>>
          /\ ReplyTo(serving.call, Answer(TRUE, serving.reply.applied, NoSession))
      BY <1>13, WayTypes, ServingFields DEF HostReplies, WaitInv, Served
    <2>2. /\ Answer(TRUE, serving.reply.applied, NoSession) \in Reply
          /\ Answer(TRUE, serving.reply.applied, NoSession).conflict = NoSession
      BY <2>1, Replies DEF Reply, Answer
    <2>3. /\ ~serving.call.live => UNCHANGED job
          /\ serving.call.live => job'.reply.conflict = NoSession /\ job'.at = job.at
      BY <2>1, <2>2, Told
    <2>4. UNCHANGED job \/ Unworried'
      BY <2>1, <2>3 DEF Unworried, Conflicted, IsJobs
    <2>. QED BY <1>1, <1>2, <2>1, <2>4, RetryStays
  <1>14. CASE DesktopdDies
    <2>1. inbox' = <<>> /\ job' = JobUnanswered
          /\ host' = [s \in Sessions |-> NoHostRecord]
      BY <1>14 DEF DesktopdDies
    <2>2. DOMAIN inbox' = {} /\ HostCapturing' = {}
      BY <2>1 DEF HostCapturing, NoHostRecord
    <2>. QED BY <2>2 DEF RetryInv, Foretold, Idle
  <1>15. CASE \/ HostTimesOut \/ ShellServes \/ (\E s \in Sessions : UserStops(s))
              \/ LockTimesOut \/ ShellDies \/ ShellStarts \/ UNCHANGED vars
    <2>1. UNCHANGED <<job, host>> /\ (inbox' = inbox \/ inbox' = AbandonLocks(inbox))
      BY <1>15 DEF HostTimesOut, ShellServes, UserStops, LockTimesOut, ShellDies, ShellStarts, vars
    <2>2. SameCalls(inbox, inbox')
      BY <1>1, <2>1
    <2>. QED BY <1>2, <2>1, <2>2, RetryStays
  <1>16. CASE ShellLocks
    <2>1. PICK m \in Call : inbox' = Append(inbox, m) /\ m.over = NoSession /\ m.op = "lock"
      <3>1. [op |-> "lock", s |-> NoSession, by |-> 0, over |-> NoSession,
             strict |-> FALSE, live |-> TRUE] \in Call
        BY DEF Call
      <3>. QED BY <1>16, <3>1 DEF ShellLocks
    <2>2. UNCHANGED <<job, host>>
      BY <1>16 DEF ShellLocks
    <2>. QED BY <2>1, <2>2, RetryAdds
  <1>. QED BY <1>5, <1>7, <1>8, <1>9, <1>10, <1>11, <1>12, <1>13, <1>14, <1>15, <1>16
       DEF Next, PortaldStep, HostStep

\* desktopd displaces whom the user was asked about, or the probe had named: what was
\* so when portald was told is so when the second Enable is served, because portald
\* has one call under way and the shell does not change desktopd's table.
LEMMA TakesAsAgreed ==
  ASSUME CaptureInv, RetryInv, HostServes, NEW s \in HostCapturing
  PROVE  \/ host'[s].enabled
         \/ /\ inbox # <<>>
            /\ \/ Head(inbox).s = s /\ Head(inbox).op \in {"disable", "release"}
               \/ Head(inbox).op = "enable" /\ Head(inbox).over = s
  <1>1. /\ inbox # <<>> /\ 1 \in DOMAIN inbox /\ Head(inbox) = inbox[1]
        /\ Head(inbox).op = "lock" => UNCHANGED host
    BY HostTakes, WayTypes, TakenCall
  <1>2. CASE Head(inbox).op = "lock"
    BY <1>1, <1>2 DEF HostCapturing
  <1>3. CASE /\ Head(inbox).op = "enable" /\ Head(inbox).over # NoSession
             /\ s # Head(inbox).s
    <2>1. HostCapturing \ {Head(inbox).s} \subseteq {Head(inbox).over}
      BY <1>1, <1>3 DEF RetryInv, Foretold
    <2>. QED BY <1>1, <1>3, <2>1
  <1>4. CASE Head(inbox).op # "lock"
    BY <1>1, <1>3, <1>4, TableAfter DEF Ending
  <1>. QED BY <1>2, <1>4

-----------------------------------------------------------------------------
\* The provider serves a call.

LEMMA ProviderTable ==
  ASSUME ProviderOK, RecordsInv, NEW m \in Passed, NEW stuck, NEW ok \in BOOLEAN,
         ProviderServes(m, stuck, ok)
  PROVE  \A t \in Sessions :
           prov'[t].enabled =>
             /\ prov'[t].known
             /\ \/ ok /\ Enables(m, t)
                \/ prov[t].enabled /\ ~(ok /\ Ends(m, t))
  <1> SUFFICES ASSUME NEW t \in Sessions, prov'[t].enabled
               PROVE  /\ prov'[t].known
                      /\ \/ ok /\ Enables(m, t)
                         \/ prov[t].enabled /\ ~(ok /\ Ends(m, t))
    OBVIOUS
  <1>1. m.s \in Sessions /\ prov \in [Sessions -> Provider!Record]
        /\ (prov[t].enabled => prov[t].known)
    BY DEF Passed, ProviderOK, RecordsInv
  <1>2. CASE m.op = "create" /\ Provider!CreateSession(m.s, ok)
    <2>1. prov' = [prov EXCEPT ![m.s].known = TRUE]
      BY <1>2 DEF Provider!CreateSession
    <2>. QED BY <1>1, <1>2, <2>1 DEF Provider!Record, Ends
  <1>3. CASE m.op = "barriers" /\ Provider!SetPointerBarriers(m.s, stuck, ok)
    BY <1>1, <1>3 DEF Provider!SetPointerBarriers, Provider!provVars, Ends
  <1>4. CASE m.op = "disable" /\ Provider!DisableSession(m.s, stuck, ok)
    <2>1. \/ ~ok /\ prov' = prov
          \/ ~ok /\ prov' = [prov EXCEPT ![m.s].enabled = FALSE]
          \/ ok /\ prov' = [prov EXCEPT ![m.s].enabled = FALSE]
      BY <1>4 DEF Provider!DisableSession, Provider!provVars, Provider!PassOn, Provider!Settle
    <2>2. ~ok /\ prov' = prov => prov[t].enabled /\ prov'[t].known
      BY <1>1
    <2>3. prov' = [prov EXCEPT ![m.s].enabled = FALSE] =>
            t # m.s /\ prov[t].enabled /\ prov'[t].known
      BY <1>1 DEF Provider!Record
    <2>. QED BY <1>4, <2>1, <2>2, <2>3 DEF Ends
  <1>5. CASE m.op = "release" /\ Provider!ReleaseSession(m.s, ok)
    <2>1. \/ prov' = [prov EXCEPT ![m.s] = Provider!NoRecord]
          \/ ~prov[m.s].known /\ prov' = prov
      BY <1>5 DEF Provider!ReleaseSession, Provider!provVars, Provider!PassOn, Provider!Settle
    <2>2. t # m.s /\ prov[t].enabled /\ prov'[t].known
      BY <1>1, <2>1 DEF Provider!NoRecord
    <2>. QED BY <1>5, <2>2 DEF Ends
  <1>6. CASE m.op = "enable" /\ Provider!EnableSession(m.s, m.over # NoSession, stuck, ok)
    <2>1. ASSUME NEW other \in Sessions \cup {NoSession}, prov[m.s].known,
                 Provider!TakeOver(m.s, other, stuck, ok), ProviderCapturing \ {m.s} \subseteq {other}
          PROVE  /\ prov'[t].known
                 /\ \/ ok /\ Enables(m, t)
                    \/ prov[t].enabled /\ ~(ok /\ Ends(m, t))
      <3>1. CASE ok
        <4>1. prov' = [u \in Sessions |->
                         CASE u = m.s   -> [known |-> TRUE, enabled |-> TRUE]
                           [] u = other -> [prov[u] EXCEPT !.enabled = FALSE]
                           [] OTHER     -> prov[u]]
          BY <2>1, <3>1 DEF Provider!TakeOver, Provider!Settle
        <4>2. CASE t = m.s
          BY <1>6, <3>1, <4>1, <4>2 DEF Enables
        <4>3. CASE t # m.s
          <5>1. prov[t].enabled => t = other
            BY <2>1, <4>3 DEF ProviderCapturing, Provider!Capturing
          <5>2. FALSE
            BY <1>1, <4>1, <4>3, <5>1 DEF Provider!Record
          <5>. QED BY <5>2
        <4>. QED BY <4>2, <4>3
      <3>2. CASE ~ok
        <4>1. prov' = [prov EXCEPT ![m.s].enabled = FALSE]
          BY <2>1, <3>2 DEF Provider!TakeOver, Provider!Settle
        <4>. QED BY <1>1, <3>2, <4>1 DEF Provider!Record
      <3>. QED BY <3>1, <3>2
    <2>2. CASE ~ok /\ UNCHANGED prov
      BY <1>1, <2>2
    <2>3. \A other \in ProviderCapturing \ {m.s} :
             other \in Sessions /\ ProviderCapturing \ {m.s} \subseteq {other}
      BY DEF ProviderOK, ProviderCapturing, Provider!Capturing
    <2>4. \/ ~ok /\ UNCHANGED prov
          \/ /\ prov[m.s].known /\ ProviderCapturing \ {m.s} = {}
             /\ Provider!TakeOver(m.s, NoSession, stuck, ok)
          \/ /\ prov[m.s].known
             /\ \E other \in ProviderCapturing \ {m.s} : Provider!TakeOver(m.s, other, stuck, ok)
      BY <1>6 DEF Provider!EnableSession, Provider!provVars, ProviderCapturing
    <2>. QED BY <2>1, <2>2, <2>3, <2>4
  <1>. QED BY <1>2, <1>3, <1>4, <1>5, <1>6 DEF ProviderServes

\* The user stops a session.
LEMMA UserTable ==
  ASSUME ProviderOK, RecordsInv, NEW s \in Sessions, UserStops(s)
  PROVE  \A t \in Sessions : prov'[t].enabled => prov[t].enabled /\ prov'[t].known
  <1>1. prov \in [Sessions -> Provider!Record] /\ \A t \in Sessions : prov[t].enabled => prov[t].known
    BY DEF ProviderOK, RecordsInv
  <1>2. \/ prov' = prov
        \/ prov' = [prov EXCEPT ![s].enabled = FALSE]
        \/ prov' = [prov EXCEPT ![s] = Provider!NoRecord]
    BY DEF UserStops, Provider!DisableSession, Provider!ReleaseSession, Provider!provVars,
           Provider!PassOn, Provider!Settle
  <1>. QED BY <1>1, <1>2 DEF Provider!Record, Provider!NoRecord

\* The table of the provider, step by step: a record of a capture is made by an Enable.
LEMMA ProviderChanges ==
  ASSUME CaptureInv, RecordsInv, [Next]_vars
  PROVE  \/ ShellServes
         \/ \A t \in Sessions : prov'[t].enabled => prov[t].enabled /\ prov'[t].known
  <1>. USE DEF portaldVars, hostVars, shellVars, provVars, ghosts, bounds
  <1>1. ASSUME UNCHANGED prov
        PROVE  \A t \in Sessions : prov'[t].enabled => prov[t].enabled /\ prov'[t].known
    BY <1>1 DEF RecordsInv
  <1>2. CASE \E s \in Sessions : UserStops(s)
    BY <1>2, UserTable DEF CaptureInv
  <1>3. CASE ShellDies
    BY <1>3 DEF ShellDies, Provider!NoRecord
  <1>4. CASE \E op \in Ops, s \in Sessions, mode \in Modes, strict \in Strict :
                Ask(op, s, mode, strict)
    BY <1>1, <1>4 DEF Ask
  <1>5. CASE \/ RetryUnasked \/ AskUser \/ BridgeReturns \/ UserAllows \/ ConsentEnds
             \/ PortaldTimesOut \/ HostServes \/ HostReplies \/ HostTimesOut
    BY <1>1, <1>5 DEF RetryUnasked, AskUser, BridgeReturns, UserAllows, ConsentEnds,
                      PortaldTimesOut, HostServes, HostReplies, HostTimesOut
  <1>6. CASE ShellLocks \/ LockTimesOut \/ PortaldDies \/ DesktopdDies \/ ShellStarts \/ UNCHANGED vars
    BY <1>1, <1>6 DEF ShellLocks, LockTimesOut, PortaldDies, DesktopdDies, ShellStarts, vars
  <1>. QED BY <1>2, <1>3, <1>4, <1>5, <1>6 DEF Next, PortaldStep, HostStep

\* What the shell takes, and what becomes of it.
LEMMA ShellTakes ==
  ASSUME CaptureInv, RecordsInv, ShellServes
  PROVE  /\ outbox # <<>> /\ outbox' = Tail(outbox) /\ Head(outbox) \in Passed
         /\ UNCHANGED <<job, host, inbox, off>>
         /\ \E ok \in BOOLEAN :
              /\ \A t \in Sessions :
                   prov'[t].enabled =>
                     /\ prov'[t].known
                     /\ \/ ok /\ Enables(Head(outbox), t)
                        \/ prov[t].enabled /\ ~(ok /\ Ends(Head(outbox), t))
              /\ serving' = IF Head(outbox).live
                            THEN [serving EXCEPT !.reply = Answer(ok, ok, NoSession)]
                            ELSE serving
              /\ disturbed' = (disturbed \/ ~ok)
  <1>1. outbox # <<>> /\ outbox' = Tail(outbox) /\ UNCHANGED <<job, host, inbox, off>>
    BY DEF ShellServes, portaldVars
  <1>2. Head(outbox) \in Passed
    BY <1>1, WayTypes, QueueTypes
  <1>3. PICK stuck, ok \in BOOLEAN :
          /\ ProviderServes(Head(outbox), stuck, ok)
          /\ serving' = IF Head(outbox).live
                        THEN [serving EXCEPT !.reply = Answer(ok, ok, NoSession)]
                        ELSE serving
          /\ disturbed' = (disturbed \/ ~ok)
    BY DEF ShellServes
  <1>4. ProviderOK
    BY DEF CaptureInv
  <1>5. PICK m : m = Head(outbox)
    OBVIOUS
  <1>6. \A t \in Sessions :
          prov'[t].enabled =>
            /\ prov'[t].known
            /\ \/ ok /\ Enables(m, t)
               \/ prov[t].enabled /\ ~(ok /\ Ends(m, t))
    BY <1>2, <1>3, <1>4, <1>5, ProviderTable
  <1>. QED BY <1>1, <1>2, <1>3, <1>5, <1>6

LEMMA RecordsStep ==
  ASSUME CaptureInv, RecordsInv, [Next]_vars
  PROVE  RecordsInv'
  <1>1. CASE ShellServes
    BY <1>1, ShellTakes DEF RecordsInv
  <1>. QED BY <1>1, ProviderChanges DEF RecordsInv

-----------------------------------------------------------------------------
\* No hidden capture.

\* desktopd tells the shell of every capture it ends, and of none it does not grant.
LEMMA BackendTold ==
  ASSUME CaptureInv, HostServes
  PROVE  \/ disturbed'
         \/ UNCHANGED <<host, outbox, disturbed>>
         \/ /\ UNCHANGED disturbed
            /\ \E m \in Call :
                 /\ outbox' = Append(outbox, m)
                 /\ \A t \in Sessions \ HostCapturing' :
                      ~Enables(m, t) /\ (t \in HostCapturing => Ends(m, t))
  <1>1. PICK m : m = Head(inbox)
    OBVIOUS
  <1>2. m \in Call /\ host \in [Sessions -> HostRecord] /\ m \in Asked
    BY <1>1, HostTakes, WayTypes, QueueTypes DEF CaptureInv, HostOK, Asked
  <1>3. [m EXCEPT !.live = TRUE] \in Call
    BY <1>2 DEF Call
  <1>4. /\ [m EXCEPT !.live = TRUE].op = m.op /\ [m EXCEPT !.live = TRUE].s = m.s
    BY <1>2, CallFields
  <1>5. CASE m.op = "lock"
    BY <1>1, <1>5, HostTakes DEF HostServes
  <1>6. CASE m.op # "lock" /\ CallBackend(m) /\ ~disturbed'
    <2>1. outbox' = Append(outbox, [m EXCEPT !.live = TRUE]) /\ UNCHANGED disturbed
      BY <1>6 DEF CallBackend
    <2>2. m.op = "enable" => host'[m.s].enabled
      <3>1. CASE m.op = "enable"
        <4>1. HostEnable(m) /\ m.s \in Sessions
          BY <1>1, <1>2, <1>6, <3>1 DEF HostServes, Asked
        <4>2. CASE host[m.s].enabled /\ UNCHANGED host
          BY <4>2
        <4>3. CASE UNCHANGED <<outbox>>
          <5>1. Len(outbox') = Len(outbox) + 1 /\ Len(outbox) \in Nat
            BY <2>1, <1>3, WayTypes, AddedCall
          <5>. QED BY <4>3, <5>1
        <4>4. CASE host' = [host EXCEPT ![m.s].known = TRUE, ![m.s].enabled = TRUE]
          BY <1>2, <4>1, <4>4 DEF HostRecord
        <4>5. CASE \E other \in HostCapturing \ {m.s} :
                     host' = [host EXCEPT ![other].enabled = FALSE,
                                          ![m.s].known = TRUE, ![m.s].enabled = TRUE]
          BY <1>2, <4>1, <4>5 DEF HostRecord, HostCapturing
        <4>. QED BY <4>1, <4>3, <4>4, <4>5 DEF HostEnable, Refuse
      <3>. QED BY <3>1
    <2>3. ASSUME NEW t \in Sessions \ HostCapturing'
          PROVE  ~Enables(m, t) /\ (t \in HostCapturing => Ends(m, t))
      <3>1. ~host'[t].enabled
        BY DEF HostCapturing
      <3>2. ~Enables(m, t)
        BY <2>2, <3>1 DEF Enables
      <3>3. t \in HostCapturing =>
               \/ m.s = t /\ m.op \in Ending
               \/ m.op = "enable" /\ t # m.s
        BY <1>1, <1>6, <3>1, TableAfter
      <3>. QED BY <3>2, <3>3 DEF Ends, Ending
    <2>4. ASSUME NEW t \in Sessions \ HostCapturing'
          PROVE  /\ ~Enables([m EXCEPT !.live = TRUE], t)
                 /\ t \in HostCapturing => Ends([m EXCEPT !.live = TRUE], t)
      BY <1>4, <2>3 DEF Enables, Ends
    <2>. QED BY <1>3, <2>1, <2>4
  <1>7. CASE m.op # "lock" /\ ~CallBackend(m)
    BY <1>1, <1>7 DEF HostServes, HostCreate, HostBarriers, HostEnable, HostDisable, HostRelease,
                      Refuse
  <1>. QED BY <1>5, <1>6, <1>7

\* Steps that leave the calls to the shell, and take no capture from the host.
LEMMA KnownStays ==
  ASSUME KnownInv, disturbed' = disturbed, HostCapturing \subseteq HostCapturing',
         SameCalls(outbox, outbox'),
         \A t \in Sessions : prov'[t].enabled => prov[t].enabled
  PROVE  KnownInv'
  <1> SUFFICES ASSUME ~disturbed', NEW s \in Sessions \ HostCapturing'
               PROVE  /\ prov'[s].enabled => \E i \in DOMAIN outbox' : Ends(outbox'[i], s)
                      /\ \A i \in DOMAIN outbox' : Enables(outbox'[i], s) =>
                           \E j \in DOMAIN outbox' : j > i /\ Ends(outbox'[j], s)
    BY DEF KnownInv, Ends, Enables
  <1>1. /\ prov[s].enabled => \E i \in DOMAIN outbox : Ends(outbox[i], s)
        /\ \A i \in DOMAIN outbox : Enables(outbox[i], s) =>
             \E j \in DOMAIN outbox : j > i /\ Ends(outbox[j], s)
    BY DEF KnownInv
  <1>2. /\ DOMAIN outbox' = DOMAIN outbox
        /\ \A i \in DOMAIN outbox : /\ Ends(outbox'[i], s) <=> Ends(outbox[i], s)
                                    /\ Enables(outbox'[i], s) <=> Enables(outbox[i], s)
    BY DEF SameCalls, Ends, Enables
  <1>. QED BY <1>1, <1>2

LEMMA KnownHost ==
  ASSUME CaptureInv, KnownInv, HostServes
  PROVE  KnownInv'
  <1> SUFFICES ASSUME ~disturbed'
               PROVE  KnownInv'
    BY DEF KnownInv
  <1>1. UNCHANGED prov
    BY DEF HostServes, provVars
  <1>2. CASE UNCHANGED <<host, outbox, disturbed>>
    BY <1>1, <1>2 DEF KnownInv, HostCapturing, Ends, Enables
  <1>3. CASE /\ UNCHANGED disturbed
             /\ \E m \in Call :
                 /\ outbox' = Append(outbox, m)
                 /\ \A t \in Sessions \ HostCapturing' :
                      ~Enables(m, t) /\ (t \in HostCapturing => Ends(m, t))
    <2>1. PICK m \in Call :
                 /\ outbox' = Append(outbox, m)
                 /\ \A t \in Sessions \ HostCapturing' :
                      ~Enables(m, t) /\ (t \in HostCapturing => Ends(m, t))
      BY <1>3
    <2>2. PICK n : n = Len(outbox) + 1
      OBVIOUS
    <2>3. /\ DOMAIN outbox' = DOMAIN outbox \cup {n} /\ outbox'[n] = m
          /\ \A i \in DOMAIN outbox : outbox'[i] = outbox[i] /\ i < n
      BY <2>1, <2>2, WayTypes, AddedCall
    <2>4. ASSUME NEW s \in Sessions \ HostCapturing'
          PROVE  /\ prov'[s].enabled => \E i \in DOMAIN outbox' : Ends(outbox'[i], s)
                 /\ \A i \in DOMAIN outbox' : Enables(outbox'[i], s) =>
                      \E j \in DOMAIN outbox' : j > i /\ Ends(outbox'[j], s)
      <3>1. CASE s \in HostCapturing
        <4>1. Ends(outbox'[n], s) /\ n \in DOMAIN outbox' /\ ~Enables(outbox'[n], s)
          BY <2>1, <2>3, <3>1
        <4>2. \A i \in DOMAIN outbox' : Enables(outbox'[i], s) => n > i
          BY <2>3, <4>1
        <4>. QED BY <4>1, <4>2
      <3>2. CASE s \notin HostCapturing
        <4>1. /\ prov[s].enabled => \E i \in DOMAIN outbox : Ends(outbox[i], s)
              /\ \A i \in DOMAIN outbox : Enables(outbox[i], s) =>
                   \E j \in DOMAIN outbox : j > i /\ Ends(outbox[j], s)
          BY <1>3, <3>2 DEF KnownInv
        <4>2. ~Enables(outbox'[n], s)
          BY <2>1, <2>3
        <4>3. prov'[s].enabled => \E i \in DOMAIN outbox' : Ends(outbox'[i], s)
          BY <1>1, <2>3, <4>1
        <4>4. ASSUME NEW i \in DOMAIN outbox', Enables(outbox'[i], s)
              PROVE  \E j \in DOMAIN outbox' : j > i /\ Ends(outbox'[j], s)
          <5>1. i \in DOMAIN outbox /\ Enables(outbox[i], s)
            BY <2>3, <4>2, <4>4
          <5>. QED BY <2>3, <4>1, <5>1
        <4>. QED BY <4>3, <4>4
      <3>. QED BY <3>1, <3>2
    <2>. QED BY <2>4 DEF KnownInv, Ends, Enables
  <1>. QED BY <1>2, <1>3, BackendTold

LEMMA KnownShell ==
  ASSUME CaptureInv, RecordsInv, KnownInv, ShellServes
  PROVE  KnownInv'
  <1>1. PICK ok \in BOOLEAN :
          /\ \A t \in Sessions :
               prov'[t].enabled =>
                 \/ ok /\ Enables(Head(outbox), t)
                 \/ prov[t].enabled /\ ~(ok /\ Ends(Head(outbox), t))
          /\ disturbed' = (disturbed \/ ~ok)
    BY ShellTakes
  <1>2. HostCapturing' = HostCapturing
    BY ShellTakes DEF HostCapturing
  <1>3. /\ 1 \in DOMAIN outbox /\ Head(outbox) = outbox[1] /\ DOMAIN outbox \subseteq Nat
        /\ DOMAIN outbox' \subseteq Nat
        /\ \A i \in DOMAIN outbox' : i + 1 \in DOMAIN outbox /\ outbox'[i] = outbox[i + 1] /\ i + 1 > 1
        /\ \A i \in DOMAIN outbox : i # 1 => /\ i - 1 \in DOMAIN outbox'
                                             /\ outbox'[i - 1] = outbox[i]
    BY ShellTakes, WayTypes, TakenCall
  <1> SUFFICES ASSUME ~disturbed', NEW s \in Sessions \ HostCapturing
               PROVE  /\ prov'[s].enabled => \E i \in DOMAIN outbox' : Ends(outbox'[i], s)
                      /\ \A i \in DOMAIN outbox' : Enables(outbox'[i], s) =>
                           \E j \in DOMAIN outbox' : j > i /\ Ends(outbox'[j], s)
    BY <1>2 DEF KnownInv, Ends, Enables
  <1>4. ~disturbed
    BY <1>1
  <1>5. /\ prov[s].enabled => \E i \in DOMAIN outbox : Ends(outbox[i], s)
        /\ \A i \in DOMAIN outbox : Enables(outbox[i], s) =>
             \E j \in DOMAIN outbox : j > i /\ Ends(outbox[j], s)
    BY <1>4 DEF KnownInv
  <1>6. ASSUME prov'[s].enabled
        PROVE  \E i \in DOMAIN outbox' : Ends(outbox'[i], s)
    <2>1. \/ Enables(outbox[1], s)
          \/ prov[s].enabled /\ ~Ends(outbox[1], s)
      BY <1>1, <1>3, <1>6
    <2>2. ASSUME NEW j \in DOMAIN outbox, j # 1, Ends(outbox[j], s)
          PROVE  \E i \in DOMAIN outbox' : Ends(outbox'[i], s)
      BY <1>3, <2>2
    <2>3. CASE Enables(outbox[1], s)
      <3>1. PICK j \in DOMAIN outbox : j > 1 /\ Ends(outbox[j], s)
        BY <1>3, <1>5, <2>3
      <3>. QED BY <2>2, <3>1
    <2>4. CASE prov[s].enabled /\ ~Ends(outbox[1], s)
      <3>1. PICK j \in DOMAIN outbox : Ends(outbox[j], s)
        BY <1>5, <2>4
      <3>. QED BY <2>2, <2>4, <3>1
    <2>. QED BY <2>1, <2>3, <2>4
  <1>7. ASSUME NEW i \in DOMAIN outbox', Enables(outbox'[i], s)
        PROVE  \E j \in DOMAIN outbox' : j > i /\ Ends(outbox'[j], s)
    <2>1. i \in Nat /\ i + 1 \in DOMAIN outbox /\ Enables(outbox[i + 1], s)
      BY <1>3, <1>7
    <2>2. PICK j \in DOMAIN outbox : j > i + 1 /\ Ends(outbox[j], s)
      BY <1>5, <2>1
    <2>3. j \in Nat /\ j # 1
      BY <1>3, <2>1, <2>2
    <2>4. j - 1 \in DOMAIN outbox' /\ outbox'[j - 1] = outbox[j] /\ j - 1 > i
      BY <1>3, <2>1, <2>2, <2>3
    <2>. QED BY <2>2, <2>4
  <1>. QED BY <1>6, <1>7

LEMMA KnownStep ==
  ASSUME CaptureInv, RecordsInv, KnownInv, [Next]_vars
  PROVE  KnownInv'
  <1>. USE DEF portaldVars, hostVars, shellVars, provVars, ghosts, bounds
  <1>1. SameCalls(outbox, Abandon(outbox)) /\ SameCalls(outbox, outbox)
    BY WayTypes, AbandonedCalls
  <1>2. ASSUME disturbed' = disturbed, UNCHANGED host,
               outbox' = outbox \/ outbox' = Abandon(outbox), ~ShellServes
        PROVE  KnownInv'
    <2>1. \A t \in Sessions : prov'[t].enabled => prov[t].enabled
      BY <1>2, ProviderChanges
    <2>2. SameCalls(outbox, outbox')
      BY <1>1, <1>2
    <2>3. HostCapturing \subseteq HostCapturing'
      BY <1>2 DEF HostCapturing
    <2>. QED BY <1>2, <2>1, <2>2, <2>3, KnownStays
  <1>3. CASE ShellServes
    BY <1>3, KnownShell
  <1>4. CASE HostServes
    BY <1>4, KnownHost
  <1>5. CASE PortaldDies \/ DesktopdDies \/ ShellDies
    BY <1>5 DEF PortaldDies, DesktopdDies, ShellDies, Dies, KnownInv
  <1>6. CASE \E op \in Ops, s \in Sessions, mode \in Modes, strict \in Strict :
                Ask(op, s, mode, strict)
    BY <1>2, <1>3, <1>6 DEF Ask
  <1>7. CASE \/ RetryUnasked \/ AskUser \/ BridgeReturns \/ UserAllows \/ ConsentEnds
             \/ PortaldTimesOut \/ HostReplies \/ HostTimesOut
    BY <1>2, <1>3, <1>7 DEF RetryUnasked, AskUser, BridgeReturns, UserAllows, ConsentEnds,
                      PortaldTimesOut, HostReplies, HostTimesOut
  <1>8. CASE ShellLocks \/ LockTimesOut \/ ShellStarts \/ UNCHANGED vars
             \/ (\E s \in Sessions : UserStops(s))
    BY <1>2, <1>3, <1>8 DEF ShellLocks, LockTimesOut, ShellStarts, UserStops, vars
  <1>. QED BY <1>3, <1>4, <1>5, <1>6, <1>7, <1>8 DEF Next, PortaldStep, HostStep

-----------------------------------------------------------------------------
\* Off means off.

\* What neither table has enabled, and no call will enable, stays so until portald
\* calls for it.
LEMMA GoneOn ==
  ASSUME CaptureInv, JobInv, RecordsInv, [Next]_vars, NEW s \in Sessions, Gone(s),
         ~(job' # None /\ job'.op = "enable" /\ job'.s = s)
  PROVE  Gone(s)'
  <1>. USE DEF portaldVars, hostVars, shellVars, provVars, ghosts, bounds
  <1>1. /\ SameCalls(inbox, Abandon(inbox)) /\ SameCalls(inbox, AbandonLocks(inbox))
        /\ SameCalls(inbox, inbox) /\ SameCalls(outbox, Abandon(outbox))
        /\ SameCalls(outbox, outbox)
    BY WayTypes, AbandonedCalls
  <1>2. ASSUME NEW m \in Call, inbox' = Append(inbox, m), ~Enables(m, s)
        PROVE  \A i \in DOMAIN inbox' : ~Enables(inbox'[i], s)
    BY <1>2, WayTypes, AddedCall DEF Gone
  <1>3. ASSUME NEW m \in Call, outbox' = Append(outbox, m), ~Enables(m, s)
        PROVE  \A i \in DOMAIN outbox' : ~Enables(outbox'[i], s)
    BY <1>3, WayTypes, AddedCall DEF Gone
  <1>4. \A q : q = <<>> => DOMAIN q = {}
    OBVIOUS
  <1>5. inbox' = <<>> \/ SameCalls(inbox, inbox') => \A i \in DOMAIN inbox' : ~Enables(inbox'[i], s)
    BY <1>4 DEF Gone, SameCalls, Enables
  <1>6. outbox' = <<>> \/ SameCalls(outbox, outbox') =>
          \A i \in DOMAIN outbox' : ~Enables(outbox'[i], s)
    BY <1>4 DEF Gone, SameCalls, Enables
  <1>7. CASE ShellServes
    <2>1. /\ outbox # <<>> /\ outbox' = Tail(outbox) /\ UNCHANGED <<host, inbox>>
          /\ prov'[s].enabled => Enables(Head(outbox), s) \/ prov[s].enabled
      BY <1>7, ShellTakes
    <2>2. /\ 1 \in DOMAIN outbox /\ Head(outbox) = outbox[1]
          /\ \A i \in DOMAIN outbox' : i + 1 \in DOMAIN outbox /\ outbox'[i] = outbox[i + 1]
      BY <2>1, WayTypes, TakenCall
    <2>. QED BY <2>1, <2>2 DEF Gone, Enables
  <1>8. ~ShellServes => ~prov'[s].enabled
    BY ProviderChanges DEF Gone
  <1>9. CASE HostServes
    <2>1. /\ inbox # <<>> /\ inbox' = Tail(inbox) /\ Head(inbox) \in Call
          /\ 1 \in DOMAIN inbox /\ Head(inbox) = inbox[1]
          /\ \A i \in DOMAIN inbox' : i + 1 \in DOMAIN inbox /\ inbox'[i] = inbox[i + 1]
      BY <1>9, HostTakes, WayTypes, TakenCall
    <2>2. ~Enables(Head(inbox), s)
      BY <2>1 DEF Gone
    <2>3. ~host'[s].enabled
      BY <1>9, <2>2, HostTakes, TableAfter DEF Gone
    <2>4. \A i \in DOMAIN inbox' : ~Enables(inbox'[i], s)
      BY <2>1 DEF Gone
    <2>5. ASSUME outbox' = outbox PROVE \A i \in DOMAIN outbox' : ~Enables(outbox'[i], s)
      BY <1>1, <1>6, <2>5
    <2>6. ASSUME outbox' = Append(outbox, [Head(inbox) EXCEPT !.live = TRUE])
          PROVE  \A i \in DOMAIN outbox' : ~Enables(outbox'[i], s)
      <3>1. PICK m : m = [Head(inbox) EXCEPT !.live = TRUE]
        OBVIOUS
      <3>2. m \in Call /\ m.op = Head(inbox).op /\ m.s = Head(inbox).s
        BY <2>1, <3>1, CallFields DEF Call
      <3>3. ~Enables(m, s)
        BY <2>2, <3>2 DEF Enables
      <3>. QED BY <1>3, <2>6, <3>1, <3>2, <3>3
    <2>7. outbox' = outbox \/ outbox' = Append(outbox, [Head(inbox) EXCEPT !.live = TRUE])
      BY <1>9, HostTakes
    <2>8. ~prov'[s].enabled
      BY <1>9 DEF HostServes, Gone
    <2>9. \A i \in DOMAIN outbox' : ~Enables(outbox'[i], s)
      BY <1>1, <1>6, <2>5, <2>6, <2>7
    <2>. QED BY <2>3, <2>4, <2>8, <2>9 DEF Gone, Enables
  <1>10. ASSUME ~ShellServes, ~host'[s].enabled,
                \A i \in DOMAIN inbox' : ~Enables(inbox'[i], s),
                outbox' = <<>> \/ SameCalls(outbox, outbox')
         PROVE  Gone(s)'
    BY <1>6, <1>8, <1>10 DEF Gone, Enables
  <1>11. CASE \E op \in Ops, t \in Sessions, mode \in Modes, strict \in Strict :
                Ask(op, t, mode, strict)
    <2>1. PICK op \in Ops, t \in Sessions, mode \in Modes, strict \in Strict :
                 Ask(op, t, mode, strict)
      BY <1>11
    <2>2. PICK m : m = [op |-> op, s |-> t, by |-> gen, over |-> NoSession,
                        strict |-> strict, live |-> TRUE]
      OBVIOUS
    <2>3. m \in Call /\ m.op = op /\ m.s = t
      BY <2>2, WayTypes, BoundsAssumption DEF Call
    <2>4. inbox' = Append(inbox, m)
      BY <2>1, <2>2 DEF Ask, CallHost
    <2>5. job' \in Job /\ job'.op = op /\ job'.s = t
      BY <2>1, BoundsAssumption DEF Ask, Job
    <2>6. ~Enables(m, s)
      BY <2>3, <2>5, NoneIsNone DEF Enables
    <2>7. outbox' = outbox /\ host' = host
      BY <2>1 DEF Ask
    <2>. QED BY <1>1, <1>2, <1>7, <1>10, <2>3, <2>4, <2>6, <2>7 DEF Gone
  <1>12. CASE RetryUnasked \/ UserAllows
    <2>1. job \in Job /\ job.op = "enable"
      BY <1>12, WayTypes DEF RetryUnasked, UserAllows, Conflicted, JobInv
    <2>2. PICK over : Retry(over) /\ over \in Sessions \cup {NoSession}
      BY <1>12, JobShape, <2>1 DEF RetryUnasked, UserAllows, Conflicted
    <2>3. PICK m : m = [op |-> "enable", s |-> job.s, by |-> gen, over |-> over,
                        strict |-> job.strict, live |-> TRUE]
      OBVIOUS
    <2>4. m \in Call /\ m.s = job.s
      BY <2>1, <2>2, <2>3, WayTypes DEF Call, Job, Ops
    <2>5. inbox' = Append(inbox, m)
      BY <2>2, <2>3 DEF Retry, CallHost
    <2>6. job' # None /\ job'.op = "enable" /\ job'.s = job.s
      BY <2>1, <2>2 DEF Retry, Job, None
    <2>7. ~Enables(m, s)
      BY <2>4, <2>6 DEF Enables
    <2>8. outbox' = outbox /\ host' = host
      BY <1>12 DEF RetryUnasked, UserAllows
    <2>. QED BY <1>1, <1>2, <1>7, <1>10, <2>4, <2>5, <2>7, <2>8 DEF Gone
  <1>13. CASE \/ AskUser \/ BridgeReturns \/ ConsentEnds \/ PortaldTimesOut \/ HostReplies
              \/ HostTimesOut
    BY <1>1, <1>5, <1>7, <1>10, <1>13 DEF AskUser, BridgeReturns, ConsentEnds, PortaldTimesOut,
                                         HostReplies, HostTimesOut, Gone
  <1>14. CASE ShellLocks
    <2>1. PICK m : m = [op |-> "lock", s |-> NoSession, by |-> 0, over |-> NoSession,
                        strict |-> FALSE, live |-> TRUE]
      OBVIOUS
    <2>2. m \in Call /\ ~Enables(m, s)
      BY <2>1 DEF Call, Enables
    <2>. QED BY <1>1, <1>2, <1>7, <1>10, <1>14, <2>1, <2>2 DEF ShellLocks, Gone
  <1>15. CASE LockTimesOut \/ ShellStarts \/ UNCHANGED vars \/ (\E t \in Sessions : UserStops(t))
    BY <1>1, <1>5, <1>7, <1>10, <1>15 DEF LockTimesOut, ShellStarts, UserStops, vars, Gone
  <1>16. CASE PortaldDies \/ ShellDies
    BY <1>1, <1>5, <1>7, <1>10, <1>16 DEF PortaldDies, ShellDies, Gone
  <1>17. CASE DesktopdDies
    BY <1>1, <1>5, <1>7, <1>10, <1>17 DEF DesktopdDies, NoHostRecord
  <1>. QED BY <1>7, <1>9, <1>11, <1>12, <1>13, <1>14, <1>15, <1>16, <1>17
       DEF Next, PortaldStep, HostStep

\* The shell was last sent the call desktopd waits for.
LEMMA LastStep ==
  ASSUME CaptureInv, RecordsInv, LastInv, [Next]_vars
  PROVE  LastInv'
  <1>. USE DEF portaldVars, hostVars, shellVars, provVars, ghosts, bounds
  <1>1. /\ SameCalls(outbox, Abandon(outbox)) /\ SameCalls(outbox, outbox)
        /\ \A i \in DOMAIN outbox : outbox[i].op # "lock" /\ ~Abandon(outbox)[i].live
    BY WayTypes, AbandonedCalls
  <1>2. serving # None =>
          /\ AbandonServing.call.op = serving.call.op /\ AbandonServing.call.s = serving.call.s
          /\ AbandonServing.reply = serving.reply /\ AbandonServing # None
    BY WayTypes, ServingFields, NoneIsNone
  <1>3. ASSUME \A i \in DOMAIN outbox' : ~outbox'[i].live PROVE LastInv'
    BY <1>3 DEF LastInv
  <1>4. outbox' = Abandon(outbox) \/ outbox' = <<>> => \A i \in DOMAIN outbox' : ~outbox'[i].live
    <2>1. \A q : q = <<>> => DOMAIN q = {}
      OBVIOUS
    <2>. QED BY <1>1, <2>1 DEF SameCalls
  <1>5. CASE UNCHANGED <<outbox, serving>>
    BY <1>5 DEF LastInv
  <1>6. CASE HostServes
    <2>1. serving = None /\ \A i \in DOMAIN outbox : ~outbox[i].live
      BY <1>6, HostTakes DEF LastInv
    <2>2. CASE /\ serving' = [call |-> Head(inbox), reply |-> None]
               /\ outbox' = Append(outbox, [Head(inbox) EXCEPT !.live = TRUE])
      <3>1. Head(inbox) \in Call
        BY <1>6, HostTakes, WayTypes, TakenCall
      <3>2. PICK m : m = [Head(inbox) EXCEPT !.live = TRUE]
        OBVIOUS
      <3>3. m \in Call /\ m.op = Head(inbox).op /\ m.s = Head(inbox).s
        BY <3>1, <3>2, CallFields DEF Call
      <3>4. /\ DOMAIN outbox' = DOMAIN outbox \cup {Len(outbox) + 1}
            /\ Len(outbox') = Len(outbox) + 1
            /\ \A i \in DOMAIN outbox : outbox'[i] = outbox[i]
            /\ outbox'[Len(outbox) + 1] = m
        BY <2>2, <3>2, <3>3, WayTypes, AddedCall
      <3>5. serving' \in Served /\ serving'.call = Head(inbox) /\ serving'.reply = None
        BY <2>2, <3>1 DEF Served
      <3>6. serving' # None
        BY <3>5, NoneIsNone
      <3>. QED BY <2>1, <3>3, <3>4, <3>5, <3>6 DEF LastInv
    <2>3. \/ UNCHANGED <<outbox, serving>>
          \/ /\ serving' = [call |-> Head(inbox), reply |-> None]
             /\ outbox' = Append(outbox, [Head(inbox) EXCEPT !.live = TRUE])
      BY <1>6, HostTakes
    <2>. QED BY <1>5, <2>2, <2>3
  <1>7. CASE HostReplies
    BY <1>3, <1>7 DEF HostReplies, LastInv
  <1>8. CASE HostTimesOut \/ DesktopdDies \/ ShellDies
    BY <1>3, <1>4, <1>8 DEF HostTimesOut, DesktopdDies, ShellDies
  <1>9. CASE PortaldTimesOut \/ PortaldDies
    <2>1. serving' = AbandonServing /\ outbox' = outbox
      BY <1>9 DEF PortaldTimesOut, PortaldDies
    <2>. QED BY <1>2, <2>1 DEF LastInv
  <1>10. CASE ShellServes
    <2>1. /\ outbox # <<>> /\ outbox' = Tail(outbox)
          /\ ~Head(outbox).live => serving' = serving
      BY <1>10, ShellTakes
    <2>2. /\ 1 \in DOMAIN outbox /\ Head(outbox) = outbox[1]
          /\ Len(outbox') + 1 = Len(outbox) /\ Len(outbox) \in Nat /\ DOMAIN outbox' \subseteq Nat
          /\ \A i \in DOMAIN outbox' : i + 1 \in DOMAIN outbox /\ outbox'[i] = outbox[i + 1] /\ i + 1 > 1
      BY <2>1, WayTypes, TakenCall
    <2>3. Len(outbox') \in Nat
      BY <2>1, WayTypes, HeadTailProperties
    <2>4. ASSUME NEW i \in DOMAIN outbox', outbox'[i].live
          PROVE  /\ i = Len(outbox') /\ serving' # None /\ serving'.reply = None
                 /\ outbox'[i].op = serving'.call.op /\ outbox'[i].s = serving'.call.s
      <3>1. i + 1 \in DOMAIN outbox /\ outbox'[i] = outbox[i + 1] /\ i + 1 > 1 /\ i \in Nat
        BY <2>2
      <3>2. /\ i + 1 = Len(outbox) /\ serving # None /\ serving.reply = None
            /\ outbox[i + 1].op = serving.call.op /\ outbox[i + 1].s = serving.call.s
        BY <2>4, <3>1 DEF LastInv
      <3>3. ~Head(outbox).live
        BY <2>2, <3>1, <3>2 DEF LastInv
      <3>. QED BY <2>1, <2>2, <2>3, <3>1, <3>2, <3>3
    <2>. QED BY <2>4 DEF LastInv
  <1>11. CASE \E op \in Ops, s \in Sessions, mode \in Modes, strict \in Strict :
                Ask(op, s, mode, strict)
    BY <1>5, <1>11 DEF Ask
  <1>12. CASE \/ RetryUnasked \/ AskUser \/ BridgeReturns \/ UserAllows \/ ConsentEnds
              \/ ShellLocks \/ LockTimesOut \/ ShellStarts \/ UNCHANGED vars
              \/ (\E s \in Sessions : UserStops(s))
    BY <1>5, <1>12 DEF RetryUnasked, AskUser, BridgeReturns, UserAllows, ConsentEnds, ShellLocks,
                       LockTimesOut, ShellStarts, UserStops, vars
  <1>. QED BY <1>6, <1>7, <1>8, <1>9, <1>10, <1>11, <1>12 DEF Next, PortaldStep, HostStep

\* What desktopd serves stays what it was, but for the steps that take a call and end it.
LEMMA ServingStays ==
  ASSUME CaptureInv, [Next]_vars, ~HostServes, serving' # None
  PROVE  /\ serving # None /\ serving'.call.op = serving.call.op /\ serving'.call.s = serving.call.s
         /\ serving'.call.live => serving.call.live
         /\ \/ serving'.reply = serving.reply
            \/ serving'.reply = Lost
            \/ ShellServes /\ Head(outbox).live
         /\ host' = host
  <1>. USE DEF portaldVars, hostVars, shellVars, provVars, ghosts, bounds
  <1>1. serving # None =>
          /\ AbandonServing.call.op = serving.call.op /\ AbandonServing.call.s = serving.call.s
          /\ ~AbandonServing.call.live /\ AbandonServing.reply = serving.reply
          /\ \A r : [serving EXCEPT !.reply = r].call = serving.call
                    /\ [serving EXCEPT !.reply = r].reply = r
    BY WayTypes, ServingFields
  <1>2. /\ serving = None => AbandonServing = None
        /\ serving = None => \A r : [serving EXCEPT !.reply = r] = None
    BY DEF AbandonServing, None
  <1>3. ASSUME serving' = serving \/ serving' = AbandonServing, host' = host
        PROVE  /\ serving # None /\ serving'.call.op = serving.call.op
               /\ serving'.call.s = serving.call.s
               /\ serving'.call.live => serving.call.live
               /\ serving'.reply = serving.reply
               /\ host' = host
    BY <1>1, <1>2, <1>3
  <1>4. ASSUME NEW r, serving' = [serving EXCEPT !.reply = r], host' = host
        PROVE  /\ serving # None /\ serving'.call.op = serving.call.op
               /\ serving'.call.s = serving.call.s
               /\ serving'.call.live => serving.call.live
               /\ serving'.reply = r
               /\ host' = host
    BY <1>1, <1>2, <1>4
  <1>5. CASE HostReplies \/ DesktopdDies
    BY <1>5 DEF HostReplies, DesktopdDies
  <1>6. CASE PortaldTimesOut \/ PortaldDies
    BY <1>3, <1>6 DEF PortaldTimesOut, PortaldDies
  <1>7. CASE HostTimesOut
    BY <1>4, <1>7 DEF HostTimesOut
  <1>8. CASE ShellDies
    BY <1>3, <1>4, <1>8 DEF ShellDies
  <1>9. CASE ShellServes
    <2>1. host' = host
      BY <1>9 DEF ShellServes
    <2>2. CASE ~Head(outbox).live
      BY <1>3, <1>9, <2>1, <2>2 DEF ShellServes
    <2>3. CASE Head(outbox).live
      BY <1>4, <1>9, <2>1, <2>3 DEF ShellServes
    <2>. QED BY <2>2, <2>3
  <1>10. CASE \E op \in Ops, s \in Sessions, mode \in Modes, strict \in Strict :
                Ask(op, s, mode, strict)
    BY <1>3, <1>10 DEF Ask
  <1>11. CASE \/ RetryUnasked \/ AskUser \/ BridgeReturns \/ UserAllows \/ ConsentEnds
              \/ ShellLocks \/ LockTimesOut \/ ShellStarts \/ UNCHANGED vars
              \/ (\E s \in Sessions : UserStops(s))
    BY <1>3, <1>11 DEF RetryUnasked, AskUser, BridgeReturns, UserAllows, ConsentEnds, ShellLocks,
                       LockTimesOut, ShellStarts, UserStops, vars
  <1>. QED BY <1>5, <1>6, <1>7, <1>8, <1>9, <1>10, <1>11 DEF Next, PortaldStep, HostStep

\* So does portald's job, but for the steps that take one and end it, and a client is
\* told of nothing meanwhile.
LEMMA JobStays ==
  ASSUME CaptureInv, JobInv, WaitInv, [Next]_vars, job' # None,
         ~\E op \in Ops, s \in Sessions, mode \in Modes, strict \in Strict :
            Ask(op, s, mode, strict)
  PROVE  /\ job # None /\ job'.op = job.op /\ job'.s = job.s /\ off' = off
         /\ \/ job'.reply = job.reply
            \/ job'.reply = None \/ ~job'.reply.applied
            \/ /\ HostReplies /\ serving.call.live
               /\ serving.call.op = job.op /\ serving.call.s = job.s
               /\ job'.reply.applied = serving.reply.applied
  <1>. USE DEF portaldVars, hostVars, shellVars, provVars, ghosts, bounds
  <1>. DEFINE Same == job # None /\ job'.op = job.op /\ job'.s = job.s
  <1>1. job # None => job \in Job
    BY WayTypes
  <1>2. ASSUME NEW reply, job' = [job EXCEPT !.reply = reply], job # None
        PROVE  Same /\ job'.reply = reply
    BY <1>1, <1>2, JobFields
  <1>3. ~Lost.applied
    BY DEF Lost
  <1>4. CASE RetryUnasked \/ UserAllows
    <2>1. job \in Job /\ job.op = "enable" /\ off' = off
      BY <1>1, <1>4 DEF RetryUnasked, UserAllows, Conflicted, JobInv, Retry
    <2>2. PICK over : Retry(over)
      BY <1>4 DEF RetryUnasked, UserAllows
    <2>3. job'.op = "enable" /\ job'.s = job.s /\ job'.reply = None
      BY <2>1, <2>2 DEF Retry, Job
    <2>. QED BY <2>1, <2>3, NoneIsNone
  <1>5. CASE AskUser
    <2>1. job \in Job /\ off' = off
          /\ job' = [job EXCEPT !.at = "consent", !.over = job.reply.conflict]
      BY <1>1, <1>5 DEF AskUser, Conflicted
    <2>2. job'.op = job.op /\ job'.s = job.s /\ job'.reply = job.reply
      BY <2>1 DEF Job
    <2>. QED BY <2>1, <2>2, NoneIsNone
  <1>6. CASE ConsentEnds \/ BridgeReturns \/ PortaldDies
    BY <1>6 DEF ConsentEnds, BridgeReturns, PortaldDies, Return
  <1>7. CASE PortaldTimesOut
    BY <1>2, <1>3, <1>7 DEF PortaldTimesOut
  <1>8. CASE DesktopdDies
    BY <1>2, <1>3, <1>8 DEF DesktopdDies, JobUnanswered
  <1>9. CASE HostServes
    <2>1. off' = off
      BY <1>9 DEF HostServes
    <2>2. CASE UNCHANGED job
      BY <2>1, <2>2
    <2>3. CASE /\ Head(inbox).op # "lock"
               /\ \E reply \in Reply : ReplyTo(Head(inbox), reply) /\ ~reply.applied
      <3>1. PICK reply \in Reply : ReplyTo(Head(inbox), reply) /\ ~reply.applied
        BY <2>3
      <3>2. Head(inbox) \in Call /\ 1 \in DOMAIN inbox /\ Head(inbox) = inbox[1]
        BY <1>9, HostTakes, WayTypes, TakenCall
      <3>3. Head(inbox).live => IsJobs(Head(inbox))
        BY <2>3, <3>2 DEF WaitInv
      <3>4. CASE Head(inbox).live
        <4>1. job # None /\ job' = [job EXCEPT !.reply = reply]
          BY <3>1, <3>3, <3>4 DEF IsJobs, ReplyTo
        <4>. QED BY <1>2, <2>1, <3>1, <4>1
      <3>5. CASE ~Head(inbox).live
        BY <2>2, <3>1, <3>5 DEF ReplyTo
      <3>. QED BY <3>4, <3>5
    <2>. QED BY <1>9, <2>2, <2>3, HostTakes
  <1>10. CASE HostReplies
    <2>1. off' = off /\ serving # None /\ serving.reply # None
      BY <1>10 DEF HostReplies
    <2>2. CASE ~serving.call.live
      BY <1>10, <2>1, <2>2 DEF HostReplies, ReplyTo
    <2>3. CASE serving.call.live
      <3>1. IsJobs(serving.call)
        BY <2>1, <2>3 DEF WaitInv
      <3>2. job' = [job EXCEPT !.reply = Answer(TRUE, serving.reply.applied, NoSession)]
        BY <1>10, <2>3 DEF HostReplies, ReplyTo
      <3>3. /\ Same /\ job'.reply = Answer(TRUE, serving.reply.applied, NoSession)
        BY <1>2, <3>1, <3>2 DEF IsJobs
      <3>4. job'.reply.applied = serving.reply.applied
        BY <3>3 DEF Answer
      <3>. QED BY <1>10, <2>1, <2>3, <3>1, <3>3, <3>4 DEF IsJobs
    <2>. QED BY <2>2, <2>3
  <1>11. CASE \/ HostTimesOut \/ ShellServes \/ (\E s \in Sessions : UserStops(s)) \/ ShellLocks
              \/ LockTimesOut \/ ShellDies \/ ShellStarts \/ UNCHANGED vars
    BY <1>11 DEF HostTimesOut, ShellServes, UserStops, ShellLocks, LockTimesOut, ShellDies,
                 ShellStarts, vars
  <1>. QED BY <1>4, <1>5, <1>6, <1>7, <1>8, <1>9, <1>10, <1>11 DEF Next, PortaldStep, HostStep

\* A client is told that its session is off only of a Disable or a Release that was applied.
LEMMA OffGrows ==
  ASSUME CaptureInv, JobInv, WaitInv, [Next]_vars
  PROVE  \A s \in off' :
           \/ s \in off
           \/ /\ job # None /\ job.op \in Ending /\ job.reply # None /\ job.reply.applied
              /\ s = job.s /\ job' = None
  <1>1. CASE job' = None
    <2>. USE DEF portaldVars, hostVars, shellVars, provVars, ghosts, bounds
    <2>1. CASE ConsentEnds \/ BridgeReturns
      BY <2>1 DEF ConsentEnds, BridgeReturns, Return, Ending
    <2>2. CASE \E op \in Ops, s \in Sessions, mode \in Modes, strict \in Strict :
                 Ask(op, s, mode, strict)
      BY <2>2 DEF Ask
    <2>3. CASE \/ RetryUnasked \/ AskUser \/ UserAllows \/ PortaldTimesOut \/ HostServes
               \/ HostReplies \/ HostTimesOut \/ ShellServes
               \/ (\E s \in Sessions : UserStops(s)) \/ ShellLocks \/ LockTimesOut
               \/ PortaldDies \/ DesktopdDies \/ ShellDies \/ ShellStarts \/ UNCHANGED vars
      BY <2>3 DEF RetryUnasked, AskUser, UserAllows, Retry, PortaldTimesOut, HostServes,
                  HostReplies, HostTimesOut, ShellServes, UserStops, ShellLocks, LockTimesOut,
                  PortaldDies, DesktopdDies, ShellDies, ShellStarts, vars
    <2>. QED BY <2>1, <2>2, <2>3 DEF Next, PortaldStep, HostStep
  <1>2. CASE job' # None
    <2>1. CASE \E op \in Ops, s \in Sessions, mode \in Modes, strict \in Strict :
                 Ask(op, s, mode, strict)
      BY <2>1 DEF Ask
    <2>. QED BY <1>2, <2>1, JobStays
  <1>. QED BY <1>1, <1>2

LEMMA AgainStep ==
  ASSUME CaptureInv, JobInv, WaitInv, AgainInv, [Next]_vars
  PROVE  AgainInv'
  <1>1. CASE \E op \in Ops, s \in Sessions, mode \in Modes, strict \in Strict :
                Ask(op, s, mode, strict)
    BY <1>1 DEF Ask, AgainInv
  <1>. QED BY <1>1, JobStays DEF AgainInv

LEMMA ToldStep ==
  ASSUME CaptureInv, JobInv, WaitInv, RecordsInv, AppliedInv, ToldInv, [Next]_vars
  PROVE  ToldInv'
  <1> SUFFICES ASSUME job' # None, job'.op \in Ending, job'.reply # None, job'.reply.applied
               PROVE  Gone(job.s)'
    BY DEF ToldInv, Gone, Enables
  <1>1. ~\E op \in Ops, s \in Sessions, mode \in Modes, strict \in Strict :
            Ask(op, s, mode, strict)
    BY DEF Ask
  <1>2. /\ job # None /\ job'.op = job.op /\ job'.s = job.s
        /\ \/ job'.reply = job.reply
           \/ /\ HostReplies /\ serving.call.live
              /\ serving.call.op = job.op /\ serving.call.s = job.s
              /\ job'.reply.applied = serving.reply.applied
    BY <1>1, JobStays
  <1>3. Gone(job.s)
    BY <1>2 DEF ToldInv, AppliedInv, HostReplies
  <1>4. PICK s \in Sessions : s = job.s
    BY <1>2, WayTypes, JobShape
  <1>5. Gone(s)'
    BY <1>2, <1>3, <1>4, GoneOn DEF Ending
  <1>. QED BY <1>2, <1>4, <1>5 DEF Gone, Enables

LEMMA FinalStep ==
  ASSUME CaptureInv, JobInv, WaitInv, RecordsInv, ToldInv, AgainInv, FinalInv, [Next]_vars
  PROVE  FinalInv'
  <1> SUFFICES ASSUME NEW s \in Sessions, s \in off'
               PROVE  Gone(s)'
    <2>1. off' \subseteq Sessions
      BY CaptureInvStays DEF CaptureInv, GhostsOK
    <2>. QED BY <2>1 DEF FinalInv, Gone, Enables
  <1>1. Gone(s)
    BY OffGrows DEF FinalInv, ToldInv
  <1>2. ~(job' # None /\ job'.op = "enable" /\ job'.s = s)
    BY AgainStep DEF AgainInv
  <1>. QED BY <1>1, <1>2, GoneOn

LEMMA ClearedStep ==
  ASSUME CaptureInv, ClearedInv, [Next]_vars
  PROVE  ClearedInv'
  <1> SUFFICES ASSUME serving' # None, serving'.call.op \in Ending
               PROVE  ~host'[serving'.call.s].enabled
    BY DEF ClearedInv
  <1>1. CASE HostServes
    <2>1. /\ serving = None /\ Head(inbox).op # "lock"
          /\ serving' = [call |-> Head(inbox), reply |-> None]
      BY <1>1, HostTakes
    <2>2. ~UNCHANGED serving /\ serving'.call = Head(inbox)
      BY <2>1
    <2>. QED BY <1>1, <2>1, <2>2, TableAfter
  <1>. QED BY <1>1, ServingStays DEF ClearedInv

LEMMA AppliedStep ==
  ASSUME CaptureInv, JobInv, WaitInv, RecordsInv, LastInv, ClearedInv, AppliedInv, [Next]_vars
  PROVE  AppliedInv'
  <1> SUFFICES ASSUME serving' # None, serving'.call.op \in Ending, serving'.call.live,
                      serving'.reply # None, serving'.reply.applied
               PROVE  Gone(serving.call.s)'
    BY DEF AppliedInv, Gone, Enables
  <1>1. ~HostServes
    <2>1. ASSUME HostServes PROVE FALSE
      <3>1. serving = None
        BY <2>1, HostTakes
      <3>2. serving' = [call |-> Head(inbox), reply |-> None]
        BY <2>1, <3>1, HostTakes
      <3>. QED BY <3>2
    <2>. QED BY <2>1
  <1>2. /\ serving # None /\ serving.call.live
        /\ serving'.call.op = serving.call.op /\ serving'.call.s = serving.call.s
        /\ serving'.reply = serving.reply \/ (ShellServes /\ Head(outbox).live)
        /\ host' = host
    BY <1>1, ServingStays DEF Lost
  <1>3. IsJobs(serving.call) /\ Idle(inbox)
    BY <1>2 DEF WaitInv
  <1>4. PICK s \in Sessions : s = serving.call.s
    BY <1>2, <1>3, WayTypes, JobShape DEF IsJobs
  <1>5. CASE serving'.reply = serving.reply
    <2>1. Gone(s)
      BY <1>2, <1>4, <1>5 DEF AppliedInv
    <2>2. ~(job' # None /\ job'.op = "enable" /\ job'.s = s)
      <3>1. job # None /\ job.op \in Ending
        BY <1>2, <1>3 DEF IsJobs
      <3>2. ~\E op \in Ops, t \in Sessions, mode \in Modes, strict \in Strict :
                Ask(op, t, mode, strict)
        BY <3>1 DEF Ask
      <3>3. job' # None => job'.op = job.op
        BY <3>2, JobStays
      <3>. QED BY <3>1, <3>3 DEF Ending
    <2>3. Gone(s)'
      BY <2>1, <2>2, GoneOn
    <2>. QED BY <1>2, <1>4, <2>3 DEF Gone, Enables
  <1>6. CASE ShellServes /\ Head(outbox).live
    <2>1. PICK ok \in BOOLEAN :
            /\ prov'[s].enabled => \/ ok /\ Enables(Head(outbox), s)
                                   \/ prov[s].enabled /\ ~(ok /\ Ends(Head(outbox), s))
            /\ serving' = [serving EXCEPT !.reply = Answer(ok, ok, NoSession)]
      BY <1>6, ShellTakes
    <2>2. serving'.reply = Answer(ok, ok, NoSession)
      BY <1>2, <2>1, WayTypes, ServingFields
    <2>3. ok
      BY <2>2 DEF Answer
    <2>4. outbox # <<>> /\ outbox' = Tail(outbox) /\ UNCHANGED inbox
      BY <1>6, ShellTakes
    <2>5. /\ 1 \in DOMAIN outbox /\ Head(outbox) = outbox[1] /\ Len(outbox) \in Nat
          /\ Len(outbox') + 1 = Len(outbox)
          /\ \A i \in DOMAIN outbox' : i + 1 \in DOMAIN outbox /\ outbox'[i] = outbox[i + 1] /\ i + 1 > 1
          /\ DOMAIN outbox \subseteq Nat
      BY <2>4, WayTypes, TakenCall
    <2>6. /\ Len(outbox) = 1 /\ Head(outbox).op = serving.call.op /\ Head(outbox).s = s
      BY <1>4, <1>6, <2>5 DEF LastInv
    <2>7. ~prov'[s].enabled
      BY <1>2, <2>1, <2>3, <2>6 DEF Enables, Ends, Ending
    <2>8. ~host'[s].enabled
      BY <1>2, <1>4 DEF ClearedInv
    <2>9. \A i \in DOMAIN inbox' : ~Enables(inbox'[i], s)
      BY <1>3, <2>4 DEF Idle, Enables
    <2>10. \A i \in DOMAIN outbox' : FALSE
      <3>1. outbox \in Seq(Call)
        BY WayTypes
      <3>2. DOMAIN outbox = 1 .. 1
        BY <2>6, <3>1
      <3>. QED BY <2>5, <3>2
    <2>. QED BY <1>2, <1>4, <2>7, <2>8, <2>9, <2>10 DEF Gone, Enables
  <1>. QED BY <1>2, <1>5, <1>6

-----------------------------------------------------------------------------

LEMMA WayStarts == Init => WayInv
  <1> SUFFICES ASSUME Init PROVE WayInv
    OBVIOUS
  <1>1. /\ job = None /\ serving = None /\ inbox = <<>> /\ outbox = <<>> /\ off = {}
        /\ \A s \in Sessions : ~prov[s].enabled
    BY DEF Init, Provider!ProviderInit, Provider!NoRecord
  <1>2. DOMAIN inbox = {} /\ DOMAIN outbox = {}
    BY <1>1
  <1>3. JobInv /\ WaitInv /\ RetryInv /\ RecordsInv /\ KnownInv
    BY <1>1, <1>2 DEF JobInv, WaitInv, RetryInv, Conflicted, RecordsInv, KnownInv
  <1>4. OffInv
    BY <1>1, <1>2 DEF OffInv, LastInv, ClearedInv, AppliedInv, ToldInv, AgainInv, FinalInv
  <1>. QED BY <1>3, <1>4 DEF WayInv

LEMMA WayStays ==
  ASSUME CaptureInv, WayInv, [Next]_vars
  PROVE  WayInv'
  <1>1. JobInv' /\ WaitInv' /\ RetryInv' /\ RecordsInv' /\ KnownInv'
    BY JobStep, WaitStep, RetryInvStep, RecordsStep, KnownStep DEF WayInv
  <1>2. LastInv' /\ ClearedInv' /\ AppliedInv' /\ ToldInv' /\ AgainInv' /\ FinalInv'
    BY LastStep, ClearedStep, AppliedStep, ToldStep, AgainStep, FinalStep DEF WayInv, OffInv
  <1>. QED BY <1>1, <1>2 DEF WayInv, OffInv

LEMMA WayHolds == Spec => [](CaptureInv /\ WayInv)
  <1>1. Init => CaptureInv /\ WayInv
    BY CaptureInvStarts, WayStarts
  <1>2. CaptureInv /\ WayInv /\ [Next]_vars => (CaptureInv /\ WayInv)'
    BY CaptureInvStays, WayStays
  <1>. QED BY <1>1, <1>2, PTL DEF Spec

\* A session loses its capture at desktopd only by its own Disable or Release, by
\* desktopd's death, or to an Enable granted over that very session: between the
\* answer (or the dialog) that named it and the Enable that displaces it, no other
\* session can have become the one that captures, though calls that timed out are
\* served late and the shell asks desktopd in between
\* (InputCaptureService::EnableSession, ImplPortalService's retry with allow_preempt).
THEOREM DisplacedOnlyAsAgreed == Spec => DisplacedAsAgreed
  <1>1. CaptureInv /\ WayInv /\ [Next]_vars =>
          [\A s \in HostCapturing :
             \/ host'[s].enabled
             \/ deaths' # deaths
             \/ /\ inbox # <<>>
                /\ LET m == Head(inbox) IN
                   \/ m.s = s /\ m.op \in {"disable", "release"}
                   \/ m.op = "enable" /\ m.over = s]_vars
    <2> SUFFICES ASSUME CaptureInv, WayInv, [Next]_vars, NEW s \in HostCapturing
                 PROVE  \/ host'[s].enabled
                        \/ deaths' # deaths
                        \/ /\ inbox # <<>>
                           /\ \/ Head(inbox).s = s /\ Head(inbox).op \in {"disable", "release"}
                              \/ Head(inbox).op = "enable" /\ Head(inbox).over = s
      OBVIOUS
    <2>. USE DEF portaldVars, hostVars, shellVars, provVars, ghosts, bounds
    <2>1. CASE HostServes
      BY <2>1, TakesAsAgreed DEF WayInv
    <2>2. CASE DesktopdDies
      <3>1. deaths \in Nat /\ deaths' = deaths + 1
        BY <2>2 DEF DesktopdDies, Dies, CaptureInv, GhostsOK
      <3>. QED BY <3>1
    <2>3. ASSUME host' = host PROVE host'[s].enabled
      BY <2>3 DEF HostCapturing
    <2>4. CASE \E op \in Ops, t \in Sessions, mode \in Modes, strict \in Strict :
                 Ask(op, t, mode, strict)
      BY <2>3, <2>4 DEF Ask
    <2>5. CASE \/ RetryUnasked \/ AskUser \/ BridgeReturns \/ UserAllows \/ ConsentEnds
               \/ PortaldTimesOut \/ HostReplies \/ HostTimesOut \/ ShellServes
               \/ (\E t \in Sessions : UserStops(t)) \/ ShellLocks \/ LockTimesOut
               \/ PortaldDies \/ ShellDies \/ ShellStarts \/ UNCHANGED vars
      BY <2>3, <2>5 DEF RetryUnasked, AskUser, BridgeReturns, UserAllows, ConsentEnds,
                        PortaldTimesOut, HostReplies, HostTimesOut, ShellServes, UserStops,
                        ShellLocks, LockTimesOut, PortaldDies, ShellDies, ShellStarts, vars
    <2>. QED BY <2>1, <2>2, <2>4, <2>5 DEF Next, PortaldStep, HostStep
  <1>. QED BY <1>1, WayHolds, PTL DEF Spec, DisplacedAsAgreed

\* No hidden capture: if no process died and every call to the shell was applied, a
\* session the provider captures for when all calls have been served is one desktopd
\* has enabled (InputCaptureService and CompositorInputCaptureBackendService keep their
\* own tables).
THEOREM CapturesAreKnown == Spec => []CaptureIsKnown
  <1>1. CaptureInv /\ WayInv => CaptureIsKnown
    <2> SUFFICES ASSUME WayInv, ~disturbed, outbox = <<>>,
                        NEW s \in Sessions, prov[s].enabled, s \notin HostCapturing
                 PROVE  FALSE
      BY DEF CaptureIsKnown, ProviderCapturing, Provider!Capturing
    <2>1. DOMAIN outbox = {}
      OBVIOUS
    <2>. QED BY <2>1 DEF WayInv, KnownInv
  <1>. QED BY <1>1, WayHolds, PTL

\* A Disable or Release that was answered as applied is final: until a client enables
\* the session again neither table has it enabled, whatever Enable had timed out
\* before and is served late (ImplPortalService's Bridge* calls pass on what
\* InputCaptureService::withBackendResult made of the shell's answer).
THEOREM OffStaysOff == Spec => []OffMeansOff
  <1>1. WayInv => OffMeansOff
    BY DEF WayInv, OffInv, FinalInv, Gone, OffMeansOff
  <1>. QED BY <1>1, WayHolds, PTL
=============================================================================
