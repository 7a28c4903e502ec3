------------------------- MODULE UnlockThrottleProofs -------------------------
(***************************************************************************)
(* The unlock throttle, for every number of callers, every limit and every *)
(* table of lockouts none of which is longer than the decay window.        *)
(***************************************************************************)
EXTENDS UnlockThrottle, Integers, SequenceTheorems, FiniteSetTheorems, TLAPS

\* decaySteps is a number of windows, and the time they take is one as well.
LEMMA StepsType ==
  ASSUME NEW e \in Entry, NEW t \in Nat, Due(e, t)
  PROVE  Steps(e, t) \in Nat /\ Steps(e, t) * Window \in Nat
  <1>1. t - e.last \in Nat /\ Window \in Nat \ {0}
    BY LimitsAssumption DEF Due, Entry
  <1>2. \A n \in Nat, w \in Nat \ {0} : n \div w \in Nat
    OBVIOUS
  <1>3. \A n, w \in Nat : n * w \in Nat
    OBVIOUS
  <1>. QED BY <1>1, <1>2, <1>3 DEF Steps

\* The fields of an entry, for the arithmetic on them.
LEMMA Fields ==
  ASSUME NEW e \in Entry
  PROVE  e.streak \in Nat /\ e.level \in 0 .. MaxLevel /\ e.until \in Nat /\ e.last \in Nat
  BY DEF Entry

\* Failing, decaying and loading make entries of entries.
LEMMA EntryTypes ==
  ASSUME NEW e \in Entry, NEW t \in Nat
  PROVE  /\ NoEntry \in Entry /\ Decayed(e, t) \in Entry
         /\ Failed(e, t) \in Entry /\ Loaded(e, t) \in Entry
  <1>0. MaxLevel \in Nat \ {0} /\ \A l \in 1 .. MaxLevel : Lockout[l] \in Nat
    <2>1. Window \in Nat /\ Lockout \in [1 .. MaxLevel -> 1 .. Window] /\ MaxLevel \in Nat \ {0}
      BY LimitsAssumption
    <2>2. \A l \in 1 .. MaxLevel : Lockout[l] \in 1 .. Window
      BY <2>1
    <2>. QED BY <2>1, <2>2
  <1>1. NoEntry \in Entry
    BY <1>0 DEF NoEntry, Entry
  <1>2. ASSUME NEW s \in Nat, NEW w \in Nat, ~(s >= e.level)
        PROVE  [e EXCEPT !.level = @ - s, !.last = @ + w] \in Entry
    <2>1. e.level - s \in 0 .. MaxLevel /\ e.last + w \in Nat
      BY <1>0, <1>2, Fields
    <2>. QED BY <2>1 DEF Entry
  <1>3. Decayed(e, t) \in Entry
    <2>1. CASE ~Due(e, t)
      BY <2>1 DEF Decayed
    <2>2. CASE Due(e, t) /\ Steps(e, t) >= e.level
      BY <2>2, <1>1 DEF Decayed
    <2>3. CASE Due(e, t) /\ ~(Steps(e, t) >= e.level)
      <3>1. Steps(e, t) \in Nat /\ Steps(e, t) * Window \in Nat
        BY <2>3, StepsType
      <3>. QED BY <2>3, <3>1, <1>2 DEF Decayed
    <2>. QED BY <2>1, <2>2, <2>3
  <1>4. ASSUME NEW d \in Entry
        PROVE  [d EXCEPT !.streak = @ + 1, !.last = t] \in Entry
    <2>1. d.streak + 1 \in Nat
      BY Fields
    <2>. QED BY <2>1 DEF Entry
  <1>5. ASSUME NEW l \in 1 .. MaxLevel
        PROVE  [streak |-> 0, level |-> l, until |-> t + Lockout[l], last |-> t] \in Entry
    <2>1. t + Lockout[l] \in Nat /\ l \in 0 .. MaxLevel
      BY <1>0
    <2>. QED BY <2>1 DEF Entry
  <1>6. Failed(e, t) \in Entry
    <2>. DEFINE d == Decayed(e, t)
                up == IF d.level < MaxLevel THEN d.level + 1 ELSE MaxLevel
    <2>1. d \in Entry
      BY <1>3
    <2>2. up \in 1 .. MaxLevel
      BY <1>0, <2>1, Fields
    <2>3. Failed(e, t) = IF d.streak + 1 < FailLimit
                           THEN [d EXCEPT !.streak = @ + 1, !.last = t]
                           ELSE [streak |-> 0, level |-> up, until |-> t + Lockout[up], last |-> t]
      BY DEF Failed
    <2>. HIDE DEF d, up
    <2>. QED BY <2>1, <2>2, <2>3, <1>4, <1>5
  <1>7. Loaded(e, t) \in Entry
    BY <1>1, <1>3 DEF Loaded
  <1>. QED BY <1>1, <1>3, <1>6, <1>7

\* The variables keep their types.
THEOREM ThrottleTypes == Spec => []TypeOK
  <1>1. Init => TypeOK
    BY LimitsAssumption DEF Init, TypeOK, Entry, NoEntry
  <1>2. TypeOK /\ [Next]_vars => TypeOK'
    <2> SUFFICES ASSUME TypeOK, [Next]_vars PROVE TypeOK'
      OBVIOUS
    <2>. USE DEF TypeOK
    <2>1. CASE UNCHANGED vars
      BY <2>1 DEF vars
    <2>2. CASE Tick
      BY <2>2 DEF Tick
    <2>3. ASSUME NEW table \in [Caller -> Entry], Save(table)
          PROVE  file' \in [Caller -> Entry] /\ faults' \in Nat
      BY <2>3, LimitsAssumption DEF Save
    <2>4. ASSUME NEW stored \in [Caller -> Entry], Load(stored)
          PROVE  /\ throttle' \in [Caller -> Entry]
                 /\ file' \in [Caller -> Entry] /\ faults' \in Nat
      <3>1. [c \in Caller |-> Loaded(stored[c], now)] \in [Caller -> Entry]
        BY EntryTypes
      <3>2. [c \in Caller |-> NoEntry] \in [Caller -> Entry]
        BY LimitsAssumption DEF NoEntry, Entry
      <3>. QED BY <2>4, <3>1, <3>2, LimitsAssumption DEF Load
    <2>5. CASE Stop
      BY <2>5, <2>4 DEF Stop
    <2>6. CASE Crash
      BY <2>6, <2>4 DEF Crash
    <2>7. ASSUME NEW c \in Caller, Decay(c)
          PROVE  /\ throttle' \in [Caller -> Entry]
                 /\ file' \in [Caller -> Entry] /\ faults' \in Nat
      <3>1. throttle' \in [Caller -> Entry]
        BY <2>7, EntryTypes DEF Decay
      <3>. QED BY <2>7, <3>1, <2>3 DEF Decay
    <2>8. ASSUME NEW c \in Caller, RateLimited(c) PROVE TypeOK'
      BY <2>8, <2>7 DEF RateLimited
    <2>9. ASSUME NEW c \in Caller, AskPam(c) PROVE TypeOK'
      BY <2>9, <2>7 DEF AskPam
    <2>10. ASSUME NEW c \in Caller, PamAccepts(c) PROVE TypeOK'
      <3>1. throttle' \in [Caller -> Entry]
        BY <2>10, EntryTypes DEF PamAccepts
      <3>2. file' \in [Caller -> Entry] /\ faults' \in Nat
        BY <2>10, <3>1, <2>3 DEF PamAccepts
      <3>3. <<>> \in Seq(Nat) /\ 0 \in 0 .. MaxLevel
        BY LimitsAssumption
      <3>. QED BY <2>10, <3>1, <3>2, <3>3 DEF PamAccepts
    <2>11. ASSUME NEW c \in Caller, PamRefuses(c) PROVE TypeOK'
      <3>1. Failed(throttle[c], askedAt) \in Entry
        BY EntryTypes
      <3>2. throttle' \in [Caller -> Entry]
        BY <2>11, <3>1 DEF PamRefuses
      <3>3. file' \in [Caller -> Entry] /\ faults' \in Nat
        BY <2>11, <3>2, <2>3 DEF PamRefuses
      <3>4. promised' \in [Caller -> Nat] /\ served' \in [Caller -> [level : 0 .. MaxLevel, at : Nat]]
        BY <2>11, <3>1 DEF PamRefuses, Entry
      <3>5. fails' \in [Caller -> Seq(Nat)]
        BY <2>11 DEF PamRefuses
      <3>. QED BY <2>11, <3>2, <3>3, <3>4, <3>5 DEF PamRefuses
    <2>. QED BY <2>1, <2>2, <2>5, <2>6, <2>8, <2>9, <2>10, <2>11 DEF Next
  <1>. QED BY <1>1, <1>2, PTL DEF Spec
-----------------------------------------------------------------------------
\* What an entry must say at time t so that a lockout until p is honoured: no
\* lockout outlasts the window that leads to its decay, and one that is not over
\* is in the entry.
Keeps(e, p, t) ==
  /\ e.level > 0 => e.until <= e.last + Window
  /\ p <= t \/ p <= e.until

Settled(table) == \A c \in Caller : Keeps(table[c], promised[c], now)

\* The inductive invariant: both copies of the table keep what was promised, and
\* nobody PAM is asked about was still locked out when it was asked.
ThrottleInv ==
  faults = 0 =>
    /\ Settled(throttle) /\ Settled(file)
    /\ \A c \in asking : /\ promised[c] <= askedAt
                         /\ throttle[c].until <= askedAt /\ askedAt <= now

\* Time passes.
LEMMA KeepsLater ==
  ASSUME NEW e \in Entry, NEW p \in Nat, NEW t \in Nat, Keeps(e, p, t)
  PROVE  Keeps(e, p, t + 1)
  BY Fields DEF Keeps

\* Decay never takes back a lockout that is not over, and never adds to one.
LEMMA DecayKeeps ==
  ASSUME NEW e \in Entry, NEW p \in Nat, NEW t \in Nat, Keeps(e, p, t)
  PROVE  /\ Keeps(Decayed(e, t), p, t) /\ Keeps(Loaded(e, t), p, t)
         /\ Decayed(e, t).until <= e.until
  <1>1. /\ Window \in Nat /\ e.level \in Nat /\ e.until \in Nat /\ e.last \in Nat
        /\ NoEntry.level = 0 /\ NoEntry.until = 0
    <2>1. \A l \in 0 .. MaxLevel : l \in Nat
      BY LimitsAssumption
    <2>. QED BY <2>1, LimitsAssumption, Fields DEF NoEntry
  <1>2. /\ Keeps(Decayed(e, t), p, t) /\ Decayed(e, t).until <= e.until
    <2>1. CASE ~Due(e, t)
      BY <2>1, <1>1 DEF Decayed
    <2>2. CASE Due(e, t)
      <3>1. p <= t
        BY <2>2, <1>1 DEF Due, Keeps
      <3>2. CASE Steps(e, t) >= e.level
        BY <2>2, <3>1, <3>2, <1>1 DEF Decayed, Keeps
      <3>3. CASE ~(Steps(e, t) >= e.level)
        <4>. DEFINE w == Steps(e, t) * Window
                    d == Decayed(e, t)
        <4>1. w \in Nat
          BY <2>2, StepsType
        <4>2. d.until = e.until /\ d.last = e.last + w
          BY <2>2, <3>3 DEF Decayed, Entry
        <4>3. e.level > 0
          BY <2>2 DEF Due
        <4>. HIDE DEF w, d
        <4>4. d.until <= d.last + Window /\ d.until <= e.until
          BY <4>1, <4>2, <4>3, <1>1 DEF Keeps
        <4>. QED BY <3>1, <4>4 DEF Keeps, d
      <3>. QED BY <3>2, <3>3
    <2>. QED BY <2>1, <2>2
  <1>3. CASE Loaded(e, t) = Decayed(e, t)
    BY <1>2, <1>3
  <1>4. CASE Loaded(e, t) # Decayed(e, t)
    <2>1. Loaded(e, t) = NoEntry /\ Decayed(e, t).until <= t
      BY <1>4 DEF Loaded
    <2>2. Decayed(e, t).until \in Nat
      BY EntryTypes, Fields
    <2>3. p <= t
      BY <1>2, <2>1, <2>2 DEF Keeps
    <2>. QED BY <1>1, <1>2, <2>1, <2>3 DEF Keeps
  <1>. QED BY <1>2, <1>3, <1>4

\* A failure at a time when no lockout was in force: what recordFailure() makes of
\* the entry keeps the lockout it announces, and one announced before is over.
LEMMA FailureKeeps ==
  ASSUME NEW e \in Entry, NEW p \in Nat, NEW t \in Nat, NEW u \in Nat,
         t <= u, p <= t, e.until <= t, Keeps(e, p, u)
  PROVE  Keeps(Failed(e, t), IF Failed(e, t).until > t THEN Failed(e, t).until ELSE p, u)
  <1>. DEFINE f == Failed(e, t)
  <1>1. Keeps(e, p, t)
    BY DEF Keeps
  <1>2. f \in Entry /\ f.until \in Nat
    BY EntryTypes, Fields
  <1>3. f.until <= t + Window /\ f.last = t
    <2>. DEFINE d == Decayed(e, t)
                up == IF d.level < MaxLevel THEN d.level + 1 ELSE MaxLevel
    <2>0. d \in Entry /\ d.until \in Nat /\ e.until \in Nat /\ Window \in Nat
      BY EntryTypes, Fields, LimitsAssumption
    <2>1. d.until <= t
      BY <1>1, <2>0, DecayKeeps
    <2>2. up \in 1 .. MaxLevel
      BY <2>0, Fields, LimitsAssumption
    <2>3. Lockout[up] \in 1 .. Window
      <3>1. Lockout \in [1 .. MaxLevel -> 1 .. Window]
        BY LimitsAssumption
      <3>. HIDE DEF up
      <3>. QED BY <2>2, <3>1
    <2>4. f = IF d.streak + 1 < FailLimit
                THEN [d EXCEPT !.streak = @ + 1, !.last = t]
                ELSE [streak |-> 0, level |-> up, until |-> t + Lockout[up], last |-> t]
      BY DEF Failed
    <2>. HIDE DEF d, up, f
    <2>5. \/ f.until = d.until /\ f.last = t
          \/ f.until = t + Lockout[up] /\ f.last = t
      BY <2>0, <2>4 DEF Entry
    <2>. QED BY <2>0, <2>1, <2>3, <2>5
  <1>4. Window \in Nat
    BY LimitsAssumption
  <1>. HIDE DEF f
  <1>5. Keeps(f, IF f.until > t THEN f.until ELSE p, u)
    BY <1>2, <1>3, <1>4 DEF Keeps
  <1>. QED BY <1>5 DEF f

\* ThrottleInv is inductive: of time, one step per operation of the service.
LEMMA ThrottleStep == TypeOK /\ TypeOK' /\ ThrottleInv /\ [Next]_vars => ThrottleInv'
  <1> SUFFICES ASSUME TypeOK, TypeOK', ThrottleInv, [Next]_vars, faults' = 0
               PROVE  /\ Settled(throttle)' /\ Settled(file)'
                      /\ \A c \in asking' : /\ promised'[c] <= askedAt'
                                            /\ throttle'[c].until <= askedAt' /\ askedAt' <= now'
    BY DEF ThrottleInv
  <1>1. /\ now \in Nat /\ throttle \in [Caller -> Entry] /\ file \in [Caller -> Entry]
        /\ askedAt \in Nat /\ promised \in [Caller -> Nat] /\ faults \in Nat
        /\ asking \in SUBSET Caller /\ throttle' \in [Caller -> Entry]
        /\ promised' \in [Caller -> Nat]
    BY DEF TypeOK
  <1>2. faults = 0
    BY <1>1 DEF Next, Tick, Stop, Crash, RateLimited, AskPam, PamAccepts, PamRefuses,
                Decay, Load, Save, vars
  <1>3. /\ Settled(throttle) /\ Settled(file)
        /\ \A c \in asking : /\ promised[c] <= askedAt
                             /\ throttle[c].until <= askedAt /\ askedAt <= now
    BY <1>2 DEF ThrottleInv
  <1>4. CASE UNCHANGED vars
    BY <1>3, <1>4 DEF vars, Settled
  <1>5. CASE Tick
    <2>1. Settled(throttle)' /\ Settled(file)'
      BY <1>1, <1>3, <1>5, KeepsLater DEF Tick, Settled
    <2>. QED BY <1>1, <1>3, <1>5, <2>1 DEF Tick
  <1>6. ASSUME NEW stored \in [Caller -> Entry], Settled(stored), Load(stored),
               UNCHANGED <<now, promised>>
        PROVE  Settled(throttle)' /\ Settled(file)'
    <2>. DEFINE read == [c \in Caller |-> Loaded(stored[c], now)]
    <2>1. throttle' = read /\ file' \in {read, stored}
      BY <1>2, <1>6 DEF Load
    <2>2. Settled(read)
      BY <1>1, <1>6, DecayKeeps DEF Settled
    <2>. HIDE DEF read
    <2>. QED BY <1>6, <2>1, <2>2 DEF Settled
  <1>7. CASE Stop
    BY <1>1, <1>3, <1>6, <1>7 DEF Stop
  <1>8. CASE Crash
    BY <1>1, <1>3, <1>6, <1>8 DEF Crash
  <1>9. ASSUME Save(throttle') PROVE file' = throttle'
    BY <1>2, <1>9 DEF Save
  <1>10. ASSUME NEW c \in Caller, Decay(c), UNCHANGED <<now, promised>>
         PROVE  /\ Settled(throttle)' /\ Settled(file)'
                /\ throttle'[c] = Decayed(throttle[c], now)
    <2>1. throttle' = [throttle EXCEPT ![c] = Decayed(@, now)]
      BY <1>10 DEF Decay
    <2>2. Settled(throttle)'
      BY <1>1, <1>3, <1>10, <2>1, DecayKeeps DEF Settled
    <2>3. file' = throttle' \/ file' = file
      BY <1>9, <1>10 DEF Decay
    <2>. QED BY <1>1, <1>3, <1>10, <2>1, <2>2, <2>3 DEF Settled
  <1>11. ASSUME NEW c \in Caller, RateLimited(c) PROVE Settled(throttle)' /\ Settled(file)' /\ asking' = {}
    BY <1>10, <1>11 DEF RateLimited
  <1>12. ASSUME NEW c \in Caller, AskPam(c)
         PROVE  /\ Settled(throttle)' /\ Settled(file)'
                /\ asking' = {c} /\ promised'[c] <= askedAt'
                /\ throttle'[c].until <= askedAt' /\ askedAt' <= now'
    <2>1. /\ Settled(throttle)' /\ Settled(file)' /\ throttle'[c].until <= now
          /\ UNCHANGED <<now, promised>> /\ asking' = {c} /\ askedAt' = now
      BY <1>10, <1>12 DEF AskPam
    <2>2. Keeps(throttle'[c], promised[c], now) /\ throttle'[c].until \in Nat
      BY <1>1, <2>1, Fields DEF Settled
    <2>. QED BY <1>1, <2>1, <2>2 DEF Keeps
  <1>13. ASSUME NEW c \in Caller, PamAccepts(c) PROVE Settled(throttle)' /\ Settled(file)' /\ asking' = {}
    <2>1. Keeps(NoEntry, 0, now)
      BY <1>1 DEF Keeps, NoEntry
    <2>2. Settled(throttle)'
      BY <1>1, <1>3, <1>13, <2>1 DEF PamAccepts, Settled
    <2>. QED BY <1>9, <1>13, <2>2 DEF PamAccepts, Settled
  <1>14. ASSUME NEW c \in Caller, PamRefuses(c) PROVE Settled(throttle)' /\ Settled(file)' /\ asking' = {}
    <2>. DEFINE f == Failed(throttle[c], askedAt)
    <2>1. /\ throttle' = [throttle EXCEPT ![c] = f]
          /\ promised' = [promised EXCEPT ![c] = IF f.until > askedAt THEN f.until ELSE @]
          /\ now' = now /\ asking' = {} /\ Save(throttle')
      BY <1>14 DEF PamRefuses
    <2>2. Keeps(f, IF f.until > askedAt THEN f.until ELSE promised[c], now)
      <3>1. /\ askedAt <= now /\ promised[c] <= askedAt /\ throttle[c].until <= askedAt
            /\ Keeps(throttle[c], promised[c], now)
        BY <1>3, <1>14 DEF PamRefuses, Settled
      <3>. QED BY <1>1, <3>1, FailureKeeps
    <2>. HIDE DEF f
    <2>3. Settled(throttle)'
      BY <1>1, <1>3, <2>1, <2>2 DEF Settled
    <2>. QED BY <1>9, <2>1, <2>3 DEF Settled
  <1>. QED BY <1>3, <1>4, <1>5, <1>7, <1>8, <1>11, <1>12, <1>13, <1>14
           DEF Next, Stop, Crash, Tick, vars

\* A caller that was told of a lockout is not passed on to PAM before it is over,
\* whatever decays or restarts in between, as long as the file can be read and
\* written.
THEOREM LockoutIsHonoured == Spec => []LockoutHonoured
  <1>1. Init => ThrottleInv
    BY DEF Init, ThrottleInv, Settled, Keeps, NoEntry
  <1>2. TypeOK /\ ThrottleInv => LockoutHonoured
    BY DEF TypeOK, ThrottleInv, LockoutHonoured
  <1>. QED BY <1>1, <1>2, ThrottleTypes, ThrottleStep, PTL DEF Spec
-----------------------------------------------------------------------------
(* Whole windows *)

LEMMA Distribute == \A a, b, w \in Nat : (a + b) * w = a * w + b * w
  OBVIOUS

LEMMA Product == \A a, w \in Nat : a * w \in Nat
  OBVIOUS

LEMMA Monotone ==
  ASSUME NEW a \in Nat, NEW b \in Nat, NEW w \in Nat, a <= b
  PROVE  a * w <= b * w
  <1>1. PICK d \in Nat : b = a + d
    <2>1. b - a \in Nat /\ b = a + (b - a)
      OBVIOUS
    <2>. QED BY <2>1
  <1>2. b * w = a * w + d * w
    BY <1>1, Distribute
  <1>. QED BY <1>2, Product

LEMMA DivBounds ==
  ASSUME NEW n \in Nat, NEW w \in Nat \ {0}
  PROVE  n \div w \in Nat /\ (n \div w) * w <= n /\ n < (n \div w) * w + w
  OBVIOUS

\* Division as the number of whole windows.
LEMMA DivUnique ==
  ASSUME NEW n \in Nat, NEW w \in Nat \ {0}, NEW q \in Nat, q * w <= n, n < q * w + w
  PROVE  n \div w = q
  <1>. DEFINE r == n \div w
  <1>1. r \in Nat /\ r * w <= n /\ n < r * w + w
    BY DivBounds
  <1>. HIDE DEF r
  <1>2. \A a \in Nat : (a + 1) * w = a * w + w
    OBVIOUS
  <1>3. q * w \in Nat /\ r * w \in Nat
    BY <1>1, Product
  <1>4. CASE q < r
    <2>1. (q + 1) * w <= r * w
      BY <1>1, <1>4, Monotone
    <2>. QED BY <1>1, <1>2, <1>3, <2>1
  <1>5. CASE r < q
    <2>1. (r + 1) * w <= q * w
      BY <1>1, <1>5, Monotone
    <2>. QED BY <1>1, <1>2, <1>3, <2>1
  <1>6. CASE r = q
    BY <1>6 DEF r
  <1>. QED BY <1>1, <1>4, <1>5, <1>6

LEMMA DivAtLeast ==
  ASSUME NEW n \in Nat, NEW w \in Nat \ {0}, NEW k \in Nat, k * w <= n
  PROVE  k <= n \div w
  <1>. DEFINE r == n \div w
  <1>1. r \in Nat /\ n < r * w + w
    BY DivBounds
  <1>. HIDE DEF r
  <1>2. CASE r < k
    <2>1. (r + 1) * w <= k * w
      BY <1>1, <1>2, Monotone
    <2>2. (r + 1) * w = r * w + w /\ r * w \in Nat /\ k * w \in Nat
      BY <1>1, Product
    <2>. QED BY <1>1, <2>1, <2>2
  <1>. QED BY <1>1, <1>2 DEF r

-----------------------------------------------------------------------------
(* Levels and their decay *)

Served == [level : 0 .. MaxLevel, at : Nat]

\* What e says at time t of a caller whose last failure is s: nothing, if it has
\* no level or as many windows have passed as it had levels; or else a level less
\* for each window that has been taken off, and the time up to which they were.
Aged(e, s, t) ==
  \/ s.level = 0 /\ e.level = 0
  \/ s.level > 0 /\ s.at > 0 /\ e.level = 0 /\ s.at + s.level * Window <= t
  \/ /\ s.level > 0 /\ s.at > 0 /\ e.level \in 1 .. s.level
     /\ e.last = s.at + (s.level - e.level) * Window /\ e.last <= t

LEMMA AgedLater ==
  ASSUME NEW e \in Entry, NEW s \in Served, NEW t \in Nat, NEW u \in Nat, t <= u,
         Aged(e, s, t)
  PROVE  Aged(e, s, u)
  <1>1. /\ s.level \in Nat /\ s.at \in Nat /\ e.level \in Nat /\ e.last \in Nat
        /\ s.level * Window \in Nat
    <2>1. s.level \in 0 .. MaxLevel /\ s.at \in Nat /\ Window \in Nat /\ MaxLevel \in Nat
      BY LimitsAssumption DEF Served
    <2>. QED BY <2>1, Fields, Product
  <1>. QED BY <1>1 DEF Aged

\* Decaying at t takes back what has to be taken back since the last failure, and
\* leaves an entry from which the rest can be taken back later.
LEMMA DecayAges ==
  ASSUME NEW e \in Entry, NEW s \in Served, NEW t \in Nat, Aged(e, s, t)
  PROVE  /\ Aged(Decayed(e, t), s, t)
         /\ Decayed(e, t).level = Fewer(s.level, s.at, t)
  <1>1. /\ s.level \in Nat /\ s.at \in Nat /\ e.level \in Nat /\ e.last \in Nat
        /\ Window \in Nat \ {0} /\ MaxLevel \in Nat
    <2>1. s.level \in 0 .. MaxLevel /\ s.at \in Nat /\ Window \in Nat \ {0} /\ MaxLevel \in Nat
      BY LimitsAssumption DEF Served
    <2>. QED BY <2>1, Fields
  <1>. DEFINE steps == IF t > s.at THEN (t - s.at) \div Window ELSE 0
  <1>2. steps \in Nat /\ (t > s.at => t - s.at \in Nat)
    BY <1>1, DivBounds
  <1>3. Fewer(s.level, s.at, t) = IF steps < s.level THEN s.level - steps ELSE 0
    BY DEF Fewer
  <1>4. CASE e.level = 0 /\ s.level = 0
    <2>1. Decayed(e, t) = e
      BY <1>4 DEF Decayed, Due
    <2>. HIDE DEF steps
    <2>. QED BY <1>2, <1>3, <1>4, <2>1
  <1>5. CASE e.level = 0 /\ s.level > 0
    <2>1. Decayed(e, t) = e
      BY <1>5 DEF Decayed, Due
    <2>2. s.at + s.level * Window <= t /\ s.level * Window \in Nat
      BY <1>1, <1>5, Product DEF Aged
    <2>3. s.level * Window >= Window
      <3>1. 1 * Window <= s.level * Window
        BY <1>1, <1>5, Monotone
      <3>. QED BY <1>1, <3>1
    <2>4. t > s.at /\ s.level * Window <= t - s.at
      BY <1>1, <2>2, <2>3
    <2>5. s.level <= steps
      BY <1>1, <1>2, <2>4, DivAtLeast
    <2>. HIDE DEF steps
    <2>. QED BY <1>1, <1>2, <1>3, <1>5, <2>1, <2>5
  <1>6. CASE e.level > 0
    <2>1. /\ s.level > 0 /\ s.at > 0 /\ e.level \in 1 .. s.level
          /\ e.last = s.at + (s.level - e.level) * Window /\ e.last <= t
      BY <1>1, <1>6 DEF Aged
    <2>. DEFINE k == s.level - e.level
                n == t - e.last
                q == n \div Window
    <2>2. k \in Nat /\ n \in Nat /\ s.level = k + e.level /\ t = e.last + n
          /\ e.last = s.at + k * Window
      BY <1>1, <2>1
    <2>. HIDE DEF k, n
    <2>3. q \in Nat /\ q * Window <= n /\ n < q * Window + Window
      BY <1>1, <2>2, DivBounds
    <2>. HIDE DEF q
    <2>4. /\ (k + q) * Window = k * Window + q * Window
          /\ k * Window \in Nat /\ q * Window \in Nat /\ e.level * Window \in Nat
          /\ (k + e.level) * Window = k * Window + e.level * Window
      BY <1>1, <2>2, <2>3, Distribute, Product
    <2>5. steps = k + q
      <3>1. CASE t > s.at
        <4>1. (k + q) * Window <= t - s.at /\ t - s.at < (k + q) * Window + Window
          BY <1>1, <2>2, <2>3, <2>4
        <4>2. t - s.at \in Nat /\ k + q \in Nat
          BY <1>2, <2>2, <2>3, <3>1
        <4>3. (t - s.at) \div Window = k + q
          BY <1>1, <4>1, <4>2, DivUnique
        <4>. QED BY <3>1, <4>3
      <3>2. CASE ~(t > s.at)
        <4>1. k * Window = 0 /\ n = 0 /\ q * Window = 0
          BY <1>1, <2>2, <2>3, <2>4, <3>2
        <4>2. \A a \in Nat : a * Window = 0 => a = 0
          BY <1>1
        <4>. QED BY <2>2, <2>3, <3>2, <4>1, <4>2
      <3>. QED BY <3>1, <3>2
    <2>. HIDE DEF steps
    <2>6. Fewer(s.level, s.at, t) = IF q < e.level THEN e.level - q ELSE 0
      BY <1>1, <1>3, <2>2, <2>3, <2>5
    <2>7. Due(e, t) <=> q >= 1
      <3>1. Due(e, t) <=> n >= Window
        BY <1>1, <1>6, <2>1, <2>2 DEF Due
      <3>2. n >= Window => 1 <= q
        <4>1. 1 * Window = Window
          BY <1>1
        <4>. QED BY <1>1, <2>2, <4>1, DivAtLeast DEF q
      <3>3. q >= 1 => n >= Window
        <4>1. q >= 1 => 1 * Window <= q * Window
          BY <1>1, <2>3, Monotone
        <4>. QED BY <1>1, <2>2, <2>3, <2>4, <4>1
      <3>. QED BY <3>1, <3>2, <3>3
    <2>8. Steps(e, t) = q
      BY DEF Steps, q, n
    <2>9. CASE ~Due(e, t)
      <3>1. Decayed(e, t) = e /\ q = 0
        BY <2>3, <2>7, <2>9 DEF Decayed
      <3>. QED BY <1>1, <1>6, <2>6, <3>1
    <2>10. CASE Due(e, t) /\ q >= e.level
      <3>1. Decayed(e, t).level = 0
        BY <2>8, <2>10 DEF Decayed, NoEntry
      <3>2. e.level * Window <= q * Window
        BY <1>1, <2>3, <2>10, Monotone
      <3>3. s.at + s.level * Window <= t
        BY <1>1, <2>2, <2>3, <2>4, <3>2
      <3>. QED BY <1>1, <2>1, <2>3, <2>6, <2>10, <3>1, <3>3 DEF Aged
    <2>11. CASE Due(e, t) /\ ~(q >= e.level)
      <3>1. Decayed(e, t).level = e.level - q /\ Decayed(e, t).last = e.last + q * Window
        BY <2>8, <2>11 DEF Decayed, Entry
      <3>2. e.level - q \in 1 .. s.level /\ s.level - (e.level - q) = k + q
        BY <1>1, <2>2, <2>3, <2>11
      <3>3. e.last + q * Window = s.at + (k + q) * Window /\ e.last + q * Window <= t
        BY <1>1, <2>2, <2>3, <2>4
      <3>. QED BY <2>1, <2>3, <2>6, <2>11, <3>1, <3>2, <3>3 DEF Aged
    <2>. QED BY <2>9, <2>10, <2>11
  <1>. QED BY <1>1, <1>4, <1>5, <1>6

\* What load() leaves out has no level.
LEMMA LoadAges ==
  ASSUME NEW e \in Entry, NEW s \in Served, NEW t \in Nat, Aged(e, s, t)
  PROVE  Aged(Loaded(e, t), s, t)
  <1>1. CASE Loaded(e, t) = Decayed(e, t)
    BY <1>1, DecayAges
  <1>2. CASE Loaded(e, t) # Decayed(e, t)
    <2>1. Loaded(e, t) = NoEntry /\ Decayed(e, t).level = 0
      BY <1>2 DEF Loaded
    <2>2. Aged(Decayed(e, t), s, t)
      BY DecayAges
    <2>. QED BY <2>1, <2>2 DEF Aged, NoEntry
  <1>. QED BY <1>1, <1>2

LEMMA FailureAges ==
  ASSUME NEW e \in Entry, NEW t \in Nat, NEW u \in Nat, 0 < t, t <= u
  PROVE  Aged(Failed(e, t), [level |-> Failed(e, t).level, at |-> t], u)
  <1>. DEFINE f == Failed(e, t)
  <1>1. f \in Entry /\ f.last = t
    <2>1. f \in Entry /\ Decayed(e, t) \in Entry
      BY EntryTypes
    <2>2. f.last = t
      BY <2>1 DEF Failed, Entry
    <2>. QED BY <2>1, <2>2
  <1>. HIDE DEF f
  <1>2. f.level \in Nat /\ (f.level - f.level) * Window = 0 /\ t + 0 = t
    BY <1>1, Fields, LimitsAssumption
  <1>3. Aged(f, [level |-> f.level, at |-> t], u)
    BY <1>1, <1>2 DEF Aged
  <1>. QED BY <1>3 DEF f

-----------------------------------------------------------------------------
(* Failures in a row *)

\* What e says at time t of a caller that failed at the times f since its last
\* lockout: all but the last streak failures are a window old, and no failure is
\* later than the time the decay counts from.
Counts(e, f, t) ==
  /\ e.streak < FailLimit
  /\ \A i \in 1 .. Len(f) : i + e.streak <= Len(f) => f[i] + Window <= t
  /\ e.level > 0 => \A i \in 1 .. Len(f) : f[i] <= e.last

LEMMA CountsLater ==
  ASSUME NEW e \in Entry, NEW f \in Seq(Nat), NEW t \in Nat, NEW u \in Nat, t <= u,
         Counts(e, f, t)
  PROVE  Counts(e, f, u)
  <1>1. Window \in Nat /\ \A i \in 1 .. Len(f) : f[i] \in Nat
    BY LimitsAssumption
  <1>. QED BY <1>1 DEF Counts

\* A decay that clears the row of failures comes a window after the last of them.
LEMMA DecayCounts ==
  ASSUME NEW e \in Entry, NEW f \in Seq(Nat), NEW t \in Nat, Counts(e, f, t)
  PROVE  Counts(Decayed(e, t), f, t) /\ Counts(Loaded(e, t), f, t)
  <1>1. /\ Window \in Nat /\ FailLimit \in Nat \ {0} /\ e.last \in Nat
        /\ NoEntry.streak = 0 /\ NoEntry.level = 0
        /\ \A i \in 1 .. Len(f) : f[i] \in Nat
    BY LimitsAssumption, Fields DEF NoEntry
  <1>2. ASSUME \A i \in 1 .. Len(f) : f[i] + Window <= t
        PROVE  Counts(NoEntry, f, t)
    BY <1>1, <1>2 DEF Counts
  <1>3. Counts(Decayed(e, t), f, t)
    <2>1. CASE ~Due(e, t)
      BY <2>1 DEF Decayed
    <2>2. CASE Due(e, t)
      <3>1. \A i \in 1 .. Len(f) : f[i] <= e.last
        BY <2>2 DEF Due, Counts
      <3>2. CASE Steps(e, t) >= e.level
        <4>1. \A i \in 1 .. Len(f) : f[i] + Window <= t
          BY <1>1, <2>2, <3>1 DEF Due
        <4>. QED BY <1>2, <2>2, <3>2, <4>1 DEF Decayed
      <3>3. CASE ~(Steps(e, t) >= e.level)
        <4>. DEFINE w == Steps(e, t) * Window
                    d == Decayed(e, t)
        <4>1. w \in Nat
          BY <2>2, StepsType
        <4>2. d.streak = e.streak /\ d.last = e.last + w
          BY <2>2, <3>3 DEF Decayed, Entry
        <4>. HIDE DEF w, d
        <4>3. \A i \in 1 .. Len(f) : f[i] <= d.last
          BY <1>1, <3>1, <4>1, <4>2
        <4>4. Counts(d, f, t)
          BY <4>2, <4>3 DEF Counts
        <4>. QED BY <4>4 DEF d
      <3>. QED BY <3>2, <3>3
    <2>. QED BY <2>1, <2>2
  <1>4. CASE Loaded(e, t) = Decayed(e, t)
    BY <1>3, <1>4
  <1>5. CASE Loaded(e, t) # Decayed(e, t)
    <2>1. Loaded(e, t) = NoEntry /\ Decayed(e, t).streak = 0
      BY <1>5 DEF Loaded
    <2>2. \A i \in 1 .. Len(f) : f[i] + Window <= t
      BY <1>3, <2>1 DEF Counts
    <2>. QED BY <1>2, <1>3, <2>1, <2>2
  <1>. QED BY <1>3, <1>4, <1>5

\* A failure that leads to no lockout lengthens the row, and stays below the limit.
LEMMA FailureCounts ==
  ASSUME NEW e \in Entry, NEW f \in Seq(Nat), NEW t \in Nat, Counts(e, f, t),
         \A i \in 1 .. Len(f) : f[i] <= t
  PROVE  Counts(Failed(e, t), IF Failed(e, t).until > t THEN <<>> ELSE Append(f, t), t)
  <1>. DEFINE d == Decayed(e, t)
              n == Failed(e, t)
              up == IF d.level < MaxLevel THEN d.level + 1 ELSE MaxLevel
  <1>1. d \in Entry /\ d.streak \in Nat /\ Counts(d, f, t)
    BY EntryTypes, Fields, DecayCounts
  <1>2. up \in 1 .. MaxLevel /\ Lockout[up] \in 1 .. Window
    <2>1. Lockout \in [1 .. MaxLevel -> 1 .. Window] /\ MaxLevel \in Nat \ {0}
      BY LimitsAssumption
    <2>2. d.level \in 0 .. MaxLevel
      BY <1>1, Fields
    <2>3. up \in 1 .. MaxLevel
      BY <2>1, <2>2
    <2>. HIDE DEF up
    <2>. QED BY <2>1, <2>3
  <1>3. n = IF d.streak + 1 < FailLimit
              THEN [d EXCEPT !.streak = @ + 1, !.last = t]
              ELSE [streak |-> 0, level |-> up, until |-> t + Lockout[up], last |-> t]
    BY DEF Failed
  <1>4. FailLimit \in Nat \ {0} /\ Window \in Nat
    BY LimitsAssumption
  <1>. HIDE DEF d, n, up
  <1>5. CASE n.until > t
    <2>1. n.streak < FailLimit
      BY <1>1, <1>3, <1>4 DEF Entry
    <2>2. Counts(n, <<>>, t)
      BY <2>1 DEF Counts
    <2>. QED BY <1>5, <2>2 DEF n
  <1>6. CASE ~(n.until > t)
    <2>. DEFINE g == Append(f, t)
    <2>1. d.streak + 1 < FailLimit
      <3>1. ~(d.streak + 1 < FailLimit) => n.until = t + Lockout[up]
        BY <1>3
      <3>2. t + Lockout[up] > t
        BY <1>2, <1>4
      <3>. QED BY <1>6, <3>1, <3>2
    <2>2. n.streak = d.streak + 1 /\ n.last = t
      BY <1>1, <1>3, <2>1 DEF Entry
    <2>3. Len(g) = Len(f) + 1 /\ g[Len(f) + 1] = t /\ \A i \in 1 .. Len(f) : g[i] = f[i]
      BY AppendProperties
    <2>. HIDE DEF g
    <2>4. \A i \in 1 .. Len(g) : i + n.streak <= Len(g) => g[i] + Window <= t
      <3>1. SUFFICES ASSUME NEW i \in 1 .. Len(g), i + n.streak <= Len(g)
                     PROVE  g[i] + Window <= t
        OBVIOUS
      <3>2. i \in 1 .. Len(f) /\ i + d.streak <= Len(f)
        BY <1>1, <2>2, <2>3, <3>1
      <3>. QED BY <1>1, <2>3, <3>2 DEF Counts
    <2>5. \A i \in 1 .. Len(g) : g[i] <= n.last
      <3>1. \A i \in 1 .. Len(g) : i \in 1 .. Len(f) \/ i = Len(f) + 1
        BY <2>3
      <3>. QED BY <2>2, <2>3, <3>1
    <2>6. Counts(n, g, t)
      BY <2>1, <2>2, <2>4, <2>5 DEF Counts
    <2>. QED BY <1>6, <2>6 DEF n, g
  <1>. QED BY <1>5, <1>6

-----------------------------------------------------------------------------
(* The table between the calls *)

Matches(table) ==
  \A c \in Caller : /\ Aged(table[c], served[c], now)
                    /\ Counts(table[c], fails[c], now)

\* The inductive invariant: both copies of the table match the failures, which lie
\* in the past, for the caller PAM is asked about before the time it asked.
HistoryInv ==
  faults = 0 =>
    /\ Matches(throttle) /\ Matches(file)
    /\ \A c \in Caller : \A i \in 1 .. Len(fails[c]) : fails[c][i] <= now
    /\ \A c \in asking : /\ Counts(throttle[c], fails[c], askedAt)
                         /\ \A i \in 1 .. Len(fails[c]) : fails[c][i] <= askedAt
                         /\ 0 < askedAt /\ askedAt <= now

LEMMA HistoryInit == Init => HistoryInv
  <1>. SUFFICES ASSUME Init PROVE HistoryInv
    OBVIOUS
  <1>1. \A c \in Caller : throttle[c] = NoEntry /\ file[c] = NoEntry
                          /\ served[c] = [level |-> 0, at |-> 0] /\ fails[c] = <<>>
    BY DEF Init
  <1>2. Aged(NoEntry, [level |-> 0, at |-> 0], now)
    BY DEF Aged, NoEntry
  <1>3. Counts(NoEntry, <<>>, now)
    BY LimitsAssumption DEF Counts, NoEntry
  <1>4. Matches(throttle) /\ Matches(file)
    BY <1>1, <1>2, <1>3 DEF Matches
  <1>5. asking = {} /\ \A c \in Caller : Len(fails[c]) = 0
    BY <1>1 DEF Init
  <1>. QED BY <1>4, <1>5 DEF HistoryInv

\* HistoryInv is inductive: of time, one step per operation of the service.
LEMMA HistoryStep == TypeOK /\ TypeOK' /\ HistoryInv /\ [Next]_vars => HistoryInv'
  <1> SUFFICES ASSUME TypeOK, TypeOK', HistoryInv, [Next]_vars, faults' = 0
               PROVE  /\ Matches(throttle)' /\ Matches(file)'
                      /\ \A c \in Caller : \A i \in 1 .. Len(fails'[c]) : fails'[c][i] <= now'
                      /\ \A c \in asking' :
                           /\ Counts(throttle'[c], fails'[c], askedAt')
                           /\ \A i \in 1 .. Len(fails'[c]) : fails'[c][i] <= askedAt'
                           /\ 0 < askedAt' /\ askedAt' <= now'
    BY DEF HistoryInv
  <1>1. /\ now \in Nat \ {0} /\ throttle \in [Caller -> Entry] /\ file \in [Caller -> Entry]
        /\ askedAt \in Nat /\ fails \in [Caller -> Seq(Nat)] /\ served \in [Caller -> Served]
        /\ faults \in Nat /\ asking \in SUBSET Caller
        /\ throttle' \in [Caller -> Entry] /\ now' \in Nat
        /\ fails' \in [Caller -> Seq(Nat)] /\ served' \in [Caller -> Served]
    BY DEF TypeOK, Served
  <1>2. faults = 0
    BY <1>1 DEF Next, Tick, Stop, Crash, RateLimited, AskPam, PamAccepts, PamRefuses,
                Decay, Load, Save, vars
  <1>3. /\ Matches(throttle) /\ Matches(file)
        /\ \A c \in Caller : \A i \in 1 .. Len(fails[c]) : fails[c][i] <= now
        /\ \A c \in asking : /\ Counts(throttle[c], fails[c], askedAt)
                             /\ \A i \in 1 .. Len(fails[c]) : fails[c][i] <= askedAt
                             /\ 0 < askedAt /\ askedAt <= now
    BY <1>2 DEF HistoryInv
  <1>4. CASE UNCHANGED vars
    BY <1>3, <1>4 DEF vars, Matches
  <1>5. CASE Tick
    <2>1. now' = now + 1 /\ UNCHANGED <<throttle, file, asking, askedAt, fails, served>>
      BY <1>5 DEF Tick
    <2>2. now <= now + 1 /\ now + 1 \in Nat /\ now \in Nat
      BY <1>1
    <2>3. Matches(throttle)' /\ Matches(file)'
      BY <1>1, <1>3, <2>1, <2>2, AgedLater, CountsLater DEF Matches
    <2>4. \A c \in Caller : \A i \in 1 .. Len(fails[c]) : fails[c][i] \in Nat
      BY <1>1, ElementOfSeq
    <2>. QED BY <1>1, <1>3, <2>1, <2>2, <2>3, <2>4
  <1>6. ASSUME NEW stored \in [Caller -> Entry], Matches(stored), Load(stored),
               UNCHANGED <<now, fails, served>>
        PROVE  Matches(throttle)' /\ Matches(file)'
    <2>. DEFINE read == [c \in Caller |-> Loaded(stored[c], now)]
    <2>1. throttle' = read /\ file' \in {read, stored}
      BY <1>2, <1>6 DEF Load
    <2>2. Matches(read)
      <3>1. now \in Nat
        BY <1>1
      <3>. QED BY <1>1, <1>6, <3>1, LoadAges, DecayCounts DEF Matches
    <2>. HIDE DEF read
    <2>. QED BY <1>6, <2>1, <2>2 DEF Matches
  <1>7. CASE Stop
    BY <1>1, <1>3, <1>6, <1>7 DEF Stop
  <1>8. CASE Crash
    BY <1>1, <1>3, <1>6, <1>8 DEF Crash
  <1>9. ASSUME Save(throttle') PROVE file' = throttle'
    BY <1>2, <1>9 DEF Save
  <1>10. ASSUME NEW c \in Caller, Decay(c), UNCHANGED <<now, fails, served>>
         PROVE  Matches(throttle)' /\ Matches(file)'
    <2>1. throttle' = [throttle EXCEPT ![c] = Decayed(@, now)]
      BY <1>10 DEF Decay
    <2>2. Aged(Decayed(throttle[c], now), served[c], now)
          /\ Counts(Decayed(throttle[c], now), fails[c], now)
      <3>1. Aged(throttle[c], served[c], now) /\ Counts(throttle[c], fails[c], now)
        BY <1>3 DEF Matches
      <3>. QED BY <1>1, <3>1, DecayAges, DecayCounts
    <2>3. Matches(throttle)'
      BY <1>1, <1>3, <1>10, <2>1, <2>2 DEF Matches
    <2>4. file' = throttle' \/ file' = file
      BY <1>9, <1>10 DEF Decay
    <2>. QED BY <1>1, <1>3, <1>10, <2>3, <2>4 DEF Matches
  <1>11. ASSUME NEW c \in Caller, RateLimited(c)
         PROVE  /\ Matches(throttle)' /\ Matches(file)' /\ asking' = {}
                /\ UNCHANGED <<now, fails>>
    BY <1>10, <1>11 DEF RateLimited
  <1>12. ASSUME NEW c \in Caller, AskPam(c)
         PROVE  /\ Matches(throttle)' /\ Matches(file)'
                /\ asking' = {c} /\ askedAt' = now /\ UNCHANGED <<now, fails>>
    BY <1>10, <1>12 DEF AskPam
  <1>13. ASSUME NEW c \in Caller, PamAccepts(c)
         PROVE  /\ Matches(throttle)' /\ Matches(file)' /\ asking' = {} /\ now' = now
                /\ fails' = [fails EXCEPT ![c] = <<>>]
    <2>1. Aged(NoEntry, [level |-> 0, at |-> 0], now)
      BY DEF Aged, NoEntry
    <2>2. Counts(NoEntry, <<>>, now)
      BY LimitsAssumption DEF Counts, NoEntry
    <2>3. /\ throttle' = [throttle EXCEPT ![c] = NoEntry] /\ now' = now /\ asking' = {}
          /\ fails' = [fails EXCEPT ![c] = <<>>]
          /\ served' = [served EXCEPT ![c] = [level |-> 0, at |-> 0]] /\ file' = throttle'
      BY <1>9, <1>13 DEF PamAccepts
    <2>4. Matches(throttle)'
      BY <1>1, <1>3, <2>1, <2>2, <2>3 DEF Matches
    <2>. QED BY <2>3, <2>4 DEF Matches
  <1>14. ASSUME NEW c \in Caller, PamRefuses(c)
         PROVE  /\ Matches(throttle)' /\ Matches(file)' /\ asking' = {} /\ now' = now
                /\ fails' = [fails EXCEPT ![c] = fails'[c]]
                /\ fails'[c] \in {<<>>, Append(fails[c], askedAt)}
                /\ askedAt <= now
    <2>. DEFINE e == Failed(throttle[c], askedAt)
                g == IF e.until > askedAt THEN <<>> ELSE Append(fails[c], askedAt)
    <2>1. /\ throttle' = [throttle EXCEPT ![c] = e] /\ now' = now /\ asking' = {}
          /\ fails' = [fails EXCEPT ![c] = g]
          /\ served' = [served EXCEPT ![c] = [level |-> e.level, at |-> askedAt]]
          /\ file' = throttle'
      BY <1>9, <1>14 DEF PamRefuses
    <2>2. /\ c \in asking /\ askedAt <= now /\ 0 < askedAt
          /\ Counts(throttle[c], fails[c], askedAt)
          /\ \A i \in 1 .. Len(fails[c]) : fails[c][i] <= askedAt
      BY <1>3, <1>14 DEF PamRefuses
    <2>3. e \in Entry /\ throttle[c] \in Entry /\ fails[c] \in Seq(Nat) /\ now \in Nat
      BY <1>1, EntryTypes
    <2>4. Aged(e, [level |-> e.level, at |-> askedAt], now)
      BY <1>1, <2>2, <2>3, FailureAges
    <2>5. Counts(e, g, askedAt)
      BY <1>1, <2>2, <2>3, FailureCounts
    <2>6. g \in Seq(Nat)
      <3>1. Append(fails[c], askedAt) \in Seq(Nat)
        BY <1>1, <2>3
      <3>2. <<>> \in Seq(Nat)
        BY EmptySeq
      <3>. QED BY <3>1, <3>2
    <2>7. fails'[c] = g /\ g \in {<<>>, Append(fails[c], askedAt)}
      BY <1>1, <2>1
    <2>. HIDE DEF e, g
    <2>8. Counts(e, g, now)
      BY <1>1, <2>2, <2>3, <2>5, <2>6, CountsLater
    <2>9. Matches(throttle)'
      BY <1>1, <1>3, <2>1, <2>4, <2>8 DEF Matches
    <2>. QED BY <1>1, <2>1, <2>2, <2>7, <2>9 DEF Matches
  <1>15. ASSUME UNCHANGED <<now, fails>>, asking' = {} \/ askedAt' = now
         PROVE  /\ \A c \in Caller : \A i \in 1 .. Len(fails'[c]) : fails'[c][i] <= now'
                /\ \A c \in asking' \cap Caller :
                     /\ \A i \in 1 .. Len(fails'[c]) : fails'[c][i] <= askedAt'
                     /\ 0 < askedAt' /\ askedAt' <= now'
    BY <1>1, <1>3, <1>15
  <1>16. CASE \E c \in Caller : RateLimited(c)
    BY <1>11, <1>15, <1>16
  <1>17. CASE \E c \in Caller : AskPam(c)
    <2>1. PICK c \in Caller : AskPam(c)
      BY <1>17
    <2>2. Counts(throttle[c], fails[c], now)'
      BY <1>12, <2>1 DEF Matches
    <2>. QED BY <1>12, <1>15, <2>1, <2>2
  <1>18. CASE \E c \in Caller : PamAccepts(c)
    <2>1. PICK c \in Caller : PamAccepts(c)
      BY <1>18
    <2>2. \A b \in Caller : fails'[b] = fails[b] \/ Len(fails'[b]) = 0
      BY <1>1, <1>13, <2>1
    <2>. QED BY <1>1, <1>3, <1>13, <2>1, <2>2
  <1>19. CASE \E c \in Caller : PamRefuses(c)
    <2>1. PICK c \in Caller : PamRefuses(c)
      BY <1>19
    <2>2. \A b \in Caller : \A i \in 1 .. Len(fails'[b]) : fails'[b][i] <= now
      <3>1. ASSUME NEW b \in Caller, b # c PROVE fails'[b] = fails[b]
        BY <1>1, <1>14, <2>1, <3>1
      <3>2. CASE fails'[c] = <<>>
        BY <1>3, <3>1, <3>2
      <3>3. CASE fails'[c] = Append(fails[c], askedAt)
        <4>1. \A i \in 1 .. Len(fails'[c]) :
                \/ fails'[c][i] = askedAt
                \/ i \in 1 .. Len(fails[c]) /\ fails'[c][i] = fails[c][i]
          <5>1. fails[c] \in Seq(Nat) /\ askedAt \in Nat
            BY <1>1
          <5>2. /\ Len(Append(fails[c], askedAt)) = Len(fails[c]) + 1
                /\ Append(fails[c], askedAt)[Len(fails[c]) + 1] = askedAt
                /\ \A i \in 1 .. Len(fails[c]) : Append(fails[c], askedAt)[i] = fails[c][i]
            BY <5>1, AppendProperties
          <5>3. Len(fails[c]) \in Nat
            BY <5>1, LenProperties
          <5>. QED BY <3>3, <5>2, <5>3
        <4>. QED BY <1>3, <1>14, <2>1, <3>1, <4>1
      <3>. QED BY <1>14, <2>1, <3>2, <3>3
    <2>. QED BY <1>14, <2>1, <2>2
  <1>20. CASE Stop
    BY <1>3, <1>7, <1>15, <1>20 DEF Stop
  <1>21. CASE Crash
    BY <1>3, <1>8, <1>15, <1>21 DEF Crash
  <1>. QED BY <1>4, <1>5, <1>16, <1>17, <1>18, <1>19, <1>20, <1>21 DEF Next

LEMMA HistoryHolds == Spec => []HistoryInv
  BY HistoryInit, HistoryStep, ThrottleTypes, PTL DEF Spec

\* Taking levels back bit by bit, at every attempt and every restart, takes back
\* exactly as many as one decay since the last failure would.
THEOREM DecayKeepsTime == Spec => []DecayIsExact
  <1>1. TypeOK /\ HistoryInv => DecayIsExact
    <2>. SUFFICES ASSUME TypeOK, HistoryInv, faults = 0, NEW c \in Caller
                  PROVE  Decayed(throttle[c], now).level
                           = Fewer(served[c].level, served[c].at, now)
      BY DEF DecayIsExact
    <2>1. throttle[c] \in Entry /\ served[c] \in Served /\ now \in Nat
      BY DEF TypeOK, Served
    <2>2. Aged(throttle[c], served[c], now)
      BY DEF HistoryInv, Matches
    <2>. QED BY <2>1, <2>2, DecayAges
  <1>. QED BY <1>1, HistoryHolds, ThrottleTypes, PTL

\* No caller fails FailLimit times in one window without a lockout, whatever is
\* taken back in between and whenever desktopd restarts.
THEOREM BurstsAreStopped == Spec => []BurstStopped
  <1>1. TypeOK /\ HistoryInv => BurstStopped
    <2>. SUFFICES ASSUME TypeOK, HistoryInv, faults = 0, NEW c \in Caller
                  PROVE  Cardinality(Recent(c)) < FailLimit
      BY DEF BurstStopped
    <2>. DEFINE n == Len(fails[c])
                k == throttle[c].streak
                last == (n - k + 1) .. n
    <2>1. throttle[c] \in Entry /\ fails[c] \in Seq(Nat) /\ now \in Nat
          /\ k \in Nat /\ n \in Nat /\ DOMAIN fails[c] = 1 .. n
          /\ FailLimit \in Nat /\ Window \in Nat
      <3>1. throttle[c] \in Entry /\ fails[c] \in Seq(Nat) /\ now \in Nat
        BY DEF TypeOK
      <3>. QED BY <3>1, Fields, LenProperties, LimitsAssumption
    <2>2. k < FailLimit /\ \A i \in 1 .. n : i + k <= n => fails[c][i] + Window <= now
      BY DEF HistoryInv, Matches, Counts
    <2>3. \A i \in 1 .. n : fails[c][i] \in Nat
      BY <2>1, ElementOfSeq
    <2>. HIDE DEF n, k
    <2>4. Recent(c) \subseteq last
      <3>1. SUFFICES ASSUME NEW i \in Recent(c) PROVE i \in last
        OBVIOUS
      <3>2. i \in 1 .. n /\ fails[c][i] + Window > now
        BY <2>1 DEF Recent
      <3>3. ~(i + k <= n)
        BY <2>1, <2>2, <2>3, <3>2
      <3>. QED BY <2>1, <3>2, <3>3
    <2>5. IsFiniteSet(last) /\ Cardinality(last) = k
      <3>1. n - k + 1 \in Int /\ n \in Int
        BY <2>1
      <3>2. Cardinality(last) = IF n - k + 1 > n THEN 0 ELSE n - (n - k + 1) + 1
        BY <3>1, FS_Interval
      <3>3. IsFiniteSet(last)
        BY <3>1, FS_Interval
      <3>. QED BY <2>1, <3>2, <3>3
    <2>. HIDE DEF last
    <2>6. Cardinality(Recent(c)) <= k /\ Cardinality(Recent(c)) \in Nat
      BY <2>4, <2>5, FS_Subset, FS_CardinalityType
    <2>. QED BY <2>1, <2>2, <2>6
  <1>. QED BY <1>1, HistoryHolds, ThrottleTypes, PTL
=============================================================================
