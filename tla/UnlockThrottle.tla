---------------------------- MODULE UnlockThrottle ----------------------------
(***************************************************************************)
(* The throttle of SessionStateService::Unlock(): after FailLimit failed   *)
(* authentications a caller is locked out, longer each time, and every     *)
(* Window that passes without a failure takes one level back.  The table   *)
(* is kept in session_unlock_throttle.json across restarts of desktopd.    *)
(*                                                                         *)
(* An unlock is two steps, because the time read before PAM is asked is    *)
(* used after PAM has answered, and desktopd may end in between.           *)
(***************************************************************************)
EXTENDS Naturals, Sequences, FiniteSets

CONSTANTS
  Caller,     \* callers, by the key throttleKey() gives them
  FailLimit,  \* failures that lead to a lockout (5)
  MaxLevel,   \* highest lockout level (5)
  Window,     \* decayWindowSeconds()
  Lockout,    \* lockoutSecondsForLevel(), a function on the levels
  MaxTime,    \* bound on the clock
  MaxFaults   \* bound on files that cannot be read or written

ASSUME LimitsAssumption ==
  /\ FailLimit \in Nat \ {0}
  /\ MaxLevel \in Nat \ {0}
  /\ Window \in Nat \ {0}
  /\ Lockout \in [1 .. MaxLevel -> 1 .. Window]
  /\ MaxTime \in Nat
  /\ MaxFaults \in Nat

VARIABLES
  now,       \* the wall clock, taken not to run backwards
  throttle,  \* m_unlockThrottle
  file,      \* session_unlock_throttle.json
  asking,    \* the callers whose password PAM is looking at, at most one
  askedAt,   \* nowMs of that call
  promised,  \* history: end of the last lockout a caller was told of
  fails,     \* history: times of its failures since then
  served,    \* history: its level, and the time, at its last failure
  faults

vars == <<now, throttle, file, asking, askedAt, promised, fails, served, faults>>

Entry == [streak : Nat, level : 0 .. MaxLevel, until : Nat, last : Nat]
NoEntry == [streak |-> 0, level |-> 0, until |-> 0, last |-> 0]

\* Not a property of interest by itself: the values the variables take.
TypeOK ==
  /\ now \in Nat \ {0}
  /\ throttle \in [Caller -> Entry] /\ file \in [Caller -> Entry]
  /\ asking \in SUBSET Caller
  /\ askedAt \in Nat
  /\ promised \in [Caller -> Nat]
  /\ fails \in [Caller -> Seq(Nat)]
  /\ served \in [Caller -> [level : 0 .. MaxLevel, at : Nat]]
  /\ faults \in Nat
-----------------------------------------------------------------------------
\* Levels left of l after the time from t to u.
Fewer(l, t, u) ==
  LET steps == IF u > t THEN (u - t) \div Window ELSE 0 IN
  IF steps < l THEN l - steps ELSE 0

\* The early returns of applyDecay(), and decaySteps.
Due(e, t) == e.level > 0 /\ e.last > 0 /\ t >= e.last + Window
Steps(e, t) == (t - e.last) \div Window

\* Mutant: what has passed of the window is forgotten.
DecayedAndRestarted(e, t) ==
  IF ~Due(e, t) THEN e
  ELSE IF Steps(e, t) >= e.level THEN NoEntry
  ELSE [e EXCEPT !.level = @ - Steps(e, t), !.last = t]

\* Mutant: qMax(0, ...) is missing.
DecayedBelowZero(e, t) ==
  IF ~Due(e, t) THEN e ELSE [e EXCEPT !.level = @ - Steps(e, t)]

\* applyDecay(): what it leaves of e at time t.
Decayed(e, t) ==
  IF ~Due(e, t) THEN e
  ELSE IF Steps(e, t) >= e.level THEN NoEntry
  ELSE [e EXCEPT !.level = @ - Steps(e, t), !.last = @ + Steps(e, t) * Window]

\* recordFailure() for a call made at time t.
Failed(e, t) ==
  LET d == Decayed(e, t)
      up == IF d.level < MaxLevel THEN d.level + 1 ELSE MaxLevel
  IN IF d.streak + 1 < FailLimit
       THEN [d EXCEPT !.streak = @ + 1, !.last = t]
       ELSE [streak |-> 0, level |-> up, until |-> t + Lockout[up], last |-> t]

\* Mutant: only entries with a level are kept.
LoadedByLevel(e, t) ==
  LET d == Decayed(e, t) IN
  IF d.level = 0 /\ d.until <= t THEN NoEntry ELSE d

\* An entry load() takes over: decayed, and left out when nothing is left of it.
Loaded(e, t) ==
  LET d == Decayed(e, t) IN
  IF d.streak = 0 /\ d.level = 0 /\ d.until <= t THEN NoEntry ELSE d

\* Mutant: the table is written only when desktopd stops in good order.
SaveLater(table) == UNCHANGED <<file, faults>>

\* saveUnlockThrottleState(): QSaveFile replaces the file or leaves it.
Save(table) ==
  \/ file' = table /\ UNCHANGED faults
  \/ faults < MaxFaults /\ faults' = faults + 1 /\ UNCHANGED file
-----------------------------------------------------------------------------
Init ==
  /\ now = 1
  /\ throttle = [c \in Caller |-> NoEntry] /\ file = throttle
  /\ asking = {} /\ askedAt = 0
  /\ promised = [c \in Caller |-> 0]
  /\ fails = [c \in Caller |-> <<>>]
  /\ served = [c \in Caller |-> [level |-> 0, at |-> 0]]
  /\ faults = 0

Tick ==
  /\ now < MaxTime
  /\ now' = now + 1
  /\ UNCHANGED <<throttle, file, asking, askedAt, promised, fails, served, faults>>

\* Unlock() up to the call of PAM: the decay, saved if there was one.
Decay(c) ==
  /\ throttle' = [throttle EXCEPT ![c] = Decayed(@, now)]
  /\ IF throttle' = throttle THEN UNCHANGED <<file, faults>> ELSE Save(throttle')

RateLimited(c) ==
  /\ asking = {}
  /\ Decayed(throttle[c], now).until > now
  /\ Decay(c)
  /\ UNCHANGED <<now, asking, askedAt, promised, fails, served>>

AskPam(c) ==
  /\ asking = {}
  /\ Decayed(throttle[c], now).until <= now
  /\ Decay(c)
  /\ asking' = {c} /\ askedAt' = now
  /\ UNCHANGED <<now, promised, fails, served>>

\* PAM accepts: recordUnlockSuccess().
PamAccepts(c) ==
  /\ c \in asking
  /\ asking' = {}
  /\ throttle' = [throttle EXCEPT ![c] = NoEntry]
  /\ Save(throttle')
  /\ promised' = [promised EXCEPT ![c] = 0]
  /\ fails' = [fails EXCEPT ![c] = <<>>]
  /\ served' = [served EXCEPT ![c] = [level |-> 0, at |-> 0]]
  /\ UNCHANGED <<now, askedAt>>

\* PAM refuses, or cannot be asked: recordUnlockFailure() with the time of before.
PamRefuses(c) ==
  LET e == Failed(throttle[c], askedAt)
      locked == e.until > askedAt
  IN
  /\ c \in asking
  /\ asking' = {}
  /\ throttle' = [throttle EXCEPT ![c] = e]
  /\ Save(throttle')
  /\ promised' = [promised EXCEPT ![c] = IF locked THEN e.until ELSE @]
  /\ fails' = [fails EXCEPT ![c] = IF locked THEN <<>> ELSE Append(@, askedAt)]
  /\ served' = [served EXCEPT ![c] = [level |-> e.level, at |-> askedAt]]
  /\ UNCHANGED <<now, askedAt>>

\* The constructor: loadUnlockThrottleState(), which saves what has decayed.  A
\* file that cannot be read is taken for an empty one.
Load(stored) ==
  LET read == [c \in Caller |-> Loaded(stored[c], now)] IN
  \/ /\ throttle' = read
     /\ IF \E c \in Caller : Decayed(stored[c], now) # stored[c]
          THEN \/ file' = read /\ UNCHANGED faults
               \/ faults < MaxFaults /\ faults' = faults + 1 /\ file' = stored
          ELSE file' = stored /\ UNCHANGED faults
  \/ /\ faults < MaxFaults /\ faults' = faults + 1
     /\ throttle' = [c \in Caller |-> NoEntry]
     /\ file' = stored

\* desktopd ends, in good order (the destructor saves) or not, and starts again.
\* An attempt PAM has not answered is not recorded.
Stop ==
  /\ asking = {}
  /\ Load(throttle)
  /\ UNCHANGED <<now, asking, askedAt, promised, fails, served>>

Crash ==
  /\ Load(file)
  /\ asking' = {}
  /\ UNCHANGED <<now, askedAt, promised, fails, served>>

Next ==
  \/ Tick \/ Stop \/ Crash
  \/ \E c \in Caller : RateLimited(c) \/ AskPam(c) \/ PamAccepts(c) \/ PamRefuses(c)

Spec == Init /\ [][Next]_vars
-----------------------------------------------------------------------------
(* Properties.  A file that could not be read or written excuses them. *)

\* A caller that was told of a lockout does not reach PAM before it is over,
\* whatever decays, fails or restarts meanwhile.
LockoutHonoured ==
  faults = 0 => \A c \in asking : askedAt >= promised[c]

\* Fewer than FailLimit failures of a caller go by in one Window without a
\* lockout, whatever decays in between and whenever desktopd restarts.
Recent(c) == {i \in DOMAIN fails[c] : fails[c][i] + Window > now}
BurstStopped ==
  faults = 0 => \A c \in Caller : Cardinality(Recent(c)) < FailLimit

\* Decaying bit by bit, at attempts and at restarts, takes back the same levels as
\* decaying once since the last failure.
DecayIsExact ==
  faults = 0 => \A c \in Caller :
    Decayed(throttle[c], now).level = Fewer(served[c].level, served[c].at, now)
=============================================================================
