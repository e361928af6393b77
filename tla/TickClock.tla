------------------------------ MODULE TickClock ------------------------------
(***************************************************************************)
(* When a NetworkEngine ticks: the elapsed time it accumulates and the     *)
(* loop of TestServer and TestClient, which spends it tick by tick.        *)
(*                                                                         *)
(* A server sets its tick rate when it starts.  A client does not know the *)
(* rate before the InitializeClientMessage: until then its fixed delta is  *)
(* zero and its inner loop does not end.                                   *)
(*                                                                         *)
(* Time is counted in units of which a tick of every rate takes a whole    *)
(* number: the rounding of float is left out.                              *)
(***************************************************************************)
EXTENDS Integers

CONSTANTS
  Second,     \* units of time in a second
  Rates,      \* the tick rates there are, uint8_t
  MaxTime,    \* bound on the time that passes
  MaxEarly    \* bound on the ticks of a client before it knows the rate

ASSUME ClockAssumption ==
  /\ Second \in Nat /\ MaxTime \in Nat /\ MaxEarly \in Nat \ {0}
  /\ Rates \subseteq 0..255
  /\ \A r \in Rates \ {0} : Second \div r \in Nat \ {0} /\ Second % r = 0

VARIABLES
  now,           \* m_clock
  tickRate,      \* m_tickRate
  fixedDelta,    \* m_fixedDeltaTime
  elapsed,       \* m_elapsedTime
  lastUpdate,    \* m_lastElapsedTimeUpdate
  currentTick,   \* m_currentTick
  at,            \* where the loop is: outer (before updateElapsedTime), inner
                 \* (before canUpdateNetcode), tick (between begin and end)
  knowsRate,     \* the tick rate was set
  resetAt,       \* when the elapsed time was last reset
  ended,         \* ticks ended since
  early          \* ticks begun before

clockVars == <<now, tickRate, fixedDelta, elapsed, lastUpdate, currentTick, at, knowsRate,
               resetAt, ended, early>>

Infinite == -1

\* 1.f / _tickRate.
DeltaOf(rate) == IF rate = 0 THEN Infinite ELSE Second \div rate

\* Mutated form: a tick that is just due is not run.
Overdue(delta, e) == delta # Infinite /\ e > delta

\* m_elapsedTime >= m_fixedDeltaTime.
Due(delta, e) == delta # Infinite /\ e >= delta

CanUpdateNetcode == Due(fixedDelta, elapsed)

-----------------------------------------------------------------------------
Engine ==
  /\ now = 0 /\ lastUpdate = 0 /\ elapsed = 0 /\ currentTick = 0
  /\ at = "outer" /\ resetAt = 0 /\ ended = 0 /\ early = 0

\* Server::start and Client::connectTo.
ClockInit ==
  /\ Engine
  /\ \/ \E r \in Rates : tickRate = r /\ fixedDelta = DeltaOf(r) /\ knowsRate = TRUE
     \/ tickRate = 0 /\ fixedDelta = 0 /\ knowsRate = FALSE

TimePasses ==
  /\ \E t \in 1..MaxTime : now + t <= MaxTime /\ now' = now + t
  /\ UNCHANGED <<tickRate, fixedDelta, elapsed, lastUpdate, currentTick, at, knowsRate,
                 resetAt, ended, early>>

UpdateElapsedTime ==
  /\ at = "outer" /\ at' = "inner"
  /\ elapsed' = elapsed + (now - lastUpdate)
  /\ lastUpdate' = now
  /\ UNCHANGED <<now, tickRate, fixedDelta, currentTick, knowsRate, resetAt, ended, early>>

BeginUpdate ==
  /\ at = "inner" /\ CanUpdateNetcode /\ at' = "tick"
  /\ currentTick' = currentTick + 1
  /\ UNCHANGED <<now, tickRate, fixedDelta, elapsed, lastUpdate, knowsRate, resetAt, ended, early>>

InnerLoopEnds ==
  /\ at = "inner" /\ ~CanUpdateNetcode /\ at' = "outer"
  /\ UNCHANGED <<now, tickRate, fixedDelta, elapsed, lastUpdate, currentTick, knowsRate,
                 resetAt, ended, early>>

\* Mutated form: what the tick left over is lost.
Nothing(delta, e) == 0

\* m_elapsedTime -= m_fixedDeltaTime.
TimeLeft(delta, e) == e - delta

EndUpdate ==
  /\ at = "tick" /\ at' = "inner"
  /\ knowsRate \/ currentTick < MaxEarly
  /\ IF CanUpdateNetcode
     THEN elapsed' = TimeLeft(fixedDelta, elapsed) /\ ended' = ended + 1
     ELSE UNCHANGED <<elapsed, ended>>
  /\ UNCHANGED <<now, tickRate, fixedDelta, lastUpdate, currentTick, knowsRate, resetAt, early>>

\* Mutated form: the time the client spent waiting is kept.
KeptElapsed == elapsed

\* resetElapsedTime.
ResetElapsed == 0

\* Client::endUpdate in the tick that brought the InitializeClientMessage: with
\* no time elapsed the engine's endUpdate has nothing to do, and the tick that
\* was begun is not ended.
EndUpdateInitializes ==
  /\ at = "tick" /\ at' = "inner" /\ ~knowsRate
  /\ \E r \in Rates :
       /\ tickRate' = r /\ fixedDelta' = DeltaOf(r) /\ knowsRate' = TRUE
       /\ lastUpdate' = now /\ resetAt' = now /\ early' = currentTick
       /\ IF Due(DeltaOf(r), ResetElapsed)
          THEN elapsed' = TimeLeft(DeltaOf(r), ResetElapsed) /\ ended' = 1
          ELSE elapsed' = ResetElapsed /\ ended' = 0
  /\ UNCHANGED <<now, currentTick>>

Loop == UpdateElapsedTime \/ BeginUpdate \/ InnerLoopEnds \/ EndUpdate \/ EndUpdateInitializes

ClockNext == TimePasses \/ Loop

ClockSpec == ClockInit /\ [][ClockNext]_clockVars

-----------------------------------------------------------------------------
Ticking == IF at = "tick" THEN 1 ELSE 0

\* No time is lost and none is counted twice: what passed since the reset and
\* was noticed is either spent on ticks that ended or still elapsed, however
\* long ticks take.
TimeIsAccounted ==
  fixedDelta # Infinite => elapsed + ended * fixedDelta = lastUpdate - resetAt

\* Every tick that is begun is ended before the next begins, although both ask
\* canUpdateNetcode for themselves; only the tick in which a client learns the
\* rate never ends: its messages are sent in the next one.
TicksArePaired == currentTick = early + ended + Ticking

\* The ticks follow the time: whenever the loop looks at the clock again, it has
\* run every tick that was due when it last looked, and no other, so that a tick
\* that took long is made up for and no drift adds up.
CaughtUp ==
  at = "outer" /\ fixedDelta > 0 => ended = (lastUpdate - resetAt) \div fixedDelta

\* What these rely on: the elapsed time is never negative, and in a tick that
\* was begun there is time to end it; with a rate of zero no tick ever begins.
ClockInv ==
  /\ now \in Nat /\ lastUpdate \in 0..now /\ resetAt \in 0..lastUpdate
  /\ elapsed \in Nat /\ currentTick \in Nat /\ ended \in Nat /\ early \in Nat
  /\ at \in {"outer", "inner", "tick"} /\ knowsRate \in BOOLEAN
  /\ fixedDelta \in Nat \cup {Infinite}
  /\ fixedDelta = (IF knowsRate THEN DeltaOf(tickRate) ELSE 0)
  /\ knowsRate => tickRate \in Rates
  /\ fixedDelta = 0 => elapsed = lastUpdate - resetAt
  /\ fixedDelta = Infinite => ended = 0 /\ at # "tick"
  /\ at = "tick" => CanUpdateNetcode
  /\ at = "outer" /\ fixedDelta > 0 => elapsed < fixedDelta
  /\ TimeIsAccounted
  /\ TicksArePaired
=============================================================================
