---------------------------- MODULE RateLimiter ----------------------------
(***************************************************************************)
(* The token bucket of the traffic manager (RateLimiter in                 *)
(* src/advanced/traffic_manager.cpp).  Callers read the clock before they  *)
(* take the mutex, so tryAcquire may be given any time up to now, and the  *)
(* times it is given need not grow.  Tokens are whole, a tick brings Rate  *)
(* of them.                                                                *)
(***************************************************************************)
EXTENDS Naturals

CONSTANTS
  Rate,         \* rate_, per tick
  Burst,        \* burst_
  TokenCounts,  \* the tokens asked for at a time
  MaxClock      \* bound: ticks

ASSUME LimiterAssumption ==
  /\ Rate \in Nat /\ Burst \in Nat /\ MaxClock \in Nat
  /\ TokenCounts \subseteq Nat

VARIABLES
  clock,     \* the time
  tokens,    \* tokens_
  lastMs,    \* lastMs_
  started,   \* init_
  firstMs,   \* history: the time of the first call
  granted    \* history: tokens given out

limiterVars == <<clock, tokens, lastMs, started, firstMs, granted>>

LimiterInit ==
  /\ clock = 0
  /\ tokens = Burst /\ lastMs = 0 /\ started = FALSE
  /\ firstMs = 0 /\ granted = 0

Capped(n) == IF n < Burst THEN n ELSE Burst

\* Mutant: the last time follows the caller's clock backwards.
RefilledAtLast(now) == now
\* lastMs_ after refill.
RefilledAt(now) == IF ~started \/ now > lastMs THEN now ELSE lastMs

\* tokens_ after refill; the first call only starts the clock.
Refilled(now) ==
  IF started /\ now > lastMs THEN Capped(tokens + Rate * (now - lastMs)) ELSE tokens

TryAcquire(now, n) ==
  /\ started' = TRUE
  /\ lastMs' = RefilledAt(now)
  /\ firstMs' = IF started THEN firstMs ELSE now
  /\ IF Refilled(now) >= n
     THEN tokens' = Refilled(now) - n /\ granted' = granted + n
     ELSE tokens' = Refilled(now) /\ UNCHANGED granted
  /\ UNCHANGED clock

\* available() refills too.
Available(now) == TryAcquire(now, 0)

TickLimiter ==
  /\ clock < MaxClock
  /\ clock' = clock + 1
  /\ UNCHANGED <<tokens, lastMs, started, firstMs, granted>>

LimiterNext ==
  \/ TickLimiter
  \/ \E now \in 0..clock : Available(now) \/ \E n \in TokenCounts : TryAcquire(now, n)

LimiterSpec == LimiterInit /\ [][LimiterNext]_limiterVars

-----------------------------------------------------------------------------
\* However the callers' clock values are ordered, no more is given out than one
\* burst and what the time since the first call brings: the time between two
\* calls is paid out once, and an older clock value brings nothing.
RateBounded == granted + tokens <= Burst + Rate * (lastMs - firstMs)
=============================================================================
