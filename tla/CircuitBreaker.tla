--------------------------- MODULE CircuitBreaker ---------------------------
(***************************************************************************)
(* The circuit breaker of the traffic manager (CircuitBreaker in           *)
(* src/advanced/traffic_manager.cpp), the callers it lets through and the  *)
(* backend they call.  A caller reads the clock, asks allow(), calls the   *)
(* backend and reports how that went, each when it gets to it: a report    *)
(* may come when the breaker has long moved on, and a clock value may be   *)
(* old when it is used.                                                    *)
(*                                                                         *)
(* Time is relative: since is nowMs - openedAtMs_ for a caller that reads  *)
(* the clock now, and a caller's lag the time since it read it.  Both stop *)
(* at a bound past which nothing depends on them.                          *)
(***************************************************************************)
EXTENDS Integers

CONSTANTS
  Clients,          \* the threads that call through the breaker
  FailThreshold,    \* failThreshold_
  HalfOpenProbes,   \* halfOpenProbes_
  Cooldown,         \* cooldownMs_, in ticks
  MaxLag,           \* bound: ticks between reading the clock and using it
  MaxOutages,       \* bound: times the backend goes down
  MaxLost           \* bound: calls that never report

ASSUME BreakerAssumption ==
  /\ FailThreshold \in Nat \ {0} /\ HalfOpenProbes \in Nat \ {0}
  /\ Cooldown \in Nat /\ MaxLag \in Nat

VARIABLES
  breaker,    \* state_
  fails,      \* consecutiveFails_, up to the threshold
  inFlight,   \* halfOpenInFlight_
  since,      \* time since openedAtMs_
  client,     \* [pc, lag]: "out", "asking", "calling", or "failed", about to report
  healthy,    \* the backend is up
  outages, lost  \* used up bounds

breakerVars == <<breaker, fails, inFlight, since, client, healthy, outages, lost>>

Longest == Cooldown + MaxLag
Out     == [pc |-> "out", lag |-> 0]

BreakerInit ==
  /\ breaker = "CLOSED" /\ fails = 0 /\ inFlight = 0
  /\ since = 0
  /\ client = [c \in Clients |-> Out]
  /\ healthy = TRUE
  /\ outages = 0 /\ lost = 0

Go(c, r) == client' = [client EXCEPT ![c] = r]

-----------------------------------------------------------------------------
ReadClock(c) ==
  /\ client[c].pc = "out"
  /\ Go(c, [pc |-> "asking", lag |-> 0])
  /\ UNCHANGED <<breaker, fails, inFlight, since, healthy, outages, lost>>

\* nowMs - openedAtMs_ is unsigned: a clock value from before the opening makes
\* it huge, which counts as cooled down.
CooledDown(c) == since < client[c].lag \/ since - client[c].lag >= Cooldown

\* Mutant: the probes of the last half-open period are still counted.
HalfOpenNoReset == inFlight
\* allow turns OPEN into HALF_OPEN with no probe out.
HalfOpened == 0

Allow(c) ==
  LET opening == breaker = "OPEN" /\ CooledDown(c)
      out     == IF opening THEN HalfOpened ELSE inFlight
      half    == opening \/ breaker = "HALF_OPEN"
      denied  == (breaker = "OPEN" /\ ~opening) \/ (half /\ out >= HalfOpenProbes)
  IN /\ client[c].pc = "asking"
     /\ breaker' = IF opening THEN "HALF_OPEN" ELSE breaker
     /\ inFlight' = IF half /\ ~denied THEN out + 1 ELSE out
     /\ Go(c, IF denied THEN Out ELSE [pc |-> "calling", lag |-> 0])
     /\ UNCHANGED <<fails, since, healthy, outages, lost>>

\* The call succeeded: onSuccess.
OnSuccess(c) ==
  /\ client[c].pc = "calling"
  /\ fails' = 0
  /\ IF breaker = "HALF_OPEN" THEN breaker' = "CLOSED" /\ inFlight' = 0
                              ELSE UNCHANGED <<breaker, inFlight>>
  /\ Go(c, Out)
  /\ UNCHANGED <<since, healthy, outages, lost>>

\* The call failed: the caller reads the clock for its report.
CallFails(c) ==
  /\ client[c].pc = "calling" /\ ~healthy
  /\ Go(c, [pc |-> "failed", lag |-> 0])
  /\ UNCHANGED <<breaker, fails, inFlight, since, healthy, outages, lost>>

OnFailure(c) ==
  LET more  == IF breaker = "HALF_OPEN" \/ fails = FailThreshold THEN fails ELSE fails + 1
      opens == breaker = "HALF_OPEN" \/ more = FailThreshold
  IN /\ client[c].pc = "failed"
     /\ fails' = more
     /\ breaker' = IF opens THEN "OPEN" ELSE breaker
     /\ since' = IF opens THEN client[c].lag ELSE since
     /\ Go(c, Out)
     /\ UNCHANGED <<inFlight, healthy, outages, lost>>

\* A caller that is cancelled or throws does not report.
LoseCall(c) ==
  /\ client[c].pc = "calling" /\ lost < MaxLost
  /\ lost' = lost + 1
  /\ Go(c, Out)
  /\ UNCHANGED <<breaker, fails, inFlight, since, healthy, outages>>

Tick ==
  /\ \A c \in Clients : client[c].pc \in {"asking", "failed"} => client[c].lag < MaxLag
  /\ since' = IF since < Longest THEN since + 1 ELSE since
  /\ client' = [c \in Clients |-> IF client[c].pc \in {"asking", "failed"}
                                  THEN [client[c] EXCEPT !.lag = @ + 1] ELSE client[c]]
  /\ UNCHANGED <<breaker, fails, inFlight, healthy, outages, lost>>

GoDown ==
  /\ healthy /\ outages < MaxOutages
  /\ healthy' = FALSE /\ outages' = outages + 1
  /\ UNCHANGED <<breaker, fails, inFlight, since, client, lost>>
Recover ==
  /\ ~healthy /\ healthy' = TRUE
  /\ UNCHANGED <<breaker, fails, inFlight, since, client, outages, lost>>

ClientStep(c) == \/ ReadClock(c) \/ Allow(c) \/ OnFailure(c)
                 \/ (healthy /\ OnSuccess(c))

BreakerNext ==
  \/ \E c \in Clients : ClientStep(c) \/ CallFails(c) \/ OnSuccess(c) \/ LoseCall(c)
  \/ Tick \/ GoDown \/ Recover

\* Clients keep calling and report; time passes.
BreakerFairness ==
  /\ \A c \in Clients : WF_breakerVars(ClientStep(c))
  /\ WF_breakerVars(Tick)

BreakerSpec == BreakerInit /\ [][BreakerNext]_breakerVars /\ BreakerFairness

-----------------------------------------------------------------------------
\* When the backend is up for good, the breaker closes for good: neither late
\* reports of calls let through earlier, nor probes counted in an earlier
\* half-open period, nor old clock values keep it open or half-open for ever.
\* (A probe that never reports does: allow() waits for it.)
BreakerRecovers ==
  \/ []<>~healthy
  \/ <>(lost > 0)
  \/ <>[](breaker = "CLOSED")
=============================================================================
