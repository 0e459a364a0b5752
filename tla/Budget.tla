------------------------------- MODULE Budget -------------------------------
(***************************************************************************)
(* The operator's budget for one turn (internal/loop/budget.go): requests  *)
(* to Hermes, hands calls, hands calls per envelope, and the countdown     *)
(* Hermes and the operator are shown as it runs out.  A limit of 0 means   *)
(* there is none.                                                          *)
(***************************************************************************)
EXTENDS Integers

CONSTANTS MaxRounds,         \* HERMES_HANDS_MAX_ROUNDS
          MaxCalls,          \* HERMES_HANDS_MAX_CALLS
          MaxCallsPerRound   \* HERMES_HANDS_MAX_CALLS_PER_ROUND

ASSUME BudgetAssumption ==
  /\ MaxRounds \in Nat
  /\ MaxCalls \in Nat
  /\ MaxCallsPerRound \in Nat

(* The countdown, in rising urgency. *)
tierNone   == 0
tierWarn   == 1
tierFinish == 2
tierLast   == 3
tierOut    == 4

Tiers == tierNone .. tierOut

Larger(a, b)  == IF a >= b THEN a ELSE b
Smaller(a, b) == IF a <= b THEN a ELSE b

-----------------------------------------------------------------------------
(* Rounds left before request "next", and the tier the rounds alone give.
   The cases are those of the switch, the most urgent first.               *)
RoundsLeft(next) == MaxRounds - next + 1

RoundTier(next) ==
  LET left == RoundsLeft(next)
  IN  IF MaxRounds = 0                                  THEN tierNone
      ELSE IF left <= 0                                 THEN tierOut
      ELSE IF left = 1                                  THEN tierLast
      ELSE IF left <= Larger(MaxRounds \div 5, 2)       THEN tierFinish
      ELSE IF left <= (MaxRounds * 2) \div 5            THEN tierWarn
      ELSE tierNone

CallsLeft(used) == Larger(MaxCalls - used, 0)

CallTier(used) ==
  IF MaxCalls = 0                    THEN tierNone
  ELSE IF CallsLeft(used) = 0        THEN tierOut
  ELSE IF used * 10 >= MaxCalls * 9  THEN tierFinish
  ELSE IF used * 4 >= MaxCalls * 3   THEN tierWarn
  ELSE tierNone

(* The countdown tier before request "next", "used" calls run so far. *)
BudgetAt(next, used) == Larger(RoundTier(next), CallTier(used))

(* The turn may run no further envelope: round comes too late, or every
   hands call is used.                                                     *)
RoundsSpent(round) == MaxRounds > 0 /\ round > MaxRounds
CallsSpent(used)   == MaxCalls > 0 /\ used >= MaxCalls
Capped(round, used) == RoundsSpent(round) \/ CallsSpent(used)

(* How many of an envelope's n calls run: the first ones. *)
PerEnvelope(n)    == IF MaxCallsPerRound > 0 THEN Smaller(n, MaxCallsPerRound) ELSE n
\* mutant of Runnable: the calls run so far are not subtracted
Runnable_IgnoresUsed(n, used) == IF MaxCalls > 0 THEN Smaller(PerEnvelope(n), MaxCalls)
                                                 ELSE PerEnvelope(n)

Runnable(n, used) == IF MaxCalls > 0 THEN Smaller(PerEnvelope(n), MaxCalls - used)
                                     ELSE PerEnvelope(n)
=============================================================================
