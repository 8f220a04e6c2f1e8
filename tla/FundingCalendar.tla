---------------------------- MODULE FundingCalendar ----------------------------
(***************************************************************************)
(* The estimates the scanner decides by (internal/strategy): the funding   *)
(* events within the horizon, what they pay, and the test of the result.   *)
(* Times are distances from now; whole ticks, whole units of the quote.    *)
(***************************************************************************)
EXTENDS Integers, FiniteSets

\* None if the next event has passed: the data is stale then; none without an
\* interval or a horizon.
BuildFundingCalendar(next, interval, horizon) ==
  IF next <= 0 \/ interval <= 0 \/ horizon <= 0
  THEN {} ELSE {t \in next .. horizon : (t - next) % interval = 0}

\* Faulty variant: the long leg is taken to receive a positive rate.
FundingCashFlow_Swapped(side, rate, notional) == (IF side = "long" THEN 1 ELSE -1) * rate * notional

\* At a positive rate the long leg pays.
FundingCashFlow(side, rate, notional) == (IF side = "long" THEN -1 ELSE 1) * rate * notional

\* Every event gets the rate of the next one.
SumExpectedFundingCashFlow(events, side, rate, notional) ==
  Cardinality(events) * FundingCashFlow(side, rate, notional)

ExpectedNetPnL(funding, fees) == funding - fees

CheckEligibility(net, minNet, seconds, minSeconds) == seconds >= minSeconds /\ net >= minNet
===============================================================================
