-------------------------- MODULE MCTradeLifecycle --------------------------
(* Instances of TradeLifecycle for TLC. *)
EXTENDS TradeLifecycle, TLC

CONSTANTS u1, u2, r1, r2

OneUnderlying == {u1}
TwoUnderlyings == {u1, u2}
OneRequest == {r1}
TwoRequests == {r1, r2}

AllFaults == FaultKinds
NoFaults == {}
TickFault == {"tick"}
SweepFault == {"sweep"}

\* Calendar days to the next session: overnight, a weekend, a weekend and a holiday.
Overnight == {1}
Weekend == {3}
AnyGap == {1, 3, 4}
OneOrTwo == {1, 2}

RequestSymmetry == Permutations(Requests)
=============================================================================
