---------------------------- MODULE MCApiProcess ----------------------------
(* Instances of ApiProcess for TLC. *)
EXTENDS ApiProcess

CONSTANTS w1, w2, t1, t2

TwoWorkers == {w1, w2}
NoWriter   == {}
OneTrade   == {t1}
TwoTrades  == {t1, t2}
=============================================================================
