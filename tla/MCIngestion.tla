---------------------------- MODULE MCIngestion ----------------------------
(* Instances of Ingestion for TLC. *)
EXTENDS Ingestion

CONSTANTS api, pipeline

TheApi == {api}
Both == {api, pipeline}

EachItsSnap == [t \in Times |-> t]
PairsOfTimes == [t \in Times |-> t \div 2]    \* 1 | 2, 3

AllFaults == FaultKinds
Restarts == {"crash"}
NoFaults == {}
=============================================================================
