-------------------------- MODULE MCFlowAggregation --------------------------
(* Instances of FlowAggregation for TLC: days of two hours.                 *)
EXTENDS FlowAggregation

MCStep == [g \in Granularity |-> IF g = "daily" THEN 2 ELSE 1]
MCOverlap == [g \in Granularity |-> 2]
MCAggregateRetention == [g \in Granularity |-> IF g = "daily" THEN 6 ELSE 5]
=============================================================================
