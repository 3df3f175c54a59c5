-------------------------- MODULE MCFencedDelivery --------------------------
(* A small instance of FencedDelivery. *)
EXTENDS FencedDelivery

MCJobIDs == 1..2
MCPriorities == {0}
MCTimes == 0..MaxTime
MCInstants == 0..(MaxTime + 2)
MCStartTimes == {NoTime}
MCLeaseFor == {Lease}
MCPurgeLimits == {}
=============================================================================
