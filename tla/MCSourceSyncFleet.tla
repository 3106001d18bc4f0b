------------------------- MODULE MCSourceSyncFleet --------------------------
(* Two instances share the work.  Either both are up before the first row:   *)
(* one schedules a source that a request to the other runs too, one may stop *)
(* and a new process may prime the database; or both start against an empty  *)
(* database at once and nothing stops.                                       *)
EXTENDS MCSourceSync

FleetPlans == [r \in Runner |-> IF r \in InitialRunner THEN StartupPlans[r] ELSE DevicePlans[r]]

FleetInit ==
    /\ Fresh
    /\ \/ live = [i \in Instance |-> "up"] /\ stops = 0
       \/ live = [i \in Instance |-> "down"] /\ stops = MaxStops

FleetSpec == FleetInit /\ [][Next]_vars
=============================================================================
