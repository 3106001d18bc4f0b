------------------------- MODULE MCFindingLifecycle -------------------------
(* Instances of FindingLifecycle for TLC: f1 belongs to a source that can be *)
(* unavailable, f2 to one that is always complete.  A behaviour has either   *)
(* two evaluators and two findings and no administrator, or one evaluator    *)
(* and one finding with the overlapping requests of administrators.          *)
EXTENDS FindingLifecycle

CONSTANTS f1, f2, policy, sync_health, x1, x2, admin, other

VARIABLE scenario

MCSourceOf == [f \in Finding |-> IF f = f1 THEN policy ELSE sync_health]

ScenarioInit ==
    /\ Init
    /\ scenario \in {"evaluated", "administered"}
    /\ scenario = "administered" => signal[f2] = 0

ScenarioNext ==
    /\ Next
    /\ scenario = "evaluated" => actions' = 0
    /\ scenario = "administered" => signal'[f2] = 0 /\ pc'[x2] = "idle"
    /\ UNCHANGED scenario

\* Fairness of FindingLifecycle, for the evaluators of the scenario.
ScenarioFairness ==
    /\ \A e \in Evaluator : WF_vars((scenario = "evaluated" \/ e = x1) /\ EvaluatorStep(e))
    /\ \A who \in Admin : WF_vars(Finish(who))

Scenarios == ScenarioInit /\ [][ScenarioNext]_<<vars, scenario>> /\ ScenarioFairness
=============================================================================
