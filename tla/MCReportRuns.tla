---------------------------- MODULE MCReportRuns ----------------------------
EXTENDS ReportRuns, TLC
CONSTANTS v1, v2, v3, alice, root, c1, c2, n1, n2, x1, x2, s1, b1, b2
Shared == v1 :> [owner |-> alice, name |-> n1, shared |-> TRUE, content |-> x1, revision |-> 1]
Private == v1 :> [owner |-> alice, name |-> n1, shared |-> FALSE, content |-> x1, revision |-> 1]
Owner == (c1 :> alice) @@ (c2 :> alice)
Both == (c1 :> alice) @@ (c2 :> root)
Administrators == (c1 :> root) @@ (c2 :> root)
Scenario(who, ops, n, start, until) ==
    [user |-> who, ops |-> ops, requests |-> n, start |-> start, horizon |-> until]
MCScenarios ==
    {Scenario(Owner, {"create", "clone", "update", "delete"}, 3, <<>>, 0),
     Scenario(Both, {"update"}, 3, Shared, 0),
     Scenario(Both, {"create", "update", "delete"}, 2, Private, 0),
     Scenario(Both, {"default", "delete"}, 4, Shared, 0),
     Scenario(Administrators, {"metadata"}, 4, <<>>, 0),
     Scenario(Both, {"generate", "update"}, 3, Shared, 0),
     Scenario(Administrators, {"schedule", "reschedule", "unschedule", "delete"}, 3, Shared, 0),
     Scenario(Both, {"schedule", "reschedule"}, 2, Shared, 4),
     Scenario(Both, {"schedule", "unschedule", "delete"}, 2, Shared, 4),
     Scenario(Both, {"generate", "retry", "cleanup"}, 2, Shared, 2),
     Scenario(Both, {"schedule", "run"}, 2, Shared, 2)}
=============================================================================
