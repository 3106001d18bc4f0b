--------------------------- MODULE MCCleanupRuns ----------------------------
EXTENDS CleanupRuns, TLC

CONSTANTS body

RetentionOfAll == [k \in Kind |-> IF k = "telemetry" THEN Window ELSE 1]
ObservedOfAll == body :> 0
ScenariosOfAll ==
    {{<<"finding", 1>>, <<"delivery", 1>>},
     {<<"flow", 1>>, <<"report", 1>>, <<"history", 1>>},
     {<<"telemetry", body>>, <<"payload", body>>}}
=============================================================================
