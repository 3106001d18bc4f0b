\* Overlapping evaluators and the overlapping requests of administrators, under fairness.
SPECIFICATION Scenarios
CONSTANTS
    f1 = f1  f2 = f2  policy = policy  sync_health = sync_health
    x1 = x1  x2 = x2  admin = admin  other = other
    Finding = {f1, f2}
    Source = {policy, sync_health}
    SourceOf <- MCSourceOf
    Always = {sync_health}
    Evaluator = {x1, x2}
    Admin = {admin, other}
    MaxSignals = 2
    MaxActions = 2
    MaxCrashes = 1
    Nobody = Nobody
INVARIANTS
    FindingInv
PROPERTIES
    ResolvedOnlyWhenComplete
    OutboxIsTransactional
    Converges
