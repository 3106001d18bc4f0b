\* Two clients edit views, metadata and schedules; two backends generate reports.
SPECIFICATION FairSpec
CONSTANTS
    v1=v1 v2=v2 v3=v3 alice=alice root=root c1=c1 c2=c2 n1=n1 n2=n2 x1=x1 x2=x2 s1=s1
    View = {v1,v2,v3}
    User = {alice, root}
    Admin = {root}
    Client = {c1,c2}
    Name = {n1,n2}
    Content = {x1,x2}
    Limit = 1
    Device = Device
    None = None
    b1=b1 b2=b2
    Backend = {b1,b2}
    Schedule = {s1}
    Period = 2
    Timeout = 1
    Retention = 1
    MaxConcurrent = 2
    MaxFaults = 1
    Scenarios <- MCScenarios
CHECK_DEADLOCK FALSE
INVARIANTS
    EditInv
    RunsInv
PROPERTIES
    NoBlindOverwrite
    FinishedIsImmutable
    CyclesCatchUp
