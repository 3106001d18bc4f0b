\* One backend without manual requests, under fairness: nobody else runs its sources.
SPECIFICATION FairSpec
CONSTANTS
    a = a  b = b
    users = users  devices = devices  policy = policy  flows = flows
    scheduledA = scheduledA  scheduledB = scheduledB
    manualA = manualA  initialA = initialA  initialB = initialB
    Nobody = Nobody
    Instance = {a}
    Source = {policy, flows}
    PolicySource = {policy}
    LogSource = {flows}
    DeviceSource = {}
    Runner = {scheduledA}
    Host <- MCHost
    Plans <- AnyPlans
    Instrumented = {scheduledA}
    InitialRunner = {}
    MaxJobs = 2
    MaxRuns = 2
    MaxStops = 1
INVARIANTS
    HistoryIsOwn
PROPERTIES
    EngineRecovers
