\* Two backends synchronize "devices", one by schedule and one on request; or both start.
SPECIFICATION FleetSpec
CONSTANTS
    a = a  b = b
    users = users  devices = devices  policy = policy  flows = flows
    scheduledA = scheduledA  scheduledB = scheduledB
    manualA = manualA  initialA = initialA  initialB = initialB
    Nobody = Nobody
    Instance = {a, b}
    Source = {users, devices}
    PolicySource = {}
    LogSource = {}
    DeviceSource = {devices}
    Runner = {scheduledB, manualA, initialA, initialB}
    Host <- MCHost
    Plans <- FleetPlans
    Instrumented = {scheduledB, initialA, initialB}
    InitialRunner = {initialA, initialB}
    MaxJobs = 2
    MaxRuns = 2
    MaxStops = 1
INVARIANTS
    TypeOK
    OneTaskPerSource
    OpenJobIsNewest
    RecordsAreTrue
PROPERTIES
    HistoryIsFinal
    LedgerSpec
