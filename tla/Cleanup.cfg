\* Rows that age, settle and are delivered twice, under cleanups and the findings job.
SPECIFICATION Spec
CONSTANTS
    Cleaner = {scheduledA, scheduledB, manual}
    Scheduled = {scheduledA, scheduledB}
    Sweeper = {sweeper}
    Request = {q1, q2}
    body = body
    Observed <- ObservedOfAll
    Window = 1
    Retention <- RetentionOfAll
    HistoryRetention = 1
    Scenarios <- ScenariosOfAll
    Horizon = 3
    MaxFaults = 1
    None = None
INVARIANTS
    CleanupInv
PROPERTIES
    OnlyDueGoes
    DueIsDeleted
