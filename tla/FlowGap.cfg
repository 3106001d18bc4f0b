\* No record is late, but three hours may pass without an aggregation.
SPECIFICATION Spec
CONSTANTS
    Step <- MCStep
    Overlap <- MCOverlap
    RawRetention = 4
    AggregateRetention <- MCAggregateRetention
    Delay = 0
    Pause = 3
    Length = 0
    Horizon = 6
INVARIANTS
    RemovedIsAggregated
