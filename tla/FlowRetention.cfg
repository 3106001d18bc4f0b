\* Records may be an hour late and an hour may pass without an aggregation.
SPECIFICATION Spec
CONSTANTS
    Step <- MCStep
    Overlap <- MCOverlap
    RawRetention = 4
    AggregateRetention <- MCAggregateRetention
    Delay = 1
    Pause = 1
    Length = 1
    Horizon = 6
INVARIANTS
    RetentionInv
PROPERTIES
    CountedIsKept
