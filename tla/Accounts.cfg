\* Overlapping requests of two browsers, from the account tables of MCAccounts.
SPECIFICATION Spec
CONSTANTS
    alice=alice bob=bob b1=b1 b2=b2 s1=s1 s2=s2
    User = {alice, bob}
    Browser = {b1, b2}
    Role = {"administrator", "viewer"}
    SessionId = {s1, s2, s3, s4, s5, s6}
    None = None
    Scenarios <- MCScenarios
CHECK_DEADLOCK FALSE
INVARIANTS
    AccountInv
PROPERTIES
    RevocationIsFinal
    PolicyReachesSessions
