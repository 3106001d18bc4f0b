\* The inventory workers over one device, in the combinations of MCFamilies.
SPECIFICATION FairDeviceSpec
CONSTANTS
    d1 = d1 d2 = d2 u1 = u1 u2 = u2 l = l i1 = i1
    Device = {d1}
    User = {u1, u2}
    Login = {l}
    Invite = {i1}
    LoginOf <- MCLoginOf
    Node <- MCNode
    Families <- MCFamilies
    MaxDeviceChanges = 1
    MaxDeviceFailures = 1
    NoOne = NoOne
INVARIANTS
    DeviceInv
PROPERTIES
    HistoryIsAChain
    FreshInviteIsConfirmed
    CatchesUp
