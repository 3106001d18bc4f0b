\* Policies, posture inputs and documents, one input per behaviour; lists, page by page; calls of one client.
SPECIFICATION ReadsSpec
CONSTANTS
    d1=d1 d2=d2 d3=d3
    Device = {d1, d2, d3}
    None = None
    Owner <- MCOwner
    Tags <- MCTags
    Infrastructure = {d1}
    Large = 2
    Larger = 4
    FindingLimit = 4
    Now = 2
    VersionKeys = {"version"}
    AddressKey = "address"
    Name <- MCName
    Policies <- MCPolicies
    PostureInputs <- MCPostureInputs
    Scalar = {"a", "b"}
    Field = {"src", "acls", "custom"}
    Supported = {"acls"}
    Depth = 3
    Documents <- MCDocuments
    Entry = {1, 2, 3}
    Fold <- MCFold
    Limit = 1
    MaxChanges = 2
    NoCursor = NoCursor
    NoPayload = NoPayload
    NoResult = NoResult
    NoReview = NoReview
    Call = {c1, c2}
    Lifetime = {2, 4}
    Attempts = 3
    LastStep = 4
    Absent = Absent
CHECK_DEADLOCK FALSE
INVARIANTS
    PermitsWhatTheRuleMeans
    ReviewInv
    PostureInv
    CandidateInv
    PagesAreComplete
    ClientInv
