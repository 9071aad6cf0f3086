SPECIFICATION Spec
CONSTANTS
    Dispatchers = {d1}
    Effects = {"email"}
    CapabilityOf <- MCOwnCapability
    Source = "email"
    Historical = {}
    Keys = {k1}
    Entries = {"bound"}
    Approval = 1
    MaxTime = 1
    MaxFacts = 5
INVARIANT Readable
CHECK_DEADLOCK FALSE
