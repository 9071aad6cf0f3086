SPECIFICATION Spec
CONSTANTS
    Dispatchers = {d1}
    Effects = {"email", "page"}
    CapabilityOf <- MCSharedCapability
    Source = "email"
    Historical = {"page"}
    Keys = {k1}
    Entries = {"unbound", "bound"}
    Approval = 1
    MaxTime = 1
    MaxFacts = 5
INVARIANTS ReadableUnbound AnswerRecordable
CHECK_DEADLOCK FALSE
