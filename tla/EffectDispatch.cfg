SPECIFICATION Spec
CONSTANTS
    Dispatchers = {d1, d2}
    Effects = {"email"}
    CapabilityOf <- MCOwnCapability
    Source = "email"
    Historical = {}
    Keys = {k1}
    Entries = {"unbound"}
    Approval = 1
    MaxTime = 1
    MaxFacts = 6
INVARIANTS TypeOK AtMostOneCall EligibleUntouched KnownIsTrue ReadableUnbound AnswerRecordable
PROPERTIES ImplementsOwnership
SYMMETRY MCSymmetry
CHECK_DEADLOCK FALSE
