SPECIFICATION Spec
CONSTANTS
    Workflows = {"work", "notes"}
    RootOf <- MCRootOf
    Events = {"e1", "e2", "e3"}
    NoEvent = "none"
    Commands <- ForeignCause
    Profiles = {}
    DefaultId = "default"
    Clients = {c1, c2}
    Free = free
    Governed = {}
    Checkpointed = {}
    MaxFailures = 0
SYMMETRY ClientSymmetry
INVARIANTS Readable
