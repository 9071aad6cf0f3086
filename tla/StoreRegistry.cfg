SPECIFICATION Spec
CONSTANTS
    Workflows = {"work", "notes", "policy"}
    RootOf <- MCRootOf
    Events = {"e1", "e2", "e3", "e4"}
    NoEvent = "none"
    Commands <- SharedCommands
    Profiles <- MCProfiles
    DefaultId = "default"
    Clients = {c1, c2}
    Free = free
    Governed = {"work"}
    Checkpointed = {}
    MaxFailures = 2
SYMMETRY ClientSymmetry
INVARIANTS TypeOK Readable AckedStored RegistryRepairable ReceiptsDescend
PROPERTIES GuardedOnceRegistered
