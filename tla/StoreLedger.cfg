SPECIFICATION FairSpec
CONSTANTS
    Workflows = {"work", "policy"}
    RootOf <- MCRootOf
    Events = {"e1", "e2", "e3", "e4"}
    NoEvent = "none"
    Commands <- GovernedCommands
    Profiles <- MCProfiles
    DefaultId = "default"
    Clients = {c1}
    Free = free
    Governed = {"work"}
    Checkpointed = {"work"}
    MaxFailures = 1
INVARIANTS CheckpointsValid
PROPERTIES LedgerSpec LockReleased
