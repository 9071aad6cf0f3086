SPECIFICATION Spec
CONSTANTS
    Items = {"survey", "report"}
    DependsOn <- MCDependsOn
    Clients = {c1}
    Operator = {"start", "review"}
    Reports = {"unknown", "succeeded", "failed"}
    ResultIds = {1}
    Outputs <- MCOutputs
    MaxAttempts <- MCMaxAttempts
    MaxImports = 1
INVARIANTS TypeOK Gated Accountable Reconciled FreshAttempts
PROPERTIES AcceptedFrozen
CHECK_DEADLOCK FALSE
