SPECIFICATION Spec
CONSTANTS
    Items = {"survey"}
    DependsOn <- MCDependsOn
    Clients = {c1}
    Operator = {}
    Reports = {"running", "unknown", "succeeded"}
    ResultIds = {1}
    Outputs <- MCOutputs
    MaxAttempts <- MCMaxAttempts
    MaxImports = 2
INVARIANTS ReportedKept
CHECK_DEADLOCK FALSE
