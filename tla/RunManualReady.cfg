SPECIFICATION Spec
CONSTANTS
    Items = {"survey"}
    DependsOn <- MCDependsOn
    Clients = {c1}
    Operator = {"ready"}
    Reports = {"running", "unknown", "succeeded"}
    ResultIds = {1}
    Outputs <- MCOutputs
    MaxAttempts <- MCMaxAttempts
    MaxImports = 1
INVARIANTS Reconciled
CHECK_DEADLOCK FALSE
