SPECIFICATION LiveSpec
CONSTANTS
    design = design
    assemble = assemble
    inspect = inspect
    publish = publish
    Node <- ChainNodes
    DependsOn <- ChainDeps
    MaxAttempts <- ChainAttempts
    NeedsConfirm <- DesignOnly
    MaxCallers = 2
    StorageFaults = FALSE
    PatientUser = FALSE
PROPERTY
    EveryTaskEnds
CHECK_DEADLOCK FALSE
