SPECIFICATION Spec
CONSTANTS
    design = design
    assemble = assemble
    inspect = inspect
    publish = publish
    Node <- ChainNodes
    DependsOn <- ChainDeps
    MaxAttempts <- ChainAttempts
    NeedsConfirm <- DesignOnly
    MaxCallers = 2
    StorageFaults = FALSE
PROPERTY
    CancelledIsFinal
