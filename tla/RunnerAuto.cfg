SPECIFICATION Spec
CONSTANTS
    design = design
    assemble = assemble
    inspect = inspect
    publish = publish
    Node <- DiamondNodes
    DependsOn <- DiamondDeps
    MaxAttempts <- DiamondAttempts
    NeedsConfirm <- NoNodes
    MaxCallers = 3
    StorageFaults = FALSE
INVARIANT
    WorkerNeverSpins
PROPERTY
    CancelledIsFinal
