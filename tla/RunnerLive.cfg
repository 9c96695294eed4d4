SPECIFICATION LiveSpec
CONSTANTS
    design = design
    assemble = assemble
    inspect = inspect
    publish = publish
    Node <- DiamondNodes
    DependsOn <- DiamondDeps
    MaxAttempts <- DiamondAttempts
    NeedsConfirm <- InspectAndPublish
    MaxCallers = 2
    StorageFaults = FALSE
    PatientUser = TRUE
INVARIANTS
    NoOrphanedTask
    WaiterHasWaker
PROPERTIES
    EveryTaskEnds
    WorkersRest
\* An idle server with nothing submitted may stay as it is.
CHECK_DEADLOCK FALSE
