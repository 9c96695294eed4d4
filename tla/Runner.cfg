SPECIFICATION Spec
CONSTANTS
    design = design
    assemble = assemble
    inspect = inspect
    publish = publish
    Node <- DiamondNodes
    DependsOn <- DiamondDeps
    MaxAttempts <- DiamondAttempts
    NeedsConfirm <- InspectAndPublish
    MaxCallers = 3
    StorageFaults = TRUE
INVARIANTS
    TypeOK
    DependenciesFirst
    AttemptBudget
    VerdictMatchesNodes
    InputsPresent
    WaiterReachable
PROPERTIES
    CompletedWorkKept
    RefinesLifecycle
