SPECIFICATION FlowSpec
CONSTANTS
    PlanParts <- PlannedTaskFields
    MaxAdjustments = 0
INVARIANTS
    InputsFit
\* A task whose nodes have all run is at its end.
CHECK_DEADLOCK FALSE
