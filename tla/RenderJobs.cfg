SPECIFICATION FairSpec
CONSTANT
    MaxInvocations = 3
INVARIANTS
    RenderIsWatched
    NoOrphanRender
    VerdictMatchesProcess
PROPERTIES
    FinalIsFinal
    CancelEndsRender
    ExitReachesNode
\* The task's render is over.
CHECK_DEADLOCK FALSE
