SPECIFICATION MCSpec
CONSTANTS
    NodeId <- Ids
    NoNode = NoNode
    Workflows <- AllWorkflows
    NumAssets = 3
    MaxParallel = 2
    PlanParts <- FullPlan
    MaxAdjustments = 2
    User = {user, other}
    Provider = {provider}
    Request = {request, request2}
    MaxKeys = 2
    MaxSecrets = 4
    VersionSpan = 3
    AssetID = {asset1, asset2, asset3}
    Torn = Torn
    Uploads = 4
    FileName <- FileNames
    Versions <- OneFieldVersions
    Filled <- AllOrNone
INVARIANTS
    ValidateDecides
    FanOutComplete
    InputsFit
    SecretMatchesRecord
    DeletedStaysDeleted
    AckedIsDurable
    SoleUploadKeepsFile
    CallsAgree
PROPERTIES
    ValidateEnds
    FanOutEnds
\* Every component but the credential store comes to its end.
CHECK_DEADLOCK FALSE
