SPECIFICATION CredSpec
CONSTANTS
    User = {user}
    Provider = {provider}
    Request = {request, request2}
    MaxKeys = 1
    MaxSecrets = 3
    VersionSpan = 3
PROPERTIES
    UpdateModifiesOnlyNamed
\* The bounds end every behaviour.
CHECK_DEADLOCK FALSE
