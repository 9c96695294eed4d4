SPECIFICATION SessionSpec
CONSTANTS
    Call = {first, replay}
    Stream = stream
    BufferSize = 2
    MaxRetries = 1
INVARIANTS
    VerdictsAreReal
    AcceptedIsLinked
    EndIsOnItsWay
PROPERTIES
    StreamLearnsEnd
