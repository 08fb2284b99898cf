\* Liveness: a large file, a small one and a message the other way, two faults, by
\* which tasks are degraded and fail again.
SPECIFICATION FairSpec
CONSTANTS
    Server = Server
    Client = Client
    Tasks = {1, 2, 13}
    Owner <- ServerOwnsBelow10
    Kind <- KindByDigit
    FileSize <- Size3
    Priority <- Priority5
    MaxErrorCount = 1
    AutoBlockSize = FALSE
    FixedBlockSize = 1
    MinBlockSize = 1
    MaxBlockSize = 2
    BackoffPossible = FALSE
    UserDeletes = FALSE
    MaxPriority = 6
    MaxFaults = 2
PROPERTIES Settles
