\* Refuted: an answer left over from a lost exchange completes a file.
SPECIFICATION Spec
CONSTANTS
    Server = Server
    Client = Client
    Tasks = {1}
    Owner <- ServerOwnsBelow10
    Kind <- KindByDigit
    FileSize <- Size2
    Priority <- Priority5
    MaxErrorCount = 1
    AutoBlockSize = FALSE
    FixedBlockSize = 1
    MinBlockSize = 1
    MaxBlockSize = 2
    BackoffPossible = FALSE
    UserDeletes = FALSE
    MaxPriority = 6
    MaxFaults = 2
INVARIANTS CompletedFileDelivered
