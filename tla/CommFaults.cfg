\* A large file of the client's with growing blocks, a message of the server's,
\* and three faults of any kind.
SPECIFICATION Spec
CONSTANTS
    Server = Server
    Client = Client
    Tasks = {1, 13}
    Owner <- ClientOwnsBelow10
    Kind <- KindByDigit
    FileSize <- Size3
    Priority <- Priority5
    MaxErrorCount = 1
    AutoBlockSize = TRUE
    FixedBlockSize = 2
    MinBlockSize = 1
    MaxBlockSize = 2
    BackoffPossible = TRUE
    UserDeletes = FALSE
    MaxPriority = 6
    MaxFaults = 3
INVARIANTS TypeOK AcknowledgedImpliesDelivered CheckedFileIntact PartWithinFile NoNullDereference HalfDuplex BacklogBounded CleanWithoutFaults
