\* Deletions on both sides while tasks are transferred; the client's message has
\* priority 0 and takes the place of its answers.
SPECIFICATION Spec
CONSTANTS
    Server = Server
    Client = Client
    Tasks = {1, 13}
    Owner <- ServerOwnsBelow10
    Kind <- KindByDigit
    FileSize <- Size2
    Priority <- UrgentAbove10
    MaxErrorCount = 0
    AutoBlockSize = FALSE
    FixedBlockSize = 1
    MinBlockSize = 1
    MaxBlockSize = 2
    BackoffPossible = FALSE
    UserDeletes = TRUE
    MaxPriority = 5
    MaxFaults = 1
INVARIANTS AcknowledgedImpliesDelivered CopyFresh
 
