\* Two commands at once, of every kind, of a service with a task or none; what
\* LIST_SEND does, GET_RECEIVED does too.
SPECIFICATION FairSpec
CONSTANTS
    c1 = c1
    c2 = c2
    Clients = {c1, c2}
    Nobody = Nobody
    Tasks = {1}
    Signal = Signal
    Requests = {"GET_STATUS", "STOP_SERVER", "ADD_MESSAGE", "ADD_FILE", "GET_RECEIVED", "DELETE_SEND"}
    Polls = 2
    Backlog = 1
INVARIANTS TypeOK StoppedIsTrue
PROPERTIES QuietOnceStopped EveryoneIsAnswered StopHappens
CHECK_DEADLOCK FALSE
