\* Both processes may be killed at any point, one may hang, and the service stopped.
SPECIFICATION FairSpec
CONSTANTS
    Pids <- Pids5
    PromptStart = TRUE
    MaxKills = 3
    MaxHangs = 1
INVARIANTS TypeOK AtMostOne StaysStopped
PROPERTIES Restored
CHECK_DEADLOCK FALSE
