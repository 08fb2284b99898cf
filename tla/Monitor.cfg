\* Files written or moved in at any time and with any time; two restarts at any
\* point.
SPECIFICATION Spec
CONSTANTS
    Files = {a, b, c}
    QueueLimit = 2
    MaxTime = 3
    MaxWrites = 3
    MaxStarts = 3
SYMMETRY Symmetry
INVARIANTS TypeOK ReportedIsQueued SkippedIsNoNewer LogBehindQueue
CHECK_DEADLOCK FALSE
