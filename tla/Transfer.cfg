SPECIFICATION FairSpec
CONSTANTS
    Header = 2
    Capacity = 3
    Size <- MCSize
    Lengths <- MCLengths
INVARIANTS TypeOK InOrder
PROPERTIES ReturnedIsTaken CallsReturn
CHECK_DEADLOCK FALSE
