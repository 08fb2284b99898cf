SPECIFICATION Spec
CONSTANTS
    CacheSize = 7
    ExtLen = 32
    Texts <- MCTexts
    Files <- MCFiles
    Numbers <- MCNumbers
    Lines <- MCLines
INVARIANTS TypeOK Inside RoundTrip
CHECK_DEADLOCK FALSE
