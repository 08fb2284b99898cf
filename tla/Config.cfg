\* The protect process: one thread, four edits, the second of which is broken.
SPECIFICATION FairSpec
CONSTANTS
    t1 = t1
    t2 = t2
    Threads = {t1}
    Starter = t1
    MaxVersion = 4
    Broken = {2}
INVARIANTS TypeOK Current
PROPERTIES Returns
CHECK_DEADLOCK FALSE
