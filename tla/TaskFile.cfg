\* Two threads, deletions and a crash at any point, buffers of one record.
SPECIFICATION Spec
CONSTANTS
    Tasks <- Task1To4
    UserTasks <- AllBut2
    Infos = {INITIAL, PENDING}
    Threads = {transfer, control}
    Deletes = TRUE
    Capacity = 1
    MaxCrashes = 2
    Nil = Nil
SYMMETRY Symmetry
INVARIANTS TypeOK ListOnDisk OnlyTheEndIsLost NewestFirst
