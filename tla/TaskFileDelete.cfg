\* Refuted: a task deleted behind the head stays in the file.
SPECIFICATION Spec
CONSTANTS
    Tasks <- Task1To3
    UserTasks <- AllBut2
    Infos = {INITIAL, PENDING}
    Threads = {transfer}
    Deletes = TRUE
    Capacity = 1
    MaxCrashes = 0
    Nil = Nil
INVARIANTS Synced
