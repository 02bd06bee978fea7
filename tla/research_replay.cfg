SPECIFICATION ReplaySpec
CONSTANTS
    Threads = {t1}
    Runs = {r1}
    Legacy = {}
    Stores = {s1, s2}
    t1 = t1  r1 = r1  r2 = r2  s1 = s1  s2 = s2
    NoThread = NoThread
    NoRun = NoRun
    NoStore = NoStore
    MaxProgress = 2
    MaxLives = 2
    MaxWriteFaults = 1
    MaxReadFaults = 0
    MaxDirectTurns = 0
    PageSize = 2
    MaxAttach = 2
INVARIANTS ReplayComplete
CHECK_DEADLOCK FALSE
