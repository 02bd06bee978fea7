SPECIFICATION Spec
CONSTANTS
    Threads = {t1}
    Runs = {r1, r2}
    Legacy = {r1}
    Stores = {s1, s2}
    t1 = t1  t2 = t2  r1 = r1  r2 = r2  s1 = s1  s2 = s2
    NoThread = NoThread
    NoRun = NoRun
    NoStore = NoStore
    MaxProgress = 0
    MaxLives = 1
    MaxWriteFaults = 0
    MaxReadFaults = 1
    MaxDirectTurns = 1
INVARIANTS AtomicPublication SuccessIsAnswered ContextSettled NoOrphanTurns
PROPERTIES LedgerSpec
CHECK_DEADLOCK FALSE
