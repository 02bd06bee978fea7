SPECIFICATION FairSpec
CONSTANTS
    Threads = {t1}
    Runs = {r1, r2}
    Legacy = {}
    Stores = {s1}
    t1 = t1  t2 = t2  r1 = r1  r2 = r2  s1 = s1  s2 = s2
    NoThread = NoThread
    NoRun = NoRun
    NoStore = NoStore
    MaxProgress = 1
    MaxLives = 2
    MaxWriteFaults = 2
    MaxReadFaults = 1
    MaxDirectTurns = 0
INVARIANTS OneActiveRun ActiveThreadIsCurrent TranscriptPaired
PROPERTIES TerminalIsFinal ClaimedRunsFinish
CHECK_DEADLOCK FALSE
