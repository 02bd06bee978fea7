SPECIFICATION FairSpec
CONSTANTS
    p1 = p1
    p2 = p2
    c1 = c1
    c2 = c2
    a1 = a1
    Processes = {p1, p2}
    Callers = {c1, c2}
    Host <- MCHost
    Accounts = {a1}
    MaxRuns = 2
    MaxEdits = 1
    MaxFaults = 2
    MaxCrashes = 1
    None = None
INVARIANTS LocksOwned LiveRunIsRunning StrandedByFailure
PROPERTIES CaptureNeverOlder ReviewNeverOlder LocksReleased
CHECK_DEADLOCK FALSE
