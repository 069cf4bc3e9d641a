CONSTANTS
    cA = cA
    cB = cB
    Clones = {cA, cB}
    Agents = {1, 2, 3}
    CloneOf <- MCCloneOf
    Calls <- MCCalls
    Ids = {1, 2}
    Lockable = {k}
    Published <- MCPublished
    Behind = {cA}
    Ahead <- MCAhead
    FutureSkew = 1
    MaxWriters = 3
    MaxEntries = 2
    MaxFiles = 2
    MaxCalls = 3
    MaxNow = 1
INIT BoardInit
NEXT BoardNext
CHECK_DEADLOCK FALSE
INVARIANTS ReadsAreWhole
