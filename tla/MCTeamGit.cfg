CONSTANTS
    a = a
    b = b
    a1 = a1
    a2 = a2
    b1 = b1
    f = f
    g = g
    x = x
    Nodes = {a, b}
    Procs = {a1, a2, b1}
    Home <- MCHome
    Paths = {f, g}
    Contents = {x}
    Absent = Absent
    MaxHistory = 1
    MaxFaults = 2
SPECIFICATION FairSpec
INVARIANTS GitTypeOK
PROPERTIES ImplementsSharedHistory WritesSurvivePulls Settles
