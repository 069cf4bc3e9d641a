CONSTANTS
    Commands = {c1, c2}
    Names = {n1, n2}
    Addresses = {a1, a2}
    Nobody = Nobody
    BindAlone = FALSE
    MaxCommands = 3
    MaxFaults = 0
SPECIFICATION TrustSpec
CHECK_DEADLOCK FALSE
INVARIANTS NoHiddenPeer
