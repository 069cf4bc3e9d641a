CONSTANTS
    alice = alice
    bob = bob
    ask = ask
    serve = serve
    alice2 = alice2
    bob2 = bob2
    Nodes = {alice, bob}
    Procs = {ask, serve, bob2}
    Home <- MCHome
    Sender = alice
    Receiver = bob
    Cli = ask
    Worker = serve
    Tasks = {t1, t2}
    NoTask = NoTask
    Genuine = {t1, t2}
    Paths <- MCPaths
    Contents <- MCContents
    Absent = Absent
    Ttl = 1
    MaxOutcomes = 1
    MaxClock = 0
    MaxHistory = 2
    MaxFaults = 0
SPECIFICATION RelaySpec
INVARIANTS NothingVanishes
