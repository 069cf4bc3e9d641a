CONSTANTS
    alice = alice
    bob = bob
    ask = ask
    serve = serve
    alice2 = alice2
    bob2 = bob2
    Nodes = {alice, bob}
    Procs = {ask, serve}
    Home <- MCHome
    Sender = alice
    Receiver = bob
    Cli = ask
    Worker = serve
    Tasks = {t1}
    NoTask = NoTask
    Genuine = {t1}
    Paths <- MCPaths
    Contents <- MCContents
    Absent = Absent
    Ttl = 1
    MaxOutcomes = 1
    MaxClock = 2
    MaxHistory = 2
    MaxFaults = 1
SPECIFICATION FairRelaySpec
PROPERTIES QueuedIsAnswered
