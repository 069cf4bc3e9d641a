CONSTANTS
    Commands = {c1, c2}
    Names = {n1, n2}
    Addresses = {a1, a2}
    Nobody = Nobody
    BindAlone = TRUE
    MaxCommands = 3
    MaxFaults = 1
    Teammates = {p, q}
    Signatures = {g1, g2}
    RetryAfter = {"notsent", "failed", "refused", "timeout"}
    MaxTries = 1
    o1 = o1
    o2 = o2
    o3 = o3
    o4 = o4
    k1 = k1
    k2 = k2
    Objects = {o1, o2, o3, o4}
    Tasks = {k1, k2}
    Carries <- MCCarries
    Garbage = Garbage
    Position <- MCPosition
    PageSize = 2
    MaxObjects = 3
    MaxSeen = 2
    MaxRows = 1
    MaxTroubles = 4
    r1 = r1
    r2 = r2
    r3 = r3
    h1 = h1
    h2 = h2
    h3 = h3
    d1 = d1
    RevokeClaims = {r1, r2, r3}
    ForeignClaims = {f1}
    Handles <- MCHandles
    RevocationId <- MCRevocationId
    Issuer <- MCIssuer
    IssuerSeq <- MCIssuerSeq
    Quota = 1
    MaxQuota = 3
    MaxJournals = 3
    Alice = Alice
    Bob = Bob
    NoKey = NoKey
    MaxSkip = 2
    MaxRetained = 2
    MaxSent <- MCMaxSent
    MaxKeys = 3
    MaxRestarts = 1
    FirstSender = A
    FirstReceiver = B
    HdrChunks = 2
    Ct2Chunks = 2
    MaxChain = 1
    MaxReplays = 6
    MaxEpoch = 4
    MaxBraidCrashes = 2
    Owners = {1, 2}
    TaskIds = {1, 2}
    SavedStates = {"WORKING", "COMPLETED", "REJECTED"}
    Sizes = {1, 3, 5}
    MaxCount = 2
    MaxBytes = 4
    Ttl = 2
    MaxClock = 2
    cA = cA
    cB = cB
    Clones = {cA, cB}
    Agents = {1, 2, 3}
    CloneOf <- MCCloneOf
    Calls <- MCCalls
    Ids = {1}
    Lockable = {k}
    Published <- MCPublished
    Behind = {cA}
    Ahead <- MCAhead
    FutureSkew = 1
    MaxWriters = 3
    MaxEntries = 6
    MaxFiles = 2
    MaxCalls = 3
    MaxNow = 1
    x = x
    y = y
    u = u
    v = v
    s1 = s1
    s2 = s2
    Devices = {x, y}
    PairAhead <- MCPairAhead
    OneTimeIds = {1}
    Lifetimes = {2}
    MaxPairClock = 2
    MaxInits = 2
    MaxMishaps = 1
    SealCalls = {u, v}
    Transport <- MCTransport
    IpcTimeout = 1
    PipeAttempts = 2
    MaxNuisances = 1
    Sessions = {s1, s2}
    MaxAnchorSeq <- MCMaxAnchorSeq
    MaxCopies = 1
    MaxVaultFaults = 1
    LogDirs = {1, 2}
    Strays = {}
    EventNames = {1, 2}
    OtherNames = {3}
    LogDir <- MCLogDir
    FirstNames = {1, 3}
    Limits = {2}
    EventPieces = 2
    MaxScanDirs = 2
    MaxScanEntries = 4
    MaxDirEntries = 1
    MaxScanFiles = 2
    MaxFileSize = 2
    MaxScanSize = 5
    MaxEdits = 2
INIT PeersInit
NEXT PeersNext
CHECK_DEADLOCK FALSE
PROPERTIES ActiveKept EvictionMinimal RevocationSound
INVARIANTS PeersTypeOK CountBounded BytesBounded BoardSound EventsSound SealSound PairingSound AnchorSound NoHiddenPeer EndpointsVerified DeliveredAsTold MeshSound RatchetSound BraidSound
