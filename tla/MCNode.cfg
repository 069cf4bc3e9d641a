CONSTANTS
    r1 = r1
    r2 = r2
    r3 = r3
    Requests = {r1, r2, r3}
    Genuine = {s}
    HttpExpires <- MCHttpExpires
    Unsigned = Unsigned
    Forged = Forged
    MaxConcurrent = 2
    MaxBody = 1
    RequireAuth = FALSE
    MaxWall = 1
    alice = alice
    bob = bob
    carol = carol
    t1 = t1
    t2 = t2
    mid = mid
    m1 = m1
    m2 = m2
    m3 = m3
    x1 = x1
    Messages = {m1, m2, m3}
    Cancels = {x1}
    By <- MCBy
    About <- MCAbout
    MessageId <- MCMessageId
    Authentic = {m1, m2, m3}
    Earlier = {carol}
    Doubted = {alice}
    MaxOwners = 2
    MaxSteps = 1
    MaxArrivals = 2
SPECIFICATION NodeSpec
CHECK_DEADLOCK FALSE
INVARIANTS NodeTypeOK ResourcesBounded AdmittedAsVerified NoTrace
PROPERTIES CancelScoped EveryTaskEnds EveryRequestDecided
