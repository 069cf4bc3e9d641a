CONSTANTS
    alice = alice
    bob = bob
    s1 = s1
    s2 = s2
    s3 = s3
    Threads = {t1, t2}
    Peers = {alice, bob}
    Sigs = {s1, s2, s3}
    Sender <- MC3Sender
    Issued <- MC3Issued
    Expires <- MC3Expires
    Intact <- MC3Intact
    RequireSigned = TRUE
    MaxSkew = 0
    MaxLifetime = 2
    MaxEntries = 1
    NoSig = NoSig
    NoPeer = NoPeer
    MaxClock = 2
    MaxRuns = 0
SPECIFICATION Spec
INVARIANTS TypeOK OnceWhileValid CacheBounded AcceptedWasAllowed
PROPERTIES RecordedOnlyByAcceptance
