SPECIFICATION Spec
CONSTANTS
    alice = alice
    bob = bob
    s1 = s1
    s2 = s2
    s3 = s3
    w1 = w1
    w2 = w2
    Sig = {s1, s2}
    Key = {alice, bob}
    Worker = {w1, w2}
    DaySeconds = 2
    MinTtl = 1
    MaxTtl = 4
    MaxTime = 5
    MaxRequests = 3
    QuotaMessages = 2
    QuotaBytes = 4
    Addr <- TwoAddr
    Created <- TwoCreated
    Expires <- TwoExpires
    Size <- TwoSize
    Compact = {}
    Payload <- Genuines
    Request <- Contested
    Pulled = {s1}
INVARIANTS
    FetchExact
    OwnerDeleteHonoured
PROPERTIES
    ImplementsMailbox
    TombstoneKept
    ExpiredSwept
