SPECIFICATION Spec
CONSTANTS
    alice = alice
    bob = bob
    s1 = s1
    s2 = s2
    s3 = s3
    w1 = w1
    w2 = w2
    Sig = {s1}
    Key = {alice, bob}
    Worker = {w1, w2}
    DaySeconds = 2
    MinTtl = 1
    MaxTtl = 4
    MaxTime = 6
    MaxRequests = 3
    QuotaMessages = 2
    QuotaBytes = 4
    Addr <- OneAddr
    Created <- OneCreated
    Expires <- OneExpires
    Size <- OneSize
    Compact = {}
    Payload <- Genuines
    Request <- ByOwners
    Pulled = {}
INVARIANTS
    PurgedOnArrival
