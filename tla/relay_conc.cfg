SPECIFICATION Spec
CONSTANTS
    alice = alice
    bob = bob
    s1 = s1
    s2 = s2
    s3 = s3
    w1 = w1
    w2 = w2
    Sig = {s1, s2, s3}
    Key = {alice, bob}
    Worker = {w1, w2}
    DaySeconds = 2
    MinTtl = 1
    MaxTtl = 4
    MaxTime = 4
    MaxRequests = 4
    QuotaMessages = 2
    QuotaBytes = 2
    Addr <- ThreeAddr
    Created <- ThreeCreated
    Expires <- ThreeExpires
    Size <- ThreeSize
    Compact = {}
    Payload <- Tampered
    Request <- Contested
    Pulled = {s1}
SYMMETRY Threads
INVARIANTS
    TypeOK
    AuthorizedTombstones
    FloodBounded
    QuotaCountBound
    QuotaBytesOvershoot
PROPERTIES
    ConfirmedAheadOfCursors
