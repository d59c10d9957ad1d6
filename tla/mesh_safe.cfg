SPECIFICATION Spec
CONSTANTS
    alice = alice
    bob = bob
    s1 = s1
    s2 = s2
    n1 = n1
    n2 = n2
    n3 = n3
    w = w
    Sig = {s1, s2}
    Key = {alice, bob}
    Node = {n1, n2}
    Worker = {w}
    Peers <- Pair
    Entry = {n1}
    Addr <- ToAlice
    Size <- UnitSize
    Request <- Contested
    DaySeconds = 1
    MaxTtl = 1
    QuotaMessages = 5
    QuotaBytes = 5
    PageLimit = 2
    BodyCap = 5
    TombSize = 1
    Volatile = {}
    MaxRequests = 4
    MaxPushes = 1
    MaxFaults = 1
PROPERTIES
    ImplementsMailbox
INVARIANTS
    MessageCursorSound
    DeletionCursorSound
    NothingMissed
    NoResurrection
    AuthorizedTombstones
