SPECIFICATION Spec
CONSTANTS
    p1 = p1
    p2 = p2
    p3 = p3
    a1 = a1
    a2 = a2
    b = b
    dir = dir
    i1 = i1
    i2 = i2
    i3 = i3
    Proc = {p1, p2}
    Path = {a1, b}
    Dir = {dir}
    Identity = {i1, i2, i3}
    SocketPath <- SocketOf
    GossipPath <- SharedGossip
    IdentityDir <- SharedDir
INVARIANTS
    ServingReachable
