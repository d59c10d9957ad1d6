SPECIFICATION Spec
CONSTANTS
    p = p
    q = q
    c1 = c1
    c2 = c2
    c3 = c3
    w1 = w1
    Stranger = Stranger
    Peer = {p, q}
    Caller = {p, Stranger}
    Conn = {c1, c2}
    Slots = 1
    Worker = {w1}
    MaxQueue = 3
PROPERTIES
    PullsGoOn
