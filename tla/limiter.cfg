SPECIFICATION Spec
CONSTANTS
    c1 = c1
    c2 = c2
    i1 = i1
    i2 = i2
    i3 = i3
    Identity = {i1, i2, i3}
    Caller = {c1, c2}
    Unit = 2
    GlobalCap = 4
    GlobalRate = 1
    IdentityCap = 2
    IdentityRate = 1
    MaxIdentities = 2
    MaxTime = 4
    MaxRequests = 5
SYMMETRY Symmetry
INVARIANTS
    GlobalBackstop
    NoDrain
    IdentityBudget
    PoolIsRecent
    SustainedRate
