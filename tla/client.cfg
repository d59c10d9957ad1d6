SPECIFICATION Spec
CONSTANTS
    t1 = t1
    t2 = t2
    k1 = k1
    k2 = k2
    s1 = s1
    s2 = s2
    Term = {t1, t2}
    Key = {k1, k2}
    Msg = {s1, s2}
    Foreign = {s2}
    Length <- EdgeLength
    PadBuckets <- RealBuckets
SYMMETRY Terminals
INVARIANTS
    AnnouncedKept
    ReportsTrue
    PaddingSound
PROPERTIES
    FetchDeletesTheRead
