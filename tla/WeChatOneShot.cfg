\* Two surfaces in two windows, two frames, two sends, two reads, two starts and
\* crashes at any time.
SPECIFICATION Spec
CONSTANTS
    s1 = s1
    s2 = s2
    w1 = w1
    w2 = w2
    f1 = f1
    f2 = f2
    m1 = m1
    m2 = m2
    k1 = k1
    k2 = k2
    Nil = Nil
    SurfaceId = {s1, s2}
    Window = {w1, w2}
    Ctx = {f1, f2}
    MachineId = {m1, m2}
    Key = {k1, k2}
    Viewport = 2
    MaxChat = 4
    MaxReads = 2
    MaxActs = 2
    MaxStarts = 2
\* A removed account is never started again.
CHECK_DEADLOCK FALSE
SYMMETRY Symmetry
INVARIANTS
    VerifiedIsNew
    StableIdentity
PROPERTIES
    CapabilitiesAreOneShot
    NoRevival
