\* Two handlers activate and deactivate two accounts of one platform, against the
\* restore goroutine, where a failed start and a daemon that ends leave containers.
SPECIFICATION Spec
CONSTANTS
    h1 = h1
    h2 = h2
    a1 = a1
    a2 = a2
    r1 = r1
    k1 = k1
    k2 = k2
    k3 = k3
    Nil = Nil
    Handler = {h1, h2}
    WeChatAccount = {a1, a2}
    WeComAccount = {}
    Runtime = {r1}
    Chan = {k1, k2, k3}
    Requests = {"activate", "deactivate"}
    MaxAttempts = 1
    MaxRestarts = 1
    MaxRepairs = 1
    LeakyStart = TRUE
SYMMETRY Symmetry
VIEW LiveObjects
INVARIANTS
    TypeOK
    OneIngestLoop
    InactiveIsStopped
PROPERTIES
    OnlyRequestsMoveTheSlot
