\* Two handlers issue every kind of request for one account.
SPECIFICATION Spec
CONSTANTS
    h1 = h1
    h2 = h2
    a1 = a1
    r1 = r1
    k1 = k1
    k2 = k2
    Nil = Nil
    Handler = {h1, h2}
    WeChatAccount = {a1}
    WeComAccount = {}
    Runtime = {r1}
    Chan = {k1, k2}
    Requests = {"activate", "deactivate", "status", "read", "remove", "add"}
    MaxAttempts = 1
    MaxRestarts = 1
    MaxRepairs = 1
    LeakyStart = TRUE
SYMMETRY Symmetry
VIEW LiveObjects
INVARIANTS
    RegistryConsistent
    PublishedIsRequested
    IngestOnlyWhileUp
    ReadersKeepTheProfile
    NoClientWithoutProfile
