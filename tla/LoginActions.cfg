\* One challenge and two concurrent requests of every kind.  The clocks are as
\* short as they can be: ONLINE completes at once, the first tick expires.
SPECIFICATION Spec
CONSTANTS
    a1 = a1
    c1 = c1
    h1 = h1
    h2 = h2
    i1 = i1
    i2 = i2
    k1 = k1
    Nil = Nil
    Account = {a1}
    Challenge = {c1}
    Handler = {h1, h2}
    Id = {i1, i2}
    ReplayKey = {k1}
    Screens <- MCScreens
    Requests = {"page", "state", "image", "code", "action"}
    TTL = 0
    Window = 0
    MinObs = 1
    Retention = 0
    MaxCodes = 2
    MaxPerAction = 2
    MaxActions = 2
SYMMETRY Symmetry
VIEW Undelivered
INVARIANTS
    TypeOK
    NoReplay
    CodeOnce
PROPERTIES
    OnlineIsFinal
    OffersAreFresh
