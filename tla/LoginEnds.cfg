\* Two challenges of one account, their monitors, and image requests that apply
\* what they saw late.
SPECIFICATION FairSpec
CONSTANTS
    a1 = a1
    c1 = c1
    c2 = c2
    h1 = h1
    k1 = k1
    Nil = Nil
    Account = {a1}
    Challenge = {c1, c2}
    Handler = {h1}
    Id = {}
    ReplayKey = {k1}
    Screens <- MCScreens
    Requests = {"image"}
    TTL = 1
    Window = 1
    MinObs = 1
    Retention = 1
    MaxCodes = 1
    MaxPerAction = 1
    MaxActions = 1
PROPERTIES
    SuccessStaysVisible
    ChallengesEnd
