\* A WeCom account: a removal that failed after its directories were deleted
\* can never be completed.
SPECIFICATION FairSpec
CONSTANTS
    h1 = h1
    b1 = b1
    r1 = r1
    k1 = k1
    k2 = k2
    Nil = Nil
    Handler = {h1}
    WeChatAccount = {}
    WeComAccount = {b1}
    Runtime = {r1}
    Chan = {k1, k2}
    Requests = {"deactivate", "remove"}
    MaxAttempts = 1
    MaxRestarts = 0
    MaxRepairs = 1
    LeakyStart = FALSE
PROPERTIES
    RemovalCompletes
