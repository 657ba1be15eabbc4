\* Stops that time out or fail, and a removal that is repeated, over restores that
\* fail and leave a container and a daemon that ends anywhere and starts again.
SPECIFICATION FairSpec
CONSTANTS
    h1 = h1
    a1 = a1
    r1 = r1
    k1 = k1
    k2 = k2
    Nil = Nil
    Handler = {h1}
    WeChatAccount = {a1}
    WeComAccount = {}
    Runtime = {r1}
    Chan = {k1, k2}
    Requests = {"deactivate", "read", "remove"}
    MaxAttempts = 1
    MaxRestarts = 1
    MaxRepairs = 1
    LeakyStart = TRUE
PROPERTIES
    IngestAlwaysResumes
    RequestsReturn
    RemovalResumes
