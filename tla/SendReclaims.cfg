\* Two callers, fair goroutines: nothing is left behind, nobody waits for good.
SPECIFICATION FairSpec
CONSTANTS
    a1 = a1
    t1 = t1
    k1 = k1
    x1 = x1
    c1 = c1
    c2 = c2
    Nil = Nil
    Account = {a1}
    Txn = {t1}
    Key = {k1}
    Content = {x1}
    Caller = {c1, c2}
    MaxCrashes = 1
\* Once all accounts are removed there may be nothing left to do.
CHECK_DEADLOCK FALSE
PROPERTIES
    StagingReclaimed
    CommitsReturn
