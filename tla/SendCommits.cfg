\* Two callers commit two transactions with two keys and two contents, with
\* failures at every step and one crash.
SPECIFICATION Spec
CONSTANTS
    a1 = a1
    t1 = t1
    t2 = t2
    k1 = k1
    k2 = k2
    x1 = x1
    x2 = x2
    c1 = c1
    c2 = c2
    Nil = Nil
    Account = {a1}
    Txn = {t1, t2}
    Key = {k1, k2}
    Content = {x1, x2}
    Caller = {c1, c2}
    MaxCrashes = 1
SYMMETRY Symmetry
VIEW Outcomes
\* Once all accounts are removed there may be nothing left to do.
CHECK_DEADLOCK FALSE
INVARIANTS
    StagedUntilSent
    NoUnrecordedSend
    CallersAgree
PROPERTIES
    AnswersAreTrue
    SendsOnce
