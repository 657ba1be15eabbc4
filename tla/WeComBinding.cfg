\* A directory of the account, one of unknown origin and one to create.
SPECIFICATION Spec
CONSTANTS
    Inode = {legacy, other, fresh}
    Legacy = legacy
    Other = other
    Nil = Nil
    MaxProfiles = 3
    MaxEpochs = 3
    MaxApprovals = 2
    MaxFaults = 3
    MaxCrashes = 2
INVARIANTS
    OnlyVouchedData
    CrashesAreRecovered
PROPERTIES
    ApprovalsAreOneShot
    BindingIsStable
CHECK_DEADLOCK FALSE
