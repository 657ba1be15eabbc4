\* Two conversations, a journal of two notifications and pages of one.
SPECIFICATION FairSpec
CONSTANTS
    Conv = {a, b}
    UiChange = UiChange
    Capacity = 2
    PageLimit = 1
    ListLimit = 1
    ReadLimit = 1
    MaxSequence = 4
    MaxCrashes = 1
INVARIANTS
    NoSilentGap
PROPERTY Collected
