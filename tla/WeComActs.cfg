\* Two conversations, one key, one surface, two login pages, chats that show up to
\* two bubbles of the text, a restart and a request that arrives late.
SPECIFICATION Spec
CONSTANTS
    Conv = {a, b}
    Key = {k1}
    Control = {"publish", "next"}
    AuthPages = {"terms", "method"}
    Nil = Nil
    MaxOps = 3
    MaxChanges = 1
    MaxSequence = 5
    MaxSurfaces = 1
    MaxRestarts = 1
    MaxBubbles = 2
    MaxLate = 1
INVARIANTS
    VerifiedIsSent
PROPERTIES
    CapabilitiesAreOneShot
    ActsOnWhatWasShown
    SendsHitTheirTarget
CHECK_DEADLOCK FALSE
SYMMETRY Symmetry
