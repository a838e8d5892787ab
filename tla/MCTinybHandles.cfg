SPECIFICATION FairSpec
CHECK_DEADLOCK FALSE
CONSTANTS
    h1 = h1
    h2 = h2
    h3 = h3
    Handles = {h1, h2, h3}
    Addresses = {1, 2, 3}
    Kinds <- OneKind
    Plain = Plain
    Nothing = Nothing
INVARIANTS
    TypeOK
    HandlesOwnTheirNatives
PROPERTIES
    OwnedUntilFreed
    DroppedHandleIsFreed
