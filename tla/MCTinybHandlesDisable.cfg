SPECIFICATION Spec
CHECK_DEADLOCK FALSE
CONSTANTS
    h1 = h1
    h2 = h2
    h3 = h3
    Handles = {h1}
    Addresses = {1}
    Kinds <- DataKinds
    Plain = Plain
    Nothing = Nothing
PROPERTY DisableUnregisters
