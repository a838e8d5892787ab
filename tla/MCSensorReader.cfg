SPECIFICATION Spec
CHECK_DEADLOCK FALSE
CONSTANTS
    a = a
    b = b
    d1 = d1
    d2 = d2
    Null = Null
    CheckerboardIDs = {a, b}
    Devices = {d1, d2}
    SensorConfigs <- MCSensorConfigs
    RawValues <- MCRawValues
    ConnectionRetries <- MCConnectionRetries
    Slots = {1}
INVARIANTS
    TypeOK
    ReadingComesFromItsSensor
