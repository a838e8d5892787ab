SPECIFICATION FairSpec
CHECK_DEADLOCK FALSE
CONSTANTS
    a = a
    b = b
    d1 = d1
    d2 = d2
    Null = Null
    CheckerboardIDs = {a}
    Devices = {d1, d2}
    SensorConfigs <- LiveConfigs
    RawValues <- LiveRawValues
    ConnectionRetries <- PositiveRetries
    Slots = {1, 2}
PROPERTIES
    RoundEnds
    RemovedSensorFallsSilent
    SettledReadingIsPublished
