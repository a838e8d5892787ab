SPECIFICATION Spec
CONSTANTS
    s1 = s1
    s2 = s2
    led = led
    Garbage = Garbage
    Null = Null
    IntHalf <- MCIntHalf
    Sensors = {s1, s2}
    Readings <- MCReadings
    ReadingLow <- MCReadingLow
    ReadingHigh = 1
    HistorySizes <- MCHistorySizes
    Topics = {led}
    Commands = {"0", "1"}
    Configs <- MCConfigs
    GrowthSizes = {2}
    Rounds = {1}
INVARIANTS
    TypeOK
    HistoryEndsWithCurrent
    AverageIsMeanOfHistory
    AverageInReadingRange
    TriggerNeedsReports
