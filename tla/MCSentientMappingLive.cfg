SPECIFICATION FairSpec
CONSTANTS
    s1 = s1
    s2 = s2
    led = led
    Garbage = Garbage
    Null = Null
    IntHalf <- MCIntHalf
    Sensors = {s1}
    Readings <- MCReadings
    ReadingLow <- MCReadingLow
    ReadingHigh = 1
    HistorySizes <- LiveHistorySizes
    Topics = {led}
    Commands = {"0", "1"}
    Configs <- LiveConfigs
    GrowthSizes = {1}
    Rounds = {1, 2}
PROPERTIES
    GarbageIsFatal
    StableDemandWins
