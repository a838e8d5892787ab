SPECIFICATION FairSpec
CHECK_DEADLOCK FALSE
CONSTANTS
    d1 = d1
    Null = Null
    LedTopic <- T1
    LedDevice = d1
    Payloads <- MCPayloads
    Order <- MCOrder
    Devices = {d1}
    ActorConfigs <- MCActorConfigs
    GrowthSizes = {1, 2}
    Slots = {1, 2}
INVARIANTS
    TypeOK
PROPERTIES
    ShortTopicSilencesTheRest
    LedShowsStableValue
    ImplementsLatestValue
