SPECIFICATION MCSpec
CONSTANTS
    hci = hci
    device = device
    service = service
    otherService = otherService
    characteristic = characteristic
    descriptor = descriptor
    u1 = u1
    u2 = u2
    Objects <- MCObjects
    TypeOf <- MCTypeOf
    ParentOf <- MCParentOf
    Identifiers = {u1, u2}
    IdentifierOf <- MCIdentifierOf
    Durations <- MCDurations
    NanosPerMilli = 2
    Plain = {p1, p2}
    Wide = {w}
    WithNul = {z}
    Garbled = garbled
    Adapters = {a1, a2}
    ByteHalf = 1
    ShortHalf = 2
    IntHalf = 4
    LongHalf = 9
    Longest = 2
    Null = Null
    Refused = Refused
    Nothing = Nothing
    NoValue = NoValue
INVARIANTS
    TypeOK
    FoundIsWhatWasAsked
    HandleFitsNative
    ReturnedCallsCleanUp
    PropertiesTypeOK
    SettingSurvives
    GottenTellsStored
PROPERTIES
    DescriptorFindIsBlind
    FindEnds
