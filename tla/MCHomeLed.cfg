\* One change of the lamp and one mishap; a request table that three subscriptions fill.
CONSTANTS
    MaxAttempts = 0
    AttemptsBound = 1
    MaxInFlight = 3
    MaxLookups = 1
    MiredsMin = 1
    MiredsMax = 3
    DefaultMireds = 2
    DefaultBrightness = 1
    White = "white"
    LedCount = 2
    LightCommands <- MCLight
    RangeCommands <- MCRange
    Careless = FALSE
    MaxCommands = 1
    MaxMishaps = 1
SPECIFICATION FairSpec
INVARIANTS
    TypeOK
    BrokerIsTold
PROPERTIES
    LampIsReported
    LampIsSaved
