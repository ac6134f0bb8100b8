\* `connect` typed at any moment, a session there or not.
CONSTANTS
    MaxAttempts = 0
    AttemptsBound = 1
    MaxInFlight = 3
    MaxLookups = 1
    MiredsMin = 1
    MiredsMax = 3
    DefaultMireds = 2
    DefaultBrightness = 1
    White = "white"
    LedCount = 2
    LightCommands <- MCLight
    RangeCommands <- MCRange
    Careless = TRUE
    MaxCommands = 0
    MaxMishaps = 1
SPECIFICATION FairSpec
PROPERTIES
    LiveSessionIsUsed
