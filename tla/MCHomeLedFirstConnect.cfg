\* A board that is left alone, and whose network never fails it once it is joined.
CONSTANTS
    MaxAttempts = 0
    AttemptsBound = 1
    MaxInFlight = 3
    MaxLookups = 1
    MiredsMin = 1
    MiredsMax = 3
    DefaultMireds = 2
    DefaultBrightness = 1
    White = "white"
    LedCount = 2
    LightCommands <- MCLight
    RangeCommands <- MCRange
    Careless = FALSE
    MaxCommands = 0
    MaxMishaps = 0
SPECIFICATION FairSpec
PROPERTIES
    NeedsNoConsole
