SPECIFICATION PwmSpec
CONSTANTS
    Outputs = {0, 17}
    Periods = {2}
    DutyMax = 2
INVARIANTS DeinitSparesTheSlice
