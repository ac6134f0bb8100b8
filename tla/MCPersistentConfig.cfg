CONSTANTS
    Configs = {"blank", "short", "long", "huge"}
    EmptyConfig = "blank"
    None = "none"
    PagesOf <- MCPagesOf
    SlotPages = 2
    BufferPages = {1, 3}
    HalfRange = 2
SPECIFICATION Spec
INVARIANTS
    TypeOK
    PowerCycleKeepsConfig
    CurrentSlotSurvives
