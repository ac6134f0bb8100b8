SPECIFICATION BenchSpec
CONSTANTS
    \* servo bus
    Servos = {1}
    Ids = {1, 2}
    Rates = {1, 2}
    DefaultRate = 1
    DefaultId = 1
    Retries = 1
    \* line editor
    Printable = {"a", ":"}
    RawPrefix = ":"
    LineSize = 4
    EntrySize = 3
    Depth = 2
    \* distance sensor
    Addresses = {1, 2}
    Budgets = {20, 33}
    MinBudget = 20
    Overhead = 5
    PreMclks = 5
    ShortPeriods <- MCShort
    LongPeriods <- MCLong
    MaxTofFaults = 1
    \* JSON
    Characters <- MCCharacters
    JsonKeys <- MCKeys
    JsonStrings <- MCStrings
    MaxJsonDepth = 2
    BufferSize = 20
    MaxWrites = 4
    \* LED strip
    Length = 4
    FifoDepth = 2
    ResetTicks = 3
    Pictures = 3
    \* PIO block
    Strips = {s1, s2, s3}
    Uarts = {u1, u2}
    Cans = {c1}
    StateMachines = 4
    Words = 32
    SizeOf <- MCSizes
    DmaChannels = 2
    \* PWM slice
    Outputs = {0, 1}
    Periods = {2, 3}
    DutyMax = 2
    \* MQTT messages
    Topics = {"t", "u"}
    MaxMessage = 2
    MaxPayload = 3
    MaxPublishes = 3
    \* UDP socket
    Pcbs = {1, 2}
    MaxDatagrams = 2
    \* Bluetooth console
    OutCapacity = 2
    InCapacity = 2
    Mtus = {1, 3}
    MaxWrite = 3
    MaxBytes = 4
    MaxConnections = 2
    \* fades
    Wrap = 12
    FadeTime = 3
    MaxLag = 2
    EaseOne = 9
    LightLevels = {0, 4, 9}
    Fades = {"brightness"}
    \* configuration records
    StoreKeys <- MCStoreKeys
    StoreValues <- MCStoreValues
    StoreCapacity = 13
    MaxKeyLength = 2
    Narrow = 4
    \* log
    Levels = {1, 2, 3}
    LevelNone = 3
    MaxSinks = 2
    LineLength = 5
    MemoryRoom = 7
    LineSizes = {1, 2, 6}
    MaxLines = 3
    \* codecs
    MaxParams = 12
    Word = 256
    Product = 1073741824
    StandardBits = 11
    ExtendedBits = 29
    MinDiv = 4
    MaxDiv = 30
    MaxCounts = 60
    Fraction = 16
    LastInput = 4095
    SectorSize = 8
    PageSize = 2
INVARIANTS
    ServoCallsHold
    ScreenShowsTheLine
    SensorAgrees
    WhatIsWrittenIsRead
    HardwareIsShared
    LightIsShown
    DeliveriesAreAccounted
    CodecsAgree
\* A bounded number of messages, bytes, JSON calls and inputs comes to its end.
CHECK_DEADLOCK FALSE
