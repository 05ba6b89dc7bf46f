SPECIFICATION Spec
CONSTANTS
    CODEWORD_TIME_US = 1000
    PREAMBLE_LENGTH_CODEWORDS = 1
    SLOT_TIME_US = 12000
    UINT_RANGE = 1000000
    None = None
    SLOTS = 3
    Messages <- AlertAndDigits
    XTimeBodies <- XTimes
    Conf <- NoLists
    Schedules <- TwoOrAll
    MAX_TIME_TO_HOLD_TIME_MESSAGES = 0
    StartOffsets = {0, 11}
    SleepTimes = {5}
    OutageTimes = {0, 6}
    StepTimes = {0, 1}
    SetOffsets = {3}
    MaxQueue = 1
    MaxMissed = 2
    AIR_CAP = 0
INVARIANT TypeOK
INVARIANT SlotBudget
INVARIANT SlotTimerHonest
PROPERTY OnlyInScheduledSlot
