SPECIFICATION SteadySpec
CONSTANTS
    CODEWORD_TIME_US = 1000
    PREAMBLE_LENGTH_CODEWORDS = 1
    SLOT_TIME_US = 12000
    UINT_RANGE = 1000000
    None = None
    SLOTS = 3
    Messages <- AlertAndDigits
    XTimeBodies <- XTimes
    Conf <- NoLists
    Schedules <- FirstTwo
    MAX_TIME_TO_HOLD_TIME_MESSAGES = 0
    StartOffsets = {0}
    SleepTimes = {1, 4}
    OutageTimes = {0, 6}
    StepTimes = {0}
    SetOffsets = {}
    MaxQueue = 2
    MaxMissed = 2
    AIR_CAP = 30
INVARIANT SpillsIntoOneSlot
PROPERTY LonePageEndsInSlot
