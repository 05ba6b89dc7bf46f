SPECIFICATION SteadySpec
CONSTANTS
    CODEWORD_TIME_US = 1000
    PREAMBLE_LENGTH_CODEWORDS = 1
    SLOT_TIME_US = 12000
    UINT_RANGE = 1000000
    None = None
    SLOTS = 3
    Messages <- OneAlert
    XTimeBodies <- XTimes
    Conf <- NoLists
    Schedules <- FirstTwo
    MAX_TIME_TO_HOLD_TIME_MESSAGES = 0
    StartOffsets = {0}
    SleepTimes = {1}
    OutageTimes = {0}
    StepTimes = {0}
    SetOffsets = {}
    MaxQueue = 2
    MaxMissed = 1
    AIR_CAP = 30
PROPERTY EndsInSlot
