SPECIFICATION FairSpec
CONSTANTS
    CODEWORD_TIME_US = 1000
    PREAMBLE_LENGTH_CODEWORDS = 1
    SLOT_TIME_US = 12000
    UINT_RANGE = 1000000
    None = None
    SLOTS = 2
    Messages <- ClockAndBarred
    XTimeBodies <- XTimes
    Conf <- BlackList9
    Schedules <- FirstOrAll
    MAX_TIME_TO_HOLD_TIME_MESSAGES = 15
    StartOffsets = {0}
    SleepTimes = {6}
    OutageTimes = {0, 6}
    StepTimes = {0}
    SetOffsets = {}
    MaxQueue = 2
    MaxMissed = 1
    AIR_CAP = 0
PROPERTY Drains
PROPERTY ScheduleTakesEffect
PROPERTY Stops
INVARIANT NeverStuck
PROPERTY CycleGoesOn
PROPERTY InOrder
PROPERTY TakesInput
