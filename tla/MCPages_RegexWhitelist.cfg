SPECIFICATION Spec
CONSTANTS
    CODEWORD_TIME_US = 26667
    PREAMBLE_LENGTH_CODEWORDS = 18
    SLOT_TIME_US = 6400000
    UINT_RANGE = 2147483647
    TICK = 50
    MAX_KEY = 2
PROPERTY RegexWhitelistOnlyAdds
CHECK_DEADLOCK FALSE
