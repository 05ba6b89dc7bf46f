------------------------------ MODULE Airtime ------------------------------
(***************************************************************************)
(* The arithmetic of DAPNETGateway.cpp: how long a page is in POCSAG       *)
(* codewords, how long those codewords take on the air, and how much of a  *)
(* transmission slot is left.  Every operator is a pure function; the      *)
(* gateway module applies them to its state.                               *)
(*                                                                         *)
(* The timing constants are parameters so that a model can run with a slot *)
(* of a dozen codewords.  RealTiming gives the values of the program.      *)
(***************************************************************************)
EXTENDS Integers

CONSTANTS
    CODEWORD_TIME_US,           \* time of one codeword on the air, microseconds
    PREAMBLE_LENGTH_CODEWORDS,  \* codewords sent before every page
    SLOT_TIME_US,               \* length of a slot, microseconds
    UINT_RANGE                  \* number of values of an unsigned int (2^32)

ASSUME TimingAssumption ==
    /\ CODEWORD_TIME_US \in Nat \ {0}
    /\ PREAMBLE_LENGTH_CODEWORDS \in Nat
    /\ SLOT_TIME_US \in Nat
    /\ UINT_RANGE \in Nat \ {0}
    /\ SLOT_TIME_US \div 1000 < UINT_RANGE

FUNCTIONAL_NUMERIC      == 0
FUNCTIONAL_ALERT1       == 1
FUNCTIONAL_ALERT2       == 2
FUNCTIONAL_ALPHANUMERIC == 3

SLOT_TIME_MS       == SLOT_TIME_US \div 1000
CODEWORDS_PER_SLOT == SLOT_TIME_US \div CODEWORD_TIME_US
PREAMBLE_TIME_US   == CODEWORD_TIME_US * PREAMBLE_LENGTH_CODEWORDS

(* The values of the program: 26667 us per codeword, a preamble of one     *)
(* batch and a word, slots of 6.4 s.                                       *)
RealTiming ==
    /\ CODEWORD_TIME_US = 26667
    /\ PREAMBLE_LENGTH_CODEWORDS = 18
    /\ SLOT_TIME_US = 6400000

(* The longest text parseMessage can hand over: BUFFER_LENGTH bytes are    *)
(* read, the text starts after "#", the number, a space and four fields of *)
(* at least one character with their separators.                           *)
BUFFER_LENGTH == 200
MAX_LENGTH    == BUFFER_LENGTH - 12

-----------------------------------------------------------------------------

(* Mutant of PackedWords: five characters to a word for every packing. *)
PackedWords_FivePerWord(functional, length) ==
    CASE functional = FUNCTIONAL_NUMERIC -> length \div 5
      [] functional \in {FUNCTIONAL_ALPHANUMERIC, FUNCTIONAL_ALERT2} ->
            (length * 7) \div 5
      [] OTHER -> 0

(* Message words by the packing of the functional code, in integer         *)
(* division as the code computes it.                                       *)
PackedWords(functional, length) ==
    CASE functional = FUNCTIONAL_NUMERIC -> length \div 5
      [] functional \in {FUNCTIONAL_ALPHANUMERIC, FUNCTIONAL_ALERT2} ->
            (length * 7) \div 20
      [] OTHER -> 0

(* With the address word, and rounded up to an even number. *)
EvenWords(functional, length) ==
    LET len == PackedWords(functional, length) + 1
    IN  len + (len % 2)

(* Mutant of calculateCodewords: one sync word for every sixteen words, as *)
(* they are sent, without rounding again.                                  *)
calculateCodewords_SyncPerBatch(functional, length) ==
    LET len == EvenWords(functional, length)
    IN  len + len \div 16

calculateCodewords(functional, length) ==
    LET len == EvenWords(functional, length)
    IN  len + (len % 16)

(* Mutant of sendTime: the preamble counted once more. *)
sendTime_PreambleTwice(codewords) ==
    (2 * PREAMBLE_TIME_US + codewords * CODEWORD_TIME_US) \div 1000

(* Milliseconds a page of that many codewords occupies the transmitter. *)
sendTime(codewords) ==
    (PREAMBLE_TIME_US + codewords * CODEWORD_TIME_US) \div 1000

(* SLOT_TIME_MS - elapsed() in unsigned arithmetic: it wraps when the slot *)
(* timer has run for longer than a slot.                                   *)
timeLeft(elapsed) == (SLOT_TIME_MS - elapsed) % UINT_RANGE

(* The codewords a slot has already used up when the host becomes free. *)
elapsedCodewords(elapsed) ==
    ((elapsed * 1000) % UINT_RANGE) \div CODEWORD_TIME_US

(* The slot number of a wall clock reading in milliseconds. *)
slotOf(ms) == ((ms \div 100) % 1024) \div 64
=============================================================================
