--------------------------- MODULE AirtimeProofs ---------------------------
(***************************************************************************)
(* Facts about the arithmetic of a page that hold for every text length    *)
(* and, where the theorem says so, for the timing constants of the program *)
(* only.                                                                   *)
(***************************************************************************)
EXTENDS Airtime, TLAPS

(* Division of naturals, as the code uses it, stays in the naturals. *)
LEMMA DivNat ==
    ASSUME NEW n \in Nat, NEW k \in Nat \ {0}
    PROVE  n \div k \in Nat
  OBVIOUS

LEMMA TimingTypes ==
    /\ SLOT_TIME_MS \in Nat
    /\ CODEWORDS_PER_SLOT \in Nat
    /\ PREAMBLE_TIME_US \in Nat
  BY TimingAssumption DEF SLOT_TIME_MS, CODEWORDS_PER_SLOT, PREAMBLE_TIME_US

LEMMA PackedWordsType ==
    ASSUME NEW functional \in 0 .. 3, NEW length \in Nat
    PROVE  PackedWords(functional, length) \in Nat
  <1>1. length \div 5 \in Nat
    OBVIOUS
  <1>2. (length * 7) \div 20 \in Nat
    OBVIOUS
  <1>. QED
    BY <1>1, <1>2 DEF PackedWords, FUNCTIONAL_NUMERIC, FUNCTIONAL_ALERT1,
                      FUNCTIONAL_ALERT2, FUNCTIONAL_ALPHANUMERIC

(* calculateCodewords returns a positive even number of words for a page   *)
(* of any length ("Always an even number of words", DAPNETGateway.cpp:557),*)
(* the sync words included.                                                *)
THEOREM EvenNumberOfWords ==
    ASSUME NEW functional \in 0 .. 3, NEW length \in Nat
    PROVE  /\ calculateCodewords(functional, length) \in Nat \ {0}
           /\ calculateCodewords(functional, length) % 2 = 0
  <1>. DEFINE packed == PackedWords(functional, length)
  <1>1. packed \in Nat
    BY PackedWordsType
  <1>. HIDE DEF packed
  <1>. DEFINE even == (packed + 1) + ((packed + 1) % 2)
  <1>2. even \in Nat \ {0} /\ even % 2 = 0
    BY <1>1
  <1>3. even = EvenWords(functional, length)
    BY DEF packed, EvenWords
  <1>. HIDE DEF even
  <1>4. even + (even % 16) \in Nat \ {0} /\ (even + (even % 16)) % 2 = 0
    BY <1>2
  <1>. QED
    BY <1>3, <1>4 DEF calculateCodewords

(* The longest page with the constants of the program. *)
LEMMA LongestPage ==
    ASSUME RealTiming,
           NEW functional \in 0 .. 3, NEW length \in 1 .. MAX_LENGTH
    PROVE  LET words == calculateCodewords(functional, length)
           IN  /\ words \in Nat /\ words <= 83
               /\ sendTime(words) \in Nat /\ sendTime(words) <= 2694
  <1>. DEFINE words == calculateCodewords(functional, length)
  <1>1. PackedWords(functional, length) \in 0 .. 66
    <2>1. length \div 5 \in 0 .. 37
      BY DEF MAX_LENGTH, BUFFER_LENGTH
    <2>2. (length * 7) \div 20 \in 0 .. 66
      BY DEF MAX_LENGTH, BUFFER_LENGTH
    <2>. QED
      BY <2>1, <2>2 DEF PackedWords, FUNCTIONAL_NUMERIC, FUNCTIONAL_ALERT1,
                        FUNCTIONAL_ALERT2, FUNCTIONAL_ALPHANUMERIC
  <1>2. words \in 0 .. 83
    BY <1>1 DEF calculateCodewords, EvenWords
  <1>. HIDE DEF words
  <1>3. PREAMBLE_TIME_US = 480006
    BY DEF RealTiming, PREAMBLE_TIME_US
  <1>4. sendTime(words) \in Nat /\ sendTime(words) <= 2694
    BY <1>2, <1>3 DEF sendTime, RealTiming
  <1>5. words \in Nat /\ words <= 83
    BY <1>2
  <1>. QED
    BY <1>4, <1>5 DEF words

(* With the constants of the program no page of up to MAX_LENGTH bytes is  *)
(* too long for a slot from its start, by the codeword budget or by the    *)
(* time: sendMessages refuses no page for ever (lines 490 and 497).        *)
THEOREM EveryPageFits ==
    ASSUME RealTiming,
           NEW functional \in 0 .. 3, NEW length \in 1 .. MAX_LENGTH
    PROVE  /\ PREAMBLE_LENGTH_CODEWORDS + calculateCodewords(functional, length)
                < CODEWORDS_PER_SLOT
           /\ sendTime(calculateCodewords(functional, length)) < timeLeft(0)
  <1>. DEFINE words == calculateCodewords(functional, length)
  <1>1. /\ words \in Nat /\ words <= 83
        /\ sendTime(words) \in Nat /\ sendTime(words) <= 2694
    BY LongestPage
  <1>. HIDE DEF words
  <1>2. CODEWORDS_PER_SLOT = 239 /\ SLOT_TIME_MS = 6400
    BY DEF RealTiming, CODEWORDS_PER_SLOT, SLOT_TIME_MS
  <1>3. timeLeft(0) = 6400
    BY <1>2, TimingAssumption DEF timeLeft, SLOT_TIME_MS
  <1>. QED
    BY <1>1, <1>2, <1>3 DEF words, RealTiming

(* With the constants of the program, a page within the codeword budget    *)
(* that is left when the host becomes free is also within the time left    *)
(* then: the test of line 490 covers that of line 497.                     *)
THEOREM BudgetTestCoversTimeTest ==
    ASSUME RealTiming,
           NEW words \in Nat, NEW elapsed \in 0 .. SLOT_TIME_MS,
           SLOT_TIME_MS * 1000 < UINT_RANGE,
           elapsedCodewords(elapsed) + PREAMBLE_LENGTH_CODEWORDS + words
                < CODEWORDS_PER_SLOT
    PROVE  sendTime(words) < timeLeft(elapsed)
  <1>1. CODEWORDS_PER_SLOT = 239 /\ SLOT_TIME_MS = 6400 /\ PREAMBLE_TIME_US = 480006
    BY DEF RealTiming, CODEWORDS_PER_SLOT, SLOT_TIME_MS, PREAMBLE_TIME_US
  <1>2. elapsedCodewords(elapsed) = (elapsed * 1000) \div 26667
    BY <1>1, TimingAssumption DEF elapsedCodewords, RealTiming
  <1>3. elapsed * 1000 + (18 + words) * 26667 < 6373413
    BY <1>1, <1>2 DEF RealTiming
  <1>4. sendTime(words) = ((18 + words) * 26667) \div 1000
    BY <1>1 DEF sendTime, RealTiming
  <1>5. sendTime(words) < 6400 - elapsed
    BY <1>3, <1>4
  <1>6. timeLeft(elapsed) = 6400 - elapsed
    BY <1>1, TimingAssumption DEF timeLeft, SLOT_TIME_MS
  <1>. QED
    BY <1>5, <1>6
=============================================================================
