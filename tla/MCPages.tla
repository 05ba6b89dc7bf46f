------------------------------ MODULE MCPages ------------------------------
(***************************************************************************)
(* What is decided about a single page: whether it is queued, which takes  *)
(* the configuration, and how long it is on the air.  The two share no     *)
(* state and are examined one at a time.                                   *)
(*                                                                         *)
(* The operator writes the .ini file and then the two regex files, line    *)
(* after line, and restarts the gateway (SIGHUP) after each.  The          *)
(* properties compare what passes before and after the line.  The page     *)
(* grows by one character at a time, and the slot timer runs in steps of   *)
(* TICK.                                                                   *)
(***************************************************************************)
EXTENDS Airtime, MessageFilter, Configuration

CONSTANTS
    TICK,       \* step of the slot timer in milliseconds, a bound
    MAX_KEY     \* bound on the lines that spell the key

VARIABLES
    subject,                        \* what is written or examined
    lastHeader,                     \* the header that was last read, as written
    whitelistLines, blacklistLines, \* the lines of the two regex files
    functional, length, elapsed     \* the page, and the slot timer

iniVars   == <<confVars, lastHeader>>
fileVars  == <<whitelistLines, blacklistLines>>
pageVars  == <<functional, length, elapsed>>
vars == <<subject, iniVars, fileVars, pageVars>>

ASSUME ProgramTiming == RealTiming /\ SLOT_TIME_US < UINT_RANGE
ASSUME PagesAssumption == TICK \in Nat /\ MAX_KEY \in Nat

-----------------------------------------------------------------------------
(* The files. *)

RICs   == {1, 2}
Bodies == {"NAGIOS", "G4KLX", "WX"}

Headers == Sections \cup {"Mqtt"}

Value(text, number, list) == [text |-> text, number |-> number, list |-> list]

(* Lines of the .ini file: RICs, a list that holds none, the names of the  *)
(* regex files, a key, and a port that does not fit its type.              *)
IniLines ==
    ({"WhiteList", "BlackList"} \X {Value(<<>>, ric, {ric}) : ric \in RICs \cup {0}})
    \cup ({"WhitelistRegexfile", "BlacklistRegexfile"} \X {Value(<<"file">>, 0, {0})})
    \cup {<<"AuthKey", Value(<<"key">>, 0, {0})>>, <<"Port", Value(<<>>, 70000, {70000})>>}

(* Expressions of README.REGEX, and one that std::regex rejects.           *)
Lines == { [kind |-> "regex",   matches |-> {"NAGIOS"}],
           [kind |-> "regex",   matches |-> {"G4KLX"}],
           [kind |-> "invalid", matches |-> {"WX"}] }

(* CREGEX::CREGEX, load(): no file without a name. *)
Named(key, lines) == IF settings[<<"General", key>>] = <<>> THEN {} ELSE lines

conf ==
    [whiteList          |-> settings[<<"General", "WhiteList">>],
     blackList          |-> settings[<<"General", "BlackList">>],
     whitelistRegexfile |-> Named("WhitelistRegexfile", whitelistLines),
     blacklistRegexfile |-> Named("BlacklistRegexfile", blacklistLines)]

Pages == [ric : RICs, body : Bodies]

Passed == {m \in Pages : Accepted(conf, m)}

-----------------------------------------------------------------------------
Functionals == {FUNCTIONAL_NUMERIC, FUNCTIONAL_ALERT1,
                FUNCTIONAL_ALERT2, FUNCTIONAL_ALPHANUMERIC}

Init ==
    /\ subject \in {"ini", "page"}
    /\ ConfInit /\ lastHeader = "NONE"
    /\ whitelistLines = {} /\ blacklistLines = {}
    /\ functional \in (IF subject = "page" THEN Functionals ELSE {FUNCTIONAL_NUMERIC})
    /\ length = 1
    /\ elapsed = 0

WriteHeader ==
    /\ subject = "ini"
    /\ \E name \in Headers : ReadHeader(name) /\ lastHeader' = name
    /\ UNCHANGED <<subject, fileVars, pageVars>>

WriteSetting ==
    /\ subject = "ini"
    /\ \E line \in IniLines :
        /\ line[1] = "AuthKey" => Len(settings[<<"DAPNET", "AuthKey">>]) < MAX_KEY
        /\ ReadSetting(line[1], line[2])
    /\ UNCHANGED <<subject, lastHeader, fileVars, pageVars>>

(* run() loads the regex files behind the test of the key. *)
LoadFiles ==
    /\ subject = "ini" /\ KeyIsSet
    /\ subject' = "regex"
    /\ section' = "NONE" /\ lastHeader' = "NONE"
    /\ UNCHANGED <<settings, fileVars, pageVars>>

WriteWhitelistLine ==
    /\ subject = "regex"
    /\ \E line \in Lines : whitelistLines' = whitelistLines \cup {line}
    /\ UNCHANGED <<subject, iniVars, blacklistLines, pageVars>>

WriteBlacklistLine ==
    /\ subject = "regex"
    /\ \E line \in Lines : blacklistLines' = blacklistLines \cup {line}
    /\ UNCHANGED <<subject, iniVars, whitelistLines, pageVars>>

(* The same page with one more character. *)
Longer ==
    /\ subject = "page"
    /\ length < MAX_LENGTH
    /\ length' = length + 1
    /\ UNCHANGED <<subject, iniVars, fileVars, functional, elapsed>>

(* The same page, later in the slot. *)
Later ==
    /\ subject = "page"
    /\ elapsed + TICK <= SLOT_TIME_MS
    /\ elapsed' = elapsed + TICK
    /\ UNCHANGED <<subject, iniVars, fileVars, functional, length>>

Next ==
    \/ WriteHeader \/ WriteSetting \/ LoadFiles
    \/ WriteWhitelistLine \/ WriteBlacklistLine
    \/ Longer \/ Later

Spec == Init /\ [][Next]_vars

-----------------------------------------------------------------------------
(* The configuration and the filter. *)

(* A line changes only settings of the section whose header was the last   *)
(* one before it; behind a header that is misspelt it changes none, not    *)
(* even in the section before it (CConf::read, SECTION::NONE).             *)
SectionsApart ==
    [][ \A s \in Settings : settings'[s] # settings[s] => s[1] = lastHeader ]_vars

(* An entry added to either blacklist never lets through a page that was   *)
(* held back, whatever the other lists say (run, the blackListRIC and      *)
(* blacklistRegexmatch tests before m_queue.push_front).                   *)
BlacklistOnlyRemoves ==
    [][ \/ conf'.blackList # conf.blackList
        \/ blacklistLines' # blacklistLines
        => Passed' \subseteq Passed ]_vars

(* Once the white list of RICs is in force, a line that adds to it takes   *)
(* no page away from the others (CConf::read, and std::find over whiteList *)
(* in run).                                                                *)
WhitelistOnlyAdds ==
    [][ conf.whiteList # {} /\ conf'.whiteList # conf.whiteList
        => Passed \subseteq Passed' ]_vars

(* A line that is no regular expression changes nothing: CREGEX::load      *)
(* passes over it, and a file of such lines alone is as good as none.      *)
SkippedLinesAreInert ==
    [][ LET added == (whitelistLines' \ whitelistLines)
                \cup (blacklistLines' \ blacklistLines)
        IN  added # {} /\ (\A line \in added : line.kind # "regex")
            => Passed' = Passed ]_vars

(* README.REGEX:10 puts expressions "one per line" into the whitelist file *)
(* and lists two as examples of what gets through: a second line ought to  *)
(* add the pages it matches to those of the first.                         *)
RegexWhitelistOnlyAdds ==
    [][ /\ LoadedRegexes(whitelistLines) # {}
        /\ whitelistLines' # whitelistLines
        => Passed \subseteq Passed' ]_vars

-----------------------------------------------------------------------------
(* The page on the air. *)

codewords == calculateCodewords(functional, length)

(* "Always an even number of words" (DAPNETGateway.cpp:557): the address   *)
(* word, the rounding and the sync words never leave half a frame.         *)
AlwaysEven == codewords % 2 = 0

(* No page that can be received is too long for an empty slot: were there  *)
(* one, sendMessages would refuse it in every slot, and with it everything *)
(* that is queued behind it.                                               *)
FitsEmptySlot ==
    /\ PREAMBLE_LENGTH_CODEWORDS + codewords < CODEWORDS_PER_SLOT
    /\ sendTime(codewords) < timeLeft(0)

(* The two tests of sendMessages agree when the host has just become free: *)
(* a page within the codeword budget left by elapsed() is also within the  *)
(* time left, so the second test only ever matters later in the slot.      *)
BudgetCoversTime ==
    elapsedCodewords(elapsed) + PREAMBLE_LENGTH_CODEWORDS + codewords
        < CODEWORDS_PER_SLOT
    => sendTime(codewords) < timeLeft(elapsed)
=============================================================================
