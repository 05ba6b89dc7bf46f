---------------------------- MODULE PagesProofs ----------------------------
(***************************************************************************)
(* The properties of MCPages: of the configuration and the filter for any  *)
(* sequence of lines, of a page on the air for every millisecond of the    *)
(* slot.                                                                   *)
(***************************************************************************)
EXTENDS MCPages, AirtimeProofs

(* CConf::read is in the section of the last header, if there is one of    *)
(* that name.                                                              *)
SectionRead == section = IF lastHeader \in Sections THEN lastHeader ELSE "NONE"

PagesInv ==
    /\ DOMAIN settings = Settings
    /\ SectionRead
    /\ functional \in 0 .. 3
    /\ length \in 1 .. MAX_LENGTH
    /\ elapsed \in 0 .. SLOT_TIME_MS

LEMMA PagesInvInit == Init => PagesInv
<1> SUFFICES ASSUME Init PROVE PagesInv
    OBVIOUS
<1>1. functional \in 0 .. 3
    BY DEF Init, Functionals, FUNCTIONAL_NUMERIC, FUNCTIONAL_ALERT1,
        FUNCTIONAL_ALERT2, FUNCTIONAL_ALPHANUMERIC
<1>2. length \in 1 .. MAX_LENGTH /\ elapsed \in 0 .. SLOT_TIME_MS
    BY TimingTypes DEF Init, MAX_LENGTH, BUFFER_LENGTH
<1>3. DOMAIN settings = Settings /\ SectionRead
    BY DEF Init, ConfInit, SectionRead, Sections
<1> QED
    BY <1>1, <1>2, <1>3 DEF PagesInv

LEMMA PagesInvStep == PagesInv /\ [Next]_vars => PagesInv'
<1> SUFFICES ASSUME PagesInv, [Next]_vars PROVE PagesInv'
    OBVIOUS
<1> USE DEF PagesInv
<1>1. CASE WriteHeader
    BY <1>1 DEF WriteHeader, ReadHeader, SectionRead, fileVars, pageVars
<1>2. CASE WriteSetting
  <2>1. DOMAIN settings' = DOMAIN settings /\ section' = section
      BY <1>2 DEF WriteSetting, ReadSetting
  <2> QED
      BY <1>2, <2>1 DEF WriteSetting, SectionRead, fileVars, pageVars
<1>3. CASE LoadFiles
    BY <1>3 DEF LoadFiles, SectionRead, Sections, fileVars, pageVars
<1>4. CASE WriteWhitelistLine \/ WriteBlacklistLine
    BY <1>4 DEF WriteWhitelistLine, WriteBlacklistLine, SectionRead, iniVars, confVars, pageVars
<1>5. CASE Longer
  <2>1. length' \in 1 .. MAX_LENGTH
      BY <1>5 DEF Longer, MAX_LENGTH, BUFFER_LENGTH
  <2> QED
      BY <1>5, <2>1 DEF Longer, SectionRead, iniVars, confVars
<1>6. CASE Later
  <2>1. elapsed' \in 0 .. SLOT_TIME_MS
      BY <1>6, TimingTypes, PagesAssumption DEF Later, PagesAssumption
  <2> QED
      BY <1>6, <2>1 DEF Later, SectionRead, iniVars, confVars
<1>7. CASE UNCHANGED vars
    BY <1>7 DEF vars, iniVars, confVars, pageVars, SectionRead
<1> QED
    BY <1>1, <1>2, <1>3, <1>4, <1>5, <1>6, <1>7 DEF Next

LEMMA PagesInvHolds == Spec => []PagesInv
BY PagesInvInit, PagesInvStep, PTL DEF Spec

-----------------------------------------------------------------------------
(* The page on the air. *)

(* "Always an even number of words" (DAPNETGateway.cpp:557).               *)
THEOREM PagesAreEven == Spec => []AlwaysEven
<1>1. PagesInv => AlwaysEven
  <2> SUFFICES ASSUME PagesInv PROVE AlwaysEven
      OBVIOUS
  <2>1. functional \in 0 .. 3 /\ length \in Nat
      BY DEF PagesInv, MAX_LENGTH, BUFFER_LENGTH
  <2> QED
      BY <2>1, EvenNumberOfWords DEF AlwaysEven, codewords
<1> QED
    BY <1>1, PagesInvHolds, PTL

(* No page that can be received blocks the queue for ever.                 *)
THEOREM PagesFitEmptySlot == Spec => []FitsEmptySlot
<1>1. PagesInv => FitsEmptySlot
    BY EveryPageFits, ProgramTiming DEF ProgramTiming, PagesInv, FitsEmptySlot, codewords
<1> QED
    BY <1>1, PagesInvHolds, PTL

(* The codeword test of sendMessages covers its time test at the moment    *)
(* the host becomes free, in every millisecond of the slot.                *)
THEOREM PagesBudgetCoversTime == Spec => []BudgetCoversTime
<1>1. PagesInv => BudgetCoversTime
  <2> SUFFICES ASSUME PagesInv PROVE BudgetCoversTime
      OBVIOUS
  <2>1. functional \in 0 .. 3 /\ length \in Nat
      BY DEF PagesInv, MAX_LENGTH, BUFFER_LENGTH
  <2>2. codewords \in Nat
      BY <2>1, EvenNumberOfWords DEF codewords
  <2>3. RealTiming /\ SLOT_TIME_MS * 1000 < UINT_RANGE
      BY ProgramTiming, TimingAssumption
      DEF ProgramTiming, RealTiming, SLOT_TIME_MS, TimingAssumption
  <2>4. elapsed \in 0 .. SLOT_TIME_MS
      BY DEF PagesInv
  <2> QED
      BY <2>2, <2>3, <2>4, BudgetTestCoversTimeTest DEF BudgetCoversTime
<1> QED
    BY <1>1, PagesInvHolds, PTL

-----------------------------------------------------------------------------
(* The filter. *)

LEMMA LongerBlacklists ==
    ASSUME NEW c, NEW d, NEW m,
           d.whiteList = c.whiteList, d.whitelistRegexfile = c.whitelistRegexfile,
           c.blackList \subseteq d.blackList,
           c.blacklistRegexfile \subseteq d.blacklistRegexfile,
           Accepted(d, m)
    PROVE  Accepted(c, m)
BY DEF Accepted, found, blackListRIC, blacklistRegexmatch, whitelistRegexmatch, LoadedRegexes

LEMMA LongerWhiteList ==
    ASSUME NEW c, NEW d, NEW m,
           c.whiteList # {}, c.whiteList \subseteq d.whiteList,
           d.blackList = c.blackList, d.whitelistRegexfile = c.whitelistRegexfile,
           d.blacklistRegexfile = c.blacklistRegexfile,
           Accepted(c, m)
    PROVE  Accepted(d, m)
BY DEF Accepted, found, blackListRIC, blacklistRegexmatch, whitelistRegexmatch

LEMMA OnlyRegexesCount ==
    ASSUME NEW c, NEW d, NEW m,
           d.whiteList = c.whiteList, d.blackList = c.blackList,
           LoadedRegexes(d.whitelistRegexfile) = LoadedRegexes(c.whitelistRegexfile),
           LoadedRegexes(d.blacklistRegexfile) = LoadedRegexes(c.blacklistRegexfile)
    PROVE  Accepted(c, m) <=> Accepted(d, m)
BY DEF Accepted, found, blackListRIC, blacklistRegexmatch, whitelistRegexmatch

(* What a line can change of the lists. *)
LEMMA ListStep ==
    ASSUME PagesInv, [Next]_vars
    PROVE  /\ blacklistLines \subseteq blacklistLines'
           /\ conf.blackList \subseteq conf'.blackList
           /\ conf.whiteList \subseteq conf'.whiteList
           /\ conf'.blackList # conf.blackList \/ blacklistLines' # blacklistLines
              => /\ conf'.whiteList = conf.whiteList
                 /\ conf'.whitelistRegexfile = conf.whitelistRegexfile
                 /\ conf.blacklistRegexfile \subseteq conf'.blacklistRegexfile
           /\ conf'.whiteList # conf.whiteList
              => /\ conf'.blackList = conf.blackList
                 /\ conf'.whitelistRegexfile = conf.whitelistRegexfile
                 /\ conf'.blacklistRegexfile = conf.blacklistRegexfile
           /\ whitelistLines' # whitelistLines \/ blacklistLines' # blacklistLines
              => settings' = settings
<1>1. CASE WriteSetting
  <2>1. PICK line \in IniLines : ReadSetting(line[1], line[2])
      BY <1>1 DEF WriteSetting
  <2>2. UNCHANGED fileVars
      BY <1>1 DEF WriteSetting
  <2> DEFINE s == <<section, line[1]>>
  <2>3. CASE s \notin Settings
      BY <2>1, <2>2, <2>3 DEF ReadSetting, conf, Named, fileVars
  <2>4. CASE s \in Settings
    <3>1. settings' = [settings EXCEPT ![s] = Converted(s, line[2])]
        BY <2>1, <2>4 DEF ReadSetting
    <3>2. s \in Lists => settings[s] \subseteq settings'[s]
      <4>1. settings'[s] = Converted(s, line[2])
          BY <2>4, <3>1 DEF PagesInv
      <4>2. s \in Lists => s \notin Spelled \cup Texts \cup Ports \cup Numbers \cup Flags
          BY DEF Lists, Spelled, Texts, Ports, Numbers, Flags
      <4> HIDE DEF s
      <4>3. s \in Lists => Converted(s, line[2]) = settings[s] \cup ParsedRICs(line[2].list)
          BY <4>2 DEF Converted
      <4> QED
          BY <4>1, <4>3
    <3>3. /\ <<"General", "WhiteList">> \in Settings /\ <<"General", "WhiteList">> \in Lists
          /\ <<"General", "BlackList">> \in Settings /\ <<"General", "BlackList">> \in Lists
          /\ <<"General", "WhitelistRegexfile">> \in Settings
          /\ <<"General", "BlacklistRegexfile">> \in Settings
        BY DEF Settings, Lists, Texts
    <3>4. \A t \in Settings : t # s => settings'[t] = settings[t]
        BY <3>1 DEF PagesInv
    <3> HIDE DEF s
    <3> QED
        BY <2>2, <3>2, <3>3, <3>4 DEF conf, Named, fileVars
  <2> QED
      BY <2>3, <2>4
<1>2. CASE WriteWhitelistLine \/ WriteBlacklistLine
    BY <1>2 DEF WriteWhitelistLine, WriteBlacklistLine, iniVars, confVars, conf, Named
<1>3. CASE WriteHeader \/ LoadFiles \/ Longer \/ Later \/ UNCHANGED vars
    BY <1>3 DEF WriteHeader, ReadHeader, LoadFiles, Longer, Later, vars, iniVars, confVars,
        fileVars, conf, Named
<1> QED
    BY <1>1, <1>2, <1>3 DEF Next

(* Longer blacklists let no page through that was held back.               *)
THEOREM BlacklistsOnlyRemove == Spec => BlacklistOnlyRemoves
<1>1. ASSUME PagesInv, [Next]_vars,
             conf'.blackList # conf.blackList \/ blacklistLines' # blacklistLines
      PROVE  Passed' \subseteq Passed
  <2> SUFFICES ASSUME NEW m \in Pages, Accepted(conf', m) PROVE Accepted(conf, m)
      BY DEF Passed, Pages, RICs, Bodies
  <2> DEFINE c == conf
             d == conf'
  <2>1. /\ d.whiteList = c.whiteList /\ d.whitelistRegexfile = c.whitelistRegexfile
        /\ c.blackList \subseteq d.blackList
        /\ c.blacklistRegexfile \subseteq d.blacklistRegexfile /\ Accepted(d, m)
      BY <1>1, ListStep
  <2> HIDE DEF c, d
  <2>2. Accepted(c, m)
      BY <2>1, LongerBlacklists
  <2> QED
      BY <2>2 DEF c
<1>2. PagesInv /\ [Next]_vars
      => [ conf'.blackList # conf.blackList \/ blacklistLines' # blacklistLines
           => Passed' \subseteq Passed ]_vars
    BY <1>1
<1> QED
    BY <1>2, PagesInvHolds, PTL DEF Spec, BlacklistOnlyRemoves

(* A longer white list, once there is one, takes no page away.             *)
THEOREM WhitelistsOnlyAdd == Spec => WhitelistOnlyAdds
<1>1. ASSUME PagesInv, [Next]_vars, conf.whiteList # {}, conf'.whiteList # conf.whiteList
      PROVE  Passed \subseteq Passed'
  <2> SUFFICES ASSUME NEW m \in Pages, Accepted(conf, m) PROVE Accepted(conf', m)
      BY DEF Passed, Pages, RICs, Bodies
  <2> DEFINE c == conf
             d == conf'
  <2>1. /\ c.whiteList # {} /\ c.whiteList \subseteq d.whiteList
        /\ d.blackList = c.blackList /\ d.whitelistRegexfile = c.whitelistRegexfile
        /\ d.blacklistRegexfile = c.blacklistRegexfile /\ Accepted(c, m)
      BY <1>1, ListStep
  <2> HIDE DEF c, d
  <2>2. Accepted(d, m)
      BY <2>1, LongerWhiteList
  <2> QED
      BY <2>2 DEF d
<1>2. PagesInv /\ [Next]_vars
      => [ conf.whiteList # {} /\ conf'.whiteList # conf.whiteList
           => Passed \subseteq Passed' ]_vars
    BY <1>1
<1> QED
    BY <1>2, PagesInvHolds, PTL DEF Spec, WhitelistOnlyAdds

(* A line that is no regular expression changes nothing.                   *)
THEOREM SkippedLinesInert == Spec => SkippedLinesAreInert
<1> DEFINE added == (whitelistLines' \ whitelistLines) \cup (blacklistLines' \ blacklistLines)
<1>1. ASSUME PagesInv, [Next]_vars, added # {}, \A line \in added : line.kind # "regex"
      PROVE  Passed' = Passed
  <2>1. /\ settings' = settings
        /\ whitelistLines \subseteq whitelistLines' /\ blacklistLines \subseteq blacklistLines'
      BY <1>1 DEF Next, WriteHeader, ReadHeader, WriteSetting, LoadFiles, WriteWhitelistLine,
          WriteBlacklistLine, Longer, Later, vars, iniVars, confVars, fileVars
  <2>2. /\ LoadedRegexes(whitelistLines') = LoadedRegexes(whitelistLines)
        /\ LoadedRegexes(blacklistLines') = LoadedRegexes(blacklistLines)
      BY <1>1, <2>1 DEF LoadedRegexes
  <2> DEFINE c == conf
             d == conf'
  <2>3. /\ d.whiteList = c.whiteList /\ d.blackList = c.blackList
        /\ LoadedRegexes(d.whitelistRegexfile) = LoadedRegexes(c.whitelistRegexfile)
        /\ LoadedRegexes(d.blacklistRegexfile) = LoadedRegexes(c.blacklistRegexfile)
      BY <2>1, <2>2 DEF conf, Named
  <2> SUFFICES ASSUME NEW m \in Pages PROVE Accepted(c, m) <=> Accepted(d, m)
      BY DEF Passed, Pages, RICs, Bodies
  <2> HIDE DEF c, d
  <2> QED
      BY <2>3, OnlyRegexesCount
<1> HIDE DEF added
<1>2. PagesInv /\ [Next]_vars
      => [ added # {} /\ (\A line \in added : line.kind # "regex")
           => Passed' = Passed ]_vars
    BY <1>1
<1> QED
    BY <1>2, PagesInvHolds, PTL DEF Spec, SkippedLinesAreInert, added

(* A line of the .ini file reaches only the section it stands in.          *)
THEOREM SectionsKeptApart == Spec => SectionsApart
<1>1. ASSUME PagesInv, [Next]_vars, NEW s \in Settings, settings'[s] # settings[s]
      PROVE  s[1] = lastHeader
  <2>1. PICK line \in IniLines : ReadSetting(line[1], line[2])
      BY <1>1 DEF Next, WriteHeader, ReadHeader, WriteSetting, LoadFiles, WriteWhitelistLine,
          WriteBlacklistLine, Longer, Later, vars, iniVars, confVars, fileVars
  <2>2. s = <<section, line[1]>>
      BY <1>1, <2>1 DEF ReadSetting, PagesInv
  <2>3. s[1] \in Sections
      BY DEF Settings, Lists, Spelled, Texts, Ports, Numbers, Flags, Sections
  <2> QED
      BY <1>1, <2>2, <2>3 DEF PagesInv, SectionRead, Sections
<1>2. PagesInv /\ [Next]_vars
      => [ \A s \in Settings : settings'[s] # settings[s] => s[1] = lastHeader ]_vars
    BY <1>1
<1> QED
    BY <1>2, PagesInvHolds, PTL DEF Spec, SectionsApart
=============================================================================
