--------------------------- MODULE MessageFilter ---------------------------
(***************************************************************************)
(* Which pages CDAPNETGateway::run puts on its queue: the white and black  *)
(* lists of RICs (Conf.cpp) and the two files of regular expressions over  *)
(* the text of the page (REGEX.cpp).                                       *)
(*                                                                         *)
(* A configuration is a record                                             *)
(*   [whiteList, blackList : sets of RICs, as CConf has parsed them,       *)
(*    whitelistRegexfile, blacklistRegexfile : sets of lines]              *)
(* A list that is not configured is the empty set.  Only membership and    *)
(* "all" or "some" matter to the code, so the order and the repetition of  *)
(* entries are left out.                                                   *)
(*                                                                         *)
(* A line is [kind |-> "regex" | "invalid" | "comment" | "blank",          *)
(* matches |-> the set of texts a regular expression matches in full].     *)
(***************************************************************************)
EXTENDS Integers

(* Mutant of LoadedRegexes: the rejected line is kept. *)
LoadedRegexes_KeepsInvalid(lines) ==
    {line.matches : line \in {l \in lines : l.kind \in {"regex", "invalid"}}}

(* CREGEX::load: comments and blank lines are passed over, and so is a     *)
(* line that std::regex throws at.                                         *)
LoadedRegexes(lines) == {line.matches : line \in {l \in lines : l.kind = "regex"}}

(* Mutant of found: every entry has to be the RIC of the page. *)
found_AllEntries(conf, m) ==
    conf.whiteList # {} => \A ric \in conf.whiteList : ric = m.ric

(* CDAPNETGateway::run, for one page [ric, body, ...]. *)
found(conf, m) == conf.whiteList # {} => m.ric \in conf.whiteList

blackListRIC(conf, m) == m.ric \in conf.blackList

(* Mutant of blacklistRegexmatch: the flag is cleared by an expression     *)
(* that does not match, as the whitelist's loop does it.                   *)
blacklistRegexmatch_NeedsAll(conf, m) ==
    LET regexes == LoadedRegexes(conf.blacklistRegexfile)
    IN  regexes # {} /\ \A regex \in regexes : m.body \in regex

blacklistRegexmatch(conf, m) ==
    \E regex \in LoadedRegexes(conf.blacklistRegexfile) : m.body \in regex

(* Every expression of the whitelist has to match. *)
whitelistRegexmatch(conf, m) ==
    \A regex \in LoadedRegexes(conf.whitelistRegexfile) : m.body \in regex

Accepted(conf, m) ==
    /\ found(conf, m)
    /\ ~blackListRIC(conf, m)
    /\ ~blacklistRegexmatch(conf, m)
    /\ whitelistRegexmatch(conf, m)
=============================================================================
