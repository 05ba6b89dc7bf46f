--------------------------- MODULE Configuration ---------------------------
(***************************************************************************)
(* CConf: the .ini file, read line by line.  A line is a header or a       *)
(* setting; comments, blank lines and keys without a value change nothing. *)
(* What the program reads of the text behind a key is a record             *)
(*   [text   : sequence of words,  as it is, without quotes or comment     *)
(*    number : Nat,                by atoi, as an unsigned int             *)
(*    list   : set of Nat]         by atoi from each part between commas   *)
(* The order and repetition of RICs make no difference and are left out.   *)
(***************************************************************************)
EXTENDS Naturals, Sequences

VARIABLES
    section,    \* the section being read
    settings    \* the members of CConf, by section and key

confVars == <<section, settings>>

Sections == {"General", "Log", "MQTT", "DAPNET"}

Lists   == {"General"} \X {"WhiteList", "BlackList"}
Spelled == {<<"General", "Callsign">>, <<"DAPNET", "AuthKey">>}
Texts   == ({"General"} \X {"BlacklistRegexfile", "WhitelistRegexfile",
                            "RptAddress", "LocalAddress"})
           \cup ({"MQTT"} \X {"Address", "Name", "Username", "Password"})
           \cup {<<"DAPNET", "Address">>}
Ports   == {<<"General", "RptPort">>, <<"General", "LocalPort">>,
            <<"MQTT", "Port">>, <<"DAPNET", "Port">>}
Numbers == {<<"Log", "MQTTLevel">>, <<"Log", "DisplayLevel">>, <<"MQTT", "Keepalive">>}
Flags   == {<<"General", "Daemon">>, <<"MQTT", "Auth">>, <<"DAPNET", "Debug">>}

Settings == Lists \cup Spelled \cup Texts \cup Ports \cup Numbers \cup Flags

(* CConf::CConf *)
Default(s) ==
    CASE s \in Lists -> {}
      [] s = <<"MQTT", "Address">> -> <<"127.0.0.1">>
      [] s = <<"MQTT", "Name">> -> <<"dapnet-gateway">>
      [] s = <<"MQTT", "Port">> -> 1883
      [] s = <<"MQTT", "Keepalive">> -> 60
      [] s \in Flags -> FALSE
      [] s \in Spelled \cup Texts -> <<>>
      [] OTHER -> 0

ConfInit == section = "NONE" /\ settings = [s \in Settings |-> Default(s)]

ParsedRICs(list) == list \ {0}

(* Lists and what is spelled out add to an earlier line of the same key,   *)
(* anything else replaces it.  What is spelled out loses its blanks.       *)
Converted(s, value) ==
    CASE s \in Lists   -> settings[s] \cup ParsedRICs(value.list)
      [] s \in Spelled -> settings[s] \o value.text
      [] s \in Texts   -> value.text
      [] s \in Ports   -> value.number % 65536
      [] s \in Numbers -> value.number
      [] s \in Flags   -> value.number = 1

(* Mutant of ReadHeader: an unknown header is passed over. *)
ReadHeader_PassesOver(name) ==
    /\ section' = IF name \in Sections THEN name ELSE section
    /\ UNCHANGED settings

ReadHeader(name) ==
    /\ section' = IF name \in Sections THEN name ELSE "NONE"
    /\ UNCHANGED settings

(* A key that its section does not know is passed over. *)
ReadSetting(key, value) ==
    /\ settings' = LET s == <<section, key>>
                   IN  IF s \in Settings THEN [settings EXCEPT ![s] = Converted(s, value)]
                       ELSE settings
    /\ UNCHANGED section

(* run(): the key of the .ini file that comes with the program is none.    *)
KeyIsSet == settings[<<"DAPNET", "AuthKey">>] \notin {<<>>, <<"TOPSECRET">>}
=============================================================================
