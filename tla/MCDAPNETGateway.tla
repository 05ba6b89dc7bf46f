-------------------------- MODULE MCDAPNETGateway --------------------------
(***************************************************************************)
(* Small instances of DAPNETGateway: a codeword takes one millisecond, so  *)
(* a slot of 12 ms carries 11 codewords, preambles of one word included.   *)
(***************************************************************************)
EXTENDS GatewayQueue

NoLists == [whiteList |-> {}, blackList |-> {},
            whitelistRegexfile |-> {}, blacklistRegexfile |-> {}]

(* RIC 9 is on the blacklist. *)
BlackList9 == [NoLists EXCEPT !.blackList = {9}]

(* 4 codewords: an alert.  8 codewords: ten digits. *)
Alert  == [ric |-> 1, body |-> "", type |-> 6,
           functional |-> FUNCTIONAL_ALERT1, length |-> 1]
Digits == [ric |-> 2, body |-> "", type |-> 6,
           functional |-> FUNCTIONAL_NUMERIC, length |-> 10]
Barred == [Alert EXCEPT !.ric = 9]

(* A time message. *)
Clock  == [ric |-> 3, body |-> "", type |-> 5,
           functional |-> FUNCTIONAL_NUMERIC, length |-> 4]

XTimes == {"XTIME="}

AlertAndDigits == {Alert, Digits}
OneAlert       == {Alert}
ClockAndBarred == {Clock, Digits, Barred}

TwoOrAll     == {{0, 1}, {0, 1, 2}}
FirstTwo     == {{0, 1}}
FirstOrAll   == {{0}, {0, 1}}
=============================================================================
