------------------------------ MODULE Utf8Scan ------------------------------
(***************************************************************************)
(* The UTF-8 automaton run over every text: all 256 bytes at every step.   *)
(* The names are its own, so that modules about texts can extend its       *)
(* theorems.                                                               *)
(***************************************************************************)
EXTENDS Utf8

VARIABLES
    scan_state,    \* the automaton
    scan_bytes     \* the bytes of the character it is in the middle of

scanVars == << scan_state, scan_bytes >>

ScanTypeOK == /\ scan_state \in Utf8States
              /\ scan_bytes \in Seq(0..255)

ScanInit == scan_state = UTF8_ACCEPT /\ scan_bytes = << >>

(* The next byte of a text that is not rejected.                           *)
Scan(byte) ==
    /\ scan_state' = decode(scan_state, byte)
    /\ scan_state' # UTF8_REJECT
    /\ scan_bytes' = IF scan_state' = UTF8_ACCEPT THEN << >>
                     ELSE Append(scan_bytes, byte)

ScanNext == \E byte \in 0..255 : Scan(byte)

ScanSpec == ScanInit /\ [][ScanNext]_scanVars

(* The automaton (utf8.h 37-52) stays in the middle of a character exactly *)
(* when RFC 3629 has a character beginning so, accepts exactly when one is *)
(* complete, and rejects everything else, at once.                         *)
MatchesRFC3629 ==
    \A byte \in 0..255 :
        LET bytes == Append(scan_bytes, byte)
            next  == decode(scan_state, byte)
        IN  /\ next = UTF8_REJECT <=> ~BeginsChar(bytes)
            /\ next = UTF8_ACCEPT <=> IsChar(bytes)
=============================================================================
