--------------------------- MODULE MCUtmpSession ---------------------------
(***************************************************************************)
(* Telnet processes 2, 3 and 4; 2 and 3 are of the same user, and 2 and 4  *)
(* are ssh sessions that share a process group.                            *)
(***************************************************************************)
EXTENDS UtmpSession

CONSTANTS w1

MCUids    == 1..2
MCHashOf  == [u \in Uids |-> 1]
MCUserOf  == [t \in TelnetPids |-> IF t = 4 THEN 2 ELSE 1]
MCGroup   == [t \in TelnetPids |-> IF t = 3 THEN {3} ELSE TelnetPids \ {3}]
MCWebUser == [w \in Web |-> 1]
=============================================================================
