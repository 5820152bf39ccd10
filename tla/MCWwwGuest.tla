----------------------------- MODULE MCWwwGuest -----------------------------
(***************************************************************************)
(* Three guests, two of whom come from one address; the two addresses      *)
(* share a hash value.                                                     *)
(***************************************************************************)
EXTENDS WwwGuest

MCBrowsers == {"b1", "b2", "b3"}
MCIps      == {"ip1", "ip2"}
MCIpOf     == [b1 |-> "ip1", b2 |-> "ip1", b3 |-> "ip2"]
MCHashOf   == [ip1 |-> 1, ip2 |-> 1, noip |-> 0]
=============================================================================
