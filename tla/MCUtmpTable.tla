---------------------------- MODULE MCUtmpTable ----------------------------
(***************************************************************************)
(* A table of three slots for three users, two of whom share a hash bucket. *)
(***************************************************************************)
EXTENDS UtmpTable

MCUids   == 1..3
MCHashOf == [u \in MCUids |-> IF u = 2 THEN 2 ELSE 1]
=============================================================================
