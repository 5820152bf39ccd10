---------------------------- MODULE MCUserCache ----------------------------
(***************************************************************************)
(* Three slots and two names in one bucket.                                *)
(***************************************************************************)
EXTENDS UserCache

CONSTANTS ann, bob

MCHashOf == [n \in Names |-> 1]
=============================================================================
