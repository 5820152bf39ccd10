---------------------------- MODULE MCBoardIndex ----------------------------
(***************************************************************************)
(* A board of at most four articles.  Deleters, restorers and articles are *)
(* interchangeable, which MCSymmetry uses.                                 *)
(***************************************************************************)
EXTENDS BoardIndex, TLC

MCSymmetry == Permutations(Arts) \cup Permutations(Deleters) \cup Permutations(Restorers)
=============================================================================
