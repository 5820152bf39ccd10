----------------------------- MODULE MCBrcMarks -----------------------------
(***************************************************************************)
(* A user with one session on three boards, or with two sessions, which    *)
(* are interchangeable, on one board.                                      *)
(***************************************************************************)
EXTENDS BrcMarks, TLC

MCOne      == 1..1
MCThree    == 1..3
MCTwoIds   == [b \in Boards |-> 2]
MCThreeIds == [b \in Boards |-> 3]
MCFirst    == <<2, 2, 1>>
MCMax      == <<4, 2, 1>>

\* Nothing is claimed of what follows an overlap.
MCUnmixed  == ~mixed
MCSymmetry == Permutations(Sessions)
=============================================================================
