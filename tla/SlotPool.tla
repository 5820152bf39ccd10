------------------------------ MODULE SlotPool ------------------------------
(***************************************************************************)
(* What the session table of libBBS/utmp.c promises to the programs that   *)
(* log users in and out: a pool of slots, each free or held by a session   *)
(* of one user.                                                            *)
(***************************************************************************)
EXTENDS Integers, FiniteSets

CONSTANTS
  N,      \* the number of slots
  Uids    \* the user numbers; 0 is not one of them

VARIABLES
  occ,    \* occ[s] is the user whose session holds slot s, 0 when it is free
  number, \* the number of sessions as the system reports it
  ret     \* the answer to the last request

pvars == <<occ, number, ret>>

Free == {s \in 1..N : occ[s] = 0}

Init ==
  /\ occ    = [s \in 1..N |-> 0]
  /\ number = 0
  /\ ret    = 0

\* A login takes a free slot and is told which one.
Alloc(u) ==
  \E s \in Free :
    /\ occ'    = [occ EXCEPT ![s] = u]
    /\ number' = number + 1
    /\ ret'    = s

\* A login is refused only when no slot is free.
Refuse ==
  /\ Free = {}
  /\ ret' = -1
  /\ UNCHANGED <<occ, number>>

\* A logout, or the clean-up of a session that is gone, frees its slot.
Release(s) ==
  /\ occ[s] # 0
  /\ occ'    = [occ EXCEPT ![s] = 0]
  /\ number' = number - 1
  /\ ret'    \in {ret, 0}

\* A logout that no longer names the session in the slot changes nothing.
Ignore ==
  /\ ret' = 0
  /\ UNCHANGED <<occ, number>>

Next ==
  \/ \E u \in Uids : Alloc(u)
  \/ Refuse
  \/ \E s \in 1..N : Release(s)
  \/ Ignore

Spec == Init /\ [][Next]_pvars
=============================================================================
