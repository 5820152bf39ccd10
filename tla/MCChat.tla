-------------------------------- MODULE MCChat --------------------------------
(***************************************************************************)
(* Two connections for a sysop, a plain user and a guest, and two rooms    *)
(* besides the main one.  What people and rooms are called matters to no   *)
(* property, so the names are symmetric, but for that of the main room.    *)
(***************************************************************************)
EXTENDS Chat, TLC

CONSTANTS op, plain, guest

MCLevel == (op :> {"room", "other", "sysop"}) @@ (plain :> {"room", "other"}) @@ (guest :> {})

MCSymmetry == Permutations(ChatIds) \cup Permutations(RoomNames \ {Main})

\* What a room that no one is in was called and its flags are never read.
MCView ==
  <<sock, person, room, flags, occupants, invites, asked,
    [r \in {q \in Rooms : Open(q)} |-> <<name[r], mode[r]>>]>>
=============================================================================
