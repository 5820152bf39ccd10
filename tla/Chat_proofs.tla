----------------------------- MODULE Chat_proofs -----------------------------
(***************************************************************************)
(* The invariants and action properties of the chat daemon, for every      *)
(* number of connections and rooms and any users.  All commands come down  *)
(* to a few kinds of step (Cases): a user enters a room, opens one, leaves,*)
(* is gone, comes, or stays in place; the invariants are shown to survive  *)
(* each kind.                                                              *)
(***************************************************************************)
EXTENDS Chat, FiniteSetTheorems, TLAPS

Fields ==
  /\ sock      \subseteq Slots
  /\ utent     \in [Slots -> Uids \cup {NoUid}]
  /\ chatid    \in [Slots -> ChatIds \cup {NoId}]
  /\ room      \in [Slots -> Rooms \cup {Nowhere}]
  /\ flags     \in [Slots -> SUBSET Flags]
  /\ name      \in [Rooms -> RoomNames]
  /\ occupants \in [Rooms -> Int]
  /\ mode      \in [Rooms -> SUBSET {"locked", "sysop"}]
  /\ invites   \in [Rooms -> SUBSET Slots]
  /\ asked     \subseteq Rooms \X Slots

\* A slot without a connection has no name and no user.
Blank == \A u \in Slots \ sock : chatid[u] = NoId /\ utent[u] = NoUid

\* Who is on the list of a room has been invited to this room, and is the
\* one who has been.
InvitesMeant == \A r \in Rooms : \A u \in invites[r] : u \in sock /\ <<r, u>> \in asked

ChatInv ==
  /\ Fields
  /\ Blank
  /\ OccupantsExact
  /\ RoomsDistinct
  /\ ChatIdsDistinct
  /\ InvitesMeant

-----------------------------------------------------------------------------
(* The kinds of step *)

Enters(u, r, f) == Open(r) /\ Admits(r, u, f) /\ Go(u, f, r) /\ sock' = sock

Opens(u, r, n) ==
  /\ \A q \in Rooms : ~Called(q, n)
  /\ NewRoom(r)
  /\ GoNew(u, r, n)
  /\ sock' = sock

Leaves(u) == ExitRoom(u) /\ sock' = sock

Stays ==
  /\ UNCHANGED <<sock, room, occupants>>
  /\ name' = name \/ \E u \in sock, n \in RoomNames : NameRoom(u, n)
  /\ UNCHANGED <<invites, asked>> \/ \E u, v \in sock : Invite(u, v)

LEMMA ZeroIsRoom == 0 \in Rooms
  BY ChatAssumption DEF Rooms

LEMMA RoomIn ==
  ASSUME Fields, NEW u \in Slots, room[u] # Nowhere
  PROVE  room[u] \in Rooms
  BY DEF Fields

LEMMA CasesEnter ==
  ASSUME ChatInv, NEW u \in Slots, Entering(u)
  PROVE  \/ \E r \in Rooms, f \in SUBSET Flags : u \in sock /\ Enters(u, r, f)
         \/ \E r \in Rooms, n \in RoomNames : u \in sock /\ Opens(u, r, n)
         \/ u \in sock /\ Gone(u)
         \/ Stays
<1>1. CASE \E uid \in Uids : LoginBogus(u, uid)
  BY <1>1 DEF LoginBogus
<1>2. ASSUME NEW uid \in Uids, NEW id \in ChatIds, Login(u, uid, id)
      PROVE  \/ \E r \in Rooms, f \in SUBSET Flags : u \in sock /\ Enters(u, r, f)
             \/ Stays
  <2>0. Level[uid] \in SUBSET Flags
    BY ChatAssumption
  <2>1. CASE Admits(0, u, Level[uid])
    <3>1. u \in sock /\ Go(u, Level[uid], 0) /\ sock' = sock /\ Open(0)
      BY <1>2, <2>1 DEF Login, Open
    <3>2. u \in sock /\ Enters(u, 0, Level[uid])
      BY <3>1, <2>1 DEF Enters
    <3>3. QED BY <3>2, <2>0, ZeroIsRoom
  <2>2. CASE ~Admits(0, u, Level[uid])
    BY <1>2, <2>2 DEF Login, Stays
  <2>3. QED BY <2>1, <2>2
<1>3. ASSUME NEW r \in Rooms, Join(u, r)
      PROVE  \E f \in SUBSET Flags : u \in sock /\ Enters(u, r, f)
  <2>1. u \in sock /\ Enters(u, r, flags[u])
    BY <1>3 DEF Join, In, Enters, Called
  <2>2. flags[u] \in SUBSET Flags
    BY DEF ChatInv, Fields
  <2>3. QED BY <2>1, <2>2
<1>4. ASSUME NEW r \in Rooms, NEW n \in RoomNames, JoinNew(u, r, n)
      PROVE  u \in sock /\ Opens(u, r, n)
  BY <1>4 DEF JoinNew, In, Opens
<1>5. QED BY <1>1, <1>2, <1>3, <1>4 DEF Entering

LEMMA CasesRule ==
  ASSUME ChatInv, NEW u \in Slots, Ruling(u)
  PROVE  \/ \E v \in sock, r \in Rooms, f \in SUBSET Flags : Enters(v, r, f)
         \/ \E v \in sock : Leaves(v) \/ Gone(v)
         \/ Stays
<1>1. ASSUME NEW n \in RoomNames, NameRoom(u, n)
      PROVE  Stays
  <2>1. u \in sock /\ UNCHANGED <<sock, room, occupants, invites, asked>>
    BY <1>1 DEF NameRoom, In
  <2>2. QED BY <1>1, <2>1 DEF Stays
<1>2. ASSUME NEW f \in {"locked", "sysop"}, NEW on \in BOOLEAN, SetRoom(u, f, on)
      PROVE  Stays
  BY <1>2 DEF SetRoom, Stays
<1>3. ASSUME NEW v \in Slots, KickOut(u, v)
      PROVE  v \in sock /\ Gone(v)
  BY <1>3 DEF KickOut, MayKick, Found
<1>4. ASSUME NEW v \in Slots, KickToMain(u, v)
      PROVE  \/ \E w \in sock, r \in Rooms, f \in SUBSET Flags : Enters(w, r, f)
             \/ \E w \in sock : Leaves(w)
  <2>0. v \in sock /\ sock' = sock
    BY <1>4 DEF KickToMain, MayKick, Found
  <2>1. CASE Admits(0, v, flags[v])
    <3>1. Go(v, flags[v], 0) /\ Open(0)
      BY <1>4, <2>1 DEF KickToMain, Open
    <3>2. Enters(v, 0, flags[v])
      BY <2>0, <2>1, <3>1 DEF Enters
    <3>3. flags[v] \in SUBSET Flags
      BY DEF ChatInv, Fields
    <3>4. QED BY <2>0, <3>2, <3>3, ZeroIsRoom
  <2>2. CASE ~Admits(0, v, flags[v])
    <3>1. Leaves(v)
      BY <1>4, <2>0, <2>2 DEF KickToMain, Leaves
    <3>2. QED BY <2>0, <3>1
  <2>3. QED BY <2>1, <2>2
<1>5. ASSUME NEW v \in Slots, MakeOp(u, v) \/ Toggle(u, v)
      PROVE  Stays
  BY <1>5 DEF MakeOp, Toggle, Stays
<1>6. ASSUME NEW v \in Slots, Invite(u, v)
      PROVE  Stays
  <2>1. u \in sock /\ v \in sock /\ UNCHANGED <<sock, room, occupants, name>>
    BY <1>6 DEF Invite, In, Found
  <2>2. QED BY <1>6, <2>1 DEF Stays
<1>7. QED BY <1>1, <1>2, <1>3, <1>4, <1>5, <1>6 DEF Ruling

LEMMA Cases ==
  ASSUME ChatInv, Next
  PROVE  \/ \E u \in sock, r \in Rooms, f \in SUBSET Flags : Enters(u, r, f)
         \/ \E u \in sock, r \in Rooms, n \in RoomNames : Opens(u, r, n)
         \/ \E u \in sock : Leaves(u) \/ Gone(u)
         \/ \E u \in Slots : Accept(u)
         \/ Stays
<1>1. PICK u \in Slots : \/ Accept(u) \/ LostConn(u)
                         \/ Entering(u) \/ Ruling(u)
                         \/ Goodbye(u) \/ \E id \in ChatIds : Nick(u, id)
  BY DEF Next
<1>2. CASE LostConn(u)
  BY <1>2 DEF LostConn
<1>3. CASE Entering(u)
  BY <1>3, CasesEnter
<1>4. CASE Ruling(u)
  BY <1>4, CasesRule
<1>5. CASE Goodbye(u)
  BY <1>5 DEF Goodbye, In, Leaves
<1>6. CASE \E id \in ChatIds : Nick(u, id)
  BY <1>6 DEF Nick, place, Stays
<1>7. QED BY <1>1, <1>2, <1>3, <1>4, <1>5, <1>6

-----------------------------------------------------------------------------
(* Fields *)

LEMMA LeftInt ==
  ASSUME Fields, NEW u, NEW to
  PROVE  Left(u, to) \in [Rooms -> Int]
  BY DEF Fields, Left

LEMMA OpFlagOK ==
  ASSUME NEW f \in SUBSET Flags, NEW new \in BOOLEAN
  PROVE  OpFlag(f, new) \in SUBSET Flags
  BY DEF OpFlag, Flags

LEMMA FieldsEnter ==
  ASSUME Fields, NEW u \in sock, NEW r \in Rooms, NEW f \in SUBSET Flags, Enters(u, r, f),
         utent' \in [Slots -> Uids \cup {NoUid}], chatid' \in [Slots -> ChatIds \cup {NoId}]
  PROVE  Fields'
<1>1. u \in Slots /\ OpFlag(f, FALSE) \in SUBSET Flags /\ Left(u, r) \in [Rooms -> Int]
  BY LeftInt, OpFlagOK DEF Fields
<1>2. room' \in [Slots -> Rooms \cup {Nowhere}] /\ flags' \in [Slots -> SUBSET Flags]
  BY <1>1 DEF Fields, Enters, Go
<1>3. invites' \in [Rooms -> SUBSET Slots]
  BY DEF Fields, Enters, Go, Uninvited
<1>4. occupants' \in [Rooms -> Int]
  BY <1>1 DEF Enters, Go
<1>5. UNCHANGED <<sock, name, mode>> /\ asked' \subseteq asked
  BY DEF Enters, Go
<1>6. QED BY <1>2, <1>3, <1>4, <1>5 DEF Fields

LEMMA FieldsOpen ==
  ASSUME Fields, NEW u \in sock, NEW r \in Rooms, NEW n \in RoomNames, Opens(u, r, n),
         UNCHANGED person
  PROVE  Fields'
<1>1. /\ u \in Slots /\ flags[u] \in SUBSET Flags
      /\ Left(u, r) \in [Rooms -> Int]
  BY LeftInt DEF Fields
<1>2. OpFlag(flags[u], TRUE) \in SUBSET Flags
  BY <1>1, OpFlagOK
<1>3. room' \in [Slots -> Rooms \cup {Nowhere}] /\ flags' \in [Slots -> SUBSET Flags]
  BY <1>1, <1>2 DEF Fields, Opens, GoNew
<1>4. invites' \in [Rooms -> SUBSET Slots]
  BY DEF Fields, Opens, GoNew, Uninvited
<1>5. occupants' \in [Rooms -> Int]
  BY <1>1 DEF Opens, GoNew
<1>6. name' \in [Rooms -> RoomNames] /\ mode' \in [Rooms -> SUBSET {"locked", "sysop"}]
  BY DEF Fields, Opens, GoNew
<1>7. sock' = sock /\ asked' \subseteq asked /\ utent' = utent /\ chatid' = chatid
  BY DEF Opens, GoNew, person
<1>8. QED BY <1>3, <1>4, <1>5, <1>6, <1>7 DEF Fields

LEMMA FieldsLeave ==
  ASSUME Fields, NEW u \in sock, Leaves(u), UNCHANGED person
  PROVE  Fields'
<1>1. /\ u \in Slots /\ flags[u] \in SUBSET Flags
      /\ Left(u, Nowhere) \in [Rooms -> Int]
  BY LeftInt DEF Fields
<1>2. OpFlag(flags[u], FALSE) \in SUBSET Flags
  BY <1>1, OpFlagOK
<1>3. room' \in [Slots -> Rooms \cup {Nowhere}] /\ flags' \in [Slots -> SUBSET Flags]
  BY <1>1, <1>2 DEF Fields, Leaves, ExitRoom
<1>4. occupants' \in [Rooms -> Int]
  BY <1>1 DEF Leaves, ExitRoom
<1>5. UNCHANGED <<sock, name, mode, invites, asked>> /\ utent' = utent /\ chatid' = chatid
  BY DEF Leaves, ExitRoom, person
<1>6. QED BY <1>3, <1>4, <1>5 DEF Fields

LEMMA FieldsGone ==
  ASSUME Fields, NEW u \in sock, Gone(u)
  PROVE  Fields'
<1>1. u \in Slots /\ Left(u, Nowhere) \in [Rooms -> Int]
  BY LeftInt DEF Fields
<1>2. /\ room' \in [Slots -> Rooms \cup {Nowhere}] /\ flags' \in [Slots -> SUBSET Flags]
      /\ utent' \in [Slots -> Uids \cup {NoUid}] /\ chatid' \in [Slots -> ChatIds \cup {NoId}]
  BY <1>1 DEF Fields, Gone
<1>3. invites' \in [Rooms -> SUBSET Slots]
  BY DEF Fields, Gone, Forgotten
<1>4. occupants' \in [Rooms -> Int]
  BY <1>1 DEF Gone
<1>5. sock' \subseteq sock /\ UNCHANGED <<name, mode, asked>>
  BY DEF Gone
<1>6. QED BY <1>2, <1>3, <1>4, <1>5 DEF Fields

LEMMA FieldsEntering ==
  ASSUME Fields, NEW u \in Slots, Entering(u)
  PROVE  Fields'
<1>1. CASE \E uid \in Uids : LoginBogus(u, uid)
  BY <1>1, FieldsGone DEF LoginBogus
<1>2. ASSUME NEW uid \in Uids, NEW id \in ChatIds, Login(u, uid, id)
      PROVE  Fields'
  <2>0. Level[uid] \in SUBSET Flags
    BY ChatAssumption
  <2>1. u \in sock /\ sock' = sock
    BY <1>2 DEF Login
  <2>2. utent' \in [Slots -> Uids \cup {NoUid}] /\ chatid' \in [Slots -> ChatIds \cup {NoId}]
    BY <1>2 DEF Login, Fields
  <2>3. CASE Admits(0, u, Level[uid])
    <3>1. Enters(u, 0, Level[uid])
      BY <1>2, <2>1, <2>3 DEF Login, Enters, Open
    <3>2. QED BY <2>0, <2>1, <2>2, <3>1, ZeroIsRoom, FieldsEnter
  <2>4. CASE ~Admits(0, u, Level[uid])
    <3>1. flags' \in [Slots -> SUBSET Flags]
      BY <1>2, <2>0, <2>4 DEF Login, Fields
    <3>2. UNCHANGED <<room, name, occupants, mode, invites, asked>>
      BY <1>2, <2>4 DEF Login
    <3>3. QED BY <2>1, <2>2, <3>1, <3>2 DEF Fields
  <2>5. QED BY <2>3, <2>4
<1>3. ASSUME NEW r \in Rooms, Join(u, r)
      PROVE  Fields'
  <2>1. u \in sock /\ Enters(u, r, flags[u]) /\ utent' = utent /\ chatid' = chatid
    BY <1>3 DEF Join, In, Enters, Called, person
  <2>2. flags[u] \in SUBSET Flags /\ utent' \in [Slots -> Uids \cup {NoUid}]
        /\ chatid' \in [Slots -> ChatIds \cup {NoId}]
    BY <2>1 DEF Fields
  <2>3. QED BY <2>1, <2>2, FieldsEnter
<1>4. ASSUME NEW r \in Rooms, NEW n \in RoomNames, JoinNew(u, r, n)
      PROVE  Fields'
  <2>1. u \in sock /\ Opens(u, r, n) /\ UNCHANGED person
    BY <1>4 DEF JoinNew, In, Opens
  <2>2. QED BY <2>1, FieldsOpen
<1>5. QED BY <1>1, <1>2, <1>3, <1>4 DEF Entering

LEMMA FieldsRuling ==
  ASSUME Fields, NEW u \in Slots, Ruling(u)
  PROVE  Fields'
<1>1. ASSUME NEW n \in RoomNames, NameRoom(u, n)
      PROVE  Fields'
  BY <1>1 DEF NameRoom, Fields, person
<1>2. ASSUME NEW f \in {"locked", "sysop"}, NEW on \in BOOLEAN, SetRoom(u, f, on)
      PROVE  Fields'
  <2>1. mode' \in [Rooms -> SUBSET {"locked", "sysop"}]
    BY <1>2 DEF SetRoom, Fields
  <2>2. QED BY <1>2, <2>1 DEF SetRoom, Fields, person
<1>3. ASSUME NEW v \in Slots, KickOut(u, v)
      PROVE  Fields'
  BY <1>3, FieldsGone DEF KickOut, MayKick, Found
<1>4. ASSUME NEW v \in Slots, KickToMain(u, v)
      PROVE  Fields'
  <2>0. v \in sock /\ sock' = sock /\ UNCHANGED person
    BY <1>4 DEF KickToMain, MayKick, Found
  <2>1. CASE Admits(0, v, flags[v])
    <3>1. Enters(v, 0, flags[v]) /\ flags[v] \in SUBSET Flags
      BY <1>4, <2>0, <2>1 DEF KickToMain, Enters, Open, Fields
    <3>2. utent' \in [Slots -> Uids \cup {NoUid}] /\ chatid' \in [Slots -> ChatIds \cup {NoId}]
      BY <2>0 DEF Fields, person
    <3>3. QED BY <2>0, <3>1, <3>2, ZeroIsRoom, FieldsEnter
  <2>2. CASE ~Admits(0, v, flags[v])
    <3>1. Leaves(v)
      BY <1>4, <2>0, <2>2 DEF KickToMain, Leaves
    <3>2. QED BY <2>0, <3>1, FieldsLeave
  <2>3. QED BY <2>1, <2>2
<1>5. ASSUME NEW v \in Slots, MakeOp(u, v) \/ Toggle(u, v)
      PROVE  Fields'
  <2>1. "room" \in Flags
    BY DEF Flags
  <2>2. flags' \in [Slots -> SUBSET Flags]
    <3>1. CASE MakeOp(u, v)
      BY <3>1, <2>1 DEF MakeOp, Fields
    <3>2. CASE Toggle(u, v)
      BY <3>2, <2>1 DEF Toggle, Fields
    <3>3. QED BY <1>5, <3>1, <3>2
  <2>3. UNCHANGED <<sock, person, room, name, occupants, mode, invites, asked>>
    BY <1>5 DEF MakeOp, Toggle
  <2>4. QED BY <2>2, <2>3 DEF Fields, person
<1>6. ASSUME NEW v \in Slots, Invite(u, v)
      PROVE  Fields'
  <2>1. room[u] \in Rooms
    BY <1>6, RoomIn DEF Invite, In
  <2>2. invites' \in [Rooms -> SUBSET Slots] /\ asked' \subseteq Rooms \X Slots
    BY <1>6, <2>1 DEF Invite, Fields
  <2>3. QED BY <1>6, <2>2 DEF Invite, Fields, person
<1>7. QED BY <1>1, <1>2, <1>3, <1>4, <1>5, <1>6 DEF Ruling

LEMMA FieldsNext ==
  ASSUME Fields, Next
  PROVE  Fields'
<1>1. PICK u \in Slots : \/ Accept(u) \/ LostConn(u)
                         \/ Entering(u) \/ Ruling(u)
                         \/ Goodbye(u) \/ \E id \in ChatIds : Nick(u, id)
  BY DEF Next
<1>2. CASE Accept(u)
  <2>1. /\ sock' = sock \cup {u} /\ room' = [room EXCEPT ![u] = Nowhere]
        /\ asked' \subseteq asked /\ utent' = utent /\ chatid' = chatid
        /\ UNCHANGED <<flags, name, occupants, mode, invites>>
    BY <1>2 DEF Accept, person
  <2>2. room' \in [Slots -> Rooms \cup {Nowhere}]
    BY <2>1 DEF Fields
  <2>3. QED BY <2>1, <2>2 DEF Fields
<1>3. CASE LostConn(u)
  BY <1>3, FieldsGone DEF LostConn
<1>4. CASE Entering(u)
  BY <1>4, FieldsEntering
<1>5. CASE Ruling(u)
  BY <1>5, FieldsRuling
<1>6. CASE Goodbye(u)
  BY <1>6, FieldsLeave DEF Goodbye, In, Leaves
<1>7. CASE \E id \in ChatIds : Nick(u, id)
  BY <1>7 DEF Nick, place, Fields
<1>8. QED BY <1>1, <1>2, <1>3, <1>4, <1>5, <1>6, <1>7

-----------------------------------------------------------------------------
(* The number of occupants *)

LEMMA SockFinite ==
  ASSUME Fields, NEW S \in SUBSET sock
  PROVE  IsFiniteSet(S) /\ Cardinality(S) \in 0..C
<1>1. IsFiniteSet(1..C) /\ Cardinality(1..C) = C
  BY ChatAssumption, FS_Interval
<1>2. S \in SUBSET (1..C)
  BY DEF Fields, Slots
<1>3. IsFiniteSet(S) /\ Cardinality(S) <= C
  BY <1>1, <1>2, FS_Subset
<1>4. Cardinality(S) \in Nat
  BY <1>3, FS_CardinalityType
<1>5. QED BY <1>3, <1>4, ChatAssumption

\* Where a user can be.
Places == Rooms \cup {Nowhere}

\* u goes from its room, if any, to another room or to none.
LEMMA CountMove ==
  ASSUME Fields, OccupantsExact, NEW u \in sock, NEW to \in Places,
         occupants' = Left(u, to), room'[u] = to, \A v \in sock : v # u => room'[v] = room[v],
         sock' \in {sock, sock \ {u}}, u \in sock' \/ to = Nowhere
  PROVE  OccupantsExact'
<1> SUFFICES ASSUME NEW r \in Rooms
             PROVE  occupants'[r] = Cardinality({v \in sock' : room'[v] = r})
  BY DEF OccupantsExact
<1> DEFINE S == {v \in sock : room[v] = r}
           T == {v \in sock' : room'[v] = r}
<1>1. Nowhere \notin Rooms
  BY DEF Nowhere, Rooms
<1>2. u \in Slots /\ sock \subseteq Slots /\ room \in [Slots -> Rooms \cup {Nowhere}]
  BY DEF Fields
<1>3. \A v \in sock : v # u => room'[v] = room[v]
  OBVIOUS
<1>4. room'[u] = to
  OBVIOUS
<1>5. T = IF to = r THEN (S \ {u}) \cup {u} ELSE S \ {u}
  <2>1. CASE to = r
    BY <2>1, <1>1, <1>3, <1>4
  <2>2. CASE to # r
    BY <2>2, <1>1, <1>3, <1>4
  <2>3. QED BY <2>1, <2>2
<1>6. IsFiniteSet(S) /\ Cardinality(S) \in Nat
  BY SockFinite
<1>7. IsFiniteSet(S \ {u}) /\ Cardinality(S \ {u}) = Cardinality(S) - (IF u \in S THEN 1 ELSE 0)
  BY <1>6, FS_RemoveElement
<1>8. Cardinality((S \ {u}) \cup {u}) = Cardinality(S \ {u}) + 1
  BY <1>7, FS_AddElement
<1>9. occupants[r] = Cardinality(S)
  BY DEF OccupantsExact
<1>10. occupants'[r] = occupants[r] - (IF r = room[u] THEN 1 ELSE 0) + (IF r = to THEN 1 ELSE 0)
  BY DEF Left
<1>11. u \in S <=> r = room[u]
  OBVIOUS
<1> HIDE DEF S
<1>12. CASE to = r
  <2>1. Cardinality(T) = Cardinality(S) - (IF u \in S THEN 1 ELSE 0) + 1
    BY <1>5, <1>7, <1>8, <1>12
  <2>2. QED BY <1>6, <1>9, <1>10, <1>11, <1>12, <2>1
<1>13. CASE to # r
  <2>1. Cardinality(T) = Cardinality(S) - (IF u \in S THEN 1 ELSE 0)
    BY <1>5, <1>7, <1>13
  <2>2. QED BY <1>6, <1>9, <1>10, <1>11, <1>13, <2>1
<1>14. QED BY <1>12, <1>13

LEMMA CountNext ==
  ASSUME ChatInv, Next
  PROVE  OccupantsExact'
<1>0. Fields /\ OccupantsExact /\ sock \subseteq Slots /\ room \in [Slots -> Rooms \cup {Nowhere}]
  BY DEF ChatInv, Fields
<1>1. ASSUME NEW u \in sock, NEW r \in Rooms, NEW f \in SUBSET Flags, Enters(u, r, f)
      PROVE  OccupantsExact'
  <2>1. occupants' = Left(u, r) /\ sock' \in {sock, sock \ {u}} /\ u \in sock'
    BY <1>1 DEF Enters, Go
  <2>2. room'[u] = r /\ \A v \in sock : v # u => room'[v] = room[v]
    BY <1>0, <1>1 DEF Enters, Go
  <2>3. r \in Places
    BY DEF Places
  <2>4. QED BY <1>0, <2>1, <2>2, <2>3, CountMove
<1>2. ASSUME NEW u \in sock, NEW r \in Rooms, NEW n \in RoomNames, Opens(u, r, n)
      PROVE  OccupantsExact'
  <2>1. occupants' = Left(u, r) /\ sock' \in {sock, sock \ {u}} /\ u \in sock'
    BY <1>2 DEF Opens, GoNew
  <2>2. room'[u] = r /\ \A v \in sock : v # u => room'[v] = room[v]
    BY <1>0, <1>2 DEF Opens, GoNew
  <2>3. r \in Places
    BY DEF Places
  <2>4. QED BY <1>0, <2>1, <2>2, <2>3, CountMove
<1>3. ASSUME NEW u \in sock, Leaves(u) \/ Gone(u)
      PROVE  OccupantsExact'
  <2>1. occupants' = Left(u, Nowhere) /\ sock' \in {sock, sock \ {u}}
    BY <1>3 DEF Leaves, ExitRoom, Gone
  <2>2. room'[u] = Nowhere /\ \A v \in sock : v # u => room'[v] = room[v]
    BY <1>0, <1>3 DEF Leaves, ExitRoom, Gone
  <2>3. Nowhere \in Places
    BY DEF Places
  <2>4. QED BY <1>0, <2>1, <2>2, <2>3, CountMove
<1>4. ASSUME NEW u \in Slots, Accept(u)
      PROVE  OccupantsExact'
  <2> SUFFICES ASSUME NEW r \in Rooms
               PROVE  occupants'[r] = Cardinality({v \in sock' : room'[v] = r})
    BY DEF OccupantsExact
  <2>1. /\ u \notin sock /\ sock' = sock \cup {u}
        /\ room' = [room EXCEPT ![u] = Nowhere] /\ occupants' = occupants
    BY <1>4 DEF Accept
  <2>2. r # Nowhere
    BY DEF Rooms, Nowhere
  <2>3. {v \in sock' : room'[v] = r} = {v \in sock : room[v] = r}
    BY <1>0, <2>1, <2>2 DEF Fields
  <2>4. QED BY <1>0, <2>1, <2>3 DEF OccupantsExact
<1>5. CASE Stays
  BY <1>0, <1>5 DEF Stays, OccupantsExact
<1>6. QED BY <1>1, <1>2, <1>3, <1>4, <1>5, Cases

-----------------------------------------------------------------------------
(* The names of rooms *)

\* A room that is open after a move was open before, but for the one entered.
LEMMA OpenBefore ==
  ASSUME Fields, NEW u \in sock, NEW to, occupants' = Left(u, to),
         NEW q \in Rooms, Open(q)', q # to
  PROVE  Open(q)
<1>1. CASE q = 0
  BY <1>1 DEF Open
<1>2. CASE q # 0
  <2>1. occupants'[q] > 0
    BY <1>2 DEF Open
  <2>2. occupants'[q] = occupants[q] - (IF q = room[u] THEN 1 ELSE 0)
    BY DEF Left, Fields
  <2>3. occupants[q] \in Int
    BY DEF Fields
  <2>4. QED BY <2>1, <2>2, <2>3 DEF Open
<1>3. QED BY <1>1, <1>2

\* roomid_to_indx finds a room whenever one of that name is open.
LEMMA FoundIfOpen ==
  ASSUME Fields, RoomsDistinct, NEW q \in Rooms, NEW n, Open(q), name[q] = n
  PROVE  Called(q, n)
<1>1. \A p \in Rooms : p < q /\ Open(p) => name[p] # n
  <2> SUFFICES ASSUME NEW p \in Rooms, p < q, Open(p), name[p] = n
               PROVE  FALSE
    OBVIOUS
  <2>1. p = q
    BY DEF RoomsDistinct
  <2>2. QED BY <2>1 DEF Rooms
<1>2. QED BY <1>1 DEF Called

LEMMA NamesKept ==
  ASSUME Fields, RoomsDistinct, NEW u \in sock, NEW to, occupants' = Left(u, to),
         to \in Rooms => Open(to), name' = name
  PROVE  RoomsDistinct'
<1>1. ASSUME NEW q \in Rooms, Open(q)'
      PROVE  Open(q)
  BY <1>1, OpenBefore
<1>2. QED BY <1>1 DEF RoomsDistinct

\* One open room gets a name that no open room had.
LEMMA NamesChanged ==
  ASSUME Fields, RoomsDistinct, NEW r \in Rooms, r # 0, NEW n,
         \A q \in Rooms : ~Called(q, n),
         name' = [name EXCEPT ![r] = n],
         \A q \in Rooms : Open(q)' /\ q # r => Open(q)
  PROVE  RoomsDistinct'
<1>1. \A q \in Rooms : Open(q) => name[q] # n
  BY FoundIfOpen
<1>2. name'[r] = n /\ \A q \in Rooms : q # r => name'[q] = name[q]
  BY DEF Fields
<1>3. name'[0] = Main
  BY <1>2, ZeroIsRoom DEF RoomsDistinct
<1>4. ASSUME NEW p \in Rooms, NEW q \in Rooms, Open(p)', Open(q)', name'[p] = name'[q]
      PROVE  p = q
  <2>1. CASE p # r /\ q # r
    BY <1>2, <1>4, <2>1 DEF RoomsDistinct
  <2>2. CASE p = r \/ q = r
    BY <1>1, <1>2, <1>4, <2>2
  <2>3. QED BY <2>1, <2>2
<1>5. QED BY <1>3, <1>4 DEF RoomsDistinct

LEMMA RoomNamesNext ==
  ASSUME ChatInv, Next
  PROVE  RoomsDistinct'
<1>0. Fields /\ RoomsDistinct /\ Nowhere \notin Rooms
  BY DEF ChatInv, Nowhere, Rooms
<1>1. ASSUME NEW u \in sock, NEW r \in Rooms, NEW f \in SUBSET Flags, Enters(u, r, f)
      PROVE  RoomsDistinct'
  BY <1>0, <1>1, NamesKept DEF Enters, Go
<1>2. ASSUME NEW u \in sock, NEW r \in Rooms, NEW n \in RoomNames, Opens(u, r, n)
      PROVE  RoomsDistinct'
  <2>1. /\ r # 0 /\ (\A q \in Rooms : ~Called(q, n))
        /\ name' = [name EXCEPT ![r] = n] /\ occupants' = Left(u, r)
    BY <1>2 DEF Opens, NewRoom, GoNew
  <2>2. \A q \in Rooms : Open(q)' /\ q # r => Open(q)
    BY <1>0, <2>1, OpenBefore
  <2>3. QED BY <1>0, <2>1, <2>2, NamesChanged
<1>3. ASSUME NEW u \in sock, Leaves(u) \/ Gone(u)
      PROVE  RoomsDistinct'
  BY <1>0, <1>3, NamesKept DEF Leaves, ExitRoom, Gone
<1>4. ASSUME NEW u \in Slots, Accept(u)
      PROVE  RoomsDistinct'
  BY <1>0, <1>4 DEF Accept, RoomsDistinct, Open
<1>5. CASE Stays
  <2>1. CASE name' = name
    BY <1>0, <1>5, <2>1 DEF Stays, RoomsDistinct, Open
  <2>2. ASSUME NEW u \in sock, NEW n \in RoomNames, NameRoom(u, n)
        PROVE  RoomsDistinct'
    <3>1. room[u] \in Rooms
      BY <1>0, <2>2, RoomIn DEF NameRoom, In, Fields
    <3>2. /\ room[u] # 0 /\ (\A q \in Rooms : ~Called(q, n))
          /\ name' = [name EXCEPT ![room[u]] = n] /\ occupants' = occupants
      BY <2>2 DEF NameRoom
    <3>3. \A q \in Rooms : Open(q)' => Open(q)
      BY <3>2 DEF Open
    <3>4. QED BY <1>0, <3>1, <3>2, <3>3, NamesChanged
  <2>3. QED BY <1>5, <2>1, <2>2 DEF Stays
<1>6. QED BY <1>1, <1>2, <1>3, <1>4, <1>5, Cases

-----------------------------------------------------------------------------
(* The names and users of connections *)

\* A connection ends: its slot is blank again.
LEMMA IdsGone ==
  ASSUME ChatInv, NEW u \in sock, Gone(u)
  PROVE  Blank' /\ ChatIdsDistinct'
<1>1. /\ sock' = sock \ {u} /\ u \in Slots /\ sock \subseteq Slots
      /\ utent' = [utent EXCEPT ![u] = NoUid] /\ chatid' = [chatid EXCEPT ![u] = NoId]
      /\ utent \in [Slots -> Uids \cup {NoUid}] /\ chatid \in [Slots -> ChatIds \cup {NoId}]
  BY DEF Gone, ChatInv, Fields
<1>2. Blank'
  BY <1>1 DEF ChatInv, Blank
<1>3. ChatIdsDistinct'
  BY <1>1 DEF ChatInv, ChatIdsDistinct
<1>4. QED BY <1>2, <1>3

\* A name and a user that no other connection has.
LEMMA IdsSet ==
  ASSUME ChatInv, NEW u \in sock, NEW id \in ChatIds, IdFree(u, id), sock' = sock,
         chatid' = [chatid EXCEPT ![u] = id],
         \/ utent' = utent
         \/ \E uid \in Uids : /\ \A v \in sock : utent[v] # uid
                              /\ utent' = [utent EXCEPT ![u] = uid]
  PROVE  Blank' /\ ChatIdsDistinct'
<1>1. /\ u \in Slots /\ sock \subseteq Slots
      /\ utent \in [Slots -> Uids \cup {NoUid}] /\ chatid \in [Slots -> ChatIds \cup {NoId}]
  BY DEF ChatInv, Fields
<1>2. \A v \in Slots : v # u => chatid'[v] = chatid[v] /\ utent'[v] = utent[v]
  BY <1>1
<1>3. Blank'
  BY <1>1, <1>2 DEF ChatInv, Blank
<1>4. chatid'[u] = id /\ \A v \in sock : chatid[v] = id => v = u
  BY <1>1 DEF IdFree
<1>5. \A v, w \in sock : chatid'[v] = chatid'[w] /\ chatid'[v] # NoId => v = w
  BY <1>1, <1>2, <1>4 DEF ChatInv, ChatIdsDistinct
<1>6. \A v, w \in sock : utent'[v] = utent'[w] /\ utent'[v] # NoUid => v = w
  <2>1. CASE utent' = utent
    BY <2>1 DEF ChatInv, ChatIdsDistinct
  <2>2. CASE utent' # utent
    BY <1>1, <1>2, <2>2 DEF ChatInv, ChatIdsDistinct
  <2>3. QED BY <2>1, <2>2
<1>7. QED BY <1>3, <1>5, <1>6 DEF ChatIdsDistinct

LEMMA IdsSame ==
  ASSUME ChatInv, UNCHANGED <<sock, person>>
  PROVE  Blank' /\ ChatIdsDistinct'
  BY DEF ChatInv, Blank, ChatIdsDistinct, person

LEMMA IdsNext ==
  ASSUME ChatInv, Next
  PROVE  Blank' /\ ChatIdsDistinct'
<1>1. PICK u \in Slots : \/ Accept(u) \/ LostConn(u)
                         \/ Entering(u) \/ Ruling(u)
                         \/ Goodbye(u) \/ \E id \in ChatIds : Nick(u, id)
  BY DEF Next
<1>2. CASE Accept(u)
  <2>1. u \notin sock /\ sock' = sock \cup {u} /\ utent' = utent /\ chatid' = chatid
    BY <1>2 DEF Accept, person
  <2>2. utent[u] = NoUid /\ chatid[u] = NoId
    BY <2>1 DEF ChatInv, Blank
  <2>3. Blank'
    BY <2>1 DEF ChatInv, Blank
  <2>4. ChatIdsDistinct'
    BY <2>1, <2>2 DEF ChatInv, ChatIdsDistinct
  <2>5. QED BY <2>3, <2>4
<1>3. CASE LostConn(u)
  BY <1>3, IdsGone DEF LostConn
<1>4. CASE Entering(u)
  <2>1. CASE \E uid \in Uids : LoginBogus(u, uid)
    BY <2>1, IdsGone DEF LoginBogus
  <2>2. ASSUME NEW uid \in Uids, NEW id \in ChatIds, Login(u, uid, id)
        PROVE  Blank' /\ ChatIdsDistinct'
    BY <2>2, IdsSet DEF Login
  <2>3. ASSUME NEW r \in Rooms, Join(u, r) \/ \E n \in RoomNames : JoinNew(u, r, n)
        PROVE  UNCHANGED <<sock, person>>
    BY <2>3 DEF Join, JoinNew
  <2>4. QED BY <1>4, <2>1, <2>2, <2>3, IdsSame DEF Entering
<1>5. CASE Ruling(u)
  <2>1. ASSUME NEW v \in Slots, KickOut(u, v)
        PROVE  Blank' /\ ChatIdsDistinct'
    BY <2>1, IdsGone DEF KickOut, MayKick, Found
  <2>2. ASSUME NEW v \in Slots, KickToMain(u, v) \/ MakeOp(u, v) \/ Toggle(u, v) \/ Invite(u, v)
        PROVE  UNCHANGED <<sock, person>>
    BY <2>2 DEF KickToMain, MakeOp, Toggle, Invite
  <2>3. ASSUME \/ \E n \in RoomNames : NameRoom(u, n)
               \/ \E f \in {"locked", "sysop"}, on \in BOOLEAN : SetRoom(u, f, on)
        PROVE  UNCHANGED <<sock, person>>
    BY <2>3 DEF NameRoom, SetRoom
  <2>4. QED BY <1>5, <2>1, <2>2, <2>3, IdsSame DEF Ruling
<1>6. CASE Goodbye(u)
  BY <1>6, IdsSame DEF Goodbye
<1>7. CASE \E id \in ChatIds : Nick(u, id)
  BY <1>7, IdsSet DEF Nick, In
<1>8. QED BY <1>1, <1>2, <1>3, <1>4, <1>5, <1>6, <1>7

-----------------------------------------------------------------------------
(* Invitations *)

LEMMA InvitesNext ==
  ASSUME ChatInv, Next
  PROVE  InvitesMeant'
<1>0. /\ \A r \in Rooms : \A u \in invites[r] : u \in sock /\ <<r, u>> \in asked
      /\ invites \in [Rooms -> SUBSET Slots] /\ Fields
  BY DEF ChatInv, InvitesMeant, Fields
<1>1. ASSUME NEW u \in sock, NEW r \in Rooms, NEW f \in SUBSET Flags, Enters(u, r, f)
      PROVE  InvitesMeant'
  <2>1. sock' = sock /\ asked' = asked \ {<<r, u>>} /\ invites' = [invites EXCEPT ![r] = @ \ {u}]
    BY <1>1 DEF Enters, Go, Uninvited
  <2>2. QED BY <1>0, <2>1 DEF InvitesMeant
<1>2. ASSUME NEW u \in sock, NEW r \in Rooms, NEW n \in RoomNames, Opens(u, r, n)
      PROVE  InvitesMeant'
  <2>1. sock' = sock /\ asked' = {a \in asked : a[1] # r} /\ invites' = [invites EXCEPT ![r] = {}]
    BY <1>2 DEF Opens, GoNew, Uninvited
  <2>2. QED BY <1>0, <2>1 DEF InvitesMeant
<1>3. ASSUME NEW u \in sock, Leaves(u)
      PROVE  InvitesMeant'
  BY <1>0, <1>3 DEF Leaves, ExitRoom, InvitesMeant
<1>4. ASSUME NEW u \in sock, Gone(u)
      PROVE  InvitesMeant'
  <2>1. sock' = sock \ {u} /\ asked' = asked /\ \A r \in Rooms : invites'[r] = invites[r] \ {u}
    BY <1>4 DEF Gone, Forgotten
  <2>2. QED BY <1>0, <2>1 DEF InvitesMeant
<1>5. ASSUME NEW u \in Slots, Accept(u)
      PROVE  InvitesMeant'
  <2>1. /\ u \notin sock /\ sock' = sock \cup {u} /\ invites' = invites
        /\ asked' = {a \in asked : a[2] # u}
    BY <1>5 DEF Accept
  <2>2. QED BY <1>0, <2>1 DEF InvitesMeant
<1>6. CASE Stays
  <2>1. CASE UNCHANGED <<invites, asked>>
    BY <1>0, <1>6, <2>1 DEF Stays, InvitesMeant
  <2>2. ASSUME NEW u \in sock, NEW v \in sock, Invite(u, v)
        PROVE  InvitesMeant'
    <3>1. room[u] \in Rooms
      BY <1>0, <2>2, RoomIn DEF Invite, In, Fields
    <3>2. /\ sock' = sock /\ invites' = [invites EXCEPT ![room[u]] = @ \cup {v}]
          /\ asked' = asked \cup {<<room[u], v>>}
      BY <2>2 DEF Invite
    <3>3. QED BY <1>0, <3>1, <3>2 DEF InvitesMeant
  <2>3. QED BY <1>6, <2>1, <2>2 DEF Stays
<1>7. QED BY <1>1, <1>2, <1>3, <1>4, <1>5, <1>6, Cases

-----------------------------------------------------------------------------
(* The theorems *)

LEMMA InitInv == Init => ChatInv
<1> SUFFICES ASSUME Init PROVE ChatInv
  OBVIOUS
<1>1. Fields
  BY ChatAssumption, ZeroIsRoom DEF Init, Fields
<1>2. Blank /\ InvitesMeant /\ ChatIdsDistinct
  BY DEF Init, Blank, InvitesMeant, ChatIdsDistinct
<1>3. OccupantsExact
  <2>1. \A r \in Rooms : {u \in sock : room[u] = r} = {}
    BY DEF Init
  <2>2. \A r \in Rooms : occupants[r] = 0
    BY DEF Init
  <2>3. QED BY <2>1, <2>2, FS_EmptySet DEF OccupantsExact
<1>4. RoomsDistinct
  BY ZeroIsRoom DEF Init, RoomsDistinct, Open
<1>5. QED BY <1>1, <1>2, <1>3, <1>4 DEF ChatInv

LEMMA StepInv == ChatInv /\ [Next]_cvars => ChatInv'
<1> SUFFICES ASSUME ChatInv, [Next]_cvars PROVE ChatInv'
  OBVIOUS
<1>1. CASE Next
  <2>1. Fields'
    BY <1>1, FieldsNext DEF ChatInv
  <2>2. QED BY <1>1, <2>1, IdsNext, CountNext, RoomNamesNext, InvitesNext DEF ChatInv
<1>2. CASE UNCHANGED cvars
  <2>1. UNCHANGED <<sock, utent, chatid, room, flags, name, occupants, mode, invites, asked>>
    BY <1>2 DEF cvars, person, place
  <2>2. Fields'
    BY <2>1 DEF ChatInv, Fields
  <2>3. Blank' /\ ChatIdsDistinct'
    BY <2>1 DEF ChatInv, Blank, ChatIdsDistinct
  <2>4. OccupantsExact' /\ RoomsDistinct' /\ InvitesMeant'
    BY <2>1 DEF ChatInv, OccupantsExact, RoomsDistinct, Open, InvitesMeant
  <2>5. QED BY <2>2, <2>3, <2>4 DEF ChatInv
<1>3. QED BY <1>1, <1>2

\* The inductive invariant: each conjunct of it is what the next steps of the
\* daemon (station.c) rely on.
THEOREM ChatInvariant == Spec => []ChatInv
BY InitInv, StepInv, PTL DEF Spec

\* All fields keep their types; no count of a room falls below zero or grows
\* past the number of connections.
THEOREM ChatTypeCorrect == Spec => []TypeOK
<1>1. ChatInv => TypeOK
  <2> SUFFICES ASSUME ChatInv PROVE TypeOK
    OBVIOUS
  <2>1. Fields /\ OccupantsExact
    BY DEF ChatInv
  <2>2. \A r \in Rooms : Cardinality({u \in sock : room[u] = r}) \in 0..C
    BY <2>1, SockFinite
  <2>3. occupants \in [Rooms -> 0..C]
    BY <2>1, <2>2 DEF Fields, OccupantsExact
  <2>4. QED BY <2>1, <2>3 DEF Fields, TypeOK
<1>2. QED BY <1>1, ChatInvariant, PTL

\* The count of every room is the number of users in it.
THEOREM OccupantsCorrect == Spec => []OccupantsExact
BY ChatInvariant, PTL DEF ChatInv

\* Open rooms are told apart by their names.
THEOREM RoomsCorrect == Spec => []RoomsDistinct
BY ChatInvariant, PTL DEF ChatInv

\* Connections are told apart by their names and by their users.
THEOREM ChatIdsCorrect == Spec => []ChatIdsDistinct
BY ChatInvariant, PTL DEF ChatInv

-----------------------------------------------------------------------------
\* What InvitedOnly says of a step of u, and OpStaysBehind.
LEMMA EntryStep ==
  ASSUME ChatInv, Next, NEW u \in sock, room'[u] \notin {room[u], Nowhere}
  PROVE  /\ "locked" \in mode'[room'[u]] /\ flags'[u] \cap {"sysop", "chatop"} = {}
              => <<room'[u], u>> \in asked
         /\ "sysop" \in mode'[room'[u]] /\ "sysop" \notin flags'[u] => <<room'[u], u>> \in asked
         /\ "room" \in flags'[u] => ~Open(room'[u])
<1> DEFINE Goal == /\ "locked" \in mode'[room'[u]] /\ flags'[u] \cap {"sysop", "chatop"} = {}
                        => <<room'[u], u>> \in asked
                   /\ "sysop" \in mode'[room'[u]] /\ "sysop" \notin flags'[u]
                        => <<room'[u], u>> \in asked
                   /\ "room" \in flags'[u] => ~Open(room'[u])
<1> SUFFICES Goal
  OBVIOUS
<1> HIDE DEF Goal
<1>0. /\ u \in Slots /\ room \in [Slots -> Rooms \cup {Nowhere}]
      /\ flags \in [Slots -> SUBSET Flags] /\ mode \in [Rooms -> SUBSET {"locked", "sysop"}]
      /\ \A r \in Rooms : \A v \in invites[r] : <<r, v>> \in asked
  BY DEF ChatInv, Fields, InvitesMeant
<1>1. ASSUME NEW v \in sock, NEW r \in Rooms, NEW f \in SUBSET Flags, Enters(v, r, f)
      PROVE  Goal
  <2>1. /\ room' = [room EXCEPT ![v] = r] /\ flags' = [flags EXCEPT ![v] = f \ {"room"}]
        /\ mode' = mode /\ Admits(r, v, f)
    BY <1>1 DEF Enters, Go, OpFlag
  <2>2. v = u
    BY <1>0, <2>1
  <2>3. room'[u] = r /\ flags'[u] = f \ {"room"}
    BY <1>0, <2>1, <2>2
  <2>4. f \cap {"sysop", "chatop"} = flags'[u] \cap {"sysop", "chatop"}
    BY <2>3
  <2>5. u \in invites[r] => <<r, u>> \in asked
    BY <1>0
  <2>6. "locked" \in mode[r] /\ f \cap {"sysop", "chatop"} = {} => u \in invites[r]
    BY <2>1, <2>2 DEF Admits
  <2>7. "sysop" \in mode[r] /\ "sysop" \notin f => u \in invites[r]
    BY <2>1, <2>2 DEF Admits
  <2>8. QED BY <2>1, <2>3, <2>4, <2>5, <2>6, <2>7 DEF Goal
<1>2. ASSUME NEW v \in sock, NEW r \in Rooms, NEW n \in RoomNames, Opens(v, r, n)
      PROVE  Goal
  <2>1. /\ room' = [room EXCEPT ![v] = r] /\ mode' = [mode EXCEPT ![r] = {}]
        /\ r # 0 /\ occupants[r] = 0
    BY <1>2 DEF Opens, GoNew, NewRoom
  <2>2. room'[u] = r
    BY <1>0, <2>1
  <2>3. mode'[r] = {} /\ ~Open(r)
    BY <1>0, <2>1 DEF Open
  <2>4. QED BY <2>2, <2>3 DEF Goal
<1>3. ASSUME NEW v \in Slots, Leaves(v) \/ Gone(v) \/ Accept(v)
      PROVE  Goal
  BY <1>0, <1>3 DEF Leaves, ExitRoom, Gone, Accept
<1>4. CASE Stays
  BY <1>4 DEF Stays
<1>5. sock \subseteq Slots
  BY DEF ChatInv, Fields
<1>6. QED BY <1>1, <1>2, <1>3, <1>4, <1>5, Cases

\* No one without the level for it enters a room that is locked or kept for
\* sysops but by an invitation to that room, given on this connection.
THEOREM InvitationsCorrect == Spec => InvitedOnly
<1>1. ChatInv /\ [Next]_cvars =>
        [\A u \in sock : room'[u] \notin {room[u], Nowhere} =>
           LET r == room'[u]
               f == flags'[u]
           IN  /\ "locked" \in mode'[r] /\ f \cap {"sysop", "chatop"} = {} => <<r, u>> \in asked
               /\ "sysop" \in mode'[r] /\ "sysop" \notin f => <<r, u>> \in asked]_cvars
  BY EntryStep
<1>2. QED BY <1>1, ChatInvariant, PTL DEF Spec, InvitedOnly

\* No one enters an open room as its operator.
THEOREM OperatorsCorrect == Spec => OpStaysBehind
<1>1. ChatInv /\ [Next]_cvars =>
        [\A u \in sock : /\ room'[u] \notin {room[u], Nowhere}
                         /\ "room" \in flags'[u]
                         => ~Open(room'[u])]_cvars
  BY EntryStep
<1>2. QED BY <1>1, ChatInvariant, PTL DEF Spec, OpStaysBehind
=============================================================================
