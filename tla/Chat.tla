-------------------------------- MODULE Chat --------------------------------
(***************************************************************************)
(* The chat daemon (daemon/station.c): connections, users, and rooms that  *)
(* are opened by entering them under a new name and vanish when the last   *)
(* user leaves.  The daemon is one process and handles one line of one     *)
(* connection at a time, so a command is one step; what can go wrong is in *)
(* the order of the commands of all users, who come, are kicked and lose   *)
(* their connections at any time, while slots and rooms are used again.    *)
(*                                                                         *)
(* Left out: what is only displayed (topics, lists, messages, actions) and *)
(* the two flags of a room that matter to that only.  A packet holds one   *)
(* line, though process_chat_command goes on with the next line of the     *)
(* same packet, even when the one before has ended the connection; a       *)
(* command /flags names one flag; and no sysop gives /shutdown, with which *)
(* the daemon ends.                                                        *)
(***************************************************************************)
EXTENDS Integers, FiniteSets

CONSTANTS
  C,          \* CHATMAXACTIVE, the number of connections
  R,          \* MAXROOM
  RoomNames,  \* what rooms can be called; strcasecmp tells them apart
  Main,       \* CHAT_MAIN_ROOM
  ChatIds,    \* the names users go by in the chat
  NoId,       \* the empty name
  Uids,       \* the users' numbers, which the daemon calls utent
  NoUid,      \* utent of a connection without login
  Level       \* the user level that the client sends, as a set of Flags

\* "room" is PERM_CHATROOM, which is PERM_CHAT: most users have it when they
\* come.  "other" stands for the bits that only make flags different from 0.
Flags == {"room", "chatop", "sysop", "other"}

ASSUME ChatAssumption ==
  /\ C \in Nat \ {0}
  /\ R \in Nat \ {0}
  /\ Main \in RoomNames
  /\ NoId \notin ChatIds
  /\ NoUid \notin Uids
  /\ Level \in [Uids -> SUBSET Flags]

VARIABLES
  sock,       \* the slots of users[] that hold a connection
  utent, chatid, room, flags,          \* the other fields of users[]
  name, occupants, mode, invites,      \* the fields of rooms[]; mode is flags
  asked       \* history: <<r, u>> when who is connected as u may enter room r as invited

person == <<utent, chatid>>
place  == <<room, flags, name, occupants, mode, invites, asked>>
cvars  == <<sock, person, place>>

Slots == 1..C
Rooms == 0..(R - 1)
Nowhere == -1

SYSOP(u)      == "sysop"  \in flags[u]
CHATOP(u)     == "chatop" \in flags[u]
ROOMOP(u)     == "room"   \in flags[u]
RESTRICTED(u) == flags[u] = {}
Power(u)      == ROOMOP(u) \/ SYSOP(u) \/ CHATOP(u)

\* (What a room that no one is in is called does not matter.)
Init ==
  /\ sock      = {}
  /\ utent     = [u \in Slots |-> NoUid]
  /\ chatid    = [u \in Slots |-> NoId]
  /\ room      = [u \in Slots |-> 0]
  /\ flags     = [u \in Slots |-> {}]
  /\ name      = [r \in Rooms |-> Main]
  /\ occupants = [r \in Rooms |-> 0]
  /\ mode      = [r \in Rooms |-> {}]
  /\ invites   = [r \in Rooms |-> {}]
  /\ asked     = {}

\* chatid_to_indx finds u: by its name, or as the first that has none yet.
Found(u) == u \in sock /\ \A v \in sock : v < u => chatid[v] # chatid[u]

\* roomid_to_indx finds r under name n.
Open(r)     == r = 0 \/ occupants[r] > 0
Called(r, n) == Open(r) /\ name[r] = n /\ \A q \in Rooms : q < r /\ Open(q) => name[q] # n
NewRoom(r)  == r # 0 /\ occupants[r] = 0 /\ \A q \in Rooms : 0 < q /\ q < r => occupants[q] > 0

\* The user in slot u is connected and in a room, and may give commands.
In(u) == u \in sock /\ room[u] # Nowhere

-----------------------------------------------------------------------------
(* exit_room, enter_room and logout_user *)

\* Mutant of Left: a user who goes to the main room by force is not counted out.
MutLeft(u, to) ==
  [r \in Rooms |-> occupants[r] - (IF r = room[u] /\ to # 0 THEN 1 ELSE 0)
                                + (IF r = to THEN 1 ELSE 0)]

\* The number of occupants when u has gone from its room, if any, to another.
Left(u, to) ==
  [r \in Rooms |-> occupants[r] - (IF r = room[u] THEN 1 ELSE 0)
                                + (IF r = to THEN 1 ELSE 0)]

\* What enter_room asks of a user with flags f.
Admits(r, u, f) ==
  /\ f \cap {"sysop", "chatop"} # {} \/ "locked" \notin mode[r] \/ u \in invites[r]
  /\ "sysop" \in f \/ "sysop" \notin mode[r] \/ u \in invites[r]

\* Mutant of OpFlag: a user who moves keeps the flag.
MutOpFlag(f, new) == IF new THEN f \cup {"room"} ELSE f

\* exit_room takes the flag of a room operator, enter_room gives it to who
\* opens a room.
OpFlag(f, new) == IF new THEN f \cup {"room"} ELSE f \ {"room"}

\* Mutant of Uninvited: the invitations of the room that had the number stay.
MutUninvited(r, u, new) == [invites EXCEPT ![r] = @ \ {u}]

\* The invitations after u has entered r.
Uninvited(r, u, new) == [invites EXCEPT ![r] = IF new THEN {} ELSE @ \ {u}]

\* The part of enter_room after its checks: u, with flags f, goes to r.
Go(u, f, r) ==
  /\ room'      = [room EXCEPT ![u] = r]
  /\ flags'     = [flags EXCEPT ![u] = OpFlag(f, FALSE)]
  /\ occupants' = Left(u, r)
  /\ invites'   = Uninvited(r, u, FALSE)
  /\ asked'     = asked \ {<<r, u>>}
  /\ UNCHANGED <<name, mode>>

\* The same when enter_room opens room r under name n.
GoNew(u, r, n) ==
  /\ room'      = [room EXCEPT ![u] = r]
  /\ flags'     = [flags EXCEPT ![u] = OpFlag(flags[u], TRUE)]
  /\ occupants' = Left(u, r)
  /\ invites'   = Uninvited(r, u, TRUE)
  /\ asked'     = {a \in asked : a[1] # r}
  /\ name'      = [name EXCEPT ![r] = n]
  /\ mode'      = [mode EXCEPT ![r] = {}]

\* exit_room, after which u is in no room.
ExitRoom(u) ==
  /\ room'      = [room EXCEPT ![u] = Nowhere]
  /\ flags'     = [flags EXCEPT ![u] = OpFlag(@, FALSE)]
  /\ occupants' = Left(u, Nowhere)
  /\ UNCHANGED <<name, mode, invites, asked>>

Forgotten(u) == [r \in Rooms |-> invites[r] \ {u}]

\* exit_room and logout_user, the end of the connection.
Gone(u) ==
  /\ sock'      = sock \ {u}
  /\ utent'     = [utent EXCEPT ![u] = NoUid]
  /\ chatid'    = [chatid EXCEPT ![u] = NoId]
  /\ room'      = [room EXCEPT ![u] = Nowhere]
  /\ flags'     = [flags EXCEPT ![u] = {}]
  /\ occupants' = Left(u, Nowhere)
  /\ invites'   = Forgotten(u)
  /\ UNCHANGED <<name, mode, asked>>

-----------------------------------------------------------------------------
(* The main loop *)

\* Mutant of Accept: the room of a slot is not set.
MutAccept(u) ==
  /\ u \in Slots \ sock
  /\ \A v \in Slots : v < u => v \in sock
  /\ sock'  = sock \cup {u}
  /\ asked' = {a \in asked : a[2] # u}
  /\ UNCHANGED <<person, room, flags, name, occupants, mode, invites>>

\* A connection is accepted into the first slot that is free.  All rooms of
\* users[] are 0 when the daemon starts.
Accept(u) ==
  /\ u \in Slots \ sock
  /\ \A v \in Slots : v < u => v \in sock
  /\ sock'  = sock \cup {u}
  /\ room'  = [room EXCEPT ![u] = Nowhere]
  /\ asked' = {a \in asked : a[2] # u}
  /\ UNCHANGED <<person, flags, name, occupants, mode, invites>>

\* The connection breaks, or the user is not in a room and sends anything
\* but a login.
LostConn(u) == u \in sock /\ Gone(u)

-----------------------------------------------------------------------------
(* Commands *)

\* login_user for a user who is connected already.
LoginBogus(u, uid) ==
  /\ u \in sock
  /\ room[u] = Nowhere
  /\ \E v \in sock : utent[v] = uid
  /\ Gone(u)

\* Mutant of IdFree: a first name is not looked for.
MutIdFree(u, id) == chatid[u] = NoId \/ \A v \in sock : chatid[v] = id => v = u

\* login_user and chat_nick: nobody else goes by that name.
IdFree(u, id) == \A v \in sock : chatid[v] = id => v = u

Login(u, uid, id) ==
  /\ u \in sock
  /\ room[u] = Nowhere
  /\ \A v \in sock : utent[v] # uid
  /\ IdFree(u, id) /\ chatid[u] # id
  /\ utent'  = [utent EXCEPT ![u] = uid]
  /\ chatid' = [chatid EXCEPT ![u] = id]
  /\ IF Admits(0, u, Level[uid])
       THEN Go(u, Level[uid], 0)
       ELSE /\ flags' = [flags EXCEPT ![u] = Level[uid]]
            /\ UNCHANGED <<room, name, occupants, mode, invites, asked>>
  /\ UNCHANGED sock

\* chat_goodbye; the connection stays until the client closes it.
Goodbye(u) ==
  /\ In(u)
  /\ ExitRoom(u)
  /\ UNCHANGED <<sock, person>>

\* chat_join, to a room that there is.
Join(u, r) ==
  /\ In(u) /\ ~RESTRICTED(u)
  /\ Called(r, name[r])
  /\ Admits(r, u, flags[u])
  /\ Go(u, flags[u], r)
  /\ UNCHANGED <<sock, person>>

\* chat_join under a name that no room has.
JoinNew(u, r, n) ==
  /\ In(u) /\ ~RESTRICTED(u)
  /\ \A q \in Rooms : ~Called(q, n)
  /\ NewRoom(r)
  /\ GoNew(u, r, n)
  /\ UNCHANGED <<sock, person>>

\* Mutant of NameRoom: the room gets a name that another may have.
MutNameRoom(u, n) ==
  /\ In(u) /\ Power(u)
  /\ room[u] # 0
  /\ name' = [name EXCEPT ![room[u]] = n]
  /\ UNCHANGED <<sock, person, room, flags, occupants, mode, invites, asked>>

\* chat_name_room
NameRoom(u, n) ==
  /\ In(u) /\ Power(u)
  /\ room[u] # 0
  /\ \A q \in Rooms : ~Called(q, n)
  /\ name' = [name EXCEPT ![room[u]] = n]
  /\ UNCHANGED <<sock, person, room, flags, occupants, mode, invites, asked>>

\* chat_setroom, setting or clearing one flag of the room.
SetRoom(u, f, on) ==
  /\ In(u) /\ ROOMOP(u)
  /\ room[u] = 0 \/ f = "sysop" => SYSOP(u)
  /\ mode' = [mode EXCEPT ![room[u]] = IF on THEN @ \cup {f} ELSE @ \ {f}]
  /\ UNCHANGED <<sock, person, room, flags, name, occupants, invites, asked>>

\* chat_nick
Nick(u, id) ==
  /\ In(u)
  /\ IdFree(u, id)
  /\ chatid' = [chatid EXCEPT ![u] = id]
  /\ UNCHANGED <<sock, utent, place>>

\* What chat_kick and chat_kickid ask before they do anything.
MayKick(u, v) ==
  /\ In(u) /\ Power(u)
  /\ Found(v)
  /\ room[u] = room[v] \/ SYSOP(u)
  /\ SYSOP(v) => SYSOP(u)

\* From the main room, and by a sysop from another room, a user is kicked out.
KickOut(u, v) ==
  /\ MayKick(u, v)
  /\ room[u] = 0 \/ room[u] # room[v]
  /\ Gone(v)

\* From the room of the operator a user is kicked to the main room, and is
\* nowhere if that is locked.
KickToMain(u, v) ==
  /\ MayKick(u, v)
  /\ room[u] # 0 /\ room[u] = room[v]
  /\ IF Admits(0, v, flags[v]) THEN Go(v, flags[v], 0) ELSE ExitRoom(v)
  /\ UNCHANGED <<sock, person>>

\* chat_makeop
MakeOp(u, v) ==
  /\ In(u) /\ ROOMOP(u)
  /\ Found(v) /\ v # u
  /\ room[u] = room[v]
  /\ flags' = [flags EXCEPT ![u] = @ \ {"room"}, ![v] = @ \cup {"room"}]
  /\ UNCHANGED <<sock, person, room, name, occupants, mode, invites, asked>>

\* chat_toggle
Toggle(u, v) ==
  /\ In(u) /\ (SYSOP(u) \/ CHATOP(u))
  /\ Found(v)
  /\ room[u] = room[v]
  /\ flags' = [flags EXCEPT ![v] = IF ROOMOP(v) THEN @ \ {"room"} ELSE @ \cup {"room"}]
  /\ UNCHANGED <<sock, person, room, name, occupants, mode, invites, asked>>

\* chat_invite; a name left out finds who is not logged in yet.
Invite(u, v) ==
  /\ In(u) /\ ROOMOP(u)
  /\ Found(v)
  /\ invites' = [invites EXCEPT ![room[u]] = @ \cup {v}]
  /\ asked'   = asked \cup {<<room[u], v>>}
  /\ UNCHANGED <<sock, person, room, flags, name, occupants, mode>>

Entering(u) ==
  \/ \E uid \in Uids : LoginBogus(u, uid) \/ \E id \in ChatIds : Login(u, uid, id)
  \/ \E r \in Rooms : Join(u, r) \/ \E n \in RoomNames : JoinNew(u, r, n)

Ruling(u) ==
  \/ \E n \in RoomNames : NameRoom(u, n)
  \/ \E f \in {"locked", "sysop"}, on \in BOOLEAN : SetRoom(u, f, on)
  \/ \E v \in Slots : \/ KickOut(u, v) \/ KickToMain(u, v)
                      \/ MakeOp(u, v) \/ Toggle(u, v) \/ Invite(u, v)

Next ==
  \E u \in Slots :
    \/ Accept(u) \/ LostConn(u)
    \/ Entering(u) \/ Ruling(u)
    \/ Goodbye(u) \/ \E id \in ChatIds : Nick(u, id)

Spec == Init /\ [][Next]_cvars

-----------------------------------------------------------------------------
TypeOK ==
  /\ sock      \subseteq Slots
  /\ utent     \in [Slots -> Uids \cup {NoUid}]
  /\ chatid    \in [Slots -> ChatIds \cup {NoId}]
  /\ room      \in [Slots -> Rooms \cup {Nowhere}]
  /\ flags     \in [Slots -> SUBSET Flags]
  /\ name      \in [Rooms -> RoomNames]
  /\ occupants \in [Rooms -> 0..C]
  /\ mode      \in [Rooms -> SUBSET {"locked", "sysop"}]
  /\ invites   \in [Rooms -> SUBSET Slots]
  /\ asked     \subseteq Rooms \X Slots

\* The counts that decide which rooms there are and which number a new room
\* gets (station.c:441, 572) are the users in the rooms, whatever the order of
\* joins, kicks, lost connections and logins that are turned away: a count
\* too high leaves a room that no one is in, one too low gives a room that is
\* in use to someone else.  This holds for packets of one line: a user who
\* kicks himself out of the main room (station.c:1287) and joins a room with
\* the next line of the packet (2025-2037) is counted there without a slot.
OccupantsExact ==
  \A r \in Rooms : occupants[r] = Cardinality({u \in sock : room[u] = r})

\* Two rooms never go by the same name, and the main room keeps its own,
\* though vanished rooms keep their names and rooms are renamed: the second
\* of two could not be entered (station.c:306).
RoomsDistinct ==
  /\ name[0] = Main
  /\ \A q, r \in Rooms : Open(q) /\ Open(r) /\ name[q] = name[r] => q = r

\* Two connections never go by the same chatid nor as the same user, however
\* logins, nicks and lost connections follow one another (station.c:841,
\* 850, 1150): kicks, invitations and private messages go to the first that has it.
ChatIdsDistinct ==
  \A u, v \in sock :
    \/ chatid[u] = chatid[v] /\ chatid[u] # NoId
    \/ utent[u] = utent[v] /\ utent[u] # NoUid
    => u = v

\* A user who comes into a room that is locked, or kept for sysops, without
\* the level for it has been invited: the same person, on this connection,
\* to the room that has the number now and not to one that had it before,
\* and not the one who was in the slot before (station.c:543, 594).
InvitedOnly ==
  [][\A u \in sock : room'[u] \notin {room[u], Nowhere} =>
       LET r == room'[u]
           f == flags'[u]
       IN  /\ "locked" \in mode'[r] /\ f \cap {"sysop", "chatop"} = {} => <<r, u>> \in asked
           /\ "sysop" \in mode'[r] /\ "sysop" \notin f => <<r, u>> \in asked]_cvars

\* Who operates a room does not come into another as its operator, whether
\* going there or kicked, unless the user opens it (station.c:463).
OpStaysBehind ==
  [][\A u \in sock : /\ room'[u] \notin {room[u], Nowhere}
                     /\ "room" \in flags'[u]
                     => ~Open(room'[u])]_cvars
=============================================================================
