----------------------------- MODULE UtmpTable -----------------------------
(***************************************************************************)
(* The table of logged-in sessions (struct UTMPFILE and struct UTMPHEAD of *)
(* libBBS/utmp.c) at the level of its pointers.  Every slot is either on   *)
(* the free list (hashhead[0], next) or on the hash chain of its user      *)
(* (hashhead[b], next) and then also on a ring sorted by user id           *)
(* (listhead, list_prev, list_next).  Only the daemon utmpd of             *)
(* daemon/miscd.c changes the pointers, one request at a time under        *)
(* utmp_lock; it serves UTMP_NEW with getnewutmpent2 and UTMP_CLR with     *)
(* clear_utmp3.  A user id string is represented by the number of its      *)
(* user, and the order of the numbers stands for strcasecmp.               *)
(*                                                                         *)
(* clear_utmp2 may be asked to clear a slot that is not in use: it logs    *)
(* that and links the slot to the free list once more.  The model takes    *)
(* this step, sets stray, and stops utmpd there: from then on its loops    *)
(* may run in circles or out of the arrays, which is not modelled.         *)
(***************************************************************************)
EXTENDS Integers, FiniteSets

CONSTANTS
  N,          \* USHM_SIZE, the number of slots
  H,          \* UTMP_HASHSIZE - 1, the number of hash buckets besides the free list
  Uids,       \* the user numbers a session can have
  HashOf,     \* utmp_hash of the user id, in 1..H
  TelnetPids, \* process ids of telnet and ssh sessions
  Residue     \* what zeroinfo.uid, never assigned, may hold in a cleared slot

ASSUME TableAssumption ==
  /\ N \in Nat \ {0}
  /\ H \in Nat \ {0}
  /\ Uids \subseteq Nat \ {0}
  /\ HashOf \in [Uids -> 1..H]
  /\ TelnetPids \subseteq Nat \ {0, 1}
  /\ Residue \subseteq Nat
  /\ 0 \in Residue

VARIABLES
  hashhead,   \* [0..H -> 0..N], 0 is nil; hashhead[0] is the free list
  next,       \* [1..N -> 0..N]
  listhead,   \* head of the sorted ring, 0 when it is empty
  list_prev,
  list_next,
  uinfo,      \* per slot: active, uid, pid (1 for every web session)
  number,     \* get_utmp_number()
  sweep,      \* slot the clean-up loop of getnewutmpent2 is at, 0 when not in it
  ret,        \* the last value putrequest sent to a client
  stray       \* history: clear_utmp2 has cleared a slot that was not in use

links == <<hashhead, next, listhead, list_prev, list_next>>
tvars == <<hashhead, next, listhead, list_prev, list_next, uinfo, number, sweep, ret,
           stray>>

Slots   == 1..N
Buckets == 0..H
WebPid  == 1
NoSlot  == -1
Pids    == {0, WebPid} \cup TelnetPids

Active    == {s \in Slots : uinfo[s].active}
Bucket(s) == IF uinfo[s].active THEN HashOf[uinfo[s].uid] ELSE 0

(***************************************************************************)
(* resolve_utmp by the process that creates the shared memory: all slots   *)
(* are chained on the free list in order.                                  *)
(***************************************************************************)
Init ==
  /\ hashhead  = [b \in Buckets |-> IF b = 0 THEN 1 ELSE 0]
  /\ next      = [s \in Slots |-> IF s < N THEN s + 1 ELSE 0]
  /\ listhead  = 0
  /\ list_prev = [s \in Slots |-> 0]
  /\ list_next = [s \in Slots |-> 0]
  /\ uinfo     = [s \in Slots |-> [active |-> FALSE, uid |-> 0, pid |-> 0]]
  /\ number    = 0
  /\ sweep     = 0
  /\ ret       = 0
  /\ stray     = FALSE

\* Mutant of InsertPoint: every session goes to the tail of the ring.
MutAppend(u, i) == i = listhead

(***************************************************************************)
(* The slot before which getnewutmpent2 inserts user u in a non-empty      *)
(* ring: the head when u does not sort after it, and otherwise the first   *)
(* slot past the head that u does not sort after, or the head again.       *)
(***************************************************************************)
InsertPoint(u, i) ==
  IF uinfo[listhead].uid >= u
    THEN i = listhead
    ELSE /\ uinfo[list_prev[i]].uid < u
         /\ i = listhead \/ uinfo[i].uid >= u

RingInsert(pos, u) ==
  IF listhead = 0
    THEN /\ list_prev' = [list_prev EXCEPT ![pos] = pos]
         /\ list_next' = [list_next EXCEPT ![pos] = pos]
         /\ listhead'  = pos
    ELSE \E i \in Active :
         /\ InsertPoint(u, i)
         /\ list_prev' = [list_prev EXCEPT ![pos] = list_prev[i], ![i] = pos]
         /\ list_next' = [list_next EXCEPT ![pos] = i, ![list_prev[i]] = pos]
         /\ listhead'  = IF uinfo[listhead].uid >= u THEN pos ELSE listhead

(***************************************************************************)
(* The slots the search loop of clear_utmp2 visits in bucket b: the        *)
(* smallest set that holds the head and is closed under next.              *)
(***************************************************************************)
ChainOf(b) ==
  {s \in Slots : \A C \in SUBSET Slots :
     /\ hashhead[b] \in C \cup {0}
     /\ \A t \in C : next[t] \in C \cup {0}
     => s \in C}

\* Mutants of HashRemove: one forgets to unlink a slot that is not at the
\* head of its chain, one cuts the chain where the slot was.
MutKeepInChain(s, b) ==
  /\ hashhead' = IF hashhead[b] = s THEN [hashhead EXCEPT ![b] = next[s], ![0] = s]
                 ELSE [hashhead EXCEPT ![0] = s]
  /\ next'     = [next EXCEPT ![s] = hashhead[0]]

MutCutChain(s, b) ==
  /\ hashhead' = IF hashhead[b] = s THEN [hashhead EXCEPT ![b] = next[s], ![0] = s]
                 ELSE [hashhead EXCEPT ![0] = s]
  /\ next'     = [t \in Slots |-> IF t = s THEN hashhead[0]
                                  ELSE IF next[t] = s THEN 0
                                  ELSE next[t]]

\* The part of clear_utmp2 that takes slot s off its hash chain and then
\* pushes it on the free list, found or not; when the chain is empty the
\* search begins at next[-1], in front of the segment, and finds nothing.
HashRemove(s, b) ==
  LET head == [hashhead EXCEPT ![b] = IF @ = s THEN next[s] ELSE @]
      nxt  == [t \in Slots |-> IF hashhead[b] # s /\ t \in ChainOf(b) /\ next[t] = s
                                THEN next[s] ELSE next[t]]
  IN  /\ hashhead' = [head EXCEPT ![0] = s]
      /\ next'     = [nxt EXCEPT ![s] = head[0]]

\* Mutant of RingRemove: the head is not reset when the last session goes.
MutKeepHead(s) ==
  /\ listhead'  = IF listhead # s THEN listhead ELSE list_next[s]
  /\ list_next' = [list_next EXCEPT ![list_prev[s]] = list_next[s]]
  /\ list_prev' = [list_prev EXCEPT ![list_next[s]] = list_prev[s]]

\* (The links of a slot that was never in use are 0: the stores of utmp.c fall
\* in front of the arrays, and EXCEPT leaves the functions as they are.)
RingRemove(s) ==
  /\ listhead'  = IF listhead # s THEN listhead
                  ELSE IF list_next[s] = s THEN 0 ELSE list_next[s]
  /\ list_next' = [list_next EXCEPT ![list_prev[s]] = list_next[s]]
  /\ list_prev' = [list_prev EXCEPT ![list_next[s]] = list_prev[s]]

\* utmp_hash of the user id in slot s; that of a slot not in use is whatever
\* zeroinfo.userid, never assigned, held.
HashKeys(s) == IF uinfo[s].active THEN {HashOf[uinfo[s].uid]} ELSE Buckets

\* Mutant of ClearEntry: the session is not counted out.
MutKeepNumber(s) ==
  /\ \E b \in HashKeys(s) : HashRemove(s, b)
  /\ RingRemove(s)
  /\ UNCHANGED number
  /\ stray' = (stray \/ ~uinfo[s].active)
  /\ \E r \in Residue :
       uinfo' = [uinfo EXCEPT ![s] = [active |-> FALSE, uid |-> r, pid |-> 0]]

\* clear_utmp2(s).  A slot not in use is logged ("clear inactive entry") and
\* relinked all the same.
ClearEntry(s) ==
  /\ \E b \in HashKeys(s) : HashRemove(s, b)
  /\ RingRemove(s)
  /\ number' = IF uinfo[s].active THEN number - 1 ELSE number
  /\ stray'  = (stray \/ ~uinfo[s].active)
  /\ \E r \in Residue :
       uinfo' = [uinfo EXCEPT ![s] = [active |-> FALSE, uid |-> r, pid |-> 0]]

\* Mutant of NewFull: the last free slot is refused.
MutRefuseLast ==
  /\ sweep = 0 /\ ~stray
  /\ hashhead[0] = 0 \/ next[hashhead[0]] = 0
  /\ ret' = NoSlot
  /\ UNCHANGED <<links, uinfo, number, sweep, stray>>

(***************************************************************************)
(* UTMP_NEW: getnewutmpent2 pops the free list, or answers -1 when it is   *)
(* empty.  A telnet login more than two minutes after the last clean-up    *)
(* starts a new one.  A web login arrives with pid 0.                      *)
(***************************************************************************)
NewFull ==
  /\ sweep = 0 /\ ~stray
  /\ hashhead[0] = 0
  /\ ret' = NoSlot
  /\ UNCHANGED <<links, uinfo, number, sweep, stray>>

New(u, p) ==
  /\ sweep = 0 /\ ~stray
  /\ hashhead[0] # 0
  /\ LET pos == hashhead[0]
         b   == HashOf[u]
     IN  /\ RingInsert(pos, u)
         /\ hashhead' = [hashhead EXCEPT ![0] = next[pos], ![b] = pos]
         /\ next'     = [next EXCEPT ![pos] = hashhead[b]]
         /\ uinfo'    = [uinfo EXCEPT ![pos] = [active |-> TRUE, uid |-> u, pid |-> p]]
         /\ ret'      = pos
  /\ number' = number + 1
  /\ sweep' \in IF p = 0 THEN {0} ELSE {0, 1}
  /\ UNCHANGED stray

\* Mutant of SweepNext: the loop runs past the last slot.
MutSweepPast == sweep + 1

\* Mutant of SweepNext: after the last slot the loop begins again.
MutSweepRound == IF sweep < N THEN sweep + 1 ELSE 1

SweepNext == IF sweep < N THEN sweep + 1 ELSE 0

\* One turn of the clean-up loop, on a slot it leaves alone.
SweepSkip ==
  /\ sweep # 0
  /\ sweep' = SweepNext
  /\ UNCHANGED <<links, uinfo, number, ret, stray>>

\* One turn of the clean-up loop, on a slot that is in use and whose pid is set.
SweepClear ==
  /\ sweep # 0 /\ ~stray
  /\ uinfo[sweep].active
  /\ uinfo[sweep].pid # 0
  /\ ClearEntry(sweep)
  /\ sweep' = SweepNext
  /\ UNCHANGED ret

\* Mutant of ClrMatches: only the user is compared.
MutMatchUser(s, u, p) == uinfo[s].uid = u

\* The test of clear_utmp3 that a UTMP_CLR request still names the session
\* that is in the slot; user 0 stands for any.  It does not ask for active.
ClrMatches(s, u, p) == (u = 0 \/ uinfo[s].uid = u) /\ uinfo[s].pid = p

Clr(s, u, p) ==
  /\ sweep = 0 /\ ~stray
  /\ ret' = 0
  /\ UNCHANGED sweep
  /\ IF ClrMatches(s, u, p)
       THEN ClearEntry(s)
       ELSE UNCHANGED <<links, uinfo, number, stray>>

\* www_user_login writes the pid into the slot it was given, without the lock.
SetWebPid(s) ==
  /\ uinfo' = [uinfo EXCEPT ![s].pid = WebPid]
  /\ UNCHANGED <<links, number, sweep, ret, stray>>

Next ==
  \/ NewFull
  \/ \E u \in Uids, p \in Pids \ {WebPid} : New(u, p)
  \/ SweepSkip
  \/ SweepClear
  \/ \E s \in Slots, u \in Uids \cup Residue, p \in Pids : Clr(s, u, p)
  \/ \E s \in Slots : SetWebPid(s)

Spec == Init /\ [][Next]_tvars

-----------------------------------------------------------------------------
\* The pointers stay in the table, and the fields of a slot have the values
\* the programs give them: a slot in use names a user.
TypeOK ==
  /\ hashhead  \in [Buckets -> 0..N]
  /\ next      \in [Slots -> 0..N]
  /\ listhead  \in 0..N
  /\ list_prev \in [Slots -> 0..N]
  /\ list_next \in [Slots -> 0..N]
  /\ uinfo     \in [Slots -> [active : BOOLEAN, uid : Uids \cup Residue, pid : Pids]]
  /\ \A s \in Slots : uinfo[s].active => uinfo[s].uid \in Uids
  /\ number    \in Int
  /\ sweep     \in 0..N
  /\ ret       \in {NoSlot} \cup 0..N
  /\ stray     \in BOOLEAN

Partitioned ==
  /\ \A b \in Buckets : hashhead[b] # 0 => Bucket(hashhead[b]) = b
  /\ \A t \in Slots : next[t] # 0 => Bucket(next[t]) = Bucket(t)
  /\ \A b \in Buckets, t \in Slots : next[t] # 0 => next[t] # hashhead[b]
  /\ \A t1, t2 \in Slots : next[t1] # 0 /\ next[t1] = next[t2] => t1 = t2
  /\ \A s \in Slots : hashhead[Bucket(s)] = s \/ \E t \in Slots : next[t] = s

ChainsAcyclic ==
  \E rank \in [Slots -> Nat] :
    \A t \in Slots : next[t] # 0 => rank[t] < rank[next[t]]

(***************************************************************************)
(* No slot leaks and no slot is shared: every slot is pointed to by exactly *)
(* one head or next field, of the list it belongs to, and the free list    *)
(* leads to every slot not in use.  A slot freed twice, or freed while its user's chain  *)
(* still holds it, breaks this.  A clear request that meets a slot not in  *)
(* use does free it twice (stray): the promise holds until then.           *)
(***************************************************************************)
ChainsPartition == ~stray => Partitioned /\ ChainOf(0) = Slots \ Active

Complete == \A b \in 1..H : ChainOf(b) = {s \in Active : Bucket(s) = b}

(***************************************************************************)
(* apply_utmp, which walks the chain of a user id, meets every session of  *)
(* that user and no free slot: kicking, paging and the multi-login limit   *)
(* rest on it.                                                             *)
(***************************************************************************)
LookupComplete == ~stray => Complete

Linked ==
  /\ listhead = 0 <=> Active = {}
  /\ listhead # 0 => listhead \in Active
  /\ \A s \in Active :
       /\ list_next[s] \in Active
       /\ list_prev[s] \in Active
       /\ list_prev[list_next[s]] = s
       /\ list_next[list_prev[s]] = s

RingConnected ==
  \E rank \in [Slots -> Nat] :
    \A s \in Active : list_next[s] # listhead => rank[s] < rank[list_next[s]]

\* The ring that getnewutmpent2 and clear_utmp2 relink in four places holds
\* exactly the sessions in use, and list_prev stays the inverse of list_next.
RingLinked == ~stray => Linked

Sorted ==
  \A s \in Active : list_next[s] # listhead => uinfo[s].uid <= uinfo[list_next[s]].uid

(***************************************************************************)
(* apply_ulist_addr, which starts at listhead and follows list_next, shows *)
(* the sessions in the order of their user ids.                            *)
(***************************************************************************)
RingSorted == ~stray => Sorted

\* get_utmp_number(), which getnewutmpent2 counts up and clear_utmp2 counts
\* down, is the number of sessions.
NumberExact == number = Cardinality(Active)

(***************************************************************************)
(* What a caller may rely on, without the pointers: a UTMP_NEW gets a slot *)
(* that was free, and is refused only when every slot is taken; a UTMP_CLR *)
(* frees one slot or none; the number is that of the taken slots.          *)
(***************************************************************************)
Occupant == [s \in Slots |-> IF uinfo[s].active THEN uinfo[s].uid ELSE 0]
Pool     == INSTANCE SlotPool WITH occ <- Occupant
PoolSpec == Pool!Spec
=============================================================================
