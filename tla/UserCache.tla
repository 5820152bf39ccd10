----------------------------- MODULE UserCache -----------------------------
(***************************************************************************)
(* The table of registered users (struct UCACHE of libBBS/ucache.c).  A    *)
(* slot is on the free list (hashhead[0], next) or on the hash chain of    *)
(* its user's name.  setuserid_internal moves a slot from one chain to     *)
(* another under ucache_lock, in four stores; it is what registering       *)
(* (getnewuserid), renaming and deleting a user (setuserid2) come down to. *)
(* searchuser, which nearly every program calls, walks a chain without the *)
(* lock.  flushd copies the records to .PASSWDS, also without it, and      *)
(* load_ucache builds the chains again from the file after a crash.        *)
(*                                                                         *)
(* Who asks for an update, and how old his knowledge of the slot is, is    *)
(* left open: any request may come at any time.  Names are what strcasecmp *)
(* tells apart; ucache_hash of an empty name is 0.                         *)
(***************************************************************************)
EXTENDS Naturals, FiniteSets

CONSTANTS
  N,         \* MAXUSERS, the number of slots
  H,         \* UCACHE_HASHSIZE, the number of buckets besides the free list
  Names,     \* the names users can register
  NoName,    \* the empty name
  HashOf,    \* ucache_hash of a name, in 1..H
  Searches,  \* calls of searchuser that may be under way
  MaxReload  \* bound on the crashes after which the table is loaded again

ASSUME CacheAssumption ==
  /\ N \in Nat \ {0}
  /\ H \in Nat \ {0}
  /\ NoName \notin Names
  /\ HashOf \in [Names -> 1..H]
  /\ MaxReload \in Nat

VARIABLES
  hashhead,  \* [0..H -> 0..N], 0 is nil; hashhead[0] is the free list
  next,      \* [1..N -> 0..N]
  userid,    \* passwd[].userid
  number,    \* slots filled in by load_ucache so far, N once it is done
  prev,      \* load_ucache's local: the empty slot it appended last
  upd,       \* the call of setuserid_internal that holds ucache_lock
  scan,      \* the calls of searchuser
  file,      \* the userids in .PASSWDS
  flush,     \* the record flush_ucache writes next, 0 when it does not run
  reloads,   \* crashes so far
  within,    \* history: names given, since the load, by a rename inside one bucket
  dups       \* history: the load found a name twice and dropped the free list

table == <<hashhead, next, userid, number, prev>>
cvars == <<table, upd, scan, file, flush, reloads, within, dups>>

Slots   == 1..N
Buckets == 0..H
Ids     == Names \cup {NoName}

Key(n) == IF n = NoName THEN 0 ELSE HashOf[n]

\* A slot that setuserid_internal has taken off its chain is on none until
\* it is linked again, and then on that of a name that it does not bear yet.
Adrift(s)  == s = upd.num /\ upd.pc \in {"unlinked", "aimed"}
On         == {s \in 1..number : ~Adrift(s)}
NameDue(s) == IF s = upd.num /\ upd.pc = "linked" THEN upd.new ELSE userid[s]
Bucket(s)  == Key(NameDue(s))

Updates == [pc : {"none", "unlinked", "aimed", "linked"}, num : 0..N, new : Ids]
Scans   == [pc : {"idle", "compare", "advance", "found", "missed"},
            name : Ids, at : 0..N, there : BOOLEAN, moved : BOOLEAN]

NoUpdate == [pc |-> "none", num |-> 0, new |-> NoName]
NoScan   == [pc |-> "idle", name |-> NoName, at |-> 0, there |-> FALSE, moved |-> FALSE]

\* load_ucache on the file of a new installation, before its first record.
Init ==
  /\ hashhead = [b \in Buckets |-> 0]
  /\ next     = [s \in Slots |-> 0]
  /\ userid   = [s \in Slots |-> NoName]
  /\ number   = 0
  /\ prev     = 0
  /\ upd      = NoUpdate
  /\ scan     = [r \in Searches |-> NoScan]
  /\ file     = [s \in Slots |-> NoName]
  /\ flush    = 0
  /\ reloads  = 0
  /\ within   = {}
  /\ dups     = FALSE

(***************************************************************************)
(* The slots that a walk of bucket b visits: the smallest set that holds   *)
(* the head and is closed under next.                                      *)
(***************************************************************************)
From(x) ==
  {s \in Slots : \A C \in SUBSET Slots :
     /\ x \in C \cup {0}
     /\ \A t \in C : next[t] \in C \cup {0}
     => s \in C}

ChainOf(b) == From(hashhead[b])

Loaded == number = N

-----------------------------------------------------------------------------
(* setuserid_internal *)

\* Mutant of Taken: a registration does not look for the name.
MutTaken(num, id) == userid[num] # NoName /\ \E s \in ChainOf(Key(id)) : userid[s] = id

\* The check for duplicates, which a rename inside one bucket skips.
Taken(num, id) ==
  /\ Key(id) # Key(userid[num])
  /\ Key(id) # 0
  /\ \E s \in ChainOf(Key(id)) : userid[s] = id

\* Mutant of Unlinked: the chain is cut where the slot was.
MutUnlinked(num, b) ==
  IF hashhead[b] = num
    THEN /\ hashhead' = [hashhead EXCEPT ![b] = next[num]]
         /\ UNCHANGED next
    ELSE /\ next' = [t \in Slots |-> IF t \in ChainOf(b) /\ next[t] = num THEN 0 ELSE next[t]]
         /\ UNCHANGED hashhead

\* Mutant of Unlinked: a slot that is not at the head stays where it is.
MutStay(num, b) ==
  IF hashhead[b] = num
    THEN /\ hashhead' = [hashhead EXCEPT ![b] = next[num]]
         /\ UNCHANGED next
    ELSE UNCHANGED <<hashhead, next>>

\* The slot before num on the chain of bucket b, or its head, now points
\* past num; num itself still points where it did.
Unlinked(num, b) ==
  IF hashhead[b] = num
    THEN /\ hashhead' = [hashhead EXCEPT ![b] = next[num]]
         /\ UNCHANGED next
    ELSE /\ next' = [t \in Slots |-> IF t \in ChainOf(b) /\ next[t] = num THEN next[num]
                                     ELSE next[t]]
         /\ UNCHANGED hashhead

\* History: a new name for which nobody looks whether it is taken.
Unchecked(num, id) == id \notin {NoName, userid[num]} /\ Key(id) = Key(userid[num])

\* History: a search of the bucket a slot is taken from may lose its way.
Disturbed(b) ==
  [r \in Searches |-> [scan[r] EXCEPT !.moved = @ \/ Key(scan[r].name) = b]]

(***************************************************************************)
(* Lock, check and unlink.  A name that is taken, and a slot the search    *)
(* does not find, end the call with -1 and nothing done.  (On an empty     *)
(* chain the search begins at next[-1], which is the head of the last      *)
(* bucket, and does not find the slot there either.)                       *)
(***************************************************************************)
Begin(num, id) ==
  /\ Loaded
  /\ upd.pc = "none"
  /\ ~Taken(num, id)
  /\ num \in ChainOf(Key(userid[num]))
  /\ Unlinked(num, Key(userid[num]))
  /\ upd'    = [pc |-> "unlinked", num |-> num, new |-> id]
  /\ scan'   = Disturbed(Key(userid[num]))
  /\ within' = IF Unchecked(num, id) THEN within \cup {id} ELSE within
  /\ UNCHANGED <<userid, number, prev, file, flush, reloads, dups>>

\* NEW of userd: getnewuserid takes the head of the free list.
New(id) == hashhead[0] # 0 /\ Begin(hashhead[0], id)

\* SET of userd, asked for by setuserid.  (Of a slot on the free list it is
\* a registration under a number of the caller's choice.)
Set(num, id) == Begin(num, id)

\* DEL of userd, and setuserid2(a, "") of killauser.
Del(num) == Begin(num, NoName)

Aim ==
  /\ upd.pc = "unlinked"
  /\ next' = [next EXCEPT ![upd.num] = hashhead[Key(upd.new)]]
  /\ upd'  = [upd EXCEPT !.pc = "aimed"]
  /\ UNCHANGED <<hashhead, userid, number, prev, scan, file, flush, reloads, within, dups>>

\* Mutant of Link: the slot becomes the head while it points where it did.
MutLink ==
  /\ upd.pc = "unlinked"
  /\ hashhead' = [hashhead EXCEPT ![Key(upd.new)] = upd.num]
  /\ upd'      = [upd EXCEPT !.pc = "linked"]
  /\ UNCHANGED <<next, userid, number, prev, scan, file, flush, reloads, within, dups>>

Link ==
  /\ upd.pc = "aimed"
  /\ hashhead' = [hashhead EXCEPT ![Key(upd.new)] = upd.num]
  /\ upd'      = [upd EXCEPT !.pc = "linked"]
  /\ UNCHANGED <<next, userid, number, prev, scan, file, flush, reloads, within, dups>>

\* strncpy of the name, and unlock.
Write ==
  /\ upd.pc = "linked"
  /\ userid' = [userid EXCEPT ![upd.num] = upd.new]
  /\ upd'    = NoUpdate
  /\ UNCHANGED <<hashhead, next, number, prev, scan, file, flush, reloads, within, dups>>

-----------------------------------------------------------------------------
(* searchuser *)

\* (A bound: searches are looked at after the last crash.  All the chains
\* there are before it can be built again after it.)
Search(r, n) ==
  /\ Loaded
  /\ reloads = MaxReload
  /\ scan[r].pc = "idle"
  /\ scan' = [scan EXCEPT ![r] =
       [pc |-> "compare", name |-> n, at |-> hashhead[Key(n)],
        there |-> \E s \in On : userid[s] = n /\ NameDue(s) = n, moved |-> FALSE]]
  /\ UNCHANGED <<table, upd, file, flush, reloads, within, dups>>

Compare(r) ==
  /\ scan[r].pc = "compare"
  /\ scan' = [scan EXCEPT ![r].pc =
       IF scan[r].at = 0 THEN "missed"
       ELSE IF userid[scan[r].at] = scan[r].name THEN "found" ELSE "advance"]
  /\ UNCHANGED <<table, upd, file, flush, reloads, within, dups>>

Advance(r) ==
  /\ scan[r].pc = "advance"
  /\ scan' = [scan EXCEPT ![r].pc = "compare", ![r].at = next[scan[r].at]]
  /\ UNCHANGED <<table, upd, file, flush, reloads, within, dups>>

Return(r) ==
  /\ scan[r].pc \in {"found", "missed"}
  /\ scan' = [scan EXCEPT ![r] = NoScan]
  /\ UNCHANGED <<table, upd, file, flush, reloads, within, dups>>

-----------------------------------------------------------------------------
(* flush_ucache and load_ucache *)

\* Mutant of Flush: one record too many.
MutFlush ==
  /\ Loaded
  /\ reloads < MaxReload
  /\ IF flush = 0 THEN UNCHANGED file
     ELSE file' = [file EXCEPT ![flush] = userid[flush]]
  /\ flush' = IF flush <= N THEN flush + 1 ELSE 0
  /\ UNCHANGED <<table, upd, scan, reloads, within, dups>>

\* flush_ucache copies the records one after the other, without the lock.
\* (The file matters only if the table is loaded once more.)
Flush ==
  /\ Loaded
  /\ reloads < MaxReload
  /\ IF flush = 0 THEN UNCHANGED file
     ELSE file' = [file EXCEPT ![flush] = userid[flush]]
  /\ flush' = IF flush < N THEN flush + 1 ELSE 0
  /\ UNCHANGED <<table, upd, scan, reloads, within, dups>>

\* The machine stops; miscd creates the shared memory again and reads the
\* file.  (After the last crash nobody reads it any more and it is left out.)
Reload ==
  /\ reloads < MaxReload
  /\ reloads'  = reloads + 1
  /\ hashhead' = [b \in Buckets |-> 0]
  /\ next'     = [s \in Slots |-> 0]
  /\ userid'   = file
  /\ number'   = 0
  /\ prev'     = 0
  /\ upd'      = NoUpdate
  /\ scan'     = [r \in Searches |-> NoScan]
  /\ flush'    = 0
  /\ file'     = IF reloads' = MaxReload THEN [s \in Slots |-> NoName] ELSE file
  /\ within'   = {}
  /\ dups'     = FALSE

\* The slot fillucache is called for.
Filled == number + 1

\* prev is a local variable of load_ucache and gone when it returns.
PrevIs(p) == prev' = IF Filled = N THEN 0 ELSE p

\* fillucache from addempty on: the slot goes to the end of the free list.
AddEmpty ==
  /\ IF prev = 0
       THEN /\ hashhead' = [hashhead EXCEPT ![0] = Filled]
            /\ next'     = [next EXCEPT ![Filled] = 0]
       ELSE /\ next'     = [next EXCEPT ![Filled] = 0, ![prev] = Filled]
            /\ UNCHANGED hashhead
  /\ PrevIs(Filled)
  /\ number' = Filled

FillEmpty ==
  /\ ~Loaded
  /\ userid[Filled] = NoName
  /\ AddEmpty
  /\ UNCHANGED <<userid, upd, scan, file, flush, reloads, within, dups>>

\* The slot loaded earlier under the same name, if any.
Twin(n) == {s \in ChainOf(Key(n)) : userid[s] = n}

FillName ==
  /\ ~Loaded
  /\ LET n == userid[Filled]
     IN  /\ n # NoName
         /\ Twin(n) = {}
         /\ next'     = [next EXCEPT ![Filled] = hashhead[Key(n)]]
         /\ hashhead' = [hashhead EXCEPT ![Key(n)] = Filled]
  /\ number' = Filled
  /\ PrevIs(prev)
  /\ UNCHANGED <<userid, upd, scan, file, flush, reloads, within, dups>>

\* The earlier record has at least as many logins: the later one is emptied.
FillLater ==
  /\ ~Loaded
  /\ userid[Filled] # NoName
  /\ Twin(userid[Filled]) # {}
  /\ userid' = [userid EXCEPT ![Filled] = NoName]
  /\ AddEmpty
  /\ UNCHANGED <<upd, scan, file, flush, reloads, within, dups>>

(***************************************************************************)
(* The later record has more logins: the earlier one is emptied and made   *)
(* the whole free list, and the later one takes its place.                 *)
(***************************************************************************)
FillEarlier ==
  /\ ~Loaded
  /\ userid[Filled] # NoName
  /\ \E d \in Twin(userid[Filled]) :
       LET b    == Key(userid[Filled])
           rest == IF hashhead[b] = d THEN next[d] ELSE hashhead[b]
       IN  /\ userid'   = [userid EXCEPT ![d] = NoName]
           /\ hashhead' = [hashhead EXCEPT ![0] = d, ![b] = Filled]
           /\ next'     = [t \in Slots |-> IF t = d THEN 0
                                           ELSE IF t = Filled THEN rest
                                           ELSE IF t \in ChainOf(b) /\ next[t] = d THEN next[d]
                                           ELSE next[t]]
  /\ number' = Filled
  /\ dups'   = TRUE
  /\ PrevIs(prev)
  /\ UNCHANGED <<upd, scan, file, flush, reloads, within>>

-----------------------------------------------------------------------------
Update ==
  \/ \E id \in Names : New(id)
  \/ \E num \in Slots, id \in Names : Set(num, id)
  \/ \E num \in Slots : Del(num)
  \/ Aim \/ Link \/ Write

Walk(r) == Compare(r) \/ Advance(r) \/ Return(r)
Fill    == FillEmpty \/ FillName \/ FillLater \/ FillEarlier

Next ==
  \/ Update
  \/ \E r \in Searches : Walk(r) \/ \E n \in Names : Search(r, n)
  \/ Flush
  \/ Reload
  \/ Fill

Spec == Init /\ [][Next]_cvars

\* A process runs when it can, once it has begun.
FairSpec ==
  /\ Spec
  /\ WF_cvars(Aim \/ Link \/ Write)
  /\ WF_cvars(Fill)
  /\ \A r \in Searches : WF_cvars(Walk(r))

-----------------------------------------------------------------------------
\* The pointers stay in the table and the lock holder works on a slot of it.
TypeOK ==
  /\ hashhead \in [Buckets -> 0..N]
  /\ next     \in [Slots -> 0..N]
  /\ userid   \in [Slots -> Ids]
  /\ number   \in 0..N
  /\ prev     \in 0..N
  /\ upd      \in Updates
  /\ upd.pc # "none" => upd.num \in Slots /\ Loaded
  /\ scan     \in [Searches -> Scans]
  /\ \A r \in Searches : scan[r].pc = "advance" => scan[r].at # 0
  /\ file     \in [Slots -> Ids]
  /\ flush    \in 0..N
  /\ reloads  \in 0..MaxReload
  /\ within   \subseteq Names
  /\ dups     \in BOOLEAN

(***************************************************************************)
(* No slot is on two chains or on the chain of another name, and a slot    *)
(* that bears a name is on a chain, at every moment of an update and of a  *)
(* load.  So is a free slot, unless a load found a name twice.             *)
(***************************************************************************)
ChainsPartition ==
  /\ \A b \in Buckets : hashhead[b] # 0 => hashhead[b] \in On /\ Bucket(hashhead[b]) = b
  /\ \A t \in On : next[t] # 0 => next[t] \in On /\ Bucket(next[t]) = Bucket(t)
  /\ \A b \in Buckets, t \in On : next[t] # 0 => next[t] # hashhead[b]
  /\ \A t1, t2 \in On : next[t1] # 0 /\ next[t1] = next[t2] => t1 = t2
  /\ \A s \in On : \/ hashhead[Bucket(s)] = s
                   \/ \E t \in On : next[t] = s
                   \/ Bucket(s) = 0 /\ dups

ChainsAcyclic ==
  \E rank \in [Slots -> Nat] :
    \A t \in Slots : next[t] # 0 => rank[t] < rank[next[t]]

(***************************************************************************)
(* No two users bear the same name, whoever registers, renames and deletes *)
(* at the same time and whatever mixture of old and new records the file   *)
(* held, except for a name given by a rename inside one bucket, for which  *)
(* setuserid_internal does not look.                                       *)
(***************************************************************************)
NamesUnique ==
  \A s, t \in 1..number :
    userid[s] = userid[t] /\ s # t => userid[s] \in within \cup {NoName}

(***************************************************************************)
(* A search without the lock that ends with nothing is right: the user was *)
(* not there when it began.  Registrations, and updates of other buckets,  *)
(* may relink slots under it; only a slot taken from its own bucket can    *)
(* lead it astray.                                                         *)
(***************************************************************************)
MissIsTrue ==
  \A r \in Searches : scan[r].pc = "missed" /\ ~scan[r].moved => ~scan[r].there

\* A search ends unless updates go on for ever: it is never caught in a circle.
SearchEnds ==
  <>[](upd.pc = "none") =>
    \A r \in Searches : scan[r].pc \in {"compare", "advance"}
                          ~> scan[r].pc \notin {"compare", "advance"}
=============================================================================
