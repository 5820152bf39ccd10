------------------------------ MODULE BrcMarks ------------------------------
(***************************************************************************)
(* The read marks of one user (brc_* of libBBS/boards.c).  For each board  *)
(* a short list of article ids, newest first and ended by a zero, stands   *)
(* for the set of articles that were read.  The file .boardrc.gz has the   *)
(* lists of all boards; a cache of a few of them lies in a file that all   *)
(* sessions of the user, telnet and web, map.  A list is changed in the    *)
(* cache only and marked as changed; brc_update writes the changed lists   *)
(* back when a session ends or when no entry of the cache can be reused.   *)
(*                                                                         *)
(* No lock guards the cache.  A mark is two steps: it finds its place in   *)
(* the list, and stores at that place, whatever the list has become.  The  *)
(* history variable mixed says that two operations on one entry ran into   *)
(* each other, or that one was cut off; what a list holds then depends on  *)
(* the order of single stores, of which the model has only some.           *)
(*                                                                         *)
(* Assumptions: reading .boardrc.gz succeeds; two brc_update at once do    *)
(* not spoil the temporary file they share; clean_cachedata meets no login *)
(* of the same user.                                                       *)
(***************************************************************************)
EXTENDS Integers

CONSTANTS
  Boards,    \* the boards, numbered from 1
  M,         \* BRC_MAXNUM, the length of a list
  C,         \* BRC_CACHE_NUM, the entries of the cache
  FirstId,   \* per board the newest article when the user comes
  MaxId,     \* per board a bound on the ids of its articles
  Watched,   \* the boards for which the history of what was read is kept
  Sessions,  \* the sessions of the user
  Renewed,   \* the boards that may be deleted, their number going to a new board
  Mortal,    \* those that may be killed or hung up
  DiskFull,  \* whether writing .boardrc.gz may fail
  Stamped    \* whether the time stamps, of one second, tell that a list changed
             \* after the file was written

ASSUME BrcAssumption ==
  /\ Boards \subseteq Nat \ {0}
  /\ Watched \subseteq Boards
  /\ M \in Nat /\ M >= 3
  /\ C \in Nat \ {0}
  /\ FirstId \in [Boards -> Nat]
  /\ MaxId \in [Boards -> Nat]
  /\ Renewed \subseteq Boards
  /\ Mortal \subseteq Sessions
  /\ DiskFull \in BOOLEAN
  /\ Stamped \in BOOLEAN

VARIABLES
  file,   \* .boardrc.gz: the list of each board
  cache,  \* brc_cache_entry: board (0 when empty), list, changed
  nowid,  \* per board the newest article
  ses,    \* per session where it is, its board, its entry, the mark it is making,
          \* what it is writing
  seen,   \* history: the articles of the watched boards that were marked as read
  mixed   \* history: operations on an entry of the cache overlapped

mvars == <<file, cache, nowid, ses, seen, mixed>>

Entries == 1..C
Lists   == [1..M -> Nat]
NoList  == [i \in 1..M |-> 0]
NoMarks == [b \in Boards |-> NoList]
Empty   == [bid |-> 0, list |-> NoList, changed |-> FALSE]
Out     == [pc |-> "out", bid |-> 0, cur |-> 0, slot |-> 0, opened |-> NoList,
            op |-> "none", fid |-> 0, data |-> NoMarks, after |-> "exit"]

Init ==
  /\ file  = NoMarks
  /\ cache = [e \in Entries |-> Empty]
  /\ nowid = FirstId
  /\ ses   = [s \in Sessions |-> Out]
  /\ seen  = [b \in Watched |-> {}]
  /\ mixed = FALSE

-----------------------------------------------------------------------------
(* One list. *)

\* The loops of brc_unread, brc_add_read and brc_clear_new_flag go on past i.
Above(l, f, i) == \A m \in 1..i : l[m] > f

\* brc_unread.
Unread(l, f) ==
  \/ l[1] = 0
  \/ \E n \in 1..M : l[n] # 0 /\ f > l[n] /\ Above(l, f, n - 1)

\* The stores of a mark go to list c; their place was found in list old.

\* Mutant of Inserted: the new id goes behind the older one it should precede.
MutInserted(c, old, f) ==
  [i \in 1..M |-> IF Above(old, f, i) \/ Above(old, f, i - 1) THEN c[i]
                  ELSE IF Above(old, f, i - 2) THEN f
                  ELSE c[i - 1]]

Inserted(c, old, f) ==
  [i \in 1..M |-> IF Above(old, f, i) THEN c[i]
                  ELSE IF Above(old, f, i - 1) THEN f
                  ELSE c[i - 1]]

\* Mutant of AddRead: the first mark of a board does not end its list.
MutAddRead(c, old, f) ==
  IF old[1] = 0 THEN [c EXCEPT ![1] = f]
  ELSE IF Unread(old, f) THEN Inserted(c, old, f)
  ELSE c

\* brc_add_read.  In an empty list the mark is followed by 1, so that the
\* older articles stay unread; the oldest id falls off a full list.
AddRead(c, old, f) ==
  IF old[1] = 0 THEN [c EXCEPT ![1] = f, ![2] = 1, ![3] = 0]
  ELSE IF Unread(old, f) THEN Inserted(c, old, f)
  ELSE c

\* brc_clear, which leaves what lies behind the zero.
AllRead(l, now) == [l EXCEPT ![1] = now, ![2] = 0]

\* brc_clear_new_flag: f and everything before it is read.  Behind the end of
\* a list, or past a full one, there is nothing to do.
Cuts(l, f) == \E n \in 1..M : Above(l, f, n - 1) /\ ~Above(l, f, n) /\ (l[n] # 0 \/ n = 1)

ReadUpTo(c, old, f) ==
  [i \in 1..M |-> IF Above(old, f, i) THEN c[i]
                  ELSE IF Above(old, f, i - 1) THEN f
                  ELSE IF Above(old, f, i - 2) THEN 0
                  ELSE c[i]]

-----------------------------------------------------------------------------
(* brc_initial: a session turns to a board. *)

Holding(b) == {e \in Entries : cache[e].bid = b}

Login(s) ==
  /\ ses[s].pc = "out"
  /\ ses' = [ses EXCEPT ![s] = [Out EXCEPT !.pc = "in"]]
  /\ UNCHANGED <<file, cache, nowid, seen, mixed>>

Hit(s, b) ==
  /\ ses[s].pc = "in"
  /\ \E e \in Holding(b) :
       /\ \A d \in Holding(b) : e <= d
       /\ ses' = [ses EXCEPT ![s].bid = b, ![s].cur = e]
  /\ UNCHANGED <<file, cache, nowid, seen, mixed>>

\* Mutant of Victim: a changed entry is taken as well.
MutVictim(e) ==
  IF Holding(0) # {} THEN e \in Holding(0) /\ \A d \in Holding(0) : e <= d
  ELSE e = C

\* brc_getcache: the first empty entry, or else the last one not changed.
Victim(e) ==
  IF Holding(0) # {} THEN e \in Holding(0) /\ \A d \in Holding(0) : e <= d
  ELSE ~cache[e].changed /\ \A d \in Entries : d > e => cache[d].changed

\* A session that is about to load list l of board b into entry e.
Chosen(b, e, l) == [Out EXCEPT !.pc = "picked", !.bid = b, !.slot = e, !.opened = l]

\* A saved file replaces the one that is open, which still has its lists.
Miss(s, b) ==
  /\ ses[s].pc = "in"
  /\ Holding(b) = {}
  /\ \/ \E e \in Entries :
          /\ Victim(e)
          /\ ses' = [ses EXCEPT ![s] = Chosen(b, e, file[b])]
     \/ /\ \A e \in Entries : ~Victim(e)
        /\ ses' = [ses EXCEPT ![s] = [Out EXCEPT !.pc = "update", !.bid = b,
                                                   !.opened = file[b], !.after = "load"]]
  /\ UNCHANGED <<file, cache, nowid, seen, mixed>>

\* The sessions between the two steps of a mark in entry e.
Marking(e) == {t \in Sessions : ses[t].pc = "marking" /\ ses[t].cur = e}

Load(s) ==
  /\ ses[s].pc = "picked"
  /\ cache' = [cache EXCEPT ![ses[s].slot].list = ses[s].opened]
  /\ ses'   = [ses EXCEPT ![s].pc = "loaded", ![s].opened = NoList]
  /\ mixed' = (mixed \/ Marking(ses[s].slot) # {})
  /\ UNCHANGED <<file, nowid, seen>>

Name(s) ==
  /\ ses[s].pc = "loaded"
  /\ cache' = [cache EXCEPT ![ses[s].slot].bid = ses[s].bid,
                            ![ses[s].slot].changed = FALSE]
  /\ ses'   = [ses EXCEPT ![s].pc = "in", ![s].cur = ses[s].slot, ![s].slot = 0]
  /\ mixed' = (mixed \/ Marking(ses[s].slot) # {})
  /\ UNCHANGED <<file, nowid, seen>>

-----------------------------------------------------------------------------
(* Marking.  valid_brc checks that the entry still is of the board; then    *)
(* the loop finds the place.                                               *)

Valid(s) == ses[s].pc = "in" /\ ses[s].cur # 0 /\ cache[ses[s].cur].bid = ses[s].bid

Seen(b, ids) == [w \in Watched |-> IF w = b THEN seen[w] \cup ids ELSE seen[w]]

\* Mark f by op, in the list as it is now.
Begin(s, op, f) ==
  /\ ses' = [ses EXCEPT ![s].pc = "marking", ![s].op = op, ![s].fid = f,
                        ![s].opened = cache[ses[s].cur].list]
  /\ mixed' = (mixed \/ Marking(ses[s].cur) # {})
  /\ UNCHANGED <<file, cache, nowid, seen>>

\* A mark that the list implies already changes nothing.
Implied(s, ids) ==
  /\ seen' = Seen(ses[s].bid, ids)
  /\ UNCHANGED <<file, cache, nowid, ses, mixed>>

Read(s) ==
  /\ Valid(s)
  /\ \E f \in 1..nowid[ses[s].bid] :
       IF Unread(cache[ses[s].cur].list, f) THEN Begin(s, "add", f) ELSE Implied(s, {f})

ClearAll(s) == Valid(s) /\ Begin(s, "all", nowid[ses[s].bid])

ClearOld(s) ==
  /\ Valid(s)
  /\ \E f \in 1..nowid[ses[s].bid] :
       IF Cuts(cache[ses[s].cur].list, f) THEN Begin(s, "cut", f) ELSE Implied(s, 1..f)

Stored(c, k) ==
  CASE k.op = "add" -> AddRead(c, k.opened, k.fid)
    [] k.op = "cut" -> ReadUpTo(c, k.opened, k.fid)
    [] OTHER        -> AllRead(c, k.fid)

\* The articles of the board that mark k makes read: not those of a board that
\* was deleted since.
Meant(k) == (IF k.op = "add" THEN {k.fid} ELSE 1..k.fid) \cap 1..nowid[k.bid]

\* The stores of a mark.
Mark(s) ==
  /\ ses[s].pc = "marking"
  /\ cache' = [cache EXCEPT ![ses[s].cur].list = Stored(@, ses[s]),
                            ![ses[s].cur].changed = TRUE]
  /\ seen'  = Seen(ses[s].bid, Meant(ses[s]))
  /\ ses'   = [ses EXCEPT ![s].pc = "in", ![s].op = "none", ![s].fid = 0,
                          ![s].opened = NoList]
  /\ UNCHANGED <<file, nowid, mixed>>

\* brc_board_unread clears a list that is ahead of the board.
Look(s) ==
  /\ Valid(s)
  /\ cache[ses[s].cur].list[1] > nowid[ses[s].bid]
  /\ ClearAll(s)

-----------------------------------------------------------------------------
(* brc_update: read the file, copy the changed entries, write the file. *)

Exit(s) ==
  /\ ses[s].pc = "in"
  /\ ses' = [ses EXCEPT ![s] = [Out EXCEPT !.pc = "update"]]
  /\ UNCHANGED <<file, cache, nowid, seen, mixed>>

\* Mutant of Updated: the search for an entry has still failed.
MutUpdated(s) ==
  ses' = [ses EXCEPT ![s] = IF ses[s].after = "exit" THEN Out
                            ELSE Chosen(ses[s].bid, 0, ses[s].opened)]

Updated(s) ==
  ses' = [ses EXCEPT ![s] = IF ses[s].after = "exit" THEN Out
                            ELSE Chosen(ses[s].bid, 1, ses[s].opened)]

UpdateScan(s) ==
  /\ ses[s].pc = "update"
  /\ IF \E e \in Entries : cache[e].changed
       THEN ses' = [ses EXCEPT ![s].pc = "read", ![s].data = file]
       ELSE Updated(s)
  /\ UNCHANGED <<file, cache, nowid, seen, mixed>>

\* When a board is in the cache twice, the later entry wins.
Merged(data) ==
  [b \in Boards |->
     LET changed == {e \in Holding(b) : cache[e].changed}
     IN  IF changed = {} THEN data[b]
         ELSE cache[CHOOSE e \in changed : \A d \in changed : d <= e].list]

UpdateCopy(s) ==
  /\ ses[s].pc = "read"
  /\ ses'   = [ses EXCEPT ![s].pc = "copied", ![s].data = Merged(@)]
  /\ cache' = [e \in Entries |-> [cache[e] EXCEPT !.changed = FALSE]]
  /\ mixed' = (mixed \/ \E e \in Entries : cache[e].changed /\ Marking(e) # {})
  /\ UNCHANGED <<file, nowid, seen>>

\* The temporary file cannot be opened: nothing is copied.
UpdateFails(s) ==
  /\ DiskFull /\ ses[s].pc = "read"
  /\ Updated(s)
  /\ UNCHANGED <<file, cache, nowid, seen, mixed>>

\* What can be read of a file that ends after i ids of the list of board k.
UpTo(data, k, i) ==
  [b \in Boards |-> [j \in 1..M |-> IF b < k \/ (b = k /\ j <= i) THEN data[b][j] ELSE 0]]

\* The file after an attempt to write data.  If gzwrite fails the old file stays;
\* if gzclose fails, whose result is not looked at, a shorter one takes its place.
Written(data) ==
  {data} \cup IF DiskFull THEN {file} \cup {UpTo(data, k, i) : k \in Boards, i \in 0..M}
             ELSE {}

UpdateWrite(s) ==
  /\ ses[s].pc = "copied"
  /\ file' \in Written(ses[s].data)
  /\ Updated(s)
  /\ UNCHANGED <<cache, nowid, seen, mixed>>

-----------------------------------------------------------------------------
\* SIGHUP at any point: the handler ends in u_exit and brc_update.
HangUp(s) ==
  /\ s \in Mortal /\ ses[s].pc # "out"
  /\ ses' = [ses EXCEPT ![s] = [Out EXCEPT !.pc = "update"]]
  /\ mixed' = (mixed \/ ses[s].pc = "marking")
  /\ UNCHANGED <<file, cache, nowid, seen>>

Die(s) ==
  /\ s \in Mortal /\ ses[s].pc # "out"
  /\ ses' = [ses EXCEPT ![s] = Out]
  /\ mixed' = (mixed \/ ses[s].pc = "marking")
  /\ UNCHANGED <<file, cache, nowid, seen>>

\* A page of the web maps the cache anew; it ends without brc_update.
PageEnd(s) ==
  /\ ses[s].pc = "in"
  /\ ses' = [ses EXCEPT ![s] = Out]
  /\ UNCHANGED <<file, cache, nowid, seen, mixed>>

\* clean_cachedata after the last logout: the changed lists are saved, if the
\* time stamp of the cache is later than that of the file, and the cache is
\* removed.
Clean ==
  /\ \A s \in Sessions : ses[s].pc = "out"
  /\ \/ file' \in Written(Merged(file))
     \/ ~Stamped /\ file' = file
  /\ cache' = [e \in Entries |-> Empty]
  /\ UNCHANGED <<nowid, ses, seen, mixed>>

Post(b) ==
  /\ nowid[b] < MaxId[b]
  /\ nowid' = [nowid EXCEPT ![b] = @ + 1]
  /\ UNCHANGED <<file, cache, ses, seen, mixed>>

\* delete_board, then a new board under the number: the marks are kept.
Renew(b) ==
  /\ b \in Renewed
  /\ nowid' = [nowid EXCEPT ![b] = 0]
  /\ seen'  = [w \in Watched |-> IF w = b THEN {} ELSE seen[w]]
  /\ UNCHANGED <<file, cache, ses, mixed>>

SessionStep(s) ==
  \/ Login(s)
  \/ \E b \in Boards : Hit(s, b) \/ Miss(s, b)
  \/ Load(s) \/ Name(s)
  \/ Read(s) \/ ClearAll(s) \/ ClearOld(s) \/ Look(s) \/ Mark(s)
  \/ Exit(s) \/ UpdateScan(s) \/ UpdateCopy(s) \/ UpdateFails(s) \/ UpdateWrite(s)
  \/ PageEnd(s) \/ HangUp(s) \/ Die(s)

Next ==
  \/ \E s \in Sessions : SessionStep(s)
  \/ Clean
  \/ \E b \in Boards : Post(b) \/ Renew(b)

Spec == Init /\ [][Next]_mvars

-----------------------------------------------------------------------------
EntryType   == [bid : Boards \cup {0}, list : Lists, changed : BOOLEAN]
SessionType == [pc : {"out", "in", "picked", "loaded", "marking", "update", "read",
                      "copied"},
                bid : Boards \cup {0}, cur : 0..C, slot : 0..C, opened : Lists,
                op : {"none", "add", "all", "cut"}, fid : Nat, data : [Boards -> Lists], after : {"exit", "load"}]

\* Every variable has its type; a session that has an entry has one of the cache.
TypeOK ==
  /\ file \in [Boards -> Lists]
  /\ cache \in [Entries -> EntryType]
  /\ nowid \in [Boards -> Nat]
  /\ seen \in [Watched -> SUBSET (Nat \ {0})]
  /\ ses \in [Sessions -> SessionType]
  /\ mixed \in BOOLEAN
  /\ \A s \in Sessions :
       /\ ses[s].pc \in {"picked", "loaded"} => ses[s].slot # 0 /\ ses[s].bid # 0
       /\ ses[s].pc = "marking" => ses[s].cur # 0
       /\ ses[s].cur # 0 \/ ses[s].after = "load" => ses[s].bid # 0

\* The ids decrease up to the zero that ends the list, or to the end.
Descending(l) ==
  \A i \in 2..M : (\A m \in 1..i : l[m] # 0) => l[i] <= l[i - 1]

(***************************************************************************)
(* The loops that look an id up, mark it or forget old ones stop at the    *)
(* first id that is not greater: they are right only on descending lists.  *)
(* The lists stay so in the file and in the cache, whatever sessions do to *)
(* the entries of each other, wherever they are killed and whatever a full *)
(* disk leaves of the file, until two operations on one entry overlap or   *)
(* a mark is cut off.                                                      *)
(***************************************************************************)
ListsDescend ==
  mixed \/ /\ \A b \in Boards : Descending(file[b])
           /\ \A e \in Entries : Descending(cache[e].list)

Settled == \A s \in Sessions : ses[s].pc # "loaded"

\* The list brc_initial would find for a board.
Current(b) ==
  IF Holding(b) = {} THEN file[b]
  ELSE cache[CHOOSE e \in Holding(b) : \A d \in Holding(b) : e <= d].list

(***************************************************************************)
(* What the user read stays read: neither a mark made later, nor the loss  *)
(* of the oldest ids of a full list, nor the reuse of an entry of the      *)
(* cache, nor logout and login make an article unread.                     *)
(***************************************************************************)
ReadStaysRead ==
  Settled => \A b \in Watched : \A f \in seen[b] : ~Unread(Current(b), f)

(***************************************************************************)
(* What the user did not read is shown as unread, except the articles      *)
(* older than all ids of a full list, and the first one of the board.      *)
(***************************************************************************)
UnreadStaysUnread ==
  Settled => \A b \in Watched : \A f \in 2..nowid[b] :
    f \in seen[b] \/ Unread(Current(b), f) \/ Above(Current(b), f, M)
=============================================================================
