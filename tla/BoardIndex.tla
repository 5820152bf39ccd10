----------------------------- MODULE BoardIndex -----------------------------
(***************************************************************************)
(* The index file .DIR of one board (an array of struct fileheader), its   *)
(* .DELETED index, the article files, and the counter nowid from which     *)
(* libBBS/bcache.c numbers the posts.  after_post appends a header;        *)
(* do_del_post takes one out in steps (map the file, lock it and find the  *)
(* header again, close the gap, truncate, rename the article file);        *)
(* do_undel_post puts a deleted one back.  All of them are processes of    *)
(* their own that share the file through mmap and a record lock on it.     *)
(*                                                                         *)
(* A header is the article and its id: a file name that differs only in    *)
(* the letter that tells whether the article is live ("M") or deleted      *)
(* ("D") is the same article.                                              *)
(*                                                                         *)
(* Past the end of the file a process that mapped it reads zeros as far as *)
(* the page of the last byte goes.  Beyond that it gets SIGBUS, which the  *)
(* code catches: prepare_write_dir fails, do_del_post goes on.             *)
(***************************************************************************)
EXTENDS Integers, Sequences, FiniteSets

CONSTANTS
  Arts,       \* the articles that may be posted
  NoArt,      \* the empty file name
  Deleters,   \* processes that delete from a listing of .DIR
  Restorers,  \* processes that restore from a listing of .DELETED
  NoOne,      \* nobody holds the lock on .DIR
  MaxId,      \* bound on the ids handed out
  MaxLen,     \* bound on the length of .DIR
  MaxReload,  \* bound on the times the shared memory is created again
  HdrBytes,   \* sizeof(struct fileheader)
  PageBytes,  \* the size of a page
  Garbage     \* what lastfh.id + 1 of resolve_boards may be when lastfh was not read

ASSUME BoardAssumption ==
  /\ NoArt \notin Arts
  /\ NoOne \notin Deleters \cup Restorers
  /\ Deleters \cap Restorers = {}
  /\ HdrBytes \in Nat \ {0} /\ PageBytes \in Nat \ {0}
  /\ MaxId \in Nat /\ MaxLen \in Nat /\ MaxReload \in Nat
  /\ Garbage \subseteq Nat

VARIABLES
  dir,      \* the contents of .DIR
  deleted,  \* the headers in .DELETED, to which do_del_post only appends
  file,     \* per article "none", "M" or "D": the name its text has
  nowid,    \* brdshm->bstatus[].nowid, the last id handed out
  idseq,    \* bcache[].idseq, nowid as last saved in .BOARDS
  lock,     \* the process that holds the write lock on .DIR
  op,       \* per process the operation under way and its local variables
  reloads,  \* times the shared memory was created again
  torn      \* history: articles left in .DIR, or twice in it, by a move that got SIGBUS

bvars == <<dir, deleted, file, nowid, idseq, lock, op, reloads, torn>>

Movers  == Deleters \cup Restorers
Header  == [art : Arts, id : 1..MaxId]
Blank   == [art |-> NoArt, id |-> 0]
IdleOp  == [pc |-> "idle", hdr |-> Blank, ent |-> 0, size |-> 0]
At(d, i) == IF i \in 1..Len(d) THEN d[i] ELSE Blank

Init ==
  /\ dir = <<>> /\ deleted = {} /\ file = [a \in Arts |-> "none"]
  /\ nowid = 0 /\ idseq = 0
  /\ lock = NoOne /\ op = [p \in Movers |-> IdleOp] /\ reloads = 0
  /\ torn = {}

(***************************************************************************)
(* Search_Bin and the search of mmap_search_apply: binary search for id    *)
(* key in the first n entries of d, which ends at the entry or at the      *)
(* place where the id belongs.                                             *)
(***************************************************************************)
Windows(n) == (1..(n + 1)) \X (0..n)

\* One turn of the loop: the outcome in window w, given those in its halves.
Probe(d, key, step, w) ==
  LET low  == w[1]
      high == w[2]
      mid  == (low + high) \div 2
  IN  IF low > high THEN [hit |-> FALSE, at |-> low]
      ELSE IF key = At(d, mid).id THEN [hit |-> TRUE, at |-> mid]
      ELSE IF key < At(d, mid).id THEN step[<<low, mid - 1>>]
      ELSE step[<<mid + 1, high>>]

Search(d, key, n) ==
  LET step[w \in Windows(n)] == Probe(d, key, step, w) IN step[<<1, n>>]

\* Mutant of NextId: the counter is read before it moves.
MutSameId == nowid

\* Mutant of NextId: posts are numbered by their place in the index.
MutCountId == Len(dir) + 1

\* get_nextid: the id counter lies in shared memory, under a lock of its own.
NextId == nowid + 1

(***************************************************************************)
(* after_post: under the lock of .DIR the post gets an id and its header   *)
(* goes to the end.  The article file was written before.                  *)
(***************************************************************************)
Post(a) ==
  /\ file[a] = "none" /\ nowid < MaxId /\ Len(dir) < MaxLen
  /\ lock = NoOne
  /\ nowid' = nowid + 1
  /\ dir'   = Append(dir, [art |-> a, id |-> NextId])
  /\ file'  = [file EXCEPT ![a] = "M"]
  /\ UNCHANGED <<deleted, idseq, lock, op, reloads, torn>>

(***************************************************************************)
(* A user chooses an article from a listing that may long be out of date.  *)
(* The telnet client in the normal listing and the web client remember the *)
(* line it stood on; the other listings of the telnet client do not (ent   *)
(* is -1, here 0).                                                         *)
(***************************************************************************)
Pick(p) ==
  /\ op[p].pc = "idle"
  /\ \E i \in 1..Len(dir), here \in BOOLEAN :
       /\ dir[i] # Blank
       /\ op' = [op EXCEPT ![p] = [IdleOp EXCEPT !.pc = "picked", !.hdr = dir[i],
                                                 !.ent = IF here THEN i ELSE 0]]
  /\ UNCHANGED <<dir, deleted, file, nowid, idseq, lock, reloads, torn>>

(***************************************************************************)
(* malloc_write_dir_arg: map the index and note its size, before the lock  *)
(* is taken.  An empty file cannot be mapped and the deletion fails.       *)
(***************************************************************************)
Map(p) ==
  /\ op[p].pc = "picked"
  /\ op' = [op EXCEPT ![p] = IF dir = <<>> THEN IdleOp
                             ELSE [op[p] EXCEPT !.pc = "mapped", !.size = Len(dir)]]
  /\ UNCHANGED <<dir, deleted, file, nowid, idseq, lock, reloads, torn>>

(***************************************************************************)
(* The bytes of the file and those behind them in its last page.  The name *)
(* of an article is what its header begins with.                           *)
(***************************************************************************)
Mapped(b) == \E c \in 0..(Len(dir) * HdrBytes - 1) : b \div PageBytes = c \div PageBytes
Named(i)  == Mapped((i - 1) * HdrBytes)
Backed(i) == Mapped(i * HdrBytes - 1)

\* Mutant of Located: the entry the listing showed is trusted.
MutTrustEnt(o) ==
  IF o.ent \in 1..o.size THEN o.ent
  ELSE LET r == Search(dir, o.hdr.id, o.size) IN IF r.hit THEN r.at ELSE 0

\* Mutant of Located: the place where the id would belong is taken for the entry.
MutNearest(o) ==
  IF o.ent \in 1..o.size /\ At(dir, o.ent).art = o.hdr.art THEN o.ent
  ELSE LET r == Search(dir, o.hdr.id, o.size) IN IF r.at > o.size THEN 0 ELSE r.at

(***************************************************************************)
(* prepare_write_dir, once the lock is its own: the entry expected, when   *)
(* it still holds the article, and otherwise a binary search over the      *)
(* entries counted when the file was mapped.  0 when there is none, and    *)
(* when there is no page to read the expected entry from.  (A search that  *)
(* gets past the end of the file misses, whether it reads zeros or not.    *)
(* Every caller of do_del_post passes DIR_MODE_NORMAL, so the search by    *)
(* file name of the unsorted modes is not met here.)                       *)
(***************************************************************************)
Located(o) ==
  LET r == Search(dir, o.hdr.id, o.size)
  IN  IF o.ent \in 1..o.size /\ At(dir, o.ent).art = o.hdr.art THEN o.ent
      ELSE IF r.hit /\ (o.ent \in 1..o.size => Named(o.ent)) THEN r.at
      ELSE 0

Prepare(p) ==
  /\ op[p].pc = "mapped" /\ lock = NoOne
  /\ LET e == Located(op[p])
     IN  IF e = 0 THEN /\ op' = [op EXCEPT ![p] = IdleOp]
                       /\ lock' = lock
         ELSE /\ op' = [op EXCEPT ![p] = [op[p] EXCEPT !.pc = "locked", !.ent = e]]
              /\ lock' = p
  /\ UNCHANGED <<dir, deleted, file, nowid, idseq, reloads, torn>>

\* Mutant of Closed: the gap is closed one entry too late.
MutClosedLate(d, e, n) ==
  [i \in 1..Len(d) |-> IF e < i /\ i < n THEN At(d, i + 1) ELSE d[i]]

(***************************************************************************)
(* do_del_post: the header is copied and the entries behind it move up, as *)
(* far as the size noted when the file was mapped says.                    *)
(***************************************************************************)
Closed(d, e, n) ==
  [i \in 1..Len(d) |-> IF e <= i /\ i < n THEN At(d, i + 1) ELSE d[i]]

\* The entries up to k can be moved: all behind op[p].ent have a page.
Movable(p, k) == \A i \in (op[p].ent + 1)..k : Backed(i)

Shift(p) ==
  /\ op[p].pc = "locked" /\ Movable(p, op[p].size)
  /\ dir' = Closed(dir, op[p].ent, op[p].size)
  /\ op'  = [op EXCEPT ![p] = [op[p] EXCEPT !.pc = "shifted", !.hdr = At(dir, op[p].ent)]]
  /\ UNCHANGED <<deleted, file, nowid, idseq, lock, reloads, torn>>

(***************************************************************************)
(* The move runs into SIGBUS after the entries up to k (how many were      *)
(* moved depends on memmove; a header counts as moved when its name and id *)
(* were).  The empty BBS_CATCH skips ftruncate and do_del_post goes on:    *)
(* un_lock, and cancelpost for the article of the header it copied, though *)
(* that may still be listed, or the last one moved be listed twice.        *)
(***************************************************************************)
ShiftFault(p) ==
  /\ op[p].pc = "locked" /\ ~Movable(p, op[p].size)
  /\ \E k \in op[p].ent..op[p].size :
       /\ Movable(p, k)
       /\ dir'  = Closed(dir, op[p].ent, k)
       /\ torn' = torn \cup ({At(dir, k).art} \cap Arts)
  /\ lock' = NoOne
  /\ op'   = [op EXCEPT ![p] = [op[p] EXCEPT !.pc = "removed", !.hdr = At(dir, op[p].ent)]]
  /\ UNCHANGED <<deleted, file, nowid, idseq, reloads>>

\* Mutant of Truncate: the file keeps its length.
MutTruncate(p) ==
  /\ op[p].pc = "shifted"
  /\ lock' = NoOne
  /\ op'   = [op EXCEPT ![p] = [op[p] EXCEPT !.pc = "removed"]]
  /\ UNCHANGED <<dir, deleted, file, nowid, idseq, reloads, torn>>

\* ftruncate to one entry less than the noted size, and un_lock.  A file that
\* has become shorter than that grows again, with zeros.
Truncate(p) ==
  /\ op[p].pc = "shifted"
  /\ dir'  = [i \in 1..(op[p].size - 1) |-> At(dir, i)]
  /\ lock' = NoOne
  /\ op'   = [op EXCEPT ![p] = [op[p] EXCEPT !.pc = "removed"]]
  /\ UNCHANGED <<deleted, file, nowid, idseq, reloads, torn>>

\* f_mv, which fails unnoticed when there is no file of the old name.
Renamed(a, from, to) == IF file[a] = from THEN [file EXCEPT ![a] = to] ELSE file

\* cancelpost: the article file is renamed and the header goes to .DELETED.
Cancel(p) ==
  /\ op[p].pc = "removed"
  /\ file'    = Renamed(op[p].hdr.art, "M", "D")
  /\ deleted' = deleted \cup {op[p].hdr}
  /\ op'      = [op EXCEPT ![p] = IdleOp]
  /\ UNCHANGED <<dir, nowid, idseq, lock, reloads, torn>>


(***************************************************************************)
(* do_undel_post up to the second dashf: a header of .DELETED whose file   *)
(* is still there under its deleted name and not under its live name.      *)
(***************************************************************************)
Restorable(a) == file[a] = "D"

UndelCheck(p) ==
  /\ op[p].pc = "idle"
  /\ \E h \in deleted :
       /\ Restorable(h.art)
       /\ op' = [op EXCEPT ![p] = [IdleOp EXCEPT !.pc = "checked", !.hdr = h]]
  /\ UNCHANGED <<dir, deleted, file, nowid, idseq, lock, reloads, torn>>

UndelMove(p) ==
  /\ op[p].pc = "checked"
  /\ file' = Renamed(op[p].hdr.art, "D", "M")
  /\ op'   = [op EXCEPT ![p] = [op[p] EXCEPT !.pc = "moved"]]
  /\ UNCHANGED <<dir, deleted, nowid, idseq, lock, reloads, torn>>

(***************************************************************************)
(* mmap_search_apply with insert_func, under the lock: the header goes     *)
(* where its id belongs.  Nothing is done when the index is empty, or when *)
(* the id is there already; in the latter case the lock is not given back. *)
(***************************************************************************)
Inserted(d, h, at) == SubSeq(d, 1, at - 1) \o <<h>> \o SubSeq(d, at, Len(d))

Reinsert(p) ==
  /\ op[p].pc = "moved" /\ lock = NoOne /\ Len(dir) < MaxLen
  /\ LET h == op[p].hdr
         r == Search(dir, h.id, Len(dir))
     IN  \/ /\ dir # <<>> /\ ~r.hit
            /\ dir' = Inserted(dir, h, r.at)
            /\ op'  = [op EXCEPT ![p] = IdleOp]
            /\ lock' = lock
         \/ /\ dir = <<>> \/ r.hit
            /\ op'   = [op EXCEPT ![p] = [op[p] EXCEPT !.pc = "append"]]
            /\ lock' = IF r.hit THEN p ELSE lock
            /\ dir'  = dir
  /\ UNCHANGED <<deleted, file, nowid, idseq, reloads, torn>>

\* The rest of do_undel_post then appends the header under a new id.
Reappend(p) ==
  /\ op[p].pc = "append" /\ nowid < MaxId /\ Len(dir) < MaxLen
  /\ lock \in {NoOne, p}
  /\ nowid' = nowid + 1
  /\ dir'   = Append(dir, [op[p].hdr EXCEPT !.id = NextId])
  /\ lock'  = NoOne
  /\ op'    = [op EXCEPT ![p] = IdleOp]
  /\ UNCHANGED <<deleted, file, idseq, reloads, torn>>

(***************************************************************************)
(* flush_bcache, run by flushd once a day and when it stops: nowid is      *)
(* saved in the boards file.                                               *)
(***************************************************************************)
Flush ==
  /\ idseq' = nowid
  /\ UNCHANGED <<dir, deleted, file, nowid, lock, op, reloads, torn>>

(***************************************************************************)
(* The machine stops without a flush and resolve_boards creates the shared *)
(* memory again: every process is gone with its lock, and nowid comes from *)
(* idseq and from the header get_record reads at count-1, which is the one *)
(* before the last, since record numbers start at 1.  With one header the  *)
(* read fails and lastfh holds whatever the stack held.                    *)
(***************************************************************************)
LoadedIds == IF Len(dir) = 1 THEN Garbage ELSE {dir[Len(dir) - 1].id + 1}

Reload ==
  /\ reloads < MaxReload
  /\ reloads' = reloads + 1
  /\ IF dir = <<>> THEN nowid' = idseq
     ELSE \E id \in LoadedIds : nowid' = IF idseq > id THEN idseq ELSE id
  /\ lock' = NoOne
  /\ op'   = [p \in Movers |-> IdleOp]
  /\ UNCHANGED <<dir, deleted, file, idseq, torn>>

Next ==
  \/ \E a \in Arts : Post(a)
  \/ \E p \in Deleters : \/ Pick(p) \/ Map(p) \/ Prepare(p)
                         \/ Shift(p) \/ ShiftFault(p) \/ Truncate(p) \/ Cancel(p)
  \/ \E p \in Restorers : UndelCheck(p) \/ UndelMove(p) \/ Reinsert(p) \/ Reappend(p)

Spec == Init /\ [][Next]_bvars

\* The same board on a machine that may stop.
RNext == Next \/ Flush \/ Reload
RSpec == Init /\ [][RNext]_bvars

-----------------------------------------------------------------------------
Positions == {i \in 1..Len(dir) : dir[i] # Blank}

\* Every variable has its type, and the lock belongs to the process that
\* stands between its writew_lock and its un_lock.
TypeOK ==
  /\ dir \in Seq(Header \cup {Blank})
  /\ deleted \subseteq Header
  /\ file \in [Arts -> {"none", "M", "D"}]
  /\ nowid \in Nat /\ idseq \in Nat /\ reloads \in 0..MaxReload /\ torn \subseteq Arts
  /\ op \in [Movers -> [pc : {"idle", "picked", "mapped", "locked", "shifted", "removed",
                              "checked", "moved", "append"},
                        hdr : Header \cup {Blank}, ent : Nat, size : Nat]]
  /\ lock \in Movers \cup {NoOne}
  /\ \A p \in Movers : op[p].pc \in {"locked", "shifted"} => lock = p

\* The header prepare_write_dir returns under the lock is that of the article
\* the user chose, however old the listing was and whatever moved meanwhile.
AskedOnly ==
  \A p \in Deleters : op[p].pc = "locked" => At(dir, op[p].ent).art = op[p].hdr.art

\* Whenever nobody is writing the index, an article it lists has its file
\* under the live name: no deletion renamed the file of an entry it left in,
\* and no restoration listed an article whose file was not there.  Only of an
\* article at which the move of a deletion got SIGBUS this is not claimed.
EntryHasFile ==
  lock = NoOne => \A i \in Positions : dir[i].art \notin torn => file[dir[i].art] = "M"

\* Whenever nobody is writing the index, no article is listed twice, but for
\* those at which a move got SIGBUS.
ListedOnce ==
  lock = NoOne => \A i, j \in Positions :
                     dir[i].art = dir[j].art => i = j \/ dir[i].art \in torn

\* Whenever nobody is writing the index, ids increase along it, on which the
\* binary searches of prepare_write_dir and of the readers rely: an article
\* that a move listed twice has one id in both places.
Ordered ==
  lock = NoOne => \A i, j \in Positions :
                     i < j => \/ dir[i].id < dir[j].id
                              \/ dir[i] = dir[j] /\ dir[i].art \in torn

\* The size prepare_write_dir returns with the lock is the size of the file.
\* Its comment says so; the code notes the size before it has the lock.
PreparedSize ==
  \A p \in Deleters : op[p].pc = "locked" => op[p].size = Len(dir)

\* nowid is not behind the last header, so that the next post gets a new id.
\* The comment in resolve_boards says nowid comes from the last header.
NowidCoversLast ==
  dir # <<>> => dir[Len(dir)].id <= nowid
=============================================================================
