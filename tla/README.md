# kbs_bbs in TLA+

kbs_bbs is a bulletin board system in C. It runs as one process per telnet or
ssh user, as web server processes with a PHP extension (`src/php`), and as a
handful of daemons (`src/daemon`). All of them share the same state: shared
memory segments (session table, board cache, user cache, web guests) and flat
files of fixed-size records (`.DIR`, `.DELETED`, `.BOARDS`, `.PASSWDS`),
with semaphores and fcntl locks around some of the accesses. Most of what can
go wrong is in how these processes interleave, time out and die.

This project models the parts in which the system's own logic lies, checks the
models with TLC on small instances and proves the central invariants with
TLAPS for every size of the tables.

## 1. The system

| component | source | state | operations | modelled |
|---|---|---|---|---|
| session table | `libBBS/utmp.c` | `utmpshm`: slots with `active`, `uid`, `pid`; `utmphead`: free list and hash chains (`hashhead`, `next`), ring sorted by user (`listhead`, `list_prev`, `list_next`), `number`, `uptime` | `getnewutmpent2`, `clear_utmp2`, `clear_utmp3`, `apply_utmp`, `apply_ulist`, `kick_user_utmp` | UtmpTable |
| login daemon and its clients | `daemon/miscd.c`, `libBBS/utmp.c:120-200`, `src/newmain_single.c` | the listen backlog, the request being served, each session's `utmpent` | `utmpd`, `getnewutmpent`, `clear_utmp`, `u_enter`, `u_exit`, `abort_bbs` | UtmpSession |
| web sessions | `php/bbslib.c` | slot and key in a cookie, `freshtime`; guest table (bit map, entries, address hash, counter) | `www_user_login`, `www_user_init`, `www_user_logoff`, `www_new_guest_entry`, `www_free_guest_entry` | UtmpSession, WwwGuest |
| board index | `libBBS/article.c`, `libBBS/bcache.c` | `.DIR` and `.DELETED` of a board, article files, `nowid` in shared memory, `idseq` in `.BOARDS` | `after_post`, `do_del_post`, `prepare_write_dir`, `cancelpost`, `do_undel_post`, `get_nextid`, `flush_bcache`, `resolve_boards` | BoardIndex |
| board table | `libBBS/bcache.c`, `boards.c` | `.BOARDS`, `bstatus` (total, lastpost, users in a board), favourites | create and rename a board, `updatelastpost`, `board_setcurrentuser` | no |
| record files | `libBBS/record.c` | any file of records | `append_record`, `substitute_record`, `delete_record`, `apply_record` | as BoardIndex uses them |
| user cache | `libBBS/ucache.c`, the `userd` of `miscd.c` | `uidshm`: records, free list and hash chains of names (`hashhead`, `next`), `number`; `.PASSWDS` | `setuserid_internal` (register, rename, delete), `searchuser`, `flush_ucache`, `load_ucache` | UserCache |
| chat | `daemon/station.c` | `users`: connection, name, room, flags; `rooms`: name, count, flags, invitations | login, goodbye, lost connection, `/join`, `/rname`, `/flags`, `/nick`, `/kick`, `/kid`, `/operator`, `/toggle`, `/invite` | Chat |
| read marks | `brc_*` in `libBBS/boards.c`, `clean_cachedata` in `ucache.c` | per user and board a short descending list of read ids: all in `.boardrc.gz`, some in a cache all sessions of the user map | `brc_initial`, `brc_getcache`, `brc_update`, `brc_unread`, `brc_board_unread`, `brc_add_read`, `brc_clear`, `brc_clear_new_flag` | BrcMarks |
| online messages | `libmsg.c`, `libnewmsg.c`, `webmsgd.c` | message files and counts | save, mark as read, SIGUSR2 or web poll | no (planned) |
| locks and shared memory | `libBBS/stuff.c` | semaphores, segments | `attach_shm`, `get_locksemid`, `writew_lock` | assumed to work |
| members | `libBBS/member_cache.c`, `libmember.c` | member cache in shared memory | join, leave, titles | no (planned) |
| mail, votes, announcements, board rights, article content | see `PROJECT.json` | record files of one owner, data | | no |
| front ends, talk, games, news exchange, pop3, log daemon, utilities, ssh server | see `PROJECT.json` | terminal and socket I/O | | no |

How they interact. A session process asks `utmpd` for a slot over a unix
socket and waits five seconds for the answer; only `utmpd` relinks the table,
but every process reads it, and some write into it, without a lock. Processes
send each other signals (kick: SIGHUP or SIGKILL, message: SIGUSR2) by the pid
a slot holds. The web has no process per user: PHP requests find the slot again
from a cookie, and time-outs replace the death of a process. Sessions and web
requests that post, delete or restore articles each map the index of the board
and lock it with fcntl for parts of what they do. `flushd` writes the counters
of the shared memory back once a day. Any program looks users up in the user
cache without a lock, while `userd` relinks it under one. The chat daemon keeps its
state to itself and serves one line of one client at a time.

What is hard about it, and what makes each part correct:

* **session table**: three pointer structures over the same slots changed by hand.
  No slot may leak or be shared, the chain of a user holds all sessions of the
  user, the ring is sorted, the number is right. `clear_utmp2` clears a slot that is
  not in use, too, and that breaks them.
* **login daemon**: an answer can come after the client gave up or died; clear
  requests carry a slot and a pid remembered from earlier, and a kick signals
  whoever is in the slot by then. A session that
  nobody kicked must keep its slot while it stays, and no slot may be occupied for ever.
* **web sessions**: state is read in one request and used in the next; a part of
  the login is done after the lock is given back. The number of guests limits
  logins, so it must not drift.
* **board index**: deletion works from an old listing on a file that posts,
  deletions and restorations change meanwhile, and in several steps. Only the
  article asked for may go, each entry must have its file, ids must increase along the index
  since the lookups are binary searches, and ids must not be given twice. What a
  process mapped may be gone when it moves the entries: then it gets SIGBUS, and the deletion goes on
  after an empty catch.
* **user cache**: a slot moves between chains in four stores that searches see
  one by one. No slot may be lost, no name given twice, no user missed, and no
  search may go in a circle; what a crash leaves of a save must not break that.
* **chat**: rooms come and go by a count kept by hand; invitations and names hang
  on numbers and slots that are used again. The count must be exact, a closed room
  must stay closed, and a permission must not travel.
* **members, multi-login limit** (not modelled): the limit rests on a count taken
  before the slot is allocated.
* **read marks**: a bounded list stands for an unbounded set. An article must not
  become unread by reading another one, nor by the reuse of the cache entry its
  list is in, and none may become read that was not. The cache and the file are shared by
  sessions without any lock, and a mark first looks for its place and then shifts the list.
* **messages** (planned): count and file of a mailbox are updated by sender and
  reader.

The hazards in `PROJECT.json` list each of these at its line, with the property
that would catch it.

## 2. Modules

| module | what it is |
|---|---|
| `SlotPool` | abstract specification of the session table: slots free or held by a user |
| `UtmpTable` | the session table at pointer level; `PoolSpec` says that it implements `SlotPool` |
| `UtmpTable_proofs` | its inductive invariant, the safety theorems and the refinement theorem |
| `UtmpSession` | extends `UtmpTable`: telnet and web sessions, the queue and loop of `utmpd`, kickers; `TableSpec` says that together they use the table only as `UtmpTable` allows |
| `UtmpSession_proofs` | theorems of the composed system, on top of those of the table |
| `BoardIndex`, `BoardIndex_proofs` | `.DIR`, `.DELETED`, article files and id counter of one board, with concurrent movers; and the theorems about them |
| `WwwGuest`, `WwwGuest_proofs` | the table of web guests, and the theorems about it |
| `UserCache`, `UserCache_proofs` | the table of registered users at pointer level, with its searches, saves and reloads; and the theorems about it |
| `Chat`, `Chat_proofs` | the chat daemon; and the theorems about it |
| `Ranks` | lemmas that several proofs use: a set of ranked slots has one of least rank, and induction over a set of numbers |
| `BrcMarks`, `BrcMarks_proofs` | the read marks of one user: operations on a list, cache, file, sessions; and the theorems about them |
| `MC*` | instances for TLC |

### UtmpTable

`hashhead`, `next`, `listhead`, `list_prev`, `list_next`, `number` and `uinfo` are
the fields of the same names, with 0 for nil; a slot is numbered from 1 as in
the code. `New` is `getnewutmpent2` (pop the free list, insert into the ring, push
on the hash chain), `NewFull` its refusal, `Clr` is `clear_utmp3` with the test
that the request still names the session, `ClearEntry` is `clear_utmp2`.
`getnewutmpent2` also walks the whole table every two minutes and clears the
slots of processes that are gone; the walk is one action per slot (`SweepSkip`,
`SweepClear`, position in `sweep`) because processes die, and web logins write
pids, while it runs. `SetWebPid` is the write of `www_user_login` that takes no
lock. A user id string is the number of the user; the order of
`strcasecmp` is the order of the numbers. `zeroinfo.uid` is never assigned
(`utmp.c:609`), so the uid of a cleared slot is any member of the constant `Residue`,
which may contain users' numbers; all that is assumed is that it contains 0, what the slots
begin with.

`clear_utmp3` compares user and pid (any user if the request names 0) but does
not ask whether the slot is in use, and `clear_utmp2` logs a slot that is not ("clear inactive entry")
and goes on, its `return` being commented out. A request with pid 0 can
therefore meet a cleared slot and link it to the free list a second time. `ClearEntry` has this branch:
the bucket it searches is that of an uninitialised name, so any (`HashKeys`), the ring is
relinked by the old links, the number stays. The history variable `stray`
records it. After such a step the free list is a circle or has
a slot twice, the loops of `utmpd` may not end and its stores may hit slots in use; the model takes the
step and stops `utmpd` there (`~stray` in the guards of its actions). `ChainsPartition`, `LookupComplete`, `RingLinked` and `RingSorted` are
promised until then, `NumberExact`, `PoolSpec` and `TypeOK` through it.

### UtmpSession

A client is `off`, `entering` (request sent), `on`, `leaving`, `gone`; a web
session has `got` between the answer and the write of its pid. `queue` is the
backlog of the socket, `client` the connection `utmpd` is serving, `Reply` its
answer, `Drop` a connection whose request does not come within a second. `EnterTimeout` and `WebTimeout` are the five
seconds of `sendutmpreq`, after which the request stays in the queue. `Die` is a crash or the
end of the process, `HangUp` the SIGHUP handler. `kick_user_utmp` is in its
steps. Without an entry it walks over the hash chain without a lock (`KickStart`, `KickWalk`);
with one (`KickOne`: the choice among one's own windows, `newmain_single.c:396`, the list of users,
`delete.c:522`, and the menu that kicks everybody, `xyz.c:1845`) it remembers who is in that slot. Then follow for
each entry it saved a test (`KickCheck`), a signal (`KickKill`) and a clear
request (`KickClear`). The signal goes to the pid that the slot holds by then, be it another session's
than the one meant, and for pid 0 to the whole process group of the kicker (`Group`); the clear
request carries the pid that was saved.
`kicked` (the processes a kicker saved) and `clobbered` are history variables used by properties only. A victim of a wrong
signal is not in `kicked`: it is hung up or dead, and leaves, which no property forbids.
`FairSpec` adds that `utmpd` serves (`UtmpdServes`) and that a kicker goes on
(`KickRuns`).

### BoardIndex

`dir` is the file as a sequence of headers, `deleted` what is in `.DELETED`,
`file` the name under which the text of an article lies. `Post` is `after_post`.
A deletion is `Pick` (from a listing that may be arbitrarily old), `Map` (the size
is read), `Prepare` (lock, find the entry: `Located`), `Shift` (memmove),
`Truncate` (ftruncate and unlock), `Cancel` (rename the file, append to
`.DELETED`). `Search` is `Search_Bin`, a recursive function on the windows (`Windows`)
the loop may look at; `Probe` is one turn of the loop. A restoration is `UndelCheck`, `UndelMove`, `Reinsert`
(`mmap_search_apply` with `insert_func`) and, when the id is taken or the index is empty,
`Reappend` under a new id. `RSpec` adds `Flush` and `Reload`, a
machine that stops and creates its shared memory again.

The index is also a file of bytes: a header has `HdrBytes`, a page `PageBytes`, and a process that
mapped the file before another cut it off can touch the bytes up to the end of its last page
(`Mapped`; zeros behind the end). Beyond that it gets SIGBUS. In `prepare_write_dir`
the catch gives up (`Located` is 0). In `do_del_post` the catch is empty (`article.c:396`): `ShiftFault` leaves the move
after some entry `k`, does not truncate, gives the lock back and goes on to `Cancel`. So the file is renamed while the
entry the move stopped at is still listed, or listed twice; the history variable `torn` holds
the articles this happened to, and the properties claim nothing of them. `memmove`
is taken to move headers in order, and a header to be moved when its name and id are.
`do_del_post` is called for `.DIR` only in a sorted mode (`DIR_MODE_NORMAL` in
`bbs.c:5055`, `bbs.c:5058`, `php/bbslib.c:1705` and `receive_article.c:711`), so the linear search of
`prepare_write_dir` (`article.c:187`) is never reached there and is left out.

### WwwGuest

`used` is the bit map, `fromip` and `key` the entries, `hashtab` the address
hash, `count` is `www_guest_count`. `Zero` and `Reset` are `resolve_guest_table` in the process
that creates the table: the counter, in a segment that may be older, becomes 0 after the
lock is given back, and a guest may come before (`early`, history). `Enter` is `www_new_guest_entry` as a whole
(it holds the lock), with the clean-up of idle guests at its start; `Fill` is
what `www_user_login` writes afterwards without the lock; `Page` and `Leave`
begin with `www_user_init`; `Free` is `www_free_guest_entry`; `Age` lets an
hour pass.

### UserCache

`hashhead`, `next` and `userid` are the fields of `uidshm`, numbered as there;
`hashhead[0]` is the free list. `setuserid_internal` is in its stores: `Begin` takes
the lock, looks for the name and unlinks the slot, `Aim` and `Link` put it at
the head of its new chain, `Write` copies the name and gives the lock back. `New`,
`Set` and `Del` are the requests of `userd` and the deletion by `killauser`;
which slot and which name they come with is left open, since the clients'
knowledge may be of any age. `searchuser` is one step per comparison and per link
(`Compare`, `Advance`). `Flush` writes one record of `.PASSWDS`; `Reload`
is a machine that stops, after which `load_ucache` fills in one record at a time
(`FillEmpty`, `FillName`), and empties one of two records of the same name: the later
(`FillLater`) or the earlier (`FillEarlier`), by their numbers of logins, which
are left open. `within`, `dups` and the fields `there` and `moved` of a search are history.

### Chat

`sock`, `utent`, `chatid`, `room`, `flags` are the fields of `users[]`, `name`,
`occupants`, `mode` (the room's `flags`) and `invites` those of `rooms[]`. One line of a
client is one step. `Go`, `GoNew` and `ExitRoom` are `enter_room` with
`exit_room` inside it, into a room that there is, into a new one, and out; `Gone` is
`exit_room` with `logout_user`. Each command is the action of its name;
`KickOut` and `KickToMain` are the two outcomes of `/kick` and `/kid`. User
levels are sets of four kinds of bit: `PERM_CHATROOM`, which is `PERM_CHAT` and which
most users have when they come, `PERM_CHATOP`, `PERM_SYSOP`, and others that only make the
level differ from 0. `asked` is history: who, on this connection, has been
invited to the room that has the number now.

### BrcMarks

`cache` is `session->brc_cache_entry`, which lies in a file that all sessions of
the user map; `file` is `.boardrc.gz`. The operations on one list are operators: `Unread` is
`brc_unread`, `AddRead` `brc_add_read`, `AllRead` `brc_clear`, `ReadUpTo`
`brc_clear_new_flag`; `Above(l, f, i)` says that a loop looking for `f` goes on
past position `i`. A session is `out`, `in`, or inside one of the operations. A mark
(`Read`, `ClearAll`, `ClearOld`, `Look`: `Begin`) finds its place in the list as it is (`opened`), and then
(`Mark`, `Stored`) shifts and stores in the list as it is by then, without a lock. Between the two another session can mark,
load another board into the entry, or save it. So two sessions that mark at once can leave `10, 12, 9`:
one has found the place for 10, the other inserts 12, the first
shifts and stores. `mixed` records that operations on one entry overlapped, or that a mark was cut off by a signal; the stores of
one mark are one step, since what follows an overlap is not claimed anything of. In `brc_initial` it has found no entry of the board, opened the file and chosen an
entry (`Miss`, `picked`), has overwritten its list with that of the file it opened (`Load`, `loaded`), and
writes the board's number (`Name`). In `brc_update` it has something to save (`UpdateScan`, `read`), has copied the changed lists
and cleared their flags (`UpdateCopy`, `copied`), and renames the new file into place
(`UpdateWrite`), which may be cut short, since the result of `gzclose` is not looked at (`Written`). `brc_update` runs at logout (`Exit`, `HangUp`) and inside
`brc_initial` when all entries are changed (`after = "load"`). `PageEnd` is the end of a request of the web, which does not
save, `Clean` is `clean_cachedata`, `Renew` is `delete_board` (the id counter goes
to 0, the marks stay). `Look` is the repair in `brc_board_unread` of a list
that is ahead of its board; descending lists and ids that only grow leave it
nothing to do unless a board was renewed.

## 3. Runs

Each run's properties are listed in `PROJECT.json` together with a mutant of the
code that violates each of them.

| run | instance | shows |
|---|---|---|
| `utmp_table` | 3 slots, 3 users, 2 of them in one of 2 buckets | any order of logins, logouts (stale ones too), clean-ups and late pid writes keeps free list, chains, ring and number consistent until a slot not in use is cleared; the table implements `SlotPool` |
| `utmp_kick` | 2 slots, 3 telnet processes of 2 users, one of them kicks all sessions of a user or one, with SIGHUP or SIGKILL | no clear request takes the slot of a session that stays and was not kicked (`OnlineListed`), every slot of a telnet session will be cleared by its owner or can be cleared by the clean-up (`Reclaimable`), and the table is used only as `UtmpTable` allows (`TableSpec`) |
| `utmp_web` | 2 slots, 2 telnet processes, a web session of the same user, a kicker, cleared slots that keep the user's number, fairness | the same with web time-outs and late pid writes; a slot stays at pid 0 only when its login never got the answer (`PidZeroUnanswered`); whoever waits for `utmpd` gets an answer (`Answered`), and a kick ends (`KickEnds`), both unless `utmpd` is `stray` |
| `board_delete` | 4 articles, 2 deleters, headers of 2 bytes on pages of 3 | deletions from old listings, also through the stale size below, take out only what was asked for, and leave files and entries in agreement and ids in order, but for an article at which a move got SIGBUS |
| `board_restore` | 2 articles, 2 deleters, 1 restorer, the same pages | the same with a restoration that may repeat, except the order |
| `board_prepared_size` | 3 articles, 2 deleters | **violation** of the comment at `prepare_write_dir` (`PreparedSize`) |
| `board_reload` | 4 articles, 1 deleter, 1 stop of the machine | **violation** of the comment in `resolve_boards` (`NowidCoversLast`) |
| `web_guest` | 2 entries, 3 browsers, 2 addresses with the same hash | the guest counter is exact, through clean-ups and double releases, once the table is created and unless a guest came before |
| `brc_marks` | 1 session, 3 boards of up to 4 articles, lists of 3 ids, 2 entries | what was read stays read (`ReadStaysRead`), nothing else becomes read (`UnreadStaysUnread`): full lists, entries that are empty, clean or changed, saves in the middle of a turn to another board, requests of the web that leave without saving |
| `brc_shared` | 2 sessions that may be hung up or killed, 1 board that may be renewed, writing may fail or be cut short | the lists stay descending (`ListsDescend`), on which all loops rely, until operations on one entry overlap |
| `user_cache` | 3 slots, 2 names in one bucket, 1 search, 1 crash, fairness | chains and free list hold every slot once at every store (`ChainsPartition`), no name is given twice (`NamesUnique`), a search that finds nothing is right (`MissIsTrue`), and every search ends once updates do (`SearchEnds`) |
| `chat` | 2 connections, 3 rooms with 3 names, a sysop, a plain user and a guest | counts are exact (`OccupantsExact`), rooms and users are told apart by name (`RoomsDistinct`, `ChatIdsDistinct`), closed rooms are entered by invitation only (`InvitedOnly`), operators stay behind (`OpStaysBehind`) |

Results that are not runs. `Ordered` holds in `board_delete` but not when
two deletions and a restoration meet: a size noted before another deletion
makes `ftruncate` grow the file by a zeroed entry, the binary search of the
restoration meets id 0 there, and the header goes to the wrong place. No
comment of the code excludes it, so it is recorded as the hazard at
`article.c:1768` and `board_restore` leaves `Ordered` out. In the same way, after a double release the hash table of
the web guests can name an entry whose bit is not set (hazard at `bbslib.c:304`).
`kick_user_utmp` with a null entry is said to kick all logins of a user (`utmp.c:717`). Its
walk reads `next` of a slot without the lock; when `utmpd` clears that slot
in between, `next` leads into the free list, and the logins behind it on the chain are
missed; it also stops at ten, and only `miscd.c:250` and two places in `userinfo.c` call it again then. Its signal
goes to whoever is in the slot by then (hazard at `utmp.c:740`), so that a user whom nobody meant can be hung up. The runs
show what does hold: it ends (`KickEnds`), and its clear requests take no slot from a session that stays (`OnlineListed`).
A clear request can meet a slot not in use, in `utmp_web` after eleven steps: a kicker has saved
a web entry that still had pid 0, the entry is cleared, and the uninitialised number left in it is
the user's. The code has a log line for the case and no promise about it, so this is a hazard
(`utmp.c:622`) and no finding.
After a move that got SIGBUS, `EntryHasFile` and `ListedOnce` fail for the article it stopped at (hazard at `article.c:396`).
A search of the user cache can miss a user when another slot of the same bucket is
renamed or deleted under it, a rename inside one bucket may give a name that is taken, and after a load
that found a name twice the free slots before it are lost: `MissIsTrue`, `NamesUnique` and
`ChainsPartition` each name their exception, and the hazards their lines. In the
chat a guest, who is told that he can chat in the main room only (`station.c:1238`),
leaves it once somebody made him operator.
Two logins from one address at once get an entry each, although a comment says "1 guest
entry per IP" (`bbslib.c:137`): the address is written after the lock is given
back (hazard at `bbslib.c:605`).
`ReadStaysRead` and `UnreadStaysUnread` are stated for one session that is not
killed, `ListsDescend` for any number whose operations on one entry do not overlap; without
that restriction TLC finds a list like `10, 12, 9`. With two sessions the code loses marks (two `brc_update` at once) and moves marks to another board (two
`brc_initial` on one entry, or SIGHUP between overwriting the list and naming
it), and TLC finds both properties violated. A failed or cut write violates `ReadStaysRead`, and so does
`Stamped = FALSE`, under which `clean_cachedata` may take a changed cache for saved; a renewed board violates
`UnreadStaysUnread`. No comment of the code promises
otherwise, so these are hazards, each at its line, and no runs.

### Findings

1. `PreparedSize` (`article.c:146`). The size `prepare_write_dir` hands out is that
   of the mapping, made before the lock was taken. `do_del_post` moves and
   truncates by it: a post in between falls off the index (it keeps its file), a
   deletion in between leaves a zeroed entry at the end.
2. `NowidCoversLast` (`bcache.c:198`, "get nowid from the last fileheader and
   idseq"). `get_record` counts from 1, so `count-1` is the last header but
   one; with one header in the file the read fails and an uninitialised id is used.

## 4. Bounds, and why they are enough

* `N`, `H`, `Uids` in `utmp_table`: with three slots a chain and the ring have a
  head, a middle and an end, which are the cases that the code distinguishes; two
  buckets and a shared one let a slot move between chains. `Residue` is what the number left
  in a cleared slot may be: 0, which no user has, or that of user 1, with which a late clear
  request can match a slot not in use. The theorems hold for all `N`, `H`, `Uids` and `Residue`.
* `UtmpSession`: a slot can be freed and given to another session of the same or another user
  while a kicker, a late answer or a stale logout still names it; that takes one
  slot and two sessions. `MaxKick` stands for the ten places of
  `struct kickuser_save`; the `Backlog` of `listen` is 1 instead of 5: a stale request and a new one
  come in either order, and with one place a client also waits for the other. `Group` puts processes 2
  and 4 of `utmp_kick` into one process group, as the sessions of one `sshd` are, for the signal
  to pid 0; process 3 has its own. `Residue` is `{0}` in `utmp_kick` and `{0, 1}` in `utmp_web`, where the only user
  is 1, so that every late clear can match what another left. A process logs in once, and pids are not reused; each process that
  comes later is another element of `TelnetPids`. The theorems hold for all values.
* `BoardIndex`: `MaxId`, `MaxLen` and `MaxReload` bound the ids, the length of the
  file and the stops; they appear in the guards of `Post`, `Reinsert`, `Reappend`
  and `Reload`. Four entries are enough for an entry to lie before, at, between
  and behind the two that are removed. In `board_delete` and `board_restore` a header has 2 bytes (`HdrBytes`) and a page 3
  (`PageBytes`), so that some headers lie across two pages and a file that loses one header can lose a
  page: both parts of the move can then get SIGBUS, before its first and after some of its headers. In the
  two violation runs a page holds all headers and SIGBUS does not occur. The theorems hold for all sizes. `Garbage` is what an uninitialised
  header may hold; one value above all others and one stop suffice for the
  violation.
* `BrcMarks`: `M` is `BRC_MAXNUM` (50), `C` is `BRC_CACHE_NUM`. Three ids are the
  least for the first mark (`fid`, 1, 0); four articles overfill such a list.
  Two entries and three boards give an empty, a clean and a changed entry. `FirstId` and `MaxId` bound the ids, in
  the guard of `Post`. `Watched` are the boards whose history is kept,
  empty where no property uses it. `Mortal`, `DiskFull`, `Stamped` and `Renewed` switch
  kills, failing and cut writes, coarse time stamps and deleted boards on. `brc_shared` has the `CONSTRAINT`
  `~mixed`: TLC checks a state in which two operations have overlapped, but explores nothing that
  follows it, of which nothing is claimed.
* `UserCache`: three slots in one bucket give a head, a middle and an end, and a
  free list beside them; names of different buckets meet only in the search for a
  taken name, so that one bucket is the harder case. `MaxReload` bounds the crashes
  (in the guards of `Flush`, `Reload` and `Search`: files matter only before the last crash,
  and searches are looked at only after it, where all chains there are before it
  can be built again). Names given inside one bucket are exempt from `NamesUnique`,
  which `New` and renames over different buckets would show in a larger
  instance; the theorems hold for all sizes.
* `Chat`: with two connections one can come into a slot or room number that the other had.
  A third room number is needed for two rooms besides the main one. The `VIEW` leaves
  out the name and flags of rooms that no one is in, which no action reads. The
  theorems hold for all sizes.
* `WwwGuest`: `G` is the number of entries that the search for a free bit
  reaches (all but those of the first word of the bit map), at most `MaxGuest`. Two
  entries and two addresses with the same hash give hits, collisions and a full table.

`SYMMETRY` is used in the runs of BoardIndex (articles, deleters, restorers are
interchangeable there), in `brc_shared` (the sessions are) and in `chat` (what people and
rooms besides the main one are called), where no property needs fairness, and nowhere else. `CHECK_DEADLOCK FALSE` is set where the instance may really
stop: in `utmp_table` after a stray clear, behind which the model does not go, in UtmpSession for the same reason
and when all processes have ended, in BoardIndex when all
articles are posted and the bounds are reached. The other runs check deadlock.

Fairness. Two specifications assume weak fairness, of steps that a process takes
without waiting for anybody. `FairSpec` of `UtmpSession`: `utmpd` serves the request at
the head of its queue, and goes on with the clean-up and the answer (its loop has no
other wait: a client that is silent is dropped after a second); a kicker goes on
with its loop, which waits for nothing but the room for its clear requests. No
fairness of the clients' time-outs is assumed, so `Answered` does not rest on
them. `FairSpec` of `UserCache`: who holds `ucache_lock` finishes, a load finishes,
and a search goes on. `SearchEnds` is stated for the case that updates cease: a
search that is overtaken by one update after the other may walk for ever. The other
specifications are `Init /\ [][Next]_vars`.

## 5. Assumptions of the models

* `utmpd` serves one request at a time under `utmp_lock`, so a request is one
  action, except the clean-up walk. A request comes whole or not at all: a client of which
  `utmpd` got only a part spoils the request after it (hazard at `miscd.c:366`).
* After a stray clear `utmpd` serves nothing more in the model: its loops may then go in circles or out of the
  arrays. All that is said of the table and its sessions is said of the time before, and the
  properties that name `stray` say so.
* A signal reaches whom `kill` gives it to: pid 0 means the kicker's process group (`Group`), pid 1,
  which web entries bear, none of the modelled processes. The kicker of the web interface (`bbslib.c:467`)
  calls the same `kick_user_utmp` and is not modelled as a process of its own.
* The locks are there and are obtained. Their creation is a race (hazard at `stuff.c:2430`), and
  `bbslib.c:300` releases a guest also when the file of its lock could not be opened.
* Users do not choose a zeroed entry in a listing.
* `cancelpost` is one step: it renames the file and appends the header, and
  nothing the model tells apart looks at the state in between.
* The stores of a move of `.DIR` that gets SIGBUS are whole headers.
* A guest's key is named by the browser for which `rand()` drew it: two
  draws differ. No request of a guest lasts an hour (the idle time).
* The stores of one mark are one step, after the place for it was found; when another operation on
  the same entry came in between (`mixed`), nothing is claimed of the lists any more. Reading
  `.boardrc.gz` succeeds, two `brc_update` at once do not spoil the temporary file they share,
  and `clean_cachedata` meets no login of the same user.
* The numbers of logins in two records of one name are arbitrary. Processes see the stores to the
  user cache in the order of the code. A name that `ucache_hash` cannot place (it does
  not begin with a letter) is not asked for. The write-back of `update_user` without the lock is
  left out (hazard at `ucache.c:778`).
* The chat daemon gets one command of one line per packet, no `/shutdown`, and a `/flags` names one flag. (An operator who
  kicks himself out of the main room frees his slot in the middle of the packet, and the lines behind
  run on the freed slot: `OccupantsExact` does not hold of that, and the hazard is at `station.c:1287`.)

## 6. What is proved

All theorems hold for every value of the constants that satisfies the named
assumptions (`TableAssumption`, `SessionAssumption`, `GroupAssumption`, `GuestAssumption`, `BoardAssumption`, `BrcAssumption`,
`CacheAssumption`, `ChatAssumption`), and some for less: their hypotheses are named below.

**UtmpTable_proofs.** `TypeCorrect`, `NoSlotLost`, `RingIsLinked`, `LookupIsComplete`,
`ListingIsSorted`, `NumberIsExact`, `ImplementsPool`. None of the
invariants is inductive alone: unlinking a slot is right only if chain and
ring are linked correctly before, and pushing a slot on the free list only if
it was on a chain. The inductive invariant is the conjunction of `TypeOK`,
`ChainsPartition` (each slot is pointed to exactly once, by a pointer of its own
list), `ChainsAcyclic` (a rank that grows along `next` exists), `RingLinked`,
`RingConnected` (a rank that grows along the ring from its head), `RingSorted`
and `NumberExact`. `NewInv` and `ClearInv` show that an allocation and `clear_utmp2`
preserve it, conjunct by conjunct; the other actions follow from these two or
leave the links alone. `LookupComplete` follows from the chain part: the smallest
set closed under `next` from a head is the set of all slots of the bucket,
since a slot of the bucket outside of it that has the least rank would have to
be pointed to from inside.
`ImplementsPool` follows since a slot off the free list is an active one.
Of `Residue` it is assumed only that it holds numbers and 0. A clear request
can therefore meet a slot that is not in use; `NoSlotLost`, `RingIsLinked`, `LookupIsComplete` and `ListingIsSorted` hold
until that happens (`~stray`, in the properties themselves), and the inductive invariant has the links only
under `~stray`. `TypeCorrect`, `NumberIsExact` and `ImplementsPool` include the stray clear itself:
the counter goes down only for an entry in use, and nobody loses a slot by it.

**UtmpSession_proofs.** `SessionsUseTable` (every step of clients, daemon and
kickers is a step of `UtmpTable` or leaves it alone, so that the theorems
above carry over), `SessionTypeCorrect`, `OnlineStaysListed`, `EntriesReclaimable`,
`PidZeroOnlyUnanswered`. The first inductive
invariant adds to the types: what the queue may hold (`QueueOK`: a login
request names its own process and user; a clear request that names a telnet
pid names one that is leaving, gone, or was kicked), that whoever was told a
slot was told one of the table (`SlotsOK`), what kickers remember (`KickOK`: a
telnet pid they saved is in `kicked`), and `Listed`, which is `OnlineListed` for the processes whose answer is still on its
way too. The
point of the argument: a clear request is obeyed only when uid and pid match,
and a matching pid belongs to the process itself or to somebody who was kicked.
The last two theorems need a second invariant, `OwnInv`, of two parts. `AskOnce`: a process has at most one login
request in the backlog or being served, and while it has one it waits or has given up, without
a slot. `Owned`: each entry whose pid is not that of a finished web login bears the pid of the
process it was allocated for, which has no request left in the queue, and which knows the slot,
waits for this answer, or is gone. So no second entry
comes to a process that has one (`ServeNewOwn`), an answer tells the process of its own entry
(`ReplyOwn`), and a time-out leaves the process `gone` before its entry exists.

**BoardIndex_proofs.** First `Search_Bin`, for an index of any length. `SearchSound`: a hit is an
entry with the id, whether or not the index is in order. `SearchComplete`: if it is in order, a
miss means that the id is not there, and the place that is returned is where it belongs. The recursive function is
shown to exist by `SetInduction`, on the width of the window (`Solves` on all windows narrower than
`k`).
Then the processes. `BoardTypes` and `FindsTheArticle` hold of every number of
deleters and restorers, from `Typed`: the types, what a process carries at each point (`OpOK`), and that a header is
known by its id among all those listed, deleted or carried, with ids up to `nowid` (`IdNames`). It is `IdNames` that makes a
search by id find the right article after the listing, the position and the size have all gone stale.
`ListedHaveFiles` and `NoDuplicates` rest on `Lifecycle`: at each moment an article is in the index with its
file live, or held by exactly one process between taking it out and renaming its file (or the
way back), or deleted. Between `Shift` and `Truncate` the file has an entry twice, so these speak
of the entries that the truncation will leave (`Stable`). Headers and pages have any size. A move that gets
SIGBUS leaves its article listed without a file, or an entry twice; such articles are in `torn` from the
fault on, and exempt. `NoMoveFaults` shows that `torn` stays empty when one process at most deletes (`OneDeleter`): only
another deletion makes the file shorter than the mapping. Their hypothesis is `OneRestorer`, one restoring process at
most: of two that saw the same article deleted, the
second lists it again under a new id after the first (hazard at `article.c:728`), and with three
processes both properties are false.
`IdsIncrease` (invariant `Rises`: the ids of the stable entries increase) holds without
restorations: the truncation by a stale size can only cut at the end or add zeroed entries there. With a
restoration the property is false in general (hazard at `article.c:1768`). `FindsWhatIsThere` draws the conclusion for
`prepare_write_dir`: on such an index it misses no header among the entries it counted.
`IdsIncreaseRestoring` and `GivesUpRightly` let any number of processes restore, beside one that
deletes (`OneDeleter`). What goes wrong with two deletions is then ruled out by `Whole`: only the deleter shortens the file,
so the size it noted is never above the length and the truncation leaves no zeroed entry. Without
zeroed entries a restoration's search is one of an index in order, and `SearchComplete` says that the place is right.
So `Ordered` holds with restorations, and a `prepare_write_dir` that gives up has missed nothing.

**WwwGuest_proofs.** `GuestTypeCorrect` and `CountIsExact`, with the inductive
invariant `TypeOK /\ Exact`. `Exact` says that until the creating process has set the counter to 0 the bit map
is empty or a guest came `early`, and that from then on the counter is the number of bits
unless one did. The clamp of `CountAfter` at 0 never
bites, because at most `used` entries are released, and each at most once under the
lock.

**BrcMarks_proofs.** `MarkedIsRead`, `MarksAreKept` and `OthersStayUnread` say, for
lists of every length, what `brc_unread` answers after `brc_add_read`: the article
is read, no article becomes unread, and no other becomes read except below a full list
and the first of the board. They rest on `InsertedPrefix` (which positions the new id and the shifted ones are at).
`MarksTypeCorrect` and `ListsStayDescending` hold of the whole specification, the second until
two operations on one entry overlap (`mixed`). The inductive
invariant is `TypeOK /\ (mixed \/ (Sorted /\ Placed))`. `Sorted` adds to `ListsDescend` the lists that are in no file and
no cache for a while: the one a session found in a file that was replaced since,
and those that `brc_update` is about to write. `Placed` says that the place a session has found for an id is still
the right one: any other store to the entry would have set `mixed`. `InsertedDescends`, `AddReadDescends`,
`AllReadDescends` and `ReadUpToDescends` treat one list; `LastEntry` is needed
since `Merged` takes the last of several changed entries of a board.
`ReadIsKept` and `UnreadIsKept` prove `ReadStaysRead` and `UnreadStaysUnread` for any number of
boards, articles and entries and any length of the lists, under `Undisturbed`: one session at most, no kill, no failing
write, exact time stamps; the second also with `Renewed = {}`. Each hypothesis is needed, as section 3 says. `Right(R, l)`
says that a list is right for one who read the articles of `R`; `AddReadRight`, `AllReadRight` and
`ReadUpToRight` show that the marking operations keep a list right, also when it is full, and `NothingToCut` that
`brc_clear_new_flag` ignores only what is read. The inductive invariant `Kept` says that at most one
entry is of a board (`OnceCached`), that an entry without the changed flag has the list of the file
(`UnchangedIsSaved`), that what the session carries from step to step of `brc_initial` and `brc_update` is
not stale (`Carries`), and that the lists in the cache, and those in the file of boards that are
not in the cache or whose entry is being overwritten, are right (`MarksRight`). The reuse of an entry is harmless
because the victim is unchanged and its list therefore safe in the file; a board loaded
after a save inside `brc_initial` is read from the file as it was opened before, which is right because
the board was not in the cache and the save left its list alone.

**UserCache_proofs.** `CacheTypeCorrect`, `ChainsCorrect`, `NamesCorrect`,
`MissCorrect`, from one inductive invariant. The chains are treated as a relation between heads,
next fields, the slots that are on a chain and their buckets (`Part`), with
one lemma for taking a slot off, one for the slot in between, one for putting it at the head and one
for each way a record is loaded; that no chain is a circle is again a rank
(`Ranked`), and the least rank (`Ranks`) gives that a walk reaches all slots of its
bucket. `NamesUnique` needs that the name an update is about to write is not
borne by a slot of its bucket meanwhile, and `MissIsTrue` that
a search that has not been disturbed and whose user is there has the user's slot ahead of it.

**Chat_proofs.** All six properties of the run, the two action properties included. `Cases` reduces
the commands to a few kinds of step; the inductive invariant adds to the
types and the three invariants that slots without a connection are blank and that
who is on a room's list of invitations is connected and was asked (`InvitesMeant`),
from which `InvitedOnly` follows.

Only model-checked: `Answered`, `KickEnds` and `SearchEnds`, since liveness under fairness and
`ENABLED` are out of the prover's reach; and the violations. Of the proved ones, TLC checks
`EntryHasFile` and `ListedOnce` with a restoration, and `Ordered` without, in instances that satisfy the
hypotheses of the theorems; the runs of the read marks satisfy `Undisturbed` likewise. The strengthened invariants
(`Typed`, `Lifecycle`, `Rises`, `OwnInv`, `Kept`) were checked by TLC on the instances of
section 3 before they were proved.

## 7. Not modelled, and the plan

What is left out entirely, and why, is in the `components` of `PROJECT.json`: terminal and
web presentation, mail and votes (record files of one owner), third-party
code, batch tools, and programs that only call the modelled operations.

In this order:

1. `UtmpSession`: the multi-login limit of `multi_user_check`, which two logins at
   once pass (hazard at `newmain_single.c:348`; no comment promises more); readers of the ring (`apply_ulist_addr`) while
   `utmpd` relinks it; the message signals sent by saved pids.
2. `BoardIndex`: death of a mover between its steps, range deletion,
   `change_post_flag`, `updatelastpost` (`total`, `lastpost`), the record
   operations of `record.c` with and without locks (`.ORIGIN`, `.ZHIDING`), cross-posting; an abstract board (a
   set of articles with increasing ids) for the case of one mover at a time.
3. `UserCache`: the other fields of a record, which `update_user` copies without the lock
   (hazard at `ucache.c:778`).
4. Messages: count, file, delivery by signal or poll. The member cache. The Killer
   game of the same shape as the chat.
5. Proofs: the refinement of an abstract board; what `ListsDescend` gives the
   readers (`brc_unread` answers by the first id that is not greater).
