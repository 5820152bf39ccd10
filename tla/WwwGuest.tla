------------------------------ MODULE WwwGuest ------------------------------
(***************************************************************************)
(* The table of guests of the web interface (php/bbslib.c): a bit map of   *)
(* the entries in use, the entries, a hash table from addresses to entries *)
(* and a counter, all in shared memory.  A guest is a browser that keeps   *)
(* the number and the key of its entry; every request of it runs in some   *)
(* PHP process.  The lock of the table covers the allocation and the       *)
(* release of an entry, but neither the filling in of a new entry nor the  *)
(* comparison of the key that precedes a release.                          *)
(***************************************************************************)
EXTENDS Integers, FiniteSets

CONSTANTS
  G,         \* entries that the search for a free bit can reach
  MaxGuest,  \* MAX_WWW_GUEST, the entries of the array
  Browsers,  \* the guests
  Ips,       \* their addresses
  NoIp,      \* the address of an entry that was zeroed
  IpOf,      \* the address a browser comes from
  HashOf     \* www_guest_calc_hashkey

ASSUME GuestAssumption ==
  /\ G \in Nat \ {0} /\ MaxGuest \in Nat /\ G <= MaxGuest
  /\ NoIp \notin Ips
  /\ IpOf \in [Browsers -> Ips]
  /\ DOMAIN HashOf = Ips \cup {NoIp}

VARIABLES
  used,     \* the entries whose bit is set in use_map
  fromip,   \* guest_entry[].fromip
  key,      \* guest_entry[].key: the browser for which rand() drew it, "zero" when zeroed
  stale,    \* the entries with a freshtime older than MAX_WWW_GUEST_IDLE_TIME
  hashtab,  \* entry of each hash value, 0 when there is none
  count,    \* www_guest_count
  br,       \* per browser where it is in a request, its entry and its key
  created,  \* how far resolve_guest_table is, in the process that creates the table
  early     \* history: a guest entered before the table was created

table == <<used, fromip, key, stale, hashtab>>
gvars == <<table, count, br, created, early>>

Entries == 1..G
Hashes  == {HashOf[ip] : ip \in DOMAIN HashOf}
Keys    == Browsers \cup {"zero"}

\* Mutant of Out: a guest that was refused keeps the error for its entry.
MutOut == [pc |-> "out", idx |-> -1, key |-> "zero"]

Out == [pc |-> "out", idx |-> 0, key |-> "zero"]

\* The shared memory of the table is new, and all zero; the counter is in the
\* public one, which may be older.
Init ==
  /\ used = {} /\ stale = {} /\ count \in 0..MaxGuest
  /\ fromip  = [i \in Entries |-> NoIp]
  /\ key     = [i \in Entries |-> "zero"]
  /\ hashtab = [h \in Hashes |-> 0]
  /\ br      = [b \in Browsers |-> Out]
  /\ created = "attached" /\ early = FALSE

\* resolve_guest_table in the process that has created the shared memory: it zeroes
\* the table under the lock, and the counter without it.  Others find the memory
\* there and wait for neither.
Zero ==
  /\ created = "attached" /\ created' = "zeroed"
  /\ used' = {} /\ stale' = {}
  /\ fromip'  = [i \in Entries |-> NoIp]
  /\ key'     = [i \in Entries |-> "zero"]
  /\ hashtab' = [h \in Hashes |-> 0]
  /\ UNCHANGED <<count, br, early>>

Reset ==
  /\ created = "zeroed" /\ created' = "done"
  /\ count' = 0
  /\ UNCHANGED <<table, br, early>>

(***************************************************************************)
(* The entries of S are released: their bits, what they hold and the hash  *)
(* table at the hash of their addresses are cleared.                       *)
(***************************************************************************)
Zeroed(f, S, zero) == [i \in DOMAIN f |-> IF i \in S THEN zero ELSE f[i]]

Unhashed(S) == Zeroed(hashtab, {HashOf[fromip[i]] : i \in S}, 0)

CountAfter(S) == IF count >= Cardinality(S) THEN count - Cardinality(S) ELSE 0

(***************************************************************************)
(* www_new_guest_entry.  At most every 240 seconds the entries idle for    *)
(* too long are released first.  The entry the hash table names is the     *)
(* guest's when it holds the address; when it holds another, every entry   *)
(* in use is looked at; otherwise a free entry is taken and is in use from *)
(* now on, though its address and key are still to be written.             *)
(***************************************************************************)
Idle(due) == IF due THEN used \cap stale ELSE {}

Known(ip, h, ips, inuse) ==
  IF h = 0 THEN {}
  ELSE IF ips[h] = ip THEN {h}
  ELSE {i \in inuse : ips[i] = ip}

Enter(b) ==
  /\ br[b].pc \in {"out", "in"} /\ count < MaxGuest
  /\ early' = (early \/ created # "done") /\ created' = created
  /\ \E due \in BOOLEAN :
       LET gone  == Idle(due)
           inuse == used \ gone
           ips   == Zeroed(fromip, gone, NoIp)
           tab   == Unhashed(gone)
           h     == HashOf[IpOf[b]]
           old   == Known(IpOf[b], tab[h], ips, inuse)
       IN  /\ fromip' = ips
           /\ key'    = Zeroed(key, gone, "zero")
           /\ \/ \E i \in old :
                   /\ br' = [br EXCEPT ![b] = [pc |-> "known", idx |-> i, key |-> "zero"]]
                   /\ used' = inuse /\ stale' = stale \ gone
                   /\ hashtab' = tab /\ count' = CountAfter(gone)
              \/ /\ old = {}
                 /\ \E i \in Entries \ inuse :
                      /\ br' = [br EXCEPT ![b] = [pc |-> "new", idx |-> i, key |-> "zero"]]
                      /\ used' = inuse \cup {i} /\ stale' = (stale \ gone) \ {i}
                      /\ hashtab' = [tab EXCEPT ![h] = i]
                      /\ count' = CountAfter(gone) + 1
              \/ /\ old = {} /\ Entries \subseteq inuse
                 /\ br' = [br EXCEPT ![b] = Out]
                 /\ used' = inuse /\ stale' = stale \ gone
                 /\ hashtab' = tab /\ count' = CountAfter(gone)

(***************************************************************************)
(* The rest of www_user_login, without the lock: a new entry gets its key  *)
(* and address, a known one only a fresh time, and the browser is told the *)
(* number and the key.                                                     *)
(***************************************************************************)
Fill(b) ==
  /\ br[b].pc \in {"new", "known"}
  /\ LET i == br[b].idx
     IN  /\ stale' = stale \ {i}
         /\ IF br[b].pc = "new"
            THEN /\ key' = [key EXCEPT ![i] = b]
                 /\ fromip' = [fromip EXCEPT ![i] = IpOf[b]]
            ELSE UNCHANGED <<key, fromip>>
         /\ br' = [br EXCEPT ![b] = [pc |-> "in", idx |-> i, key |-> key'[i]]]
  /\ UNCHANGED <<used, hashtab, count, created, early>>

\* www_user_init: a page is served, and the entry fresh again, to the browser
\* that has the key of the entry.
Admitted(b) == key[br[b].idx] = br[b].key

Page(b) ==
  /\ br[b].pc = "in"
  /\ IF Admitted(b)
     THEN /\ stale' = stale \ {br[b].idx}
          /\ br' = br
     ELSE /\ stale' = stale
          /\ br' = [br EXCEPT ![b] = Out]
  /\ UNCHANGED <<used, fromip, key, hashtab, count, created, early>>

\* A request to leave begins, like any other, with www_user_init.
Leave(b) ==
  /\ br[b].pc = "in" /\ Admitted(b)
  /\ br' = [br EXCEPT ![b].pc = "leaving"]
  /\ stale' = stale \ {br[b].idx}
  /\ UNCHANGED <<used, fromip, key, hashtab, count, created, early>>

\* Mutant of Released: the bit is not looked at under the lock.
MutReleased(b) == {br[b].idx}

Released(b) == {br[b].idx} \cap used

\* www_user_logoff and www_free_guest_entry, under the lock.
Free(b) ==
  /\ br[b].pc = "leaving"
  /\ LET gone == Released(b)
     IN  /\ used'    = used \ gone
         /\ stale'   = stale \ gone
         /\ fromip'  = Zeroed(fromip, gone, NoIp)
         /\ key'     = Zeroed(key, gone, "zero")
         /\ hashtab' = Unhashed(gone)
         /\ count'   = CountAfter(gone)
  /\ br' = [br EXCEPT ![b] = Out]
  /\ UNCHANGED <<created, early>>

\* An hour passes without a page of the guest of entry i; no request is that slow.
Age(i) ==
  /\ i \in used \ stale
  /\ \A b \in Browsers : br[b].pc \in {"out", "in"}
  /\ stale' = stale \cup {i}
  /\ UNCHANGED <<used, fromip, key, hashtab, count, br, created, early>>

Next ==
  \/ Zero \/ Reset
  \/ \E b \in Browsers : Enter(b) \/ Fill(b) \/ Page(b) \/ Leave(b) \/ Free(b)
  \/ \E i \in Entries : Age(i)

Spec == Init /\ [][Next]_gvars

-----------------------------------------------------------------------------
\* Every variable has its type, and every guest that is in has an entry.
TypeOK ==
  /\ used \subseteq Entries /\ stale \subseteq used
  /\ fromip \in [Entries -> Ips \cup {NoIp}]
  /\ key \in [Entries -> Keys]
  /\ hashtab \in [Hashes -> 0..G]
  /\ count \in 0..MaxGuest
  /\ br \in [Browsers -> [pc : {"out", "new", "known", "in", "leaving"},
                          idx : 0..G, key : Keys]]
  /\ created \in {"attached", "zeroed", "done"} /\ early \in BOOLEAN
  /\ \A b \in Browsers : br[b].pc # "out" => br[b].idx \in Entries

\* The number of web guests the system reports, and limits logins by, is the
\* number of entries in use, through clean-ups, refused logins and releases of
\* an entry by two requests at once, once the table is there.  A guest that came
\* before may be in the counter or in the table alone.
CountExact == created = "done" /\ ~early => count = Cardinality(used)
=============================================================================
