-------------------------- MODULE UserCache_proofs --------------------------
(***************************************************************************)
(* The invariants of the user cache, for every number of slots, buckets,   *)
(* names, searches and crashes.  The chains are treated first, away from   *)
(* the program, as a relation between heads, next fields, the slots that   *)
(* are on a chain and the bucket of each; then the steps of an update and  *)
(* of a load are shown to be one of a few operations on that relation.     *)
(***************************************************************************)
EXTENDS UserCache, Ranks, FiniteSetTheorems, TLAPS

(***************************************************************************)
(* Part(h, x, O, k, E): the heads h and the next fields x put the slots    *)
(* of O on the chains of their buckets k, those in E excepted, which may   *)
(* be on none.                                                             *)
(***************************************************************************)
Part(h, x, O, k, E) ==
  /\ \A b \in Buckets : h[b] # 0 => h[b] \in O /\ k[h[b]] = b
  /\ \A t \in O : x[t] # 0 => x[t] \in O /\ k[x[t]] = k[t]
  /\ \A b \in Buckets, t \in O : x[t] # 0 => x[t] # h[b]
  /\ \A t1, t2 \in O : x[t1] # 0 /\ x[t1] = x[t2] => t1 = t2
  /\ \A s \in O : h[k[s]] = s \/ (\E t \in O : x[t] = s) \/ s \in E

Ranked(x) ==
  \E rank \in [Slots -> Nat] : \A t \in Slots : x[t] # 0 => rank[t] < rank[x[t]]

LEMMA PartSame ==
  ASSUME NEW h, NEW x, NEW O, NEW k, NEW E, NEW x2, NEW k2, NEW E2,
         Part(h, x, O, k, E), \A t \in O : x2[t] = x[t] /\ k2[t] = k[t],
         E \cap O \subseteq E2
  PROVE  Part(h, x2, O, k2, E2)
<1>1. \A b \in Buckets : h[b] # 0 => h[b] \in O /\ k2[h[b]] = b
  BY DEF Part
<1>2. \A t \in O : x2[t] # 0 => x2[t] \in O /\ k2[x2[t]] = k2[t]
  BY DEF Part
<1>3. \A b \in Buckets, t \in O : x2[t] # 0 => x2[t] # h[b]
  BY DEF Part
<1>4. \A t1, t2 \in O : x2[t1] # 0 /\ x2[t1] = x2[t2] => t1 = t2
  BY DEF Part
<1>5. \A s \in O : h[k2[s]] = s \/ (\E t \in O : x2[t] = s) \/ s \in E2
  BY DEF Part
<1>6. QED BY <1>1, <1>2, <1>3, <1>4, <1>5 DEF Part

(***************************************************************************)
(* Taking slot n off its chain, as setuserid_internal and fillucache do.   *)
(***************************************************************************)
LEMMA PartRemove ==
  ASSUME NEW h \in [Buckets -> 0..N], NEW x \in [Slots -> 0..N],
         NEW O \in SUBSET Slots, NEW k \in [Slots -> Buckets], NEW E,
         Part(h, x, O, k, E),
         NEW n \in O, x[n] # n, h[k[n]] = n \/ \E t \in O : x[t] = n,
         NEW h2, h2 = IF h[k[n]] = n THEN [h EXCEPT ![k[n]] = x[n]] ELSE h,
         NEW x2, \A t \in O : x2[t] = IF h[k[n]] # n /\ x[t] = n THEN x[n] ELSE x[t]
  PROVE  Part(h2, x2, O \ {n}, k, E)
<1> DEFINE P == O \ {n}
<1>0. n # 0 /\ k[n] \in Buckets /\ x[n] \in 0..N
  BY DEF Slots
<1>a. \A b \in Buckets : h[b] # 0 => h[b] \in O /\ k[h[b]] = b
  BY DEF Part
<1>b. \A t \in O : x[t] # 0 => x[t] \in O /\ k[x[t]] = k[t]
  BY DEF Part
<1>c. \A b \in Buckets, t \in O : x[t] # 0 => x[t] # h[b]
  BY DEF Part
<1>d. \A t1, t2 \in O : x[t1] # 0 /\ x[t1] = x[t2] => t1 = t2
  BY DEF Part
<1>e. \A s \in O : h[k[s]] = s \/ (\E t \in O : x[t] = s) \/ s \in E
  BY DEF Part
<1>f. \A s \in O : k[s] \in Buckets
  OBVIOUS
<1>1. CASE h[k[n]] = n
  <2>1. \A t \in O : x2[t] = x[t] /\ x[t] # n
    BY <1>1, <1>0, <1>c
  <2>2. h2[k[n]] = x[n] /\ \A b \in Buckets \ {k[n]} : h2[b] = h[b]
    BY <1>1, <1>0
  <2>3. ASSUME NEW b \in Buckets, h2[b] # 0 PROVE h2[b] \in P /\ k[h2[b]] = b
    <3>1. CASE b = k[n]
      BY <3>1, <2>2, <2>3, <1>b
    <3>2. CASE b # k[n]
      BY <3>2, <2>2, <2>3, <1>a
    <3>3. QED BY <3>1, <3>2
  <2>4. \A t \in P : x2[t] # 0 => x2[t] \in P /\ k[x2[t]] = k[t]
    BY <2>1, <1>b
  <2>5. ASSUME NEW b \in Buckets, NEW t \in P, x2[t] # 0 PROVE x2[t] # h2[b]
    <3>1. CASE b = k[n]
      BY <3>1, <2>1, <2>2, <2>5, <1>d
    <3>2. CASE b # k[n]
      BY <3>2, <2>1, <2>2, <2>5, <1>c
    <3>3. QED BY <3>1, <3>2
  <2>6. \A t1, t2 \in P : x2[t1] # 0 /\ x2[t1] = x2[t2] => t1 = t2
    BY <2>1, <1>d
  <2>7. ASSUME NEW s \in P PROVE h2[k[s]] = s \/ (\E t \in P : x2[t] = s) \/ s \in E
    <3>0. s # 0
      BY DEF Slots
    <3>1. CASE h[k[s]] = s
      <4>1. k[s] # k[n]
        BY <3>1, <1>1
      <4>2. QED BY <3>1, <4>1, <2>2, <1>f
    <3>2. CASE \E t \in O : x[t] = s
      <4>1. PICK t \in O : x[t] = s
        BY <3>2
      <4>2. CASE t = n
        BY <4>1, <4>2, <3>0, <2>2, <1>b
      <4>3. CASE t # n
        BY <4>1, <4>3, <2>1
      <4>4. QED BY <4>2, <4>3
    <3>3. QED BY <3>1, <3>2, <1>e
  <2>8. QED BY <2>3, <2>4, <2>5, <2>6, <2>7 DEF Part
<1>2. CASE h[k[n]] # n
  <2>1. h2 = h /\ \A b \in Buckets : h[b] # n
    BY <1>2, <1>0, <1>a
  <2>2. \A t \in O : x2[t] = IF x[t] = n THEN x[n] ELSE x[t]
    BY <1>2
  <2>3. \A b \in Buckets : h2[b] # 0 => h2[b] \in P /\ k[h2[b]] = b
    BY <2>1, <1>a
  <2>4. ASSUME NEW t \in P, x2[t] # 0 PROVE x2[t] \in P /\ k[x2[t]] = k[t]
    <3>1. CASE x[t] = n
      BY <3>1, <2>2, <2>4, <1>0, <1>b
    <3>2. CASE x[t] # n
      BY <3>2, <2>2, <2>4, <1>b
    <3>3. QED BY <3>1, <3>2
  <2>5. ASSUME NEW b \in Buckets, NEW t \in P, x2[t] # 0 PROVE x2[t] # h2[b]
    BY <2>1, <2>2, <2>5, <1>c
  <2>6. ASSUME NEW t1 \in P, NEW t2 \in P, x2[t1] # 0, x2[t1] = x2[t2] PROVE t1 = t2
    <3>1. x2[t1] = (IF x[t1] = n THEN x[n] ELSE x[t1]) /\ x2[t2] = (IF x[t2] = n THEN x[n] ELSE x[t2])
      BY <2>2
    <3>2. QED BY <3>1, <2>6, <1>d, <1>0
  <2>7. ASSUME NEW s \in P PROVE h2[k[s]] = s \/ (\E t \in P : x2[t] = s) \/ s \in E
    <3>1. CASE h[k[s]] = s
      BY <3>1, <2>1
    <3>2. CASE \E t \in O : x[t] = s
      <4>1. PICK t \in O : x[t] = s
        BY <3>2
      <4>2. CASE t # n
        BY <4>1, <4>2, <2>2
      <4>3. CASE t = n
        <5>1. PICK u \in O : x[u] = n
          BY <1>2
        <5>2. u \in P /\ x2[u] = s
          BY <5>1, <4>1, <4>3, <2>2
        <5>3. QED BY <5>2
      <4>4. QED BY <4>2, <4>3
    <3>3. QED BY <3>1, <3>2, <1>e
  <2>8. QED BY <2>3, <2>4, <2>5, <2>6, <2>7 DEF Part
<1>3. QED BY <1>1, <1>2

(***************************************************************************)
(* Putting slot n, which is on no chain, at the head of bucket b.          *)
(***************************************************************************)
LEMMA PartPush ==
  ASSUME NEW h \in [Buckets -> 0..N], NEW x \in [Slots -> 0..N],
         NEW O \in SUBSET Slots, NEW k, NEW E,
         Part(h, x, O, k, E),
         NEW n \in Slots \ O, NEW b \in Buckets, x[n] = h[b], k[n] = b
  PROVE  Part([h EXCEPT ![b] = n], x, O \cup {n}, k, E)
<1> DEFINE P == O \cup {n}
           h2 == [h EXCEPT ![b] = n]
<1>0. n # 0 /\ h2[b] = n /\ \A c \in Buckets \ {b} : h2[c] = h[c]
  BY DEF Slots
<1>a. \A c \in Buckets : h[c] # 0 => h[c] \in O /\ k[h[c]] = c
  BY DEF Part
<1>b. \A t \in O : x[t] # 0 => x[t] \in O /\ k[x[t]] = k[t]
  BY DEF Part
<1>c. \A c \in Buckets, t \in O : x[t] # 0 => x[t] # h[c]
  BY DEF Part
<1>d. \A t1, t2 \in O : x[t1] # 0 /\ x[t1] = x[t2] => t1 = t2
  BY DEF Part
<1>e. \A s \in O : h[k[s]] = s \/ (\E t \in O : x[t] = s) \/ s \in E
  BY DEF Part
<1>1. \A c \in Buckets : h2[c] # 0 => h2[c] \in P /\ k[h2[c]] = c
  BY <1>0, <1>a
<1>2. \A t \in P : x[t] # 0 => x[t] \in P /\ k[x[t]] = k[t]
  BY <1>a, <1>b
<1>3. ASSUME NEW c \in Buckets, NEW t \in P, x[t] # 0 PROVE x[t] # h2[c]
  <2>1. x[t] # n
    BY <1>3, <1>a, <1>b
  <2>2. CASE t \in O
    BY <2>1, <2>2, <1>0, <1>3, <1>c
  <2>3. CASE t = n /\ c # b
    BY <2>1, <2>3, <1>0, <1>3, <1>a
  <2>4. QED BY <2>1, <2>2, <2>3, <1>0
<1>4. \A t1, t2 \in P : x[t1] # 0 /\ x[t1] = x[t2] => t1 = t2
  BY <1>c, <1>d
<1>5. ASSUME NEW s \in P PROVE h2[k[s]] = s \/ (\E t \in P : x[t] = s) \/ s \in E
  <2>1. CASE s = n
    BY <2>1, <1>0
  <2>2. CASE s \in O /\ h[k[s]] = s
    <3>1. CASE k[s] = b
      BY <2>2, <3>1
    <3>2. CASE k[s] # b
      BY <2>2, <3>2
    <3>3. QED BY <3>1, <3>2
  <2>3. CASE s \in O /\ h[k[s]] # s
    BY <2>3, <1>e
  <2>4. QED BY <2>1, <2>2, <2>3
<1>6. QED BY <1>1, <1>2, <1>3, <1>4, <1>5 DEF Part

(***************************************************************************)
(* Putting slot n behind slot p, the last of its chain.                    *)
(***************************************************************************)
LEMMA PartLast ==
  ASSUME NEW h \in [Buckets -> 0..N], NEW x \in [Slots -> 0..N],
         NEW O \in SUBSET Slots, NEW k, NEW E,
         Part(h, x, O, k, E),
         NEW n \in Slots \ O, NEW p \in O, x[p] = 0, k[p] = k[n]
  PROVE  Part(h, [x EXCEPT ![n] = 0, ![p] = n], O \cup {n}, k, E)
<1> DEFINE P == O \cup {n}
           x2 == [x EXCEPT ![n] = 0, ![p] = n]
<1>0. n # 0 /\ n # p /\ x2[p] = n /\ x2[n] = 0 /\ \A t \in O \ {p} : x2[t] = x[t]
  BY DEF Slots
<1>a. \A c \in Buckets : h[c] # 0 => h[c] \in O /\ k[h[c]] = c
  BY DEF Part
<1>b. \A t \in O : x[t] # 0 => x[t] \in O /\ k[x[t]] = k[t]
  BY DEF Part
<1>c. \A c \in Buckets, t \in O : x[t] # 0 => x[t] # h[c]
  BY DEF Part
<1>d. \A t1, t2 \in O : x[t1] # 0 /\ x[t1] = x[t2] => t1 = t2
  BY DEF Part
<1>e. \A s \in O : h[k[s]] = s \/ (\E t \in O : x[t] = s) \/ s \in E
  BY DEF Part
<1> HIDE DEF x2
<1>1. \A c \in Buckets : h[c] # 0 => h[c] \in P /\ k[h[c]] = c
  BY <1>a
<1>2. \A t \in P : x2[t] # 0 => x2[t] \in P /\ k[x2[t]] = k[t]
  BY <1>0, <1>b
<1>3. \A c \in Buckets, t \in P : x2[t] # 0 => x2[t] # h[c]
  BY <1>0, <1>a, <1>c
<1>4. \A t1, t2 \in P : x2[t1] # 0 /\ x2[t1] = x2[t2] => t1 = t2
  BY <1>0, <1>b, <1>d
<1>5. \A s \in P : h[k[s]] = s \/ (\E t \in P : x2[t] = s) \/ s \in E
  <2>1. \A s \in O : (\E t \in O : x[t] = s) => \E t \in P : x2[t] = s
    <3> TAKE s \in O
    <3>1. s # 0
      BY DEF Slots
    <3>2. QED BY <3>1, <1>0
  <2>2. QED BY <2>1, <1>0, <1>e
<1>6. Part(h, x2, P, k, E)
  BY <1>1, <1>2, <1>3, <1>4, <1>5 DEF Part
<1>7. QED BY <1>6 DEF x2

(***************************************************************************)
(* Making slot n the whole chain of bucket b, whose old head is lost.      *)
(***************************************************************************)
LEMMA PartAlone ==
  ASSUME NEW h \in [Buckets -> 0..N], NEW x \in [Slots -> 0..N],
         NEW O \in SUBSET Slots, NEW k, NEW E, NEW E2,
         Part(h, x, O, k, E), E \subseteq E2,
         NEW n \in Slots \ O, NEW b \in Buckets, x[n] = 0, k[n] = b,
         h[b] \in E2 \cup {0}
  PROVE  Part([h EXCEPT ![b] = n], x, O \cup {n}, k, E2)
<1> DEFINE P == O \cup {n}
           h2 == [h EXCEPT ![b] = n]
<1>0. n # 0 /\ h2[b] = n /\ \A c \in Buckets \ {b} : h2[c] = h[c]
  BY DEF Slots
<1>a. \A c \in Buckets : h[c] # 0 => h[c] \in O /\ k[h[c]] = c
  BY DEF Part
<1>b. \A t \in O : x[t] # 0 => x[t] \in O /\ k[x[t]] = k[t]
  BY DEF Part
<1>c. \A c \in Buckets, t \in O : x[t] # 0 => x[t] # h[c]
  BY DEF Part
<1>d. \A t1, t2 \in O : x[t1] # 0 /\ x[t1] = x[t2] => t1 = t2
  BY DEF Part
<1>e. \A s \in O : h[k[s]] = s \/ (\E t \in O : x[t] = s) \/ s \in E
  BY DEF Part
<1>1. \A c \in Buckets : h2[c] # 0 => h2[c] \in P /\ k[h2[c]] = c
  BY <1>0, <1>a
<1>2. \A t \in P : x[t] # 0 => x[t] \in P /\ k[x[t]] = k[t]
  BY <1>b
<1>3. \A c \in Buckets, t \in P : x[t] # 0 => x[t] # h2[c]
  BY <1>0, <1>b, <1>c
<1>4. \A t1, t2 \in P : x[t1] # 0 /\ x[t1] = x[t2] => t1 = t2
  BY <1>d
<1>5. ASSUME NEW s \in P PROVE h2[k[s]] = s \/ (\E t \in P : x[t] = s) \/ s \in E2
  <2>1. CASE s = n
    BY <2>1, <1>0
  <2>2. CASE s \in O /\ h[k[s]] = s
    <3>0. s # 0
      BY DEF Slots
    <3>1. CASE k[s] = b
      BY <2>2, <3>0, <3>1
    <3>2. CASE k[s] # b
      BY <2>2, <3>2
    <3>3. QED BY <3>1, <3>2
  <2>3. CASE s \in O /\ h[k[s]] # s
    BY <2>3, <1>e
  <2>4. QED BY <2>1, <2>2, <2>3
<1>6. QED BY <1>1, <1>2, <1>3, <1>4, <1>5 DEF Part

-----------------------------------------------------------------------------
(* Walks. *)

LEMMA FromLeast ==
  ASSUME NEW x, NEW C \in SUBSET Slots, x \in C \cup {0},
         \A t \in C : next[t] \in C \cup {0}
  PROVE  From(x) \subseteq C
BY DEF From

LEMMA FromClosed ==
  ASSUME NEW x, next \in [Slots -> 0..N]
  PROVE  /\ x \in Slots => x \in From(x)
         /\ \A t \in From(x) : next[t] \in From(x) \cup {0}
         /\ From(x) \subseteq Slots
<1>1. x \in Slots => x \in From(x)
  BY DEF From, Slots
<1>2. ASSUME NEW t \in From(x), next[t] # 0 PROVE next[t] \in From(x)
  <2>1. next[t] \in Slots
    BY <1>2 DEF From, Slots
  <2>2. ASSUME NEW C \in SUBSET Slots, x \in C \cup {0}, \A u \in C : next[u] \in C \cup {0}
        PROVE  next[t] \in C
    BY <2>2, <1>2 DEF From
  <2>3. QED BY <2>1, <2>2 DEF From
<1>3. QED BY <1>1, <1>2 DEF From

(***************************************************************************)
(* A walk is the slot it starts at and the walk that starts at the next.   *)
(***************************************************************************)
LEMMA FromNext ==
  ASSUME next \in [Slots -> 0..N], NEW x \in Slots
  PROVE  From(x) \subseteq {x} \cup From(next[x])
<1> DEFINE C == {x} \cup From(next[x])
<1>1. next[x] \in 0..N /\ (next[x] # 0 => next[x] \in Slots)
  BY DEF Slots
<1>2. C \in SUBSET Slots /\ \A t \in C : next[t] \in C \cup {0}
  <2>1. next[x] # 0 => next[x] \in From(next[x])
    BY <1>1, FromClosed
  <2>2. \A t \in From(next[x]) : next[t] \in From(next[x]) \cup {0}
    BY FromClosed
  <2>3. From(next[x]) \subseteq Slots
    BY FromClosed
  <2>4. QED BY <2>1, <2>2, <2>3
<1>3. QED
  <2> HIDE DEF C
  <2>1. x \in C
    BY DEF C
  <2>2. From(x) \subseteq C
    BY <1>2, <2>1, FromLeast
  <2>3. QED BY <2>2 DEF C

-----------------------------------------------------------------------------
(***************************************************************************)
(* The inductive invariant of the chains.  While the table is loaded no    *)
(* update and no search runs, slots not reached yet point nowhere, and     *)
(* prev is the end of the free list.                                       *)
(***************************************************************************)
LoadOK ==
  ~Loaded =>
    /\ upd.pc = "none"
    /\ within = {}
    /\ \A r \in Searches : scan[r].pc = "idle"
    /\ \A s \in Slots : s > number => next[s] = 0
    /\ prev # 0 => prev \in 1..number /\ userid[prev] = NoName /\ next[prev] = 0
    /\ prev = 0 => dups \/ hashhead[0] = 0

AimOK == upd.pc = "aimed" => next[upd.num] = hashhead[Key(upd.new)]

ChainInv == TypeOK /\ LoadOK /\ AimOK /\ ChainsPartition /\ ChainsAcyclic

LEMMA KeyType == \A n \in Ids : Key(n) \in Buckets
BY CacheAssumption DEF Key, Ids, Buckets

LEMMA KeyOfNames == \A n \in Ids : Key(n) = 0 <=> n = NoName
BY CacheAssumption DEF Key, Ids

LEMMA BeginType ==
  ASSUME TypeOK, NEW num \in Slots, NEW id \in Ids, Begin(num, id)
  PROVE  TypeOK'
<1> USE CacheAssumption
<1>1. Key(userid[num]) \in Buckets
  BY KeyType DEF TypeOK
<1>2. hashhead' \in [Buckets -> 0..N] /\ next' \in [Slots -> 0..N]
  BY <1>1 DEF TypeOK, Begin, Unlinked
<1>3. upd' \in Updates
  BY DEF Begin, Slots, Updates
<1>4. upd'.num \in Slots /\ Loaded'
  BY DEF Begin, Loaded
<1>5. scan' \in [Searches -> Scans] /\ \A r \in Searches : scan'[r].pc = scan[r].pc /\ scan'[r].at = scan[r].at
  <2>1. ASSUME NEW r \in Searches, NEW q
        PROVE  /\ [scan[r] EXCEPT !.moved = @ \/ q] \in Scans
               /\ [scan[r] EXCEPT !.moved = @ \/ q].pc = scan[r].pc
               /\ [scan[r] EXCEPT !.moved = @ \/ q].at = scan[r].at
    <3>1. scan[r] \in Scans
      BY DEF TypeOK
    <3>2. (scan[r].moved \/ q) \in BOOLEAN
      OBVIOUS
    <3>3. QED BY <3>1, <3>2 DEF Scans
  <2>2. QED BY <2>1 DEF Begin, Disturbed
<1>6. within' \subseteq Names
  BY DEF TypeOK, Begin, Unchecked, Ids
<1>7. QED BY <1>2, <1>3, <1>4, <1>5, <1>6 DEF TypeOK, Begin

LEMMA FilledType ==
  ASSUME TypeOK, ~Loaded
  PROVE  Filled \in Slots /\ Filled \in 0..N /\ Filled \notin 1..number /\ Filled # 0
BY CacheAssumption DEF TypeOK, Loaded, Filled, Slots

LEMMA FillType == ASSUME TypeOK, LoadOK, Fill PROVE TypeOK'
<1> USE CacheAssumption
<1>0. ~Loaded /\ Filled \in Slots /\ Filled \in 0..N /\ upd.pc = "none"
  BY FilledType DEF Fill, FillEmpty, FillName, FillEarlier, FillLater, LoadOK
<1>1. /\ number' = Filled /\ prev' \in 0..N
      /\ UNCHANGED <<upd, scan, file, flush, reloads, within>>
  BY <1>0 DEF Fill, FillEmpty, FillName, FillEarlier, FillLater, AddEmpty, PrevIs, TypeOK
<1>2. dups' \in BOOLEAN
  BY DEF Fill, FillEmpty, FillName, FillEarlier, FillLater, TypeOK
<1>3. userid' \in [Slots -> Ids]
  BY DEF Fill, FillEmpty, FillName, FillEarlier, FillLater, TypeOK, Ids
<1>4. hashhead' \in [Buckets -> 0..N] /\ next' \in [Slots -> 0..N]
  <2>0. Key(userid[Filled]) \in Buckets
    BY <1>0, KeyType DEF TypeOK
  <2>1. CASE AddEmpty
    BY <1>0, <2>1 DEF AddEmpty, TypeOK
  <2>2. CASE FillName
    BY <1>0, <2>0, <2>2 DEF FillName, TypeOK
  <2>3. CASE FillEarlier
    <3>1. PICK d \in Slots :
            /\ hashhead' = [hashhead EXCEPT ![0] = d, ![Key(userid[Filled])] = Filled]
            /\ next' = [t \in Slots |-> IF t = d THEN 0
                          ELSE IF t = Filled
                               THEN IF hashhead[Key(userid[Filled])] = d THEN next[d]
                                    ELSE hashhead[Key(userid[Filled])]
                          ELSE IF t \in ChainOf(Key(userid[Filled])) /\ next[t] = d THEN next[d]
                          ELSE next[t]]
      BY <2>3 DEF FillEarlier, Twin, ChainOf, From
    <3>2. d \in 0..N
      BY DEF Slots
    <3>3. QED BY <1>0, <2>0, <3>1, <3>2 DEF TypeOK
  <2>4. QED BY <2>1, <2>2, <2>3 DEF Fill, FillEmpty, FillLater
<1>5. QED BY <1>0, <1>1, <1>2, <1>3, <1>4 DEF TypeOK

LEMMA NextType == TypeOK /\ LoadOK /\ [Next]_cvars => TypeOK'
<1> USE CacheAssumption
<1> SUFFICES ASSUME TypeOK, LoadOK, [Next]_cvars PROVE TypeOK'
  OBVIOUS
<1>1. CASE \E id \in Names : New(id)
  <2>1. hashhead[0] # 0 => hashhead[0] \in Slots
    BY DEF TypeOK, Buckets, Slots
  <2>2. QED BY <1>1, <2>1, BeginType DEF New, Ids
<1>2. CASE \E num \in Slots, id \in Names : Set(num, id)
  BY <1>2, BeginType DEF Set, Ids
<1>3. CASE \E num \in Slots : Del(num)
  BY <1>3, BeginType DEF Del, Ids
<1>4. CASE Aim \/ Link
  <2>1. Key(upd.new) \in Buckets /\ upd.num \in Slots /\ upd.num \in 0..N /\ Loaded /\ Loaded'
    BY <1>4, KeyType DEF TypeOK, Aim, Link, Loaded, Updates
  <2>2. hashhead' \in [Buckets -> 0..N] /\ next' \in [Slots -> 0..N]
    BY <1>4, <2>1 DEF TypeOK, Aim, Link
  <2>3. QED BY <1>4, <2>1, <2>2 DEF TypeOK, Aim, Link, Updates
<1>5. CASE Write
  BY <1>5 DEF TypeOK, Write, NoUpdate, Ids, Updates
<1>6. CASE \E r \in Searches : Walk(r)
  <2>1. PICK r \in Searches : Walk(r)
    BY <1>6
  <2>2. scan' \in [Searches -> Scans] /\ \A q \in Searches : scan'[q].pc = "advance" => scan'[q].at # 0
    <3>1. scan[r].at \in 0..N /\ (scan[r].pc = "advance" => next[scan[r].at] \in 0..N)
      BY DEF TypeOK, Slots, Scans
    <3>2. CASE Compare(r)
      BY <3>2 DEF TypeOK, Scans, Compare
    <3>3. CASE Return(r)
      BY <3>3 DEF TypeOK, Scans, Return, NoScan, Ids
    <3>4. CASE Advance(r)
      <4>1. next[scan[r].at] \in 0..N
        BY <3>1, <3>4 DEF Advance
      <4>2. scan \in [Searches -> Scans] /\ \A q \in Searches : scan[q].pc = "advance" => scan[q].at # 0
        BY DEF TypeOK
      <4>3. [scan[r] EXCEPT !.pc = "compare", !.at = next[scan[r].at]] \in Scans
        BY <4>1, <4>2 DEF Scans
      <4>4. scan' = [scan EXCEPT ![r] = [scan[r] EXCEPT !.pc = "compare", !.at = next[scan[r].at]]]
        BY <3>4, <4>2 DEF Advance
      <4>5. QED BY <4>2, <4>3, <4>4
    <3>5. QED BY <2>1, <3>2, <3>3, <3>4 DEF Walk
  <2>3. UNCHANGED <<table, upd, file, flush, reloads, within, dups>>
    BY <2>1 DEF Walk, Compare, Return, Advance
  <2>4. QED BY <2>2, <2>3 DEF TypeOK, table, Loaded
<1>7. CASE \E r \in Searches, n \in Names : Search(r, n)
  <2>1. PICK r \in Searches, n \in Names : Search(r, n)
    BY <1>7
  <2>2. hashhead[Key(n)] \in 0..N
    BY KeyType DEF TypeOK, Ids
  <2>3. QED BY <2>1, <2>2 DEF TypeOK, Search, table, Loaded, Ids, Scans
<1>8. CASE Flush
  <2>1. flush' \in 0..N /\ (flush # 0 => flush \in Slots)
    BY <1>8 DEF TypeOK, Flush, Slots
  <2>2. file' \in [Slots -> Ids]
    BY <1>8, <2>1 DEF TypeOK, Flush
  <2>3. UNCHANGED <<hashhead, next, userid, number, prev, upd, scan, reloads, within, dups>>
    BY <1>8 DEF Flush, table
  <2>4. (upd.pc # "none" => upd.num \in Slots /\ Loaded)'
    BY <2>3 DEF TypeOK, Loaded
  <2>5. /\ hashhead' \in [Buckets -> 0..N] /\ next' \in [Slots -> 0..N]
        /\ userid' \in [Slots -> Ids] /\ number' \in 0..N /\ prev' \in 0..N
        /\ upd' \in Updates /\ scan' \in [Searches -> Scans]
        /\ reloads' \in 0..MaxReload /\ within' \subseteq Names /\ dups' \in BOOLEAN
    BY <2>3 DEF TypeOK
  <2>6. \A r \in Searches : scan'[r].pc = "advance" => scan'[r].at # 0
    BY <2>3 DEF TypeOK
  <2>7. QED BY <2>1, <2>2, <2>4, <2>5, <2>6 DEF TypeOK
<1>9. CASE Reload
  <2>1. reloads' \in 0..MaxReload
    BY <1>9 DEF TypeOK, Reload
  <2>2. hashhead' \in [Buckets -> 0..N] /\ next' \in [Slots -> 0..N]
    BY <1>9 DEF Reload
  <2>3. userid' \in [Slots -> Ids] /\ file' \in [Slots -> Ids]
    BY <1>9 DEF TypeOK, Reload, Ids
  <2>4. number' = 0 /\ prev' = 0 /\ flush' = 0 /\ 0 \in 0..N /\ within' = {} /\ dups' = FALSE
    BY <1>9 DEF Reload
  <2>5. upd' \in Updates /\ upd'.pc = "none"
    BY <1>9, <2>4 DEF Reload, NoUpdate, Updates, Ids
  <2>6. scan' \in [Searches -> Scans] /\ \A r \in Searches : scan'[r].pc # "advance"
    BY <1>9, <2>4 DEF Reload, NoScan, Scans, Ids
  <2>7. QED BY <2>1, <2>2, <2>3, <2>4, <2>5, <2>6 DEF TypeOK
<1>10. CASE Fill
  BY <1>10, FillType
<1>11. CASE UNCHANGED cvars
  BY <1>11 DEF TypeOK, cvars, table, Loaded
<1>12. QED
  BY <1>1, <1>2, <1>3, <1>4, <1>5, <1>6, <1>7, <1>8, <1>9, <1>10, <1>11 DEF Next, Update

-----------------------------------------------------------------------------
(* The chains of a state, as a Part. *)

Place  == [s \in Slots |-> Bucket(s)]
Exempt == IF dups THEN {s \in Slots : Bucket(s) = 0} ELSE {}

LEMMA OnType ==
  ASSUME TypeOK
  PROVE  /\ On \in SUBSET Slots
         /\ \A s \in Slots : NameDue(s) \in Ids
         /\ Place \in [Slots -> Buckets]
         /\ \A s \in Slots : Place[s] = Bucket(s)
<1>1. On \in SUBSET Slots
  BY CacheAssumption DEF On, Slots, TypeOK
<1>2. \A s \in Slots : NameDue(s) \in Ids
  BY DEF NameDue, TypeOK, Updates
<1>3. QED BY <1>1, <1>2, KeyType DEF Place, Bucket

LEMMA PartOfPartition ==
  ASSUME TypeOK, ChainsPartition
  PROVE  Part(hashhead, next, On, Place, Exempt)
<1> DEFINE h == hashhead
           x == next
<1>0. On \in SUBSET Slots /\ 0 \notin Slots /\ \A s \in Slots : Place[s] = Bucket(s)
  BY OnType DEF Slots
<1>1. \A b \in Buckets : h[b] # 0 => h[b] \in On /\ Place[h[b]] = b
  BY <1>0 DEF ChainsPartition
<1>2. \A t \in On : x[t] # 0 => x[t] \in On /\ Place[x[t]] = Place[t]
  BY <1>0 DEF ChainsPartition
<1>3. \A b \in Buckets, t \in On : x[t] # 0 => x[t] # h[b]
  BY DEF ChainsPartition
<1>4. \A t1, t2 \in On : x[t1] # 0 /\ x[t1] = x[t2] => t1 = t2
  BY DEF ChainsPartition
<1>5. \A s \in On : h[Place[s]] = s \/ (\E t \in On : x[t] = s) \/ s \in Exempt
  BY <1>0 DEF ChainsPartition, Exempt
<1>6. QED BY <1>1, <1>2, <1>3, <1>4, <1>5 DEF Part

LEMMA PartitionOfPart ==
  ASSUME TypeOK', Part(hashhead', next', On', Place', Exempt')
  PROVE  ChainsPartition'
<1> DEFINE h == hashhead'
           x == next'
<1>0. On' \in SUBSET Slots /\ 0 \notin Slots /\ \A s \in Slots : Place'[s] = Bucket(s)'
  BY CacheAssumption DEF On, Slots, TypeOK, Place
<1>1. \A b \in Buckets : h[b] # 0 => h[b] \in On' /\ Place'[h[b]] = b
  BY DEF Part
<1>2. \A t \in On' : x[t] # 0 => x[t] \in On' /\ Place'[x[t]] = Place'[t]
  BY DEF Part
<1>3. \A b \in Buckets, t \in On' : x[t] # 0 => x[t] # h[b]
  BY DEF Part
<1>4. \A t1, t2 \in On' : x[t1] # 0 /\ x[t1] = x[t2] => t1 = t2
  BY DEF Part
<1>5. \A s \in On' : h[Place'[s]] = s \/ (\E t \in On' : x[t] = s) \/ s \in Exempt'
  BY DEF Part
<1>6. (\A b \in Buckets : hashhead[b] # 0 => hashhead[b] \in On /\ Bucket(hashhead[b]) = b)'
  BY <1>0, <1>1 DEF Place, Bucket, NameDue
<1>7. (\A t \in On : next[t] # 0 => next[t] \in On /\ Bucket(next[t]) = Bucket(t))'
  BY <1>0, <1>2 DEF Place, Bucket, NameDue
<1>8. (\A s \in On : \/ hashhead[Bucket(s)] = s
                     \/ \E t \in On : next[t] = s
                     \/ Bucket(s) = 0 /\ dups)'
  BY <1>0, <1>5 DEF Exempt, Place, Bucket, NameDue
<1>9. QED BY <1>6, <1>7, <1>3, <1>4, <1>8 DEF ChainsPartition

-----------------------------------------------------------------------------
(* Walks of the chains. *)

LEMMA ChainInBucket ==
  ASSUME TypeOK, ChainsPartition, NEW b \in Buckets
  PROVE  ChainOf(b) \subseteq {s \in On : Bucket(s) = b}
<1> DEFINE C == {s \in On : Bucket(s) = b}
<1>1. C \in SUBSET Slots
  BY OnType
<1>2. hashhead[b] \in C \cup {0}
  BY DEF ChainsPartition
<1>3. \A t \in C : next[t] \in C \cup {0}
  BY DEF ChainsPartition
<1>4. ChainOf(b) \subseteq C
  <2> HIDE DEF C
  <2>1. QED BY <1>1, <1>2, <1>3, FromLeast DEF ChainOf
<1>5. QED BY <1>4

LEMMA Predecessor ==
  ASSUME TypeOK, NEW x \in 0..N, NEW n \in From(x), n # x
  PROVE  \E t \in From(x) : next[t] = n
<1> SUFFICES ASSUME \A t \in From(x) : next[t] # n PROVE FALSE
  OBVIOUS
<1> DEFINE C == From(x) \ {n}
<1>0. next \in [Slots -> 0..N] /\ From(x) \subseteq Slots
  BY DEF TypeOK, From
<1>1. \A t \in C : next[t] \in C \cup {0}
  BY <1>0, FromClosed
<1>2. x \in C \cup {0}
  BY <1>0, FromClosed DEF Slots
<1>3. From(x) \subseteq C
  <2> HIDE DEF C
  <2>1. C \in SUBSET Slots
    BY <1>0 DEF C
  <2>2. QED BY <1>1, <1>2, <2>1, FromLeast
<1>4. QED BY <1>3

(***************************************************************************)
(* A named slot on a chain is found by the walk of its bucket, and so is a *)
(* free slot unless the load has dropped the free list.                    *)
(***************************************************************************)
LEMMA BucketInChain ==
  ASSUME TypeOK, ChainsPartition, ChainsAcyclic, NEW b \in Buckets, b # 0 \/ ~dups
  PROVE  {s \in On : Bucket(s) = b} \subseteq ChainOf(b)
<1> DEFINE M == {s \in On : Bucket(s) = b} \ ChainOf(b)
<1> SUFFICES ASSUME M # {} PROVE FALSE
  OBVIOUS
<1>1. PICK rank \in [Slots -> Nat] : \A t \in Slots : next[t] # 0 => rank[t] < rank[next[t]]
  BY DEF ChainsAcyclic
<1>2. M \subseteq Slots
  BY OnType
<1>3. PICK m \in M : \A s \in M : rank[m] <= rank[s]
  <2> HIDE DEF M
  <2>1. IsFiniteSet(Slots) /\ rank \in [Slots -> Int]
    BY FS_Interval, CacheAssumption DEF Slots
  <2>2. M \in SUBSET Slots /\ M # {}
    BY <1>2 DEF M
  <2>3. QED BY <2>1, <2>2, LeastRank
<1>4. m \in On /\ Bucket(m) = b /\ m \notin ChainOf(b) /\ m \in Slots
  BY OnType
<1>5. next \in [Slots -> 0..N]
  BY DEF TypeOK
<1>6. hashhead[b] # m
  BY <1>4, <1>5, FromClosed DEF ChainOf
<1>7. PICK t \in On : next[t] = m
  BY <1>4, <1>6 DEF ChainsPartition
<1>8. Bucket(t) = b /\ t \in Slots /\ m # 0
  <2>1. m # 0 /\ t \in Slots
    BY <1>4, OnType DEF Slots
  <2>2. QED BY <2>1, <1>4, <1>7 DEF ChainsPartition
<1>9. t \notin ChainOf(b)
  BY <1>4, <1>5, <1>7, <1>8, FromClosed DEF ChainOf
<1>10. t \in M /\ rank[t] < rank[m] /\ rank[t] \in Nat /\ rank[m] \in Nat
  BY <1>1, <1>4, <1>7, <1>8, <1>9
<1>11. QED BY <1>3, <1>10

-----------------------------------------------------------------------------
(* The steps of an update. *)

LEMMA IdleOn ==
  ASSUME TypeOK, upd.pc = "none"
  PROVE  /\ On = 1..number
         /\ \A s \in Slots : Place[s] = Key(userid[s]) /\ Bucket(s) = Key(userid[s])
BY OnType DEF On, Adrift, Bucket, NameDue

LEMMA BeginChains ==
  ASSUME ChainInv, TypeOK', NEW num \in Slots, NEW id \in Ids, Begin(num, id)
  PROVE  ChainsPartition' /\ ChainsAcyclic'
<1> DEFINE b == Key(userid[num])
<1>0. TypeOK /\ ChainsPartition /\ ChainsAcyclic /\ Part(hashhead, next, On, Place, Exempt)
  BY PartOfPartition DEF ChainInv
<1>1. hashhead \in [Buckets -> 0..N] /\ next \in [Slots -> 0..N] /\ userid \in [Slots -> Ids]
  BY <1>0 DEF TypeOK
<1>2. /\ On = Slots /\ Place \in [Slots -> Buckets] /\ Place[num] = b /\ b \in Buckets
      /\ \A s \in Slots : Place[s] = Key(userid[s])
  BY <1>0, IdleOn, OnType DEF Begin, Loaded, Slots
<1>3. PICK rank \in [Slots -> Nat] : \A t \in Slots : next[t] # 0 => rank[t] < rank[next[t]]
  BY <1>0 DEF ChainsAcyclic
<1>4. next[num] # num
  BY <1>3 DEF Slots
<1>5. ASSUME hashhead[b] # num
      PROVE  \E t \in ChainOf(b) : next[t] = num
  BY <1>0, <1>1, <1>2, <1>5, Predecessor DEF Begin, ChainOf
<1>6. hashhead[b] # num => \A t \in Slots : t \in ChainOf(b) /\ next[t] = num <=> next[t] = num
  <2> SUFFICES ASSUME hashhead[b] # num, NEW t \in Slots, next[t] = num PROVE t \in ChainOf(b)
    OBVIOUS
  <2>1. PICK u \in ChainOf(b) : next[u] = num
    BY <1>5
  <2>2. u \in Slots /\ num # 0
    BY <2>1 DEF ChainOf, From, Slots
  <2>3. t = u
    BY <1>0, <1>2, <2>1, <2>2 DEF ChainsPartition
  <2>4. QED BY <2>1, <2>3
<1>7. /\ hashhead' = IF hashhead[b] = num THEN [hashhead EXCEPT ![b] = next[num]] ELSE hashhead
      /\ \A t \in Slots : next'[t] = IF hashhead[b] # num /\ next[t] = num THEN next[num] ELSE next[t]
  BY <1>6 DEF Begin, Unlinked
<1>8. Part(hashhead', next', On \ {num}, Place, Exempt)
  <2>1. hashhead[Place[num]] = num \/ \E t \in On : next[t] = num
    BY <1>2, <1>5 DEF ChainOf, From
  <2>2. /\ hashhead' = IF hashhead[Place[num]] = num
                        THEN [hashhead EXCEPT ![Place[num]] = next[num]] ELSE hashhead
        /\ \A t \in On : next'[t] = IF hashhead[Place[num]] # num /\ next[t] = num
                                     THEN next[num] ELSE next[t]
    BY <1>2, <1>7
  <2>3. On \in SUBSET Slots /\ num \in On /\ Place \in [Slots -> Buckets]
    BY <1>2
  <2>4. Part(hashhead, next, On, Place, Exempt) /\ next[num] # num
    BY <1>0, <1>4
  <2>5. QED BY ONLY <1>1, <2>1, <2>2, <2>3, <2>4, PartRemove
<1>9. On' = On \ {num} /\ Place' = Place /\ Exempt' = Exempt
  <2>1. On' = On \ {num}
    BY <1>2 DEF Begin, On, Adrift, Loaded, Slots
  <2>2. Place' = Place
    <3>1. \A s \in Slots : Bucket(s)' = Key(userid[s])
      BY DEF Bucket, NameDue, Begin, Key
    <3>2. QED BY <1>2, <3>1 DEF Place
  <2>3. \A s \in Slots : Bucket(s)' = Bucket(s)
    BY DEF Bucket, NameDue, Begin, Key
  <2>4. QED BY <2>1, <2>2, <2>3 DEF Exempt, Begin
<1>10. ChainsPartition'
  BY <1>8, <1>9, PartitionOfPart
<1>11. \A t \in Slots : next'[t] # 0 => rank[t] < rank[next'[t]]
  <2> SUFFICES ASSUME NEW t \in Slots, next'[t] # 0 PROVE rank[t] < rank[next'[t]]
    OBVIOUS
  <2>1. CASE next'[t] = next[t]
    BY <2>1, <1>3
  <2>2. CASE next[t] = num /\ next'[t] = next[num]
    <3>1. next[num] \in Slots
      BY <2>2, <1>1 DEF Slots
    <3>2. rank[t] < rank[num] /\ rank[num] < rank[next[num]]
      BY <2>2, <3>1, <1>3 DEF Slots
    <3>3. rank[t] \in Nat /\ rank[num] \in Nat /\ rank[next[num]] \in Nat
      BY <3>1
    <3>4. QED BY <2>2, <3>2, <3>3
  <2>3. QED BY <2>1, <2>2, <1>7
<1>12. QED BY <1>10, <1>11 DEF ChainsAcyclic

LEMMA AimChains ==
  ASSUME ChainInv, TypeOK', Aim
  PROVE  ChainsPartition' /\ ChainsAcyclic'
<1> DEFINE n == upd.num
           q == hashhead[Key(upd.new)]
<1>0. TypeOK /\ ChainsPartition /\ ChainsAcyclic /\ Part(hashhead, next, On, Place, Exempt)
  BY PartOfPartition DEF ChainInv
<1>1. /\ hashhead \in [Buckets -> 0..N] /\ next \in [Slots -> 0..N]
      /\ n \in Slots /\ Loaded /\ upd \in Updates /\ Key(upd.new) \in Buckets
  BY <1>0, KeyType DEF TypeOK, Aim, Updates
<1>2. On = Slots \ {n} /\ On' = On /\ number' = number
  BY <1>1 DEF Aim, On, Adrift, Loaded, Slots, Updates
<1>3. next' = [next EXCEPT ![n] = q] /\ UNCHANGED <<hashhead, userid, dups>>
  BY DEF Aim
<1>4. \A s \in Slots : Bucket(s)' = Bucket(s)
  BY <1>1 DEF Aim, Bucket, NameDue, Key, Updates
<1>5. Place' = Place /\ Exempt' = Exempt
  BY <1>3, <1>4 DEF Place, Exempt
<1>6. Part(hashhead, next', On, Place, Exempt)
  BY <1>0, <1>1, <1>2, <1>3, PartSame
<1>7. ChainsPartition'
  BY <1>2, <1>3, <1>5, <1>6, PartitionOfPart
<1>8. PICK rank \in [Slots -> Nat] : \A t \in Slots : next[t] # 0 => rank[t] < rank[next[t]]
  BY <1>0 DEF ChainsAcyclic
<1>9. q \in 0..N /\ (q # 0 => q \in On)
  BY <1>0, <1>1 DEF ChainsPartition
<1> DEFINE R == [s \in Slots |-> IF s = n THEN 0 ELSE rank[s] + 1]
<1>10. R \in [Slots -> Nat]
  OBVIOUS
<1>11. ASSUME NEW t \in Slots, next'[t] # 0 PROVE R[t] < R[next'[t]]
  <2>1. CASE t = n
    <3>1. next'[t] = q /\ q \in Slots /\ q # n /\ rank[q] \in Nat
      BY <2>1, <1>1, <1>2, <1>3, <1>9, <1>11
    <3>2. QED BY <2>1, <3>1
  <2>2. CASE t # n
    <3>1. next'[t] = next[t] /\ t \in On /\ next[t] \in On
      BY <2>2, <1>0, <1>1, <1>2, <1>3, <1>11 DEF ChainsPartition
    <3>2. next[t] \in Slots /\ next[t] # n /\ rank[t] < rank[next[t]] /\ next[t] # 0
      BY <3>1, <1>2, <1>8, <1>11
    <3>3. QED BY <2>2, <3>1, <3>2
  <2>3. QED BY <2>1, <2>2
<1>12. ChainsAcyclic'
  <2> HIDE DEF R
  <2>1. QED BY <1>10, <1>11 DEF ChainsAcyclic
<1>13. QED BY <1>7, <1>12

LEMMA LinkChains ==
  ASSUME ChainInv, TypeOK', Link
  PROVE  ChainsPartition' /\ ChainsAcyclic'
<1> DEFINE n == upd.num
           b == Key(upd.new)
<1>0. TypeOK /\ ChainsPartition /\ ChainsAcyclic /\ Part(hashhead, next, On, Place, Exempt)
  BY PartOfPartition DEF ChainInv
<1>1. /\ hashhead \in [Buckets -> 0..N] /\ next \in [Slots -> 0..N]
      /\ n \in Slots /\ Loaded /\ upd \in Updates /\ b \in Buckets
  BY <1>0, KeyType DEF TypeOK, Link, Updates
<1>2. On = Slots \ {n} /\ On' = Slots
  BY <1>1 DEF Link, On, Adrift, Loaded, Slots, Updates
<1>3. /\ UNCHANGED <<next, userid, dups>> /\ hashhead' = [hashhead EXCEPT ![b] = n]
      /\ next[n] = hashhead[b]
  BY DEF Link, ChainInv, AimOK
<1>4. \A s \in Slots : Bucket(s)' = IF s = n THEN b ELSE Bucket(s)
  BY <1>1 DEF Link, Bucket, NameDue, Key, Updates
<1>5. \A s \in Slots : Place[s] = Bucket(s) /\ Place'[s] = Bucket(s)'
  BY DEF Place
<1>6. Part(hashhead, next, On, Place', Exempt')
  <2>1. Exempt \cap On \subseteq Exempt'
    BY <1>2, <1>3, <1>4 DEF Exempt
  <2>2. QED BY <1>0, <1>2, <1>4, <1>5, <2>1, PartSame
<1>7. Part(hashhead', next, On \cup {n}, Place', Exempt')
  <2>1. On \in SUBSET Slots /\ n \in Slots \ On /\ Place'[n] = b
    BY <1>1, <1>2, <1>4, <1>5
  <2>2. Part([hashhead EXCEPT ![b] = n], next, On \cup {n}, Place', Exempt')
    BY <1>1, <1>3, <1>6, <2>1, PartPush
  <2>3. QED BY <1>3, <2>2
<1>8. On' = On \cup {n}
  BY <1>1, <1>2
<1>9. ChainsPartition'
  BY <1>3, <1>7, <1>8, PartitionOfPart
<1>10. ChainsAcyclic'
  BY <1>0, <1>3 DEF ChainsAcyclic
<1>11. QED BY <1>9, <1>10

LEMMA WriteChains ==
  ASSUME ChainInv, TypeOK', Write
  PROVE  ChainsPartition' /\ ChainsAcyclic'
<1>0. TypeOK /\ ChainsPartition /\ ChainsAcyclic /\ Part(hashhead, next, On, Place, Exempt)
  BY PartOfPartition DEF ChainInv
<1>1. UNCHANGED <<hashhead, next, dups>> /\ On' = On
  BY <1>0 DEF Write, NoUpdate, On, Adrift, TypeOK
<1>2. \A s \in Slots : Bucket(s)' = Bucket(s)
  <2>1. userid \in [Slots -> Ids] /\ userid' = [userid EXCEPT ![upd.num] = upd.new]
    BY <1>0 DEF Write, TypeOK
  <2>2. \A s \in Slots : NameDue(s)' = NameDue(s)
    BY <2>1 DEF Write, NoUpdate, NameDue
  <2>3. QED BY <2>2 DEF Bucket, Key
<1>3. Place' = Place /\ Exempt' = Exempt
  BY <1>1, <1>2 DEF Place, Exempt
<1>4. ChainsPartition'
  BY <1>0, <1>1, <1>3, PartitionOfPart
<1>5. QED BY <1>0, <1>1, <1>4 DEF ChainsAcyclic

-----------------------------------------------------------------------------
(* The steps of a load. *)

(***************************************************************************)
(* What the steps of a load have in common: the slots loaded so far are on *)
(* their chains, and the slot that is loaded next points nowhere and       *)
(* nothing points to it.                                                   *)
(***************************************************************************)
LEMMA Loading ==
  ASSUME ChainInv, ~Loaded
  PROVE  /\ TypeOK /\ ChainsPartition /\ ChainsAcyclic
         /\ hashhead \in [Buckets -> 0..N] /\ next \in [Slots -> 0..N]
         /\ userid \in [Slots -> Ids] /\ 0 \in Buckets
         /\ Filled \in Slots /\ Filled \in 0..N /\ Filled # 0 /\ Filled \notin On
         /\ On = 1..number /\ On \in SUBSET Slots /\ 1..Filled = On \cup {Filled}
         /\ upd.pc = "none"
         /\ \A s \in Slots : Place[s] = Key(userid[s]) /\ Bucket(s) = Key(userid[s])
         /\ Part(hashhead, next, On, Place, Exempt)
         /\ next[Filled] = 0
         /\ \A t \in Slots : next[t] \in On \cup {0}
         /\ \A b \in Buckets : hashhead[b] \in On \cup {0}
<1>1. TypeOK /\ LoadOK /\ ChainsPartition /\ ChainsAcyclic /\ 0 \in Buckets
  BY CacheAssumption DEF ChainInv, Buckets
<1>2. upd.pc = "none" /\ \A s \in Slots : s > number => next[s] = 0
  BY <1>1 DEF LoadOK
<1>3. /\ On = 1..number /\ \A s \in Slots : Place[s] = Key(userid[s]) /\ Bucket(s) = Key(userid[s])
      /\ On \in SUBSET Slots
  BY <1>1, <1>2, IdleOn, OnType
<1>4. /\ Filled \in Slots /\ Filled \in 0..N /\ Filled # 0 /\ Filled \notin On
      /\ Filled > number /\ 1..Filled = On \cup {Filled}
  BY <1>1, <1>3, FilledType DEF Filled, TypeOK
<1>5. \A t \in Slots : next[t] \in On \cup {0}
  <2> SUFFICES ASSUME NEW t \in Slots, next[t] # 0 PROVE next[t] \in On
    OBVIOUS
  <2>1. t \in On
    BY <1>1, <1>2, <1>3 DEF Slots, TypeOK
  <2>2. QED BY <1>1, <2>1 DEF ChainsPartition
<1>6. \A b \in Buckets : hashhead[b] \in On \cup {0}
  BY <1>1 DEF ChainsPartition
<1>7. QED BY <1>1, <1>2, <1>3, <1>4, <1>5, <1>6, PartOfPartition DEF TypeOK

LEMMA LoadedOn ==
  ASSUME TypeOK', upd.pc = "none", UNCHANGED upd, number' = Filled
  PROVE  On' = 1..Filled /\ \A s \in Slots : Place'[s] = Key(userid'[s]) /\ Bucket(s)' = Key(userid'[s])
BY DEF On, Adrift, Place, Bucket, NameDue, Key

LEMMA AddEmptyChains ==
  ASSUME ChainInv, TypeOK', FillEmpty \/ FillLater
  PROVE  ChainsPartition' /\ ChainsAcyclic'
<1>0. ~Loaded
  BY DEF FillEmpty, FillLater
<1>1. /\ AddEmpty /\ UNCHANGED <<upd, dups>> /\ number' = Filled
      /\ userid' = [userid EXCEPT ![Filled] = NoName]
  <2>1. FillEmpty => userid = [userid EXCEPT ![Filled] = NoName]
    BY <1>0, Loading DEF FillEmpty
  <2>2. QED BY <2>1 DEF FillEmpty, FillLater, AddEmpty
<1>2. /\ On' = On \cup {Filled}
      /\ \A s \in Slots : Place'[s] = Key(userid'[s]) /\ Bucket(s)' = Key(userid'[s])
  BY <1>0, <1>1, Loading, LoadedOn
<1>3. Place'[Filled] = 0 /\ \A s \in On : Place'[s] = Place[s]
  <2>1. userid'[Filled] = NoName /\ \A s \in On : userid'[s] = userid[s]
    BY <1>0, <1>1, Loading
  <2>2. QED BY <1>0, <1>2, <2>1, Loading DEF Key
<1>4. Exempt \cap On \subseteq Exempt'
  <2>1. \A s \in On : s \in Slots /\ Bucket(s) = Place[s] /\ Bucket(s)' = Place'[s]
    BY <1>0, <1>2, Loading
  <2>2. QED BY <1>1, <1>3, <2>1 DEF Exempt
<1>5. PICK rank \in [Slots -> Nat] : \A t \in Slots : next[t] # 0 => rank[t] < rank[next[t]]
  BY <1>0, Loading DEF ChainsAcyclic
<1>6. CASE prev = 0
  <2>1. hashhead' = [hashhead EXCEPT ![0] = Filled] /\ next' = next
    <3>1. next' = [next EXCEPT ![Filled] = 0]
      BY <1>1, <1>6 DEF AddEmpty
    <3>2. QED BY <1>0, <1>1, <1>6, <3>1, Loading DEF AddEmpty
  <2>2. hashhead[0] \in Exempt' \cup {0}
    <3>1. dups \/ hashhead[0] = 0
      BY <1>0, <1>6 DEF ChainInv, LoadOK
    <3>2. hashhead[0] # 0 => hashhead[0] \in On /\ Place[hashhead[0]] = 0
      BY <1>0, Loading DEF Part
    <3>3. dups' /\ hashhead[0] # 0 => hashhead[0] \in Exempt'
      BY <1>0, <1>2, <1>3, <3>2, Loading DEF Exempt
    <3>4. QED BY <1>1, <3>1, <3>3
  <2>3. Part(hashhead, next, On, Place', Exempt')
    <3>1. Part(hashhead, next, On, Place, Exempt)
      BY <1>0, Loading
    <3>2. \A t \in On : next[t] = next[t] /\ Place'[t] = Place[t]
      BY <1>3
    <3>3. QED BY ONLY <3>1, <3>2, <1>4, PartSame
  <2>4. Part([hashhead EXCEPT ![0] = Filled], next, On \cup {Filled}, Place', Exempt')
    <3>1. /\ hashhead \in [Buckets -> 0..N] /\ next \in [Slots -> 0..N] /\ On \in SUBSET Slots
          /\ Filled \in Slots \ On /\ 0 \in Buckets /\ next[Filled] = 0
      BY <1>0, Loading
    <3>2. QED BY ONLY <3>1, <2>2, <2>3, <1>3, PartAlone
  <2>5. ChainsPartition'
    BY <1>2, <2>1, <2>4, PartitionOfPart
  <2>6. QED BY <1>5, <2>1, <2>5 DEF ChainsAcyclic
<1>7. CASE prev # 0
  <2>1. /\ UNCHANGED hashhead /\ next' = [next EXCEPT ![Filled] = 0, ![prev] = Filled]
        /\ prev \in On /\ prev \in Slots /\ prev # Filled /\ next[prev] = 0 /\ Place[prev] = 0
    <3>1. prev \in 1..number /\ userid[prev] = NoName /\ next[prev] = 0
      BY <1>0, <1>7 DEF ChainInv, LoadOK
    <3>2. QED BY <1>0, <1>1, <1>7, <3>1, Loading DEF AddEmpty, Key
  <2>2. Part(hashhead, next, On, Place', Exempt')
    <3>1. Part(hashhead, next, On, Place, Exempt)
      BY <1>0, Loading
    <3>2. \A t \in On : next[t] = next[t] /\ Place'[t] = Place[t]
      BY <1>3
    <3>3. QED BY ONLY <3>1, <3>2, <1>4, PartSame
  <2>3. Part(hashhead, next', On \cup {Filled}, Place', Exempt')
    <3>1. /\ hashhead \in [Buckets -> 0..N] /\ next \in [Slots -> 0..N] /\ On \in SUBSET Slots
          /\ Filled \in Slots \ On
      BY <1>0, Loading
    <3>2. Part(hashhead, [next EXCEPT ![Filled] = 0, ![prev] = Filled], On \cup {Filled}, Place', Exempt')
      BY ONLY <3>1, <2>1, <2>2, <1>3, PartLast
    <3>3. QED BY <2>1, <3>2
  <2>4. ChainsPartition'
    BY <1>2, <2>1, <2>3, PartitionOfPart
  <2> DEFINE R == [s \in Slots |-> IF s = Filled THEN rank[prev] + 1 ELSE rank[s]]
  <2>5. R \in [Slots -> Nat]
    BY <2>1
  <2>6. ASSUME NEW t \in Slots, next'[t] # 0 PROVE R[t] < R[next'[t]]
    <3>1. CASE t = prev
      <4>1. next'[t] = Filled /\ Filled \in Slots
        BY <1>0, <2>1, <3>1, Loading
      <4>2. QED BY <2>1, <3>1, <4>1
    <3>2. CASE t # prev
      <4>1. next'[t] = next[t] /\ t # Filled
        BY <1>0, <2>1, <2>6, <3>2, Loading
      <4>2. next[t] \in Slots /\ next[t] # Filled /\ next[t] # 0
        BY <1>0, <2>6, <4>1, Loading
      <4>3. QED BY <1>5, <4>1, <4>2
    <3>3. QED BY <3>1, <3>2
  <2>7. ChainsAcyclic'
    <3> HIDE DEF R
    <3>1. QED BY <2>5, <2>6 DEF ChainsAcyclic
  <2>8. QED BY <2>4, <2>7
<1>8. QED BY <1>6, <1>7

LEMMA FillNameChains ==
  ASSUME ChainInv, TypeOK', FillName
  PROVE  ChainsPartition' /\ ChainsAcyclic'
<1> DEFINE b == Key(userid[Filled])
           q == hashhead[b]
<1>0. ~Loaded
  BY DEF FillName
<1>1. /\ next' = [next EXCEPT ![Filled] = q] /\ hashhead' = [hashhead EXCEPT ![b] = Filled]
      /\ UNCHANGED <<upd, userid, dups>> /\ number' = Filled
  BY DEF FillName
<1>2. b \in Buckets /\ q \in On \cup {0}
  BY <1>0, Loading, KeyType
<1>3. /\ On' = On \cup {Filled}
      /\ \A s \in Slots : Place'[s] = Place[s] /\ Bucket(s)' = Bucket(s)
  BY <1>0, <1>1, Loading, LoadedOn
<1>4. Exempt' = Exempt
  BY <1>1, <1>3 DEF Exempt
<1>5. Part(hashhead, next', On, Place', Exempt')
  <2>1. \A t \in On : next'[t] = next[t] /\ Place'[t] = Place[t]
    BY <1>0, <1>1, <1>3, Loading
  <2>2. Part(hashhead, next, On, Place, Exempt) /\ Exempt \cap On \subseteq Exempt'
    BY <1>0, <1>4, Loading
  <2>3. QED BY ONLY <2>1, <2>2, PartSame
<1>6. Part([hashhead EXCEPT ![b] = Filled], next', On \cup {Filled}, Place', Exempt')
  <2>1. /\ hashhead \in [Buckets -> 0..N] /\ next' \in [Slots -> 0..N] /\ On \in SUBSET Slots
        /\ Filled \in Slots \ On /\ next'[Filled] = hashhead[b] /\ Place'[Filled] = b
    BY <1>0, <1>1, <1>3, Loading DEF TypeOK
  <2>2. QED BY ONLY <2>1, <1>2, <1>5, PartPush
<1>7. ChainsPartition'
  BY <1>1, <1>3, <1>6, PartitionOfPart
<1>8. PICK rank \in [Slots -> Nat] : \A t \in Slots : next[t] # 0 => rank[t] < rank[next[t]]
  BY <1>0, Loading DEF ChainsAcyclic
<1> DEFINE R == [s \in Slots |-> IF s = Filled THEN 0 ELSE rank[s] + 1]
<1>9. R \in [Slots -> Nat]
  OBVIOUS
<1>10. ASSUME NEW t \in Slots, next'[t] # 0 PROVE R[t] < R[next'[t]]
  <2>1. CASE t = Filled
    <3>1. next'[t] = q /\ q \in Slots /\ q # Filled /\ rank[q] \in Nat
      BY <2>1, <1>0, <1>1, <1>2, <1>10, Loading
    <3>2. QED BY <2>1, <3>1
  <2>2. CASE t # Filled
    <3>1. next'[t] = next[t]
      BY <2>2, <1>0, <1>1, Loading
    <3>2. next[t] \in Slots /\ next[t] # Filled /\ rank[t] < rank[next[t]] /\ next[t] # 0
      BY <3>1, <1>0, <1>8, <1>10, Loading
    <3>3. QED BY <2>2, <3>1, <3>2
  <2>3. QED BY <2>1, <2>2
<1>11. ChainsAcyclic'
  <2> HIDE DEF R
  <2>1. QED BY <1>9, <1>10 DEF ChainsAcyclic
<1>12. QED BY <1>7, <1>11

(***************************************************************************)
(* The earlier record d leaves its chain, becomes the free list, and the   *)
(* later one is put at the head of the chain.                              *)
(***************************************************************************)
LEMMA FillEarlierChains ==
  ASSUME ChainInv, TypeOK', FillEarlier
  PROVE  ChainsPartition' /\ ChainsAcyclic'
<1> DEFINE f == Filled
           b == Key(userid[f])
<1>0. ~Loaded /\ userid[f] # NoName
  BY DEF FillEarlier
<1>1. PICK d \in Twin(userid[f]) :
        /\ userid' = [userid EXCEPT ![d] = NoName]
        /\ hashhead' = [hashhead EXCEPT ![0] = d, ![b] = f]
        /\ next' = [t \in Slots |-> IF t = d THEN 0
                      ELSE IF t = f THEN IF hashhead[b] = d THEN next[d] ELSE hashhead[b]
                      ELSE IF t \in ChainOf(b) /\ next[t] = d THEN next[d]
                      ELSE next[t]]
  BY DEF FillEarlier
<1>2. UNCHANGED upd /\ number' = f /\ dups' = TRUE
  BY DEF FillEarlier
<1>3. b \in Buckets /\ b # 0 /\ userid[f] \in Ids
  BY <1>0, Loading, KeyType, KeyOfNames
<1>4. d \in ChainOf(b) /\ userid[d] = userid[f] /\ d \in On /\ d \in Slots /\ d # f /\ Place[d] = b
  <2>1. d \in ChainOf(b) /\ userid[d] = userid[f]
    BY <1>1 DEF Twin
  <2>2. d \in On
    BY <1>0, <1>3, <2>1, ChainInBucket, Loading
  <2>3. QED BY <1>0, <2>1, <2>2, Loading
<1> DEFINE h2 == IF hashhead[b] = d THEN [hashhead EXCEPT ![b] = next[d]] ELSE hashhead
           O2 == On \ {d}
<1>5. hashhead[b] # d => \E t \in ChainOf(b) : next[t] = d
  <2>1. hashhead[b] \in 0..N
    BY <1>0, <1>3, Loading
  <2>2. QED BY <1>0, <1>4, <2>1, Predecessor, Loading DEF ChainOf
<1>6. \A t \in On : next[t] = d => hashhead[b] # d /\ t \in ChainOf(b)
  <2> SUFFICES ASSUME NEW t \in On, next[t] = d PROVE hashhead[b] # d /\ t \in ChainOf(b)
    OBVIOUS
  <2>1. d # 0
    BY <1>4 DEF Slots
  <2>2. hashhead[b] # d
    BY <1>0, <1>3, <2>1, Loading DEF ChainsPartition
  <2>3. PICK u \in ChainOf(b) : next[u] = d
    BY <1>5, <2>2
  <2>4. u \in On
    BY <1>0, <1>3, <2>3, ChainInBucket, Loading
  <2>5. t = u
    BY <1>0, <2>1, <2>3, <2>4, Loading DEF ChainsPartition
  <2>6. QED BY <2>2, <2>3, <2>5
<1>7. /\ next'[d] = 0
      /\ next'[f] = h2[b]
      /\ \A t \in Slots \ {d, f} : next'[t] = IF next[t] = d THEN next[d] ELSE next[t]
  <2>1. h2[b] = IF hashhead[b] = d THEN next[d] ELSE hashhead[b]
    BY <1>0, <1>3, Loading
  <2>2. \A t \in Slots \ {d, f} : next[t] = d => t \in On
    BY <1>0, <1>4, Loading DEF ChainInv, LoadOK, Slots, Filled, TypeOK
  <2>3. QED BY <1>0, <1>1, <1>4, <1>6, <2>1, <2>2, Loading
<1>8. Part(h2, next', O2, Place, Exempt)
  <2>1. /\ hashhead \in [Buckets -> 0..N] /\ next \in [Slots -> 0..N] /\ On \in SUBSET Slots
        /\ Place \in [Slots -> Buckets] /\ Part(hashhead, next, On, Place, Exempt)
    BY <1>0, Loading, OnType
  <2>2. next[d] # d
    <3>1. PICK rank \in [Slots -> Nat] : \A t \in Slots : next[t] # 0 => rank[t] < rank[next[t]]
      BY <1>0, Loading DEF ChainsAcyclic
    <3>2. d # 0
      BY <1>4 DEF Slots
    <3>3. QED BY <3>1, <3>2, <1>4
  <2>3. hashhead[Place[d]] = d \/ \E t \in On : next[t] = d
    <3>1. hashhead[b] # d => \E t \in On : next[t] = d
      BY <1>0, <1>3, <1>5, ChainInBucket, Loading
    <3>2. QED BY <3>1, <1>4
  <2> DEFINE x2 == [t \in Slots |-> IF hashhead[b] # d /\ next[t] = d THEN next[d] ELSE next[t]]
  <2>4. h2 = IF hashhead[Place[d]] = d THEN [hashhead EXCEPT ![Place[d]] = next[d]] ELSE hashhead
    BY <1>4
  <2>5. \A t \in On : x2[t] = IF hashhead[Place[d]] # d /\ next[t] = d THEN next[d] ELSE next[t]
    BY <1>4, <2>1
  <2>6. Part(h2, x2, O2, Place, Exempt)
    <3> HIDE DEF x2, h2
    <3>1. QED BY ONLY <1>4, <2>1, <2>2, <2>3, <2>4, <2>5, PartRemove
  <2>7. \A t \in O2 : next'[t] = x2[t] /\ Place[t] = Place[t]
    BY <1>0, <1>6, <1>7, <2>1, Loading
  <2>8. QED
    <3> HIDE DEF x2, h2, O2
    <3>1. QED BY ONLY <2>6, <2>7, PartSame
<1>9. /\ On' = On \cup {f}
      /\ Place'[d] = 0 /\ \A s \in Slots \ {d} : Place'[s] = Place[s]
      /\ \A s \in Slots : Bucket(s)' = Place'[s] /\ Bucket(s) = Place[s]
  <2>1. On' = On \cup {f} /\ \A s \in Slots : Place'[s] = Key(userid'[s]) /\ Bucket(s)' = Key(userid'[s])
    BY <1>0, <1>2, Loading, LoadedOn
  <2>2. userid'[d] = NoName /\ \A s \in Slots \ {d} : userid'[s] = userid[s]
    BY <1>0, <1>1, <1>4, Loading
  <2>3. Key(NoName) = 0
    BY DEF Key
  <2>4. \A s \in Slots : Place[s] = Key(userid[s]) /\ Bucket(s) = Key(userid[s])
    BY <1>0, Loading
  <2>5. QED BY ONLY <1>4, <2>1, <2>2, <2>3, <2>4
<1>10. Exempt' = {s \in Slots : Place'[s] = 0}
  BY <1>2, <1>9 DEF Exempt
<1>11. Exempt \cap O2 \subseteq Exempt'
  BY <1>0, <1>9, <1>10, Loading DEF Exempt
<1>12. Part(h2, next', O2, Place', Exempt')
  <2>1. \A t \in O2 : next'[t] = next'[t] /\ Place'[t] = Place[t]
    BY <1>0, <1>9, Loading
  <2>2. QED
    <3> HIDE DEF h2, O2
    <3>1. QED BY ONLY <1>8, <1>11, <2>1, PartSame
<1>13. h2 \in [Buckets -> 0..N] /\ next' \in [Slots -> 0..N] /\ O2 \in SUBSET Slots /\ h2[0] = hashhead[0]
  <2>1. next' \in [Slots -> 0..N] /\ next[d] \in 0..N
    BY <1>0, <1>4, Loading DEF TypeOK
  <2>2. QED BY <1>0, <1>3, <2>1, Loading
<1> DEFINE h3 == [h2 EXCEPT ![0] = d]
<1>14. Part(h3, next', On, Place', Exempt')
  <2>1. h2[0] \in Exempt' \cup {0}
    <3>1. hashhead[0] # 0 => hashhead[0] \in On /\ Place[hashhead[0]] = 0
      BY <1>0, Loading DEF Part
    <3>2. hashhead[0] # 0 => hashhead[0] \in Exempt'
      BY <1>0, <1>3, <1>4, <1>9, <1>10, <3>1, Loading
    <3>3. QED BY <3>2, <1>13
  <2>2. d \in Slots \ O2 /\ 0 \in Buckets
    BY <1>0, <1>4, Loading
  <2>3. Part(h3, next', O2 \cup {d}, Place', Exempt')
    <3> HIDE DEF h2, O2
    <3>1. QED BY ONLY <1>7, <1>9, <1>12, <1>13, <2>1, <2>2, PartAlone
  <2>4. O2 \cup {d} = On
    BY <1>4
  <2>5. QED
    <3> HIDE DEF h3, O2
    <3>1. QED BY <2>3, <2>4
<1>15. Part([h3 EXCEPT ![b] = f], next', On \cup {f}, Place', Exempt')
  <2>1. h3 \in [Buckets -> 0..N] /\ h3[b] = h2[b]
    <3>1. d \in 0..N
      BY <1>4 DEF Slots
    <3> HIDE DEF h2
    <3>2. QED BY <3>1, <1>3, <1>13
  <2>2. f \in Slots \ On /\ Place'[f] = b /\ On \in SUBSET Slots
    BY <1>0, <1>4, <1>9, Loading
  <2>3. next'[f] = h3[b]
    <3> HIDE DEF h2, h3
    <3>1. QED BY <2>1, <1>7
  <2>4. QED
    <3> HIDE DEF h3
    <3>1. QED BY ONLY <2>1, <2>2, <2>3, <1>3, <1>13, <1>14, PartPush
<1>16. hashhead' = [h3 EXCEPT ![b] = f]
  BY <1>0, <1>1, <1>3, Loading
<1>17. ChainsPartition'
  <2> HIDE DEF h3
  <2>1. QED BY <1>9, <1>15, <1>16, PartitionOfPart
<1>18. PICK rank \in [Slots -> Nat] : \A t \in Slots : next[t] # 0 => rank[t] < rank[next[t]]
  BY <1>0, Loading DEF ChainsAcyclic
<1> DEFINE R == [s \in Slots |-> IF s = f THEN 0 ELSE rank[s] + 1]
<1>19. R \in [Slots -> Nat]
  OBVIOUS
<1>20. ASSUME NEW t \in Slots, next'[t] # 0 PROVE R[t] < R[next'[t]]
  <2>1. f \in Slots /\ \A s \in Slots : next[s] \in On \cup {0}
    BY <1>0, Loading
  <2>2. On \subseteq Slots /\ f \notin On
    BY <1>0, Loading
  <2>3. CASE t = f
    <3>1. h2[b] \in On \cup {0}
      BY <1>0, <1>3, <1>4, <2>1, Loading
    <3>2. next'[t] \in On
      <4> HIDE DEF h2
      <4>1. QED BY <3>1, <2>3, <1>7, <1>20
    <3>3. QED BY <2>2, <2>3, <3>2
  <2>4. CASE t # f
    <3>1. t # d
      BY <1>7, <1>20
    <3>2. next'[t] \in On /\ rank[t] < rank[next'[t]]
      <4>1. CASE next[t] = d
        <5>1. next'[t] = next[d]
          BY <1>7, <2>4, <3>1, <4>1
        <5>2. next[d] \in On /\ next[d] \in Slots /\ d # 0
          <6>1. d # 0
            BY <1>4 DEF Slots
          <6>2. QED BY <6>1, <1>4, <1>20, <2>1, <2>2, <5>1
        <5>3. rank[t] < rank[d] /\ rank[d] < rank[next[d]]
          BY <1>4, <1>18, <1>20, <4>1, <5>1, <5>2
        <5>4. rank[t] \in Nat /\ rank[d] \in Nat /\ rank[next[d]] \in Nat
          BY <1>4, <5>2
        <5>5. QED BY <5>1, <5>2, <5>3, <5>4
      <4>2. CASE next[t] # d
        BY <1>7, <1>18, <1>20, <2>1, <2>4, <3>1, <4>2
      <4>3. QED BY <4>1, <4>2
    <3>3. QED BY <2>2, <2>4, <3>2
  <2>5. QED BY <2>3, <2>4
<1>21. ChainsAcyclic'
  <2> HIDE DEF R
  <2>1. QED BY <1>19, <1>20 DEF ChainsAcyclic
<1>22. QED BY <1>17, <1>21

-----------------------------------------------------------------------------
(* The invariant of the chains. *)

LEMMA ReloadChains ==
  ASSUME TypeOK', Reload
  PROVE  ChainsPartition' /\ ChainsAcyclic' /\ LoadOK' /\ AimOK'
<1>1. /\ hashhead' = [b \in Buckets |-> 0] /\ next' = [s \in Slots |-> 0] /\ number' = 0
      /\ upd'.pc = "none" /\ within' = {} /\ prev' = 0
      /\ \A r \in Searches : scan'[r].pc = "idle"
  BY DEF Reload, NoUpdate, NoScan
<1>2. On' = {}
  BY <1>1 DEF On
<1>3. ChainsPartition'
  BY <1>1, <1>2 DEF ChainsPartition
<1>4. ChainsAcyclic'
  <2>1. [s \in Slots |-> 0] \in [Slots -> Nat]
    OBVIOUS
  <2>2. \A t \in Slots : next'[t] = 0
    BY <1>1
  <2>3. QED BY <2>1, <2>2 DEF ChainsAcyclic
<1>5. LoadOK' /\ AimOK'
  BY <1>1, CacheAssumption DEF LoadOK, AimOK, Buckets
<1>6. QED BY <1>3, <1>4, <1>5

LEMMA FillLoad ==
  ASSUME ChainInv, TypeOK', Fill
  PROVE  LoadOK' /\ AimOK'
<1>0. ~Loaded /\ LoadOK
  BY DEF Fill, FillEmpty, FillName, FillLater, FillEarlier, ChainInv
<1>1. /\ number' = Filled /\ UNCHANGED <<upd, scan, within>> /\ upd.pc = "none"
      /\ within = {} /\ \A r \in Searches : scan[r].pc = "idle"
  BY <1>0 DEF Fill, FillEmpty, FillName, FillLater, FillEarlier, AddEmpty, LoadOK
<1>2. AimOK'
  BY <1>1 DEF AimOK
<1>3. /\ Filled \in Slots /\ Filled \notin On /\ On = 1..number /\ 1..Filled = On \cup {Filled}
      /\ Filled \in 1..Filled /\ Filled # 0
      /\ next \in [Slots -> 0..N] /\ userid \in [Slots -> Ids] /\ 0 \in Buckets
      /\ \A s \in Slots : s > Filled => s # Filled /\ s > number
      /\ On \subseteq Slots
  <2>1. /\ Filled \in Slots /\ Filled \notin On /\ On = 1..number /\ 1..Filled = On \cup {Filled}
        /\ Filled # 0 /\ next \in [Slots -> 0..N] /\ userid \in [Slots -> Ids] /\ 0 \in Buckets
        /\ On \subseteq Slots /\ number \in 0..N
    BY <1>0, Loading DEF TypeOK
  <2>2. Filled \in 1..Filled /\ \A s \in Slots : s > Filled => s # Filled /\ s > number
    BY <2>1 DEF Filled, Slots
  <2>3. QED BY <2>1, <2>2
<1>4. /\ \A s \in Slots : s > number => next[s] = 0
      /\ prev # 0 => prev \in On /\ userid[prev] = NoName /\ next[prev] = 0
      /\ prev = 0 => dups \/ hashhead[0] = 0
  BY <1>0, <1>3 DEF LoadOK
<1>5. ASSUME ~Loaded' PROVE Filled # N
  BY <1>1, <1>5 DEF Loaded
<1> SUFFICES ASSUME ~Loaded'
             PROVE  /\ \A s \in Slots : s > Filled => next'[s] = 0
                    /\ prev' # 0 => prev' \in On \cup {Filled} /\ userid'[prev'] = NoName /\ next'[prev'] = 0
                    /\ prev' = 0 => dups' \/ hashhead'[0] = 0
  BY <1>1, <1>2, <1>3 DEF LoadOK
<1>6. CASE FillEmpty \/ FillLater
  <2>1. AddEmpty /\ userid'[Filled] = NoName /\ prev' = Filled
    BY <1>3, <1>5, <1>6 DEF FillEmpty, FillLater, AddEmpty, PrevIs
  <2>2. CASE prev = 0
    BY <1>3, <1>4, <2>1, <2>2 DEF AddEmpty
  <2>3. CASE prev # 0
    <3>1. next' = [next EXCEPT ![Filled] = 0, ![prev] = Filled] /\ prev \in On
      BY <1>4, <2>1, <2>3 DEF AddEmpty
    <3>2. \A s \in Slots : s > Filled => s # prev
      BY <1>0, <1>3, <3>1, <2>3 DEF TypeOK, ChainInv, Slots
    <3>3. QED BY <1>3, <1>4, <2>1, <3>1, <3>2
  <2>4. QED BY <2>2, <2>3
<1>7. CASE FillName
  <2>1. /\ prev' = prev /\ UNCHANGED <<userid, dups>>
        /\ next' = [next EXCEPT ![Filled] = hashhead[Key(userid[Filled])]]
        /\ hashhead' = [hashhead EXCEPT ![Key(userid[Filled])] = Filled]
        /\ userid[Filled] # NoName
    BY <1>5, <1>7 DEF FillName, PrevIs
  <2>2. Key(userid[Filled]) # 0
    BY <1>3, <2>1, KeyOfNames
  <2>3. hashhead'[0] = hashhead[0]
    BY <1>3, <2>1, <2>2, <1>0, Loading
  <2>4. QED BY <1>3, <1>4, <2>1, <2>3
<1>8. CASE FillEarlier
  <2>0. userid[Filled] # NoName
    BY <1>8 DEF FillEarlier
  <2>1. PICK d \in Twin(userid[Filled]) :
          /\ userid' = [userid EXCEPT ![d] = NoName]
          /\ next' = [t \in Slots |-> IF t = d THEN 0
                        ELSE IF t = Filled THEN IF hashhead[Key(userid[Filled])] = d THEN next[d]
                                                ELSE hashhead[Key(userid[Filled])]
                        ELSE IF t \in ChainOf(Key(userid[Filled])) /\ next[t] = d THEN next[d]
                        ELSE next[t]]
    BY <1>8 DEF FillEarlier
  <2>2. prev' = prev /\ dups' = TRUE
    BY <1>5, <1>8 DEF FillEarlier, PrevIs
  <2>3. d \in Slots /\ userid[d] = userid[Filled] /\ d # 0
    BY <2>1 DEF Twin, ChainOf, From, Slots
  <2>4. \A s \in Slots : s # Filled /\ next[s] = 0 => next'[s] = 0
    BY <2>1, <2>3
  <2>5. QED BY <1>3, <1>4, <2>0, <2>1, <2>2, <2>3, <2>4
<1>9. QED BY <1>6, <1>7, <1>8 DEF Fill, FillEmpty

LEMMA ChainInvInit == Init => ChainInv
<1> SUFFICES ASSUME Init PROVE ChainInv
  OBVIOUS
<1> USE CacheAssumption
<1>1. /\ hashhead = [b \in Buckets |-> 0] /\ next = [s \in Slots |-> 0] /\ number = 0
      /\ upd.pc = "none" /\ within = {} /\ prev = 0
      /\ \A r \in Searches : scan[r].pc = "idle"
  BY DEF Init, NoUpdate, NoScan
<1>2. TypeOK
  <2>1. upd \in Updates /\ NoScan \in Scans /\ NoScan.pc = "idle"
    BY DEF Init, NoUpdate, Updates, NoScan, Scans, Ids
  <2>2. scan \in [Searches -> Scans] /\ \A r \in Searches : scan[r].pc # "advance"
    BY <2>1 DEF Init
  <2>3. hashhead \in [Buckets -> 0..N] /\ next \in [Slots -> 0..N]
    BY <1>1
  <2>4. userid \in [Slots -> Ids] /\ file \in [Slots -> Ids]
    BY DEF Init, Ids
  <2>5. number \in 0..N /\ prev \in 0..N /\ flush \in 0..N /\ reloads \in 0..MaxReload
        /\ within \subseteq Names /\ dups \in BOOLEAN
    <3>1. number = 0 /\ prev = 0 /\ flush = 0 /\ reloads = 0 /\ within = {} /\ dups = FALSE
      BY DEF Init
    <3>2. 0 \in 0..N /\ 0 \in 0..MaxReload
      OBVIOUS
    <3>3. QED BY ONLY <3>1, <3>2
  <2>6. QED BY <1>1, <2>1, <2>2, <2>3, <2>4, <2>5 DEF TypeOK
<1>3. On = {}
  BY <1>1 DEF On
<1>4. ChainsPartition
  BY <1>1, <1>3 DEF ChainsPartition
<1>5. ChainsAcyclic
  <2>1. [s \in Slots |-> 0] \in [Slots -> Nat]
    OBVIOUS
  <2>2. \A t \in Slots : next[t] = 0
    BY <1>1
  <2>3. QED BY <2>1, <2>2 DEF ChainsAcyclic
<1>6. LoadOK /\ AimOK
  BY <1>1 DEF LoadOK, AimOK, Buckets
<1>7. QED BY <1>2, <1>4, <1>5, <1>6 DEF ChainInv

LEMMA ChainInvNext == ChainInv /\ [Next]_cvars => ChainInv'
<1> SUFFICES ASSUME ChainInv, [Next]_cvars PROVE ChainInv'
  OBVIOUS
<1>0. TypeOK /\ LoadOK /\ AimOK /\ ChainsPartition /\ ChainsAcyclic
  BY DEF ChainInv
<1>1. TypeOK'
  BY <1>0, NextType
<1>2. ASSUME Loaded, NEW num \in Slots, NEW id \in Ids, Begin(num, id) PROVE ChainInv'
  <2>1. Loaded' /\ upd'.pc = "unlinked"
    BY <1>2 DEF Begin, Loaded
  <2>2. QED BY <1>1, <1>2, <2>1, BeginChains DEF ChainInv, LoadOK, AimOK
<1>3. CASE \E id \in Names : New(id)
  <2>1. hashhead[0] # 0 => hashhead[0] \in Slots
    BY <1>0, CacheAssumption DEF TypeOK, Buckets, Slots
  <2>2. QED BY <1>2, <1>3, <2>1 DEF New, Ids, Begin
<1>4. CASE \E num \in Slots, id \in Names : Set(num, id)
  BY <1>2, <1>4 DEF Set, Ids, Begin
<1>5. CASE \E num \in Slots : Del(num)
  BY <1>2, <1>5 DEF Del, Ids, Begin
<1>6. CASE Aim \/ Link \/ Write
  <2>1. Loaded /\ Loaded'
    BY <1>0, <1>6 DEF TypeOK, Aim, Link, Write, Loaded
  <2>2. AimOK'
    <3>1. CASE Aim
      <4>1. upd.num \in Slots /\ next \in [Slots -> 0..N] /\ upd \in Updates
        BY <1>0, <3>1 DEF TypeOK, Aim
      <4>2. next'[upd.num] = hashhead[Key(upd.new)] /\ hashhead' = hashhead
        BY <3>1, <4>1 DEF Aim
      <4>3. upd'.num = upd.num /\ upd'.new = upd.new
        BY <3>1, <4>1 DEF Aim, Updates
      <4>4. QED BY <4>2, <4>3 DEF AimOK, Key
    <3>2. CASE Link \/ Write
      BY <1>0, <3>2 DEF Link, Write, NoUpdate, AimOK, TypeOK, Updates
    <3>3. QED BY <1>6, <3>1, <3>2
  <2>3. QED BY <1>1, <1>6, <2>1, <2>2, AimChains, LinkChains, WriteChains DEF ChainInv, LoadOK
<1>7. CASE Fill
  <2>1. ChainsPartition' /\ ChainsAcyclic'
    BY <1>1, <1>7, AddEmptyChains, FillNameChains, FillEarlierChains DEF Fill
  <2>2. QED BY <1>1, <1>7, <2>1, FillLoad DEF ChainInv
<1>8. CASE Reload
  BY <1>1, <1>8, ReloadChains DEF ChainInv
<1>9. CASE UNCHANGED <<table, upd, dups>> /\ (Loaded \/ UNCHANGED <<scan, within>>)
  <2>1. ChainsPartition' = ChainsPartition /\ ChainsAcyclic' = ChainsAcyclic /\ AimOK' = AimOK
    BY <1>9 DEF table, ChainsPartition, ChainsAcyclic, AimOK, On, Adrift, Bucket, NameDue, Key
  <2>2. LoadOK'
    BY <1>0, <1>9 DEF table, LoadOK, Loaded
  <2>3. QED BY <1>0, <1>1, <2>1, <2>2 DEF ChainInv
<1>10. CASE \E r \in Searches : Walk(r) \/ \E n \in Names : Search(r, n)
  <2>1. PICK r \in Searches : Walk(r) \/ \E n \in Names : Search(r, n)
    BY <1>10
  <2>2. Loaded
    BY <1>0, <2>1 DEF LoadOK, Walk, Compare, Advance, Return, Search
  <2>3. UNCHANGED <<table, upd, dups>>
    BY <2>1 DEF Walk, Compare, Advance, Return, Search
  <2>4. QED BY <1>9, <2>2, <2>3
<1>11. CASE Flush
  BY <1>9, <1>11 DEF Flush
<1>12. CASE UNCHANGED cvars
  BY <1>9, <1>12 DEF cvars
<1>13. QED
  BY <1>3, <1>4, <1>5, <1>6, <1>7, <1>8, <1>10, <1>11, <1>12 DEF Next, Update

THEOREM CacheInvariant == Spec => []ChainInv
BY ChainInvInit, ChainInvNext, PTL DEF Spec

(***************************************************************************)
(* The pointers of the table stay in it.  setuserid_internal and           *)
(* fillucache store them without looking at their range.                   *)
(***************************************************************************)
THEOREM CacheTypeCorrect == Spec => []TypeOK
<1>1. ChainInv => TypeOK
  BY DEF ChainInv
<1>2. QED BY <1>1, CacheInvariant, PTL

(***************************************************************************)
(* The chains and the free list keep the slots apart at every moment of an *)
(* update of setuserid_internal and of a load_ucache.                      *)
(***************************************************************************)
THEOREM ChainsCorrect == Spec => []ChainsPartition
<1>1. ChainInv => ChainsPartition
  BY DEF ChainInv
<1>2. QED BY <1>1, CacheInvariant, PTL

-----------------------------------------------------------------------------
(* Names. *)

\* The name an update is about to write is borne by no other slot.
UpdOK ==
  upd.pc # "none" =>
    \A s \in Slots \ {upd.num} : userid[s] = upd.new => upd.new \in within \cup {NoName}

NameInv == ChainInv /\ UpdOK /\ NamesUnique

LEMMA BeginNames ==
  ASSUME NameInv, TypeOK', NEW num \in Slots, NEW id \in Ids, Begin(num, id)
  PROVE  UpdOK' /\ NamesUnique'
<1>0. TypeOK /\ ChainsPartition /\ ChainsAcyclic /\ NamesUnique /\ userid \in [Slots -> Ids]
  BY DEF NameInv, ChainInv, TypeOK
<1>1. /\ number = N /\ number' = N /\ userid' = userid /\ within \subseteq within'
      /\ upd' = [pc |-> "unlinked", num |-> num, new |-> id]
      /\ ~Taken(num, id) /\ upd.pc = "none"
      /\ Unchecked(num, id) => id \in within'
  BY DEF Begin, Loaded
<1>2. On = Slots /\ \A s \in Slots : Bucket(s) = Key(userid[s])
  BY <1>0, <1>1, IdleOn DEF Slots
<1>3. NamesUnique'
  BY <1>0, <1>1 DEF NamesUnique
<1>4. ASSUME NEW s \in Slots \ {num}, userid[s] = id, id # NoName
      PROVE  id \in within' \cup {NoName}
  <2>1. Key(id) # 0 /\ Key(id) \in Buckets
    BY <1>4, KeyOfNames, KeyType
  <2>2. s \in ChainOf(Key(id))
    BY <1>0, <1>2, <1>4, <2>1, BucketInChain
  <2>3. Key(id) = Key(userid[num])
    BY <1>1, <1>4, <2>1, <2>2 DEF Taken
  <2>4. CASE id = userid[num]
    <3>1. s \in 1..number /\ num \in 1..number
      BY <1>1 DEF Slots
    <3>2. QED BY <1>0, <1>1, <1>4, <2>4, <3>1 DEF NamesUnique
  <2>5. CASE id # userid[num]
    BY <1>1, <1>4, <2>3, <2>5 DEF Unchecked
  <2>6. QED BY <2>4, <2>5
<1>5. UpdOK'
  BY <1>1, <1>4 DEF UpdOK
<1>6. QED BY <1>3, <1>5

LEMMA FillNames ==
  ASSUME NameInv, TypeOK', Fill
  PROVE  UpdOK' /\ NamesUnique'
<1>0. ~Loaded /\ ChainInv /\ NamesUnique
  BY DEF NameInv, Fill, FillEmpty, FillName, FillLater, FillEarlier
<1>1. UNCHANGED <<upd, within>> /\ number' = Filled /\ upd.pc = "none"
  BY <1>0, Loading DEF Fill, FillEmpty, FillName, FillLater, FillEarlier, AddEmpty
<1>2. UpdOK'
  BY <1>1 DEF UpdOK
<1>3. /\ Filled \in Slots /\ Filled \notin On /\ On = 1..number /\ 1..Filled = On \cup {Filled}
      /\ userid \in [Slots -> Ids] /\ On \subseteq Slots
      /\ \A s \in Slots : Bucket(s) = Key(userid[s])
  BY <1>0, Loading
<1>4. \A s, t \in On : userid[s] = userid[t] /\ s # t => userid[s] \in within \cup {NoName}
  BY <1>0, <1>3 DEF NamesUnique
<1> DEFINE n == userid[Filled]
<1>5. n # NoName => \A s \in On : userid[s] = n => s \in Twin(n)
  <2> SUFFICES ASSUME n # NoName, NEW s \in On, userid[s] = n PROVE s \in Twin(n)
    OBVIOUS
  <2>1. Key(n) # 0 /\ Key(n) \in Buckets
    BY <1>3, KeyOfNames, KeyType
  <2>2. s \in ChainOf(Key(n))
    BY <1>0, <1>3, <2>1, BucketInChain DEF ChainInv
  <2>3. QED BY <2>2 DEF Twin
<1> SUFFICES \A s, t \in On \cup {Filled} :
               userid'[s] = userid'[t] /\ s # t => userid'[s] \in within \cup {NoName}
  BY <1>1, <1>2, <1>3 DEF NamesUnique
<1>6. CASE FillEmpty \/ FillLater
  <2>1. userid'[Filled] = NoName /\ \A s \in On : userid'[s] = userid[s]
    BY <1>3, <1>6 DEF FillEmpty, FillLater
  <2>2. QED BY <1>4, <2>1
<1>7. CASE FillName
  <2>1. userid' = userid /\ n # NoName /\ Twin(n) = {}
    BY <1>7 DEF FillName
  <2>2. QED BY <1>4, <1>5, <2>1
<1>8. CASE FillEarlier
  <2>1. PICK d \in Twin(n) : userid' = [userid EXCEPT ![d] = NoName]
    BY <1>8 DEF FillEarlier
  <2>2. d \in Slots /\ userid[d] = n /\ n # NoName
    BY <1>8, <2>1 DEF FillEarlier, Twin, ChainOf, From
  <2>3. d \in On
    <3>1. Key(n) \in Buckets
      BY <1>3, KeyType
    <3>2. QED BY <1>0, <2>1, <3>1, ChainInBucket DEF ChainInv, Twin
  <2>4. userid'[d] = NoName /\ \A s \in Slots \ {d} : userid'[s] = userid[s]
    BY <1>3, <2>1, <2>2
  <2>5. QED BY <1>3, <1>4, <2>2, <2>3, <2>4
<1>9. QED BY <1>6, <1>7, <1>8 DEF Fill

LEMMA NameInvNext == NameInv /\ [Next]_cvars => NameInv'
<1> SUFFICES ASSUME NameInv, [Next]_cvars PROVE NameInv'
  OBVIOUS
<1>0. TypeOK /\ ChainInv /\ UpdOK /\ NamesUnique
  BY DEF NameInv, ChainInv
<1>1. ChainInv' /\ TypeOK'
  BY <1>0, ChainInvNext DEF ChainInv
<1>2. CASE \E id \in Names : New(id)
  <2>1. hashhead[0] # 0 => hashhead[0] \in Slots
    BY <1>0, CacheAssumption DEF TypeOK, Buckets, Slots
  <2>2. QED BY <1>1, <1>2, <2>1, BeginNames DEF New, Ids, NameInv
<1>3. CASE \E num \in Slots, id \in Names : Set(num, id)
  BY <1>1, <1>3, BeginNames DEF Set, Ids, NameInv
<1>4. CASE \E num \in Slots : Del(num)
  BY <1>1, <1>4, BeginNames DEF Del, Ids, NameInv
<1>5. CASE Aim \/ Link
  <2>1. /\ UNCHANGED <<userid, number, within>> /\ upd.pc # "none"
        /\ upd'.num = upd.num /\ upd'.new = upd.new
    BY <1>0, <1>5 DEF Aim, Link, TypeOK, Updates
  <2>2. QED BY <1>0, <1>1, <2>1 DEF NameInv, UpdOK, NamesUnique
<1>6. CASE Write
  <2>1. /\ userid' = [userid EXCEPT ![upd.num] = upd.new] /\ UNCHANGED <<number, within>>
        /\ upd'.pc = "none" /\ upd.pc # "none"
    BY <1>6 DEF Write, NoUpdate
  <2>2. upd.num \in Slots /\ userid \in [Slots -> Ids] /\ 1..number \subseteq Slots
    BY <1>0, <2>1 DEF TypeOK, Loaded, Slots
  <2>3. userid'[upd.num] = upd.new /\ \A s \in Slots \ {upd.num} : userid'[s] = userid[s]
    BY <2>1, <2>2
  <2>4. \A s \in Slots \ {upd.num} : userid[s] = upd.new => upd.new \in within \cup {NoName}
    BY <1>0, <2>1 DEF UpdOK
  <2>5. NamesUnique'
    BY <1>0, <2>1, <2>2, <2>3, <2>4 DEF NamesUnique
  <2>6. QED BY <1>1, <2>1, <2>5 DEF NameInv, UpdOK
<1>7. CASE Reload
  <2>1. number' = 0 /\ upd'.pc = "none"
    BY <1>7 DEF Reload, NoUpdate
  <2>2. QED BY <1>1, <2>1 DEF NameInv, UpdOK, NamesUnique
<1>8. CASE Fill
  BY <1>1, <1>8, FillNames DEF NameInv
<1>9. CASE UNCHANGED <<userid, number, upd, within>>
  BY <1>0, <1>1, <1>9 DEF NameInv, UpdOK, NamesUnique
<1>10. CASE \E r \in Searches : Walk(r) \/ \E n \in Names : Search(r, n)
  BY <1>9, <1>10 DEF Walk, Compare, Advance, Return, Search, table
<1>11. CASE Flush \/ UNCHANGED cvars
  BY <1>9, <1>11 DEF Flush, cvars, table
<1>12. QED
  BY <1>2, <1>3, <1>4, <1>5, <1>6, <1>7, <1>8, <1>10, <1>11 DEF Next, Update

(***************************************************************************)
(* No two users bear the same name, a rename inside one bucket excepted,   *)
(* for which setuserid_internal does not look for the name.                *)
(***************************************************************************)
THEOREM NamesCorrect == Spec => []NamesUnique
<1>1. Init => NameInv
  <2>1. Init => UpdOK /\ NamesUnique
    BY DEF Init, UpdOK, NamesUnique, NoUpdate
  <2>2. QED BY <2>1, ChainInvInit DEF NameInv
<1>2. NameInv => NamesUnique
  BY DEF NameInv
<1>3. QED BY <1>1, <1>2, NameInvNext, PTL DEF Spec

-----------------------------------------------------------------------------
(***************************************************************************)
(* Searches.  Reach is From with the next fields as a parameter.           *)
(***************************************************************************)
Reach(x, a) ==
  {s \in Slots : \A C \in SUBSET Slots :
     /\ a \in C \cup {0}
     /\ \A t \in C : x[t] \in C \cup {0}
     => s \in C}

LEMMA ReachSame ==
  ASSUME NEW x, NEW x2, NEW B \in SUBSET Slots, NEW a \in B \cup {0},
         \A t \in B : x[t] \in B \cup {0} /\ x2[t] = x[t]
  PROVE  Reach(x, a) \subseteq Reach(x2, a)
<1>1. ASSUME NEW s \in Reach(x, a),
             NEW C \in SUBSET Slots, a \in C \cup {0}, \A t \in C : x2[t] \in C \cup {0}
      PROVE  s \in C
  <2>1. C \cap B \in SUBSET Slots /\ a \in (C \cap B) \cup {0}
    BY <1>1
  <2>2. \A t \in C \cap B : x[t] \in (C \cap B) \cup {0}
    BY <1>1
  <2>3. s \in C \cap B
    BY <1>1, <2>1, <2>2 DEF Reach
  <2>4. QED BY <2>3
<1>2. Reach(x, a) \subseteq Slots
  BY DEF Reach
<1>3. QED BY <1>1, <1>2 DEF Reach

LEMMA ReachFrom == \A a : Reach(next, a) = From(a)
BY DEF Reach, From

\* The slots on the chain that search r walks.
Lane(r) == {s \in On : Bucket(s) = Key(scan[r].name)}

\* The user that search r looks for, and may still find.
Ahead(r, s) ==
  /\ s \in Reach(next, scan[r].at)
  /\ userid[s] = scan[r].name /\ NameDue(s) = scan[r].name
  /\ scan[r].pc = "advance" => s # scan[r].at

ScanFine(r) ==
  /\ scan[r].pc # "idle" => scan[r].name \in Names
  /\ scan[r].pc \in {"compare", "advance"} /\ ~scan[r].moved =>
       /\ scan[r].at \in Lane(r) \cup {0}
       /\ scan[r].there => \E s \in On : Ahead(r, s)
  /\ scan[r].pc = "missed" /\ ~scan[r].moved => ~scan[r].there

ScanInv == ChainInv /\ \A r \in Searches : ScanFine(r)

LEMMA LaneClosed ==
  ASSUME ChainInv, NEW r \in Searches
  PROVE  Lane(r) \in SUBSET Slots /\ \A t \in Lane(r) : next[t] \in Lane(r) \cup {0}
BY OnType DEF ChainInv, ChainsPartition, Lane

(***************************************************************************)
(* A step that leaves the lane of a search alone, where the search has not *)
(* been disturbed, keeps what the search relies on.                        *)
(***************************************************************************)
LEMMA ScanKept ==
  ASSUME ScanInv, NEW r \in Searches,
         scan'[r].pc = scan[r].pc, scan'[r].name = scan[r].name,
         scan'[r].at = scan[r].at, scan'[r].there = scan[r].there,
         ~scan'[r].moved => ~scan[r].moved,
         ~scan'[r].moved => \A t \in Lane(r) :
            /\ next'[t] = next[t] /\ t \in On' /\ Bucket(t)' = Bucket(t)
            /\ userid[t] = scan[r].name /\ NameDue(t) = scan[r].name =>
                 userid'[t] = scan[r].name /\ NameDue(t)' = scan[r].name
  PROVE  ScanFine(r)'
<1>0. ScanFine(r) /\ ChainInv
  BY DEF ScanInv
<1>1. CASE scan[r].pc \in {"compare", "advance"} /\ ~scan'[r].moved
  <2>1. scan[r].at \in Lane(r) \cup {0} /\ (scan[r].there => \E s \in On : Ahead(r, s))
    BY <1>0, <1>1 DEF ScanFine
  <2>2. scan'[r].at \in Lane(r)' \cup {0}
    BY <2>1, <1>1 DEF Lane, Key
  <2>3. Reach(next, scan[r].at) \subseteq Reach(next', scan[r].at)
    <3>1. Lane(r) \in SUBSET Slots /\ \A t \in Lane(r) : next[t] \in Lane(r) \cup {0} /\ next'[t] = next[t]
      BY <1>0, <1>1, LaneClosed
    <3>2. QED BY ONLY <3>1, <2>1, ReachSame
  <2>4. ASSUME NEW s \in On, Ahead(r, s) PROVE s \in On' /\ Ahead(r, s)'
    <3>1. s \in Lane(r)
      BY <2>4 DEF Ahead, Lane, Bucket
    <3>2. QED BY <1>1, <2>3, <2>4, <3>1 DEF Ahead
  <2>5. scan'[r].there => \E s \in On' : Ahead(r, s)'
    BY <2>1, <2>4
  <2>6. QED BY <1>0, <1>1, <2>2, <2>5 DEF ScanFine
<1>2. CASE ~(scan[r].pc \in {"compare", "advance"} /\ ~scan'[r].moved)
  BY <1>0, <1>2 DEF ScanFine
<1>3. QED BY <1>1, <1>2

LEMMA SearchFine ==
  ASSUME ScanInv, NEW r \in Searches, NEW n \in Names, Search(r, n)
  PROVE  ScanFine(r)'
<1> DEFINE a == hashhead[Key(n)]
<1>0. ChainInv /\ TypeOK /\ ChainsPartition /\ ChainsAcyclic /\ Key(n) \in Buckets /\ Key(n) # 0
  BY KeyType, KeyOfNames, CacheAssumption DEF ScanInv, ChainInv, Ids
<1>1. scan'[r] = [pc |-> "compare", name |-> n, at |-> a,
                  there |-> \E s \in On : userid[s] = n /\ NameDue(s) = n, moved |-> FALSE]
  BY <1>0 DEF Search, TypeOK
<1>2. UNCHANGED <<next, userid>> /\ On' = On /\ \A s \in Slots : NameDue(s)' = NameDue(s) /\ Bucket(s)' = Bucket(s)
  BY DEF Search, table, On, Adrift, NameDue, Bucket, Key
<1>3. a \in Lane(r)' \cup {0}
  <2>1. a \in {s \in On : Bucket(s) = Key(n)} \cup {0}
    BY <1>0 DEF ChainsPartition
  <2>2. Lane(r)' = {s \in On : Bucket(s) = Key(n)}
    BY <1>0, <1>1, <1>2, OnType DEF Lane, Key
  <2>3. QED BY <2>1, <2>2
<1>4. ASSUME NEW s \in On, userid[s] = n, NameDue(s) = n PROVE Ahead(r, s)'
  <2>1. s \in Slots /\ Bucket(s) = Key(n)
    BY <1>0, <1>4, OnType DEF Bucket
  <2>2. s \in ChainOf(Key(n))
    BY <1>0, <1>4, <2>1, BucketInChain
  <2>3. s \in Reach(next', a)
    BY <1>2, <2>2, ReachFrom DEF ChainOf
  <2>4. QED BY <1>1, <1>2, <1>4, <2>1, <2>3 DEF Ahead
<1>5. QED BY <1>1, <1>2, <1>3, <1>4 DEF ScanFine

LEMMA WalkFine ==
  ASSUME ScanInv, NEW r \in Searches, Walk(r)
  PROVE  ScanFine(r)'
<1>0. ChainInv /\ TypeOK /\ ScanFine(r) /\ scan[r] \in Scans /\ scan \in [Searches -> Scans]
  BY DEF ScanInv, ChainInv, TypeOK
<1>1. /\ UNCHANGED <<next, userid>> /\ On' = On
      /\ \A s \in Slots : NameDue(s)' = NameDue(s) /\ Bucket(s)' = Bucket(s)
  BY DEF Walk, Compare, Advance, Return, table, On, Adrift, NameDue, Bucket, Key
<1>2. ASSUME scan'[r].name = scan[r].name PROVE Lane(r)' = Lane(r)
  BY <1>0, <1>1, <1>2, OnType DEF Lane, Key
<1>3. CASE Compare(r)
  <2>1. /\ scan'[r].name = scan[r].name /\ scan'[r].at = scan[r].at
        /\ scan'[r].there = scan[r].there /\ scan'[r].moved = scan[r].moved
        /\ scan[r].pc = "compare"
        /\ scan'[r].pc = IF scan[r].at = 0 THEN "missed"
                         ELSE IF userid[scan[r].at] = scan[r].name THEN "found" ELSE "advance"
    BY <1>0, <1>3 DEF Compare, Scans
  <2>2. CASE scan[r].at = 0
    <3>1. Reach(next, 0) = {}
      <4>1. ASSUME NEW s \in Reach(next, 0) PROVE FALSE
        <5>1. s \in {}
          BY <4>1 DEF Reach
        <5>2. QED BY <5>1
      <4>2. QED BY <4>1
    <3>2. QED BY <1>0, <2>1, <2>2, <3>1 DEF ScanFine, Ahead
  <2>3. CASE scan[r].at # 0 /\ userid[scan[r].at] = scan[r].name
    BY <1>0, <2>1, <2>3 DEF ScanFine
  <2>4. CASE scan[r].at # 0 /\ userid[scan[r].at] # scan[r].name
    <3>1. ASSUME NEW s \in On, Ahead(r, s) PROVE Ahead(r, s)'
      <4>1. s \in Slots
        BY <1>0, OnType
      <4>2. QED BY <1>1, <2>1, <2>4, <3>1, <4>1 DEF Ahead
    <3>2. QED BY <1>0, <1>1, <1>2, <2>1, <2>4, <3>1 DEF ScanFine
  <2>5. QED BY <2>2, <2>3, <2>4
<1>4. CASE Advance(r)
  <2>1. /\ scan'[r].name = scan[r].name /\ scan'[r].at = next[scan[r].at]
        /\ scan'[r].there = scan[r].there /\ scan'[r].moved = scan[r].moved
        /\ scan[r].pc = "advance" /\ scan'[r].pc = "compare" /\ scan[r].at # 0
    BY <1>0, <1>4 DEF Advance, Scans, TypeOK
  <2>2. CASE ~scan[r].moved
    <3>1. scan[r].at \in Lane(r) /\ scan[r].at \in Slots
      BY <1>0, <2>1, <2>2, LaneClosed DEF ScanFine
    <3>2. scan'[r].at \in Lane(r)' \cup {0}
      BY <1>0, <1>2, <2>1, <3>1, LaneClosed
    <3>3. ASSUME NEW s \in On, Ahead(r, s) PROVE Ahead(r, s)'
      <4>1. s \in Slots /\ next \in [Slots -> 0..N]
        BY <1>0, OnType DEF TypeOK
      <4>2. s \in From(scan[r].at) /\ s # scan[r].at
        BY <2>1, <3>3, ReachFrom DEF Ahead
      <4>3. s \in From(next[scan[r].at])
        BY <3>1, <4>1, <4>2, FromNext
      <4>4. s \in Reach(next', scan'[r].at)
        BY <1>1, <2>1, <4>3, ReachFrom
      <4>5. QED BY <1>1, <2>1, <3>3, <4>1, <4>4 DEF Ahead
    <3>4. QED BY <1>0, <1>1, <2>1, <2>2, <3>2, <3>3 DEF ScanFine
  <2>3. CASE scan[r].moved
    BY <1>0, <2>1, <2>3 DEF ScanFine
  <2>4. QED BY <2>2, <2>3
<1>5. CASE Return(r)
  BY <1>0, <1>5 DEF Return, NoScan, ScanFine
<1>6. QED BY <1>3, <1>4, <1>5 DEF Walk

LEMMA BeginFine ==
  ASSUME ScanInv, NEW num \in Slots, NEW id \in Ids, Begin(num, id), NEW r \in Searches
  PROVE  ScanFine(r)'
<1> DEFINE b == Key(userid[num])
<1>0. ChainInv /\ TypeOK /\ ChainsPartition /\ scan[r] \in Scans
  BY DEF ScanInv, ChainInv, TypeOK
<1>1. /\ scan'[r].pc = scan[r].pc /\ scan'[r].name = scan[r].name /\ scan'[r].at = scan[r].at
      /\ scan'[r].there = scan[r].there
      /\ ~scan'[r].moved => ~scan[r].moved /\ Key(scan[r].name) # b
  BY <1>0 DEF Begin, Disturbed, Scans
<1>2. /\ On = Slots /\ On' = Slots \ {num} /\ userid' = userid
      /\ \A s \in Slots : Bucket(s) = Key(userid[s]) /\ Bucket(s)' = Key(userid[s])
      /\ \A s \in Slots : NameDue(s)' = userid[s]
  <2>1. upd.pc = "none" /\ number = N /\ number' = N /\ userid' = userid /\ upd'.pc = "unlinked" /\ upd'.num = num
    BY DEF Begin, Loaded
  <2>2. QED BY <1>0, <2>1, IdleOn DEF On, Adrift, Slots, Bucket, NameDue, Key
<1>3. \A t \in Lane(r) : Key(scan[r].name) # b => t # num /\ next[t] # num
  <2> SUFFICES ASSUME NEW t \in Lane(r), Key(scan[r].name) # b PROVE t # num /\ next[t] # num
    OBVIOUS
  <2>1. t \in Slots /\ Bucket(t) # b
    BY <1>2 DEF Lane
  <2>2. Bucket(num) = b /\ num # 0
    BY <1>2 DEF Slots
  <2>3. QED BY <1>0, <1>2, <2>1, <2>2 DEF ChainsPartition
<1>4. \A t \in Slots : next[t] # num => next'[t] = next[t]
  BY <1>0 DEF Begin, Unlinked, TypeOK
<1>5. Lane(r) \subseteq Slots
  BY <1>2 DEF Lane
<1>6. QED BY <1>1, <1>2, <1>3, <1>4, <1>5, ScanKept

LEMMA ScanInvNext == ScanInv /\ [Next]_cvars => ScanInv'
<1> SUFFICES ASSUME ScanInv, [Next]_cvars PROVE ScanInv'
  OBVIOUS
<1>0. ChainInv /\ TypeOK /\ LoadOK /\ scan \in [Searches -> Scans] /\ On \in SUBSET Slots
  BY OnType DEF ScanInv, ChainInv, TypeOK
<1>1. ChainInv'
  BY <1>0, ChainInvNext
<1> SUFFICES ASSUME NEW r \in Searches PROVE ScanFine(r)'
  BY <1>1 DEF ScanInv
<1>2. CASE \E id \in Names : New(id)
  <2>1. hashhead[0] # 0 => hashhead[0] \in Slots
    BY <1>0, CacheAssumption DEF TypeOK, Buckets, Slots
  <2>2. QED BY <1>2, <2>1, BeginFine DEF New, Ids
<1>3. CASE \E num \in Slots, id \in Names : Set(num, id)
  BY <1>3, BeginFine DEF Set, Ids
<1>4. CASE \E num \in Slots : Del(num)
  BY <1>4, BeginFine DEF Del, Ids
<1>5. ASSUME UNCHANGED scan,
             \A t \in On : /\ next'[t] = next[t] /\ t \in On' /\ NameDue(t)' = NameDue(t)
                           /\ userid'[t] = userid[t] \/ NameDue(t) = userid'[t]
      PROVE  ScanFine(r)'
  <2>1. \A t \in Lane(r) :
            /\ next'[t] = next[t] /\ t \in On' /\ Bucket(t)' = Bucket(t)
            /\ userid[t] = scan[r].name /\ NameDue(t) = scan[r].name =>
                 userid'[t] = scan[r].name /\ NameDue(t)' = scan[r].name
    BY <1>5 DEF Lane, Bucket, Key
  <2>2. QED BY <1>5, <2>1, ScanKept
<1>6. CASE Aim
  <2>1. /\ UNCHANGED <<scan, userid, number>> /\ upd.num \in Slots /\ next \in [Slots -> 0..N]
        /\ next' = [next EXCEPT ![upd.num] = hashhead[Key(upd.new)]]
        /\ upd.pc = "unlinked" /\ upd'.pc = "aimed" /\ upd'.num = upd.num
    BY <1>0, <1>6 DEF Aim, TypeOK, Updates
  <2>2. upd.num \notin On /\ On' = On /\ \A t \in Slots : NameDue(t)' = NameDue(t)
    BY <2>1 DEF On, Adrift, NameDue
  <2>3. QED BY <1>0, <1>5, <2>1, <2>2
<1>7. CASE Link
  <2>1. /\ UNCHANGED <<scan, userid, number, next>>
        /\ upd.pc = "aimed" /\ upd'.pc = "linked" /\ upd'.num = upd.num
    BY <1>0, <1>7 DEF Link, TypeOK, Updates
  <2>2. upd.num \notin On /\ On \subseteq On' /\ \A t \in On : NameDue(t)' = NameDue(t)
    BY <2>1 DEF On, Adrift, NameDue
  <2>3. QED BY <1>5, <2>1, <2>2
<1>8. CASE Write
  <2>1. /\ UNCHANGED <<scan, number, next>> /\ userid \in [Slots -> Ids]
        /\ userid' = [userid EXCEPT ![upd.num] = upd.new] /\ upd.num \in Slots
        /\ upd.pc = "linked" /\ upd'.pc = "none"
    BY <1>0, <1>8 DEF Write, TypeOK, NoUpdate
  <2>2. On' = On
    BY <2>1 DEF On, Adrift
  <2>3. \A t \in Slots : NameDue(t)' = NameDue(t) /\ (userid'[t] = userid[t] \/ NameDue(t) = userid'[t])
    BY <2>1 DEF NameDue
  <2>4. QED BY <1>0, <1>5, <2>1, <2>2, <2>3
<1>9. CASE UNCHANGED <<table, upd, scan>>
  <2>1. On' = On /\ \A t \in On : NameDue(t)' = NameDue(t)
    BY <1>9 DEF table, On, Adrift, NameDue
  <2>2. QED BY <1>5, <1>9, <2>1 DEF table
<1>10. CASE Flush \/ UNCHANGED cvars
  BY <1>9, <1>10 DEF Flush, cvars
<1>11. CASE \E q \in Searches : Walk(q) \/ \E n \in Names : Search(q, n)
  <2>1. PICK q \in Searches : Walk(q) \/ \E n \in Names : Search(q, n)
    BY <1>11
  <2>2. CASE q = r
    BY <2>1, <2>2, WalkFine, SearchFine
  <2>3. CASE q # r
    <3>1. scan'[r] = scan[r] /\ UNCHANGED <<table, upd>>
      BY <1>0, <2>1, <2>3 DEF Walk, Compare, Advance, Return, Search
    <3>2. On' = On /\ \A t \in On : NameDue(t)' = NameDue(t) /\ Bucket(t)' = Bucket(t)
      BY <3>1 DEF table, On, Adrift, NameDue, Bucket, Key
    <3>3. UNCHANGED <<next, userid>>
      BY <3>1 DEF table
    <3>4. \A t \in Lane(r) : t \in On
      BY DEF Lane
    <3>5. QED BY <3>1, <3>2, <3>3, <3>4, ScanKept
  <2>4. QED BY <2>2, <2>3
<1>12. CASE Reload \/ Fill
  <2>1. scan'[r].pc = "idle"
    <3>1. Fill => ~Loaded /\ UNCHANGED scan
      BY DEF Fill, FillEmpty, FillName, FillLater, FillEarlier
    <3>2. QED BY <1>0, <1>12, <3>1 DEF Reload, NoScan, LoadOK
  <2>2. QED BY <2>1 DEF ScanFine
<1>13. QED
  BY <1>2, <1>3, <1>4, <1>6, <1>7, <1>8, <1>10, <1>11, <1>12 DEF Next, Update

(***************************************************************************)
(* What a search misses was not there when it began, unless a slot left    *)
(* the bucket that it walks.                                               *)
(***************************************************************************)
THEOREM MissCorrect == Spec => []MissIsTrue
<1>1. Init => ScanInv
  <2>1. Init => \A r \in Searches : scan[r].pc = "idle"
    BY DEF Init, NoScan
  <2>2. Init => \A r \in Searches : ScanFine(r)
    BY <2>1 DEF ScanFine
  <2>3. QED BY <2>2, ChainInvInit DEF ScanInv
<1>2. ScanInv => MissIsTrue
  BY DEF ScanInv, ScanFine, MissIsTrue
<1>3. QED BY <1>1, <1>2, ScanInvNext, PTL DEF Spec
=============================================================================
