-------------------------- MODULE UtmpTable_proofs --------------------------
(***************************************************************************)
(* The invariants of the session table, for every number of slots, users   *)
(* and buckets.  The inductive invariant adds to the checked ones that the *)
(* links can be ranked (ChainsAcyclic, RingConnected): without it a cycle  *)
(* that no head reaches would satisfy the rest, and the search of          *)
(* clear_utmp2 would miss a slot on it.                                    *)
(***************************************************************************)
EXTENDS UtmpTable, Ranks, FiniteSetTheorems, TLAPS

Sound ==
  /\ TypeOK
  /\ Partitioned
  /\ ChainsAcyclic
  /\ Linked
  /\ RingConnected
  /\ Sorted
  /\ NumberExact

\* A slot not in use that is cleared ends the order of the links.
Inv == TypeOK /\ NumberExact /\ (~stray => Sound)

-----------------------------------------------------------------------------
(***************************************************************************)
(* The search of clear_utmp2 in bucket b visits the slots of bucket b.     *)
(* A slot m of bucket b with the least rank outside a closed set C would   *)
(* be pointed to by the head or by a slot of smaller rank, which is in C.  *)
(***************************************************************************)
LEMMA ChainOfBucket ==
  ASSUME TypeOK, Partitioned, ChainsAcyclic, NEW b \in Buckets
  PROVE  ChainOf(b) = {s \in Slots : Bucket(s) = b}
<1> USE TableAssumption
<1> DEFINE B == {s \in Slots : Bucket(s) = b}
<1>1. ASSUME NEW s \in ChainOf(b) PROVE s \in B
  <2>1. /\ B \in SUBSET Slots
        /\ hashhead[b] \in B \cup {0}
        /\ \A t \in B : next[t] \in B \cup {0}
    BY DEF TypeOK, Partitioned, Slots, Buckets
  <2>2. QED BY <1>1, <2>1 DEF ChainOf
<1>2. ASSUME NEW s \in B,
             NEW C \in SUBSET Slots,
             hashhead[b] \in C \cup {0},
             \A t \in C : next[t] \in C \cup {0}
      PROVE  s \in C
  <2>1. SUFFICES ASSUME s \notin C PROVE FALSE
    OBVIOUS
  <2>2. PICK rank \in [Slots -> Nat] :
             \A t \in Slots : next[t] # 0 => rank[t] < rank[next[t]]
    BY DEF ChainsAcyclic
  <2>3. IsFiniteSet(Slots)
    BY FS_Interval DEF Slots
  <2>4. PICK m \in B \ C : \A t \in B \ C : rank[m] <= rank[t]
    <3>1. B \ C \in SUBSET Slots /\ B \ C # {}
      BY <1>2, <2>1
    <3>2. rank \in [Slots -> Int]
      OBVIOUS
    <3> HIDE DEF B
    <3> QED BY <3>1, <3>2, <2>3, LeastRank
  <2>5. hashhead[b] # m
    BY <1>2, <2>4 DEF Slots
  <2>6. PICK t \in Slots : next[t] = m
    BY <2>4, <2>5 DEF Partitioned
  <2>7. t \in B
    BY <2>4, <2>6 DEF Partitioned, Slots
  <2>8. t \notin C
    BY <1>2, <2>4, <2>6 DEF Slots
  <2>9. rank[t] < rank[m]
    BY <2>2, <2>4, <2>6 DEF Slots
  <2>10. QED BY <2>4, <2>7, <2>8, <2>9
<1>3. QED BY <1>1, <1>2 DEF ChainOf

-----------------------------------------------------------------------------
LEMMA ActiveFinite == IsFiniteSet(Active)
<1>1. IsFiniteSet(1..N)
  BY FS_Interval, TableAssumption
<1>2. Active \in SUBSET (1..N)
  BY DEF Active, Slots
<1>3. QED BY <1>1, <1>2, FS_Subset

LEMMA BucketType ==
  ASSUME TypeOK, NEW s \in Slots
  PROVE  Bucket(s) \in Buckets
<1>1. \A v \in Uids : HashOf[v] \in 0..H
  BY TableAssumption
<1>2. uinfo[s].active => uinfo[s].uid \in Uids
  BY DEF TypeOK
<1>3. 0 \in 0..H
  BY TableAssumption
<1>4. CASE uinfo[s].active
  BY <1>1, <1>2, <1>4 DEF Bucket, Buckets
<1>5. CASE ~uinfo[s].active
  BY <1>3, <1>5 DEF Bucket, Buckets
<1>6. QED BY <1>4, <1>5

LEMMA InitSound == Init => Sound
<1> USE TableAssumption
<1> SUFFICES ASSUME Init PROVE Sound
  OBVIOUS
<1>1. TypeOK
  <2>1. stray \in BOOLEAN
    BY Zenon DEF Init
  <2>2. QED BY <2>1 DEF Init, TypeOK, Slots, Buckets, Pids
<1>2. Active = {}
  BY DEF Init, Active
<1>3. Partitioned
  <2>1. \A s \in Slots : Bucket(s) = 0
    BY DEF Init, Bucket
  <2>2. ASSUME NEW s \in Slots PROVE hashhead[0] = s \/ \E t \in Slots : next[t] = s
    <3>1. CASE s = 1
      BY <3>1 DEF Init, Buckets
    <3>2. CASE s # 1
      <4>1. s - 1 \in Slots /\ next[s - 1] = s
        BY <3>2 DEF Init, Slots
      <4> QED BY <4>1
    <3> QED BY <3>1, <3>2
  <2>3. \A b \in Buckets : hashhead[b] = IF b = 0 THEN 1 ELSE 0
    BY DEF Init
  <2>4. \A t \in Slots : next[t] = IF t < N THEN t + 1 ELSE 0
    BY DEF Init
  <2>5. 1 \in Slots
    BY DEF Slots
  <2>6. \A t \in Slots : next[t] # 0 => next[t] \in Slots /\ next[t] # 1
    BY <2>4 DEF Slots
  <2>7. \A t1, t2 \in Slots : next[t1] # 0 /\ next[t1] = next[t2] => t1 = t2
    BY <2>4 DEF Slots
  <2>8. QED BY <2>1, <2>2, <2>3, <2>5, <2>6, <2>7 DEF Partitioned
<1>4. ChainsAcyclic
  <2>1. [s \in Slots |-> s] \in [Slots -> Nat]
    BY DEF Slots
  <2>2. \A t \in Slots : next[t] # 0 => [s \in Slots |-> s][t] < [s \in Slots |-> s][next[t]]
    BY DEF Init, Slots
  <2>3. QED BY <2>1, <2>2 DEF ChainsAcyclic
<1>5. Linked /\ Sorted
  BY <1>2 DEF Linked, Sorted, Init
<1>6. RingConnected
  <2>1. [s \in Slots |-> s] \in [Slots -> Nat]
    BY DEF Slots
  <2>2. QED BY <1>2, <2>1 DEF RingConnected
<1>7. NumberExact
  BY <1>2, FS_EmptySet DEF NumberExact, Init
<1> QED BY <1>1, <1>3, <1>4, <1>5, <1>6, <1>7 DEF Sound

(***************************************************************************)
(* getnewutmpent2 with a free slot.                                        *)
(***************************************************************************)
LEMMA NewSound ==
  ASSUME Sound, NEW u \in Uids, NEW p \in Pids, New(u, p)
  PROVE  Sound'
<1> USE TableAssumption DEF Sound
<1> DEFINE pos == hashhead[0]
           b   == HashOf[u]
<1>1. /\ pos \in Slots
      /\ b \in Buckets /\ b # 0
      /\ ~uinfo[pos].active
  <2>1. pos \in Slots /\ b \in Buckets /\ b # 0
    BY DEF New, TypeOK, Slots, Buckets
  <2>2. Bucket(pos) = 0
    BY <2>1 DEF Partitioned, Buckets, New
  <2>3. \A v \in Uids : HashOf[v] # 0
    OBVIOUS
  <2>4. QED BY <2>1, <2>2, <2>3 DEF Bucket, TypeOK
<1>2. /\ hashhead' = [hashhead EXCEPT ![0] = next[pos], ![b] = pos]
      /\ next'     = [next EXCEPT ![pos] = hashhead[b]]
      /\ uinfo'    = [uinfo EXCEPT ![pos] = [active |-> TRUE, uid |-> u, pid |-> p]]
      /\ RingInsert(pos, u)
      /\ number' = number + 1
      /\ ret' = pos
      /\ sweep' \in {0, 1}
      /\ stray' = stray
  BY DEF New
<1>3. Active' = Active \cup {pos} /\ pos \notin Active
  BY <1>1, <1>2 DEF Active, TypeOK
<1>4. \A s \in Slots : Bucket(s)' = IF s = pos THEN b ELSE Bucket(s)
  BY <1>1, <1>2 DEF Bucket, TypeOK
<1> HIDE DEF Sound
<1>5. TypeOK'
  <2> USE DEF Sound
  <2>1. hashhead' \in [Buckets -> 0..N] /\ next' \in [Slots -> 0..N]
    <3>1. hashhead \in [Buckets -> 0..N] /\ next \in [Slots -> 0..N]
      BY DEF TypeOK
    <3>2. next[pos] \in 0..N /\ hashhead[b] \in 0..N /\ pos \in 0..N
      BY <3>1, <1>1 DEF Slots
    <3>3. QED BY <3>1, <3>2, <1>2
  <2>2. /\ uinfo' \in [Slots -> [active : BOOLEAN, uid : Uids \cup Residue, pid : Pids]]
        /\ \A s \in Slots : uinfo'[s].active => uinfo'[s].uid \in Uids
    BY <1>1, <1>2 DEF TypeOK
  <2>3. /\ listhead' \in 0..N
        /\ list_prev' \in [Slots -> 0..N]
        /\ list_next' \in [Slots -> 0..N]
    <3>1. /\ listhead \in 0..N
          /\ list_prev \in [Slots -> 0..N]
          /\ list_next \in [Slots -> 0..N]
      BY DEF TypeOK
    <3>2. pos \in 0..N /\ \A i \in Active : i \in 0..N /\ i \in Slots
      BY <1>1 DEF Slots, Active
    <3>3. CASE listhead = 0
      BY <3>1, <3>2, <3>3, <1>2 DEF RingInsert
    <3>4. CASE listhead # 0
      <4>1. PICK i \in Active :
              /\ list_prev' = [list_prev EXCEPT ![pos] = list_prev[i], ![i] = pos]
              /\ list_next' = [list_next EXCEPT ![pos] = i, ![list_prev[i]] = pos]
              /\ listhead'  = IF uinfo[listhead].uid >= u THEN pos ELSE listhead
        BY <3>4, <1>2 DEF RingInsert
      <4>2. QED BY <4>1, <3>1, <3>2
    <3>5. QED BY <3>3, <3>4
  <2>4. number' \in Int /\ sweep' \in 0..N /\ ret' \in {NoSlot} \cup 0..N
    BY <1>1, <1>2 DEF TypeOK, Slots
  <2>5. stray' \in BOOLEAN
    BY <1>2 DEF TypeOK
  <2>6. QED BY <2>1, <2>2, <2>3, <2>4, <2>5 DEF TypeOK
<1>links. /\ hashhead' \in [Buckets -> 0..N] /\ next' \in [Slots -> 0..N]
          /\ hashhead \in [Buckets -> 0..N] /\ next \in [Slots -> 0..N]
  BY <1>5 DEF TypeOK, Sound
<1>6. Partitioned'
  <2> USE DEF Sound
  <2>1. \A c \in Buckets : hashhead'[c] # 0 => Bucket(hashhead[c])' = c
    <3> SUFFICES ASSUME NEW c \in Buckets, hashhead'[c] # 0
                 PROVE  Bucket(hashhead[c])' = c
      OBVIOUS
    <3>1. hashhead'[c] \in Slots
      BY <1>links DEF Slots
    <3>2. CASE c = b
      BY <3>1, <3>2, <1>1, <1>2, <1>4 DEF TypeOK
    <3>3. CASE c = 0
      <4>1. hashhead'[c] = next[pos]
        BY <3>3, <1>1, <1>2 DEF TypeOK
      <4>2. next[pos] # pos
        BY <1>1, <4>1, <3>1 DEF Partitioned, Buckets
      <4>3. Bucket(pos) = 0
        BY <1>1 DEF Bucket
      <4>4. Bucket(next[pos]) = 0
        BY <1>1, <4>1, <3>1, <4>3 DEF Partitioned, Slots
      <4>5. QED BY <3>3, <4>1, <4>2, <4>4, <1>4, <3>1
    <3>4. CASE c # b /\ c # 0
      <4>1. hashhead'[c] = hashhead[c]
        BY <3>4, <1>2, <1>1 DEF TypeOK
      <4>2. Bucket(hashhead[c]) = c
        BY <4>1, <3>1 DEF Partitioned, Slots
      <4>3. hashhead[c] # pos
        BY <4>2, <3>4, <1>1 DEF Bucket
      <4>4. QED BY <4>1, <4>2, <4>3, <3>1, <1>4
    <3>5. QED BY <3>2, <3>3, <3>4
  <2>2. \A t \in Slots : next'[t] # 0 => Bucket(next[t])' = Bucket(t)'
    <3> SUFFICES ASSUME NEW t \in Slots, next'[t] # 0
                 PROVE  Bucket(next[t])' = Bucket(t)'
      OBVIOUS
    <3>1. next'[t] \in Slots
      BY <1>links DEF Slots
    <3>2. CASE t = pos
      <4>1. next'[t] = hashhead[b]
        BY <3>2, <1>2, <1>1 DEF TypeOK
      <4>2. Bucket(hashhead[b]) = b
        BY <4>1, <3>1, <1>1 DEF Partitioned, Slots
      <4>3. QED BY <3>1, <3>2, <4>1, <4>2, <1>1, <1>4
    <3>3. CASE t # pos
      <4>1. next'[t] = next[t]
        BY <3>3, <1>2, <1>1 DEF TypeOK
      <4>2. next[t] # pos
        BY <4>1, <3>1 DEF Partitioned, Slots, Buckets
      <4>3. Bucket(next[t]) = Bucket(t)
        BY <4>1, <3>1 DEF Partitioned, Slots
      <4>4. QED BY <3>1, <3>3, <4>1, <4>2, <4>3, <1>4
    <3>4. QED BY <3>2, <3>3
  <2>3. \A c \in Buckets, t \in Slots : next'[t] # 0 => next'[t] # hashhead'[c]
    <3> SUFFICES ASSUME NEW c \in Buckets, NEW t \in Slots,
                        next'[t] # 0, next'[t] = hashhead'[c]
                 PROVE  FALSE
      OBVIOUS
    <3>1. next'[t] = IF t = pos THEN hashhead[b] ELSE next[t]
      BY <1>2, <1>1 DEF TypeOK
    <3>2. hashhead'[c] = IF c = b THEN pos ELSE IF c = 0 THEN next[pos] ELSE hashhead[c]
      BY <1>2, <1>1 DEF TypeOK, Buckets
    <3>3. t = pos => c = b
      BY <2>1, <2>2, <1>4, <1>1
    <3>4. CASE t = pos
      <4>1. hashhead[b] = pos
        BY <3>1, <3>2, <3>3, <3>4
      <4>2. Bucket(pos) = b
        BY <4>1, <1>1 DEF Partitioned, Slots
      <4>3. QED BY <4>2, <1>1 DEF Bucket
    <3>5. CASE t # pos
      <4>1. next[t] # 0 /\ next[t] = hashhead'[c]
        BY <3>1, <3>5
      <4>2. \A d \in Buckets : next[t] # hashhead[d]
        BY <4>1 DEF Partitioned
      <4>3. 0 \in Buckets
        BY DEF Buckets
      <4>4. next[t] # pos
        BY <4>2, <4>3
      <4>5. c # b /\ c = 0
        BY <3>2, <4>1, <4>2, <4>4
      <4>6. next[t] = next[pos] /\ next[pos] # 0
        BY <3>2, <4>1, <4>5
      <4>7. QED BY <4>6, <3>5, <1>1 DEF Partitioned
    <3>6. QED BY <3>4, <3>5
  <2>4. \A t1, t2 \in Slots : next'[t1] # 0 /\ next'[t1] = next'[t2] => t1 = t2
    <3>1. \A t \in Slots : next'[t] = IF t = pos THEN hashhead[b] ELSE next[t]
      BY <1>2, <1>1 DEF TypeOK
    <3>2. QED BY <3>1, <1>1 DEF Partitioned
  <2>5. \A s \in Slots : hashhead[Bucket(s)]' = s \/ \E t \in Slots : next'[t] = s
    <3> SUFFICES ASSUME NEW s \in Slots
                 PROVE  hashhead[Bucket(s)]' = s \/ \E t \in Slots : next'[t] = s
      OBVIOUS
    <3>1. CASE s = pos
      BY <3>1, <1>1, <1>2, <1>4 DEF TypeOK
    <3>2. CASE s # pos
      <4>1. Bucket(s)' = Bucket(s) /\ Bucket(s) \in Buckets
        BY <3>2, <1>4, BucketType
      <4>2. CASE hashhead[Bucket(s)] = s
        <5>1. CASE Bucket(s) = b
          BY <5>1, <4>2, <1>1, <1>2 DEF TypeOK
        <5>2. CASE Bucket(s) # b
          <6>1. Bucket(s) # 0
            BY <4>2, <3>2
          <6>2. hashhead'[Bucket(s)] = hashhead[Bucket(s)]
            BY <5>2, <6>1, <4>1, <1>2 DEF TypeOK
          <6>3. QED BY <6>2, <4>1, <4>2
        <5>3. QED BY <5>1, <5>2
      <4>3. CASE hashhead[Bucket(s)] # s
        <5>1. PICK t \in Slots : next[t] = s
          BY <4>3 DEF Partitioned
        <5>2. CASE t = pos
          <6>1. Bucket(s) = 0
            BY <5>1, <5>2, <1>1 DEF Partitioned, Slots, Bucket
          <6>2. hashhead'[0] = s
            BY <5>1, <5>2, <1>1, <1>2 DEF TypeOK, Buckets
          <6>3. QED BY <6>1, <6>2, <4>1
        <5>3. CASE t # pos
          BY <5>1, <5>3, <1>2, <1>1 DEF TypeOK
        <5>4. QED BY <5>2, <5>3
      <4>4. QED BY <4>2, <4>3
    <3>3. QED BY <3>1, <3>2
  <2>6. QED BY <2>1, <2>2, <2>3, <2>4, <2>5 DEF Partitioned
<1>7. ChainsAcyclic'
  <2> USE DEF Sound
  <2>1. PICK rank \in [Slots -> Nat] :
             \A t \in Slots : next[t] # 0 => rank[t] < rank[next[t]]
    BY DEF ChainsAcyclic
  <2> DEFINE rank2 == [t \in Slots |-> IF t = pos THEN 0 ELSE rank[t] + 1]
  <2>2. rank2 \in [Slots -> Nat]
    OBVIOUS
  <2>3. ASSUME NEW t \in Slots, next'[t] # 0 PROVE rank2[t] < rank2[next'[t]]
    <3>1. next'[t] \in Slots
      BY <2>3, <1>links DEF Slots
    <3>2. next'[t] # pos
      BY <1>6, <1>2, <1>1, <2>3 DEF Partitioned, TypeOK
    <3>3. CASE t = pos
      BY <3>1, <3>2, <3>3
    <3>4. CASE t # pos
      <4>1. next'[t] = next[t]
        BY <3>4, <1>2, <1>1 DEF TypeOK
      <4>2. rank[t] < rank[next[t]] /\ rank[t] \in Nat /\ rank[next[t]] \in Nat
        BY <4>1, <2>1, <2>3, <3>1
      <4>3. QED BY <4>1, <4>2, <3>1, <3>2, <3>4
    <3>5. QED BY <3>3, <3>4
  <2>4. QED BY <2>2, <2>3 DEF ChainsAcyclic
<1>8. Linked' /\ RingConnected' /\ Sorted'
  <2> USE DEF Sound
  <2>1. CASE listhead = 0
    <3>1. Active = {} /\ Active' = {pos}
      BY <2>1, <1>3 DEF Linked
    <3>2. listhead' = pos /\ list_prev'[pos] = pos /\ list_next'[pos] = pos
      BY <2>1, <1>1, <1>2 DEF RingInsert, TypeOK
    <3>3. Linked' /\ Sorted'
      BY <3>1, <3>2, <1>1 DEF Linked, Sorted, Slots
    <3>4. RingConnected'
      <4>1. [s \in Slots |-> 0] \in [Slots -> Nat]
        OBVIOUS
      <4>2. \A s \in Active' : list_next'[s] = listhead'
        BY <3>1, <3>2
      <4>3. QED BY <4>1, <4>2 DEF RingConnected
    <3>5. QED BY <3>3, <3>4
  <2>2. CASE listhead # 0
    <3> DEFINE front == uinfo[listhead].uid >= u
    <3>1. PICK i \in Active :
            /\ InsertPoint(u, i)
            /\ list_prev' = [list_prev EXCEPT ![pos] = list_prev[i], ![i] = pos]
            /\ list_next' = [list_next EXCEPT ![pos] = i, ![list_prev[i]] = pos]
            /\ listhead'  = IF front THEN pos ELSE listhead
      BY <2>2, <1>2 DEF RingInsert
    <3> DEFINE q == list_prev[i]
    <3>2. /\ i \in Slots /\ q \in Active /\ q \in Slots /\ list_next[q] = i
          /\ listhead \in Active /\ i # pos /\ q # pos
      BY <2>2, <1>3 DEF Linked, Active
    <3>3. \A s \in Active' : list_next'[s] =
             IF s = pos THEN i ELSE IF s = q THEN pos ELSE list_next[s]
      BY <3>1, <3>2, <1>3, <1>1 DEF TypeOK, Active
    <3>4. \A s \in Active' : list_prev'[s] =
             IF s = i THEN pos ELSE IF s = pos THEN q ELSE list_prev[s]
      BY <3>1, <3>2, <1>3, <1>1 DEF TypeOK, Active
    <3>5. Linked'
      <4>1. listhead' # 0 /\ listhead' \in Active'
        <5>1. pos # 0
          BY <1>1 DEF Slots
        <5>2. QED BY <2>2, <3>1, <3>2, <1>3, <5>1
      <4>2. ASSUME NEW s \in Active'
            PROVE  /\ list_next'[s] \in Active'
                   /\ list_prev'[s] \in Active'
                   /\ list_prev'[list_next'[s]] = s
                   /\ list_next'[list_prev'[s]] = s
        <5>1. s \in Active \/ s = pos
          BY <1>3
        <5>2. /\ s \in Active => list_next[s] \in Active /\ list_prev[s] \in Active
              /\ s \in Active => list_prev[list_next[s]] = s /\ list_next[list_prev[s]] = s
          BY DEF Linked
        <5>3. QED BY <5>1, <5>2, <3>2, <3>3, <3>4, <1>3
      <4>3. QED BY <4>1, <4>2 DEF Linked
    <3>6. \A s \in Active' : uinfo'[s].uid = IF s = pos THEN u ELSE uinfo[s].uid
      BY <1>1, <1>2, <1>3 DEF TypeOK, Active
    <3>7. \A s \in Active : uinfo[s].uid \in Nat
      BY DEF TypeOK, Active
    <3>8. front => i = listhead
      BY <3>1 DEF InsertPoint
    <3>9. ~front => /\ uinfo[q].uid < u
                    /\ i = listhead \/ uinfo[i].uid >= u
      BY <3>1 DEF InsertPoint
    <3>10. Sorted'
      <4> SUFFICES ASSUME NEW s \in Active', list_next'[s] # listhead'
                   PROVE  uinfo'[s].uid <= uinfo'[list_next'[s]].uid
        BY DEF Sorted
      <4>1. s \in Active \/ s = pos
        BY <1>3
      <4>2. s \in Active => list_next[s] \in Active
        BY DEF Linked
      <4>3. u \in Nat
        OBVIOUS
      <4>4. s \in Active /\ list_next[s] # listhead => uinfo[s].uid <= uinfo[list_next[s]].uid
        BY DEF Sorted
      <4>5. CASE front
        <5>1. listhead' = pos /\ i = listhead
          BY <4>5, <3>1, <3>8
        <5>2. CASE s = pos
          BY <5>1, <5>2, <4>5, <3>2, <3>3, <3>6, <1>3
        <5>3. CASE s # pos
          <6>1. s # q
            BY <5>1, <3>3, <3>2
          <6>2. s \in Active /\ list_next'[s] = list_next[s] /\ list_next[s] \in Active
            BY <6>1, <5>3, <4>1, <4>2, <3>3
          <6>3. list_next[s] # listhead
            BY <6>1, <6>2, <5>1, <3>2 DEF Linked
          <6>4. list_next[s] # pos /\ list_next[s] \in Active'
            BY <6>2, <1>3
          <6>5. QED BY <6>2, <6>3, <6>4, <4>4, <5>3, <3>6
        <5>4. QED BY <5>2, <5>3
      <4>6. CASE ~front
        <5>1. listhead' = listhead
          BY <4>6, <3>1
        <5>2. CASE s = pos
          <6>1. list_next'[s] = i /\ uinfo[i].uid >= u
            BY <5>1, <5>2, <3>3, <3>9, <4>6
          <6>2. uinfo'[s].uid = u /\ uinfo'[i].uid = uinfo[i].uid
            BY <5>2, <3>2, <3>6, <1>3
          <6>3. uinfo[i].uid \in Nat
            BY <3>7
          <6>4. QED BY <6>1, <6>2, <6>3, <4>3
        <5>3. CASE s = q
          <6>1. list_next'[s] = pos
            BY <5>3, <3>2, <3>3
          <6>2. uinfo'[s].uid = uinfo[q].uid /\ uinfo'[pos].uid = u
            BY <5>3, <3>2, <3>6, <1>3
          <6>3. uinfo[q].uid < u /\ uinfo[q].uid \in Nat
            BY <3>2, <3>7, <3>9, <4>6
          <6>4. QED BY <6>1, <6>2, <6>3, <4>3
        <5>4. CASE s # pos /\ s # q
          <6>1. s \in Active /\ list_next'[s] = list_next[s] /\ list_next[s] \in Active
            BY <5>4, <4>1, <4>2, <3>3
          <6>2. list_next[s] # pos /\ list_next[s] \in Active'
            BY <6>1, <1>3
          <6>3. QED BY <6>1, <6>2, <5>1, <5>4, <4>4, <3>6
        <5>5. QED BY <5>2, <5>3, <5>4
      <4>7. QED BY <4>5, <4>6
    <3>11. RingConnected'
      <4>1. PICK rank \in [Slots -> Nat] : \A s \in Active :
               list_next[s] # listhead => rank[s] < rank[list_next[s]]
        BY DEF RingConnected
      <4>2. \A s \in Active : s \in Slots /\ list_next[s] \in Active
        BY DEF Linked, Active
      <4>3. CASE front
        <5> DEFINE rank2 == [t \in Slots |-> IF t = pos THEN 0 ELSE rank[t] + 1]
        <5>1. rank2 \in [Slots -> Nat]
          OBVIOUS
        <5>2. ASSUME NEW s \in Active', list_next'[s] # listhead'
              PROVE  rank2[s] < rank2[list_next'[s]]
          <6>1. listhead' = pos /\ i = listhead
            BY <4>3, <3>1, <3>8
          <6>2. CASE s = pos
            BY <6>2, <3>2, <3>3, <1>1, <1>3
          <6>3. CASE s # pos
            <7>1. s # q
              BY <5>2, <6>1, <3>3, <3>2
            <7>2. s \in Active /\ list_next'[s] = list_next[s]
              BY <7>1, <6>3, <3>3, <1>3
            <7>3. list_next[s] # listhead
              BY <7>1, <7>2, <6>1, <3>2 DEF Linked
            <7>4. rank[s] < rank[list_next[s]] /\ list_next[s] # pos
              BY <7>2, <7>3, <4>1, <4>2, <1>3
            <7>5. s \in Slots /\ list_next[s] \in Slots
              BY <7>2, <4>2
            <7>6. QED BY <7>2, <7>4, <7>5, <6>3
          <6>4. QED BY <6>2, <6>3
        <5>3. QED BY <5>1, <5>2 DEF RingConnected
      <4>4. CASE ~front
        <5> DEFINE rank2 == [t \in Slots |-> IF t = pos THEN 2 * rank[q] + 1 ELSE 2 * rank[t]]
        <5>1. rank2 \in [Slots -> Nat]
          BY <3>2
        <5>2. ASSUME NEW s \in Active', list_next'[s] # listhead'
              PROVE  rank2[s] < rank2[list_next'[s]]
          <6>1. listhead' = listhead
            BY <4>4, <3>1
          <6>2. CASE s = pos
            <7>1. list_next'[s] = i
              BY <6>2, <3>3, <1>3
            <7>2. rank[q] < rank[i]
              BY <7>1, <5>2, <6>1, <3>2, <4>1
            <7>3. QED BY <6>2, <7>1, <7>2, <3>2, <1>1
          <6>3. CASE s = q
            <7>1. list_next'[s] = pos
              BY <6>3, <3>3, <3>2
            <7>2. QED BY <6>3, <7>1, <3>2, <1>1
          <6>4. CASE s # pos /\ s # q
            <7>1. s \in Active /\ list_next'[s] = list_next[s]
              BY <6>4, <3>3, <1>3
            <7>2. rank[s] < rank[list_next[s]] /\ list_next[s] # pos
              BY <7>1, <5>2, <6>1, <4>1, <4>2, <1>3
            <7>3. s \in Slots /\ list_next[s] \in Slots
              BY <7>1, <4>2
            <7>4. QED BY <6>4, <7>1, <7>2, <7>3
          <6>5. QED BY <6>2, <6>3, <6>4
        <5>3. QED BY <5>1, <5>2 DEF RingConnected
      <4>5. QED BY <4>3, <4>4
    <3>12. QED BY <3>5, <3>10, <3>11
  <2>3. QED BY <2>1, <2>2
<1>9. NumberExact'
  <2>1. IsFiniteSet(Active)
    BY ActiveFinite
  <2>2. Cardinality(Active \cup {pos}) = Cardinality(Active) + 1
    BY <2>1, <1>3, FS_AddElement
  <2>3. QED BY <2>2, <1>2, <1>3 DEF NumberExact, Sound
<1> QED BY <1>5, <1>6, <1>7, <1>8, <1>9 DEF Sound

(***************************************************************************)
(* A ring in which slot s is its own successor has no other slot: the      *)
(* other slot of least rank would have s as its predecessor.               *)
(***************************************************************************)
LEMMA RingOfOne ==
  ASSUME Linked, RingConnected, NEW s \in Active, list_next[s] = s
  PROVE  Active = {s} /\ listhead = s
<1>1. PICK rank \in [Slots -> Nat] : \A t \in Active :
         list_next[t] # listhead => rank[t] < rank[list_next[t]]
  BY DEF RingConnected
<1>2. \A t \in Active : t \in Slots
  BY DEF Active
<1>3. listhead = s
  <2>1. SUFFICES ASSUME listhead # s PROVE FALSE
    OBVIOUS
  <2>2. rank[s] < rank[s] /\ rank[s] \in Nat
    BY <1>1, <1>2, <2>1
  <2>3. QED BY <2>2
<1>4. ASSUME Active \ {s} # {} PROVE FALSE
  <2>1. PICK m \in Active \ {s} : \A t \in Active \ {s} : rank[m] <= rank[t]
    <3>1. rank \in [Slots -> Int] /\ Active \ {s} \in SUBSET Slots
      BY <1>2
    <3>2. IsFiniteSet(Slots)
      BY FS_Interval, TableAssumption DEF Slots
    <3>3. QED BY <1>4, <3>1, <3>2, LeastRank
  <2>2. /\ list_prev[m] \in Active /\ list_next[list_prev[m]] = m
        /\ list_prev[m] # s
    BY <2>1 DEF Linked
  <2>3. rank[list_prev[m]] < rank[m]
    BY <1>1, <1>3, <2>1, <2>2
  <2>4. rank[m] \in Nat /\ rank[list_prev[m]] \in Nat
    BY <1>2, <2>1, <2>2
  <2>5. QED BY <2>1, <2>2, <2>3, <2>4
<1>5. QED BY <1>3, <1>4

(***************************************************************************)
(* clear_utmp2 on a slot in use, for both of its callers.                  *)
(***************************************************************************)
LEMMA ClearSound ==
  ASSUME Sound, NEW s \in Active, ClearEntry(s),
         sweep' \in 0..N, ret' \in {NoSlot} \cup 0..N
  PROVE  Sound' /\ Active' = Active \ {s}
<1> USE TableAssumption
<1> DEFINE b == HashOf[uinfo[s].uid]
<1>ty. TypeOK BY DEF Sound
<1>cp. Partitioned BY DEF Sound
<1>ca. ChainsAcyclic BY DEF Sound
<1>rl. Linked BY DEF Sound
<1>rc. RingConnected BY DEF Sound
<1>rs. Sorted BY DEF Sound
<1>links. /\ hashhead \in [Buckets -> 0..N] /\ next \in [Slots -> 0..N]
          /\ listhead \in 0..N
          /\ list_prev \in [Slots -> 0..N] /\ list_next \in [Slots -> 0..N]
  BY <1>ty DEF TypeOK
<1>1. /\ s \in Slots /\ s # 0
      /\ uinfo[s].active /\ uinfo[s].uid \in Uids
      /\ b \in Buckets /\ b # 0 /\ 0 \in Buckets
      /\ Bucket(s) = b
  <2>1. s \in Slots /\ s # 0 /\ uinfo[s].active
    BY DEF Active, Slots
  <2>2. uinfo[s].uid \in Uids
    BY <2>1, <1>ty DEF TypeOK
  <2>3. b \in 1..H
    BY <2>2
  <2>4. QED BY <2>1, <2>2, <2>3 DEF Buckets, Bucket
<1>2. PICK r \in Residue :
        uinfo' = [uinfo EXCEPT ![s] = [active |-> FALSE, uid |-> r, pid |-> 0]]
  BY DEF ClearEntry
<1>3. Active' = Active \ {s}
  BY <1>1, <1>2, <1>ty DEF Active, TypeOK
<1>4. \A t \in Slots : Bucket(t)' = IF t = s THEN 0 ELSE Bucket(t)
  BY <1>1, <1>2, <1>ty DEF Bucket, TypeOK
<1>hr. HashRemove(s, b)
  BY <1>1 DEF ClearEntry, HashKeys
<1>op. PICK head, nxt :
        /\ head = [hashhead EXCEPT ![b] = IF @ = s THEN next[s] ELSE @]
        /\ nxt = [t \in Slots |-> IF hashhead[b] # s /\ t \in ChainOf(b) /\ next[t] = s
                                  THEN next[s] ELSE next[t]]
        /\ hashhead' = [head EXCEPT ![0] = s]
        /\ next'     = [nxt EXCEPT ![s] = head[0]]
  BY <1>hr DEF HashRemove
<1>hd. head \in [Buckets -> 0..N] /\ head[0] = hashhead[0]
  BY <1>op, <1>1, <1>links
<1>5. \A c \in Buckets : hashhead'[c] =
         IF c = 0 THEN s ELSE IF c = b /\ hashhead[b] = s THEN next[s] ELSE hashhead[c]
  <2>1. CASE hashhead[b] = s
    BY <2>1, <1>1, <1>links, <1>hr DEF HashRemove
  <2>2. CASE hashhead[b] # s
    BY <2>2, <1>1, <1>links, <1>hr DEF HashRemove
  <2>3. QED BY <2>1, <2>2
<1>6. \A t \in Slots : next'[t] =
         IF t = s THEN hashhead[0] ELSE IF next[t] = s THEN next[s] ELSE next[t]
  <2>1. CASE hashhead[b] = s
    <3>1. \A t \in Slots : next[t] # s
      BY <2>1, <1>1, <1>cp DEF Partitioned
    <3>2. \A t \in Slots : next'[t] = IF t = s THEN hashhead[0] ELSE next[t]
      BY <2>1, <1>op, <1>hd, <1>1
    <3>3. QED BY <3>1, <3>2, <1>1, <1>links
  <2>2. CASE hashhead[b] # s
    <3>1. ChainOf(b) = {t \in Slots : Bucket(t) = b}
      BY <1>ty, <1>cp, <1>ca, <1>1, ChainOfBucket
    <3>2. \A t \in Slots : next[t] = s => t \in ChainOf(b)
      BY <3>1, <1>1, <1>cp DEF Partitioned
    <3>3. \A t \in Slots : next'[t] =
             IF t = s THEN hashhead[0]
             ELSE IF t \in ChainOf(b) /\ next[t] = s THEN next[s]
             ELSE next[t]
      BY <2>2, <1>op, <1>hd, <1>1
    <3>4. QED BY <3>2, <3>3
  <2>3. QED BY <2>1, <2>2
<1>7. hashhead' \in [Buckets -> 0..N] /\ next' \in [Slots -> 0..N]
  <2>1. s \in 0..N
    BY <1>1 DEF Slots
  <2>2. hashhead' \in [Buckets -> 0..N]
    <3>1. CASE hashhead[b] = s
      BY <3>1, <2>1, <1>1, <1>links, <1>hr DEF HashRemove
    <3>2. CASE hashhead[b] # s
      BY <3>2, <2>1, <1>1, <1>links, <1>hr DEF HashRemove
    <3>3. QED BY <3>1, <3>2
  <2>3. next' \in [Slots -> 0..N]
    <3>1. CASE hashhead[b] = s
      BY <3>1, <1>1, <1>links, <1>hr DEF HashRemove
    <3>2. CASE hashhead[b] # s
      BY <3>2, <1>1, <1>links, <1>hr DEF HashRemove
    <3>3. QED BY <3>1, <3>2
  <2>4. QED BY <2>2, <2>3
<1>8. /\ listhead'  = IF listhead # s THEN listhead
                      ELSE IF list_next[s] = s THEN 0 ELSE list_next[s]
      /\ list_next' = [list_next EXCEPT ![list_prev[s]] = list_next[s]]
      /\ list_prev' = [list_prev EXCEPT ![list_next[s]] = list_prev[s]]
  BY DEF ClearEntry, RingRemove
<1> DEFINE p == list_prev[s]
           n == list_next[s]
<1>9. /\ p \in Active /\ n \in Active /\ p \in Slots /\ n \in Slots
      /\ list_next[p] = s /\ list_prev[n] = s
  BY <1>rl DEF Linked, Active
<1>10. TypeOK'
  <2>1. /\ uinfo' \in [Slots -> [active : BOOLEAN, uid : Uids \cup Residue, pid : Pids]]
        /\ \A t \in Slots : uinfo'[t].active => uinfo'[t].uid \in Uids
    <3>1. [active |-> FALSE, uid |-> r, pid |-> 0]
             \in [active : BOOLEAN, uid : Uids \cup Residue, pid : Pids]
      BY DEF Pids
    <3>2. QED BY <3>1, <1>1, <1>2, <1>ty DEF TypeOK
  <2>2. p \in 0..N /\ n \in 0..N
    BY <1>9 DEF Slots
  <2>3. /\ listhead' \in 0..N
        /\ list_prev' \in [Slots -> 0..N]
        /\ list_next' \in [Slots -> 0..N]
    BY <1>8, <1>9, <1>links, <2>2
  <2>4. number' \in Int
    <3>1. number' = number - 1
      BY <1>1 DEF ClearEntry
    <3>2. QED BY <3>1, <1>ty DEF TypeOK
  <2>5. stray' \in BOOLEAN
    BY Zenon DEF ClearEntry
  <2>6. QED BY <1>7, <2>1, <2>3, <2>4, <2>5 DEF TypeOK
<1>11. Partitioned'
  <2>1. /\ \A c \in Buckets : hashhead[c] # 0 => hashhead[c] \in Slots /\ Bucket(hashhead[c]) = c
        /\ \A t \in Slots : next[t] # 0 => next[t] \in Slots /\ Bucket(next[t]) = Bucket(t)
    BY <1>cp, <1>links DEF Partitioned, Slots
  <2>2. /\ \A c \in Buckets, t \in Slots : next[t] # 0 => next[t] # hashhead[c]
        /\ \A t1, t2 \in Slots : next[t1] # 0 /\ next[t1] = next[t2] => t1 = t2
    BY <1>cp DEF Partitioned
  <2>3. next[s] # s
    <3>1. PICK rank \in [Slots -> Nat] :
               \A t \in Slots : next[t] # 0 => rank[t] < rank[next[t]]
      BY <1>ca DEF ChainsAcyclic
    <3>2. rank[s] \in Nat
      BY <1>1
    <3>3. QED BY <3>1, <3>2, <1>1
  <2>4. hashhead[0] # s
    BY <2>1, <1>1
  <2>5. \A c \in Buckets : hashhead'[c] # 0 => Bucket(hashhead[c])' = c
    <3> SUFFICES ASSUME NEW c \in Buckets, hashhead'[c] # 0
                 PROVE  Bucket(hashhead[c])' = c
      OBVIOUS
    <3>1. CASE c = 0
      BY <3>1, <1>1, <1>4, <1>5
    <3>2. CASE c # 0 /\ c = b /\ hashhead[b] = s
      <4>1. hashhead'[c] = next[s]
        BY <3>2, <1>5
      <4>2. next[s] \in Slots /\ Bucket(next[s]) = b
        BY <4>1, <2>1, <1>1
      <4>3. QED BY <4>1, <4>2, <2>3, <3>2, <1>4
    <3>3. CASE c # 0 /\ ~(c = b /\ hashhead[b] = s)
      <4>1. hashhead'[c] = hashhead[c]
        BY <3>3, <1>5
      <4>2. hashhead[c] \in Slots /\ Bucket(hashhead[c]) = c
        BY <4>1, <2>1
      <4>3. hashhead[c] # s
        BY <4>2, <3>3, <1>1
      <4>4. QED BY <4>1, <4>2, <4>3, <1>4
    <3>4. QED BY <3>1, <3>2, <3>3
  <2>6. \A t \in Slots : next'[t] # 0 => Bucket(next[t])' = Bucket(t)'
    <3> SUFFICES ASSUME NEW t \in Slots, next'[t] # 0
                 PROVE  Bucket(next[t])' = Bucket(t)'
      OBVIOUS
    <3>1. CASE t = s
      <4>1. next'[t] = hashhead[0]
        BY <3>1, <1>6
      <4>2. hashhead[0] \in Slots /\ Bucket(hashhead[0]) = 0
        BY <4>1, <2>1, <1>1
      <4>3. QED BY <4>1, <4>2, <2>4, <3>1, <1>1, <1>4
    <3>2. CASE t # s /\ next[t] = s
      <4>1. next'[t] = next[s]
        BY <3>2, <1>6
      <4>2. Bucket(t) = b
        BY <3>2, <2>1, <1>1
      <4>3. next[s] \in Slots /\ Bucket(next[s]) = b
        BY <4>1, <2>1, <1>1
      <4>4. QED BY <4>1, <4>2, <4>3, <2>3, <3>2, <1>4
    <3>3. CASE t # s /\ next[t] # s
      <4>1. next'[t] = next[t]
        BY <3>3, <1>6
      <4>2. next[t] \in Slots /\ Bucket(next[t]) = Bucket(t)
        BY <4>1, <2>1
      <4>3. QED BY <4>1, <4>2, <3>3, <1>4
    <3>4. QED BY <3>1, <3>2, <3>3
  <2>7. \A c \in Buckets, t \in Slots : next'[t] # 0 => next'[t] # hashhead'[c]
    <3> SUFFICES ASSUME NEW c \in Buckets, NEW t \in Slots,
                        next'[t] # 0, next'[t] = hashhead'[c]
                 PROVE  FALSE
      OBVIOUS
    <3>1. next'[t] = IF t = s THEN hashhead[0] ELSE IF next[t] = s THEN next[s] ELSE next[t]
      BY <1>6
    <3>2. hashhead'[c] = IF c = 0 THEN s
                         ELSE IF c = b /\ hashhead[b] = s THEN next[s] ELSE hashhead[c]
      BY <1>5
    <3>3. CASE c = 0
      BY <3>1, <3>2, <3>3, <2>3, <2>4
    <3>4. CASE c # 0 /\ c = b /\ hashhead[b] = s
      <4>1. hashhead'[c] = next[s] /\ next[s] # 0
        BY <3>2, <3>4
      <4>2. \A x \in Slots : next[x] # s
        BY <3>4, <2>2, <1>1
      <4>3. CASE t = s
        BY <4>1, <4>3, <3>1, <2>2, <1>1
      <4>4. CASE t # s
        BY <4>1, <4>2, <4>4, <3>1, <2>2, <1>1
      <4>5. QED BY <4>3, <4>4
    <3>5. CASE c # 0 /\ ~(c = b /\ hashhead[b] = s)
      <4>1. hashhead'[c] = hashhead[c]
        BY <3>2, <3>5
      <4>2. CASE t = s
        BY <4>1, <4>2, <3>1, <3>5, <2>1, <1>1
      <4>3. CASE t # s /\ next[t] = s
        BY <4>1, <4>3, <3>1, <2>2, <1>1
      <4>4. CASE t # s /\ next[t] # s
        BY <4>1, <4>4, <3>1, <2>2
      <4>5. QED BY <4>2, <4>3, <4>4
    <3>6. QED BY <3>3, <3>4, <3>5
  <2>8. \A t1, t2 \in Slots : next'[t1] # 0 /\ next'[t1] = next'[t2] => t1 = t2
    <3>1. \A t \in Slots : next'[t] = hashhead[0] /\ next'[t] # 0 => t = s
      BY <1>6, <2>2, <1>1
    <3>2. \A t1, t2 \in Slots : t1 # s /\ t2 # s /\ next'[t1] # 0 /\ next'[t1] = next'[t2]
                                => t1 = t2
      BY <1>6, <2>2, <1>1
    <3>3. next'[s] = hashhead[0]
      BY <1>6, <1>1
    <3>4. QED BY <3>1, <3>2, <3>3
  <2>9. \A t \in Slots : hashhead'[Bucket(t)'] = t \/ \E x \in Slots : next'[x] = t
    <3> SUFFICES ASSUME NEW t \in Slots
                 PROVE  hashhead'[Bucket(t)'] = t \/ \E x \in Slots : next'[x] = t
      OBVIOUS
    <3>1. CASE t = s
      BY <3>1, <1>1, <1>4, <1>5
    <3>2. CASE t # s /\ hashhead[Bucket(t)] = t
      <4>1. Bucket(t)' = Bucket(t) /\ Bucket(t) \in Buckets
        BY <3>2, <1>4, BucketType, <1>ty
      <4>2. CASE Bucket(t) = 0
        BY <4>2, <3>2, <1>1, <1>6
      <4>3. CASE Bucket(t) # 0
        BY <4>1, <4>3, <3>2, <1>5
      <4>4. QED BY <4>2, <4>3
    <3>3. CASE t # s /\ hashhead[Bucket(t)] # t
      <4>1. PICK x \in Slots : next[x] = t
        BY <3>3, <1>cp DEF Partitioned
      <4>2. Bucket(t)' = Bucket(t) /\ Bucket(t) = Bucket(x)
        BY <4>1, <3>3, <1>4, <2>1 DEF Slots
      <4>3. CASE x # s
        BY <4>1, <4>3, <3>3, <1>6
      <4>4. CASE x = s /\ hashhead[b] = s
        BY <4>1, <4>2, <4>4, <1>1, <1>5
      <4>5. CASE x = s /\ hashhead[b] # s
        <5>1. PICK y \in Slots : next[y] = s
          BY <4>5, <1>1, <1>cp DEF Partitioned
        <5>2. y # s
          BY <5>1, <2>3
        <5>3. next'[y] = t
          BY <5>1, <5>2, <4>1, <4>5, <1>6
        <5>4. QED BY <5>3
      <4>6. QED BY <4>3, <4>4, <4>5
    <3>4. QED BY <3>1, <3>2, <3>3
  <2>10. QED BY <2>5, <2>6, <2>7, <2>8, <2>9 DEF Partitioned
<1>12. ChainsAcyclic'
  <2>1. PICK rank \in [Slots -> Nat] :
             \A t \in Slots : next[t] # 0 => rank[t] < rank[next[t]]
    BY <1>ca DEF ChainsAcyclic
  <2> DEFINE rank2 == [t \in Slots |-> IF t = s THEN 0 ELSE rank[t] + 1]
  <2>2. rank2 \in [Slots -> Nat]
    OBVIOUS
  <2>3. \A t \in Slots : next[t] # 0 => next[t] \in Slots
    BY <1>links DEF Slots
  <2>4. hashhead[0] # 0 => hashhead[0] \in Slots /\ hashhead[0] # s
    <3>1. hashhead[0] \in 0..N
      BY <1>1, <1>links
    <3>2. hashhead[0] # 0 => Bucket(hashhead[0]) = 0
      BY <1>1, <1>cp DEF Partitioned
    <3>3. QED BY <3>1, <3>2, <1>1 DEF Slots
  <2>5. ASSUME NEW t \in Slots, next'[t] # 0 PROVE rank2[t] < rank2[next'[t]]
    <3>1. CASE t = s
      <4>1. next'[t] = hashhead[0]
        BY <3>1, <1>6
      <4>2. rank[hashhead[0]] \in Nat
        BY <4>1, <2>4, <2>5
      <4>3. QED BY <4>1, <4>2, <2>4, <2>5, <3>1, <1>1
    <3>2. CASE t # s /\ next[t] = s
      <4>1. next'[t] = next[s] /\ next[s] \in Slots
        BY <3>2, <1>6, <2>5, <2>3, <1>1
      <4>2. rank[t] < rank[s] /\ rank[s] < rank[next[s]]
        BY <4>1, <2>1, <2>5, <3>2, <1>1
      <4>3. rank[t] \in Nat /\ rank[s] \in Nat /\ rank[next[s]] \in Nat /\ next[s] # s
        BY <4>1, <4>2, <1>1
      <4>4. QED BY <4>1, <4>2, <4>3, <3>2
    <3>3. CASE t # s /\ next[t] # s
      <4>1. next'[t] = next[t] /\ next[t] \in Slots
        BY <3>3, <1>6, <2>5, <2>3
      <4>2. rank[t] < rank[next[t]] /\ rank[t] \in Nat /\ rank[next[t]] \in Nat
        BY <4>1, <2>1, <2>5
      <4>3. QED BY <4>1, <4>2, <3>3
    <3>4. QED BY <3>1, <3>2, <3>3
  <2>6. QED BY <2>2, <2>5 DEF ChainsAcyclic
<1>13. n = s => Active = {s} /\ listhead = s
  BY <1>rl, <1>rc, RingOfOne
<1>14. n = s <=> p = s
  BY <1>9
<1>15. \A t \in Active' : list_next'[t] = IF t = p THEN n ELSE list_next[t]
  BY <1>3, <1>8, <1>9, <1>links DEF Active
<1>16. \A t \in Active' : list_prev'[t] = IF t = n THEN p ELSE list_prev[t]
  BY <1>3, <1>8, <1>9, <1>links DEF Active
<1>17. Linked'
  <2>1. listhead' = 0 <=> Active' = {}
    <3>1. listhead \in Active /\ listhead # 0
      BY <1>rl DEF Linked
    <3>2. Active' = {} => n = s /\ listhead = s
      BY <1>3, <1>9, <3>1
    <3>3. n # 0
      BY <1>9 DEF Slots
    <3>4. QED BY <3>1, <3>2, <3>3, <1>3, <1>8, <1>13
  <2>2. listhead' # 0 => listhead' \in Active'
    <3>1. listhead \in Active
      BY <1>rl DEF Linked
    <3>2. QED BY <3>1, <1>3, <1>8, <1>9
  <2>3. ASSUME NEW t \in Active'
        PROVE  /\ list_next'[t] \in Active'
               /\ list_prev'[t] \in Active'
               /\ list_prev'[list_next'[t]] = t
               /\ list_next'[list_prev'[t]] = t
    <3>1. /\ t \in Active /\ t # s
          /\ list_next[t] \in Active /\ list_prev[t] \in Active
          /\ list_prev[list_next[t]] = t /\ list_next[list_prev[t]] = t
      BY <2>3, <1>3, <1>rl DEF Linked
    <3>2. list_next[t] = s => t = p
      BY <3>1
    <3>3. list_prev[t] = s => t = n
      BY <3>1
    <3>4. list_next'[t] \in Active' /\ list_prev'[t] \in Active'
      BY <2>3, <3>1, <3>2, <3>3, <1>3, <1>9, <1>14, <1>15, <1>16
    <3>5. list_prev'[list_next'[t]] = t
      BY <2>3, <3>1, <3>4, <1>9, <1>14, <1>15, <1>16
    <3>6. list_next'[list_prev'[t]] = t
      BY <2>3, <3>1, <3>4, <1>9, <1>14, <1>15, <1>16
    <3>7. QED BY <3>4, <3>5, <3>6
  <2>4. QED BY <2>1, <2>2, <2>3 DEF Linked
<1>18. ASSUME NEW t \in Active', list_next'[t] # listhead'
       PROVE  \/ /\ t # p
                 /\ list_next'[t] = list_next[t]
                 /\ list_next[t] # listhead
              \/ /\ t = p
                 /\ list_next'[t] = n
                 /\ list_next[p] # listhead
                 /\ n # listhead
  <2>1. t \in Active /\ t # s
    BY <1>3, <1>18
  <2>2. CASE t = p
    <3>1. n # s
      BY <2>1, <2>2, <1>14
    <3>2. listhead # s /\ listhead # n
      BY <2>2, <3>1, <1>8, <1>15, <1>18
    <3>3. QED BY <2>2, <3>2, <1>9, <1>15, <1>18
  <2>3. CASE t # p
    <3>1. list_next'[t] = list_next[t]
      BY <2>3, <1>15, <1>18
    <3>2. list_next[t] # s
      BY <2>1, <2>3, <1>rl DEF Linked
    <3>3. QED BY <2>3, <3>1, <3>2, <1>8, <1>18
  <2>4. QED BY <2>2, <2>3
<1>19. Sorted'
  <2> SUFFICES ASSUME NEW t \in Active', list_next'[t] # listhead'
               PROVE  uinfo'[t].uid <= uinfo'[list_next'[t]].uid
    BY DEF Sorted
  <2>1. \A x \in Active : uinfo[x].uid \in Nat
    BY <1>ty DEF TypeOK, Active
  <2>2. \A x \in Active' : uinfo'[x].uid = uinfo[x].uid
    BY <1>2, <1>3, <1>ty DEF TypeOK, Active
  <2>3. list_next'[t] \in Active' /\ list_next'[t] \in Active /\ t \in Active
    BY <1>17, <1>3 DEF Linked
  <2>4. CASE /\ t # p
             /\ list_next'[t] = list_next[t]
             /\ list_next[t] # listhead
    BY <2>2, <2>3, <2>4, <1>rs DEF Sorted
  <2>5. CASE /\ t = p
             /\ list_next'[t] = n
             /\ list_next[p] # listhead
             /\ n # listhead
    <3>1. uinfo[p].uid <= uinfo[s].uid /\ uinfo[s].uid <= uinfo[n].uid
      BY <2>5, <1>9, <1>rs DEF Sorted
    <3>2. uinfo[p].uid <= uinfo[n].uid
      BY <3>1, <2>1, <1>9
    <3>3. QED BY <3>2, <2>2, <2>3, <2>5
  <2>6. QED BY <2>4, <2>5, <1>18
<1>20. RingConnected'
  <2>1. PICK rank \in [Slots -> Nat] : \A t \in Active :
           list_next[t] # listhead => rank[t] < rank[list_next[t]]
    BY <1>rc DEF RingConnected
  <2>2. ASSUME NEW t \in Active', list_next'[t] # listhead'
        PROVE  rank[t] < rank[list_next'[t]]
    <3>1. t \in Active
      BY <2>2, <1>3
    <3>2. CASE /\ t # p
               /\ list_next'[t] = list_next[t]
               /\ list_next[t] # listhead
      BY <3>1, <3>2, <2>1
    <3>3. CASE /\ t = p
               /\ list_next'[t] = n
               /\ list_next[p] # listhead
               /\ n # listhead
      <4>1. rank[p] < rank[s] /\ rank[s] < rank[n]
        BY <3>3, <2>1, <1>9
      <4>2. rank[p] \in Nat /\ rank[s] \in Nat /\ rank[n] \in Nat
        BY <1>1, <1>9
      <4>3. QED BY <4>1, <4>2, <3>3
    <3>4. QED BY <2>2, <3>2, <3>3, <1>18
  <2>3. QED BY <2>1, <2>2 DEF RingConnected
<1>21. NumberExact'
  <2>1. Cardinality(Active \ {s}) = Cardinality(Active) - 1
    BY ActiveFinite, FS_RemoveElement
  <2>2. number' = number - 1
    BY <1>1 DEF ClearEntry
  <2>3. number = Cardinality(Active)
    BY DEF Sound, NumberExact
  <2>4. QED BY <2>1, <2>2, <2>3, <1>3 DEF NumberExact
<1> QED BY <1>3, <1>10, <1>11, <1>12, <1>17, <1>19, <1>20, <1>21 DEF Sound

-----------------------------------------------------------------------------
\* clear_utmp2 on a slot not in use: the links are out of order from here on,
\* but the sessions and their number are what they were.
LEMMA StrayInv ==
  ASSUME Inv, NEW s \in Slots, ~uinfo[s].active, ClearEntry(s),
         sweep' \in 0..N, ret' \in {NoSlot} \cup 0..N
  PROVE  Inv' /\ stray' /\ number' = number
<1> USE TableAssumption
<1>1. /\ hashhead \in [Buckets -> 0..N] /\ next \in [Slots -> 0..N]
      /\ listhead \in 0..N /\ s \in 0..N /\ 0 \in Buckets
      /\ list_prev \in [Slots -> 0..N] /\ list_next \in [Slots -> 0..N]
      /\ uinfo \in [Slots -> [active : BOOLEAN, uid : Uids \cup Residue, pid : Pids]]
      /\ number \in Int
  <2>1. TypeOK
    BY DEF Inv
  <2>2. s \in 0..N /\ 0 \in Buckets
    BY DEF Slots, Buckets
  <2>3. QED BY <2>1, <2>2 DEF TypeOK
<1>bool. stray' \in BOOLEAN
  BY Zenon DEF ClearEntry
<1>2. PICK b \in Buckets : HashRemove(s, b)
  BY DEF ClearEntry, HashKeys
<1>3. PICK r \in Residue :
        uinfo' = [uinfo EXCEPT ![s] = [active |-> FALSE, uid |-> r, pid |-> 0]]
  BY DEF ClearEntry
<1>4. number' = number /\ stray' = TRUE /\ RingRemove(s)
  BY DEF ClearEntry
<1>5. hashhead' \in [Buckets -> 0..N] /\ next' \in [Slots -> 0..N]
  <2>1. PICK head : head = [hashhead EXCEPT ![b] = IF @ = s THEN next[s] ELSE @]
    OBVIOUS
  <2>2. head \in [Buckets -> 0..N]
    BY <1>1, <2>1
  <2>3. PICK nxt : nxt = [t \in Slots |-> IF hashhead[b] # s /\ t \in ChainOf(b) /\ next[t] = s
                                          THEN next[s] ELSE next[t]]
    OBVIOUS
  <2>4. nxt \in [Slots -> 0..N]
    BY <1>1, <2>3
  <2>5. hashhead' = [head EXCEPT ![0] = s] /\ next' = [nxt EXCEPT ![s] = head[0]]
    BY <1>2, <2>1, <2>3 DEF HashRemove
  <2>6. QED BY <1>1, <2>2, <2>4, <2>5
<1>6. /\ listhead' \in 0..N
      /\ list_prev' \in [Slots -> 0..N] /\ list_next' \in [Slots -> 0..N]
  <2>1. list_prev[s] \in 0..N /\ list_next[s] \in 0..N
    BY <1>1
  <2>2. /\ listhead' = (IF listhead # s THEN listhead
                       ELSE IF list_next[s] = s THEN 0 ELSE list_next[s])
        /\ list_next' = [list_next EXCEPT ![list_prev[s]] = list_next[s]]
        /\ list_prev' = [list_prev EXCEPT ![list_next[s]] = list_prev[s]]
    BY <1>4 DEF RingRemove
  <2>3. listhead' \in 0..N
    BY <1>1, <2>1, <2>2
  <2>4. ASSUME NEW f \in [Slots -> 0..N], NEW i, NEW v \in 0..N
        PROVE  [f EXCEPT ![i] = v] \in [Slots -> 0..N]
    OBVIOUS
  <2>5. QED BY <1>1, <2>1, <2>2, <2>3, <2>4
<1>7. /\ uinfo' \in [Slots -> [active : BOOLEAN, uid : Uids \cup Residue, pid : Pids]]
      /\ \A t \in Slots : uinfo'[t].active = uinfo[t].active
      /\ \A t \in Slots : uinfo'[t].active => uinfo'[t].uid = uinfo[t].uid
  BY <1>1, <1>3 DEF Pids
<1>8. TypeOK'
  BY <1>bool, <1>1, <1>4, <1>5, <1>6, <1>7 DEF Inv, TypeOK
<1>9. NumberExact'
  <2>1. Active' = Active
    BY <1>7 DEF Active
  <2>2. QED BY <2>1, <1>4 DEF Inv, NumberExact
<1>10. QED BY <1>4, <1>8, <1>9 DEF Inv

\* clear_utmp2 on a slot in use, which only utmpd in good order does.
LEMMA ClearInv ==
  ASSUME Inv, ~stray, NEW s \in Active, ClearEntry(s),
         sweep' \in 0..N, ret' \in {NoSlot} \cup 0..N
  PROVE  Inv' /\ Active' = Active \ {s} /\ ~stray'
<1>1. Sound
  BY DEF Inv
<1>2. Sound' /\ Active' = Active \ {s}
  BY <1>1, ClearSound
<1>3. ~stray'
  BY DEF ClearEntry, Active
<1>4. QED BY <1>2, <1>3 DEF Inv, Sound

LEMMA NewInv ==
  ASSUME Inv, NEW u \in Uids, NEW p \in Pids, New(u, p)
  PROVE  Inv'
<1>1. Sound
  BY DEF Inv, New
<1>2. Sound'
  BY <1>1, NewSound
<1>3. QED BY <1>2 DEF Inv, Sound

\* A step that touches neither the links nor the slots.
LEMMA OtherInv ==
  ASSUME Inv, UNCHANGED <<hashhead, next, listhead, list_prev, list_next, uinfo, number, stray>>,
         sweep' \in 0..N, ret' \in {NoSlot} \cup 0..N
  PROVE  Inv'
<1>1. TypeOK'
  BY DEF Inv, TypeOK
<1>2. NumberExact'
  BY DEF Inv, NumberExact, Active
<1>3. ASSUME ~stray PROVE Sound'
  <2>1. Sound
    BY <1>3 DEF Inv
  <2>2. /\ Partitioned' /\ ChainsAcyclic' /\ Linked'
        /\ RingConnected' /\ Sorted'
    BY <2>1 DEF Sound, Active, Bucket, Partitioned, ChainsAcyclic, Linked,
           RingConnected, Sorted
  <2>3. QED BY <1>1, <1>2, <2>2 DEF Sound
<1>4. QED BY <1>1, <1>2, <1>3 DEF Inv

LEMMA ClrInv ==
  ASSUME Inv, NEW s \in Slots, NEW u \in Uids \cup Residue, NEW p \in Pids, Clr(s, u, p)
  PROVE  Inv'
<1>1. sweep' \in 0..N /\ ret' \in {NoSlot} \cup 0..N /\ ~stray
  BY TableAssumption DEF Clr, Inv, TypeOK
<1>2. CASE ClrMatches(s, u, p) /\ uinfo[s].active
  <2>1. s \in Active /\ ClearEntry(s)
    BY <1>2 DEF Active, Clr
  <2>2. QED BY <1>1, <2>1, ClearInv
<1>3. CASE ClrMatches(s, u, p) /\ ~uinfo[s].active
  <2>1. ClearEntry(s)
    BY <1>3 DEF Clr
  <2>2. QED BY <1>1, <1>3, <2>1, StrayInv
<1>4. CASE ~ClrMatches(s, u, p)
  <2>1. UNCHANGED <<hashhead, next, listhead, list_prev, list_next, uinfo, number, stray>>
    BY <1>4 DEF Clr, links
  <2>2. QED BY <1>1, <2>1, OtherInv
<1>5. QED BY <1>2, <1>3, <1>4

\* A pid is no part of the links.
LEMMA SetWebPidInv ==
  ASSUME Inv, NEW s \in Slots, SetWebPid(s)
  PROVE  Inv'
<1>1. uinfo \in [Slots -> [active : BOOLEAN, uid : Uids \cup Residue, pid : Pids]]
  BY DEF Inv, TypeOK
<1>2. uinfo' = [uinfo EXCEPT ![s].pid = WebPid] /\ WebPid \in Pids
  BY DEF SetWebPid, Pids
<1>3. /\ uinfo' \in [Slots -> [active : BOOLEAN, uid : Uids \cup Residue, pid : Pids]]
      /\ \A t \in Slots : uinfo'[t].active = uinfo[t].active /\ uinfo'[t].uid = uinfo[t].uid
  BY <1>1, <1>2
<1>4. UNCHANGED <<hashhead, next, listhead, list_prev, list_next, number, sweep, ret, stray>>
  BY DEF SetWebPid, links
<1>5. TypeOK'
  BY <1>3, <1>4 DEF Inv, TypeOK
<1>6. Active' = Active /\ \A t \in Slots : Bucket(t)' = Bucket(t)
  BY <1>3 DEF Active, Bucket
<1>7. NumberExact'
  BY <1>4, <1>6 DEF Inv, NumberExact
<1>8. ASSUME Sound PROVE Sound'
  <2>1. Partitioned'
    <3>1. /\ \A b \in Buckets : hashhead[b] # 0 => hashhead[b] \in Slots
          /\ \A t \in Slots : next[t] # 0 => next[t] \in Slots
      BY <1>8 DEF Sound, TypeOK, Slots
    <3>2. \A b \in Buckets : hashhead'[b] # 0 => Bucket(hashhead[b])' = b
      BY <1>8, <3>1, <1>4, <1>6 DEF Sound, Partitioned
    <3>3. \A t \in Slots : next'[t] # 0 => Bucket(next[t])' = Bucket(t)'
      BY <1>8, <3>1, <1>4, <1>6 DEF Sound, Partitioned
    <3>4. QED BY <1>8, <3>2, <3>3, <1>4, <1>6 DEF Sound, Partitioned
  <2>2. ChainsAcyclic' /\ Linked' /\ RingConnected'
    BY <1>8, <1>4, <1>6 DEF Sound, ChainsAcyclic, Linked, RingConnected
  <2>3. Sorted'
    <3>1. \A t \in Active : t \in Slots /\ list_next[t] \in Slots
      BY <1>8 DEF Sound, Linked, Active
    <3>2. QED BY <1>8, <3>1, <1>3, <1>4, <1>6 DEF Sound, Sorted
  <2>4. QED BY <1>5, <1>7, <2>1, <2>2, <2>3 DEF Sound
<1>9. QED BY <1>4, <1>5, <1>7, <1>8 DEF Inv

\* The clean-up clears only slots in use, and none after a stray one.
LEMMA SweepInv ==
  ASSUME Inv, SweepClear
  PROVE  Inv'
<1>1. sweep \in Slots /\ sweep' \in 0..N
  BY TableAssumption DEF SweepClear, SweepNext, Inv, TypeOK, Slots
<1>2. sweep \in Active /\ ClearEntry(sweep) /\ ~stray
  BY <1>1 DEF SweepClear, Active
<1>3. ret' \in {NoSlot} \cup 0..N
  BY DEF SweepClear, Inv, TypeOK
<1>4. QED BY <1>1, <1>2, <1>3, ClearInv

LEMMA NextInv == Inv /\ [Next]_tvars => Inv'
<1> SUFFICES ASSUME Inv, [Next]_tvars PROVE Inv'
  OBVIOUS
<1>1. CASE NewFull
  <2>1. sweep' \in 0..N /\ ret' \in {NoSlot} \cup 0..N
    BY <1>1 DEF NewFull, Inv, TypeOK
  <2>2. QED BY <1>1, <2>1, OtherInv DEF NewFull, links
<1>2. ASSUME NEW u \in Uids, NEW p \in Pids \ {WebPid}, New(u, p) PROVE Inv'
  BY <1>2, NewInv
<1>3. CASE SweepSkip
  <2>1. sweep' \in 0..N /\ ret' \in {NoSlot} \cup 0..N
    BY <1>3, TableAssumption DEF SweepSkip, SweepNext, Inv, TypeOK
  <2>2. QED BY <1>3, <2>1, OtherInv DEF SweepSkip, links
<1>4. CASE SweepClear
  BY <1>4, SweepInv
<1>5. ASSUME NEW s \in Slots, NEW u \in Uids \cup Residue, NEW p \in Pids, Clr(s, u, p)
      PROVE  Inv'
  BY <1>5, ClrInv
<1>6. ASSUME NEW s \in Slots, SetWebPid(s) PROVE Inv'
  BY <1>6, SetWebPidInv
<1>7. CASE UNCHANGED tvars
  <2>1. sweep' \in 0..N /\ ret' \in {NoSlot} \cup 0..N
    BY <1>7 DEF tvars, Inv, TypeOK
  <2>2. QED BY <1>7, <2>1, OtherInv DEF tvars
<1>8. QED BY <1>1, <1>2, <1>3, <1>4, <1>5, <1>6, <1>7 DEF Next

LEMMA InitInv == Init => Inv
<1>1. Init => Sound
  BY InitSound
<1>2. QED BY <1>1 DEF Sound, Inv

(***************************************************************************)
(* The invariant holds in every state of the table.                        *)
(***************************************************************************)
THEOREM TableInvariant == Spec => []Inv
<1>1. QED BY InitInv, NextInv, PTL DEF Spec

\* Every field of the table keeps its type, and a slot in use holds the
\* number of a user, also when a slot not in use has been cleared.
THEOREM TypeCorrect == Spec => []TypeOK
<1>1. Inv => TypeOK
  BY DEF Inv
<1>2. QED BY <1>1, TableInvariant, PTL

(***************************************************************************)
(* Until a clear request meets a slot that is not in use, no slot leaks    *)
(* from the free list and the chains, and none is on two lists; whatever   *)
(* uid and user id the cleared slots hold.                                 *)
(***************************************************************************)
THEOREM NoSlotLost == Spec => []ChainsPartition
<1>1. Inv => ChainsPartition
  <2> SUFFICES ASSUME Inv, ~stray PROVE Partitioned /\ ChainOf(0) = Slots \ Active
    BY DEF ChainsPartition
  <2>1. Sound
    BY DEF Inv
  <2>2. 0 \in Buckets
    BY TableAssumption DEF Buckets
  <2>3. ChainOf(0) = {s \in Slots : Bucket(s) = 0}
    BY <2>1, <2>2, ChainOfBucket DEF Sound
  <2>4. \A s \in Slots : Bucket(s) = 0 <=> s \notin Active
    <3>1. \A s \in Slots : uinfo[s].active => HashOf[uinfo[s].uid] # 0
      <4>1. \A v \in Uids : HashOf[v] # 0
        BY TableAssumption
      <4>2. QED BY <4>1, <2>1 DEF Sound, TypeOK
    <3>2. QED BY <3>1 DEF Bucket, Active
  <2>5. QED BY <2>1, <2>3, <2>4 DEF Sound
<1>2. QED BY <1>1, TableInvariant, PTL

\* The ring that every listing walks links exactly the sessions in use, both
\* ways, whatever was unlinked in whatever order, until a stray clear.
THEOREM RingIsLinked == Spec => []RingLinked
<1>1. Inv => RingLinked
  BY DEF Inv, Sound, RingLinked
<1>2. QED BY <1>1, TableInvariant, PTL

\* Until a stray clear, a look-up by user id meets every session of the user.
THEOREM LookupIsComplete == Spec => []LookupComplete
<1>1. Inv => LookupComplete
  <2> SUFFICES ASSUME Inv, ~stray, NEW b \in 1..H
               PROVE  ChainOf(b) = {s \in Active : Bucket(s) = b}
    BY DEF LookupComplete, Complete
  <2>1. b \in Buckets /\ b # 0
    BY TableAssumption DEF Buckets
  <2>2. ChainOf(b) = {s \in Slots : Bucket(s) = b}
    BY <2>1, ChainOfBucket DEF Inv, Sound
  <2>3. \A s \in Slots : Bucket(s) = b => uinfo[s].active
    BY <2>1 DEF Bucket
  <2>4. QED BY <2>2, <2>3 DEF Active
<1>2. QED BY <1>1, TableInvariant, PTL

\* Until a stray clear, the ring lists the sessions in the order of their ids.
THEOREM ListingIsSorted == Spec => [](RingLinked /\ RingSorted)
<1>1. Inv => RingLinked /\ RingSorted
  BY DEF Inv, Sound, RingLinked, RingSorted
<1>2. QED BY <1>1, TableInvariant, PTL

\* The reported number of sessions is exact; a stray clear is not counted.
THEOREM NumberIsExact == Spec => []NumberExact
<1>1. Inv => NumberExact
  BY DEF Inv
<1>2. QED BY <1>1, TableInvariant, PTL

-----------------------------------------------------------------------------
(***************************************************************************)
(* The pointers implement the pool of slots.                               *)
(***************************************************************************)
LEMMA FullMeansFull ==
  ASSUME Sound, hashhead[0] = 0
  PROVE  \A s \in Slots : uinfo[s].active
<1>1. 0 \in Buckets
  BY TableAssumption DEF Buckets
<1>2. ChainOf(0) = {s \in Slots : Bucket(s) = 0}
  BY <1>1, ChainOfBucket DEF Sound
<1>3. ChainOf(0) = {}
  <2>1. {} \in SUBSET Slots /\ hashhead[0] \in {} \cup {0}
    OBVIOUS
  <2>2. QED BY <2>1 DEF ChainOf
<1>4. QED BY <1>2, <1>3 DEF Bucket

LEMMA ClearReleases ==
  ASSUME Inv, NEW s \in Active, ClearEntry(s), ret' \in {ret, 0}
  PROVE  Pool!Release(s)
<1>1. s \in 1..N /\ uinfo[s].active /\ uinfo[s].uid \in Uids
  BY DEF Active, Slots, Inv, TypeOK
<1>2. Occupant[s] # 0
  BY <1>1, TableAssumption DEF Occupant, Slots
<1>3. PICK r \in Residue :
        uinfo' = [uinfo EXCEPT ![s] = [active |-> FALSE, uid |-> r, pid |-> 0]]
  BY DEF ClearEntry
<1>4. Occupant' = [Occupant EXCEPT ![s] = 0]
  BY <1>1, <1>3 DEF Occupant, Slots, Inv, TypeOK
<1>5. number' = number - 1
  BY <1>1 DEF ClearEntry
<1>6. QED BY <1>2, <1>4, <1>5 DEF Pool!Release

LEMMA StepSimulation == Inv /\ [Next]_tvars => [Pool!Next]_<<Occupant, number, ret>>
<1> SUFFICES ASSUME Inv, [Next]_tvars PROVE Pool!Next \/ UNCHANGED <<Occupant, number, ret>>
  OBVIOUS
<1>ui. uinfo \in [Slots -> [active : BOOLEAN, uid : Uids \cup Residue, pid : Pids]]
  BY DEF Inv, TypeOK
<1>1. CASE NewFull
  <2>1. \A s \in Slots : uinfo[s].active /\ uinfo[s].uid \in Uids
    BY <1>1, FullMeansFull DEF NewFull, Inv, Sound, TypeOK
  <2>2. Pool!Free = {}
    BY <2>1, TableAssumption DEF Pool!Free, Occupant, Slots
  <2>3. Occupant' = Occupant /\ number' = number /\ ret' = -1
    BY <1>1 DEF NewFull, Occupant, NoSlot
  <2>4. QED BY <2>2, <2>3 DEF Pool!Refuse, Pool!Next
<1>2. ASSUME NEW u \in Uids, NEW p \in Pids \ {WebPid}, New(u, p) PROVE Pool!Next
  <2> DEFINE pos == hashhead[0]
  <2>1. pos \in Slots
    BY <1>2, TableAssumption DEF New, Inv, TypeOK, Buckets, Slots
  <2>2. ~uinfo[pos].active
    <3>1. Bucket(pos) = 0
      BY <1>2, TableAssumption DEF New, Inv, Sound, Partitioned, Buckets
    <3>2. \A v \in Uids : HashOf[v] # 0
      BY TableAssumption
    <3>3. QED BY <2>1, <3>1, <3>2 DEF Bucket, Inv, TypeOK
  <2>3. pos \in Pool!Free
    BY <2>1, <2>2 DEF Pool!Free, Occupant, Slots
  <2>4. uinfo' = [uinfo EXCEPT ![pos] = [active |-> TRUE, uid |-> u, pid |-> p]]
        /\ number' = number + 1 /\ ret' = pos
    BY <1>2 DEF New
  <2>5. Occupant' = [Occupant EXCEPT ![pos] = u]
    BY <2>1, <2>4, <1>ui DEF Occupant
  <2>6. Pool!Alloc(u)
    BY <2>3, <2>4, <2>5 DEF Pool!Alloc
  <2>7. QED BY <2>6 DEF Pool!Next
<1>3. CASE SweepSkip
  BY <1>3 DEF SweepSkip, Occupant
<1>4. CASE SweepClear
  <2>1. sweep \in Active /\ sweep \in 1..N /\ ClearEntry(sweep) /\ ret' = ret
    BY <1>4 DEF SweepClear, Active, Inv, TypeOK, Slots
  <2>2. Pool!Release(sweep)
    BY <2>1, ClearReleases
  <2>3. QED BY <2>1, <2>2 DEF Pool!Next
<1>5. ASSUME NEW s \in Slots, NEW u \in Uids \cup Residue, NEW p \in Pids, Clr(s, u, p)
      PROVE  Pool!Next
  <2>1. CASE ClrMatches(s, u, p) /\ uinfo[s].active
    <3>1. s \in Active /\ ClearEntry(s) /\ ret' = 0
      BY <1>5, <2>1 DEF Clr, Active
    <3>2. Pool!Release(s)
      BY <3>1, ClearReleases
    <3>3. QED BY <3>2 DEF Pool!Next, Slots
  <2>2. CASE ClrMatches(s, u, p) /\ ~uinfo[s].active
    <3>1. ClearEntry(s) /\ ret' = 0
      BY <1>5, <2>2 DEF Clr
    <3>2. number' = number
      BY <2>2, <3>1 DEF ClearEntry
    <3>3. PICK r \in Residue :
            uinfo' = [uinfo EXCEPT ![s] = [active |-> FALSE, uid |-> r, pid |-> 0]]
      BY <3>1 DEF ClearEntry
    <3>4. Occupant' = Occupant
      BY <2>2, <3>3, <1>ui DEF Occupant
    <3>5. QED BY <3>1, <3>2, <3>4 DEF Pool!Ignore, Pool!Next
  <2>3. CASE ~ClrMatches(s, u, p)
    BY <1>5, <2>3 DEF Clr, Occupant, Pool!Ignore, Pool!Next
  <2>4. QED BY <2>1, <2>2, <2>3
<1>6. ASSUME NEW s \in Slots, SetWebPid(s) PROVE UNCHANGED <<Occupant, number, ret>>
  BY <1>6, <1>ui DEF SetWebPid, Occupant
<1>7. CASE UNCHANGED tvars
  BY <1>7 DEF tvars, Occupant
<1>8. QED BY <1>1, <1>2, <1>3, <1>4, <1>5, <1>6, <1>7 DEF Next

\* The table keeps the promises of SlotPool: no slot is handed out twice,
\* and a login is refused only when every slot is taken.  A stray clear
\* itself takes no slot from anybody; what utmpd does later is not modelled.
THEOREM ImplementsPool == Spec => PoolSpec
<1>1. Init => Pool!Init
  <2> SUFFICES ASSUME Init PROVE Pool!Init
    OBVIOUS
  <2>1. Occupant = [s \in 1..N |-> 0]
    BY DEF Init, Occupant, Slots
  <2>2. QED BY <2>1 DEF Init, Pool!Init
<1>2. QED BY <1>1, StepSimulation, TableInvariant, PTL DEF Spec, PoolSpec, Pool!Spec, Pool!pvars

=============================================================================
