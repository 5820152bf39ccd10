-------------------------- MODULE WwwGuest_proofs ---------------------------
(***************************************************************************)
(* The guest counter of the web interface is exact, for any number of      *)
(* entries, browsers, addresses and any hash function, once the table has  *)
(* been created, unless a guest came before.  The invariant adds that the  *)
(* bit map is empty until then: the store that makes the counter 0 follows *)
(* the one that empties the map, outside its critical section.  Every      *)
(* later change of the map and of the counter happens in one critical      *)
(* section, on the same set of entries.                                    *)
(***************************************************************************)
EXTENDS WwwGuest, FiniteSetTheorems, TLAPS

\* The counter is exact, or will be when it is set to 0.
Exact ==
  early = FALSE => IF created = "done" THEN count = Cardinality(used) ELSE used = {}

IInv == TypeOK /\ Exact

\* Releasing entries in use makes the counter follow the bit map, and never
\* takes it below 0.
LEMMA Releasing ==
  ASSUME IInv, NEW S \in SUBSET used
  PROVE  /\ count = Cardinality(used) => CountAfter(S) = Cardinality(used \ S)
         /\ CountAfter(S) \in 0..count
<1>1. used \subseteq Entries
  BY DEF IInv, TypeOK
<1>2. G \in Nat
  BY GuestAssumption
<1>3. IsFiniteSet(1..G)
  BY <1>2, FS_Interval
<1>4. IsFiniteSet(used)
  BY <1>1, <1>3, FS_Subset DEF Entries
<1>5. IsFiniteSet(S)
  BY <1>4, FS_Subset
<1>6. /\ Cardinality(used) \in Nat /\ Cardinality(S) \in Nat
      /\ Cardinality(S) <= Cardinality(used)
  BY <1>4, <1>5, FS_CardinalityType, FS_Subset
<1>7. used \cap S = S
  OBVIOUS
<1>8. Cardinality(used \ S) = Cardinality(used) - Cardinality(S)
  BY <1>4, <1>7, FS_Difference
<1>9. count \in Nat
  BY DEF IInv, TypeOK
<1>10. QED BY <1>6, <1>8, <1>9 DEF CountAfter

\* Clearing a table at some places keeps its type.
LEMMA ZeroedType ==
  ASSUME NEW D, NEW T, NEW f \in [D -> T], NEW S, NEW z \in T
  PROVE  Zeroed(f, S, z) \in [D -> T]
BY DEF Zeroed

LEMMA HashType == \A ip \in Ips \cup {NoIp} : HashOf[ip] \in Hashes
BY GuestAssumption DEF Hashes

LEMMA InitInv == Init => IInv
<1> SUFFICES ASSUME Init PROVE IInv
  OBVIOUS
<1>1. G \in Nat /\ MaxGuest \in Nat
  BY GuestAssumption
<1>2. TypeOK
  <2>1. used \subseteq Entries /\ stale \subseteq used
    BY DEF Init
  <2>2. /\ fromip \in [Entries -> Ips \cup {NoIp}]
        /\ key \in [Entries -> Keys]
        /\ hashtab \in [Hashes -> 0..G]
        /\ count \in 0..MaxGuest
    BY <1>1 DEF Init, Keys
  <2>3. /\ br \in [Browsers -> [pc : {"out", "new", "known", "in", "leaving"},
                                idx : 0..G, key : Keys]]
        /\ \A b \in Browsers : br[b].pc # "out" => br[b].idx \in Entries
    BY <1>1 DEF Init, Out, Keys
  <2>4. created \in {"attached", "zeroed", "done"} /\ early \in BOOLEAN
    BY DEF Init
  <2>5. QED BY <2>1, <2>2, <2>3, <2>4 DEF TypeOK
<1>3. Exact
  BY DEF Init, Exact
<1>4. QED BY <1>2, <1>3 DEF IInv

\* Types of the parts of the state, for use in the steps.
LEMMA Parts ==
  ASSUME IInv
  PROVE  /\ used \subseteq Entries /\ stale \subseteq used
         /\ fromip \in [Entries -> Ips \cup {NoIp}]
         /\ key \in [Entries -> Keys]
         /\ hashtab \in [Hashes -> 0..G]
         /\ count \in 0..MaxGuest
         /\ created \in {"attached", "zeroed", "done"} /\ early \in BOOLEAN
         /\ G \in Nat /\ MaxGuest \in Nat
BY GuestAssumption DEF IInv, TypeOK

BrType == [pc : {"out", "new", "known", "in", "leaving"}, idx : 0..G, key : Keys]

\* What a browser can hold while its request runs.
LEMMA Places ==
  ASSUME IInv
  PROVE  /\ br \in [Browsers -> BrType]
         /\ Out \in BrType
         /\ \A i \in Entries : i \in 0..G
         /\ \A b \in Browsers : br[b].pc # "out" => br[b].idx \in Entries
<1>1. G \in Nat
  BY Parts
<1>2. br \in [Browsers -> BrType]
  BY DEF IInv, TypeOK, BrType
<1>3. Out \in BrType
  BY <1>1 DEF Out, BrType, Keys
<1>4. \A b \in Browsers : br[b].pc # "out" => br[b].idx \in Entries
  BY DEF IInv, TypeOK
<1>5. \A i \in Entries : i \in 0..G
  BY <1>1 DEF Entries
<1>6. QED BY <1>2, <1>3, <1>4, <1>5

\* The conjuncts of IInv in the next state, from the types of its parts.
LEMMA Assemble ==
  ASSUME used' \subseteq Entries, stale' \subseteq used',
         fromip' \in [Entries -> Ips \cup {NoIp}],
         key' \in [Entries -> Keys],
         hashtab' \in [Hashes -> 0..G],
         count' \in 0..MaxGuest,
         br' \in [Browsers -> BrType],
         created' \in {"attached", "zeroed", "done"}, early' \in BOOLEAN,
         Exact',
         \A b \in Browsers : br[b].pc # "out" => br[b].idx \in Entries,
         \A b \in Browsers : br'[b] = br[b] \/ br'[b].pc = "out" \/ br'[b].idx \in Entries
  PROVE  IInv'
BY DEF IInv, TypeOK, BrType

\* A step that neither changes the bit map nor the counter keeps Exact.
LEMMA SameCount ==
  ASSUME IInv, UNCHANGED <<used, count, created, early>>
  PROVE  Exact'
BY DEF IInv, Exact

\* Where the table names an entry, Known names entries in use or that one.
LEMMA KnownEntries ==
  ASSUME IInv, NEW ip, NEW h \in 0..G, NEW f, NEW S \in SUBSET Entries
  PROVE  Known(ip, h, f, S) \subseteq Entries
<1>1. G \in Nat
  BY Parts
<1>2. h # 0 => h \in Entries
  BY <1>1 DEF Entries
<1>3. {i \in S : f[i] = ip} \subseteq Entries
  OBVIOUS
<1>4. QED BY <1>2, <1>3 DEF Known

LEMMA EnterStep ==
  ASSUME IInv, NEW b \in Browsers, Enter(b)
  PROVE  IInv'
<1>1. PICK due \in BOOLEAN :
       LET gone  == Idle(due)
           inuse == used \ gone
           ips   == Zeroed(fromip, gone, NoIp)
           tab   == Unhashed(gone)
           h     == HashOf[IpOf[b]]
           old   == Known(IpOf[b], tab[h], ips, inuse)
       IN  /\ fromip' = ips
           /\ key'    = Zeroed(key, gone, "zero")
           /\ \/ \E i \in old :
                   /\ br' = [br EXCEPT ![b] = [pc |-> "known", idx |-> i, key |-> "zero"]]
                   /\ used' = inuse /\ stale' = stale \ gone
                   /\ hashtab' = tab /\ count' = CountAfter(gone)
              \/ /\ old = {}
                 /\ \E i \in Entries \ inuse :
                      /\ br' = [br EXCEPT ![b] = [pc |-> "new", idx |-> i, key |-> "zero"]]
                      /\ used' = inuse \cup {i} /\ stale' = (stale \ gone) \ {i}
                      /\ hashtab' = [tab EXCEPT ![h] = i]
                      /\ count' = CountAfter(gone) + 1
              \/ /\ old = {} /\ Entries \subseteq inuse
                 /\ br' = [br EXCEPT ![b] = Out]
                 /\ used' = inuse /\ stale' = stale \ gone
                 /\ hashtab' = tab /\ count' = CountAfter(gone)
  BY DEF Enter
<1> DEFINE gone  == Idle(due)
           inuse == used \ gone
           tab   == Unhashed(gone)
           h     == HashOf[IpOf[b]]
           old   == Known(IpOf[b], tab[h], Zeroed(fromip, gone, NoIp), inuse)
<1>2. gone \in SUBSET used
  BY DEF Idle
<1>3. /\ count = Cardinality(used) => CountAfter(gone) = Cardinality(inuse)
      /\ CountAfter(gone) \in 0..count
  BY <1>2, Releasing
<1>b. /\ created' \in {"attached", "zeroed", "done"} /\ early' \in BOOLEAN
      /\ early' = FALSE => count = Cardinality(used)
  <2>1. created' = created /\ early' = (early \/ created # "done")
    BY DEF Enter
  <2>2. early' \in BOOLEAN
    BY <2>1
  <2>3. ASSUME early' = FALSE PROVE early = FALSE /\ created = "done"
    <3>1. early \in BOOLEAN
      BY Parts
    <3>2. ~early /\ created = "done"
      BY <2>1, <2>3
    <3>3. QED BY <3>1, <3>2
  <2>4. early' = FALSE => count = Cardinality(used)
    BY <2>3 DEF IInv, Exact
  <2>5. QED BY <2>1, <2>2, <2>4, Parts
<1>c. ASSUME count = Cardinality(used) => count' = Cardinality(used')
      PROVE  Exact'
  <2>1. ASSUME early' = FALSE PROVE created' = "done" /\ count' = Cardinality(used')
    <3>1. created' = created /\ early' = (early \/ created # "done")
      BY DEF Enter
    <3>2. created' = "done"
      BY <2>1, <3>1
    <3>3. QED BY <1>b, <1>c, <2>1, <3>2
  <2>2. QED BY <2>1 DEF Exact
<1>4. count \in 0..MaxGuest /\ count < MaxGuest /\ MaxGuest \in Nat
  BY Parts DEF Enter
<1>5. fromip' \in [Entries -> Ips \cup {NoIp}]
  <2>1. fromip' = Zeroed(fromip, gone, NoIp)
    BY <1>1
  <2>2. QED BY <2>1, Parts, ZeroedType
<1>6. key' \in [Entries -> Keys]
  <2>1. key' = Zeroed(key, gone, "zero")
    BY <1>1
  <2>2. "zero" \in Keys
    BY DEF Keys
  <2>3. QED BY <2>1, <2>2, Parts, ZeroedType
<1>7. tab \in [Hashes -> 0..G]
  <2>1. 0 \in 0..G
    BY Parts
  <2>2. QED BY <2>1, Parts, ZeroedType DEF Unhashed
<1>8. h \in Hashes
  BY HashType, GuestAssumption
<1>9. inuse \subseteq Entries /\ stale \ gone \subseteq inuse
  BY Parts
<1>10. old \subseteq Entries
  BY <1>7, <1>8, <1>9, KnownEntries
<1>11. \A i \in Entries, pc \in {"new", "known"} :
          [br EXCEPT ![b] = [pc |-> pc, idx |-> i, key |-> "zero"]] \in [Browsers -> BrType]
  <2>1. SUFFICES ASSUME NEW i \in Entries, NEW pc \in {"new", "known"}
                 PROVE  [pc |-> pc, idx |-> i, key |-> "zero"] \in BrType
    BY Places
  <2>2. i \in 0..G
    BY Places
  <2>3. QED BY <2>2 DEF BrType, Keys
<1>a. \A c \in Browsers : br[c].pc # "out" => br[c].idx \in Entries
  BY Places
<1> HIDE DEF gone, inuse, tab, h, old
<1>12. CASE \E i \in old :
              /\ br' = [br EXCEPT ![b] = [pc |-> "known", idx |-> i, key |-> "zero"]]
              /\ used' = inuse /\ stale' = stale \ gone
              /\ hashtab' = tab /\ count' = CountAfter(gone)
  <2>1. br' \in [Browsers -> BrType]
    BY <1>10, <1>11, <1>12
  <2>a. \A c \in Browsers : br'[c] = br[c] \/ br'[c].pc = "out" \/ br'[c].idx \in Entries
    BY <1>10, <1>12, Places
  <2>2. count' \in 0..MaxGuest /\ (count = Cardinality(used) => count' = Cardinality(used'))
    BY <1>3, <1>4, <1>12
  <2>b. Exact'
    BY <1>c, <2>2
  <2>3. QED BY <1>5, <1>6, <1>7, <1>9, <1>12, <1>a, <1>b, <2>1, <2>a, <2>b, <2>2, Assemble
<1>13. CASE \E i \in Entries \ inuse :
              /\ br' = [br EXCEPT ![b] = [pc |-> "new", idx |-> i, key |-> "zero"]]
              /\ used' = inuse \cup {i} /\ stale' = (stale \ gone) \ {i}
              /\ hashtab' = [tab EXCEPT ![h] = i]
              /\ count' = CountAfter(gone) + 1
  <2>1. PICK i \in Entries \ inuse :
              /\ br' = [br EXCEPT ![b] = [pc |-> "new", idx |-> i, key |-> "zero"]]
              /\ used' = inuse \cup {i} /\ stale' = (stale \ gone) \ {i}
              /\ hashtab' = [tab EXCEPT ![h] = i]
              /\ count' = CountAfter(gone) + 1
    BY <1>13
  <2>2. br' \in [Browsers -> BrType]
    BY <1>11, <2>1
  <2>a. \A c \in Browsers : br'[c] = br[c] \/ br'[c].pc = "out" \/ br'[c].idx \in Entries
    BY <2>1, Places
  <2>3. IsFiniteSet(inuse)
    <3>1. IsFiniteSet(1..G)
      BY Parts, FS_Interval
    <3>2. QED BY <3>1, <1>9, FS_Subset DEF Entries
  <2>4. Cardinality(used') = Cardinality(inuse) + 1
    BY <2>1, <2>3, FS_AddElement
  <2>5. count' \in 0..MaxGuest /\ (count = Cardinality(used) => count' = Cardinality(used'))
    BY <1>3, <1>4, <2>1, <2>4
  <2>b. Exact'
    BY <1>c, <2>5
  <2>6. hashtab' \in [Hashes -> 0..G]
    <3>1. i \in 0..G
      BY Places
    <3>2. QED BY <1>7, <2>1, <3>1
  <2>7. used' \subseteq Entries /\ stale' \subseteq used'
    BY <1>9, <2>1
  <2>8. QED BY <1>5, <1>6, <1>a, <1>b, <2>a, <2>b, <2>2, <2>5, <2>6, <2>7, Assemble
<1>14. CASE /\ br' = [br EXCEPT ![b] = Out]
            /\ used' = inuse /\ stale' = stale \ gone
            /\ hashtab' = tab /\ count' = CountAfter(gone)
  <2>1. br' \in [Browsers -> BrType]
    BY <1>14, Places
  <2>a. \A c \in Browsers : br'[c] = br[c] \/ br'[c].pc = "out" \/ br'[c].idx \in Entries
    BY <1>14, Places DEF Out
  <2>2. count' \in 0..MaxGuest /\ (count = Cardinality(used) => count' = Cardinality(used'))
    BY <1>3, <1>4, <1>14
  <2>b. Exact'
    BY <1>c, <2>2
  <2>3. QED BY <1>5, <1>6, <1>7, <1>9, <1>14, <1>a, <1>b, <2>1, <2>a, <2>b, <2>2, Assemble
<1>15. QED BY <1>1, <1>12, <1>13, <1>14 DEF gone, inuse, tab, h, old


\* A browser whose entry and key are of their types is where TypeOK wants it.
LEMMA BrMoves ==
  ASSUME IInv, NEW b \in Browsers, NEW r \in BrType,
         br' = [br EXCEPT ![b] = r],
         r.pc = "out" \/ r.idx \in Entries
  PROVE  /\ br' \in [Browsers -> BrType]
         /\ \A c \in Browsers : br'[c] = br[c] \/ br'[c].pc = "out" \/ br'[c].idx \in Entries
BY Places

LEMMA FillStep ==
  ASSUME IInv, NEW b \in Browsers, Fill(b)
  PROVE  IInv'
<1> DEFINE i == br[b].idx
           r == [pc |-> "in", idx |-> i, key |-> key'[i]]
<1>1. i \in Entries
  BY Places DEF Fill
<1>2. /\ stale' = stale \ {i}
      /\ \/ /\ key' = [key EXCEPT ![i] = b]
            /\ fromip' = [fromip EXCEPT ![i] = IpOf[b]]
         \/ key' = key /\ fromip' = fromip
      /\ br' = [br EXCEPT ![b] = r]
      /\ UNCHANGED <<used, hashtab, count, created, early>>
  BY DEF Fill
<1>3. IpOf[b] \in Ips /\ b \in Keys
  BY GuestAssumption DEF Keys
<1>4. key' \in [Entries -> Keys] /\ fromip' \in [Entries -> Ips \cup {NoIp}]
  BY <1>2, <1>3, Parts
<1>5. r \in BrType
  <2>1. key'[i] \in Keys /\ i \in 0..G
    BY <1>1, <1>4, Places
  <2>2. QED BY <2>1 DEF BrType
<1>6. \A c \in Browsers : br[c].pc # "out" => br[c].idx \in Entries
  BY Places
<1>7. r.idx \in Entries
  BY <1>1
<1> HIDE DEF i, r
<1>8. /\ br' \in [Browsers -> BrType]
      /\ \A c \in Browsers : br'[c] = br[c] \/ br'[c].pc = "out" \/ br'[c].idx \in Entries
  BY <1>2, <1>5, <1>7, BrMoves
<1>9. Exact'
  BY <1>2, SameCount
<1>10. QED BY <1>2, <1>4, <1>6, <1>8, <1>9, Parts, Assemble

LEMMA PageStep ==
  ASSUME IInv, NEW b \in Browsers, Page(b)
  PROVE  IInv'
<1>1. /\ stale' \subseteq stale
      /\ br' = br \/ br' = [br EXCEPT ![b] = Out]
      /\ UNCHANGED <<used, fromip, key, hashtab, count, created, early>>
  BY DEF Page
<1>2. /\ br' \in [Browsers -> BrType]
      /\ \A c \in Browsers : br'[c] = br[c] \/ br'[c].pc = "out" \/ br'[c].idx \in Entries
  <2>1. Out.pc = "out"
    BY DEF Out
  <2>2. QED BY <1>1, <2>1, Places, BrMoves
<1>3. \A c \in Browsers : br[c].pc # "out" => br[c].idx \in Entries
  BY Places
<1>4. Exact'
  BY <1>1, SameCount
<1>5. QED BY <1>1, <1>2, <1>3, <1>4, Parts, Assemble

LEMMA LeaveStep ==
  ASSUME IInv, NEW b \in Browsers, Leave(b)
  PROVE  IInv'
<1> DEFINE r == [br[b] EXCEPT !.pc = "leaving"]
<1>1. /\ stale' \subseteq stale
      /\ br' = [br EXCEPT ![b] = r]
      /\ UNCHANGED <<used, fromip, key, hashtab, count, created, early>>
      /\ br[b].pc = "in"
  BY DEF Leave
<1>2. r \in BrType /\ r.idx \in Entries
  <2>1. br[b] \in BrType /\ br[b].idx \in Entries
    BY <1>1, Places
  <2>2. QED BY <2>1 DEF BrType
<1> HIDE DEF r
<1>3. /\ br' \in [Browsers -> BrType]
      /\ \A c \in Browsers : br'[c] = br[c] \/ br'[c].pc = "out" \/ br'[c].idx \in Entries
  BY <1>1, <1>2, BrMoves
<1>4. \A c \in Browsers : br[c].pc # "out" => br[c].idx \in Entries
  BY Places
<1>5. Exact'
  BY <1>1, SameCount
<1>6. QED BY <1>1, <1>3, <1>4, <1>5, Parts, Assemble

LEMMA FreeStep ==
  ASSUME IInv, NEW b \in Browsers, Free(b)
  PROVE  IInv'
<1> DEFINE gone == Released(b)
<1>1. /\ used' = used \ gone /\ stale' = stale \ gone
      /\ fromip' = Zeroed(fromip, gone, NoIp)
      /\ key' = Zeroed(key, gone, "zero")
      /\ hashtab' = Unhashed(gone)
      /\ count' = CountAfter(gone)
      /\ br' = [br EXCEPT ![b] = Out]
      /\ created' = created /\ early' = early
  BY DEF Free
<1>2. gone \in SUBSET used
  BY DEF Released
<1> HIDE DEF gone
<1>3. /\ count = Cardinality(used) => count' = Cardinality(used')
      /\ count' \in 0..MaxGuest
  BY <1>1, <1>2, Releasing, Parts
<1>a. Exact'
  <2>1. used = {} => used' = {}
    BY <1>1
  <2>2. QED BY <1>1, <1>3, <2>1 DEF IInv, Exact
<1>4. "zero" \in Keys /\ 0 \in 0..G
  BY Parts DEF Keys
<1>5. /\ fromip' \in [Entries -> Ips \cup {NoIp}]
      /\ key' \in [Entries -> Keys]
      /\ hashtab' \in [Hashes -> 0..G]
  <2>1. fromip' \in [Entries -> Ips \cup {NoIp}]
    BY <1>1, Parts, ZeroedType
  <2>2. key' \in [Entries -> Keys]
    BY <1>1, <1>4, Parts, ZeroedType
  <2>3. hashtab' \in [Hashes -> 0..G]
    BY <1>1, <1>4, Parts, ZeroedType DEF Unhashed
  <2>4. QED BY <2>1, <2>2, <2>3
<1>6. /\ br' \in [Browsers -> BrType]
      /\ \A c \in Browsers : br'[c] = br[c] \/ br'[c].pc = "out" \/ br'[c].idx \in Entries
  <2>1. Out.pc = "out"
    BY DEF Out
  <2>2. QED BY <1>1, <2>1, Places, BrMoves
<1>7. \A c \in Browsers : br[c].pc # "out" => br[c].idx \in Entries
  BY Places
<1>8. used' \subseteq Entries /\ stale' \subseteq used'
  BY <1>1, Parts
<1>9. QED BY <1>1, <1>3, <1>a, <1>5, <1>6, <1>7, <1>8, Parts, Assemble

LEMMA ZeroStep ==
  ASSUME IInv, Zero
  PROVE  IInv'
<1>1. /\ used' = {} /\ stale' = {}
      /\ fromip' = [i \in Entries |-> NoIp]
      /\ key' = [i \in Entries |-> "zero"]
      /\ hashtab' = [h \in Hashes |-> 0]
      /\ created' = "zeroed"
      /\ UNCHANGED <<count, br, early>>
  BY DEF Zero
<1>2. "zero" \in Keys /\ 0 \in 0..G
  BY Parts DEF Keys
<1>3. Exact'
  BY <1>1 DEF Exact
<1>4. /\ fromip' \in [Entries -> Ips \cup {NoIp}]
      /\ key' \in [Entries -> Keys]
      /\ hashtab' \in [Hashes -> 0..G]
  BY <1>1, <1>2
<1>5. used' \subseteq Entries /\ stale' \subseteq used'
  BY <1>1
<1>6. QED BY <1>1, <1>3, <1>4, <1>5, Parts, Places, Assemble

\* The counter is set to 0 while the map is empty.
LEMMA ResetStep ==
  ASSUME IInv, Reset
  PROVE  IInv'
<1>1. /\ created = "zeroed" /\ created' = "done" /\ count' = 0
      /\ UNCHANGED <<used, fromip, key, stale, hashtab, br, early>>
  BY DEF Reset, table
<1>2. Exact'
  <2>1. ASSUME early = FALSE PROVE used = {}
    BY <1>1, <2>1 DEF IInv, Exact
  <2>2. Cardinality({}) = 0
    BY FS_EmptySet
  <2>3. QED BY <1>1, <2>1, <2>2 DEF Exact
<1>3. count' \in 0..MaxGuest
  BY <1>1, Parts
<1>4. QED BY <1>1, <1>2, <1>3, Parts, Places, Assemble

LEMMA NextInv == IInv /\ [Next]_gvars => IInv'
<1> SUFFICES ASSUME IInv, [Next]_gvars PROVE IInv'
  OBVIOUS
<1>1. CASE \E b \in Browsers : Enter(b)
  BY <1>1, EnterStep
<1>2. CASE \E b \in Browsers : Fill(b)
  BY <1>2, FillStep
<1>3. CASE \E b \in Browsers : Page(b)
  BY <1>3, PageStep
<1>4. CASE \E b \in Browsers : Leave(b)
  BY <1>4, LeaveStep
<1>5. CASE \E b \in Browsers : Free(b)
  BY <1>5, FreeStep
<1>6. CASE \E i \in Entries : Age(i)
  <2>1. PICK i \in Entries : Age(i)
    BY <1>6
  <2>2. /\ stale' \subseteq used
        /\ UNCHANGED <<used, fromip, key, hashtab, count, br, created, early>>
    BY <2>1, Parts DEF Age
  <2>3. Exact'
    BY <2>2, SameCount
  <2>4. QED BY <2>2, <2>3, Parts, Places, Assemble
<1>7. CASE Zero \/ Reset
  BY <1>7, ZeroStep, ResetStep
<1>8. CASE UNCHANGED gvars
  <2>1. UNCHANGED <<used, fromip, key, stale, hashtab, count, br, created, early>>
    BY <1>8 DEF gvars, table
  <2>2. Exact'
    BY <2>1, SameCount
  <2>3. QED BY <2>1, <2>2, Parts, Places, Assemble
<1>9. QED BY <1>1, <1>2, <1>3, <1>4, <1>5, <1>6, <1>7, <1>8 DEF Next

\* In every state every variable has its type and every guest that is in has
\* an entry of the table.
THEOREM GuestTypeCorrect == Spec => []TypeOK
<1>1. IInv => TypeOK
  BY DEF IInv
<1>2. QED BY <1>1, InitInv, NextInv, PTL DEF Spec

\* The number of web guests the system reports is the number of entries in use,
\* from when the process that creates the table has set the counter to 0, unless
\* a guest entered before that.
THEOREM CountIsExact == Spec => []CountExact
<1>1. IInv => CountExact
  <2>1. SUFFICES ASSUME IInv, created = "done", ~early
                 PROVE  count = Cardinality(used)
    BY DEF CountExact
  <2>2. early = FALSE
    BY <2>1, Parts
  <2>3. QED BY <2>1, <2>2 DEF IInv, Exact
<1>2. QED BY <1>1, InitInv, NextInv, PTL DEF Spec
=============================================================================
