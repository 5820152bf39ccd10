------------------------------- MODULE Ranks -------------------------------
(***************************************************************************)
(* That the links of a table can be ranked says that no chain of them is a *)
(* circle.  The arguments about walks along the hash chains of utmp.c and  *)
(* ucache.c pick a slot of least rank among those a walk would miss.       *)
(***************************************************************************)
EXTENDS Integers, FiniteSets, FiniteSetTheorems, WellFoundedInduction, TLAPS

(***************************************************************************)
(* A set of slots has a slot of least rank: the slots ranked below it form *)
(* a set that is minimal for inclusion.                                    *)
(***************************************************************************)
LEMMA LeastRank ==
  ASSUME NEW S, IsFiniteSet(S), NEW rank \in [S -> Int],
         NEW T \in SUBSET S, T # {}
  PROVE  \E m \in T : \A t \in T : rank[m] <= rank[t]
<1> DEFINE Below(m) == {x \in S : rank[x] < rank[m]}
           D == {Below(m) : m \in T}
           O == StrictSubsetOrdering(S)
<1>1. IsWellFoundedOn(O, FiniteSubsetsOf(S))
  BY FS_StrictSubsetOrderingWellFounded
<1>2. D \subseteq FiniteSubsetsOf(S)
  BY FS_FiniteSubsetsOfFinite
<1>3. D # {}
  OBVIOUS
<1>4. PICK d \in D : \A e \in D : ~(<<e, d>> \in O)
  <2> HIDE DEF O, D
  <2> QED BY <1>1, <1>2, <1>3, WFMin
<1>5. PICK m \in T : d = Below(m)
  OBVIOUS
<1>6. ASSUME NEW t \in T, ~(rank[m] <= rank[t]) PROVE FALSE
  <2>1. rank[t] < rank[m] /\ rank[t] \in Int /\ rank[m] \in Int
    BY <1>6
  <2>2. Below(t) \subseteq Below(m)
    BY <2>1
  <2>3. t \in Below(m) /\ t \notin Below(t)
    BY <2>1
  <2>4. <<Below(t), d>> \in O
    BY <2>2, <2>3, <1>5 DEF StrictSubsetOrdering
  <2>5. Below(t) \in D
    OBVIOUS
  <2>6. QED BY <1>4, <2>4, <2>5
<1>7. QED BY <1>6

(***************************************************************************)
(* Induction, for the set of the numbers that have some property: one that *)
(* lacks it would be the least that does.                                  *)
(***************************************************************************)
LEMMA SetInduction ==
  ASSUME NEW S, 0 \in S, \A j \in Nat : j \in S => j + 1 \in S,
         NEW k \in Nat
  PROVE  k \in S
<1> DEFINE Fails == (0..k) \ S
           rank == [j \in 0..k |-> j]
<1>1. Fails = {}
  <2> SUFFICES ASSUME Fails # {} PROVE FALSE
    OBVIOUS
  <2>1. rank \in [0..k -> Int] /\ IsFiniteSet(0..k) /\ Fails \in SUBSET (0..k)
    BY FS_Interval
  <2>2. PICK m \in Fails : \A j \in Fails : rank[m] <= rank[j]
    <3> HIDE DEF Fails, rank
    <3> QED BY <2>1, LeastRank
  <2>3. m \in 0..k /\ m # 0 /\ \A j \in Fails : m <= j
    BY <2>2
  <2>4. m - 1 \in 0..k /\ m - 1 \notin Fails /\ (m - 1) + 1 = m
    BY <2>3
  <2>5. QED BY <2>2, <2>4
<1>2. QED BY <1>1
=============================================================================
