-------------------------- MODULE BoardIndex_proofs --------------------------
(***************************************************************************)
(* For any number of articles, deleters and restorers, and headers and     *)
(* pages of any size.  First the binary search: its recursive definition   *)
(* has a meaning, a hit is an entry with the id, and on an index whose ids *)
(* do not fall a miss is the place of the id.  Then the steps of deletions *)
(* and restorations, whose listings, sizes and positions may be out of     *)
(* date when they are used.                                                *)
(***************************************************************************)
EXTENDS BoardIndex, Ranks, SequenceTheorems

Outcomes(n) == [hit : BOOLEAN, at : 1..(n + 1)]

\* The windows that are searched in k turns at most, and those in k + 1.
Narrow(n, k) == {w \in Windows(n) : w[2] - w[1] < k}
Wider(n, k)  == {w \in Windows(n) : w[2] - w[1] <= k}

\* f has the outcomes of the search in the windows of W.
Solves(f, d, key, n, W) ==
  /\ f \in [W -> Outcomes(n)]
  /\ \A w \in W : f[w] = Probe(d, key, f, w)

Agree(f, g, W) == \A w \in W : f[w] = g[w]

LEMMA WindowFacts ==
  ASSUME NEW n \in Nat, NEW k \in Nat
  PROVE  /\ Wider(n, k) = Narrow(n, k + 1)
         /\ Narrow(n, k) \subseteq Wider(n, k) /\ Wider(n, k) \subseteq Windows(n)
         /\ Narrow(n, n) = Windows(n)
BY DEF Wider, Narrow, Windows

LEMMA Halves ==
  ASSUME NEW n \in Nat, NEW k \in Nat, NEW w \in Wider(n, k)
  PROVE  LET mid == (w[1] + w[2]) \div 2
         IN  /\ w[1] \in 1..(n + 1) /\ w[2] \in 0..n
             /\ w[1] <= w[2] => /\ mid \in 1..n /\ w[1] <= mid /\ mid <= w[2]
                                /\ <<w[1], mid - 1>> \in Narrow(n, k)
                                /\ <<mid + 1, w[2]>> \in Narrow(n, k)
<1> DEFINE mid == (w[1] + w[2]) \div 2
<1>1. PICK a \in 1..(n + 1), b \in 0..n : w = <<a, b>>
  BY DEF Wider, Windows
<1>2. b - a <= k /\ mid = (a + b) \div 2
  BY <1>1 DEF Wider
<1>3. ASSUME a <= b PROVE mid \in 1..n /\ a <= mid /\ mid <= b
  BY <1>2, <1>3
<1> HIDE DEF mid
<1>4. ASSUME a <= b
      PROVE  <<a, mid - 1>> \in Narrow(n, k) /\ <<mid + 1, b>> \in Narrow(n, k)
  <2>1. <<a, mid - 1>> \in Windows(n) /\ <<mid + 1, b>> \in Windows(n)
    BY <1>3, <1>4 DEF Windows
  <2>2. (mid - 1) - a < k /\ b - (mid + 1) < k
    BY <1>2, <1>3, <1>4
  <2>3. QED BY <2>1, <2>2 DEF Narrow
<1>5. QED BY <1>1, <1>3, <1>4 DEF mid

\* Only the halves of a window matter to it.
LEMMA ProbeSame ==
  ASSUME NEW d, NEW key, NEW n \in Nat, NEW k \in Nat, NEW f, NEW g,
         Agree(f, g, Narrow(n, k)), NEW w \in Wider(n, k)
  PROVE  Probe(d, key, f, w) = Probe(d, key, g, w)
<1> DEFINE mid == (w[1] + w[2]) \div 2
<1>1. w[1] \in Int /\ w[2] \in Int
  BY DEF Wider, Windows
<1>2. CASE w[1] > w[2]
  BY <1>2 DEF Probe
<1>3. CASE w[1] <= w[2]
  <2>1. f[<<w[1], mid - 1>>] = g[<<w[1], mid - 1>>] /\ f[<<mid + 1, w[2]>>] = g[<<mid + 1, w[2]>>]
    BY <1>3, Halves DEF Agree
  <2>2. QED BY <2>1 DEF Probe
<1>4. QED BY <1>1, <1>2, <1>3

LEMMA ProbeOutcome ==
  ASSUME NEW d, NEW key, NEW n \in Nat, NEW k \in Nat, NEW w \in Wider(n, k),
         NEW f \in [Narrow(n, k) -> Outcomes(n)]
  PROVE  Probe(d, key, f, w) \in Outcomes(n)
<1> DEFINE mid == (w[1] + w[2]) \div 2
<1>1. w[1] \in 1..(n + 1) /\ w[2] \in 0..n
  BY Halves
<1>2. [hit |-> FALSE, at |-> w[1]] \in Outcomes(n)
  BY <1>1 DEF Outcomes
<1>3. CASE w[1] > w[2]
  BY <1>2, <1>3 DEF Probe
<1>4. CASE w[1] <= w[2]
  <2>1. /\ mid \in 1..n
        /\ <<w[1], mid - 1>> \in Narrow(n, k) /\ <<mid + 1, w[2]>> \in Narrow(n, k)
    BY <1>4, Halves
  <2>2. f[<<w[1], mid - 1>>] \in Outcomes(n) /\ f[<<mid + 1, w[2]>>] \in Outcomes(n)
    <3> HIDE DEF mid
    <3> QED BY <2>1
  <2>3. [hit |-> TRUE, at |-> mid] \in Outcomes(n)
    <3> HIDE DEF mid
    <3> QED BY <2>1 DEF Outcomes
  <2>4. QED BY <1>4, <1>1, <2>2, <2>3 DEF Probe
<1>5. QED BY <1>1, <1>3, <1>4

LEMMA Solvable ==
  ASSUME NEW d, NEW key, NEW n \in Nat, NEW k \in Nat
  PROVE  \E f : Solves(f, d, key, n, Narrow(n, k))
<1>1. \E f : Solves(f, d, key, n, Narrow(n, 0))
  <2> DEFINE f == [w \in Narrow(n, 0) |-> [hit |-> FALSE, at |-> w[1]]]
  <2>1. ASSUME NEW w \in Narrow(n, 0) PROVE w[1] \in 1..(n + 1) /\ w[2] \in 0..n /\ w[1] > w[2]
    BY DEF Narrow, Windows
  <2>2. f \in [Narrow(n, 0) -> Outcomes(n)]
    BY <2>1 DEF Outcomes
  <2>3. \A w \in Narrow(n, 0) : f[w] = Probe(d, key, f, w)
    BY <2>1 DEF Probe
  <2>4. QED BY <2>2, <2>3 DEF Solves
<1>2. ASSUME NEW j \in Nat, \E f : Solves(f, d, key, n, Narrow(n, j))
      PROVE  \E f : Solves(f, d, key, n, Narrow(n, j + 1))
  <2>1. PICK f : Solves(f, d, key, n, Narrow(n, j))
    BY <1>2
  <2> DEFINE g == [w \in Wider(n, j) |-> Probe(d, key, f, w)]
  <2>2. g \in [Wider(n, j) -> Outcomes(n)]
    BY <2>1, ProbeOutcome DEF Solves
  <2>3. Agree(f, g, Narrow(n, j))
    BY <2>1, WindowFacts DEF Solves, Agree
  <2>4. \A w \in Wider(n, j) : g[w] = Probe(d, key, g, w)
    <3> SUFFICES ASSUME NEW w \in Wider(n, j)
                 PROVE  Probe(d, key, f, w) = Probe(d, key, g, w)
      OBVIOUS
    <3> HIDE DEF g
    <3> QED BY <2>3, ProbeSame
  <2> HIDE DEF g
  <2>5. Solves(g, d, key, n, Wider(n, j))
    BY <2>2, <2>4 DEF Solves
  <2>6. QED BY <2>5, WindowFacts
<1> DEFINE S == {j \in Nat : \E f : Solves(f, d, key, n, Narrow(n, j))}
<1>3. 0 \in S /\ \A j \in Nat : j \in S => j + 1 \in S
  BY <1>1, <1>2
<1>4. k \in S
  <2> HIDE DEF S
  <2> QED BY <1>3, SetInduction
<1>5. QED BY <1>4

LEMMA SolvedOnce ==
  ASSUME NEW d, NEW key, NEW n \in Nat, NEW k \in Nat, NEW f, NEW g,
         \A w \in Windows(n) : f[w] = Probe(d, key, f, w),
         \A w \in Windows(n) : g[w] = Probe(d, key, g, w)
  PROVE  Agree(f, g, Narrow(n, k))
<1> DEFINE S == {j \in Nat : Agree(f, g, Narrow(n, j))}
<1>1. 0 \in S
  <2>1. ASSUME NEW w \in Narrow(n, 0)
        PROVE  w[1] \in 1..(n + 1) /\ w[2] \in 0..n /\ w[1] > w[2] /\ w \in Windows(n)
    BY DEF Narrow, Windows
  <2>2. QED BY <2>1 DEF Probe, Agree
<1>2. ASSUME NEW j \in Nat, j \in S PROVE j + 1 \in S
  <2>1. Agree(f, g, Wider(n, j))
    <3> SUFFICES ASSUME NEW w \in Wider(n, j) PROVE f[w] = g[w]
      BY DEF Agree
    <3>1. w \in Windows(n)
      BY WindowFacts
    <3>2. Probe(d, key, f, w) = Probe(d, key, g, w)
      BY <1>2, ProbeSame
    <3>3. QED BY <3>1, <3>2
  <2>2. QED BY <2>1, WindowFacts
<1>3. k \in S
  <2> HIDE DEF S
  <2> QED BY <1>1, <1>2, SetInduction
<1>4. QED BY <1>3

\* The recursive definition of the search has a meaning: what comes of a
\* window is what Probe makes of its halves.
LEMMA SearchSolves ==
  ASSUME NEW d, NEW key, NEW n \in Nat
  PROVE  \E f : /\ Solves(f, d, key, n, Windows(n))
                /\ Search(d, key, n) = f[<<1, n>>]
<1> DEFINE Def(s) == [w \in Windows(n) |-> Probe(d, key, s, w)]
           step == CHOOSE s : s = Def(s)
<1>1. Narrow(n, n) = Windows(n)
  BY WindowFacts
<1>2. PICK f : Solves(f, d, key, n, Windows(n))
  BY <1>1, Solvable
<1>3. f = Def(f)
  BY <1>2 DEF Solves
<1>4. step = Def(step)
  <2> HIDE DEF Def
  <2> QED BY <1>3
<1>5. Search(d, key, n) = step[<<1, n>>]
  BY DEF Search
<1> HIDE DEF step
<1>6. step \in [Windows(n) -> Outcomes(n)]
  <2>1. \A w \in Windows(n) : step[w] = Probe(d, key, step, w)
    BY <1>4
  <2>2. \A w \in Windows(n) : f[w] = Probe(d, key, f, w)
    BY <1>2 DEF Solves
  <2>3. Agree(step, f, Narrow(n, n))
    BY <2>1, <2>2, SolvedOnce
  <2>4. QED BY <1>4, <1>1, <2>3, <1>2 DEF Solves, Agree
<1>7. QED BY <1>4, <1>5, <1>6 DEF Solves

-----------------------------------------------------------------------------
\* What a hit in window w is worth.
Hits(f, d, key, n, w) == f[w].hit => f[w].at \in 1..n /\ At(d, f[w].at).id = key

\* Outside of window w the ids lie on the right side of key.
Outside(d, key, n, w) ==
  \A i \in 1..n : /\ i < w[1] => At(d, i).id < key
                  /\ i > w[2] => At(d, i).id > key

Placed(d, key, n, at) ==
  \A i \in 1..n : /\ i < at => At(d, i).id < key
                  /\ i >= at => At(d, i).id > key

Misses(f, d, key, n, w) ==
  Outside(d, key, n, w) /\ ~f[w].hit => Placed(d, key, n, f[w].at)

Rising(d, n) ==
  /\ \A i \in 1..n : At(d, i).id \in Nat
  /\ \A i, j \in 1..n : i < j => At(d, i).id <= At(d, j).id

(***************************************************************************)
(* One turn of the loop, on an index of any order and on one whose ids do  *)
(* not fall.                                                               *)
(***************************************************************************)
LEMMA HitStep ==
  ASSUME NEW d, NEW key \in Nat, NEW n \in Nat, NEW f, Solves(f, d, key, n, Windows(n)),
         NEW k \in Nat, \A v \in Narrow(n, k) : Hits(f, d, key, n, v),
         NEW w \in Wider(n, k)
  PROVE  Hits(f, d, key, n, w)
<1> DEFINE mid == (w[1] + w[2]) \div 2
<1>1. w[1] \in 1..(n + 1) /\ w[2] \in 0..n /\ f[w] = Probe(d, key, f, w)
  BY WindowFacts DEF Wider, Windows, Solves
<1>2. CASE w[1] > w[2]
  BY <1>1, <1>2 DEF Probe, Hits
<1>3. CASE w[1] <= w[2]
  <2>1. /\ mid \in 1..n
        /\ Hits(f, d, key, n, <<w[1], mid - 1>>) /\ Hits(f, d, key, n, <<mid + 1, w[2]>>)
    BY <1>3, Halves
  <2> HIDE DEF mid
  <2>2. \/ f[w] = [hit |-> TRUE, at |-> mid] /\ key = At(d, mid).id
        \/ f[w] = f[<<w[1], mid - 1>>] \/ f[w] = f[<<mid + 1, w[2]>>]
    BY <1>1, <1>3 DEF Probe, mid
  <2>3. QED BY <2>1, <2>2 DEF Hits
<1>4. QED BY <1>1, <1>2, <1>3

LEMMA MissStep ==
  ASSUME NEW d, NEW key \in Nat, NEW n \in Nat, NEW f, Solves(f, d, key, n, Windows(n)),
         Rising(d, n), NEW k \in Nat, \A v \in Narrow(n, k) : Misses(f, d, key, n, v),
         NEW w \in Wider(n, k)
  PROVE  Misses(f, d, key, n, w)
<1> DEFINE mid == (w[1] + w[2]) \div 2
<1>1. w[1] \in 1..(n + 1) /\ w[2] \in 0..n /\ f[w] = Probe(d, key, f, w)
  BY WindowFacts DEF Wider, Windows, Solves
<1> SUFFICES ASSUME Outside(d, key, n, w), ~f[w].hit PROVE Placed(d, key, n, f[w].at)
  BY DEF Misses
<1>2. CASE w[1] > w[2]
  <2>1. f[w].at = w[1]
    BY <1>1, <1>2 DEF Probe
  <2>2. QED BY <2>1, <1>1, <1>2 DEF Outside, Placed
<1>3. CASE w[1] <= w[2]
  <2> DEFINE lower == <<w[1], mid - 1>>
             upper == <<mid + 1, w[2]>>
  <2>1. mid \in 1..n /\ Misses(f, d, key, n, lower) /\ Misses(f, d, key, n, upper)
    BY <1>3, Halves
  <2>2. At(d, mid).id \in Nat
    BY <2>1 DEF Rising
  <2>3. \/ f[w] = f[lower] /\ key < At(d, mid).id
        \/ f[w] = f[upper] /\ key > At(d, mid).id
    <3>1. key # At(d, mid).id
      BY <1>1, <1>3 DEF Probe
    <3>2. QED BY <1>1, <1>3, <2>2, <3>1 DEF Probe
  <2>4. CASE f[w] = f[lower] /\ key < At(d, mid).id
    <3>1. Outside(d, key, n, lower)
      <4> HIDE DEF mid
      <4> SUFFICES ASSUME NEW i \in 1..n, i > mid - 1 PROVE At(d, i).id > key
        BY <2>1 DEF Outside
      <4>1. At(d, i).id \in Nat /\ (i > mid => At(d, mid).id <= At(d, i).id)
        BY <2>1 DEF Rising
      <4>2. QED BY <2>1, <2>2, <2>4, <4>1
    <3>2. QED BY <2>1, <2>4, <3>1 DEF Misses
  <2>5. CASE f[w] = f[upper] /\ key > At(d, mid).id
    <3>1. Outside(d, key, n, upper)
      <4> HIDE DEF mid
      <4> SUFFICES ASSUME NEW i \in 1..n, i < mid + 1 PROVE At(d, i).id < key
        BY <2>1 DEF Outside
      <4>1. At(d, i).id \in Nat /\ (i < mid => At(d, i).id <= At(d, mid).id)
        BY <2>1 DEF Rising
      <4>2. QED BY <2>1, <2>2, <2>5, <4>1
    <3>2. QED BY <2>1, <2>5, <3>1 DEF Misses
  <2>6. QED BY <2>3, <2>4, <2>5
<1>4. QED BY <1>1, <1>2, <1>3

(***************************************************************************)
(* Search_Bin on any index: a position of the file or the one behind it,   *)
(* and in case of a hit one of an entry that has the id.                   *)
(***************************************************************************)
THEOREM SearchSound ==
  ASSUME NEW d, NEW key \in Nat, NEW n \in Nat
  PROVE  /\ Search(d, key, n) \in [hit : BOOLEAN, at : 1..(n + 1)]
         /\ Search(d, key, n).hit => /\ Search(d, key, n).at \in 1..n
                                     /\ At(d, Search(d, key, n).at).id = key
<1>1. PICK f : Solves(f, d, key, n, Windows(n)) /\ Search(d, key, n) = f[<<1, n>>]
  BY SearchSolves
<1> DEFINE S == {k \in Nat : \A w \in Narrow(n, k) : Hits(f, d, key, n, w)}
<1>2. 0 \in S
  <2> SUFFICES ASSUME NEW w \in Narrow(n, 0) PROVE Hits(f, d, key, n, w)
    OBVIOUS
  <2>1. w[1] \in 1..(n + 1) /\ w[2] \in 0..n /\ w[1] > w[2] /\ f[w] = Probe(d, key, f, w)
    BY <1>1 DEF Narrow, Windows, Solves
  <2>2. ~f[w].hit
    BY <2>1 DEF Probe
  <2>3. QED BY <2>2 DEF Hits
<1>3. ASSUME NEW k \in Nat, k \in S PROVE k + 1 \in S
  <2>1. \A w \in Wider(n, k) : Hits(f, d, key, n, w)
    BY <1>1, <1>3, HitStep
  <2>2. QED BY <2>1, WindowFacts
<1>4. n \in S
  <2> HIDE DEF S
  <2> QED BY <1>2, <1>3, SetInduction
<1>5. <<1, n>> \in Windows(n) /\ Narrow(n, n) = Windows(n)
  BY WindowFacts DEF Windows
<1>6. f[<<1, n>>] \in Outcomes(n) /\ Hits(f, d, key, n, <<1, n>>)
  BY <1>1, <1>4, <1>5 DEF Solves
<1>7. QED BY <1>1, <1>6 DEF Hits, Outcomes

(***************************************************************************)
(* Search_Bin on an index whose ids do not fall: it finds every id that is *)
(* there, and otherwise the place where mmap_search_apply may insert it.   *)
(***************************************************************************)
THEOREM SearchComplete ==
  ASSUME NEW d, NEW key \in Nat, NEW n \in Nat, Rising(d, n), ~Search(d, key, n).hit
  PROVE  \A i \in 1..n : /\ i < Search(d, key, n).at => At(d, i).id < key
                         /\ i >= Search(d, key, n).at => At(d, i).id > key
<1>1. PICK f : Solves(f, d, key, n, Windows(n)) /\ Search(d, key, n) = f[<<1, n>>]
  BY SearchSolves
<1> DEFINE S == {k \in Nat : \A w \in Narrow(n, k) : Misses(f, d, key, n, w)}
<1>2. 0 \in S
  <2> SUFFICES ASSUME NEW w \in Narrow(n, 0), Outside(d, key, n, w)
               PROVE  Placed(d, key, n, f[w].at)
    BY DEF Misses
  <2>1. w[1] \in 1..(n + 1) /\ w[2] \in 0..n /\ w[1] > w[2] /\ f[w] = Probe(d, key, f, w)
    BY <1>1 DEF Narrow, Windows, Solves
  <2>2. f[w].at = w[1]
    BY <2>1 DEF Probe
  <2>3. QED BY <2>1, <2>2 DEF Outside, Placed
<1>3. ASSUME NEW k \in Nat, k \in S PROVE k + 1 \in S
  <2>1. \A w \in Wider(n, k) : Misses(f, d, key, n, w)
    BY <1>1, <1>3, MissStep
  <2>2. QED BY <2>1, WindowFacts
<1>4. n \in S
  <2> HIDE DEF S
  <2> QED BY <1>2, <1>3, SetInduction
<1>5. <<1, n>> \in Windows(n) /\ Narrow(n, n) = Windows(n)
  BY WindowFacts DEF Windows
<1>6. Misses(f, d, key, n, <<1, n>>)
  BY <1>4, <1>5
<1>7. Outside(d, key, n, <<1, n>>)
  BY DEF Outside
<1>8. QED BY <1>1, <1>6, <1>7 DEF Misses, Placed

-----------------------------------------------------------------------------
(***************************************************************************)
(* The index as a sequence of entries.                                     *)
(***************************************************************************)
Entry == Header \cup {Blank}

LEMMA HeaderFacts ==
  /\ Blank \notin Header
  /\ \A h \in Header : h.art \in Arts /\ h.id \in 1..MaxId
  /\ \A h \in Entry : h # Blank <=> h \in Header
  /\ \A h \in Entry : h.art \in Arts => h \in Header
  /\ \A h \in Entry : h.id # 0 => h \in Header
BY BoardAssumption DEF Entry, Header, Blank

LEMMA AtType ==
  ASSUME NEW d \in Seq(Entry), NEW i
  PROVE  At(d, i) \in Entry
BY DEF At, Entry

\* The entries of the file can be read.
LEMMA PagesFacts ==
  ASSUME Len(dir) \in Nat, NEW i \in 1..Len(dir)
  PROVE  Named(i) /\ Backed(i)
<1>1. HdrBytes \in Nat \ {0}
  BY BoardAssumption
<1>2. i * HdrBytes <= Len(dir) * HdrBytes
  <2>1. \A a, b, c \in Nat : a <= b => a * c <= b * c
    OBVIOUS
  <2>2. QED BY <1>1, <2>1
<1>3. (i - 1) * HdrBytes = i * HdrBytes - HdrBytes /\ (i - 1) * HdrBytes \in Nat
  BY <1>1
<1>4. i * HdrBytes \in Nat /\ Len(dir) * HdrBytes \in Nat
  BY <1>1
<1>5. ASSUME NEW b \in 0..(Len(dir) * HdrBytes - 1) PROVE Mapped(b)
  BY DEF Mapped
<1>6. /\ (i - 1) * HdrBytes \in 0..(Len(dir) * HdrBytes - 1)
      /\ i * HdrBytes - 1 \in 0..(Len(dir) * HdrBytes - 1)
  BY <1>1, <1>2, <1>3, <1>4
<1>7. QED BY <1>5, <1>6 DEF Named, Backed

LEMMA AppendFacts ==
  ASSUME NEW d \in Seq(Entry), NEW h \in Entry
  PROVE  /\ Append(d, h) \in Seq(Entry) /\ Len(Append(d, h)) = Len(d) + 1
         /\ Append(d, h)[Len(d) + 1] = h
         /\ \A i \in 1..Len(d) : Append(d, h)[i] = d[i]
BY DEF Entry

LEMMA ClosedFacts ==
  ASSUME NEW d \in Seq(Entry), NEW e \in Nat, NEW n \in Nat
  PROVE  /\ Closed(d, e, n) \in Seq(Entry) /\ Len(Closed(d, e, n)) = Len(d)
         /\ \A i \in 1..Len(d) :
              Closed(d, e, n)[i] = IF e <= i /\ i < n THEN At(d, i + 1) ELSE d[i]
<1>1. \A i \in 1..Len(d) : (IF e <= i /\ i < n THEN At(d, i + 1) ELSE d[i]) \in Entry
  BY AtType
<1>2. Closed(d, e, n) \in Seq(Entry)
  BY <1>1, Len(d) \in Nat DEF Closed
<1>3. QED BY <1>2, Len(d) \in Nat DEF Closed

\* The file as ftruncate leaves it.
Cut(d, n) == [i \in 1..n |-> At(d, i)]

LEMMA CutFacts ==
  ASSUME NEW d \in Seq(Entry), NEW n \in Nat
  PROVE  /\ Cut(d, n) \in Seq(Entry) /\ Len(Cut(d, n)) = n
         /\ \A i \in 1..n : Cut(d, n)[i] = At(d, i)
<1>1. \A i \in 1..n : At(d, i) \in Entry
  BY AtType
<1>2. Cut(d, n) \in Seq(Entry)
  BY <1>1 DEF Cut
<1>3. QED BY <1>2 DEF Cut

LEMMA InsertedFacts ==
  ASSUME NEW d \in Seq(Entry), NEW h \in Entry, NEW at \in 1..(Len(d) + 1)
  PROVE  /\ Inserted(d, h, at) \in Seq(Entry) /\ Len(Inserted(d, h, at)) = Len(d) + 1
         /\ \A i \in 1..(Len(d) + 1) :
              Inserted(d, h, at)[i] = IF i < at THEN d[i] ELSE IF i = at THEN h ELSE d[i - 1]
<1> DEFINE front == SubSeq(d, 1, at - 1)
           back  == SubSeq(d, at, Len(d))
<1>1. /\ front \in Seq(Entry) /\ Len(front) = at - 1
      /\ \A i \in 1..(at - 1) : front[i] = d[i]
  BY SubSeqProperties
<1>2. /\ back \in Seq(Entry) /\ Len(back) = Len(d) + 1 - at
      /\ \A i \in 1..(Len(d) + 1 - at) : back[i] = d[at + i - 1]
  BY SubSeqProperties
<1>3. <<h>> \in Seq(Entry) /\ Len(<<h>>) = 1 /\ <<h>>[1] = h
  OBVIOUS
<1> HIDE DEF front, back
<1>4. /\ front \o <<h>> \in Seq(Entry) /\ Len(front \o <<h>>) = at
      /\ \A i \in 1..at : (front \o <<h>>)[i] = IF i < at THEN d[i] ELSE h
  BY <1>1, <1>3, ConcatProperties
<1>5. Inserted(d, h, at) = (front \o <<h>>) \o back
  BY DEF Inserted, front, back
<1> DEFINE fh == front \o <<h>>
<1> HIDE DEF fh
<1>6. /\ fh \in Seq(Entry) /\ Len(fh) = at
      /\ \A i \in 1..at : fh[i] = IF i < at THEN d[i] ELSE h
  BY <1>4 DEF fh
<1>7. /\ fh \o back \in Seq(Entry) /\ Len(fh \o back) = Len(d) + 1
      /\ \A i \in 1..(Len(d) + 1) : (fh \o back)[i] = IF i <= at THEN fh[i] ELSE back[i - at]
  <2>1. /\ fh \o back \in Seq(Entry) /\ Len(fh \o back) = Len(fh) + Len(back)
        /\ \A i \in 1..(Len(fh) + Len(back)) :
             (fh \o back)[i] = IF i <= Len(fh) THEN fh[i] ELSE back[i - Len(fh)]
    BY <1>2, <1>6, ConcatProperties
  <2>2. Len(fh) + Len(back) = Len(d) + 1 /\ Len(fh) = at
    BY <1>2, <1>6
  <2>3. QED BY <2>1, <2>2
<1>8. QED BY <1>2, <1>5, <1>6, <1>7 DEF fh

-----------------------------------------------------------------------------
(***************************************************************************)
(* The inductive invariant of the types.  A header keeps its type when     *)
(* do_del_post copies it from the index because the lock protects what     *)
(* prepare_write_dir found: until the lock is given back, the entry it     *)
(* returned holds the article that was asked for.  Where the binary search *)
(* found it, that it is this article follows from the ids: wherever two    *)
(* headers have one id, in the index, in .DELETED or in the hands of a     *)
(* process, they are of one article, for every new id is nowid + 1.        *)
(***************************************************************************)
OpType == [pc : {"idle", "picked", "mapped", "locked", "shifted", "removed",
                 "checked", "moved", "append"},
           hdr : Entry, ent : Nat, size : Nat]

\* What process p may rely on while its operation is o and the index is d.
Fits(p, o, d) ==
  /\ o.pc # "idle" => o.hdr \in Header
  /\ o.pc \in {"picked", "mapped", "locked", "shifted", "removed"} => p \in Deleters
  /\ o.pc \in {"checked", "moved", "append"} => p \in Restorers
  /\ o.pc \in {"mapped", "locked", "shifted"} => o.size >= 1
  /\ o.pc = "locked" => o.ent \in 1..o.size /\ At(d, o.ent).art = o.hdr.art

OpOK == \A p \in Movers : Fits(p, op[p], dir)

Headers ==
  {h \in Header : \/ \E i \in 1..Len(dir) : dir[i] = h
                  \/ h \in deleted
                  \/ \E p \in Movers : op[p].hdr = h}

IdNames ==
  \A g \in Headers : /\ g.id <= nowid
                     /\ \A h \in Headers : g.id = h.id => g.art = h.art

Typed == TypeOK /\ OpOK /\ IdNames

(***************************************************************************)
(* What a listed or carried article may rely on while at most one process  *)
(* restores.  Between the shift and the truncation of a deletion, the      *)
(* entries that will stay are those below the size it noted.               *)
(***************************************************************************)
OneRestorer == \A p, q \in Restorers : p = q

Stable ==
  {i \in Positions : \A p \in Deleters : op[p].pc = "shifted" => i < op[p].size}

\* p has the only claim to an article that is live and not listed.
Holds(p) == op[p].pc \in {"shifted", "removed", "moved", "append"}

\* The claims are about articles at which no move got SIGBUS.
Sound(a) == a \notin torn

Live    == \A i \in Stable : Sound(dir[i].art) => file[dir[i].art] = "M"
Once    == \A i, j \in Stable : dir[i].art = dir[j].art /\ Sound(dir[i].art) => i = j
HeldOut == \A p \in Movers :
             Holds(p) /\ Sound(op[p].hdr.art) =>
               /\ file[op[p].hdr.art] = "M"
               /\ \A i \in Stable : dir[i].art # op[p].hdr.art
HeldBy1 == \A p, q \in Movers : /\ Holds(p) /\ Holds(q) /\ Sound(op[p].hdr.art)
                                /\ op[p].hdr.art = op[q].hdr.art
                                => p = q
Dead    == \A p \in Movers : op[p].pc = "checked" => file[op[p].hdr.art] = "D"

Lifecycle == Live /\ Once /\ HeldOut /\ HeldBy1 /\ Dead

\* The ids of the entries that will stay increase, but where one is twice.
Rises == \A i, j \in Stable : i < j => \/ dir[i].id < dir[j].id
                                       \/ dir[i] = dir[j] /\ ~Sound(dir[i].art)

-----------------------------------------------------------------------------
LEMMA InitTyped == Init => Typed
<1> SUFFICES ASSUME Init PROVE Typed
  OBVIOUS
<1>1. TypeOK
  BY BoardAssumption DEF Init, TypeOK, IdleOp
<1>2. OpOK
  BY DEF Init, OpOK, Fits, IdleOp
<1>3. Headers = {}
  BY HeaderFacts DEF Init, Headers, IdleOp
<1>4. QED BY <1>1, <1>2, <1>3 DEF Typed, IdNames

LEMMA TypeFacts ==
  ASSUME TypeOK
  PROVE  /\ dir \in Seq(Entry) /\ Len(dir) \in Nat
         /\ op \in [Movers -> OpType]
         /\ \A p \in Movers : op[p] \in OpType
         /\ \A i \in 1..Len(dir) : dir[i] \in Entry /\ At(dir, i) = dir[i]
BY DEF TypeOK, OpType, Entry, At

\* The step of one process keeps what the others rely on, unless it writes an
\* index that another one has locked.
LEMMA OneMoves ==
  ASSUME TypeOK, OpOK, NEW p \in Movers, NEW o \in OpType,
         op' = [op EXCEPT ![p] = o], Fits(p, o, dir'),
         dir' = dir \/ \A q \in Movers \ {p} : op[q].pc # "locked"
  PROVE  op' \in [Movers -> OpType] /\ OpOK'
<1>1. op' \in [Movers -> OpType] /\ op'[p] = o /\ \A q \in Movers \ {p} : op'[q] = op[q]
  BY TypeFacts
<1>2. ASSUME NEW q \in Movers PROVE Fits(q, op'[q], dir')
  <2>1. CASE q = p
    BY <1>1, <2>1
  <2>2. CASE q # p
    BY <1>1, <2>2 DEF OpOK, Fits
  <2>3. QED BY <2>1, <2>2
<1>3. QED BY <1>1, <1>2 DEF OpOK

LEMMA IdleFacts ==
  /\ IdleOp \in OpType /\ IdleOp.pc = "idle" /\ IdleOp.hdr = Blank
  /\ \A p \in Movers : \A d : Fits(p, IdleOp, d)
BY DEF IdleOp, OpType, Entry, Fits

LEMMA PickTyped ==
  ASSUME Typed, NEW p \in Deleters, Pick(p)
  PROVE  TypeOK' /\ OpOK'
<1>1. PICK i \in 1..Len(dir), e \in Nat :
        /\ dir[i] # Blank
        /\ op' = [op EXCEPT ![p] = [IdleOp EXCEPT !.pc = "picked", !.hdr = dir[i], !.ent = e]]
  <2>1. PICK i \in 1..Len(dir), here \in BOOLEAN :
          /\ dir[i] # Blank
          /\ op' = [op EXCEPT ![p] = [IdleOp EXCEPT !.pc = "picked", !.hdr = dir[i],
                                                    !.ent = IF here THEN i ELSE 0]]
    BY DEF Pick
  <2>2. (IF here THEN i ELSE 0) \in Nat
    OBVIOUS
  <2>3. QED BY <2>1, <2>2
<1> DEFINE o == [IdleOp EXCEPT !.pc = "picked", !.hdr = dir[i], !.ent = e]
<1>2. dir[i] \in Header
  BY <1>1, HeaderFacts, TypeFacts DEF Typed
<1>3. o \in OpType /\ o.pc = "picked" /\ o.hdr = dir[i]
  BY <1>2, IdleFacts DEF OpType, Entry
<1> HIDE DEF o
<1>4. Fits(p, o, dir')
  BY <1>2, <1>3 DEF Fits
<1>5. op' \in [Movers -> OpType] /\ OpOK'
  BY <1>1, <1>3, <1>4, OneMoves DEF Pick, Movers, Typed, o
<1>6. \A q \in Movers : op'[q].pc \in {"locked", "shifted"} => op'[q] = op[q]
  BY <1>1, <1>3, TypeFacts DEF Typed, o
<1>7. QED BY <1>5, <1>6 DEF Typed, TypeOK, OpType, Entry, Pick

LEMMA MapTyped ==
  ASSUME Typed, NEW p \in Deleters, Map(p)
  PROVE  TypeOK' /\ OpOK'
<1> DEFINE o == IF dir = <<>> THEN IdleOp
                ELSE [op[p] EXCEPT !.pc = "mapped", !.size = Len(dir)]
<1>1. p \in Movers /\ op[p] \in OpType /\ Fits(p, op[p], dir) /\ op[p].pc = "picked"
      /\ dir \in Seq(Entry) /\ op' = [op EXCEPT ![p] = o]
  BY TypeFacts DEF Movers, Typed, OpOK, Map
<1>2. /\ o \in OpType
      /\ \/ o = IdleOp
         \/ o.pc = "mapped" /\ o.hdr = op[p].hdr /\ o.size >= 1
  <2>1. dir # <<>> => Len(dir) \in Nat /\ Len(dir) >= 1
    BY <1>1
  <2>2. QED BY <1>1, <2>1, IdleFacts DEF OpType
<1> HIDE DEF o
<1>3. Fits(p, o, dir')
  BY <1>1, <1>2, IdleFacts DEF Fits
<1>4. op' \in [Movers -> OpType] /\ OpOK'
  BY <1>1, <1>2, <1>3, OneMoves DEF Map, Typed
<1>5. \A q \in Movers : op'[q].pc \in {"locked", "shifted"} => op'[q] = op[q]
  BY <1>1, <1>2, IdleFacts, TypeFacts DEF Typed
<1>6. QED BY <1>4, <1>5 DEF Typed, TypeOK, OpType, Entry, Map

(***************************************************************************)
(* prepare_write_dir finds the article asked for or none.                  *)
(***************************************************************************)
LEMMA LocatedFacts ==
  ASSUME Typed, NEW p \in Movers, op[p].hdr \in Header, Located(op[p]) # 0
  PROVE  /\ Located(op[p]) \in 1..op[p].size
         /\ At(dir, Located(op[p])).art = op[p].hdr.art
<1> DEFINE o == op[p]
           r == Search(dir, o.hdr.id, o.size)
<1>1. o \in OpType /\ o.size \in Nat /\ o.hdr.id \in Nat /\ o.hdr.id # 0
  BY TypeFacts, HeaderFacts DEF Typed, OpType
<1>2. CASE o.ent \in 1..o.size /\ At(dir, o.ent).art = o.hdr.art
  BY <1>2 DEF Located
<1>3. CASE ~(o.ent \in 1..o.size /\ At(dir, o.ent).art = o.hdr.art)
  <2>1. r.hit /\ Located(o) = r.at
    BY <1>3 DEF Located
  <2>2. r.at \in 1..o.size /\ At(dir, r.at).id = o.hdr.id
    <3> HIDE DEF o
    <3> QED BY <1>1, <2>1, SearchSound
  <2> DEFINE g == At(dir, r.at)
  <2> HIDE DEF r
  <2>3. g \in Header /\ r.at \in 1..Len(dir) /\ dir[r.at] = g
    BY <1>1, <2>2, TypeFacts, AtType, HeaderFacts DEF Typed, At, Blank
  <2>4. g \in Headers /\ o.hdr \in Headers
    BY <2>3 DEF Headers
  <2>5. g.art = o.hdr.art
    BY <2>2, <2>4 DEF Typed, IdNames
  <2>6. QED BY <2>1, <2>2, <2>5
<1>4. QED BY <1>2, <1>3

LEMMA PrepareTyped ==
  ASSUME Typed, NEW p \in Deleters, Prepare(p)
  PROVE  TypeOK' /\ OpOK'
<1> DEFINE e == Located(op[p])
<1>1. p \in Movers /\ op[p] \in OpType /\ Fits(p, op[p], dir) /\ op[p].pc = "mapped"
      /\ lock = NoOne /\ dir' = dir
  BY TypeFacts DEF Movers, Typed, OpOK, Prepare
<1>2. \A q \in Movers : op[q].pc \notin {"locked", "shifted"}
  BY <1>1, BoardAssumption DEF Typed, TypeOK, Movers
<1>3. CASE e = 0
  <2>1. op' = [op EXCEPT ![p] = IdleOp] /\ lock' = lock
    BY <1>3 DEF Prepare
  <2>2. op' \in [Movers -> OpType] /\ OpOK'
    BY <1>1, <2>1, IdleFacts, OneMoves DEF Typed
  <2>3. \A q \in Movers : op'[q].pc \notin {"locked", "shifted"}
    BY <1>2, <2>1, IdleFacts, TypeFacts DEF Typed
  <2>4. QED BY <2>1, <2>2, <2>3 DEF Typed, TypeOK, OpType, Entry, Prepare
<1>4. CASE e # 0
  <2> DEFINE o == [op[p] EXCEPT !.pc = "locked", !.ent = e]
  <2>1. op' = [op EXCEPT ![p] = o] /\ lock' = p
    BY <1>4 DEF Prepare
  <2>2. e \in 1..op[p].size /\ At(dir, e).art = op[p].hdr.art
    BY <1>1, <1>4, LocatedFacts DEF Fits
  <2> HIDE DEF e
  <2>8. op[p].size \in Nat /\ e \in Nat
    BY <1>1, <2>2 DEF OpType
  <2>3. /\ o \in OpType /\ o.pc = "locked" /\ o.hdr = op[p].hdr /\ o.ent = e
        /\ o.size = op[p].size
    BY <1>1, <2>8 DEF OpType
  <2> HIDE DEF o
  <2>4. Fits(p, o, dir')
    BY <1>1, <2>2, <2>3 DEF Fits
  <2>5. op' \in [Movers -> OpType] /\ OpOK'
    BY <1>1, <2>1, <2>3, <2>4, OneMoves DEF Typed
  <2>6. \A q \in Movers : op'[q].pc \in {"locked", "shifted"} => q = p
    BY <1>2, <2>1, TypeFacts DEF Typed
  <2>7. QED BY <1>1, <2>1, <2>5, <2>6 DEF Typed, TypeOK, OpType, Entry, Prepare
<1>5. QED BY <1>3, <1>4

LEMMA ShiftTyped ==
  ASSUME Typed, NEW p \in Deleters, Shift(p)
  PROVE  TypeOK' /\ OpOK'
<1> DEFINE h == At(dir, op[p].ent)
           o == [op[p] EXCEPT !.pc = "shifted", !.hdr = h]
<1>1. /\ p \in Movers /\ op[p] \in OpType /\ Fits(p, op[p], dir) /\ op[p].pc = "locked"
      /\ dir \in Seq(Entry) /\ dir' = Closed(dir, op[p].ent, op[p].size)
      /\ op' = [op EXCEPT ![p] = o]
  BY TypeFacts DEF Movers, Typed, OpOK, Shift
<1>2. h \in Header
  BY <1>1, AtType, HeaderFacts DEF Fits
<1>3. /\ o \in OpType /\ o.pc = "shifted" /\ o.hdr = h /\ o.size = op[p].size
  <2> HIDE DEF h
  <2> QED BY <1>1, <1>2 DEF OpType, Entry
<1> HIDE DEF o
<1>4. Fits(p, o, dir')
  BY <1>1, <1>2, <1>3 DEF Fits
<1>5. \A q \in Movers : op[q].pc \in {"locked", "shifted"} => q = p
  BY <1>1, BoardAssumption DEF Typed, TypeOK, Movers
<1>6. op' \in [Movers -> OpType] /\ OpOK'
  <2> HIDE DEF h
  <2> QED BY <1>1, <1>3, <1>4, <1>5, OneMoves DEF Typed
<1>7. dir' \in Seq(Entry)
  BY <1>1, ClosedFacts DEF OpType
<1>8. \A q \in Movers : op'[q].pc \in {"locked", "shifted"} => q = p
  BY <1>1, <1>5, TypeFacts DEF Typed
<1>9. lock = p
  BY <1>1 DEF Typed, TypeOK
<1>10. QED BY <1>6, <1>7, <1>8, <1>9 DEF Typed, TypeOK, OpType, Entry, Shift

LEMMA ShiftFaultTyped ==
  ASSUME Typed, NEW p \in Deleters, ShiftFault(p)
  PROVE  TypeOK' /\ OpOK'
<1> DEFINE h == At(dir, op[p].ent)
           o == [op[p] EXCEPT !.pc = "removed", !.hdr = h]
<1>1. /\ p \in Movers /\ op[p] \in OpType /\ Fits(p, op[p], dir) /\ op[p].pc = "locked"
      /\ dir \in Seq(Entry) /\ op' = [op EXCEPT ![p] = o] /\ lock' = NoOne
  BY TypeFacts DEF Movers, Typed, OpOK, ShiftFault
<1>0. PICK k \in op[p].ent..op[p].size :
        /\ dir' = Closed(dir, op[p].ent, k)
        /\ torn' = torn \cup ({At(dir, k).art} \cap Arts)
  BY DEF ShiftFault
<1>2. h \in Header
  BY <1>1, AtType, HeaderFacts DEF Fits
<1>3. /\ o \in OpType /\ o.pc = "removed" /\ o.hdr = h
  <2> HIDE DEF h
  <2> QED BY <1>1, <1>2 DEF OpType, Entry
<1> HIDE DEF o
<1>4. Fits(p, o, dir')
  BY <1>1, <1>2, <1>3 DEF Fits
<1>5. \A q \in Movers : op[q].pc \in {"locked", "shifted"} => q = p
  BY <1>1, BoardAssumption DEF Typed, TypeOK, Movers
<1>6. op' \in [Movers -> OpType] /\ OpOK'
  <2> HIDE DEF h
  <2> QED BY <1>1, <1>3, <1>4, <1>5, OneMoves DEF Typed
<1>7. dir' \in Seq(Entry)
  <2>1. op[p].ent \in Nat /\ k \in Nat
    BY <1>1 DEF OpType
  <2>2. QED BY <1>1, <1>0, <2>1, ClosedFacts
<1>8. \A q \in Movers : op'[q].pc \notin {"locked", "shifted"}
  BY <1>1, <1>3, <1>5, TypeFacts DEF Typed
<1>9. torn' \subseteq Arts
  BY <1>0 DEF Typed, TypeOK
<1>10. QED BY <1>1, <1>6, <1>7, <1>8, <1>9 DEF Typed, TypeOK, OpType, Entry, ShiftFault

LEMMA TruncateTyped ==
  ASSUME Typed, NEW p \in Deleters, Truncate(p)
  PROVE  TypeOK' /\ OpOK'
<1> DEFINE o == [op[p] EXCEPT !.pc = "removed"]
<1>1. /\ p \in Movers /\ op[p] \in OpType /\ Fits(p, op[p], dir) /\ op[p].pc = "shifted"
      /\ dir \in Seq(Entry) /\ dir' = Cut(dir, op[p].size - 1)
      /\ op' = [op EXCEPT ![p] = o] /\ lock' = NoOne
  BY TypeFacts DEF Movers, Typed, OpOK, Truncate, Cut
<1>2. o \in OpType /\ o.pc = "removed" /\ o.hdr = op[p].hdr
  BY <1>1 DEF OpType
<1> HIDE DEF o
<1>3. Fits(p, o, dir')
  BY <1>1, <1>2 DEF Fits
<1>4. \A q \in Movers : op[q].pc \in {"locked", "shifted"} => q = p
  BY <1>1, BoardAssumption DEF Typed, TypeOK, Movers
<1>5. op' \in [Movers -> OpType] /\ OpOK'
  BY <1>1, <1>2, <1>3, <1>4, OneMoves DEF Typed
<1>6. dir' \in Seq(Entry)
  <2>1. op[p].size - 1 \in Nat
    BY <1>1 DEF OpType, Fits
  <2>2. QED BY <1>1, <2>1, CutFacts
<1>7. \A q \in Movers : op'[q].pc \notin {"locked", "shifted"}
  BY <1>1, <1>2, <1>4, TypeFacts DEF Typed
<1>8. QED BY <1>1, <1>5, <1>6, <1>7 DEF Typed, TypeOK, OpType, Entry, Truncate

\* What f_mv leaves.
LEMMA RenamedFacts ==
  ASSUME TypeOK, NEW a \in Arts, NEW from, NEW to \in {"M", "D"}
  PROVE  /\ Renamed(a, from, to) \in [Arts -> {"none", "M", "D"}]
         /\ \A b \in Arts : b # a => Renamed(a, from, to)[b] = file[b]
         /\ Renamed(a, from, to)[a] = IF file[a] = from THEN to ELSE file[a]
BY DEF TypeOK, Renamed

LEMMA CancelTyped ==
  ASSUME Typed, NEW p \in Deleters, Cancel(p)
  PROVE  TypeOK' /\ OpOK'
<1>1. /\ p \in Movers /\ Fits(p, op[p], dir) /\ op[p].pc = "removed"
      /\ dir' = dir /\ op' = [op EXCEPT ![p] = IdleOp]
  BY DEF Movers, Typed, OpOK, Cancel
<1>2. op' \in [Movers -> OpType] /\ OpOK'
  BY <1>1, IdleFacts, OneMoves DEF Typed
<1>3. \A q \in Movers : op'[q].pc \in {"locked", "shifted"} => op'[q] = op[q]
  BY <1>1, IdleFacts, TypeFacts DEF Typed
<1>4. op[p].hdr \in Header /\ op[p].hdr.art \in Arts
  BY <1>1, HeaderFacts DEF Fits
<1>5. file' \in [Arts -> {"none", "M", "D"}]
  BY <1>4, RenamedFacts DEF Cancel, Typed
<1>6. QED BY <1>2, <1>3, <1>4, <1>5 DEF Typed, TypeOK, OpType, Entry, Cancel

LEMMA UndelCheckTyped ==
  ASSUME Typed, NEW p \in Restorers, UndelCheck(p)
  PROVE  TypeOK' /\ OpOK'
<1>1. PICK h \in deleted :
        op' = [op EXCEPT ![p] = [IdleOp EXCEPT !.pc = "checked", !.hdr = h]]
  BY DEF UndelCheck
<1> DEFINE o == [IdleOp EXCEPT !.pc = "checked", !.hdr = h]
<1>2. h \in Header /\ p \in Movers /\ dir' = dir
  BY DEF Typed, TypeOK, Movers, UndelCheck
<1>3. o \in OpType /\ o.pc = "checked" /\ o.hdr = h
  BY <1>2, IdleFacts DEF OpType, Entry
<1> HIDE DEF o
<1>4. Fits(p, o, dir')
  BY <1>2, <1>3 DEF Fits
<1>5. op' \in [Movers -> OpType] /\ OpOK'
  BY <1>1, <1>2, <1>3, <1>4, OneMoves DEF Typed, o
<1>6. \A q \in Movers : op'[q].pc \in {"locked", "shifted"} => op'[q] = op[q]
  BY <1>1, <1>3, TypeFacts DEF Typed, o
<1>7. QED BY <1>5, <1>6 DEF Typed, TypeOK, OpType, Entry, UndelCheck

LEMMA UndelMoveTyped ==
  ASSUME Typed, NEW p \in Restorers, UndelMove(p)
  PROVE  TypeOK' /\ OpOK'
<1> DEFINE o == [op[p] EXCEPT !.pc = "moved"]
<1>1. /\ p \in Movers /\ op[p] \in OpType /\ Fits(p, op[p], dir) /\ op[p].pc = "checked"
      /\ dir' = dir /\ op' = [op EXCEPT ![p] = o]
  BY TypeFacts DEF Movers, Typed, OpOK, UndelMove
<1>2. o \in OpType /\ o.pc = "moved" /\ o.hdr = op[p].hdr
  BY <1>1 DEF OpType
<1> HIDE DEF o
<1>3. Fits(p, o, dir')
  BY <1>1, <1>2 DEF Fits
<1>4. op' \in [Movers -> OpType] /\ OpOK'
  BY <1>1, <1>2, <1>3, OneMoves DEF Typed
<1>5. \A q \in Movers : op'[q].pc \in {"locked", "shifted"} => op'[q] = op[q]
  BY <1>1, <1>2, TypeFacts DEF Typed
<1>6. op[p].hdr.art \in Arts
  BY <1>1, HeaderFacts DEF Fits
<1>7. file' \in [Arts -> {"none", "M", "D"}]
  BY <1>6, RenamedFacts DEF UndelMove, Typed
<1>8. QED BY <1>4, <1>5, <1>7 DEF Typed, TypeOK, OpType, Entry, UndelMove

LEMMA ReinsertTyped ==
  ASSUME Typed, NEW p \in Restorers, Reinsert(p)
  PROVE  TypeOK' /\ OpOK'
<1> DEFINE h == op[p].hdr
           r == Search(dir, h.id, Len(dir))
<1>1. /\ p \in Movers /\ op[p] \in OpType /\ Fits(p, op[p], dir) /\ op[p].pc = "moved"
      /\ dir \in Seq(Entry) /\ Len(dir) \in Nat /\ lock = NoOne
  BY TypeFacts DEF Movers, Typed, OpOK, Reinsert
<1>2. h \in Header /\ h \in Entry /\ h.id \in Nat
  BY <1>1, HeaderFacts DEF Fits, Entry
<1>3. \A q \in Movers : op[q].pc \notin {"locked", "shifted"}
  BY <1>1, BoardAssumption DEF Typed, TypeOK, Movers
<1>4. CASE dir # <<>> /\ ~r.hit /\ dir' = Inserted(dir, h, r.at)
           /\ op' = [op EXCEPT ![p] = IdleOp] /\ lock' = lock
  <2>1. r.at \in 1..(Len(dir) + 1)
    <3> HIDE DEF h
    <3> QED BY <1>1, <1>2, SearchSound
  <2> HIDE DEF r
  <2>2. dir' \in Seq(Entry)
    <3> HIDE DEF h
    <3> QED BY <1>1, <1>2, <1>4, <2>1, InsertedFacts
  <2>3. op' \in [Movers -> OpType] /\ OpOK'
    BY <1>1, <1>3, <1>4, IdleFacts, OneMoves DEF Typed
  <2>4. \A q \in Movers : op'[q].pc \notin {"locked", "shifted"}
    BY <1>3, <1>4, IdleFacts, TypeFacts DEF Typed
  <2>5. QED BY <1>4, <2>2, <2>3, <2>4 DEF Typed, TypeOK, OpType, Entry, Reinsert
<1>5. CASE op' = [op EXCEPT ![p] = [op[p] EXCEPT !.pc = "append"]]
           /\ lock' \in {p, lock} /\ dir' = dir
  <2> DEFINE o == [op[p] EXCEPT !.pc = "append"]
  <2>1. o \in OpType /\ o.pc = "append" /\ o.hdr = h
    BY <1>1 DEF OpType
  <2> HIDE DEF o
  <2>2. Fits(p, o, dir')
    BY <1>1, <2>1 DEF Fits
  <2>3. op' \in [Movers -> OpType] /\ OpOK'
    BY <1>1, <1>5, <2>1, <2>2, OneMoves DEF Typed, o
  <2>4. \A q \in Movers : op'[q].pc \notin {"locked", "shifted"}
    BY <1>3, <1>5, <2>1, TypeFacts DEF Typed, o
  <2>5. QED BY <1>1, <1>5, <2>3, <2>4 DEF Typed, TypeOK, OpType, Entry, Reinsert
<1>6. QED
  <2> HIDE DEF r
  <2> QED BY <1>4, <1>5 DEF Reinsert, r

LEMMA ReappendTyped ==
  ASSUME Typed, NEW p \in Restorers, Reappend(p)
  PROVE  TypeOK' /\ OpOK'
<1> DEFINE h == [op[p].hdr EXCEPT !.id = NextId]
<1>1. /\ p \in Movers /\ Fits(p, op[p], dir) /\ op[p].pc = "append" /\ lock \in {NoOne, p}
      /\ dir \in Seq(Entry) /\ dir' = Append(dir, h)
      /\ op' = [op EXCEPT ![p] = IdleOp] /\ lock' = NoOne
  BY TypeFacts DEF Movers, Typed, OpOK, Reappend
<1>2. nowid + 1 \in 1..MaxId
  BY BoardAssumption DEF Reappend, Typed, TypeOK
<1>3. h \in Entry
  BY <1>1, <1>2 DEF Fits, Header, Entry, NextId
<1>4. \A q \in Movers : op[q].pc \notin {"locked", "shifted"}
  BY <1>1, BoardAssumption DEF Typed, TypeOK, Movers
<1>5. op' \in [Movers -> OpType] /\ OpOK'
  BY <1>1, <1>4, IdleFacts, OneMoves DEF Typed
<1>6. dir' \in Seq(Entry)
  <2> HIDE DEF h
  <2> QED BY <1>1, <1>3, AppendFacts
<1>7. \A q \in Movers : op'[q].pc \notin {"locked", "shifted"}
  BY <1>1, <1>4, IdleFacts, TypeFacts DEF Typed
<1>8. QED BY <1>1, <1>5, <1>6, <1>7 DEF Typed, TypeOK, OpType, Entry, Reappend

LEMMA PostTyped ==
  ASSUME Typed, NEW a \in Arts, Post(a)
  PROVE  TypeOK' /\ OpOK'
<1> DEFINE h == [art |-> a, id |-> NextId]
<1>1. dir \in Seq(Entry) /\ dir' = Append(dir, h) /\ op' = op /\ lock = NoOne
  BY TypeFacts DEF Typed, Post
<1>2. h \in Entry
  BY BoardAssumption DEF Post, Typed, TypeOK, Header, Entry, NextId
<1>3. dir' \in Seq(Entry)
  <2> HIDE DEF h
  <2> QED BY <1>1, <1>2, AppendFacts
<1>4. \A q \in Movers : op[q].pc \notin {"locked", "shifted"}
  BY <1>1, BoardAssumption DEF Typed, TypeOK, Movers
<1>5. OpOK'
  BY <1>1, <1>4 DEF Typed, OpOK, Fits
<1>6. QED BY <1>1, <1>3, <1>5 DEF Typed, TypeOK, Entry, Post

LEMMA TypeStep ==
  ASSUME Typed, Next
  PROVE  TypeOK' /\ OpOK'
BY PostTyped, PickTyped, MapTyped, PrepareTyped, ShiftTyped, ShiftFaultTyped, TruncateTyped,
   CancelTyped, UndelCheckTyped, UndelMoveTyped, ReinsertTyped, ReappendTyped DEF Next

(***************************************************************************)
(* A step makes no header but one under the next id.                       *)
(***************************************************************************)
LEMMA Members ==
  ASSUME TypeOK
  PROVE  /\ \A i : At(dir, i) \in Headers \cup {Blank}
         /\ \A i \in 1..Len(dir) : dir[i] \in Headers \cup {Blank}
         /\ deleted \subseteq Headers
         /\ \A p \in Movers : op[p].hdr \in Headers \cup {Blank}
<1>1. \A i \in 1..Len(dir) : dir[i] \in Headers \cup {Blank}
  BY TypeFacts, HeaderFacts DEF Headers
<1>2. \A i : At(dir, i) \in Headers \cup {Blank}
  BY <1>1 DEF At
<1>3. deleted \subseteq Headers
  BY DEF TypeOK, Headers
<1>4. \A p \in Movers : op[p].hdr \in Headers \cup {Blank}
  BY TypeFacts, HeaderFacts DEF OpType, Headers
<1>5. QED BY <1>1, <1>2, <1>3, <1>4

LEMMA Sources ==
  ASSUME NEW S, \A i \in 1..Len(dir') : dir'[i] \in S \cup {Blank}, deleted' \subseteq S,
         \A p \in Movers : op'[p].hdr \in S \cup {Blank}
  PROVE  Headers' \subseteq S
BY HeaderFacts DEF Headers

LEMMA OtherHeaders ==
  ASSUME TypeOK, NEW p \in Movers, NEW o, NEW S, Headers \subseteq S,
         op' = [op EXCEPT ![p] = o], o.hdr \in S \cup {Blank}
  PROVE  \A q \in Movers : op'[q].hdr \in S \cup {Blank}
<1>1. \A q \in Movers : op'[q] = IF q = p THEN o ELSE op[q]
  BY TypeFacts
<1>2. QED BY <1>1, Members

LEMMA HeadersOfDeleter ==
  ASSUME Typed, NEW p \in Deleters,
         \/ Pick(p) \/ Map(p) \/ Prepare(p)
         \/ Shift(p) \/ ShiftFault(p) \/ Truncate(p) \/ Cancel(p)
  PROVE  Headers' \subseteq Headers
<1>1. /\ p \in Movers /\ op[p] \in OpType /\ dir \in Seq(Entry) /\ TypeOK
      /\ op[p].hdr \in Headers \cup {Blank} /\ Fits(p, op[p], dir)
  BY TypeFacts, Members DEF Movers, Typed, OpOK
<1>2. CASE Pick(p)
  <2>1. PICK i \in 1..Len(dir), here \in BOOLEAN :
          op' = [op EXCEPT ![p] = [IdleOp EXCEPT !.pc = "picked", !.hdr = dir[i],
                                                 !.ent = IF here THEN i ELSE 0]]
    BY <1>2 DEF Pick
  <2> DEFINE o == [IdleOp EXCEPT !.pc = "picked", !.hdr = dir[i],
                                 !.ent = IF here THEN i ELSE 0]
  <2>2. o.hdr = dir[i]
    BY DEF IdleOp
  <2> HIDE DEF o
  <2>3. \A q \in Movers : op'[q].hdr \in Headers \cup {Blank}
    BY <1>1, <2>1, <2>2, Members, OtherHeaders DEF o
  <2>4. QED BY <1>1, <1>2, <2>3, Members, Sources DEF Pick
<1>3. CASE Map(p)
  <2> DEFINE o == IF dir = <<>> THEN IdleOp
                  ELSE [op[p] EXCEPT !.pc = "mapped", !.size = Len(dir)]
  <2>1. op' = [op EXCEPT ![p] = o]
    BY <1>3 DEF Map
  <2>2. o.hdr \in Headers \cup {Blank}
    BY <1>1, IdleFacts DEF OpType
  <2> HIDE DEF o
  <2>3. \A q \in Movers : op'[q].hdr \in Headers \cup {Blank}
    BY <1>1, <2>1, <2>2, OtherHeaders
  <2>4. QED BY <1>1, <1>3, <2>3, Members, Sources DEF Map
<1>4. CASE Prepare(p)
  <2> DEFINE e == Located(op[p])
             o == IF e = 0 THEN IdleOp ELSE [op[p] EXCEPT !.pc = "locked", !.ent = e]
  <2>1. op' = [op EXCEPT ![p] = o]
    BY <1>4 DEF Prepare
  <2>2. o.hdr \in Headers \cup {Blank}
    <3> HIDE DEF e
    <3> QED BY <1>1, IdleFacts DEF OpType
  <2> HIDE DEF o
  <2>3. \A q \in Movers : op'[q].hdr \in Headers \cup {Blank}
    BY <1>1, <2>1, <2>2, OtherHeaders
  <2>4. QED BY <1>1, <1>4, <2>3, Members, Sources DEF Prepare
<1>5. CASE Shift(p)
  <2> DEFINE o == [op[p] EXCEPT !.pc = "shifted", !.hdr = At(dir, op[p].ent)]
  <2>1. op' = [op EXCEPT ![p] = o] /\ dir' = Closed(dir, op[p].ent, op[p].size)
    BY <1>5 DEF Shift
  <2>2. o.hdr \in Headers \cup {Blank}
    BY <1>1, Members DEF OpType
  <2> HIDE DEF o
  <2>3. \A q \in Movers : op'[q].hdr \in Headers \cup {Blank}
    BY <1>1, <2>1, <2>2, OtherHeaders
  <2>4. \A i \in 1..Len(dir') : dir'[i] \in Headers \cup {Blank}
    <3>1. op[p].ent \in Nat /\ op[p].size \in Nat
      BY <1>1 DEF OpType
    <3>2. QED BY <1>1, <2>1, <3>1, ClosedFacts, Members
  <2>5. QED BY <1>1, <1>5, <2>3, <2>4, Members, Sources DEF Shift
<1>6. CASE Truncate(p)
  <2> DEFINE o == [op[p] EXCEPT !.pc = "removed"]
  <2>1. op' = [op EXCEPT ![p] = o] /\ dir' = Cut(dir, op[p].size - 1)
    BY <1>6 DEF Truncate, Cut
  <2>2. o.hdr \in Headers \cup {Blank}
    BY <1>1 DEF OpType
  <2> HIDE DEF o
  <2>3. \A q \in Movers : op'[q].hdr \in Headers \cup {Blank}
    BY <1>1, <2>1, <2>2, OtherHeaders
  <2>4. \A i \in 1..Len(dir') : dir'[i] \in Headers \cup {Blank}
    <3>1. op[p].size - 1 \in Nat
      BY <1>1, <1>6 DEF OpType, Fits, Truncate
    <3>2. QED BY <1>1, <2>1, <3>1, CutFacts, Members
  <2>5. QED BY <1>1, <1>6, <2>3, <2>4, Members, Sources DEF Truncate
<1>7. CASE Cancel(p)
  <2>1. \A q \in Movers : op'[q].hdr \in Headers \cup {Blank}
    BY <1>1, <1>7, IdleFacts, OtherHeaders DEF Cancel
  <2>2. op[p].hdr \in Headers
    BY <1>1, <1>7, HeaderFacts DEF Cancel, Fits
  <2>3. QED BY <1>1, <1>7, <2>1, <2>2, Members, Sources DEF Cancel
<1>8. CASE ShiftFault(p)
  <2> DEFINE o == [op[p] EXCEPT !.pc = "removed", !.hdr = At(dir, op[p].ent)]
  <2>1. PICK k \in op[p].ent..op[p].size : dir' = Closed(dir, op[p].ent, k)
    BY <1>8 DEF ShiftFault
  <2>2. op' = [op EXCEPT ![p] = o] /\ deleted' = deleted
    BY <1>8 DEF ShiftFault
  <2>3. o.hdr \in Headers \cup {Blank}
    BY <1>1, Members DEF OpType
  <2> HIDE DEF o
  <2>4. \A q \in Movers : op'[q].hdr \in Headers \cup {Blank}
    BY <1>1, <2>2, <2>3, OtherHeaders
  <2>5. \A i \in 1..Len(dir') : dir'[i] \in Headers \cup {Blank}
    <3>1. op[p].ent \in Nat /\ k \in Nat
      BY <1>1 DEF OpType
    <3>2. QED BY <1>1, <2>1, <3>1, ClosedFacts, Members
  <2>6. QED BY <1>1, <2>2, <2>4, <2>5, Members, Sources
<1>9. QED BY <1>2, <1>3, <1>4, <1>5, <1>6, <1>7, <1>8

LEMMA HeadersOfRestorer ==
  ASSUME Typed, NEW p \in Restorers, UndelCheck(p) \/ UndelMove(p) \/ Reinsert(p)
  PROVE  Headers' \subseteq Headers
<1>1. /\ p \in Movers /\ op[p] \in OpType /\ dir \in Seq(Entry) /\ Len(dir) \in Nat /\ TypeOK
      /\ op[p].hdr \in Headers \cup {Blank} /\ Fits(p, op[p], dir)
  BY TypeFacts, Members DEF Movers, Typed, OpOK
<1>2. CASE UndelCheck(p)
  <2>1. PICK h \in deleted :
          op' = [op EXCEPT ![p] = [IdleOp EXCEPT !.pc = "checked", !.hdr = h]]
    BY <1>2 DEF UndelCheck
  <2> DEFINE o == [IdleOp EXCEPT !.pc = "checked", !.hdr = h]
  <2>2. o.hdr = h
    BY DEF IdleOp
  <2> HIDE DEF o
  <2>3. \A q \in Movers : op'[q].hdr \in Headers \cup {Blank}
    BY <1>1, <2>1, <2>2, Members, OtherHeaders DEF o
  <2>4. QED BY <1>1, <1>2, <2>3, Members, Sources DEF UndelCheck
<1>3. CASE UndelMove(p)
  <2> DEFINE o == [op[p] EXCEPT !.pc = "moved"]
  <2>1. op' = [op EXCEPT ![p] = o]
    BY <1>3 DEF UndelMove
  <2>2. o.hdr \in Headers \cup {Blank}
    BY <1>1 DEF OpType
  <2> HIDE DEF o
  <2>3. \A q \in Movers : op'[q].hdr \in Headers \cup {Blank}
    BY <1>1, <2>1, <2>2, OtherHeaders
  <2>4. QED BY <1>1, <1>3, <2>3, Members, Sources DEF UndelMove
<1>4. CASE Reinsert(p)
  <2> DEFINE h == op[p].hdr
             r == Search(dir, h.id, Len(dir))
  <2>1. h \in Header /\ h \in Entry /\ h.id \in Nat
    BY <1>1, <1>4, HeaderFacts DEF Fits, Entry, Reinsert
  <2>2. r.at \in 1..(Len(dir) + 1)
    <3> HIDE DEF h
    <3> QED BY <1>1, <2>1, SearchSound
  <2> HIDE DEF r
  <2>3. CASE dir' = Inserted(dir, h, r.at) /\ op' = [op EXCEPT ![p] = IdleOp]
    <3>1. \A q \in Movers : op'[q].hdr \in Headers \cup {Blank}
      BY <1>1, <2>3, IdleFacts, OtherHeaders
    <3>2. \A i \in 1..Len(dir') : dir'[i] \in Headers \cup {Blank}
      <4>1. /\ Len(dir') = Len(dir) + 1
            /\ \A i \in 1..(Len(dir) + 1) :
                 dir'[i] = IF i < r.at THEN dir[i] ELSE IF i = r.at THEN h ELSE dir[i - 1]
        <5> DEFINE d == Inserted(dir, h, r.at)
        <5> HIDE DEF h
        <5>1. /\ Len(d) = Len(dir) + 1
              /\ \A i \in 1..(Len(dir) + 1) :
                   d[i] = IF i < r.at THEN dir[i] ELSE IF i = r.at THEN h ELSE dir[i - 1]
          BY <1>1, <2>1, <2>2, InsertedFacts
        <5>2. dir' = d
          BY <2>3
        <5> HIDE DEF d
        <5>3. QED BY <5>1, <5>2
      <4>2. ASSUME NEW i \in 1..(Len(dir) + 1)
            PROVE  dir'[i] \in Headers \cup {Blank}
        <5>1. i < r.at => i \in 1..Len(dir)
          BY <1>1, <2>2
        <5>2. i > r.at => i - 1 \in 1..Len(dir)
          BY <1>1, <2>2
        <5> HIDE DEF h
        <5>3. h \in Headers \cup {Blank}
          BY <1>1 DEF h
        <5>4. i < r.at \/ i = r.at \/ i > r.at
          BY <2>2
        <5>5. CASE i < r.at
          BY <1>1, <4>1, <5>1, <5>5, Members
        <5>6. CASE i = r.at
          BY <4>1, <5>3, <5>6, <2>2
        <5>7. CASE i > r.at
          BY <1>1, <2>2, <4>1, <5>2, <5>7, Members
        <5>8. QED BY <5>4, <5>5, <5>6, <5>7
      <4>3. QED BY <4>1, <4>2
    <3>3. QED BY <1>1, <1>4, <3>1, <3>2, Members, Sources DEF Reinsert
  <2>4. CASE dir' = dir /\ op' = [op EXCEPT ![p] = [op[p] EXCEPT !.pc = "append"]]
    <3> DEFINE o == [op[p] EXCEPT !.pc = "append"]
    <3>1. o.hdr = h
      BY <1>1 DEF OpType
    <3> HIDE DEF o
    <3>2. \A q \in Movers : op'[q].hdr \in Headers \cup {Blank}
      BY <1>1, <2>4, <3>1, OtherHeaders DEF o
    <3>3. QED BY <1>1, <1>4, <2>4, <3>2, Members, Sources DEF Reinsert
  <2>5. QED BY <1>4, <2>3, <2>4 DEF Reinsert, r
<1>5. QED BY <1>2, <1>3, <1>4

\* A post and a restored article come under the next id.
LEMMA HeaderAdded ==
  ASSUME Typed, NEW h \in Header, h.id = nowid + 1, nowid' = nowid + 1,
         dir' = Append(dir, h), deleted' = deleted,
         \A q \in Movers : op'[q].hdr \in Headers \cup {Blank}
  PROVE  IdNames'
<1>1. TypeOK /\ dir \in Seq(Entry) /\ h \in Entry /\ nowid \in Nat /\ Len(dir) \in Nat
  BY TypeFacts DEF Typed, TypeOK, Entry
<1>2. \A i \in 1..Len(dir') : dir'[i] \in (Headers \cup {h}) \cup {Blank}
  <2>1. /\ Len(dir') = Len(dir) + 1 /\ dir'[Len(dir) + 1] = h
        /\ \A i \in 1..Len(dir) : dir'[i] = dir[i]
    BY <1>1, AppendFacts
  <2>2. QED BY <1>1, <2>1, Members
<1>3. Headers' \subseteq Headers \cup {h}
  BY <1>1, <1>2, Members, Sources
<1>4. \A g \in Headers : g.id \in Nat /\ g.id <= nowid
  BY HeaderFacts DEF Headers, Typed, IdNames
<1>5. QED BY <1>1, <1>3, <1>4 DEF Typed, IdNames

LEMMA IdNamesStep ==
  ASSUME Typed, Next
  PROVE  IdNames'
<1>1. ASSUME Headers' \subseteq Headers, nowid' = nowid PROVE IdNames'
  BY <1>1 DEF Typed, IdNames
<1>2. ASSUME NEW a \in Arts, Post(a) PROVE IdNames'
  <2>1. [art |-> a, id |-> NextId] \in Header
    BY <1>2, BoardAssumption DEF Post, Typed, TypeOK, Header, NextId
  <2>2. \A q \in Movers : op'[q].hdr \in Headers \cup {Blank}
    BY <1>2, Members DEF Post, Typed
  <2>3. QED BY <1>2, <2>1, <2>2, HeaderAdded DEF Post, NextId
<1>3. ASSUME NEW p \in Deleters,
             \/ Pick(p) \/ Map(p) \/ Prepare(p)
             \/ Shift(p) \/ ShiftFault(p) \/ Truncate(p) \/ Cancel(p)
      PROVE  IdNames'
  <2>1. nowid' = nowid
    BY <1>3 DEF Pick, Map, Prepare, Shift, ShiftFault, Truncate, Cancel
  <2>2. QED BY <1>1, <1>3, <2>1, HeadersOfDeleter
<1>4. ASSUME NEW p \in Restorers, UndelCheck(p) \/ UndelMove(p) \/ Reinsert(p) PROVE IdNames'
  <2>1. nowid' = nowid
    BY <1>4 DEF UndelCheck, UndelMove, Reinsert
  <2>2. QED BY <1>1, <1>4, <2>1, HeadersOfRestorer
<1>5. ASSUME NEW p \in Restorers, Reappend(p) PROVE IdNames'
  <2> DEFINE h == [op[p].hdr EXCEPT !.id = NextId]
  <2>1. p \in Movers /\ op[p].hdr \in Header
    BY <1>5 DEF Movers, Typed, OpOK, Fits, Reappend
  <2>2. nowid + 1 \in 1..MaxId
    BY <1>5, BoardAssumption DEF Reappend, Typed, TypeOK
  <2>3. h \in Header /\ h.id = nowid + 1
    BY <2>1, <2>2 DEF Header, NextId
  <2>4. \A q \in Movers : op'[q].hdr \in Headers \cup {Blank}
    BY <1>5, <2>1, IdleFacts, OtherHeaders DEF Reappend, Typed
  <2>5. dir' = Append(dir, h) /\ nowid' = nowid + 1 /\ deleted' = deleted
    BY <1>5 DEF Reappend
  <2> HIDE DEF h
  <2>6. QED BY <2>3, <2>4, <2>5, HeaderAdded
<1>6. QED BY <1>2, <1>3, <1>4, <1>5 DEF Next

LEMMA TypedHolds == Spec => []Typed
<1>1. Typed /\ [Next]_bvars => Typed'
  <2> SUFFICES ASSUME Typed, [Next]_bvars PROVE Typed'
    OBVIOUS
  <2>1. CASE Next
    BY <2>1, TypeStep, IdNamesStep DEF Typed
  <2>2. CASE UNCHANGED bvars
    BY <2>2 DEF bvars, Typed, TypeOK, OpOK, Fits, IdNames, Headers, At
  <2>3. QED BY <2>1, <2>2
<1>2. QED BY <1>1, InitTyped, PTL DEF Spec

(***************************************************************************)
(* Every variable keeps its type; the lock of .DIR belongs to the process  *)
(* that stands between its writew_lock and its un_lock.                    *)
(***************************************************************************)
THEOREM BoardTypes == Spec => []TypeOK
BY TypedHolds, PTL DEF Typed

(***************************************************************************)
(* What prepare_write_dir returns under the lock is the article the user   *)
(* chose, though the listing, the size and the entry may be out of date.   *)
(***************************************************************************)
THEOREM FindsTheArticle == Spec => []AskedOnly
<1>1. Typed => AskedOnly
  BY DEF Typed, OpOK, Fits, AskedOnly, Movers
<1>2. QED BY <1>1, TypedHolds, PTL

-----------------------------------------------------------------------------
(***************************************************************************)
(* Which entries stay, over the steps.                                     *)
(***************************************************************************)
Shifting == {p \in Deleters : op[p].pc = "shifted"}

LEMMA StableFacts ==
  ASSUME TypeOK
  PROVE  /\ Stable \subseteq Positions /\ Positions \subseteq 1..Len(dir)
         /\ Shifting = {} => Stable = Positions
         /\ lock = NoOne => Shifting = {}
         /\ \A i \in Positions : dir[i] \in Header /\ dir[i].art \in Arts
<1>1. lock = NoOne => Shifting = {}
  BY BoardAssumption DEF TypeOK, Shifting, Movers
<1>2. \A i \in Positions : dir[i] \in Header /\ dir[i].art \in Arts
  BY TypeFacts, HeaderFacts DEF Positions
<1>3. QED BY <1>1, <1>2 DEF Stable, Positions, Shifting

\* The index is as it was, and nobody begins or ends a shift.
LEMMA StableSame ==
  ASSUME TypeOK, dir' = dir,
         \A q \in Deleters : op'[q].pc = "shifted" <=> op[q].pc = "shifted",
         \A q \in Deleters : op[q].pc = "shifted" => op'[q].size = op[q].size
  PROVE  Stable' = Stable
BY DEF Stable, Positions

\* The shift of p: the entry goes, and those behind it move up by one.
LEMMA StableShift ==
  ASSUME Typed, NEW p \in Deleters, Shift(p)
  PROVE  LET e == op[p].ent
             from(i) == IF i < e THEN i ELSE i + 1
         IN  /\ e \in Stable /\ e \in Nat /\ op'[p].hdr = dir[e]
             /\ \A i \in Stable' : /\ i \in Nat /\ from(i) \in Stable
                                   /\ dir'[i] = dir[from(i)]
<1> DEFINE e == op[p].ent
           n == op[p].size
<1>1. /\ p \in Movers /\ op[p] \in OpType /\ Fits(p, op[p], dir) /\ op[p].pc = "locked"
      /\ dir \in Seq(Entry) /\ dir' = Closed(dir, e, n)
      /\ op' = [op EXCEPT ![p] = [op[p] EXCEPT !.pc = "shifted", !.hdr = At(dir, e)]]
  BY TypeFacts DEF Movers, Typed, OpOK, Shift
<1>2. e \in Nat /\ n \in Nat /\ e \in 1..n /\ Len(dir) \in Nat
  BY <1>1 DEF OpType, Fits
<1>3. op'[p].pc = "shifted" /\ op'[p].size = n /\ op'[p].hdr = At(dir, e)
  BY <1>1, TypeFacts DEF Typed, OpType
<1> HIDE DEF e, n
<1>4. Shifting = {} /\ Stable = Positions
  <2>1. \A q \in Deleters : op[q].pc = "shifted" => q = p
    BY <1>1, BoardAssumption DEF Typed, TypeOK, Movers
  <2>2. Shifting = {}
    BY <1>1, <2>1 DEF Shifting
  <2>3. QED BY <2>2, StableFacts DEF Typed
<1>5. At(dir, e).art \in Arts
  BY <1>1, HeaderFacts DEF Fits, e
<1>6. e \in 1..Len(dir) /\ dir[e] # Blank /\ At(dir, e) = dir[e]
  BY <1>1, <1>5, BoardAssumption DEF At, Blank
<1>7. e \in Stable
  BY <1>4, <1>6 DEF Positions
<1>8. ASSUME NEW i \in Stable'
      PROVE  LET k == IF i < e THEN i ELSE i + 1
             IN  i \in Nat /\ k \in Stable /\ dir'[i] = dir[k]
  <2>1. i \in 1..Len(dir') /\ dir'[i] # Blank /\ i < n
    BY <1>3 DEF Stable, Positions
  <2>2. /\ i \in 1..Len(dir)
        /\ dir'[i] = IF e <= i /\ i < n THEN At(dir, i + 1) ELSE dir[i]
    BY <1>1, <1>2, <2>1, ClosedFacts
  <2>3. CASE i < e
    BY <1>2, <1>4, <2>1, <2>2, <2>3 DEF Positions
  <2>4. CASE e <= i
    <3>1. dir'[i] = At(dir, i + 1)
      BY <2>1, <2>2, <2>4
    <3>2. i + 1 \in 1..Len(dir) /\ dir[i + 1] # Blank /\ dir'[i] = dir[i + 1]
      BY <2>1, <3>1 DEF At
    <3>3. QED BY <1>2, <1>4, <2>2, <2>4, <3>2 DEF Positions
  <2>5. QED BY <1>2, <2>2, <2>3, <2>4
<1>9. QED BY <1>2, <1>3, <1>6, <1>7, <1>8 DEF e

\* The shift of p ends at entry k with SIGBUS: those from k on stay.
LEMMA StableFault ==
  ASSUME Typed, NEW p \in Deleters, ShiftFault(p)
  PROVE  LET e == op[p].ent
         IN  /\ e \in Stable /\ e \in Nat /\ op'[p].hdr = dir[e] /\ op'[p].pc = "removed"
             /\ Shifting = {} /\ Shifting' = {}
             /\ \E k \in Nat :
                  /\ e <= k /\ (k \in Stable => dir[k].art \in torn')
                  /\ \A i \in Stable' :
                       LET j == IF i < e \/ k <= i THEN i ELSE i + 1
                       IN  i \in Nat /\ j \in Stable /\ dir'[i] = dir[j]
<1> DEFINE e == op[p].ent
<1>1. /\ p \in Movers /\ op[p] \in OpType /\ Fits(p, op[p], dir) /\ op[p].pc = "locked"
      /\ dir \in Seq(Entry)
      /\ op' = [op EXCEPT ![p] = [op[p] EXCEPT !.pc = "removed", !.hdr = At(dir, e)]]
  BY TypeFacts DEF Movers, Typed, OpOK, ShiftFault
<1>2. e \in Nat /\ Len(dir) \in Nat /\ op[p].size \in Nat
  BY <1>1 DEF OpType
<1>3. op'[p].pc = "removed" /\ op'[p].hdr = At(dir, e) /\ \A q \in Movers \ {p} : op'[q] = op[q]
  BY <1>1, TypeFacts DEF Typed, OpType
<1>4. PICK k \in e..op[p].size : /\ dir' = Closed(dir, e, k)
                                /\ torn' = torn \cup ({At(dir, k).art} \cap Arts)
  BY DEF ShiftFault
<1>5. At(dir, e).art \in Arts
  BY <1>1, HeaderFacts DEF Fits
<1> HIDE DEF e
<1>6. e \in 1..Len(dir) /\ dir[e] # Blank /\ At(dir, e) = dir[e]
  BY <1>5, BoardAssumption DEF At, Blank
<1>7. Shifting = {} /\ Shifting' = {}
  <2>1. \A q \in Deleters : op[q].pc = "shifted" => q = p
    BY <1>1, BoardAssumption DEF Typed, TypeOK, Movers
  <2>2. QED BY <1>1, <1>3, <2>1 DEF Shifting, Movers
<1>8. Stable = Positions /\ Stable' = Positions'
  BY <1>7 DEF Stable, Shifting
<1>9. k \in Nat /\ e <= k
  BY <1>2, <1>4
<1>10. k \in Stable => dir[k].art \in torn'
  BY <1>4, <1>8, StableFacts DEF Typed, At, Positions
<1>11. ASSUME NEW i \in Stable'
       PROVE  LET j == IF i < e \/ k <= i THEN i ELSE i + 1
              IN  i \in Nat /\ j \in Stable /\ dir'[i] = dir[j]
  <2>1. i \in 1..Len(dir') /\ dir'[i] # Blank
    BY <1>8 DEF Positions
  <2>2. /\ i \in 1..Len(dir)
        /\ dir'[i] = IF e <= i /\ i < k THEN At(dir, i + 1) ELSE dir[i]
    <3>1. /\ Len(dir') = Len(dir)
          /\ \A n \in 1..Len(dir) :
               dir'[n] = IF e <= n /\ n < k THEN At(dir, n + 1) ELSE dir[n]
      BY <1>1, <1>2, <1>4, <1>9, ClosedFacts
    <3>2. QED BY <2>1, <3>1
  <2>3. CASE i < e \/ k <= i
    BY <1>2, <1>8, <1>9, <2>1, <2>2, <2>3 DEF Positions
  <2>4. CASE e <= i /\ i < k
    <3>1. dir'[i] = At(dir, i + 1)
      BY <2>2, <2>4
    <3>2. i + 1 \in 1..Len(dir) /\ dir[i + 1] # Blank /\ dir'[i] = dir[i + 1]
      BY <2>1, <3>1 DEF At
    <3>3. QED BY <1>2, <1>8, <1>9, <2>2, <2>4, <3>2 DEF Positions
  <2>5. QED BY <1>2, <1>9, <2>2, <2>3, <2>4
<1>12. e \in Stable
  BY <1>6, <1>8 DEF Positions
<1>13. QED BY <1>2, <1>3, <1>6, <1>7, <1>9, <1>10, <1>11, <1>12 DEF e

\* The truncation of p cuts what its shift left behind.
LEMMA StableTruncate ==
  ASSUME Typed, NEW p \in Deleters, Truncate(p)
  PROVE  Stable' = Stable /\ \A i \in Stable : dir'[i] = dir[i]
<1> DEFINE n == op[p].size
<1>1. /\ p \in Movers /\ op[p] \in OpType /\ Fits(p, op[p], dir) /\ op[p].pc = "shifted"
      /\ dir \in Seq(Entry) /\ dir' = Cut(dir, n - 1)
      /\ op' = [op EXCEPT ![p] = [op[p] EXCEPT !.pc = "removed"]]
  BY TypeFacts DEF Movers, Typed, OpOK, Truncate, Cut
<1>2. n \in Nat /\ n - 1 \in Nat /\ Len(dir) \in Nat
  BY <1>1 DEF OpType, Fits
<1>3. Shifting = {p} /\ Shifting' = {}
  <2>1. \A q \in Movers : op[q].pc = "shifted" => q = p
    BY <1>1, BoardAssumption DEF Typed, TypeOK, Movers
  <2>2. op'[p].pc = "removed" /\ \A q \in Movers \ {p} : op'[q] = op[q]
    BY <1>1, TypeFacts DEF Typed, OpType
  <2>3. QED BY <1>1, <2>1, <2>2 DEF Shifting, Movers
<1>4. Stable = {i \in Positions : i < n}
  BY <1>3 DEF Stable, Shifting
<1>5. Stable' = Positions'
  BY <1>3 DEF Stable, Shifting
<1> HIDE DEF n
<1>6. Len(dir') = n - 1 /\ \A i \in 1..(n - 1) : dir'[i] = At(dir, i)
  BY <1>1, <1>2, CutFacts
<1>7. \A i : i \in Positions' <=> i \in Positions /\ i < n
  BY <1>2, <1>6 DEF Positions, At
<1>8. \A i \in Positions : i < n => dir'[i] = dir[i]
  BY <1>2, <1>6 DEF Positions, At
<1>9. QED BY <1>4, <1>5, <1>7, <1>8

\* A header comes in at place k, while nobody is between shift and truncation.
LEMMA StableAdded ==
  ASSUME Typed, NEW k \in 1..(Len(dir) + 1), NEW h \in Header, Shifting' = {}, Shifting = {},
         Len(dir') = Len(dir) + 1,
         \A i \in 1..(Len(dir) + 1) :
            dir'[i] = IF i < k THEN dir[i] ELSE IF i = k THEN h ELSE dir[i - 1]
  PROVE  LET from(i) == IF i < k THEN i ELSE i - 1
         IN  /\ dir'[k] = h /\ k \in Nat
             /\ \A i \in Stable' : i \in Nat /\ (i # k => /\ from(i) \in Stable
                                                           /\ dir'[i] = dir[from(i)])
<1>1. Stable' = Positions' /\ Stable = Positions
  BY DEF Stable, Shifting
<1>2. Len(dir) \in Nat
  BY TypeFacts DEF Typed
<1>3. ASSUME NEW i \in Positions', i # k
      PROVE  LET j == IF i < k THEN i ELSE i - 1
             IN  j \in Positions /\ dir'[i] = dir[j]
  <2>1. i \in 1..(Len(dir) + 1) /\ dir'[i] # Blank
    BY DEF Positions
  <2>2. CASE i < k
    BY <1>2, <2>1, <2>2 DEF Positions
  <2>3. CASE i > k
    BY <1>2, <2>1, <2>3 DEF Positions
  <2>4. QED BY <1>3, <2>1, <2>2, <2>3
<1>4. \A i \in Positions' : i \in Nat
  BY DEF Positions
<1>5. QED BY <1>1, <1>3, <1>4

-----------------------------------------------------------------------------
(***************************************************************************)
(* The lifecycle of an article, over the steps.                            *)
(***************************************************************************)
LEMMA HolderFacts ==
  ASSUME Typed, NEW p \in Movers, op[p].pc # "idle"
  PROVE  op[p].hdr \in Header /\ op[p].hdr.art \in Arts
BY HeaderFacts DEF Typed, OpOK, Fits

\* No file is renamed, no move is cut short, the entries that stay are the same, and what a process
\* claims it claimed before.
LEMMA QuietStep ==
  ASSUME Typed, Lifecycle, Stable' = Stable, \A i \in Stable : dir'[i] = dir[i], file' = file,
         torn' = torn, \A q \in Movers : Holds(q)' => Holds(q) /\ op'[q].hdr = op[q].hdr,
         \A q \in Movers : op'[q].pc = "checked" => file[op'[q].hdr.art] = "D"
  PROVE  Lifecycle'
<1>1. Live' /\ Once'
  BY DEF Lifecycle, Live, Once, Sound
<1>2. HeldOut' /\ HeldBy1'
  BY DEF Lifecycle, HeldOut, HeldBy1, Sound
<1>3. Dead'
  BY DEF Dead
<1>4. QED BY <1>1, <1>2, <1>3 DEF Lifecycle

\* A step of p that leaves the index alone and lets go of what p had, or has p
\* claim what it had at most.
LEMMA QuietMove ==
  ASSUME Typed, Lifecycle, NEW p \in Movers, NEW o, op' = [op EXCEPT ![p] = o],
         dir' = dir, file' = file, torn' = torn, op[p].pc # "shifted", o.pc # "shifted",
         o.pc \in {"removed", "moved", "append"} => Holds(p) /\ o.hdr = op[p].hdr,
         o.pc = "checked" => file[o.hdr.art] = "D"
  PROVE  Lifecycle'
<1>1. op'[p] = o /\ \A q \in Movers \ {p} : op'[q] = op[q]
  BY TypeFacts DEF Typed
<1>2. Stable' = Stable
  BY <1>1, StableSame DEF Typed, Movers
<1>3. \A q \in Movers : Holds(q)' => Holds(q) /\ op'[q].hdr = op[q].hdr
  BY <1>1 DEF Holds
<1>4. \A q \in Movers : op'[q].pc = "checked" => file[op'[q].hdr.art] = "D"
  BY <1>1 DEF Lifecycle, Dead
<1>5. QED BY <1>2, <1>3, <1>4, QuietStep

LEMMA PickLife ==
  ASSUME Typed, Lifecycle, NEW p \in Deleters, Pick(p)
  PROVE  Lifecycle'
<1>1. PICK i \in 1..Len(dir), here \in BOOLEAN :
        op' = [op EXCEPT ![p] = [IdleOp EXCEPT !.pc = "picked", !.hdr = dir[i],
                                               !.ent = IF here THEN i ELSE 0]]
  BY DEF Pick
<1> DEFINE o == [IdleOp EXCEPT !.pc = "picked", !.hdr = dir[i], !.ent = IF here THEN i ELSE 0]
<1>2. o.pc = "picked"
  BY DEF IdleOp
<1> HIDE DEF o
<1>3. QED BY <1>1, <1>2, QuietMove DEF Pick, Movers, o

LEMMA MapLife ==
  ASSUME Typed, Lifecycle, NEW p \in Deleters, Map(p)
  PROVE  Lifecycle'
<1> DEFINE o == IF dir = <<>> THEN IdleOp
                ELSE [op[p] EXCEPT !.pc = "mapped", !.size = Len(dir)]
<1>1. p \in Movers /\ op[p] \in OpType /\ op[p].pc = "picked" /\ op' = [op EXCEPT ![p] = o]
  BY TypeFacts DEF Movers, Typed, Map
<1>2. o.pc \in {"idle", "mapped"}
  BY <1>1, IdleFacts DEF OpType
<1> HIDE DEF o
<1>3. QED BY <1>1, <1>2, QuietMove DEF Map

LEMMA PrepareLife ==
  ASSUME Typed, Lifecycle, NEW p \in Deleters, Prepare(p)
  PROVE  Lifecycle'
<1> DEFINE e == Located(op[p])
           o == IF e = 0 THEN IdleOp ELSE [op[p] EXCEPT !.pc = "locked", !.ent = e]
<1>1. p \in Movers /\ op[p] \in OpType /\ op[p].pc = "mapped" /\ op' = [op EXCEPT ![p] = o]
  BY TypeFacts DEF Movers, Typed, Prepare
<1>2. o.pc \in {"idle", "locked"}
  <2> HIDE DEF e
  <2> QED BY <1>1, IdleFacts DEF OpType
<1> HIDE DEF o
<1>3. QED BY <1>1, <1>2, QuietMove DEF Prepare

\* The move of p, whole or cut short: place i shows what place g[i] showed.
\* Where two places show one entry, or the entry of p itself is still shown,
\* the move was cut short there.
LEMMA MovedLife ==
  ASSUME Typed, Lifecycle, NEW p \in Movers, NEW e \in Stable, NEW g \in [Stable' -> Stable],
         op'[p].pc \in {"shifted", "removed"}, op'[p].hdr = dir[e],
         \A q \in Movers \ {p} : op'[q] = op[q], file' = file, torn \subseteq torn',
         \A i \in Stable' : dir'[i] = dir[g[i]] /\ (g[i] = e => dir[e].art \in torn'),
         \A i, j \in Stable' : g[i] = g[j] => i = j \/ dir[g[i]].art \in torn'
  PROVE  Lifecycle'
<1>1. \A a : a \notin torn' => Sound(a)
  BY DEF Sound
<1>2. Live' /\ Once'
  BY <1>1 DEF Lifecycle, Live, Once, Sound
<1>3. ASSUME dir[e].art \notin torn' PROVE \A i \in Stable' : dir'[i].art # dir[e].art
  BY <1>1, <1>3 DEF Lifecycle, Once, Sound
<1>4. ASSUME NEW q \in Movers, Holds(q)', q # p, op'[q].hdr.art \notin torn'
      PROVE  /\ Holds(q) /\ op'[q].hdr = op[q].hdr /\ Sound(op[q].hdr.art)
             /\ file[op[q].hdr.art] = "M" /\ \A i \in Stable : dir[i].art # op[q].hdr.art
  BY <1>1, <1>4 DEF Holds, Lifecycle, HeldOut
<1>5. HeldOut'
  <2>1. ASSUME NEW q \in Movers, Holds(q)', q # p, op'[q].hdr.art \notin torn'
        PROVE  /\ file'[op'[q].hdr.art] = "M"
               /\ \A i \in Stable' : dir'[i].art # op'[q].hdr.art
    BY <1>4, <2>1
  <2>2. ASSUME op'[p].hdr.art \notin torn'
        PROVE  /\ file'[op'[p].hdr.art] = "M"
               /\ \A i \in Stable' : dir'[i].art # op'[p].hdr.art
    BY <1>1, <1>3, <2>2 DEF Lifecycle, Live
  <2>3. QED BY <2>1, <2>2 DEF HeldOut, Sound
<1>6. HeldBy1'
  <2>1. ASSUME NEW q \in Movers, NEW r \in Movers, Holds(q)', Holds(r)',
               op'[q].hdr.art \notin torn', op'[q].hdr.art = op'[r].hdr.art, q # r
        PROVE  FALSE
    <3>1. CASE q = p \/ r = p
      BY <1>4, <2>1, <3>1
    <3>2. CASE q # p /\ r # p
      BY <1>4, <2>1, <3>2 DEF Lifecycle, HeldBy1
    <3>3. QED BY <3>1, <3>2
  <2>2. QED BY <2>1 DEF HeldBy1, Sound
<1>7. Dead'
  BY DEF Dead, Lifecycle
<1>8. QED BY <1>2, <1>5, <1>6, <1>7 DEF Lifecycle

LEMMA ShiftLife ==
  ASSUME Typed, Lifecycle, NEW p \in Deleters, Shift(p)
  PROVE  Lifecycle'
<1> DEFINE e == op[p].ent
           from(i) == IF i < e THEN i ELSE i + 1
           g == [i \in Stable' |-> from(i)]
<1>1. /\ e \in Stable /\ e \in Nat /\ op'[p].hdr = dir[e]
      /\ \A i \in Stable' : i \in Nat /\ from(i) \in Stable /\ dir'[i] = dir[from(i)]
  BY StableShift
<1>2. /\ p \in Movers /\ file' = file /\ torn' = torn
      /\ \A q \in Movers \ {p} : op'[q] = op[q]
  BY TypeFacts DEF Movers, Typed, Shift
<1>3. op'[p].pc = "shifted"
  BY <1>2, TypeFacts DEF Typed, OpType, Shift
<1> HIDE DEF e
<1>4. \A i, j \in Stable' : from(i) # e /\ (from(i) = from(j) => i = j)
  BY <1>1
<1> HIDE DEF from
<1>5. g \in [Stable' -> Stable] /\ \A i \in Stable' : g[i] = from(i)
  BY <1>1
<1> HIDE DEF g
<1>6. QED BY <1>1, <1>2, <1>3, <1>4, <1>5, MovedLife

LEMMA ShiftFaultLife ==
  ASSUME Typed, Lifecycle, NEW p \in Deleters, ShiftFault(p)
  PROVE  Lifecycle'
<1> DEFINE e == op[p].ent
<1>1. /\ e \in Stable /\ e \in Nat /\ op'[p].hdr = dir[e] /\ op'[p].pc = "removed"
      /\ \E k \in Nat :
           /\ e <= k /\ (k \in Stable => dir[k].art \in torn')
           /\ \A i \in Stable' :
                LET j == IF i < e \/ k <= i THEN i ELSE i + 1
                IN  i \in Nat /\ j \in Stable /\ dir'[i] = dir[j]
  BY StableFault
<1>2. /\ p \in Movers /\ file' = file /\ torn \subseteq torn'
      /\ \A q \in Movers \ {p} : op'[q] = op[q]
  BY TypeFacts DEF Movers, Typed, ShiftFault
<1> HIDE DEF e
<1>3. PICK k \in Nat :
        /\ e <= k /\ (k \in Stable => dir[k].art \in torn')
        /\ \A i \in Stable' :
             LET j == IF i < e \/ k <= i THEN i ELSE i + 1
             IN  i \in Nat /\ j \in Stable /\ dir'[i] = dir[j]
  BY <1>1
<1> DEFINE from(i) == IF i < e \/ k <= i THEN i ELSE i + 1
           g == [i \in Stable' |-> from(i)]
<1>4. \A i \in Stable' : i \in Nat /\ from(i) \in Stable /\ dir'[i] = dir[from(i)]
  BY <1>3
<1>5. \A i, j \in Stable' : /\ from(i) = e => e = k
                            /\ from(i) = from(j) => i = j \/ from(i) = k
  BY <1>1, <1>3, <1>4
<1> HIDE DEF from
<1>6. g \in [Stable' -> Stable] /\ \A i \in Stable' : g[i] = from(i)
  BY <1>4
<1> HIDE DEF g
<1>7. /\ \A i \in Stable' : dir'[i] = dir[g[i]] /\ (g[i] = e => dir[e].art \in torn')
      /\ \A i, j \in Stable' : g[i] = g[j] => i = j \/ dir[g[i]].art \in torn'
  BY <1>3, <1>4, <1>5, <1>6
<1>8. QED BY <1>1, <1>2, <1>6, <1>7, MovedLife

LEMMA TruncateLife ==
  ASSUME Typed, Lifecycle, NEW p \in Deleters, Truncate(p)
  PROVE  Lifecycle'
<1>1. /\ p \in Movers /\ op[p].pc = "shifted" /\ file' = file /\ torn' = torn
      /\ op'[p].pc = "removed" /\ op'[p].hdr = op[p].hdr
      /\ \A q \in Movers \ {p} : op'[q] = op[q]
  BY TypeFacts DEF Movers, Typed, OpType, Truncate
<1>2. \A q \in Movers : Holds(q)' => Holds(q) /\ op'[q].hdr = op[q].hdr
  BY <1>1 DEF Holds
<1>3. \A q \in Movers : op'[q].pc = "checked" => file[op'[q].hdr.art] = "D"
  BY <1>1 DEF Lifecycle, Dead
<1>4. QED BY <1>1, <1>2, <1>3, StableTruncate, QuietStep

LEMMA CancelLife ==
  ASSUME Typed, Lifecycle, NEW p \in Deleters, Cancel(p)
  PROVE  Lifecycle'
<1> DEFINE a == op[p].hdr.art
<1>1. /\ p \in Movers /\ op[p].pc = "removed" /\ dir' = dir
      /\ op'[p] = IdleOp /\ \A q \in Movers \ {p} : op'[q] = op[q]
      /\ a \in Arts /\ file' = Renamed(a, "M", "D") /\ torn' = torn
  BY TypeFacts, HolderFacts DEF Movers, Typed, Cancel
<1>2. Stable' = Stable
  BY <1>1, StableSame, IdleFacts DEF Movers, Typed
<1>3. \A b \in Arts : b # a => file'[b] = file[b]
  BY <1>1, RenamedFacts DEF Typed
<1>4. /\ Sound(a) => \A i \in Stable : dir[i].art # a
      /\ file[a] = "D" => file'[a] = "D"
      /\ \A b : Sound(b)' <=> Sound(b)
  BY <1>1, RenamedFacts DEF Lifecycle, HeldOut, Holds, Typed, Sound
<1>5. \A i \in Stable : dir[i].art \in Arts
  BY StableFacts DEF Typed
<1> HIDE DEF a
<1>6. Live' /\ Once'
  BY <1>1, <1>2, <1>3, <1>4, <1>5 DEF Lifecycle, Live, Once
<1>7. ASSUME NEW q \in Movers, Holds(q)', Sound(op'[q].hdr.art)
      PROVE  Holds(q) /\ op'[q].hdr = op[q].hdr /\ op[q].hdr.art \in Arts
             /\ op[q].hdr.art # a /\ q # p
  <2>1. q # p
    BY <1>1, <1>7, IdleFacts DEF Holds
  <2>2. Holds(q) /\ op'[q].hdr = op[q].hdr
    BY <1>1, <1>7, <2>1 DEF Holds
  <2>3. op[q].hdr.art # a
    <3>1. p \in Movers /\ q \in Movers /\ Holds(p) /\ Holds(q) /\ Sound(op[q].hdr.art)
      BY <1>1, <1>7, <2>2 DEF Holds
    <3>2. QED BY <2>1, <3>1 DEF Lifecycle, HeldBy1, a
  <2>4. QED BY <2>1, <2>2, <2>3, HolderFacts DEF Holds
<1>8. HeldOut' /\ HeldBy1'
  <2>1. HeldOut'
    <3> SUFFICES ASSUME NEW q \in Movers, Holds(q)', Sound(op'[q].hdr.art)
                 PROVE  /\ file'[op'[q].hdr.art] = "M"
                        /\ \A i \in Stable : dir[i].art # op'[q].hdr.art
      BY <1>1, <1>2 DEF HeldOut, Sound
    <3>1. QED BY <1>3, <1>7 DEF Lifecycle, HeldOut
  <2>2. HeldBy1'
    <3> SUFFICES ASSUME NEW q \in Movers, NEW r \in Movers, Holds(q)', Holds(r)',
                        Sound(op'[q].hdr.art), op'[q].hdr.art = op'[r].hdr.art
                 PROVE  q = r
      BY <1>1 DEF HeldBy1, Sound
    <3>1. Sound(op'[r].hdr.art)
      OBVIOUS
    <3>2. QED BY <1>7, <3>1 DEF Lifecycle, HeldBy1
  <2>3. QED BY <2>1, <2>2
<1>9. Dead'
  <2>1. ASSUME NEW q \in Movers, op'[q].pc = "checked"
        PROVE  file'[op'[q].hdr.art] = "D"
    <3>1. q # p /\ op'[q] = op[q]
      BY <1>1, <2>1, IdleFacts
    <3>2. op[q].hdr.art \in Arts /\ file[op[q].hdr.art] = "D"
      BY <2>1, <3>1, HolderFacts DEF Lifecycle, Dead
    <3>3. QED BY <1>3, <1>4, <3>1, <3>2
  <2>2. QED BY <2>1 DEF Dead
<1>10. QED BY <1>6, <1>8, <1>9 DEF Lifecycle

LEMMA UndelCheckLife ==
  ASSUME Typed, Lifecycle, NEW p \in Restorers, UndelCheck(p)
  PROVE  Lifecycle'
<1>1. PICK h \in deleted :
        /\ file[h.art] = "D"
        /\ op' = [op EXCEPT ![p] = [IdleOp EXCEPT !.pc = "checked", !.hdr = h]]
  BY DEF UndelCheck, Restorable
<1> DEFINE o == [IdleOp EXCEPT !.pc = "checked", !.hdr = h]
<1>2. o.pc = "checked" /\ o.hdr = h
  BY DEF IdleOp
<1> HIDE DEF o
<1>3. QED BY <1>1, <1>2, QuietMove DEF UndelCheck, Movers, o

\* A second restorer may have checked the same header: its file is live now.
LEMMA UndelMoveLife ==
  ASSUME OneRestorer, Typed, Lifecycle, NEW p \in Restorers, UndelMove(p)
  PROVE  Lifecycle'
<1> DEFINE a == op[p].hdr.art
<1>1. /\ p \in Movers /\ op[p].pc = "checked" /\ dir' = dir
      /\ op'[p].pc = "moved" /\ op'[p].hdr = op[p].hdr
      /\ \A q \in Movers \ {p} : op'[q] = op[q]
      /\ a \in Arts /\ file' = Renamed(a, "D", "M") /\ torn' = torn
  BY TypeFacts, HolderFacts DEF Movers, Typed, OpType, UndelMove
<1>2. Stable' = Stable
  BY <1>1, StableSame DEF Movers, Typed
<1>3. \A b \in Arts : b # a => file'[b] = file[b]
  BY <1>1, RenamedFacts DEF Typed
<1>4. file[a] = "D" /\ file'[a] = "M"
  BY <1>1, RenamedFacts DEF Lifecycle, Dead, Typed
<1>5. /\ \A i \in Stable : dir[i].art \in Arts /\ (Sound(dir[i].art) => dir[i].art # a)
      /\ \A b : Sound(b)' <=> Sound(b)
  BY <1>1, <1>4, StableFacts DEF Typed, Lifecycle, Live, Sound
<1>6. Live' /\ Once'
  BY <1>1, <1>2, <1>3, <1>5 DEF Lifecycle, Live, Once
<1>7. ASSUME NEW q \in Movers, Holds(q)', q # p, Sound(op'[q].hdr.art)
      PROVE  Holds(q) /\ op'[q] = op[q] /\ op[q].hdr.art \in Arts /\ op[q].hdr.art # a
  <2>1. Holds(q) /\ op'[q] = op[q] /\ Sound(op[q].hdr.art)
    BY <1>1, <1>7 DEF Holds
  <2>2. op[q].hdr.art # a
    BY <1>4, <2>1 DEF Lifecycle, HeldOut
  <2>3. QED BY <2>1, <2>2, HolderFacts DEF Holds
<1>8. HeldOut'
  <2> SUFFICES ASSUME NEW q \in Movers, Holds(q)', Sound(op'[q].hdr.art)
               PROVE  /\ file'[op'[q].hdr.art] = "M"
                      /\ \A i \in Stable : dir[i].art # op'[q].hdr.art
    BY <1>1, <1>2 DEF HeldOut, Sound
  <2>1. CASE q = p
    BY <1>1, <1>4, <1>5, <2>1
  <2>2. CASE q # p
    BY <1>1, <1>3, <1>7, <2>2 DEF Lifecycle, HeldOut
  <2>3. QED BY <2>1, <2>2
<1>9. HeldBy1'
  <2> SUFFICES ASSUME NEW q \in Movers, NEW r \in Movers, Holds(q)', Holds(r)',
                      Sound(op'[q].hdr.art), op'[q].hdr.art = op'[r].hdr.art, q # r
               PROVE  FALSE
    BY <1>1 DEF HeldBy1, Sound
  <2>1. Sound(op'[r].hdr.art) /\ op'[p].hdr.art = a
    BY <1>1
  <2>2. CASE q = p \/ r = p
    BY <1>7, <2>1, <2>2
  <2>3. CASE q # p /\ r # p
    BY <1>7, <2>1, <2>3 DEF Lifecycle, HeldBy1
  <2>4. QED BY <2>2, <2>3
<1>10. Dead'
  <2>1. \A q \in Movers : op'[q].pc = "checked" => q \in Restorers /\ q # p
    BY <1>1 DEF Typed, OpOK, Fits
  <2>2. QED BY <2>1 DEF OneRestorer, Dead
<1>11. QED BY <1>6, <1>8, <1>9, <1>10 DEF Lifecycle

\* A header comes in at place k: one that p held, or that of a new article.
LEMMA AddedLife ==
  ASSUME Typed, Lifecycle, NEW k \in 1..(Len(dir) + 1), NEW h \in Header,
         Shifting' = {}, Shifting = {}, Len(dir') = Len(dir) + 1, torn' = torn,
         \A i \in 1..(Len(dir) + 1) :
            dir'[i] = IF i < k THEN dir[i] ELSE IF i = k THEN h ELSE dir[i - 1],
         Sound(h.art) => file'[h.art] = "M" /\ \A i \in Stable : dir[i].art # h.art,
         \A b \in Arts : b # h.art => file'[b] = file[b],
         \A q \in Movers : Holds(q)' => /\ Holds(q) /\ op'[q].hdr = op[q].hdr
                                        /\ Sound(h.art) => op[q].hdr.art # h.art,
         \A q \in Movers : op'[q].pc = "checked" => file'[op'[q].hdr.art] = "D"
  PROVE  Lifecycle'
<1> DEFINE from(i) == IF i < k THEN i ELSE i - 1
<1>1. /\ dir'[k] = h /\ k \in Nat
      /\ \A i \in Stable' : i \in Nat /\ (i # k => from(i) \in Stable /\ dir'[i] = dir[from(i)])
  BY StableAdded
<1>2. \A i, j \in Stable' : i # k /\ j # k /\ from(i) = from(j) => i = j
  BY <1>1
<1> HIDE DEF from
<1>3. /\ \A i \in Stable : dir[i].art \in Arts /\ (Sound(dir[i].art) => file[dir[i].art] = "M")
      /\ \A b : Sound(b)' <=> Sound(b)
  BY StableFacts DEF Typed, Lifecycle, Live, Sound
<1>4. ASSUME NEW i \in Stable', Sound(dir'[i].art)
      PROVE  /\ file'[dir'[i].art] = "M"
             /\ \A j \in Stable' : dir'[i].art = dir'[j].art => i = j
             /\ dir'[i].art = h.art \/ \E j \in Stable : dir'[i].art = dir[j].art
  <2>1. Sound(h.art) => \A j \in Stable' : j # k => dir'[j].art # h.art
    BY <1>1
  <2>2. CASE i = k
    BY <1>1, <1>4, <2>1, <2>2
  <2>3. CASE i # k
    <3>1. from(i) \in Stable /\ dir'[i] = dir[from(i)]
      BY <1>1, <2>3
    <3>2. file'[dir'[i].art] = "M"
      BY <1>3, <1>4, <3>1
    <3>3. ASSUME NEW j \in Stable', dir'[i].art = dir'[j].art PROVE i = j
      <4>1. j # k
        BY <1>1, <1>4, <2>1, <2>3, <3>3
      <4>2. from(j) \in Stable /\ dir'[j] = dir[from(j)]
        BY <1>1, <4>1
      <4>3. from(i) = from(j)
        BY <1>4, <3>1, <3>3, <4>2 DEF Lifecycle, Once
      <4>4. QED BY <1>2, <2>3, <4>1, <4>3
    <3>4. QED BY <3>1, <3>2, <3>3
  <2>4. QED BY <2>2, <2>3
<1>5. Live' /\ Once'
  BY <1>3, <1>4 DEF Live, Once
<1>6. ASSUME NEW q \in Movers, Holds(q)', Sound(op'[q].hdr.art)
      PROVE  /\ Holds(q) /\ op'[q].hdr = op[q].hdr
             /\ op[q].hdr.art \in Arts /\ op[q].hdr.art # h.art
             /\ file[op[q].hdr.art] = "M" /\ \A i \in Stable : dir[i].art # op[q].hdr.art
  <2>1. Holds(q) /\ op'[q].hdr = op[q].hdr /\ op[q].hdr.art # h.art
    BY <1>6
  <2>2. QED BY <1>6, <2>1, HolderFacts DEF Holds, Lifecycle, HeldOut
<1>7. HeldOut'
  <2> SUFFICES ASSUME NEW q \in Movers, Holds(q)', Sound(op'[q].hdr.art), NEW i \in Stable'
               PROVE  file'[op'[q].hdr.art] = "M" /\ dir'[i].art # op'[q].hdr.art
    BY <1>3, <1>6 DEF HeldOut
  <2>1. QED BY <1>4, <1>6
<1>8. HeldBy1'
  BY <1>3, <1>6 DEF Lifecycle, HeldBy1
<1>9. Dead'
  BY DEF Dead
<1>10. QED BY <1>5, <1>7, <1>8, <1>9 DEF Lifecycle

LEMMA PostLife ==
  ASSUME Typed, Lifecycle, NEW a \in Arts, Post(a)
  PROVE  Lifecycle'
<1> DEFINE h == [art |-> a, id |-> NextId]
           k == Len(dir) + 1
<1>1. /\ dir \in Seq(Entry) /\ Len(dir) \in Nat /\ dir' = Append(dir, h) /\ op' = op
      /\ lock = NoOne /\ file[a] = "none"
      /\ file \in [Arts -> {"none", "M", "D"}] /\ file' = [file EXCEPT ![a] = "M"] /\ torn' = torn
  BY TypeFacts DEF Typed, TypeOK, Post
<1>2. h \in Header /\ h \in Entry /\ h.art = a
  BY BoardAssumption DEF Post, Typed, TypeOK, Header, Entry, NextId
<1> HIDE DEF h
<1>3. Shifting = {} /\ Shifting' = {}
  BY <1>1, StableFacts DEF Typed, Shifting
<1>4. /\ Len(dir') = k /\ k \in 1..k
      /\ \A i \in 1..k : dir'[i] = IF i < k THEN dir[i] ELSE IF i = k THEN h ELSE dir[i - 1]
  BY <1>1, <1>2, AppendFacts
<1> HIDE DEF k
<1>5. Sound(h.art) => \A i \in Stable : dir[i].art # h.art
  BY <1>1, <1>2 DEF Lifecycle, Live
<1>6. \A q \in Movers : Holds(q)' => /\ Holds(q) /\ op'[q].hdr = op[q].hdr
                                     /\ Sound(h.art) => op[q].hdr.art # h.art
  BY <1>1, <1>2 DEF Holds, Lifecycle, HeldOut
<1>7. \A q \in Movers : op'[q].pc = "checked" => file'[op'[q].hdr.art] = "D"
  <2> SUFFICES ASSUME NEW q \in Movers, op[q].pc = "checked" PROVE file'[op[q].hdr.art] = "D"
    BY <1>1
  <2>1. op[q].hdr.art \in Arts /\ file[op[q].hdr.art] = "D"
    BY HolderFacts DEF Lifecycle, Dead
  <2>2. QED BY <1>1, <2>1
<1>8. (\A b \in Arts : b # h.art => file'[b] = file[b]) /\ file'[h.art] = "M" /\ torn' = torn
  BY <1>1, <1>2
<1>9. k \in 1..(Len(dir) + 1) /\ Len(dir') = Len(dir) + 1
  BY <1>4 DEF k
<1>10. \A i \in 1..(Len(dir) + 1) :
          dir'[i] = IF i < k THEN dir[i] ELSE IF i = k THEN h ELSE dir[i - 1]
  BY <1>4 DEF k
<1>11. QED BY <1>2, <1>3, <1>5, <1>6, <1>7, <1>8, <1>9, <1>10, AddedLife

\* p puts the article it holds back into the index, and holds it no longer.
LEMMA ReturnedLife ==
  ASSUME Typed, Lifecycle, NEW p \in Restorers, Holds(p),
         NEW k \in 1..(Len(dir) + 1), NEW h \in Header, h.art = op[p].hdr.art,
         op' = [op EXCEPT ![p] = IdleOp], file' = file, torn' = torn, lock \in {NoOne, p},
         Len(dir') = Len(dir) + 1,
         \A i \in 1..(Len(dir) + 1) :
            dir'[i] = IF i < k THEN dir[i] ELSE IF i = k THEN h ELSE dir[i - 1]
  PROVE  Lifecycle'
<1>1. p \in Movers /\ op'[p] = IdleOp /\ \A q \in Movers \ {p} : op'[q] = op[q]
  BY TypeFacts DEF Movers, Typed
<1>2. Shifting = {} /\ Shifting' = {}
  <2>1. Shifting = {}
    BY BoardAssumption DEF Typed, TypeOK, Shifting, Movers
  <2>2. QED BY <1>1, <2>1, IdleFacts DEF Shifting, Movers
<1>3. Sound(h.art) => (\A i \in Stable : dir[i].art # h.art) /\ file[h.art] = "M"
  BY <1>1 DEF Lifecycle, HeldOut
<1>4. \A q \in Movers : Holds(q)' => /\ Holds(q) /\ op'[q].hdr = op[q].hdr
                                     /\ Sound(h.art) => op[q].hdr.art # h.art
  <2> SUFFICES ASSUME NEW q \in Movers, Holds(q)'
               PROVE  /\ Holds(q) /\ op'[q] = op[q]
                      /\ Sound(h.art) => op[q].hdr.art # h.art
    OBVIOUS
  <2>1. q # p
    BY <1>1, IdleFacts DEF Holds
  <2>2. Holds(q) /\ op'[q] = op[q]
    BY <1>1, <2>1 DEF Holds
  <2>3. QED BY <1>1, <2>1, <2>2 DEF Lifecycle, HeldBy1
<1>5. \A q \in Movers : op'[q].pc = "checked" => file'[op'[q].hdr.art] = "D"
  BY <1>1, IdleFacts DEF Lifecycle, Dead
<1>6. QED BY <1>2, <1>3, <1>4, <1>5, AddedLife

LEMMA ReinsertLife ==
  ASSUME Typed, Lifecycle, NEW p \in Restorers, Reinsert(p)
  PROVE  Lifecycle'
<1> DEFINE h == op[p].hdr
           r == Search(dir, h.id, Len(dir))
<1>1. /\ p \in Movers /\ op[p] \in OpType /\ op[p].pc = "moved" /\ dir \in Seq(Entry)
      /\ Len(dir) \in Nat /\ lock = NoOne /\ file' = file /\ torn' = torn
  BY TypeFacts DEF Movers, Typed, Reinsert
<1>2. h \in Header /\ h \in Entry /\ h.id \in Nat
  BY <1>1, HolderFacts, HeaderFacts DEF Entry
<1>3. r.at \in 1..(Len(dir) + 1)
  <2> HIDE DEF h
  <2> QED BY <1>1, <1>2, SearchSound
<1> HIDE DEF r
<1>4. CASE dir' = Inserted(dir, h, r.at) /\ op' = [op EXCEPT ![p] = IdleOp]
  <2> DEFINE d == Inserted(dir, h, r.at)
             at == r.at
  <2>1. /\ Len(d) = Len(dir) + 1
        /\ \A i \in 1..(Len(dir) + 1) :
             d[i] = IF i < at THEN dir[i] ELSE IF i = at THEN h ELSE dir[i - 1]
    <3> HIDE DEF h
    <3> QED BY <1>1, <1>2, <1>3, InsertedFacts
  <2>2. dir' = d /\ Holds(p) /\ at \in 1..(Len(dir) + 1)
    BY <1>1, <1>3, <1>4 DEF Holds
  <2> HIDE DEF d, at
  <2>3. QED BY <1>1, <1>2, <1>4, <2>1, <2>2, ReturnedLife
<1>5. CASE dir' = dir /\ op' = [op EXCEPT ![p] = [op[p] EXCEPT !.pc = "append"]]
  <2> DEFINE o == [op[p] EXCEPT !.pc = "append"]
  <2>1. o.pc = "append" /\ o.hdr = op[p].hdr /\ Holds(p)
    BY <1>1 DEF OpType, Holds
  <2> HIDE DEF o
  <2>2. QED BY <1>1, <1>5, <2>1, QuietMove DEF o
<1>6. QED BY <1>4, <1>5 DEF Reinsert, r

LEMMA ReappendLife ==
  ASSUME Typed, Lifecycle, NEW p \in Restorers, Reappend(p)
  PROVE  Lifecycle'
<1> DEFINE h == [op[p].hdr EXCEPT !.id = NextId]
           k == Len(dir) + 1
<1>1. /\ p \in Movers /\ op[p].pc = "append" /\ lock \in {NoOne, p} /\ Holds(p)
      /\ op[p].hdr \in Header /\ dir \in Seq(Entry) /\ Len(dir) \in Nat
      /\ dir' = Append(dir, h) /\ op' = [op EXCEPT ![p] = IdleOp] /\ file' = file
      /\ torn' = torn
  BY TypeFacts, HolderFacts DEF Movers, Typed, Reappend, Holds
<1>2. nowid + 1 \in 1..MaxId
  BY BoardAssumption DEF Reappend, Typed, TypeOK
<1>3. h \in Header /\ h \in Entry /\ h.art = op[p].hdr.art
  BY <1>1, <1>2 DEF Header, Entry, NextId
<1> HIDE DEF h
<1>4. /\ Len(dir') = k /\ k \in 1..k
      /\ \A i \in 1..k : dir'[i] = IF i < k THEN dir[i] ELSE IF i = k THEN h ELSE dir[i - 1]
  BY <1>1, <1>3, AppendFacts
<1> HIDE DEF k
<1>5. QED BY <1>1, <1>3, <1>4, ReturnedLife DEF k

LEMMA LifecycleStep ==
  ASSUME OneRestorer, Typed, Lifecycle, Next
  PROVE  Lifecycle'
BY PostLife, PickLife, MapLife, PrepareLife, ShiftLife, ShiftFaultLife, TruncateLife,
   CancelLife, UndelCheckLife, UndelMoveLife, ReinsertLife, ReappendLife DEF Next

LEMMA LifecycleHolds ==
  ASSUME OneRestorer
  PROVE  Spec => []Lifecycle
<1>1. Init => Lifecycle
  <2> SUFFICES ASSUME Init PROVE Lifecycle
    OBVIOUS
  <2>1. Stable = {} /\ \A p \in Movers : op[p].pc = "idle"
    BY DEF Init, Stable, Positions, IdleOp
  <2>2. QED BY <2>1 DEF Lifecycle, Live, Once, HeldOut, HeldBy1, Dead, Holds
<1>2. Typed /\ Lifecycle /\ [Next]_bvars => Lifecycle'
  <2> SUFFICES ASSUME Typed, Lifecycle, [Next]_bvars PROVE Lifecycle'
    OBVIOUS
  <2>1. CASE Next
    BY <2>1, LifecycleStep
  <2>2. CASE UNCHANGED bvars
    BY <2>2 DEF bvars, Lifecycle, Live, Once, HeldOut, HeldBy1, Dead, Holds, Sound, Stable,
                Positions
  <2>3. QED BY <2>1, <2>2
<1>3. QED BY <1>1, <1>2, TypedHolds, PTL DEF Spec

(***************************************************************************)
(* An article that .DIR lists while nobody is writing it has its file      *)
(* under the live name, unless the move of its deletion was cut off by     *)
(* SIGBUS (article.c:396), after which the file is renamed and the entry   *)
(* stays.  At most one process restores: of two that saw the file of one   *)
(* deleted article, the second lists it after a deletion of what the first *)
(* restored.                                                               *)
(***************************************************************************)
THEOREM ListedHaveFiles ==
  ASSUME OneRestorer
  PROVE  Spec => []EntryHasFile
<1>1. Typed /\ Lifecycle => EntryHasFile
  BY StableFacts DEF Typed, Lifecycle, Live, Sound, EntryHasFile
<1>2. QED BY <1>1, TypedHolds, LifecycleHolds, PTL

(***************************************************************************)
(* While nobody is writing .DIR it lists no article twice, unless a move   *)
(* that SIGBUS cut off after its entry left the entry in two places.  At   *)
(* most one process restores: two list an article they both found deleted  *)
(* twice.                                                                  *)
(***************************************************************************)
THEOREM NoDuplicates ==
  ASSUME OneRestorer
  PROVE  Spec => []ListedOnce
<1>1. Typed /\ Lifecycle => ListedOnce
  BY StableFacts DEF Typed, Lifecycle, Once, Sound, ListedOnce
<1>2. QED BY <1>1, TypedHolds, LifecycleHolds, PTL

-----------------------------------------------------------------------------
(***************************************************************************)
(* The order of the ids, on a board where nothing is restored.             *)
(***************************************************************************)
LEMMA RisesShift ==
  ASSUME Typed, Rises, NEW p \in Deleters, Shift(p)
  PROVE  Rises'
<1> DEFINE e == op[p].ent
           from(i) == IF i < e THEN i ELSE i + 1
<1>1. e \in Nat /\ \A i \in Stable' : i \in Nat /\ from(i) \in Stable /\ dir'[i] = dir[from(i)]
  BY StableShift
<1> HIDE DEF e
<1>2. \A i, j \in Stable' : i < j => from(i) < from(j)
  BY <1>1
<1> HIDE DEF from
<1>3. torn' = torn
  BY DEF Shift
<1>4. QED BY <1>1, <1>2, <1>3 DEF Rises, Sound

LEMMA RisesFault ==
  ASSUME Typed, Rises, NEW p \in Deleters, ShiftFault(p)
  PROVE  Rises'
<1> DEFINE e == op[p].ent
<1>1. PICK k \in Nat :
        /\ e <= k /\ (k \in Stable => dir[k].art \in torn')
        /\ \A i \in Stable' :
             LET j == IF i < e \/ k <= i THEN i ELSE i + 1
             IN  i \in Nat /\ j \in Stable /\ dir'[i] = dir[j]
  BY StableFault
<1>2. e \in Nat /\ torn \subseteq torn'
  BY StableFault DEF ShiftFault
<1> HIDE DEF e
<1> DEFINE from(i) == IF i < e \/ k <= i THEN i ELSE i + 1
<1>3. \A i \in Stable' : i \in Nat /\ from(i) \in Stable /\ dir'[i] = dir[from(i)]
  BY <1>1
<1>4. \A i, j \in Stable' : i < j => from(i) < from(j) \/ (from(i) = k /\ from(j) = k)
  BY <1>1, <1>2, <1>3
<1> HIDE DEF from
<1> SUFFICES ASSUME NEW i \in Stable', NEW j \in Stable', i < j
             PROVE  \/ dir'[i].id < dir'[j].id
                    \/ dir'[i] = dir'[j] /\ dir'[i].art \in torn'
  BY DEF Rises, Sound
<1>5. CASE from(i) < from(j)
  BY <1>2, <1>3, <1>5 DEF Rises, Sound
<1>6. CASE from(i) = k /\ from(j) = k
  BY <1>1, <1>3, <1>6
<1>7. QED BY <1>4, <1>5, <1>6

\* A header goes where its id belongs.
LEMMA RisesAdded ==
  ASSUME Typed, Rises, NEW k \in 1..(Len(dir) + 1), NEW h \in Header,
         Shifting = {}, Shifting' = {}, torn' = torn, Len(dir') = Len(dir) + 1,
         \A i \in 1..(Len(dir) + 1) :
            dir'[i] = IF i < k THEN dir[i] ELSE IF i = k THEN h ELSE dir[i - 1],
         \A i \in Positions : /\ i < k => dir[i].id < h.id
                              /\ i >= k => dir[i].id > h.id
  PROVE  Rises'
<1> DEFINE from(i) == IF i < k THEN i ELSE i - 1
<1>1. /\ dir'[k] = h /\ k \in Nat
      /\ \A i \in Stable' : i \in Nat /\ (i # k => from(i) \in Stable /\ dir'[i] = dir[from(i)])
  BY StableAdded
<1>2. \A i \in Stable : i \in Positions /\ dir[i].id \in Nat
  BY StableFacts, HeaderFacts DEF Typed
<1> SUFFICES ASSUME NEW i \in Stable', NEW j \in Stable', i < j
             PROVE  \/ dir'[i].id < dir'[j].id
                    \/ dir'[i] = dir'[j] /\ ~Sound(dir'[i].art)
  BY DEF Rises, Sound
<1>3. CASE i = k
  <2>1. j # k /\ j > k /\ j \in Nat
    BY ONLY <1>1, <1>3, i < j, j \in Stable'
  <2>2. from(j) = j - 1 /\ j - 1 >= k
    BY <1>1, <2>1
  <2>3. QED BY <1>1, <1>2, <1>3, <2>1, <2>2
<1>4. CASE j = k
  <2>1. i # k /\ i < k /\ i \in Nat
    BY <1>1, <1>4
  <2>2. from(i) = i
    BY <2>1
  <2>3. QED BY <1>1, <1>2, <1>4, <2>1, <2>2
<1>5. CASE i # k /\ j # k
  <2>1. from(i) < from(j)
    BY <1>1, <1>5
  <2>2. /\ from(i) \in Stable /\ dir'[i] = dir[from(i)]
        /\ from(j) \in Stable /\ dir'[j] = dir[from(j)]
    BY <1>1, <1>5
  <2> HIDE DEF from
  <2>3. QED BY <2>1, <2>2 DEF Rises
<1>6. QED BY <1>3, <1>4, <1>5

\* What comes to the end has the greatest id of all.
LEMMA RisesAppended ==
  ASSUME Typed, Rises, NEW h \in Header, h.id = nowid + 1, dir' = Append(dir, h),
         Shifting = {}, Shifting' = {}, torn' = torn
  PROVE  Rises'
<1> DEFINE k == Len(dir) + 1
<1>1. dir \in Seq(Entry) /\ Len(dir) \in Nat /\ h \in Entry /\ nowid \in Nat
  BY TypeFacts DEF Typed, TypeOK, Entry
<1>2. /\ Len(dir') = k /\ k \in 1..k
      /\ \A i \in 1..k : dir'[i] = IF i < k THEN dir[i] ELSE IF i = k THEN h ELSE dir[i - 1]
  BY <1>1, AppendFacts
<1>3. \A i \in Positions : i < k /\ dir[i].id < h.id
  <2>1. \A i \in Positions : dir[i] \in Headers /\ i < k /\ dir[i].id \in Nat
    BY <1>1, StableFacts, HeaderFacts DEF Typed, Headers, Positions
  <2>2. \A i \in Positions : dir[i].id <= nowid
    BY <2>1 DEF Typed, IdNames
  <2>3. QED BY <1>1, <2>1, <2>2
<1>4. \A i \in Positions : i \in Nat
  BY DEF Positions
<1>5. /\ k \in Nat /\ k = Len(dir) + 1
      /\ \A i \in Positions : /\ i < k => dir[i].id < h.id
                              /\ i >= k => dir[i].id > h.id
  BY <1>1, <1>3, <1>4 DEF k
<1> HIDE DEF k
<1>6. Len(dir') = Len(dir) + 1 /\ k \in 1..(Len(dir) + 1)
  BY <1>2, <1>5
<1>7. \A i \in 1..(Len(dir) + 1) :
         dir'[i] = IF i < k THEN dir[i] ELSE IF i = k THEN h ELSE dir[i - 1]
  BY <1>2, <1>5
<1>8. QED BY <1>5, <1>6, <1>7, RisesAdded

LEMMA RisesPost ==
  ASSUME Typed, Rises, NEW a \in Arts, Post(a)
  PROVE  Rises'
<1> DEFINE h == [art |-> a, id |-> NextId]
<1>1. dir' = Append(dir, h) /\ op' = op /\ lock = NoOne /\ torn' = torn
  BY DEF Post
<1>2. h \in Header /\ h.id = nowid + 1
  BY BoardAssumption DEF Post, Typed, TypeOK, Header, NextId
<1>3. Shifting = {} /\ Shifting' = {}
  BY <1>1, StableFacts DEF Typed, Shifting
<1> HIDE DEF h
<1>4. QED BY <1>1, <1>2, <1>3, RisesAppended

LEMMA RisesQuiet ==
  ASSUME Typed, Rises, NEW p \in Deleters, Pick(p) \/ Map(p) \/ Prepare(p) \/ Cancel(p)
  PROVE  Rises'
<1>1. /\ p \in Movers /\ op[p] \in OpType /\ dir' = dir /\ torn' = torn
      /\ op[p].pc \in {"idle", "picked", "mapped", "removed"}
  BY TypeFacts DEF Movers, Typed, Pick, Map, Prepare, Cancel
<1>2. \A q \in Movers \ {p} : op'[q] = op[q]
  BY TypeFacts DEF Typed, Pick, Map, Prepare, Cancel
<1>3. op'[p].pc # "shifted"
  <2>1. CASE Pick(p)
    BY <2>1, TypeFacts DEF Typed, Pick, IdleOp, Movers
  <2>2. CASE Map(p)
    BY <1>1, <2>2, IdleFacts, TypeFacts DEF Typed, Map, OpType
  <2>3. CASE Prepare(p)
    BY <1>1, <2>3, IdleFacts, TypeFacts DEF Typed, Prepare, OpType
  <2>4. CASE Cancel(p)
    BY <1>1, <2>4, IdleFacts, TypeFacts DEF Typed, Cancel
  <2>5. QED BY <2>1, <2>2, <2>3, <2>4
<1>4. Stable' = Stable
  BY <1>1, <1>2, <1>3, StableSame DEF Typed, Movers
<1>5. QED BY <1>1, <1>4 DEF Rises, Sound

LEMMA RisesTruncate ==
  ASSUME Typed, Rises, NEW p \in Deleters, Truncate(p)
  PROVE  Rises'
<1>1. torn' = torn
  BY DEF Truncate
<1>2. QED BY <1>1, StableTruncate DEF Rises, Sound

(***************************************************************************)
(* While nobody is writing .DIR its ids increase, but for entries a move   *)
(* that got SIGBUS left twice, so that the searches of do_del_post and of  *)
(* the readers find what is there (SearchComplete).                        *)
(* Nothing is restored: two deletions can leave a zeroed entry behind, at  *)
(* which the search of do_undel_post for the place of a header goes astray.*)
(***************************************************************************)
THEOREM IdsIncrease ==
  ASSUME Restorers = {}
  PROVE  Spec => []Ordered
<1>1. Init => Rises
  BY DEF Init, Rises, Stable, Positions
<1>2. Typed /\ Rises /\ [Next]_bvars => Rises'
  <2> SUFFICES ASSUME Typed, Rises, [Next]_bvars PROVE Rises'
    OBVIOUS
  <2>1. CASE Next
    BY <2>1, RisesPost, RisesShift, RisesFault, RisesTruncate, RisesQuiet DEF Next
  <2>2. CASE UNCHANGED bvars
    BY <2>2 DEF bvars, Rises, Sound, Stable, Positions
  <2>3. QED BY <2>1, <2>2
<1>3. Typed /\ Rises => Ordered
  BY StableFacts DEF Typed, Rises, Sound, Ordered
<1>4. QED BY <1>1, <1>2, <1>3, TypedHolds, PTL DEF Spec

(***************************************************************************)
(* prepare_write_dir does not miss the article: on a board where the ids   *)
(* increase and no entry is empty, it finds a header that is among the     *)
(* entries counted when the file was mapped, if the file still has as many.*)
(***************************************************************************)
THEOREM FindsWhatIsThere ==
  ASSUME Typed, Rises, lock = NoOne, Positions = 1..Len(dir),
         NEW p \in Deleters, op[p].pc = "mapped", op[p].size <= Len(dir),
         NEW i \in 1..op[p].size, dir[i] = op[p].hdr
  PROVE  Located(op[p]) # 0
<1> DEFINE o == op[p]
           n == op[p].size
           key == op[p].hdr.id
           r == Search(dir, key, n)
<1>1. o \in OpType /\ n \in Nat /\ key \in Nat
  <2>1. p \in Movers /\ o \in OpType
    BY TypeFacts DEF Movers, Typed
  <2>2. QED BY <2>1, HolderFacts, HeaderFacts DEF OpType
<1>2. i \in 1..n /\ At(dir, i).id = key /\ Len(dir) \in Nat /\ n <= Len(dir)
  BY <1>1, TypeFacts DEF Typed, At
<1>3. Rising(dir, n)
  <2>1. Stable = 1..Len(dir)
    BY StableFacts DEF Typed
  <2>2. \A j \in 1..n : j \in Stable /\ At(dir, j) = dir[j] /\ dir[j].id \in Nat
    BY <1>1, <1>2, <2>1, StableFacts, HeaderFacts DEF Typed, At
  <2> HIDE DEF n
  <2>3. QED BY <2>2 DEF Rising, Rises
<1> HIDE DEF n, key
<1>4. r.hit
  <2> SUFFICES ASSUME ~r.hit PROVE FALSE
    OBVIOUS
  <2>1. \/ At(dir, i).id < key \/ At(dir, i).id > key
    <3>1. r.at \in 1..(n + 1)
      BY <1>1, SearchSound
    <3>2. /\ i < r.at => At(dir, i).id < key
          /\ i >= r.at => At(dir, i).id > key
      BY <1>1, <1>2, <1>3, SearchComplete
    <3> HIDE DEF r
    <3>3. QED BY <1>1, <1>2, <3>1, <3>2
  <2>2. QED BY <1>1, <1>2, <2>1
<1>5. r.at \in 1..n
  BY <1>1, <1>4, SearchSound
<1> HIDE DEF r
<1>6. o.ent \in 1..n => Named(o.ent)
  BY <1>1, <1>2, PagesFacts
<1>8. Located(o) = IF o.ent \in 1..n /\ At(dir, o.ent).art = o.hdr.art THEN o.ent ELSE r.at
  BY <1>4, <1>6 DEF Located, r, n, key
<1>9. QED BY <1>1, <1>5, <1>8

-----------------------------------------------------------------------------
(***************************************************************************)
(* One deletion at a time.  Then the index only grows while a deletion is  *)
(* under way, the truncation leaves no zeroed entry, and restorations find *)
(* the place of a header, however many run at once.                        *)
(***************************************************************************)
OneDeleter == \A p, q \in Deleters : p = q

Sized(o) == o.pc \in {"mapped", "locked", "shifted"}

Whole ==
  /\ Positions = 1..Len(dir)
  /\ \A p \in Deleters : Sized(op[p]) => op[p].size <= Len(dir)

LEMMA WholeSame ==
  ASSUME Whole, dir' = dir,
         \A q \in Deleters : Sized(op'[q]) => op'[q].size <= Len(dir)
  PROVE  Whole'
BY DEF Whole, Positions, Sized

LEMMA WholeAdded ==
  ASSUME Typed, Whole, Len(dir') = Len(dir) + 1,
         \A i \in 1..(Len(dir) + 1) : dir'[i] # Blank,
         \A q \in Deleters : op'[q] = op[q]
  PROVE  Whole'
<1>1. Len(dir) \in Nat /\ \A q \in Deleters : op[q].size \in Nat
  BY TypeFacts DEF Typed, Movers, OpType
<1>2. QED BY <1>1 DEF Whole, Positions, Sized

\* No move leaves the file.
LEMMA NoFault ==
  ASSUME Typed, Whole, NEW p \in Deleters
  PROVE  ~ShiftFault(p)
<1>1. Len(dir) \in Nat /\ op[p].ent \in Nat /\ op[p].size \in Nat
  BY TypeFacts DEF Typed, Movers, OpType
<1>2. op[p].pc = "locked" => Movable(p, op[p].size)
  BY <1>1, PagesFacts DEF Whole, Sized, Movable
<1>3. QED BY <1>2 DEF ShiftFault

LEMMA WholeDeletion ==
  ASSUME OneDeleter, Typed, Whole, NEW p \in Deleters,
         \/ Pick(p) \/ Map(p) \/ Prepare(p)
         \/ Shift(p) \/ ShiftFault(p) \/ Truncate(p) \/ Cancel(p)
  PROVE  Whole'
<1>1. /\ p \in Movers /\ op[p] \in OpType /\ Fits(p, op[p], dir) /\ op[p].size \in Nat
      /\ \A q \in Deleters : q = p
      /\ dir \in Seq(Entry) /\ Len(dir) \in Nat
  BY TypeFacts DEF OneDeleter, Movers, Typed, OpOK, OpType
<1>2. ASSUME dir' = dir, Sized(op'[p]) => op'[p].size <= Len(dir) PROVE Whole'
  BY <1>1, <1>2, WholeSame
<1>3. CASE Pick(p)
  <2>1. dir' = dir /\ op'[p].pc = "picked"
    BY <1>1, <1>3, TypeFacts DEF Typed, Pick, IdleOp
  <2>2. QED BY <1>2, <2>1 DEF Sized
<1>4. CASE Map(p)
  <2>1. dir' = dir /\ (op'[p] = IdleOp \/ op'[p].size = Len(dir))
    BY <1>1, <1>4, TypeFacts DEF Typed, Map, OpType
  <2>2. QED BY <1>1, <1>2, <2>1, IdleFacts DEF Sized
<1>5. CASE Prepare(p)
  <2>1. dir' = dir /\ op[p].pc = "mapped" /\ (op'[p] = IdleOp \/ op'[p].size = op[p].size)
    <3>1. PICK e : e = Located(op[p])
      OBVIOUS
    <3>2. op[p].pc = "mapped" /\ dir' = dir
      BY <1>5 DEF Prepare
    <3>3. op' = [op EXCEPT ![p] = IF e = 0 THEN IdleOp
                                  ELSE [op[p] EXCEPT !.pc = "locked", !.ent = e]]
      BY <1>5, <3>1 DEF Prepare
    <3>4. op'[p] = IF e = 0 THEN IdleOp ELSE [op[p] EXCEPT !.pc = "locked", !.ent = e]
      BY <1>1, <3>3, TypeFacts DEF Typed
    <3>5. QED BY <1>1, <3>2, <3>4 DEF OpType
  <2>2. QED BY <1>1, <1>2, <2>1, IdleFacts DEF Sized, Whole
<1>6. CASE Shift(p)
  <2> DEFINE e == op[p].ent
             n == op[p].size
  <2>1. /\ dir' = Closed(dir, e, n) /\ e \in Nat /\ n <= Len(dir)
        /\ op' = [op EXCEPT ![p] = [op[p] EXCEPT !.pc = "shifted", !.hdr = At(dir, e)]]
    BY <1>1, <1>6 DEF Shift, Whole, Sized, OpType
  <2>2. op'[p].size = n
    BY <1>1, <2>1, TypeFacts DEF Typed, OpType
  <2> HIDE DEF e, n
  <2>3. /\ Len(dir') = Len(dir)
        /\ \A i \in 1..Len(dir) : dir'[i] = IF e <= i /\ i < n THEN At(dir, i + 1) ELSE dir[i]
    BY <1>1, <2>1, ClosedFacts DEF n
  <2>4. ASSUME NEW i \in 1..Len(dir) PROVE dir'[i] # Blank
    <3>1. \A j \in 1..Len(dir) : dir[j] # Blank
      BY DEF Whole, Positions
    <3>2. i < n => i + 1 \in 1..Len(dir)
      BY <1>1, <2>1 DEF n
    <3>3. QED BY <2>3, <3>1, <3>2 DEF At
  <2>5. QED BY <1>1, <2>1, <2>2, <2>3, <2>4 DEF Whole, Positions
<1>7. CASE Truncate(p)
  <2> DEFINE n == op[p].size
  <2>1. dir' = Cut(dir, n - 1) /\ n - 1 \in Nat /\ n <= Len(dir) /\ op'[p].pc = "removed"
    BY <1>1, <1>7, TypeFacts DEF Truncate, Cut, Whole, Sized, Fits, Typed, OpType
  <2> HIDE DEF n
  <2>2. Len(dir') = n - 1 /\ \A i \in 1..(n - 1) : dir'[i] = At(dir, i)
    BY <1>1, <2>1, CutFacts
  <2>3. ASSUME NEW i \in 1..(n - 1) PROVE dir'[i] # Blank
    <3>1. i \in 1..Len(dir) /\ dir[i] # Blank
      BY <1>1, <2>1 DEF Whole, Positions, n
    <3>2. QED BY <2>2, <3>1 DEF At
  <2>4. QED BY <1>1, <2>1, <2>2, <2>3 DEF Whole, Positions, Sized
<1>8. CASE Cancel(p)
  <2>1. dir' = dir /\ op'[p] = IdleOp
    BY <1>1, <1>8, TypeFacts DEF Typed, Cancel
  <2>2. QED BY <1>2, <2>1, IdleFacts DEF Sized
<1>9. ~ShiftFault(p)
  BY NoFault
<1>10. QED BY <1>3, <1>4, <1>5, <1>6, <1>7, <1>8, <1>9

\* A restoration: nothing in the index changes, or a header goes to its place.
LEMMA Restored ==
  ASSUME Typed, Whole, Rises, NEW p \in Restorers,
         UndelCheck(p) \/ UndelMove(p) \/ Reinsert(p) \/ Reappend(p)
  PROVE  Whole' /\ Rises'
<1>1. /\ p \in Movers /\ op[p] \in OpType /\ dir \in Seq(Entry) /\ Len(dir) \in Nat
      /\ p \notin Deleters
  BY TypeFacts, BoardAssumption DEF Movers, Typed
<1>2. \A q \in Deleters : op'[q] = op[q]
  <2>1. PICK o : op' = [op EXCEPT ![p] = o]
    <3>1. CASE UndelCheck(p)
      BY <3>1 DEF UndelCheck
    <3>2. CASE UndelMove(p)
      BY <3>2 DEF UndelMove
    <3>3. CASE Reinsert(p)
      BY <3>3 DEF Reinsert
    <3>4. CASE Reappend(p)
      BY <3>4 DEF Reappend
    <3>5. QED BY <3>1, <3>2, <3>3, <3>4
  <2>2. QED BY <1>1, <2>1, TypeFacts DEF Typed
<1>0. torn' = torn
  BY DEF UndelCheck, UndelMove, Reinsert, Reappend
<1>3. ASSUME dir' = dir PROVE Whole' /\ Rises'
  <2>1. Stable' = Stable
    BY <1>2, <1>3, StableSame DEF Typed
  <2>2. QED BY <1>0, <1>2, <1>3, <2>1, WholeSame DEF Whole, Rises, Sound
<1>4. CASE UndelCheck(p) \/ UndelMove(p)
  BY <1>3, <1>4 DEF UndelCheck, UndelMove
<1>5. CASE Reinsert(p)
  <2> DEFINE h == op[p].hdr
             n == Len(dir)
             r == Search(dir, h.id, n)
             k == r.at
  <2>1. lock = NoOne /\ op[p].pc = "moved"
    BY <1>5 DEF Reinsert
  <2>2. h \in Header /\ h \in Entry /\ h.id \in Nat
    BY <1>1, <2>1, HolderFacts, HeaderFacts DEF Entry
  <2>3. Shifting = {} /\ Shifting' = {}
    BY <1>2, <2>1, StableFacts DEF Typed, Shifting
  <2>4. CASE dir' = Inserted(dir, h, r.at) /\ ~r.hit
    <3>1. k \in 1..(n + 1)
      <4> HIDE DEF h
      <4> QED BY <1>1, <2>2, SearchSound
    <3>2. Rising(dir, n)
      <4>1. Stable = 1..n
        BY <2>3, StableFacts DEF Typed, Whole
      <4>2. \A j \in 1..n : At(dir, j) = dir[j] /\ dir[j].id \in Nat
        BY <4>1, StableFacts, HeaderFacts, TypeFacts DEF Typed
      <4>3. QED BY <4>1, <4>2 DEF Rising, Rises
    <3>3. \A i \in 1..n : /\ i < k => dir[i].id < h.id
                          /\ i >= k => dir[i].id > h.id
      <4>1. \A i \in 1..n : /\ i < k => At(dir, i).id < h.id
                            /\ i >= k => At(dir, i).id > h.id
        <5> HIDE DEF h, n
        <5> QED BY <1>1, <2>2, <2>4, <3>2, SearchComplete DEF n
      <4>2. QED BY <4>1, TypeFacts DEF Typed
    <3>4. /\ Len(dir') = n + 1
          /\ \A i \in 1..(n + 1) :
               dir'[i] = IF i < k THEN dir[i] ELSE IF i = k THEN h ELSE dir[i - 1]
      <4> HIDE DEF h
      <4> QED BY <1>1, <2>2, <2>4, <3>1, InsertedFacts
    <3> HIDE DEF h, k
    <3>5. Rises'
      BY <1>0, <2>2, <2>3, <3>1, <3>3, <3>4, RisesAdded DEF Whole
    <3>6. ASSUME NEW i \in 1..(n + 1) PROVE dir'[i] # Blank
      <4>1. \A j \in 1..n : dir[j] # Blank
        BY DEF Whole, Positions
      <4>2. /\ i < k => i \in 1..n
            /\ i > k => i - 1 \in 1..n
        BY <1>1, <3>1
      <4>3. h # Blank
        BY <2>2, HeaderFacts
      <4>4. i < k \/ i = k \/ i > k
        BY <3>1
      <4>5. QED BY <3>4, <4>1, <4>2, <4>3, <4>4
    <3>7. QED BY <1>2, <3>4, <3>5, <3>6, WholeAdded
  <2>5. QED BY <1>3, <1>5, <2>4 DEF Reinsert
<1>6. CASE Reappend(p)
  <2> DEFINE h == [op[p].hdr EXCEPT !.id = NextId]
  <2>1. op[p].pc = "append" /\ lock \in {NoOne, p} /\ dir' = Append(dir, h)
    BY <1>6 DEF Reappend
  <2>2. nowid + 1 \in 1..MaxId
    BY <1>6, BoardAssumption DEF Reappend, Typed, TypeOK
  <2>3. h \in Header /\ h \in Entry /\ h.id = nowid + 1
    BY <1>1, <2>1, <2>2, HolderFacts DEF Header, Entry, NextId
  <2>4. Shifting = {} /\ Shifting' = {}
    BY <1>1, <1>2, <2>1, BoardAssumption DEF Typed, TypeOK, Shifting, Movers
  <2> HIDE DEF h
  <2>5. Rises'
    BY <1>0, <2>1, <2>3, <2>4, RisesAppended
  <2>6. /\ Len(dir') = Len(dir) + 1 /\ dir'[Len(dir) + 1] = h
        /\ \A i \in 1..Len(dir) : dir'[i] = dir[i]
    BY <1>1, <2>1, <2>3, AppendFacts
  <2>7. \A i \in 1..(Len(dir) + 1) : dir'[i] # Blank
    <3>1. h # Blank /\ \A i \in 1..Len(dir) : dir[i] # Blank
      BY <2>3, HeaderFacts DEF Whole, Positions
    <3>2. \A i \in 1..(Len(dir) + 1) : i = Len(dir) + 1 \/ i \in 1..Len(dir)
      BY <1>1
    <3>3. QED BY <2>6, <3>1, <3>2
  <2>8. QED BY <1>2, <2>5, <2>6, <2>7, WholeAdded
<1>7. QED BY <1>4, <1>5, <1>6

LEMMA WholeStep ==
  ASSUME OneDeleter, Typed, Whole, Rises, [Next]_bvars
  PROVE  Whole' /\ Rises'
<1>1. CASE \E a \in Arts : Post(a)
  <2>1. PICK a \in Arts : Post(a)
    BY <1>1
  <2> DEFINE h == [art |-> a, id |-> NextId]
  <2>2. dir' = Append(dir, h) /\ op' = op /\ h \in Header /\ h \in Entry
    BY <2>1, BoardAssumption DEF Post, Typed, TypeOK, Header, Entry, NextId
  <2> HIDE DEF h
  <2>3. /\ dir \in Seq(Entry) /\ Len(dir) \in Nat
        /\ h # Blank /\ \A i \in 1..Len(dir) : dir[i] # Blank
    BY <2>2, TypeFacts, HeaderFacts DEF Typed, Whole, Positions
  <2>4. /\ Len(dir') = Len(dir) + 1 /\ dir'[Len(dir) + 1] = h
        /\ \A i \in 1..Len(dir) : dir'[i] = dir[i]
    BY <2>2, <2>3, AppendFacts
  <2>5. \A i \in 1..(Len(dir) + 1) : i = Len(dir) + 1 \/ i \in 1..Len(dir)
    BY <2>3
  <2>6. \A i \in 1..(Len(dir) + 1) : dir'[i] # Blank
    BY <2>3, <2>4, <2>5
  <2>7. Whole'
    BY <2>2, <2>4, <2>6, WholeAdded
  <2>8. QED BY <2>1, <2>7, RisesPost
<1>2. ASSUME NEW p \in Deleters,
             \/ Pick(p) \/ Map(p) \/ Prepare(p)
             \/ Shift(p) \/ ShiftFault(p) \/ Truncate(p) \/ Cancel(p)
      PROVE  Whole' /\ Rises'
  <2>1. Whole'
    BY <1>2, WholeDeletion
  <2>2. QED BY <1>2, <2>1, RisesShift, RisesFault, RisesTruncate, RisesQuiet
<1>3. CASE UNCHANGED bvars
  BY <1>3 DEF bvars, Whole, Sized, Rises, Sound, Stable, Positions
<1>4. QED BY <1>1, <1>2, <1>3, Restored DEF Next

LEMMA WholeHolds ==
  ASSUME OneDeleter PROVE Spec => [](Typed /\ Whole /\ Rises)
<1>1. Init => Whole /\ Rises
  BY IdleFacts DEF Init, Whole, Sized, Rises, Stable, Positions, Movers
<1>2. Typed /\ Whole /\ Rises /\ [Next]_bvars => Whole' /\ Rises'
  BY WholeStep
<1>3. QED BY <1>1, <1>2, TypedHolds, PTL DEF Spec

(***************************************************************************)
(* One process at most deletes: then no move of do_del_post gets SIGBUS,   *)
(* and no article is exempt from the three properties above.               *)
(***************************************************************************)
THEOREM NoMoveFaults ==
  ASSUME OneDeleter
  PROVE  Spec => [](torn = {})
<1>1. Init => torn = {}
  BY DEF Init
<1>2. Typed /\ Whole /\ torn = {} /\ [Next]_bvars => (torn = {})'
  <2> SUFFICES ASSUME Typed, Whole, torn = {}, Next PROVE torn' = {}
    BY DEF bvars
  <2>1. torn' = torn
    BY NoFault DEF Next, Post, Pick, Map, Prepare, Shift, Truncate, Cancel, UndelCheck,
                   UndelMove, Reinsert, Reappend
  <2>2. QED BY <2>1
<1>3. QED BY <1>1, <1>2, WholeHolds, PTL DEF Spec

(***************************************************************************)
(* The order of the ids again, on a board where any number of processes    *)
(* restore but one at most deletes: a header goes back to its place, or to *)
(* the end under a new id.                                                 *)
(***************************************************************************)
THEOREM IdsIncreaseRestoring ==
  ASSUME OneDeleter
  PROVE  Spec => []Ordered
<1>1. Typed /\ Rises => Ordered
  BY StableFacts DEF Typed, Rises, Sound, Ordered
<1>2. QED BY <1>1, WholeHolds, PTL

(***************************************************************************)
(* A deletion that gives up is right: when prepare_write_dir ends without  *)
(* an entry, the article is none of those that were counted when the file  *)
(* was mapped.  One process at most deletes.                               *)
(***************************************************************************)
THEOREM GivesUpRightly ==
  ASSUME OneDeleter
  PROVE  Spec => [][\A p \in Deleters : Prepare(p) /\ op'[p].pc = "idle" =>
                      \A i \in 1..op[p].size : dir[i] # op[p].hdr]_bvars
<1> DEFINE Right == \A p \in Deleters : Prepare(p) /\ op'[p].pc = "idle" =>
                      \A i \in 1..op[p].size : dir[i] # op[p].hdr
<1>1. Typed /\ Whole /\ Rises => Right
  <2> SUFFICES ASSUME Typed, Whole, Rises, NEW p \in Deleters, Prepare(p), op'[p].pc = "idle",
                      NEW i \in 1..op[p].size, dir[i] = op[p].hdr
               PROVE  FALSE
    OBVIOUS
  <2>1. /\ lock = NoOne /\ op[p].pc = "mapped" /\ Positions = 1..Len(dir)
        /\ op[p].size <= Len(dir)
    BY DEF Prepare, Whole, Sized
  <2>2. Located(op[p]) # 0
    BY <2>1, FindsWhatIsThere
  <2>3. op' = [op EXCEPT ![p] = [op[p] EXCEPT !.pc = "locked", !.ent = Located(op[p])]]
    BY <2>2 DEF Prepare
  <2>4. op'[p].pc = "locked"
    BY <2>3, TypeFacts DEF Typed, Movers, OpType
  <2>5. QED BY <2>4
<1>2. Typed /\ Whole /\ Rises => [Right]_bvars
  BY <1>1
<1> HIDE DEF Right
<1>3. Spec => [][Right]_bvars
  BY <1>2, WholeHolds, PTL
<1>4. QED BY <1>3 DEF Right
=============================================================================
