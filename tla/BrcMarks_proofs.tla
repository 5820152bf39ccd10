--------------------------- MODULE BrcMarks_proofs ---------------------------
(***************************************************************************)
(* Proofs about the read marks: what the operations on one list promise,   *)
(* for lists of every length; that the lists of the file and the cache     *)
(* stay descending until operations of two sessions overlap, for every     *)
(* number of boards, sessions and entries; and that what is read stays     *)
(* read and the rest unread, for a user with one session.                  *)
(***************************************************************************)
EXTENDS BrcMarks, Ranks

Pos == Nat \ {0}

LEMMA AboveFacts ==
  ASSUME NEW l \in Lists, NEW f \in Nat, NEW i \in 1..M
  PROVE  /\ Above(l, f, 0) /\ Above(l, f, -1)
         /\ Above(l, f, i) <=> Above(l, f, i - 1) /\ l[i] > f
         /\ Above(l, f, i) => \A m \in 1..i : Above(l, f, m) /\ l[m] > f /\ l[m] # 0
         /\ l[i] \in Nat
<1> USE BrcAssumption
<1>1. l[i] \in Nat /\ \A m \in 1..M : l[m] \in Nat
  BY DEF Lists
<1>2. \A m \in 1..i : m = i \/ m \in 1..(i - 1)
  OBVIOUS
<1>3. 1..(i - 1) \subseteq 1..i /\ i \in 1..i /\ \A m \in 1..i : 1..m \subseteq 1..i
  OBVIOUS
<1>4. Above(l, f, 0) /\ Above(l, f, -1)
  BY DEF Above
<1>5. Above(l, f, i) <=> Above(l, f, i - 1) /\ l[i] > f
  BY <1>2, <1>3 DEF Above
<1>6. ASSUME Above(l, f, i), NEW m \in 1..i PROVE Above(l, f, m) /\ l[m] > f /\ l[m] # 0
  <2>1. Above(l, f, m) /\ l[m] > f
    BY <1>3, <1>6 DEF Above
  <2>2. m \in 1..M
    BY BrcAssumption
  <2>3. QED BY <2>1, <2>2, <1>1
<1>7. QED BY <1>1, <1>4, <1>5, <1>6

\* Lists stay lists.
LEMMA ListTypes ==
  ASSUME NEW c \in Lists, NEW l \in Lists, NEW f \in Nat
  PROVE  /\ AddRead(c, l, f) \in Lists
         /\ Inserted(c, l, f) \in Lists
         /\ AllRead(c, f) \in Lists
         /\ ReadUpTo(c, l, f) \in Lists
<1> USE BrcAssumption
<1>0. \A m \in 1..M : c[m] \in Nat
  BY DEF Lists
<1>1. Inserted(c, l, f) \in Lists
  <2> SUFFICES ASSUME NEW i \in 1..M
               PROVE  (IF Above(l, f, i) THEN c[i]
                       ELSE IF Above(l, f, i - 1) THEN f ELSE c[i - 1]) \in Nat
    BY DEF Inserted, Lists
  <2>1. ~Above(l, f, i - 1) => i - 1 \in 1..M
    BY AboveFacts
  <2>2. QED BY <1>0, <2>1
<1>2. AddRead(c, l, f) \in Lists
  BY <1>1 DEF AddRead, Lists
<1>3. AllRead(c, f) \in Lists
  BY DEF AllRead, Lists
<1>4. ReadUpTo(c, l, f) \in Lists
  BY <1>0 DEF ReadUpTo, Lists
<1>5. QED BY <1>1, <1>2, <1>3, <1>4

\* Where the parts of a list with a new id come from.
LEMMA InsertedFacts ==
  ASSUME NEW l \in Lists, NEW f \in Nat, NEW i \in 1..M
  PROVE  /\ Above(l, f, i) => Inserted(l, l, f)[i] = l[i]
         /\ ~Above(l, f, i) /\ Above(l, f, i - 1) => Inserted(l, l, f)[i] = f
         /\ ~Above(l, f, i - 1) => i - 1 \in 1..M /\ Inserted(l, l, f)[i] = l[i - 1]
<1> USE BrcAssumption
<1>1. ~Above(l, f, i - 1) => i - 1 \in 1..M /\ ~Above(l, f, i)
  BY AboveFacts
<1>2. QED BY <1>1 DEF Inserted

LEMMA InsertedDescends ==
  ASSUME NEW l \in Lists, NEW f \in Pos, Descending(l)
  PROVE  Descending(Inserted(l, l, f))
<1> USE BrcAssumption DEF Pos
<1> DEFINE k == Inserted(l, l, f)
<1> SUFFICES ASSUME NEW i \in 2..M, \A m \in 1..i : k[m] # 0
             PROVE  k[i] <= k[i - 1]
  BY DEF Descending
<1>1. i \in 1..M /\ i - 1 \in 1..M /\ l[i] \in Nat /\ l[i - 1] \in Nat
  BY DEF Lists
<1>2. CASE Above(l, f, i)
  <2>1. Above(l, f, i - 1) /\ \A m \in 1..i : l[m] # 0
    BY <1>1, <1>2, AboveFacts
  <2>2. k[i] = l[i] /\ k[i - 1] = l[i - 1]
    BY <1>1, <1>2, <2>1, InsertedFacts
  <2>3. QED BY <2>1, <2>2 DEF Descending
<1>3. CASE ~Above(l, f, i) /\ Above(l, f, i - 1)
  <2>1. k[i] = f /\ k[i - 1] = l[i - 1]
    BY <1>1, <1>3, InsertedFacts
  <2>2. l[i - 1] > f
    BY <1>1, <1>3, AboveFacts
  <2>3. QED BY <1>1, <2>1, <2>2
<1>4. CASE ~Above(l, f, i - 1) /\ Above(l, f, i - 2)
  <2>1. k[i] = l[i - 1]
    BY <1>1, <1>4, InsertedFacts
  <2>2. k[i - 1] = f
    <3>1. (i - 1) - 1 = i - 2
      OBVIOUS
    <3>2. QED BY <1>1, <1>4, <3>1, InsertedFacts
  <2>3. ~(l[i - 1] > f)
    <3>1. (i - 1) - 1 = i - 2
      OBVIOUS
    <3>2. QED BY <1>1, <1>4, <3>1, AboveFacts
  <2>4. QED BY <1>1, <2>1, <2>2, <2>3
<1>5. CASE ~Above(l, f, i - 1) /\ ~Above(l, f, i - 2)
  <2>1. (i - 1) - 1 = i - 2
    OBVIOUS
  <2>2. k[i] = l[i - 1] /\ k[i - 1] = l[i - 2] /\ i - 2 \in 1..M
    BY <1>1, <1>5, <2>1, InsertedFacts
  <2>3. ASSUME NEW m \in 1..(i - 1) PROVE l[m] # 0
    <3>1. m \in 1..M /\ m + 1 \in 1..M /\ m + 1 \in 1..i /\ (m + 1) - 1 = m
      OBVIOUS
    <3>2. CASE Above(l, f, m)
      BY <3>1, <3>2, AboveFacts
    <3>3. CASE ~Above(l, f, m)
      <4>1. k[m + 1] = l[m]
        BY <3>1, <3>3, InsertedFacts
      <4>2. QED BY <3>1, <4>1
    <3>4. QED BY <3>2, <3>3
  <2>4. i - 1 \in 2..M
    BY <2>2
  <2>5. l[i - 1] <= l[(i - 1) - 1]
    BY <2>3, <2>4 DEF Descending
  <2>6. QED BY <2>1, <2>2, <2>5
<1>6. QED BY <1>2, <1>3, <1>4, <1>5

LEMMA AddReadDescends ==
  ASSUME NEW l \in Lists, NEW f \in Pos, Descending(l)
  PROVE  Descending(AddRead(l, l, f))
<1> USE BrcAssumption
<1>1. CASE l[1] = 0
  <2> DEFINE k == AddRead(l, l, f)
  <2>1. k[1] = f /\ k[2] = 1 /\ k[3] = 0
    BY <1>1 DEF AddRead, Lists
  <2> SUFFICES ASSUME NEW i \in 2..M, \A m \in 1..i : k[m] # 0 PROVE k[i] <= k[i - 1]
    BY DEF Descending
  <2>2. i = 2
    <3>1. i >= 3 => 3 \in 1..i
      OBVIOUS
    <3>2. QED BY <2>1, <3>1
  <2>3. QED BY <2>1, <2>2 DEF Pos
<1>2. CASE l[1] # 0
  BY <1>2, InsertedDescends DEF AddRead
<1>3. QED BY <1>1, <1>2

LEMMA AllReadDescends ==
  ASSUME NEW l \in Lists, NEW f \in Nat
  PROVE  Descending(AllRead(l, f))
<1> USE BrcAssumption
<1>1. AllRead(l, f)[2] = 0
  BY DEF AllRead, Lists
<1>2. \A i \in 2..M : 2 \in 1..i
  OBVIOUS
<1>3. QED BY <1>1, <1>2 DEF Descending

LEMMA ReadUpToDescends ==
  ASSUME NEW l \in Lists, NEW f \in Pos, Descending(l), Cuts(l, f)
  PROVE  Descending(ReadUpTo(l, l, f))
<1> USE BrcAssumption DEF Pos
<1> DEFINE k == ReadUpTo(l, l, f)
<1>1. PICK n \in 1..M : Above(l, f, n - 1) /\ ~Above(l, f, n)
  BY DEF Cuts
<1>2. n + 1 \in 1..M => k[n + 1] = 0
  <2>1. ASSUME n + 1 \in 1..M PROVE ~Above(l, f, n + 1)
    BY <1>1, <2>1, AboveFacts
  <2>2. (n + 1) - 1 = n /\ (n + 1) - 2 = n - 1
    OBVIOUS
  <2>3. QED BY <1>1, <2>1, <2>2 DEF ReadUpTo
<1> SUFFICES ASSUME NEW i \in 2..M, \A m \in 1..i : k[m] # 0
             PROVE  k[i] <= k[i - 1]
  BY DEF Descending
<1>3. i \in 1..M /\ i - 1 \in 1..M /\ l[i] \in Nat /\ l[i - 1] \in Nat
  BY DEF Lists
<1>4. n >= i
  <2>1. n < i => n + 1 \in 1..i /\ n + 1 \in 1..M
    OBVIOUS
  <2>2. QED BY <1>2, <2>1
<1>5. Above(l, f, i - 1)
  <2>1. CASE n = i
    BY <1>1, <2>1
  <2>2. CASE n # i
    <3>1. n - 1 \in 1..M /\ i - 1 \in 1..(n - 1)
      BY <1>4, <2>2
    <3>2. QED BY <1>1, <3>1, AboveFacts
  <2>3. QED BY <2>1, <2>2
<1>6. k[i - 1] = l[i - 1] /\ l[i - 1] > f
  BY <1>3, <1>5, AboveFacts DEF ReadUpTo
<1>7. CASE Above(l, f, i)
  <2>1. k[i] = l[i] /\ \A m \in 1..i : l[m] # 0
    BY <1>3, <1>7, AboveFacts DEF ReadUpTo
  <2>2. QED BY <1>6, <2>1 DEF Descending
<1>8. CASE ~Above(l, f, i)
  <2>1. k[i] = f
    BY <1>3, <1>5, <1>8 DEF ReadUpTo
  <2>2. QED BY <1>3, <1>6, <2>1
<1>9. QED BY <1>7, <1>8

-----------------------------------------------------------------------------
(***************************************************************************)
(* What brc_unread answers after brc_add_read.                             *)
(***************************************************************************)

\* Behind a new id the search for an id that is not below it finds nothing.
LEMMA InsertedPrefix ==
  ASSUME NEW l \in Lists, NEW f \in Pos, NEW n \in 1..M,
         Above(l, f, n - 1), ~Above(l, f, n)
  PROVE  /\ \A m \in 1..(n - 1) : Inserted(l, l, f)[m] = l[m] /\ l[m] > f
         /\ Inserted(l, l, f)[n] = f
         /\ \A m \in 1..M : m > n => m - 1 \in 1..M /\ Inserted(l, l, f)[m] = l[m - 1]
<1> USE BrcAssumption DEF Pos
<1>1. ASSUME NEW m \in 1..(n - 1) PROVE Inserted(l, l, f)[m] = l[m] /\ l[m] > f
  <2>1. n - 1 \in 1..M /\ m \in 1..M
    OBVIOUS
  <2>2. Above(l, f, m) /\ l[m] > f
    BY <2>1, AboveFacts
  <2>3. QED BY <2>1, <2>2, InsertedFacts
<1>2. Inserted(l, l, f)[n] = f
  BY InsertedFacts
<1>3. ASSUME NEW m \in 1..M, m > n
      PROVE  m - 1 \in 1..M /\ Inserted(l, l, f)[m] = l[m - 1]
  <2>1. m - 1 \in 1..M /\ n \in 1..(m - 1)
    BY <1>3
  <2>2. ~Above(l, f, m - 1)
    BY <2>1, AboveFacts
  <2>3. QED BY <2>1, <2>2, InsertedFacts
<1>4. QED BY <1>1, <1>2, <1>3

\* Where brc_unread finds out that an id is not read, if not in an empty list.
LEMMA UnreadAt ==
  ASSUME NEW l \in Lists, NEW f \in Pos, Unread(l, f), l[1] # 0
  PROVE  \E n \in 1..M : /\ l[n] # 0 /\ f > l[n]
                         /\ Above(l, f, n - 1) /\ ~Above(l, f, n)
<1> USE BrcAssumption DEF Pos
<1>1. PICK n \in 1..M : l[n] # 0 /\ f > l[n] /\ Above(l, f, n - 1)
  BY DEF Unread
<1>2. ~Above(l, f, n)
  BY <1>1, AboveFacts
<1>3. QED BY <1>1, <1>2

\* After brc_add_read the article is read.
THEOREM MarkedIsRead ==
  ASSUME NEW l \in Lists, NEW f \in Pos
  PROVE  ~Unread(AddRead(l, l, f), f)
<1> USE BrcAssumption DEF Pos
<1> DEFINE k == AddRead(l, l, f)
<1>1. CASE l[1] = 0
  <2>1. k[1] = f
    BY <1>1 DEF AddRead, Lists
  <2>2. ASSUME NEW n \in 1..M, k[n] # 0, f > k[n], Above(k, f, n - 1) PROVE FALSE
    <3>1. n # 1 /\ 1 \in 1..(n - 1)
      BY <2>1, <2>2
    <3>2. QED BY <2>1, <2>2, <3>1 DEF Above
  <2>3. QED BY <2>1, <2>2 DEF Unread
<1>2. CASE l[1] # 0 /\ Unread(l, f)
  <2>1. PICK n \in 1..M : Above(l, f, n - 1) /\ ~Above(l, f, n)
    BY <1>2, UnreadAt
  <2>2. k = Inserted(l, l, f)
    BY <1>2 DEF AddRead
  <2>3. /\ \A m \in 1..(n - 1) : k[m] = l[m] /\ l[m] > f
        /\ k[n] = f
    BY <2>1, <2>2, InsertedPrefix
  <2>4. k[1] # 0
    <3>1. n = 1 \/ 1 \in 1..(n - 1)
      OBVIOUS
    <3>2. QED BY <2>3, <3>1, <1>2
  <2>5. ASSUME NEW i \in 1..M, k[i] # 0, f > k[i], Above(k, f, i - 1) PROVE FALSE
    <3>1. CASE i < n
      <4>1. i \in 1..(n - 1) /\ l[i] \in Nat
        BY <3>1 DEF Lists
      <4>2. QED BY <4>1, <2>3, <2>5
    <3>2. CASE i = n
      BY <3>2, <2>3, <2>5
    <3>3. CASE i > n
      <4>1. n \in 1..(i - 1)
        BY <3>3
      <4>2. QED BY <4>1, <2>3, <2>5 DEF Above
    <3>4. QED BY <3>1, <3>2, <3>3
  <2>6. QED BY <2>4, <2>5 DEF Unread
<1>3. CASE ~Unread(l, f)
  <2>1. l[1] # 0
    BY <1>3 DEF Unread
  <2>2. QED BY <1>3, <2>1 DEF AddRead
<1>4. QED BY <1>1, <1>2, <1>3

\* brc_add_read makes no article unread, even if the list is full.
THEOREM MarksAreKept ==
  ASSUME NEW l \in Lists, NEW f \in Pos, NEW g \in Pos, ~Unread(l, g)
  PROVE  ~Unread(AddRead(l, l, f), g)
<1> USE BrcAssumption DEF Pos
<1> DEFINE k == AddRead(l, l, f)
<1>1. l[1] # 0
  BY DEF Unread
<1>2. CASE ~Unread(l, f)
  BY <1>1, <1>2 DEF AddRead
<1>3. CASE Unread(l, f)
  <2>1. PICK n \in 1..M : l[n] # 0 /\ f > l[n] /\ Above(l, f, n - 1) /\ ~Above(l, f, n)
    BY <1>1, <1>3, UnreadAt
  <2>2. k = Inserted(l, l, f)
    BY <1>1, <1>3 DEF AddRead
  <2>3. /\ \A m \in 1..(n - 1) : k[m] = l[m] /\ l[m] > f
        /\ k[n] = f
        /\ \A m \in 1..M : m > n => m - 1 \in 1..M /\ k[m] = l[m - 1]
    BY <2>1, <2>2, InsertedPrefix
  <2>4. k[1] # 0
    <3>1. n = 1 \/ 1 \in 1..(n - 1)
      OBVIOUS
    <3>2. QED BY <2>3, <3>1, <1>1
  <2>5. ASSUME NEW i \in 1..M, k[i] # 0, g > k[i], Above(k, g, i - 1) PROVE FALSE
    <3>1. ASSUME NEW j \in 1..M, l[j] # 0, g > l[j], \A m \in 1..(j - 1) : l[m] > g
          PROVE  FALSE
      BY <3>1 DEF Unread, Above
    <3>2. \A m \in 1..(i - 1) : k[m] > g
      BY <2>5 DEF Above
    <3>3. CASE i < n
      <4>1. i \in 1..(n - 1) /\ \A m \in 1..(i - 1) : m \in 1..(n - 1)
        BY <3>3
      <4>2. QED BY <4>1, <3>1, <3>2, <2>3, <2>5
    <3>4. CASE i = n
      <4>1. g > l[n]
        <5>1. l[n] \in Nat
          BY DEF Lists
        <5>2. QED BY <5>1, <3>4, <2>1, <2>3, <2>5
      <4>2. \A m \in 1..(n - 1) : l[m] > g
        BY <3>2, <3>4, <2>3
      <4>3. QED BY <4>1, <4>2, <3>1, <2>1
    <3>5. CASE i > n
      <4>1. i - 1 \in 1..M /\ k[i] = l[i - 1]
        BY <3>5, <2>3
      <4>2. ASSUME NEW m \in 1..((i - 1) - 1) PROVE l[m] > g
        <5>1. CASE m < n
          <6>1. m \in 1..(n - 1) /\ m \in 1..(i - 1)
            BY <5>1
          <6>2. QED BY <6>1, <3>2, <2>3
        <5>2. CASE m >= n
          <6>1. m + 1 \in 1..M /\ m + 1 > n /\ m + 1 \in 1..(i - 1) /\ (m + 1) - 1 = m
            BY <5>2
          <6>2. QED BY <6>1, <3>2, <2>3
        <5>3. QED BY <5>1, <5>2
      <4>3. QED BY <4>1, <4>2, <3>1, <2>5
    <3>6. QED BY <3>3, <3>4, <3>5
  <2>6. QED BY <2>4, <2>5 DEF Unread
<1>4. QED BY <1>2, <1>3

\* An article that was unread still is, or what told so fell off a full list.
LEMMA OthersShown ==
  ASSUME NEW l \in Lists, NEW f \in Pos, NEW g \in Pos, g # f, g # 1, Unread(l, g)
  PROVE  \/ Unread(AddRead(l, l, f), g)
         \/ Above(AddRead(l, l, f), g, M) /\ \A z \in 1..M : l[z] # 0
<1> USE BrcAssumption DEF Pos
<1> DEFINE k == AddRead(l, l, f)
<1>1. CASE l[1] = 0
  <2>1. k[1] = f /\ k[2] = 1
    BY <1>1 DEF AddRead, Lists
  <2>2. CASE g > f
    <3>1. Above(k, g, 1 - 1)
      BY DEF Above
    <3>2. QED BY <2>1, <2>2, <3>1 DEF Unread
  <2>3. CASE f > g
    <3>1. Above(k, g, 2 - 1)
      BY <2>1, <2>3 DEF Above
    <3>2. k[2] # 0 /\ g > k[2] /\ 2 \in 1..M
      BY <2>1
    <3>3. QED BY <3>1, <3>2 DEF Unread
  <2>4. QED BY <2>2, <2>3
<1>2. CASE l[1] # 0 /\ ~Unread(l, f)
  BY <1>2 DEF AddRead
<1>3. CASE l[1] # 0 /\ Unread(l, f)
  <2>1. PICK n \in 1..M : l[n] # 0 /\ f > l[n] /\ Above(l, f, n - 1) /\ ~Above(l, f, n)
    BY <1>3, UnreadAt
  <2>2. k = Inserted(l, l, f)
    BY <1>3 DEF AddRead
  <2>3. /\ \A m \in 1..(n - 1) : k[m] = l[m] /\ l[m] > f
        /\ k[n] = f
        /\ \A m \in 1..M : m > n => m - 1 \in 1..M /\ k[m] = l[m - 1]
    BY <2>1, <2>2, InsertedPrefix
  <2>4. PICK i \in 1..M : l[i] # 0 /\ g > l[i] /\ Above(l, g, i - 1)
    BY <1>3 DEF Unread
  <2>5. \A m \in 1..(i - 1) : l[m] > g
    BY <2>4 DEF Above
  <2>6. \A m \in 1..M : l[m] \in Nat
    BY DEF Lists
  <2>7. ASSUME NEW j \in 1..M, k[j] # 0, g > k[j], \A m \in 1..(j - 1) : k[m] > g
        PROVE  Unread(k, g)
    BY <2>7 DEF Unread, Above
  <2>8. CASE i < n
    <3>1. i \in 1..(n - 1) /\ \A m \in 1..(i - 1) : m \in 1..(n - 1)
      BY <2>8
    <3>2. QED BY <3>1, <2>3, <2>4, <2>5, <2>7
  <2>9. CASE i = n /\ g > f
    BY <2>9, <2>3, <2>5, <2>7
  <2>10. CASE i > n \/ (i = n /\ f > g)
    <3>1. f > g
      <4>1. CASE i > n
        <5>1. n \in 1..(i - 1) /\ l[n] \in Nat
          BY <4>1, <2>6
        <5>2. QED BY <5>1, <2>1, <2>5
      <4>2. QED BY <2>10, <4>1
    <3>2. ASSUME NEW m \in 1..i PROVE k[m] > g
      <4>1. CASE m < n
        <5>1. m \in 1..(n - 1) /\ m \in 1..(i - 1)
          BY <4>1, <2>10
        <5>2. QED BY <5>1, <2>3, <2>5
      <4>2. CASE m = n
        BY <4>2, <3>1, <2>3
      <4>3. CASE m > n
        <5>1. m \in 1..M /\ m - 1 \in 1..(i - 1)
          BY <4>3
        <5>2. QED BY <5>1, <4>3, <2>3, <2>5
      <4>4. QED BY <4>1, <4>2, <4>3
    <3>3. CASE i < M
      <4>1. i + 1 \in 1..M /\ i + 1 > n /\ (i + 1) - 1 = i
        BY <3>3, <2>10
      <4>2. k[i + 1] = l[i]
        BY <4>1, <2>3
      <4>3. QED BY <4>1, <4>2, <3>2, <2>4, <2>7
    <3>4. CASE i = M
      <4>1. ASSUME NEW z \in 1..M PROVE l[z] # 0
        <5>1. z = i \/ z \in 1..(i - 1)
          BY <3>4
        <5>2. QED BY <5>1, <2>4, <2>5, <2>6
      <4>2. QED BY <4>1, <3>2, <3>4 DEF Above
    <3>5. QED BY <3>3, <3>4
  <2>11. QED BY <2>8, <2>9, <2>10
<1>4. QED BY <1>1, <1>2, <1>3

\* brc_add_read makes no other article read, unless the list is full or the
\* article is the first of the board.
THEOREM OthersStayUnread ==
  ASSUME NEW l \in Lists, NEW f \in Pos, NEW g \in Pos, g # f, g # 1, Unread(l, g),
         \E z \in 1..M : l[z] = 0
  PROVE  Unread(AddRead(l, l, f), g)
BY OthersShown

-----------------------------------------------------------------------------
(***************************************************************************)
(* The lists stay descending until operations on an entry overlap.  The    *)
(* list a session read from a file that is replaced since, and those       *)
(* brc_update is about to write, are in no file and no cache: the          *)
(* inductive invariant adds these copies.  It also says that a mark is     *)
(* made at a place found in the list as it is, by one session at a time.   *)
(***************************************************************************)
Orderly(r) == Descending(r.opened) /\ \A b \in Boards : Descending(r.data[b])

\* What the loop of the mark of a session has found out.
Fit(r) ==
  /\ r.op \in {"add", "cut"} => r.fid \in Pos
  /\ r.op = "cut" => Cuts(r.opened, r.fid)

Placed ==
  \A s \in Sessions : ses[s].pc = "marking" =>
    /\ Fit(ses[s])
    /\ cache[ses[s].cur].list = ses[s].opened
    /\ \A t \in Sessions : ses[t].pc = "marking" /\ ses[t].cur = ses[s].cur => t = s

Sorted ==
  /\ \A b \in Boards : Descending(file[b])
  /\ \A e \in Entries : Descending(cache[e].list)
  /\ \A s \in Sessions : Orderly(ses[s])

Inv == TypeOK /\ (mixed \/ (Sorted /\ Placed))

\* What the types say of a session.
Proper(r) ==
  /\ r \in SessionType
  /\ r.pc \in {"picked", "loaded"} => r.slot # 0 /\ r.bid # 0
  /\ r.pc = "marking" => r.cur # 0
  /\ r.cur # 0 \/ r.after = "load" => r.bid # 0

\* Some entry of a set is the last one.
LEMMA LastEntry ==
  ASSUME NEW T \in SUBSET Entries, T # {}
  PROVE  \E m \in T : \A t \in T : t <= m
<1> USE BrcAssumption
<1> DEFINE rank == [e \in Entries |-> -e]
<1>1. IsFiniteSet(Entries)
  BY FS_Interval DEF Entries
<1>2. rank \in [Entries -> Int]
  BY DEF Entries
<1>3. PICK m \in T : \A t \in T : rank[m] <= rank[t]
  <2> HIDE DEF rank
  <2> QED BY <1>1, <1>2, LeastRank
<1>4. \A t \in T : t \in Int /\ rank[t] = -t
  BY DEF Entries
<1> HIDE DEF rank
<1>5. QED BY <1>3, <1>4

LEMMA NoListDescends == NoList \in Lists /\ Descending(NoList)
<1> USE BrcAssumption
<1>1. NoList \in Lists /\ NoList[1] = 0
  BY DEF NoList, Lists
<1>2. \A i \in 2..M : 1 \in 1..i
  OBVIOUS
<1>3. QED BY <1>1, <1>2 DEF Descending

\* What brc_update writes for each board is a list of the file or of the cache.
LEMMA MergedFacts ==
  ASSUME TypeOK, NEW data \in [Boards -> Lists]
  PROVE  /\ Merged(data) \in [Boards -> Lists]
         /\ Sorted /\ (\A b \in Boards : Descending(data[b]))
              => \A b \in Boards : Descending(Merged(data)[b])
<1> SUFFICES ASSUME NEW b \in Boards
             PROVE  /\ Merged(data)[b] \in Lists
                    /\ Sorted /\ Descending(data[b]) => Descending(Merged(data)[b])
  BY DEF Merged
<1> DEFINE changed == {e \in Holding(b) : cache[e].changed}
           last == CHOOSE e \in changed : \A d \in changed : d <= e
<1>1. CASE changed = {}
  BY <1>1 DEF Merged
<1>2. CASE changed # {}
  <2>1. changed \in SUBSET Entries
    BY DEF Holding
  <2>2. last \in Entries
    <3>1. \E e \in changed : \A d \in changed : d <= e
      BY <1>2, <2>1, LastEntry
    <3>2. QED BY <2>1, <3>1
  <2>3. Merged(data)[b] = cache[last].list
    BY <1>2 DEF Merged
  <2>4. QED BY <2>2, <2>3 DEF TypeOK, EntryType, Sorted
<1>3. QED BY <1>1, <1>2

\* A list that ends earlier descends as far as it goes.
LEMMA UpToFacts ==
  ASSUME NEW data \in [Boards -> Lists], NEW k \in Boards, NEW i \in 0..M
  PROVE  /\ UpTo(data, k, i) \in [Boards -> Lists]
         /\ (\A b \in Boards : Descending(data[b]))
              => \A b \in Boards : Descending(UpTo(data, k, i)[b])
<1> USE BrcAssumption
<1>1. UpTo(data, k, i) \in [Boards -> Lists]
  BY DEF UpTo, Lists
<1>2. ASSUME NEW b \in Boards, Descending(data[b]),
             NEW j \in 2..M, \A m \in 1..j : UpTo(data, k, i)[b][m] # 0
      PROVE  UpTo(data, k, i)[b][j] <= UpTo(data, k, i)[b][j - 1]
  <2>1. \A m \in 1..j : m \in 1..M
    OBVIOUS
  <2>2. \A m \in 1..j : UpTo(data, k, i)[b][m] = data[b][m]
    BY <1>2, <2>1 DEF UpTo
  <2>3. j \in 1..j /\ j - 1 \in 1..j
    OBVIOUS
  <2>4. QED BY <1>2, <2>2, <2>3 DEF Descending
<1>3. QED BY <1>1, <1>2 DEF Descending

\* What a mark leaves of a list.
LEMMA StoredFacts ==
  ASSUME NEW l \in Lists, NEW k \in SessionType
  PROVE  /\ Stored(l, k) \in Lists
         /\ Descending(l) /\ l = k.opened /\ Fit(k) => Descending(Stored(l, k))
<1>1. k.opened \in Lists /\ k.fid \in Nat /\ k.op \in {"none", "add", "all", "cut"}
  BY DEF SessionType
<1>2. CASE k.op = "add"
  <2>1. Stored(l, k) = AddRead(l, k.opened, k.fid)
    BY <1>2 DEF Stored
  <2>2. QED BY <1>1, <1>2, <2>1, ListTypes, AddReadDescends DEF Fit
<1>3. CASE k.op = "cut"
  <2>1. Stored(l, k) = ReadUpTo(l, k.opened, k.fid)
    BY <1>3 DEF Stored
  <2>2. QED BY <1>1, <1>3, <2>1, ListTypes, ReadUpToDescends DEF Fit
<1>4. CASE k.op \notin {"add", "cut"}
  <2>1. Stored(l, k) = AllRead(l, k.fid)
    BY <1>4 DEF Stored
  <2>2. QED BY <1>1, <2>1, ListTypes, AllReadDescends
<1>5. QED BY <1>2, <1>3, <1>4

\* Whatever is left of the file, its lists are those that were written, whole or
\* in part, or those of before.
LEMMA WrittenFacts ==
  ASSUME TypeOK, NEW data \in [Boards -> Lists], NEW f \in Written(data)
  PROVE  /\ f \in [Boards -> Lists]
         /\ Sorted /\ (\A b \in Boards : Descending(data[b]))
              => \A b \in Boards : Descending(f[b])
<1>1. CASE f \in {data, file}
  BY <1>1 DEF TypeOK, Sorted
<1>2. CASE f \notin {data, file}
  <2>1. PICK k \in Boards, i \in 0..M : f = UpTo(data, k, i)
    BY <1>2 DEF Written
  <2>2. QED BY <2>1, UpToFacts
<1>3. QED BY <1>1, <1>2

\* The fields of a session that has none of its own.
LEMMA OutFacts ==
  /\ Out.pc = "out" /\ Out.cur = 0 /\ Out.after = "exit"
  /\ Proper(Out) /\ Orderly(Out)
<1> USE BrcAssumption, NoListDescends
<1>1. NoMarks \in [Boards -> Lists] /\ \A b \in Boards : Descending(NoMarks[b])
  BY DEF NoMarks
<1>2. Out.pc = "out" /\ Out.cur = 0 /\ Out.after = "exit"
  BY DEF Out
<1>3. Out \in SessionType
  BY <1>1 DEF Out, SessionType
<1>4. QED BY <1>1, <1>2, <1>3 DEF Out, Orderly, Proper

LEMMA InitInv == Init => Inv
<1> SUFFICES ASSUME Init PROVE Inv
  OBVIOUS
<1> USE BrcAssumption, NoListDescends
<1>1. NoMarks \in [Boards -> Lists] /\ \A b \in Boards : Descending(NoMarks[b])
  BY DEF NoMarks
<1>2. \A s \in Sessions : ses[s] = Out
  BY DEF Init
<1>3. TypeOK
  <2>1. ses \in [Sessions -> SessionType]
    BY OutFacts DEF Init, Proper
  <2>2. cache \in [Entries -> EntryType]
    BY DEF Init, Empty, EntryType
  <2>3. QED BY <1>1, <1>2, <2>1, <2>2, OutFacts DEF Init, TypeOK
<1>4. Sorted
  BY <1>1, <1>2, OutFacts DEF Init, Sorted, Empty
<1>5. Placed
  BY <1>2, OutFacts DEF Placed
<1>6. QED BY <1>3, <1>4, <1>5 DEF Inv

\* A step that changes one session, to r.
LEMMA OneSession ==
  ASSUME Inv, NEW s \in Sessions, NEW r, Proper(r),
         ses' = [ses EXCEPT ![s] = r], UNCHANGED nowid,
         file' \in [Boards -> Lists],
         cache' \in [Entries -> EntryType],
         seen' \in [Watched -> SUBSET Pos],
         mixed' \in BOOLEAN, ~mixed' => ~mixed,
         ~mixed' => Orderly(r),
         ~mixed' => \A b \in Boards : Descending(file'[b]),
         ~mixed' => \A e \in Entries : Descending(cache'[e].list),
         ~mixed' => \A t \in Sessions : t # s /\ ses[t].pc = "marking" =>
           /\ cache'[ses[t].cur].list = cache[ses[t].cur].list
           /\ r.pc = "marking" => ses[t].cur # r.cur,
         ~mixed' /\ r.pc = "marking" => Fit(r) /\ cache'[r.cur].list = r.opened
  PROVE  Inv'
<1>1. ses' \in [Sessions -> SessionType]
  BY DEF Inv, TypeOK, Proper
<1>2. ses'[s] = r /\ \A t \in Sessions : t # s => ses'[t] = ses[t]
  BY DEF Inv, TypeOK
<1>3. \A t \in Sessions : Proper(ses'[t])
  BY <1>2 DEF Inv, TypeOK, Proper
<1>4. TypeOK'
  BY <1>1, <1>3 DEF Inv, TypeOK, Proper, Pos
<1>5. CASE ~mixed'
  <2>1. Sorted /\ Placed
    BY <1>5 DEF Inv
  <2>2. \A t \in Sessions : Orderly(ses'[t])
    BY <1>2, <1>5, <2>1 DEF Sorted
  <2>3. Sorted'
    BY <1>5, <2>2 DEF Sorted
  <2>4. ASSUME NEW t \in Sessions, ses'[t].pc = "marking"
        PROVE  /\ Fit(ses'[t])
               /\ cache'[ses'[t].cur].list = ses'[t].opened
               /\ \A u \in Sessions : ses'[u].pc = "marking" /\ ses'[u].cur = ses'[t].cur => u = t
    <3>1. CASE t = s
      BY <1>2, <1>5, <2>4, <3>1
    <3>2. CASE t # s
      BY <1>2, <1>5, <2>1, <2>4, <3>2 DEF Placed
    <3>3. QED BY <3>1, <3>2
  <2>5. Placed'
    BY <2>4 DEF Placed, Fit
  <2>6. QED BY <1>4, <2>3, <2>5 DEF Inv
<1>6. CASE mixed'
  BY <1>4, <1>6 DEF Inv
<1>7. QED BY <1>5, <1>6

\* One that changes nothing else, and makes no mark.
LEMMA QuietSession ==
  ASSUME Inv, NEW s \in Sessions, NEW r, Proper(r), r.pc # "marking",
         ses' = [ses EXCEPT ![s] = r], UNCHANGED <<file, cache, nowid, seen>>,
         mixed' \in BOOLEAN, ~mixed' => ~mixed, ~mixed => Orderly(r)
  PROVE  Inv'
<1>1. /\ file' \in [Boards -> Lists] /\ cache' \in [Entries -> EntryType]
      /\ seen' \in [Watched -> SUBSET Pos]
  BY DEF Inv, TypeOK, Pos
<1>2. ~mixed' => Sorted
  BY DEF Inv
<1>3. ~mixed' => /\ \A b \in Boards : Descending(file'[b])
                 /\ \A e \in Entries : Descending(cache'[e].list)
  BY <1>2 DEF Sorted
<1>4. QED BY <1>1, <1>3, OneSession

\* What the invariant says of one session and its entry.
LEMMA OfSession ==
  ASSUME Inv, NEW s \in Sessions
  PROVE  /\ Proper(ses[s])
         /\ ~mixed => Orderly(ses[s])
         /\ mixed \in BOOLEAN
         /\ \A b \in Boards : ~mixed => Descending(file[b])
         /\ \A e \in Entries : ~mixed => Descending(cache[e].list)
<1>1. Proper(ses[s]) /\ mixed \in BOOLEAN
  BY DEF Inv, TypeOK, Proper
<1>2. ~mixed => Sorted
  BY DEF Inv
<1>3. QED BY <1>1, <1>2 DEF Sorted

LEMMA SeenTyped ==
  ASSUME Inv, NEW b, NEW ids \in SUBSET Pos
  PROVE  Seen(b, ids) \in [Watched -> SUBSET Pos]
BY DEF Seen, Inv, TypeOK, Pos

LEMMA ImpliedInv ==
  ASSUME Inv, NEW s \in Sessions, NEW ids \in SUBSET Pos, Implied(s, ids)
  PROVE  Inv'
<1>1. Seen(ses[s].bid, ids) \in [Watched -> SUBSET Pos]
  BY SeenTyped
<1>2. UNCHANGED <<file, cache, nowid, ses, mixed>> /\ seen' = Seen(ses[s].bid, ids)
  BY DEF Implied
<1>3. TypeOK'
  BY <1>1, <1>2 DEF Inv, TypeOK, Pos
<1>4. Sorted' = Sorted /\ Placed' = Placed
  BY <1>2 DEF Sorted, Placed
<1>5. QED BY <1>2, <1>3, <1>4 DEF Inv

\* The loop of a mark.
LEMMA BeginInv ==
  ASSUME Inv, NEW s \in Sessions, Valid(s), NEW op \in {"add", "all", "cut"}, NEW f \in Nat,
         op \in {"add", "cut"} => f \in Pos,
         op = "cut" => Cuts(cache[ses[s].cur].list, f),
         Begin(s, op, f)
  PROVE  Inv'
<1>1. PICK l : l = cache[ses[s].cur].list
  OBVIOUS
<1>2. PICK r : r = [ses[s] EXCEPT !.pc = "marking", !.op = op, !.fid = f, !.opened = l]
  OBVIOUS
<1>3. ses[s].cur \in Entries /\ ses[s].cur # 0 /\ l \in Lists /\ Proper(ses[s])
  BY <1>1, OfSession DEF Valid, Inv, TypeOK, EntryType, SessionType, Proper, Entries
<1>4. ses[s] \in SessionType
  BY <1>3 DEF Proper
<1>5. /\ r \in SessionType /\ r.pc = "marking" /\ r.cur = ses[s].cur /\ r.bid = ses[s].bid
      /\ r.op = op /\ r.fid = f /\ r.opened = l /\ r.data = ses[s].data
      /\ r.after = ses[s].after
  BY <1>2, <1>3, <1>4 DEF SessionType
<1>6. Proper(r)
  BY <1>3, <1>5 DEF Proper
<1>7. ses' = [ses EXCEPT ![s] = r]
  BY <1>1, <1>2 DEF Begin, Inv, TypeOK
<1>8. UNCHANGED <<file, cache, nowid, seen>> /\ mixed' = (mixed \/ Marking(ses[s].cur) # {})
  BY DEF Begin
<1>9. mixed' \in BOOLEAN /\ (~mixed' => ~mixed) /\ (~mixed' => Marking(ses[s].cur) = {})
  BY ONLY <1>8
<1>10. ~mixed => Orderly(r)
  BY <1>1, <1>3, <1>5, OfSession DEF Orderly
<1>11. Fit(r) /\ cache'[r.cur].list = r.opened
  BY <1>1, <1>5, <1>8 DEF Fit
<1>12. ASSUME ~mixed', NEW t \in Sessions, ses[t].pc = "marking" PROVE ses[t].cur # r.cur
  BY <1>5, <1>9, <1>12 DEF Marking
<1>13. /\ file' \in [Boards -> Lists] /\ cache' \in [Entries -> EntryType]
       /\ seen' \in [Watched -> SUBSET Pos]
  BY <1>8 DEF Inv, TypeOK, Pos
<1>14. ~mixed' => /\ \A b \in Boards : Descending(file'[b])
                  /\ \A e \in Entries : Descending(cache'[e].list)
  BY <1>8, <1>9, OfSession
<1>15. \A t \in Sessions : cache'[ses[t].cur].list = cache[ses[t].cur].list
  BY <1>8
<1>16. ~mixed' => \A t \in Sessions : t # s /\ ses[t].pc = "marking" =>
         /\ cache'[ses[t].cur].list = cache[ses[t].cur].list
         /\ r.pc = "marking" => ses[t].cur # r.cur
  BY <1>12, <1>15
<1>17. UNCHANGED nowid /\ (~mixed' => Orderly(r))
  BY <1>8, <1>9, <1>10
<1>18. ~mixed' => \A b \in Boards : Descending(file'[b])
  BY <1>14
<1>19. ~mixed' => \A e \in Entries : Descending(cache'[e].list)
  BY <1>14
<1>20. QED BY <1>6, <1>7, <1>9, <1>11, <1>13, <1>16, <1>17, <1>18, <1>19, OneSession

LEMMA ReadInv ==
  ASSUME Inv, NEW s \in Sessions, Read(s) \/ ClearAll(s) \/ ClearOld(s)
  PROVE  Inv'
<1>1. PICK l : l = cache[ses[s].cur].list
  OBVIOUS
<1>2. Valid(s) /\ ses[s].bid \in Boards /\ nowid[ses[s].bid] \in Nat
  BY DEF Read, ClearAll, ClearOld, Valid, Inv, TypeOK, SessionType, Entries
<1>3. CASE Read(s)
  <2>1. PICK f \in 1..nowid[ses[s].bid] :
          IF Unread(l, f) THEN Begin(s, "add", f) ELSE Implied(s, {f})
    BY <1>1, <1>3 DEF Read
  <2>2. f \in Pos /\ f \in Nat /\ {f} \in SUBSET Pos
    BY <1>2 DEF Pos
  <2>3. QED BY <1>2, <2>1, <2>2, BeginInv, ImpliedInv
<1>4. CASE ClearAll(s)
  <2>1. Begin(s, "all", nowid[ses[s].bid])
    BY <1>4 DEF ClearAll
  <2>2. QED BY <1>2, <2>1, BeginInv
<1>5. CASE ClearOld(s)
  <2>1. PICK f \in 1..nowid[ses[s].bid] :
          IF Cuts(l, f) THEN Begin(s, "cut", f) ELSE Implied(s, 1..f)
    BY <1>1, <1>5 DEF ClearOld
  <2>2. f \in Pos /\ f \in Nat /\ 1..f \in SUBSET Pos
    BY <1>2 DEF Pos
  <2>3. CASE Cuts(l, f)
    <3>1. Begin(s, "cut", f)
      BY <2>1, <2>3
    <3>2. QED BY <1>1, <1>2, <2>2, <2>3, <3>1, BeginInv
  <2>4. CASE ~Cuts(l, f)
    <3>1. Implied(s, 1..f)
      BY <2>1, <2>4
    <3>2. QED BY <2>2, <3>1, ImpliedInv
  <2>5. QED BY <2>3, <2>4
<1>6. QED BY <1>3, <1>4, <1>5

\* The stores of a mark.
LEMMA MarkInv ==
  ASSUME Inv, NEW s \in Sessions, Mark(s)
  PROVE  Inv'
<1>1. PICK k : k = ses[s]
  OBVIOUS
<1>2. Proper(k) /\ k.pc = "marking" /\ k \in SessionType /\ (~mixed => Orderly(k))
  BY <1>1, OfSession DEF Mark, Proper
<1>3. k.cur \in Entries /\ k.bid \in Boards
  BY <1>2 DEF Proper, SessionType, Entries
<1>4. PICK l : l = cache[k.cur].list
  OBVIOUS
<1>5. l \in Lists /\ cache[k.cur] \in EntryType /\ nowid[k.bid] \in Nat
  BY <1>3, <1>4 DEF Inv, TypeOK, EntryType
<1>6. PICK n : n = Stored(l, k)
  OBVIOUS
<1>7. n \in Lists
  BY <1>2, <1>5, <1>6, StoredFacts
<1>8. /\ cache' = [cache EXCEPT ![k.cur].list = Stored(@, k), ![k.cur].changed = TRUE]
      /\ seen'  = Seen(k.bid, Meant(k))
      /\ UNCHANGED <<file, nowid, mixed>>
  BY <1>1 DEF Mark
<1>9. /\ cache' \in [Entries -> EntryType]
      /\ cache'[k.cur].list = n
      /\ \A e \in Entries : e # k.cur => cache'[e] = cache[e]
  <2>1. PICK c : c = [cache[k.cur] EXCEPT !.list = n, !.changed = TRUE]
    OBVIOUS
  <2>2. c \in EntryType /\ c.list = n
    BY <1>5, <1>7, <2>1 DEF EntryType
  <2>3. cache' = [cache EXCEPT ![k.cur] = c]
    BY <1>3, <1>4, <1>6, <1>8, <2>1 DEF Inv, TypeOK
  <2>4. QED BY <1>3, <2>2, <2>3 DEF Inv, TypeOK
<1>10. seen' \in [Watched -> SUBSET Pos]
  <2>1. Meant(k) \in SUBSET Pos
    BY <1>5 DEF Meant, Pos
  <2>2. QED BY <1>8, <2>1, SeenTyped
<1>11. PICK r : r = [k EXCEPT !.pc = "in", !.op = "none", !.fid = 0, !.opened = NoList]
  OBVIOUS
<1>12. /\ r \in SessionType /\ r.pc = "in" /\ r.cur = k.cur /\ r.bid = k.bid
       /\ r.opened = NoList /\ r.data = k.data /\ r.after = k.after
  BY <1>2, <1>11, NoListDescends DEF SessionType
<1>13. ses' = [ses EXCEPT ![s] = r]
  BY <1>1, <1>11 DEF Mark, Inv, TypeOK
<1>14. Proper(r)
  BY <1>2, <1>12 DEF Proper
<1>15. ~mixed => Orderly(r)
  BY <1>2, <1>12, NoListDescends DEF Orderly
<1>16. ASSUME ~mixed
       PROVE  /\ Descending(n)
              /\ \A t \in Sessions : t # s /\ ses[t].pc = "marking" => ses[t].cur # k.cur
  <2>1. Placed
    BY <1>16 DEF Inv
  <2>2. Fit(k) /\ l = k.opened
    BY <1>1, <1>2, <1>4, <2>1 DEF Placed
  <2>3. Descending(l)
    BY <1>3, <1>4, <1>16, OfSession
  <2>4. Descending(n)
    BY <1>2, <1>5, <1>6, <2>2, <2>3, StoredFacts
  <2>5. QED BY <1>1, <1>2, <2>1, <2>4 DEF Placed
<1>17. ~mixed => \A e \in Entries : Descending(cache'[e].list)
  BY <1>9, <1>16, OfSession
<1>18. ~mixed => \A t \in Sessions : t # s /\ ses[t].pc = "marking" =>
         /\ cache'[ses[t].cur].list = cache[ses[t].cur].list
         /\ r.pc = "marking" => ses[t].cur # r.cur
  <2>1. ASSUME NEW t \in Sessions, ses[t].pc = "marking" PROVE ses[t].cur \in Entries
    <3>1. Proper(ses[t])
      BY OfSession
    <3>2. QED BY <2>1, <3>1 DEF Proper, SessionType, Entries
  <2>2. QED BY <1>9, <1>12, <1>16, <2>1
<1>19. mixed' = mixed /\ mixed \in BOOLEAN /\ UNCHANGED nowid /\ file' = file
  BY <1>8, OfSession
<1>20. file' \in [Boards -> Lists] /\ (~mixed' => \A b \in Boards : Descending(file'[b]))
  BY <1>19, OfSession DEF Inv, TypeOK
<1>21. r.pc # "marking"
  BY <1>12
<1>22. ~mixed' => \A t \in Sessions : t # s /\ ses[t].pc = "marking" =>
         /\ cache'[ses[t].cur].list = cache[ses[t].cur].list
         /\ r.pc = "marking" => ses[t].cur # r.cur
  BY <1>18, <1>19
<1>23. ~mixed' => \A e \in Entries : Descending(cache'[e].list)
  BY <1>17, <1>19
<1>24. mixed' \in BOOLEAN /\ (~mixed' => ~mixed) /\ (~mixed' => Orderly(r))
  BY <1>15, <1>19
<1>25. QED BY <1>9, <1>10, <1>13, <1>14, <1>19, <1>20, <1>21, <1>22, <1>23, <1>24, OneSession

LEMMA ChosenFacts ==
  ASSUME NEW b \in Boards, NEW e \in Entries, NEW l \in Lists
  PROVE  /\ Proper(Chosen(b, e, l))
         /\ Chosen(b, e, l).pc = "picked"
         /\ Descending(l) => Orderly(Chosen(b, e, l))
<1> DEFINE r == Chosen(b, e, l)
<1>1. e \in 0..C /\ e # 0 /\ b # 0
  BY BrcAssumption DEF Entries
<1>2. Out \in SessionType /\ Out.cur = 0 /\ Out.after = "exit" /\ Orderly(Out)
  BY OutFacts DEF Proper
<1>3. DOMAIN Out = {"pc", "bid", "cur", "slot", "opened", "op", "fid", "data", "after"}
  BY DEF Out
<1>4. r \in SessionType
  BY <1>1, <1>2 DEF Chosen, SessionType
<1>5. /\ r.slot = e /\ r.bid = b /\ r.pc = "picked" /\ r.opened = l
      /\ r.cur = Out.cur /\ r.after = Out.after /\ r.data = Out.data
  BY <1>3 DEF Chosen
<1>6. Descending(l) => Orderly(r)
  <2> HIDE DEF r
  <2> QED BY <1>2, <1>5 DEF Orderly
<1>7. Proper(r)
  <2> HIDE DEF r
  <2> QED BY <1>1, <1>2, <1>4, <1>5 DEF Proper
<1>8. QED BY <1>5, <1>6, <1>7

\* brc_initial finds an entry.
LEMMA TurnInv ==
  ASSUME Inv, NEW s \in Sessions,
         Login(s) \/ \E b \in Boards : Hit(s, b) \/ Miss(s, b)
  PROVE  Inv'
<1> USE BrcAssumption, OutFacts
<1>0. UNCHANGED <<file, cache, nowid, seen>> /\ mixed' = mixed /\ mixed \in BOOLEAN
  BY OfSession DEF Login, Hit, Miss
<1>1. CASE Login(s)
  <2>1. PICK r : r = [Out EXCEPT !.pc = "in"]
    OBVIOUS
  <2>2. /\ r.pc = "in" /\ r \in SessionType /\ r.cur = 0 /\ r.after = "exit"
        /\ Orderly(r)
    BY <2>1 DEF Out, SessionType, Orderly, Proper
  <2>3. ses' = [ses EXCEPT ![s] = r]
    BY <1>1, <2>1 DEF Login
  <2>4. Proper(r)
    BY <2>2 DEF Proper
  <2>5. QED BY <1>0, <2>2, <2>3, <2>4, QuietSession
<1>2. CASE \E b \in Boards : Hit(s, b) \/ Miss(s, b)
  <2>1. PICK b \in Boards : Hit(s, b) \/ Miss(s, b)
    BY <1>2
  <2>2. b # 0
    OBVIOUS
  <2>3. CASE Hit(s, b)
    <3>1. PICK e \in Holding(b) : ses' = [ses EXCEPT ![s].bid = b, ![s].cur = e]
      BY <2>3 DEF Hit
    <3>2. e \in 0..C
      BY DEF Holding, Entries
    <3>3. PICK r : r = [ses[s] EXCEPT !.bid = b, !.cur = e]
      OBVIOUS
    <3>4. /\ r \in SessionType
          /\ r.pc = "in" /\ r.bid = b /\ r.data = ses[s].data /\ r.opened = ses[s].opened
      <4>1. ses[s] \in SessionType /\ ses[s].pc = "in"
        BY <2>3, OfSession DEF Hit, Proper
      <4>2. QED BY ONLY <3>2, <3>3, <4>1 DEF SessionType
    <3>5. ses' = [ses EXCEPT ![s] = r]
      BY <3>1, <3>3 DEF Inv, TypeOK
    <3>6. ~mixed => Orderly(r)
      BY <3>4, OfSession DEF Orderly
    <3>7. Proper(r)
      BY <2>2, <3>4 DEF Proper
    <3>8. QED BY <1>0, <3>4, <3>5, <3>6, <3>7, QuietSession
  <2>4. CASE Miss(s, b)
    <3>1. PICK saving : saving = [Out EXCEPT !.pc = "update", !.bid = b,
                                             !.opened = file[b], !.after = "load"]
      OBVIOUS
    <3>2. PICK r \in {saving} \cup {Chosen(b, e, file[b]) : e \in Entries} :
            ses' = [ses EXCEPT ![s] = r]
      BY <2>4, <3>1 DEF Miss
    <3>3. file[b] \in Lists /\ (~mixed => Descending(file[b]))
      BY OfSession DEF Inv, TypeOK
    <3>4. /\ saving \in SessionType
          /\ saving.bid = b /\ saving.pc = "update"
          /\ saving.data = Out.data /\ saving.opened = file[b]
      BY <3>1, <3>3 DEF Out, Proper, SessionType
    <3>5. Proper(saving) /\ (~mixed => Orderly(saving))
      BY <2>2, <3>3, <3>4 DEF Orderly, Proper
    <3>6. Proper(r) /\ r.pc # "marking" /\ (~mixed => Orderly(r))
      BY <3>2, <3>3, <3>4, <3>5, ChosenFacts
    <3>7. QED BY <1>0, <3>2, <3>6, QuietSession
  <2>5. QED BY <2>1, <2>3, <2>4
<1>3. QED BY <1>1, <1>2

\* It loads a list, and names the entry.
LEMMA LoadInv ==
  ASSUME Inv, NEW s \in Sessions, Load(s) \/ Name(s)
  PROVE  Inv'
<1>1. PICK k : k = ses[s]
  OBVIOUS
<1>2. Proper(k) /\ k.pc \in {"picked", "loaded"} /\ (~mixed => Orderly(k))
  BY <1>1, OfSession DEF Load, Name
<1>3. k.slot \in Entries /\ k.bid \in Boards /\ k.opened \in Lists /\ k \in SessionType
  BY <1>2 DEF Proper, SessionType, Entries
<1>4. PICK c : c = cache[k.slot]
  OBVIOUS
<1>5. c \in EntryType /\ (~mixed => Descending(c.list))
  BY <1>3, <1>4, OfSession DEF Inv, TypeOK
<1>6. PICK d \in EntryType :
        d.list \in {k.opened, c.list} /\ cache' = [cache EXCEPT ![k.slot] = d]
  <2>1. CASE Load(s)
    <3>1. PICK d : d = [c EXCEPT !.list = k.opened]
      OBVIOUS
    <3>2. d \in EntryType /\ d.list = k.opened
      BY <1>3, <1>5, <3>1 DEF EntryType
    <3>3. cache' = [cache EXCEPT ![k.slot] = d]
      BY <1>1, <1>3, <1>4, <2>1, <3>1 DEF Load, Inv, TypeOK
    <3>4. QED BY <3>2, <3>3
  <2>2. CASE Name(s)
    <3>1. PICK d : d = [c EXCEPT !.bid = k.bid, !.changed = FALSE]
      OBVIOUS
    <3>2. d \in EntryType /\ d.list = c.list
      BY <1>3, <1>5, <3>1 DEF EntryType
    <3>3. cache' = [cache EXCEPT ![k.slot] = d]
      BY <1>1, <1>3, <1>4, <2>2, <3>1 DEF Name, Inv, TypeOK
    <3>4. QED BY <3>2, <3>3
  <2>3. QED BY <2>1, <2>2
<1>7. PICK r \in SessionType :
        /\ ses' = [ses EXCEPT ![s] = r]
        /\ r.bid = k.bid /\ r.data = k.data /\ r.opened \in {k.opened, NoList}
        /\ \/ r.pc = "loaded" /\ r.slot = k.slot
           \/ r.pc = "in"
  <2>1. CASE Load(s)
    <3>1. PICK r : r = [k EXCEPT !.pc = "loaded", !.opened = NoList]
      OBVIOUS
    <3>2. /\ r \in SessionType /\ r.bid = k.bid /\ r.data = k.data /\ r.opened = NoList
          /\ r.pc = "loaded" /\ r.slot = k.slot
      BY <1>3, <3>1, NoListDescends DEF SessionType
    <3>3. ses' = [ses EXCEPT ![s] = r]
      BY <1>1, <2>1, <3>1 DEF Load, Inv, TypeOK
    <3>4. QED BY <3>2, <3>3
  <2>2. CASE Name(s)
    <3>1. PICK r : r = [k EXCEPT !.pc = "in", !.cur = k.slot, !.slot = 0]
      OBVIOUS
    <3>2. /\ r \in SessionType /\ r.bid = k.bid /\ r.data = k.data /\ r.opened = k.opened
          /\ r.pc = "in"
      <4>1. k.slot \in 0..C /\ 0 \in 0..C
        BY <1>3, BrcAssumption DEF Entries
      <4>2. QED BY ONLY <1>3, <3>1, <4>1 DEF SessionType
    <3>3. ses' = [ses EXCEPT ![s] = r]
      BY <1>1, <2>2, <3>1 DEF Name, Inv, TypeOK
    <3>4. QED BY <3>2, <3>3
  <2>3. QED BY <2>1, <2>2
<1>8. Proper(r) /\ r.pc # "marking"
  <2>1. k.bid # 0 /\ k.slot # 0
    BY <1>3, BrcAssumption DEF Entries
  <2>2. QED BY <1>7, <2>1 DEF Proper
<1>9. ~mixed => Orderly(r)
  BY <1>2, <1>7, NoListDescends DEF Orderly
<1>10. mixed' = (mixed \/ Marking(k.slot) # {}) /\ UNCHANGED <<file, nowid, seen>>
  BY <1>1 DEF Load, Name
<1>11. mixed' \in BOOLEAN /\ (~mixed' => ~mixed) /\ (~mixed' => Marking(k.slot) = {})
  BY ONLY <1>10
<1>12. cache' \in [Entries -> EntryType] /\ cache'[k.slot].list \in {k.opened, c.list}
       /\ \A e \in Entries : e # k.slot => cache'[e] = cache[e]
  BY <1>3, <1>6 DEF Inv, TypeOK
<1>13. ~mixed' => \A e \in Entries : Descending(cache'[e].list)
  BY <1>2, <1>5, <1>11, <1>12, OfSession DEF Orderly
<1>14. ~mixed' => \A t \in Sessions : t # s /\ ses[t].pc = "marking" =>
         /\ cache'[ses[t].cur].list = cache[ses[t].cur].list
         /\ r.pc = "marking" => ses[t].cur # r.cur
  <2>1. ASSUME NEW t \in Sessions, ses[t].pc = "marking" PROVE ses[t].cur \in Entries
    <3>1. Proper(ses[t])
      BY OfSession
    <3>2. QED BY <2>1, <3>1 DEF Proper, SessionType, Entries
  <2>2. ASSUME ~mixed', NEW t \in Sessions, ses[t].pc = "marking" PROVE ses[t].cur # k.slot
    BY <1>11, <2>2 DEF Marking
  <2>3. QED BY <1>8, <1>12, <2>1, <2>2
<1>15. /\ file' \in [Boards -> Lists] /\ seen' \in [Watched -> SUBSET Pos]
       /\ UNCHANGED nowid
       /\ ~mixed' => \A b \in Boards : Descending(file'[b])
  BY <1>10, <1>11, OfSession DEF Inv, TypeOK, Pos
<1>16. ~mixed' => Orderly(r)
  BY <1>9, <1>11
<1>17. QED BY <1>7, <1>8, <1>11, <1>12, <1>13, <1>14, <1>15, <1>16, OneSession

\* The end of brc_update.
LEMMA UpdatedSession ==
  ASSUME Inv, NEW s \in Sessions, Updated(s)
  PROVE  \E r : /\ ses' = [ses EXCEPT ![s] = r] /\ Proper(r) /\ r.pc # "marking"
                /\ ~mixed => Orderly(r)
<1>1. PICK k : k = ses[s]
  OBVIOUS
<1>2. Proper(k) /\ (~mixed => Orderly(k)) /\ k.after \in {"exit", "load"} /\ k.opened \in Lists
      /\ k.bid \in Boards \cup {0}
  BY <1>1, OfSession DEF Proper, SessionType
<1>3. CASE k.after = "exit"
  <2>1. ses' = [ses EXCEPT ![s] = Out]
    BY <1>1, <1>3 DEF Updated
  <2>2. QED BY <2>1, OutFacts
<1>4. CASE k.after = "load"
  <2>1. ses' = [ses EXCEPT ![s] = Chosen(k.bid, 1, k.opened)]
    BY <1>1, <1>4 DEF Updated
  <2>2. k.bid \in Boards /\ 1 \in Entries
    BY <1>2, <1>4, BrcAssumption DEF Proper, Entries
  <2>3. ~mixed => Descending(k.opened)
    BY <1>2 DEF Orderly
  <2>4. QED BY <1>2, <2>1, <2>2, <2>3, ChosenFacts
<1>5. QED BY <1>2, <1>3, <1>4

\* The ways out, and into brc_update.
LEMMA LeaveInv ==
  ASSUME Inv, NEW s \in Sessions, Exit(s) \/ PageEnd(s) \/ HangUp(s) \/ Die(s)
  PROVE  Inv'
<1>1. PICK leaving : leaving = [Out EXCEPT !.pc = "update"]
  OBVIOUS
<1>2. /\ leaving \in SessionType /\ leaving.pc = "update" /\ leaving.cur = 0
      /\ leaving.after = "exit" /\ Orderly(leaving)
  BY <1>1, OutFacts DEF Out, SessionType, Orderly, Proper
<1>3. Proper(leaving)
  BY <1>2 DEF Proper
<1>4. PICK r \in {leaving, Out} : ses' = [ses EXCEPT ![s] = r]
  BY <1>1 DEF Exit, PageEnd, HangUp, Die
<1>5. UNCHANGED <<file, cache, nowid, seen>>
  BY DEF Exit, PageEnd, HangUp, Die
<1>6. mixed' = mixed \/ mixed' = (mixed \/ ses[s].pc = "marking")
  BY Zenon DEF Exit, PageEnd, HangUp, Die
<1>7. mixed \in BOOLEAN
  BY OfSession
<1>8. mixed' \in BOOLEAN /\ (~mixed' => ~mixed)
  <2>1. CASE mixed' = mixed
    BY ONLY <1>7, <2>1
  <2>2. CASE mixed' = (mixed \/ ses[s].pc = "marking")
    BY ONLY <2>2
  <2>3. QED BY <1>6, <2>1, <2>2
<1>9. Proper(r) /\ r.pc # "marking" /\ Orderly(r)
  BY <1>2, <1>3, <1>4, OutFacts
<1>10. QED BY <1>4, <1>5, <1>8, <1>9, QuietSession

\* brc_update.
LEMMA UpdateInv ==
  ASSUME Inv, NEW s \in Sessions,
         UpdateScan(s) \/ UpdateCopy(s) \/ UpdateFails(s) \/ UpdateWrite(s)
  PROVE  Inv'
<1>1. PICK k : k = ses[s]
  OBVIOUS
<1>2. /\ Proper(k) /\ k \in SessionType /\ (~mixed => Orderly(k)) /\ mixed \in BOOLEAN
      /\ file \in [Boards -> Lists]
      /\ ~mixed => \A b \in Boards : Descending(file[b])
      /\ k.data \in [Boards -> Lists]
      /\ ~mixed => \A b \in Boards : Descending(k.data[b])
  BY <1>1, OfSession DEF Inv, TypeOK, Proper, SessionType, Orderly
<1>3. CASE (UpdateScan(s) /\ Updated(s)) \/ UpdateFails(s)
  <2>1. UNCHANGED <<file, cache, nowid, seen>> /\ mixed' = mixed /\ Updated(s)
    BY <1>3 DEF UpdateScan, UpdateFails
  <2>2. PICK r : /\ ses' = [ses EXCEPT ![s] = r] /\ Proper(r) /\ r.pc # "marking"
                 /\ ~mixed => Orderly(r)
    BY <2>1, UpdatedSession
  <2>3. QED BY <1>2, <2>1, <2>2, QuietSession
<1>4. CASE UpdateScan(s) /\ ~Updated(s)
  <2>1. PICK r : r = [k EXCEPT !.pc = "read", !.data = file]
    OBVIOUS
  <2>2. /\ r \in SessionType /\ r.pc = "read" /\ r.data = file
        /\ r.cur = k.cur /\ r.bid = k.bid /\ r.after = k.after /\ r.opened = k.opened
    BY <1>2, <2>1 DEF SessionType
  <2>3. /\ ses' = [ses EXCEPT ![s] = r]
        /\ UNCHANGED <<file, cache, nowid, seen>> /\ mixed' = mixed
    BY <1>1, <1>4, <2>1 DEF UpdateScan, Inv, TypeOK
  <2>4. Proper(r) /\ r.pc # "marking" /\ (~mixed => Orderly(r))
    BY <1>2, <2>2 DEF Proper, Orderly
  <2>5. QED BY <1>2, <2>3, <2>4, QuietSession
<1>5. CASE UpdateCopy(s)
  <2>1. PICK m : m = Merged(k.data)
    OBVIOUS
  <2>2. m \in [Boards -> Lists] /\ (~mixed => \A b \in Boards : Descending(m[b]))
    <3>1. TypeOK /\ (~mixed => Sorted)
      BY DEF Inv
    <3>2. QED BY <1>2, <2>1, <3>1, MergedFacts
  <2>3. PICK r : r = [k EXCEPT !.pc = "copied", !.data = m]
    OBVIOUS
  <2>4. /\ r \in SessionType /\ r.pc = "copied" /\ r.data = m
        /\ r.cur = k.cur /\ r.bid = k.bid /\ r.after = k.after /\ r.opened = k.opened
    BY <1>2, <2>2, <2>3 DEF SessionType
  <2>5. ses' = [ses EXCEPT ![s] = r]
    BY <1>1, <1>5, <2>1, <2>3 DEF UpdateCopy, Inv, TypeOK
  <2>6. Proper(r) /\ r.pc # "marking" /\ (~mixed => Orderly(r))
    BY <1>2, <2>2, <2>4 DEF Proper, Orderly
  <2>7. \A e \in Entries : [cache[e] EXCEPT !.changed = FALSE] \in EntryType
                           /\ [cache[e] EXCEPT !.changed = FALSE].list = cache[e].list
    BY DEF Inv, TypeOK, EntryType
  <2>8. cache' \in [Entries -> EntryType] /\ \A e \in Entries : cache'[e].list = cache[e].list
    BY <1>5, <2>7 DEF UpdateCopy
  <2>9. /\ UNCHANGED <<file, nowid, seen>>
        /\ mixed' = (mixed \/ \E e \in Entries : cache[e].changed /\ Marking(e) # {})
    BY <1>5 DEF UpdateCopy
  <2>10. mixed' \in BOOLEAN /\ (~mixed' => ~mixed)
    BY ONLY <2>9
  <2>11. ~mixed' => \A e \in Entries : Descending(cache'[e].list)
    BY <2>8, <2>10, OfSession
  <2>12. ~mixed' => \A t \in Sessions : t # s /\ ses[t].pc = "marking" =>
           /\ cache'[ses[t].cur].list = cache[ses[t].cur].list
           /\ r.pc = "marking" => ses[t].cur # r.cur
    <3>1. ASSUME NEW t \in Sessions, ses[t].pc = "marking" PROVE ses[t].cur \in Entries
      <4>1. Proper(ses[t])
        BY OfSession
      <4>2. QED BY <3>1, <4>1 DEF Proper, SessionType, Entries
    <3>2. QED BY <2>6, <2>8, <3>1
  <2>13. /\ file' \in [Boards -> Lists] /\ seen' \in [Watched -> SUBSET Pos]
         /\ UNCHANGED nowid
         /\ ~mixed' => \A b \in Boards : Descending(file'[b])
    BY <1>2, <2>9, <2>10 DEF Inv, TypeOK, Pos
  <2>14. ~mixed' => Orderly(r)
    BY <2>6, <2>10
  <2>15. QED BY <2>5, <2>6, <2>8, <2>10, <2>11, <2>12, <2>13, <2>14, OneSession
<1>6. CASE UpdateWrite(s)
  <2>1. Updated(s) /\ UNCHANGED <<cache, nowid, seen, mixed>>
    BY <1>6 DEF UpdateWrite
  <2>2. PICK r : /\ ses' = [ses EXCEPT ![s] = r] /\ Proper(r) /\ r.pc # "marking"
                 /\ ~mixed => Orderly(r)
    BY <2>1, UpdatedSession
  <2>3. file' \in [Boards -> Lists] /\ (~mixed => \A b \in Boards : Descending(file'[b]))
    <3>1. TypeOK /\ (~mixed => Sorted)
      BY DEF Inv
    <3>2. file' \in Written(k.data)
      BY <1>1, <1>6 DEF UpdateWrite
    <3>3. QED BY <1>2, <3>1, <3>2, WrittenFacts
  <2>4. /\ cache' \in [Entries -> EntryType] /\ seen' \in [Watched -> SUBSET Pos]
        /\ UNCHANGED nowid /\ mixed' = mixed
        /\ ~mixed' => \A e \in Entries : Descending(cache'[e].list)
    BY <2>1, OfSession DEF Inv, TypeOK, Pos
  <2>5. ~mixed' => \A t \in Sessions : t # s /\ ses[t].pc = "marking" =>
           /\ cache'[ses[t].cur].list = cache[ses[t].cur].list
           /\ r.pc = "marking" => ses[t].cur # r.cur
    BY <2>1, <2>2
  <2>6. /\ mixed' \in BOOLEAN /\ (~mixed' => ~mixed) /\ (~mixed' => Orderly(r))
        /\ ~mixed' => \A b \in Boards : Descending(file'[b])
    BY <1>2, <2>2, <2>3, <2>4
  <2>7. QED BY <2>2, <2>3, <2>4, <2>5, <2>6, OneSession
<1>7. QED BY <1>3, <1>4, <1>5, <1>6

LEMMA CleanInv ==
  ASSUME Inv, Clean
  PROVE  Inv'
<1> USE BrcAssumption, NoListDescends
<1>1. UNCHANGED <<nowid, ses, seen>> /\ mixed' = mixed /\ (~mixed => Sorted) /\ TypeOK
  BY DEF Clean, Inv
<1>2. /\ Merged(file) \in [Boards -> Lists]
      /\ Sorted => \A b \in Boards : Descending(Merged(file)[b])
  BY <1>1, MergedFacts DEF TypeOK, Sorted
<1>3. /\ file' \in [Boards -> Lists]
      /\ Sorted => \A b \in Boards : Descending(file'[b])
  <2>1. file' \in Written(Merged(file)) \/ file' = file
    BY DEF Clean
  <2>2. CASE file' = file
    BY <1>1, <2>2 DEF TypeOK, Sorted
  <2>3. CASE file' \in Written(Merged(file))
    BY <1>1, <1>2, <2>3, WrittenFacts
  <2>4. QED BY <2>1, <2>2, <2>3
<1>4. Empty \in EntryType /\ Empty.list = NoList
  BY DEF Empty, EntryType
<1>5. cache' \in [Entries -> EntryType] /\ \A e \in Entries : Descending(cache'[e].list)
  BY <1>4 DEF Clean
<1>6. TypeOK'
  BY <1>1, <1>3, <1>5 DEF TypeOK
<1>7. Sorted => Sorted'
  BY <1>1, <1>3, <1>5 DEF Sorted
<1>8. Placed'
  BY DEF Clean, Placed
<1>9. QED BY <1>1, <1>6, <1>7, <1>8 DEF Inv

LEMMA BoardInv ==
  ASSUME Inv, NEW b \in Boards, Post(b) \/ Renew(b)
  PROVE  Inv'
<1>1. nowid' \in [Boards -> Nat] /\ seen' \in [Watched -> SUBSET Pos]
  BY DEF Post, Renew, Inv, TypeOK, Pos
<1>2. UNCHANGED <<file, cache, ses, mixed>>
  BY DEF Post, Renew
<1>3. TypeOK'
  BY <1>1, <1>2 DEF Inv, TypeOK, Pos
<1>4. Sorted' = Sorted /\ Placed' = Placed
  BY <1>2 DEF Sorted, Placed
<1>5. QED BY <1>2, <1>3, <1>4 DEF Inv

LEMMA StepInv == Inv /\ [Next]_mvars => Inv'
<1> SUFFICES ASSUME Inv, [Next]_mvars PROVE Inv'
  OBVIOUS
<1>1. CASE \E s \in Sessions : SessionStep(s)
  <2>1. PICK s \in Sessions : SessionStep(s)
    BY <1>1
  <2>2. Look(s) => ClearAll(s)
    BY DEF Look
  <2>3. QED BY <2>1, <2>2, TurnInv, LoadInv, ReadInv, MarkInv, UpdateInv, LeaveInv DEF SessionStep
<1>2. CASE Clean
  BY <1>2, CleanInv
<1>3. CASE \E b \in Boards : Post(b) \/ Renew(b)
  BY <1>3, BoardInv
<1>4. CASE UNCHANGED mvars
  <2>1. TypeOK' = TypeOK /\ Sorted' = Sorted /\ Placed' = Placed /\ mixed' = mixed
    BY <1>4 DEF mvars, TypeOK, Sorted, Placed
  <2>2. QED BY <2>1 DEF Inv
<1>5. QED BY <1>1, <1>2, <1>3, <1>4 DEF Next

LEMMA InvHolds == Spec => []Inv
  BY InitInv, StepInv, PTL DEF Spec

\* The variables have their types, for every number of sessions and boards.
THEOREM MarksTypeCorrect == Spec => []TypeOK
<1>1. Inv => TypeOK
  BY DEF Inv
<1>2. QED BY <1>1, InvHolds, PTL

(***************************************************************************)
(* The lists in the file and in the cache stay descending, whoever is      *)
(* killed and whatever a full disk leaves of the file, as long as no two   *)
(* operations on one entry overlap and no mark is cut off (ListsDescend).  *)
(***************************************************************************)
THEOREM ListsStayDescending == Spec => []ListsDescend
<1>1. Inv => ListsDescend
  BY DEF Inv, Sorted, ListsDescend
<1>2. QED BY <1>1, InvHolds, PTL

-----------------------------------------------------------------------------
(***************************************************************************)
(* What is read stays read and what is not stays unread, for a user with   *)
(* one session that is not killed, whose lists can be written, and with    *)
(* time stamps that tell a changed cache from a saved one: without any of  *)
(* these a list is lost, or an entry of the cache has the list of another  *)
(* board.  Then at most one entry is of a board, an entry not changed has  *)
(* the list of the file, and what the session carries from one step of     *)
(* brc_initial or brc_update to the next is not stale.                     *)
(***************************************************************************)
Alone == \A s, t \in Sessions : s = t

Undisturbed == Alone /\ Mortal = {} /\ ~DiskFull /\ Stamped

Session == IF Sessions = {} THEN Out ELSE ses[CHOOSE s \in Sessions : TRUE]

\* brc_unread shows article f, or the list had no room for what tells.
Shown(l, f) == Unread(l, f) \/ Above(l, f, M)

\* List l is right for a user who has read the articles of R.  A board that is
\* renewed has the marks of the board before, which tell of other articles.
Right(R, l) ==
  /\ \A f \in R : ~Unread(l, f)
  /\ Renewed = {} => \A f \in Nat : f >= 2 => f \in R \/ Shown(l, f)

\* A session at r has put the list of its board into e, not yet its number.
Overwritten(r, e) == r.pc = "loaded" /\ r.slot = e

OnceCached ==
  \A e \in Entries : /\ cache[e].bid = 0 => ~cache[e].changed
                     /\ cache[e].bid # 0 => \A d \in Entries : cache[d].bid = cache[e].bid => d = e

\* The changed lists of a session that has copied them are still to be written.
UnchangedIsSaved(r) ==
  \A e \in Entries :
    cache[e].bid # 0 /\ ~cache[e].changed /\ ~Overwritten(r, e) /\ r.pc # "copied"
      => cache[e].list = file[cache[e].bid]

\* A mark that has found its place: the list is still the one it looked at, and
\* has in it what the mark is to keep.
Begun(r) ==
  /\ r.cur \in Holding(r.bid) /\ r.opened = cache[r.cur].list /\ r.op # "none"
  /\ Fit(r)
  /\ r.op = "all" /\ r.bid \in Watched => seen[r.bid] \subseteq 1..r.fid
  /\ Renewed = {} => r.fid <= nowid[r.bid]

\* What a session carries: the list it opened, the entry it chose, the place of a
\* mark, the data of the file, and the changed lists copied into them.
Carries(r) ==
  /\ r.pc = "marking" => Begun(r)
  /\ r.after = "load" => r.pc \in {"update", "read", "copied"}
  /\ r.pc \in {"picked", "loaded"} \/ r.after = "load" => Holding(r.bid) = {}
  /\ r.pc = "picked" \/ r.after = "load" => r.opened = file[r.bid]
  /\ r.pc \in {"picked", "loaded"} => ~cache[r.slot].changed
  /\ r.pc = "loaded" => cache[r.slot].list = file[r.bid]
  /\ r.pc = "read" => r.data = file
  /\ r.pc = "copied" =>
       /\ \A e \in Entries : /\ ~cache[e].changed
                             /\ cache[e].bid # 0 => cache[e].list = r.data[cache[e].bid]
       /\ \A b \in Boards : Holding(b) = {} => r.data[b] = file[b]

\* The lists that will be asked: those of the cache, and that of the file for a
\* board that is not there or is about to leave it.
MarksRight(r) ==
  \A b \in Watched :
    /\ seen[b] \subseteq 1..nowid[b]
    /\ \A e \in Holding(b) : ~Overwritten(r, e) => Right(seen[b], cache[e].list)
    /\ (\A e \in Holding(b) : Overwritten(r, e)) => Right(seen[b], file[b])

Kept(r) == OnceCached /\ UnchangedIsSaved(r) /\ Carries(r) /\ MarksRight(r)

LEMMA FirstNotAbove ==
  ASSUME NEW l \in Lists, NEW f \in Pos, NEW j \in 1..M, ~Above(l, f, j)
  PROVE  \E n \in 1..j : Above(l, f, n - 1) /\ ~Above(l, f, n)
<1> USE BrcAssumption DEF Pos
<1> SUFFICES ASSUME \A n \in 1..j : Above(l, f, n - 1) => Above(l, f, n)
             PROVE  FALSE
  OBVIOUS
<1> DEFINE S == {n \in Nat : n <= j => Above(l, f, n)}
<1>1. 0 \in S
  BY DEF Above
<1>2. ASSUME NEW n \in Nat, n \in S PROVE n + 1 \in S
  <2>1. CASE n + 1 <= j
    <3>1. Above(l, f, (n + 1) - 1) /\ n + 1 \in 1..j
      BY <1>2, <2>1
    <3>2. QED BY <3>1
  <2>2. QED BY <2>1
<1>3. j \in S
  <2> HIDE DEF S
  <2> QED BY <1>1, <1>2, SetInduction
<1>4. QED BY <1>3

\* brc_clear_new_flag finds nothing to do only if all of it was read.
LEMMA NothingToCut ==
  ASSUME NEW l \in Lists, NEW f \in Pos, ~Cuts(l, f), NEW g \in 1..f
  PROVE  ~Unread(l, g)
<1> USE BrcAssumption DEF Pos
<1>1. l[1] # 0
  <2>1. Above(l, f, 1 - 1) /\ 1 \in 1..M
    BY DEF Above
  <2>2. Above(l, f, 1)
    BY <2>1 DEF Cuts
  <2>3. QED BY <2>2, AboveFacts
<1> SUFFICES ASSUME NEW j \in 1..M, l[j] # 0, g > l[j], Above(l, g, j - 1) PROVE FALSE
  BY <1>1 DEF Unread
<1>2. ~Above(l, f, j)
  BY AboveFacts
<1>3. PICK n \in 1..j : Above(l, f, n - 1) /\ ~Above(l, f, n)
  BY <1>2, FirstNotAbove
<1>4. l[n] # 0
  <2>1. CASE n = j
    BY <2>1
  <2>2. CASE n # j
    <3>1. n \in 1..(j - 1)
      BY <2>2
    <3>2. l[n] > g
      BY <3>1 DEF Above
    <3>3. QED BY <3>2
  <2>3. QED BY <2>1, <2>2
<1>5. QED BY <1>3, <1>4 DEF Cuts

\* The list that brc_clear_new_flag leaves: the ids above f, then f, then the end.
LEMMA ReadUpToPrefix ==
  ASSUME NEW l \in Lists, NEW f \in Pos, NEW n \in 1..M,
         Above(l, f, n - 1), ~Above(l, f, n)
  PROVE  /\ \A m \in 1..(n - 1) : ReadUpTo(l, l, f)[m] = l[m] /\ l[m] > f
         /\ ReadUpTo(l, l, f)[n] = f
         /\ n + 1 \in 1..M => ReadUpTo(l, l, f)[n + 1] = 0
<1> USE BrcAssumption DEF Pos
<1>1. ASSUME NEW m \in 1..(n - 1) PROVE ReadUpTo(l, l, f)[m] = l[m] /\ l[m] > f
  <2>1. n - 1 \in 1..M /\ m \in 1..M
    OBVIOUS
  <2>2. Above(l, f, m) /\ l[m] > f
    BY <2>1, AboveFacts
  <2>3. QED BY <2>1, <2>2 DEF ReadUpTo
<1>2. ReadUpTo(l, l, f)[n] = f
  BY DEF ReadUpTo
<1>3. ASSUME n + 1 \in 1..M PROVE ReadUpTo(l, l, f)[n + 1] = 0
  <2>1. ~Above(l, f, n + 1)
    BY <1>3, AboveFacts
  <2>2. (n + 1) - 1 = n /\ (n + 1) - 2 = n - 1
    OBVIOUS
  <2>3. QED BY <1>3, <2>1, <2>2 DEF ReadUpTo
<1>4. QED BY <1>1, <1>2, <1>3

\* brc_unread answers the same for what comes after f; the rest is read.
LEMMA ReadUpToUnread ==
  ASSUME NEW l \in Lists, NEW f \in Pos, NEW g \in Pos, Cuts(l, f)
  PROVE  /\ g <= f => ~Unread(ReadUpTo(l, l, f), g)
         /\ g > f => (Unread(ReadUpTo(l, l, f), g) <=> Unread(l, g)) /\ ~Above(l, g, M)
<1> USE BrcAssumption DEF Pos
<1> DEFINE k == ReadUpTo(l, l, f)
<1>1. PICK n \in 1..M : Above(l, f, n - 1) /\ ~Above(l, f, n) /\ (l[n] # 0 \/ n = 1)
  BY DEF Cuts
<1>2. /\ \A m \in 1..(n - 1) : k[m] = l[m] /\ l[m] > f
      /\ k[n] = f
      /\ n + 1 \in 1..M => k[n + 1] = 0
  BY <1>1, ReadUpToPrefix
<1>3. \A m \in 1..M : l[m] \in Nat /\ k[m] \in Nat
  <2>1. k \in Lists
    BY ListTypes
  <2>2. QED BY <2>1 DEF Lists
<1>4. l[n] <= f
  BY <1>1, <1>3, AboveFacts
<1> HIDE DEF k
<1>5. k[1] # 0
  <2>1. n = 1 \/ 1 \in 1..(n - 1)
    OBVIOUS
  <2>2. QED BY <2>1, <1>2
\* What tells that g is unread is not behind f.
<1>6. ASSUME NEW j \in 1..M, k[j] # 0, g > k[j], \A m \in 1..(j - 1) : k[m] > g
      PROVE  j <= n /\ g > f
  <2>1. j <= n
    <3> SUFFICES ASSUME j > n PROVE FALSE
      OBVIOUS
    <3>1. n \in 1..(j - 1) /\ n + 1 \in 1..M
      OBVIOUS
    <3>2. j = n + 1 \/ n + 1 \in 1..(j - 1)
      OBVIOUS
    <3>3. QED BY <3>1, <3>2, <1>2, <1>6
  <2>2. j = n \/ j \in 1..(n - 1)
    BY <2>1
  <2>3. QED BY <2>1, <2>2, <1>2, <1>3, <1>6
<1>7. ASSUME g <= f PROVE ~Unread(k, g)
  BY <1>5, <1>6, <1>7 DEF Unread, Above
<1>8. ASSUME g > f, Unread(k, g) PROVE Unread(l, g)
  <2>1. PICK j \in 1..M : k[j] # 0 /\ g > k[j] /\ \A m \in 1..(j - 1) : k[m] > g
    BY <1>5, <1>8 DEF Unread, Above
  <2>2. j <= n
    BY <2>1, <1>6
  <2>3. \A m \in 1..(j - 1) : m \in 1..(n - 1) /\ l[m] > g
    <3>1. \A m \in 1..(j - 1) : m \in 1..(n - 1)
      BY <2>2
    <3>2. QED BY <3>1, <2>1, <1>2
  <2>4. CASE j = n
    BY <1>1, <1>3, <1>4, <1>8, <2>3, <2>4 DEF Unread, Above
  <2>5. CASE j # n
    <3>1. j \in 1..(n - 1)
      BY <2>2, <2>5
    <3>2. l[j] = k[j]
      BY <3>1, <1>2
    <3>3. QED BY <2>1, <2>3, <3>2 DEF Unread, Above
  <2>6. QED BY <2>4, <2>5
<1>9. ASSUME g > f, Unread(l, g) PROVE Unread(k, g)
  <2>0. ASSUME NEW j \in 1..M, j <= n, k[j] # 0, g > k[j], \A m \in 1..(j - 1) : l[m] > g
        PROVE  Unread(k, g)
    <3>1. \A m \in 1..(j - 1) : m \in 1..(n - 1)
      BY <2>0
    <3>2. \A m \in 1..(j - 1) : k[m] > g
      BY <2>0, <3>1, <1>2
    <3>3. QED BY <2>0, <3>2 DEF Unread, Above
  <2>1. CASE l[1] = 0
    <3>1. n = 1
      <4>1. n = 1 \/ 1 \in 1..(n - 1)
        OBVIOUS
      <4>2. QED BY <4>1, <1>2, <2>1
    <3>2. QED BY <1>2, <1>9, <2>0, <3>1
  <2>2. CASE l[1] # 0
    <3>1. PICK j \in 1..M : l[j] # 0 /\ g > l[j] /\ \A m \in 1..(j - 1) : l[m] > g
      BY <1>9, <2>2 DEF Unread, Above
    <3>2. j <= n
      <4> SUFFICES ASSUME j > n PROVE FALSE
        OBVIOUS
      <4>1. n \in 1..(j - 1)
        OBVIOUS
      <4>2. QED BY <3>1, <4>1, <1>3, <1>4, <1>9
    <3>3. CASE j = n
      BY <1>2, <1>9, <2>0, <3>1, <3>3
    <3>4. CASE j # n
      <4>1. j \in 1..(n - 1)
        BY <3>2, <3>4
      <4>2. k[j] = l[j]
        BY <4>1, <1>2
      <4>3. QED BY <2>0, <3>1, <3>2, <4>2
    <3>5. QED BY <3>3, <3>4
  <2>3. QED BY <2>1, <2>2
<1>10. ASSUME g > f PROVE ~Above(l, g, M)
  <2>1. ~(l[n] > g)
    BY <1>3, <1>4, <1>10
  <2>2. QED BY <2>1 DEF Above
<1>11. QED BY <1>7, <1>8, <1>9, <1>10 DEF k

-----------------------------------------------------------------------------
(* The marking operations keep a list right. *)

LEMMA NoListRight == Right({}, NoList)
<1> USE BrcAssumption
<1>1. NoList[1] = 0
  BY DEF NoList
<1>2. QED BY <1>1 DEF Right, Shown, Unread

LEMMA ImpliedRight ==
  ASSUME NEW l, NEW R, NEW ids, Right(R, l), \A f \in ids : ~Unread(l, f)
  PROVE  Right(R \cup ids, l)
BY DEF Right

LEMMA AddReadRight ==
  ASSUME NEW l \in Lists, NEW f \in Pos, NEW R \in SUBSET Pos, Right(R, l)
  PROVE  Right(R \cup {f}, AddRead(l, l, f))
<1> USE BrcAssumption
<1> DEFINE k == AddRead(l, l, f)
<1>1. ASSUME NEW g \in R \cup {f} PROVE ~Unread(k, g)
  BY MarkedIsRead, MarksAreKept DEF Right
<1>2. ASSUME Renewed = {}, NEW g \in Nat, g >= 2, g \notin R \cup {f} PROVE Shown(k, g)
  <2>1. g \in Pos /\ g # f /\ g # 1
    BY <1>2 DEF Pos
  <2>2. Unread(l, g) \/ Above(l, g, M)
    BY <1>2 DEF Right, Shown
  <2>3. CASE Unread(l, g)
    <3>1. Unread(k, g) \/ Above(k, g, M)
      BY <2>1, <2>3, OthersShown
    <3>2. QED BY <3>1 DEF Shown
  <2>4. CASE Above(l, g, M)
    <3>1. \A m \in 1..M : l[m] \in Nat /\ l[m] > g
      BY <2>4 DEF Above, Lists
    <3>2. l[1] # 0
      BY <3>1, <2>1 DEF Pos
    <3>3. CASE ~Unread(l, f)
      BY <2>4, <3>2, <3>3 DEF AddRead, Shown
    <3>4. CASE Unread(l, f)
      <4>1. PICK n \in 1..M : f > l[n] /\ Above(l, f, n - 1) /\ ~Above(l, f, n)
        BY <3>2, <3>4, UnreadAt
      <4>2. /\ k = Inserted(l, l, f)
            /\ \A m \in 1..(n - 1) : k[m] = l[m]
            /\ k[n] = f
            /\ \A m \in 1..M : m > n => m - 1 \in 1..M /\ k[m] = l[m - 1]
        BY <3>2, <3>4, <4>1, InsertedPrefix DEF AddRead
      <4>3. f > g
        BY <3>1, <4>1, <2>1 DEF Pos
      <4>4. ASSUME NEW m \in 1..M PROVE k[m] > g
        <5>1. m \in 1..(n - 1) \/ m = n \/ m > n
          OBVIOUS
        <5>2. QED BY <5>1, <3>1, <4>2, <4>3
      <4>5. QED BY <4>4 DEF Above, Shown
    <3>5. QED BY <3>3, <3>4
  <2>5. QED BY <2>2, <2>3, <2>4
<1>3. QED BY <1>1, <1>2 DEF Right

LEMMA ReadUpToRight ==
  ASSUME NEW l \in Lists, NEW f \in Pos, NEW R \in SUBSET Pos, Right(R, l), Cuts(l, f)
  PROVE  Right(R \cup 1..f, ReadUpTo(l, l, f))
<1> DEFINE k == ReadUpTo(l, l, f)
<1>1. ASSUME NEW g \in R \cup 1..f PROVE ~Unread(k, g)
  <2>1. g \in Pos /\ (g > f => g \in R) /\ (g > f \/ g <= f)
    BY DEF Pos
  <2>2. g \in R => ~Unread(l, g)
    BY DEF Right
  <2>3. QED BY <2>1, <2>2, ReadUpToUnread
<1>2. ASSUME Renewed = {}, NEW g \in Nat, g >= 2, g \notin R \cup 1..f PROVE Shown(k, g)
  <2>1. g \in Pos /\ g > f
    BY <1>2 DEF Pos
  <2>2. Unread(l, g) \/ Above(l, g, M)
    BY <1>2 DEF Right, Shown
  <2>3. QED BY <2>1, <2>2, ReadUpToUnread DEF Shown
<1>3. QED BY <1>1, <1>2 DEF Right

LEMMA AllReadRight ==
  ASSUME NEW l \in Lists, NEW now \in Nat, NEW R \in SUBSET (1..now)
  PROVE  Right(R \cup 1..now, AllRead(l, now))
<1> USE BrcAssumption
<1> DEFINE k == AllRead(l, now)
<1>1. k[1] = now /\ k[2] = 0 /\ 1 \in 1..M /\ 2 \in 1..M
  BY DEF AllRead, Lists
<1> HIDE DEF k
<1>2. ASSUME NEW g \in 1..now PROVE ~Unread(k, g)
  <2> SUFFICES ASSUME NEW j \in 1..M, k[j] # 0, g > k[j], \A m \in 1..(j - 1) : k[m] > g
               PROVE  FALSE
    BY <1>1 DEF Unread, Above
  <2>1. j = 1 \/ j = 2 \/ 2 \in 1..(j - 1)
    OBVIOUS
  <2>2. QED BY <2>1, <1>1
<1>3. ASSUME NEW g \in Nat, g >= 2, g \notin 1..now PROVE Unread(k, g)
  <2>1. g > k[1]
    BY <1>1, <1>3
  <2>2. \A m \in 1..(1 - 1) : k[m] > g
    OBVIOUS
  <2>3. QED BY <1>1, <2>1, <2>2 DEF Unread, Above
<1>4. QED BY <1>2, <1>3 DEF Right, Shown, k

-----------------------------------------------------------------------------
(* The steps of the session. *)

LEMMA HoldingFacts ==
  ASSUME Inv
  PROVE  /\ \A e \in Entries : /\ cache[e].bid \in Boards \cup {0}
                               /\ cache[e].list \in Lists
                               /\ cache[e].changed \in BOOLEAN
         /\ \A b : \A e : e \in Holding(b) <=> e \in Entries /\ cache[e].bid = b
         /\ 0 \notin Boards
BY BrcAssumption DEF Inv, TypeOK, EntryType, Holding

LEMMA NextRecord ==
  ASSUME NEW s \in Sessions, NEW q, q = ses'[s], Kept(q)'
  PROVE  Kept(ses[s])'
<1>1. UnchangedIsSaved(ses[s])' /\ MarksRight(ses[s])'
  BY DEF Kept, UnchangedIsSaved, MarksRight, Overwritten
<1>2. Carries(ses[s])'
  BY DEF Kept, Carries
<1>3. QED BY <1>1, <1>2 DEF Kept

\* The variables do not change, and nothing is overwritten or on its way.
LEMMA StillKept ==
  ASSUME NEW r, NEW q, Kept(r), UNCHANGED <<file, cache, nowid, seen>>,
         r.pc \notin {"loaded", "copied"}, q.pc \notin {"loaded", "copied"},
         Carries(q)
  PROVE  Kept(q)'
BY DEF Kept, OnceCached, UnchangedIsSaved, Carries, Begun, MarksRight, Overwritten, Holding

\* What happens between two boards.
LEMMA IdleKept ==
  ASSUME Inv, NEW s \in Sessions, Kept(ses[s]),
         Login(s) \/ (\E b \in Boards : Hit(s, b)) \/ Exit(s) \/ PageEnd(s)
  PROVE  Kept(ses[s])'
<1> USE BrcAssumption
<1>1. ses[s] \in SessionType /\ ses \in [Sessions -> SessionType]
  BY DEF Inv, TypeOK
<1>2. PICK q : q = ses'[s]
  OBVIOUS
<1>3. UNCHANGED <<file, cache, nowid, seen>> /\ ses[s].pc \in {"out", "in"}
  BY DEF Login, Hit, Exit, PageEnd
<1>4. q.pc \in {"in", "out", "update"} /\ q.after = "exit"
  <2>1. ses[s].after = "exit"
    BY <1>1, <1>3 DEF Kept, Carries, SessionType
  <2>2. CASE Login(s)
    BY <1>1, <1>2, <2>2 DEF Login, Out
  <2>3. CASE \E b \in Boards : Hit(s, b)
    <3>1. PICK b \in Boards, e \in Entries : ses' = [ses EXCEPT ![s].bid = b, ![s].cur = e]
      BY <2>3 DEF Hit, Holding
    <3>2. q.pc = ses[s].pc /\ q.after = ses[s].after
      BY <1>1, <1>2, <3>1 DEF SessionType
    <3>3. ses[s].pc = "in"
      BY <2>3 DEF Hit
    <3>4. QED BY <2>1, <3>2, <3>3
  <2>4. CASE Exit(s)
    BY <1>1, <1>2, <2>4 DEF Exit, Out
  <2>5. CASE PageEnd(s)
    BY <1>1, <1>2, <2>5 DEF PageEnd, Out
  <2>6. QED BY <2>2, <2>3, <2>4, <2>5
<1>5. Carries(q)
  BY <1>4 DEF Carries
<1>6. Kept(q)'
  BY <1>3, <1>4, <1>5, StillKept
<1>7. QED BY <1>2, <1>6, NextRecord

\* An entry that is free, or not changed, may be chosen for a board not there.
LEMMA ChosenCarries ==
  ASSUME NEW b \in Boards, NEW e \in Entries, NEW l, Holding(b) = {},
         l = file[b], ~cache[e].changed
  PROVE  Carries(Chosen(b, e, l)) /\ Chosen(b, e, l).pc = "picked"
BY DEF Chosen, Out, Carries

LEMMA MissKept ==
  ASSUME Inv, NEW s \in Sessions, Kept(ses[s]), NEW b \in Boards, Miss(s, b)
  PROVE  Kept(ses[s])'
<1>1. ses \in [Sessions -> SessionType]
  BY DEF Inv, TypeOK
<1>2. PICK q : q = ses'[s]
  OBVIOUS
<1>3. /\ UNCHANGED <<file, cache, nowid, seen>> /\ ses[s].pc = "in"
      /\ Holding(b) = {}
  BY DEF Miss
<1>4. Carries(q) /\ q.pc \in {"picked", "update"}
  <2>1. CASE \E e \in Entries : Victim(e) /\ ses' = [ses EXCEPT ![s] = Chosen(b, e, file[b])]
    <3>1. PICK e \in Entries : Victim(e) /\ q = Chosen(b, e, file[b])
      BY <1>1, <1>2, <2>1
    <3>2. ~cache[e].changed
      BY <3>1 DEF Victim, Kept, OnceCached, Holding
    <3>3. QED BY <1>3, <3>1, <3>2, ChosenCarries
  <2>2. CASE ses' = [ses EXCEPT ![s] = [Out EXCEPT !.pc = "update", !.bid = b,
                                                   !.opened = file[b], !.after = "load"]]
    <3>1. q = [Out EXCEPT !.pc = "update", !.bid = b, !.opened = file[b], !.after = "load"]
      BY <1>1, <1>2, <2>2
    <3>2. q.pc = "update" /\ q.bid = b /\ q.opened = file[b] /\ q.after = "load"
      BY <3>1 DEF Out
    <3>3. QED BY <1>3, <3>2 DEF Carries
  <2>3. QED BY <2>1, <2>2 DEF Miss
<1>5. Kept(q)'
  BY <1>3, <1>4, StillKept
<1>6. QED BY <1>2, <1>5, NextRecord

LEMMA LoadKept ==
  ASSUME Inv, NEW s \in Sessions, Kept(ses[s]), Load(s)
  PROVE  Kept(ses[s])'
<1>1. PICK r : r = ses[s]
  OBVIOUS
<1>2. PICK q : q = ses'[s]
  OBVIOUS
<1>3. r \in SessionType /\ r.slot \in Entries /\ r.bid \in Boards
  BY <1>1 DEF Load, Inv, TypeOK, SessionType, Entries
<1>4. /\ r.pc = "picked" /\ UNCHANGED <<file, nowid, seen>>
      /\ q.pc = "loaded" /\ q.bid = r.bid /\ q.slot = r.slot /\ q.after = r.after
  BY <1>1, <1>2, <1>3 DEF Load, Inv, TypeOK, SessionType
<1>5. /\ \A e \in Entries : cache'[e].bid = cache[e].bid /\ cache'[e].changed = cache[e].changed
      /\ \A e \in Entries : e # r.slot => cache'[e].list = cache[e].list
      /\ cache'[r.slot].list = r.opened
  BY <1>1, <1>3 DEF Load, Inv, TypeOK, EntryType
<1>6. \A b : Holding(b)' = Holding(b)
  BY <1>5 DEF Holding
<1>7. /\ Holding(r.bid) = {} /\ r.opened = file[r.bid] /\ ~cache[r.slot].changed /\ r.after # "load"
  BY <1>1, <1>4 DEF Kept, Carries
<1>8. OnceCached'
  BY <1>5 DEF Kept, OnceCached
<1>9. UnchangedIsSaved(q)'
  BY <1>1, <1>4, <1>5 DEF Kept, UnchangedIsSaved, Overwritten
<1>10. Carries(q)'
  BY <1>3, <1>4, <1>5, <1>6, <1>7 DEF Carries
<1>11. MarksRight(q)'
  <2> SUFFICES ASSUME NEW b \in Watched
               PROVE  /\ seen[b] \subseteq 1..nowid[b]
                      /\ \A e \in Holding(b) : e # r.slot => Right(seen[b], cache'[e].list)
                      /\ (\A e \in Holding(b) : e = r.slot) => Right(seen[b], file[b])
    BY <1>4, <1>6 DEF MarksRight, Overwritten
  <2>1. /\ seen[b] \subseteq 1..nowid[b]
        /\ \A e \in Holding(b) : Right(seen[b], cache[e].list)
        /\ Holding(b) = {} => Right(seen[b], file[b])
    BY <1>1, <1>4 DEF Kept, MarksRight, Overwritten
  <2>2. \A e \in Holding(b) : e # r.slot => Right(seen[b], cache'[e].list)
    BY <1>5, <2>1 DEF Holding
  <2>3. ASSUME \A e \in Holding(b) : e = r.slot, Holding(b) # {} PROVE Right(seen[b], file[b])
    <3>1. r.slot \in Holding(b) /\ b # 0
      BY <2>3, BrcAssumption
    <3>2. cache[r.slot].bid = b
      BY <3>1 DEF Holding
    <3>3. cache[r.slot].list = file[b]
      BY <1>1, <1>3, <1>4, <1>7, <3>1, <3>2 DEF Kept, UnchangedIsSaved, Overwritten
    <3>4. QED BY <2>1, <3>1, <3>3
  <2>4. QED BY <2>1, <2>2, <2>3
<1>12. Kept(q)'
  BY <1>8, <1>9, <1>10, <1>11 DEF Kept
<1>13. QED BY <1>2, <1>12, NextRecord

LEMMA NameKept ==
  ASSUME Inv, NEW s \in Sessions, Kept(ses[s]), Name(s)
  PROVE  Kept(ses[s])'
<1>1. PICK r : r = ses[s]
  OBVIOUS
<1>2. PICK q : q = ses'[s]
  OBVIOUS
<1>3. r \in SessionType /\ r.slot \in Entries /\ r.bid \in Boards /\ 0 \notin Boards
  BY <1>1, BrcAssumption DEF Name, Inv, TypeOK, SessionType, Entries
<1>4. /\ r.pc = "loaded" /\ UNCHANGED <<file, nowid, seen>>
      /\ q.pc = "in" /\ q.after = r.after
  BY <1>1, <1>2, <1>3 DEF Name, Inv, TypeOK, SessionType
<1>5. /\ \A e \in Entries : e # r.slot => cache'[e] = cache[e]
      /\ cache'[r.slot].bid = r.bid /\ ~cache'[r.slot].changed
      /\ cache'[r.slot].list = cache[r.slot].list
  BY <1>1, <1>3 DEF Name, Inv, TypeOK, EntryType
<1>6. Holding(r.bid) = {} /\ cache[r.slot].list = file[r.bid] /\ r.after # "load"
  BY <1>1, <1>4 DEF Kept, Carries
<1>7. \A e \in Entries : e # r.slot => cache[e].bid # r.bid
  BY <1>6 DEF Holding
<1>8. OnceCached'
  BY <1>1, <1>3, <1>5, <1>7 DEF Kept, OnceCached
<1>9. UnchangedIsSaved(q)'
  BY <1>1, <1>3, <1>4, <1>5, <1>6 DEF Kept, UnchangedIsSaved, Overwritten
<1>10. Carries(q)'
  BY <1>4, <1>6 DEF Carries
<1>11. MarksRight(q)'
  <2> SUFFICES ASSUME NEW b \in Watched
               PROVE  /\ seen[b] \subseteq 1..nowid[b]
                      /\ \A e \in Holding(b)' : Right(seen[b], cache'[e].list)
                      /\ Holding(b)' = {} => Right(seen[b], file[b])
    BY <1>4 DEF MarksRight, Overwritten
  <2>1. /\ seen[b] \subseteq 1..nowid[b]
        /\ \A e \in Holding(b) : e # r.slot => Right(seen[b], cache[e].list)
        /\ (\A e \in Holding(b) : e = r.slot) => Right(seen[b], file[b])
    BY <1>1, <1>4 DEF Kept, MarksRight, Overwritten
  <2>2. \A e : e # r.slot => (e \in Holding(b)' <=> e \in Holding(b))
    BY <1>5 DEF Holding
  <2>3. ASSUME NEW e \in Holding(b)' PROVE Right(seen[b], cache'[e].list)
    <3>1. CASE e = r.slot
      <4>1. b = r.bid
        BY <1>5, <2>3, <3>1 DEF Holding
      <4>2. QED BY <1>5, <1>6, <2>1, <3>1, <4>1
    <3>2. CASE e # r.slot
      BY <1>5, <2>1, <2>2, <2>3, <3>2 DEF Holding
    <3>3. QED BY <3>1, <3>2
  <2>4. QED BY <2>1, <2>2, <2>3
<1>12. Kept(q)'
  BY <1>8, <1>9, <1>10, <1>11 DEF Kept
<1>13. QED BY <1>2, <1>12, NextRecord

\* A step that leaves the lists as they are, or changes that of one entry, to l.
LEMMA MarkedKept ==
  ASSUME Inv, NEW s \in Sessions, Kept(ses[s]), NEW r, r = ses[s], NEW q, q = ses'[s],
         r.pc \in {"in", "marking"}, q.pc = "in", q.after = r.after, NEW l, NEW ids,
         r.cur \in Entries, r.bid \in Boards, cache[r.cur].bid = r.bid,
         UNCHANGED <<file, nowid>>, seen' = Seen(r.bid, ids),
         \A e \in Entries : cache'[e].bid = cache[e].bid,
         \A e \in Entries : e # r.cur => cache'[e] = cache[e],
         cache'[r.cur].list = l,
         cache'[r.cur].changed \/ cache' = cache,
         ids \subseteq 1..nowid[r.bid],
         r.bid \in Watched => Right(seen[r.bid] \cup ids, l)
  PROVE  Kept(ses[s])'
<1>1. r.bid # 0
  BY BrcAssumption
<1>2. \A b : Holding(b)' = Holding(b)
  BY DEF Holding
<1>3. r.after # "load"
  BY DEF Kept, Carries
<1>4. OnceCached'
  <2>1. \A e \in Entries : cache[e].bid = 0 => cache'[e] = cache[e]
    BY <1>1
  <2>2. QED BY <2>1 DEF Kept, OnceCached
<1>5. UnchangedIsSaved(q)'
  <2>1. ASSUME NEW e \in Entries, cache'[e].bid # 0, ~cache'[e].changed
        PROVE  cache'[e].list = file[cache'[e].bid]
    <3>1. cache'[e] = cache[e]
      BY <2>1
    <3>2. QED BY <2>1, <3>1 DEF Kept, UnchangedIsSaved, Overwritten
  <2>2. QED BY <2>1 DEF UnchangedIsSaved
<1>6. Carries(q)'
  BY <1>3 DEF Carries
<1>7. MarksRight(q)'
  <2> SUFFICES ASSUME NEW b \in Watched
               PROVE  /\ seen'[b] \subseteq 1..nowid[b]
                      /\ \A e \in Holding(b) : Right(seen'[b], cache'[e].list)
                      /\ Holding(b) = {} => Right(seen'[b], file[b])
    BY <1>2 DEF MarksRight, Overwritten
  <2>1. /\ seen[b] \subseteq 1..nowid[b]
        /\ \A e \in Holding(b) : Right(seen[b], cache[e].list)
        /\ Holding(b) = {} => Right(seen[b], file[b])
    BY DEF Kept, MarksRight, Overwritten
  <2>2. CASE b = r.bid
    <3>1. seen'[b] = seen[b] \cup ids /\ r.cur \in Holding(b)
      BY <2>2 DEF Seen, Holding
    <3>2. \A e \in Holding(b) : e = r.cur
      BY <1>1, <2>2 DEF Kept, OnceCached, Holding
    <3>3. QED BY <2>1, <2>2, <3>1, <3>2
  <2>3. CASE b # r.bid
    <3>1. seen'[b] = seen[b]
      BY <2>3 DEF Seen
    <3>2. \A e \in Holding(b) : e \in Entries /\ e # r.cur
      BY <2>3 DEF Holding
    <3>3. QED BY <2>1, <3>1, <3>2
  <2>4. QED BY <2>2, <2>3
<1>8. Kept(q)'
  BY <1>4, <1>5, <1>6, <1>7 DEF Kept
<1>9. QED BY <1>8, NextRecord

\* What the list implies already.
LEMMA ImpliedKept ==
  ASSUME Inv, NEW s \in Sessions, Kept(ses[s]), Valid(s), NEW ids, Implied(s, ids),
         ids \subseteq 1..nowid[ses[s].bid],
         \A f \in ids : ~Unread(cache[ses[s].cur].list, f)
  PROVE  Kept(ses[s])'
<1>1. PICK r : r = ses[s]
  OBVIOUS
<1>2. PICK l : l = cache[r.cur].list
  OBVIOUS
<1>3. /\ r.pc = "in" /\ r.cur \in Entries /\ r.bid \in Boards /\ cache[r.cur].bid = r.bid
  BY <1>1 DEF Valid, Inv, TypeOK, SessionType, Entries
<1>4. UNCHANGED <<file, nowid>> /\ ses' = ses /\ seen' = Seen(r.bid, ids) /\ cache' = cache
  BY <1>1 DEF Implied
<1>5. r = ses'[s]
  BY <1>1, <1>4
<1>6. r.bid \in Watched => Right(seen[r.bid], l)
  BY <1>1, <1>2, <1>3 DEF Kept, MarksRight, Overwritten, Holding
<1>7. r.bid \in Watched => Right(seen[r.bid] \cup ids, l)
  BY <1>1, <1>2, <1>6, ImpliedRight
<1>8. /\ \A e \in Entries : cache'[e].bid = cache[e].bid
      /\ \A e \in Entries : e # r.cur => cache'[e] = cache[e]
      /\ cache'[r.cur].list = l
  BY <1>2, <1>4
<1>9. r.pc \in {"in", "marking"} /\ ids \subseteq 1..nowid[r.bid]
  BY <1>1, <1>3
<1>10. QED BY <1>1, <1>3, <1>4, <1>5, <1>7, <1>8, <1>9, MarkedKept

\* The loop of a mark.
LEMMA BeginKept ==
  ASSUME Inv, NEW s \in Sessions, Kept(ses[s]), Valid(s),
         NEW op \in {"add", "all", "cut"}, NEW f \in Nat,
         op \in {"add", "cut"} => f \in Pos,
         op = "cut" => Cuts(cache[ses[s].cur].list, f),
         f <= nowid[ses[s].bid], op = "all" => f = nowid[ses[s].bid],
         Begin(s, op, f)
  PROVE  Kept(ses[s])'
<1>1. PICK r : r = ses[s]
  OBVIOUS
<1>2. PICK q : q = ses'[s]
  OBVIOUS
<1>3. /\ r \in SessionType /\ ses \in [Sessions -> SessionType]
      /\ r.pc = "in" /\ r.cur \in Entries /\ r.bid \in Boards
      /\ r.cur \in Holding(r.bid)
  BY <1>1 DEF Valid, Inv, TypeOK, SessionType, Entries, Holding
<1>4. /\ q.pc = "marking" /\ q.op = op /\ q.fid = f /\ q.opened = cache[r.cur].list
      /\ q.cur = r.cur /\ q.bid = r.bid /\ q.after = r.after
  BY <1>1, <1>2, <1>3 DEF Begin, SessionType
<1>5. UNCHANGED <<file, cache, nowid, seen>>
  BY DEF Begin
<1>6. r.after # "load" /\ (r.bid \in Watched => seen[r.bid] \subseteq 1..nowid[r.bid])
  BY <1>1, <1>3 DEF Kept, Carries, MarksRight
<1>7. Begun(q)
  BY <1>1, <1>3, <1>4, <1>6 DEF Begun, Fit
<1>8. Carries(q)
  BY <1>4, <1>6, <1>7 DEF Carries
<1>9. Kept(q)'
  BY <1>1, <1>3, <1>4, <1>5, <1>8, StillKept
<1>10. QED BY <1>2, <1>9, NextRecord

LEMMA ReadingKept ==
  ASSUME Inv, NEW s \in Sessions, Kept(ses[s]), Read(s) \/ ClearAll(s) \/ ClearOld(s)
  PROVE  Kept(ses[s])'
<1> PICK b : b = ses[s].bid
  OBVIOUS
<1> PICK l : l = cache[ses[s].cur].list
  OBVIOUS
<1>1. Valid(s) /\ b \in Boards /\ l \in Lists /\ nowid[b] \in Nat
  BY DEF Read, ClearAll, ClearOld, Valid, Inv, TypeOK, SessionType, EntryType, Entries
<1>2. CASE Read(s)
  <2>1. PICK f \in 1..nowid[b] :
          IF Unread(l, f) THEN Begin(s, "add", f) ELSE Implied(s, {f})
    BY <1>2 DEF Read
  <2>2. f \in Pos /\ f \in Nat /\ f <= nowid[b] /\ {f} \subseteq 1..nowid[b]
    BY <1>1 DEF Pos
  <2>3. CASE Unread(l, f)
    <3>1. Begin(s, "add", f)
      BY <2>1, <2>3
    <3>2. QED BY <1>1, <2>2, <3>1, BeginKept
  <2>4. CASE ~Unread(l, f)
    BY <1>1, <2>1, <2>2, <2>4, ImpliedKept
  <2>5. QED BY <2>3, <2>4
<1>3. CASE ClearAll(s)
  <2>1. Begin(s, "all", nowid[b]) /\ nowid[b] <= nowid[b]
    BY <1>1, <1>3 DEF ClearAll
  <2>2. QED BY <1>1, <2>1, BeginKept
<1>4. CASE ClearOld(s)
  <2>1. PICK f \in 1..nowid[b] :
          IF Cuts(l, f) THEN Begin(s, "cut", f) ELSE Implied(s, 1..f)
    BY <1>4 DEF ClearOld
  <2>2. f \in Pos /\ f \in Nat /\ f <= nowid[b] /\ 1..f \subseteq 1..nowid[b]
    BY <1>1 DEF Pos
  <2>3. CASE Cuts(l, f)
    <3>1. Begin(s, "cut", f)
      BY <2>1, <2>3
    <3>2. QED BY <1>1, <2>2, <2>3, <3>1, BeginKept
  <2>4. CASE ~Cuts(l, f)
    <3>1. \A g \in 1..f : ~Unread(l, g)
      BY <1>1, <2>2, <2>4, NothingToCut
    <3>2. QED BY <1>1, <2>1, <2>2, <2>4, <3>1, ImpliedKept
  <2>5. QED BY <2>3, <2>4
<1>5. QED BY <1>2, <1>3, <1>4

\* The list that a mark leaves is right, if the list is the one it looked at.
LEMMA StoredRight ==
  ASSUME Inv, NEW k \in SessionType, k.bid \in Watched, Begun(k), k.op # "none",
         seen[k.bid] \subseteq 1..nowid[k.bid], Right(seen[k.bid], k.opened)
  PROVE  Right(seen[k.bid] \cup Meant(k), Stored(k.opened, k))
<1> PICK l : l = k.opened
  OBVIOUS
<1> PICK R : R = seen[k.bid]
  OBVIOUS
<1> PICK f : f = k.fid
  OBVIOUS
<1> PICK now : now = nowid[k.bid]
  OBVIOUS
<1>1. /\ l \in Lists /\ f \in Nat /\ k.op \in {"add", "all", "cut"}
      /\ k.bid \in Boards /\ now \in Nat
  BY BrcAssumption DEF SessionType, Inv, TypeOK
<1>2. R \in SUBSET Pos /\ R \subseteq 1..now /\ Right(R, l)
  BY <1>1 DEF Pos
<1>3. /\ k.op \in {"add", "cut"} => f \in Pos
      /\ k.op = "cut" => Cuts(l, f)
      /\ k.op = "all" => R \subseteq 1..f
      /\ Renewed = {} => f <= now
  BY DEF Begun, Fit
<1>4. ASSUME NEW ids, NEW n, Right(R \cup ids, n), Renewed = {} => ids \subseteq 1..now
      PROVE  Right(R \cup (ids \cap 1..now), n)
  <2>1. \A g \in R \cup (ids \cap 1..now) : ~Unread(n, g)
    BY <1>4 DEF Right
  <2>2. Renewed = {} => R \cup (ids \cap 1..now) = R \cup ids
    BY <1>4
  <2>3. QED BY <1>4, <2>1, <2>2 DEF Right
<1>5. CASE k.op = "add"
  <2>1. Right(R \cup {f}, AddRead(l, l, f))
    BY <1>1, <1>2, <1>3, <1>5, AddReadRight
  <2>2. Renewed = {} => {f} \subseteq 1..now
    BY <1>1, <1>3, <1>5 DEF Pos
  <2>3. Stored(l, k) = AddRead(l, l, f) /\ Meant(k) = {f} \cap 1..now
    BY <1>5 DEF Stored, Meant
  <2>4. QED BY <1>4, <2>1, <2>2, <2>3
<1>6. CASE k.op = "cut"
  <2>1. Right(R \cup 1..f, ReadUpTo(l, l, f))
    BY <1>1, <1>2, <1>3, <1>6, ReadUpToRight
  <2>2. Renewed = {} => 1..f \subseteq 1..now
    BY <1>1, <1>3
  <2>3. Stored(l, k) = ReadUpTo(l, l, f) /\ Meant(k) = (1..f) \cap 1..now
    BY <1>6 DEF Stored, Meant
  <2>4. QED BY <1>4, <2>1, <2>2, <2>3
<1>7. CASE k.op = "all"
  <2>1. Right(R \cup 1..f, AllRead(l, f))
    BY <1>1, <1>3, <1>7, AllReadRight
  <2>2. Renewed = {} => 1..f \subseteq 1..now
    BY <1>1, <1>3
  <2>3. Stored(l, k) = AllRead(l, f) /\ Meant(k) = (1..f) \cap 1..now
    BY <1>7 DEF Stored, Meant
  <2>4. QED BY <1>4, <2>1, <2>2, <2>3
<1>8. QED BY <1>1, <1>5, <1>6, <1>7

\* The stores of a mark.
LEMMA MarkKept ==
  ASSUME Inv, NEW s \in Sessions, Kept(ses[s]), Mark(s)
  PROVE  Kept(ses[s])'
<1>1. PICK r : r = ses[s]
  OBVIOUS
<1>2. PICK q : q = ses'[s]
  OBVIOUS
<1>3. r \in SessionType /\ ses \in [Sessions -> SessionType] /\ r.pc = "marking"
  BY <1>1 DEF Mark, Inv, TypeOK
<1>4. Begun(r)
  BY <1>1, <1>3 DEF Kept, Carries
<1>5. /\ r.cur \in Entries /\ cache[r.cur].bid = r.bid /\ cache[r.cur].list = r.opened
      /\ r.op # "none"
  BY <1>4 DEF Begun, Holding
<1>6. r.bid \in Boards
  BY <1>1, <1>3, <1>5, BrcAssumption DEF Inv, TypeOK, SessionType, Entries
<1>7. PICK n : n = Stored(r.opened, r)
  OBVIOUS
<1>8. /\ cache' = [cache EXCEPT ![r.cur].list = Stored(@, r), ![r.cur].changed = TRUE]
      /\ seen'  = Seen(r.bid, Meant(r))
      /\ UNCHANGED <<file, nowid>>
  BY <1>1 DEF Mark
<1>9. /\ cache'[r.cur].list = n /\ cache'[r.cur].changed
      /\ \A e \in Entries : cache'[e].bid = cache[e].bid
      /\ \A e \in Entries : e # r.cur => cache'[e] = cache[e]
  BY <1>5, <1>7, <1>8 DEF Inv, TypeOK, EntryType
<1>10. q.pc = "in" /\ q.after = r.after
  BY <1>1, <1>2, <1>3 DEF Mark, SessionType
<1>11. Meant(r) \subseteq 1..nowid[r.bid]
  BY DEF Meant
<1>12. r.bid \in Watched => Right(seen[r.bid] \cup Meant(r), n)
  <2>1. r.bid \in Watched => /\ seen[r.bid] \subseteq 1..nowid[r.bid]
                             /\ Right(seen[r.bid], r.opened)
    BY <1>1, <1>3, <1>5 DEF Kept, MarksRight, Overwritten, Holding
  <2>2. QED BY <1>3, <1>4, <1>5, <1>7, <2>1, StoredRight
<1>13. PICK ids : ids = Meant(r)
  OBVIOUS
<1>14. r.pc \in {"in", "marking"}
  BY <1>3
<1>15. ids \subseteq 1..nowid[r.bid] /\ seen' = Seen(r.bid, ids)
  BY ONLY <1>8, <1>11, <1>13
<1>16. r.bid \in Watched => Right(seen[r.bid] \cup ids, n)
  BY ONLY <1>12, <1>13
<1>17. cache[r.cur].bid = r.bid /\ UNCHANGED <<file, nowid>>
  BY <1>5, <1>8
<1>18. cache'[r.cur].changed \/ cache' = cache
  BY <1>9
<1>19. QED
  BY ONLY Inv, Kept(ses[s]), s \in Sessions, <1>1, <1>2, <1>5, <1>6, <1>9, <1>10, <1>14, <1>15,
          <1>16, <1>17, <1>18, MarkedKept

-----------------------------------------------------------------------------
(* brc_update and clean_cachedata. *)

LEMMA MergedIs ==
  ASSUME OnceCached, NEW data, NEW b \in Boards
  PROVE  /\ \A e \in Holding(b) : Merged(data)[b] = IF cache[e].changed THEN cache[e].list ELSE data[b]
         /\ Holding(b) = {} => Merged(data)[b] = data[b]
<1> DEFINE changed == {e \in Holding(b) : cache[e].changed}
           last == CHOOSE e \in changed : \A d \in changed : d <= e
<1>1. Merged(data)[b] = IF changed = {} THEN data[b] ELSE cache[last].list
  BY DEF Merged
<1>2. ASSUME NEW e \in Holding(b)
      PROVE  Merged(data)[b] = IF cache[e].changed THEN cache[e].list ELSE data[b]
  <2>1. b # 0 /\ e \in Entries /\ e <= e
    BY BrcAssumption DEF Holding, Entries
  <2>2. \A d \in Holding(b) : d = e
    BY <2>1 DEF OnceCached, Holding
  <2>3. CASE cache[e].changed
    <3>1. e \in changed /\ \A d \in changed : d <= e
      BY <2>1, <2>2, <2>3
    <3>2. last \in changed
      BY <3>1
    <3>3. last = e
      BY <2>2, <3>2
    <3>4. QED BY <1>1, <2>3, <3>1, <3>3
  <2>4. CASE ~cache[e].changed
    <3>1. changed = {}
      BY <2>2, <2>4
    <3>2. QED BY <1>1, <2>4, <3>1
  <2>5. QED BY <2>3, <2>4
<1>3. QED BY <1>1, <1>2

\* With a cache that agrees with the file, the merged lists are the cached ones.
LEMMA MergedFile ==
  ASSUME Inv, NEW r, Kept(r), r.pc \notin {"loaded", "copied"}, NEW b \in Boards
  PROVE  /\ \A e \in Holding(b) : Merged(file)[b] = cache[e].list
         /\ Holding(b) = {} => Merged(file)[b] = file[b]
<1>1. ASSUME NEW e \in Holding(b) PROVE Merged(file)[b] = cache[e].list
  <2>1. e \in Entries /\ cache[e].bid = b /\ b # 0
    BY BrcAssumption DEF Holding
  <2>2. ~cache[e].changed => cache[e].list = file[b]
    BY <2>1 DEF Kept, UnchangedIsSaved, Overwritten
  <2>3. QED BY <2>2, MergedIs DEF Kept
<1>2. QED BY <1>1, MergedIs DEF Kept

LEMMA UpdatedCarries ==
  ASSUME Inv, NEW s \in Sessions, Updated(s), NEW r, r = ses[s], NEW q, q = ses'[s],
         r.after = "load" => Holding(r.bid)' = {} /\ r.opened = file'[r.bid],
         \A e \in Entries : ~cache'[e].changed
  PROVE  Carries(q)' /\ q.pc \in {"out", "picked"}
<1> USE BrcAssumption
<1>1. ses \in [Sessions -> SessionType] /\ r \in SessionType
  BY DEF Inv, TypeOK
<1>2. CASE r.after = "exit"
  <2>1. q = Out
    BY <1>1, <1>2 DEF Updated
  <2>2. q.pc = "out" /\ q.after = "exit"
    BY <2>1 DEF Out
  <2>3. QED BY <2>2 DEF Carries
<1>3. CASE r.after = "load"
  <2>1. q = Chosen(r.bid, 1, r.opened)
    BY <1>1, <1>3 DEF Updated
  <2>2. q.pc = "picked" /\ q.after = "exit" /\ q.bid = r.bid /\ q.slot = 1 /\ q.opened = r.opened
    BY <2>1 DEF Chosen, Out
  <2>3. 1 \in Entries
    BY DEF Entries
  <2>4. QED BY <1>3, <2>2, <2>3 DEF Carries
<1>4. QED BY <1>1, <1>2, <1>3 DEF SessionType

LEMMA ScanKept ==
  ASSUME Inv, NEW s \in Sessions, Kept(ses[s]), UpdateScan(s)
  PROVE  Kept(ses[s])'
<1> PICK r : r = ses[s]
  OBVIOUS
<1>1. PICK q : q = ses'[s]
  OBVIOUS
<1>2. /\ ses \in [Sessions -> SessionType] /\ ses[s] \in SessionType
      /\ \A e \in Entries : cache[e].changed \in BOOLEAN
  BY DEF Inv, TypeOK, EntryType
<1>3. ses[s].pc = "update" /\ UNCHANGED <<file, cache, nowid, seen>>
  BY DEF UpdateScan
<1>4. Carries(q) /\ q.pc \in {"read", "out", "picked"}
  <2>1. CASE \E e \in Entries : cache[e].changed
    <3>1. ses' = [ses EXCEPT ![s].pc = "read", ![s].data = file]
      BY <2>1 DEF UpdateScan
    <3>2. /\ q.pc = "read" /\ q.data = file /\ q.after = ses[s].after
          /\ q.bid = ses[s].bid /\ q.opened = ses[s].opened
      BY <1>1, <1>2, <3>1 DEF SessionType
    <3>3. QED BY <1>3, <3>2 DEF Kept, Carries
  <2>2. CASE ~\E e \in Entries : cache[e].changed
    <3>1. Updated(s)
      BY <2>2 DEF UpdateScan
    <3>2. r.after = "load" => Holding(r.bid)' = {} /\ r.opened = file'[r.bid]
      BY <1>3 DEF Kept, Carries, Holding
    <3>3. \A e \in Entries : ~cache'[e].changed
      BY <1>3, <2>2
    <3>4. Carries(q)' /\ q.pc \in {"out", "picked"}
      BY <1>1, <3>1, <3>2, <3>3, UpdatedCarries
    <3>5. Carries(q)
      BY <1>3, <3>4 DEF Carries, Holding
    <3>6. QED BY <3>4, <3>5
  <2>3. QED BY <2>1, <2>2
<1>5. Kept(q)'
  BY <1>3, <1>4, StillKept
<1>6. QED BY <1>1, <1>5, NextRecord

LEMMA CopyKept ==
  ASSUME Inv, NEW s \in Sessions, Kept(ses[s]), UpdateCopy(s)
  PROVE  Kept(ses[s])'
<1>1. PICK r : r = ses[s]
  OBVIOUS
<1>2. PICK q : q = ses'[s]
  OBVIOUS
<1>3. r.pc = "read" /\ r.data = file /\ UNCHANGED <<file, nowid, seen>>
  BY <1>1 DEF UpdateCopy, Kept, Carries
<1>4. /\ q.pc = "copied" /\ q.data = Merged(file) /\ q.after = r.after /\ q.bid = r.bid
      /\ q.opened = r.opened
  BY <1>1, <1>2, <1>3 DEF UpdateCopy, Inv, TypeOK, SessionType
<1>5. \A e \in Entries : /\ cache'[e].bid = cache[e].bid /\ cache'[e].list = cache[e].list
                         /\ ~cache'[e].changed
  BY DEF UpdateCopy, Inv, TypeOK, EntryType
<1>6. \A b : Holding(b)' = Holding(b)
  BY <1>5 DEF Holding
<1>7. OnceCached'
  BY <1>5 DEF Kept, OnceCached
<1>8. UnchangedIsSaved(q)'
  BY <1>4 DEF UnchangedIsSaved
<1>9. Carries(q)'
  <2>1. ASSUME NEW e \in Entries, cache[e].bid # 0 PROVE cache[e].list = q.data[cache[e].bid]
    <3>1. cache[e].bid \in Boards /\ e \in Holding(cache[e].bid)
      BY <2>1, HoldingFacts
    <3>2. QED BY <1>1, <1>3, <1>4, <3>1, MergedFile
  <2>2. ASSUME NEW b \in Boards, Holding(b) = {} PROVE q.data[b] = file[b]
    BY <1>1, <1>3, <1>4, <2>2, MergedFile
  <2>3. \A e \in Entries : /\ ~cache'[e].changed
                           /\ cache'[e].bid # 0 => cache'[e].list = q.data[cache'[e].bid]
    BY <1>5, <2>1
  <2>4. \A b \in Boards : Holding(b)' = {} => q.data[b] = file'[b]
    BY <1>3, <1>6, <2>2
  <2>5. r.after = "load" => Holding(r.bid)' = {} /\ r.opened = file'[r.bid]
    BY <1>1, <1>3, <1>6 DEF Kept, Carries
  <2>6. QED BY <1>4, <2>3, <2>4, <2>5 DEF Carries
<1>10. MarksRight(q)'
  <2> SUFFICES ASSUME NEW b \in Watched
               PROVE  /\ seen[b] \subseteq 1..nowid[b]
                      /\ \A e \in Holding(b) : Right(seen[b], cache[e].list)
                      /\ Holding(b) = {} => Right(seen[b], file[b])
    BY <1>3, <1>4, <1>5, <1>6 DEF MarksRight, Overwritten, Holding
  <2>1. QED BY <1>1, <1>3 DEF Kept, MarksRight, Overwritten
<1>11. Kept(q)'
  BY <1>7, <1>8, <1>9, <1>10 DEF Kept
<1>12. QED BY <1>2, <1>11, NextRecord

LEMMA WriteKept ==
  ASSUME ~DiskFull, Inv, NEW s \in Sessions, Kept(ses[s]), UpdateWrite(s)
  PROVE  Kept(ses[s])'
<1>1. PICK r : r = ses[s]
  OBVIOUS
<1>2. PICK q : q = ses'[s]
  OBVIOUS
<1>3. /\ r.pc = "copied" /\ file' = r.data /\ UNCHANGED <<cache, nowid, seen>>
      /\ Updated(s)
  BY <1>1 DEF UpdateWrite, Written
<1>4. /\ \A e \in Entries : /\ ~cache[e].changed
                            /\ cache[e].bid # 0 => cache[e].list = file'[cache[e].bid]
      /\ \A b \in Boards : Holding(b) = {} => file'[b] = file[b]
      /\ r.after = "load" => Holding(r.bid) = {} /\ r.opened = file[r.bid] /\ r.bid \in Boards
  BY <1>1, <1>3 DEF Kept, Carries, Inv, TypeOK, SessionType
<1>5. \A b : Holding(b)' = Holding(b)
  BY <1>3 DEF Holding
<1>6. Carries(q)' /\ q.pc \in {"out", "picked"}
  <2>1. r.after = "load" => Holding(r.bid)' = {} /\ r.opened = file'[r.bid]
    BY <1>4, <1>5
  <2>2. \A e \in Entries : ~cache'[e].changed
    BY <1>3, <1>4
  <2>3. QED BY <1>1, <1>2, <1>3, <2>1, <2>2, UpdatedCarries
<1>7. OnceCached'
  BY <1>3 DEF Kept, OnceCached
<1>8. UnchangedIsSaved(q)'
  BY <1>3, <1>4 DEF UnchangedIsSaved
<1>9. MarksRight(q)'
  <2> SUFFICES ASSUME NEW b \in Watched
               PROVE  /\ seen[b] \subseteq 1..nowid[b]
                      /\ \A e \in Holding(b) : Right(seen[b], cache[e].list)
                      /\ Holding(b) = {} => Right(seen[b], file'[b])
    BY <1>3, <1>5, <1>6 DEF MarksRight, Overwritten
  <2>1. /\ seen[b] \subseteq 1..nowid[b]
        /\ \A e \in Holding(b) : Right(seen[b], cache[e].list)
        /\ Holding(b) = {} => Right(seen[b], file[b])
    BY <1>1, <1>3 DEF Kept, MarksRight, Overwritten
  <2>2. b \in Boards
    BY BrcAssumption
  <2>3. QED BY <1>4, <2>1, <2>2
<1>10. Kept(q)'
  BY <1>6, <1>7, <1>8, <1>9 DEF Kept
<1>11. QED BY <1>2, <1>10, NextRecord

LEMMA SessionStepKept ==
  ASSUME Undisturbed, Inv, NEW s \in Sessions, Kept(ses[s]), SessionStep(s)
  PROVE  Kept(ses[s])'
<1>1. Look(s) => ClearAll(s)
  BY DEF Look
<1>2. ~UpdateFails(s) /\ ~HangUp(s) /\ ~Die(s)
  BY DEF Undisturbed, UpdateFails, HangUp, Die
<1>3. ~DiskFull
  BY DEF Undisturbed
<1>4. QED BY <1>1, <1>2, <1>3, IdleKept, MissKept, LoadKept, NameKept, ReadingKept,
             MarkKept, ScanKept, CopyKept, WriteKept DEF SessionStep

LEMMA CleanKept ==
  ASSUME Undisturbed, Inv, NEW r, r.pc = "out", r.after = "exit", Kept(r), Clean
  PROVE  Kept(r)'
<1>1. file' = Merged(file) /\ UNCHANGED <<nowid, seen>>
  BY DEF Clean, Undisturbed, Written
<1>2. \A e \in Entries : cache'[e].bid = 0 /\ ~cache'[e].changed
  BY DEF Clean, Empty
<1>3. OnceCached' /\ UnchangedIsSaved(r)' /\ Carries(r)'
  BY <1>2 DEF OnceCached, UnchangedIsSaved, Carries
<1>4. MarksRight(r)'
  <2> SUFFICES ASSUME NEW b \in Watched
               PROVE  seen[b] \subseteq 1..nowid[b] /\ Holding(b)' = {} /\ Right(seen[b], file'[b])
    BY <1>1 DEF MarksRight
  <2>1. b \in Boards /\ b # 0
    BY BrcAssumption
  <2>2. /\ seen[b] \subseteq 1..nowid[b]
        /\ \A e \in Holding(b) : Right(seen[b], cache[e].list)
        /\ Holding(b) = {} => Right(seen[b], file[b])
    BY DEF Kept, MarksRight, Overwritten
  <2>3. Right(seen[b], file'[b])
    <3>1. /\ \A e \in Holding(b) : file'[b] = cache[e].list
          /\ Holding(b) = {} => file'[b] = file[b]
      BY <1>1, <2>1, MergedFile
    <3>2. QED BY <2>2, <3>1
  <2>4. QED BY <1>2, <2>1, <2>2, <2>3 DEF Holding
<1>5. QED BY <1>3, <1>4 DEF Kept

LEMMA BoardKept ==
  ASSUME Inv, NEW r, Proper(r), Kept(r), NEW c \in Boards, Post(c) \/ Renew(c)
  PROVE  Kept(r)'
<1>1. UNCHANGED <<file, cache>>
  BY DEF Post, Renew
<1>2. OnceCached' /\ UnchangedIsSaved(r)' /\ Carries(r)'
  <2>1. OnceCached' /\ UnchangedIsSaved(r)'
    BY <1>1 DEF Kept, OnceCached, UnchangedIsSaved
  <2>2. r.pc = "marking" => Begun(r)'
    <3>1. Renewed = {} => \A b \in Boards : nowid'[b] >= nowid[b] /\ nowid'[b] \in Nat
      BY DEF Post, Renew, Inv, TypeOK
    <3>2. \A b \in Watched : seen'[b] \in {seen[b], {}}
      BY DEF Post, Renew
    <3>3. r.pc = "marking" => r.bid \in Boards /\ r.fid \in Nat /\ Begun(r)
      BY DEF Proper, SessionType, Kept, Carries
    <3>4. Holding(r.bid)' = Holding(r.bid) /\ Fit(r)' = Fit(r)
      BY <1>1 DEF Holding, Fit
    <3>5. nowid \in [Boards -> Nat]
      BY DEF Inv, TypeOK
    <3>6. QED BY <1>1, <3>1, <3>2, <3>3, <3>4, <3>5 DEF Begun
  <2>3. QED BY <1>1, <2>1, <2>2 DEF Kept, Carries, Holding
<1>3. MarksRight(r)'
  <2> SUFFICES ASSUME NEW b \in Watched
               PROVE  /\ seen'[b] \subseteq 1..nowid'[b]
                      /\ \A e \in Holding(b) : ~Overwritten(r, e) => Right(seen'[b], cache[e].list)
                      /\ (\A e \in Holding(b) : Overwritten(r, e)) => Right(seen'[b], file[b])
    BY <1>1 DEF MarksRight, Holding
  <2>1. /\ seen[b] \subseteq 1..nowid[b]
        /\ \A e \in Holding(b) : ~Overwritten(r, e) => Right(seen[b], cache[e].list)
        /\ (\A e \in Holding(b) : Overwritten(r, e)) => Right(seen[b], file[b])
        /\ b \in Boards /\ nowid \in [Boards -> Nat]
    BY BrcAssumption DEF Kept, MarksRight, Inv, TypeOK
  <2>2. CASE Post(c)
    <3>1. seen' = seen /\ nowid'[b] \in Nat /\ nowid'[b] >= nowid[b]
      BY <2>1, <2>2 DEF Post
    <3>2. QED BY <2>1, <3>1
  <2>3. CASE Renew(c) /\ b # c
    <3>1. seen'[b] = seen[b] /\ nowid'[b] = nowid[b]
      BY <2>1, <2>3 DEF Renew
    <3>2. QED BY <2>1, <3>1
  <2>4. CASE Renew(c) /\ b = c
    <3>1. seen'[b] = {} /\ Renewed # {}
      BY <2>4 DEF Renew
    <3>2. \A l : Right({}, l)
      BY <3>1 DEF Right
    <3>3. QED BY <3>1, <3>2
  <2>5. QED BY <2>2, <2>3, <2>4
<1>4. QED BY <1>2, <1>3 DEF Kept

-----------------------------------------------------------------------------
LEMMA SessionIs ==
  ASSUME Alone
  PROVE  /\ \A s \in Sessions : Session = ses[s] /\ Session' = ses'[s]
         /\ Sessions = {} => Session = Out /\ Session' = Out
BY DEF Alone, Session

LEMMA KeptOf ==
  ASSUME NEW r, r = Session
  PROVE  Kept(Session) <=> Kept(r)
OBVIOUS

LEMMA KeptOfNext ==
  ASSUME NEW q, q = Session', Kept(q)'
  PROVE  Kept(Session)'
<1>1. UnchangedIsSaved(Session)' /\ MarksRight(Session)'
  BY DEF Kept, UnchangedIsSaved, MarksRight, Overwritten
<1>2. Carries(Session)'
  BY DEF Kept, Carries
<1>3. QED BY <1>1, <1>2 DEF Kept

LEMMA KeptInit ==
  ASSUME Undisturbed, Init PROVE Kept(Session)
<1> PICK r : r = Session
  OBVIOUS
<1>1. r = Out
  BY SessionIs DEF Undisturbed, Init, Session
<1>2. r.pc = "out" /\ r.after = "exit"
  BY <1>1 DEF Out
<1>3. \A e \in Entries : cache[e].bid = 0 /\ ~cache[e].changed
  BY DEF Init, Empty
<1>4. OnceCached /\ UnchangedIsSaved(r) /\ Carries(r)
  BY <1>2, <1>3 DEF OnceCached, UnchangedIsSaved, Carries
<1>5. MarksRight(r)
  <2> SUFFICES ASSUME NEW b \in Watched
               PROVE  /\ seen[b] = {} /\ Holding(b) = {}
                      /\ Right({}, file[b])
    BY DEF MarksRight
  <2>1. b \in Boards /\ b # 0
    BY BrcAssumption
  <2>2. QED BY <1>3, <2>1, NoListRight DEF Init, NoMarks, Holding
<1>6. QED BY <1>4, <1>5 DEF Kept

LEMMA KeptNext ==
  ASSUME Undisturbed, Inv, Kept(Session), [Next]_mvars PROVE Kept(Session)'
<1> PICK r : r = Session
  OBVIOUS
<1>1. Kept(r)
  BY KeptOf
<1>2. CASE \E s \in Sessions : SessionStep(s)
  <2>1. PICK s \in Sessions : SessionStep(s)
    BY <1>2
  <2>2. r = ses[s] /\ Session' = ses'[s]
    BY SessionIs DEF Undisturbed
  <2>3. Kept(ses[s])'
    BY <1>1, <2>1, <2>2, SessionStepKept
  <2> PICK q : q = ses'[s]
    OBVIOUS
  <2>4. Kept(q)'
    <3>1. UnchangedIsSaved(q)' /\ MarksRight(q)' /\ Carries(q)' /\ OnceCached'
      BY <2>3 DEF Kept, UnchangedIsSaved, MarksRight, Overwritten, Carries
    <3>2. QED BY <3>1 DEF Kept
  <2>5. QED BY <2>2, <2>4, KeptOfNext
<1>3. CASE Clean
  <2>1. r = Session' /\ r.pc = "out"
    <3>1. \A s \in Sessions : ses[s].pc = "out" /\ ses' = ses
      BY <1>3 DEF Clean
    <3>2. Out.pc = "out"
      BY DEF Out
    <3>3. QED BY <3>1, <3>2, SessionIs DEF Undisturbed
  <2>2. r.after = "exit"
    <3>1. r \in SessionType
      BY SessionIs, OutFacts, OfSession DEF Undisturbed, Proper
    <3>2. QED BY <1>1, <2>1, <3>1 DEF Kept, Carries, SessionType
  <2>3. QED BY <1>1, <1>3, <2>1, <2>2, CleanKept, KeptOfNext
<1>4. CASE \E b \in Boards : Post(b) \/ Renew(b)
  <2>1. PICK b \in Boards : Post(b) \/ Renew(b)
    BY <1>4
  <2>2. r = Session'
    BY <2>1 DEF Post, Renew, Session
  <2>3. Proper(r)
    BY SessionIs, OutFacts, OfSession DEF Undisturbed
  <2>4. QED BY <1>1, <2>1, <2>2, <2>3, BoardKept, KeptOfNext
<1>5. CASE UNCHANGED mvars
  <2>1. r = Session'
    BY <1>5 DEF mvars, Session
  <2>2. Kept(r)'
    BY <1>1, <1>5 DEF mvars, Kept, OnceCached, UnchangedIsSaved, Carries, Begun, Fit,
                      MarksRight, Overwritten, Holding
  <2>3. QED BY <2>1, <2>2, KeptOfNext
<1>6. QED BY <1>2, <1>3, <1>4, <1>5 DEF Next

LEMMA KeptHolds ==
  ASSUME Undisturbed PROVE Spec => []Kept(Session)
<1>1. Init => Kept(Session)
  BY KeptInit
<1>2. Inv /\ Kept(Session) /\ [Next]_mvars => Kept(Session)'
  BY KeptNext
<1>3. QED BY <1>1, <1>2, InvHolds, PTL DEF Spec

\* The list brc_initial finds is right, except while an entry has no number yet.
LEMMA CurrentRight ==
  ASSUME Undisturbed, Kept(Session), Settled, NEW b \in Watched
  PROVE  Right(seen[b], Current(b))
<1> PICK r : r = Session
  OBVIOUS
<1>1. Kept(r) /\ r.pc # "loaded"
  <2>1. Out.pc # "loaded"
    BY DEF Out
  <2>2. QED BY <2>1, SessionIs DEF Undisturbed, Settled
<1>2. b # 0
  BY BrcAssumption
<1>3. /\ \A e \in Holding(b) : Right(seen[b], cache[e].list)
      /\ Holding(b) = {} => Right(seen[b], file[b])
  BY <1>1 DEF Kept, MarksRight, Overwritten
<1>4. ASSUME NEW e \in Holding(b) PROVE Current(b) = cache[e].list
  <2>1. \A d \in Holding(b) : d = e
    BY <1>1, <1>2, <1>4 DEF Kept, OnceCached, Holding
  <2>2. e <= e
    BY BrcAssumption, <1>4 DEF Holding, Entries
  <2>3. (CHOOSE x \in Holding(b) : \A d \in Holding(b) : x <= d) = e
    BY <1>4, <2>1, <2>2
  <2>4. QED BY <1>4, <2>3 DEF Current
<1>5. QED BY <1>3, <1>4 DEF Current

(***************************************************************************)
(* What the user read stays read: with one session that is not killed and  *)
(* a disk that is not full, neither a later mark, nor a list that is full, *)
(* nor the reuse of an entry, nor logout and login make an article unread  *)
(* (ReadStaysRead).                                                        *)
(***************************************************************************)
THEOREM ReadIsKept ==
  ASSUME Undisturbed PROVE Spec => []ReadStaysRead
<1>1. Kept(Session) => ReadStaysRead
  BY CurrentRight DEF ReadStaysRead, Right
<1>2. QED BY <1>1, KeptHolds, PTL

(***************************************************************************)
(* What the user did not read is shown as unread, but for the articles a   *)
(* full list has no room for and the first one of the board, if moreover   *)
(* the number of no board goes to another (UnreadStaysUnread).             *)
(***************************************************************************)
THEOREM UnreadIsKept ==
  ASSUME Undisturbed, Renewed = {} PROVE Spec => []UnreadStaysUnread
<1>1. Inv /\ Kept(Session) => UnreadStaysUnread
  <2> SUFFICES ASSUME Inv, Kept(Session), Settled, NEW b \in Watched, NEW f \in 2..nowid[b]
               PROVE  f \in seen[b] \/ Unread(Current(b), f) \/ Above(Current(b), f, M)
    BY DEF UnreadStaysUnread
  <2>1. f \in Nat /\ f >= 2
    BY BrcAssumption DEF Inv, TypeOK
  <2>2. QED BY <2>1, CurrentRight DEF Right, Shown
<1>2. QED BY <1>1, KeptHolds, InvHolds, PTL
=============================================================================
