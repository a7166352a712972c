------------------------------- MODULE Lemmas -------------------------------
(***************************************************************************)
(* Facts the proofs share.  Numbers: induction, for what recursive         *)
(* functions compute, and a % S for a positive S, which the ring buffers   *)
(* rest on.  Rings and chains of pointers: in a ring next and prev lead    *)
(* through the nodes R, head first, and back to the head; in a chain next  *)
(* leads from the first node through all of them to null.  What insertion  *)
(* and removal do to one, and what a walk along next finds.                *)
(***************************************************************************)
EXTENDS Integers, FiniteSets, FiniteSetTheorems, WellFoundedInduction, TLAPS

----------------------------------------------------------------------------
(* Numbers.                                                                 *)

Less == {p \in Nat \X Nat : p[1] < p[2]}

LEMMA LessIsWellFounded == IsWellFoundedOn(Less, Nat)
BY NatLessThanWellFounded DEF OpToRel, Less

LEMMA LeastNumber ==
    ASSUME NEW T, T \subseteq Nat, T # {}
    PROVE  \E x \in T : \A y \in T : x <= y
<1>1. PICK x \in T : \A y \in T : ~(<<y, x>> \in Less)
  BY LessIsWellFounded, WFMin
<1>2. \A y \in T : ~(y < x)
  BY <1>1 DEF Less
<1> QED
  BY <1>2

(* Induction: a set with 0 in it, and n + 1 with every n, holds them all.   *)
LEMMA Induction ==
    ASSUME NEW T, 0 \in T, \A n \in Nat : n \in T => n + 1 \in T
    PROVE  Nat \subseteq T
<1> SUFFICES ASSUME Nat \ T # {} PROVE FALSE
  OBVIOUS
<1>1. PICK x \in Nat \ T : \A y \in Nat \ T : x <= y
  BY LeastNumber
<1>2. x # 0 /\ x - 1 \in Nat
  BY <1>1
<1>3. x - 1 \in T
  BY <1>1, <1>2
<1> QED
  BY <1>1, <1>2, <1>3

----------------------------------------------------------------------------

(* A multiple of S other than 0 is not strictly between -S and S.           *)
LEMMA MultipleTooLarge ==
    ASSUME NEW S \in Nat, S > 0, NEW d \in Int, d # 0
    PROVE  S * d >= S \/ S * d <= -S
<1>1. CASE d >= 1
  BY <1>1
<1>2. CASE d <= -1
  BY <1>2
<1> QED
  BY <1>1, <1>2

(* What div and % are.                                                      *)
LEMMA Division ==
    ASSUME NEW S \in Nat, S > 0, NEW a \in Nat
    PROVE  /\ a \div S \in Int /\ a % S \in 0..(S - 1)
           /\ a = S * (a \div S) + (a % S)
OBVIOUS

(* Equal remainders are a multiple of S apart.                              *)
LEMMA SameRemainder ==
    ASSUME NEW S \in Nat, S > 0, NEW a \in Nat, NEW b \in Nat, a % S = b % S
    PROVE  \E d \in Int : a - b = S * d
<1> DEFINE p == a \div S
           q == b \div S
<1>1. p \in Int /\ q \in Int /\ a = S * p + (a % S) /\ b = S * q + (b % S) /\ a % S \in Int
  BY Division
<1>2. a - b = S * (p - q) /\ p - q \in Int
  BY <1>1
<1> HIDE DEF p, q
<1> QED
  BY <1>2

(* Numbers less than S apart have different remainders.                     *)
LEMMA DistinctRemainders ==
    ASSUME NEW S \in Nat, S > 0, NEW a \in Nat, NEW b \in Nat, a < b, b < a + S
    PROVE  a % S # b % S
<1> SUFFICES ASSUME a % S = b % S PROVE FALSE
  OBVIOUS
<1>1. PICK d \in Int : a - b = S * d
  BY SameRemainder
<1>2. d # 0
  BY <1>1
<1> QED
  BY <1>1, <1>2, MultipleTooLarge

(* Adding a multiple of S leaves the remainder.                             *)
LEMMA RemainderOfMultiple ==
    ASSUME NEW S \in Nat, S > 0, NEW k \in Nat, NEW a \in Nat
    PROVE  (a + k * S) % S = a % S
<1> DEFINE b == a + k * S
           p == a \div S
           q == b \div S
<1>0. b \in Nat
  OBVIOUS
<1>1. /\ p \in Int /\ q \in Int /\ a % S \in 0..(S - 1) /\ b % S \in 0..(S - 1)
      /\ a = S * p + (a % S) /\ b = S * q + (b % S)
  BY <1>0, Division
<1>2. S * (q - p - k) = (a % S) - (b % S)
  BY <1>1
<1>3. q - p - k = 0
  BY <1>1, <1>2, MultipleTooLarge
<1> QED
  BY <1>1, <1>2, <1>3

----------------------------------------------------------------------------
(* Rings.                                                                   *)

(* The position behind i in a round of m + 1.                               *)
Behind(i, m) == IF i = m THEN 0 ELSE i + 1

(* s lists the nodes in the order of next; prev mirrors it.                 *)
InOrder(next, prev, head, R, m, s) ==
    /\ s \in [0..m -> R] /\ s[0] = head
    /\ \A i, j \in 0..m : s[i] = s[j] => i = j
    /\ \A x \in R : \E i \in 0..m : s[i] = x
    /\ \A i \in 0..m : next[s[i]] = s[Behind(i, m)] /\ prev[s[Behind(i, m)]] = s[i]

IsRing(next, prev, head, R) ==
    \E m \in Nat : \E s \in [0..m -> R] : InOrder(next, prev, head, R, m, s)

LEMMA BehindDistinct ==
    ASSUME NEW m \in Nat, NEW i \in 0..m, NEW j \in 0..m
    PROVE  /\ Behind(i, m) \in 0..m
           /\ Behind(i, m) = Behind(j, m) => i = j
BY DEF Behind

(* On a ring, pointers lead to nodes of it and back.                        *)
LEMMA RingNeighbours ==
    ASSUME NEW next, NEW prev, NEW head, NEW R, IsRing(next, prev, head, R),
           NEW x \in R
    PROVE  /\ next[x] \in R /\ prev[x] \in R
           /\ prev[next[x]] = x /\ next[prev[x]] = x
           /\ x # head => next[x] # x
<1>0. PICK m \in Nat : \E s \in [0..m -> R] : InOrder(next, prev, head, R, m, s)
  BY DEF IsRing
<1>1. PICK s \in [0..m -> R] : InOrder(next, prev, head, R, m, s)
  BY <1>0
<1>2. PICK k \in 0..m : s[k] = x
  BY <1>1 DEF InOrder
<1>3. next[x] = s[Behind(k, m)] /\ prev[s[Behind(k, m)]] = x /\ Behind(k, m) \in 0..m
  BY <1>1, <1>2, BehindDistinct DEF InOrder
<1>4. PICK j \in 0..m : Behind(j, m) = k
  BY DEF Behind
<1>5. next[s[j]] = x /\ prev[x] = s[j]
  BY <1>1, <1>2, <1>4 DEF InOrder
<1>6. x # head => next[x] # x
  <2> SUFFICES ASSUME next[x] = x PROVE x = head
    OBVIOUS
  <2>1. Behind(k, m) = k
    BY <1>1, <1>2, <1>3 DEF InOrder
  <2>2. k = 0
    BY <2>1 DEF Behind
  <2> QED
    BY <1>1, <1>2, <2>2 DEF InOrder
<1> QED
  BY <1>3, <1>5, <1>6

(* Pointers of nodes that are not on the ring are of no matter.             *)
LEMMA RingElsewhere ==
    ASSUME NEW next, NEW prev, NEW head, NEW R, IsRing(next, prev, head, R),
           NEW next2, NEW prev2, \A x \in R : next2[x] = next[x] /\ prev2[x] = prev[x]
    PROVE  IsRing(next2, prev2, head, R)
<1>0. PICK m \in Nat : \E s \in [0..m -> R] : InOrder(next, prev, head, R, m, s)
  BY DEF IsRing
<1>1. PICK s \in [0..m -> R] : InOrder(next, prev, head, R, m, s)
  BY <1>0
<1>2. \A i \in 0..m : s[i] \in R /\ s[Behind(i, m)] \in R
  BY BehindDistinct
<1>3. InOrder(next2, prev2, head, R, m, s)
  BY <1>1, <1>2 DEF InOrder
<1> QED
  BY <1>3 DEF IsRing

(* A node comes in between two neighbours p and q.                          *)
LEMMA InsertInRing ==
    ASSUME NEW S, NEW next, NEW prev, DOMAIN next = S, DOMAIN prev = S,
           NEW head, NEW R \in SUBSET S, IsRing(next, prev, head, R),
           NEW n \in S \ R, NEW p \in R, NEW q, q = next[p]
    PROVE  IsRing([next EXCEPT ![p] = n, ![n] = q], [prev EXCEPT ![q] = n, ![n] = p],
                  head, R \cup {n})
<1> DEFINE next2 == [next EXCEPT ![p] = n, ![n] = q]
           prev2 == [prev EXCEPT ![q] = n, ![n] = p]
<1>0. PICK m \in Nat : \E s \in [0..m -> R] : InOrder(next, prev, head, R, m, s)
  BY DEF IsRing
<1>1. PICK s \in [0..m -> R] : InOrder(next, prev, head, R, m, s)
  BY <1>0
<1>2. PICK k \in 0..m : s[k] = p
  BY <1>1 DEF InOrder
<1>3. q = s[Behind(k, m)] /\ q \in R /\ prev[q] = p
  BY <1>1, <1>2, BehindDistinct DEF InOrder
<1>4. /\ next2[p] = n /\ next2[n] = q /\ prev2[q] = n /\ prev2[n] = p
      /\ \A x \in R \ {p} : next2[x] = next[x]
      /\ \A x \in R \ {q} : prev2[x] = prev[x]
  BY <1>3
<1> HIDE DEF next2, prev2
<1> DEFINE at(i) == IF i <= k THEN s[i] ELSE IF i = k + 1 THEN n ELSE s[i - 1]
           s2 == [i \in 0..(m + 1) |-> at(i)]
<1>5. /\ \A i \in 0..k : s2[i] = s[i]
      /\ s2[k + 1] = n
      /\ \A i \in (k + 1)..m : s2[i + 1] = s[i]
      /\ s2 \in [0..(m + 1) -> R \cup {n}]
  OBVIOUS
<1>6. ASSUME NEW i \in 0..(m + 1)
      PROVE  \/ i \in 0..k
             \/ i = k + 1
             \/ \E j \in (k + 1)..m : i = j + 1
  <2>1. CASE i > k + 1
    <3>1. i - 1 \in (k + 1)..m /\ i = (i - 1) + 1
      BY <2>1
    <3> QED
      BY <3>1
  <2> QED
    BY <2>1
<1> HIDE DEF s2
<1>7. s2[0] = head
  BY <1>1, <1>5 DEF InOrder
<1>8. ASSUME NEW i \in 0..(m + 1), NEW j \in 0..(m + 1), s2[i] = s2[j]
      PROVE  i = j
  <2> DEFINE old(x) == IF x <= k THEN x ELSE x - 1
  <2>1. ASSUME NEW x \in 0..(m + 1), x # k + 1
        PROVE  old(x) \in 0..m /\ s2[x] = s[old(x)] /\ s[old(x)] # n
    BY <1>5, <1>6, <2>1
  <2>2. (i = k + 1) <=> (j = k + 1)
    BY <1>5, <1>8, <2>1
  <2>3. CASE i # k + 1 /\ j # k + 1
    <3>1. s[old(i)] = s[old(j)] /\ old(i) \in 0..m /\ old(j) \in 0..m
      BY <1>8, <2>1, <2>3
    <3>2. old(i) = old(j)
      <4> HIDE DEF old
      <4> QED
        BY <1>1, <3>1 DEF InOrder
    <3> QED
      BY <2>3, <3>2
  <2> QED
    BY <2>2, <2>3
<1>9. ASSUME NEW x \in R \cup {n}
      PROVE  \E i \in 0..(m + 1) : s2[i] = x
  <2>1. CASE x = n
    BY <1>5, <2>1
  <2>2. CASE x \in R
    <3>1. PICK i \in 0..m : s[i] = x
      BY <1>1, <2>2 DEF InOrder
    <3>2. CASE i <= k
      BY <1>5, <3>1, <3>2
    <3>3. CASE i > k
      BY <1>5, <3>1, <3>3
    <3> QED
      BY <3>2, <3>3
  <2> QED
    BY <2>1, <2>2
<1>10. ASSUME NEW i \in 0..(m + 1)
       PROVE  /\ next2[s2[i]] = s2[Behind(i, m + 1)]
              /\ prev2[s2[Behind(i, m + 1)]] = s2[i]
  <2>1. CASE i < k
    <3>1. Behind(i, m + 1) = i + 1 /\ Behind(i, m) = i + 1 /\ s2[i] = s[i] /\ s2[i + 1] = s[i + 1]
      BY <1>5, <2>1 DEF Behind
    <3>2. s[i] # p /\ s[i + 1] # q /\ s[i] \in R /\ s[i + 1] \in R
      BY <1>1, <1>2, <1>3, <2>1, <3>1, BehindDistinct DEF InOrder
    <3> QED
      BY <1>1, <1>4, <2>1, <3>1, <3>2 DEF InOrder
  <2>2. CASE i = k
    BY <1>2, <1>4, <1>5, <2>2 DEF Behind
  <2>3. CASE i = k + 1
    <3>1. s2[Behind(i, m + 1)] = q
      BY <1>1, <1>3, <1>5, <1>7, <2>3 DEF Behind, InOrder
    <3> QED
      BY <1>4, <1>5, <2>3, <3>1
  <2>4. CASE i > k + 1
    <3>1. PICK j \in (k + 1)..m : i = j + 1
      BY <1>6, <2>4
    <3>2. s2[i] = s[j] /\ s2[Behind(i, m + 1)] = s[Behind(j, m)]
      BY <1>1, <1>5, <1>7, <3>1 DEF Behind, InOrder
    <3>3. s[j] # p /\ s[Behind(j, m)] # q /\ s[j] \in R /\ s[Behind(j, m)] \in R
      <4>1. j \in 0..m /\ j # k
        BY <3>1
      <4>2. Behind(j, m) \in 0..m /\ Behind(k, m) \in 0..m /\ Behind(j, m) # Behind(k, m)
        BY <4>1, BehindDistinct
      <4> QED
        BY <1>1, <1>2, <1>3, <4>1, <4>2 DEF InOrder
    <3> QED
      BY <1>1, <1>4, <3>1, <3>2, <3>3 DEF InOrder
  <2> QED
    BY <2>1, <2>2, <2>3, <2>4
<1>11. InOrder(next2, prev2, head, R \cup {n}, m + 1, s2)
  BY <1>5, <1>7, <1>8, <1>9, <1>10 DEF InOrder
<1>12. IsRing(next2, prev2, head, R \cup {n})
  <2>1. s2 \in [0..(m + 1) -> R \cup {n}] /\ m + 1 \in Nat
    BY <1>5
  <2> QED
    BY <1>11, <2>1, Zenon DEF IsRing
<1> QED
  BY <1>12 DEF next2, prev2
(* A node other than the head leaves; what its own pointers then hold is of *)
(* no matter.                                                               *)
LEMMA RemoveFromRing ==
    ASSUME NEW S, NEW next, NEW prev, DOMAIN next = S, DOMAIN prev = S,
           NEW head, NEW R \in SUBSET S, IsRing(next, prev, head, R),
           NEW n \in R \ {head}, NEW poison
    PROVE  IsRing([next EXCEPT ![prev[n]] = next[n], ![n] = poison],
                  [prev EXCEPT ![next[n]] = prev[n], ![n] = poison], head, R \ {n})
<1> DEFINE p == prev[n]
           q == next[n]
           next2 == [next EXCEPT ![p] = q, ![n] = poison]
           prev2 == [prev EXCEPT ![q] = p, ![n] = poison]
<1>0. PICK m \in Nat : \E s \in [0..m -> R] : InOrder(next, prev, head, R, m, s)
  BY DEF IsRing
<1>1. PICK s \in [0..m -> R] : InOrder(next, prev, head, R, m, s)
  BY <1>0
<1>2. PICK k \in 0..m : s[k] = n
  BY <1>1 DEF InOrder
<1>3. k > 0
  BY <1>1, <1>2 DEF InOrder
<1>4. /\ p = s[k - 1] /\ q = s[Behind(k, m)] /\ p \in R \ {n} /\ q \in R \ {n}
  <2>1. Behind(k - 1, m) = k /\ k - 1 \in 0..m /\ Behind(k, m) \in 0..m /\ Behind(k, m) # k
    BY <1>3 DEF Behind
  <2> QED
    BY <1>1, <1>2, <1>3, <2>1 DEF InOrder
<1>5. /\ next2[p] = q /\ prev2[q] = p
      /\ \A x \in R \ {p, n} : next2[x] = next[x]
      /\ \A x \in R \ {q, n} : prev2[x] = prev[x]
  BY <1>4
<1> HIDE DEF next2, prev2, p, q
<1> DEFINE old(i) == IF i < k THEN i ELSE i + 1
           s2 == [i \in 0..(m - 1) |-> s[old(i)]]
<1>6. ASSUME NEW i \in 0..(m - 1)
      PROVE  old(i) \in 0..m /\ s[old(i)] \in R \ {n}
  <2>1. old(i) \in 0..m /\ old(i) # k
    OBVIOUS
  <2> HIDE DEF old
  <2> QED
    BY <1>1, <1>2, <2>1 DEF InOrder
<1>7. m - 1 \in Nat /\ s2 \in [0..(m - 1) -> R \ {n}]
  BY <1>3, <1>6
<1>8. s2[0] = head
  BY <1>1, <1>3 DEF InOrder
<1>9. ASSUME NEW i \in 0..(m - 1), NEW j \in 0..(m - 1), s2[i] = s2[j]
      PROVE  i = j
  <2>1. s[old(i)] = s[old(j)]
    BY <1>9
  <2>2. old(i) = old(j)
    <3> HIDE DEF old, s2
    <3> QED
      BY <1>1, <1>6, <2>1 DEF InOrder
  <2> QED
    BY <2>2
<1>10. ASSUME NEW x \in R \ {n}
       PROVE  \E i \in 0..(m - 1) : s2[i] = x
  <2>1. PICK j \in 0..m : s[j] = x
    BY <1>1 DEF InOrder
  <2>2. j # k
    BY <1>2, <2>1
  <2>3. CASE j < k
    BY <2>1, <2>3
  <2>4. CASE j > k
    <3>1. j - 1 \in 0..(m - 1) /\ old(j - 1) = j
      BY <2>4
    <3>2. s2[j - 1] = s[old(j - 1)]
      BY <3>1
    <3> QED
      BY <2>1, <3>1, <3>2
  <2> QED
    BY <2>2, <2>3, <2>4
<1>11. ASSUME NEW i \in 0..(m - 1)
       PROVE  /\ next2[s2[i]] = s2[Behind(i, m - 1)]
              /\ prev2[s2[Behind(i, m - 1)]] = s2[i]
  <2> DEFINE j == Behind(i, m - 1)
  <2>1. j \in 0..(m - 1) /\ s2[i] = s[old(i)] /\ s2[j] = s[old(j)]
    BY <1>7 DEF Behind
  <2>2. CASE i = k - 1
    <3>1. old(i) = k - 1
      BY <1>3, <2>2
    <3>2. old(j) = Behind(k, m)
      BY <1>3, <2>2 DEF Behind
    <3> QED
      BY <1>4, <1>5, <2>1, <3>1, <3>2
  <2>3. CASE i # k - 1
    <3>1. old(j) = Behind(old(i), m) /\ old(i) # k - 1 /\ old(i) \in 0..m /\ old(j) \in 0..m
      BY <1>3, <2>3 DEF Behind
    <3>2. old(j) # Behind(k, m)
      BY <1>3, <2>3 DEF Behind
    <3> HIDE DEF old, j
    <3>3. s[old(i)] # p /\ s[old(i)] # n /\ s[old(j)] # q /\ s[old(j)] # n
      <4>1. k - 1 \in 0..m /\ Behind(k, m) \in 0..m
        BY <1>3 DEF Behind
      <4> QED
        BY <1>1, <1>4, <1>6, <2>1, <3>1, <3>2, <4>1 DEF InOrder
    <3>4. s[old(i)] \in R /\ s[old(j)] \in R
      BY <3>1
    <3>5. next[s[old(i)]] = s[old(j)] /\ prev[s[old(j)]] = s[old(i)]
      BY <1>1, <3>1 DEF InOrder
    <3>6. next2[s[old(i)]] = next[s[old(i)]] /\ prev2[s[old(j)]] = prev[s[old(j)]]
      BY <1>5, <3>3, <3>4
    <3> QED
      BY <2>1, <3>5, <3>6 DEF j
  <2> QED
    BY <2>2, <2>3
<1>12. InOrder(next2, prev2, head, R \ {n}, m - 1, s2)
  BY <1>7, <1>8, <1>9, <1>10, <1>11 DEF InOrder
<1>13. IsRing(next2, prev2, head, R \ {n})
  BY <1>7, <1>12 DEF IsRing
<1> QED
  BY <1>13 DEF next2, prev2, p, q

(* A ring has at most as many nodes behind its head as there are at all.    *)
LEMMA RingSize ==
    ASSUME NEW next, NEW prev, NEW head, NEW R, NEW m \in Nat, NEW s,
           InOrder(next, prev, head, R, m, s),
           NEW T, IsFiniteSet(T), R \subseteq T \cup {head}
    PROVE  m <= Cardinality(T)
<1> SUFFICES ASSUME Cardinality(T) < m PROVE FALSE
  BY FS_CardinalityType
<1>1. IsFiniteSet(1..m) /\ Cardinality(T) < Cardinality(1..m)
  <2>1. IsFiniteSet(1..m) /\ Cardinality(1..m) = IF 1 > m THEN 0 ELSE m - 1 + 1
    BY FS_Interval
  <2>2. Cardinality(T) \in Nat
    BY FS_CardinalityType
  <2> QED
    BY <2>1, <2>2
<1> DEFINE f == [i \in 1..m |-> s[i]]
<1>2. f \in [1..m -> T]
  BY DEF InOrder
<1>3. PICK i \in 1..m, j \in 1..m : i # j /\ f[i] = f[j]
  <2> HIDE DEF f
  <2> QED
    BY <1>1, <1>2, FS_PigeonHole
<1> QED
  BY <1>3 DEF InOrder

(* A walk of so many steps along next finds the nodes of the ring.          *)
LEMMA WalkAround ==
    ASSUME NEW next, NEW prev, NEW head, NEW R, IsRing(next, prev, head, R),
           NEW T, IsFiniteSet(T), R \subseteq T \cup {head},
           NEW walk, walk[0] = head,
           \A i \in 1..Cardinality(T) : walk[i - 1] \in R => walk[i] = next[walk[i - 1]]
    PROVE  {walk[i] : i \in 0..Cardinality(T)} = R
<1> DEFINE C == Cardinality(T)
<1>0. PICK m \in Nat : \E s \in [0..m -> R] : InOrder(next, prev, head, R, m, s)
  BY DEF IsRing
<1>1. PICK s \in [0..m -> R] : InOrder(next, prev, head, R, m, s)
  BY <1>0
<1>2. m <= C /\ C \in Nat
  BY <1>1, RingSize, FS_CardinalityType
<1> HIDE DEF C
<1>3. \A i \in 0..C : walk[i] \in R
  <2> DEFINE A == {i \in Nat : i <= C => walk[i] \in R}
  <2>1. 0 \in A
    BY <1>1 DEF InOrder
  <2>2. ASSUME NEW i \in Nat, i \in A
        PROVE  i + 1 \in A
    <3> SUFFICES ASSUME i + 1 <= C PROVE walk[i + 1] \in R
      OBVIOUS
    <3>1. walk[i] \in R /\ i + 1 \in 1..C /\ (i + 1) - 1 = i
      BY <1>2, <2>2
    <3>2. walk[i + 1] = next[walk[i]]
      BY <3>1 DEF C
    <3> QED
      BY <3>1, <3>2, RingNeighbours
  <2>3. Nat \subseteq A
    <3> HIDE DEF A
    <3> QED
      BY <2>1, <2>2, Induction
  <2> QED
    BY <1>2, <2>3
<1>4. \A i \in 0..m : walk[i] = s[i]
  <2> DEFINE A == {i \in Nat : i <= m => walk[i] = s[i]}
  <2>1. 0 \in A
    BY <1>1 DEF InOrder
  <2>2. ASSUME NEW i \in Nat, i \in A
        PROVE  i + 1 \in A
    <3> SUFFICES ASSUME i + 1 <= m PROVE walk[i + 1] = s[i + 1]
      OBVIOUS
    <3>1. walk[i] = s[i] /\ i \in 0..m /\ i + 1 \in 1..C /\ (i + 1) - 1 = i
      BY <1>2, <2>2
    <3>2. walk[i + 1] = next[walk[i]]
      BY <1>1, <3>1 DEF C, InOrder
    <3>3. next[s[i]] = s[i + 1]
      BY <1>1, <3>1 DEF InOrder, Behind
    <3> QED
      BY <3>1, <3>2, <3>3
  <2>3. Nat \subseteq A
    <3> HIDE DEF A
    <3> QED
      BY <2>1, <2>2, Induction
  <2> QED
    BY <2>3
<1>5. ASSUME NEW x \in R
      PROVE  \E i \in 0..C : walk[i] = x
  <2>1. PICK i \in 0..m : s[i] = x
    BY <1>1 DEF InOrder
  <2>2. i \in 0..C
    BY <1>2
  <2> QED
    BY <1>4, <2>1, <2>2
<1>6. {walk[i] : i \in 0..C} = R
  BY <1>3, <1>5
<1> QED
  BY <1>6 DEF C


----------------------------------------------------------------------------
(* Chains: next leads from first through the nodes D to null.               *)

(* s lists the nodes in the order of next, and null behind them.            *)
InLine(next, null, first, D, m, s) ==
    /\ s \in [0..m -> D \cup {null}] /\ s[0] = first /\ s[m] = null
    /\ \A i \in 0..(m - 1) : s[i] \in D /\ next[s[i]] = s[i + 1]
    /\ \A i, j \in 0..(m - 1) : s[i] = s[j] => i = j
    /\ \A x \in D : \E i \in 0..(m - 1) : s[i] = x

IsChain(next, null, first, D) ==
    /\ null \notin D
    /\ \E m \in Nat : \E s \in [0..m -> D \cup {null}] : InLine(next, null, first, D, m, s)

LEMMA ChainNodes ==
    ASSUME NEW next, NEW null, NEW first, NEW D, IsChain(next, null, first, D)
    PROVE  /\ null \notin D
           /\ first \in D \cup {null}
           /\ first = null <=> D = {}
           /\ \A x \in D : next[x] \in D \cup {null}
<1>1. PICK m \in Nat : \E s \in [0..m -> D \cup {null}] : InLine(next, null, first, D, m, s)
  BY DEF IsChain
<1>2. PICK s \in [0..m -> D \cup {null}] : InLine(next, null, first, D, m, s)
  BY <1>1
<1>3. null \notin D /\ first \in D \cup {null}
  BY <1>2 DEF IsChain, InLine
<1>4. ASSUME first = null PROVE D = {}
  <2>1. m = 0
    BY <1>2, <1>3, <1>4 DEF InLine
  <2> QED
    BY <1>2, <2>1 DEF InLine
<1>5. ASSUME D = {} PROVE first = null
  BY <1>3, <1>5
<1>6. ASSUME NEW x \in D PROVE next[x] \in D \cup {null}
  <2>1. PICK i \in 0..(m - 1) : s[i] = x
    BY <1>2 DEF InLine
  <2>2. next[x] = s[i + 1] /\ i + 1 \in 0..m
    BY <1>2, <2>1 DEF InLine
  <2> QED
    BY <2>2
<1> QED
  BY <1>3, <1>4, <1>5, <1>6

LEMMA EmptyChain ==
    ASSUME NEW next, NEW null
    PROVE  IsChain(next, null, null, {})
<1> DEFINE s == [i \in 0..0 |-> null]
<1>1. s \in [0..0 -> {} \cup {null}] /\ InLine(next, null, null, {}, 0, s)
  BY DEF InLine
<1> HIDE DEF s
<1> QED
  BY <1>1 DEF IsChain

(* Pointers of nodes that are not on the chain are of no matter.            *)
LEMMA LineElsewhere ==
    ASSUME NEW next, NEW null, NEW first, NEW D, NEW m \in Nat, NEW s,
           InLine(next, null, first, D, m, s),
           NEW next2, \A x \in D : next2[x] = next[x]
    PROVE  InLine(next2, null, first, D, m, s)
BY DEF InLine

LEMMA ChainElsewhere ==
    ASSUME NEW next, NEW null, NEW first, NEW D, IsChain(next, null, first, D),
           NEW next2, \A x \in D : next2[x] = next[x]
    PROVE  IsChain(next2, null, first, D)
BY LineElsewhere DEF IsChain

(* A node comes before the first one.                                       *)
Before(n, m, s) == [i \in 0..(m + 1) |-> IF i = 0 THEN n ELSE s[i - 1]]

LEMMA PushOnLine ==
    ASSUME NEW next, NEW null, NEW first, NEW D, null \notin D, NEW m \in Nat, NEW s,
           InLine(next, null, first, D, m, s),
           NEW n, n \notin D, NEW next2, next2[n] = first, \A x \in D : next2[x] = next[x]
    PROVE  InLine(next2, null, n, D \cup {n}, m + 1, Before(n, m, s))
<1> DEFINE s2 == [i \in 0..(m + 1) |-> IF i = 0 THEN n ELSE s[i - 1]]
<1>1. s2[0] = n /\ s2 \in [0..(m + 1) -> (D \cup {n}) \cup {null}] /\ s2[m + 1] = null
  BY DEF InLine
<1>2. ASSUME NEW i \in 0..m
      PROVE  s2[i] \in D \cup {n} /\ next2[s2[i]] = s2[i + 1]
  <2>1. CASE i = 0
    BY <2>1 DEF InLine
  <2>2. CASE i # 0
    <3>1. i - 1 \in 0..(m - 1) /\ s2[i] = s[i - 1] /\ s2[i + 1] = s[i]
      BY <2>2
    <3>2. s[i - 1] \in D /\ next[s[i - 1]] = s[(i - 1) + 1] /\ (i - 1) + 1 = i
      BY <3>1 DEF InLine
    <3> QED
      BY <3>1, <3>2
  <2> QED
    BY <2>1, <2>2
<1>3. ASSUME NEW i \in 0..m, NEW j \in 0..m, s2[i] = s2[j]
      PROVE  i = j
  <2>1. ASSUME NEW k \in 0..m, k # 0
        PROVE  s2[k] # n /\ k - 1 \in 0..(m - 1) /\ s2[k] = s[k - 1]
    BY <2>1 DEF InLine
  <2>2. CASE i # 0 /\ j # 0
    BY <1>3, <2>1, <2>2 DEF InLine
  <2>3. s2[0] = n
    OBVIOUS
  <2> QED
    BY <1>3, <2>1, <2>2, <2>3
<1>4. ASSUME NEW x \in D \cup {n}
      PROVE  \E i \in 0..m : s2[i] = x
  <2>1. CASE x = n
    BY <1>1, <2>1
  <2>2. CASE x \in D
    <3>1. PICK i \in 0..(m - 1) : s[i] = x
      BY <2>2 DEF InLine
    <3>2. i + 1 \in 0..m /\ s2[i + 1] = s[i]
      BY <3>1
    <3> QED
      BY <3>1, <3>2
  <2> QED
    BY <2>1, <2>2
<1>5. (m + 1) - 1 = m
  OBVIOUS
<1> HIDE DEF s2
<1>6. InLine(next2, null, n, D \cup {n}, m + 1, s2)
  BY <1>1, <1>2, <1>3, <1>4, <1>5 DEF InLine
<1> QED
  BY <1>6 DEF s2, Before

LEMMA PushOnChain ==
    ASSUME NEW next, NEW null, NEW first, NEW D, IsChain(next, null, first, D),
           NEW n, n \notin D, n # null,
           NEW next2, next2[n] = first, \A x \in D : next2[x] = next[x]
    PROVE  IsChain(next2, null, n, D \cup {n})
<1>1. PICK m \in Nat : \E s \in [0..m -> D \cup {null}] : InLine(next, null, first, D, m, s)
  BY DEF IsChain
<1>2. PICK s \in [0..m -> D \cup {null}] : InLine(next, null, first, D, m, s)
  BY <1>1
<1>3. InLine(next2, null, n, D \cup {n}, m + 1, Before(n, m, s))
  BY <1>2, PushOnLine DEF IsChain
<1>4. Before(n, m, s) \in [0..(m + 1) -> (D \cup {n}) \cup {null}] /\ m + 1 \in Nat
  BY <1>3 DEF InLine
<1> QED
  BY <1>3, <1>4 DEF IsChain

(* The first node leaves.                                                   *)
WithoutFirst(m, s) == [i \in 0..(m - 1) |-> s[i + 1]]

LEMMA PopOffLine ==
    ASSUME NEW next, NEW null, NEW first, NEW D, null \notin D, NEW m \in Nat, NEW s,
           InLine(next, null, first, D, m, s), first # null
    PROVE  /\ m > 0
           /\ InLine(next, null, next[first], D \ {first}, m - 1, WithoutFirst(m, s))
<1> DEFINE s2 == [i \in 0..(m - 1) |-> s[i + 1]]
<1>1. m > 0
  BY DEF InLine
<1>2. first = s[0] /\ 0 \in 0..(m - 1) /\ next[first] = s[1] /\ s2[0] = s[1]
  BY <1>1 DEF InLine
<1>3. s2[m - 1] = null
  BY <1>1 DEF InLine
<1>4. ASSUME NEW i \in 0..(m - 2)
      PROVE  s2[i] \in D \ {first} /\ next[s2[i]] = s2[i + 1]
  <2>1. i + 1 \in 0..(m - 1) /\ s2[i] = s[i + 1] /\ s2[i + 1] = s[(i + 1) + 1]
    BY <1>1
  <2>2. s[i + 1] \in D /\ next[s[i + 1]] = s[(i + 1) + 1] /\ s[i + 1] # s[0]
    BY <1>2, <2>1 DEF InLine
  <2> QED
    BY <1>2, <2>1, <2>2
<1>5. ASSUME NEW i \in 0..(m - 2), NEW j \in 0..(m - 2), s2[i] = s2[j]
      PROVE  i = j
  <2>1. i + 1 \in 0..(m - 1) /\ j + 1 \in 0..(m - 1) /\ s[i + 1] = s[j + 1]
    BY <1>5
  <2>2. i + 1 = j + 1
    BY <2>1 DEF InLine
  <2> QED
    BY <2>2
<1>6. ASSUME NEW x \in D \ {first}
      PROVE  \E i \in 0..(m - 2) : s2[i] = x
  <2>1. PICK i \in 0..(m - 1) : s[i] = x
    BY DEF InLine
  <2>2. i # 0
    BY <1>2, <2>1
  <2>3. i - 1 \in 0..(m - 2) /\ s2[i - 1] = s[i]
    BY <2>2
  <2> QED
    BY <2>1, <2>3
<1>7. s2 \in [0..(m - 1) -> (D \ {first}) \cup {null}]
  <2>1. ASSUME NEW i \in 0..(m - 1) PROVE s2[i] \in (D \ {first}) \cup {null}
    <3>1. CASE i = m - 1
      BY <1>3, <3>1
    <3>2. CASE i # m - 1
      <4>1. i \in 0..(m - 2)
        BY <3>2
      <4> QED
        BY <1>4, <4>1
    <3> QED
      BY <3>1, <3>2
  <2>2. s2 = [i \in 0..(m - 1) |-> s2[i]]
    OBVIOUS
  <2> HIDE DEF s2
  <2> QED
    BY <2>1, <2>2
<1>8. (m - 1) - 1 = m - 2
  OBVIOUS
<1> HIDE DEF s2
<1>9. InLine(next, null, next[first], D \ {first}, m - 1, s2)
  BY <1>2, <1>3, <1>4, <1>5, <1>6, <1>7, <1>8 DEF InLine
<1> QED
  BY <1>1, <1>9 DEF s2, WithoutFirst

LEMMA PopOffChain ==
    ASSUME NEW next, NEW null, NEW first, NEW D, IsChain(next, null, first, D), first # null
    PROVE  first \in D /\ IsChain(next, null, next[first], D \ {first})
<1>1. PICK m \in Nat : \E s \in [0..m -> D \cup {null}] : InLine(next, null, first, D, m, s)
  BY DEF IsChain
<1>2. PICK s \in [0..m -> D \cup {null}] : InLine(next, null, first, D, m, s)
  BY <1>1
<1>3. m > 0 /\ \E s2 : InLine(next, null, next[first], D \ {first}, m - 1, s2)
  BY <1>2, PopOffLine DEF IsChain
<1>4. PICK s2 : InLine(next, null, next[first], D \ {first}, m - 1, s2)
  BY <1>3
<1>5. s2 \in [0..(m - 1) -> (D \ {first}) \cup {null}] /\ m - 1 \in Nat
  BY <1>3, <1>4 DEF InLine
<1>6. first \in D /\ null \notin D \ {first}
  BY ChainNodes DEF IsChain
<1> QED
  BY <1>4, <1>5, <1>6 DEF IsChain

(* A chain has as many nodes as its line is long, and no more than there    *)
(* are at all.                                                              *)
LEMMA ChainSize ==
    ASSUME NEW next, NEW null, NEW first, NEW D, NEW m \in Nat, NEW s,
           InLine(next, null, first, D, m, s),
           NEW T, IsFiniteSet(T), D \subseteq T
    PROVE  m = Cardinality(D) /\ m <= Cardinality(T)
<1> DEFINE f == [i \in 1..m |-> s[i - 1]]
<1>1. \A i \in 1..m : i - 1 \in 0..(m - 1) /\ f[i] = s[i - 1] /\ f[i] \in D
  BY DEF InLine
<1>2. f \in [1..m -> D]
  BY <1>1
<1>3. \A i, j \in 1..m : f[i] = f[j] => i = j
  BY <1>1 DEF InLine
<1>4. \A x \in D : \E i \in 1..m : f[i] = x
  <2> SUFFICES ASSUME NEW x \in D PROVE \E i \in 1..m : f[i] = x
    OBVIOUS
  <2>1. PICK i \in 0..(m - 1) : s[i] = x
    BY DEF InLine
  <2>2. i + 1 \in 1..m /\ f[i + 1] = s[i]
    BY <2>1
  <2> QED
    BY <2>1, <2>2
<1> HIDE DEF f
<1>5. IsFiniteSet(1..m) /\ Cardinality(1..m) = m
  BY FS_Interval
<1>6. f \in Bijection(1..m, D)
  BY <1>2, <1>3, <1>4 DEF Bijection, Injection, Surjection, IsInjective
<1>7. Cardinality(D) = m
  BY <1>5, <1>6, FS_Bijection DEF ExistsBijection
<1>8. Cardinality(D) <= Cardinality(T)
  BY FS_Subset
<1> QED
  BY <1>7, <1>8

(* C steps along next, that stay at null once they are there.               *)
Walks(walk, next, null, first, C) ==
    /\ walk[0] = first
    /\ \A i \in 1..C : walk[i] = IF walk[i - 1] = null THEN null ELSE next[walk[i - 1]]

(* They find the line, and null from its end on.                            *)
LEMMA WalkLine ==
    ASSUME NEW next, NEW null, NEW first, NEW D, NEW m \in Nat, NEW s, null \notin D,
           InLine(next, null, first, D, m, s),
           NEW C \in Nat, m <= C, NEW walk, Walks(walk, next, null, first, C)
    PROVE  \A i \in 0..C : walk[i] = IF i <= m THEN s[i] ELSE null
<1> DEFINE A == {i \in Nat : i <= C => walk[i] = IF i <= m THEN s[i] ELSE null}
<1>1. 0 \in A
  BY DEF InLine, Walks
<1>2. ASSUME NEW i \in Nat, i \in A
      PROVE  i + 1 \in A
  <2> SUFFICES ASSUME i + 1 <= C PROVE walk[i + 1] = IF i + 1 <= m THEN s[i + 1] ELSE null
    OBVIOUS
  <2>1. i + 1 \in 1..C /\ (i + 1) - 1 = i /\ walk[i] = IF i <= m THEN s[i] ELSE null
    BY <1>2
  <2>2. walk[i + 1] = IF walk[i] = null THEN null ELSE next[walk[i]]
    BY <2>1 DEF Walks
  <2>3. CASE i < m
    <3>1. s[i] \in D /\ next[s[i]] = s[i + 1]
      BY <2>3 DEF InLine
    <3> QED
      BY <2>1, <2>2, <2>3, <3>1
  <2>4. CASE i >= m
    <3>1. walk[i] = null
      BY <2>1, <2>4 DEF InLine
    <3> QED
      BY <2>2, <2>4, <3>1
  <2> QED
    BY <2>3, <2>4
<1>3. Nat \subseteq A
  <2> HIDE DEF A
  <2> QED
    BY <1>1, <1>2, Induction
<1> QED
  BY <1>3

(* So it finds the nodes of the chain.                                      *)
LEMMA WalkAlong ==
    ASSUME NEW next, NEW null, NEW first, NEW D, IsChain(next, null, first, D),
           NEW T, IsFiniteSet(T), D \subseteq T,
           NEW walk, Walks(walk, next, null, first, Cardinality(T))
    PROVE  {walk[i] : i \in 0..Cardinality(T)} \ {null} = D
<1>1. PICK m \in Nat : \E s \in [0..m -> D \cup {null}] : InLine(next, null, first, D, m, s)
  BY DEF IsChain
<1>2. PICK s \in [0..m -> D \cup {null}] : InLine(next, null, first, D, m, s)
  BY <1>1
<1> DEFINE C == Cardinality(T)
<1>3. m <= C /\ C \in Nat /\ null \notin D /\ Walks(walk, next, null, first, C)
  BY <1>2, ChainSize, FS_CardinalityType DEF IsChain
<1> HIDE DEF C
<1>4. \A i \in 0..C : walk[i] = IF i <= m THEN s[i] ELSE null
  BY <1>2, <1>3, WalkLine
<1>5. ASSUME NEW i \in 0..C, walk[i] # null PROVE walk[i] \in D
  BY <1>4, <1>5
<1>6. ASSUME NEW x \in D PROVE \E i \in 0..C : walk[i] = x /\ x # null
  <2>1. PICK i \in 0..(m - 1) : s[i] = x
    BY <1>2 DEF InLine
  <2>2. i \in 0..C /\ i <= m
    BY <1>3
  <2> QED
    BY <1>3, <1>4, <2>1, <2>2
<1>7. {walk[i] : i \in 0..C} \ {null} = D
  BY <1>5, <1>6
<1> QED
  BY <1>7 DEF C

----------------------------------------------------------------------------
(* Turns around a ring.  One has passed the nodes A, the head among them,   *)
(* and comes to q next, which is the head again when it has passed all.     *)
HasPassed(next, prev, head, R, A, q) ==
    /\ A \subseteq R /\ head \in A /\ q \in R /\ prev[q] \in A
    /\ \A x \in A : next[x] \in A \cup {q}
    /\ \A x \in A \ {head} : prev[x] \in A
    /\ q \in A => q = head

LEMMA RingHead ==
    ASSUME NEW next, NEW prev, NEW head, NEW R, IsRing(next, prev, head, R)
    PROVE  head \in R
<1>1. PICK m \in Nat : \E s \in [0..m -> R] : InOrder(next, prev, head, R, m, s)
  BY DEF IsRing
<1>2. PICK s \in [0..m -> R] : InOrder(next, prev, head, R, m, s)
  BY <1>1
<1> QED
  BY <1>2 DEF InOrder

LEMMA TurnStarts ==
    ASSUME NEW next, NEW prev, NEW head, NEW R, IsRing(next, prev, head, R)
    PROVE  HasPassed(next, prev, head, R, {head}, next[head])
<1>1. head \in R /\ next[head] \in R /\ prev[next[head]] = head
  BY RingHead, RingNeighbours
<1> QED
  BY <1>1 DEF HasPassed

LEMMA TurnGoesOn ==
    ASSUME NEW next, NEW prev, NEW head, NEW R, IsRing(next, prev, head, R),
           NEW A, NEW q, HasPassed(next, prev, head, R, A, q), q # head
    PROVE  HasPassed(next, prev, head, R, A \cup {q}, next[q])
<1>1. q \in R /\ q \notin A /\ next[q] \in R /\ prev[next[q]] = q /\ next[q] # q
  BY RingNeighbours DEF HasPassed
<1>2. next[q] \in A => next[q] = head
  BY <1>1 DEF HasPassed
<1> QED
  BY <1>1, <1>2 DEF HasPassed

(* When it is back at the head, it has passed every node.                   *)
LEMMA TurnEnds ==
    ASSUME NEW next, NEW prev, NEW head, NEW R, IsRing(next, prev, head, R),
           NEW A, HasPassed(next, prev, head, R, A, head)
    PROVE  A = R
<1>1. PICK m \in Nat : \E s \in [0..m -> R] : InOrder(next, prev, head, R, m, s)
  BY DEF IsRing
<1>2. PICK s \in [0..m -> R] : InOrder(next, prev, head, R, m, s)
  BY <1>1
<1> DEFINE T == {i \in Nat : i <= m => s[i] \in A}
<1>3. 0 \in T
  BY <1>2 DEF InOrder, HasPassed
<1>4. ASSUME NEW i \in Nat, i \in T PROVE i + 1 \in T
  <2> SUFFICES ASSUME i + 1 <= m PROVE s[i + 1] \in A
    OBVIOUS
  <2>1. i \in 0..m /\ s[i] \in A /\ Behind(i, m) = i + 1
    BY <1>4 DEF Behind
  <2>2. next[s[i]] = s[i + 1]
    BY <1>2, <2>1 DEF InOrder
  <2> QED
    BY <2>1, <2>2 DEF HasPassed
<1>5. \A i \in Nat : i \in T
  <2> HIDE DEF T
  <2> QED
    BY <1>3, <1>4, Induction
<1>6. \A i \in 0..m : s[i] \in A
  BY <1>5
<1>7. \A x \in R : x \in A
  BY <1>2, <1>6 DEF InOrder
<1> QED
  BY <1>7 DEF HasPassed

(* There is a turn that has come as far as any node.                        *)
LEMMA TurnAt ==
    ASSUME NEW next, NEW prev, NEW head, NEW R, IsRing(next, prev, head, R), NEW x \in R
    PROVE  \E A : x \in A /\ HasPassed(next, prev, head, R, A, next[x])
<1>1. PICK m \in Nat : \E s \in [0..m -> R] : InOrder(next, prev, head, R, m, s)
  BY DEF IsRing
<1>2. PICK s \in [0..m -> R] : InOrder(next, prev, head, R, m, s)
  BY <1>1
<1> DEFINE T == {i \in Nat : i <= m => \E A : s[i] \in A /\ HasPassed(next, prev, head, R, A, next[s[i]])}
<1>3. 0 \in T
  <2>1. s[0] = head /\ head \in {head}
    BY <1>2 DEF InOrder
  <2> QED
    BY <2>1, TurnStarts
<1>4. ASSUME NEW i \in Nat, i \in T PROVE i + 1 \in T
  <2> SUFFICES ASSUME i + 1 <= m
               PROVE  \E A : s[i + 1] \in A /\ HasPassed(next, prev, head, R, A, next[s[i + 1]])
    OBVIOUS
  <2>1. i \in 0..m /\ i + 1 \in 0..m /\ Behind(i, m) = i + 1 /\ 0 \in 0..m
    BY DEF Behind
  <2>2. next[s[i]] = s[i + 1] /\ s[i + 1] # head
    BY <1>2, <2>1 DEF InOrder
  <2>3. PICK A : s[i] \in A /\ HasPassed(next, prev, head, R, A, s[i + 1])
    BY <1>4, <2>1, <2>2
  <2>4. HasPassed(next, prev, head, R, A \cup {s[i + 1]}, next[s[i + 1]])
    BY <2>2, <2>3, TurnGoesOn
  <2> QED
    BY <2>4
<1>5. \A i \in Nat : i \in T
  <2> HIDE DEF T
  <2> QED
    BY <1>3, <1>4, Induction
<1>6. PICK i \in 0..m : s[i] = x
  BY <1>2 DEF InOrder
<1>7. i \in T /\ i <= m
  BY <1>5
<1> QED
  BY <1>6, <1>7

LEMMA TurnElsewhere ==
    ASSUME NEW next, NEW prev, NEW head, NEW R, NEW A, NEW q,
           HasPassed(next, prev, head, R, A, q),
           NEW next2, NEW prev2, \A x \in R : next2[x] = next[x] /\ prev2[x] = prev[x]
    PROVE  HasPassed(next2, prev2, head, R, A, q)
BY DEF HasPassed

(* A node comes in behind p: among the passed ones if p's next was, ahead   *)
(* if p was the last one passed.                                            *)
LEMMA TurnInsert ==
    ASSUME NEW S, NEW next, NEW prev, DOMAIN next = S, DOMAIN prev = S,
           NEW head, NEW R \in SUBSET S, IsRing(next, prev, head, R),
           NEW A, NEW q, HasPassed(next, prev, head, R, A, q),
           NEW n \in S \ R, NEW p \in R
    PROVE  \/ HasPassed([next EXCEPT ![p] = n, ![n] = next[p]],
                        [prev EXCEPT ![next[p]] = n, ![n] = p], head, R \cup {n}, A,
                        IF p = prev[q] THEN n ELSE q)
           \/ HasPassed([next EXCEPT ![p] = n, ![n] = next[p]],
                        [prev EXCEPT ![next[p]] = n, ![n] = p], head, R \cup {n},
                        A \cup {n}, IF p = prev[q] THEN n ELSE q)
<1>a. PICK next2 : next2 = [next EXCEPT ![p] = n, ![n] = next[p]]
  OBVIOUS
<1>b. PICK prev2 : prev2 = [prev EXCEPT ![next[p]] = n, ![n] = p]
  OBVIOUS
<1> SUFFICES \E B \in {A, A \cup {n}} :
                HasPassed(next2, prev2, head, R \cup {n}, B, IF p = prev[q] THEN n ELSE q)
  BY <1>a, <1>b
<1>1. /\ next[p] \in R /\ prev[next[p]] = p
      /\ next2[p] = n /\ next2[n] = next[p] /\ prev2[next[p]] = n /\ prev2[n] = p
      /\ \A x \in R \ {p} : next2[x] = next[x]
      /\ \A x \in R \ {next[p]} : prev2[x] = prev[x]
  BY <1>a, <1>b, RingNeighbours
<1>2. q \in R /\ prev[q] \in A /\ A \subseteq R /\ n \notin R /\ next[prev[q]] = q
  BY RingNeighbours DEF HasPassed
<1>3. CASE p = prev[q]
  <2>1. next[p] = q
    BY <1>2, <1>3
  <2>2. \A x \in A : next2[x] \in A \cup {n}
    <3>1. \A x \in A \ {p} : next[x] # q
      BY <1>2, <1>3, RingNeighbours
    <3> QED
      BY <1>1, <1>2, <3>1 DEF HasPassed
  <2>3. \A x \in A \ {head} : prev2[x] \in A
    <3>1. \A x \in A \ {head} : x # q
      BY DEF HasPassed
    <3> QED
      BY <1>1, <1>2, <2>1, <3>1 DEF HasPassed
  <2>4. HasPassed(next2, prev2, head, R \cup {n}, A, n)
    BY <1>1, <1>2, <1>3, <2>2, <2>3 DEF HasPassed
  <2> QED
    BY <1>3, <2>4
<1>4. CASE p # prev[q]
  <2>1. next[p] # q
    BY <1>1, <1>2, <1>4
  <2>2. CASE p \in A
    <3>1. next[p] \in A
      BY <2>1, <2>2 DEF HasPassed
    <3>2. HasPassed(next2, prev2, head, R \cup {n}, A \cup {n}, q)
      BY <1>1, <1>2, <2>1, <2>2, <3>1 DEF HasPassed
    <3> QED
      BY <1>4, <3>2
  <2>3. CASE p \notin A
    <3>1. \A x \in A \ {head} : x # next[p]
      BY <1>1, <2>3 DEF HasPassed
    <3>2. HasPassed(next2, prev2, head, R \cup {n}, A, q)
      BY <1>1, <1>2, <2>1, <2>3, <3>1 DEF HasPassed
    <3> QED
      BY <1>4, <3>2
  <2> QED
    BY <2>2, <2>3
<1> QED
  BY <1>3, <1>4

(* A node other than the head leaves; if the turn came to it next, it comes *)
(* to the one behind it.                                                    *)
LEMMA TurnRemove ==
    ASSUME NEW S, NEW next, NEW prev, DOMAIN next = S, DOMAIN prev = S,
           NEW head, NEW R \in SUBSET S, IsRing(next, prev, head, R),
           NEW A, NEW q, HasPassed(next, prev, head, R, A, q),
           NEW n \in R \ {head}, NEW poison
    PROVE  HasPassed([next EXCEPT ![prev[n]] = next[n], ![n] = poison],
                     [prev EXCEPT ![next[n]] = prev[n], ![n] = poison], head, R \ {n}, A \ {n},
                     IF q = n THEN next[n] ELSE q)
<1>a. PICK next2 : next2 = [next EXCEPT ![prev[n]] = next[n], ![n] = poison]
  OBVIOUS
<1>b. PICK prev2 : prev2 = [prev EXCEPT ![next[n]] = prev[n], ![n] = poison]
  OBVIOUS
<1> SUFFICES HasPassed(next2, prev2, head, R \ {n}, A \ {n}, IF q = n THEN next[n] ELSE q)
  BY <1>a, <1>b
<1>1. /\ next[n] \in R /\ prev[n] \in R /\ next[n] # n /\ prev[n] # n
      /\ prev[next[n]] = n /\ next[prev[n]] = n
  BY RingNeighbours
<1>2. /\ next2[prev[n]] = next[n] /\ prev2[next[n]] = prev[n]
      /\ \A x \in R \ {n, prev[n]} : next2[x] = next[x] /\ next[x] # n
      /\ \A x \in R \ {n, next[n]} : prev2[x] = prev[x] /\ prev[x] # n
  <2>1. \A x \in R : (next[x] = n => x = prev[n]) /\ (prev[x] = n => x = next[n])
    BY <1>1, RingNeighbours
  <2> QED
    BY <1>1, <1>a, <1>b, <2>1
<1>3. q \in R /\ prev[q] \in A /\ A \subseteq R /\ head \in A \ {n}
  BY DEF HasPassed
<1>4. CASE q = n
  <2>1. n \notin A /\ prev[n] \in A
    BY <1>4 DEF HasPassed
  <2>2. next[n] \in A => next[n] = head
    BY <1>1, <2>1 DEF HasPassed
  <2>3. \A x \in A : next2[x] \in A \cup {next[n]}
    BY <1>1, <1>2, <1>3, <1>4, <2>1 DEF HasPassed
  <2>4. \A x \in A \ {head} : prev2[x] \in A
    BY <1>1, <1>2, <1>3, <2>1 DEF HasPassed
  <2> QED
    BY <1>1, <1>2, <1>3, <1>4, <2>1, <2>2, <2>3, <2>4 DEF HasPassed
<1>5. CASE q # n
  <2>1. n \in A => prev[n] \in A \ {n} /\ next[n] \in (A \cup {q}) \ {n}
    BY <1>1, <1>3 DEF HasPassed
  <2>2. \A x \in A \ {n} : next2[x] \in (A \ {n}) \cup {q}
    <3>1. prev[n] \in A => next2[prev[n]] \in (A \ {n}) \cup {q}
      BY <1>1, <1>2, <1>5, <2>1 DEF HasPassed
    <3> QED
      BY <1>2, <1>3, <1>5, <3>1 DEF HasPassed
  <2>3. \A x \in (A \ {n}) \ {head} : prev2[x] \in A \ {n}
    <3>1. next[n] \in A \ {head} => prev2[next[n]] \in A \ {n}
      BY <1>1, <1>2, <2>1 DEF HasPassed
    <3> QED
      BY <1>2, <1>3, <3>1 DEF HasPassed
  <2>4. prev2[q] \in A \ {n}
    BY <1>1, <1>2, <1>3, <1>5, <2>1
  <2> QED
    BY <1>3, <1>5, <2>2, <2>3, <2>4 DEF HasPassed
<1> QED
  BY <1>4, <1>5

----------------------------------------------------------------------------
(* Rings seen otherwise: from another head, backwards, as a line.           *)

(* The node behind the head becomes the head.                               *)
LEMMA RingFromNext ==
    ASSUME NEW next, NEW prev, NEW head, NEW R, IsRing(next, prev, head, R)
    PROVE  IsRing(next, prev, next[head], R)
<1>1. PICK m \in Nat : \E s \in [0..m -> R] : InOrder(next, prev, head, R, m, s)
  BY DEF IsRing
<1>2. PICK s \in [0..m -> R] : InOrder(next, prev, head, R, m, s)
  BY <1>1
<1>3. PICK z : z = [i \in 0..m |-> s[Behind(i, m)]]
  OBVIOUS
<1>4. z \in [0..m -> R] /\ z[0] = next[head]
  <2>1. \A i \in 0..m : Behind(i, m) \in 0..m
    BY BehindDistinct
  <2> QED
    BY <1>2, <1>3, <2>1 DEF InOrder
<1>5. \A i, j \in 0..m : z[i] = z[j] => i = j
  <2> SUFFICES ASSUME NEW i \in 0..m, NEW j \in 0..m, z[i] = z[j] PROVE i = j
    OBVIOUS
  <2>1. Behind(i, m) \in 0..m /\ Behind(j, m) \in 0..m /\ s[Behind(i, m)] = s[Behind(j, m)]
    BY <1>3, BehindDistinct
  <2>2. Behind(i, m) = Behind(j, m)
    BY <1>2, <2>1 DEF InOrder
  <2> QED
    BY <2>2, BehindDistinct
<1>6. \A x \in R : \E i \in 0..m : z[i] = x
  <2> SUFFICES ASSUME NEW x \in R PROVE \E i \in 0..m : z[i] = x
    OBVIOUS
  <2>1. PICK k \in 0..m : s[k] = x
    BY <1>2 DEF InOrder
  <2>2. PICK i \in 0..m : Behind(i, m) = k
    BY DEF Behind
  <2> QED
    BY <1>3, <2>1, <2>2
<1>7. \A i \in 0..m : next[z[i]] = z[Behind(i, m)] /\ prev[z[Behind(i, m)]] = z[i]
  <2> SUFFICES ASSUME NEW i \in 0..m
               PROVE  next[z[i]] = z[Behind(i, m)] /\ prev[z[Behind(i, m)]] = z[i]
    OBVIOUS
  <2>1. PICK k \in 0..m : k = Behind(i, m)
    BY BehindDistinct
  <2>2. z[i] = s[k] /\ z[k] = s[Behind(k, m)]
    BY <1>3, <2>1
  <2> QED
    BY <1>2, <2>1, <2>2 DEF InOrder
<1>8. InOrder(next, prev, next[head], R, m, z)
  BY <1>4, <1>5, <1>6, <1>7 DEF InOrder
<1> QED
  BY <1>4, <1>8 DEF IsRing

(* Backwards a ring is a ring, in the opposite order.                       *)
LEMMA RingBackwards ==
    ASSUME NEW next, NEW prev, NEW head, NEW R, NEW m \in Nat, NEW s,
           InOrder(next, prev, head, R, m, s),
           NEW z, z = [i \in 0..m |-> IF i = 0 THEN s[0] ELSE s[m + 1 - i]]
    PROVE  InOrder(prev, next, head, R, m, z)
<1>1. /\ \A i \in 0..m : (IF i = 0 THEN 0 ELSE m + 1 - i) \in 0..m
      /\ \A i \in 0..m : z[i] = s[IF i = 0 THEN 0 ELSE m + 1 - i]
  OBVIOUS
<1>2. z \in [0..m -> R] /\ z[0] = head
  BY <1>1 DEF InOrder
<1>3. \A i, j \in 0..m : z[i] = z[j] => i = j
  <2> SUFFICES ASSUME NEW i \in 0..m, NEW j \in 0..m, z[i] = z[j] PROVE i = j
    OBVIOUS
  <2>1. (IF i = 0 THEN 0 ELSE m + 1 - i) = (IF j = 0 THEN 0 ELSE m + 1 - j)
    BY <1>1 DEF InOrder
  <2> QED
    BY <2>1
<1>4. \A x \in R : \E i \in 0..m : z[i] = x
  <2> SUFFICES ASSUME NEW x \in R PROVE \E i \in 0..m : z[i] = x
    OBVIOUS
  <2>1. PICK k \in 0..m : s[k] = x
    BY DEF InOrder
  <2>2. PICK i \in 0..m : (IF i = 0 THEN 0 ELSE m + 1 - i) = k
    <3>1. CASE k = 0
      BY <3>1
    <3>2. CASE k # 0
      <4>1. m + 1 - k \in 0..m /\ m + 1 - k # 0 /\ m + 1 - (m + 1 - k) = k
        BY <3>2
      <4> QED
        BY <4>1
    <3> QED
      BY <3>1, <3>2
  <2> QED
    BY <1>1, <2>1, <2>2
<1>5. ASSUME NEW i \in 0..m
      PROVE  prev[z[i]] = z[Behind(i, m)] /\ next[z[Behind(i, m)]] = z[i]
  <2>1. PICK k \in 0..m : k = IF Behind(i, m) = 0 THEN 0 ELSE m + 1 - Behind(i, m)
    BY <1>1, BehindDistinct
  <2>2. Behind(k, m) = IF i = 0 THEN 0 ELSE m + 1 - i
    BY <2>1 DEF Behind
  <2>3. z[Behind(i, m)] = s[k] /\ z[i] = s[Behind(k, m)]
    BY <1>1, <2>1, <2>2, BehindDistinct
  <2>4. next[s[k]] = s[Behind(k, m)] /\ prev[s[Behind(k, m)]] = s[k]
    BY DEF InOrder
  <2> QED
    BY <2>3, <2>4
<1> QED
  BY <1>2, <1>3, <1>4, <1>5 DEF InOrder

(* What lies between a node and the head is a line.                         *)
LEMMA RingLine ==
    ASSUME NEW next, NEW prev, NEW head, NEW R, NEW m \in Nat, NEW s,
           InOrder(next, prev, head, R, m, s), NEW k \in 0..m,
           NEW z, z = [i \in 0..(m - k) |-> s[Behind(k + i, m)]]
    PROVE  InLine(next, head, next[s[k]], {s[i] : i \in (k + 1)..m}, m - k, z)
<1> DEFINE D == {s[i] : i \in (k + 1)..m}
<1>1. /\ m - k \in Nat
      /\ \A i \in 0..(m - k) : k + i \in 0..m /\ z[i] = s[Behind(k + i, m)]
  OBVIOUS
<1>2. z[0] = next[s[k]] /\ z[m - k] = head
  <2>1. z[0] = s[Behind(k, m)]
    BY <1>1
  <2>2. z[m - k] = s[0]
    BY <1>1 DEF Behind
  <2> QED
    BY <2>1, <2>2 DEF InOrder
<1>3. \A i \in 0..(m - k - 1) : z[i] = s[k + i + 1] /\ k + i + 1 \in (k + 1)..m
  BY <1>1 DEF Behind
<1>4. z \in [0..(m - k) -> D \cup {head}]
  <2>1. ASSUME NEW i \in 0..(m - k) PROVE s[Behind(k + i, m)] \in D \cup {head}
    <3>1. CASE i = m - k
      BY <1>1, <1>2, <3>1
    <3>2. CASE i # m - k
      <4>1. i \in 0..(m - k - 1)
        BY <1>1, <3>2
      <4>2. z[i] \in D /\ z[i] = s[Behind(k + i, m)]
        BY <1>1, <1>3, <4>1
      <4> QED
        BY <4>2
    <3> QED
      BY <3>1, <3>2
  <2> QED
    BY <2>1
<1>5. ASSUME NEW i \in 0..(m - k - 1)
      PROVE  z[i] \in D /\ next[z[i]] = z[i + 1]
  <2>1. z[i] = s[k + i + 1] /\ k + i + 1 \in 0..m /\ z[i + 1] = s[Behind(k + i + 1, m)]
    BY <1>1, <1>3
  <2> QED
    BY <1>3, <2>1 DEF InOrder
<1>6. \A i, j \in 0..(m - k - 1) : z[i] = z[j] => i = j
  <2> SUFFICES ASSUME NEW i \in 0..(m - k - 1), NEW j \in 0..(m - k - 1), z[i] = z[j]
               PROVE  i = j
    OBVIOUS
  <2>1. z[i] = s[k + i + 1] /\ z[j] = s[k + j + 1]
    BY <1>3
  <2>2. PICK a, b \in 0..m : a = k + i + 1 /\ b = k + j + 1
    OBVIOUS
  <2>3. a = b
    BY <2>1, <2>2 DEF InOrder
  <2> QED
    BY <2>2, <2>3
<1>7. ASSUME NEW x \in D PROVE \E i \in 0..(m - k - 1) : z[i] = x
  <2>1. PICK i \in (k + 1)..m : x = s[i]
    OBVIOUS
  <2>2. i - k - 1 \in 0..(m - k - 1) /\ k + (i - k - 1) + 1 = i
    OBVIOUS
  <2> QED
    BY <1>3, <2>1, <2>2
<1> QED
  BY <1>2, <1>4, <1>5, <1>6, <1>7 DEF InLine

=============================================================================
