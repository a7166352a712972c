--------------------------- MODULE HashtableProofs ---------------------------
(***************************************************************************)
(* Hashtable for every number of buckets and every set of ids: the rings   *)
(* of the buckets, of all nodes and of brothers hold the same nodes, and   *)
(* the table is a dictionary.                                              *)
(***************************************************************************)
EXTENDS Hashtable, Lemmas, SequenceTheorems

Pointers == [{"Flink", "Blink"} -> [Spots -> Spots]]

----------------------------------------------------------------------------
(* Walks along a ring.                                                      *)

WalkStep(walk, n, next, to) ==
    [x \in Spots |-> IF x = to \/ n = 0 THEN <<>> ELSE <<x[2]>> \o walk[n - 1][next[x]]]

HasWalk(next, to, C) == \E walk : walk = [n \in 0..C |-> WalkStep(walk, n, next, to)]

LEMMA WalkExists ==
    ASSUME NEW next, NEW to, NEW C \in Nat
    PROVE  HasWalk(next, to, C)
<1> DEFINE T == {k \in Nat : \E walk : walk = [n \in 0..k |-> WalkStep(walk, n, next, to)]}
<1>1. 0 \in T
  <2>1. PICK walk : walk = [n \in 0..0 |-> [x \in Spots |-> <<>>]]
    OBVIOUS
  <2>2. WalkStep(walk, 0, next, to) = [x \in Spots |-> <<>>]
    BY DEF WalkStep
  <2>3. walk = [n \in 0..0 |-> WalkStep(walk, n, next, to)]
    BY <2>1, <2>2
  <2> QED
    BY <2>3
<1>2. ASSUME NEW k \in Nat, k \in T PROVE k + 1 \in T
  <2>1. PICK f : f = [n \in 0..k |-> WalkStep(f, n, next, to)]
    BY <1>2
  <2>2. PICK g : g = [n \in 0..(k + 1) |-> IF n <= k THEN f[n] ELSE WalkStep(f, k + 1, next, to)]
    OBVIOUS
  <2>3. \A n \in 0..k : g[n] = f[n]
    BY <2>2
  <2>4. \A n \in 0..(k + 1) : WalkStep(g, n, next, to) = WalkStep(f, n, next, to)
    <3> SUFFICES ASSUME NEW n \in 0..(k + 1)
                 PROVE  WalkStep(g, n, next, to) = WalkStep(f, n, next, to)
      OBVIOUS
    <3>1. n # 0 => g[n - 1] = f[n - 1]
      BY <2>3
    <3> QED
      BY <3>1 DEF WalkStep
  <2>5. \A n \in 0..(k + 1) : g[n] = WalkStep(g, n, next, to)
    <3> SUFFICES ASSUME NEW n \in 0..(k + 1) PROVE g[n] = WalkStep(f, n, next, to)
      BY <2>4
    <3>1. CASE n <= k
      BY <2>1, <2>3, <3>1
    <3>2. CASE n = k + 1
      BY <2>2, <3>2
    <3> QED
      BY <3>1, <3>2
  <2>6. g = [n \in 0..(k + 1) |-> WalkStep(g, n, next, to)]
    <3> HIDE DEF WalkStep
    <3>1. DOMAIN g = 0..(k + 1) /\ g = [n \in DOMAIN g |-> g[n]]
      BY <2>2
    <3> QED
      BY <2>5, <3>1
  <2> QED
    BY <2>6
<1>3. C \in T
  <2> HIDE DEF T
  <2> QED
    BY <1>1, <1>2, Induction
<1> QED
  BY <1>3 DEF HasWalk

(* The equations of Walk.                                                   *)
Walking(walk, next, to, C) ==
    \A n \in 0..C, x \in Spots :
        walk[n][x] = IF x = to \/ n = 0 THEN <<>> ELSE <<x[2]>> \o walk[n - 1][next[x]]

LEMMA WalkFound ==
    ASSUME IsFiniteSet(Ids), NEW way, NEW to
    PROVE  Walking(Walk(way, to), rings[way], to, Cardinality(Ids) + 1)
<1>1. PICK C \in Nat : C = Cardinality(Ids) + 1
  BY FS_CardinalityType
<1>2. \E walk : walk = [n \in 0..C |-> WalkStep(walk, n, rings[way], to)]
  <2>1. HasWalk(rings[way], to, C)
    BY <1>1, WalkExists
  <2> QED
    BY <2>1 DEF HasWalk
<1>3. Walk(way, to) = [n \in 0..C |-> WalkStep(Walk(way, to), n, rings[way], to)]
  BY <1>1, <1>2 DEF Walk, WalkStep
<1>4. \A n \in 0..C : Walk(way, to)[n] = WalkStep(Walk(way, to), n, rings[way], to)
  BY <1>3
<1>5. PICK W : W = Walk(way, to)
  OBVIOUS
<1>6. ASSUME NEW n \in 0..C, NEW x \in Spots
      PROVE  W[n][x] = IF x = to \/ n = 0 THEN <<>> ELSE <<x[2]>> \o W[n - 1][rings[way][x]]
  <2>1. W[n] = WalkStep(W, n, rings[way], to)
    BY <1>4, <1>5
  <2> QED
    BY <2>1 DEF WalkStep
<1>7. Walking(W, rings[way], to, C)
  BY <1>6 DEF Walking
<1> QED
  BY <1>1, <1>5, <1>7

(* A sequence with an element in front.                                     *)
LEMMA InFrontOf ==
    ASSUME NEW k \in Nat, NEW g
    PROVE  <<g[0]>> \o [j \in 1..k |-> g[j]] = [j \in 1..(k + 1) |-> g[j - 1]]
<1>1. PICK S : S = {g[j] : j \in 0..k}
  OBVIOUS
<1>2. PICK t : t = [j \in 1..k |-> g[j]]
  OBVIOUS
<1>3. t \in Seq(S) /\ Len(t) = k /\ <<g[0]>> \in Seq(S) /\ Len(<<g[0]>>) = 1
  BY <1>1, <1>2
<1>4. PICK c : c = <<g[0]>> \o t
  OBVIOUS
<1>5. c \in Seq(S) /\ Len(c) = k + 1
  BY <1>3, <1>4, ConcatProperties
<1>6. ASSUME NEW j \in 1..(k + 1) PROVE c[j] = g[j - 1]
  <2>1. CASE j = 1
    BY <1>3, <1>4, <2>1, ConcatProperties
  <2>2. CASE j # 1
    <3>1. j - 1 \in 1..k
      BY <2>2
    <3>2. c[j] = t[j - 1]
      BY <1>3, <1>4, <3>1, ConcatProperties
    <3> QED
      BY <1>2, <3>1, <3>2
  <2> QED
    BY <2>1, <2>2
<1>7. c = [j \in 1..(k + 1) |-> g[j - 1]]
  BY <1>5, <1>6
<1> QED
  BY <1>2, <1>4, <1>7

(* Walk a line to its end a walk collects the ids.                         *)
IdsAlong(z, m) == [j \in 1..m |-> z[j - 1][2]]

LEMMA LineWalked ==
    ASSUME NEW walk, NEW next, NEW to \in Spots, NEW C \in Nat, Walking(walk, next, to, C), NEW first,
           NEW D \in SUBSET Spots, to \notin D, NEW m \in Nat, NEW z, InLine(next, to, first, D, m, z), m <= C
    PROVE  walk[C][first] = IdsAlong(z, m)
<1>2. PICK W : W = walk
  OBVIOUS
<1>3. Walking(W, next, to, C)
  BY <1>2
<1>4. PICK g : g = [i \in 0..m |-> z[i][2]]
  OBVIOUS
<1> DEFINE T == {n \in Nat : n <= C =>
                    \A i \in 0..m : m - i <= n => W[n][z[i]] = [j \in 1..(m - i) |-> g[i + j - 1]]}
<1>5. z[0] = first /\ z[m] = to
  BY DEF InLine
<1>6. \A n \in 0..C : W[n][z[m]] = <<>>
  BY <1>3, <1>5 DEF Walking
<1>7. 0 \in T
  <2> SUFFICES ASSUME NEW i \in 0..m, m - i <= 0
               PROVE  W[0][z[i]] = [j \in 1..(m - i) |-> g[i + j - 1]]
    OBVIOUS
  <2>1. i = m
    OBVIOUS
  <2>2. W[0][z[m]] = <<>>
    BY <1>6
  <2>3. \A q \in 1..(m - m) : FALSE
    OBVIOUS
  <2>4. [j \in 1..(m - m) |-> g[m + j - 1]] = <<>>
    BY <2>3
  <2> QED
    BY <2>1, <2>2, <2>4
<1>8. ASSUME NEW n \in Nat, n \in T PROVE n + 1 \in T
  <2> SUFFICES ASSUME n + 1 <= C, NEW i \in 0..m, m - i <= n + 1
               PROVE  W[n + 1][z[i]] = [j \in 1..(m - i) |-> g[i + j - 1]]
    <3>1. n + 1 \in Nat
      OBVIOUS
    <3> QED
      BY <3>1, Zenon
  <2>1. CASE i = m
    <3>1. W[n + 1][z[m]] = <<>>
      BY <1>6
    <3>2. [j \in 1..(m - m) |-> g[m + j - 1]] = <<>>
      OBVIOUS
    <3> QED
      BY <2>1, <3>1, <3>2
  <2>2. CASE i # m
    <3>1. PICK k \in Nat : k = m - i - 1
      BY <2>2
    <3>2. i \in 0..(m - 1) /\ i + 1 \in 0..m /\ m - (i + 1) <= n /\ n <= C /\ n + 1 \in 0..C
      BY <2>2
    <3>3. z[i] \in D /\ next[z[i]] = z[i + 1]
      BY <3>2 DEF InLine
    <3>4. W[n + 1][z[i]] = <<z[i][2]>> \o W[(n + 1) - 1][z[i + 1]]
      <4>1. z[i] \in Spots /\ z[i] # to /\ n + 1 # 0
        BY <3>3
      <4> QED
        BY <1>3, <3>2, <3>3, <4>1 DEF Walking
    <3>5. W[n][z[i + 1]] = [j \in 1..(m - (i + 1)) |-> g[i + 1 + j - 1]]
      BY <1>8, <3>2
    <3>6. PICK h : h = [j \in 0..k |-> g[i + j]]
      OBVIOUS
    <3>7. W[n][z[i + 1]] = [j \in 1..k |-> h[j]]
      <4>1. m - (i + 1) = k /\ \A j \in 1..k : g[i + 1 + j - 1] = h[j]
        BY <3>1, <3>6
      <4> QED
        BY <3>5, <4>1
    <3>8. h[0] = z[i][2]
      BY <1>4, <3>6
    <3>9. W[n + 1][z[i]] = [j \in 1..(k + 1) |-> h[j - 1]]
      <4>1. (n + 1) - 1 = n
        OBVIOUS
      <4>2. W[n + 1][z[i]] = <<h[0]>> \o [j \in 1..k |-> h[j]]
        BY <3>4, <3>7, <3>8, <4>1
      <4>3. <<h[0]>> \o [j \in 1..k |-> h[j]] = [j \in 1..(k + 1) |-> h[j - 1]]
        BY InFrontOf, Zenon
      <4> QED
        BY <4>2, <4>3, Zenon
    <3>10. k + 1 = m - i /\ \A j \in 1..(k + 1) : h[j - 1] = g[i + j - 1]
      BY <3>1, <3>6
    <3> QED
      BY <3>9, <3>10
  <2> QED
    BY <2>1, <2>2
<1>9. C \in T
  <2> HIDE DEF T
  <2> QED
    BY <1>7, <1>8, Induction
<1>10. W[C][z[0]] = [j \in 1..(m - 0) |-> g[0 + j - 1]]
  BY <1>9
<1>11. \A j \in 1..m : g[0 + j - 1] = z[j - 1][2]
  BY <1>4
<1> QED
  BY <1>2, <1>5, <1>10, <1>11 DEF IdsAlong

FindsIds(way, head, m, s) == Ring(way, head, head) = [j \in 1..m |-> s[j][2]]

(* What Ring finds on a ring, forwards and backwards.                       *)
LEMMA RingFound ==
    ASSUME IsFiniteSet(Ids), NEW way, NEW next, next = rings[way],
           NEW back, NEW head, NEW R \in SUBSET Spots,
           NEW m \in Nat, m <= Cardinality(Ids), NEW s, InOrder(next, back, head, R, m, s)
    PROVE  FindsIds(way, head, m, s)
<1>1. PICK k \in 0..m : k = 0
  OBVIOUS
<1>2. PICK z : z = [i \in 0..(m - k) |-> s[Behind(k + i, m)]]
  OBVIOUS
<1>3. PICK D : D = {s[i] : i \in (k + 1)..m}
  OBVIOUS
<1>4. InLine(next, head, next[s[k]], D, m - k, z)
  BY <1>2, <1>3, RingLine
<1>5. s[k] = head /\ head \in R /\ D \subseteq R /\ head \notin D
  <2>1. s[0] = head /\ \A i \in 0..m : s[i] \in R
    BY DEF InOrder
  <2>2. \A i \in 1..m : s[i] # s[0]
    BY DEF InOrder
  <2> QED
    BY <1>1, <1>3, <2>1, <2>2
<1>6. PICK C \in Nat : C = Cardinality(Ids) + 1
  BY FS_CardinalityType
<1>7. m - k = m /\ m <= C
  BY <1>1, <1>6, FS_CardinalityType
<1>9. PICK W : W = Walk(way, head)
  OBVIOUS
<1>12. W[C][next[head]] = IdsAlong(z, m)
  <2>1. InLine(next, head, next[head], D, m, z)
    BY <1>4, <1>5, <1>7
  <2>2. Walking(W, next, head, C)
    BY <1>6, <1>9, WalkFound
  <2> QED
    BY <1>5, <1>7, <2>1, <2>2, LineWalked
<1>10. \A j \in 1..m : z[j - 1] = s[j]
  BY <1>1, <1>2 DEF Behind
<1> QED
  BY <1>6, <1>9, <1>10, <1>12 DEF Ring, IdsAlong, FindsIds

----------------------------------------------------------------------------
(* Rings of ids.                                                            *)

Linked(link, S) == {<<link, id>> : id \in S}

(* What the walks around head find: each id of S once, both ways.           *)
Lists(head, S) ==
    LET found == Ring("Flink", head, head)
    IN  /\ IdsIn(found) = S /\ Len(found) = Cardinality(S)
        /\ \A i \in DOMAIN found : Ring("Blink", head, head)[i] = found[Len(found) + 1 - i]

LEMMA RingIds ==
    ASSUME IsFiniteSet(Ids), NEW link, NEW S \in SUBSET Ids, Linked(link, S) \subseteq Spots,
           NEW head \in Spots, head \notin Linked(link, S),
           IsRing(rings["Flink"], rings["Blink"], head, {head} \cup Linked(link, S))
    PROVE  Lists(head, S)
<1>1. PICK R \in SUBSET Spots : R = {head} \cup Linked(link, S)
  OBVIOUS
<1>0. PICK m \in Nat : \E s \in [0..m -> R] : InOrder(rings["Flink"], rings["Blink"], head, R, m, s)
  BY <1>1 DEF IsRing
<1>2. PICK s \in [0..m -> R] : InOrder(rings["Flink"], rings["Blink"], head, R, m, s)
  BY <1>0
<1>3. \A i, j \in 0..m : s[i] = s[j] => i = j
  BY <1>2 DEF InOrder
<1>4. s[0] = head /\ \A x \in R : \E i \in 0..m : s[i] = x
  BY <1>2 DEF InOrder
<1>5. \A j \in 1..m : s[j] \in Linked(link, S)
  <2> SUFFICES ASSUME NEW j \in 1..m PROVE s[j] \in Linked(link, S)
    OBVIOUS
  <2>1. j \in 0..m /\ 0 \in 0..m /\ j # 0
    OBVIOUS
  <2>2. s[j] # s[0]
    BY <1>3, <2>1
  <2> QED
    BY <1>1, <1>4, <2>1, <2>2
<1>6. \A j \in 1..m : s[j][2] \in S /\ s[j] = <<link, s[j][2]>>
  BY <1>5 DEF Linked
<1>7. PICK t : t = [j \in 1..m |-> s[j][2]]
  OBVIOUS
<1>8. \A id \in S : \E j \in 1..m : t[j] = id
  <2> SUFFICES ASSUME NEW id \in S PROVE \E j \in 1..m : t[j] = id
    OBVIOUS
  <2>1. <<link, id>> \in R /\ <<link, id>> # head
    BY <1>1 DEF Linked
  <2>2. PICK j \in 0..m : s[j] = <<link, id>>
    BY <1>4, <2>1
  <2>3. j \in 1..m
    BY <1>4, <2>1, <2>2
  <2> QED
    BY <1>7, <2>2, <2>3
<1>9. \A i, j \in 1..m : t[i] = t[j] => i = j
  <2> SUFFICES ASSUME NEW i \in 1..m, NEW j \in 1..m, t[i] = t[j] PROVE i = j
    OBVIOUS
  <2>1. s[i] = s[j]
    BY <1>6, <1>7
  <2> QED
    BY <1>3, <2>1
<1>10. t \in [1..m -> S]
  BY <1>6, <1>7
<1>11. m = Cardinality(S) /\ m <= Cardinality(Ids)
  <2>1. t \in Bijection(1..m, S)
    BY <1>8, <1>9, <1>10 DEF Bijection, Injection, Surjection, IsInjective
  <2>2. Cardinality(S) = m
    BY <2>1, FS_CountingElements DEF ExistsBijection
  <2>3. Cardinality(S) <= Cardinality(Ids)
    BY FS_Subset
  <2> QED
    BY <2>2, <2>3, FS_CardinalityType
<1>12. Ring("Flink", head, head) = t
  <2>1. FindsIds("Flink", head, m, s)
    BY <1>2, <1>11, RingFound
  <2> QED
    BY <1>7, <2>1 DEF FindsIds
<1>13. PICK z : z = [i \in 0..m |-> IF i = 0 THEN s[0] ELSE s[m + 1 - i]]
  OBVIOUS
<1>14. InOrder(rings["Blink"], rings["Flink"], head, R, m, z)
  BY <1>2, <1>13, RingBackwards
<1>15. Ring("Blink", head, head) = [j \in 1..m |-> z[j][2]]
  <2>1. FindsIds("Blink", head, m, z)
    BY <1>11, <1>14, RingFound
  <2> QED
    BY <2>1 DEF FindsIds
<1>16. DOMAIN t = 1..m /\ Len(t) = m /\ IdsIn(t) = S
  <2>1. t \in Seq(S) /\ Len(t) = m
    BY <1>7, <1>10
  <2>2. {t[i] : i \in 1..m} = S
    BY <1>8, <1>10
  <2> QED
    BY <1>7, <2>1, <2>2 DEF IdsIn
<1>17. \A i \in 1..m : z[i][2] = t[m + 1 - i]
  <2> SUFFICES ASSUME NEW i \in 1..m PROVE z[i][2] = t[m + 1 - i]
    OBVIOUS
  <2>1. i \in 0..m /\ i # 0 /\ m + 1 - i \in 1..m
    OBVIOUS
  <2> QED
    BY <1>7, <1>13, <2>1
<1> QED
  BY <1>11, <1>12, <1>15, <1>16, <1>17 DEF Lists

----------------------------------------------------------------------------
(* The pointers that LinkIn and Unlink leave.                               *)

Ways == {"Flink", "Blink"}
OnRing(L, head, R) == IsRing(L["Flink"], L["Blink"], head, R)
Same(L, M, X) == \A x \in X : M["Flink"][x] = L["Flink"][x] /\ M["Blink"][x] = L["Blink"][x]
Alone(L, x) == L["Flink"][x] = x /\ L["Blink"][x] = x

LEMMA LinkInPointers ==
    ASSUME NEW L \in Pointers, NEW x \in Spots, NEW list \in Spots, x # list,
           NEW q, q = L["Flink"][list], x # q
    PROVE  /\ LinkIn(L, x, list) \in Pointers
           /\ LinkIn(L, x, list)["Flink"] = [L["Flink"] EXCEPT ![list] = x, ![x] = q]
           /\ LinkIn(L, x, list)["Blink"] = [L["Blink"] EXCEPT ![q] = x, ![x] = list]
<1>1. L \in [Ways -> [Spots -> Spots]] /\ "Flink" \in Ways /\ "Blink" \in Ways /\ "Flink" # "Blink"
  BY DEF Pointers, Ways
<1>2. PICK f \in [Spots -> Spots] : f = L["Flink"]
  BY <1>1
<1>3. PICK b \in [Spots -> Spots] : b = L["Blink"]
  BY <1>1
<1>4. q \in Spots
  BY <1>2
<1>5. PICK M : M = LinkIn(L, x, list)
  OBVIOUS
<1>6. M = [[[[L EXCEPT !["Flink"] = [@ EXCEPT ![x] = q]]
                EXCEPT !["Blink"] = [@ EXCEPT ![x] = list]]
                EXCEPT !["Blink"] = [@ EXCEPT ![q] = x]]
                EXCEPT !["Flink"] = [@ EXCEPT ![list] = x]]
  BY <1>5 DEF LinkIn
<1>7. M["Flink"] = [[f EXCEPT ![x] = q] EXCEPT ![list] = x]
  BY <1>1, <1>2, <1>6
<1>8. M["Blink"] = [[b EXCEPT ![x] = list] EXCEPT ![q] = x]
  BY <1>1, <1>3, <1>6
<1>9. M["Flink"] = [f EXCEPT ![list] = x, ![x] = q]
  BY <1>7
<1>10. M["Blink"] = [b EXCEPT ![q] = x, ![x] = list]
  BY <1>8
<1>11. M \in [Ways -> [Spots -> Spots]]
  <2>1. M["Flink"] \in [Spots -> Spots] /\ M["Blink"] \in [Spots -> Spots]
    BY <1>4, <1>9, <1>10
  <2>2. M = [way \in Ways |-> M[way]]
    BY <1>1, <1>6
  <2>3. \A way \in Ways : way = "Flink" \/ way = "Blink"
    BY DEF Ways
  <2> QED
    BY <2>1, <2>2, <2>3
<1> QED
  BY <1>2, <1>3, <1>5, <1>9, <1>10, <1>11 DEF Pointers, Ways

LEMMA UnlinkPointers ==
    ASSUME NEW L \in Pointers, NEW x \in Spots, NEW p, p = L["Blink"][x], NEW q, q = L["Flink"][x]
    PROVE  /\ Unlink(L, x) \in Pointers
           /\ Unlink(L, x)["Flink"] = [L["Flink"] EXCEPT ![p] = q, ![x] = x]
           /\ Unlink(L, x)["Blink"] = [L["Blink"] EXCEPT ![q] = p, ![x] = x]
<1>1. L \in [Ways -> [Spots -> Spots]] /\ "Flink" \in Ways /\ "Blink" \in Ways /\ "Flink" # "Blink"
  BY DEF Pointers, Ways
<1>2. PICK f \in [Spots -> Spots] : f = L["Flink"]
  BY <1>1
<1>3. PICK b \in [Spots -> Spots] : b = L["Blink"]
  BY <1>1
<1>4. q \in Spots /\ p \in Spots
  BY <1>2, <1>3
<1>5. PICK M : M = Unlink(L, x)
  OBVIOUS
<1>6. M = [[[[L EXCEPT !["Flink"] = [@ EXCEPT ![p] = q]]
                EXCEPT !["Blink"] = [@ EXCEPT ![q] = p]]
                EXCEPT !["Flink"] = [@ EXCEPT ![x] = x]]
                EXCEPT !["Blink"] = [@ EXCEPT ![x] = x]]
  BY <1>5 DEF Unlink
<1>7. M["Flink"] = [[f EXCEPT ![p] = q] EXCEPT ![x] = x]
  BY <1>1, <1>2, <1>6
<1>8. M["Blink"] = [[b EXCEPT ![q] = p] EXCEPT ![x] = x]
  BY <1>1, <1>3, <1>6
<1>11. M \in [Ways -> [Spots -> Spots]]
  <2>1. M["Flink"] \in [Spots -> Spots] /\ M["Blink"] \in [Spots -> Spots]
    BY <1>4, <1>7, <1>8
  <2>2. M = [way \in Ways |-> M[way]]
    BY <1>1, <1>6
  <2>3. \A way \in Ways : way = "Flink" \/ way = "Blink"
    BY DEF Ways
  <2> QED
    BY <2>1, <2>2, <2>3
<1> QED
  BY <1>2, <1>3, <1>5, <1>7, <1>8, <1>11 DEF Pointers, Ways

(* A node is put on a ring, which changes no others.                        *)
Follows(L, y, x) == L["Flink"][y] = x

LEMMA LinkInRing ==
    ASSUME NEW L \in Pointers, NEW head, NEW R \in SUBSET Spots, OnRing(L, head, R),
           NEW x \in Spots, x \notin R, NEW list \in R
    PROVE  /\ LinkIn(L, x, list) \in Pointers
           /\ OnRing(LinkIn(L, x, list), head, R \cup {x})
           /\ Same(L, LinkIn(L, x, list), Spots \ (R \cup {x}))
           /\ Follows(LinkIn(L, x, list), list, x)
<1>1. PICK f \in [Spots -> Spots] : f = L["Flink"]
  BY DEF Pointers
<1>2. PICK b \in [Spots -> Spots] : b = L["Blink"]
  BY DEF Pointers
<1>3. IsRing(f, b, head, R)
  BY <1>1, <1>2 DEF OnRing
<1>4. PICK q : q = f[list]
  OBVIOUS
<1>5. q \in R /\ x # q /\ x # list /\ list \in Spots
  BY <1>3, <1>4, RingNeighbours
<1>6. PICK M : M = LinkIn(L, x, list)
  OBVIOUS
<1>7. /\ M \in Pointers
      /\ M["Flink"] = [f EXCEPT ![list] = x, ![x] = q]
      /\ M["Blink"] = [b EXCEPT ![q] = x, ![x] = list]
  BY <1>1, <1>2, <1>4, <1>5, <1>6, LinkInPointers
<1>8. IsRing([f EXCEPT ![list] = x, ![x] = q], [b EXCEPT ![q] = x, ![x] = list], head, R \cup {x})
  <2>1. DOMAIN f = Spots /\ DOMAIN b = Spots /\ x \in Spots \ R
    OBVIOUS
  <2> QED
    BY <1>3, <1>4, <2>1, InsertInRing
<1>9. OnRing(M, head, R \cup {x})
  BY <1>7, <1>8 DEF OnRing
<1>10. Same(L, M, Spots \ (R \cup {x}))
  <2> SUFFICES ASSUME NEW y \in Spots \ (R \cup {x})
               PROVE  M["Flink"][y] = f[y] /\ M["Blink"][y] = b[y]
    BY <1>1, <1>2 DEF Same
  <2>1. y # list /\ y # x /\ y # q
    BY <1>5
  <2> QED
    BY <1>7, <2>1
<1>11. Follows(M, list, x)
  BY <1>5, <1>7 DEF Follows
<1> QED
  BY <1>6, <1>7, <1>9, <1>10, <1>11

(* A node that is not its head is taken off a ring.                         *)
LEMMA UnlinkFromRing ==
    ASSUME NEW L \in Pointers, NEW head, NEW R \in SUBSET Spots, OnRing(L, head, R),
           NEW x \in R, x # head
    PROVE  /\ Unlink(L, x) \in Pointers
           /\ OnRing(Unlink(L, x), head, R \ {x})
           /\ Same(L, Unlink(L, x), Spots \ R)
           /\ Alone(Unlink(L, x), x)
<1>1. PICK f \in [Spots -> Spots] : f = L["Flink"]
  BY DEF Pointers
<1>2. PICK b \in [Spots -> Spots] : b = L["Blink"]
  BY DEF Pointers
<1>3. IsRing(f, b, head, R)
  BY <1>1, <1>2 DEF OnRing
<1>4. x \in Spots /\ f[x] \in R /\ b[x] \in R
  BY <1>3, RingNeighbours
<1>6. PICK M : M = Unlink(L, x)
  OBVIOUS
<1>7. /\ M \in Pointers
      /\ M["Flink"] = [f EXCEPT ![b[x]] = f[x], ![x] = x]
      /\ M["Blink"] = [b EXCEPT ![f[x]] = b[x], ![x] = x]
  BY <1>1, <1>2, <1>4, <1>6, UnlinkPointers
<1>8. IsRing([f EXCEPT ![b[x]] = f[x], ![x] = x], [b EXCEPT ![f[x]] = b[x], ![x] = x], head, R \ {x})
  <2>1. DOMAIN f = Spots /\ DOMAIN b = Spots /\ x \in R \ {head}
    OBVIOUS
  <2> QED
    BY <1>3, <2>1, RemoveFromRing
<1>9. OnRing(M, head, R \ {x})
  BY <1>7, <1>8 DEF OnRing
<1>10. Same(L, M, Spots \ R)
  <2> SUFFICES ASSUME NEW y \in Spots \ R
               PROVE  M["Flink"][y] = f[y] /\ M["Blink"][y] = b[y]
    BY <1>1, <1>2 DEF Same
  <2>1. y # x /\ y # f[x] /\ y # b[x]
    BY <1>4
  <2> QED
    BY <1>7, <2>1
<1>11. Alone(M, x)
  BY <1>4, <1>7 DEF Alone
<1> QED
  BY <1>6, <1>7, <1>9, <1>10, <1>11

(* To link a lone node behind itself, or to unlink it, changes nothing.     *)
LEMMA LinkInAlone ==
    ASSUME NEW L \in Pointers, NEW x \in Spots, Alone(L, x)
    PROVE  LinkIn(L, x, x) = L /\ Unlink(L, x) = L
<1>1. L \in [Ways -> [Spots -> Spots]] /\ "Flink" \in Ways /\ "Blink" \in Ways /\ "Flink" # "Blink"
  BY DEF Pointers, Ways
<1>2. PICK f \in [Spots -> Spots] : f = L["Flink"]
  BY <1>1
<1>3. PICK b \in [Spots -> Spots] : b = L["Blink"]
  BY <1>1
<1>4. f[x] = x /\ b[x] = x
  BY <1>2, <1>3 DEF Alone
<1>5. [f EXCEPT ![x] = x] = f /\ [b EXCEPT ![x] = x] = b
  BY <1>4
<1>6. [L EXCEPT !["Flink"] = [@ EXCEPT ![x] = x]] = L /\ [L EXCEPT !["Blink"] = [@ EXCEPT ![x] = x]] = L
  BY <1>1, <1>2, <1>3, <1>5
<1>7. LinkIn(L, x, x) = L
  <2>1. LinkIn(L, x, x) = [[[[L EXCEPT !["Flink"] = [@ EXCEPT ![x] = x]]
                EXCEPT !["Blink"] = [@ EXCEPT ![x] = x]]
                EXCEPT !["Blink"] = [@ EXCEPT ![x] = x]]
                EXCEPT !["Flink"] = [@ EXCEPT ![x] = x]]
    BY <1>2, <1>4 DEF LinkIn
  <2> QED
    BY <1>6, <2>1
<1>8. Unlink(L, x) = L
  <2>1. Unlink(L, x) = [[[[L EXCEPT !["Flink"] = [@ EXCEPT ![x] = x]]
                EXCEPT !["Blink"] = [@ EXCEPT ![x] = x]]
                EXCEPT !["Flink"] = [@ EXCEPT ![x] = x]]
                EXCEPT !["Blink"] = [@ EXCEPT ![x] = x]]
    BY <1>2, <1>3, <1>4 DEF Unlink
  <2> QED
    BY <1>6, <2>1
<1> QED
  BY <1>7, <1>8

(* A ring is one from each of its nodes.                                    *)
LEMMA RingAround ==
    ASSUME NEW next, NEW prev, NEW head, NEW R, IsRing(next, prev, head, R), NEW x \in R
    PROVE  IsRing(next, prev, x, R)
<1>1. PICK m \in Nat : \E s \in [0..m -> R] : InOrder(next, prev, head, R, m, s)
  BY DEF IsRing
<1>2. PICK s \in [0..m -> R] : InOrder(next, prev, head, R, m, s)
  BY <1>1
<1> DEFINE T == {k \in Nat : k <= m => IsRing(next, prev, s[k], R)}
<1>3. 0 \in T
  BY <1>2 DEF InOrder
<1>4. ASSUME NEW k \in Nat, k \in T PROVE k + 1 \in T
  <2> SUFFICES ASSUME k + 1 <= m PROVE IsRing(next, prev, s[k + 1], R)
    BY <1>4
  <2>1. IsRing(next, prev, s[k], R) /\ k \in 0..m
    BY <1>4
  <2>2. Behind(k, m) = k + 1
    BY DEF Behind
  <2>3. next[s[k]] = s[k + 1]
    BY <1>2, <2>1, <2>2 DEF InOrder
  <2> QED
    BY <2>1, <2>3, RingFromNext
<1>5. \A n \in Nat : n \in T
  <2> HIDE DEF T
  <2> QED
    BY <1>3, <1>4, Induction
<1>6. PICK k \in 0..m : s[k] = x
  BY <1>2 DEF InOrder
<1> QED
  BY <1>5, <1>6

(* Rings of nodes whose pointers stay are still rings; the head of a ring   *)
(* may pass to the node behind it; a node alone is a ring.                  *)
LEMMA RingStays ==
    ASSUME NEW L, NEW M, NEW head, NEW R, OnRing(L, head, R), Same(L, M, R)
    PROVE  OnRing(M, head, R)
<1>1. PICK f, b, g, c : f = L["Flink"] /\ b = L["Blink"] /\ g = M["Flink"] /\ c = M["Blink"]
  OBVIOUS
<1>2. IsRing(f, b, head, R) /\ \A x \in R : g[x] = f[x] /\ c[x] = b[x]
  BY <1>1 DEF OnRing, Same
<1>3. IsRing(g, c, head, R)
  BY <1>2, RingElsewhere
<1> QED
  BY <1>1, <1>3 DEF OnRing

LEMMA RingOfOne ==
    ASSUME NEW next, NEW prev, NEW x, next[x] = x, prev[x] = x
    PROVE  IsRing(next, prev, x, {x})
<1>1. PICK s : s = [i \in 0..0 |-> x]
  OBVIOUS
<1>2. s \in [0..0 -> {x}] /\ InOrder(next, prev, x, {x}, 0, s)
  BY <1>1 DEF InOrder, Behind
<1> QED
  BY <1>2 DEF IsRing

LEMMA OnlyOneOnRing ==
    ASSUME NEW next, NEW prev, NEW head, NEW R, IsRing(next, prev, head, R), next[head] = head
    PROVE  R = {head} /\ prev[head] = head
<1>0. PICK m \in Nat : \E s \in [0..m -> R] : InOrder(next, prev, head, R, m, s)
  BY DEF IsRing
<1>1. PICK s \in [0..m -> R] : InOrder(next, prev, head, R, m, s)
  BY <1>0
<1>2. Behind(0, m) = 0
  BY <1>1, BehindDistinct DEF InOrder
<1>3. m = 0
  BY <1>2 DEF Behind
<1>4. s[0] = head /\ \A x \in R : \E i \in 0..0 : s[i] = x
  BY <1>1, <1>3 DEF InOrder
<1>5. head \in R
  BY <1>1 DEF InOrder
<1>6. R = {head}
  BY <1>4, <1>5
<1>7. prev[next[head]] = head
  BY <1>5, RingNeighbours
<1> QED
  BY <1>6, <1>7

----------------------------------------------------------------------------
(* The rings of the buckets and of all nodes.                               *)

BurketAt(b) == <<"Burket", b>>
BurketOf(S, b) == {id \in S : id % NumberOfBurkets = b}
BurketSpots(S, b) == {BurketAt(b)} \cup Linked("Entry", BurketOf(S, b))
FastSpots(S) == {FastList} \cup Linked("FastEntry", S)
BrotherSpots(S) == Linked("BrotherEntry", S)
Burkets == 0..(NumberOfBurkets - 1)

Stored(L, S) ==
    /\ \A b \in Burkets : OnRing(L, BurketAt(b), BurketSpots(S, b))
    /\ OnRing(L, FastList, FastSpots(S))

LEMMA SpotsAre ==
    ASSUME HashtableConstants, NEW S \in SUBSET Ids
    PROVE  /\ \A link \in {"Entry", "FastEntry", "BrotherEntry"} : Linked(link, S) \subseteq Spots
           /\ FastList \in Spots /\ FastSpots(S) \subseteq Spots /\ BrotherSpots(S) \subseteq Spots
           /\ \A b \in Burkets : BurketAt(b) \in Spots /\ BurketSpots(S, b) \subseteq Spots
<1>1. \A link \in {"Entry", "FastEntry", "BrotherEntry"} : Linked(link, S) \subseteq Spots
  <2>1. ASSUME NEW link \in {"Entry", "FastEntry", "BrotherEntry"}, NEW id \in S
        PROVE  <<link, id>> \in Spots
    <3>1. id \in Ids
      OBVIOUS
    <3>2. <<link, id>> \in {<<name, i>> : name \in {"Entry", "FastEntry", "BrotherEntry"}, i \in Ids}
      BY <3>1
    <3> QED
      BY <3>2, SMTT(30) DEF Spots
  <2> QED
    BY <2>1, Zenon DEF Linked
<1>2. FastList \in Spots
  BY DEF Spots
<1>3. \A b \in Burkets : BurketAt(b) \in Spots
  <2> SUFFICES ASSUME NEW b \in Burkets PROVE BurketAt(b) \in Spots
    OBVIOUS
  <2>1. b % NumberOfBurkets = b
    BY DEF Burkets, HashtableConstants
  <2>2. Burket(b) = BurketAt(b)
    BY <2>1 DEF Burket, BurketAt
  <2>3. Burket(b) \in Spots
    BY DEF Spots, Burkets
  <2> QED
    BY <2>2, <2>3
<1>4. \A b \in Burkets : Linked("Entry", BurketOf(S, b)) \subseteq Spots
  BY <1>1 DEF Linked, BurketOf
<1> QED
  BY <1>1, <1>2, <1>3, <1>4 DEF FastSpots, BrotherSpots, BurketSpots

LEMMA SpotsApart ==
    ASSUME NEW S \in SUBSET Ids, NEW T \in SUBSET Ids
    PROVE  /\ FastSpots(S) \cap BrotherSpots(T) = {}
           /\ \A b \in Burkets : BurketSpots(S, b) \cap FastSpots(T) = {}
           /\ \A b \in Burkets : BurketSpots(S, b) \cap BrotherSpots(T) = {}
           /\ \A b, c \in Burkets : b # c => BurketSpots(S, b) \cap BurketSpots(T, c) = {}
<1>1. \A link, x : x \in Linked(link, S) \/ x \in Linked(link, T) => x[1] = link
  BY DEF Linked
<1>2. FastList[1] = "FastList" /\ \A b : BurketAt(b)[1] = "Burket" /\ BurketAt(b)[2] = b
  BY DEF FastList, BurketAt
<1>3. \A x : x \in FastSpots(S) \/ x \in FastSpots(T) => x[1] \in {"FastList", "FastEntry"}
  BY <1>1, <1>2 DEF FastSpots
<1>4. \A x : x \in BrotherSpots(T) => x[1] = "BrotherEntry"
  BY <1>1 DEF BrotherSpots
<1>5. \A x, b : x \in BurketSpots(S, b) \/ x \in BurketSpots(T, b) => x[1] \in {"Burket", "Entry"}
  <2>1. \A x, b : x \in Linked("Entry", BurketOf(S, b)) => x \in Linked("Entry", S)
    BY DEF Linked, BurketOf
  <2>2. \A x, b : x \in Linked("Entry", BurketOf(T, b)) => x \in Linked("Entry", T)
    BY DEF Linked, BurketOf
  <2> QED
    BY <1>1, <1>2, <2>1, <2>2 DEF BurketSpots
<1>6. ASSUME NEW b \in Burkets, NEW c \in Burkets, b # c, NEW x,
             x \in BurketSpots(S, b), x \in BurketSpots(T, c)
      PROVE  FALSE
  <2>1. x = BurketAt(b) \/ (x[1] = "Entry" /\ x[2] % NumberOfBurkets = b)
    BY <1>6 DEF BurketSpots, Linked, BurketOf
  <2>2. x = BurketAt(c) \/ (x[1] = "Entry" /\ x[2] % NumberOfBurkets = c)
    BY <1>6 DEF BurketSpots, Linked, BurketOf
  <2> QED
    BY <1>2, <1>6, <2>1, <2>2
<1>7. "FastList" # "BrotherEntry" /\ "FastEntry" # "BrotherEntry" /\ "Burket" # "FastList"
      /\ "Burket" # "FastEntry" /\ "Burket" # "BrotherEntry" /\ "Entry" # "FastList"
      /\ "Entry" # "FastEntry" /\ "Entry" # "BrotherEntry"
  OBVIOUS
<1>8. FastSpots(S) \cap BrotherSpots(T) = {}
  BY <1>3, <1>4, <1>7
<1>9. \A b \in Burkets : BurketSpots(S, b) \cap FastSpots(T) = {}
  BY <1>3, <1>5, <1>7
<1>10. \A b \in Burkets : BurketSpots(S, b) \cap BrotherSpots(T) = {}
  BY <1>4, <1>5, <1>7
<1> QED
  BY <1>6, <1>8, <1>9, <1>10

LEMMA BurketOfId ==
    ASSUME HashtableConstants, NEW id \in Ids
    PROVE  id % NumberOfBurkets \in Burkets /\ Burket(id) = BurketAt(id % NumberOfBurkets)
BY DEF HashtableConstants, Burkets, Burket, BurketAt

(* A new node comes into its bucket and the list of all.                    *)
LEMMA StoreOne ==
    ASSUME HashtableConstants, NEW L \in Pointers, NEW S \in SUBSET Ids, Stored(L, S),
           NEW id \in Ids, id \notin S,
           NEW M, M = LinkIn(LinkIn(L, Entry(id), Burket(id)), FastEntry(id), FastList)
    PROVE  M \in Pointers /\ Stored(M, S \cup {id}) /\ Same(L, M, BrotherSpots(Ids))
<1>1. PICK b \in Burkets : b = id % NumberOfBurkets /\ Burket(id) = BurketAt(b)
  BY BurketOfId
<1>2. PICK P : P = LinkIn(L, Entry(id), BurketAt(b))
  OBVIOUS
<1>3. PICK T \in SUBSET Ids : T = S \cup {id}
  OBVIOUS
<1>4. BurketSpots(T, b) = BurketSpots(S, b) \cup {Entry(id)} /\ Entry(id) \notin BurketSpots(S, b)
  <2>1. BurketOf(T, b) = BurketOf(S, b) \cup {id} /\ id \notin BurketOf(S, b)
    BY <1>1, <1>3 DEF BurketOf
  <2>2. Entry(id) \notin Linked("Entry", BurketOf(S, b)) /\ Entry(id) # BurketAt(b)
    BY <2>1 DEF Entry, Linked, BurketAt
  <2>3. Linked("Entry", BurketOf(T, b)) = Linked("Entry", BurketOf(S, b)) \cup {Entry(id)}
    BY <2>1 DEF Entry, Linked
  <2> QED
    BY <2>2, <2>3 DEF BurketSpots
<1>5. Entry(id) \in Spots /\ FastEntry(id) \in Spots /\ BurketSpots(S, b) \subseteq Spots
  <2>1. Linked("Entry", Ids) \subseteq Spots /\ Linked("FastEntry", Ids) \subseteq Spots
    BY SpotsAre
  <2> QED
    BY <2>1, SpotsAre DEF Linked, Entry, FastEntry
<1>6. /\ P \in Pointers /\ OnRing(P, BurketAt(b), BurketSpots(T, b))
      /\ Same(L, P, Spots \ BurketSpots(T, b))
  <2>1. OnRing(L, BurketAt(b), BurketSpots(S, b)) /\ BurketAt(b) \in BurketSpots(S, b)
    BY DEF Stored, BurketSpots
  <2>2. /\ LinkIn(L, Entry(id), BurketAt(b)) \in Pointers
        /\ OnRing(LinkIn(L, Entry(id), BurketAt(b)), BurketAt(b), BurketSpots(S, b) \cup {Entry(id)})
        /\ Same(L, LinkIn(L, Entry(id), BurketAt(b)), Spots \ (BurketSpots(S, b) \cup {Entry(id)}))
    BY <1>4, <1>5, <2>1, LinkInRing
  <2> QED
    BY <1>2, <1>4, <2>2
<1>7. OnRing(P, FastList, FastSpots(S))
  <2>1. FastSpots(S) \subseteq Spots \ BurketSpots(T, b)
    <3>1. BurketSpots(T, b) \cap FastSpots(S) = {}
      BY SpotsApart
    <3> QED
      BY <3>1, SpotsAre
  <2>2. Same(L, P, FastSpots(S))
    BY <1>6, <2>1 DEF Same
  <2> QED
    BY <2>2, RingStays DEF Stored
<1>8. FastSpots(T) = FastSpots(S) \cup {FastEntry(id)} /\ FastEntry(id) \notin FastSpots(S)
  BY <1>3 DEF FastSpots, FastEntry, Linked, FastList
<1>9. PICK Q : Q = LinkIn(P, FastEntry(id), FastList)
  OBVIOUS
<1>10. /\ Q \in Pointers /\ OnRing(Q, FastList, FastSpots(T))
       /\ Same(P, Q, Spots \ FastSpots(T))
  <2>1. FastList \in FastSpots(S) /\ FastSpots(S) \subseteq Spots
    BY SpotsAre DEF FastSpots
  <2>2. /\ LinkIn(P, FastEntry(id), FastList) \in Pointers
        /\ OnRing(LinkIn(P, FastEntry(id), FastList), FastList, FastSpots(S) \cup {FastEntry(id)})
        /\ Same(P, LinkIn(P, FastEntry(id), FastList), Spots \ (FastSpots(S) \cup {FastEntry(id)}))
    BY <1>5, <1>6, <1>7, <1>8, <2>1, LinkInRing
  <2> QED
    BY <1>8, <1>9, <2>2
<1>11. OnRing(Q, BurketAt(b), BurketSpots(T, b))
  <2>1. BurketSpots(T, b) \subseteq Spots \ FastSpots(T)
    <3>1. BurketSpots(T, b) \cap FastSpots(T) = {}
      BY SpotsApart
    <3> QED
      BY <3>1, SpotsAre
  <2>2. Same(P, Q, BurketSpots(T, b))
    BY <1>10, <2>1 DEF Same
  <2> QED
    BY <1>6, <2>2, RingStays
<1>12. ASSUME NEW c \in Burkets, c # b
       PROVE  OnRing(Q, BurketAt(c), BurketSpots(T, c))
  <2>1. BurketSpots(T, c) = BurketSpots(S, c)
    BY <1>1, <1>3, <1>12 DEF BurketSpots, BurketOf
  <2>2. BurketSpots(T, c) \subseteq Spots \ FastSpots(T) /\ BurketSpots(T, c) \subseteq Spots \ BurketSpots(T, b)
    <3>1. BurketSpots(T, c) \cap FastSpots(T) = {} /\ BurketSpots(T, c) \cap BurketSpots(T, b) = {}
      BY <1>12, SpotsApart
    <3> QED
      BY <3>1, SpotsAre
  <2>3. Same(L, Q, BurketSpots(S, c))
    BY <1>6, <1>10, <2>1, <2>2 DEF Same
  <2>4. OnRing(L, BurketAt(c), BurketSpots(S, c))
    BY DEF Stored
  <2> QED
    BY <2>1, <2>3, <2>4, RingStays
<1>13. Same(L, Q, BrotherSpots(Ids))
  <2>1. BrotherSpots(Ids) \subseteq Spots \ FastSpots(T) /\ BrotherSpots(Ids) \subseteq Spots \ BurketSpots(T, b)
    <3>1. BurketSpots(T, b) \cap BrotherSpots(Ids) = {} /\ FastSpots(T) \cap BrotherSpots(Ids) = {}
      BY SpotsApart
    <3> QED
      BY <3>1, SpotsAre
  <2> QED
    BY <1>6, <1>10, <2>1 DEF Same
<1> QED
  <2>1. Stored(Q, T)
    BY <1>10, <1>11, <1>12 DEF Stored
  <2> QED
    BY <1>1, <1>2, <1>3, <1>9, <1>10, <1>13, <2>1

(* A node leaves its bucket and the list of all.                            *)
LEMMA StoreLess ==
    ASSUME HashtableConstants, NEW L \in Pointers, NEW S \in SUBSET Ids, Stored(L, S), NEW id \in S,
           NEW M, M = Unlink(Unlink(L, Entry(id)), FastEntry(id))
    PROVE  M \in Pointers /\ Stored(M, S \ {id}) /\ Same(L, M, BrotherSpots(Ids))
<1>1. PICK b \in Burkets : b = id % NumberOfBurkets /\ Burket(id) = BurketAt(b)
  BY BurketOfId
<1>2. PICK P : P = Unlink(L, Entry(id))
  OBVIOUS
<1>3. PICK T \in SUBSET Ids : T = S \ {id}
  OBVIOUS
<1>4. BurketSpots(T, b) = BurketSpots(S, b) \ {Entry(id)} /\ Entry(id) \in BurketSpots(S, b)
      /\ Entry(id) # BurketAt(b)
  <2>1. BurketOf(T, b) = BurketOf(S, b) \ {id} /\ id \in BurketOf(S, b)
    BY <1>1, <1>3 DEF BurketOf
  <2>2. Entry(id) \in Linked("Entry", BurketOf(S, b)) /\ Entry(id) # BurketAt(b)
    BY <2>1 DEF Entry, Linked, BurketAt
  <2>3. Linked("Entry", BurketOf(T, b)) = Linked("Entry", BurketOf(S, b)) \ {Entry(id)}
    BY <2>1 DEF Entry, Linked
  <2> QED
    BY <2>2, <2>3 DEF BurketSpots
<1>5. BurketSpots(S, b) \subseteq Spots
  BY SpotsAre
<1>6. /\ P \in Pointers /\ OnRing(P, BurketAt(b), BurketSpots(T, b))
      /\ Same(L, P, Spots \ BurketSpots(S, b))
  <2>1. OnRing(L, BurketAt(b), BurketSpots(S, b))
    BY DEF Stored
  <2>2. /\ Unlink(L, Entry(id)) \in Pointers
        /\ OnRing(Unlink(L, Entry(id)), BurketAt(b), BurketSpots(S, b) \ {Entry(id)})
        /\ Same(L, Unlink(L, Entry(id)), Spots \ BurketSpots(S, b))
    BY <1>4, <1>5, <2>1, UnlinkFromRing
  <2> QED
    BY <1>2, <1>4, <2>2
<1>7. OnRing(P, FastList, FastSpots(S))
  <2>1. FastSpots(S) \subseteq Spots \ BurketSpots(S, b)
    <3>1. BurketSpots(S, b) \cap FastSpots(S) = {}
      BY SpotsApart
    <3> QED
      BY <3>1, SpotsAre
  <2>2. Same(L, P, FastSpots(S))
    BY <1>6, <2>1 DEF Same
  <2> QED
    BY <2>2, RingStays DEF Stored
<1>8. FastSpots(T) = FastSpots(S) \ {FastEntry(id)} /\ FastEntry(id) \in FastSpots(S) /\ FastEntry(id) # FastList
  <2>1. \A x \in S : FastEntry(x) # FastList /\ (FastEntry(x) = FastEntry(id) <=> x = id)
    BY DEF FastEntry, FastList
  <2>2. FastSpots(T) = {FastList} \cup {FastEntry(x) : x \in T}
        /\ FastSpots(S) = {FastList} \cup {FastEntry(x) : x \in S}
    BY Zenon DEF FastSpots, FastEntry, Linked
  <2>3. \A x : x \in T <=> x \in S /\ x # id
    BY <1>3
  <2> QED
    BY <2>1, <2>2, <2>3, SMTT(30)
<1>9. PICK Q : Q = Unlink(P, FastEntry(id))
  OBVIOUS
<1>10. /\ Q \in Pointers /\ OnRing(Q, FastList, FastSpots(T))
       /\ Same(P, Q, Spots \ FastSpots(S))
  <2>1. FastSpots(S) \subseteq Spots
    BY SpotsAre
  <2>2. /\ Unlink(P, FastEntry(id)) \in Pointers
        /\ OnRing(Unlink(P, FastEntry(id)), FastList, FastSpots(S) \ {FastEntry(id)})
        /\ Same(P, Unlink(P, FastEntry(id)), Spots \ FastSpots(S))
    BY <1>6, <1>7, <1>8, <2>1, UnlinkFromRing
  <2> QED
    BY <1>8, <1>9, <2>2
<1>11. OnRing(Q, BurketAt(b), BurketSpots(T, b))
  <2>1. BurketSpots(T, b) \subseteq Spots \ FastSpots(S)
    <3>1. BurketSpots(T, b) \cap FastSpots(S) = {}
      BY SpotsApart
    <3> QED
      BY <3>1, SpotsAre
  <2>2. Same(P, Q, BurketSpots(T, b))
    BY <1>10, <2>1 DEF Same
  <2> QED
    BY <1>6, <2>2, RingStays
<1>12. ASSUME NEW c \in Burkets, c # b
       PROVE  OnRing(Q, BurketAt(c), BurketSpots(T, c))
  <2>1. BurketSpots(T, c) = BurketSpots(S, c)
    BY <1>1, <1>3, <1>12 DEF BurketSpots, BurketOf
  <2>2. BurketSpots(S, c) \subseteq Spots \ FastSpots(S) /\ BurketSpots(S, c) \subseteq Spots \ BurketSpots(S, b)
    <3>1. BurketSpots(S, c) \cap FastSpots(S) = {} /\ BurketSpots(S, c) \cap BurketSpots(S, b) = {}
      BY <1>12, SpotsApart
    <3> QED
      BY <3>1, SpotsAre
  <2>3. Same(L, Q, BurketSpots(S, c))
    BY <1>6, <1>10, <2>2 DEF Same
  <2>4. OnRing(L, BurketAt(c), BurketSpots(S, c))
    BY DEF Stored
  <2> QED
    BY <2>1, <2>3, <2>4, RingStays
<1>13. Same(L, Q, BrotherSpots(Ids))
  <2>1. BrotherSpots(Ids) \subseteq Spots \ FastSpots(S) /\ BrotherSpots(Ids) \subseteq Spots \ BurketSpots(S, b)
    <3>1. BurketSpots(S, b) \cap BrotherSpots(Ids) = {} /\ FastSpots(S) \cap BrotherSpots(Ids) = {}
      BY SpotsApart
    <3> QED
      BY <3>1, SpotsAre
  <2> QED
    BY <1>6, <1>10, <2>1 DEF Same
<1> QED
  <2>1. Stored(Q, T)
    BY <1>10, <1>11, <1>12 DEF Stored
  <2> QED
    BY <1>2, <1>3, <1>9, <1>10, <1>13, <2>1

(* The relations of nodes do not matter to where they are stored.           *)
LEMMA StoreStays ==
    ASSUME HashtableConstants, NEW L, NEW S \in SUBSET Ids, Stored(L, S), NEW M,
           NEW X, X \subseteq BrotherSpots(Ids), Same(L, M, Spots \ X)
    PROVE  Stored(M, S)
<1>1. OnRing(M, FastList, FastSpots(S))
  <2>1. FastSpots(S) \subseteq Spots \ X
    <3>1. FastSpots(S) \cap BrotherSpots(Ids) = {}
      BY SpotsApart
    <3> QED
      BY <3>1, SpotsAre
  <2>2. Same(L, M, FastSpots(S))
    BY <2>1 DEF Same
  <2> QED
    BY <2>2, RingStays DEF Stored
<1>2. ASSUME NEW c \in Burkets
      PROVE  OnRing(M, BurketAt(c), BurketSpots(S, c))
  <2>1. BurketSpots(S, c) \subseteq Spots \ X
    <3>1. BurketSpots(S, c) \cap BrotherSpots(Ids) = {}
      BY SpotsApart
    <3> QED
      BY <3>1, SpotsAre
  <2>2. Same(L, M, BurketSpots(S, c))
    BY <2>1 DEF Same
  <2> QED
    BY <2>2, RingStays DEF Stored
<1> QED
  BY <1>1, <1>2 DEF Stored

(* What the table finds, lists and counts are the nodes that are stored.    *)
LEMMA StoredFound ==
    ASSUME HashtableConstants, NEW S \in SUBSET Ids, Stored(rings, S)
    PROVE  \A id \in Ids : Search(id) <=> id \in S
<1> SUFFICES ASSUME NEW id \in Ids PROVE Search(id) <=> id \in S
  OBVIOUS
<1>1. PICK b \in Burkets : b = id % NumberOfBurkets /\ Burket(id) = BurketAt(b)
  BY BurketOfId
<1>2. PICK B \in SUBSET Ids : B = BurketOf(S, b)
  BY DEF BurketOf
<1>3. PICK head \in Spots : head = BurketAt(b)
  BY SpotsAre
<1>4. Linked("Entry", B) \subseteq Spots /\ head \notin Linked("Entry", B)
  <2>1. head \notin Linked("Entry", B)
    BY <1>3 DEF BurketAt, Linked
  <2> QED
    BY <2>1, SpotsAre
<1>5. IsRing(rings["Flink"], rings["Blink"], head, {head} \cup Linked("Entry", B))
  BY <1>2, <1>3 DEF Stored, OnRing, BurketSpots
<1>6. IdsIn(Ring("Flink", head, head)) = B
  BY <1>4, <1>5, RingIds DEF HashtableConstants, Lists
<1>7. Search(id) <=> id \in B
  BY <1>1, <1>3, <1>6 DEF Search
<1> QED
  BY <1>1, <1>2, <1>7 DEF BurketOf

LEMMA StoredHeld ==
    ASSUME HashtableConstants, NEW S \in SUBSET Ids, Stored(rings, S)
    PROVE  Held = S
BY StoredFound DEF Held

LEMMA StoredFast ==
    ASSUME HashtableConstants, NEW S \in SUBSET Ids, Stored(rings, S)
    PROVE  /\ IdsIn(Fast) = S /\ Len(Fast) = Cardinality(S)
           /\ \A i \in DOMAIN Fast : Ring("Blink", FastList, FastList)[i] = Fast[Len(Fast) + 1 - i]
<1>1. FastList \in Spots /\ Linked("FastEntry", S) \subseteq Spots
  BY SpotsAre
<1>2. FastList \notin Linked("FastEntry", S)
  BY DEF FastList, Linked
<1>3. IsRing(rings["Flink"], rings["Blink"], FastList, {FastList} \cup Linked("FastEntry", S))
  BY DEF Stored, OnRing, FastSpots
<1>4. IsFiniteSet(Ids)
  BY DEF HashtableConstants
<1>5. Lists(FastList, S)
  BY <1>1, <1>2, <1>3, <1>4, RingIds
<1> QED
  BY <1>5, Zenon DEF Fast, Lists

----------------------------------------------------------------------------
(* The rings of brothers.                                                   *)

Kids(fam, p) == {c \in Ids : fam["Parent"][c] = p}
Nowhere == {NOBODY, WILD}
Relations == [{"Child", "Parent"} -> [Ids -> Ids \cup Nowhere]]

Together(L, fam, S) ==
    /\ fam \in Relations
    /\ \A c \in Ids : fam["Parent"][c] # NOBODY => c \in S /\ fam["Parent"][c] \in S
    /\ \A c \in Ids : fam["Parent"][c] = NOBODY => Alone(L, BrotherEntry(c))
    /\ \A p \in Ids : fam["Child"][p] = NOBODY => Kids(fam, p) = {}
    /\ \A p \in Ids : fam["Child"][p] \notin Nowhere => fam["Child"][p] \in Kids(fam, p)
    /\ \A p \in Ids : \A c \in Kids(fam, p) : OnRing(L, BrotherEntry(c), BrotherSpots(Kids(fam, p)))

LEMMA BrothersAre ==
    ASSUME HashtableConstants
    PROVE  /\ \A c \in Ids : BrotherEntry(c) \in BrotherSpots(Ids) /\ BrotherEntry(c) \in Spots
           /\ \A S \in SUBSET Ids : BrotherSpots(S) \subseteq BrotherSpots(Ids)
           /\ \A c, S : BrotherEntry(c) \in BrotherSpots(S) <=> c \in S
           /\ \A c, S : BrotherSpots(S \cup {c}) = BrotherSpots(S) \cup {BrotherEntry(c)}
           /\ \A c, S : BrotherSpots(S \ {c}) = BrotherSpots(S) \ {BrotherEntry(c)}
           /\ \A S, T : S \cap T = {} => BrotherSpots(S) \cap BrotherSpots(T) = {}
<1>1. \A c \in Ids : BrotherEntry(c) \in BrotherSpots(Ids)
  BY DEF BrotherEntry, BrotherSpots, Linked
<1>2. BrotherSpots(Ids) \subseteq Spots
  BY SpotsAre
<1>3. \A S \in SUBSET Ids : BrotherSpots(S) \subseteq BrotherSpots(Ids)
  BY DEF BrotherSpots, Linked
<1>4. \A c, S : BrotherEntry(c) \in BrotherSpots(S) <=> c \in S
  BY DEF BrotherEntry, BrotherSpots, Linked
<1>5. \A c, S : BrotherSpots(S \cup {c}) = BrotherSpots(S) \cup {BrotherEntry(c)}
  BY DEF BrotherEntry, BrotherSpots, Linked
<1>6. \A c, S : BrotherSpots(S \ {c}) = BrotherSpots(S) \ {BrotherEntry(c)}
  BY DEF BrotherEntry, BrotherSpots, Linked
<1>7. \A S, T : S \cap T = {} => BrotherSpots(S) \cap BrotherSpots(T) = {}
  BY DEF BrotherSpots, Linked
<1> QED
  BY <1>1, <1>2, <1>3, <1>4, <1>5, <1>6, <1>7

LEMMA TogetherStays ==
    ASSUME HashtableConstants, NEW L, NEW fam, NEW S, Together(L, fam, S),
           NEW M, Same(L, M, BrotherSpots(Ids)), NEW T,
           \A c \in Ids : fam["Parent"][c] # NOBODY => c \in T /\ fam["Parent"][c] \in T
    PROVE  Together(M, fam, T)
<1>1. ASSUME NEW c \in Ids, fam["Parent"][c] = NOBODY
      PROVE  Alone(M, BrotherEntry(c))
  <2>1. Alone(L, BrotherEntry(c))
    BY <1>1 DEF Together
  <2>2. BrotherEntry(c) \in BrotherSpots(Ids)
    BY BrothersAre
  <2> QED
    BY <2>1, <2>2 DEF Same, Alone
<1>2. ASSUME NEW p \in Ids, NEW c \in Kids(fam, p)
      PROVE  OnRing(M, BrotherEntry(c), BrotherSpots(Kids(fam, p)))
  <2>1. OnRing(L, BrotherEntry(c), BrotherSpots(Kids(fam, p)))
    BY DEF Together
  <2>2. Same(L, M, BrotherSpots(Kids(fam, p)))
    <3>1. BrotherSpots(Kids(fam, p)) \subseteq BrotherSpots(Ids)
      BY BrothersAre DEF Kids
    <3> QED
      BY <3>1 DEF Same
  <2> QED
    BY <2>1, <2>2, RingStays
<1> QED
  BY <1>1, <1>2 DEF Together

(* The rings of other parents' children, and children without a parent.     *)
LEMMA OthersStay ==
    ASSUME HashtableConstants, NEW L, NEW fam, NEW S, Together(L, fam, S), NEW M,
           NEW p \in Ids, NEW X \in SUBSET Ids, Same(L, M, Spots \ BrotherSpots(X)),
           \A c \in X : fam["Parent"][c] \in {p, NOBODY}
    PROVE  /\ \A c \in Ids \ X : fam["Parent"][c] = NOBODY => Alone(M, BrotherEntry(c))
           /\ \A d \in Ids \ {p} : \A c \in Kids(fam, d) :
                 OnRing(M, BrotherEntry(c), BrotherSpots(Kids(fam, d)))
<1>1. ASSUME NEW c \in Ids \ X, fam["Parent"][c] = NOBODY
      PROVE  Alone(M, BrotherEntry(c))
  <2>1. Alone(L, BrotherEntry(c))
    BY <1>1 DEF Together
  <2>2. BrotherEntry(c) \in Spots \ BrotherSpots(X)
    BY BrothersAre
  <2> QED
    BY <2>1, <2>2 DEF Same, Alone
<1>2. ASSUME NEW d \in Ids \ {p}, NEW c \in Kids(fam, d)
      PROVE  OnRing(M, BrotherEntry(c), BrotherSpots(Kids(fam, d)))
  <2>1. OnRing(L, BrotherEntry(c), BrotherSpots(Kids(fam, d)))
    BY DEF Together
  <2>2. Kids(fam, d) \cap X = {}
    <3>1. NOBODY \notin Ids
      BY DEF HashtableConstants
    <3> QED
      BY <3>1 DEF Kids
  <2>3. BrotherSpots(Kids(fam, d)) \subseteq Spots \ BrotherSpots(X)
    <3>1. BrotherSpots(Kids(fam, d)) \cap BrotherSpots(X) = {}
      BY <2>2, BrothersAre
    <3>2. BrotherSpots(Kids(fam, d)) \subseteq Spots
      BY SpotsAre DEF Kids
    <3> QED
      BY <3>1, <3>2
  <2>4. Same(L, M, BrotherSpots(Kids(fam, d)))
    BY <2>3 DEF Same
  <2> QED
    BY <2>1, <2>4, RingStays
<1> QED
  BY <1>1, <1>2

(* A brother comes to stand behind another one on its ring.                 *)
LEMMA BrotherLinked ==
    ASSUME HashtableConstants, NEW L \in Pointers, NEW K \in SUBSET Ids,
           NEW first \in K, NEW child \in Ids, child \notin K,
           OnRing(L, BrotherEntry(first), BrotherSpots(K))
    PROVE  LET M == LinkIn(L, BrotherEntry(child), BrotherEntry(first))
               T == BrotherSpots(K) \cup {BrotherEntry(child)}
           IN  /\ M \in Pointers
               /\ OnRing(M, BrotherEntry(first), T)
               /\ Same(L, M, Spots \ T)
               /\ Follows(M, BrotherEntry(first), BrotherEntry(child))
<1>1. PICK R \in SUBSET Spots : R = BrotherSpots(K)
  BY SpotsAre
<1>2. PICK x \in Spots : x = BrotherEntry(child)
  BY BrothersAre
<1>3. PICK y \in R : y = BrotherEntry(first)
  BY <1>1, BrothersAre
<1>4. x \notin R
  BY <1>1, <1>2, BrothersAre
<1>5. OnRing(L, y, R)
  BY <1>1, <1>3
<1>6. /\ LinkIn(L, x, y) \in Pointers
      /\ OnRing(LinkIn(L, x, y), y, R \cup {x})
      /\ Same(L, LinkIn(L, x, y), Spots \ (R \cup {x}))
  BY <1>4, <1>5, LinkInRing
<1>7. Follows(LinkIn(L, x, y), y, x)
  BY <1>4, <1>5, LinkInRing
<1> QED
  BY <1>1, <1>2, <1>3, <1>6, <1>7

LEMMA AddsChild ==
    ASSUME HashtableConstants, NEW L \in Pointers, NEW fam, NEW S \in SUBSET Ids, Together(L, fam, S),
           NEW parent \in S, NEW child \in S, fam["Parent"][child] = NOBODY,
           NEW first, first = fam["Child"][parent], first # WILD,
           NEW list, list = IF first = NOBODY THEN child ELSE first,
           NEW M, M = LinkIn(L, BrotherEntry(child), BrotherEntry(list)),
           NEW fam2, fam2 = [fam EXCEPT !["Child"] = [@ EXCEPT ![parent] = child],
                                        !["Parent"] = [@ EXCEPT ![child] = parent]]
    PROVE  M \in Pointers /\ Same(L, M, Spots \ BrotherSpots(Ids)) /\ Together(M, fam2, S)
<1>1. /\ fam2 \in Relations
      /\ fam2["Child"] = [fam["Child"] EXCEPT ![parent] = child]
      /\ fam2["Parent"] = [fam["Parent"] EXCEPT ![child] = parent]
  BY DEF Together, Relations
<1>2. PICK oldC, newC \in [Ids -> Ids \cup Nowhere] : oldC = fam["Child"] /\ newC = fam2["Child"]
  BY <1>1 DEF Together, Relations
<1>3. PICK oldP, newP \in [Ids -> Ids \cup Nowhere] : oldP = fam["Parent"] /\ newP = fam2["Parent"]
  BY <1>1 DEF Together, Relations
<1>4. newC = [oldC EXCEPT ![parent] = child] /\ newP = [oldP EXCEPT ![child] = parent]
      /\ oldP[child] = NOBODY /\ first = oldC[parent] /\ parent \in Ids /\ child \in Ids
  BY <1>1, <1>2, <1>3
<1>5. PICK K \in SUBSET Ids : K = Kids(fam, parent)
  BY DEF Kids
<1>6. NOBODY \notin Ids /\ WILD \notin Ids
  BY DEF HashtableConstants
<1>7. child \notin K
  BY <1>3, <1>4, <1>5, <1>6 DEF Kids
<1>8. Kids(fam2, parent) = K \cup {child} /\ \A d \in Ids \ {parent} : Kids(fam2, d) = Kids(fam, d)
  <2>1. \A d : Kids(fam2, d) = {c \in Ids : newP[c] = d} /\ Kids(fam, d) = {c \in Ids : oldP[c] = d}
    BY <1>3 DEF Kids
  <2>2. \A c \in Ids : newP[c] = IF c = child THEN parent ELSE oldP[c]
    BY <1>3, <1>4
  <2>3. \A c \in Ids : newP[c] = parent <=> c \in K \/ c = child
    BY <1>4, <1>5, <2>1, <2>2
  <2>4. Kids(fam2, parent) = K \cup {child}
    <3>1. {c \in Ids : newP[c] = parent} = K \cup {child}
      BY <1>4, <2>3
    <3> QED
      BY <2>1, <3>1
  <2>5. ASSUME NEW d \in Ids \ {parent}
        PROVE  Kids(fam2, d) = Kids(fam, d)
    <3>1. \A c \in Ids : newP[c] = d <=> oldP[c] = d
      BY <1>4, <1>6, <2>2
    <3>2. {c \in Ids : newP[c] = d} = {c \in Ids : oldP[c] = d}
      BY <3>1
    <3> QED
      BY <2>1, <3>2
  <2> QED
    BY <2>4, <2>5
<1>9. /\ M \in Pointers /\ OnRing(M, BrotherEntry(child), BrotherSpots(K \cup {child}))
      /\ Same(L, M, Spots \ BrotherSpots(K \cup {child}))
  <2>1. CASE first = NOBODY
    <3>1. K = {} /\ list = child
      BY <1>2, <1>4, <1>5, <2>1 DEF Together
    <3>2. Alone(L, BrotherEntry(child)) /\ BrotherEntry(child) \in Spots
      BY <1>4, BrothersAre DEF Together
    <3>3. M = L
      BY <3>1, <3>2, LinkInAlone
    <3>4. BrotherSpots(K \cup {child}) = {BrotherEntry(child)}
      BY <3>1 DEF BrotherSpots, Linked, BrotherEntry
    <3>5. OnRing(L, BrotherEntry(child), {BrotherEntry(child)})
      BY <3>2, RingOfOne DEF Alone, OnRing
    <3> QED
      BY <3>3, <3>4, <3>5 DEF Same
  <2>2. CASE first # NOBODY
    <3>1. list = first /\ first \in K /\ OnRing(L, BrotherEntry(first), BrotherSpots(K))
      BY <1>2, <1>4, <1>5, <2>2 DEF Together, Nowhere
    <3>2. BrotherSpots(K) \subseteq Spots /\ BrotherEntry(first) \in BrotherSpots(K)
          /\ BrotherEntry(child) \in Spots /\ BrotherEntry(child) \notin BrotherSpots(K)
      BY <1>4, <1>7, <3>1, BrothersAre, SpotsAre
    <3>3. child \in Ids /\ child \notin K
      BY <1>4, <1>7
    <3>4. /\ M \in Pointers
          /\ OnRing(M, BrotherEntry(first), BrotherSpots(K) \cup {BrotherEntry(child)})
          /\ Same(L, M, Spots \ (BrotherSpots(K) \cup {BrotherEntry(child)}))
          /\ Follows(M, BrotherEntry(first), BrotherEntry(child))
      BY <3>1, <3>3, BrotherLinked
    <3>5. OnRing(M, BrotherEntry(child), BrotherSpots(K) \cup {BrotherEntry(child)})
      BY <3>4, RingFromNext DEF OnRing, Follows
    <3>6. BrotherSpots(K \cup {child}) = BrotherSpots(K) \cup {BrotherEntry(child)}
      BY BrothersAre
    <3> QED
      BY <3>4, <3>5, <3>6
  <2> QED
    BY <2>1, <2>2
<1>10. Same(L, M, Spots \ BrotherSpots(Ids))
  <2>1. BrotherSpots(K \cup {child}) \subseteq BrotherSpots(Ids)
    BY <1>4, BrothersAre
  <2> QED
    BY <1>9, <2>1 DEF Same
<1>11. /\ \A c \in Ids \ (K \cup {child}) : fam["Parent"][c] = NOBODY => Alone(M, BrotherEntry(c))
       /\ \A d \in Ids \ {parent} : \A c \in Kids(fam, d) :
             OnRing(M, BrotherEntry(c), BrotherSpots(Kids(fam, d)))
  <2>1. PICK X \in SUBSET Ids : X = K \cup {child}
    <3>1. K \cup {child} \in SUBSET Ids
      BY <1>4
    <3> QED
      BY <3>1, Zenon
  <2>2. \A c \in X : fam["Parent"][c] \in {parent, NOBODY}
    BY <1>4, <1>5, <2>1 DEF Kids
  <2>3. Same(L, M, Spots \ BrotherSpots(X)) /\ parent \in Ids
    BY <1>4, <1>9, <2>1
  <2>4. /\ \A c \in Ids \ X : fam["Parent"][c] = NOBODY => Alone(M, BrotherEntry(c))
        /\ \A d \in Ids \ {parent} : \A c \in Kids(fam, d) :
              OnRing(M, BrotherEntry(c), BrotherSpots(Kids(fam, d)))
    BY <2>2, <2>3, OthersStay
  <2> QED
    BY <2>1, <2>4
<1>12. ASSUME NEW c \in Ids, newP[c] # NOBODY
       PROVE  c \in S /\ newP[c] \in S
  <2>1. oldP[c] # NOBODY => c \in S /\ oldP[c] \in S
    BY <1>3 DEF Together
  <2> QED
    BY <1>4, <1>12, <2>1
<1>13. ASSUME NEW c \in Ids, newP[c] = NOBODY
       PROVE  Alone(M, BrotherEntry(c))
  <2>1. c # child /\ oldP[c] = NOBODY
    BY <1>4, <1>6, <1>13
  <2>2. c \notin K
    BY <1>3, <1>4, <1>5, <1>6, <2>1 DEF Kids
  <2> QED
    BY <1>3, <1>11, <2>1, <2>2
<1>14. ASSUME NEW d \in Ids, newC[d] = NOBODY PROVE Kids(fam2, d) = {}
  <2>1. d # parent /\ oldC[d] = NOBODY
    BY <1>4, <1>6, <1>14
  <2> QED
    BY <1>2, <1>8, <2>1 DEF Together
<1>15. ASSUME NEW d \in Ids, newC[d] \notin Nowhere PROVE newC[d] \in Kids(fam2, d)
  <2>1. CASE d = parent
    BY <1>4, <1>8, <2>1
  <2>2. CASE d # parent
    <3>1. newC[d] = oldC[d]
      BY <1>4, <2>2
    <3> QED
      BY <1>2, <1>8, <1>15, <2>2, <3>1 DEF Together
  <2> QED
    BY <2>1, <2>2
<1>17. ASSUME NEW d \in Ids, NEW c \in Kids(fam2, d)
       PROVE  OnRing(M, BrotherEntry(c), BrotherSpots(Kids(fam2, d)))
  <2>1. CASE d = parent
    <3>3. c \in K \cup {child}
      BY <1>8, <2>1
    <3>1. BrotherEntry(c) \in BrotherSpots(K \cup {child})
      BY <3>3, BrothersAre
    <3>2. OnRing(M, BrotherEntry(c), BrotherSpots(K \cup {child}))
      BY <1>9, <3>1, RingAround DEF OnRing
    <3> QED
      BY <1>8, <2>1, <3>2
  <2>2. CASE d # parent
    BY <1>8, <1>11, <2>2
  <2> QED
    BY <2>1, <2>2
<1>16. Together(M, fam2, S)
  BY <1>1, <1>2, <1>3, <1>12, <1>13, <1>14, <1>15, <1>17 DEF Together
<1> QED
  BY <1>9, <1>10, <1>16

(* A brother leaves the ring of another one.                                *)
LEMMA BrotherUnlinked ==
    ASSUME HashtableConstants, NEW L \in Pointers, NEW K \in SUBSET Ids,
           NEW first \in K, NEW child \in K, child # first,
           OnRing(L, BrotherEntry(first), BrotherSpots(K))
    PROVE  /\ Unlink(L, BrotherEntry(child)) \in Pointers
           /\ OnRing(Unlink(L, BrotherEntry(child)), BrotherEntry(first),
                     BrotherSpots(K) \ {BrotherEntry(child)})
           /\ Same(L, Unlink(L, BrotherEntry(child)), Spots \ BrotherSpots(K))
           /\ Alone(Unlink(L, BrotherEntry(child)), BrotherEntry(child))
<1>1. PICK R \in SUBSET Spots : R = BrotherSpots(K)
  BY SpotsAre
<1>2. PICK x \in R : x = BrotherEntry(child)
  BY <1>1, BrothersAre
<1>3. x # BrotherEntry(first)
  BY <1>2 DEF BrotherEntry
<1>4. OnRing(L, BrotherEntry(first), R)
  BY <1>1
<1>5. /\ Unlink(L, x) \in Pointers
      /\ OnRing(Unlink(L, x), BrotherEntry(first), R \ {x})
      /\ Same(L, Unlink(L, x), Spots \ R)
      /\ Alone(Unlink(L, x), x)
  BY <1>3, <1>4, UnlinkFromRing, SMTT(40)
<1> QED
  BY <1>1, <1>2, <1>5

Loses(L, fam, S, parent, child, left, fam2) ==
    /\ L \in Pointers /\ Together(L, fam, S) /\ S \in SUBSET Ids /\ parent \in S /\ child \in S
    /\ fam["Parent"][child] \in {parent, NOBODY}
    /\ left = IF fam["Child"][parent] # child THEN fam["Child"][parent]
              ELSE IF L["Flink"][BrotherEntry(child)] = BrotherEntry(child) THEN NOBODY ELSE WILD
    /\ fam2 \in Relations
    /\ \A c \in Ids : /\ fam2["Child"][c] = IF c = parent THEN left ELSE fam["Child"][c]
                      /\ fam2["Parent"][c] = IF c = child THEN NOBODY ELSE fam["Parent"][c]

LEMMA ChildLost ==
    ASSUME HashtableConstants, NEW L, NEW fam, NEW S, NEW parent, NEW child, NEW left, NEW fam2,
           Loses(L, fam, S, parent, child, left, fam2), NEW M, M = Unlink(L, BrotherEntry(child))
    PROVE  M \in Pointers /\ Same(L, M, Spots \ BrotherSpots(Ids)) /\ Together(M, fam2, S)
<1>0. /\ L \in Pointers /\ Together(L, fam, S) /\ S \in SUBSET Ids /\ parent \in S /\ child \in S
      /\ fam["Parent"][child] \in {parent, NOBODY}
      /\ left = IF fam["Child"][parent] # child THEN fam["Child"][parent]
                ELSE IF L["Flink"][BrotherEntry(child)] = BrotherEntry(child) THEN NOBODY ELSE WILD
      /\ fam2 \in Relations
      /\ \A c \in Ids : /\ fam2["Child"][c] = IF c = parent THEN left ELSE fam["Child"][c]
                        /\ fam2["Parent"][c] = IF c = child THEN NOBODY ELSE fam["Parent"][c]
  BY DEF Loses
<1> USE <1>0
<1>1. /\ fam2 \in Relations
      /\ fam2["Child"] = [fam["Child"] EXCEPT ![parent] = left]
      /\ fam2["Parent"] = [fam["Parent"] EXCEPT ![child] = NOBODY]
  <2>1. PICK f, g \in [Ids -> Ids \cup Nowhere] : f = fam["Child"] /\ g = fam2["Child"]
    BY DEF Together, Relations
  <2>2. g = [f EXCEPT ![parent] = left]
    BY <2>1
  <2>3. PICK p, q \in [Ids -> Ids \cup Nowhere] : p = fam["Parent"] /\ q = fam2["Parent"]
    BY DEF Together, Relations
  <2>4. q = [p EXCEPT ![child] = NOBODY]
    BY <2>3
  <2> QED
    BY <2>1, <2>2, <2>3, <2>4
<1>2. PICK oldC, newC \in [Ids -> Ids \cup Nowhere] : oldC = fam["Child"] /\ newC = fam2["Child"]
  BY <1>1 DEF Together, Relations
<1>3. PICK oldP, newP \in [Ids -> Ids \cup Nowhere] : oldP = fam["Parent"] /\ newP = fam2["Parent"]
  BY <1>1 DEF Together, Relations
<1>4. /\ parent \in Ids /\ child \in Ids /\ NOBODY \notin Ids /\ WILD \notin Ids /\ WILD # NOBODY
      /\ oldP[child] \in {parent, NOBODY}
  BY <1>3 DEF HashtableConstants
<1>5. \A d \in Ids : newC[d] = IF d = parent THEN left ELSE oldC[d]
  BY <1>1, <1>2, <1>4
<1>6. \A c \in Ids : newP[c] = IF c = child THEN NOBODY ELSE oldP[c]
  BY <1>1, <1>3, <1>4
<1>7. PICK K \in SUBSET Ids : K = Kids(fam, parent)
  BY DEF Kids
<1>8. Kids(fam2, parent) = K \ {child} /\ \A d \in Ids \ {parent} : Kids(fam2, d) = Kids(fam, d)
  <2>1. \A d : Kids(fam2, d) = {c \in Ids : newP[c] = d} /\ Kids(fam, d) = {c \in Ids : oldP[c] = d}
    BY <1>3 DEF Kids
  <2>2. \A c \in Ids : newP[c] = parent <=> c \in K /\ c # child
    BY <1>4, <1>6, <1>7, <2>1
  <2>3. {c \in Ids : newP[c] = parent} = K \ {child}
    BY <1>4, <2>2
  <2>4. ASSUME NEW d \in Ids \ {parent}
        PROVE  {c \in Ids : newP[c] = d} = {c \in Ids : oldP[c] = d}
    <3>1. \A c \in Ids : newP[c] = d <=> oldP[c] = d
      BY <1>4, <1>6
    <3> QED
      BY <3>1
  <2> QED
    BY <2>1, <2>3, <2>4
<1>9. child \in K <=> oldP[child] = parent
  BY <1>3, <1>4, <1>7 DEF Kids
<1>10. /\ M \in Pointers /\ Alone(M, BrotherEntry(child))
       /\ Same(L, M, Spots \ BrotherSpots(K))
       /\ \A c \in K \ {child} : OnRing(M, BrotherEntry(c), BrotherSpots(K \ {child}))
       /\ left = NOBODY => K \ {child} = {}
       /\ left \notin Nowhere => left \in K \ {child}
  <2>0. /\ oldC[parent] = NOBODY => K = {}
        /\ oldC[parent] \notin Nowhere => oldC[parent] \in K
        /\ \A c \in K : OnRing(L, BrotherEntry(c), BrotherSpots(K))
        /\ BrotherEntry(child) \in Spots
        /\ left = IF oldC[parent] # child THEN oldC[parent]
                  ELSE IF L["Flink"][BrotherEntry(child)] = BrotherEntry(child) THEN NOBODY ELSE WILD
    BY <1>2, <1>4, <1>7, BrothersAre DEF Together
  <2>1. CASE oldP[child] = NOBODY
    <3>1. Alone(L, BrotherEntry(child))
      BY <1>3, <1>4, <2>1 DEF Together
    <3>2. M = L
      BY <2>0, <3>1, LinkInAlone
    <3>3. child \notin K /\ K \ {child} = K
      BY <1>4, <1>9, <2>1
    <3>4. oldC[parent] # child
      BY <1>4, <2>0, <3>3 DEF Nowhere
    <3> QED
      BY <2>0, <3>1, <3>2, <3>3, <3>4 DEF Same
  <2>2. CASE oldP[child] = parent /\ L["Flink"][BrotherEntry(child)] = BrotherEntry(child)
    <3>1. child \in K
      BY <1>9, <2>2
    <3>2. BrotherSpots(K) = {BrotherEntry(child)} /\ Alone(L, BrotherEntry(child))
      BY <2>0, <2>2, <3>1, OnlyOneOnRing DEF OnRing, Alone
    <3>3. K \ {child} = {}
      <4>1. ASSUME NEW c \in K PROVE c = child
        <5>1. BrotherEntry(c) \in BrotherSpots(K)
          BY BrothersAre
        <5> QED
          BY <3>2, <5>1 DEF BrotherEntry
      <4> QED
        BY <4>1
    <3>4. M = L
      BY <2>0, <3>2, LinkInAlone
    <3>5. left \in Nowhere
      BY <2>0, <2>2, <3>3 DEF Nowhere
    <3> QED
      BY <3>2, <3>3, <3>4, <3>5 DEF Same
  <2>3. CASE oldP[child] = parent /\ L["Flink"][BrotherEntry(child)] # BrotherEntry(child)
    <3>1. child \in K
      BY <1>9, <2>3
    <3>2. PICK x \in BrotherSpots(K) : x = L["Flink"][BrotherEntry(child)] /\ x # BrotherEntry(child)
      <4>1. BrotherEntry(child) \in BrotherSpots(K)
        BY <3>1, BrothersAre
      <4> QED
        BY <2>0, <2>3, <3>1, <4>1, RingNeighbours DEF OnRing
    <3>3. PICK other \in K : x = BrotherEntry(other)
      BY DEF BrotherSpots, Linked, BrotherEntry
    <3>4. other # child /\ OnRing(L, BrotherEntry(other), BrotherSpots(K))
      BY <2>0, <3>2, <3>3
    <3>5. PICK e, y : e = BrotherEntry(child) /\ y = BrotherEntry(other)
      OBVIOUS
    <3>6. /\ Unlink(L, e) \in Pointers
          /\ OnRing(Unlink(L, e), y, BrotherSpots(K) \ {e})
          /\ Same(L, Unlink(L, e), Spots \ BrotherSpots(K))
          /\ Alone(Unlink(L, e), e)
      BY <3>1, <3>4, <3>5, BrotherUnlinked
    <3>7. BrotherSpots(K \ {child}) = BrotherSpots(K) \ {e}
      BY <3>5, BrothersAre
    <3>8. ASSUME NEW c \in K \ {child}
          PROVE  OnRing(M, BrotherEntry(c), BrotherSpots(K \ {child}))
      <4>1. BrotherEntry(c) \in BrotherSpots(K \ {child})
        BY BrothersAre
      <4>2. OnRing(M, y, BrotherSpots(K \ {child}))
        BY <3>5, <3>6, <3>7
      <4> QED
        BY <4>1, <4>2, RingAround DEF OnRing
    <3>9. (left = NOBODY => K \ {child} = {}) /\ (left \notin Nowhere => left \in K \ {child})
      BY <1>4, <2>0, <2>3, <3>1 DEF Nowhere
    <3> QED
      BY <3>5, <3>6, <3>8, <3>9
  <2> QED
    BY <1>4, <2>1, <2>2, <2>3
<1>11. Same(L, M, Spots \ BrotherSpots(Ids))
  <2>1. BrotherSpots(K) \subseteq BrotherSpots(Ids)
    BY BrothersAre
  <2> QED
    BY <1>10, <2>1 DEF Same
<1>12. /\ \A c \in Ids \ K : fam["Parent"][c] = NOBODY => Alone(M, BrotherEntry(c))
       /\ \A d \in Ids \ {parent} : \A c \in Kids(fam, d) :
             OnRing(M, BrotherEntry(c), BrotherSpots(Kids(fam, d)))
  <2>1. \A c \in K : fam["Parent"][c] \in {parent, NOBODY}
    BY <1>7 DEF Kids
  <2> QED
    BY <1>4, <1>10, <2>1, OthersStay
<1>13. ASSUME NEW c \in Ids, newP[c] # NOBODY
       PROVE  c \in S /\ newP[c] \in S
  <2>1. c # child /\ newP[c] = oldP[c]
    BY <1>6, <1>13
  <2> QED
    BY <1>3, <1>13, <2>1 DEF Together
<1>14. ASSUME NEW c \in Ids, newP[c] = NOBODY
       PROVE  Alone(M, BrotherEntry(c))
  <2>1. CASE c = child
    BY <1>10, <2>1
  <2>2. CASE c # child
    <3>1. oldP[c] = NOBODY
      BY <1>6, <1>14, <2>2
    <3>2. c \notin K
      BY <1>3, <1>4, <1>7, <3>1 DEF Kids
    <3> QED
      BY <1>3, <1>12, <3>1, <3>2
  <2> QED
    BY <2>1, <2>2
<1>15. ASSUME NEW d \in Ids
       PROVE  /\ newC[d] = NOBODY => Kids(fam2, d) = {}
              /\ newC[d] \notin Nowhere => newC[d] \in Kids(fam2, d)
  <2>1. CASE d = parent
    BY <1>4, <1>5, <1>8, <1>10, <2>1
  <2>2. CASE d # parent
    <3>1. newC[d] = oldC[d]
      BY <1>5, <2>2
    <3> QED
      BY <1>2, <1>8, <2>2, <3>1 DEF Together
  <2> QED
    BY <2>1, <2>2
<1>16. ASSUME NEW d \in Ids, NEW c \in Kids(fam2, d)
       PROVE  OnRing(M, BrotherEntry(c), BrotherSpots(Kids(fam2, d)))
  <2>1. CASE d = parent
    BY <1>8, <1>10, <2>1
  <2>2. CASE d # parent
    BY <1>8, <1>12, <2>2
  <2> QED
    BY <2>1, <2>2
<1>17. Together(M, fam2, S)
  BY <1>1, <1>2, <1>3, <1>13, <1>14, <1>15, <1>16 DEF Together
<1> QED
  BY <1>10, <1>11, <1>17

----------------------------------------------------------------------------
(* The invariant: a set of nodes is stored and counted, and their families  *)
(* are together.                                                            *)

AtOne(e, S) == DOMAIN e = {"pNode", "rest"} /\ e["pNode"] \in S

TableIs(S) ==
    /\ rings \in Pointers
    /\ Stored(rings, S)
    /\ Together(rings, family, S)
    /\ DOMAIN content = Ids
    /\ NumberOfNode = Cardinality(S)
    /\ enum = NoEnum \/ AtOne(enum, S)

TableInv == \E S \in SUBSET Ids : TableIs(S)

(* What a step does to the nodes held and to what is found.                 *)
InsertsOne(S, T, id, data) ==
    \/ /\ id \notin S /\ T = S \cup {id} /\ content' = [content EXCEPT ![id] = data]
       /\ answer' = "ok"
    \/ T = S /\ content' = content /\ (answer' = "ENOMEM" \/ (id \in S /\ answer' = "EEXIST"))
RemovesOne(S, T, id) ==
    \/ /\ id \in S /\ T = S \ {id} /\ content' = [content EXCEPT ![id] = NOBODY]
       /\ answer' = "ok"
    \/ id \notin S /\ T = S /\ content' = content /\ answer' = "ENOENT"
Keeps == content' = content /\ answer' \in {answer, "ok", "fault"}

LEMMA EmptyTable ==
    ASSUME HashtableConstants,
           NEW L, L = [way \in {"Flink", "Blink"} |-> [x \in Spots |-> x]],
           NEW fam, fam = [f \in {"Child", "Parent"} |-> [id \in Ids |-> NOBODY]]
    PROVE  L \in Pointers /\ Stored(L, {}) /\ Together(L, fam, {}) /\ Cardinality({}) = 0
<1>1. L \in Pointers
  BY DEF Pointers
<1>2. \A x \in Spots : Alone(L, x)
  BY DEF Alone
<1>3. \A x \in Spots : OnRing(L, x, {x})
  BY <1>2, RingOfOne DEF Alone, OnRing
<1>4. Stored(L, {})
  <2>1. FastSpots({}) = {FastList} /\ \A b \in Burkets : BurketSpots({}, b) = {BurketAt(b)}
    BY DEF FastSpots, BurketSpots, BurketOf, Linked
  <2>2. FastList \in Spots /\ \A b \in Burkets : BurketAt(b) \in Spots
    BY SpotsAre
  <2> QED
    BY <1>3, <2>1, <2>2 DEF Stored
<1>5. Together(L, fam, {})
  <2>0. PICK none \in [Ids -> Ids \cup Nowhere] : none = [id \in Ids |-> NOBODY]
    BY DEF Nowhere
  <2>1. fam \in Relations /\ \A c \in Ids : fam["Parent"][c] = NOBODY /\ fam["Child"][c] = NOBODY
    BY <2>0 DEF Relations
  <2>2. \A c \in Ids : Alone(L, BrotherEntry(c))
    BY <1>2, BrothersAre
  <2>3. NOBODY \notin Ids
    BY DEF HashtableConstants
  <2>4. \A p \in Ids : Kids(fam, p) = {}
    BY <2>1, <2>3 DEF Kids
  <2>5. \A p \in Ids : fam["Child"][p] \in Nowhere
    BY <2>1 DEF Nowhere
  <2> QED
    BY <2>1, <2>2, <2>4, <2>5 DEF Together
<1>6. Cardinality({}) = 0
  BY FS_EmptySet
<1> QED
  BY <1>1, <1>4, <1>5, <1>6

LEMMA TableStarts ==
    ASSUME HashtableConstants, TableInit
    PROVE  TableIs({})
<1>1. rings \in Pointers /\ Stored(rings, {}) /\ Together(rings, family, {}) /\ Cardinality({}) = 0
  BY EmptyTable DEF TableInit
<1> QED
  BY <1>1 DEF TableIs, TableInit

LEMMA TableInserts ==
    ASSUME HashtableConstants, NEW S \in SUBSET Ids, TableIs(S),
           NEW id \in Ids, NEW data \in DataOf(id), InsertHashEntry(id, data)
    PROVE  \E T \in SUBSET Ids : TableIs(T)' /\ InsertsOne(S, T, id, data)
<1>1. Search(id) <=> id \in S
  BY StoredFound DEF TableIs
<1>2. CASE UNCHANGED <<rings, content, NumberOfNode>> /\ (answer' = "ENOMEM" \/ (Search(id) /\ answer' = "EEXIST"))
  <2>1. TableIs(S)'
    BY <1>2 DEF TableIs, InsertHashEntry
  <2>2. InsertsOne(S, S, id, data)
    BY <1>1, <1>2 DEF InsertsOne
  <2> QED
    BY <2>1, <2>2
<1>3. CASE /\ ~Search(id)
           /\ rings' = LinkIn(LinkIn(rings, Entry(id), Burket(id)), FastEntry(id), FastList)
           /\ content' = [content EXCEPT ![id] = data]
           /\ NumberOfNode' = NumberOfNode + 1
           /\ answer' = "ok"
  <2>1. PICK T \in SUBSET Ids : T = S \cup {id}
    OBVIOUS
  <2>2. rings' \in Pointers /\ Stored(rings', T) /\ Same(rings, rings', BrotherSpots(Ids))
    BY <1>1, <1>3, <2>1, StoreOne DEF TableIs
  <2>3. Together(rings', family, T)
    <3>1. Together(rings, family, S) /\ S \subseteq T
      BY <2>1 DEF TableIs
    <3>2. \A c \in Ids : family["Parent"][c] # NOBODY => c \in T /\ family["Parent"][c] \in T
      BY <3>1 DEF Together
    <3> QED
      BY <2>2, <3>1, <3>2, TogetherStays
  <2>4. NumberOfNode' = Cardinality(T)
    <3>1. IsFiniteSet(S)
      BY FS_Subset DEF HashtableConstants
    <3> QED
      BY <1>1, <1>3, <2>1, <3>1, FS_AddElement DEF TableIs
  <2>5. TableIs(T)'
    BY <1>3, <2>1, <2>2, <2>3, <2>4 DEF TableIs, InsertHashEntry, AtOne
  <2>6. InsertsOne(S, T, id, data)
    BY <1>1, <1>3, <2>1 DEF InsertsOne
  <2> QED
    BY <2>5, <2>6
<1> QED
  BY <1>2, <1>3 DEF InsertHashEntry

(* A node without relations is taken out.                                   *)
LEMMA TableDiscards ==
    ASSUME HashtableConstants, NEW S \in SUBSET Ids, TableIs(S),
           NEW id \in S, Single(id), Discard(id), answer' = "ok",
           enum' = NoEnum \/ AtOne(enum', S \ {id})
    PROVE  TableIs(S \ {id})' /\ RemovesOne(S, S \ {id}, id)
<1>1. PICK T \in SUBSET Ids : T = S \ {id}
  OBVIOUS
<1>2. rings' \in Pointers /\ Stored(rings', T) /\ Same(rings, rings', BrotherSpots(Ids))
  BY <1>1, StoreLess DEF TableIs, Discard
<1>3. Together(rings', family', T)
  <2>1. Together(rings, family, S)
    BY DEF TableIs
  <2>2. Kids(family, id) = {} /\ family["Parent"][id] = NOBODY
    BY DEF Kids, Single
  <2>3. \A c \in Ids : family["Parent"][c] # NOBODY => c \in T /\ family["Parent"][c] \in T
    BY <1>1, <2>1, <2>2 DEF Together, Kids
  <2>4. Together(rings', family, T)
    BY <1>2, <2>1, <2>3, TogetherStays
  <2>5. PICK old, new : old = family /\ new = family'
    OBVIOUS
  <2>6. /\ new \in Relations /\ new["Parent"] = old["Parent"]
        /\ new["Child"] = [old["Child"] EXCEPT ![id] = NOBODY]
    BY <2>4, <2>5 DEF Together, Relations, Nowhere, Discard
  <2>7. \A p : Kids(new, p) = Kids(old, p)
    BY <2>6 DEF Kids
  <2>8. PICK oldC, newC \in [Ids -> Ids \cup Nowhere] : oldC = old["Child"] /\ newC = new["Child"]
    BY <2>4, <2>5, <2>6 DEF Together, Relations
  <2>9. \A p \in Ids : newC[p] = IF p = id THEN NOBODY ELSE oldC[p]
    BY <2>6, <2>8
  <2>10. \A p \in Ids : /\ newC[p] = NOBODY => Kids(new, p) = {}
                        /\ newC[p] \notin Nowhere => newC[p] \in Kids(new, p)
    BY <2>2, <2>4, <2>5, <2>7, <2>8, <2>9 DEF Together, Nowhere
  <2>11. Together(rings', new, T)
    BY <2>4, <2>5, <2>6, <2>7, <2>8, <2>10 DEF Together
  <2> QED
    BY <2>5, <2>11
<1>4. NumberOfNode' = Cardinality(T)
  <2>1. IsFiniteSet(S)
    BY FS_Subset DEF HashtableConstants
  <2> QED
    BY <1>1, <2>1, FS_RemoveElement DEF TableIs, Discard
<1>5. TableIs(T)'
  BY <1>1, <1>2, <1>3, <1>4 DEF TableIs, Discard
<1>6. RemovesOne(S, T, id)
  BY <1>1 DEF RemovesOne, Discard
<1> QED
  BY <1>1, <1>5, <1>6

LEMMA TableRemoves ==
    ASSUME HashtableConstants, NEW S \in SUBSET Ids, TableIs(S),
           NEW id \in Ids \ BeingVisited, RemoveHashEntry(id)
    PROVE  \E T \in SUBSET Ids : TableIs(T)' /\ RemovesOne(S, T, id)
<1>1. Search(id) <=> id \in S
  BY StoredFound DEF TableIs
<1>2. CASE ~Search(id) /\ answer' = "ENOENT" /\ UNCHANGED <<rings, family, content, NumberOfNode, enum>>
  <2>1. TableIs(S)'
    BY <1>2 DEF TableIs
  <2>2. RemovesOne(S, S, id)
    BY <1>1, <1>2 DEF RemovesOne
  <2> QED
    BY <2>1, <2>2
<1>3. CASE /\ Search(id) /\ Single(id)
           /\ Discard(id)
           /\ enum' = [enum EXCEPT !.rest = Without(@, id)]
           /\ answer' = "ok"
  <2>1. id \in S
    BY <1>1, <1>3
  <2>2. enum' = NoEnum \/ AtOne(enum', S \ {id})
    <3>1. CASE enum = NoEnum
      <4>1. Without(<<>>, id) = <<>>
        BY DEF Without, IdsIn
      <4>2. enum' = [rest |-> Without(<<>>, id)]
        BY <1>3, <3>1 DEF NoEnum
      <4> QED
        BY <4>1, <4>2 DEF NoEnum
    <3>2. CASE enum # NoEnum
      <4>1. AtOne(enum, S) /\ id # enum["pNode"]
        BY <3>2 DEF TableIs, BeingVisited
      <4>2. DOMAIN enum' = DOMAIN enum /\ enum'["pNode"] = enum["pNode"]
        BY <1>3, <4>1 DEF AtOne
      <4> QED
        BY <4>1, <4>2 DEF AtOne
    <3> QED
      BY <3>1, <3>2
  <2>3. TableIs(S \ {id})' /\ RemovesOne(S, S \ {id}, id)
    BY <1>3, <2>1, <2>2, TableDiscards
  <2>4. S \ {id} \in SUBSET Ids
    OBVIOUS
  <2> QED
    BY <2>3, <2>4
<1> QED
  BY <1>2, <1>3 DEF RemoveHashEntry

LEMMA TableClears ==
    ASSUME HashtableConstants, NEW S \in SUBSET Ids, TableIs(S), enum = NoEnum, ClearHashTable
    PROVE  TableIs({})'
<1>1. rings' \in Pointers /\ Stored(rings', {}) /\ Together(rings', family', {}) /\ Cardinality({}) = 0
  BY EmptyTable DEF ClearHashTable
<1>2. NumberOfNode' = 0
  <2>1. Len(Fast) = Cardinality(S)
    BY StoredFast DEF TableIs
  <2>2. IsFiniteSet(S) /\ Cardinality(S) \in Nat
    BY FS_Subset, FS_CardinalityType DEF HashtableConstants
  <2> QED
    BY <2>1, <2>2 DEF TableIs, ClearHashTable
<1>3. TableIs({})'
  BY <1>1, <1>2 DEF TableIs, ClearHashTable
<1> QED
  BY <1>3

LEMMA TableAddsChild ==
    ASSUME HashtableConstants, NEW S \in SUBSET Ids, TableIs(S),
           NEW parent \in Ids, NEW child \in Ids, family["Parent"][child] = NOBODY,
           AddChildHashEntry(parent, child)
    PROVE  TableIs(S)' /\ Keeps
<1>1. AreHeld(parent, child) <=> parent \in S /\ child \in S
  BY StoredFound DEF TableIs, AreHeld
<1>2. Keeps
  BY DEF Keeps, AddChildHashEntry
<1>3. CASE UNCHANGED <<rings, family>>
  BY <1>2, <1>3 DEF TableIs, AddChildHashEntry
<1>4. CASE ~UNCHANGED <<rings, family>>
  <2>1. parent \in S /\ child \in S /\ family["Child"][parent] # WILD
    BY <1>1, <1>4 DEF AddChildHashEntry
  <2>2. PICK first, list : first = family["Child"][parent] /\ list = IF first = NOBODY THEN child ELSE first
    OBVIOUS
  <2>3. rings' = LinkIn(rings, BrotherEntry(child), BrotherEntry(list))
    BY <1>4, <2>2 DEF AddChildHashEntry
  <2>4. family' = [family EXCEPT !["Child"] = [@ EXCEPT ![parent] = child],
                                 !["Parent"] = [@ EXCEPT ![child] = parent]]
    BY <1>4 DEF AddChildHashEntry
  <2>5. rings' \in Pointers /\ Same(rings, rings', Spots \ BrotherSpots(Ids)) /\ Together(rings', family', S)
    BY <2>1, <2>2, <2>3, <2>4, AddsChild DEF TableIs
  <2>6. Stored(rings', S)
    BY <2>5, StoreStays DEF TableIs
  <2>7. TableIs(S)'
    BY <2>5, <2>6 DEF TableIs, AddChildHashEntry
  <2> QED
    BY <1>2, <2>7
<1> QED
  BY <1>3, <1>4

LEMMA TableRemovesChild ==
    ASSUME HashtableConstants, NEW S \in SUBSET Ids, TableIs(S),
           NEW parent \in Ids, NEW child \in Ids, family["Parent"][child] \in {parent, NOBODY},
           RemoveChildHashEntry(parent, child)
    PROVE  TableIs(S)' /\ Keeps
<1>1. AreHeld(parent, child) <=> parent \in S /\ child \in S
  BY StoredFound DEF TableIs, AreHeld
<1>2. Keeps
  BY DEF Keeps, RemoveChildHashEntry
<1>3. CASE UNCHANGED <<rings, family>>
  BY <1>2, <1>3 DEF TableIs, RemoveChildHashEntry
<1>4. CASE ~UNCHANGED <<rings, family>>
  <2>1. parent \in S /\ child \in S
    BY <1>1, <1>4 DEF RemoveChildHashEntry
  <2>2. rings \in Pointers /\ Together(rings, family, S) /\ family \in Relations
    BY DEF TableIs, Together
  <2>3. PICK M, fam : M = rings' /\ fam = family' /\ M = Unlink(rings, BrotherEntry(child))
    BY <1>4 DEF RemoveChildHashEntry
  <2>4. PICK left : left = IF family["Child"][parent] = child THEN NewestLeft(child)
                           ELSE family["Child"][parent]
    OBVIOUS
  <2>5. fam = [family EXCEPT !["Child"] = [@ EXCEPT ![parent] = left],
                             !["Parent"] = [@ EXCEPT ![child] = NOBODY]]
    BY <1>4, <2>2, <2>3, <2>4 DEF RemoveChildHashEntry, Relations
  <2>6. left = IF family["Child"][parent] # child THEN family["Child"][parent]
               ELSE IF rings["Flink"][BrotherEntry(child)] = BrotherEntry(child) THEN NOBODY ELSE WILD
    BY <2>4 DEF NewestLeft
  <2>7. /\ fam \in Relations
        /\ \A c \in Ids : /\ fam["Child"][c] = IF c = parent THEN left ELSE family["Child"][c]
                         /\ fam["Parent"][c] = IF c = child THEN NOBODY ELSE family["Parent"][c]
    <3>1. family["Child"] \in [Ids -> Ids \cup Nowhere] /\ family["Parent"] \in [Ids -> Ids \cup Nowhere]
      BY <2>2 DEF Relations
    <3>2. left \in Ids \cup Nowhere
      BY <2>6, <3>1 DEF Nowhere
    <3>3. NOBODY \in Nowhere
      BY DEF Nowhere
    <3> QED
      BY <2>2, <2>5, <3>1, <3>2, <3>3 DEF Relations
  <2>8. Loses(rings, family, S, parent, child, left, fam)
    BY <2>1, <2>2, <2>6, <2>7 DEF Loses
  <2>9. M \in Pointers /\ Same(rings, M, Spots \ BrotherSpots(Ids)) /\ Together(M, fam, S)
    BY <2>3, <2>8, ChildLost
  <2>10. Stored(rings', S)
    BY <2>3, <2>9, StoreStays DEF TableIs
  <2>11. TableIs(S)'
    BY <2>3, <2>9, <2>10 DEF TableIs, RemoveChildHashEntry
  <2> QED
    BY <1>2, <2>11
<1> QED
  BY <1>3, <1>4

LEMMA FastNextIs ==
    ASSUME HashtableConstants, NEW S \in SUBSET Ids, Stored(rings, S), NEW id \in S
    PROVE  FastNext(rings, id) = FastList \/ FastNext(rings, id)[2] \in S \ {id}
<1>1. PICK f, b : f = rings["Flink"] /\ b = rings["Blink"]
  OBVIOUS
<1>2. IsRing(f, b, FastList, FastSpots(S))
  BY <1>1 DEF Stored, OnRing
<1>3. FastEntry(id) \in FastSpots(S) /\ FastEntry(id) # FastList
  BY DEF FastSpots, FastEntry, Linked, FastList
<1>4. f[FastEntry(id)] \in FastSpots(S) /\ f[FastEntry(id)] # FastEntry(id)
  BY <1>2, <1>3, RingNeighbours
<1>5. FastNext(rings, id) = f[FastEntry(id)]
  BY <1>1 DEF FastNext
<1>6. ASSUME NEW x \in FastSpots(S), x # FastEntry(id), x # FastList
      PROVE  x[2] \in S \ {id}
  BY <1>6 DEF FastSpots, FastEntry, Linked
<1> QED
  BY <1>4, <1>5, <1>6

LEMMA TableEnums ==
    ASSUME HashtableConstants, NEW S \in SUBSET Ids, TableIs(S), EnumHashEntry
    PROVE  TableIs(S)' /\ Keeps
<1>1. PICK f, b : f = rings["Flink"] /\ b = rings["Blink"]
  OBVIOUS
<1>2. IsRing(f, b, FastList, FastSpots(S))
  BY <1>1 DEF TableIs, Stored, OnRing
<1>3. FastList \in FastSpots(S) /\ FastList \in Spots
  BY SpotsAre DEF FastSpots
<1>4. f[FastList] # FastList
  <2> SUFFICES ASSUME f[FastList] = FastList PROVE Fast = <<>>
    BY DEF EnumHashEntry
  <2>1. PICK C \in Nat : C = Cardinality(Ids) + 1
    BY FS_CardinalityType DEF HashtableConstants
  <2>2. PICK W : W = Walk("Flink", FastList)
    OBVIOUS
  <2>3. Walking(W, rings["Flink"], FastList, C)
    BY <2>1, <2>2, WalkFound DEF HashtableConstants
  <2>4. W[C][FastList] = <<>>
    <3>1. C \in 0..C
      OBVIOUS
    <3>2. PICK x \in Spots : x = FastList
      BY <1>3
    <3>3. W[C][x] = IF x = x \/ C = 0 THEN <<>> ELSE <<x[2]>> \o W[C - 1][rings["Flink"][x]]
      BY <2>3, <3>1, <3>2 DEF Walking
    <3> QED
      BY <3>2, <3>3
  <2> QED
    BY <1>1, <2>1, <2>2, <2>4 DEF Fast, Ring
<1>5. f[FastList] \in FastSpots(S)
  BY <1>2, <1>3, RingNeighbours
<1>6. f[FastList][2] \in S
  BY <1>4, <1>5 DEF FastSpots, Linked
<1>7. AtOne(enum', S)
  BY <1>1, <1>6 DEF AtOne, EnumHashEntry
<1> QED
  BY <1>7 DEF TableIs, EnumHashEntry, Keeps

LEMMA TurnsOn ==
    ASSUME HashtableConstants, NEW S \in SUBSET Ids, TableIs(S), enum # NoEnum,
           NEW goes, EnumTurnOn(rings, goes)
    PROVE  /\ enum.pNode \in S
           /\ enum' = NoEnum \/ AtOne(enum', S \ {enum.pNode})
<1>1. enum["pNode"] \in S
  BY DEF TableIs, AtOne
<1>2. FastNext(rings, enum["pNode"]) = FastList \/ FastNext(rings, enum["pNode"])[2] \in S \ {enum["pNode"]}
  BY <1>1, FastNextIs DEF TableIs
<1> QED
  BY <1>1, <1>2 DEF EnumTurnOn, AtOne

LEMMA TableKeeps ==
    ASSUME HashtableConstants, NEW S \in SUBSET Ids, TableIs(S), NEW goes, EnumKeep(goes)
    PROVE  TableIs(S)' /\ Keeps
<1>1. enum' = NoEnum \/ AtOne(enum', S)
  BY TurnsOn DEF EnumKeep, AtOne
<1> QED
  BY <1>1 DEF TableIs, EnumKeep, Keeps

LEMMA TableDeletes ==
    ASSUME HashtableConstants, NEW S \in SUBSET Ids, TableIs(S), NEW goes, EnumDelete(goes)
    PROVE  \E id \in S : id = enum.pNode /\ TableIs(S \ {id})' /\ RemovesOne(S, S \ {id}, id)
<1>1. PICK id \in S : id = enum.pNode
  BY TurnsOn DEF EnumDelete
<1>2. enum' = NoEnum \/ AtOne(enum', S \ {id})
  BY <1>1, TurnsOn DEF EnumDelete
<1>3. TableIs(S \ {id})' /\ RemovesOne(S, S \ {id}, id)
  BY <1>1, <1>2, TableDiscards DEF EnumDelete
<1> QED
  BY <1>1, <1>3

----------------------------------------------------------------------------
(* The dictionary is one of the nodes stored.                               *)
Entries(S, data) == {[key |-> id, val |-> data[id]] : id \in S}
Found == {[key |-> id, val |-> FindHashEntry(id)] : id \in Held}

LEMMA FoundIs ==
    \A S \in SUBSET Ids : TableIs(S) => Found = Entries(S, content)
<1> SUFFICES ASSUME NEW S \in SUBSET Ids, TableIs(S) PROVE Found = Entries(S, content)
  OBVIOUS
<1>1. Held = S /\ \A id \in S : Search(id)
  BY StoredHeld, StoredFound, HashtableConstants DEF TableIs
<1>2. \A id \in S : FindHashEntry(id) = content[id]
  BY <1>1 DEF FindHashEntry
<1> QED
  BY <1>1, <1>2 DEF Found, Entries

LEMMA FoundThen ==
    \A S \in SUBSET Ids : TableIs(S)' => Found' = Entries(S, content')
<1>1. (\A S \in SUBSET Ids : TableIs(S) => Found = Entries(S, content))'
  BY FoundIs, PTL
<1> QED
  BY <1>1

(* What happens to the nodes held is what is promised of the dictionary.    *)
Book(entries) == [name \in {"table"} |-> entries]

LEMMA BooksAre ==
    ASSUME NEW S \in SUBSET Ids, NEW T \in SUBSET Ids, TableIs(S), TableIs(T)'
    PROVE  Table = Book(Entries(S, content)) /\ Table' = Book(Entries(T, content'))
<1>1. Table = Book(Found) /\ Table' = Book(Found')
  BY DEF Table, Book, Found
<1> QED
  BY <1>1, FoundIs, FoundThen

LEMMA InsertPromised ==
    ASSUME NEW S \in SUBSET Ids, NEW T \in SUBSET Ids, DOMAIN content = Ids,
           NEW id \in Ids, NEW data, InsertsOne(S, T, id, data),
           NEW old, old = Book(Entries(S, content)), NEW new, new = Book(Entries(T, content'))
    PROVE  TablePromise!Insert(old, new, "table", id, data)
<1>1. PICK o, n : o = Entries(S, content) /\ n = Entries(T, content') /\ old["table"] = o /\ new["table"] = n
  BY DEF Book
<1>2. TablePromise!Has(o, id) <=> id \in S
  <2>1. id \in S => [key |-> id, val |-> content[id]] \in o
    BY <1>1 DEF Entries
  <2>2. \A e \in o : e.key \in S
    BY <1>1 DEF Entries
  <2> QED
    BY <2>1, <2>2 DEF TablePromise!Has
<1>3. CASE /\ id \notin S /\ T = S \cup {id} /\ content' = [content EXCEPT ![id] = data]
           /\ answer' = "ok"
  <2>1. \A x \in Ids : content'[x] = IF x = id THEN data ELSE content[x]
    BY <1>3
  <2>2. n = o \cup {[key |-> id, val |-> data]}
    BY <1>1, <1>3, <2>1 DEF Entries
  <2> QED
    BY <1>1, <1>2, <1>3, <2>2 DEF TablePromise!Insert, TablePromise!OnlyIn, TablePromise!Entry
<1>4. CASE T = S /\ content' = content /\ (answer' = "ENOMEM" \/ (id \in S /\ answer' = "EEXIST"))
  <2>1. n = o
    BY <1>1, <1>4
  <2> QED
    BY <1>1, <1>2, <1>4, <2>1 DEF TablePromise!Insert, TablePromise!OnlyIn
<1> QED
  BY <1>3, <1>4 DEF InsertsOne

LEMMA RemovePromised ==
    ASSUME NEW S \in SUBSET Ids, NEW T \in SUBSET Ids, DOMAIN content = Ids,
           NEW id \in Ids, RemovesOne(S, T, id),
           NEW old, old = Book(Entries(S, content)), NEW new, new = Book(Entries(T, content'))
    PROVE  TablePromise!Remove(old, new, "table", id)
<1>1. PICK o, n : o = Entries(S, content) /\ n = Entries(T, content') /\ old["table"] = o /\ new["table"] = n
  BY DEF Book
<1>2. T = S \ {id} /\ \A x \in T : content'[x] = content[x]
  BY DEF RemovesOne
<1>3. n = TablePromise!Others(o, id)
  <2>1. n = {[key |-> x, val |-> content[x]] : x \in T}
    BY <1>1, <1>2 DEF Entries
  <2>2. o = {[key |-> x, val |-> content[x]] : x \in S}
    BY <1>1 DEF Entries
  <2>3. ASSUME NEW e \in n PROVE e \in o /\ e.key # id
    <3>1. PICK x \in T : e = [key |-> x, val |-> content[x]]
      BY <2>1
    <3>2. e.key = x
      BY <3>1
    <3> QED
      BY <1>2, <2>2, <3>1, <3>2
  <2>4. ASSUME NEW e \in o, e.key # id PROVE e \in n
    <3>1. PICK x \in S : e = [key |-> x, val |-> content[x]]
      BY <2>2
    <3>2. e.key = x
      BY <3>1
    <3> QED
      BY <1>2, <2>1, <2>4, <3>1, <3>2
  <2> QED
    BY <2>3, <2>4 DEF TablePromise!Others
<1>4. id \notin S => ~TablePromise!Has(o, id)
  <2>1. \A e \in o : e.key \in S
    BY <1>1 DEF Entries
  <2> QED
    BY <2>1 DEF TablePromise!Has
<1> QED
  BY <1>1, <1>3, <1>4 DEF RemovesOne, TablePromise!Remove, TablePromise!OnlyIn

(* Every step keeps the invariant and is what was promised of it.           *)
LEMMA TableSteps ==
    ASSUME HashtableConstants, NEW S \in SUBSET Ids, TableIs(S), TableNext
    PROVE  TableInv' /\ (table_vars' # table_vars => Promised)
<1> DOMAIN content = Ids
  BY DEF TableIs
<1>1. ASSUME NEW T \in SUBSET Ids, TableIs(T)'
      PROVE  TableInv' /\ Table = Book(Entries(S, content)) /\ Table' = Book(Entries(T, content'))
  BY <1>1, BooksAre DEF TableInv
<1>2. ASSUME NEW id \in Ids, NEW data \in DataOf(id), InsertHashEntry(id, data)
      PROVE  TableInv' /\ Promised
  <2>1. PICK T \in SUBSET Ids : TableIs(T)' /\ InsertsOne(S, T, id, data)
    BY <1>2, TableInserts
  <2>2. TablePromise!Insert(Table, Table', "table", id, data)
    BY <1>1, <2>1, InsertPromised
  <2> QED
    BY <1>1, <1>2, <2>1, <2>2 DEF Promised
<1>3. ASSUME NEW id \in Ids, NEW T \in SUBSET Ids, TableIs(T)', RemovesOne(S, T, id),
             RemoveHashEntry(id) \/ EnumDeletes(id)
      PROVE  TableInv' /\ Promised
  <2>1. TablePromise!Remove(Table, Table', "table", id)
    BY <1>1, <1>3, RemovePromised
  <2> QED
    BY <1>1, <1>3, <2>1 DEF Promised
<1>4. ASSUME NEW id \in Ids \ BeingVisited, RemoveHashEntry(id)
      PROVE  TableInv' /\ Promised
  BY <1>3, <1>4, TableRemoves
<1>5. ASSUME enum = NoEnum, ClearHashTable
      PROVE  TableInv' /\ Promised
  <2>1. TableIs({})' /\ {} \in SUBSET Ids
    BY <1>5, TableClears
  <2>2. Table' = Book({})
    BY <1>1, <2>1 DEF Entries
  <2>3. TablePromise!Clear(Table, Table', "table")
    BY <1>5, <2>2 DEF TablePromise!Clear, TablePromise!OnlyIn, Book, ClearHashTable
  <2> QED
    BY <1>1, <1>5, <2>1, <2>3 DEF Promised
<1>6. ASSUME TableIs(S)', Keeps, Relates
      PROVE  TableInv' /\ Promised
  <2>1. Table' = Table
    BY <1>1, <1>6 DEF Keeps
  <2>2. TablePromise!Same(Table, Table') \/ (Table' = Table /\ answer' = "fault")
    BY <1>6, <2>1 DEF TablePromise!Same, TablePromise!OnlyIn, Keeps
  <2> QED
    BY <1>1, <1>6, <2>2 DEF Promised
<1>7. ASSUME NEW parent \in Ids, NEW child \in Ids,
             \/ family.Parent[child] = NOBODY /\ AddChildHashEntry(parent, child)
             \/ family.Parent[child] \in {parent, NOBODY} /\ RemoveChildHashEntry(parent, child)
      PROVE  TableInv' /\ Promised
  <2>1. TableIs(S)' /\ Keeps
    BY <1>7, TableAddsChild, TableRemovesChild
  <2> QED
    BY <1>6, <1>7, <2>1 DEF Relates
<1>8. ASSUME EnumHashEntry PROVE TableInv' /\ Promised
  BY <1>6, <1>8, TableEnums DEF Relates
<1>9. ASSUME NEW goes \in BOOLEAN, EnumKeep(goes) PROVE TableInv' /\ Promised
  BY <1>6, <1>9, TableKeeps DEF Relates
<1>10. ASSUME NEW goes \in BOOLEAN, EnumDelete(goes) PROVE TableInv' /\ Promised
  <2>1. PICK id \in S : id = enum.pNode /\ TableIs(S \ {id})' /\ RemovesOne(S, S \ {id}, id)
    BY <1>10, TableDeletes
  <2>2. EnumDeletes(id)
    BY <1>10, <2>1 DEF EnumDeletes, EnumDelete
  <2> QED
    BY <1>3, <2>1, <2>2
<1>11. ASSUME Faulted PROVE TableInv' /\ table_vars' = table_vars
  BY <1>1, <1>11 DEF Faulted, TableInv, TableIs, table_vars
<1> QED
  BY <1>2, <1>4, <1>5, <1>7, <1>8, <1>9, <1>10, <1>11 DEF TableNext

LEMMA TableInvariant == TableSpec => []TableInv
<1>1. TableInit => TableInv
  BY TableStarts, HashtableConstants DEF TableInv
<1>2. TableInv /\ [TableNext]_table_vars => TableInv'
  <2>1. ASSUME NEW S \in SUBSET Ids, TableIs(S), TableNext
        PROVE  TableInv'
    BY <2>1, TableSteps, HashtableConstants
  <2>2. ASSUME NEW S \in SUBSET Ids, TableIs(S), UNCHANGED table_vars
        PROVE  TableInv'
    BY <2>2 DEF TableInv, TableIs, table_vars
  <2> QED
    BY <2>1, <2>2 DEF TableInv
<1> QED
  BY <1>1, <1>2, PTL DEF TableSpec

----------------------------------------------------------------------------
(* The theorems.                                                            *)

FamilyOf(id, first, K) ==
    /\ first \in K \cup {NOBODY, WILD}
    /\ first = NOBODY => K = {}
    /\ first \in K => GetChildHashEntryCount(id) = Cardinality(K)
    /\ \A c \in K : K = {c} \cup Brothers(c)

LEMMA FamilyIs ==
    ASSUME HashtableConstants, NEW S \in SUBSET Ids, TableIs(S), NEW id \in S,
           NEW first, first = family["Child"][id], NEW K \in SUBSET Ids, K = Kids(family, id)
    PROVE  FamilyOf(id, first, K)
<1>1. Together(rings, family, S) /\ Search(id)
  BY StoredFound DEF TableIs
<1>2. ASSUME NEW c \in K
      PROVE  /\ K = {c} \cup Brothers(c)
             /\ Cardinality(K) = 1 + Len(Ring("Flink", BrotherEntry(c), BrotherEntry(c)))
  <2>1. OnRing(rings, BrotherEntry(c), BrotherSpots(K))
    BY <1>1 DEF Together
  <2>2. PICK T \in SUBSET Ids : T = K \ {c}
    OBVIOUS
  <2>3. PICK head \in Spots : head = BrotherEntry(c)
    BY BrothersAre
  <2>4. Linked("BrotherEntry", T) \subseteq Spots /\ head \notin Linked("BrotherEntry", T)
    <3>1. head \notin Linked("BrotherEntry", T)
      BY <2>2, <2>3 DEF BrotherEntry, Linked
    <3> QED
      BY <3>1, SpotsAre
  <2>5. IsRing(rings["Flink"], rings["Blink"], head, {head} \cup Linked("BrotherEntry", T))
    <3>1. BrotherSpots(K) = {head} \cup Linked("BrotherEntry", T)
      BY <2>2, <2>3 DEF BrotherSpots, BrotherEntry, Linked
    <3> QED
      BY <2>1, <2>3, <3>1 DEF OnRing
  <2>6. IdsIn(Ring("Flink", head, head)) = T /\ Len(Ring("Flink", head, head)) = Cardinality(T)
    BY <2>4, <2>5, RingIds DEF HashtableConstants, Lists
  <2>7. Cardinality(K) = 1 + Cardinality(T)
    <3>1. IsFiniteSet(K) /\ IsFiniteSet(T)
      BY FS_Subset DEF HashtableConstants
    <3>2. Cardinality(T) = Cardinality(K) - 1
      BY <2>2, <3>1, FS_RemoveElement
    <3> QED
      BY <3>1, <3>2, FS_CardinalityType
  <2> QED
    BY <2>2, <2>3, <2>6, <2>7 DEF Brothers
<1>3. first \in K => GetChildHashEntryCount(id) = Cardinality(K)
  <2>1. NOBODY \notin Ids /\ WILD \notin Ids
    BY DEF HashtableConstants
  <2>2. first \in K => GetChildHashEntryCount(id) = 1 + Len(Ring("Flink", BrotherEntry(first), BrotherEntry(first)))
    BY <1>1, <2>1 DEF GetChildHashEntryCount
  <2> QED
    BY <1>2, <2>2
<1>4. first \in K \cup {NOBODY, WILD} /\ (first = NOBODY => K = {})
  BY <1>1 DEF Together, Nowhere
<1> QED
  BY <1>2, <1>3, <1>4 DEF FamilyOf

LEMMA FamiliesAre ==
    ASSUME HashtableConstants, TableInv
    PROVE  FamiliesTogether
<1>1. PICK S \in SUBSET Ids : TableIs(S)
  BY DEF TableInv
<1>2. Held = S
  BY <1>1, StoredHeld DEF TableIs
<1>3. SameNodes
  BY <1>1, <1>2, StoredFast DEF TableIs, SameNodes
<1>4. ASSUME NEW id \in Held
      PROVE  FamilyOf(id, family.Child[id], ChildrenOf(id))
  <2>1. PICK first, K : first = family["Child"][id] /\ K = Kids(family, id)
    OBVIOUS
  <2>2. K \in SUBSET Ids /\ ChildrenOf(id) = K
    <3>1. NOBODY \notin Ids /\ Together(rings, family, S)
      BY <1>1 DEF HashtableConstants, TableIs
    <3>2. \A c \in Ids : family["Parent"][c] # NOBODY => c \in S
      BY <3>1 DEF Together
    <3>3. id # NOBODY
      BY <1>2, <3>1
    <3>4. K = {c \in Ids : family["Parent"][c] = id}
      BY <2>1 DEF Kids
    <3> QED
      BY <1>2, <3>2, <3>3, <3>4 DEF ChildrenOf
  <2>3. FamilyOf(id, first, K)
    BY <1>1, <1>2, <2>1, <2>2, FamilyIs
  <2> QED
    BY <2>1, <2>2, <2>3
<1> QED
  BY <1>3, <1>4 DEF FamiliesTogether, FamilyOf

(* The buckets, the list of all nodes in both directions, and the count     *)
(* agree, and the children of a node are one ring, whatever calls insert,   *)
(* remove, relate and enumerate, wild pointers to children included.        *)
THEOREM HashtableFamilies == TableSpec => []FamiliesTogether
<1>1. TableInv => FamiliesTogether
  BY FamiliesAre, HashtableConstants
<1> QED
  BY <1>1, TableInvariant, PTL

(* What FindHashEntry finds is a dictionary, of which each call makes what  *)
(* it should, whatever the numbers of ids and of buckets.                   *)
THEOREM HashtableIsDictionary == TableSpec => HashtableKeepsPromise
<1>1. TableInit => TablePromise!PromiseInit
  <2> SUFFICES ASSUME TableInit PROVE TablePromise!PromiseInit
    OBVIOUS
  <2>1. TableIs({}) /\ {} \in SUBSET Ids
    BY TableStarts, HashtableConstants
  <2>2. Found = {}
    BY <2>1, FoundIs DEF Entries
  <2> QED
    BY <2>2 DEF TablePromise!PromiseInit, Table, Found
<1>2. TableInv /\ [TableNext]_table_vars => [table_vars' # table_vars => Promised]_table_vars
  <2> SUFFICES ASSUME TableInv, TableNext PROVE table_vars' # table_vars => Promised
    OBVIOUS
  <2>1. PICK S \in SUBSET Ids : TableIs(S)
    BY DEF TableInv
  <2> QED
    BY <2>1, TableSteps, HashtableConstants
<1> QED
  BY <1>1, <1>2, TableInvariant, PTL DEF TableSpec, HashtableKeepsPromise
=============================================================================
