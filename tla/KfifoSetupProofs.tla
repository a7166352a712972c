-------------------------- MODULE KfifoSetupProofs --------------------------
(***************************************************************************)
(* KfifoSetup for every width of an unsigned int, every bound on the sizes *)
(* and every set of element sizes: a ring lies in its memory, and copies   *)
(* that fault publish whole elements.                                      *)
(***************************************************************************)
EXTENDS KfifoSetup, Lemmas

LEMMA SetupNumbers ==
    /\ UINT \in Nat /\ MaxSize \in Nat /\ MaxSize >= 2 /\ MaxSize <= UINT
    /\ ESizes \subseteq 1..MaxSize
BY KfifoSetupConstants

----------------------------------------------------------------------------
(* Powers of 2.                                                             *)

(* Doubling, as far as m.                                                   *)
Doubles(m, g) == g \in [0..m -> Nat] /\ g[0] = 1 /\ \A k \in 0..(m - 1) : g[k + 1] = 2 * g[k]

LEMMA DoublingGoesOn ==
    ASSUME NEW m \in Nat
    PROVE  \E g : Doubles(m, g)
<1> DEFINE T == {k \in Nat : \E g : Doubles(k, g)}
<1>1. 0 \in T
  <2>1. PICK g : g = [k \in 0..0 |-> 1]
    OBVIOUS
  <2>2. Doubles(0, g)
    BY <2>1 DEF Doubles
  <2> QED
    BY <2>2
<1>2. ASSUME NEW k \in Nat, k \in T PROVE k + 1 \in T
  <2>1. PICK g : Doubles(k, g)
    BY <1>2
  <2>2. PICK h : h = [i \in 0..(k + 1) |-> IF i <= k THEN g[i] ELSE 2 * g[k]]
    OBVIOUS
  <2>3. /\ \A i \in 0..k : g[i] \in Nat /\ h[i] = g[i]
        /\ h[k + 1] = 2 * g[k] /\ k \in 0..k /\ 0 \in 0..k
    BY <2>1, <2>2 DEF Doubles
  <2>4. h \in [0..(k + 1) -> Nat]
    <3>1. ASSUME NEW i \in 0..(k + 1) PROVE (IF i <= k THEN g[i] ELSE 2 * g[k]) \in Nat
      <4>1. i <= k => i \in 0..k
        OBVIOUS
      <4> QED
        BY <2>3, <4>1
    <3> QED
      BY <2>2, <3>1
  <2>5. ASSUME NEW i \in 0..((k + 1) - 1) PROVE h[i + 1] = 2 * h[i]
    <3>1. CASE i = k
      BY <2>3, <3>1
    <3>2. CASE i # k
      <4>1. i \in 0..(k - 1) /\ i \in 0..k /\ i + 1 \in 0..k
        BY <3>2
      <4> QED
        BY <2>1, <2>3, <4>1 DEF Doubles
    <3> QED
      BY <3>1, <3>2
  <2>6. h[0] = 1
    BY <2>1, <2>3 DEF Doubles
  <2>7. Doubles(k + 1, h)
    BY <2>4, <2>5, <2>6 DEF Doubles
  <2> QED
    BY <2>7
<1> HIDE DEF T
<1>3. m \in T
  BY <1>1, <1>2, Induction
<1> QED
  BY <1>3 DEF T

LEMMA Pow2Doubles == Doubles(UINT, Pow2)
<1> DEFINE step(g, k) == IF k = 0 THEN 1 ELSE 2 * g[k - 1]
<1>1. PICK g : Doubles(UINT, g)
  BY DoublingGoesOn, SetupNumbers
<1>2. ASSUME NEW k \in 0..UINT PROVE g[k] = step(g, k)
  <2>1. CASE k = 0
    BY <1>1, <2>1 DEF Doubles
  <2>2. CASE k # 0
    <3>1. k - 1 \in 0..(UINT - 1) /\ (k - 1) + 1 = k
      BY <2>2, SetupNumbers
    <3> QED
      BY <1>1, <2>2, <3>1 DEF Doubles
  <2> QED
    BY <2>1, <2>2
<1>3. g = [k \in 0..UINT |-> step(g, k)]
  <2>1. g = [k \in 0..UINT |-> g[k]]
    BY <1>1 DEF Doubles
  <2> HIDE DEF step
  <2> QED
    BY <1>2, <2>1
<1>4. Pow2 = [k \in 0..UINT |-> step(Pow2, k)]
  <2>1. \E f : f = [k \in 0..UINT |-> step(f, k)]
    BY <1>3
  <2> QED
    BY <2>1 DEF Pow2
<1>5. \A k \in 0..UINT : Pow2[k] = step(Pow2, k)
  <2> HIDE DEF step
  <2> QED
    BY <1>4
<1>6. \A k \in 0..(UINT - 1) : Pow2[k + 1] = 2 * Pow2[k]
  <2> SUFFICES ASSUME NEW k \in 0..(UINT - 1) PROVE Pow2[k + 1] = 2 * Pow2[k]
    OBVIOUS
  <2>1. k + 1 \in 0..UINT /\ k + 1 # 0 /\ (k + 1) - 1 = k
    BY SetupNumbers
  <2> QED
    BY <1>5, <2>1
<1>7. Pow2[0] = 1
  <2>1. 0 \in 0..UINT
    BY SetupNumbers
  <2> QED
    BY <1>5, <2>1
<1> DEFINE T == {k \in Nat : k <= UINT => Pow2[k] \in Nat}
<1>8. 0 \in T
  BY <1>7
<1>9. ASSUME NEW k \in Nat, k \in T PROVE k + 1 \in T
  <2> SUFFICES ASSUME k + 1 <= UINT PROVE Pow2[k + 1] \in Nat
    OBVIOUS
  <2>1. k \in 0..(UINT - 1) /\ Pow2[k] \in Nat
    BY <1>9, SetupNumbers
  <2> QED
    BY <1>6, <2>1
<1>10. \A k \in Nat : k \in T
  <2> HIDE DEF T
  <2> QED
    BY <1>8, <1>9, Induction
<1>11. Pow2 \in [0..UINT -> Nat]
  <2>1. \A k \in 0..UINT : k \in Nat /\ k <= UINT
    BY SetupNumbers
  <2>2. \A k \in 0..UINT : Pow2[k] \in Nat
    BY <1>10, <2>1
  <2>3. Pow2 = [k \in 0..UINT |-> Pow2[k]]
    <3> HIDE DEF step
    <3> QED
      BY <1>4
  <2> QED
    BY <2>2, <2>3
<1> QED
  BY <1>6, <1>7, <1>11 DEF Doubles

(* A later power is a multiple of an earlier one, and larger.               *)
LEMMA LaterPower ==
    ASSUME NEW j \in 0..UINT, NEW k \in 0..UINT, j <= k
    PROVE  \E d \in Nat : d >= 1 + (k - j) /\ Pow2[k] = d * Pow2[j]
<1> DEFINE T == {i \in Nat : j + i <= UINT =>
                     \E d \in Nat : d >= 1 + i /\ Pow2[j + i] = d * Pow2[j]}
<1>1. Pow2[j] \in Nat /\ \A i \in 0..(UINT - 1) : Pow2[i + 1] = 2 * Pow2[i]
  BY Pow2Doubles DEF Doubles
<1>2. 0 \in T
  <2>1. j + 0 = j /\ 1 * Pow2[j] = Pow2[j]
    BY <1>1, SetupNumbers
  <2>2. 1 \in Nat /\ 1 >= 1 + 0
    OBVIOUS
  <2>3. \E d \in Nat : d >= 1 + 0 /\ Pow2[j + 0] = d * Pow2[j]
    BY <2>1, <2>2
  <2> QED
    BY <2>3
<1>3. ASSUME NEW i \in Nat, i \in T PROVE i + 1 \in T
  <2> SUFFICES ASSUME j + (i + 1) <= UINT
               PROVE  \E d \in Nat : d >= 1 + (i + 1) /\ Pow2[j + (i + 1)] = d * Pow2[j]
    OBVIOUS
  <2>1. j + i <= UINT /\ j + i \in 0..(UINT - 1) /\ j + (i + 1) = (j + i) + 1
    BY SetupNumbers
  <2>2. PICK d \in Nat : d >= 1 + i /\ Pow2[j + i] = d * Pow2[j]
    BY <1>3, <2>1
  <2>3. Pow2[j + (i + 1)] = 2 * (d * Pow2[j])
    BY <1>1, <2>1, <2>2
  <2>4. PICK p \in Nat : p = Pow2[j]
    BY <1>1
  <2>5. 2 * (d * p) = (2 * d) * p /\ 2 * d \in Nat /\ 2 * d >= 1 + (i + 1)
    BY <2>2
  <2> QED
    BY <2>3, <2>4, <2>5
<1>4. k - j \in T
  <2>1. k - j \in Nat
    BY SetupNumbers
  <2> HIDE DEF T
  <2> QED
    BY <1>2, <1>3, <2>1, Induction
<1>5. j + (k - j) = k
  BY SetupNumbers
<1>6. j + (k - j) <= UINT
  BY <1>5, SetupNumbers
<1>7. \E d \in Nat : d >= 1 + (k - j) /\ Pow2[j + (k - j)] = d * Pow2[j]
  BY <1>4, <1>6
<1> QED
  BY <1>5, <1>7

LEMMA Pow2Large ==
    ASSUME NEW k \in 0..UINT
    PROVE  Pow2[k] \in Nat /\ Pow2[k] > k
<1>1. Pow2[0] = 1 /\ 0 \in 0..UINT /\ Pow2[k] \in Nat
  BY Pow2Doubles, SetupNumbers DEF Doubles
<1>2. PICK d \in Nat : d >= 1 + (k - 0) /\ Pow2[k] = d * Pow2[0]
  <2>1. 0 <= k
    BY SetupNumbers
  <2> QED
    BY <1>1, <2>1, LaterPower
<1> QED
  BY <1>1, <1>2, SetupNumbers

(* The kernel's rounddown_pow_of_two finds one for every size there is.     *)
LEMMA RoundsDown ==
    ASSUME NEW size \in 1..MaxSize
    PROVE  /\ rounddown_pow_of_two(size) \in PowersOf2
           /\ rounddown_pow_of_two(size) <= size
<1>1. size \in Nat /\ size >= 1 /\ size \in 0..UINT
  BY SetupNumbers
<1> DEFINE T == {k \in 0..UINT : Pow2[k] > size}
<1>2. size \in T
  BY <1>1, Pow2Large
<1>3. PICK k \in T : \A i \in T : k <= i
  <2>1. T \subseteq Nat /\ T # {}
    BY <1>2, SetupNumbers
  <2> HIDE DEF T
  <2> QED
    BY <2>1, LeastNumber
<1>4. k \in 0..UINT /\ k # 0 /\ Pow2[k] > size
  <2>1. Pow2[0] = 1
    BY Pow2Doubles DEF Doubles
  <2> QED
    BY <1>1, <1>3, <2>1
<1>5. k - 1 \in 0..UINT /\ k - 1 \notin T /\ k - 1 \in 0..(UINT - 1) /\ (k - 1) + 1 = k /\ k <= size
  BY <1>2, <1>3, <1>4, SetupNumbers
<1>6. Pow2[k] = 2 * Pow2[k - 1]
  BY <1>5, Pow2Doubles DEF Doubles
<1>7. PICK p \in Nat : p = Pow2[k - 1]
  BY <1>5, Pow2Large
<1>8. p <= size /\ size < 2 * p /\ p \in 1..MaxSize /\ k - 1 \in 0..MaxSize
  <2>1. ~(Pow2[k - 1] > size)
    BY <1>5
  <2>2. p > k - 1
    BY <1>5, <1>7, Pow2Large
  <2>3. p <= size /\ size < 2 * p
    BY <1>1, <1>4, <1>6, <1>7, <2>1
  <2> QED
    BY <1>1, <1>4, <1>5, <2>2, <2>3, SetupNumbers
<1>9. p \in PowersOf2
  BY <1>7, <1>8 DEF PowersOf2
<1> QED
  BY <1>8, <1>9 DEF rounddown_pow_of_two

(* A ring of a power of 2 divides the range of an index.                    *)
LEMMA PowerDivides ==
    ASSUME NEW p \in PowersOf2
    PROVE  p \in 1..MaxSize /\ UINT % p = 0
<1>1. PICK j \in 0..MaxSize : p = Pow2[j]
  BY DEF PowersOf2
<1>2. PICK k \in 0..UINT : UINT = Pow2[k]
  BY KfifoSetupConstants
<1>3. p \in 1..MaxSize /\ j \in 0..UINT /\ p \in Nat /\ p > 0 /\ p <= UINT
  BY <1>1, SetupNumbers DEF PowersOf2
<1>4. j <= k
  <2> SUFFICES ASSUME k < j PROVE FALSE
    BY <1>1, <1>2, SetupNumbers
  <2>1. k <= j
    BY <1>3, SetupNumbers
  <2>2. PICK d \in Nat : d >= 1 + (j - k) /\ Pow2[j] = d * Pow2[k]
    BY <1>3, <2>1, LaterPower
  <2>3. d >= 2
    BY <1>3, <2>2, SetupNumbers
  <2>4. d * UINT >= 2 * UINT
    BY <2>3, SetupNumbers
  <2> QED
    BY <1>1, <1>2, <1>3, <2>2, <2>4, SetupNumbers
<1>5. PICK d \in Nat : UINT = d * p
  BY <1>1, <1>2, <1>3, <1>4, LaterPower
<1>6. (0 + d * p) % p = 0 % p /\ 0 + d * p = UINT
  BY <1>3, <1>5, RemainderOfMultiple
<1>7. 0 % p = 0
  BY <1>3
<1> QED
  BY <1>3, <1>6, <1>7

----------------------------------------------------------------------------
(* Rings in their memory.                                                   *)

(* The caller has checked for success before it uses a fifo, and a fifo     *)
(* that is ready has elements of some size.                                 *)
SetupInv ==
    /\ mask \in Nat
    /\ Ready => /\ esize \in ESizes
                /\ (mask + 1) * esize <= room
                /\ mask + 1 \in PowersOf2

LEMMA RoundedRing ==
    ASSUME NEW size \in 1..MaxSize, NEW rounded, rounded = rounddown_pow_of_two(size), rounded >= 2
    PROVE  rounded - 1 \in Nat /\ (rounded - 1) + 1 \in PowersOf2 /\ rounded \in Nat /\ rounded <= size
<1>1. rounded \in PowersOf2 /\ rounded <= size
  BY RoundsDown
<1>2. rounded \in 1..MaxSize
  BY <1>1, PowerDivides
<1>3. rounded \in Nat /\ rounded - 1 \in Nat /\ (rounded - 1) + 1 = rounded
  BY <1>2, SetupNumbers
<1> QED
  BY <1>1, <1>3

LEMMA AllocSetup ==
    ASSUME SetupInv, NEW size \in 1..MaxSize, NEW es \in ESizes, kfifo_alloc(size, es)
    PROVE  SetupInv'
<1>1. PICK rounded : rounded = rounddown_pow_of_two(size)
  OBVIOUS
<1>2. CASE rounded >= 2 /\ data' = "kmalloc" /\ room' = rounded * es /\ mask' = rounded - 1
           /\ esize' = es
  <2>1. rounded - 1 \in Nat /\ (rounded - 1) + 1 \in PowersOf2 /\ rounded \in Nat
    BY <1>1, <1>2, RoundedRing
  <2>2. es \in Nat
    BY SetupNumbers
  <2>3. ((rounded - 1) + 1) * es <= rounded * es
    BY <2>1, <2>2
  <2> QED
    BY <1>2, <2>1, <2>3 DEF SetupInv
<1>3. CASE data' = "NULL" /\ mask' = 0
  BY <1>3 DEF SetupInv, Ready
<1> QED
  BY <1>1, <1>2, <1>3 DEF kfifo_alloc

LEMMA InitSetup ==
    ASSUME SetupInv, NEW bytes \in 1..MaxSize, NEW es \in ESizes, kfifo_init(bytes, es)
    PROVE  SetupInv'
<1>1. bytes \in Nat /\ bytes >= es /\ es \in Nat /\ es >= 1 /\ bytes <= MaxSize
  BY SetupNumbers DEF kfifo_init
<1>2. PICK size \in Int : size = bytes \div es
  BY <1>1, Division
<1>3. size >= 1 /\ size * es <= bytes /\ size <= bytes
  <2>1. bytes = es * size + (bytes % es) /\ bytes % es \in 0..(es - 1)
    BY <1>1, <1>2, Division
  <2>2. PICK r \in Nat : r = bytes % es /\ r < es
    BY <1>1, <2>1
  <2>3. size >= 1
    <3> SUFFICES ASSUME size <= 0 PROVE FALSE
      OBVIOUS
    <3>1. es * size <= 0
      BY <1>1
    <3> QED
      BY <1>1, <2>1, <2>2, <3>1
  <2>4. es * size >= size /\ es * size = size * es
    BY <1>1, <2>3
  <2> QED
    BY <1>1, <2>1, <2>2, <2>3, <2>4
<1>4. size \in 1..MaxSize
  BY <1>1, <1>3, SetupNumbers
<1>5. PICK rounded : rounded = rounddown_pow_of_two(size)
  OBVIOUS
<1>6. CASE rounded >= 2 /\ data' = "caller" /\ room' = bytes /\ mask' = rounded - 1 /\ esize' = es
  <2>1. rounded - 1 \in Nat /\ (rounded - 1) + 1 \in PowersOf2 /\ rounded \in Nat /\ rounded <= size
    BY <1>4, <1>5, <1>6, RoundedRing
  <2>2. rounded * es <= size * es
    BY <1>1, <1>3, <2>1
  <2>3. ((rounded - 1) + 1) * es <= bytes
    BY <1>1, <1>3, <2>1, <2>2
  <2> QED
    BY <1>6, <2>1, <2>3 DEF SetupInv
<1>7. CASE mask' = 0
  BY <1>7 DEF SetupInv, Ready
<1>8. (rounded >= 2) \/ rounded < 2
  <2>1. rounded \in PowersOf2
    BY <1>4, <1>5, RoundsDown
  <2>2. rounded \in Nat
    BY <2>1, PowerDivides, SetupNumbers
  <2> QED
    BY <2>2
<1> QED
  BY <1>2, <1>5, <1>6, <1>7, <1>8 DEF kfifo_init

LEMMA SetupInvariant == SetupSpec => []SetupInv
<1>1. SetupInit => SetupInv
  BY DEF SetupInit, SetupInv, Ready
<1>2. SetupInv /\ [SetupNext]_setup_vars => SetupInv'
  <2> SUFFICES ASSUME SetupInv, [SetupNext]_setup_vars PROVE SetupInv'
    OBVIOUS
  <2>1. ASSUME NEW size \in 1..MaxSize, NEW es \in ESizes,
               kfifo_alloc(size, es) \/ kfifo_init(size, es)
        PROVE  SetupInv'
    BY <2>1, AllocSetup, InitSetup
  <2>2. kfifo_free => SetupInv'
    BY DEF kfifo_free, SetupInv, Ready
  <2>3. UNCHANGED <<mask, esize, data, room>> => SetupInv'
    BY DEF SetupInv, Ready
  <2>4. ASSUME NEW len \in Lengths, NEW done \in Lengths,
               kfifo_from_user(len, done) \/ kfifo_to_user(len, done)
        PROVE  SetupInv'
    BY <2>3, <2>4 DEF kfifo_from_user, kfifo_to_user
  <2>5. CASE UNCHANGED setup_vars
    BY <2>3, <2>5 DEF setup_vars
  <2> QED
    BY <2>1, <2>2, <2>4, <2>5 DEF SetupNext
<1> QED
  BY <1>1, <1>2, PTL DEF SetupSpec

(* Whatever sizes are asked for in whatever order: a fifo that is ready     *)
(* has its slots within its memory, and masking an index finds the same     *)
(* slot before and after the index wraps around.                            *)
THEOREM RingsFitMemory == SetupSpec => []RingFitsMemory
<1>1. SetupInv => RingFitsMemory
  <2> SUFFICES ASSUME SetupInv, Ready
               PROVE  (mask + 1) * esize <= room /\ mask >= 1 /\ UINT % (mask + 1) = 0
    BY DEF RingFitsMemory
  <2>1. mask >= 1
    BY DEF SetupInv, Ready
  <2>2. UINT % (mask + 1) = 0
    BY PowerDivides DEF SetupInv
  <2> QED
    BY <2>1, <2>2 DEF SetupInv
<1> QED
  BY <1>1, SetupInvariant, PTL

----------------------------------------------------------------------------
(* Copies that fault.                                                       *)

LEMMA QuotientIs ==
    ASSUME NEW S \in Nat, S > 0, NEW a \in Nat, NEW q \in Int, NEW r \in 0..(S - 1), a = S * q + r
    PROVE  a \div S = q
<1>1. PICK d \in Int : d = a \div S
  BY Division
<1>2. PICK e \in Int : e = a % S /\ e \in 0..(S - 1) /\ a = S * d + e
  BY <1>1, Division
<1>3. S * (q - d) = e - r /\ q - d \in Int
  BY <1>2
<1>4. e - r < S /\ e - r > -S
  BY <1>2
<1>5. q - d = 0
  BY <1>3, <1>4, MultipleTooLarge
<1> QED
  BY <1>1, <1>5

(* What did not arrive, in elements and rounded up, leaves what did, rounded *)
(* down.                                                                    *)
LEMMA WholeArrived ==
    ASSUME NEW e \in Nat, e >= 1, NEW l \in Int, NEW done \in Nat, done <= l * e
    PROVE  l - DIV_ROUND_UP(l * e - done, e) = done \div e
<1>1. PICK q \in Int : q = done \div e
  BY Division
<1>2. PICK r \in Nat : r = done % e /\ r <= e - 1 /\ done = e * q + r
  BY <1>1, Division
<1>3. (l * e - done) + e - 1 = e * (l - q) + (e - 1 - r)
  BY <1>2
<1>4. e - 1 - r \in 0..(e - 1) /\ l - q \in Int
  BY <1>2
<1>5. l * e - done \in Nat
  OBVIOUS
<1>6. (l * e - done) + e - 1 \in Nat
  BY <1>5
<1>7. ((l * e - done) + e - 1) \div e = l - q
  BY <1>3, <1>4, <1>6, QuotientIs
<1>8. DIV_ROUND_UP(l * e - done, e) = l - q
  BY <1>7 DEF DIV_ROUND_UP
<1> QED
  BY <1>1, <1>8

(* The indices stay unsigned ints.                                          *)
IndicesInRange == in \in 0..(UINT - 1) /\ out \in 0..(UINT - 1)

LEMMA PlusInRange ==
    ASSUME NEW i \in 0..(UINT - 1), NEW k \in Nat
    PROVE  Plus(i, k) \in 0..(UINT - 1)
<1>1. i + k \in Nat /\ UINT > 0
  BY SetupNumbers
<1> QED
  BY <1>1, SetupNumbers, Division DEF Plus

(* Elements asked for of which none is more than there is room or data.     *)
LEMMA CopyWhole ==
    ASSUME SetupInv, Ready, NEW len \in Lengths, NEW done \in Lengths, NEW bound \in Int,
           done <= Least(len \div esize, bound) * esize
    PROVE  LET l == Least(len \div esize, bound)
           IN  /\ l - DIV_ROUND_UP(l * esize - done, esize) = done \div esize
               /\ done \div esize \in Nat
<1>1. PICK e \in Nat : e = esize /\ e >= 1
  <2>1. esize \in ESizes
    BY DEF SetupInv
  <2>2. esize \in 1..MaxSize
    BY <2>1, SetupNumbers
  <2> QED
    BY <2>2, SetupNumbers
<1>2. len \in Nat /\ done \in Nat
  BY SetupNumbers DEF Lengths
<1>3. PICK k \in Int : k = len \div e
  BY <1>1, <1>2, Division
<1>4. PICK l \in Int : l = Least(len \div esize, bound)
  BY <1>1, <1>3 DEF Least
<1>5. l - DIV_ROUND_UP(l * e - done, e) = done \div e
  <2>1. done <= l * e
    BY <1>1, <1>4
  <2> QED
    BY <1>1, <1>2, <2>1, WholeArrived
<1>6. done \div e \in Nat
  BY <1>1, <1>2, Division
<1> QED
  BY <1>1, <1>4, <1>5, <1>6

LEMMA CountsAreNumbers ==
    ASSUME SetupInv, IndicesInRange
    PROVE  kfifo_len \in Int /\ kfifo_unused \in Int
<1>1. PICK i \in Nat : i = in /\ i <= UINT - 1
  BY SetupNumbers DEF IndicesInRange
<1>2. PICK o \in Nat : o = out /\ o <= UINT - 1
  BY SetupNumbers DEF IndicesInRange
<1>3. i + UINT - o \in Nat /\ UINT > 0
  BY <1>1, <1>2, SetupNumbers
<1>4. PICK n \in Int : n = kfifo_len
  BY <1>1, <1>2, <1>3, SetupNumbers, Division DEF kfifo_len
<1>5. PICK m \in Nat : m = mask
  BY DEF SetupInv
<1> QED
  BY <1>4, <1>5 DEF kfifo_unused

LEMMA FromUserWhole ==
    ASSUME SetupInv, IndicesInRange, NEW len \in Lengths, NEW done \in Lengths,
           kfifo_from_user(len, done)
    PROVE  in' = Plus(in, arrived' \div esize) /\ out' = out /\ IndicesInRange'
<1> DEFINE l == Least(len \div esize, kfifo_unused)
<1>1. Ready /\ done <= l * esize /\ arrived' = done /\ out' = out
  BY DEF kfifo_from_user, Copy
<1>2. in' = Plus(in, l - DIV_ROUND_UP(l * esize - done, esize))
  BY DEF kfifo_from_user
<1>3. /\ l - DIV_ROUND_UP(l * esize - done, esize) = done \div esize
      /\ done \div esize \in Nat
  BY <1>1, CountsAreNumbers, CopyWhole
<1> HIDE DEF l
<1>4. in' = Plus(in, done \div esize)
  BY <1>2, <1>3
<1>5. IndicesInRange'
  BY <1>1, <1>3, <1>4, PlusInRange DEF IndicesInRange
<1> QED
  BY <1>1, <1>4, <1>5

LEMMA ToUserWhole ==
    ASSUME SetupInv, IndicesInRange, NEW len \in Lengths, NEW done \in Lengths,
           kfifo_to_user(len, done)
    PROVE  out' = Plus(out, arrived' \div esize) /\ in' = in /\ IndicesInRange'
<1> DEFINE l == Least(len \div esize, kfifo_len)
<1>1. Ready /\ done <= l * esize /\ arrived' = done /\ in' = in
  BY DEF kfifo_to_user, Copy
<1>2. out' = Plus(out, l - DIV_ROUND_UP(l * esize - done, esize))
  BY DEF kfifo_to_user
<1>3. /\ l - DIV_ROUND_UP(l * esize - done, esize) = done \div esize
      /\ done \div esize \in Nat
  BY <1>1, CountsAreNumbers, CopyWhole
<1> HIDE DEF l
<1>4. out' = Plus(out, done \div esize)
  BY <1>2, <1>3
<1>5. IndicesInRange'
  BY <1>1, <1>3, <1>4, PlusInRange DEF IndicesInRange
<1> QED
  BY <1>1, <1>4, <1>5

(* What a call publishes, and the range of the indices after it.            *)
LEMMA CallsWhole ==
    ASSUME SetupInv, IndicesInRange, [SetupNext]_setup_vars
    PROVE  /\ IndicesInRange'
           /\ \/ in' = 0 /\ out' = 0
              \/ in' = Plus(in, arrived' \div esize) /\ out' = out
              \/ out' = Plus(out, arrived' \div esize) /\ in' = in
              \/ UNCHANGED setup_vars
<1>1. in' = 0 /\ out' = 0 => IndicesInRange'
  BY SetupNumbers DEF IndicesInRange
<1>2. ASSUME NEW size \in 1..MaxSize, NEW es \in ESizes,
             kfifo_alloc(size, es) \/ kfifo_init(size, es)
      PROVE  in' = 0 /\ out' = 0
  BY <1>2 DEF kfifo_alloc, kfifo_init
<1>3. kfifo_free => in' = 0 /\ out' = 0
  BY DEF kfifo_free
<1>4. CASE UNCHANGED setup_vars
  BY <1>4 DEF setup_vars, IndicesInRange
<1> QED
  BY <1>1, <1>2, <1>3, <1>4, FromUserWhole, ToUserWhole DEF SetupNext

LEMMA IndicesInvariant == SetupSpec => []IndicesInRange
<1>1. SetupInit => IndicesInRange
  BY SetupNumbers DEF SetupInit, IndicesInRange
<1>2. SetupInv /\ IndicesInRange /\ [SetupNext]_setup_vars => IndicesInRange'
  BY CallsWhole
<1> QED
  BY <1>1, <1>2, SetupInvariant, PTL DEF SetupSpec

(* Wherever a copy from or to user space stops, in whichever part of a      *)
(* range that wraps: the index it publishes counts the elements that came   *)
(* across whole, as an unsigned int, and the other index stays.             *)
THEOREM CopiesPublishWhole == SetupSpec => WholeElements
<1>1. SetupInv /\ IndicesInRange /\ [SetupNext]_setup_vars
      => [\/ in' = 0 /\ out' = 0
          \/ in' = Plus(in, arrived' \div esize) /\ out' = out
          \/ out' = Plus(out, arrived' \div esize) /\ in' = in]_setup_vars
  BY CallsWhole
<1> QED
  BY <1>1, SetupInvariant, IndicesInvariant, PTL DEF SetupSpec, WholeElements
=============================================================================
