--------------------------- MODULE KfifoRecProofs ---------------------------
(***************************************************************************)
(* KfifoRec for every size of ring, index, byte and length field: records  *)
(* tile the ring, and come out as they went in.                            *)
(***************************************************************************)
EXTENDS KfifoRec, Lemmas, SequenceTheorems, TLAPS

(* Sizes are powers of 2, and a ring is shorter than the range of an index. *)
RecConstants ==
    /\ Size \in Nat /\ Size >= 2
    /\ UINT \in Nat /\ \E k \in 2..UINT : UINT = k * Size
    /\ BYTE \in Nat \ {0}
    /\ RecSizes \subseteq {1, 2}
    /\ Payload \subseteq Byte
    /\ NONE \notin Seq(Byte)

(* The records start at marks, counted from out: the first at out, the last *)
(* ends at in, and each one says where the next one starts.                 *)
Marks(m, s) ==
    /\ s \in [0..m -> 0..kfifo_len] /\ s[0] = 0 /\ s[m] = kfifo_len
    /\ \A k \in 0..(m - 1) : s[k + 1] = s[k] + recsize + LengthAt(out + s[k])
    /\ \A j, k \in 0..m : j <= k => s[k] >= s[j] + (k - j)
Tiles == \E m \in Nat : \E s \in [0..m -> 0..kfifo_len] : Marks(m, s)

(* The bytes behind an index.                                               *)
Holds(i, bytes) == \A k \in 1..Len(bytes) : data[Slot(i + k - 1)] = bytes[k]

Writing ==
    /\ wpc = "idle" <=> rec = NONE
    /\ wpc # "idle" => Len(rec) <= MaxRecord /\ Len(rec) + recsize <= kfifo_unused
    /\ wpc \in {"dma done", "publish"} => Holds(in + recsize, rec)
    /\ wpc = "publish" => LengthAt(in) = Len(rec)

Reading ==
    /\ rpc = "idle" => dst = NONE
    /\ rpc # "idle" => in # out /\ n = kfifo_peek_n /\ rlen <= n

RecInv == TypeOK /\ kfifo_len <= Size /\ Tiles /\ Writing /\ Reading

----------------------------------------------------------------------------
(* Indices.                                                                 *)

LEMMA SmallRemainder ==
    ASSUME NEW S \in Nat, S > 0, NEW a \in Nat
    PROVE  /\ a < S => a % S = a
           /\ a >= S /\ a < 2 * S => a % S = a - S
<1>1. ASSUME NEW b \in Nat, b < S PROVE b % S = b
  BY <1>1
<1>2. ASSUME a >= S, a < 2 * S PROVE a % S = a - S
  <2>1. a - S \in Nat /\ a - S < S /\ ((a - S) + 1 * S) % S = (a - S) % S
    BY <1>2, RemainderOfMultiple
  <2>2. (a - S) + 1 * S = a
    OBVIOUS
  <2>3. (a - S) % S = a - S
    BY <1>1, <2>1
  <2> QED
    BY <2>1, <2>2, <2>3
<1> QED
  BY <1>1, <1>2

Index == 0..(UINT - 1)

LEMMA Basics ==
    RecConstants /\ TypeOK =>
        /\ Size \in Nat /\ Size > 0 /\ UINT \in Nat /\ BYTE \in Nat /\ BYTE > 0
        /\ recsize \in {1, 2}
        /\ in \in Index /\ out \in Index /\ in \in Nat /\ out \in Nat
<1> SUFFICES ASSUME RecConstants, TypeOK
             PROVE  /\ Size \in Nat /\ Size > 0 /\ UINT \in Nat /\ BYTE \in Nat /\ BYTE > 0
                    /\ recsize \in {1, 2}
                    /\ in \in Index /\ out \in Index /\ in \in Nat /\ out \in Nat
  OBVIOUS
<1>1. Size \in Nat /\ Size > 0 /\ UINT \in Nat /\ BYTE \in Nat /\ BYTE > 0
  BY DEF RecConstants
<1>2. recsize \in {1, 2}
  <2>1. recsize \in RecSizes
    BY DEF TypeOK
  <2> QED
    BY <2>1 DEF RecConstants
<1>3. in \in Index /\ out \in Index
  BY DEF TypeOK, Index
<1> QED
  BY <1>1, <1>2, <1>3 DEF Index

LEMMA WideIndex == RecConstants => Size < UINT /\ UINT > 0 /\ Size > 0
BY DEF RecConstants

LEMMA PlusIs ==
    ASSUME RecConstants, NEW i \in Index, NEW k \in 0..Size
    PROVE  Plus(i, k) = IF i + k >= UINT THEN i + k - UINT ELSE i + k
<1>1. UINT \in Nat /\ Size \in Nat /\ Size < UINT /\ UINT > 0
  BY WideIndex DEF RecConstants
<1>2. PICK a \in Nat : a = i + k /\ a < 2 * UINT
  BY <1>1 DEF Index
<1>3. (a < UINT => a % UINT = a) /\ (a >= UINT => a % UINT = a - UINT)
  BY <1>1, <1>2, SmallRemainder
<1>4. a % UINT = IF a >= UINT THEN a - UINT ELSE a
  BY <1>1, <1>2, <1>3
<1>5. Plus(i, k) = a % UINT
  BY <1>2 DEF Plus
<1> QED
  BY <1>1, <1>2, <1>4, <1>5 DEF Index

LEMMA MinusIs ==
    ASSUME RecConstants, NEW i \in Index, NEW j \in Index
    PROVE  Minus(i, j) = IF i >= j THEN i - j ELSE i + UINT - j
<1>1. UINT \in Nat /\ UINT > 0
  BY WideIndex DEF RecConstants
<1>2. i + UINT - j \in Nat /\ i + UINT - j < 2 * UINT
  BY <1>1 DEF Index
<1>3. i >= j <=> i + UINT - j >= UINT
  BY <1>1 DEF Index
<1> HIDE DEF Index
<1> QED
  BY <1>1, <1>2, <1>3, SmallRemainder DEF Minus, Index

(* The slot of an index does not change with the index wrapping around.     *)
LEMMA SlotWraps ==
    ASSUME RecConstants, NEW i \in Nat
    PROVE  Slot(i + UINT) = Slot(i)
<1>1. PICK k \in 2..UINT : UINT = k * Size
  BY DEF RecConstants
<1>2. k \in Nat /\ Size \in Nat /\ Size > 0
  BY <1>1, WideIndex DEF RecConstants
<1>3. (i + k * Size) % Size = i % Size
  BY <1>2, RemainderOfMultiple
<1> QED
  BY <1>1, <1>3 DEF Slot

LEMMA SlotOfPlus ==
    ASSUME RecConstants, NEW i \in Index, NEW k \in 0..Size, NEW j \in Nat
    PROVE  Slot(Plus(i, k) + j) = Slot(i + k + j)
<1>1. UINT \in Nat /\ Size \in Nat
  BY DEF RecConstants
<1>2. CASE i + k >= UINT
  <2>1. i + k - UINT + j \in Nat /\ i + k + j = (i + k - UINT + j) + UINT
    BY <1>1, <1>2 DEF Index
  <2> QED
    BY <1>1, <1>2, <2>1, PlusIs, SlotWraps
<1>3. CASE i + k < UINT
  BY <1>1, <1>3, PlusIs DEF Index
<1> QED
  BY <1>1, <1>2, <1>3 DEF Index

(* in is kfifo_len further on than out.                                     *)
LEMMA SlotOfIn ==
    ASSUME RecConstants, in \in Index, out \in Index, NEW j \in Nat
    PROVE  Slot(in + j) = Slot(out + kfifo_len + j) /\ kfifo_len \in Index
<1>1. UINT \in Nat
  BY DEF RecConstants
<1>2. kfifo_len = IF in >= out THEN in - out ELSE in + UINT - out
  BY MinusIs DEF kfifo_len
<1>3. CASE in >= out
  BY <1>1, <1>2, <1>3 DEF Index
<1>4. CASE in < out
  <2>1. out + kfifo_len + j = (in + j) + UINT /\ in + j \in Nat /\ kfifo_len \in Index
    BY <1>1, <1>2, <1>4 DEF Index
  <2> QED
    BY <2>1, SlotWraps
<1> QED
  BY <1>1, <1>3, <1>4 DEF Index

(* Each slot is that of an index close behind a given one; CopyIn finds how *)
(* close.                                                                   *)
LEMMA Distance ==
    ASSUME RecConstants, NEW i \in Nat, NEW j \in 0..(Size - 1)
    PROVE  Slot(i + j) \in 0..(Size - 1) /\ (Slot(i + j) + Size - Slot(i)) % Size = j
<1>1. Size \in Nat /\ Size > 0 /\ i + j \in Nat /\ j \in Nat /\ j < Size
  BY WideIndex DEF RecConstants
<1> DEFINE a == Slot(i)
           b == Slot(i + j)
<1>2. a \in 0..(Size - 1) /\ b \in 0..(Size - 1)
  BY <1>1, Division DEF Slot
<1>3. PICK p \in Int : p = i \div Size /\ i = Size * p + a
  BY <1>1, Division DEF Slot
<1>4. PICK q \in Int : q = (i + j) \div Size /\ i + j = Size * q + b
  BY <1>1, Division DEF Slot
<1> HIDE DEF a, b
<1>5. j = Size * (q - p) + (b - a)
  BY <1>1, <1>2, <1>3, <1>4
<1>6. j - (b - a) = Size * (q - p) /\ q - p \in Int
  BY <1>1, <1>2, <1>3, <1>4, <1>5
<1>7. j = b - a \/ j = b - a + Size
  <2>1. CASE b - a >= 0
    <3>1. j - (b - a) < Size /\ j - (b - a) > -Size
      BY <1>1, <1>2, <2>1
    <3>2. q - p = 0
      BY <1>1, <1>6, <3>1, MultipleTooLarge
    <3> QED
      BY <1>1, <1>2, <1>6, <3>2
  <2>2. CASE b - a < 0
    <3>1. j - (b - a) - Size = Size * (q - p - 1) /\ q - p - 1 \in Int
      BY <1>1, <1>2, <1>6
    <3>2. j - (b - a) - Size < Size /\ j - (b - a) - Size > -Size
      BY <1>1, <1>2, <2>2
    <3>3. q - p - 1 = 0
      BY <1>1, <3>1, <3>2, MultipleTooLarge
    <3> QED
      BY <1>1, <1>2, <3>1, <3>3
  <2> QED
    BY <1>2, <2>1, <2>2
<1>8. b + Size - a \in Nat /\ b + Size - a < 2 * Size
  BY <1>1, <1>2
<1>9. (b + Size - a) % Size = j
  BY <1>1, <1>2, <1>7, <1>8, SmallRemainder
<1> QED
  BY <1>2, <1>9 DEF a, b

----------------------------------------------------------------------------
(* What copying does to the ring.                                           *)

LEMMA CopiedIn ==
    ASSUME RecConstants, TypeOK, NEW i \in Nat, NEW bytes \in Seq(Byte), Len(bytes) <= Size,
           data' = CopyIn(i, bytes)
    PROVE  /\ data' \in [0..(Size - 1) -> Byte]
           /\ \A j \in 0..(Size - 1) :
                 data'[Slot(i + j)] = IF j < Len(bytes) THEN bytes[j + 1] ELSE data[Slot(i + j)]
<1>1. Size \in Nat /\ Size > 0
  BY WideIndex DEF RecConstants
<1> DEFINE k(s) == ((s + Size - Slot(i)) % Size) + 1
<1>2. data' = [s \in 0..(Size - 1) |-> IF k(s) <= Len(bytes) THEN bytes[k(s)] ELSE data[s]]
  BY DEF CopyIn
<1>3. ASSUME NEW s \in 0..(Size - 1)
      PROVE  k(s) \in Nat /\ k(s) >= 1
  <2>1. Slot(i) \in 0..(Size - 1)
    BY <1>1, Division DEF Slot
  <2>2. s + Size - Slot(i) \in Nat
    BY <1>1, <2>1
  <2>3. (s + Size - Slot(i)) % Size \in 0..(Size - 1)
    BY <1>1, <2>2, Division
  <2> QED
    BY <1>1, <2>3
<1>4. ASSUME NEW j \in 0..(Size - 1)
      PROVE  Slot(i + j) \in 0..(Size - 1) /\ k(Slot(i + j)) = j + 1
  BY Distance
<1> HIDE DEF k
<1>5. data' \in [0..(Size - 1) -> Byte]
  <2> SUFFICES ASSUME NEW s \in 0..(Size - 1)
               PROVE  (IF k(s) <= Len(bytes) THEN bytes[k(s)] ELSE data[s]) \in Byte
    BY <1>2
  <2>1. k(s) <= Len(bytes) => bytes[k(s)] \in Byte
    BY <1>3, ElementOfSeq, LenProperties
  <2> QED
    BY <2>1 DEF TypeOK
<1>6. ASSUME NEW j \in 0..(Size - 1)
      PROVE  data'[Slot(i + j)] = IF j < Len(bytes) THEN bytes[j + 1] ELSE data[Slot(i + j)]
  <2>1. Len(bytes) \in Nat /\ (j + 1 <= Len(bytes) <=> j < Len(bytes))
    BY <1>1, LenProperties
  <2>2. PICK x \in 0..(Size - 1) : x = Slot(i + j) /\ k(x) = j + 1
    BY <1>4
  <2>3. data'[x] = IF k(x) <= Len(bytes) THEN bytes[k(x)] ELSE data[x]
    BY <1>2, <2>2
  <2> QED
    BY <2>1, <2>2, <2>3
<1> QED
  BY <1>5, <1>6

(* A copy into the free room leaves what the ring holds.                    *)
LEMMA ContentsKept ==
    ASSUME RecConstants, TypeOK, kfifo_len <= Size, NEW c \in 0..Size,
           NEW bytes \in Seq(Byte), c + Len(bytes) <= Size - kfifo_len,
           data' = CopyIn(in + c, bytes)
    PROVE  \A x \in 0..(kfifo_len - 1) : data'[Slot(out + x)] = data[Slot(out + x)]
<1> SUFFICES ASSUME NEW x \in 0..(kfifo_len - 1)
             PROVE  data'[Slot(out + x)] = data[Slot(out + x)]
  OBVIOUS
<1>1. /\ Size \in Nat /\ Size > 0 /\ UINT \in Nat /\ Len(bytes) \in Nat
      /\ in \in Index /\ out \in Index /\ in \in Nat /\ out \in Nat
  BY Basics, LenProperties
<1>2. kfifo_len \in Nat
  BY <1>1, SlotOfIn DEF Index
<1> DEFINE j == x + Size - kfifo_len - c
<1>3. j \in 0..(Size - 1) /\ ~(j < Len(bytes)) /\ c + j \in Nat /\ in + c \in Nat
  BY <1>1, <1>2
<1>4. Slot((in + c) + j) = Slot(out + x)
  <2>1. Slot(in + (c + j)) = Slot(out + kfifo_len + (c + j))
    BY <1>1, <1>3, SlotOfIn
  <2>2. out + kfifo_len + (c + j) = (out + x) + 1 * Size /\ out + x \in Nat
    BY <1>1, <1>2
  <2>3. ((out + x) + 1 * Size) % Size = (out + x) % Size
    BY <1>1, <2>2, RemainderOfMultiple
  <2>4. in + (c + j) = (in + c) + j
    BY <1>1, <1>3
  <2> QED
    BY <2>1, <2>2, <2>3, <2>4 DEF Slot
<1>5. Len(bytes) <= Size
  BY <1>1, <1>2
<1> HIDE DEF j
<1> QED
  BY <1>3, <1>4, <1>5, CopiedIn

(* A length field of a length that recsize bytes can say.                   *)
LEMMA HeaderSays ==
    ASSUME RecConstants, TypeOK, NEW len \in Nat, len <= MaxRecord
    PROVE  /\ Header(len) \in Seq(Byte) /\ Len(Header(len)) = recsize
           /\ len = Header(len)[1] + IF recsize = 1 THEN 0 ELSE BYTE * Header(len)[2]
<1>1. BYTE \in Nat /\ BYTE > 0 /\ recsize \in {1, 2}
  BY Basics
<1> DEFINE q == len \div BYTE
           r == len % BYTE
<1>2. q \in Int /\ r \in 0..(BYTE - 1) /\ len = BYTE * q + r
  BY <1>1, Division
<1>3. q >= 0
  <2> SUFFICES ASSUME q <= -1 PROVE FALSE
    BY <1>2
  <2> HIDE DEF q, r
  <2>1. BYTE * q <= -BYTE
    BY <1>1, <1>2
  <2> QED
    BY <1>1, <1>2, <2>1
<1>4. q % BYTE \in 0..(BYTE - 1)
  BY <1>1, <1>2, <1>3, Division
<1>5. CASE recsize = 1
  <2>1. len < BYTE
    BY <1>1, <1>5 DEF MaxRecord
  <2>2. r = len
    BY <1>1, <2>1, SmallRemainder
  <2>3. Header(len) = <<r>>
    BY <1>5 DEF Header
  <2> HIDE DEF r
  <2>4. r \in Byte
    BY <1>1, <1>2 DEF Byte
  <2> QED
    BY <1>5, <2>2, <2>3, <2>4
<1>6. CASE recsize = 2
  <2>1. len < BYTE * BYTE
    BY <1>1, <1>6 DEF MaxRecord
  <2> HIDE DEF q, r
  <2>2. q < BYTE
    <3> SUFFICES ASSUME q >= BYTE PROVE FALSE
      BY <1>1, <1>2
    <3>1. BYTE * q >= BYTE * BYTE
      BY <1>1, <1>2
    <3> QED
      BY <1>1, <1>2, <2>1, <3>1
  <2>3. q % BYTE = q
    BY <1>1, <1>2, <1>3, <2>2, SmallRemainder
  <2>4. Header(len) = <<r, q>>
    BY <1>6, <2>3 DEF Header, q, r
  <2>5. r \in Byte /\ q \in Byte
    BY <1>1, <1>2, <1>3, <2>2 DEF Byte
  <2>6. <<r, q>> \in Seq(Byte) /\ Len(<<r, q>>) = 2
    BY <2>5
  <2>7. Header(len)[1] = r /\ Header(len)[2] = q
    BY <2>4
  <2>8. len = r + BYTE * q
    BY <1>1, <1>2
  <2> QED
    BY <1>6, <2>4, <2>6, <2>7, <2>8
<1> QED
  BY <1>1, <1>5, <1>6

(* A length field of the ring, once its bytes are in place.                 *)
LEMMA LengthSaid ==
    ASSUME RecConstants, TypeOK, NEW len \in Nat, len <= MaxRecord, NEW i \in Nat,
           recsize' = recsize,
           \A j \in 0..(recsize - 1) : data'[Slot(i + j)] = Header(len)[j + 1]
    PROVE  LengthAt(i)' = len
<1>1. recsize \in {1, 2}
  BY Basics
<1>2. data'[Slot(i)] = Header(len)[1] /\ (recsize = 2 => data'[Slot(i + 1)] = Header(len)[2])
  <2>1. i + 0 = i /\ 0 \in 0..(recsize - 1) /\ (recsize = 2 => 1 \in 0..(recsize - 1))
    BY <1>1
  <2>2. Header(len)[0 + 1] = Header(len)[1] /\ Header(len)[1 + 1] = Header(len)[2]
    OBVIOUS
  <2> QED
    BY <2>1, <2>2
<1> QED
  BY <1>1, <1>2, HeaderSays DEF LengthAt

----------------------------------------------------------------------------
(* The records.                                                             *)

Record(o) == CopyOut(out + o + recsize, LengthAt(out + o))
Listing(m, s) == [k \in 1..m |-> Record(s[k - 1])]

LEMMA LengthType ==
    ASSUME RecConstants, TypeOK, NEW i \in Nat
    PROVE  LengthAt(i) \in Nat
<1>1. /\ Size \in Nat /\ Size > 0 /\ BYTE \in Nat /\ data \in [0..(Size - 1) -> 0..(BYTE - 1)]
      /\ recsize \in {1, 2}
  BY Basics DEF TypeOK, Byte
<1>2. Slot(i) \in 0..(Size - 1) /\ Slot(i + 1) \in 0..(Size - 1)
  BY <1>1, Division DEF Slot
<1>3. data[Slot(i)] \in Nat /\ data[Slot(i + 1)] \in Nat
  BY <1>1, <1>2
<1>4. \A b \in Nat : BYTE * b \in Nat
  BY <1>1
<1> QED
  BY <1>3, <1>4 DEF LengthAt

LEMMA CopyOutType ==
    ASSUME RecConstants, TypeOK, NEW i \in Nat, NEW len \in Nat
    PROVE  CopyOut(i, len) \in Seq(Byte) /\ Len(CopyOut(i, len)) = len
<1>1. Size \in Nat /\ Size > 0
  BY Basics
<1>2. ASSUME NEW k \in 1..len PROVE data[Slot(i + k - 1)] \in Byte
  <2>1. i + k - 1 \in Nat
    OBVIOUS
  <2>2. Slot(i + k - 1) \in 0..(Size - 1)
    BY <1>1, <2>1, Division DEF Slot
  <2> QED
    BY <2>2 DEF TypeOK
<1> QED
  BY <1>2 DEF CopyOut

(* Each record lies between its mark and the next.                          *)
LEMMA MarkedRecord ==
    ASSUME RecConstants, TypeOK, kfifo_len \in Nat, NEW m \in Nat, NEW s, Marks(m, s),
           NEW k \in 1..m
    PROVE  /\ s[k - 1] \in Nat /\ s[k] \in Nat /\ LengthAt(out + s[k - 1]) \in Nat
           /\ s[k] = s[k - 1] + recsize + LengthAt(out + s[k - 1]) /\ s[k] <= kfifo_len
           /\ out + s[k - 1] \in Nat
<1>1. k - 1 \in 0..m /\ k - 1 \in 0..(m - 1) /\ k \in 0..m /\ (k - 1) + 1 = k
  OBVIOUS
<1>2. s[k - 1] \in 0..kfifo_len /\ s[k] \in 0..kfifo_len
  BY <1>1 DEF Marks
<1>3. out + s[k - 1] \in Nat
  BY <1>2, Basics
<1>4. s[k] = s[k - 1] + recsize + LengthAt(out + s[k - 1])
  BY <1>1 DEF Marks
<1>5. LengthAt(out + s[k - 1]) \in Nat
  BY <1>3, LengthType
<1> QED
  BY <1>2, <1>3, <1>4, <1>5

(* They stay while the bytes between out and in do.                         *)
LEMMA MarksKept ==
    ASSUME RecConstants, TypeOK, kfifo_len \in Nat, UNCHANGED <<recsize, in, out>>,
           \A x \in 0..(kfifo_len - 1) : data'[Slot(out + x)] = data[Slot(out + x)],
           NEW m \in Nat, NEW s, Marks(m, s)
    PROVE  Marks(m, s)' /\ Listing(m, s)' = Listing(m, s)
<1>1. kfifo_len' = kfifo_len
  BY DEF kfifo_len
<1>2. recsize \in {1, 2} /\ out \in Nat
  BY Basics
<1>3. ASSUME NEW k \in 1..m
      PROVE  LengthAt(out + s[k - 1])' = LengthAt(out + s[k - 1])
  <2>0. /\ s[k - 1] \in Nat /\ s[k] \in Nat /\ LengthAt(out + s[k - 1]) \in Nat
        /\ s[k] = s[k - 1] + recsize + LengthAt(out + s[k - 1]) /\ s[k] <= kfifo_len
    BY <1>3, MarkedRecord
  <2>1. s[k - 1] \in 0..(kfifo_len - 1) /\ (recsize = 2 => s[k - 1] + 1 \in 0..(kfifo_len - 1))
    BY <1>2, <2>0
  <2>2. out + s[k - 1] + 1 = out + (s[k - 1] + 1)
    BY <1>2, <2>1
  <2> QED
    BY <1>2, <2>1, <2>2 DEF LengthAt
<1>4. Marks(m, s)'
  <2>1. \A k \in 0..(m - 1) : LengthAt(out + s[k])' = LengthAt(out + s[k])
    <3> SUFFICES ASSUME NEW k \in 0..(m - 1) PROVE LengthAt(out + s[k])' = LengthAt(out + s[k])
      OBVIOUS
    <3>1. k + 1 \in 1..m /\ (k + 1) - 1 = k
      OBVIOUS
    <3> QED
      BY <1>3, <3>1
  <2> QED
    BY <1>1, <2>1 DEF Marks
<1>5. ASSUME NEW k \in 1..m PROVE Record(s[k - 1])' = Record(s[k - 1])
  <2> DEFINE len == LengthAt(out + s[k - 1])
             o == s[k - 1] + recsize
  <2>0. /\ s[k - 1] \in Nat /\ s[k] \in Nat /\ len \in Nat
        /\ s[k] = s[k - 1] + recsize + len /\ s[k] <= kfifo_len
    BY <1>5, MarkedRecord
  <2>1. len \in Nat /\ len' = len /\ o \in Nat /\ o + len <= kfifo_len
    <3>1. len' = len
      BY <1>3
    <3> HIDE DEF len
    <3> QED
      BY <1>2, <2>0, <3>1
  <2>2. out + s[k - 1] + recsize = out + o
    BY <1>2, <2>0
  <2>3. \A i \in 1..len : data'[Slot((out + o) + i - 1)] = data[Slot((out + o) + i - 1)]
    <3> HIDE DEF len, o
    <3> SUFFICES ASSUME NEW i \in 1..len
                 PROVE  data'[Slot((out + o) + i - 1)] = data[Slot((out + o) + i - 1)]
      OBVIOUS
    <3>1. o + i - 1 \in 0..(kfifo_len - 1) /\ (out + o) + i - 1 = out + (o + i - 1)
      BY <1>2, <2>1
    <3> QED
      BY <3>1
  <2>4. CopyOut(out + o, len)' = CopyOut(out + o, len)
    <3>1. CopyOut(out + o, len)' = [i \in 1..len |-> data'[Slot((out + o) + i - 1)]]
      BY <2>1 DEF CopyOut
    <3> QED
      BY <2>3, <3>1 DEF CopyOut
  <2> QED
    BY <2>2, <2>4 DEF Record
<1>6. Listing(m, s)' = Listing(m, s)
  BY <1>5 DEF Listing
<1> QED
  BY <1>4, <1>6

(* Start finds the marks.                                                   *)
LEMMA StartFound ==
    ASSUME RecConstants, TypeOK, kfifo_len \in 0..Size, NEW m \in Nat, NEW s, Marks(m, s)
    PROVE  /\ m <= Size
           /\ \A k \in 0..Size : Start[k] = IF k <= m THEN s[k] ELSE kfifo_len
<1> DEFINE step(g, k) == IF k = 0 THEN 0
                         ELSE IF g[k - 1] >= kfifo_len THEN g[k - 1]
                         ELSE g[k - 1] + LengthAt(out + g[k - 1]) + recsize
           f == [k \in 0..Size |-> IF k <= m THEN s[k] ELSE kfifo_len]
<1>1. Size \in Nat /\ recsize \in {1, 2}
  BY Basics
<1>2. s[0] = 0 /\ s[m] = kfifo_len /\ \A k \in 0..m : s[k] \in 0..kfifo_len
  BY DEF Marks
<1>3. m <= Size
  <2>1. 0 \in 0..m /\ m \in 0..m /\ 0 <= m
    OBVIOUS
  <2>2. s[m] >= s[0] + (m - 0)
    BY <2>1 DEF Marks
  <2> QED
    BY <1>1, <1>2, <2>2
<1>4. ASSUME NEW k \in 0..Size PROVE f[k] = step(f, k)
  <2>1. CASE k = 0
    BY <1>2, <2>1
  <2>2. CASE k \in 1..m
    <3>1. /\ s[k - 1] \in Nat /\ LengthAt(out + s[k - 1]) \in Nat /\ s[k] <= kfifo_len
          /\ s[k] = s[k - 1] + recsize + LengthAt(out + s[k - 1])
      BY <2>2, MarkedRecord
    <3>2. f[k] = s[k] /\ f[k - 1] = s[k - 1]
      BY <1>1, <2>2
    <3> HIDE DEF f
    <3> QED
      BY <1>1, <2>2, <3>1, <3>2
  <2>3. CASE k > m
    <3>1. f[k] = kfifo_len /\ f[k - 1] = kfifo_len
      BY <1>1, <1>2, <2>3
    <3> HIDE DEF f
    <3> QED
      BY <1>1, <2>3, <3>1
  <2> QED
    BY <1>1, <2>1, <2>2, <2>3
<1>5. f = [k \in 0..Size |-> step(f, k)]
  <2>1. f = [k \in 0..Size |-> f[k]]
    OBVIOUS
  <2> HIDE DEF f, step
  <2> QED
    BY <1>4, <2>1
<1>6. Start = [k \in 0..Size |-> step(Start, k)]
  <2>1. \E g : g = [k \in 0..Size |-> step(g, k)]
    <3> HIDE DEF f
    <3> QED
      BY <1>5
  <2> QED
    BY <2>1 DEF Start
<1>7. \A k \in 0..Size : Start[k] = step(Start, k)
  <2> HIDE DEF step
  <2> QED
    BY <1>6
<1> DEFINE T == {k \in Nat : k <= Size => Start[k] = f[k]}
<1>8. 0 \in T
  BY <1>1, <1>2, <1>7
<1>9. ASSUME NEW k \in Nat, k \in T PROVE k + 1 \in T
  <2> SUFFICES ASSUME k + 1 <= Size PROVE Start[k + 1] = f[k + 1]
    OBVIOUS
  <2>1. k + 1 \in 0..Size /\ (k + 1) - 1 = k /\ k + 1 # 0 /\ Start[k] = f[k]
    BY <1>1, <1>9
  <2>2. Start[k + 1] = step(Start, k + 1) /\ f[k + 1] = step(f, k + 1)
    BY <1>4, <1>7, <2>1
  <2> HIDE DEF f
  <2> QED
    BY <2>1, <2>2
<1>10. \A k \in Nat : k \in T
  <2> HIDE DEF T
  <2> QED
    BY <1>8, <1>9, Induction
<1>11. ASSUME NEW k \in 0..Size
       PROVE  Start[k] = IF k <= m THEN s[k] ELSE kfifo_len
  <2>1. k \in Nat /\ k <= Size
    BY <1>1
  <2>2. Start[k] = f[k]
    BY <1>10, <2>1
  <2> QED
    BY <2>2
<1> QED
  BY <1>3, <1>11

LEMMA LengthOfRing ==
    ASSUME RecConstants, TypeOK
    PROVE  kfifo_len \in Nat /\ kfifo_len = IF in >= out THEN in - out ELSE in + UINT - out
<1>1. in \in Index /\ out \in Index /\ UINT \in Nat
  BY Basics
<1>2. kfifo_len = IF in >= out THEN in - out ELSE in + UINT - out
  BY <1>1, MinusIs DEF kfifo_len
<1> QED
  BY <1>1, <1>2 DEF Index

(* So the records tile the ring, and Contents lists them.                   *)
LEMMA ContentsOfMarks ==
    ASSUME RecConstants, TypeOK, kfifo_len \in 0..Size, NEW m \in Nat, NEW s, Marks(m, s)
    PROVE  Tiled /\ Contents = Listing(m, s)
<1>1. /\ m <= Size /\ Size \in Nat
      /\ \A k \in 0..Size : Start[k] = IF k <= m THEN s[k] ELSE kfifo_len
  BY StartFound, Basics
<1>2. s[m] = kfifo_len /\ \A j, k \in 0..m : j <= k => s[k] >= s[j] + (k - j)
  BY DEF Marks
<1>3. \A k \in 0..m : s[k] \in 0..kfifo_len
  BY DEF Marks
<1>4. Start[Size] = kfifo_len
  <2>1. Size \in 0..Size /\ (Size <= m => Size = m)
    BY <1>1
  <2> QED
    BY <1>1, <1>2, <2>1
<1>5. Tiled
  BY <1>4 DEF Tiled
<1>6. \A k \in 0..m : Start[k] = s[k]
  BY <1>1
<1>7. \A k \in 0..(m - 1) : Start[k] < kfifo_len
  <2> SUFFICES ASSUME NEW k \in 0..(m - 1) PROVE s[k] < s[m]
    BY <1>2, <1>6
  <2>1. k \in 0..m /\ m \in 0..m /\ k <= m
    OBVIOUS
  <2>2. s[m] >= s[k] + (m - k) /\ s[k] \in Nat
    BY <1>2, <1>3, <2>1
  <2> QED
    BY <1>2, <1>3, <2>1, <2>2
<1> DEFINE P(k) == /\ k = Size \/ Start[k] >= kfifo_len
                   /\ \A j \in 0..(k - 1) : Start[j] < kfifo_len
<1>8. m \in 0..Size /\ Start[m] = kfifo_len /\ P(m)
  BY <1>1, <1>2, <1>7
<1>9. ASSUME NEW k \in 0..Size, P(k) PROVE k = m
  <2>1. CASE k < m
    <3>1. k \in 0..(m - 1) /\ k \in 0..m /\ k # Size
      BY <1>1, <2>1
    <3>2. Start[k] < kfifo_len
      BY <1>7, <3>1
    <3>3. Start[k] \in 0..kfifo_len
      BY <1>3, <1>6, <3>1
    <3> QED
      BY <1>9, <3>1, <3>2, <3>3
  <2>2. CASE k > m
    <3>1. m \in 0..(k - 1)
      BY <2>2
    <3> QED
      BY <1>8, <1>9, <3>1
  <2> QED
    BY <1>1, <2>1, <2>2
<1>10. Count = m
  <2> HIDE DEF P
  <2>1. Count = CHOOSE k \in 0..Size : P(k)
    BY DEF Count, P
  <2> QED
    BY <1>8, <1>9, <2>1
<1>11. ASSUME NEW k \in 1..m
       PROVE  Start[k - 1] = s[k - 1]
  BY <1>6
<1>12. Contents = [k \in 1..m |-> Record(Start[k - 1])]
  <2>1. ASSUME NEW k \in 1..m
        PROVE  CopyOut(out + Start[k - 1] + recsize, LengthAt(out + Start[k - 1]))
               = Record(Start[k - 1])
    BY DEF Record
  <2>2. CASE in = out
    <3>1. kfifo_len = 0
      BY <2>2, LengthOfRing, Basics DEF Index
    <3>2. m = 0
      BY <1>2, <1>3, <3>1
    <3>3. Contents = <<>>
      BY <2>2 DEF Contents
    <3> QED
      BY <3>2, <3>3
  <2>3. CASE in # out
    BY <1>10, <2>1, <2>3 DEF Contents
  <2> QED
    BY <2>2, <2>3
<1>13. Contents = Listing(m, s)
  BY <1>11, <1>12 DEF Listing
<1> QED
  BY <1>5, <1>13

Listed ==
    \A m \in Nat : \A s :
        TypeOK /\ kfifo_len \in 0..Size /\ Marks(m, s) => Tiled /\ Contents = Listing(m, s)

LEMMA ContentsListed == RecConstants => Listed
BY ContentsOfMarks DEF Listed

LEMMA ContentsListedNext == RecConstants => Listed'
<1>1. RecConstants' => Listed'
  BY ContentsListed, PTL
<1>2. RecConstants => RecConstants'
  BY DEF RecConstants, Byte
<1> QED
  BY <1>1, <1>2

(* The indices and the bytes between them stay: so do the records.          *)
LEMMA RingKept ==
    ASSUME RecConstants, RecInv, TypeOK', UNCHANGED <<recsize, in, out>>,
           \A x \in 0..(kfifo_len - 1) : data'[Slot(out + x)] = data[Slot(out + x)]
    PROVE  Tiles' /\ kfifo_len' = kfifo_len /\ Contents' = Contents
<1>1. PICK m \in Nat : \E s \in [0..m -> 0..kfifo_len] : Marks(m, s)
  BY DEF RecInv, Tiles
<1>2. PICK s \in [0..m -> 0..kfifo_len] : Marks(m, s)
  BY <1>1
<1>3. TypeOK /\ kfifo_len \in 0..Size /\ kfifo_len \in Nat
  BY LengthOfRing, Basics DEF RecInv
<1>4. kfifo_len' = kfifo_len
  BY DEF kfifo_len
<1>5. Marks(m, s)' /\ Listing(m, s)' = Listing(m, s)
  BY <1>2, <1>3, MarksKept
<1>6. Contents = Listing(m, s)
  BY <1>2, <1>3, ContentsListed DEF Listed
<1>7. Contents' = Listing(m, s)'
  <2>1. Size' = Size
    OBVIOUS
  <2>2. kfifo_len' \in 0..Size
    BY <1>3, <1>4
  <2> QED
    BY <1>5, <2>2, ContentsListedNext DEF Listed
<1>8. Tiles'
  BY <1>2, <1>4, <1>5 DEF Tiles
<1> QED
  BY <1>4, <1>5, <1>6, <1>7, <1>8

(* The first record lies between out and in.                                *)
LEMMA FirstRecord ==
    ASSUME RecConstants, RecInv, in # out
    PROVE  /\ kfifo_peek_n \in Nat /\ recsize + kfifo_peek_n <= kfifo_len
           /\ Contents # <<>> /\ Contents \in Seq(Seq(Byte))
           /\ Contents[1] = CopyOut(out + recsize, kfifo_peek_n)
<1>1. PICK m \in Nat : \E s \in [0..m -> 0..kfifo_len] : Marks(m, s)
  BY DEF RecInv, Tiles
<1>2. PICK s \in [0..m -> 0..kfifo_len] : Marks(m, s)
  BY <1>1
<1>3. TypeOK /\ kfifo_len \in 0..Size /\ kfifo_len \in Nat
  BY LengthOfRing, Basics DEF RecInv
<1>4. kfifo_len # 0
  <2>1. in \in Index /\ out \in Index /\ UINT \in Nat
    BY <1>3, Basics
  <2> QED
    BY <1>3, <2>1, LengthOfRing DEF Index
<1>5. s[0] = 0 /\ s[m] = kfifo_len
  BY <1>2 DEF Marks
<1>6. m # 0 /\ 1 \in 1..m
  BY <1>4, <1>5
<1>7. out \in Nat /\ out + 0 = out
  BY <1>3, Basics
<1>8. /\ LengthAt(out + s[1 - 1]) \in Nat /\ s[1] <= kfifo_len /\ s[1] \in Nat
      /\ s[1] = s[1 - 1] + recsize + LengthAt(out + s[1 - 1])
  BY <1>2, <1>3, <1>6, MarkedRecord
<1>9. out + s[1 - 1] = out /\ s[1 - 1] = 0
  BY <1>5, <1>7
<1>10. kfifo_peek_n \in Nat /\ recsize + kfifo_peek_n <= kfifo_len
  BY <1>3, <1>8, <1>9, Basics DEF kfifo_peek_n
<1>11. Contents = Listing(m, s)
  BY <1>2, <1>3, ContentsListed DEF Listed
<1>12. ASSUME NEW k \in 1..m PROVE Record(s[k - 1]) \in Seq(Byte)
  <2>1. s[k - 1] \in Nat /\ LengthAt(out + s[k - 1]) \in Nat
    BY <1>2, <1>3, MarkedRecord
  <2>2. out + s[k - 1] + recsize \in Nat
    BY <1>3, <2>1, Basics
  <2> QED
    BY <1>3, <2>1, <2>2, CopyOutType DEF Record
<1>13. Listing(m, s) \in Seq(Seq(Byte)) /\ Len(Listing(m, s)) = m
  BY <1>12 DEF Listing
<1>14. Listing(m, s)[1] = Record(0)
  BY <1>6, <1>9 DEF Listing
<1>15. Record(0) = CopyOut(out + recsize, kfifo_peek_n)
  BY <1>7 DEF Record, kfifo_peek_n
<1>16. Contents # <<>>
  BY <1>6, <1>11, <1>13
<1> QED
  BY <1>10, <1>11, <1>13, <1>14, <1>15, <1>16

----------------------------------------------------------------------------
(* The writer's steps.                                                      *)

LEMMA RecordFacts ==
    ASSUME RecConstants, RecInv
    PROVE  /\ TypeOK /\ kfifo_len \in Nat /\ kfifo_len <= Size /\ Tiles /\ Writing /\ Reading
           /\ in \in Nat /\ in \in Index /\ out \in Nat /\ out \in Index
           /\ Size \in Nat /\ Size > 0 /\ UINT \in Nat /\ Size < UINT /\ recsize \in {1, 2}
           /\ data \in [0..(Size - 1) -> Byte]
           /\ wpc # "idle" => rec \in Seq(Payload) /\ rec \in Seq(Byte) /\ Len(rec) \in Nat
<1>1. TypeOK /\ kfifo_len <= Size /\ Tiles /\ Writing /\ Reading
  BY DEF RecInv
<1>2. kfifo_len \in Nat
  BY <1>1, LengthOfRing
<1>3. Size < UINT
  BY WideIndex
<1>4. wpc # "idle" => rec \in Seq(Payload)
  BY <1>1 DEF TypeOK, Writing
<1>5. Payload \subseteq Byte
  BY DEF RecConstants
<1>6. wpc # "idle" => rec \in Seq(Byte) /\ Len(rec) \in Nat
  <2> SUFFICES ASSUME wpc # "idle" PROVE rec \in Seq(Byte) /\ Len(rec) \in Nat
    OBVIOUS
  <2>1. rec \in [1..Len(rec) -> Payload] /\ Len(rec) \in Nat
    BY <1>4, LenProperties
  <2> QED
    BY <1>5, <2>1
<1>7. data \in [0..(Size - 1) -> Byte]
  BY <1>1 DEF TypeOK
<1> QED
  BY <1>1, <1>2, <1>3, <1>4, <1>6, <1>7, Basics

LEMMA NoneIsNoRecord == RecConstants => NONE \notin Seq(Payload) /\ NONE \notin Seq(Byte)
<1> SUFFICES ASSUME RecConstants PROVE NONE \notin Seq(Payload) /\ NONE \notin Seq(Byte)
  OBVIOUS
<1>1. Payload \subseteq Byte /\ NONE \notin Seq(Byte)
  BY DEF RecConstants
<1>2. Seq(Payload) \subseteq Seq(Byte)
  <2> SUFFICES ASSUME NEW q \in Seq(Payload) PROVE q \in Seq(Byte)
    OBVIOUS
  <2>1. q \in [1..Len(q) -> Payload] /\ Len(q) \in Nat
    BY LenProperties
  <2> QED
    BY <1>1, <2>1
<1> QED
  BY <1>1, <1>2

(* A record that may be offered.                                            *)
LEMMA StartInStep ==
    ASSUME RecConstants, RecInv, NEW buf \in Seq(Payload), Len(buf) <= MaxRecord,
           NEW label \in {"copy", "transfer", "dma"}, StartIn(buf, label)
    PROVE  RecInv' /\ R!Offer
<1>1. /\ wpc = "idle" /\ Len(buf) + recsize <= kfifo_unused /\ wpc' = label /\ rec' = buf
      /\ UNCHANGED <<recsize, in, out, data, rpc, rlen, n, dst>>
  BY DEF StartIn, ring, reader
<1>2. TypeOK'
  BY <1>1 DEF RecInv, TypeOK
<1>3. Tiles' /\ kfifo_len' = kfifo_len /\ Contents' = Contents
  <2> DEFINE P(x) == data'[Slot(out + x)] = data[Slot(out + x)]
  <2>1. \A x \in 0..(kfifo_len - 1) : P(x)
    BY <1>1
  <2> QED
    BY <1>1, <1>2, <2>1, RingKept
<1>4. rec = NONE /\ rec' # NONE
  BY <1>1, NoneIsNoRecord DEF RecInv, Writing
<1>5. Writing'
  BY <1>1, <1>3, <1>4 DEF Writing, MaxRecord, kfifo_unused
<1>6. Reading'
  BY <1>1 DEF RecInv, Reading, kfifo_peek_n, LengthAt
<1>7. kfifo_len' <= Size
  BY <1>3 DEF RecInv
<1>8. RecInv'
  BY <1>2, <1>3, <1>5, <1>6, <1>7 DEF RecInv
<1> QED
  BY <1>1, <1>3, <1>4, <1>8 DEF R!Offer

LEMMA ClampedRecord ==
    ASSUME RecConstants, TypeOK, NEW buf \in Seq(Payload)
    PROVE  Clamped(buf) \in Seq(Payload) /\ Len(Clamped(buf)) <= MaxRecord
<1>1. BYTE \in Nat /\ BYTE > 0
  BY Basics
<1>2. BYTE * BYTE \in Nat /\ BYTE * BYTE >= 1
  BY <1>1
<1>3. MaxRecord \in Nat
  BY <1>1, <1>2 DEF MaxRecord
<1>4. Len(buf) \in Nat
  BY LenProperties
<1> DEFINE l == kfifo_max_r(Len(buf))
<1>5. l \in 0..Len(buf) /\ l <= MaxRecord
  BY <1>3, <1>4 DEF kfifo_max_r, Least
<1> HIDE DEF l
<1>6. SubSeq(buf, 1, l) \in Seq(Payload) /\ Len(SubSeq(buf, 1, l)) = l
  BY <1>4, <1>5, SubSeqProperties
<1> QED
  BY <1>5, <1>6 DEF Clamped, l

WriterType ==
    /\ wpc \in {"idle", "copy", "transfer", "dma", "dma done", "publish"}
    /\ rec \in Seq(Payload) \cup {NONE}

(* Writing bytes behind in leaves the records and what the reader knows.    *)
LEMMA BytesWritten ==
    ASSUME RecConstants, RecInv, wpc # "idle", NEW c \in Nat, NEW bytes \in Seq(Byte),
           c <= recsize, c + Len(bytes) <= recsize + Len(rec),
           data' = CopyIn(in + c, bytes),
           UNCHANGED <<recsize, in, out, rpc, rlen, n, dst>>,
           WriterType'
    PROVE  /\ TypeOK' /\ Tiles' /\ kfifo_len' = kfifo_len /\ Contents' = Contents /\ Reading'
           /\ \A j \in 0..(Size - 1) :
                  data'[Slot(in + c + j)] =
                      IF j < Len(bytes) THEN bytes[j + 1] ELSE data[Slot(in + c + j)]
<1>1. /\ TypeOK /\ kfifo_len \in Nat /\ kfifo_len <= Size /\ in \in Nat /\ Size \in Nat
      /\ recsize \in {1, 2} /\ Len(rec) \in Nat /\ out \in Nat
  BY RecordFacts
<1>2. Len(rec) + recsize <= Size - kfifo_len
  BY DEF RecInv, Writing, kfifo_unused
<1>3. Len(bytes) \in Nat
  BY LenProperties
<1>4. c \in 0..Size /\ c + Len(bytes) <= Size - kfifo_len /\ Len(bytes) <= Size /\ in + c \in Nat
  <2>1. c \in Nat /\ c <= recsize
    BY <1>1
  <2>2. PICK a \in Int, b \in Int : a = c + Len(bytes) /\ b = recsize + Len(rec)
    BY <1>1, <1>3, <2>1
  <2>3. a <= Size - kfifo_len
    BY <1>1, <1>2, <2>2
  <2> QED
    BY <1>1, <1>3, <2>1, <2>2, <2>3
<1>5. /\ data' \in [0..(Size - 1) -> Byte]
      /\ \A j \in 0..(Size - 1) :
             data'[Slot((in + c) + j)] =
                 IF j < Len(bytes) THEN bytes[j + 1] ELSE data[Slot((in + c) + j)]
  BY <1>1, <1>4, CopiedIn
<1>6. \A x \in 0..(kfifo_len - 1) : data'[Slot(out + x)] = data[Slot(out + x)]
  BY <1>1, <1>4, ContentsKept
<1>7. TypeOK'
  BY <1>1, <1>5 DEF TypeOK, WriterType
<1>8. Tiles' /\ kfifo_len' = kfifo_len /\ Contents' = Contents
  BY <1>6, <1>7, RingKept
<1>9. in # out => kfifo_peek_n' = kfifo_peek_n
  <2> SUFFICES ASSUME in # out PROVE kfifo_peek_n' = kfifo_peek_n
    OBVIOUS
  <2>1. kfifo_peek_n \in Nat /\ recsize + kfifo_peek_n <= kfifo_len
    BY FirstRecord
  <2>2. out + 0 = out
    BY <1>1
  <2>3. recsize = 2 => 1 \in 0..(kfifo_len - 1)
    BY <1>1, <2>1
  <2>4. 0 \in 0..(kfifo_len - 1)
    BY <1>1, <2>1
  <2>5. data'[Slot(out)] = data[Slot(out)]
        /\ (recsize = 2 => data'[Slot(out + 1)] = data[Slot(out + 1)])
    BY <1>6, <2>2, <2>3, <2>4
  <2> QED
    BY <1>1, <2>5 DEF kfifo_peek_n, LengthAt
<1>10. Reading'
  BY <1>9 DEF RecInv, Reading
<1> QED
  BY <1>5, <1>7, <1>8, <1>10

Steps == R!Offer \/ R!Shorten \/ R!Withdraw \/ R!Put \/ R!Look \/ R!LookAway \/ R!Take \/ R!Discard
             \/ UNCHANGED <<Contents, rec, dst>>

LEMMA FillStep ==
    ASSUME RecConstants, RecInv, Fill
    PROVE  RecInv' /\ Steps
<1> DEFINE bytes == Header(Len(rec)) \o rec
<1>1. /\ wpc # "idle" /\ wpc' = "publish" /\ rec' = rec /\ data' = CopyIn(in, bytes)
      /\ UNCHANGED <<recsize, in, out, rpc, rlen, n, dst>>
  BY DEF Fill, reader
<1>2. /\ TypeOK /\ kfifo_len \in Nat /\ kfifo_len <= Size /\ in \in Nat /\ Size \in Nat
      /\ recsize \in {1, 2} /\ Len(rec) \in Nat /\ rec \in Seq(Byte) /\ Writing
  BY <1>1, RecordFacts
<1>3. Len(rec) <= MaxRecord /\ Len(rec) + recsize <= Size - kfifo_len
  BY <1>1, <1>2 DEF Writing, kfifo_unused
<1>4. Header(Len(rec)) \in Seq(Byte) /\ Len(Header(Len(rec))) = recsize
  BY <1>2, <1>3, HeaderSays
<1> DEFINE h == Header(Len(rec))
<1>5. /\ bytes \in Seq(Byte) /\ Len(bytes) = recsize + Len(rec)
      /\ \A j \in 1..recsize : bytes[j] = h[j]
      /\ \A k \in 1..Len(rec) : bytes[recsize + k] = rec[k]
  <2> HIDE DEF h
  <2>1. h \in Seq(Byte) /\ Len(h) = recsize /\ rec \in Seq(Byte) /\ bytes = h \o rec
    BY <1>2, <1>4 DEF h
  <2> HIDE DEF bytes
  <2>2. bytes \in Seq(Byte) /\ Len(bytes) = recsize + Len(rec)
    BY <2>1, ConcatProperties
  <2>3. \A i \in 1..Len(h) + Len(rec) : bytes[i] = IF i <= Len(h) THEN h[i] ELSE rec[i - Len(h)]
    BY <2>1, ConcatProperties
  <2>4. ASSUME NEW j \in 1..recsize PROVE bytes[j] = h[j]
    BY <1>2, <2>1, <2>3
  <2>5. ASSUME NEW k \in 1..Len(rec) PROVE bytes[recsize + k] = rec[k]
    <3>1. PICK i \in Int : i = recsize + k
      BY <1>2
    <3>2. i \in 1..Len(h) + Len(rec) /\ ~(i <= Len(h)) /\ i - Len(h) = k
      BY <1>2, <2>1, <3>1
    <3>3. bytes[i] = rec[k]
      BY <2>3, <3>2
    <3> QED
      BY <3>1, <3>3
  <2> QED
    BY <2>2, <2>4, <2>5
<1> HIDE DEF bytes, h
<1>6. WriterType'
  BY <1>1, <1>2 DEF WriterType, TypeOK
<1>7. in + 0 = in /\ 0 <= recsize /\ 0 + Len(bytes) <= recsize + Len(rec)
  BY <1>2, <1>5
<1>8. /\ TypeOK' /\ Tiles' /\ kfifo_len' = kfifo_len /\ Contents' = Contents /\ Reading'
      /\ \A j \in 0..(Size - 1) :
             data'[Slot(in + 0 + j)] = IF j < Len(bytes) THEN bytes[j + 1] ELSE data[Slot(in + 0 + j)]
  BY <1>1, <1>5, <1>6, <1>7, BytesWritten
<1>9. ASSUME NEW j \in 0..(recsize + Len(rec) - 1) PROVE data'[Slot(in + j)] = bytes[j + 1]
  <2>1. j \in 0..(Size - 1) /\ j < Len(bytes) /\ in + 0 + j = in + j
    BY <1>2, <1>3, <1>5
  <2> QED
    BY <1>8, <2>1
<1>10. LengthAt(in)' = Len(rec)
  <2>1. \A j \in 0..(recsize - 1) : data'[Slot(in + j)] = Header(Len(rec))[j + 1]
    <3> SUFFICES ASSUME NEW j \in 0..(recsize - 1) PROVE data'[Slot(in + j)] = h[j + 1]
      BY DEF h
    <3>1. j \in 0..(recsize + Len(rec) - 1) /\ j + 1 \in 1..recsize
      BY <1>2
    <3> QED
      BY <1>5, <1>9, <3>1
  <2> QED
    BY <1>1, <1>2, <1>3, <2>1, LengthSaid
<1>11. Holds(in + recsize, rec)'
  <2>1. ASSUME NEW k \in 1..Len(rec) PROVE data'[Slot((in + recsize) + k - 1)] = rec[k]
    <3>1. recsize + k - 1 \in 0..(recsize + Len(rec) - 1) /\ (recsize + k - 1) + 1 = recsize + k
          /\ in + (recsize + k - 1) = (in + recsize) + k - 1
      BY <1>2
    <3>2. data'[Slot(in + (recsize + k - 1))] = bytes[(recsize + k - 1) + 1]
      BY <1>9, <3>1
    <3> QED
      BY <1>5, <3>1, <3>2
  <2> QED
    BY <1>1, <2>1 DEF Holds
<1>12. rec # NONE
  BY <1>1 DEF RecInv, Writing
<1>13. Writing'
  BY <1>1, <1>8, <1>10, <1>11, <1>12 DEF RecInv, Writing, MaxRecord, kfifo_unused
<1>14. RecInv'
  BY <1>2, <1>8, <1>13 DEF RecInv
<1> QED
  BY <1>1, <1>8, <1>14 DEF Steps

LEMMA FaultInStep ==
    ASSUME RecConstants, RecInv, FaultIn
    PROVE  RecInv' /\ Steps
<1>1. /\ wpc # "idle" /\ wpc' = "idle" /\ rec' = NONE
      /\ UNCHANGED <<recsize, in, out, rpc, rlen, n, dst>>
  BY DEF FaultIn, reader
<1>2. PICK k \in 0..(Len(rec) - 1) : data' = CopyIn(in, Header(Len(rec)) \o SubSeq(rec, 1, k))
  BY DEF FaultIn
<1> DEFINE bytes == Header(Len(rec)) \o SubSeq(rec, 1, k)
<1>3. /\ TypeOK /\ kfifo_len <= Size /\ in \in Nat
      /\ recsize \in {1, 2} /\ Len(rec) \in Nat /\ rec \in Seq(Byte) /\ Writing
  BY <1>1, RecordFacts
<1>4. Header(Len(rec)) \in Seq(Byte) /\ Len(Header(Len(rec))) = recsize
  BY <1>1, <1>3, HeaderSays DEF Writing
<1>5. SubSeq(rec, 1, k) \in Seq(Byte) /\ Len(SubSeq(rec, 1, k)) <= Len(rec)
      /\ Len(SubSeq(rec, 1, k)) \in Nat
  BY <1>3, SubSeqProperties
<1>6. bytes \in Seq(Byte) /\ Len(bytes) = recsize + Len(SubSeq(rec, 1, k))
  BY <1>4, <1>5, ConcatProperties
<1>7. in + 0 = in /\ 0 <= recsize /\ 0 + Len(bytes) <= recsize + Len(rec)
  <2> HIDE DEF bytes
  <2> QED
    BY <1>3, <1>5, <1>6
<1>8. WriterType'
  BY <1>1 DEF WriterType
<1>9. TypeOK' /\ Tiles' /\ kfifo_len' = kfifo_len /\ Contents' = Contents /\ Reading'
  <2>1. data' = CopyIn(in + 0, bytes)
    BY <1>2, <1>7
  <2> HIDE DEF bytes
  <2> QED
    BY <1>1, <1>6, <1>7, <1>8, <2>1, BytesWritten
<1>10. Writing'
  BY <1>1 DEF Writing
<1>11. RecInv'
  BY <1>3, <1>9, <1>10 DEF RecInv
<1>12. R!Withdraw
  BY <1>1, <1>9 DEF R!Withdraw
<1> QED
  BY <1>11, <1>12 DEF Steps

LEMMA DeviceFillsStep ==
    ASSUME RecConstants, RecInv, DeviceFills
    PROVE  RecInv' /\ Steps
<1>1. /\ wpc # "idle" /\ wpc' = "dma done" /\ rec' = rec /\ data' = CopyIn(in + recsize, rec)
      /\ UNCHANGED <<recsize, in, out, rpc, rlen, n, dst>>
  BY DEF DeviceFills, reader
<1>2. /\ TypeOK /\ kfifo_len \in Nat /\ kfifo_len <= Size /\ in \in Nat /\ Size \in Nat
      /\ recsize \in {1, 2} /\ Len(rec) \in Nat /\ rec \in Seq(Byte) /\ Writing
  BY <1>1, RecordFacts
<1>3. Len(rec) + recsize <= Size - kfifo_len
  BY <1>1, <1>2 DEF Writing, kfifo_unused
<1>4. WriterType'
  BY <1>1, <1>2 DEF WriterType, TypeOK
<1>5. recsize \in Nat /\ recsize <= recsize /\ recsize + Len(rec) <= recsize + Len(rec)
  BY <1>2
<1>6. /\ TypeOK' /\ Tiles' /\ kfifo_len' = kfifo_len /\ Contents' = Contents /\ Reading'
      /\ \A j \in 0..(Size - 1) :
             data'[Slot(in + recsize + j)] =
                 IF j < Len(rec) THEN rec[j + 1] ELSE data[Slot(in + recsize + j)]
  BY <1>1, <1>2, <1>4, <1>5, BytesWritten
<1>7. Holds(in + recsize, rec)'
  <2>1. ASSUME NEW k \in 1..Len(rec) PROVE data'[Slot((in + recsize) + k - 1)] = rec[k]
    <3>1. k - 1 \in 0..(Size - 1) /\ k - 1 < Len(rec) /\ (k - 1) + 1 = k
          /\ in + recsize + (k - 1) = (in + recsize) + k - 1
      BY <1>2, <1>3
    <3> QED
      BY <1>6, <3>1
  <2> QED
    BY <1>1, <2>1 DEF Holds
<1>8. rec # NONE
  BY <1>1 DEF RecInv, Writing
<1>9. Writing'
  BY <1>1, <1>6, <1>7, <1>8 DEF RecInv, Writing, MaxRecord, kfifo_unused
<1>10. RecInv'
  BY <1>2, <1>6, <1>9 DEF RecInv
<1> QED
  BY <1>1, <1>6, <1>10 DEF Steps

LEMMA DmaInFinishStep ==
    ASSUME RecConstants, RecInv, NEW len \in Nat, kfifo_dma_in_finish(len)
    PROVE  RecInv' /\ Steps
<1>0. wpc # "idle" /\ wpc = "dma done" /\ wpc' = "publish"
  BY DEF kfifo_dma_in_finish
<1>1. /\ len \in 0..Len(rec)
      /\ rec' = SubSeq(rec, 1, len) /\ data' = CopyIn(in, Header(len))
      /\ UNCHANGED <<recsize, in, out, rpc, rlen, n, dst>>
  BY DEF kfifo_dma_in_finish, reader
<1>2. /\ TypeOK /\ kfifo_len \in Nat /\ kfifo_len <= Size /\ in \in Nat /\ Size \in Nat
      /\ recsize \in {1, 2} /\ Len(rec) \in Nat /\ rec \in Seq(Byte) /\ Writing
      /\ rec \in Seq(Payload)
  BY <1>0, RecordFacts
<1>3. /\ Len(rec) <= MaxRecord /\ Len(rec) + recsize <= kfifo_unused
      /\ Len(rec) + recsize <= Size - kfifo_len
      /\ Holds(in + recsize, rec)
  BY <1>0, <1>2 DEF Writing, kfifo_unused
<1>4. MaxRecord \in Int /\ kfifo_unused \in Int
  <2>1. BYTE \in Nat
    BY <1>2, Basics
  <2>2. BYTE * BYTE \in Nat
    BY <2>1
  <2> QED
    BY <1>2, <2>1, <2>2 DEF MaxRecord, kfifo_unused
<1>5. len <= MaxRecord /\ len + recsize <= kfifo_unused
  BY <1>1, <1>2, <1>3, <1>4
<1> DEFINE bytes == Header(len)
<1>6. bytes \in Seq(Byte) /\ Len(bytes) = recsize
  BY <1>2, <1>5, HeaderSays
<1>7. rec' \in Seq(Payload) /\ Len(rec') = len /\ \A k \in 1..len : rec'[k] = rec[k]
  <2>1. SubSeq(rec, 1, len) \in Seq(Payload)
    BY <1>1, <1>2, SubSeqProperties
  <2>2. Len(SubSeq(rec, 1, len)) = len /\ \A k \in 1..len : SubSeq(rec, 1, len)[k] = rec[k]
    <3>1. len = 0 => SubSeq(rec, 1, len) = <<>> /\ Len(SubSeq(rec, 1, len)) = 0
      BY <1>2
    <3> QED
      BY <1>1, <1>2, <3>1, SubSeqProperties
  <2> QED
    BY <1>1, <2>1, <2>2
<1>8. in + 0 = in /\ 0 <= recsize /\ 0 + Len(bytes) <= recsize + Len(rec)
  <2> HIDE DEF bytes
  <2> QED
    BY <1>2, <1>6
<1>9. WriterType'
  BY <1>0, <1>7 DEF WriterType
<1>10. /\ TypeOK' /\ Tiles' /\ kfifo_len' = kfifo_len /\ Contents' = Contents /\ Reading'
       /\ \A j \in 0..(Size - 1) :
              data'[Slot(in + 0 + j)] =
                  IF j < Len(bytes) THEN bytes[j + 1] ELSE data[Slot(in + 0 + j)]
  <2>1. data' = CopyIn(in + 0, bytes)
    BY <1>1, <1>8
  <2> HIDE DEF bytes
  <2> QED
    BY <1>0, <1>1, <1>6, <1>8, <1>9, <2>1, BytesWritten
<1>11. LengthAt(in)' = len
  <2>1. ASSUME NEW j \in 0..(recsize - 1) PROVE data'[Slot(in + j)] = bytes[j + 1]
    <3> HIDE DEF bytes
    <3>1. j \in 0..(Size - 1) /\ j < Len(bytes) /\ in + 0 + j = in + j
      BY <1>2, <1>3, <1>6
    <3> QED
      BY <1>10, <3>1
  <2> QED
    BY <1>1, <1>2, <1>5, <2>1, LengthSaid
<1>12. Holds(in + recsize, rec)'
  <2>1. ASSUME NEW k \in 1..len PROVE data'[Slot((in + recsize) + k - 1)] = rec'[k]
    <3> HIDE DEF bytes
    <3>1. PICK j \in Int : j = recsize + k - 1
      BY <1>2
    <3>2. /\ j \in 0..(Size - 1) /\ ~(j < Len(bytes)) /\ in + 0 + j = (in + recsize) + k - 1
          /\ k \in 1..Len(rec)
      BY <1>1, <1>2, <1>3, <1>6, <3>1
    <3>3. data'[Slot(in + 0 + j)] = data[Slot(in + 0 + j)]
      BY <1>10, <3>2
    <3>4. data[Slot((in + recsize) + k - 1)] = rec[k]
      BY <1>3, <3>2 DEF Holds
    <3> QED
      BY <1>7, <3>2, <3>3, <3>4
  <2> QED
    BY <1>1, <1>7, <2>1 DEF Holds
<1>13. rec # NONE /\ rec' # NONE
  BY <1>2, <1>7, NoneIsNoRecord
<1>14. Writing'
  <2>1. Len(rec)' = len
    BY <1>7
  <2>2. kfifo_unused' = kfifo_unused /\ MaxRecord' = MaxRecord
    BY <1>1, <1>10 DEF kfifo_unused, MaxRecord
  <2>3. wpc' = "publish" /\ rec' # NONE
    BY <1>0, <1>13
  <2>4. Len(rec)' <= MaxRecord' /\ Len(rec)' + recsize' <= kfifo_unused'
    BY <1>1, <1>5, <2>1, <2>2
  <2>5. LengthAt(in)' = Len(rec)'
    BY <1>11, <2>1
  <2> QED
    BY <1>12, <2>3, <2>4, <2>5 DEF Writing
<1>15. RecInv'
  BY <1>2, <1>10, <1>14 DEF RecInv
<1>16. R!Shorten
  BY <1>1, <1>10, <1>13 DEF R!Shorten, R!Front
<1> QED
  BY <1>15, <1>16 DEF Steps

(* The record that has been filled in becomes the last one.                 *)
LEMMA MarkAdded ==
    ASSUME RecConstants, RecInv, PublishIn, NEW m \in Nat, NEW s, Marks(m, s)
    PROVE  /\ kfifo_len' = kfifo_len + recsize + Len(rec) /\ kfifo_len' <= Size /\ in' \in Index
           /\ \E t \in [0..(m + 1) -> 0..kfifo_len'] :
                 Marks(m + 1, t)' /\ Listing(m + 1, t)' = Append(Listing(m, s), rec)
<1>1. /\ wpc = "publish" /\ wpc # "idle" /\ in' = Plus(in, Len(rec) + recsize)
      /\ UNCHANGED <<recsize, out, data>>
  BY DEF PublishIn
<1>2. /\ TypeOK /\ kfifo_len \in Nat /\ kfifo_len <= Size /\ in \in Nat /\ in \in Index
      /\ out \in Nat /\ out \in Index /\ Size \in Nat /\ UINT \in Nat /\ Size < UINT
      /\ recsize \in {1, 2} /\ Len(rec) \in Nat /\ rec \in Seq(Byte) /\ Writing
  BY <1>1, RecordFacts
<1>3. /\ Len(rec) + recsize <= Size - kfifo_len
      /\ Holds(in + recsize, rec) /\ LengthAt(in) = Len(rec)
  BY <1>1, <1>2 DEF Writing, kfifo_unused
<1>4. PICK d \in 0..Size : d = Len(rec) + recsize /\ kfifo_len + d <= Size
  BY <1>2, <1>3
<1>5. in' = (IF in + d >= UINT THEN in + d - UINT ELSE in + d) /\ in' \in Index
  <2>1. in' = IF in + d >= UINT THEN in + d - UINT ELSE in + d
    BY <1>1, <1>2, <1>4, PlusIs
  <2> QED
    BY <1>2, <1>4, <2>1 DEF Index
<1>6. kfifo_len = IF in >= out THEN in - out ELSE in + UINT - out
  BY <1>2, LengthOfRing
<1>7. kfifo_len' = kfifo_len + d
  <2>1. kfifo_len' = Minus(in', out)
    BY <1>1 DEF kfifo_len
  <2>2. Minus(in', out) = IF in' >= out THEN in' - out ELSE in' + UINT - out
    BY <1>2, <1>5, MinusIs
  <2>3. PICK a \in Index : a = in'
    BY <1>5
  <2>4. (IF a >= out THEN a - out ELSE a + UINT - out) = kfifo_len + d
    <3>1. PICK i \in Index, o \in Index, l \in Nat : i = in /\ o = out /\ l = kfifo_len
      BY <1>2
    <3>2. /\ a = (IF i + d >= UINT THEN i + d - UINT ELSE i + d)
          /\ l = (IF i >= o THEN i - o ELSE i + UINT - o)
          /\ l + d <= Size /\ Size < UINT /\ UINT \in Nat /\ Size \in Nat /\ d \in Nat
      BY <1>2, <1>4, <1>5, <1>6, <2>3, <3>1
    <3>3. (IF a >= o THEN a - o ELSE a + UINT - o) = l + d
      BY <3>1, <3>2 DEF Index
    <3> QED
      BY <3>1, <3>3
  <2> QED
    BY <2>1, <2>2, <2>3, <2>4
<1>8. kfifo_len' = kfifo_len + recsize + Len(rec) /\ kfifo_len' <= Size
  BY <1>2, <1>4, <1>7
<1>9. \A i : LengthAt(i)' = LengthAt(i)
  BY <1>1 DEF LengthAt
<1>10. \A o : Record(o)' = Record(o)
  BY <1>1, <1>9 DEF Record, CopyOut
<1>11. \A j \in Nat : Slot(in + j) = Slot((out + kfifo_len) + j)
  BY <1>2, SlotOfIn
<1>12. LengthAt(out + kfifo_len) = Len(rec)
  <2>1. Slot(in + 0) = Slot((out + kfifo_len) + 0) /\ Slot(in + 1) = Slot((out + kfifo_len) + 1)
    BY <1>11
  <2>2. in + 0 = in /\ (out + kfifo_len) + 0 = out + kfifo_len
    BY <1>2
  <2>3. LengthAt(out + kfifo_len) = LengthAt(in)
    BY <2>1, <2>2 DEF LengthAt
  <2> QED
    BY <1>3, <2>3
<1>13. Record(kfifo_len) = rec
  <2>1. ASSUME NEW k \in 1..Len(rec)
        PROVE  data[Slot((out + kfifo_len + recsize) + k - 1)] = rec[k]
    <3>1. PICK j \in Nat : j = recsize + k - 1
      BY <1>2
    <3>2. in + j = (in + recsize) + k - 1
          /\ (out + kfifo_len) + j = (out + kfifo_len + recsize) + k - 1
      BY <1>2, <3>1
    <3>3. data[Slot((in + recsize) + k - 1)] = rec[k]
      BY <1>3 DEF Holds
    <3> QED
      BY <1>11, <3>2, <3>3
  <2>2. Record(kfifo_len) = [k \in 1..Len(rec) |-> data[Slot((out + kfifo_len + recsize) + k - 1)]]
    BY <1>12 DEF Record, CopyOut
  <2>3. Record(kfifo_len) = [k \in 1..Len(rec) |-> rec[k]]
    BY <2>1, <2>2
  <2>4. rec = [k \in 1..Len(rec) |-> rec[k]]
    BY <1>2
  <2> QED
    BY <2>3, <2>4
<1>13a. PICK t : t = [k \in 0..(m + 1) |-> IF k <= m THEN s[k] ELSE kfifo_len + d]
  OBVIOUS
<1>14. \A k \in 0..m : s[k] \in Nat /\ s[k] <= kfifo_len /\ t[k] = s[k]
  <2>1. \A k \in 0..m : s[k] \in 0..kfifo_len
    BY DEF Marks
  <2> QED
    BY <1>2, <1>13a, <2>1
<1>15. t[m + 1] = kfifo_len + d /\ t[0] = 0 /\ s[m] = kfifo_len /\ s[0] = 0
  <2>1. s[m] = kfifo_len /\ s[0] = 0
    BY DEF Marks
  <2> QED
    BY <1>13a, <2>1
<1>16. t \in [0..(m + 1) -> 0..kfifo_len']
  <2>1. ASSUME NEW k \in 0..(m + 1)
        PROVE  (IF k <= m THEN s[k] ELSE kfifo_len + d) \in 0..(kfifo_len + d)
    <3>1. k <= m => s[k] \in Nat /\ s[k] <= kfifo_len
      BY <1>14
    <3> QED
      BY <1>2, <1>4, <3>1
  <2> QED
    BY <1>7, <1>13a, <2>1
<1>17. ASSUME NEW k \in 0..m
       PROVE  t[k + 1] = t[k] + recsize + LengthAt(out + t[k])
  <2>1. CASE k < m
    <3>1. k \in 0..(m - 1) /\ k + 1 \in 0..m
      BY <2>1
    <3>2. s[k + 1] = s[k] + recsize + LengthAt(out + s[k])
      BY <3>1 DEF Marks
    <3> QED
      BY <1>14, <3>1, <3>2
  <2>2. CASE k = m
    <3>1. t[k] = kfifo_len /\ t[k + 1] = kfifo_len + d
      BY <1>14, <1>15, <2>2
    <3>2. LengthAt(out + t[k]) = Len(rec)
      BY <1>12, <3>1
    <3>3. kfifo_len + d = kfifo_len + recsize + Len(rec)
      BY <1>2, <1>4
    <3> QED
      BY <3>1, <3>2, <3>3
  <2> QED
    BY <2>1, <2>2
<1>18. ASSUME NEW j \in 0..(m + 1), NEW k \in 0..(m + 1), j <= k
       PROVE  t[k] >= t[j] + (k - j)
  <2>1. CASE k <= m
    <3>1. j \in 0..m /\ k \in 0..m
      BY <1>18, <2>1
    <3>2. s[k] >= s[j] + (k - j)
      BY <1>18, <3>1 DEF Marks
    <3> QED
      BY <1>14, <3>1, <3>2
  <2>2. CASE k = m + 1 /\ j <= m
    <3>1. j \in 0..m /\ m \in 0..m
      BY <2>2
    <3>2. s[m] >= s[j] + (m - j)
      BY <3>1 DEF Marks
    <3>3. t[j] = s[j] /\ s[j] \in Nat /\ t[k] = kfifo_len + d /\ s[m] = kfifo_len
      BY <1>14, <1>15, <2>2, <3>1
    <3>4. d >= 1 /\ d \in Nat /\ kfifo_len \in Nat
      BY <1>2, <1>4
    <3>5. kfifo_len + d >= s[j] + ((m + 1) - j)
      BY <3>2, <3>3, <3>4
    <3> QED
      BY <2>2, <3>3, <3>5
  <2>3. CASE k = m + 1 /\ j = m + 1
    BY <1>2, <1>4, <1>15, <2>3
  <2> QED
    BY <2>1, <2>2, <2>3
<1>19. Marks(m + 1, t)'
  <2>1. \A k \in 0..((m + 1) - 1) : t[k + 1] = t[k] + recsize' + LengthAt(out + t[k])'
    <3>1. (m + 1) - 1 = m
      OBVIOUS
    <3> QED
      BY <1>1, <1>9, <1>17, <3>1
  <2>2. t[0] = 0 /\ t[m + 1] = kfifo_len'
    BY <1>7, <1>15
  <2> QED
    BY <1>16, <1>18, <2>1, <2>2 DEF Marks
<1>20. Listing(m + 1, t)' = Append(Listing(m, s), rec)
  <2>1. Listing(m + 1, t)' = [k \in 1..(m + 1) |-> Record(t[k - 1])]
    BY <1>10 DEF Listing
  <2>2. ASSUME NEW k \in 1..m PROVE Record(t[k - 1]) = Record(s[k - 1])
    <3>1. k - 1 \in 0..m
      OBVIOUS
    <3> QED
      BY <1>14, <3>1
  <2>3. Record(t[(m + 1) - 1]) = rec
    <3>1. (m + 1) - 1 = m /\ m \in 0..m
      OBVIOUS
    <3> QED
      BY <1>13, <1>14, <1>15, <3>1
  <2>4. ASSUME NEW k \in 1..m PROVE Record(s[k - 1]) \in Seq(Byte)
    <3>1. s[k - 1] \in Nat /\ LengthAt(out + s[k - 1]) \in Nat
      BY <1>2, MarkedRecord
    <3>2. out + s[k - 1] + recsize \in Nat /\ out + s[k - 1] \in Nat
      BY <1>2, <3>1
    <3> QED
      BY <1>2, <3>1, <3>2, CopyOutType DEF Record
  <2>5. Listing(m, s) \in Seq(Seq(Byte)) /\ Len(Listing(m, s)) = m
        /\ \A k \in 1..m : Listing(m, s)[k] = Record(s[k - 1])
    BY <2>4 DEF Listing
  <2> DEFINE a == Append(Listing(m, s), rec)
             b == [k \in 1..(m + 1) |-> Record(t[k - 1])]
  <2>6. a \in Seq(Seq(Byte)) /\ Len(a) = m + 1 /\ a[m + 1] = rec
        /\ \A k \in 1..m : a[k] = Listing(m, s)[k]
    <3> DEFINE l == Listing(m, s)
    <3> HIDE DEF l
    <3>1. l \in Seq(Seq(Byte)) /\ Len(l) = m /\ a = Append(l, rec)
      BY <2>5 DEF l
    <3> HIDE DEF a
    <3>2. a \in Seq(Seq(Byte)) /\ Len(a) = m + 1 /\ a[m + 1] = rec /\ \A k \in 1..m : a[k] = l[k]
      BY <1>2, <3>1, AppendProperties
    <3> QED
      BY <3>2 DEF l
  <2>7. ASSUME NEW k \in 1..(m + 1) PROVE a[k] = Record(t[k - 1])
    <3> HIDE DEF a
    <3>1. CASE k = m + 1
      BY <2>3, <2>6, <3>1
    <3>2. CASE k \in 1..m
      BY <2>2, <2>5, <2>6, <3>2
    <3> QED
      BY <3>1, <3>2
  <2>8. a = [k \in 1..(m + 1) |-> a[k]]
    <3> HIDE DEF a
    <3> QED
      BY <2>6
  <2>9. a = b
    <3> HIDE DEF a
    <3> QED
      BY <2>7, <2>8
  <2> QED
    BY <2>1, <2>9
<1> QED
  BY <1>5, <1>8, <1>16, <1>19, <1>20

LEMMA PublishInStep ==
    ASSUME RecConstants, RecInv, PublishIn
    PROVE  RecInv' /\ Steps
<1>1. /\ wpc # "idle" /\ wpc' = "idle" /\ rec' = NONE
      /\ UNCHANGED <<recsize, out, data, rpc, rlen, n, dst>>
  BY DEF PublishIn, reader
<1>2. PICK m \in Nat : \E s \in [0..m -> 0..kfifo_len] : Marks(m, s)
  BY DEF RecInv, Tiles
<1>3. PICK s \in [0..m -> 0..kfifo_len] : Marks(m, s)
  BY <1>2
<1>4. /\ TypeOK /\ kfifo_len \in Nat /\ kfifo_len <= Size /\ Size \in Nat /\ recsize \in {1, 2}
      /\ rec \in Seq(Payload) /\ rec \in Seq(Byte) /\ Len(rec) \in Nat /\ Reading
  BY <1>1, RecordFacts
<1>5. kfifo_len' = kfifo_len + recsize + Len(rec) /\ kfifo_len' <= Size /\ in' \in Index
  BY <1>3, MarkAdded
<1>6. PICK t \in [0..(m + 1) -> 0..kfifo_len'] :
          Marks(m + 1, t)' /\ Listing(m + 1, t)' = Append(Listing(m, s), rec)
  BY <1>3, MarkAdded
<1>7. TypeOK'
  BY <1>1, <1>4, <1>5 DEF TypeOK, Index
<1>8. m + 1 \in Nat /\ kfifo_len' \in 0..Size /\ kfifo_len' > 0
  BY <1>4, <1>5
<1>9. Tiles'
  BY <1>6, <1>8 DEF Tiles
<1>10. Contents' = Append(Contents, rec)
  <2>1. Contents = Listing(m, s)
    BY <1>3, <1>4, ContentsListed DEF Listed
  <2>2. Contents' = Listing(m + 1, t)'
    BY <1>6, <1>7, <1>8, ContentsListedNext DEF Listed
  <2> QED
    BY <1>6, <2>1, <2>2
<1>11. Writing'
  BY <1>1 DEF Writing
<1>12. Reading'
  <2>1. in' # out'
    <3>1. kfifo_len' = IF in' >= out' THEN in' - out' ELSE in' + UINT - out'
      <4>1. in' \in Index /\ out' \in Index
        BY <1>1, <1>4, <1>5, Basics
      <4> QED
        BY <4>1, MinusIs DEF kfifo_len
    <3>2. PICK a \in Index : a = in'
      BY <1>5
    <3>3. UINT \in Nat /\ out \in Index /\ out' = out
      BY <1>1, <1>4, Basics
    <3>4. kfifo_len' = (IF a >= out THEN a - out ELSE a + UINT - out) /\ kfifo_len' > 0
      BY <1>8, <3>1, <3>2, <3>3
    <3>5. a # out
      BY <3>3, <3>4 DEF Index
    <3> QED
      BY <1>1, <3>2, <3>5
  <2>2. kfifo_peek_n' = kfifo_peek_n
    BY <1>1 DEF kfifo_peek_n, LengthAt
  <2> QED
    BY <1>1, <1>4, <2>1, <2>2 DEF Reading
<1>13. RecInv'
  BY <1>5, <1>7, <1>9, <1>11, <1>12 DEF RecInv
<1>14. R!Put
  <2>1. rec # NONE
    BY <1>4, NoneIsNoRecord
  <2> QED
    BY <1>1, <1>10, <2>1 DEF R!Put
<1> QED
  BY <1>13, <1>14 DEF Steps

----------------------------------------------------------------------------
(* The reader's steps.                                                      *)

LEMMA RingAlone ==
    ASSUME RecConstants, RecInv, TypeOK', UNCHANGED ring
    PROVE  /\ Tiles' /\ kfifo_len' = kfifo_len /\ kfifo_len' <= Size /\ Contents' = Contents
           /\ kfifo_peek_n' = kfifo_peek_n /\ (UNCHANGED writer => Writing')
<1>1. UNCHANGED <<recsize, in, out, data>>
  BY DEF ring
<1>2. Tiles' /\ kfifo_len' = kfifo_len /\ Contents' = Contents
  BY <1>1, RingKept
<1>3. kfifo_peek_n' = kfifo_peek_n /\ LengthAt(in)' = LengthAt(in)
  BY <1>1 DEF kfifo_peek_n, LengthAt
<1>4. UNCHANGED writer => Writing'
  <2> SUFFICES ASSUME wpc' = wpc, rec' = rec PROVE Writing'
    BY DEF writer
  <2>1. kfifo_unused' = kfifo_unused /\ MaxRecord' = MaxRecord
    BY <1>1, <1>2 DEF kfifo_unused, MaxRecord
  <2>2. Holds(in + recsize, rec)' = Holds(in + recsize, rec)
    BY <1>1 DEF Holds
  <2> QED
    BY <1>1, <1>3, <2>1, <2>2 DEF RecInv, Writing
<1> QED
  BY <1>2, <1>3, <1>4 DEF RecInv

LEMMA StartOutStep ==
    ASSUME RecConstants, RecInv, rpc = "idle", in # out, n' = kfifo_peek_n,
           rlen' \in Nat, rlen' <= kfifo_peek_n,
           rpc' \in {"copy", "peek", "transfer", "dma"}, UNCHANGED <<ring, writer, dst>>
    PROVE  RecInv' /\ Steps
<1>0. UNCHANGED <<recsize, in, out, data, wpc, rec, dst>>
  BY DEF ring, writer
<1>1. kfifo_peek_n \in Nat /\ kfifo_peek_n <= Size
  <2>1. kfifo_peek_n \in Nat /\ recsize + kfifo_peek_n <= kfifo_len
    BY FirstRecord
  <2>2. kfifo_len \in Nat /\ kfifo_len <= Size /\ Size \in Nat /\ recsize \in {1, 2}
    BY RecordFacts
  <2> QED
    BY ONLY <2>1, <2>2
<1>2. rlen' \in 0..Size
  <2>1. Size \in Nat
    BY RecordFacts
  <2>2. PICK l \in Nat : l = rlen'
    OBVIOUS
  <2>3. l <= kfifo_peek_n
    BY <2>2
  <2>4. l \in 0..Size
    BY ONLY <1>1, <2>1, <2>2, <2>3, l \in Nat
  <2> QED
    BY <2>2, <2>4
<1>3. TypeOK'
  <2>1. TypeOK
    BY DEF RecInv
  <2> QED
    BY <1>0, <1>1, <1>2, <2>1 DEF TypeOK
<1>4. /\ Tiles' /\ kfifo_len' <= Size /\ Contents' = Contents /\ kfifo_peek_n' = kfifo_peek_n
      /\ Writing'
  BY <1>3, RingAlone
<1>5. Reading'
  <2>1. dst = NONE
    BY DEF RecInv, Reading
  <2> QED
    BY <1>0, <1>4, <2>1 DEF Reading
<1> QED
  BY <1>0, <1>3, <1>4, <1>5 DEF RecInv, Steps

LEMMA TakeStep ==
    ASSUME RecConstants, RecInv, Take
    PROVE  RecInv' /\ Steps
<1>1. /\ rpc # "idle" /\ rpc' \in {"peeked", "dma done", "publish"}
      /\ UNCHANGED <<recsize, in, out, data, wpc, rec, rlen, n>>
      /\ UNCHANGED ring /\ UNCHANGED writer
  BY DEF Take, ring, writer
<1>2. dst' = CopyOut(out + recsize, rlen)
  BY DEF Take
<1>3. in # out /\ n = kfifo_peek_n /\ rlen <= kfifo_peek_n
  BY <1>1 DEF RecInv, Reading
<1>4. /\ kfifo_peek_n \in Nat /\ Contents # <<>> /\ Contents \in Seq(Seq(Byte))
      /\ Contents[1] = CopyOut(out + recsize, kfifo_peek_n)
  BY <1>3, FirstRecord
<1>5. TypeOK /\ Size \in Nat /\ out \in Nat /\ recsize \in {1, 2} /\ Reading
  BY RecordFacts
<1>6. rlen \in Nat /\ out + recsize \in Nat
  <2>1. rlen \in 0..Size
    BY <1>5 DEF TypeOK
  <2> QED
    BY <1>5, <2>1
<1>7. dst' \in Seq(Byte)
  BY <1>2, <1>5, <1>6, CopyOutType
<1>8. TypeOK'
  BY <1>1, <1>5, <1>7 DEF TypeOK
<1>9. /\ Tiles' /\ kfifo_len' <= Size /\ Contents' = Contents /\ kfifo_peek_n' = kfifo_peek_n
      /\ Writing'
  BY <1>1, <1>8, RingAlone
<1>10. Reading'
  BY <1>1, <1>3, <1>5, <1>9 DEF Reading
<1>11. rlen \in 0..Len(Contents[1]) /\ dst' = SubSeq(Contents[1], 1, rlen)
  <2>1. Contents[1] = [k \in 1..kfifo_peek_n |-> data[Slot((out + recsize) + k - 1)]]
    BY <1>4 DEF CopyOut
  <2>2. dst' = [k \in 1..rlen |-> data[Slot((out + recsize) + k - 1)]]
    BY <1>2 DEF CopyOut
  <2>3. Contents[1] \in Seq(Byte) /\ Len(Contents[1]) = kfifo_peek_n
    BY <1>4, <1>5, <1>6, CopyOutType
  <2>4. rlen \in 0..kfifo_peek_n
    BY <1>3, <1>4, <1>6
  <2> DEFINE c == Contents[1]
             a == SubSeq(c, 1, rlen)
  <2> HIDE DEF c
  <2>5. c \in Seq(Byte) /\ Len(c) = kfifo_peek_n
    BY <2>3 DEF c
  <2>6. ASSUME NEW k \in 1..rlen PROVE c[k] = data[Slot((out + recsize) + k - 1)]
    <3>1. k \in 1..kfifo_peek_n
      BY <1>4, <2>4
    <3> QED
      BY <2>1, <3>1 DEF c
  <2>7. SubSeq(c, 1, rlen) = [k \in 1..rlen |-> c[k]]
    BY <1>4, <1>6, <2>4, <2>5
  <2>8. dst' = SubSeq(c, 1, rlen)
    BY <2>2, <2>6, <2>7
  <2> QED
    BY <2>3, <2>4, <2>8 DEF c
<1>12. R!Look
  BY <1>1, <1>4, <1>9, <1>11 DEF R!Look, R!Front
<1> QED
  BY <1>8, <1>9, <1>10, <1>12 DEF RecInv, Steps

LEMMA LookAwayStep ==
    ASSUME RecConstants, RecInv, Done, UNCHANGED <<ring, writer>>
    PROVE  RecInv' /\ Steps
<1>1. /\ rpc' = "idle" /\ rlen' = 0 /\ n' = 0 /\ dst' = NONE
      /\ UNCHANGED <<recsize, in, out, data, wpc, rec>>
  BY DEF Done, ring, writer
<1>2. TypeOK /\ 0 \in 0..Size
  BY RecordFacts
<1>3. TypeOK'
  BY <1>1, <1>2 DEF TypeOK
<1>4. Tiles' /\ kfifo_len' <= Size /\ Contents' = Contents /\ Writing'
  BY <1>3, RingAlone
<1>5. Reading'
  BY <1>1 DEF Reading
<1>6. R!LookAway
  BY <1>1, <1>4 DEF R!LookAway
<1> QED
  BY <1>3, <1>4, <1>5, <1>6 DEF RecInv, Steps

(* The first record goes: each of the others starts that much closer to out. *)
LEMMA FirstDropped ==
    ASSUME RecConstants, RecInv, in # out,
           out' = Plus(out, kfifo_peek_n + recsize), UNCHANGED <<recsize, in, data>>,
           NEW m \in Nat, NEW s, Marks(m, s)
    PROVE  /\ m > 0 /\ out' \in Index
           /\ kfifo_len' \in Nat /\ kfifo_len' <= kfifo_len /\ kfifo_len' <= Size
           /\ \E t \in [0..(m - 1) -> 0..kfifo_len'] :
                 Marks(m - 1, t)' /\ Listing(m - 1, t)' = Tail(Listing(m, s))
<1>1. /\ TypeOK /\ kfifo_len \in Nat /\ kfifo_len <= Size /\ in \in Nat /\ in \in Index
      /\ out \in Nat /\ out \in Index /\ Size \in Nat /\ UINT \in Nat /\ Size < UINT
      /\ recsize \in {1, 2}
  BY RecordFacts
<1>2. kfifo_peek_n \in Nat /\ recsize + kfifo_peek_n <= kfifo_len
  BY FirstRecord
<1>3. PICK d \in 0..Size : d = kfifo_peek_n + recsize
  BY <1>1, <1>2
<1>4. d <= kfifo_len /\ d > 0 /\ d \in Nat
  BY <1>1, <1>2, <1>3
<1>5. out' = (IF out + d >= UINT THEN out + d - UINT ELSE out + d) /\ out' \in Index
  <2>1. out' = IF out + d >= UINT THEN out + d - UINT ELSE out + d
    BY <1>1, <1>3, PlusIs
  <2> QED
    BY <1>1, <1>3, <2>1 DEF Index
<1>6. kfifo_len = IF in >= out THEN in - out ELSE in + UINT - out
  BY <1>1, LengthOfRing
<1>7. kfifo_len' = kfifo_len - d
  <2>1. kfifo_len' = Minus(in, out')
    BY DEF kfifo_len
  <2>2. Minus(in, out') = IF in >= out' THEN in - out' ELSE in + UINT - out'
    BY <1>1, <1>5, MinusIs
  <2>3. PICK a \in Index : a = out'
    BY <1>5
  <2>4. (IF in >= a THEN in - a ELSE in + UINT - a) = kfifo_len - d
    BY <1>1, <1>4, <1>5, <1>6, <2>3 DEF Index
  <2> QED
    BY <2>1, <2>2, <2>3, <2>4
<1>8. kfifo_len' \in Nat /\ kfifo_len' <= kfifo_len /\ kfifo_len' <= Size
  BY <1>1, <1>4, <1>7
<1>9. s[0] = 0 /\ s[m] = kfifo_len /\ \A k \in 0..m : s[k] \in 0..kfifo_len
  BY DEF Marks
<1>10. m > 0
  BY <1>1, <1>4, <1>9
<1>11. s[1] = d
  <2>1. 0 \in 0..(m - 1) /\ 0 + 1 = 1
    BY <1>10
  <2>2. s[1] = s[0] + recsize + LengthAt(out + s[0])
    BY <2>1 DEF Marks
  <2>3. out + s[0] = out
    BY <1>1, <1>9
  <2> QED
    BY <1>1, <1>2, <1>3, <1>9, <2>2, <2>3 DEF kfifo_peek_n
<1>12. ASSUME NEW j \in Nat PROVE Slot(out' + j) = Slot(out + d + j)
  BY <1>1, <1>3, SlotOfPlus
<1>13. ASSUME NEW o \in Nat PROVE LengthAt(out + o)' = LengthAt(out + (o + d))
  <2>1. Slot(out' + o) = Slot(out + (o + d)) /\ Slot(out' + o + 1) = Slot(out + (o + d) + 1)
    <3>1. o + 1 \in Nat /\ out + d + o = out + (o + d) /\ out + d + (o + 1) = out + (o + d) + 1
      BY <1>1, <1>4
    <3>2. out' + (o + 1) = out' + o + 1
      <4>1. PICK a \in Index : a = out'
        BY <1>5
      <4>2. a + (o + 1) = a + o + 1
        BY <1>1, <4>1 DEF Index
      <4> QED
        BY <4>1, <4>2
    <3>3. Slot(out' + (o + 1)) = Slot(out + d + (o + 1))
      BY <1>12, <3>1
    <3>4. Slot(out' + o) = Slot(out + d + o)
      BY <1>12
    <3> QED
      BY <3>1, <3>2, <3>3, <3>4
  <2> QED
    BY <2>1 DEF LengthAt
<1>14. ASSUME NEW o \in Nat PROVE Record(o)' = Record(o + d)
  <2> DEFINE l == LengthAt(out + (o + d))
  <2>1. LengthAt(out + o)' = l
    BY <1>13
  <2>2. Record(o)' = [k \in 1..l |-> data[Slot((out' + o + recsize) + k - 1)]]
    BY <2>1 DEF Record, CopyOut
  <2>3. Record(o + d) = [k \in 1..l |-> data[Slot((out + (o + d) + recsize) + k - 1)]]
    BY DEF Record, CopyOut
  <2>4. l \in Nat
    <3>1. out + (o + d) \in Nat
      BY <1>1, <1>4
    <3> QED
      BY <1>1, <3>1, LengthType
  <2> HIDE DEF l
  <2>5. ASSUME NEW k \in 1..l
        PROVE  Slot((out' + o + recsize) + k - 1) = Slot((out + (o + d) + recsize) + k - 1)
    <3>1. PICK j \in Nat : j = o + recsize + k - 1
      BY <1>1, <2>4
    <3>2. PICK a \in Index : a = out'
      BY <1>5
    <3>3. (a + o + recsize) + k - 1 = a + j
          /\ (out + (o + d) + recsize) + k - 1 = out + d + j
      BY <1>1, <1>4, <2>4, <3>1, <3>2 DEF Index
    <3> QED
      BY <1>12, <3>2, <3>3
  <2> QED
    BY <2>2, <2>3, <2>5
<1>15. PICK t : t = [k \in 0..(m - 1) |-> s[k + 1] - d]
  OBVIOUS
<1>16. ASSUME NEW k \in 0..(m - 1)
       PROVE  t[k] \in 0..(kfifo_len - d) /\ s[k + 1] = t[k] + d /\ t[k] = s[k + 1] - d
  <2>1. k + 1 \in 0..m /\ 1 \in 0..m /\ 1 <= k + 1
    BY <1>10
  <2>2. s[k + 1] >= s[1] + ((k + 1) - 1)
    BY <2>1 DEF Marks
  <2>3. s[k + 1] \in 0..kfifo_len /\ s[k + 1] >= d
    BY <1>4, <1>9, <1>11, <2>1, <2>2
  <2>4. t[k] = s[k + 1] - d
    BY <1>15
  <2> QED
    BY <1>1, <1>4, <2>3, <2>4
<1>17. t \in [0..(m - 1) -> 0..kfifo_len']
  <2>1. ASSUME NEW k \in 0..(m - 1) PROVE s[k + 1] - d \in 0..kfifo_len'
    BY <1>7, <1>16
  <2> QED
    BY <1>15, <2>1
<1>18. t[0] = 0 /\ t[m - 1] = kfifo_len'
  <2>1. 0 \in 0..(m - 1) /\ 0 + 1 = 1 /\ m - 1 \in 0..(m - 1) /\ (m - 1) + 1 = m
    BY <1>10
  <2>2. t[0] = s[1] - d /\ t[m - 1] = s[m] - d
    BY <1>16, <2>1
  <2> QED
    BY <1>4, <1>7, <1>9, <1>11, <2>2
<1>19. ASSUME NEW k \in 0..((m - 1) - 1)
       PROVE  t[k + 1] = t[k] + recsize + LengthAt(out + t[k])'
  <2>1. k \in 0..(m - 1) /\ k + 1 \in 0..(m - 1)
    BY <1>10
  <2>2. s[(k + 1) + 1] = s[k + 1] + recsize + LengthAt(out + s[k + 1])
    BY <2>1 DEF Marks
  <2>3. t[k + 1] = s[(k + 1) + 1] - d /\ t[k] = s[k + 1] - d /\ s[k + 1] = t[k] + d /\ t[k] \in Nat
    BY <1>1, <1>4, <1>16, <2>1
  <2>4. LengthAt(out + t[k])' = LengthAt(out + s[k + 1])
    BY <1>13, <2>3
  <2>5. PICK l \in Nat : l = LengthAt(out + s[k + 1])
    <3>1. out + s[k + 1] \in Nat
      BY <1>1, <1>4, <2>3
    <3> QED
      BY <1>1, <3>1, LengthType
  <2> QED
    BY <1>1, <1>4, <2>2, <2>3, <2>4, <2>5
<1>20. ASSUME NEW j \in 0..(m - 1), NEW k \in 0..(m - 1), j <= k
       PROVE  t[k] >= t[j] + (k - j)
  <2>1. j + 1 \in 0..m /\ k + 1 \in 0..m /\ j + 1 <= k + 1 /\ (k + 1) - (j + 1) = k - j
    BY <1>10, <1>20
  <2>2. s[k + 1] >= s[j + 1] + ((k + 1) - (j + 1))
    BY <2>1 DEF Marks
  <2>3. t[k] \in Int /\ t[j] \in Int /\ s[k + 1] = t[k] + d /\ s[j + 1] = t[j] + d
    BY <1>1, <1>4, <1>16
  <2> QED
    BY <1>4, <2>1, <2>2, <2>3
<1>21. Marks(m - 1, t)'
  <2>1. \A k \in 0..((m - 1) - 1) : t[k + 1] = t[k] + recsize' + LengthAt(out + t[k])'
    BY <1>19
  <2> QED
    BY <1>17, <1>18, <1>20, <2>1 DEF Marks
<1>22. Listing(m - 1, t)' = Tail(Listing(m, s))
  <2>1. ASSUME NEW k \in 1..m PROVE Record(s[k - 1]) \in Seq(Byte)
    <3>1. s[k - 1] \in Nat /\ LengthAt(out + s[k - 1]) \in Nat
      BY <1>1, MarkedRecord
    <3>2. out + s[k - 1] + recsize \in Nat /\ out + s[k - 1] \in Nat
      BY <1>1, <3>1
    <3> QED
      BY <1>1, <3>1, <3>2, CopyOutType DEF Record
  <2>2. PICK l : l = Listing(m, s)
    OBVIOUS
  <2>3. l \in Seq(Seq(Byte)) /\ Len(l) = m /\ \A k \in 1..m : l[k] = Record(s[k - 1])
    BY <2>1, <2>2 DEF Listing
  <2>4. Tail(l) = [k \in 1..(m - 1) |-> l[k + 1]]
    <3>1. /\ l # <<>> /\ Tail(l) \in Seq(Seq(Byte)) /\ Len(Tail(l)) = m - 1
          /\ \A k \in 1..Len(Tail(l)) : Tail(l)[k] = l[k + 1]
      BY <1>10, <2>3, HeadTailProperties
    <3>2. PICK q : q = Tail(l)
      OBVIOUS
    <3>3. q \in Seq(Seq(Byte)) /\ Len(q) = m - 1 /\ \A k \in 1..(m - 1) : q[k] = l[k + 1]
      BY <3>1, <3>2
    <3>4. q = [k \in 1..(m - 1) |-> q[k]]
      BY <3>3
    <3> QED
      BY <3>2, <3>3, <3>4
  <2>5. Listing(m - 1, t)' = [k \in 1..(m - 1) |-> Record(t[k - 1])']
    BY DEF Listing
  <2>6. ASSUME NEW k \in 1..(m - 1) PROVE Record(t[k - 1])' = l[k + 1]
    <3>1. k - 1 \in 0..(m - 1) /\ (k - 1) + 1 = k /\ k + 1 \in 1..m /\ (k + 1) - 1 = k
      BY <1>10
    <3>2. t[k - 1] \in Nat /\ s[k] = t[k - 1] + d
      BY <1>1, <1>4, <1>16, <3>1
    <3>3. Record(t[k - 1])' = Record(t[k - 1] + d)
      BY <1>14, <3>2
    <3>4. l[k + 1] = Record(s[k])
      BY <2>3, <3>1
    <3> QED
      BY <3>2, <3>3, <3>4
  <2> QED
    BY <2>2, <2>4, <2>5, <2>6
<1> QED
  BY <1>5, <1>8, <1>10, <1>17, <1>21, <1>22

(* A step of the reader that moves out, or of the one that resets both.     *)
LEMMA RingShortened ==
    ASSUME RecConstants, RecInv, TypeOK', Tiles', kfifo_len' <= kfifo_len,
           recsize' = recsize, data' = data, UNCHANGED writer, rpc' = "idle", dst' = NONE,
           wpc # "idle" => in' = in
    PROVE  RecInv'
<1>1. kfifo_len \in Nat /\ kfifo_len <= Size /\ Size \in Nat
  BY RecordFacts
<1>2. kfifo_len' \in Nat
  <2>1. in' \in Index /\ out' \in Index /\ UINT \in Nat
    BY DEF TypeOK, Index, RecConstants
  <2>2. PICK a \in Index, b \in Index : a = in' /\ b = out'
    BY <2>1
  <2>3. kfifo_len' = Minus(a, b)
    BY <2>2 DEF kfifo_len
  <2>4. Minus(a, b) = IF a >= b THEN a - b ELSE a + UINT - b
    BY MinusIs
  <2> QED
    BY <2>1, <2>3, <2>4 DEF Index
<1>3. kfifo_len' <= Size
  BY <1>1, <1>2
<1>4. wpc' = wpc /\ rec' = rec
  BY DEF writer
<1>5. Writing'
  <2>1. CASE wpc = "idle"
    BY <1>4, <2>1 DEF RecInv, Writing
  <2>2. CASE wpc # "idle"
    <3>1. in' = in /\ MaxRecord' = MaxRecord
      BY <2>2 DEF MaxRecord
    <3>2. Holds(in + recsize, rec)' = Holds(in + recsize, rec)
      BY <1>4, <3>1 DEF Holds
    <3>3. LengthAt(in)' = LengthAt(in)
      BY <3>1 DEF LengthAt
    <3>4. Writing
      BY DEF RecInv
    <3>5. Len(rec)' + recsize' <= kfifo_unused'
      <4>1. Len(rec) \in Nat /\ recsize \in {1, 2}
        BY <2>2, RecordFacts
      <4>2. Len(rec) + recsize <= Size - kfifo_len
        BY <2>2, <3>4 DEF Writing, kfifo_unused
      <4>3. Len(rec) + recsize <= Size - kfifo_len'
        BY <1>1, <1>2, <4>1, <4>2
      <4> QED
        BY <1>4, <4>3 DEF kfifo_unused
    <3> QED
      BY <1>4, <3>1, <3>2, <3>3, <3>4, <3>5 DEF Writing
  <2> QED
    BY <2>1, <2>2
<1>6. Reading'
  BY DEF Reading
<1> QED
  BY <1>3, <1>5, <1>6 DEF RecInv

LEMMA DropStep ==
    ASSUME RecConstants, RecInv, in # out,
           out' = Plus(out, kfifo_peek_n + recsize), UNCHANGED <<recsize, in, data, writer>>,
           rpc' = "idle", rlen' \in 0..Size, n' \in Nat, dst' = NONE
    PROVE  RecInv' /\ Steps
<1>1. PICK m \in Nat : \E s \in [0..m -> 0..kfifo_len] : Marks(m, s)
  BY DEF RecInv, Tiles
<1>2. PICK s \in [0..m -> 0..kfifo_len] : Marks(m, s)
  BY <1>1
<1>3. /\ m > 0 /\ out' \in Index
      /\ kfifo_len' \in Nat /\ kfifo_len' <= kfifo_len /\ kfifo_len' <= Size
  BY <1>2, FirstDropped
<1>4. PICK t \in [0..(m - 1) -> 0..kfifo_len'] :
          Marks(m - 1, t)' /\ Listing(m - 1, t)' = Tail(Listing(m, s))
  BY <1>2, FirstDropped
<1>5. TypeOK /\ kfifo_len \in 0..Size
  <2>1. TypeOK /\ kfifo_len \in Nat /\ kfifo_len <= Size /\ Size \in Nat
    BY RecordFacts
  <2> QED
    BY <2>1
<1>6. m - 1 \in Nat
  BY <1>3
<1>7. TypeOK'
  <2>1. wpc' = wpc /\ rec' = rec
    BY DEF writer
  <2> QED
    BY <1>3, <1>5, <2>1 DEF TypeOK, Index
<1>8. Tiles'
  BY <1>4, <1>6 DEF Tiles
<1>9. RecInv'
  BY <1>3, <1>7, <1>8, RingShortened
<1>10. Contents = Listing(m, s)
  BY <1>2, <1>5, ContentsListed DEF Listed
<1>11. Contents' = Tail(Contents)
  <2>1. kfifo_len' \in 0..Size
    BY <1>3 DEF RecConstants
  <2>2. Contents' = Listing(m - 1, t)'
    BY <1>4, <1>6, <1>7, <2>1, ContentsListedNext DEF Listed
  <2> QED
    BY <1>4, <1>10, <2>2
<1>12. R!Take
  <2>1. Contents # <<>>
    BY FirstRecord
  <2> QED
    BY <1>11, <2>1 DEF R!Take, writer
<1> QED
  BY <1>9, <1>12 DEF Steps

LEMMA EmptyRing ==
    ASSUME RecConstants, in = out, TypeOK
    PROVE  kfifo_len = 0 /\ Tiles /\ Contents = <<>>
<1>1. in \in Index /\ UINT \in Nat /\ UINT > 0 /\ Size \in Nat
  BY Basics, WideIndex
<1>2. kfifo_len = 0
  <2>1. kfifo_len = IF in >= in THEN in - in ELSE in + UINT - in
    BY <1>1, MinusIs DEF kfifo_len
  <2> QED
    BY <1>1, <2>1 DEF Index
<1>3. PICK s : s = [k \in 0..0 |-> 0]
  OBVIOUS
<1>4. s \in [0..0 -> 0..kfifo_len] /\ s[0] = 0
  BY <1>2, <1>3
<1>5. \A k \in 0..(0 - 1) : s[k + 1] = s[k] + recsize + LengthAt(out + s[k])
  OBVIOUS
<1>6. \A j, k \in 0..0 : j <= k => s[k] >= s[j] + (k - j)
  BY <1>4
<1>7. Marks(0, s)
  BY <1>2, <1>4, <1>5, <1>6 DEF Marks
<1>8. Tiles
  BY <1>4, <1>7 DEF Tiles
<1>9. Contents = Listing(0, s)
  <2>1. kfifo_len \in 0..Size
    BY <1>1, <1>2
  <2> QED
    BY <1>7, <2>1, ContentsListed DEF Listed
<1>10. Listing(0, s) = <<>>
  BY DEF Listing
<1> QED
  BY <1>2, <1>8, <1>9, <1>10

EmptyOK == (in = out /\ TypeOK) => kfifo_len = 0 /\ Tiles /\ Contents = <<>>

LEMMA EmptyRingNext == RecConstants => EmptyOK'
<1>1. RecConstants => EmptyOK
  BY EmptyRing DEF EmptyOK
<1>2. RecConstants' => EmptyOK'
  BY <1>1, PTL
<1>3. RecConstants => RecConstants'
  BY DEF RecConstants, Byte
<1> QED
  BY <1>2, <1>3

LEMMA DiscardStep ==
    ASSUME RecConstants, RecInv, rpc = "idle", in' = out', in' \in Index,
           wpc # "idle" => in' = in, UNCHANGED <<recsize, data, writer, reader>>
    PROVE  RecInv' /\ Steps
<1>1. TypeOK /\ kfifo_len \in Nat /\ Reading
  BY RecordFacts
<1>2. wpc' = wpc /\ rec' = rec /\ rpc' = rpc /\ rlen' = rlen /\ n' = n /\ dst' = dst
  BY DEF writer, reader
<1>3. TypeOK'
  BY <1>1, <1>2 DEF TypeOK, Index
<1>4. kfifo_len' = 0 /\ Tiles' /\ Contents' = <<>>
  BY <1>3, EmptyRingNext DEF EmptyOK
<1>5. dst = NONE
  BY <1>1 DEF Reading
<1>6. RecInv'
  <2>1. kfifo_len' <= kfifo_len
    BY <1>1, <1>4
  <2> QED
    BY <1>2, <1>3, <1>4, <1>5, <2>1, RingShortened
<1>7. R!Discard
  BY <1>2, <1>4, <1>5 DEF R!Discard
<1> QED
  BY <1>6, <1>7 DEF Steps

----------------------------------------------------------------------------
(* Every step.                                                              *)

LEMMA InitHolds == RecConstants /\ Init => RecInv /\ R!PromiseInit
<1> SUFFICES ASSUME RecConstants, Init PROVE RecInv /\ R!PromiseInit
  OBVIOUS
<1>1. /\ Size \in Nat /\ Size > 0 /\ UINT \in Nat /\ UINT > 0 /\ BYTE \in Nat \ {0}
  BY WideIndex DEF RecConstants
<1>2. TypeOK
  <2>1. 0 \in Index /\ 0 \in 0..Size /\ 0 \in Byte
    BY <1>1 DEF Index, Byte
  <2> QED
    BY <2>1 DEF Init, TypeOK, Index
<1>3. in = out
  BY DEF Init
<1>4. kfifo_len = 0 /\ Tiles /\ Contents = <<>>
  BY <1>2, <1>3, EmptyRing
<1>5. Writing /\ Reading
  BY DEF Init, Writing, Reading
<1>6. RecInv
  BY <1>1, <1>2, <1>4, <1>5 DEF RecInv
<1> QED
  BY <1>4, <1>6 DEF R!PromiseInit, Init

(* The calls that start a copy of a record.                                 *)
LEMMA CallInStep ==
    ASSUME RecConstants, RecInv, NEW buf \in Buffers,
           kfifo_in(buf) \/ kfifo_from_user(buf) \/ kfifo_dma_in_prepare(buf)
    PROVE  RecInv' /\ Steps
<1>1. buf \in Seq(Payload)
  <2>1. PICK l \in 0..Size : buf \in [1..l -> Payload]
    BY DEF Buffers
  <2>2. l \in Nat
    BY <2>1 DEF RecConstants
  <2> QED
    BY <2>1, <2>2
<1>2. CASE kfifo_in(buf)
  <2>1. Len(buf) <= MaxRecord /\ StartIn(buf, "copy")
    BY <1>2 DEF kfifo_in
  <2> QED
    BY <1>1, <2>1, StartInStep DEF Steps
<1>3. Clamped(buf) \in Seq(Payload) /\ Len(Clamped(buf)) <= MaxRecord
  BY <1>1, ClampedRecord DEF RecInv
<1>4. CASE kfifo_from_user(buf)
  <2>1. StartIn(Clamped(buf), "transfer")
    BY <1>4 DEF kfifo_from_user
  <2> QED
    BY <1>3, <2>1, StartInStep DEF Steps
<1>5. CASE kfifo_dma_in_prepare(buf)
  <2>1. StartIn(Clamped(buf), "dma")
    BY <1>5 DEF kfifo_dma_in_prepare
  <2> QED
    BY <1>3, <2>1, StartInStep DEF Steps
<1> QED
  BY <1>2, <1>4, <1>5

LEMMA CallOutStep ==
    ASSUME RecConstants, RecInv, NEW len \in Nat,
           \/ kfifo_out(len) \/ kfifo_out_peek(len) \/ kfifo_to_user(len)
           \/ kfifo_dma_out_prepare(len)
    PROVE  RecInv' /\ Steps
<1>1. in # out => kfifo_peek_n \in Nat
  BY FirstRecord
<1>2. ASSUME NEW label \in {"copy", "peek", "transfer"}, StartOut(len, label)
      PROVE  RecInv' /\ Steps
  <2>1. /\ rpc = "idle" /\ in # out /\ n' = kfifo_peek_n /\ rpc' = label
        /\ UNCHANGED <<ring, writer, dst>>
    BY <1>2 DEF StartOut
  <2>2. rlen' = Least(len, kfifo_peek_n)
    BY <1>2 DEF StartOut
  <2>3. Least(len, kfifo_peek_n) \in Nat /\ Least(len, kfifo_peek_n) <= kfifo_peek_n
    <3>1. kfifo_peek_n \in Nat
      BY <1>1, <2>1
    <3> HIDE DEF kfifo_peek_n
    <3> QED
      BY <3>1 DEF Least
  <2>4. rlen' \in Nat /\ rlen' <= kfifo_peek_n
    BY <2>2, <2>3
  <2> QED
    BY <2>1, <2>4, StartOutStep
<1>3. CASE kfifo_dma_out_prepare(len)
  <2>1. /\ rpc = "idle" /\ in # out /\ n' = kfifo_peek_n /\ rpc' = "dma"
        /\ UNCHANGED <<ring, writer, dst>>
    BY <1>3 DEF kfifo_dma_out_prepare
  <2>2. rlen' = kfifo_max_r(len) /\ len <= kfifo_peek_n
    BY <1>3 DEF kfifo_dma_out_prepare
  <2>3. kfifo_max_r(len) \in Nat /\ kfifo_max_r(len) <= len
    <3>1. BYTE \in Nat /\ BYTE > 0
      BY Basics DEF RecInv
    <3>2. BYTE * BYTE \in Nat /\ BYTE * BYTE >= 1
      BY <3>1
    <3>3. MaxRecord \in Nat
      BY <3>1, <3>2 DEF MaxRecord
    <3> QED
      BY <3>3 DEF kfifo_max_r, Least
  <2>4. kfifo_max_r(len) <= kfifo_peek_n
    BY <1>1, <2>1, <2>2, <2>3
  <2>5. rlen' \in Nat /\ rlen' <= kfifo_peek_n
    BY <2>2, <2>3, <2>4
  <2> QED
    BY <2>1, <2>5, StartOutStep
<1> QED
  BY <1>2, <1>3 DEF kfifo_out, kfifo_out_peek, kfifo_to_user

LEMMA MovingOutStep ==
    ASSUME RecConstants, RecInv, PublishOut \/ kfifo_dma_out_finish \/ kfifo_skip
    PROVE  RecInv' /\ Steps
<1>1. 0 \in 0..Size /\ TypeOK /\ Reading
  BY RecordFacts
<1>2. CASE PublishOut \/ kfifo_dma_out_finish
  <2>1. /\ in # out /\ out' = Plus(out, kfifo_peek_n + recsize)
        /\ UNCHANGED <<recsize, in, data, writer>> /\ Done
    BY <1>1, <1>2 DEF PublishOut, kfifo_dma_out_finish, Reading
  <2>2. rpc' = "idle" /\ rlen' \in 0..Size /\ n' \in Nat /\ dst' = NONE
    BY <1>1, <2>1 DEF Done
  <2> QED
    BY <2>1, <2>2, DropStep
<1>3. CASE kfifo_skip
  <2>1. /\ in # out /\ out' = Plus(out, kfifo_peek_n + recsize)
        /\ UNCHANGED <<recsize, in, data, writer>>
    BY <1>3 DEF kfifo_skip
  <2>2. rpc = "idle" /\ rpc' = rpc /\ rlen' = rlen /\ n' = n /\ dst' = dst
    BY <1>3 DEF kfifo_skip, reader
  <2>3. rpc' = "idle" /\ rlen' \in 0..Size /\ n' \in Nat /\ dst' = NONE
    BY <1>1, <2>2 DEF TypeOK, Reading
  <2> QED
    BY <2>1, <2>3, DropStep
<1> QED
  BY <1>2, <1>3

LEMMA ResetStep ==
    ASSUME RecConstants, RecInv, kfifo_reset_out \/ kfifo_reset
    PROVE  RecInv' /\ Steps
<1>1. in \in Index /\ 0 \in Index
  BY RecordFacts DEF Index
<1>2. CASE kfifo_reset_out
  <2>1. /\ rpc = "idle" /\ in' = out' /\ in' = in
        /\ UNCHANGED <<recsize, data, writer, reader>>
    BY <1>2 DEF kfifo_reset_out
  <2> QED
    BY <1>1, <2>1, DiscardStep
<1>3. CASE kfifo_reset
  <2>1. /\ rpc = "idle" /\ in' = out' /\ in' = 0 /\ wpc = "idle"
        /\ UNCHANGED <<recsize, data, writer, reader>>
    BY <1>3 DEF kfifo_reset
  <2> QED
    BY <1>1, <2>1, DiscardStep
<1> QED
  BY <1>2, <1>3

LEMMA NextHolds == RecConstants /\ RecInv /\ Next => RecInv' /\ Steps
<1> SUFFICES ASSUME RecConstants, RecInv, Next PROVE RecInv' /\ Steps
  OBVIOUS
<1>1. ASSUME NEW buf \in Buffers,
             kfifo_in(buf) \/ kfifo_from_user(buf) \/ kfifo_dma_in_prepare(buf)
      PROVE  RecInv' /\ Steps
  BY <1>1, CallInStep
<1>2. Fill \/ FaultIn \/ DeviceFills \/ PublishIn => RecInv' /\ Steps
  BY FillStep, FaultInStep, DeviceFillsStep, PublishInStep
<1>3. ASSUME NEW len \in 0..Size,
             \/ kfifo_dma_in_finish(len)
             \/ kfifo_out(len) \/ kfifo_out_peek(len) \/ kfifo_to_user(len)
             \/ kfifo_dma_out_prepare(len)
      PROVE  RecInv' /\ Steps
  <2>1. len \in Nat
    BY DEF RecConstants
  <2> QED
    BY <1>3, <2>1, DmaInFinishStep, CallOutStep
<1>4. Take => RecInv' /\ Steps
  BY TakeStep
<1>5. FaultOut \/ PeekDone => RecInv' /\ Steps
  BY LookAwayStep DEF FaultOut, PeekDone
<1>6. PublishOut \/ kfifo_dma_out_finish \/ kfifo_skip => RecInv' /\ Steps
  BY MovingOutStep
<1>7. kfifo_reset_out \/ kfifo_reset => RecInv' /\ Steps
  BY ResetStep
<1> QED
  BY <1>1, <1>2, <1>3, <1>4, <1>5, <1>6, <1>7 DEF Next

(* What the invariant says of the properties.                               *)
LEMMA InvariantSays == RecConstants /\ RecInv => TypeOK /\ Tiled /\ ClaimsHold
<1> SUFFICES ASSUME RecConstants, RecInv PROVE TypeOK /\ Tiled /\ ClaimsHold
  OBVIOUS
<1>1. PICK m \in Nat : \E s \in [0..m -> 0..kfifo_len] : Marks(m, s)
  BY DEF RecInv, Tiles
<1>2. PICK s \in [0..m -> 0..kfifo_len] : Marks(m, s)
  BY <1>1
<1>3. TypeOK /\ kfifo_len \in 0..Size /\ Writing /\ Reading
  <2>1. TypeOK /\ kfifo_len \in Nat /\ kfifo_len <= Size /\ Size \in Nat /\ Writing /\ Reading
    BY RecordFacts
  <2> QED
    BY <2>1
<1>4. Tiled
  BY <1>2, <1>3, ContentsListed DEF Listed
<1>5. ClaimsHold
  BY <1>3 DEF Writing, Reading, ClaimsHold
<1> QED
  BY <1>3, <1>4, <1>5

LEMMA IdleHolds ==
    ASSUME RecConstants, RecInv, UNCHANGED vars
    PROVE  RecInv' /\ UNCHANGED <<Contents, rec, dst>>
<1>1. UNCHANGED <<recsize, in, out, data, wpc, rec, rpc, rlen, n, dst>>
  BY DEF vars
<1>2. TypeOK'
  BY <1>1 DEF RecInv, TypeOK
<1>3. UNCHANGED ring /\ UNCHANGED writer
  BY <1>1 DEF ring, writer
<1>4. /\ Tiles' /\ kfifo_len' <= Size /\ Contents' = Contents /\ kfifo_peek_n' = kfifo_peek_n
      /\ Writing'
  BY <1>2, <1>3, RingAlone
<1>5. Reading'
  BY <1>1, <1>4 DEF RecInv, Reading
<1> QED
  BY <1>1, <1>2, <1>4, <1>5 DEF RecInv

(* The invariant is kept, and every step is one of the queue of records.    *)
LEMMA StepHolds == RecConstants /\ RecInv /\ [Next]_vars => RecInv' /\ [R!PromiseNext]_(R!rvars)
<1>1. Steps => [R!PromiseNext]_(R!rvars)
  BY DEF Steps, R!PromiseNext, R!rvars
<1>2. RecConstants /\ RecInv /\ UNCHANGED vars => RecInv' /\ [R!PromiseNext]_(R!rvars)
  BY IdleHolds DEF R!rvars
<1> QED
  BY <1>1, <1>2, NextHolds
=============================================================================
