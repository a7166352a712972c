---------------------------- MODULE KfifoProofs ----------------------------
(***************************************************************************)
(* Kfifo for every number of writers and readers, every ring size and      *)
(* every width of the indices: its types, its bounds, and the absence of   *)
(* races between the two sides.                                            *)
(***************************************************************************)
EXTENDS Kfifos, Lemmas, SequenceTheorems, TLAPS

(* The indices have room for twice the ring.                                *)
LEMMA WideIndex == Size \in Nat \ {0, 1} /\ UINT \in Nat /\ 2 * Size <= UINT
<1>1. PICK k \in 2..UINT : UINT = k * Size
  BY KfifoConstants
<1>2. k \in Nat /\ k >= 2 /\ Size \in Nat
  BY <1>1, KfifoConstants
<1>3. k * Size >= 2 * Size
  BY <1>2
<1> QED
  BY <1>1, <1>2, <1>3, KfifoConstants

(* Unsigned arithmetic on indices, as long as no result leaves its range.   *)
LEMMA PlusIndex ==
    ASSUME NEW i \in Index, NEW k \in Nat, k <= Size
    PROVE  Plus(i, k) \in Index
BY WideIndex DEF Plus, Index

LEMMA MinusIndex ==
    ASSUME NEW i \in Index, NEW j \in Index
    PROVE  Minus(i, j) \in Index
BY WideIndex DEF Minus, Index

LEMMA MinusOfAdvancedIn ==
    ASSUME NEW i \in Index, NEW j \in Index, NEW k \in Nat, Minus(i, j) + k <= Size
    PROVE  Minus(Plus(i, k), j) = Minus(i, j) + k
BY WideIndex DEF Minus, Plus, Index

LEMMA MinusOfAdvancedOut ==
    ASSUME NEW i \in Index, NEW j \in Index, NEW k \in Nat, k <= Minus(i, j)
    PROVE  Minus(i, Plus(j, k)) = Minus(i, j) - k
BY WideIndex DEF Minus, Plus, Index

LEMMA EqualIndices ==
    ASSUME NEW i \in Index
    PROVE  Minus(i, i) = 0
BY WideIndex DEF Minus, Index

(* kfifo_unused is the free room as long as the fifo is not overfull.       *)
LEMMA UnusedIsRoom ==
    ASSUME in \in Index, out \in Index, NeverOverfull
    PROVE  kfifo_len \in 0..Size /\ kfifo_unused = Size - kfifo_len
<1>1. kfifo_len \in Index
  BY MinusIndex DEF kfifo_len
<1> QED
  BY <1>1, WideIndex DEF kfifo_unused, NeverOverfull, Minus, Index

(* A caller's buffer is a sequence, and cut to what fits it still is.       *)
LEMMA BufferType ==
    ASSUME NEW n \in Nat, NEW buf \in Buffers(n)
    PROVE  buf \in Seq(Values) /\ Len(buf) = n
<1>1. Buffers(n) = {s \in Seq(Values) : Len(s) = n}
  BY DEF Buffers
<1> QED
  BY <1>1

LEMMA FittingType ==
    ASSUME IInv, NEW s \in Seq(Values)
    PROVE  Fitting(s) \in Seq(Values) /\ Len(Fitting(s)) <= kfifo_unused
<1>1. kfifo_unused \in Nat
  BY UnusedIsRoom, WideIndex DEF IInv, TypeOK
<1>2. Least(Len(s), kfifo_unused) \in 0..Len(s) /\ Least(Len(s), kfifo_unused) <= kfifo_unused
  BY <1>1 DEF Least
<1> DEFINE k == Least(Len(s), kfifo_unused)
<1>3. SubSeq(s, 1, k) \in Seq(Values) /\ Len(SubSeq(s, 1, k)) = k
  BY <1>2, SubSeqProperties
<1> QED
  BY <1>2, <1>3 DEF Fitting

LEMMA InitIInv == Init => IInv
<1> SUFFICES ASSUME Init PROVE IInv
  OBVIOUS
<1>1. TypeOK
  BY WideIndex DEF Init, TypeOK, Index
<1>2. kfifo_len = 0
  BY <1>1, EqualIndices DEF Init, TypeOK, kfifo_len
<1>3. Exclusive /\ Copying
  BY DEF Init, Exclusive, Copying
<1>4. NeverOverfull /\ ClaimsFit
  BY <1>2, WideIndex DEF Init, NeverOverfull, ClaimsFit
<1> QED
  BY <1>1, <1>3, <1>4 DEF IInv

----------------------------------------------------------------------------
(* The invariant is kept, action by action.                                 *)

USE DEF fifo, writer, reader

LEMMA StartInIInv ==
    ASSUME IInv, NEW w \in Writers, NEW buf \in Seq(Values), Len(buf) <= kfifo_unused,
           NEW label \in {"copy", "transfer"}, StartIn(w, buf, label)
    PROVE  IInv'
<1>1. TypeOK'
  BY DEF IInv, TypeOK, StartIn
<1>2. Exclusive'
  BY KfifoConstants DEF IInv, TypeOK, Exclusive, StartIn
<1>3. Copying'
  <2>1. src'[w] = buf /\ wdone'[w] = 0 /\ wpc'[w] = label /\ Len(buf) \in Nat
    BY DEF IInv, TypeOK, StartIn
  <2>2. \A v \in Writers \ {w} : /\ src'[v] = src[v] /\ wdone'[v] = wdone[v]
                                 /\ wpc'[v] = wpc[v]
    BY DEF IInv, TypeOK, StartIn
  <2> QED
    BY <2>1, <2>2 DEF IInv, Copying, StartIn
<1>4. kfifo_len' = kfifo_len /\ kfifo_unused' = kfifo_unused
  BY DEF StartIn, kfifo_len, kfifo_unused
<1>5. NeverOverfull' /\ ClaimsFit'
  BY <1>4 DEF IInv, TypeOK, NeverOverfull, ClaimsFit, StartIn
<1> QED
  BY <1>1, <1>2, <1>3, <1>5 DEF IInv

LEMMA CopyInIInv ==
    ASSUME IInv, NEW w \in Writers, kfifo_copy_in(w)
    PROVE  IInv'
<1>1. TypeOK'
  <2>1. Slot(Plus(in, wdone[w])) \in 0..(Size - 1)
    <3>1. wdone[w] \in Nat /\ Len(src[w]) \in Nat /\ in \in Index
      BY DEF IInv, TypeOK
    <3>2. Len(src[w]) <= Size
      BY <3>1, UnusedIsRoom, WideIndex DEF IInv, ClaimsFit, TypeOK, kfifo_copy_in
    <3>3. wdone[w] <= Size
      BY <3>1, <3>2, WideIndex DEF kfifo_copy_in
    <3>4. Plus(in, wdone[w]) \in Index
      BY <3>1, <3>3, PlusIndex
    <3> QED
      BY <3>4, WideIndex DEF Slot, Index
  <2>2. src[w][wdone[w] + 1] \in Values
    BY DEF IInv, TypeOK, kfifo_copy_in
  <2> QED
    BY <2>1, <2>2 DEF IInv, TypeOK, kfifo_copy_in
<1>2. Exclusive' /\ Copying'
  BY DEF IInv, TypeOK, Exclusive, Copying, kfifo_copy_in
<1>3. kfifo_len' = kfifo_len /\ kfifo_unused' = kfifo_unused
  BY DEF kfifo_copy_in, kfifo_len, kfifo_unused
<1>4. NeverOverfull' /\ ClaimsFit'
  BY <1>3 DEF IInv, NeverOverfull, ClaimsFit, kfifo_copy_in
<1> QED
  BY <1>1, <1>2, <1>4 DEF IInv

LEMMA StopInIInv ==
    ASSUME IInv, NEW w \in Writers, StopIn(w)
    PROVE  IInv'
<1>1. /\ SubSeq(src[w], 1, wdone[w]) \in Seq(Values)
      /\ Len(SubSeq(src[w], 1, wdone[w])) = wdone[w]
  BY SubSeqProperties DEF IInv, TypeOK, StopIn
<1>2. TypeOK'
  BY <1>1 DEF IInv, TypeOK, StopIn
<1>3. Exclusive' /\ Copying'
  BY <1>1 DEF IInv, TypeOK, Exclusive, Copying, StopIn
<1>4. kfifo_len' = kfifo_len /\ kfifo_unused' = kfifo_unused
  BY DEF StopIn, kfifo_len, kfifo_unused
<1>5. kfifo_unused \in Nat
  BY UnusedIsRoom, WideIndex DEF IInv, TypeOK
<1>6. NeverOverfull' /\ ClaimsFit'
  BY <1>1, <1>4, <1>5 DEF IInv, TypeOK, NeverOverfull, ClaimsFit, StopIn
<1> QED
  BY <1>2, <1>3, <1>6 DEF IInv

LEMMA PublishInIInv ==
    ASSUME IInv, NEW w \in Writers, PublishIn(w)
    PROVE  IInv'
<1> DEFINE k == wdone[w]
<1>1. /\ in \in Index /\ out \in Index /\ k \in Nat /\ kfifo_len \in 0..Size
      /\ kfifo_len + k <= Size
  BY UnusedIsRoom, WideIndex DEF IInv, TypeOK, ClaimsFit, PublishIn
<1>2. in' \in Index /\ out' = out
  BY <1>1, PlusIndex, WideIndex DEF PublishIn
<1>3. kfifo_len' = kfifo_len + k
  BY <1>1, <1>2, MinusOfAdvancedIn DEF kfifo_len, PublishIn
<1>4. TypeOK'
  BY <1>2 DEF IInv, TypeOK, PublishIn
<1>5. Exclusive' /\ Copying'
  BY DEF IInv, TypeOK, Exclusive, Copying, PublishIn
<1>6. NeverOverfull'
  BY <1>1, <1>3 DEF NeverOverfull
<1>7. ClaimsFit'
  <2>1. \A v \in Writers : wpc'[v] = "idle"
    BY DEF IInv, TypeOK, Exclusive, PublishIn
  <2>2. \A r \in Readers : rpc'[r] # "idle" => rlen'[r] <= kfifo_len + k
    BY <1>1 DEF IInv, TypeOK, ClaimsFit, PublishIn
  <2> QED
    BY <1>3, <2>1, <2>2 DEF ClaimsFit
<1> QED
  BY <1>4, <1>5, <1>6, <1>7 DEF IInv

LEMMA StartOutIInv ==
    ASSUME IInv, NEW r \in Readers, NEW n \in Nat,
           NEW label \in {"copy", "transfer", "peek"}, StartOut(r, n, label)
    PROVE  IInv'
<1>1. kfifo_len \in Nat
  BY UnusedIsRoom, WideIndex DEF IInv, TypeOK
<1>2. Least(n, kfifo_len) \in Nat /\ Least(n, kfifo_len) <= kfifo_len
  BY <1>1 DEF Least
<1>3. TypeOK'
  BY <1>2 DEF IInv, TypeOK, StartOut
<1>4. Exclusive'
  BY KfifoConstants DEF IInv, TypeOK, Exclusive, StartOut
<1>5. rpc[r] = "idle" /\ Len(dst[r]) = 0
  BY DEF IInv, TypeOK, Copying, StartOut
<1>6. Copying'
  BY <1>2, <1>5 DEF IInv, TypeOK, Copying, StartOut
<1>7. kfifo_len' = kfifo_len /\ kfifo_unused' = kfifo_unused
  BY DEF StartOut, kfifo_len, kfifo_unused
<1>8. NeverOverfull' /\ ClaimsFit'
  BY <1>2, <1>7 DEF IInv, TypeOK, NeverOverfull, ClaimsFit, StartOut
<1> QED
  BY <1>3, <1>4, <1>6, <1>8 DEF IInv

LEMMA CopyOutIInv ==
    ASSUME IInv, NEW r \in Readers, kfifo_copy_out(r)
    PROVE  IInv'
<1> DEFINE slot == Slot(Plus(out, Len(dst[r])))
<1>1. slot \in 0..(Size - 1)
  <2>1. Len(dst[r]) \in Nat /\ out \in Index /\ rlen[r] \in Nat /\ kfifo_len \in 0..Size
    BY UnusedIsRoom DEF IInv, TypeOK
  <2>2. Len(dst[r]) <= Size
    BY <2>1, WideIndex DEF IInv, ClaimsFit, kfifo_copy_out
  <2>3. Plus(out, Len(dst[r])) \in Index
    BY <2>1, <2>2, PlusIndex
  <2> QED
    BY <2>3, WideIndex DEF Slot, Index
<1>2. data[slot] \in Values \cup {NONE}
  BY <1>1 DEF IInv, TypeOK
<1>3. /\ dst'[r] = Append(dst[r], data[slot])
      /\ dst'[r] \in Seq(Values \cup {NONE})
      /\ Len(dst'[r]) = Len(dst[r]) + 1
  BY <1>2 DEF IInv, TypeOK, kfifo_copy_out
<1>4. TypeOK'
  BY <1>3 DEF IInv, TypeOK, kfifo_copy_out
<1>5. Exclusive' /\ Copying'
  BY <1>3 DEF IInv, TypeOK, Exclusive, Copying, kfifo_copy_out
<1>6. kfifo_len' = kfifo_len /\ kfifo_unused' = kfifo_unused
  BY DEF kfifo_copy_out, kfifo_len, kfifo_unused
<1>7. NeverOverfull' /\ ClaimsFit'
  BY <1>6 DEF IInv, NeverOverfull, ClaimsFit, kfifo_copy_out
<1> QED
  BY <1>4, <1>5, <1>7 DEF IInv

LEMMA StopOutIInv ==
    ASSUME IInv, NEW r \in Readers, StopOut(r)
    PROVE  IInv'
<1>1. Len(dst[r]) \in Nat /\ rlen[r] \in Nat /\ kfifo_len \in Nat
  BY UnusedIsRoom, WideIndex DEF IInv, TypeOK
<1>2. TypeOK'
  BY <1>1 DEF IInv, TypeOK, StopOut
<1>3. Exclusive' /\ Copying'
  BY <1>1 DEF IInv, TypeOK, Exclusive, Copying, StopOut
<1>4. kfifo_len' = kfifo_len /\ kfifo_unused' = kfifo_unused
  BY DEF StopOut, kfifo_len, kfifo_unused
<1>5. NeverOverfull' /\ ClaimsFit'
  BY <1>1, <1>4 DEF IInv, TypeOK, NeverOverfull, ClaimsFit, StopOut
<1> QED
  BY <1>2, <1>3, <1>5 DEF IInv

(* Whatever the out side takes, it takes from what is there, and gives room *)
(* to the writers.                                                          *)
LEMMA OutAdvances ==
    ASSUME IInv, NEW k \in Nat, k <= kfifo_len, out' = Plus(out, k), in' = in
    PROVE  /\ out' \in Index
           /\ kfifo_len' = kfifo_len - k
           /\ NeverOverfull'
           /\ kfifo_unused' = kfifo_unused + k
<1>1. in \in Index /\ out \in Index /\ kfifo_len \in 0..Size
      /\ kfifo_unused = Size - kfifo_len
  BY UnusedIsRoom DEF IInv, TypeOK
<1>2. out' \in Index
  BY <1>1, PlusIndex, WideIndex
<1>3. kfifo_len' = kfifo_len - k
  BY <1>1, MinusOfAdvancedOut DEF kfifo_len
<1>4. NeverOverfull'
  BY <1>1, <1>3, WideIndex DEF NeverOverfull
<1>5. kfifo_unused' = Minus(Size, kfifo_len')
  BY DEF kfifo_unused
<1> QED
  BY <1>1, <1>2, <1>3, <1>4, <1>5, WideIndex DEF Minus

LEMMA PublishOutIInv ==
    ASSUME IInv, NEW r \in Readers, PublishOut(r)
    PROVE  IInv'
<1> DEFINE k == IF rpc[r] = "peek" THEN 0 ELSE rlen[r]
<1>1. k \in Nat /\ k <= kfifo_len /\ out \in Index /\ kfifo_len \in Nat
  BY UnusedIsRoom, WideIndex DEF IInv, TypeOK, ClaimsFit, PublishOut
<1>2. out' = Plus(out, k) /\ in' = in
  BY <1>1, WideIndex DEF PublishOut, Plus, Index
<1>3. /\ out' \in Index /\ NeverOverfull'
      /\ kfifo_unused' = kfifo_unused + k
  BY <1>1, <1>2, OutAdvances
<1>4. TypeOK'
  BY <1>2, <1>3 DEF IInv, TypeOK, PublishOut
<1>5. Exclusive' /\ Copying'
  BY DEF IInv, TypeOK, Exclusive, Copying, PublishOut
<1>6. ClaimsFit'
  <2>1. \A q \in Readers : rpc'[q] = "idle"
    BY DEF IInv, TypeOK, Exclusive, PublishOut
  <2>2. kfifo_unused \in Nat
    BY UnusedIsRoom, WideIndex DEF IInv, TypeOK
  <2>3. \A w \in Writers : wpc'[w] # "idle" => Len(src'[w]) <= kfifo_unused + k
    BY <1>1, <2>2 DEF IInv, TypeOK, ClaimsFit, PublishOut
  <2> QED
    BY <1>3, <2>1, <2>3 DEF ClaimsFit
<1> QED
  BY <1>3, <1>4, <1>5, <1>6 DEF IInv

LEMMA ExclusiveReader ==
    ASSUME IInv, NEW r \in Readers, OutExclusive(r)
    PROVE  \A q \in Readers : rpc[q] = "idle"
BY KfifoConstants DEF IInv, TypeOK, Exclusive, OutExclusive

LEMMA DiscardIInv ==
    ASSUME IInv, NEW k \in Nat, k <= kfifo_len, out' = Plus(out, k),
           \A q \in Readers : rpc[q] = "idle",
           UNCHANGED <<in, data, writer, reader>>
    PROVE  IInv'
<1>1. /\ out' \in Index /\ NeverOverfull'
      /\ kfifo_unused' = kfifo_unused + k
  BY OutAdvances
<1>2. TypeOK'
  BY <1>1 DEF IInv, TypeOK
<1>3. Exclusive' /\ Copying'
  BY DEF IInv, Exclusive, Copying
<1>4. kfifo_unused \in Nat
  BY UnusedIsRoom, WideIndex DEF IInv, TypeOK
<1>5. ClaimsFit'
  BY <1>1, <1>4 DEF IInv, TypeOK, ClaimsFit
<1> QED
  BY <1>1, <1>2, <1>3, <1>5 DEF IInv

LEMMA ResetOutIInv ==
    ASSUME IInv, NEW r \in Readers, kfifo_reset_out(r)
    PROVE  IInv'
<1>1. kfifo_len \in Nat /\ in \in Index /\ out \in Index
  BY UnusedIsRoom, WideIndex DEF IInv, TypeOK
<1>2. Plus(out, kfifo_len) = in
  BY <1>1, WideIndex DEF kfifo_len, Plus, Minus, Index
<1> QED
  BY <1>1, <1>2, ExclusiveReader, DiscardIInv DEF kfifo_reset_out

LEMMA SkipIInv ==
    ASSUME IInv, NEW r \in Readers, kfifo_skip(r)
    PROVE  IInv'
<1>1. 1 <= kfifo_len
  BY WideIndex DEF IInv, TypeOK, kfifo_skip, kfifo_is_empty, kfifo_len, Minus, Index
<1> QED
  BY <1>1, ExclusiveReader, DiscardIInv DEF kfifo_skip

LEMMA ResetIInv ==
    ASSUME IInv, kfifo_reset
    PROVE  IInv'
<1>1. TypeOK'
  BY WideIndex DEF IInv, TypeOK, kfifo_reset, Index
<1>2. Exclusive' /\ Copying'
  BY DEF IInv, Exclusive, Copying, kfifo_reset
<1>3. kfifo_len' = 0
  BY DEF kfifo_reset, kfifo_len, Minus
<1>4. NeverOverfull' /\ ClaimsFit'
  BY <1>3, WideIndex DEF NeverOverfull, ClaimsFit, kfifo_reset
<1> QED
  BY <1>1, <1>2, <1>4 DEF IInv

(* The calls of the in side start with a sequence that fits, those of the   *)
(* out side with a number.                                                  *)
LEMMA WriterSteps ==
    ASSUME IInv, NEW w \in Writers, WriterStep(w)
    PROVE  \/ \E buf \in Seq(Values), label \in {"copy", "transfer"} :
                 Len(buf) <= kfifo_unused /\ StartIn(w, buf, label)
           \/ kfifo_copy_in(w) \/ StopIn(w) \/ PublishIn(w)
<1>1. ASSUME NEW n \in Nat, NEW buf \in Buffers(n),
             kfifo_in(w, buf) \/ kfifo_from_user(w, buf) \/ kfifo_dma_in_prepare(w, buf)
      PROVE  \E s \in Seq(Values), label \in {"copy", "transfer"} :
                Len(s) <= kfifo_unused /\ StartIn(w, s, label)
  <2>1. /\ Fitting(buf) \in Seq(Values)
        /\ Len(Fitting(buf)) <= kfifo_unused
    BY BufferType, FittingType
  <2> QED
    BY <1>1, <2>1 DEF kfifo_in, kfifo_from_user, kfifo_dma_in_prepare
<1>2. ASSUME NEW val \in Values, kfifo_put(w, val)
      PROVE  \E s \in Seq(Values), label \in {"copy", "transfer"} :
                Len(s) <= kfifo_unused /\ StartIn(w, s, label)
  <2>1. 1 <= kfifo_unused
    BY <1>2, UnusedIsRoom, WideIndex DEF IInv, TypeOK, kfifo_put, kfifo_is_full
  <2>2. <<val>> \in Seq(Values) /\ Len(<<val>>) = 1
    OBVIOUS
  <2> QED
    BY <1>2, <2>1, <2>2 DEF kfifo_put
<1> QED
  BY <1>1, <1>2, WideIndex DEF WriterStep

LEMMA ReaderSteps ==
    ASSUME NEW r \in Readers, ReaderStep(r)
    PROVE  \/ \E n \in Nat, label \in {"copy", "transfer", "peek"} : StartOut(r, n, label)
           \/ kfifo_copy_out(r) \/ StopOut(r) \/ PublishOut(r)
           \/ kfifo_reset_out(r) \/ kfifo_skip(r)
<1>1. ASSUME NEW n \in Nat,
             kfifo_out(r, n) \/ kfifo_to_user(r, n) \/ kfifo_dma_out_prepare(r, n)
                \/ kfifo_out_peek(r, n)
      PROVE  \E label \in {"copy", "transfer", "peek"} : StartOut(r, n, label)
  BY <1>1 DEF kfifo_out, kfifo_to_user, kfifo_dma_out_prepare, kfifo_out_peek
<1>2. ASSUME kfifo_get(r) \/ kfifo_peek(r)
      PROVE  \E label \in {"copy", "transfer", "peek"} : StartOut(r, 1, label)
  BY <1>2 DEF kfifo_get, kfifo_peek
<1> QED
  BY <1>1, <1>2, WideIndex DEF ReaderStep

LEMMA WriterIInv ==
    ASSUME IInv, NEW w \in Writers, WriterStep(w)
    PROVE  IInv'
BY WriterSteps, StartInIInv, CopyInIInv, StopInIInv, PublishInIInv

LEMMA ReaderIInv ==
    ASSUME IInv, NEW r \in Readers, ReaderStep(r)
    PROVE  IInv'
BY ReaderSteps, StartOutIInv, CopyOutIInv, StopOutIInv, PublishOutIInv, ResetOutIInv, SkipIInv

LEMMA StepIInv == IInv /\ [Next]_vars => IInv'
<1> SUFFICES ASSUME IInv, [Next]_vars PROVE IInv'
  OBVIOUS
<1>1. CASE \E w \in Writers : WriterStep(w)
  BY <1>1, WriterIInv
<1>2. CASE \E r \in Readers : ReaderStep(r)
  BY <1>2, ReaderIInv
<1>3. CASE kfifo_reset
  BY <1>3, ResetIInv
<1>4. CASE UNCHANGED vars
  BY <1>4 DEF vars, IInv, TypeOK, Exclusive, Copying, NeverOverfull, ClaimsFit, kfifo_len,
              kfifo_unused
<1> QED
  BY <1>1, <1>2, <1>3, <1>4 DEF Next

LEMMA InvariantIInv == Spec => []IInv
<1> QED
  BY InitIInv, StepIInv, PTL DEF Spec

----------------------------------------------------------------------------
(* The variables keep their types: the indices stay in range, no call       *)
(* touches a slot outside the ring.                                         *)
THEOREM TypeCorrect == Spec => []TypeOK
<1>1. IInv => TypeOK
  BY DEF IInv
<1> QED
  BY <1>1, InvariantIInv, PTL

(* The fifo is never overfull, whatever the ring size, the width of the     *)
(* indices, and the number of writers and readers.                          *)
THEOREM NeverOverfullCorrect == Spec => []NeverOverfull
<1>1. IInv => NeverOverfull
  BY DEF IInv
<1> QED
  BY <1>1, InvariantIInv, PTL

(* A call's claim on the ring, made from an index that has since moved on,  *)
(* stays good until the call publishes.                                     *)
THEOREM ClaimsFitCorrect == Spec => []ClaimsFit
<1>1. IInv => ClaimsFit
  BY DEF IInv
<1> QED
  BY <1>1, InvariantIInv, PTL

(* The slot of an index k further on, wrapped or not.                       *)
LEMMA SlotOfPlus ==
    ASSUME NEW i \in Index, NEW k \in Nat, k <= Size
    PROVE  Slot(Plus(i, k)) = (i + k) % Size
<1>1. PICK m \in 2..UINT : UINT = m * Size
  BY KfifoConstants
<1>2. i \in Nat /\ m \in Nat /\ Size \in Nat /\ Size > 0 /\ UINT \in Nat
  BY <1>1, WideIndex DEF Index
<1>3. CASE i + k < UINT
  BY <1>2, <1>3 DEF Slot, Plus
<1>4. CASE i + k >= UINT
  <2> DEFINE a == i + k - UINT
  <2>1. a \in Nat /\ i + k = a + m * Size /\ Slot(Plus(i, k)) = a % Size
    BY <1>1, <1>2, <1>4 DEF Slot, Plus
  <2> HIDE DEF a
  <2>2. (a + m * Size) % Size = a % Size
    BY <1>2, <2>1, RemainderOfMultiple
  <2> QED
    BY <2>1, <2>2
<1> QED
  BY <1>2, <1>3, <1>4

(* in is kfifo_len further on than out, modulo the width of an index.       *)
LEMMA InFromOut ==
    ASSUME IInv
    PROVE  in = Plus(out, kfifo_len)
BY WideIndex DEF IInv, TypeOK, kfifo_len, Plus, Minus, Index

LEMMA SlotFromOut ==
    ASSUME IInv, NEW i \in Nat, kfifo_len + i <= Size
    PROVE  Slot(Plus(in, i)) = (out + kfifo_len + i) % Size
<1>1. in \in Index /\ out \in Index /\ kfifo_len \in 0..Size /\ UINT \in Nat
  BY UnusedIsRoom, WideIndex DEF IInv, TypeOK
<1>2. Plus(in, i) = Plus(out, kfifo_len + i)
  BY <1>1, InFromOut, WideIndex DEF Plus, Index
<1>3. kfifo_len + i \in Nat /\ out + (kfifo_len + i) = out + kfifo_len + i
  BY <1>1, WideIndex DEF Index
<1> QED
  BY <1>1, <1>2, <1>3, SlotOfPlus

LEMMA SlotsApart ==
    ASSUME IInv, NEW i \in Nat, NEW j \in Nat, kfifo_len + i < Size, j < kfifo_len
    PROVE  Slot(Plus(in, i)) # Slot(Plus(out, j))
<1>1. in \in Index /\ out \in Nat /\ out \in Index /\ kfifo_len \in 0..Size /\ Size \in Nat
  BY UnusedIsRoom, WideIndex DEF IInv, TypeOK, Index
<1>2. Slot(Plus(in, i)) = (out + kfifo_len + i) % Size
  BY <1>1, SlotFromOut
<1>3. Slot(Plus(out, j)) = (out + j) % Size
  BY <1>1, SlotOfPlus
<1>4. /\ out + j \in Nat /\ out + kfifo_len + i \in Nat
      /\ out + j < out + kfifo_len + i
      /\ out + kfifo_len + i < (out + j) + Size
  BY <1>1
<1> QED
  BY <1>1, <1>2, <1>3, <1>4, DistinctRemainders, WideIndex

(* No slot that a writer has still to fill is one that a reader has still   *)
(* to read: one writer and one reader need no lock between them.            *)
THEOREM NoRaceCorrect == Spec => []NoRace
<1>1. IInv => NoRace
  <2> SUFFICES ASSUME IInv, NEW w \in Writers, NEW r \in Readers,
                      NEW i \in wdone[w]..(Len(src[w]) - 1),
                      NEW j \in Len(dst[r])..(rlen[r] - 1)
               PROVE  Slot(Plus(in, i)) # Slot(Plus(out, j))
    BY DEF NoRace, WriteSlots, ReadSlots
  <2>1. /\ wdone[w] \in Nat /\ Len(src[w]) \in Nat /\ Len(dst[r]) \in Nat
        /\ rlen[r] \in Nat /\ kfifo_len \in 0..Size /\ kfifo_unused = Size - kfifo_len
    BY UnusedIsRoom DEF IInv, TypeOK
  <2>2. wpc[w] # "idle" /\ rpc[r] # "idle"
    BY <2>1 DEF IInv, TypeOK, Copying
  <2>3. kfifo_len + i < Size /\ j < kfifo_len /\ i \in Nat /\ j \in Nat
    BY <2>1, <2>2, WideIndex DEF IInv, ClaimsFit
  <2> QED
    BY <2>3, SlotsApart
<1> QED
  BY <1>1, InvariantIInv, PTL

----------------------------------------------------------------------------
(* What the slots hold, which the refinement rests on: elements between out *)
(* and in, behind in what a writer has copied so far, and in a reader's     *)
(* hands copies of the first ones.                                          *)
At(k) == Slot(Plus(out, k))

Filled == \A k \in 0..(kfifo_len - 1) : data[At(k)] \in Values
CopiedIn == \A w \in Writers : \A i \in 1..wdone[w] : data[At(kfifo_len + i - 1)] = src[w][i]
CopiedOut == \A r \in Readers : \A i \in 1..Len(dst[r]) : data[At(i - 1)] = dst[r][i]

RInv == IInv /\ Filled /\ CopiedIn /\ CopiedOut

LEMMA PlusPlus ==
    ASSUME NEW i \in Index, NEW j \in Nat, NEW k \in Nat, j + k <= Size
    PROVE  Plus(Plus(i, j), k) = Plus(i, j + k)
BY WideIndex DEF Plus, Index

LEMMA AtSlot ==
    ASSUME IInv, NEW k \in 0..Size
    PROVE  At(k) \in 0..(Size - 1)
<1>1. Plus(out, k) \in Index
  BY PlusIndex, WideIndex DEF IInv, TypeOK
<1> QED
  BY <1>1, WideIndex DEF At, Slot, Index

LEMMA AtDistinct ==
    ASSUME IInv, NEW j \in 0..(Size - 1), NEW k \in 0..(Size - 1), At(j) = At(k)
    PROVE  j = k
<1>1. out \in Index /\ out \in Nat /\ Size \in Nat /\ Size > 0
  BY WideIndex DEF IInv, TypeOK, Index
<1>2. At(j) = (out + j) % Size /\ At(k) = (out + k) % Size
  BY <1>1, SlotOfPlus DEF At
<1>3. j \in Nat /\ k \in Nat /\ out + j \in Nat /\ out + k \in Nat
  BY <1>1
<1>r. (out + j) % Size = (out + k) % Size
  BY <1>2
<1>4. ~(out + j < out + k)
  <2>1. out + k < (out + j) + Size
    BY <1>1
  <2> QED
    BY <1>1, <1>3, <1>r, <2>1, DistinctRemainders
<1>5. ~(out + k < out + j)
  <2>1. out + j < (out + k) + Size
    BY <1>1
  <2> QED
    BY <1>1, <1>3, <1>r, <2>1, DistinctRemainders
<1> QED
  BY <1>1, <1>4, <1>5

LEMMA InAt ==
    ASSUME IInv, NEW k \in Nat, kfifo_len + k <= Size
    PROVE  Slot(Plus(in, k)) = At(kfifo_len + k)
<1>1. out \in Index /\ kfifo_len \in Nat
  BY UnusedIsRoom, WideIndex DEF IInv, TypeOK
<1> QED
  BY <1>1, InFromOut, PlusPlus DEF At

(* What a writer has in hand fits behind the elements, and what a reader    *)
(* has in hand is among them.                                               *)
LEMMA Claims ==
    ASSUME IInv
    PROVE  /\ kfifo_len \in 0..Size /\ Size \in Nat
           /\ \A w \in Writers : /\ wdone[w] \in Nat /\ Len(src[w]) \in Nat
                                 /\ wdone[w] <= Len(src[w])
                                 /\ kfifo_len + Len(src[w]) <= Size
           /\ \A r \in Readers : /\ Len(dst[r]) \in Nat /\ rlen[r] \in Nat
                                 /\ Len(dst[r]) <= rlen[r] /\ rlen[r] <= kfifo_len
<1>1. kfifo_len \in 0..Size /\ Size \in Nat /\ kfifo_unused = Size - kfifo_len
  BY UnusedIsRoom, WideIndex DEF IInv, TypeOK
<1>2. ASSUME NEW w \in Writers
      PROVE  /\ wdone[w] \in Nat /\ Len(src[w]) \in Nat /\ wdone[w] <= Len(src[w])
             /\ kfifo_len + Len(src[w]) <= Size
  <2>1. wdone[w] \in Nat /\ Len(src[w]) \in Nat /\ wdone[w] <= Len(src[w])
    BY DEF IInv, TypeOK, Copying
  <2>2. CASE wpc[w] = "idle"
    BY <1>1, <2>1, <2>2 DEF IInv, Copying
  <2>3. CASE wpc[w] # "idle"
    BY <1>1, <2>1, <2>3 DEF IInv, ClaimsFit
  <2> QED
    BY <2>1, <2>2, <2>3
<1>3. ASSUME NEW r \in Readers
      PROVE  /\ Len(dst[r]) \in Nat /\ rlen[r] \in Nat
             /\ Len(dst[r]) <= rlen[r] /\ rlen[r] <= kfifo_len
  BY <1>1 DEF IInv, TypeOK, Copying, ClaimsFit
<1> QED
  BY <1>1, <1>2, <1>3

LEMMA InitRInv == Init => RInv
<1> SUFFICES ASSUME Init PROVE RInv
  OBVIOUS
<1>1. IInv
  BY InitIInv
<1>2. kfifo_len = 0
  BY <1>1, EqualIndices DEF Init, IInv, TypeOK, kfifo_len
<1> QED
  BY <1>1, <1>2 DEF Init, RInv, Filled, CopiedIn, CopiedOut

LEMMA SameSlots ==
    ASSUME UNCHANGED fifo
    PROVE  kfifo_len' = kfifo_len /\ \A k : At(k)' = At(k)
BY DEF kfifo_len, At

LEMMA StartInRInv ==
    ASSUME RInv, IInv', NEW w \in Writers, NEW buf \in Seq(Values),
           NEW label \in {"copy", "transfer"}, StartIn(w, buf, label)
    PROVE  RInv'
<1>1. Filled' /\ CopiedOut'
  BY DEF RInv, Filled, CopiedOut, StartIn, kfifo_len, At
<1>2. CopiedIn'
  <2>1. wdone' = [wdone EXCEPT ![w] = 0] /\ src' = [src EXCEPT ![w] = buf]
    BY DEF StartIn
  <2>2. UNCHANGED <<in, out, data>>
    BY DEF StartIn
  <2>3. ASSUME NEW v \in Writers, NEW i \in 1..wdone'[v]
        PROVE  data[At(kfifo_len + i - 1)] = src'[v][i]
    BY <2>1 DEF RInv, IInv, TypeOK, CopiedIn
  <2> QED
    BY <2>2, <2>3 DEF CopiedIn, kfifo_len, At
<1> QED
  BY <1>1, <1>2 DEF RInv

(* Nobody else is writing while w is.                                       *)
LEMMA OtherWriters ==
    ASSUME IInv, NEW w \in Writers, wpc[w] # "idle", NEW v \in Writers, v # w
    PROVE  wpc[v] = "idle" /\ src[v] = <<>> /\ wdone[v] = 0
<1>1. wpc[v] = "idle"
  BY DEF IInv, Exclusive
<1> QED
  BY <1>1, EmptySeq DEF IInv, TypeOK, Copying

LEMMA IdleReaders ==
    ASSUME IInv, NEW r \in Readers, rpc[r] = "idle"
    PROVE  dst[r] = <<>>
<1>1. dst[r] \in Seq(Values \cup {NONE}) /\ Len(dst[r]) = 0
  BY DEF IInv, TypeOK, Copying
<1> QED
  BY <1>1, EmptySeq

LEMMA CopyInRInv ==
    ASSUME RInv, IInv', NEW w \in Writers, kfifo_copy_in(w)
    PROVE  /\ RInv'
           /\ \A k \in 0..(kfifo_len - 1) : data'[At(k)] = data[At(k)]
<1> DEFINE here == kfifo_len + wdone[w]
<1>1. /\ kfifo_len \in 0..Size /\ Size \in Nat /\ wdone[w] \in Nat
      /\ here \in 0..(Size - 1) /\ wpc[w] # "idle"
  BY Claims DEF RInv, kfifo_copy_in
<1>2. data \in [0..(Size - 1) -> Values \cup {NONE}] /\ IInv
  BY DEF RInv, IInv, TypeOK
<1>3. data' = [data EXCEPT ![At(here)] = src[w][wdone[w] + 1]]
  <2>1. Slot(Plus(in, wdone[w])) = At(here)
    BY <1>1, <1>2, InAt
  <2> QED
    BY <2>1 DEF kfifo_copy_in
<1>4. /\ data'[At(here)] = src[w][wdone[w] + 1]
      /\ \A k \in 0..(Size - 1) : k # here => data'[At(k)] = data[At(k)]
  <2>1. At(here) \in 0..(Size - 1)
    BY <1>1, <1>2, AtSlot
  <2>2. ASSUME NEW k \in 0..(Size - 1), k # here
        PROVE  data'[At(k)] = data[At(k)]
    <3>1. At(k) # At(here)
      BY <1>1, <1>2, <2>2, AtDistinct
    <3>2. At(k) \in 0..(Size - 1)
      BY <1>1, <1>2, AtSlot
    <3> QED
      BY <1>2, <1>3, <3>1, <3>2
  <2> QED
    BY <1>2, <1>3, <2>1, <2>2
<1> HIDE DEF here
<1>5. \A k \in 0..(kfifo_len - 1) : data'[At(k)] = data[At(k)]
  BY <1>1, <1>4 DEF here
<1>6. kfifo_len' = kfifo_len /\ (\A k : At(k)' = At(k)) /\ src' = src /\ dst' = dst
  BY DEF kfifo_copy_in, kfifo_len, At
<1>7. Filled'
  BY <1>5, <1>6 DEF RInv, Filled
<1>8. CopiedOut'
  <2> SUFFICES ASSUME NEW r \in Readers, NEW i \in 1..Len(dst[r])
               PROVE  data'[At(i - 1)] = dst[r][i]
    BY <1>6 DEF CopiedOut
  <2>1. i - 1 \in 0..(kfifo_len - 1)
    BY <1>1, <1>2, Claims
  <2> QED
    BY <1>5, <2>1 DEF RInv, CopiedOut
<1>9. CopiedIn'
  <2>1. wdone' = [wdone EXCEPT ![w] = @ + 1] /\ wdone \in [Writers -> Nat]
    BY DEF RInv, IInv, TypeOK, kfifo_copy_in
  <2> SUFFICES ASSUME NEW v \in Writers, NEW i \in 1..wdone'[v]
               PROVE  data'[At(kfifo_len + i - 1)] = src[v][i]
    BY <1>6 DEF CopiedIn
  <2>2. v = w
    BY <1>1, <1>2, <2>1, OtherWriters
  <2>3. CASE i = wdone[w] + 1
    <3>1. kfifo_len + i - 1 = here
      BY <1>1, <2>3 DEF here
    <3> QED
      BY <1>4, <2>2, <2>3, <3>1
  <2>4. CASE i # wdone[w] + 1
    <3>1. i \in 1..wdone[w]
      BY <1>1, <2>1, <2>2, <2>4
    <3>2. kfifo_len + i - 1 \in 0..(Size - 1) /\ kfifo_len + i - 1 # here
      BY <1>1, <3>1 DEF here
    <3> QED
      BY <1>4, <2>2, <3>1, <3>2 DEF RInv, CopiedIn
  <2> QED
    BY <2>3, <2>4
<1> QED
  BY <1>5, <1>7, <1>8, <1>9 DEF RInv

LEMMA StopInRInv ==
    ASSUME RInv, IInv', NEW w \in Writers, StopIn(w)
    PROVE  RInv'
<1>1. Filled' /\ CopiedOut'
  BY DEF RInv, Filled, CopiedOut, StopIn, kfifo_len, At
<1>2. CopiedIn'
  <2>1. /\ src' = [src EXCEPT ![w] = SubSeq(src[w], 1, wdone[w])]
        /\ data' = data /\ wdone' = wdone /\ kfifo_len' = kfifo_len /\ \A k : At(k)' = At(k)
    BY DEF StopIn, kfifo_len, At
  <2>2. ASSUME NEW v \in Writers, NEW i \in 1..wdone[v]
        PROVE  src'[v][i] = src[v][i]
    <3>1. CASE v = w
      <4>1. \A j \in 1..wdone[w] : src[w][j] \in Values
        BY DEF RInv, IInv, TypeOK, Copying
      <4>2. wdone[w] \in Nat
        BY DEF RInv, IInv, TypeOK
      <4>3. SubSeq(src[w], 1, wdone[w])[i] = src[w][i]
        BY <3>1, <4>1, <4>2, SubSeqProperties
      <4> QED
        BY <2>1, <3>1, <4>3 DEF RInv, IInv, TypeOK
    <3>2. CASE v # w
      BY <2>1, <3>2 DEF RInv, IInv, TypeOK
    <3> QED
      BY <3>1, <3>2
  <2>3. ASSUME NEW v \in Writers, NEW i \in 1..wdone[v]
        PROVE  data[At(kfifo_len + i - 1)] = src[v][i]
    BY DEF RInv, CopiedIn
  <2>4. \A v \in Writers : \A i \in 1..wdone[v] : data'[At(kfifo_len + i - 1)'] = src'[v][i]
    <3>1. ASSUME NEW v \in Writers, NEW i \in 1..wdone[v]
          PROVE  At(kfifo_len + i - 1)' = At(kfifo_len + i - 1)
      BY <2>1
    <3> QED
      BY <2>1, <2>2, <2>3, <3>1
  <2> QED
    BY <2>1, <2>4 DEF CopiedIn
<1> QED
  BY <1>1, <1>2 DEF RInv

LEMMA PublishInRInv ==
    ASSUME RInv, IInv', NEW w \in Writers, PublishIn(w)
    PROVE  RInv' /\ kfifo_len' = kfifo_len + Len(src[w])
<1>1. /\ kfifo_len \in 0..Size /\ Size \in Nat /\ wdone[w] = Len(src[w])
      /\ Len(src[w]) \in Nat /\ kfifo_len + Len(src[w]) <= Size
      /\ in \in Index /\ out \in Index /\ wpc[w] # "idle" /\ IInv
  <2>1. IInv /\ wdone[w] = Len(src[w]) /\ wpc[w] # "idle"
    BY DEF RInv, PublishIn
  <2>2. in \in Index /\ out \in Index
    BY <2>1 DEF IInv, TypeOK
  <2> QED
    BY <2>1, <2>2, Claims
<1>2. /\ kfifo_len' = kfifo_len + Len(src[w])
      /\ (\A k : At(k)' = At(k)) /\ data' = data /\ dst' = dst
  <2>1. in' = Plus(in, Len(src[w])) /\ out' = out /\ data' = data /\ dst' = dst
    BY <1>1 DEF PublishIn
  <2>2. Minus(in, out) + Len(src[w]) <= Size
    BY <1>1 DEF kfifo_len
  <2>3. kfifo_len' = kfifo_len + Len(src[w])
    BY <1>1, <2>1, <2>2, MinusOfAdvancedIn DEF kfifo_len
  <2> QED
    BY <2>1, <2>3 DEF At
<1>3. Filled'
  <2>1. ASSUME NEW k \in 0..(kfifo_len + Len(src[w]) - 1)
        PROVE  data[At(k)] \in Values
    <3>1. CASE k < kfifo_len
      BY <1>1, <3>1 DEF RInv, Filled
    <3>2. CASE k >= kfifo_len
      <4> DEFINE i == k - kfifo_len + 1
      <4>1. i \in 1..wdone[w] /\ kfifo_len + i - 1 = k
        BY <1>1, <3>2
      <4>2. src[w][i] \in Values
        BY <1>1, <4>1 DEF IInv, TypeOK
      <4>3. data[At(kfifo_len + i - 1)] = src[w][i]
        BY <4>1 DEF RInv, CopiedIn
      <4> QED
        BY <4>1, <4>2, <4>3
    <3> QED
      BY <1>1, <3>1, <3>2
  <2>2. \A k \in 0..(kfifo_len' - 1) : data'[At(k)'] \in Values
    BY <1>1, <1>2, <2>1
  <2> QED
    BY <2>2 DEF Filled
<1>4. CopiedOut'
  BY <1>2 DEF RInv, CopiedOut
<1>5. CopiedIn'
  <2>1. \A v \in Writers : wdone'[v] = 0
    BY <1>1, OtherWriters DEF IInv, TypeOK, PublishIn
  <2> QED
    BY <2>1 DEF CopiedIn
<1> QED
  BY <1>2, <1>3, <1>4, <1>5 DEF RInv

LEMMA StartOutRInv ==
    ASSUME RInv, IInv', NEW r \in Readers, NEW n \in Nat, NEW label, StartOut(r, n, label)
    PROVE  RInv'
BY DEF RInv, Filled, CopiedIn, CopiedOut, StartOut, kfifo_len, At

LEMMA StopOutRInv ==
    ASSUME RInv, IInv', NEW r \in Readers, StopOut(r)
    PROVE  RInv'
BY DEF RInv, Filled, CopiedIn, CopiedOut, StopOut, kfifo_len, At

LEMMA CopyOutRInv ==
    ASSUME RInv, IInv', NEW r \in Readers, kfifo_copy_out(r)
    PROVE  RInv' /\ dst'[r] = Append(dst[r], data[At(Len(dst[r]))])
<1>1. Filled' /\ CopiedIn'
  BY DEF RInv, Filled, CopiedIn, kfifo_copy_out, kfifo_len, At
<1>2. /\ dst' = [dst EXCEPT ![r] = Append(dst[r], data[At(Len(dst[r]))])]
      /\ dst \in [Readers -> Seq(Values \cup {NONE})]
      /\ UNCHANGED <<in, out, data>>
  BY DEF RInv, IInv, TypeOK, kfifo_copy_out, At
<1>3. data[At(Len(dst[r]))] \in Values
  <2>1. Len(dst[r]) \in 0..(kfifo_len - 1)
    BY Claims DEF RInv, kfifo_copy_out
  <2> QED
    BY <2>1 DEF RInv, Filled
<1>4. /\ Len(dst'[r]) = Len(dst[r]) + 1 /\ Len(dst[r]) \in Nat
      /\ dst'[r][Len(dst[r]) + 1] = data[At(Len(dst[r]))]
      /\ \A i \in 1..Len(dst[r]) : dst'[r][i] = dst[r][i]
  BY <1>2, <1>3, AppendProperties
<1>5. CopiedOut'
  <2> SUFFICES ASSUME NEW q \in Readers, NEW i \in 1..Len(dst'[q])
               PROVE  data[At(i - 1)] = dst'[q][i]
    BY <1>2 DEF CopiedOut, At
  <2>1. CASE q # r
    BY <1>2, <2>1 DEF RInv, CopiedOut
  <2>2. CASE q = r /\ i = Len(dst[r]) + 1
    BY <1>4, <2>2
  <2>3. CASE q = r /\ i # Len(dst[r]) + 1
    <3>1. i \in 1..Len(dst[r])
      BY <1>4, <2>3
    <3>2. data[At(i - 1)] = dst[r][i]
      BY <3>1 DEF RInv, CopiedOut
    <3> QED
      BY <1>4, <2>3, <3>1, <3>2
  <2> QED
    BY <2>1, <2>2, <2>3
<1> QED
  BY <1>1, <1>2, <1>5 DEF RInv
(* A whole number of elements leaves at out, and nobody has any in hand.    *)
LEMMA OutAdvancesRInv ==
    ASSUME RInv, IInv', NEW k \in Nat, k <= kfifo_len, out' = Plus(out, k),
           UNCHANGED <<in, data, src, wdone>>, \A r \in Readers : dst'[r] = <<>>
    PROVE  /\ RInv' /\ kfifo_len' = kfifo_len - k
           /\ \A j \in 0..(kfifo_len - k) : At(j)' = At(k + j)
<1>1. /\ IInv /\ kfifo_len \in 0..Size /\ Size \in Nat /\ out \in Index /\ kfifo_len' = kfifo_len - k
  <2>1. IInv
    BY DEF RInv
  <2>2. kfifo_len' = kfifo_len - k
    BY <2>1, OutAdvances
  <2>3. out \in Index
    BY <2>1 DEF IInv, TypeOK
  <2> QED
    BY <2>1, <2>2, <2>3, Claims
<1>2. ASSUME NEW j \in Nat, k + j <= Size
      PROVE  At(j)' = At(k + j)
  <2>1. Plus(Plus(out, k), j) = Plus(out, k + j)
    BY <1>1, <1>2, PlusPlus
  <2> QED
    BY <2>1 DEF At
<1>3. Filled'
  <2>1. ASSUME NEW j \in 0..(kfifo_len' - 1)
        PROVE  data'[At(j)'] \in Values
    <3>1. k + j \in 0..(kfifo_len - 1) /\ j \in Nat /\ k + j <= Size
      BY <1>1
    <3>2. data[At(k + j)] \in Values
      BY <3>1 DEF RInv, Filled
    <3> QED
      BY <1>2, <3>1, <3>2
  <2> QED
    BY <2>1 DEF Filled
<1>4. CopiedIn'
  <2>1. ASSUME NEW w \in Writers, NEW i \in 1..wdone'[w]
        PROVE  (data[At(kfifo_len + i - 1)] = src[w][i])'
    <3>1. i \in 1..wdone[w] /\ kfifo_len + wdone[w] <= Size /\ wdone[w] \in Nat
      BY <1>1, Claims
    <3>2. PICK j \in Nat : j = kfifo_len - k + i - 1
      BY <1>1, <3>1
    <3>3. k + j <= Size /\ k + j = kfifo_len + i - 1 /\ j = kfifo_len' + i - 1
      BY <1>1, <3>1, <3>2
    <3>4. At(j)' = At(kfifo_len + i - 1)
      BY <1>2, <3>3
    <3>5. data[At(kfifo_len + i - 1)] = src[w][i]
      BY <3>1 DEF RInv, CopiedIn
    <3>6. At(j)' = At(kfifo_len + i - 1)'
      BY <3>3 DEF At
    <3> QED
      BY <3>4, <3>5, <3>6
  <2> QED
    BY <2>1 DEF CopiedIn
<1>5. CopiedOut'
  <2>1. \A r \in Readers : Len(dst'[r]) = 0
    OBVIOUS
  <2> QED
    BY <2>1 DEF CopiedOut
<1> QED
  BY <1>1, <1>2, <1>3, <1>4, <1>5 DEF RInv

LEMMA PublishOutRInv ==
    ASSUME RInv, IInv', NEW r \in Readers, PublishOut(r)
    PROVE  RInv'
<1>1. IInv
  BY DEF RInv
<1>2. \A q \in Readers : dst'[q] = <<>>
  <2>1. dst' = [dst EXCEPT ![r] = <<>>] /\ rpc[r] # "idle" /\ dst \in [Readers -> Seq(Values \cup {NONE})]
    BY <1>1 DEF PublishOut, IInv, TypeOK
  <2>2. \A q \in Readers \ {r} : rpc[q] = "idle"
    BY <1>1, <2>1 DEF IInv, Exclusive
  <2> QED
    BY <1>1, <2>1, <2>2, IdleReaders
<1> DEFINE k == IF rpc[r] = "peek" THEN 0 ELSE rlen[r]
<1>3. k \in Nat /\ k <= kfifo_len /\ out \in Index
  BY <1>1, Claims DEF IInv, TypeOK
<1>4. out' = Plus(out, k)
  BY <1>3, WideIndex DEF PublishOut, Plus, Index
<1> HIDE DEF k
<1> QED
  BY <1>2, <1>3, <1>4, OutAdvancesRInv DEF PublishOut

(* Resetting the out side, and skipping.                                    *)
LEMMA DiscardRInv ==
    ASSUME RInv, NEW r \in Readers, kfifo_reset_out(r) \/ kfifo_skip(r)
    PROVE  /\ \A q \in Readers : rpc[q] = "idle" /\ dst[q] = <<>>
           /\ \E k \in 0..kfifo_len : out' = Plus(out, k)
<1>1. IInv
  BY DEF RInv
<1>2. \A q \in Readers : rpc[q] = "idle" /\ dst[q] = <<>>
  BY <1>1, ExclusiveReader, IdleReaders DEF kfifo_reset_out, kfifo_skip
<1>3. CASE kfifo_reset_out(r)
  <2>1. out' = Plus(out, kfifo_len) /\ kfifo_len \in 0..kfifo_len
    BY <1>1, <1>3, InFromOut, Claims DEF kfifo_reset_out
  <2> QED
    BY <1>2, <2>1
<1>4. CASE kfifo_skip(r)
  <2>1. 1 <= kfifo_len
    BY <1>1, <1>4, WideIndex
    DEF IInv, TypeOK, kfifo_skip, kfifo_is_empty, kfifo_len, Minus, Index
  <2>2. out' = Plus(out, 1) /\ 1 \in 0..kfifo_len
    BY <1>1, <1>4, <2>1, Claims DEF kfifo_skip
  <2> QED
    BY <1>2, <2>2
<1> QED
  BY <1>3, <1>4

LEMMA ResetRInv ==
    ASSUME RInv, IInv', kfifo_reset
    PROVE  /\ RInv' /\ kfifo_len' = 0
           /\ \A q \in Readers : dst[q] = <<>>
<1>1. IInv
  BY DEF RInv
<1>2. (\A r \in Readers : dst[r] = <<>>) /\ dst' = dst
  BY <1>1, IdleReaders DEF kfifo_reset
<1>3. (\A w \in Writers : wdone[w] = 0) /\ wdone' = wdone
  <2>1. ASSUME NEW w \in Writers
        PROVE  wdone[w] = 0
    <3>1. src[w] = <<>> /\ wdone[w] \in Nat /\ wdone[w] <= Len(src[w])
      BY <1>1 DEF kfifo_reset, IInv, TypeOK, Copying
    <3> QED
      BY <3>1
  <2> QED
    BY <2>1 DEF kfifo_reset
<1>4. kfifo_len' = 0
  BY DEF kfifo_reset, kfifo_len, Minus
<1>5. Filled'
  BY <1>4 DEF Filled
<1>6. CopiedIn' /\ CopiedOut'
  BY <1>2, <1>3 DEF CopiedIn, CopiedOut
<1> QED
  BY <1>2, <1>4, <1>5, <1>6 DEF RInv

(* Every step keeps RInv.                                                   *)
LEMMA StepRInv == RInv /\ [Next]_vars => RInv'
<1> SUFFICES ASSUME RInv, [Next]_vars PROVE RInv'
  OBVIOUS
<1>1. IInv /\ IInv'
  BY StepIInv DEF RInv
<1>2. CASE \E w \in Writers : WriterStep(w)
  BY <1>1, <1>2, WriterSteps, StartInRInv, CopyInRInv, StopInRInv, PublishInRInv
<1>3. ASSUME NEW r \in Readers, kfifo_reset_out(r) \/ kfifo_skip(r)
      PROVE  RInv'
  <2>1. PICK k \in 0..kfifo_len : out' = Plus(out, k)
    BY <1>3, DiscardRInv
  <2>2. k \in Nat /\ k <= kfifo_len
    BY <1>1, <2>1, Claims
  <2>3. (\A q \in Readers : dst'[q] = <<>>) /\ UNCHANGED <<in, data, src, wdone>>
    BY <1>3, DiscardRInv DEF kfifo_reset_out, kfifo_skip
  <2> QED
    BY <1>1, <2>1, <2>2, <2>3, OutAdvancesRInv
<1>4. CASE \E r \in Readers : ReaderStep(r)
  BY <1>1, <1>3, <1>4, ReaderSteps, StartOutRInv, CopyOutRInv, StopOutRInv, PublishOutRInv
<1>5. CASE kfifo_reset
  BY <1>1, <1>5, ResetRInv
<1>6. CASE UNCHANGED vars
  BY <1>1, <1>6 DEF vars, RInv, Filled, CopiedIn, CopiedOut, kfifo_len, At
<1> QED
  BY <1>2, <1>4, <1>5, <1>6 DEF Next

LEMMA InvariantRInv == Spec => []RInv
<1> QED
  BY InitRInv, StepRInv, PTL DEF Spec

----------------------------------------------------------------------------
(* Every step is one of the promise's, or changes nothing it speaks of.     *)

ContentsOfSlots ==
    /\ Contents \in Seq(Values) /\ Len(Contents) = kfifo_len
    /\ \A i \in 1..kfifo_len : Contents[i] = data[At(i - 1)]

LEMMA ContentsSlots == RInv => ContentsOfSlots
<1> SUFFICES ASSUME RInv PROVE ContentsOfSlots
  OBVIOUS
<1>1. kfifo_len \in Nat
  BY Claims DEF RInv
<1>2. Contents = [i \in 1..kfifo_len |-> data[At(i - 1)]]
  BY DEF Contents, At
<1>3. \A i \in 1..kfifo_len : data[At(i - 1)] \in Values
  BY <1>1 DEF RInv, Filled
<1>4. Contents \in [1..kfifo_len -> Values]
  BY <1>2, <1>3
<1>5. Contents \in Seq(Values) /\ Len(Contents) = kfifo_len
  BY <1>1, <1>4
<1> QED
  BY <1>2, <1>5 DEF ContentsOfSlots

LEMMA ContentsSlotsNext == RInv' => ContentsOfSlots'
BY ContentsSlots, PTL

LEMMA SameContents ==
    ASSUME UNCHANGED fifo
    PROVE  Contents' = Contents
BY DEF Contents, kfifo_len

LEMMA InitPromise == Init => F!PromiseInit
<1> SUFFICES ASSUME Init PROVE Contents = <<>>
  BY DEF Init, F!PromiseInit
<1>1. ContentsOfSlots /\ kfifo_len = 0
  BY InitRInv, ContentsSlots, WideIndex, EqualIndices DEF Init, kfifo_len, Index
<1> QED
  BY <1>1, EmptySeq DEF ContentsOfSlots

LEMMA StartInOffers ==
    ASSUME RInv, NEW w \in Writers, NEW buf \in Seq(Values), Len(buf) <= kfifo_unused,
           NEW label, StartIn(w, buf, label)
    PROVE  F!Offer(w) \/ UNCHANGED F!fvars
<1>1. /\ IInv /\ Contents' = Contents /\ dst' = dst
      /\ src' = [src EXCEPT ![w] = buf] /\ src[w] = <<>>
      /\ src \in [Writers -> Seq(Values)]
  BY SameContents DEF RInv, IInv, TypeOK, Copying, StartIn
<1>2. Len(Contents) = kfifo_len /\ kfifo_unused = Size - kfifo_len
  BY <1>1, ContentsSlots, UnusedIsRoom DEF ContentsOfSlots, IInv, TypeOK
<1>3. CASE buf = <<>>
  <2>1. src' = src
    BY <1>1, <1>3
  <2> QED
    BY <1>1, <2>1 DEF F!fvars
<1>4. CASE buf # <<>>
  <2>1. Len(buf) \in 1..(Size - Len(Contents))
    <3>1. Len(buf) \in Nat /\ Len(buf) # 0
      BY <1>4, EmptySeq
    <3>2. kfifo_len \in 0..Size /\ Size \in Nat
      BY <1>1, Claims
    <3> QED
      BY <1>2, <3>1, <3>2
  <2>2. src'[w] = buf
    BY <1>1
  <2> QED
    BY <1>1, <2>1, <2>2 DEF F!Offer, F!Room
<1> QED
  BY <1>3, <1>4

LEMMA CopyInStutters ==
    ASSUME RInv, IInv', NEW w \in Writers, kfifo_copy_in(w)
    PROVE  UNCHANGED F!fvars
<1>1. RInv' /\ \A k \in 0..(kfifo_len - 1) : data'[At(k)] = data[At(k)]
  BY CopyInRInv
<1>2. kfifo_len' = kfifo_len /\ (\A k : At(k)' = At(k)) /\ src' = src /\ dst' = dst
  BY DEF kfifo_copy_in, kfifo_len, At
<1>3. ContentsOfSlots /\ ContentsOfSlots'
  BY <1>1, ContentsSlots, ContentsSlotsNext
<1>4. kfifo_len \in Nat
  BY Claims DEF RInv
<1>5. ASSUME NEW i \in 1..kfifo_len
      PROVE  Contents'[i] = Contents[i]
  <2>1. Contents'[i] = data'[At(i - 1)]
    BY <1>2, <1>3 DEF ContentsOfSlots
  <2>2. Contents[i] = data[At(i - 1)] /\ i - 1 \in 0..(kfifo_len - 1)
    BY <1>3, <1>4 DEF ContentsOfSlots
  <2> QED
    BY <1>1, <2>1, <2>2
<1>6. /\ Contents \in Seq(Values) /\ Len(Contents) = kfifo_len
      /\ Contents' \in Seq(Values) /\ Len(Contents') = kfifo_len
  BY <1>2, <1>3 DEF ContentsOfSlots
<1>7. Contents' = Contents
  BY <1>5, <1>6, SeqEqual
<1> QED
  BY <1>2, <1>7 DEF F!fvars

LEMMA StopInShortens ==
    ASSUME RInv, NEW w \in Writers, StopIn(w)
    PROVE  F!Shorten(w)
<1>1. wdone[w] \in 0..Len(src[w])
  BY Claims DEF RInv
<1> QED
  BY <1>1, SameContents DEF StopIn, F!Shorten

LEMMA PublishInPuts ==
    ASSUME RInv, IInv', NEW w \in Writers, PublishIn(w)
    PROVE  F!Put(w)
<1> DEFINE n == Len(src[w])
           s == Contents \o src[w]
<1>1. /\ IInv /\ kfifo_len \in 0..Size /\ Size \in Nat /\ n \in Nat /\ wdone[w] = n
      /\ kfifo_len + n <= Size /\ src[w] \in Seq(Values)
  <2>1. IInv /\ wdone[w] = n
    BY DEF RInv, PublishIn
  <2> QED
    BY <2>1, Claims DEF IInv, TypeOK
<1>2. RInv' /\ kfifo_len' = kfifo_len + n /\ data' = data /\ \A k : At(k)' = At(k)
  BY PublishInRInv DEF PublishIn, At
<1>3. ContentsOfSlots /\ ContentsOfSlots'
  BY <1>2, ContentsSlots, ContentsSlotsNext
<1>4. /\ Contents \in Seq(Values) /\ Len(Contents) = kfifo_len
      /\ Contents' \in Seq(Values) /\ Len(Contents') = kfifo_len + n
      /\ \A i \in 1..(kfifo_len + n) : Contents'[i] = data[At(i - 1)]
  BY <1>2, <1>3 DEF ContentsOfSlots
<1>5. /\ s \in Seq(Values) /\ Len(s) = kfifo_len + n
      /\ \A i \in 1..(kfifo_len + n) :
            s[i] = IF i <= kfifo_len THEN Contents[i] ELSE src[w][i - kfifo_len]
  <2>1. \A c, d \in Seq(Values) :
           /\ c \o d \in Seq(Values) /\ Len(c \o d) = Len(c) + Len(d)
           /\ \A i \in 1..(Len(c) + Len(d)) :
                 (c \o d)[i] = IF i <= Len(c) THEN c[i] ELSE d[i - Len(c)]
    BY ConcatProperties
  <2> QED
    BY <1>1, <1>4, <2>1
<1> HIDE DEF s
<1>6. ASSUME NEW i \in 1..(kfifo_len + n)
      PROVE  Contents'[i] = s[i]
  <2>1. CASE i <= kfifo_len
    <3>1. i \in 1..kfifo_len
      BY <1>1, <2>1
    <3> QED
      BY <1>3, <1>4, <1>5, <2>1, <3>1 DEF ContentsOfSlots
  <2>2. CASE i > kfifo_len
    <3>1. PICK j \in 1..n : j = i - kfifo_len
      BY <1>1, <2>2
    <3>2. data[At(kfifo_len + j - 1)] = src[w][j]
      BY <1>1, <3>1 DEF RInv, CopiedIn
    <3>3. kfifo_len + j - 1 = i - 1 /\ ~(i <= kfifo_len)
      BY <1>1, <2>2, <3>1
    <3>4. s[i] = src[w][j]
      BY <1>5, <3>1, <3>3
    <3> QED
      BY <1>4, <3>2, <3>3, <3>4
  <2> QED
    BY <1>1, <2>1, <2>2
<1>7. Contents' = s
  BY <1>4, <1>5, <1>6, SeqEqual
<1>8. n <= Size - Len(Contents)
  BY <1>1, <1>4
<1> QED
  BY <1>7, <1>8 DEF PublishIn, F!Put, F!Room, s

LEMMA CopyOutPicks ==
    ASSUME RInv, NEW r \in Readers, kfifo_copy_out(r)
    PROVE  F!Pick(r)
<1> DEFINE n == Len(dst[r])
           s == Append(dst[r], data[At(n)])
           t == SubSeq(Contents, 1, n + 1)
<1>1. IInv /\ ContentsOfSlots
  BY ContentsSlots DEF RInv
<1>2. n \in Nat /\ n < kfifo_len /\ kfifo_len \in Nat
  BY <1>1, Claims DEF kfifo_copy_out
<1>3. data[At(n)] \in Values
  BY <1>2 DEF RInv, Filled
<1>4. dst[r] \in Seq(Values \cup {NONE})
  BY <1>1 DEF IInv, TypeOK
<1>5. /\ s \in Seq(Values \cup {NONE}) /\ Len(s) = n + 1 /\ s[n + 1] = data[At(n)]
      /\ \A i \in 1..n : s[i] = dst[r][i]
  BY <1>3, <1>4, AppendProperties
<1>6. /\ Contents \in Seq(Values) /\ Len(Contents) = kfifo_len
      /\ \A i \in 1..kfifo_len : Contents[i] = data[At(i - 1)]
  BY <1>1 DEF ContentsOfSlots
<1>7. /\ t \in Seq(Values) /\ Len(t) = n + 1
      /\ \A i \in 1..(n + 1) : t[i] = Contents[i]
  BY <1>2, <1>6, SubSeqProperties
<1> HIDE DEF s, t
<1>8. ASSUME NEW i \in 1..(n + 1)
      PROVE  s[i] = t[i]
  <2>1. t[i] = data[At(i - 1)]
    BY <1>2, <1>6, <1>7
  <2>2. CASE i = n + 1
    BY <1>2, <1>5, <2>1, <2>2
  <2>3. CASE i # n + 1
    <3>1. i \in 1..n
      BY <1>2, <2>3
    <3> QED
      BY <1>5, <2>1, <3>1 DEF RInv, CopiedOut
  <2> QED
    BY <2>2, <2>3
<1>9. s = t
  <2>1. t \in Seq(Values \cup {NONE})
    BY <1>7
  <2> QED
    BY <1>5, <1>7, <1>8, <2>1, SeqEqual
<1>10. dst' = [dst EXCEPT ![r] = s] /\ Contents' = Contents /\ src' = src
  BY SameContents DEF kfifo_copy_out, At, s
<1> QED
  BY <1>2, <1>6, <1>9, <1>10 DEF F!Pick, t

(* What is left is the rest of what was there.                              *)
LEMMA OutAdvancesContents ==
    ASSUME RInv, IInv', NEW k \in Nat, k <= kfifo_len, out' = Plus(out, k),
           UNCHANGED <<in, data, src, wdone>>, \A r \in Readers : dst'[r] = <<>>
    PROVE  Contents' = SubSeq(Contents, k + 1, Len(Contents))
<1> DEFINE t == SubSeq(Contents, k + 1, Len(Contents))
<1>1. /\ RInv' /\ kfifo_len' = kfifo_len - k
      /\ \A j \in 0..(kfifo_len - k) : At(j)' = At(k + j)
  BY OutAdvancesRInv
<1>2. ContentsOfSlots /\ ContentsOfSlots' /\ kfifo_len \in Nat
  BY <1>1, ContentsSlots, ContentsSlotsNext, Claims DEF RInv
<1>3. /\ Contents \in Seq(Values) /\ Len(Contents) = kfifo_len
      /\ \A i \in 1..kfifo_len : Contents[i] = data[At(i - 1)]
      /\ Contents' \in Seq(Values) /\ Len(Contents') = kfifo_len - k
      /\ \A i \in 1..(kfifo_len - k) : Contents'[i] = data[At(i - 1)']
  BY <1>1, <1>2 DEF ContentsOfSlots
<1>4. /\ t \in Seq(Values) /\ Len(t) = kfifo_len - k
      /\ \A i \in 1..(kfifo_len - k) : t[i] = Contents[k + i]
  <2>1. k + 1 \in 1..(kfifo_len + 1)
    BY <1>2
  <2>2. /\ SubSeq(Contents, k + 1, kfifo_len) \in Seq(Values)
        /\ Len(SubSeq(Contents, k + 1, kfifo_len)) = kfifo_len - k
        /\ \A i \in 1..(kfifo_len - k) :
              SubSeq(Contents, k + 1, kfifo_len)[i] = Contents[k + i]
    BY <1>2, <1>3, <2>1, SubSeqProperties
  <2> QED
    BY <1>3, <2>2
<1> HIDE DEF t
<1>5. ASSUME NEW i \in 1..(kfifo_len - k)
      PROVE  Contents'[i] = t[i]
  <2>1. i - 1 \in 0..(kfifo_len - k) /\ k + (i - 1) = (k + i) - 1 /\ k + i \in 1..kfifo_len
    BY <1>2
  <2>2. At(i - 1)' = At((k + i) - 1)
    BY <1>1, <2>1
  <2>3. Contents[k + i] = data[At((k + i) - 1)]
    BY <1>3, <2>1
  <2> QED
    BY <1>3, <1>4, <2>2, <2>3
<1>6. Contents' = t
  BY <1>3, <1>4, <1>5, SeqEqual
<1> QED
  BY <1>6 DEF t

LEMMA PublishOutTakes ==
    ASSUME RInv, IInv', NEW r \in Readers, PublishOut(r)
    PROVE  F!Take(r) \/ F!Leave(r)
<1>1. CASE rpc[r] = "peek"
  <2>1. Contents' = Contents /\ src' = src /\ dst' = [dst EXCEPT ![r] = <<>>]
    BY <1>1, SameContents DEF PublishOut
  <2> QED
    BY <2>1 DEF F!Leave
<1>2. CASE rpc[r] # "peek"
  <2>1. IInv
    BY DEF RInv
  <2>2. /\ dst' = [dst EXCEPT ![r] = <<>>] /\ rpc[r] # "idle"
        /\ dst \in [Readers -> Seq(Values \cup {NONE})]
    BY <2>1 DEF PublishOut, IInv, TypeOK
  <2>3. \A q \in Readers \ {r} : rpc[q] = "idle"
    BY <2>1, <2>2 DEF IInv, Exclusive
  <2>4. \A q \in Readers : dst'[q] = <<>>
    BY <2>1, <2>2, <2>3, IdleReaders
  <2>5. rlen[r] \in Nat /\ rlen[r] <= kfifo_len /\ rlen[r] = Len(dst[r])
    BY <2>1, Claims DEF PublishOut
  <2>6. out' = Plus(out, rlen[r])
    BY <1>2 DEF PublishOut
  <2>7. Contents' = SubSeq(Contents, rlen[r] + 1, Len(Contents))
    BY <2>4, <2>5, <2>6, OutAdvancesContents DEF PublishOut
  <2> QED
    BY <2>2, <2>5, <2>7 DEF F!Take, PublishOut
<1> QED
  BY <1>1, <1>2

LEMMA DropDiscards ==
    ASSUME RInv, IInv', NEW r \in Readers, kfifo_reset_out(r) \/ kfifo_skip(r)
    PROVE  F!Discard \/ UNCHANGED F!fvars
<1>1. PICK k \in 0..kfifo_len : out' = Plus(out, k)
  BY DiscardRInv
<1>2. /\ \A q \in Readers : dst[q] = <<>>
      /\ UNCHANGED <<in, data, src, dst, wdone>>
  BY DiscardRInv DEF kfifo_reset_out, kfifo_skip
<1>3. IInv /\ kfifo_len \in Nat /\ k \in Nat /\ k <= kfifo_len
  BY <1>1, Claims DEF RInv
<1>4. Contents' = SubSeq(Contents, k + 1, Len(Contents))
  BY <1>1, <1>2, <1>3, OutAdvancesContents
<1>5. CASE k = 0
  <2>1. out' = out
    BY <1>1, <1>3, <1>5, WideIndex DEF IInv, TypeOK, Plus, Index
  <2> QED
    BY <1>2, <2>1, SameContents DEF F!fvars
<1>6. CASE k # 0
  <2>1. k \in 1..Len(Contents)
    BY <1>3, <1>6, ContentsSlots DEF ContentsOfSlots
  <2> QED
    BY <1>2, <1>4, <2>1 DEF F!Discard
<1> QED
  BY <1>5, <1>6

LEMMA ResetDiscards ==
    ASSUME RInv, IInv', kfifo_reset
    PROVE  F!Discard \/ UNCHANGED F!fvars
<1>1. RInv' /\ kfifo_len' = 0 /\ (\A q \in Readers : dst[q] = <<>>) /\ UNCHANGED <<src, dst>>
  BY ResetRInv DEF kfifo_reset
<1>2. ContentsOfSlots /\ ContentsOfSlots'
  BY <1>1, ContentsSlots, ContentsSlotsNext
<1>3. Contents \in Seq(Values) /\ Contents' = <<>>
  BY <1>1, <1>2, EmptySeq DEF ContentsOfSlots
<1>4. CASE Contents = <<>>
  BY <1>1, <1>3, <1>4 DEF F!fvars
<1>5. CASE Contents # <<>>
  <2>1. Len(Contents) \in 1..Len(Contents)
    BY <1>3, <1>5, EmptySeq
  <2>2. SubSeq(Contents, Len(Contents) + 1, Len(Contents)) = <<>>
    BY <2>1, SubSeqEmpty
  <2> QED
    BY <1>1, <1>3, <2>1, <2>2 DEF F!Discard
<1> QED
  BY <1>4, <1>5

(* Elements come out in the order they went in, each once and whole, for    *)
(* any ring size, width of the indices and number of writers and readers:   *)
(* a kfifo implements the queue.                                            *)
THEOREM KfifoImplementsQueue == Spec => KeepsPromise
<1>1. RInv /\ [Next]_vars => [F!PromiseNext]_(F!fvars)
  <2> SUFFICES ASSUME RInv, [Next]_vars
               PROVE  F!PromiseNext \/ UNCHANGED F!fvars
    OBVIOUS
  <2>1. IInv /\ IInv'
    BY StepIInv DEF RInv
  <2>2. ASSUME NEW w \in Writers, WriterStep(w)
        PROVE  F!PromiseNext \/ UNCHANGED F!fvars
    BY <2>1, <2>2, WriterSteps, StartInOffers, CopyInStutters, StopInShortens, PublishInPuts
    DEF F!PromiseNext
  <2>3. ASSUME NEW r \in Readers, ReaderStep(r)
        PROVE  F!PromiseNext \/ UNCHANGED F!fvars
    <3>1. CASE (\E n \in Nat, label \in {"copy", "transfer", "peek"} : StartOut(r, n, label))
               \/ StopOut(r)
      BY <3>1, SameContents DEF StartOut, StopOut, F!fvars
    <3> QED
      BY <2>1, <2>3, <3>1, ReaderSteps, CopyOutPicks, PublishOutTakes, DropDiscards
      DEF F!PromiseNext
  <2>4. CASE UNCHANGED vars
    BY <2>4, SameContents DEF vars, F!fvars
  <2> QED
    BY <2>1, <2>2, <2>3, <2>4, ResetDiscards DEF Next, F!PromiseNext
<1> QED
  BY InitPromise, InvariantRInv, <1>1, PTL DEF Spec, KeepsPromise, F!Promise

----------------------------------------------------------------------------
(* Records: what KfifoRecProofs shows of KfifoRec holds of the instance.    *)

RP == INSTANCE KfifoRecProofs WITH
    in <- rec_in, out <- rec_out, data <- rec_data,
    wpc <- rec_wpc, rpc <- rec_rpc, rlen <- rec_rlen, n <- rec_n, dst <- rec_dst

LEMMA RecConstantsHold == RP!RecConstants
BY KfifoConstants, KfifosConstants DEF RP!RecConstants, RP!Byte

LEMMA SameRecInit == Rec!Init <=> RP!Init
BY DEF Rec!Init, RP!Init

LEMMA SameRecNext == Rec!Next <=> RP!Next
BY DEF Rec!ring, RP!ring, Rec!writer, RP!writer, Rec!reader, RP!reader, Rec!Byte,
       RP!Byte, Rec!Plus, RP!Plus, Rec!Minus, RP!Minus, Rec!Slot, RP!Slot,
       Rec!Least, RP!Least, Rec!kfifo_len, RP!kfifo_len, Rec!kfifo_unused,
       RP!kfifo_unused, Rec!MaxRecord, RP!MaxRecord, Rec!kfifo_max_r,
       RP!kfifo_max_r, Rec!Header, RP!Header, Rec!LengthAt, RP!LengthAt,
       Rec!kfifo_peek_n, RP!kfifo_peek_n, Rec!CopyIn, RP!CopyIn, Rec!CopyOut,
       RP!CopyOut, Rec!StartIn, RP!StartIn, Rec!Clamped, RP!Clamped, Rec!kfifo_in,
       RP!kfifo_in, Rec!kfifo_from_user, RP!kfifo_from_user,
       Rec!kfifo_dma_in_prepare, RP!kfifo_dma_in_prepare, Rec!Fill, RP!Fill,
       Rec!FaultIn, RP!FaultIn, Rec!DeviceFills, RP!DeviceFills,
       Rec!kfifo_dma_in_finish, RP!kfifo_dma_in_finish, Rec!PublishIn, RP!PublishIn,
       Rec!StartOut, RP!StartOut, Rec!kfifo_out, RP!kfifo_out, Rec!kfifo_out_peek,
       RP!kfifo_out_peek, Rec!kfifo_to_user, RP!kfifo_to_user,
       Rec!kfifo_dma_out_prepare, RP!kfifo_dma_out_prepare, Rec!Take, RP!Take,
       Rec!Done, RP!Done, Rec!FaultOut, RP!FaultOut, Rec!PeekDone, RP!PeekDone,
       Rec!PublishOut, RP!PublishOut, Rec!kfifo_dma_out_finish,
       RP!kfifo_dma_out_finish, Rec!kfifo_skip, RP!kfifo_skip, Rec!kfifo_reset_out,
       RP!kfifo_reset_out, Rec!kfifo_reset, RP!kfifo_reset, Rec!Buffers, RP!Buffers,
       Rec!Next, RP!Next

LEMMA SameRecTiled == Rec!Tiled <=> RP!Tiled
BY DEF Rec!Tiled, RP!Tiled, Rec!Start, RP!Start, Rec!kfifo_len, RP!kfifo_len,
       Rec!LengthAt, RP!LengthAt, Rec!Slot, RP!Slot, Rec!Minus, RP!Minus

LEMMA SameRecStates ==
    RP!TypeOK /\ RP!Tiled /\ RP!ClaimsHold <=> Rec!TypeOK /\ Rec!Tiled /\ Rec!ClaimsHold
BY SameRecTiled DEF Rec!TypeOK, RP!TypeOK, Rec!ClaimsHold, RP!ClaimsHold, Rec!kfifo_peek_n,
       RP!kfifo_peek_n, Rec!LengthAt, RP!LengthAt, Rec!Slot, RP!Slot,
       Rec!kfifo_unused, RP!kfifo_unused, Rec!kfifo_len, RP!kfifo_len, Rec!Minus,
       RP!Minus, Rec!Byte, RP!Byte

LEMMA SameRecPromise ==
    /\ Rec!R!PromiseInit <=> RP!R!PromiseInit
    /\ [Rec!R!PromiseNext]_(Rec!R!rvars) <=> [RP!R!PromiseNext]_(RP!R!rvars)
BY DEF Rec!R!PromiseInit, RP!R!PromiseInit, Rec!R!PromiseNext, RP!R!PromiseNext,
       Rec!R!rvars, RP!R!rvars, Rec!R!Offer, RP!R!Offer, Rec!R!Shorten,
       RP!R!Shorten, Rec!R!Withdraw, RP!R!Withdraw, Rec!R!Put, RP!R!Put, Rec!R!Look,
       RP!R!Look, Rec!R!LookAway, RP!R!LookAway, Rec!R!Take, RP!R!Take,
       Rec!R!Discard, RP!R!Discard, Rec!R!Front, RP!R!Front, Rec!Contents,
       RP!Contents, Rec!Count, RP!Count, Rec!Start, RP!Start, Rec!CopyOut,
       RP!CopyOut, Rec!LengthAt, RP!LengthAt, Rec!Slot, RP!Slot, Rec!kfifo_len,
       RP!kfifo_len, Rec!Minus, RP!Minus

(* The fifo of the other kind keeps still.                                  *)
LEMMA KindsStep ==
    RP!RecInv /\ [KindsNext]_<<kind, vars, rec_vars>>
        => RP!RecInv' /\ [Rec!R!PromiseNext]_(Rec!R!rvars)
<1> SUFFICES ASSUME RP!RecInv, [KindsNext]_<<kind, vars, rec_vars>>
             PROVE  RP!RecInv' /\ [Rec!R!PromiseNext]_(Rec!R!rvars)
  OBVIOUS
<1>1. Rec!Next \/ UNCHANGED rec_vars
  BY DEF KindsNext
<1>2. RP!Next \/ UNCHANGED RP!vars
  BY <1>1, SameRecNext DEF rec_vars, RP!vars
<1>3. RP!RecInv' /\ [RP!R!PromiseNext]_(RP!R!rvars)
  BY <1>2, RecConstantsHold, RP!StepHolds
<1> QED
  BY <1>3, SameRecPromise

LEMMA KindsStart == KindsInit => RP!RecInv /\ Rec!R!PromiseInit
BY RecConstantsHold, RP!InitHolds, SameRecInit, SameRecPromise DEF KindsInit

(* What a fifo of records holds is whole records, whatever the sizes of the *)
(* ring, of the indices and of the length field, and the two sides' claims  *)
(* on it hold in every step between their decision and their publishing.    *)
THEOREM RecordsAlwaysTile == KindsSpec => []RecordsTile
<1>1. RP!RecInv => RecordsTile
  BY RecConstantsHold, RP!InvariantSays, SameRecStates DEF RecordsTile
<1> QED
  BY <1>1, KindsStart, KindsStep, PTL DEF KindsSpec

(* Records come out as they went in, in order, each of them once, and cut   *)
(* only where the reader asked for less: a kfifo of records implements the  *)
(* queue of records.                                                        *)
THEOREM RecordsImplementQueue == KindsSpec => RecordsKeepPromise
BY KindsStart, KindsStep, PTL DEF KindsSpec, RecordsKeepPromise, Rec!R!Promise

============================================================================
