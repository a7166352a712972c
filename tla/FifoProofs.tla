----------------------------- MODULE FifoProofs -----------------------------
(***************************************************************************)
(* Fifo for every capacity and set of entries: one producer and one        *)
(* consumer keep the promise of a queue without a lock.                    *)
(***************************************************************************)
EXTENDS Fifo, Lemmas, SequenceTheorems, TLAPS

(* The indices and entries keep their types; the slot the producer is at is *)
(* free, the one the consumer is at is filled, and between head and tail    *)
(* lie entries only.                                                        *)
PutHasRoom ==
    /\ put # "idle" => ~Closed /\ Length < Capacity /\ putting \in Values
    /\ put = "advance" => table[tail] = putting
GetHasEntry ==
    /\ get # "idle" => ~Closed /\ Length > 0
    /\ get = "advance" => item = table[head]
Filled == ~Closed => \A i \in 0..(Length - 1) : table[(head + i) % max] \in Values

FifoInv == FifoTypeOK /\ PutHasRoom /\ GetHasEntry /\ Filled

----------------------------------------------------------------------------
(* Arithmetic of the ring.                                                  *)

LEMMA SizeOfRing == Capacity \in Nat /\ max \in Nat /\ max > 0 /\ max = Capacity + 1
BY FifoConstants DEF max

(* A table is a function on the slots, and so not the empty sequence.       *)
LEMMA OpenTable ==
    ASSUME NEW t \in [Slots -> Values \cup {NONE}]
    PROVE  t # <<>>
<1>1. 0 \in DOMAIN t
  BY SizeOfRing DEF Slots
<1> QED
  BY <1>1

LEMMA IncrementSlot ==
    ASSUME NEW i \in Slots
    PROVE  /\ increment(i) \in Slots
           /\ increment(i) = IF i = Capacity THEN 0 ELSE i + 1
<1>1. CASE i = Capacity
  BY <1>1, SizeOfRing DEF Slots, increment
<1>2. CASE i # Capacity
  BY <1>2, SizeOfRing DEF Slots, increment
<1> QED
  BY <1>1, <1>2

LEMMA SlotBehind ==
    ASSUME NEW i \in Slots, NEW k \in Slots
    PROVE  /\ (i + k) % max \in Slots
           /\ (i + k) % max = IF i + k < max THEN i + k ELSE i + k - max
<1>1. i \in Nat /\ k \in Nat /\ i < max /\ k < max
  BY SizeOfRing DEF Slots
<1>2. CASE i + k < max
  BY <1>1, <1>2, SizeOfRing DEF Slots
<1>3. CASE i + k >= max
  <2>1. i + k - max \in Nat /\ i + k - max < max /\ i + k = (i + k - max) + 1 * max
    BY <1>1, <1>3, SizeOfRing
  <2>2. (i + k) % max = (i + k - max) % max
    BY <2>1, SizeOfRing, RemainderOfMultiple
  <2> QED
    BY <1>1, <1>3, <2>1, <2>2, SizeOfRing DEF Slots
<1> QED
  BY <1>1, <1>2, <1>3, SizeOfRing

LEMMA LengthType ==
    ASSUME tail \in Slots, head \in Slots
    PROVE  /\ Length \in 0..Capacity
           /\ Length = 0 <=> head = tail
           /\ (head + Length) % max = tail
<1>1. Length \in 0..Capacity /\ (Length = 0 <=> head = tail)
  BY SizeOfRing DEF Slots, Length
<1>2. Length \in Slots
  BY <1>1, SizeOfRing DEF Slots
<1> QED
  BY <1>1, <1>2, SlotBehind, SizeOfRing DEF Slots, Length

(* The test of fifo_put leaves room for one entry more.                     *)
LEMMA RoomToPut ==
    ASSUME tail \in Slots, head \in Slots
    PROVE  increment(tail) # head <=> Length < Capacity
BY IncrementSlot, SizeOfRing DEF Slots, Length

LEMMA LengthOfAdvancedTail ==
    ASSUME tail \in Slots, head \in Slots, Length < Capacity,
           tail' = increment(tail), head' = head
    PROVE  Length' = Length + 1
BY IncrementSlot, SizeOfRing DEF Slots, Length, max

LEMMA LengthOfAdvancedHead ==
    ASSUME tail \in Slots, head \in Slots, Length > 0,
           tail' = tail, head' = increment(head)
    PROVE  Length' = Length - 1
BY IncrementSlot, SizeOfRing DEF Slots, Length, max

----------------------------------------------------------------------------
(* The invariant is kept, action by action.                                 *)

LEMMA InitFifoInv == FifoInit => FifoInv
BY SizeOfRing DEF FifoInit, FifoInv, FifoTypeOK, Closed, PutHasRoom, GetHasEntry, Filled, Slots

LEMMA OpenInv ==
    ASSUME FifoInv, fifo_init
    PROVE  FifoInv'
<1>1. table' \in [Slots -> Values \cup {NONE}] /\ tail' = 0 /\ head' = 0 /\ 0 \in Slots
  BY SizeOfRing DEF fifo_init, Slots
<1>2. Length' = 0
  BY <1>1 DEF Length
<1>3. FifoTypeOK'
  BY <1>1 DEF FifoInv, FifoTypeOK, fifo_init
<1>4. PutHasRoom' /\ GetHasEntry'
  BY DEF PutHasRoom, GetHasEntry, fifo_init
<1>5. Filled'
  BY <1>2 DEF Filled
<1> QED
  BY <1>3, <1>4, <1>5 DEF FifoInv

LEMMA CloseInv ==
    ASSUME FifoInv, fifo_close
    PROVE  FifoInv'
BY DEF fifo_close, FifoInv, FifoTypeOK, Closed, PutHasRoom, GetHasEntry, Filled

LEMMA PutInv ==
    ASSUME FifoInv, NEW e \in Values, fifo_put(e)
    PROVE  FifoInv'
<1>1. Length < Capacity
  BY RoomToPut DEF FifoInv, FifoTypeOK, fifo_put
<1>2. Length' = Length
  BY DEF fifo_put, Length
<1> QED
  BY <1>1, <1>2
  DEF fifo_put, FifoInv, FifoTypeOK, Closed, PutHasRoom, GetHasEntry, Filled

(* The producer's slot is not one between head and tail.                    *)
LEMMA StoreLeavesEntries ==
    ASSUME FifoInv, Store
    PROVE  /\ table \in [Slots -> Values \cup {NONE}] /\ table' \in [Slots -> Values \cup {NONE}]
           /\ tail' = tail /\ head' = head /\ Length' = Length
           /\ table'[tail] = putting /\ putting \in Values
           /\ \A i \in 0..(Length - 1) : /\ (head + i) % max \in Slots
                                         /\ table'[(head + i) % max] = table[(head + i) % max]
<1>1. /\ table \in [Slots -> Values \cup {NONE}] /\ tail \in Slots /\ head \in Slots
      /\ putting \in Values /\ Length < Capacity
  BY DEF FifoInv, FifoTypeOK, PutHasRoom, Store
<1>2. table' \in [Slots -> Values \cup {NONE}] /\ table'[tail] = putting
  BY <1>1 DEF Store
<1>3. tail' = tail /\ head' = head /\ Length' = Length
  BY DEF Store, Length
<1>4. ASSUME NEW i \in 0..(Length - 1)
      PROVE  (head + i) % max \in Slots /\ (head + i) % max # tail
  <2>1. i \in Slots /\ Length \in Slots /\ i < Length
    BY <1>1, LengthType, SizeOfRing DEF Slots
  <2> QED
    BY <1>1, <2>1, SlotBehind, LengthType, SizeOfRing DEF Slots
<1> QED
  BY <1>1, <1>2, <1>3, <1>4 DEF Store

LEMMA StoreInv ==
    ASSUME FifoInv, Store
    PROVE  FifoInv'
<1>1. FifoTypeOK'
  BY StoreLeavesEntries DEF FifoInv, FifoTypeOK, Store
<1>2. ~Closed'
  BY StoreLeavesEntries, OpenTable DEF Closed
<1>3. PutHasRoom'
  BY <1>2, StoreLeavesEntries DEF FifoInv, PutHasRoom, Store
<1>4. GetHasEntry'
  <2>1. get # "idle" => table'[head] = table[head]
    <3> SUFFICES ASSUME get # "idle" PROVE table'[head] = table[head]
      OBVIOUS
    <3>1. 0 \in 0..(Length - 1) /\ head \in Slots /\ 0 \in Slots
      BY LengthType, SizeOfRing DEF FifoInv, FifoTypeOK, GetHasEntry, Slots
    <3>2. (head + 0) % max = head
      BY <3>1, SlotBehind, SizeOfRing DEF Slots
    <3> QED
      BY <3>1, <3>2, StoreLeavesEntries
  <2> QED
    BY <1>2, <2>1, StoreLeavesEntries DEF FifoInv, GetHasEntry, Store
<1>5. Filled'
  BY StoreLeavesEntries DEF FifoInv, Filled, PutHasRoom, Store
<1> QED
  BY <1>1, <1>3, <1>4, <1>5 DEF FifoInv

(* The entry comes in behind the others.                                    *)
LEMMA AdvanceTailInv ==
    ASSUME FifoInv, AdvanceTail
    PROVE  FifoInv' /\ Length' = Length + 1
<1>1. /\ tail \in Slots /\ head \in Slots /\ Length < Capacity /\ ~Closed
      /\ putting \in Values /\ table[tail] = putting
  BY DEF FifoInv, FifoTypeOK, PutHasRoom, AdvanceTail
<1>2. tail' \in Slots /\ Length' = Length + 1 /\ head' = head
  BY <1>1, LengthOfAdvancedTail, IncrementSlot DEF AdvanceTail
<1>3. FifoTypeOK'
  BY <1>2 DEF FifoInv, FifoTypeOK, AdvanceTail, Closed
<1>4. PutHasRoom' /\ GetHasEntry'
  BY <1>1, <1>2, LengthType
  DEF FifoInv, FifoTypeOK, PutHasRoom, GetHasEntry, AdvanceTail, Closed
<1>5. Filled'
  <2>1. \A i \in 0..(Length - 1) : table[(head + i) % max] \in Values
    BY <1>1 DEF FifoInv, Filled
  <2>2. table[(head + Length) % max] \in Values /\ Length \in Nat
    BY <1>1, LengthType
  <2>3. \A i \in 0..Length : table[(head + i) % max] \in Values
    BY <2>1, <2>2
  <2> QED
    BY <1>2, <2>2, <2>3 DEF Filled, AdvanceTail
<1> QED
  BY <1>2, <1>3, <1>4, <1>5 DEF FifoInv

LEMMA GetInv ==
    ASSUME FifoInv, fifo_get
    PROVE  FifoInv'
<1>1. Length > 0 /\ Length' = Length
  BY LengthType, SizeOfRing DEF FifoInv, FifoTypeOK, fifo_get, Length
<1> QED
  BY <1>1 DEF fifo_get, FifoInv, FifoTypeOK, Closed, PutHasRoom, GetHasEntry, Filled

(* The slot at head is filled.                                              *)
LEMMA HeadFilled ==
    ASSUME FifoInv, get # "idle"
    PROVE  table[head] \in Values
<1>1. 0 \in 0..(Length - 1) /\ head \in Slots /\ 0 \in Slots /\ ~Closed
  BY LengthType, SizeOfRing DEF FifoInv, FifoTypeOK, GetHasEntry, Slots
<1>2. (head + 0) % max = head
  BY <1>1, SlotBehind, SizeOfRing DEF Slots
<1> QED
  BY <1>1, <1>2 DEF FifoInv, Filled

LEMMA LoadInv ==
    ASSUME FifoInv, Load
    PROVE  FifoInv'
<1>1. table[head] \in Values
  BY HeadFilled DEF Load
<1>2. Length' = Length
  BY DEF Load, Length
<1> QED
  BY <1>1, <1>2 DEF Load, FifoInv, FifoTypeOK, Closed, PutHasRoom, GetHasEntry, Filled

(* The second entry is now the first.                                       *)
LEMMA Shifted ==
    ASSUME tail \in Slots, head \in Slots, Length > 0, AdvanceHead
    PROVE  /\ head' \in Slots /\ tail' = tail /\ table' = table /\ Length' = Length - 1
           /\ \A i \in 0..(Length - 2) : (head' + i) % max = (head + (i + 1)) % max
<1>1. head' \in Slots /\ Length' = Length - 1 /\ head' = increment(head)
  BY LengthOfAdvancedHead, IncrementSlot DEF AdvanceHead
<1>2. ASSUME NEW i \in 0..(Length - 2)
      PROVE  (head' + i) % max = (head + (i + 1)) % max
  <2>1. i \in Slots /\ i + 1 \in Slots
    BY LengthType, SizeOfRing DEF Slots
  <2>2. (head' + i) % max = IF head' + i < max THEN head' + i ELSE head' + i - max
    BY <1>1, <2>1, SlotBehind
  <2>3. (head + (i + 1)) % max =
           IF head + (i + 1) < max THEN head + (i + 1) ELSE head + (i + 1) - max
    BY <2>1, SlotBehind
  <2> QED
    BY <1>1, <2>1, <2>2, <2>3, IncrementSlot, SizeOfRing DEF Slots
<1> QED
  BY <1>1, <1>2 DEF AdvanceHead

LEMMA AdvanceHeadInv ==
    ASSUME FifoInv, AdvanceHead
    PROVE  FifoInv'
<1>1. tail \in Slots /\ head \in Slots /\ Length > 0 /\ ~Closed /\ Length \in Nat
  BY LengthType, SizeOfRing DEF FifoInv, FifoTypeOK, GetHasEntry, AdvanceHead
<1>2. FifoTypeOK'
  BY <1>1, Shifted DEF FifoInv, FifoTypeOK, AdvanceHead, Closed
<1>3. PutHasRoom' /\ GetHasEntry'
  BY <1>1, Shifted, SizeOfRing
  DEF FifoInv, FifoTypeOK, PutHasRoom, GetHasEntry, AdvanceHead, Closed
<1>4. Filled'
  <2>1. \A i \in 0..(Length - 2) : table[(head + (i + 1)) % max] \in Values
    BY <1>1 DEF FifoInv, Filled
  <2> QED
    BY <1>1, <2>1, Shifted DEF Filled, AdvanceHead
<1> QED
  BY <1>2, <1>3, <1>4 DEF FifoInv

LEMMA StepFifoInv == FifoInv /\ [FifoNext]_fifo_vars => FifoInv'
<1>1. ASSUME FifoInv, UNCHANGED fifo_vars
      PROVE  FifoInv'
  BY <1>1 DEF fifo_vars, FifoInv, FifoTypeOK, PutHasRoom, GetHasEntry, Filled, Closed, Length
<1> QED
  BY <1>1, OpenInv, CloseInv, PutInv, StoreInv, AdvanceTailInv, GetInv, LoadInv, AdvanceHeadInv
  DEF FifoNext

LEMMA FifoInvariant == FifoSpec => []FifoInv
<1> QED
  BY InitFifoInv, StepFifoInv, PTL DEF FifoSpec

----------------------------------------------------------------------------
(* Every step is one of the promise's, or changes nothing it speaks of.     *)

QueueOfEntries ==
    /\ Queued \in Seq(Values)
    /\ Closed => Queued = <<>>
    /\ ~Closed => /\ Length \in 0..Capacity /\ Len(Queued) = Length
                  /\ \A i \in 1..Length : Queued[i] = table[(head + i - 1) % max]

LEMMA QueuedEntries == FifoInv => QueueOfEntries
<1> SUFFICES ASSUME FifoInv PROVE QueueOfEntries
  OBVIOUS
<1>1. CASE Closed
  BY <1>1, EmptySeq DEF Queued, QueueOfEntries
<1>2. CASE ~Closed
  <2>1. Length \in 0..Capacity /\ Length \in Nat /\ head \in Nat
    BY LengthType, SizeOfRing DEF FifoInv, FifoTypeOK, Slots
  <2>2. ASSUME NEW i \in 1..Length
        PROVE  table[(head + i - 1) % max] \in Values
    <3>1. i - 1 \in 0..(Length - 1) /\ head + i - 1 = head + (i - 1)
      BY <2>1
    <3> QED
      BY <1>2, <3>1 DEF FifoInv, Filled
  <2>3. Queued = [i \in 1..Length |-> table[(head + i - 1) % max]]
    BY <1>2 DEF Queued
  <2>4. Queued \in [1..Length -> Values]
    BY <2>2, <2>3
  <2>5. Queued \in Seq(Values) /\ Len(Queued) = Length
    BY <2>1, <2>4
  <2> QED
    BY <1>2, <2>1, <2>3, <2>5 DEF QueueOfEntries
<1> QED
  BY <1>1, <1>2

LEMMA QueuedEntriesNext == FifoInv' => QueueOfEntries'
BY QueuedEntries, PTL

LEMMA SameQueued ==
    ASSUME UNCHANGED <<tail, head, table>>
    PROVE  Queued' = Queued
BY DEF Queued, Length, Closed

LEMMA InitPromise == FifoInit => F!PromiseInit
BY DEF FifoInit, F!PromiseInit, Queued, Closed, Offered, InHand

LEMMA OpenStutters ==
    ASSUME FifoInv, fifo_init
    PROVE  UNCHANGED F!fvars
<1>1. Queued = <<>>
  BY QueuedEntries DEF fifo_init, QueueOfEntries
<1>2. Queued' = <<>>
  <2>1. FifoInv' /\ Length' = 0
    BY OpenInv DEF fifo_init, Length
  <2>2. Queued' \in Seq(Values) /\ Len(Queued') = 0
    BY <2>1, QueuedEntriesNext, EmptySeq DEF QueueOfEntries
  <2> QED
    BY <2>2, EmptySeq
<1> QED
  BY <1>1, <1>2 DEF F!fvars, fifo_init, Offered, InHand

(* A fifo that is closed with entries in it drops them all.                 *)
LEMMA CloseDiscards ==
    ASSUME FifoInv, fifo_close
    PROVE  F!Discard \/ UNCHANGED F!fvars
<1>1. Queued \in Seq(Values) /\ Queued' = <<>>
  BY QueuedEntries DEF QueueOfEntries, fifo_close, Queued, Closed
<1>2. Offered' = Offered /\ InHand' = InHand /\ InHand["consumer"] = <<>>
  BY DEF fifo_close, Offered, InHand
<1>3. CASE Queued = <<>>
  BY <1>1, <1>2, <1>3 DEF F!fvars
<1>4. CASE Queued # <<>>
  <2>1. Len(Queued) \in 1..Len(Queued)
    BY <1>1, <1>4, EmptySeq
  <2>2. SubSeq(Queued, Len(Queued) + 1, Len(Queued)) = <<>>
    BY <2>1, SubSeqEmpty
  <2> QED
    BY <1>1, <1>2, <2>1, <2>2 DEF F!Discard
<1> QED
  BY <1>3, <1>4

LEMMA PutOffers ==
    ASSUME FifoInv, NEW e \in Values, fifo_put(e)
    PROVE  F!Offer("producer")
<1>1. Queued' = Queued /\ InHand' = InHand
  BY SameQueued DEF fifo_put, InHand
<1>2. Offered["producer"] = <<>> /\ Offered'["producer"] = <<e>>
  BY DEF fifo_put, Offered
<1>3. Offered' = [Offered EXCEPT !["producer"] = Offered'["producer"]]
  BY <1>2 DEF Offered
<1>4. Len(Offered'["producer"]) \in 1..(Capacity - Len(Queued))
  <2>1. ~Closed /\ Length < Capacity /\ Length \in Nat
    BY RoomToPut, LengthType, SizeOfRing DEF fifo_put, FifoInv, FifoTypeOK
  <2> QED
    BY <1>2, <2>1, QueuedEntries, SizeOfRing DEF QueueOfEntries
<1> QED
  BY <1>1, <1>2, <1>3, <1>4 DEF F!Offer, F!Room

LEMMA StoreStutters ==
    ASSUME FifoInv, Store
    PROVE  UNCHANGED F!fvars
<1>1. ~Closed /\ FifoInv' /\ ~Closed'
  BY StoreInv, StoreLeavesEntries, OpenTable DEF FifoInv, PutHasRoom, Store, Closed
<1>2. /\ Length \in 0..Capacity /\ Length' = Length
      /\ \A i \in 1..Length : Queued[i] = table[(head + i - 1) % max]
      /\ \A i \in 1..Length : Queued'[i] = table'[(head + i - 1) % max]
      /\ Queued \in Seq(Values) /\ Queued' \in Seq(Values)
      /\ Len(Queued) = Length /\ Len(Queued') = Length
  BY <1>1, StoreLeavesEntries, QueuedEntries, QueuedEntriesNext DEF QueueOfEntries
<1>3. ASSUME NEW i \in 1..Length
      PROVE  table'[(head + i - 1) % max] = table[(head + i - 1) % max]
  <2>1. i - 1 \in 0..(Length - 1) /\ head + i - 1 = head + (i - 1)
    BY <1>2, SizeOfRing DEF FifoInv, FifoTypeOK, Slots
  <2> QED
    BY <2>1, StoreLeavesEntries
<1>4. Queued' = Queued
  BY <1>2, <1>3, SeqEqual
<1> QED
  BY <1>4 DEF F!fvars, Store, Offered, InHand

LEMMA AdvanceTailPuts ==
    ASSUME FifoInv, AdvanceTail
    PROVE  F!Put("producer")
<1> DEFINE new == Queued \o <<putting>>
<1>1. /\ ~Closed /\ FifoInv' /\ ~Closed' /\ Length' = Length + 1 /\ Length < Capacity
      /\ head' = head /\ table' = table /\ table[tail] = putting /\ putting \in Values
      /\ tail \in Slots /\ head \in Slots
  BY AdvanceTailInv DEF FifoInv, FifoTypeOK, PutHasRoom, AdvanceTail, Closed
<1>2. /\ Length \in 0..Capacity
      /\ \A i \in 1..Length : Queued[i] = table[(head + i - 1) % max]
      /\ \A i \in 1..(Length + 1) : Queued'[i] = table[(head + i - 1) % max]
      /\ Queued \in Seq(Values) /\ Queued' \in Seq(Values)
      /\ Len(Queued) = Length /\ Len(Queued') = Length + 1
  BY <1>1, QueuedEntries, QueuedEntriesNext DEF QueueOfEntries
<1>3. <<putting>> \in Seq(Values) /\ Len(<<putting>>) = 1 /\ <<putting>>[1] = putting
  BY <1>1
<1>4. /\ new \in Seq(Values) /\ Len(new) = Length + 1
      /\ \A i \in 1..(Length + 1) : new[i] = IF i <= Length THEN Queued[i] ELSE putting
  BY <1>2, <1>3, ConcatProperties
<1>5. Queued'[Length + 1] = putting
  <2>1. head + (Length + 1) - 1 = head + Length /\ Length + 1 \in 1..(Length + 1)
    BY <1>1, <1>2, SizeOfRing DEF Slots
  <2> QED
    BY <1>1, <1>2, <2>1, LengthType
<1> HIDE DEF new
<1>6. Queued' = new
  <2>1. ASSUME NEW i \in 1..(Length + 1)
        PROVE  Queued'[i] = new[i]
    <3>1. CASE i = Length + 1
      BY <1>2, <1>4, <1>5, <3>1
    <3>2. CASE i # Length + 1
      <4>1. i \in 1..Length /\ i <= Length
        BY <1>2, <3>2
      <4>2. Queued[i] = table[(head + i - 1) % max] /\ Queued'[i] = table[(head + i - 1) % max]
        BY <1>2, <4>1
      <4> QED
        BY <1>4, <4>1, <4>2
    <3> QED
      BY <3>1, <3>2
  <2> QED
    BY <1>2, <1>4, <2>1, SeqEqual
<1>7. /\ Offered["producer"] = <<putting>>
      /\ Offered' = [Offered EXCEPT !["producer"] = <<>>]
      /\ InHand' = InHand
  BY DEF AdvanceTail, Offered, InHand
<1> QED
  BY <1>1, <1>2, <1>3, <1>6, <1>7, SizeOfRing DEF F!Put, F!Room, new

LEMMA GetStutters ==
    ASSUME FifoInv, fifo_get
    PROVE  UNCHANGED F!fvars
BY SameQueued DEF fifo_get, F!fvars, Offered, InHand

LEMMA LoadPicks ==
    ASSUME FifoInv, Load
    PROVE  F!Pick("consumer")
<1>1. ~Closed /\ Length > 0 /\ Length \in Nat /\ head \in Slots
  BY LengthType, SizeOfRing DEF FifoInv, FifoTypeOK, GetHasEntry, Load
<1>2. /\ Queued \in Seq(Values) /\ Len(Queued) = Length
      /\ Queued[1] = table[(head + 1 - 1) % max]
  BY <1>1, QueuedEntries DEF QueueOfEntries
<1>3. (head + 1 - 1) % max = head
  BY <1>1, SlotBehind, SizeOfRing DEF Slots
<1>4. SubSeq(Queued, 1, 1) = <<table[head]>>
  <2> DEFINE s == SubSeq(Queued, 1, 1)
             t == <<table[head]>>
  <2>1. s \in Seq(Values) /\ Len(s) = 1 /\ s[1] = table[head]
    BY <1>1, <1>2, <1>3, SubSeqProperties
  <2>2. t \in Seq(Values) /\ Len(t) = 1 /\ t[1] = table[head]
    BY HeadFilled DEF Load
  <2> HIDE DEF s, t
  <2>3. s = t
    BY <2>1, <2>2, SeqEqual
  <2> QED
    BY <2>3 DEF s, t
<1>5. /\ InHand["consumer"] = <<>> /\ Len(<<>>) = 0
      /\ InHand \in [{"consumer"} -> {<<>>}]
      /\ InHand' = [r \in {"consumer"} |-> <<table[head]>>]
      /\ Offered' = Offered /\ Queued' = Queued
  BY SameQueued DEF Load, InHand, Offered
<1>6. InHand' = [InHand EXCEPT !["consumer"] = SubSeq(Queued, 1, Len(InHand["consumer"]) + 1)]
  <2>1. Len(InHand["consumer"]) + 1 = 1
    BY <1>5
  <2> QED
    BY <1>4, <1>5, <2>1
<1> QED
  BY <1>1, <1>2, <1>5, <1>6 DEF F!Pick

LEMMA AdvanceHeadTakes ==
    ASSUME FifoInv, AdvanceHead
    PROVE  F!Take("consumer")
<1> DEFINE rest == SubSeq(Queued, 2, Len(Queued))
<1>1. /\ ~Closed /\ FifoInv' /\ ~Closed' /\ Length > 0 /\ tail \in Slots /\ head \in Slots
  BY AdvanceHeadInv DEF FifoInv, FifoTypeOK, GetHasEntry, AdvanceHead, Closed
<1>2. /\ Length \in Nat /\ Length' = Length - 1
      /\ \A i \in 1..Length : Queued[i] = table[(head + i - 1) % max]
      /\ \A i \in 1..(Length - 1) : Queued'[i] = table[(head' + i - 1) % max]
      /\ Queued \in Seq(Values) /\ Queued' \in Seq(Values)
      /\ Len(Queued) = Length /\ Len(Queued') = Length - 1
  BY <1>1, Shifted, QueuedEntries, QueuedEntriesNext DEF QueueOfEntries
<1>3. /\ rest \in Seq(Values) /\ Len(rest) = Length - 1
      /\ \A i \in 1..(Length - 1) : rest[i] = Queued[i + 1]
  BY <1>1, <1>2, SubSeqProperties
<1>4. ASSUME NEW i \in 1..(Length - 1)
      PROVE  Queued'[i] = rest[i]
  <2>1. i - 1 \in 0..(Length - 2) /\ head' + i - 1 = head' + (i - 1)
        /\ head + (i + 1) - 1 = head + ((i - 1) + 1)
    BY <1>1, <1>2, Shifted, SizeOfRing DEF Slots
  <2>2. (head' + i - 1) % max = (head + (i + 1) - 1) % max
    BY <1>1, <2>1, Shifted
  <2> QED
    BY <1>2, <1>3, <2>2
<1>5. Queued' = rest
  BY <1>2, <1>3, <1>4, SeqEqual
<1>6. /\ InHand["consumer"] = <<item>> /\ Len(<<item>>) = 1
      /\ InHand' = [InHand EXCEPT !["consumer"] = <<>>]
      /\ Offered' = Offered
  BY DEF AdvanceHead, Offered, InHand
<1> QED
  BY <1>5, <1>6 DEF F!Take

(* Entries come out in the order they went in, each once, for any capacity: *)
(* fifo.h implements the queue without a lock between its two sides.        *)
THEOREM FifoImplementsQueue == FifoSpec => FifoKeepsPromise
<1>1. FifoInv /\ [FifoNext]_fifo_vars => [F!PromiseNext]_(F!fvars)
  <2> SUFFICES ASSUME FifoInv, [FifoNext]_fifo_vars
               PROVE  F!PromiseNext \/ UNCHANGED F!fvars
    OBVIOUS
  <2>1. CASE UNCHANGED fifo_vars
    BY <2>1, SameQueued DEF fifo_vars, F!fvars, Offered, InHand
  <2> QED
    BY <2>1, OpenStutters, CloseDiscards, PutOffers, StoreStutters, AdvanceTailPuts,
       GetStutters, LoadPicks, AdvanceHeadTakes DEF FifoNext, F!PromiseNext
<1> QED
  BY InitPromise, FifoInvariant, <1>1, PTL DEF FifoSpec, FifoKeepsPromise, F!Promise
============================================================================
