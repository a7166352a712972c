------------------------------- MODULE Kfifo -------------------------------
(***************************************************************************)
(* kfifo.c and the kfifo macros, for a fifo without records: a ring of     *)
(* elements between two free-running unsigned indices.  A call runs in     *)
(* steps: it reads the other side's index once, copies element by element, *)
(* and publishes by advancing its own index.  Writers and readers do so    *)
(* concurrently; several of one kind use the spinlocked macros.  Memory is *)
(* sequentially consistent, which the write barriers stand for.            *)
(***************************************************************************)
EXTENDS Naturals, Sequences, FiniteSets

CONSTANTS
    Writers, Readers,   \* threads that call the in side, the out side
    LockIn, LockOut,    \* they use kfifo_in_spinlocked, kfifo_out_spinlocked
    UINT,               \* number of values of an unsigned int
    Size,               \* mask + 1
    Values,             \* elements
    NONE                \* no thread; also what fresh memory holds

ASSUME KfifoConstants ==
    /\ Size \in Nat /\ Size >= 2                     \* __kfifo_alloc refuses less
    /\ UINT \in Nat /\ \E k \in 2..UINT : UINT = k * Size   \* both are powers of 2
    /\ LockIn \in BOOLEAN /\ LockOut \in BOOLEAN
    /\ LockIn \/ \A v, w \in Writers : v = w
    /\ LockOut \/ \A q, r \in Readers : q = r
    /\ NONE \notin Writers \cup Readers \cup Values

VARIABLES
    in, out,        \* fifo->in, fifo->out
    data,           \* fifo->data
    in_lock,        \* holder of the lock of the in side, or NONE
    out_lock,       \* holder of the lock of the out side, or NONE
    wpc, src, wdone,   \* each writer: where it is, what it copies in, how much it copied
    rpc, rlen, dst     \* each reader: where it is, how much it copies out, what it copied

fifo   == <<in, out, data>>
writer == <<in_lock, wpc, src, wdone>>
reader == <<out_lock, rpc, rlen, dst>>
vars   == <<in, out, data, in_lock, out_lock, wpc, src, wdone, rpc, rlen, dst>>

Index == 0..(UINT - 1)

(* Unsigned addition and subtraction of indices, and index & mask.          *)
PlusForever(i, k) == i + k              \* mutant: the index does not wrap
Plus(i, k)  == IF i + k >= UINT THEN i + k - UINT ELSE i + k
Minus(i, j) == IF i >= j THEN i - j ELSE i + UINT - j
Slot(i) == i % Size

Least(a, b) == IF a <= b THEN a ELSE b

kfifo_len == Minus(in, out)
kfifo_unused_late == Minus(Size + 1, kfifo_len)   \* mutant: one slot too many
kfifo_unused == Minus(Size, kfifo_len)
kfifo_is_empty == in = out
kfifo_is_full_late == kfifo_len > Size  \* mutant: > size instead of > mask
kfifo_is_full == kfifo_len > Size - 1

Buffers(n) == [1..n -> Values]

TypeOK ==
    /\ in \in Index /\ out \in Index
    /\ data \in [0..(Size - 1) -> Values \cup {NONE}]
    /\ in_lock \in Writers \cup {NONE}
    /\ out_lock \in Readers \cup {NONE}
    /\ wpc \in [Writers -> {"idle", "copy", "transfer"}]
    /\ src \in [Writers -> Seq(Values)]
    /\ wdone \in [Writers -> Nat]
    /\ rpc \in [Readers -> {"idle", "copy", "transfer", "peek"}]
    /\ rlen \in [Readers -> Nat]
    /\ dst \in [Readers -> Seq(Values \cup {NONE})]

Init ==   \* __kfifo_alloc or __kfifo_init
    /\ in = 0 /\ out = 0
    /\ data = [i \in 0..(Size - 1) |-> NONE]
    /\ in_lock = NONE /\ out_lock = NONE
    /\ wpc = [w \in Writers |-> "idle"]
    /\ src = [w \in Writers |-> <<>>]
    /\ wdone = [w \in Writers |-> 0]
    /\ rpc = [r \in Readers |-> "idle"]
    /\ rlen = [r \in Readers |-> 0]
    /\ dst = [r \in Readers |-> <<>>]

----------------------------------------------------------------------------
(* The in side.                                                             *)

StartIn(w, buf, label) ==
    /\ wpc[w] = "idle"
    /\ LockIn => in_lock = NONE
    /\ in_lock' = IF LockIn THEN w ELSE in_lock
    /\ src' = [src EXCEPT ![w] = buf]
    /\ wdone' = [wdone EXCEPT ![w] = 0]
    /\ wpc' = [wpc EXCEPT ![w] = label]
    /\ UNCHANGED <<fifo, reader>>

Fitting(buf) == SubSeq(buf, 1, Least(Len(buf), kfifo_unused))

kfifo_in(w, buf) == StartIn(w, Fitting(buf), "copy")
kfifo_from_user(w, buf) == StartIn(w, Fitting(buf), "transfer")
kfifo_dma_in_prepare(w, buf) == StartIn(w, Fitting(buf), "transfer")
kfifo_put(w, val) == ~kfifo_is_full /\ StartIn(w, <<val>>, "copy")

kfifo_copy_in(w) ==
    /\ wpc[w] # "idle"
    /\ wdone[w] < Len(src[w])
    /\ data' = [data EXCEPT ![Slot(Plus(in, wdone[w]))] = src[w][wdone[w] + 1]]
    /\ wdone' = [wdone EXCEPT ![w] = @ + 1]
    /\ UNCHANGED <<in, out, in_lock, wpc, src, reader>>

(* copy_from_user faults: elements not copied in full are not counted.  Or  *)
(* the device received less, and kfifo_dma_in_finish is told so.            *)
StopIn(w) ==
    /\ wpc[w] = "transfer"
    /\ wdone[w] < Len(src[w])
    /\ src' = [src EXCEPT ![w] = SubSeq(@, 1, wdone[w])]
    /\ UNCHANGED <<fifo, in_lock, wpc, wdone, reader>>

PublishInEarly(w) ==                    \* mutant: in advances before the copy
    /\ wpc[w] # "idle"
    /\ in' = Plus(in, Len(src[w]))
    /\ wpc' = [wpc EXCEPT ![w] = "idle"]
    /\ src' = [src EXCEPT ![w] = <<>>]
    /\ wdone' = [wdone EXCEPT ![w] = 0]
    /\ in_lock' = IF LockIn THEN NONE ELSE in_lock
    /\ UNCHANGED <<out, data, reader>>

PublishIn(w) ==
    /\ wpc[w] # "idle"
    /\ wdone[w] = Len(src[w])
    /\ in' = Plus(in, wdone[w])
    /\ wpc' = [wpc EXCEPT ![w] = "idle"]
    /\ src' = [src EXCEPT ![w] = <<>>]
    /\ wdone' = [wdone EXCEPT ![w] = 0]
    /\ in_lock' = IF LockIn THEN NONE ELSE in_lock
    /\ UNCHANGED <<out, data, reader>>

----------------------------------------------------------------------------
(* The out side.                                                            *)

StartOut(r, n, label) ==
    /\ rpc[r] = "idle"
    /\ LockOut => out_lock = NONE
    /\ out_lock' = IF LockOut THEN r ELSE out_lock
    /\ rlen' = [rlen EXCEPT ![r] = Least(n, kfifo_len)]
    /\ rpc' = [rpc EXCEPT ![r] = label]
    /\ UNCHANGED <<fifo, writer, dst>>

kfifo_out(r, n) == StartOut(r, n, "copy")
kfifo_to_user(r, n) == StartOut(r, n, "transfer")
kfifo_dma_out_prepare(r, n) == StartOut(r, n, "transfer")
kfifo_out_peek(r, n) == StartOut(r, n, "peek")
kfifo_get(r)  == ~kfifo_is_empty /\ StartOut(r, 1, "copy")
kfifo_peek(r) == ~kfifo_is_empty /\ StartOut(r, 1, "peek")

kfifo_copy_out(r) ==
    /\ rpc[r] # "idle"
    /\ Len(dst[r]) < rlen[r]
    /\ dst' = [dst EXCEPT ![r] = Append(@, data[Slot(Plus(out, Len(@)))])]
    /\ UNCHANGED <<fifo, writer, out_lock, rpc, rlen>>

(* copy_to_user faults, or kfifo_dma_out_finish is told of less.            *)
StopOut(r) ==
    /\ rpc[r] = "transfer"
    /\ Len(dst[r]) < rlen[r]
    /\ rlen' = [rlen EXCEPT ![r] = Len(dst[r])]
    /\ UNCHANGED <<fifo, writer, out_lock, rpc, dst>>

PublishOut(r) ==
    /\ rpc[r] # "idle"
    /\ Len(dst[r]) = rlen[r]
    /\ out' = IF rpc[r] = "peek" THEN out ELSE Plus(out, rlen[r])
    /\ rpc' = [rpc EXCEPT ![r] = "idle"]
    /\ rlen' = [rlen EXCEPT ![r] = 0]
    /\ dst' = [dst EXCEPT ![r] = <<>>]
    /\ out_lock' = IF LockOut THEN NONE ELSE out_lock
    /\ UNCHANGED <<in, data, writer>>

(* kfifo_reset_out and kfifo_skip take no lock of their own: their callers  *)
(* hold the readers' one, and skip only what is there.                      *)
OutExclusive(r) == rpc[r] = "idle" /\ (LockOut => out_lock = NONE)

kfifo_reset_out(r) ==
    /\ OutExclusive(r)
    /\ out' = in
    /\ UNCHANGED <<in, data, writer, reader>>

kfifo_skip(r) ==
    /\ OutExclusive(r)
    /\ ~kfifo_is_empty
    /\ out' = Plus(out, 1)
    /\ UNCHANGED <<in, data, writer, reader>>

(* kfifo_reset, only "when ... no other thread is accessing the fifo".      *)
kfifo_reset ==
    /\ \A w \in Writers : wpc[w] = "idle"
    /\ \A r \in Readers : rpc[r] = "idle"
    /\ in' = 0 /\ out' = 0
    /\ UNCHANGED <<data, writer, reader>>

----------------------------------------------------------------------------
WriterStep(w) ==
    \/ \E n \in 0..(Size + 1) : \E buf \in Buffers(n) : kfifo_in(w, buf)
    \/ \E n \in 0..Size : \E buf \in Buffers(n) :
          kfifo_from_user(w, buf) \/ kfifo_dma_in_prepare(w, buf)
    \/ \E val \in Values : kfifo_put(w, val)
    \/ kfifo_copy_in(w) \/ StopIn(w) \/ PublishIn(w)

ReaderStep(r) ==
    \/ \E n \in 0..(Size + 1) : \/ kfifo_out(r, n) \/ kfifo_to_user(r, n)
                              \/ kfifo_dma_out_prepare(r, n) \/ kfifo_out_peek(r, n)
    \/ kfifo_get(r) \/ kfifo_peek(r)
    \/ kfifo_copy_out(r) \/ StopOut(r) \/ PublishOut(r)
    \/ kfifo_reset_out(r) \/ kfifo_skip(r)

Next ==
    \/ \E w \in Writers : WriterStep(w)
    \/ \E r \in Readers : ReaderStep(r)
    \/ kfifo_reset

Spec == Init /\ [][Next]_vars

----------------------------------------------------------------------------
(* Properties.                                                              *)

(* The fifo never holds more than Size elements, across every wrap of the   *)
(* unsigned indices: otherwise in - out is no longer the number of elements *)
(* and unread data is overwritten.                                          *)
NeverOverfull == kfifo_len <= Size

(* What each side still has to copy fits what it may touch, although the    *)
(* other side's index has moved on since it was read.                       *)
ClaimsFit ==
    /\ \A w \in Writers : wpc[w] # "idle" => Len(src[w]) <= kfifo_unused
    /\ \A r \in Readers : rpc[r] # "idle" => rlen[r] <= kfifo_len

(* One writer and one reader at a time, by number or by the lock.           *)
Exclusive ==
    /\ \A v, w \in Writers : wpc[v] # "idle" /\ wpc[w] # "idle" => v = w
    /\ \A q, r \in Readers : rpc[q] # "idle" /\ rpc[r] # "idle" => q = r
    /\ LockIn => \A w \in Writers : wpc[w] # "idle" => in_lock = w
    /\ LockOut => \A r \in Readers : rpc[r] # "idle" => out_lock = r

(* A call copies no more than it set out to; idle threads hold nothing.     *)
Copying ==
    /\ \A w \in Writers : /\ wdone[w] <= Len(src[w])
                          /\ wpc[w] = "idle" => src[w] = <<>>
    /\ \A r \in Readers : /\ Len(dst[r]) <= rlen[r]
                          /\ rpc[r] = "idle" => rlen[r] = 0

IInv == TypeOK /\ Exclusive /\ Copying /\ NeverOverfull /\ ClaimsFit

WriteSlots(w) == {Slot(Plus(in, i)) : i \in wdone[w]..(Len(src[w]) - 1)}
ReadSlots(r) == {Slot(Plus(out, i)) : i \in Len(dst[r])..(rlen[r] - 1)}

(* "No locking required" between one writer and one reader: no slot that a  *)
(* writer is about to fill is one that a reader is about to read.           *)
NoRace == \A w \in Writers, r \in Readers : WriteSlots(w) \cap ReadSlots(r) = {}

(* The queue a kfifo implements: what lies between out and in.              *)
Contents == [i \in 1..kfifo_len |-> data[Slot(Plus(out, i - 1))]]

F == INSTANCE FifoPromise WITH queue <- Contents, offer <- src, hand <- dst

(* Elements come out in the order they went in, none lost, duplicated or    *)
(* read before it was written, whatever the interleaving.                   *)
KeepsPromise == F!Promise
============================================================================
