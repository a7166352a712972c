------------------------------ MODULE KfifoRec ------------------------------
(***************************************************************************)
(* kfifo.c's *_r functions: a fifo of records, each stored as its length   *)
(* in recsize bytes followed by its bytes, between the same two wrapping   *)
(* indices as in Kfifo.  One writer and one reader.  A call decides on its *)
(* lengths, copies, and publishes, in steps of their own.                  *)
(***************************************************************************)
EXTENDS Naturals, Sequences

CONSTANTS
    UINT,          \* number of values of an unsigned int
    Size,          \* mask + 1
    BYTE,          \* number of values of an unsigned char
    RecSizes,      \* bytes of a length field, fixed for each fifo
    Payload,       \* bytes that occur in records
    NONE

VARIABLES
    recsize,         \* of the fifo
    in, out, data,   \* of the fifo; data in bytes
    wpc, rec,        \* the writer: where it is, and the record it puts in
    rpc, rlen, n,    \* the reader: where it is, how much it copies of a record of length n
    dst              \* and what it has copied, or NONE

ring   == <<recsize, in, out, data>>
writer == <<wpc, rec>>
reader == <<rpc, rlen, n, dst>>
vars   == <<recsize, in, out, data, wpc, rec, rpc, rlen, n, dst>>

Byte == 0..(BYTE - 1)
Plus(i, k)  == (i + k) % UINT
Minus(i, j) == (i + UINT - j) % UINT
Slot(i) == i % Size
Least(a, b) == IF a <= b THEN a ELSE b

kfifo_len == Minus(in, out)
kfifo_unused == Size - kfifo_len

(* The longest length that recsize bytes can say; what a length becomes.    *)
MaxRecord == IF recsize = 1 THEN BYTE - 1 ELSE BYTE * BYTE - 1
kfifo_max_r_none(len) == len               \* mutant: no clamping
kfifo_max_r(len) == Least(len, MaxRecord)

(* The length field: what __kfifo_poke_n stores, what __kfifo_peek_n reads. *)
Header(len) ==
    IF recsize = 1 THEN <<len % BYTE>> ELSE <<len % BYTE, (len \div BYTE) % BYTE>>

LengthAt(i) == data[Slot(i)] + IF recsize = 1 THEN 0 ELSE BYTE * data[Slot(i + 1)]
kfifo_peek_n == LengthAt(out)

(* kfifo_copy_in and kfifo_copy_out, around the end of the ring.            *)
CopyIn(i, bytes) ==
    [s \in 0..(Size - 1) |->
        LET k == ((s + Size - Slot(i)) % Size) + 1
        IN  IF k <= Len(bytes) THEN bytes[k] ELSE data[s]]
CopyOut(i, len) == [k \in 1..len |-> data[Slot(i + k - 1)]]

TypeOK ==
    /\ recsize \in RecSizes
    /\ in \in 0..(UINT - 1) /\ out \in 0..(UINT - 1)
    /\ data \in [0..(Size - 1) -> Byte]
    /\ wpc \in {"idle", "copy", "transfer", "dma", "dma done", "publish"}
    /\ rec \in Seq(Payload) \cup {NONE}
    /\ rpc \in {"idle", "copy", "peek", "transfer", "dma", "publish", "peeked", "dma done"}
    /\ rlen \in 0..Size /\ n \in Nat
    /\ dst \in Seq(Byte) \cup {NONE}

Init ==
    /\ recsize \in RecSizes
    /\ in = 0 /\ out = 0
    /\ data = [s \in 0..(Size - 1) |-> 0]
    /\ wpc = "idle" /\ rec = NONE
    /\ rpc = "idle" /\ rlen = 0 /\ n = 0 /\ dst = NONE

----------------------------------------------------------------------------
(* The in side.                                                             *)

StartIn(buf, label) ==
    /\ wpc = "idle"
    /\ Len(buf) + recsize <= kfifo_unused
    /\ wpc' = label
    /\ rec' = buf
    /\ UNCHANGED <<ring, reader>>

Clamped(buf) == SubSeq(buf, 1, kfifo_max_r(Len(buf)))

(* It does not clamp; its caller keeps to what a length field can say.      *)
kfifo_in(buf) == Len(buf) <= MaxRecord /\ StartIn(buf, "copy")
kfifo_from_user(buf) == StartIn(Clamped(buf), "transfer")
kfifo_dma_in_prepare(buf) == StartIn(Clamped(buf), "dma")

Fill ==
    /\ wpc \in {"copy", "transfer"}
    /\ data' = CopyIn(in, Header(Len(rec)) \o rec)
    /\ wpc' = "publish"
    /\ UNCHANGED <<recsize, in, out, rec, reader>>

(* copy_from_user faults after k bytes: nothing is published.               *)
FaultIn ==
    /\ wpc = "transfer"
    /\ \E k \in 0..(Len(rec) - 1) : data' = CopyIn(in, Header(Len(rec)) \o SubSeq(rec, 1, k))
    /\ wpc' = "idle"
    /\ rec' = NONE
    /\ UNCHANGED <<recsize, in, out, reader>>

(* The device writes behind the length field, which is filled only when     *)
(* kfifo_dma_in_finish says how much it was.                                *)
DeviceFills ==
    /\ wpc = "dma"
    /\ data' = CopyIn(in + recsize, rec)
    /\ wpc' = "dma done"
    /\ UNCHANGED <<recsize, in, out, rec, reader>>

kfifo_dma_in_finish(len) ==
    /\ wpc = "dma done"
    /\ len \in 0..Len(rec)
    /\ data' = CopyIn(in, Header(len))
    /\ rec' = SubSeq(rec, 1, len)
    /\ wpc' = "publish"
    /\ UNCHANGED <<recsize, in, out, reader>>

PublishIn ==
    /\ wpc = "publish"
    /\ in' = Plus(in, Len(rec) + recsize)
    /\ wpc' = "idle"
    /\ rec' = NONE
    /\ UNCHANGED <<recsize, out, data, reader>>

----------------------------------------------------------------------------
(* The out side.                                                            *)

StartOut(len, label) ==
    /\ rpc = "idle"
    /\ in # out
    /\ n' = kfifo_peek_n
    /\ rlen' = Least(len, kfifo_peek_n)
    /\ rpc' = label
    /\ UNCHANGED <<ring, writer, dst>>

kfifo_out(len) == StartOut(len, "copy")
kfifo_out_peek(len) == StartOut(len, "peek")
kfifo_to_user(len) == StartOut(len, "transfer")

(* It does not look at the record's length: the caller has, with            *)
(* kfifo_peek_len, and asks for no more.                                    *)
kfifo_dma_out_prepare(len) ==
    /\ rpc = "idle"
    /\ in # out
    /\ len <= kfifo_peek_n
    /\ kfifo_max_r(len) + recsize <= kfifo_len
    /\ n' = kfifo_peek_n
    /\ rlen' = kfifo_max_r(len)
    /\ rpc' = "dma"
    /\ UNCHANGED <<ring, writer, dst>>

Take ==
    /\ rpc \in {"copy", "peek", "transfer", "dma"}
    /\ dst' = CopyOut(out + recsize, rlen)
    /\ rpc' = CASE rpc = "peek" -> "peeked" [] rpc = "dma" -> "dma done" [] OTHER -> "publish"
    /\ UNCHANGED <<ring, writer, rlen, n>>

Done ==
    /\ rpc' = "idle"
    /\ rlen' = 0 /\ n' = 0
    /\ dst' = NONE

FaultOut ==   \* copy_to_user faults: the record stays
    /\ rpc = "transfer"
    /\ Done
    /\ UNCHANGED <<ring, writer>>

PeekDone ==
    /\ rpc = "peeked"
    /\ Done
    /\ UNCHANGED <<ring, writer>>

PublishOutShort ==                  \* mutant: out moves by what was copied
    /\ rpc = "publish"
    /\ out' = Plus(out, rlen + recsize)
    /\ Done
    /\ UNCHANGED <<recsize, in, data, writer>>

PublishOut ==
    /\ rpc = "publish"
    /\ out' = Plus(out, n + recsize)
    /\ Done
    /\ UNCHANGED <<recsize, in, data, writer>>

kfifo_dma_out_finish ==
    /\ rpc = "dma done"
    /\ out' = Plus(out, kfifo_peek_n + recsize)
    /\ Done
    /\ UNCHANGED <<recsize, in, data, writer>>

kfifo_skip ==
    /\ rpc = "idle"
    /\ in # out
    /\ out' = Plus(out, kfifo_peek_n + recsize)
    /\ UNCHANGED <<recsize, in, data, writer, reader>>

kfifo_reset_out ==
    /\ rpc = "idle"
    /\ out' = in
    /\ UNCHANGED <<recsize, in, data, writer, reader>>

kfifo_reset ==   \* while nobody else is accessing the fifo
    /\ wpc = "idle" /\ rpc = "idle"
    /\ in' = 0 /\ out' = 0
    /\ UNCHANGED <<recsize, data, writer, reader>>

----------------------------------------------------------------------------
Buffers == UNION {[1..len -> Payload] : len \in 0..Size}

Next ==
    \/ \E buf \in Buffers : kfifo_in(buf) \/ kfifo_from_user(buf) \/ kfifo_dma_in_prepare(buf)
    \/ Fill \/ FaultIn \/ DeviceFills \/ PublishIn
    \/ \E len \in 0..Size : \/ kfifo_dma_in_finish(len)
                            \/ kfifo_out(len) \/ kfifo_out_peek(len) \/ kfifo_to_user(len)
                            \/ kfifo_dma_out_prepare(len)
    \/ Take \/ FaultOut \/ PeekDone \/ PublishOut \/ kfifo_dma_out_finish
    \/ kfifo_skip \/ kfifo_reset_out \/ kfifo_reset

Spec == Init /\ [][Next]_vars

----------------------------------------------------------------------------
(* What Kfifos states its properties of records with.                       *)

(* Where the k-th record starts, counted from out; it stays put at or       *)
(* behind in.                                                               *)
Start[k \in 0..Size] ==
    IF k = 0 THEN 0
    ELSE LET s == Start[k - 1]
         IN IF s >= kfifo_len THEN s ELSE s + LengthAt(out + s) + recsize

Tiled == kfifo_len <= Size /\ Start[Size] = kfifo_len

ClaimsHold ==
    /\ wpc # "idle" => Len(rec) + recsize <= kfifo_unused
    /\ rpc # "idle" => in # out /\ n = kfifo_peek_n

Count == CHOOSE k \in 0..Size : /\ k = Size \/ Start[k] >= kfifo_len
                               /\ \A j \in 0..(k - 1) : Start[j] < kfifo_len
Contents ==
    IF in = out THEN <<>>
    ELSE [k \in 1..Count |-> LET s == out + Start[k - 1] IN CopyOut(s + recsize, LengthAt(s))]

R == INSTANCE RecordPromise WITH queue <- Contents, offer <- rec, hand <- dst
============================================================================
