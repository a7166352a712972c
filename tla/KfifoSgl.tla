------------------------------ MODULE KfifoSgl ------------------------------
(***************************************************************************)
(* kfifo.c's setup_sgl: the entries of a scatterlist for the part of a     *)
(* fifo's ring that a DMA call is about to transfer.  The ring lies in     *)
(* virtual memory; entries are of physical memory, so they end where the   *)
(* ring wraps and where the next page lies elsewhere.                      *)
(***************************************************************************)
EXTENDS Naturals, Sequences, FiniteSets
LOCAL INSTANCE SequencesExt

CONSTANTS
    PAGE_SIZE,
    LastPage,     \* pages of virtual memory: 0..LastPage
    Rings,        \* sizes of rings: <<mask + 1, esize>>
    MaxEntries    \* bound on nents

ASSUME KfifoSglConstants ==
    /\ PAGE_SIZE \in Nat \ {0} /\ LastPage \in Nat /\ MaxEntries \in Nat
    \* the ring, which starts in page 0, ends before the last page does
    /\ \A r \in Rings : r \in Nat \X Nat /\ r[1] * r[2] + PAGE_SIZE <= (LastPage + 1) * PAGE_SIZE

VARIABLES
    frame,        \* page_to_phys of each page, in pages; <<>> before there is a fifo
    base,         \* fifo->data
    ring,         \* <<mask + 1, esize>>
    transfer,     \* the elements to transfer: the first and how many, and the entries there are
    sgl           \* the entries: a physical address and a length each

sgl_vars == <<frame, base, ring, transfer, sgl>>

NoTransfer == [first |-> 0, len |-> 0, nents |-> 0]

SglTypeOK ==
    /\ frame = <<>> \/ DOMAIN frame = 0..LastPage
    /\ base \in 0..(PAGE_SIZE - 1)
    /\ transfer \in [first : Nat, len : Nat, nents : 0..MaxEntries]
    /\ sgl \in Seq(Nat \X Nat)

SglInit ==
    /\ frame = <<>> /\ base = 0 /\ ring = <<0, 0>>
    /\ transfer = NoTransfer /\ sgl = <<>>

(* kfifo_init with a buffer somewhere, over neighbouring pages that lie one *)
(* behind the other or not.                                                 *)
Frames == {[p \in 0..LastPage |-> p + Cardinality(gaps \cap 1..p)] : gaps \in SUBSET (1..LastPage)}

sgl_init ==
    /\ frame = <<>>
    /\ frame' \in Frames /\ base' \in 0..(PAGE_SIZE - 1) /\ ring' \in Rings
    /\ UNCHANGED <<transfer, sgl>>

Shorter(a, b) == IF a <= b THEN a ELSE b

(* The loop of setup_sgl_buf: an entry starts off bytes into page p, l      *)
(* bytes from the start of that page are known to lie in one piece, len     *)
(* bytes are still to come and left entries may be used.                    *)
setup_loop[p \in Nat, off \in Nat, l \in Nat, len \in Nat, left \in Nat] ==
    LET more  == l + PAGE_SIZE
        next  == p + (more \div PAGE_SIZE)
        whole == <<frame[p] * PAGE_SIZE + off, more - off>>
    IN  IF len < more - off THEN <<<<frame[p] * PAGE_SIZE + off, len>>>>
        ELSE IF frame[next] * PAGE_SIZE = frame[p] * PAGE_SIZE + more
             THEN setup_loop[p, off, more, len, left]
        ELSE IF left = 1 THEN <<whole>>
        ELSE <<whole>> \o setup_loop[next, 0, 0, len - (more - off), left - 1]

setup_sgl_buf(buf, nents, len) ==
    IF nents = 0 \/ len = 0 THEN <<>>
    ELSE setup_loop[buf \div PAGE_SIZE, buf % PAGE_SIZE, 0, len, nents]

setup_sgl_all(nents, len, off) ==      \* mutant: every entry for either piece
    LET esize == ring[2]
        start == (off % ring[1]) * esize
        l     == Shorter(len * esize, ring[1] * esize - start)
        front == setup_sgl_buf(base + start, nents, l)
    IN  front \o setup_sgl_buf(base, nents, len * esize - l)

setup_sgl(nents, len, off) ==
    LET esize == ring[2]
        start == (off % ring[1]) * esize
        l     == Shorter(len * esize, ring[1] * esize - start)
        front == setup_sgl_buf(base + start, nents, l)
    IN  front \o setup_sgl_buf(base, nents - Len(front), len * esize - l)

(* __kfifo_dma_in_prepare and __kfifo_dma_out_prepare have bounded len by   *)
(* the room or the contents (see Kfifo); the index may be past mask.        *)
dma_prepare(nents, len, index) ==
    /\ frame # <<>> /\ transfer = NoTransfer
    /\ len <= ring[1]
    /\ sgl' = setup_sgl(nents, len, index)
    /\ transfer' = [first |-> index, len |-> len, nents |-> nents]
    /\ UNCHANGED <<frame, base, ring>>

dma_finish ==
    /\ transfer # NoTransfer
    /\ transfer' = NoTransfer /\ sgl' = <<>>
    /\ UNCHANGED <<frame, base, ring>>

SglNext ==
    \/ sgl_init
    \/ \E nents \in 0..MaxEntries, index \in 0..ring[1], len \in 0..ring[1] : dma_prepare(nents, len, index)
    \/ dma_finish

SglSpec == SglInit /\ [][SglNext]_sgl_vars

----------------------------------------------------------------------------
(* Properties.                                                              *)

Bytes(entry) == [i \in 1..entry[2] |-> entry[1] + i - 1]
Described == FlattenSeq([i \in 1..Len(sgl) |-> Bytes(sgl[i])])
PhysicalByte(i) ==   \* of the transfer
    LET start == (transfer.first % ring[1]) * ring[2]
        at    == base + ((start + i - 1) % (ring[1] * ring[2]))
    IN  frame[at \div PAGE_SIZE] * PAGE_SIZE + (at % PAGE_SIZE)
Expected == [i \in 1..(transfer.len * ring[2]) |-> PhysicalByte(i)]

(* The device is given the bytes of the transfer, in order, wherever the    *)
(* ring wraps, pages end or the entries run out; when they do not, all.     *)
SglDescribes ==
    /\ Len(sgl) <= transfer.nents
    /\ IsPrefix(Described, Expected)
    /\ Len(sgl) < transfer.nents => Described = Expected
============================================================================
