--------------------------- MODULE RecordPromise ---------------------------
(***************************************************************************)
(* What a kfifo of records promises: a queue of records.  The writer       *)
(* offers one and appends it (or, when a device delivered less, its front);*)
(* the reader looks at the front of the first record, and takes the whole  *)
(* record out.                                                             *)
(***************************************************************************)
EXTENDS Naturals, Sequences

CONSTANT NONE

VARIABLES
    queue,     \* the records
    offer,     \* the record the writer is putting in, or NONE
    hand       \* what the reader has copied of the first record, or NONE

rvars == <<queue, offer, hand>>

Front(s, k) == SubSeq(s, 1, k)

Offer == /\ offer = NONE
         /\ offer' # NONE
         /\ UNCHANGED <<queue, hand>>

Shorten == /\ offer # NONE
           /\ \E k \in 0..Len(offer) : offer' = Front(offer, k)
           /\ UNCHANGED <<queue, hand>>

Withdraw == /\ offer' = NONE
            /\ UNCHANGED <<queue, hand>>

Put == /\ offer # NONE
       /\ queue' = Append(queue, offer)
       /\ offer' = NONE
       /\ UNCHANGED hand

Look == /\ queue # <<>>
        /\ \E k \in 0..Len(queue[1]) : hand' = Front(queue[1], k)
        /\ UNCHANGED <<queue, offer>>

LookAway == /\ hand' = NONE
            /\ UNCHANGED <<queue, offer>>

(* Taking the first record, looked at or not.                               *)
Take == /\ queue # <<>>
        /\ queue' = Tail(queue)
        /\ hand' = NONE
        /\ UNCHANGED offer

Discard == /\ hand = NONE
           /\ queue' = <<>>
           /\ UNCHANGED <<offer, hand>>

PromiseInit == queue = <<>> /\ offer = NONE /\ hand = NONE

PromiseNext == Offer \/ Shorten \/ Withdraw \/ Put \/ Look \/ LookAway \/ Take \/ Discard

Promise == PromiseInit /\ [][PromiseNext]_rvars
============================================================================
