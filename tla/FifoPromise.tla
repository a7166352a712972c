---------------------------- MODULE FifoPromise ----------------------------
(***************************************************************************)
(* What a kfifo promises: one queue of at most Size elements.  A writer    *)
(* offers a sequence and appends it to the queue as a whole (or, after a   *)
(* fault, a prefix of it); a reader copies elements off the front, one     *)
(* after another, into its hand, and then either takes them out of the     *)
(* queue or, after a peek, leaves them there.                              *)
(***************************************************************************)
EXTENDS Naturals, Sequences

CONSTANTS Writers, Readers, Values, Size

VARIABLES queue, offer, hand

fvars == <<queue, offer, hand>>

PromiseInit ==
    /\ queue = <<>>
    /\ offer = [w \in Writers |-> <<>>]
    /\ hand = [r \in Readers |-> <<>>]

Room == Size - Len(queue)

Offer(w) ==
    /\ offer[w] = <<>>
    /\ UNCHANGED <<queue, hand>>
    /\ offer'[w] \in Seq(Values) /\ Len(offer'[w]) \in 1..Room
    /\ offer' = [offer EXCEPT ![w] = offer'[w]]

Shorten(w) ==
    /\ UNCHANGED <<queue, hand>>
    /\ \E k \in 0..Len(offer[w]) : offer' = [offer EXCEPT ![w] = SubSeq(@, 1, k)]

Put(w) ==
    /\ Len(offer[w]) <= Room
    /\ queue' = queue \o offer[w]
    /\ offer' = [offer EXCEPT ![w] = <<>>]
    /\ UNCHANGED hand

Pick(r) ==
    /\ Len(hand[r]) < Len(queue)
    /\ hand' = [hand EXCEPT ![r] = SubSeq(queue, 1, Len(@) + 1)]
    /\ UNCHANGED <<queue, offer>>

Take(r) ==
    /\ queue' = SubSeq(queue, Len(hand[r]) + 1, Len(queue))
    /\ hand' = [hand EXCEPT ![r] = <<>>]
    /\ UNCHANGED offer

Leave(r) ==
    /\ hand' = [hand EXCEPT ![r] = <<>>]
    /\ UNCHANGED <<queue, offer>>

(* Skipping and resetting, while no reader holds anything.                  *)
Discard ==
    /\ \A r \in Readers : hand[r] = <<>>
    /\ \E k \in 1..Len(queue) : queue' = SubSeq(queue, k + 1, Len(queue))
    /\ UNCHANGED <<offer, hand>>

PromiseNext ==
    \/ Discard
    \/ \E w \in Writers : Offer(w) \/ Shorten(w) \/ Put(w)
    \/ \E r \in Readers : Pick(r) \/ Take(r) \/ Leave(r)

Promise == PromiseInit /\ [][PromiseNext]_fvars
============================================================================
