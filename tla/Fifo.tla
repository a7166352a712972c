-------------------------------- MODULE Fifo --------------------------------
(***************************************************************************)
(* fifo.h (queue.h): a ring of pointers with one slot more than it may     *)
(* hold, for one producer and one consumer without a lock.  Each side      *)
(* moves its own index only.  The accesses are in program order: the       *)
(* indices are volatile, and an x86 keeps stores in order.                 *)
(***************************************************************************)
EXTENDS Naturals, Sequences

CONSTANTS
    Capacity,   \* the argument of fifo_init
    Values,     \* entries
    NONE        \* what fresh memory holds

ASSUME FifoConstants ==
    /\ Capacity \in Nat
    /\ NONE \notin Values

VARIABLES
    tail, head,   \* of the fifo
    table,        \* fifo->table, or <<>> when the fifo is closed
    put, putting, \* the producer: where it is in fifo_put, and its entry
    get, item     \* the consumer: where it is in fifo_get, and its item

fifo_vars == <<tail, head, table, put, putting, get, item>>

max == Capacity + 1
Slots == 0..(max - 1)

increment(idx) == (idx + 1) % max

Closed == table = <<>>

FifoTypeOK ==
    /\ tail \in Slots /\ head \in Slots
    /\ Closed \/ table \in [Slots -> Values \cup {NONE}]
    /\ put \in {"idle", "store", "advance"} /\ putting \in Values \cup {NONE}
    /\ get \in {"idle", "load", "advance"} /\ item \in Values \cup {NONE}

FifoInit ==   \* before fifo_init
    /\ tail = 0 /\ head = 0
    /\ table = <<>>
    /\ put = "idle" /\ putting = NONE
    /\ get = "idle" /\ item = NONE

(* The producer and the consumer call fifo_init and fifo_close between      *)
(* their other calls.                                                       *)
fifo_init ==
    /\ put = "idle" /\ get = "idle" /\ Closed
    /\ tail' = 0 /\ head' = 0
    /\ table' = [i \in Slots |-> NONE]
    /\ UNCHANGED <<put, putting, get, item>>

fifo_close ==
    /\ put = "idle" /\ get = "idle" /\ ~Closed
    /\ table' = <<>>
    /\ UNCHANGED <<tail, head, put, putting, get, item>>

fifo_empty == head = tail
fifo_full == increment(tail) = head

put_unchecked(entry) ==             \* mutant: the test for full is missing
    /\ put = "idle" /\ ~Closed
    /\ put' = "store" /\ putting' = entry
    /\ UNCHANGED <<tail, head, table, get, item>>

(* fifo_put, when it finds room.                                            *)
fifo_put(entry) ==
    /\ put = "idle" /\ ~Closed
    /\ increment(tail) # head
    /\ put' = "store" /\ putting' = entry
    /\ UNCHANGED <<tail, head, table, get, item>>

(* fifo->table[fifo->tail] = entry                                          *)
Store ==
    /\ put = "store"
    /\ table' = [table EXCEPT ![tail] = putting]
    /\ put' = "advance"
    /\ UNCHANGED <<tail, head, putting, get, item>>

AdvanceTail ==
    /\ put = "advance"
    /\ tail' = increment(tail)
    /\ put' = "idle" /\ putting' = NONE
    /\ UNCHANGED <<head, table, get, item>>

(* fifo_get, when it finds an entry.                                        *)
fifo_get ==
    /\ get = "idle" /\ ~Closed
    /\ head # tail
    /\ get' = "load"
    /\ UNCHANGED <<tail, head, table, put, putting, item>>

Load ==
    /\ get = "load"
    /\ item' = table[head]
    /\ get' = "advance"
    /\ UNCHANGED <<tail, head, table, put, putting>>

AdvanceHead ==
    /\ get = "advance"
    /\ head' = increment(head)
    /\ get' = "idle" /\ item' = NONE
    /\ UNCHANGED <<tail, table, put, putting>>

FifoNext ==
    \/ fifo_init \/ fifo_close
    \/ (\E entry \in Values : fifo_put(entry)) \/ Store \/ AdvanceTail
    \/ fifo_get \/ Load \/ AdvanceHead

FifoSpec == FifoInit /\ [][FifoNext]_fifo_vars

----------------------------------------------------------------------------
(* Properties.                                                              *)

Length == IF tail >= head THEN tail - head ELSE tail + max - head

(* The queue the fifo implements.                                           *)
Queued == IF Closed THEN <<>> ELSE [i \in 1..Length |-> table[(head + i - 1) % max]]

(* What the producer is putting in, and the consumer has read already.      *)
Offered == [w \in {"producer"} |-> IF put = "idle" THEN <<>> ELSE <<putting>>]
InHand  == [r \in {"consumer"} |-> IF get = "advance" THEN <<item>> ELSE <<>>]

F == INSTANCE FifoPromise WITH
        Writers <- {"producer"}, Readers <- {"consumer"}, Size <- Capacity,
        queue <- Queued, offer <- Offered, hand <- InHand

(* Entries come out in the order they went in, each once, and never more    *)
(* than Capacity are in: no slot is read before it is filled, or filled     *)
(* before it is read.                                                       *)
FifoKeepsPromise == F!Promise
============================================================================
