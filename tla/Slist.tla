------------------------------- MODULE Slist -------------------------------
(***************************************************************************)
(* slist.h (stack.h): a stack of nodes linked from first, pushed to and    *)
(* popped from by compare-and-exchange loops, and emptied by an exchange.  *)
(*                                                                         *)
(* Grain: one access to first, or to the next of a node another thread may *)
(* see, is one step.  A write to the next of a node that is not on the     *)
(* list yet belongs to the step before it.                                 *)
(***************************************************************************)
EXTENDS Naturals, FiniteSets

CONSTANTS
    Nodes,      \* struct slist_node objects; a node may be freed and used again
    Threads,
    Uses,       \* ways in which a list is used, see UseType
    NULL

(* Who calls slist_add; who calls slist_remove_head; who calls              *)
(* slist_del_all and walks over what it got; who uses slist_for_each_safe,  *)
(* freeing each node in its body; and whether cmpxchg is one access to      *)
(* memory (not so with LOCK_PREFIX "" on a multiprocessor).                 *)
UseType == [adders : SUBSET Threads, poppers : SUBSET Threads, drainers : SUBSET Threads,
            sweepers : SUBSET Threads, atomic : BOOLEAN]

ASSUME SlistConstants ==
    /\ IsFiniteSet(Nodes)
    /\ Uses \subseteq UseType
    /\ NULL \notin Nodes \cup Threads

VARIABLES
    use,            \* how this list is used
    first,          \* head->first
    next,           \* next of each node
    free,           \* nodes that are in nobody's use
    consumer_lock,  \* the lock the table in slist.h asks consumers for, or NULL
    pc,             \* where each thread is
    entry,          \* entry (then old_entry) of slist_add and slist_remove_head; a traversal's cursor
    new             \* what cmpxchg is to store: new_node, new_entry

vars == <<use, first, next, free, consumer_lock, pc, entry, new>>

NodeOrNull == Nodes \cup {NULL}

TypeOK ==
    /\ use \in Uses
    /\ first \in NodeOrNull
    /\ next \in [Nodes -> NodeOrNull]
    /\ free \subseteq Nodes
    /\ consumer_lock \in use.poppers \cup {NULL}
    /\ pc \in [Threads -> {"idle", "add", "load", "pop", "add store", "pop store",
                           "visit", "sweep", "drop"}]
    /\ entry \in [Threads -> NodeOrNull]
    /\ new \in [Threads -> NodeOrNull]
    /\ \A t \in Threads : pc[t] \in {"load", "visit", "sweep"} => entry[t] # NULL

Init ==   \* slist_init
    /\ use \in Uses
    /\ first = NULL
    /\ next = [n \in Nodes |-> NULL]
    /\ free = Nodes
    /\ consumer_lock = NULL
    /\ pc = [t \in Threads |-> "idle"]
    /\ entry = [t \in Threads |-> NULL]
    /\ new = [t \in Threads |-> NULL]

slist_empty == first = NULL

Goto(t, label) == pc' = [pc EXCEPT ![t] = label]

(* A call that is over keeps nothing in its locals.                         *)
Return(t) ==
    /\ Goto(t, "idle")
    /\ entry' = [entry EXCEPT ![t] = NULL]
    /\ new' = [new EXCEPT ![t] = NULL]

----------------------------------------------------------------------------
(* The two loops.  Each reads first, then tries to exchange it.             *)

slist_add(t, n) ==
    /\ pc[t] = "idle"
    /\ t \in use.adders
    /\ n \in free
    /\ free' = free \ {n}
    /\ entry' = [entry EXCEPT ![t] = first]
    /\ next' = [next EXCEPT ![n] = first]
    /\ new' = [new EXCEPT ![t] = n]
    /\ Goto(t, "add")
    /\ UNCHANGED <<use, first, consumer_lock>>

(* The caller holds the consumers' lock and has seen that the list is not   *)
(* empty, which the function itself does not test.                          *)
slist_remove_head(t) ==
    /\ pc[t] = "idle"
    /\ t \in use.poppers
    /\ consumer_lock = NULL
    /\ ~slist_empty
    /\ consumer_lock' = t
    /\ entry' = [entry EXCEPT ![t] = first]
    /\ Goto(t, "load")
    /\ UNCHANGED <<use, first, next, free, new>>

Load(t) ==
    /\ pc[t] = "load"
    /\ new' = [new EXCEPT ![t] = next[entry[t]]]
    /\ Goto(t, "pop")
    /\ UNCHANGED <<use, first, next, free, consumer_lock, entry>>

(* cmpxchg returned what it found in first, which was not old_entry.        *)
RetryStale(t) ==                    \* mutant: the value found is not taken over
    /\ Goto(t, IF pc[t] = "pop" THEN "load" ELSE pc[t])
    /\ UNCHANGED <<next, entry>>

RetryWithoutReload(t) ==            \* mutant: what to store is not computed anew
    /\ entry' = [entry EXCEPT ![t] = first]
    /\ UNCHANGED <<pc, next>>

Retry(t) ==
    /\ entry' = [entry EXCEPT ![t] = first]
    /\ IF pc[t] = "add" THEN next' = [next EXCEPT ![new[t]] = first] /\ UNCHANGED pc
                        ELSE Goto(t, "load") /\ UNCHANGED next

(* cmpxchg has stored new: slist_add is done, and slist_remove_head's       *)
(* caller has the node.                                                     *)
Succeed(t, popping) ==
    /\ first' = new[t]
    /\ Return(t)
    /\ IF popping THEN free' = free \cup {entry[t]} /\ consumer_lock' = NULL
                  ELSE UNCHANGED <<free, consumer_lock>>
    /\ UNCHANGED <<use, next>>

ExchangeBlind(t) ==                 \* mutant: cmpxchg stores without comparing
    /\ use.atomic
    /\ pc[t] \in {"add", "pop"}
    /\ Succeed(t, pc[t] = "pop")

cmpxchg(t) ==
    /\ use.atomic
    /\ pc[t] \in {"add", "pop"}
    /\ IF first = entry[t]
         THEN Succeed(t, pc[t] = "pop")
         ELSE Retry(t) /\ UNCHANGED <<use, first, free, consumer_lock, new>>

(* cmpxchg without a lock prefix: other processors get in between.          *)
Compare(t) ==
    /\ ~use.atomic
    /\ pc[t] \in {"add", "pop"}
    /\ IF first = entry[t]
         THEN Goto(t, IF pc[t] = "add" THEN "add store" ELSE "pop store")
              /\ UNCHANGED <<next, entry>>
         ELSE Retry(t)
    /\ UNCHANGED <<use, first, free, consumer_lock, new>>

Store(t) ==
    /\ pc[t] \in {"add store", "pop store"}
    /\ Succeed(t, pc[t] = "pop store")

----------------------------------------------------------------------------
(* Taking everything, and the two traversals.                               *)

(* xchg is atomic.  The lock is for consumers that use slist_remove_head.   *)
slist_del_all(t) ==
    /\ pc[t] = "idle"
    /\ t \in use.drainers
    /\ consumer_lock = NULL
    /\ ~slist_empty
    /\ entry' = [entry EXCEPT ![t] = first]
    /\ first' = NULL
    /\ Goto(t, "visit")
    /\ UNCHANGED <<use, next, free, consumer_lock, new>>

(* slist_for_each: moves on, then frees the node it left.                   *)
slist_for_each(t) ==
    /\ pc[t] = "visit"
    /\ free' = free \cup {entry[t]}
    /\ IF next[entry[t]] = NULL
         THEN Return(t)
         ELSE entry' = [entry EXCEPT ![t] = next[@]] /\ UNCHANGED <<pc, new>>
    /\ UNCHANGED <<use, first, next, consumer_lock>>

(* slist_for_each_safe: i = first; then, as long as i is a node, t =        *)
(* i->next and the body ...                                                 *)
slist_for_each_safe(t) ==
    /\ pc[t] = "idle"
    /\ t \in use.sweepers
    /\ ~slist_empty
    /\ entry' = [entry EXCEPT ![t] = first]
    /\ Goto(t, "sweep")
    /\ UNCHANGED <<use, first, next, free, consumer_lock, new>>

Sweep(t) ==
    /\ pc[t] = "sweep"
    /\ new' = [new EXCEPT ![t] = next[entry[t]]]
    /\ free' = free \cup {entry[t]}
    /\ Goto(t, "drop")
    /\ UNCHANGED <<use, first, next, consumer_lock, entry>>

DropNothing(t) ==                   \* mutant: slist_del_all is missing
    /\ pc[t] = "drop"
    /\ IF new[t] = NULL
         THEN Return(t)
         ELSE /\ entry' = [entry EXCEPT ![t] = new[t]]
              /\ new' = [new EXCEPT ![t] = NULL]
              /\ Goto(t, "sweep")
    /\ UNCHANGED <<use, first, next, free, consumer_lock>>

(* ... then i = t, slist_del_all(list).                                     *)
Drop(t) ==
    /\ pc[t] = "drop"
    /\ first' = NULL
    /\ IF new[t] = NULL
         THEN Return(t)
         ELSE /\ entry' = [entry EXCEPT ![t] = new[t]]
              /\ new' = [new EXCEPT ![t] = NULL]
              /\ Goto(t, "sweep")
    /\ UNCHANGED <<use, next, free, consumer_lock>>

----------------------------------------------------------------------------
Call(t) ==
    \/ \E n \in Nodes : slist_add(t, n)
    \/ slist_remove_head(t)
    \/ slist_del_all(t)
    \/ slist_for_each_safe(t)

Step(t) ==
    \/ Load(t) \/ cmpxchg(t) \/ Compare(t) \/ Store(t)
    \/ slist_for_each(t)
    \/ Sweep(t) \/ Drop(t)

Next == \E t \in Threads : Call(t) \/ Step(t)

Spec == Init /\ [][Next]_vars

(* A thread inside a call keeps running.                                    *)
FairSpec == Spec /\ \A t \in Threads : WF_vars(Step(t))

----------------------------------------------------------------------------
(* Properties.                                                              *)

Turns == 0..Cardinality(Nodes)

(* A step along next, which stays where the list ends; k of them; and the  *)
(* nodes they lead to.                                                      *)
Onward == [s \in NodeOrNull |-> IF s = NULL THEN NULL ELSE next[s]]

After[k \in Turns] ==
    IF k = 0 THEN [s \in NodeOrNull |-> s]
             ELSE [s \in NodeOrNull |-> Onward[After[k - 1][s]]]

From(s) == {After[k][s] : k \in Turns} \ {NULL}

OnList == From(first)
Adding == {new[t] : t \in {u \in Threads : pc[u] \in {"add", "add store"}}}

(* What a traversal has still to visit.                                     *)
Ahead(t) ==
    IF pc[t] \in {"visit", "sweep"} THEN From(entry[t])
    ELSE IF pc[t] = "drop" THEN From(new[t]) ELSE {}

(* Every node that was added is on the list, or taken off it by someone who *)
(* still is to see it: no push overwrites another one, no pop or traversal  *)
(* drops what is behind the node it takes.                                  *)
NothingLost == Nodes = free \cup Adding \cup OnList \cup UNION {Ahead(t) : t \in Threads}

(* Nobody uses a node twice: what is free or still being added is neither   *)
(* on the list nor ahead of a traversal, and what a traversal took is no    *)
(* longer on the list nor another's to visit.  slist_for_each_safe, which   *)
(* walks the list itself and frees nodes still linked, is left out.         *)
OneOwner ==
    use.sweepers = {} =>
        /\ free \cap OnList = {} /\ free \cap Adding = {} /\ Adding \cap OnList = {}
        /\ \A t \in Threads : Ahead(t) \cap (free \cup Adding \cup OnList) = {}
        /\ \A t, u \in Threads : t # u => Ahead(t) \cap Ahead(u) = {}
        /\ \A t, u \in Threads : pc[t] = "add" /\ pc[u] = "add" /\ new[t] = new[u] => t = u

(* Whoever uses a node owns it.  And slist_remove_head reads the next of a  *)
(* node that is on the list, although it saw that node in first some time   *)
(* ago: it is neither NULL nor freed.  "llist_del_first depends on          *)
(* list->first->next does not changed if list->first is not changed": what  *)
(* an exchange is about to store really is what comes after the node it     *)
(* compares with.                                                           *)
NodesSafe ==
    /\ TypeOK /\ OneOwner
    /\ \A t \in Threads :
          /\ pc[t] = "load" => entry[t] \in OnList
          /\ pc[t] = "pop" /\ first = entry[t] => new[t] = next[first]

(* The stack a list implements.                                             *)
Contents == [k \in 1..Cardinality(OnList) |-> After[k - 1][first]]

S == INSTANCE StackPromise WITH stack <- Contents

(* Nodes come off in the reverse of the order they were put on, each once.  *)
KeepsPromise == S!PromiseInit /\ [][vars' # vars => S!Step]_vars

(* No two loops can hold each other up: as long as some call is under way,  *)
(* calls keep returning.                                                    *)
Returns == \E t \in Threads : pc[t] # "idle" /\ pc'[t] = "idle"
LockFree == <>[](\E t \in Threads : pc[t] # "idle") => []<><<Returns>>_vars
============================================================================
