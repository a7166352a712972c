------------------------------- MODULE Klist -------------------------------
(***************************************************************************)
(* klist.c: a doubly linked list whose nodes carry reference counts, so    *)
(* that iterators survive concurrent insertions and removals.  One klist,  *)
(* a set of client threads, each with at most one open iterator and one    *)
(* call in progress.                                                       *)
(*                                                                         *)
(* Grain: a critical section on k_lock that ends without releasing a node  *)
(* is one step.  klist_release takes several steps, because klist_remove   *)
(* reads waiter.woken, and klist_node_attached reads n_klist, without the  *)
(* lock; so does the loop of klist_next that skips dead nodes.             *)
(***************************************************************************)
EXTENDS Naturals, FiniteSets

CONSTANTS
    Nodes,             \* struct klist_node objects
    Threads,           \* tasks that call the klist functions
    HEAD,              \* &k->k_list, the list head
    NULL,
    RemoveWhilePinned, \* a client may klist_remove while its iterator holds a node
    StartAnywhere      \* a client may start an iterator at a node others may remove

ASSUME KlistConstants ==
    /\ IsFiniteSet(Threads) /\ IsFiniteSet(Nodes)
    /\ HEAD \notin Nodes
    /\ NULL \notin Nodes \cup Threads \cup {HEAD}
    /\ {RemoveWhilePinned, StartAnywhere} \subseteq BOOLEAN

VARIABLES
    next, prev,            \* list_head.next and .prev of HEAD and of every node
    n_klist,               \* "NULL", "k", or "k|dead" (KNODE_DEAD in the lowest bit)
    n_ref,                 \* kref of each node
    k_lock,                \* holder of k->k_lock, or NULL
    klist_remove_lock,     \* holder of klist_remove_lock, or NULL
    klist_remove_waiters,  \* threads whose struct klist_waiter is on that list
    waiter,                \* the struct klist_waiter in each thread's frame
    state,                 \* scheduler state of each thread
    i_open, i_cur,         \* each thread's klist_iter: in use or not, and i_cur
    pc, fr,                \* where each thread is in its call, and the call's locals
    objref,                \* references k->get took on a node's object, less k->put's
    owned                  \* linked nodes that no klist_del or klist_remove names yet

list  == <<next, prev>>
node  == <<n_klist, n_ref>>
wq    == <<klist_remove_lock, klist_remove_waiters, waiter, state>>
iters == <<i_open, i_cur>>
vars  == <<list, node, k_lock, wq, iters, pc, fr, objref, owned>>

Slots == Nodes \cup {HEAD}

knode_dead(n) == n_klist[n] = "k|dead"
klist_node_attached(n) == n_klist[n] # "NULL"

(* The locals of a call: which function runs (op), its node, the next of    *)
(* klist_next (for an insertion, the position), whether put is still set,   *)
(* and the waiter that klist_release's loop is at.                          *)
FrameKeepsPut(op, n, nxt, put) ==   \* mutant: put is not cleared after a drop
    [op |-> op, node |-> n, next |-> nxt, put |-> n # NULL, w |-> NULL]
Frame(op, n, nxt, put) == [op |-> op, node |-> n, next |-> nxt, put |-> put, w |-> NULL]
NoCall == Frame("none", NULL, NULL, FALSE)

TypeOK ==
    /\ next \in [Slots -> Slots \cup {NULL}]
    /\ prev \in [Slots -> Slots \cup {NULL}]
    /\ n_klist \in [Nodes -> {"NULL", "k", "k|dead"}]
    /\ n_ref \in [Nodes -> Nat]
    /\ k_lock \in Threads \cup {NULL}
    /\ klist_remove_lock \in Threads \cup {NULL}
    /\ klist_remove_waiters \subseteq Threads
    /\ waiter \in [Threads -> [node : Nodes \cup {NULL}, woken : BOOLEAN]]
    /\ state \in [Threads -> {"RUNNING", "UNINTERRUPTIBLE"}]
    /\ i_open \in [Threads -> BOOLEAN]
    /\ i_cur \in [Threads -> Nodes \cup {NULL}]
    /\ pc \in [Threads -> {"idle", "after", "before", "enlist", "kill", "release", "wake",
                           "rouse", "delist", "detach", "scan", "put", "sleep", "check",
                           "schedule"}]
    /\ fr \in [Threads -> [op : {"none", "add", "put", "remove", "next"},
                           node : Nodes \cup {NULL}, next : Slots \cup {NULL},
                           put : BOOLEAN, w : Threads \cup {NULL}]]
    /\ objref \in [Nodes -> Nat]
    /\ owned \subseteq Nodes

Init ==   \* klist_init, and nodes in zeroed memory
    /\ next = [s \in Slots |-> IF s = HEAD THEN HEAD ELSE NULL]
    /\ prev = [s \in Slots |-> IF s = HEAD THEN HEAD ELSE NULL]
    /\ n_klist = [n \in Nodes |-> "NULL"]
    /\ n_ref = [n \in Nodes |-> 0]
    /\ k_lock = NULL
    /\ klist_remove_lock = NULL
    /\ klist_remove_waiters = {}
    /\ waiter = [t \in Threads |-> [node |-> NULL, woken |-> FALSE]]
    /\ state = [t \in Threads |-> "RUNNING"]
    /\ i_open = [t \in Threads |-> FALSE]
    /\ i_cur = [t \in Threads |-> NULL]
    /\ pc = [t \in Threads |-> "idle"]
    /\ fr = [t \in Threads |-> NoCall]
    /\ objref = [n \in Nodes |-> 0]
    /\ owned = {}

Goto(t, label) == pc' = [pc EXCEPT ![t] = label]

(* The end of klist_put or klist_next: klist_remove goes on to its wait,    *)
(* every other caller returns to the client.                                *)
Finish(t, op) ==
    IF op = "remove" THEN Goto(t, "sleep") /\ UNCHANGED fr
                     ELSE Goto(t, "idle")  /\ fr' = [fr EXCEPT ![t] = NoCall]

----------------------------------------------------------------------------
(* list.h: insertion between two neighbours, and deletion with poisoning.   *)

InsertTooEarly(n, p, q) ==          \* mutant: prev->next is overwritten before it is read
    /\ next' = [next EXCEPT ![p] = n, ![n] = n]
    /\ prev' = [prev EXCEPT ![q] = n, ![n] = p]

InsertBetween(n, p, q) ==
    /\ next' = [next EXCEPT ![p] = n, ![n] = q]
    /\ prev' = [prev EXCEPT ![q] = n, ![n] = p]

list_del_forward(n) ==              \* mutant: the successor's prev is left alone
    /\ next' = [next EXCEPT ![prev[n]] = next[n], ![n] = NULL]
    /\ prev' = [prev EXCEPT ![n] = NULL]

list_del(n) ==
    /\ next' = [next EXCEPT ![prev[n]] = next[n], ![n] = NULL]
    /\ prev' = [prev EXCEPT ![next[n]] = prev[n], ![n] = NULL]

----------------------------------------------------------------------------
(* Adding.  A client adds a node that klist_node_attached says is free.     *)

klist_node_init(n) ==
    /\ next' = [next EXCEPT ![n] = n]
    /\ prev' = [prev EXCEPT ![n] = n]
    /\ n_ref' = [n_ref EXCEPT ![n] = 1]
    /\ n_klist' = [n_klist EXCEPT ![n] = "k"]
    /\ objref' = [objref EXCEPT ![n] = @ + 1]

AddAt(t, n, pos, label) ==
    /\ pc[t] = "idle"
    /\ ~klist_node_attached(n)
    /\ klist_node_init(n)
    /\ fr' = [fr EXCEPT ![t] = Frame("add", n, pos, FALSE)]
    /\ Goto(t, label)
    /\ UNCHANGED <<k_lock, wq, iters, owned>>

klist_add_head(t, n) == AddAt(t, n, HEAD, "after")
klist_add_tail(t, n) == AddAt(t, n, HEAD, "before")

(* The position must stay linked during the call: it is the node the        *)
(* thread's own iterator holds.                                             *)
klist_add_after(t, n)  == i_cur[t] # NULL /\ AddAt(t, n, i_cur[t], "after")
klist_add_before(t, n) == i_cur[t] # NULL /\ AddAt(t, n, i_cur[t], "before")

(* The critical section of the four; from then on the node's initial        *)
(* reference is the clients' to drop, once.                                 *)
Link(t) ==
    LET n == fr[t].node
        pos == fr[t].next
    IN  /\ k_lock = NULL
        /\ \/ pc[t] = "after"  /\ InsertBetween(n, pos, next[pos])
           \/ pc[t] = "before" /\ InsertBetween(n, prev[pos], pos)
        /\ owned' = owned \cup {n}
        /\ Finish(t, "add")
        /\ UNCHANGED <<node, k_lock, wq, iters, objref>>

----------------------------------------------------------------------------
(* Dropping references.  The last one leads into klist_release with k_lock  *)
(* held and put still set; after any other, put is cleared.                 *)

LastMissed(n) == n_ref[n] = 0       \* mutant: the count is tested before it is dropped
Last(n) == n_ref[n] = 1
klist_dec_and_del(n) == n_ref' = [n_ref EXCEPT ![n] = @ - 1]

klist_put(t, n, op) ==
    /\ k_lock = NULL
    /\ klist_dec_and_del(n)
    /\ IF Last(n)
         THEN /\ k_lock' = t
              /\ fr' = [fr EXCEPT ![t] = Frame(op, n, NULL, TRUE)]
              /\ Goto(t, "release")
         ELSE Finish(t, op) /\ UNCHANGED k_lock

knode_kill(n) == n_klist' = [n_klist EXCEPT ![n] = "k|dead"]

klist_del(t, n) ==
    /\ pc[t] = "idle"
    /\ n \in owned
    /\ knode_kill(n)
    /\ klist_put(t, n, "put")
    /\ owned' = owned \ {n}
    /\ UNCHANGED <<list, wq, iters, objref>>

(* klist_remove: fill in the waiter, enlist it under klist_remove_lock,     *)
(* klist_del, then sleep until woken.                                       *)
klist_remove(t, n) ==
    /\ pc[t] = "idle"
    /\ n \in owned
    /\ i_cur[t] = NULL \/ RemoveWhilePinned
    /\ owned' = owned \ {n}
    /\ waiter' = [waiter EXCEPT ![t] = [node |-> n, woken |-> FALSE]]
    /\ fr' = [fr EXCEPT ![t] = Frame("remove", n, NULL, FALSE)]
    /\ Goto(t, "enlist")
    /\ UNCHANGED <<list, node, k_lock, klist_remove_lock, klist_remove_waiters, state,
                   iters, objref>>

Enlist(t) ==
    /\ pc[t] = "enlist"
    /\ klist_remove_lock = NULL
    /\ klist_remove_waiters' = klist_remove_waiters \cup {t}
    /\ Goto(t, "kill")
    /\ UNCHANGED <<list, node, k_lock, klist_remove_lock, waiter, state, iters, fr, objref,
                   owned>>

RemoveKill(t) ==
    /\ pc[t] = "kill"
    /\ knode_kill(fr[t].node)
    /\ klist_put(t, fr[t].node, "remove")
    /\ UNCHANGED <<list, wq, iters, objref, owned>>

(* for (;;) { set_current_state; if (waiter.woken) break; schedule(); }     *)
SetState(t) ==
    /\ pc[t] = "sleep"
    /\ state' = [state EXCEPT ![t] = "UNINTERRUPTIBLE"]
    /\ Goto(t, "check")
    /\ UNCHANGED <<list, node, k_lock, klist_remove_lock, klist_remove_waiters, waiter,
                   iters, fr, objref, owned>>

Check(t) ==
    /\ pc[t] = "check"
    /\ IF waiter[t].woken
         THEN /\ state' = [state EXCEPT ![t] = "RUNNING"]
              /\ fr' = [fr EXCEPT ![t] = NoCall]
              /\ Goto(t, "idle")
         ELSE /\ Goto(t, "schedule")
              /\ UNCHANGED <<state, fr>>
    /\ UNCHANGED <<list, node, k_lock, klist_remove_lock, klist_remove_waiters, waiter,
                   iters, objref, owned>>

Schedule(t) ==
    /\ pc[t] = "schedule"
    /\ state[t] = "RUNNING"
    /\ Goto(t, "sleep")
    /\ UNCHANGED <<list, node, k_lock, wq, iters, fr, objref, owned>>

----------------------------------------------------------------------------
(* klist_release, run by the thread that dropped the last reference.        *)

(* list_del, then spin_lock(&klist_remove_lock)                             *)
Unlink(t) ==
    /\ pc[t] = "release"
    /\ klist_remove_lock = NULL
    /\ list_del(fr[t].node)
    /\ klist_remove_lock' = t
    /\ Goto(t, "wake")
    /\ UNCHANGED <<node, k_lock, klist_remove_waiters, waiter, state, iters, fr, objref,
                   owned>>

WaitingForAny(n) == klist_remove_waiters   \* mutant: waiter->node is not compared
Waiting(n) == {w \in klist_remove_waiters : waiter[w].node = n}

(* waiter->woken = 1                                                        *)
Wake(t, w) ==
    /\ pc[t] = "wake"
    /\ w \in Waiting(fr[t].node)
    /\ waiter' = [waiter EXCEPT ![w].woken = TRUE]
    /\ fr' = [fr EXCEPT ![t].w = w]
    /\ Goto(t, "rouse")
    /\ UNCHANGED <<list, node, k_lock, klist_remove_lock, klist_remove_waiters, state,
                   iters, objref, owned>>

RouseNobody(t) ==                   \* mutant: wake_up_process is missing
    /\ pc[t] = "rouse"
    /\ Goto(t, "delist")
    /\ UNCHANGED <<list, node, k_lock, wq, iters, fr, objref, owned>>

(* wake_up_process(waiter->process)                                         *)
Rouse(t) ==
    /\ pc[t] = "rouse"
    /\ state' = [state EXCEPT ![fr[t].w] = "RUNNING"]
    /\ Goto(t, "delist")
    /\ UNCHANGED <<list, node, k_lock, klist_remove_lock, klist_remove_waiters, waiter,
                   iters, fr, objref, owned>>

(* list_del(&waiter->list)                                                  *)
Delist(t) ==
    /\ pc[t] = "delist"
    /\ klist_remove_waiters' = klist_remove_waiters \ {fr[t].w}
    /\ fr' = [fr EXCEPT ![t].w = NULL]
    /\ Goto(t, "wake")
    /\ UNCHANGED <<list, node, k_lock, klist_remove_lock, waiter, state, iters, objref,
                   owned>>

(* The loop is over: spin_unlock(&klist_remove_lock)                        *)
WakeDone(t) ==
    /\ pc[t] = "wake"
    /\ Waiting(fr[t].node) = {}
    /\ klist_remove_lock' = NULL
    /\ Goto(t, "detach")
    /\ UNCHANGED <<list, node, k_lock, klist_remove_waiters, waiter, state, iters, fr,
                   objref, owned>>

(* knode_set_klist(n, NULL), and klist_put's spin_unlock; klist_next keeps  *)
(* the lock and goes on to pick the next node.                              *)
Detach(t) ==
    /\ pc[t] = "detach"
    /\ n_klist' = [n_klist EXCEPT ![fr[t].node] = "NULL"]
    /\ IF fr[t].op = "next" THEN Goto(t, "scan") /\ UNCHANGED k_lock
                            ELSE Goto(t, "put")  /\ k_lock' = NULL
    /\ UNCHANGED <<list, n_ref, wq, iters, fr, objref, owned>>

(* put(n), after the lock is dropped                                        *)
Put(t) ==
    /\ pc[t] = "put"
    /\ objref' = [objref EXCEPT ![fr[t].node] = @ - 1]
    /\ Finish(t, fr[t].op)
    /\ UNCHANGED <<list, node, k_lock, wq, iters, owned>>

----------------------------------------------------------------------------
(* Iterators.                                                               *)

klist_iter_init(t) ==
    /\ pc[t] = "idle"
    /\ ~i_open[t]
    /\ i_open' = [i_open EXCEPT ![t] = TRUE]
    /\ UNCHANGED <<list, node, k_lock, wq, i_cur, pc, fr, objref, owned>>

Adding(n) == \E t \in Threads : pc[t] \in {"after", "before"} /\ fr[t].node = n

(* kref_get outside the lock.  The caller makes sure that nobody removes n  *)
(* meanwhile; with StartAnywhere it only knows that n has been added and    *)
(* that klist_node_attached still says so.                                  *)
klist_iter_init_node(t, n) ==
    /\ pc[t] = "idle"
    /\ ~i_open[t]
    /\ n \in owned \/ (StartAnywhere /\ klist_node_attached(n) /\ ~Adding(n))
    /\ i_open' = [i_open EXCEPT ![t] = TRUE]
    /\ i_cur' = [i_cur EXCEPT ![t] = n]
    /\ n_ref' = [n_ref EXCEPT ![n] = @ + 1]
    /\ UNCHANGED <<list, n_klist, k_lock, wq, pc, fr, objref, owned>>

klist_iter_exit(t) ==
    /\ pc[t] = "idle"
    /\ i_open[t]
    /\ IF i_cur[t] = NULL THEN UNCHANGED <<n_ref, k_lock, fr, pc>>
                          ELSE klist_put(t, i_cur[t], "put")
    /\ i_cur' = [i_cur EXCEPT ![t] = NULL]
    /\ i_open' = [i_open EXCEPT ![t] = FALSE]
    /\ UNCHANGED <<list, n_klist, wq, objref, owned>>

(* klist_next takes the lock, reads the successor, drops the previous node  *)
(* (which may run klist_release) ...                                        *)
klist_next(t) ==
    LET last == i_cur[t]
    IN  /\ pc[t] = "idle"
        /\ i_open[t]
        /\ k_lock = NULL
        /\ k_lock' = t
        /\ i_cur' = [i_cur EXCEPT ![t] = NULL]
        /\ IF last = NULL
             THEN /\ fr' = [fr EXCEPT ![t] = Frame("next", NULL, next[HEAD], FALSE)]
                  /\ Goto(t, "scan")
                  /\ UNCHANGED n_ref
             ELSE /\ fr' = [fr EXCEPT ![t] = Frame("next", last, next[last], Last(last))]
                  /\ Goto(t, IF Last(last) THEN "release" ELSE "scan")
                  /\ klist_dec_and_del(last)
        /\ UNCHANGED <<list, n_klist, wq, i_open, objref, owned>>

SkipAny(t) ==                       \* mutant: knode_dead is not tested before skipping
    /\ pc[t] = "scan"
    /\ fr[t].next # HEAD
    /\ fr' = [fr EXCEPT ![t].next = next[@]]
    /\ UNCHANGED <<list, node, k_lock, wq, iters, pc, objref, owned>>

(* ... and walks over dead nodes ...                                        *)
SkipDead(t) ==
    /\ pc[t] = "scan"
    /\ fr[t].next # HEAD
    /\ knode_dead(fr[t].next)
    /\ fr' = [fr EXCEPT ![t].next = next[@]]
    /\ UNCHANGED <<list, node, k_lock, wq, iters, pc, objref, owned>>

ArriveAtDead(t) ==                  \* mutant: a dead node is returned
    /\ pc[t] = "scan"
    /\ fr[t].next # HEAD
    /\ n_ref' = [n_ref EXCEPT ![fr[t].next] = @ + 1]
    /\ i_cur' = [i_cur EXCEPT ![t] = fr[t].next]
    /\ k_lock' = NULL
    /\ Finish(t, "next")
    /\ UNCHANGED <<list, n_klist, wq, i_open, objref, owned>>

ArriveWithoutGet(t) ==              \* mutant: kref_get is missing
    /\ pc[t] = "scan"
    /\ fr[t].next # HEAD
    /\ ~knode_dead(fr[t].next)
    /\ i_cur' = [i_cur EXCEPT ![t] = fr[t].next]
    /\ k_lock' = NULL
    /\ Finish(t, "next")
    /\ UNCHANGED <<list, node, wq, i_open, objref, owned>>

(* ... to a live one, or the end of the list; then unlocks, and puts last.  *)
Arrive(t) ==
    LET found == fr[t].next
    IN  /\ pc[t] = "scan"
        /\ IF found = HEAD
             THEN UNCHANGED <<n_ref, i_cur>>
             ELSE /\ ~knode_dead(found)
                  /\ n_ref' = [n_ref EXCEPT ![found] = @ + 1]
                  /\ i_cur' = [i_cur EXCEPT ![t] = found]
        /\ k_lock' = NULL
        /\ IF fr[t].put THEN Goto(t, "put") /\ UNCHANGED fr
                        ELSE Finish(t, "next")
        /\ UNCHANGED <<list, n_klist, wq, i_open, objref, owned>>

----------------------------------------------------------------------------
(* The client's choices, and the steps of a call in progress.               *)

Call(t) ==
    \/ \E n \in Nodes :
          \/ klist_add_head(t, n)
          \/ klist_add_tail(t, n)
          \/ klist_add_after(t, n)
          \/ klist_add_before(t, n)
          \/ klist_del(t, n)
          \/ klist_remove(t, n)
          \/ klist_iter_init_node(t, n)
    \/ klist_iter_init(t)
    \/ klist_iter_exit(t)
    \/ klist_next(t)

Step(t) ==
    \/ Link(t)
    \/ Enlist(t) \/ RemoveKill(t) \/ SetState(t) \/ Check(t) \/ Schedule(t)
    \/ Unlink(t) \/ (\E w \in Threads : Wake(t, w)) \/ Rouse(t) \/ Delist(t)
    \/ WakeDone(t) \/ Detach(t) \/ Put(t)
    \/ SkipDead(t) \/ Arrive(t)

Next == \E t \in Threads : Call(t) \/ Step(t)

Spec == Init /\ [][Next]_vars

(* Every task in a call keeps running, and the spinlocks are fair (SF on    *)
(* the steps that take one); a client that opened an iterator eventually    *)
(* moves it or closes it.                                                   *)
Fairness ==
    \A t \in Threads :
        /\ SF_vars(Step(t))
        /\ SF_vars(klist_next(t) \/ klist_iter_exit(t))

FairSpec == Spec /\ Fairness
----------------------------------------------------------------------------
(* Properties.                                                              *)

(* The nodes that next leads to from the head, at most one turn around.     *)
Walk[i \in 0..Cardinality(Nodes)] ==
    IF i = 0 THEN HEAD ELSE IF Walk[i - 1] \in Slots THEN next[Walk[i - 1]] ELSE NULL
OnList == {Walk[i] : i \in 0..Cardinality(Nodes)} \cap Nodes

Holders(n) == {t \in Threads : i_cur[t] = n}

(* Some call still has the node's initial reference in hand: it is being    *)
(* added, or klist_remove has not killed it yet.                            *)
InHand(n) == \E t \in Threads : /\ pc[t] \in {"after", "before", "enlist", "kill"}
                                /\ fr[t].node = n

(* A node's kref counts exactly the iterators that stand on it plus the     *)
(* initial reference until klist_del drops it, whatever order klist_next,   *)
(* klist_iter_exit, klist_del and klist_remove of several threads come in;  *)
(* and the object around it is referenced while the node is attached, and   *)
(* once more for each call that owes the put of a node it released.         *)
RefsAccounted ==
    \A n \in Nodes :
        /\ n_ref[n] = Cardinality(Holders(n)) + (IF n \in owned \/ InHand(n) THEN 1 ELSE 0)
        /\ objref[n] = (IF klist_node_attached(n) THEN 1 ELSE 0)
                       + Cardinality({t \in Threads : /\ fr[t].node = n
                                                      /\ fr[t].put
                                                      /\ pc[t] \in {"scan", "put"}})

(* "Iterating over a list that is safe and allows for modification of the   *)
(* list during the iteration": a node an iterator stands on is linked, so   *)
(* the successor klist_next reads from it is a node of the list.            *)
HeldNodesLinked == \A t \in Threads : i_cur[t] # NULL => i_cur[t] \in OnList

(* The pointers form one ring through the head, prev mirrors next, and the  *)
(* nodes on it are those whose n_klist is set, save one that is on its way  *)
(* in (before Link) or out (after Unlink); none that is held has left it.   *)
ListIntegrity ==
    /\ HeldNodesLinked
    /\ OnList = {n \in Nodes : /\ klist_node_attached(n)
                               /\ ~\E t \in Threads :
                                     /\ fr[t].node = n
                                     /\ pc[t] \in {"after", "before", "wake", "rouse",
                                                   "delist", "detach"}}
    /\ \A s \in OnList \cup {HEAD} : next[s] \in OnList \cup {HEAD} /\ prev[next[s]] = s

(* A task that slept on in klist_remove although its waiter is woken is     *)
(* about to be woken by the releasing thread: no wake-up falls between the  *)
(* test of woken and schedule().                                            *)
NoLostWakeup ==
    \A t \in Threads :
        pc[t] = "schedule" /\ waiter[t].woken /\ state[t] = "UNINTERRUPTIBLE"
            => \E u \in Threads : pc[u] = "rouse" /\ fr[u].w = t

(* After klist_del no iterator comes to stand on the node any more, and     *)
(* klist_remove is told that its node is gone only when none stands on it   *)
(* and it is off the list.                                                  *)
DeletedForGood ==
    [][\A t \in Threads :
          /\ i_cur'[t] \notin {i_cur[t], NULL} => i_cur'[t] \in owned \/ InHand(i_cur'[t])
          /\ ~waiter[t].woken /\ waiter'[t].woken
                => Holders(waiter[t].node) = {} /\ waiter[t].node \notin OnList]_vars

(* "block until it is actually removed ... must wait until all accessors    *)
(* have finished": when klist_remove returns, no thread is still inside     *)
(* klist_release with its node or its waiter.                               *)
ReturnsAfterLastAccess ==
    [][\A t, u \in Threads :
          pc[t] = "check" /\ pc'[t] = "idle"
              => /\ ~(pc[u] \in {"rouse", "delist"} /\ fr[u].w = t)
                 /\ ~(pc[u] \in {"wake", "rouse", "delist", "detach"}
                        /\ fr[u].node = waiter[t].node)]_vars

(* klist_remove returns, once every iterator has moved on.                  *)
RemoveReturns == \A t \in Threads : pc[t] = "enlist" ~> pc[t] = "idle"

(* "Only when the count goes to 0 is the node removed": a deleted node does *)
(* become detached, so that klist_node_attached tells its owner so.         *)
DeletedLeave == \A n \in Nodes : knode_dead(n) ~> ~knode_dead(n)

(* The promise a Klist keeps: a node is condemned from klist_del's critical *)
(* section on, and out when it is unlinked.                                 *)
Told == HEAD   \* any value that is neither a node nor NULL

Phases == LET linked == OnList
          IN  [n \in Nodes |-> IF n \notin linked THEN "out"
                               ELSE IF knode_dead(n) THEN "condemned" ELSE "in"]

AwaitOf(t) == IF fr[t].op # "remove" THEN NULL
              ELSE IF waiter[t].woken THEN Told ELSE waiter[t].node

P == INSTANCE KlistPromise WITH
        DONE   <- Told,
        phase  <- Phases,
        stands <- i_cur,
        awaits <- [t \in Threads |-> AwaitOf(t)]

(* Every step of every thread is one the promise allows.                    *)
KeepsPromise == P!Promise
============================================================================
