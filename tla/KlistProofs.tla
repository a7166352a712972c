---------------------------- MODULE KlistProofs ----------------------------
(***************************************************************************)
(* Klist for every number of nodes and of threads: reference counts, the   *)
(* list under its iterators, and the waits of klist_remove.  Clients start *)
(* an iterator only at a node nobody removes meanwhile (~StartAnywhere);   *)
(* without that it does break, as a run of Klist shows.  Then, what the    *)
(* invariant means to the clients, and what a whole iteration sees.        *)
(***************************************************************************)
EXTENDS KlistWalk, Lemmas, TLAPS

(* Where a thread is in its call.                                           *)
Entering  == {"after", "before"}                \* its node is not linked yet
Leaving   == {"wake", "rouse", "delist", "detach"}   \* its node is not linked any more
Releasing == {"release"} \cup Leaving           \* in klist_release
Having    == Entering \cup {"enlist", "kill"}   \* with the initial reference in hand
Locking   == Releasing \cup {"scan"}            \* with k_lock held
Waking    == {"wake", "rouse", "delist"}        \* with klist_remove_lock held
Owing     == {"scan", "put"}                    \* with a put to come, perhaps

Locks ==
    \A t \in Threads : /\ pc[t] \in Locking <=> k_lock = t
                       /\ pc[t] \in Waking <=> klist_remove_lock = t

(* The nodes that next and prev lead through.                               *)
Apart(n) == \E t \in Threads : fr[t].node = n /\ pc[t] \in Entering \cup Leaving
Linked == {HEAD} \cup {n \in Nodes : klist_node_attached(n) /\ ~Apart(n)}

Ordered == IsRing(next, prev, HEAD, Linked)

(* What a call's locals are good for at each place.                         *)
Framed(t) ==
    /\ pc[t] = "idle" => fr[t] = NoCall
    /\ pc[t] \in Having \cup Releasing \cup {"put"} => fr[t].node \in Nodes
    /\ pc[t] \in Entering => fr[t].op = "add" /\ fr[t].next \in {HEAD, i_cur[t]} \ {NULL}
    /\ pc[t] \in {"enlist", "kill", "sleep", "check", "schedule"} => fr[t].op = "remove"
    /\ pc[t] \in Releasing \cup {"put"} =>
          fr[t].put /\ fr[t].op \in {"put", "remove", "next"}
    /\ pc[t] \in Releasing /\ fr[t].op = "next" => fr[t].next \in Linked \ {fr[t].node}
    /\ pc[t] = "scan" => /\ fr[t].op = "next" /\ fr[t].next \in Linked
                         /\ fr[t].put => fr[t].node \in Nodes
    /\ pc[t] \in {"rouse", "delist"} => fr[t].w \in Threads
Frames == \A t \in Threads : Framed(t)

(* A node is "k" as long as its initial reference is owned or in one hand,  *)
(* and released only when it is dead and not referenced.                    *)
Initial(n) == n \in owned \/ InHand(n)
Sound(n) ==
    /\ n_klist[n] = "k" <=> Initial(n)
    /\ n_klist[n] = "NULL" => n_ref[n] = 0
Owns(t) ==
    /\ pc[t] \in Having => fr[t].node \notin owned
    /\ pc[t] \in Entering => n_ref[fr[t].node] = 1
    /\ pc[t] \in Releasing => n_klist[fr[t].node] = "k|dead" /\ n_ref[fr[t].node] = 0
Ownership ==
    /\ \A n \in Nodes : Sound(n)
    /\ \A t \in Threads : Owns(t)
    /\ \A t, u \in Threads :
          pc[t] \in Having /\ pc[u] \in Having /\ fr[t].node = fr[u].node => t = u

(* A waiter on klist_remove_waiters is being woken, or still waits.         *)
Waiters ==
    /\ \A t \in Threads :
          pc[t] \in {"enlist", "kill"} => ~waiter[t].woken /\ waiter[t].node = fr[t].node
    /\ \A w \in klist_remove_waiters :
          \/ \E u \in Threads : pc[u] \in {"rouse", "delist"} /\ fr[u].w = w
          \/ fr[w].op = "remove" /\ ~waiter[w].woken

(* An iterator that stands on a node is in use, and klist_next has taken    *)
(* the one it moves off its node.                                           *)
Iterating(t) ==
    /\ i_cur[t] # NULL => i_open[t]
    /\ pc[t] \in Locking /\ fr[t].op = "next" => i_cur[t] = NULL /\ i_open[t]
Iterators == \A t \in Threads : Iterating(t)

(* RefsAccounted, with names for its sets.                                  *)
Pending(n) == {t \in Threads : fr[t].node = n /\ fr[t].put /\ pc[t] \in Owing}
Counted(n) ==
    /\ n_ref[n] = Cardinality(Holders(n)) + (IF Initial(n) THEN 1 ELSE 0)
    /\ objref[n] = (IF klist_node_attached(n) THEN 1 ELSE 0) + Cardinality(Pending(n))
Counts == \A n \in Nodes : Counted(n)

IInv == TypeOK /\ Locks /\ Frames /\ Ownership /\ Ordered /\ Waiters /\ Counts

USE DEF list, node, wq, iters, Goto, Slots

----------------------------------------------------------------------------
(* What the invariant says of a state.                                      *)

LEMMA CountsAreRefs == Counts <=> RefsAccounted
BY DEF Counts, Counted, RefsAccounted, Pending, Initial, Owing

(* Sets of threads are counted in numbers, one by one.                      *)
LEMMA ThreadSets ==
    ASSUME NEW A \in SUBSET Threads
    PROVE  /\ Cardinality(A) \in Nat
           /\ Cardinality(A) = 0 <=> A = {}
           /\ \A t \in Threads \ A : Cardinality(A \cup {t}) = Cardinality(A) + 1
           /\ \A t \in A : Cardinality(A \ {t}) = Cardinality(A) - 1
<1>1. IsFiniteSet(A)
  BY FS_Subset, KlistConstants
<1>2. ASSUME NEW t \in Threads \ A
      PROVE  Cardinality(A \cup {t}) = Cardinality(A) + 1
  BY <1>1, FS_AddElement
<1>3. ASSUME NEW t \in A
      PROVE  Cardinality(A \ {t}) = Cardinality(A) - 1
  BY <1>1, FS_RemoveElement
<1> QED
  BY <1>1, <1>2, <1>3, FS_CardinalityType, FS_EmptySet

(* A node that an iterator stands on is referenced and linked.              *)
LEMMA HeldNodes ==
    ASSUME IInv, NEW t \in Threads, i_cur[t] # NULL
    PROVE  /\ i_cur[t] \in Nodes /\ i_cur[t] \in Linked
           /\ n_ref[i_cur[t]] >= 1
           /\ Initial(i_cur[t]) => n_ref[i_cur[t]] >= 2
<1> DEFINE n == i_cur[t]
<1>1. n \in Nodes /\ t \in Holders(n)
  BY DEF IInv, TypeOK, Holders
<1>2. Cardinality(Holders(n)) \in Nat /\ Cardinality(Holders(n)) # 0
  BY <1>1, ThreadSets DEF Holders
<1>3. n_ref[n] >= 1 /\ (Initial(n) => n_ref[n] >= 2)
  BY <1>1, <1>2 DEF IInv, Counts, Counted
<1>4. klist_node_attached(n)
  BY <1>1, <1>3 DEF IInv, Ownership, Sound, klist_node_attached
<1>5. ASSUME NEW u \in Threads, fr[u].node = n, pc[u] \in Entering
      PROVE  FALSE
  <2>1. InHand(n) /\ n_ref[n] = 1
    BY <1>5 DEF IInv, Ownership, Owns, InHand, Entering
  <2> QED
    BY <1>3, <2>1 DEF Initial
<1>6. ASSUME NEW u \in Threads, fr[u].node = n, pc[u] \in Leaving
      PROVE  FALSE
  BY <1>3, <1>6 DEF IInv, Ownership, Owns, Releasing
<1>7. n \in Linked
  BY <1>1, <1>4, <1>5, <1>6 DEF Linked, Apart
<1> QED
  BY <1>1, <1>3, <1>7

(* Linked nodes have linked neighbours.                                     *)
LEMMA Neighbours ==
    ASSUME IInv, NEW s \in Linked
    PROVE  /\ s \in Slots /\ next[s] \in Linked /\ prev[s] \in Linked
           /\ prev[next[s]] = s /\ next[prev[s]] = s
           /\ s # HEAD => next[s] # s
<1>1. s \in Slots
  BY DEF Linked
<1> QED
  BY <1>1, RingNeighbours DEF IInv, Ordered

(* A thread that neither moves nor has its iterator moved keeps its frame.  *)
LEMMA SameFrame ==
    ASSUME NEW t, Framed(t), pc'[t] = pc[t], fr'[t] = fr[t], i_cur'[t] = i_cur[t],
           Linked \subseteq Linked' \/ pc[t] \notin Locking
    PROVE  Framed(t)'
BY DEF Framed, Locking

(* Steps that touch no count, and move no thread into or out of the classes *)
(* above, leave the counts alone; if they touch no pointer either, the ring.*)
LEMMA QuietCounts ==
    ASSUME IInv, UNCHANGED <<n_klist, n_ref, objref, owned, i_cur>>,
           \A u \in Threads :
              /\ pc[u] \in Having <=> pc'[u] \in Having
              /\ pc[u] \in Entering <=> pc'[u] \in Entering
              /\ pc[u] \in Releasing <=> pc'[u] \in Releasing
              /\ pc[u] \in Owing /\ fr[u].put <=> pc'[u] \in Owing /\ fr'[u].put
              /\ pc[u] \in Having \cup Releasing \/ (pc[u] \in Owing /\ fr[u].put)
                    => fr'[u].node = fr[u].node
    PROVE  Ownership' /\ Counts'
<1>1. \A n \in Nodes : klist_node_attached(n)' <=> klist_node_attached(n)
  BY DEF klist_node_attached
<1>2. \A n \in Nodes : Initial(n)' <=> Initial(n)
  BY DEF Initial, InHand, Having, Entering
<1>3. \A n \in Nodes : Pending(n)' = Pending(n)
  BY DEF Pending
<1>4. Ownership'
  <2>1. \A n \in Nodes : Sound(n)'
    BY <1>2 DEF IInv, Ownership, Sound
  <2>2. \A t \in Threads : Owns(t)'
    BY DEF IInv, Ownership, Owns, Having
  <2> QED
    BY <2>1, <2>2 DEF IInv, Ownership
<1>5. Counts'
  BY <1>1, <1>2, <1>3 DEF IInv, Counts, Counted, Holders
<1> QED
  BY <1>4, <1>5

LEMMA QuietStep ==
    ASSUME IInv, UNCHANGED <<next, prev, n_klist, n_ref, objref, owned, i_cur>>,
           \A u \in Threads :
              /\ pc[u] \in Having <=> pc'[u] \in Having
              /\ pc[u] \in Entering <=> pc'[u] \in Entering
              /\ pc[u] \in Releasing <=> pc'[u] \in Releasing
              /\ pc[u] \in Leaving <=> pc'[u] \in Leaving
              /\ pc[u] \in Owing /\ fr[u].put <=> pc'[u] \in Owing /\ fr'[u].put
              /\ pc[u] \in Having \cup Releasing \/ (pc[u] \in Owing /\ fr[u].put)
                    => fr'[u].node = fr[u].node
    PROVE  Linked' = Linked /\ Ordered' /\ Ownership' /\ Counts'
<1>1. \A n \in Nodes : klist_node_attached(n)' <=> klist_node_attached(n)
  BY DEF klist_node_attached
<1>2. \A n \in Nodes : Apart(n)' <=> Apart(n)
  BY DEF Apart, Having, Releasing
<1>3. Linked' = Linked
  BY <1>1, <1>2 DEF Linked
<1>4. Ordered'
  BY <1>3 DEF IInv, Ordered
<1> QED
  BY <1>3, <1>4, QuietCounts

(* What one thread's move changes for a node depends on that thread alone.  *)
LEMMA Moves ==
    ASSUME NEW t \in Threads, \A u \in Threads \ {t} : pc'[u] = pc[u] /\ fr'[u] = fr[u],
           NEW m \in Nodes
    PROVE  /\ fr'[t].node = m /\ pc'[t] \in Having => InHand(m)'
           /\ (fr'[t].node = m /\ pc'[t] \in Having) <=> (fr[t].node = m /\ pc[t] \in Having)
                => (InHand(m)' <=> InHand(m))
           /\ (fr'[t].node = m /\ pc'[t] \in Entering \cup Leaving)
                  <=> (fr[t].node = m /\ pc[t] \in Entering \cup Leaving)
                => (Apart(m)' <=> Apart(m))
           /\ (fr'[t].node = m /\ fr'[t].put /\ pc'[t] \in Owing)
                  <=> (fr[t].node = m /\ fr[t].put /\ pc[t] \in Owing)
                => Pending(m)' = Pending(m)
<1> DEFINE has(u) == fr[u].node = m /\ pc[u] \in Having
           apart(u) == fr[u].node = m /\ pc[u] \in Entering \cup Leaving
           owes(u) == fr[u].node = m /\ fr[u].put /\ pc[u] \in Owing
<1>1. InHand(m) <=> \E u \in Threads : has(u)
  BY DEF InHand, Having, Entering
<1>2. InHand(m)' <=> \E u \in Threads : has(u)'
  BY DEF InHand, Having, Entering
<1>3. \A u \in Threads \ {t} :
         (has(u)' <=> has(u)) /\ (apart(u)' <=> apart(u)) /\ (owes(u)' <=> owes(u))
  OBVIOUS
<1>4. (Apart(m) <=> \E u \in Threads : apart(u)) /\ (Apart(m)' <=> \E u \in Threads : apart(u)')
  BY DEF Apart
<1>5. Pending(m) = {u \in Threads : owes(u)} /\ Pending(m)' = {u \in Threads : owes(u)'}
  BY DEF Pending
<1> HIDE DEF has, apart, owes
<1>6. /\ (has(t)' => InHand(m)') /\ ((has(t)' <=> has(t)) => (InHand(m)' <=> InHand(m)))
      /\ (apart(t)' <=> apart(t)) => (Apart(m)' <=> Apart(m))
      /\ (owes(t)' <=> owes(t)) => Pending(m)' = Pending(m)
  BY <1>1, <1>2, <1>3, <1>4, <1>5
<1> QED
  BY <1>6 DEF has, apart, owes

(* Threads in a call have the initial reference of different nodes.         *)
LEMMA OneHand ==
    ASSUME IInv, NEW t \in Threads, pc[t] \in Having
    PROVE  /\ fr[t].node \in Nodes /\ Initial(fr[t].node) /\ fr[t].node \notin owned
           /\ n_klist[fr[t].node] = "k"
           /\ \A u \in Threads \ {t} :
                 pc[u] \in Having \cup Releasing => fr[u].node # fr[t].node
<1>1. fr[t].node \in Nodes /\ Initial(fr[t].node) /\ fr[t].node \notin owned
  BY DEF IInv, Frames, Framed, Ownership, Owns, Initial, InHand, Having, Entering
<1>2. n_klist[fr[t].node] = "k"
  BY <1>1 DEF IInv, Ownership, Sound
<1>3. ASSUME NEW u \in Threads \ {t}, pc[u] \in Having
      PROVE  fr[u].node # fr[t].node
  BY <1>3 DEF IInv, Ownership
<1>4. ASSUME NEW u \in Threads \ {t}, pc[u] \in Releasing
      PROVE  fr[u].node # fr[t].node
  BY <1>2, <1>4 DEF IInv, Ownership, Owns
<1> QED
  BY <1>1, <1>2, <1>3, <1>4

(* The locals a call writes are of their type.                              *)
Locals == [op : {"none", "add", "put", "remove", "next"}, node : Nodes \cup {NULL},
           next : Slots \cup {NULL}, put : BOOLEAN, w : Threads \cup {NULL}]

LEMMA LocalsType ==
    /\ TypeOK => fr \in [Threads -> Locals]
    /\ NoCall \in Locals
    /\ \A f \in Locals : \A w \in Threads \cup {NULL} : [f EXCEPT !.w = w] \in Locals
    /\ \A f \in Locals : \A s \in Slots \cup {NULL} : [f EXCEPT !.next = s] \in Locals
<1>1. TypeOK => fr \in [Threads -> Locals]
  BY DEF TypeOK, Locals
<1>2. NoCall \in Locals
  BY DEF NoCall, Frame, Locals
<1>3. ASSUME NEW f \in Locals, NEW w \in Threads \cup {NULL}
      PROVE  [f EXCEPT !.w = w] \in Locals
  BY DEF Locals
<1>4. ASSUME NEW f \in Locals, NEW s \in Slots \cup {NULL}
      PROVE  [f EXCEPT !.next = s] \in Locals
  BY DEF Locals
<1> QED
  BY <1>1, <1>2, <1>3, <1>4

LEMMA FrameType ==
    ASSUME NEW op \in {"add", "put", "remove", "next"}, NEW n \in Nodes \cup {NULL},
           NEW s \in Slots \cup {NULL}, NEW b \in BOOLEAN
    PROVE  Frame(op, n, s, b) \in Locals
BY DEF Frame, Locals

LEMMA SetStateInv ==
    ASSUME IInv, NEW t \in Threads, SetState(t)
    PROVE  IInv' /\ Linked' = Linked
<1>1. TypeOK'
  BY DEF IInv, TypeOK, SetState
<1>2. Locks'
  BY DEF IInv, TypeOK, Locks, SetState, Locking, Releasing, Leaving, Waking
<1>3. Linked' = Linked /\ Ordered' /\ Ownership' /\ Counts'
  BY QuietStep DEF IInv, TypeOK, SetState, Having, Entering, Releasing, Leaving, Owing
<1>4. Frames'
  <2>1. Framed(t)'
    BY DEF IInv, TypeOK, Frames, Framed, SetState, Having, Entering, Releasing, Leaving
  <2> QED
    BY <1>3, <2>1, SameFrame DEF IInv, TypeOK, Frames, SetState
<1>5. Waiters'
  BY DEF IInv, TypeOK, Waiters, SetState
<1> QED
  BY <1>1, <1>2, <1>3, <1>4, <1>5 DEF IInv
LEMMA EnlistInv ==
    ASSUME IInv, NEW t \in Threads, Enlist(t)
    PROVE  IInv' /\ Linked' = Linked
<1>1. TypeOK'
  BY DEF IInv, TypeOK, Enlist
<1>2. Locks'
  BY DEF IInv, TypeOK, Locks, Enlist, Locking, Releasing, Leaving, Waking
<1>3. Linked' = Linked /\ Ordered' /\ Ownership' /\ Counts'
  BY QuietStep DEF IInv, TypeOK, Enlist, Having, Entering, Releasing, Leaving, Owing
<1>4. Frames'
  <2>1. Framed(t)'
    BY DEF IInv, TypeOK, Frames, Framed, Enlist, Having, Entering, Releasing, Leaving
  <2> QED
    BY <1>3, <2>1, SameFrame DEF IInv, TypeOK, Frames, Enlist
<1>5. Waiters'
  <2>1. fr[t].op = "remove" /\ ~waiter[t].woken
    BY DEF IInv, Frames, Framed, Waiters, Enlist
  <2> QED
    BY <2>1 DEF IInv, TypeOK, Waiters, Enlist
<1> QED
  BY <1>1, <1>2, <1>3, <1>4, <1>5 DEF IInv

LEMMA CheckInv ==
    ASSUME IInv, NEW t \in Threads, Check(t)
    PROVE  IInv' /\ Linked' = Linked
<1>1. TypeOK'
  <2>1. fr' \in [Threads -> Locals]
    BY LocalsType DEF IInv, Check
  <2> QED
    BY <2>1 DEF IInv, TypeOK, Check, Locals
<1>2. Locks'
  BY DEF IInv, TypeOK, Locks, Check, Locking, Releasing, Leaving, Waking
<1>3. Linked' = Linked /\ Ordered' /\ Ownership' /\ Counts'
  BY QuietStep DEF IInv, TypeOK, Check, Having, Entering, Releasing, Leaving, Owing
<1>4. Frames'
  <2>1. Framed(t)'
    BY DEF IInv, TypeOK, Frames, Framed, Check, Having, Entering, Releasing, Leaving
  <2> QED
    BY <1>3, <2>1, SameFrame DEF IInv, TypeOK, Frames, Check
<1>5. Waiters'
  <2>1. \A u \in Threads \ {t} : pc'[u] = pc[u] /\ fr'[u] = fr[u]
    BY DEF IInv, TypeOK, Check
  <2>2. /\ pc[t] = "check" /\ pc'[t] \in {"idle", "schedule"}
        /\ waiter[t].woken \/ fr'[t] = fr[t]
        /\ klist_remove_waiters' = klist_remove_waiters /\ waiter' = waiter
    BY DEF IInv, TypeOK, Check
  <2>3. klist_remove_waiters \subseteq Threads
    BY DEF IInv, TypeOK
  <2> QED
    BY <2>1, <2>2, <2>3 DEF IInv, Waiters
<1> QED
  BY <1>1, <1>2, <1>3, <1>4, <1>5 DEF IInv

LEMMA ScheduleInv ==
    ASSUME IInv, NEW t \in Threads, Schedule(t)
    PROVE  IInv' /\ Linked' = Linked
<1>1. TypeOK'
  BY DEF IInv, TypeOK, Schedule
<1>2. Locks'
  BY DEF IInv, TypeOK, Locks, Schedule, Locking, Releasing, Leaving, Waking
<1>3. Linked' = Linked /\ Ordered' /\ Ownership' /\ Counts'
  BY QuietStep DEF IInv, TypeOK, Schedule, Having, Entering, Releasing, Leaving, Owing
<1>4. Frames'
  <2>1. Framed(t)'
    BY DEF IInv, TypeOK, Frames, Framed, Schedule, Having, Entering, Releasing, Leaving
  <2> QED
    BY <1>3, <2>1, SameFrame DEF IInv, TypeOK, Frames, Schedule
<1>5. Waiters'
  BY DEF IInv, TypeOK, Waiters, Schedule
<1> QED
  BY <1>1, <1>2, <1>3, <1>4, <1>5 DEF IInv

(* Waking one waiter, in three steps of the releasing thread.               *)
LEMMA WakeInv ==
    ASSUME IInv, NEW t \in Threads, NEW w \in Threads, Wake(t, w)
    PROVE  IInv' /\ Linked' = Linked
<1>1. TypeOK'
  <2>1. fr' \in [Threads -> Locals]
    <3>1. fr \in [Threads -> Locals]
      BY LocalsType DEF IInv
    <3>2. [fr[t] EXCEPT !.w = w] \in Locals
      BY <3>1, LocalsType
    <3> QED
      BY <3>1, <3>2 DEF Wake
  <2>2. waiter' \in [Threads -> [node : Nodes \cup {NULL}, woken : BOOLEAN]]
    <3> DEFINE W == [node : Nodes \cup {NULL}, woken : BOOLEAN]
    <3>1. waiter \in [Threads -> W]
      BY DEF IInv, TypeOK
    <3>2. \A x \in W : [x EXCEPT !.woken = TRUE] \in W
      OBVIOUS
    <3> HIDE DEF W
    <3>3. waiter' \in [Threads -> W]
      BY <3>1, <3>2 DEF Wake
    <3> QED
      BY <3>3 DEF W
  <2>3. pc' \in [Threads -> {"idle", "after", "before", "enlist", "kill", "release", "wake",
                             "rouse", "delist", "detach", "scan", "put", "sleep", "check",
                             "schedule"}]
    BY DEF IInv, TypeOK, Wake
  <2> QED
    BY <2>1, <2>2, <2>3 DEF IInv, TypeOK, Wake, Locals
<1>2. Locks'
  BY DEF IInv, TypeOK, Locks, Wake, Locking, Releasing, Leaving, Waking
<1>3. Linked' = Linked /\ Ordered' /\ Ownership' /\ Counts'
  BY QuietStep DEF IInv, TypeOK, Wake, Having, Entering, Releasing, Leaving, Owing
<1>4. Frames'
  <2>1. Framed(t)'
    BY <1>3 DEF IInv, TypeOK, Frames, Framed, Wake, Having, Entering, Releasing, Leaving
  <2> QED
    BY <1>3, <2>1, SameFrame DEF IInv, TypeOK, Frames, Wake
<1>5. Waiters'
  <2>1. fr'[t].w = w /\ pc'[t] = "rouse"
    BY DEF IInv, TypeOK, Wake
  <2>2. pc[w] \notin {"enlist", "kill"}
    BY DEF IInv, Ownership, Sound, Owns, Initial, InHand, Frames, Framed, Waiters, Wake,
           Waiting, Releasing, Leaving, Having, Entering
  <2>3. \A u \in Threads \ {t} : pc'[u] = pc[u] /\ fr'[u] = fr[u]
    BY DEF IInv, TypeOK, Wake
  <2>4. \A u \in Threads \ {w} : waiter'[u] = waiter[u]
    BY DEF IInv, TypeOK, Wake
  <2>5. fr'[t].op = fr[t].op /\ pc[t] = "wake" /\ klist_remove_waiters' = klist_remove_waiters
    BY DEF IInv, TypeOK, Wake
  <2>6. klist_remove_waiters \subseteq Threads
    BY DEF IInv, TypeOK
  <2> QED
    BY <2>1, <2>2, <2>3, <2>4, <2>5, <2>6 DEF IInv, Waiters
<1> QED
  BY <1>1, <1>2, <1>3, <1>4, <1>5 DEF IInv

LEMMA RouseInv ==
    ASSUME IInv, NEW t \in Threads, Rouse(t)
    PROVE  IInv' /\ Linked' = Linked
<1>1. TypeOK'
  BY DEF IInv, TypeOK, Rouse
<1>2. Locks'
  BY DEF IInv, TypeOK, Locks, Rouse, Locking, Releasing, Leaving, Waking
<1>3. Linked' = Linked /\ Ordered' /\ Ownership' /\ Counts'
  BY QuietStep DEF IInv, TypeOK, Rouse, Having, Entering, Releasing, Leaving, Owing
<1>4. Frames'
  <2>1. Framed(t)'
    BY <1>3 DEF IInv, TypeOK, Frames, Framed, Rouse, Having, Entering, Releasing, Leaving
  <2> QED
    BY <1>3, <2>1, SameFrame DEF IInv, TypeOK, Frames, Rouse
<1>5. Waiters'
  BY DEF IInv, TypeOK, Waiters, Rouse
<1> QED
  BY <1>1, <1>2, <1>3, <1>4, <1>5 DEF IInv

LEMMA DelistInv ==
    ASSUME IInv, NEW t \in Threads, Delist(t)
    PROVE  IInv' /\ Linked' = Linked
<1>1. TypeOK'
  <2>1. fr' \in [Threads -> Locals]
    BY LocalsType DEF IInv, Delist
  <2> QED
    BY <2>1 DEF IInv, TypeOK, Delist, Locals
<1>2. Locks'
  BY DEF IInv, TypeOK, Locks, Delist, Locking, Releasing, Leaving, Waking
<1>3. Linked' = Linked /\ Ordered' /\ Ownership' /\ Counts'
  BY QuietStep DEF IInv, TypeOK, Delist, Having, Entering, Releasing, Leaving, Owing
<1>4. Frames'
  <2>1. Framed(t)'
    BY <1>3 DEF IInv, TypeOK, Frames, Framed, Delist, Having, Entering, Releasing, Leaving
  <2> QED
    BY <1>3, <2>1, SameFrame DEF IInv, TypeOK, Frames, Delist
<1>5. Waiters'
  <2>1. \A u \in Threads : fr'[u].op = fr[u].op /\ fr'[u].node = fr[u].node
    BY DEF IInv, TypeOK, Delist
  <2>2. \A u \in Threads \ {t} : pc'[u] = pc[u] /\ fr'[u].w = fr[u].w
    BY DEF IInv, TypeOK, Delist
  <2>3. /\ klist_remove_waiters' = klist_remove_waiters \ {fr[t].w} /\ waiter' = waiter
        /\ pc'[t] = "wake"
    BY DEF IInv, TypeOK, Delist
  <2> QED
    <3>1. ASSUME NEW w \in klist_remove_waiters', NEW u \in Threads,
                 pc[u] \in {"rouse", "delist"}, fr[u].w = w
          PROVE  pc'[u] \in {"rouse", "delist"} /\ fr'[u].w = w
      BY <2>2, <2>3, <3>1
    <3>2. ASSUME NEW w \in klist_remove_waiters'
          PROVE  \/ \E u \in Threads : pc'[u] \in {"rouse", "delist"} /\ fr'[u].w = w
                 \/ fr'[w].op = "remove" /\ ~waiter'[w].woken
      <4>1. w \in klist_remove_waiters /\ w \in Threads
        BY <2>3 DEF IInv, TypeOK
      <4> QED
        BY <2>1, <2>3, <3>1, <4>1 DEF IInv, Waiters
    <3>3. ASSUME NEW u \in Threads, pc'[u] \in {"enlist", "kill"}
          PROVE  ~waiter'[u].woken /\ waiter'[u].node = fr'[u].node
      BY <2>1, <2>2, <2>3, <3>3 DEF IInv, Waiters
    <3> QED
      BY <3>2, <3>3 DEF Waiters
<1> QED
  BY <1>1, <1>2, <1>3, <1>4, <1>5 DEF IInv

LEMMA WakeDoneInv ==
    ASSUME IInv, NEW t \in Threads, WakeDone(t)
    PROVE  IInv' /\ Linked' = Linked
<1>1. TypeOK'
  BY DEF IInv, TypeOK, WakeDone
<1>2. Locks'
  BY KlistConstants DEF IInv, TypeOK, Locks, WakeDone, Locking, Releasing, Leaving, Waking
<1>3. Linked' = Linked /\ Ordered' /\ Ownership' /\ Counts'
  BY QuietStep DEF IInv, TypeOK, WakeDone, Having, Entering, Releasing, Leaving, Owing
<1>4. Frames'
  <2>1. Framed(t)'
    BY <1>3 DEF IInv, TypeOK, Frames, Framed, WakeDone, Having, Entering, Releasing, Leaving
  <2> QED
    BY <1>3, <2>1, SameFrame DEF IInv, TypeOK, Frames, WakeDone
<1>5. Waiters'
  BY DEF IInv, TypeOK, Waiters, WakeDone
<1> QED
  BY <1>1, <1>2, <1>3, <1>4, <1>5 DEF IInv

LEMMA IterInitInv ==
    ASSUME IInv, NEW t \in Threads, klist_iter_init(t)
    PROVE  IInv' /\ Linked' = Linked
<1>1. TypeOK'
  BY DEF IInv, TypeOK, klist_iter_init
<1>2. Locks'
  BY DEF IInv, Locks, klist_iter_init
<1>3. Linked' = Linked /\ Ordered' /\ Ownership' /\ Counts'
  BY QuietStep DEF klist_iter_init
<1>4. Frames'
  BY <1>3, SameFrame DEF IInv, Frames, klist_iter_init
<1>5. Waiters'
  BY DEF IInv, Waiters, klist_iter_init
<1> QED
  BY <1>1, <1>2, <1>3, <1>4, <1>5 DEF IInv

(* The walk over dead nodes stays on the list.                              *)
LEMMA SkipDeadInv ==
    ASSUME IInv, NEW t \in Threads, SkipDead(t)
    PROVE  IInv' /\ Linked' = Linked
<1>1. /\ fr[t].next \in Linked /\ next[fr[t].next] \in Linked
      /\ next[fr[t].next] \in Slots
  <2>1. fr[t].next \in Linked
    BY DEF IInv, Frames, Framed, SkipDead
  <2> QED
    BY <2>1, Neighbours
<1>2. TypeOK'
  <2>1. fr' \in [Threads -> Locals]
    BY <1>1, LocalsType DEF IInv, SkipDead
  <2> QED
    BY <2>1 DEF IInv, TypeOK, SkipDead, Locals
<1>3. Locks'
  BY DEF IInv, Locks, SkipDead
<1>4. Linked' = Linked /\ Ordered' /\ Ownership' /\ Counts'
  BY QuietStep DEF IInv, TypeOK, SkipDead
<1>5. Frames'
  <2>1. /\ fr'[t].next = next[fr[t].next] /\ fr'[t].node = fr[t].node /\ pc'[t] = "scan"
        /\ fr'[t].op = fr[t].op /\ fr'[t].put = fr[t].put /\ pc[t] = "scan"
    BY DEF IInv, TypeOK, SkipDead
  <2>2. Framed(t)'
    BY <1>1, <1>4, <2>1 DEF IInv, Frames, Framed, Having, Entering, Releasing, Leaving
  <2> QED
    BY <1>4, <2>2, SameFrame DEF IInv, TypeOK, Frames, SkipDead
<1>6. Waiters'
  BY DEF IInv, TypeOK, Waiters, SkipDead
<1> QED
  BY <1>2, <1>3, <1>4, <1>5, <1>6 DEF IInv

(* Adding: the node was free, so no thread has to do with it.               *)
LEMMA AddAtInv ==
    ASSUME IInv, NEW t \in Threads, NEW n \in Nodes, NEW pos \in {HEAD, i_cur[t]} \ {NULL},
           NEW label \in Entering, AddAt(t, n, pos, label)
    PROVE  IInv' /\ Linked' = Linked
<1>1. /\ pc[t] = "idle" /\ pc'[t] = label /\ fr'[t] = Frame("add", n, pos, FALSE)
      /\ \A u \in Threads \ {t} : pc'[u] = pc[u] /\ fr'[u] = fr[u]
      /\ \A s \in Slots \ {n} : next'[s] = next[s] /\ prev'[s] = prev[s]
      /\ \A m \in Nodes \ {n} : /\ n_klist'[m] = n_klist[m] /\ n_ref'[m] = n_ref[m]
                                /\ objref'[m] = objref[m]
      /\ n_klist[n] = "NULL" /\ n_klist'[n] = "k" /\ n_ref'[n] = 1
      /\ objref'[n] = objref[n] + 1
      /\ UNCHANGED <<k_lock, klist_remove_lock, klist_remove_waiters, waiter, i_cur, owned>>
  BY DEF IInv, TypeOK, klist_node_attached, AddAt, klist_node_init
<1>2. fr'[t].node = n /\ fr'[t].next = pos /\ fr'[t].op = "add" /\ fr'[t].put = FALSE
  BY <1>1 DEF Frame
<1>3. n_ref[n] = 0 /\ ~Initial(n)
  BY <1>1 DEF IInv, Ownership, Sound
<1>4. \A u \in Threads : pc[u] \in Having \cup Releasing => fr[u].node # n
  BY <1>1, <1>3 DEF IInv, Ownership, Owns, Initial, InHand, Having, Entering
<1>5. \A u \in Threads : i_cur[u] # n
  BY <1>3, HeldNodes, KlistConstants
<1>6. TypeOK'
  <2>1. pos \in Slots
    BY DEF IInv, TypeOK
  <2>2. fr' \in [Threads -> Locals]
    BY <2>1, LocalsType, FrameType DEF IInv, AddAt
  <2>3. pc' \in [Threads -> {"idle", "after", "before", "enlist", "kill", "release", "wake",
                             "rouse", "delist", "detach", "scan", "put", "sleep", "check",
                             "schedule"}]
    BY DEF IInv, TypeOK, Entering, AddAt
  <2>4. /\ next' \in [Slots -> Slots \cup {NULL}] /\ prev' \in [Slots -> Slots \cup {NULL}]
        /\ n_klist' \in [Nodes -> {"NULL", "k", "k|dead"}]
        /\ n_ref' \in [Nodes -> Nat] /\ objref' \in [Nodes -> Nat]
    BY DEF IInv, TypeOK, AddAt, klist_node_init
  <2> QED
    BY <2>2, <2>3, <2>4 DEF IInv, TypeOK, Locals, AddAt
<1>7. Locks'
  BY <1>1 DEF IInv, Locks, Locking, Releasing, Leaving, Waking, Entering
<1>8. Linked' = Linked /\ n \notin Linked
  <2>1. \A m \in Nodes \ {n} : Apart(m)' <=> Apart(m)
    BY <1>1, <1>2, Moves DEF Entering, Leaving
  <2>2. Apart(n)'
    BY <1>1, <1>2 DEF Apart
  <2> QED
    BY <1>1, <2>1, <2>2, KlistConstants DEF Linked, klist_node_attached
<1>9. Ordered'
  <2>1. \A x \in Linked : next'[x] = next[x] /\ prev'[x] = prev[x]
    BY <1>1, <1>8 DEF Linked
  <2>2. IsRing(next', prev', HEAD, Linked)
    BY <2>1, RingElsewhere DEF IInv, Ordered
  <2> QED
    BY <1>8, <2>2 DEF Ordered
<1>10. Frames'
  <2>1. Framed(t)'
    BY <1>1, <1>2 DEF Framed, Entering, Having, Releasing, Leaving
  <2>2. \A u \in Threads \ {t} : Framed(u)'
    BY <1>1, <1>8, SameFrame DEF IInv, Frames
  <2> QED
    BY <2>1, <2>2 DEF Frames
<1>11. /\ \A m \in Nodes \ {n} : Initial(m)' <=> Initial(m)
       /\ Initial(n)'
  BY <1>1, <1>2, Moves DEF Having, Entering, Initial
<1>12. Ownership'
  <2>1. \A m \in Nodes : Sound(m)'
    BY <1>1, <1>11 DEF IInv, Ownership, Sound
  <2>2. Owns(t)'
    BY <1>1, <1>2, <1>3 DEF Owns, Having, Entering, Releasing, Leaving, Initial
  <2>3. ASSUME NEW u \in Threads \ {t} PROVE Owns(u)'
    <3>1. pc[u] \in Having \cup Releasing => fr[u].node \in Nodes \ {n}
      BY <1>4 DEF IInv, Frames, Framed
    <3> QED
      BY <1>1, <3>1 DEF IInv, Ownership, Owns, Having
  <2>4. \A u, v \in Threads :
           pc'[u] \in Having /\ pc'[v] \in Having /\ fr'[u].node = fr'[v].node => u = v
    <3> SUFFICES ASSUME NEW u \in Threads, NEW v \in Threads, pc'[u] \in Having,
                        pc'[v] \in Having, fr'[u].node = fr'[v].node
                 PROVE  u = v
      OBVIOUS
    <3>1. CASE u # t /\ v # t
      BY <1>1, <3>1 DEF IInv, Ownership
    <3>2. CASE u = t \/ v = t
      <4>1. fr'[t].node = n /\ \A x \in Threads \ {t} : pc'[x] \in Having => fr'[x].node # n
        BY <1>1, <1>2, <1>4
      <4> QED
        BY <3>2, <4>1
    <3> QED
      BY <3>1, <3>2
  <2> QED
    BY <2>1, <2>2, <2>3, <2>4 DEF Ownership
<1>13. Waiters'
  <2>1. klist_remove_waiters \subseteq Threads
    BY DEF IInv, TypeOK
  <2>2. fr[t].op = "none"
    BY <1>1 DEF IInv, Frames, Framed, NoCall, Frame
  <2> QED
    BY <1>1, <2>1, <2>2 DEF IInv, Waiters, Entering
<1>14. Counts'
  <2>1. \A m \in Nodes : Holders(m)' = Holders(m)
    BY <1>1 DEF Holders
  <2>2. \A m \in Nodes : Pending(m)' = Pending(m)
    BY <1>1, <1>2, Moves DEF Owing, Entering
  <2>3. \A m \in Nodes \ {n} : Counted(m)'
    BY <1>1, <1>11, <2>1, <2>2 DEF IInv, Counts, Counted, klist_node_attached
  <2>4. Holders(n) = {} /\ Cardinality(Holders(n)) = 0
    BY <1>5, ThreadSets DEF Holders
  <2>5. Counted(n)'
    <3>1. Cardinality(Pending(n)) \in Nat /\ objref[n] = 0 + Cardinality(Pending(n))
      BY <1>1, ThreadSets DEF IInv, Counts, Counted, klist_node_attached, Pending
    <3>2. Holders(n)' = Holders(n) /\ Pending(n)' = Pending(n) /\ Initial(n)'
      BY <1>11, <2>1, <2>2
    <3>3. n_ref'[n] = Cardinality(Holders(n)') + (IF Initial(n)' THEN 1 ELSE 0)
      BY <1>1, <2>4, <3>2
    <3>4. klist_node_attached(n)'
      BY <1>1 DEF klist_node_attached
    <3>5. objref'[n] = (IF klist_node_attached(n)' THEN 1 ELSE 0) + Cardinality(Pending(n)')
      BY <1>1, <3>1, <3>2, <3>4
    <3> QED
      BY <3>3, <3>5 DEF Counted
  <2> QED
    BY <2>3, <2>5 DEF Counts
<1> QED
  BY <1>6, <1>7, <1>8, <1>9, <1>10, <1>12, <1>13, <1>14 DEF IInv

(* Linking: the ring grows by the node, between two neighbours.             *)
LEMMA LinkInv ==
    ASSUME IInv, NEW t \in Threads, Link(t)
    PROVE  IInv' /\ Linked' = Linked \cup {fr[t].node} /\ fr[t].node \notin Linked
<1> DEFINE pos == fr[t].next
<1>0. PICK n \in Nodes : n = fr[t].node
  BY DEF IInv, Frames, Framed, Link, Having, Entering
<1>1. /\ pc[t] \in Entering /\ pc'[t] = "idle" /\ fr'[t] = NoCall
      /\ \A u \in Threads \ {t} : pc'[u] = pc[u] /\ fr'[u] = fr[u]
      /\ k_lock = NULL /\ owned' = owned \cup {n}
      /\ UNCHANGED <<n_klist, n_ref, k_lock, klist_remove_lock, klist_remove_waiters, waiter,
                     state, i_open, i_cur, objref>>
  BY <1>0 DEF IInv, TypeOK, Link, Finish, Entering
<1>2. NoCall.node = NULL /\ NoCall.put = FALSE /\ NoCall.op = "none"
  BY DEF NoCall, Frame
<1>3. /\ n \in Nodes /\ Initial(n) /\ n \notin owned /\ n_klist[n] = "k"
      /\ \A u \in Threads \ {t} : pc[u] \in Having \cup Releasing => fr[u].node # n
  BY <1>0, <1>1, OneHand DEF Having
<1>4. pos \in Linked
  <2>1. pos \in {HEAD, i_cur[t]} \ {NULL}
    BY <1>1 DEF IInv, Frames, Framed
  <2> QED
    BY <2>1, HeldNodes DEF Linked
<1>5. Linked' = Linked \cup {n} /\ n \notin Linked /\ Linked \subseteq Slots
  <2>1. \A m \in Nodes \ {n} : Apart(m)' <=> Apart(m)
    BY <1>0, <1>1, <1>2, Moves, KlistConstants DEF Entering, Leaving
  <2>2. Apart(n)
    BY <1>0, <1>1 DEF Apart
  <2>3. ~Apart(n)'
    <3>1. ASSUME NEW u \in Threads, fr'[u].node = n
          PROVE  pc'[u] \notin Entering \cup Leaving
      <4>1. u # t
        BY <1>1, <1>2, <1>3, <3>1, KlistConstants
      <4> QED
        BY <1>1, <1>3, <3>1, <4>1 DEF Having, Releasing
    <3> QED
      BY <3>1 DEF Apart
  <2>4. \A m \in Nodes : m \in Linked' <=> m \in Linked \cup {n}
    <3>1. \A m \in Nodes : klist_node_attached(m)' <=> klist_node_attached(m)
      BY <1>1 DEF klist_node_attached
    <3>2. klist_node_attached(n)
      BY <1>3 DEF klist_node_attached
    <3> QED
      BY <1>3, <2>1, <2>3, <3>1, <3>2, KlistConstants DEF Linked
  <2>5. n \notin Linked /\ Linked \subseteq Slots
    BY <1>3, <2>2, KlistConstants DEF Linked
  <2>6. Linked' \subseteq Slots /\ HEAD \in Linked' /\ HEAD \in Linked
    BY DEF Linked
  <2> QED
    BY <1>3, <2>4, <2>5, <2>6
<1>6. \E p \in Linked : InsertBetween(n, p, next[p]) /\ next[p] \in Linked
  <2>1. CASE pc[t] = "after"
    BY <1>0, <1>4, <2>1, Neighbours DEF Link
  <2>2. CASE pc[t] = "before"
    <3>1. InsertBetween(n, prev[pos], pos)
      BY <1>0, <2>2 DEF Link
    <3> QED
      BY <1>4, <3>1, Neighbours
  <2> QED
    BY <1>1, <2>1, <2>2 DEF Entering
<1>7. PICK p \in Linked : InsertBetween(n, p, next[p]) /\ next[p] \in Linked
  BY <1>6
<1>8. TypeOK'
  <2>1. fr' \in [Threads -> Locals]
    BY LocalsType DEF IInv, Link, Finish
  <2>2. next' \in [Slots -> Slots \cup {NULL}] /\ prev' \in [Slots -> Slots \cup {NULL}]
    BY <1>3, <1>5, <1>7 DEF IInv, TypeOK, InsertBetween
  <2>3. pc' \in [Threads -> {"idle", "after", "before", "enlist", "kill", "release", "wake",
                             "rouse", "delist", "detach", "scan", "put", "sleep", "check",
                             "schedule"}]
    BY DEF IInv, TypeOK, Link, Finish
  <2> QED
    BY <1>1, <1>3, <2>1, <2>2, <2>3 DEF IInv, TypeOK, Locals
<1>9. Locks'
  BY <1>1 DEF IInv, Locks, Locking, Releasing, Leaving, Waking, Entering
<1>10. Ordered'
  <2>1. /\ DOMAIN next = Slots /\ DOMAIN prev = Slots
        /\ IsRing(next, prev, HEAD, Linked)
    BY DEF IInv, TypeOK, Ordered
  <2>2. IsRing([next EXCEPT ![p] = n, ![n] = next[p]], [prev EXCEPT ![next[p]] = n, ![n] = p],
               HEAD, Linked \cup {n})
    BY <1>3, <1>5, <2>1, InsertInRing
  <2> QED
    BY <1>5, <1>7, <2>2 DEF Ordered, InsertBetween
<1>11. Frames'
  <2>1. Framed(t)'
    BY <1>1 DEF Framed, Entering, Having, Releasing, Leaving
  <2>2. \A u \in Threads \ {t} : Framed(u)'
    BY <1>1, <1>5, SameFrame DEF IInv, Frames
  <2> QED
    BY <2>1, <2>2 DEF Frames
<1>12. \A m \in Nodes : Initial(m)' <=> Initial(m)
  <2>1. \A m \in Nodes \ {n} : InHand(m)' <=> InHand(m)
    BY <1>0, <1>1, <1>2, Moves, KlistConstants DEF Having, Entering
  <2> QED
    BY <1>1, <1>3, <2>1 DEF Initial
<1>13. Ownership'
  <2>1. \A m \in Nodes : Sound(m)'
    BY <1>1, <1>12 DEF IInv, Ownership, Sound
  <2>2. Owns(t)'
    BY <1>1 DEF Owns, Having, Entering, Releasing, Leaving
  <2>3. \A u \in Threads \ {t} : Owns(u)'
    BY <1>1, <1>3 DEF IInv, Ownership, Owns
  <2>4. \A u, v \in Threads :
           pc'[u] \in Having /\ pc'[v] \in Having /\ fr'[u].node = fr'[v].node => u = v
    <3>1. \A u \in Threads : pc'[u] \in Having => pc[u] \in Having /\ fr'[u].node = fr[u].node
      BY <1>1 DEF Having, Entering
    <3>2. \A u, v \in Threads :
             pc[u] \in Having /\ pc[v] \in Having /\ fr[u].node = fr[v].node => u = v
      BY DEF IInv, Ownership
    <3> QED
      BY <3>1, <3>2
  <2> QED
    BY <2>1, <2>2, <2>3, <2>4 DEF Ownership
<1>14. Waiters'
  <2>1. klist_remove_waiters \subseteq Threads
    BY DEF IInv, TypeOK
  <2>2. fr[t].op = "add"
    BY <1>1 DEF IInv, Frames, Framed
  <2> QED
    BY <1>1, <2>1, <2>2 DEF IInv, Waiters, Entering
<1>15. Counts'
  <2>1. \A m \in Nodes : Pending(m)' = Pending(m)
    BY <1>1, <1>2, Moves DEF Owing, Entering
  <2> QED
    BY <1>1, <1>12, <2>1 DEF IInv, Counts, Counted, Holders, klist_node_attached
<1> QED
  BY <1>0, <1>5, <1>8, <1>9, <1>10, <1>11, <1>13, <1>14, <1>15 DEF IInv

(* Waiters are left alone by a thread that wakes nobody and stays one.      *)
LEMMA SameWaiters ==
    ASSUME IInv, NEW t \in Threads, \A u \in Threads \ {t} : pc'[u] = pc[u] /\ fr'[u] = fr[u],
           UNCHANGED <<klist_remove_waiters, waiter>>,
           pc[t] \notin {"rouse", "delist"}, pc'[t] \notin {"enlist", "kill"},
           fr[t].op = "remove" => fr'[t].op = "remove"
    PROVE  Waiters'
<1>1. klist_remove_waiters \subseteq Threads
  BY DEF IInv, TypeOK
<1> QED
  BY <1>1 DEF IInv, Waiters

(* Dropping a reference to n with k_lock free: by killing n, or by taking   *)
(* an iterator off it.                                                      *)
LEMMA DropInv ==
    ASSUME IInv, NEW t \in Threads, NEW n \in Nodes,
           pc[t] \in {"idle", "kill"}, pc'[t] \in {"idle", "sleep", "scan", "release"},
           \A u \in Threads \ {t} : /\ pc'[u] = pc[u] /\ fr'[u] = fr[u]
                                    /\ i_cur'[u] = i_cur[u]
                                    /\ pc[u] \in Entering => fr[u].node # n,
           UNCHANGED <<next, prev, objref, klist_remove_waiters, waiter>>,
           k_lock = NULL, owned' \subseteq owned,
           \A m \in Nodes \ {n} : /\ n_klist'[m] = n_klist[m] /\ n_ref'[m] = n_ref[m]
                                  /\ Initial(m)' <=> Initial(m)
                                  /\ Holders(m)' = Holders(m),
           n_klist[n] # "NULL", n_klist'[n] # "NULL", n_klist'[n] = "k" <=> Initial(n)',
           n_ref'[n] = Cardinality(Holders(n)') + (IF Initial(n)' THEN 1 ELSE 0),
           pc'[t] = "release" =>
              fr'[t].node = n /\ n_klist'[n] = "k|dead" /\ n_ref'[n] = 0,
           pc'[t] = "scan" => fr'[t].put = FALSE,
           fr[t].op = "remove" => fr'[t].op = "remove",
           Linked' = Linked => Framed(t)'
    PROVE  Linked' = Linked /\ Frames' /\ Ownership' /\ Ordered' /\ Waiters' /\ Counts'
<1>1. Linked' = Linked
  <2>1. \A m \in Nodes : Apart(m)' <=> Apart(m)
    BY Moves DEF Entering, Leaving
  <2>2. \A m \in Nodes : klist_node_attached(m)' <=> klist_node_attached(m)
    BY DEF klist_node_attached
  <2> QED
    BY <2>1, <2>2 DEF Linked
<1>2. Frames'
  <2>1. \A u \in Threads \ {t} : Framed(u)'
    BY <1>1, SameFrame DEF IInv, Frames
  <2> QED
    BY <1>1, <2>1 DEF Frames
<1>3. Ownership'
  <2>1. \A m \in Nodes : Sound(m)'
    BY DEF IInv, Ownership, Sound
  <2>2. Owns(t)'
    BY DEF Owns, Having, Entering, Releasing, Leaving
  <2>3. ASSUME NEW u \in Threads \ {t} PROVE Owns(u)'
    <3>1. pc[u] \notin Releasing
      BY KlistConstants DEF IInv, Locks, Locking
    <3>2. pc[u] \in Entering => fr[u].node \in Nodes \ {n}
      BY DEF IInv, Frames, Framed, Having
    <3> QED
      BY <3>1, <3>2 DEF IInv, Ownership, Owns
  <2>4. \A u, v \in Threads :
           pc'[u] \in Having /\ pc'[v] \in Having /\ fr'[u].node = fr'[v].node => u = v
    <3>1. pc'[t] \notin Having
      BY DEF Having, Entering
    <3> QED
      BY <3>1 DEF IInv, Ownership
  <2> QED
    BY <2>1, <2>2, <2>3, <2>4 DEF Ownership
<1>4. Ordered'
  BY <1>1 DEF IInv, Ordered
<1>5. Waiters'
  <2>1. klist_remove_waiters \subseteq Threads
    BY DEF IInv, TypeOK
  <2> QED
    BY <2>1 DEF IInv, Waiters
<1>6. Counts'
  <2>1. ASSUME NEW m \in Nodes
        PROVE  /\ Pending(m)' = Pending(m)
               /\ klist_node_attached(m)' <=> klist_node_attached(m)
    BY Moves DEF Owing, klist_node_attached
  <2>2. \A m \in Nodes \ {n} : Counted(m)'
    BY <2>1 DEF IInv, Counts, Counted
  <2>3. Counted(n)'
    BY <2>1 DEF IInv, Counts, Counted
  <2> QED
    BY <2>2, <2>3 DEF Counts
<1> QED
  BY <1>1, <1>2, <1>3, <1>4, <1>5, <1>6

(* Killing n, when its initial reference is the clients' or t's own; the    *)
(* types and locks the drop leaves.                                         *)
LEMMA KillCounts ==
    ASSUME IInv, NEW t \in Threads, NEW n \in Nodes, Initial(n), k_lock = NULL,
           klist_dec_and_del(n), knode_kill(n), UNCHANGED i_cur,
           ~Initial(n)'
    PROVE  /\ n_klist[n] # "NULL" /\ n_klist'[n] = "k|dead"
           /\ n_ref'[n] = Cardinality(Holders(n)') + (IF Initial(n)' THEN 1 ELSE 0)
           /\ n_ref'[n] = n_ref[n] - 1
           /\ n_ref' \in [Nodes -> Nat]
           /\ n_klist' \in [Nodes -> {"NULL", "k", "k|dead"}]
           /\ \A m \in Nodes \ {n} : n_klist'[m] = n_klist[m] /\ n_ref'[m] = n_ref[m]
           /\ \A m \in Nodes : Holders(m)' = Holders(m)
<1>1. n_klist[n] # "NULL"
  BY DEF IInv, Ownership, Sound
<1>2. n_ref[n] = Cardinality(Holders(n)) + 1 /\ Cardinality(Holders(n)) \in Nat
  BY ThreadSets DEF IInv, Counts, Counted, Holders
<1>3. n_ref'[n] = n_ref[n] - 1 /\ n_ref' \in [Nodes -> Nat]
  BY <1>2 DEF IInv, TypeOK, klist_dec_and_del
<1>4. \A m \in Nodes : Holders(m)' = Holders(m)
  BY DEF Holders
<1>5. /\ n_klist' \in [Nodes -> {"NULL", "k", "k|dead"}] /\ n_klist'[n] = "k|dead"
      /\ \A m \in Nodes \ {n} : n_klist'[m] = n_klist[m] /\ n_ref'[m] = n_ref[m]
  BY DEF IInv, TypeOK, knode_kill, klist_dec_and_del
<1> QED
  BY <1>1, <1>2, <1>3, <1>4, <1>5

LEMMA KlistDelInv ==
    ASSUME IInv, NEW t \in Threads, NEW n \in Nodes, klist_del(t, n)
    PROVE  IInv' /\ Linked' = Linked
<1>1. /\ pc[t] = "idle" /\ n \in owned /\ k_lock = NULL /\ owned' = owned \ {n}
      /\ klist_dec_and_del(n) /\ knode_kill(n)
      /\ UNCHANGED <<next, prev, klist_remove_lock, klist_remove_waiters, waiter, state,
                     i_open, i_cur, objref>>
      /\ \A u \in Threads \ {t} : pc'[u] = pc[u] /\ fr'[u] = fr[u]
  BY DEF IInv, TypeOK, klist_del, klist_put, Finish
<1>2. \/ /\ n_ref[n] = 1 /\ k_lock' = t
         /\ Goto(t, "release") /\ fr' = [fr EXCEPT ![t] = Frame("put", n, NULL, TRUE)]
         /\ pc'[t] = "release" /\ fr'[t] = Frame("put", n, NULL, TRUE)
      \/ /\ n_ref[n] # 1 /\ k_lock' = NULL
         /\ Goto(t, "idle") /\ fr' = [fr EXCEPT ![t] = NoCall]
         /\ pc'[t] = "idle" /\ fr'[t] = NoCall
  BY <1>1 DEF IInv, TypeOK, klist_del, klist_put, Finish, Last
<1>3. fr[t] = NoCall
  BY <1>1 DEF IInv, Frames, Framed
<1>4. /\ ~Initial(n)' /\ Initial(n)
      /\ \A m \in Nodes \ {n} : Initial(m)' <=> Initial(m)
  <2>1. ~InHand(n)
    BY <1>1 DEF IInv, Ownership, Owns, InHand, Having, Entering
  <2>2. \A m \in Nodes : InHand(m)' <=> InHand(m)
    BY <1>1, <1>2, Moves DEF Having, Entering
  <2> QED
    BY <1>1, <2>1, <2>2 DEF Initial
<1>5. TypeOK'
  <2>1. fr' \in [Threads -> Locals]
    <3>1. fr \in [Threads -> Locals] /\ NoCall \in Locals
      BY LocalsType DEF IInv
    <3>2. Frame("put", n, NULL, TRUE) \in Locals
      BY FrameType
    <3> QED
      BY <1>2, <3>1, <3>2
  <2>2. pc' \in [Threads -> {"idle", "after", "before", "enlist", "kill", "release", "wake",
                             "rouse", "delist", "detach", "scan", "put", "sleep", "check",
                             "schedule"}]
    BY <1>2 DEF IInv, TypeOK
  <2> QED
    BY <1>1, <1>2, <1>4, <2>1, <2>2, KillCounts DEF IInv, TypeOK, Locals
<1>6. Locks'
  BY <1>1, <1>2, KlistConstants DEF IInv, Locks, Locking, Releasing, Leaving, Waking
<1>7. Framed(t)'
  BY <1>2 DEF Framed, Frame, Having, Entering, Releasing, Leaving
<1>8. \A u \in Threads \ {t} : pc[u] \in Entering => fr[u].node # n
  BY <1>1 DEF IInv, Ownership, Owns, Having
<1>9. pc'[t] = "release" => fr'[t].node = n /\ n_ref'[n] = 0
  BY <1>1, <1>2, <1>4, KillCounts DEF Frame
<1>10. fr[t].op # "remove"
  BY <1>3 DEF NoCall, Frame
<1>11. Linked' = Linked /\ Frames' /\ Ownership' /\ Ordered' /\ Waiters' /\ Counts'
  <2>1. /\ n_klist[n] # "NULL" /\ n_klist'[n] = "k|dead"
        /\ n_ref'[n] = Cardinality(Holders(n)') + (IF Initial(n)' THEN 1 ELSE 0)
        /\ \A m \in Nodes \ {n} : n_klist'[m] = n_klist[m] /\ n_ref'[m] = n_ref[m]
        /\ \A m \in Nodes : Holders(m)' = Holders(m)
    BY <1>1, <1>4, KillCounts
  <2> QED
    BY <1>1, <1>2, <1>4, <1>7, <1>8, <1>9, <1>10, <2>1, DropInv
<1> QED
  BY <1>5, <1>6, <1>11 DEF IInv

LEMMA RemoveKillInv ==
    ASSUME IInv, NEW t \in Threads, RemoveKill(t)
    PROVE  IInv' /\ Linked' = Linked
<1>0. PICK n \in Nodes : n = fr[t].node
  BY DEF IInv, Frames, Framed, RemoveKill, Having
<1>1. /\ pc[t] = "kill" /\ k_lock = NULL
      /\ klist_dec_and_del(n) /\ knode_kill(n)
      /\ UNCHANGED <<next, prev, klist_remove_lock, klist_remove_waiters, waiter, state,
                     i_open, i_cur, objref, owned>>
      /\ \A u \in Threads \ {t} : pc'[u] = pc[u] /\ fr'[u] = fr[u]
  BY <1>0 DEF IInv, TypeOK, RemoveKill, klist_put, Finish
<1>2. \/ /\ n_ref[n] = 1 /\ k_lock' = t
         /\ Goto(t, "release") /\ fr' = [fr EXCEPT ![t] = Frame("remove", n, NULL, TRUE)]
         /\ pc'[t] = "release" /\ fr'[t] = Frame("remove", n, NULL, TRUE)
      \/ /\ n_ref[n] # 1 /\ k_lock' = NULL
         /\ Goto(t, "sleep") /\ UNCHANGED fr
         /\ pc'[t] = "sleep" /\ fr'[t] = fr[t]
  BY <1>0, <1>1 DEF IInv, TypeOK, RemoveKill, klist_put, Finish, Last
<1>3. fr[t].op = "remove" /\ fr'[t].op = "remove"
  BY <1>1, <1>2 DEF IInv, Frames, Framed, Frame
<1>4. /\ ~Initial(n)' /\ Initial(n) /\ pc[t] \in Having
      /\ \A u \in Threads \ {t} : pc[u] \in Having \cup Releasing => fr[u].node # n
      /\ \A m \in Nodes \ {n} : Initial(m)' <=> Initial(m)
  <2>1. /\ pc[t] \in Having /\ pc'[t] \notin Having
        /\ n \notin owned /\ Initial(n)
        /\ \A u \in Threads \ {t} : pc[u] \in Having \cup Releasing => fr[u].node # n
    BY <1>0, <1>1, <1>2, OneHand DEF Having, Entering
  <2>2. ~InHand(n)'
    BY <1>1, <2>1 DEF InHand, Having, Entering
  <2>3. \A m \in Nodes \ {n} : InHand(m)' <=> InHand(m)
    BY <1>0, <1>1, <2>1, Moves
  <2> QED
    BY <1>1, <2>1, <2>2, <2>3 DEF Initial
<1>5. TypeOK'
  <2>1. fr' \in [Threads -> Locals]
    <3>1. fr \in [Threads -> Locals] /\ NoCall \in Locals
      BY LocalsType DEF IInv
    <3>2. Frame("remove", n, NULL, TRUE) \in Locals
      BY FrameType
    <3> QED
      BY <1>2, <3>1, <3>2
  <2>2. pc' \in [Threads -> {"idle", "after", "before", "enlist", "kill", "release", "wake",
                             "rouse", "delist", "detach", "scan", "put", "sleep", "check",
                             "schedule"}]
    BY <1>2 DEF IInv, TypeOK
  <2> QED
    BY <1>1, <1>2, <1>4, <2>1, <2>2, KillCounts DEF IInv, TypeOK, Locals
<1>6. Locks'
  BY <1>1, <1>2, KlistConstants DEF IInv, Locks, Locking, Releasing, Leaving, Waking
<1>7. Framed(t)'
  BY <1>2, <1>3 DEF Framed, Frame, Having, Entering, Releasing, Leaving
<1>8. \A u \in Threads \ {t} : pc[u] \in Entering => fr[u].node # n
  BY <1>4 DEF Having
<1>9. pc'[t] = "release" => fr'[t].node = n /\ n_ref'[n] = 0
  BY <1>1, <1>2, <1>4, KillCounts DEF Frame
<1>10. Linked' = Linked /\ Frames' /\ Ownership' /\ Ordered' /\ Waiters' /\ Counts'
  <2>1. /\ n_klist[n] # "NULL" /\ n_klist'[n] = "k|dead"
        /\ n_ref'[n] = Cardinality(Holders(n)') + (IF Initial(n)' THEN 1 ELSE 0)
        /\ \A m \in Nodes \ {n} : n_klist'[m] = n_klist[m] /\ n_ref'[m] = n_ref[m]
        /\ \A m \in Nodes : Holders(m)' = Holders(m)
    BY <1>1, <1>4, KillCounts
  <2> QED
    BY <1>1, <1>2, <1>3, <1>4, <1>7, <1>8, <1>9, <2>1, DropInv
<1> QED
  BY <1>5, <1>6, <1>10 DEF IInv

(* Taking the iterator off n.                                               *)
LEMMA LeaveCounts ==
    ASSUME IInv, NEW t \in Threads, NEW n \in Nodes, i_cur[t] = n, klist_dec_and_del(n),
           i_cur' = [i_cur EXCEPT ![t] = NULL], UNCHANGED <<n_klist, owned>>,
           \A m \in Nodes : Initial(m)' <=> Initial(m)
    PROVE  /\ n_klist[n] # "NULL" /\ (n_klist'[n] = "k" <=> Initial(n)')
           /\ n_ref'[n] = Cardinality(Holders(n)') + (IF Initial(n)' THEN 1 ELSE 0)
           /\ n_ref' \in [Nodes -> Nat]
           /\ n_ref[n] = 1 => n_klist[n] = "k|dead" /\ n_ref'[n] = 0
           /\ \A m \in Nodes \ {n} : n_ref'[m] = n_ref[m] /\ Holders(m)' = Holders(m)
           /\ \A u \in Threads : pc[u] \in Entering => fr[u].node # n
<1>1. n_ref[n] >= 1 /\ (Initial(n) => n_ref[n] >= 2)
  BY HeldNodes, KlistConstants
<1>2. /\ n_klist[n] \in {"k", "k|dead"} /\ (n_klist[n] = "k" <=> Initial(n))
      /\ n_ref[n] = 1 => n_klist[n] = "k|dead"
  BY <1>1 DEF IInv, TypeOK, Ownership, Sound
<1>3. /\ n_ref' \in [Nodes -> Nat] /\ n_ref'[n] = n_ref[n] - 1
      /\ \A m \in Nodes \ {n} : n_ref'[m] = n_ref[m]
  BY <1>1 DEF IInv, TypeOK, klist_dec_and_del
<1>4. Holders(n)' = Holders(n) \ {t} /\ t \in Holders(n)
  BY KlistConstants DEF IInv, TypeOK, Holders
<1>5. \A m \in Nodes \ {n} : Holders(m)' = Holders(m)
  BY KlistConstants DEF IInv, TypeOK, Holders
<1>6. n_ref'[n] = Cardinality(Holders(n)') + (IF Initial(n)' THEN 1 ELSE 0)
  <2>1. Holders(n) \in SUBSET Threads
    BY DEF Holders
  <2>2. /\ Cardinality(Holders(n) \ {t}) = Cardinality(Holders(n)) - 1
        /\ Cardinality(Holders(n)) \in Nat
    BY <1>4, <2>1, ThreadSets
  <2>3. n_ref[n] = Cardinality(Holders(n)) + (IF Initial(n) THEN 1 ELSE 0)
    BY DEF IInv, Counts, Counted
  <2> QED
    BY <1>3, <1>4, <2>2, <2>3
<1>7. ASSUME NEW u \in Threads, pc[u] \in Entering, fr[u].node = n
      PROVE  FALSE
  <2>1. n_ref[n] = 1 /\ Initial(n)
    BY <1>7, OneHand DEF IInv, Ownership, Owns, Having
  <2> QED
    BY <1>1, <2>1
<1> QED
  BY <1>1, <1>2, <1>3, <1>5, <1>6, <1>7

LEMMA IterExitInv ==
    ASSUME IInv, NEW t \in Threads, klist_iter_exit(t)
    PROVE  IInv' /\ Linked' = Linked
<1>1. CASE i_cur[t] = NULL
  <2>1. /\ UNCHANGED <<next, prev, n_klist, n_ref, k_lock, klist_remove_lock,
                       klist_remove_waiters, waiter, state, pc, fr, objref, owned, i_cur>>
        /\ i_open' \in [Threads -> BOOLEAN]
    BY <1>1 DEF IInv, TypeOK, klist_iter_exit
  <2>2. TypeOK'
    BY <2>1 DEF IInv, TypeOK
  <2>3. Locks'
    BY <2>1 DEF IInv, Locks
  <2>4. Linked' = Linked /\ Ordered' /\ Ownership' /\ Counts'
    BY <2>1, QuietStep
  <2>5. Frames'
    BY <2>1, <2>4, SameFrame DEF IInv, Frames
  <2>6. Waiters'
    BY <2>1 DEF IInv, Waiters
  <2> QED
    BY <2>2, <2>3, <2>4, <2>5, <2>6 DEF IInv
<1>2. CASE i_cur[t] # NULL
  <2>0. PICK n \in Nodes : n = i_cur[t]
    BY <1>2 DEF IInv, TypeOK
  <2>1. /\ pc[t] = "idle" /\ k_lock = NULL /\ klist_dec_and_del(n)
        /\ i_cur' = [i_cur EXCEPT ![t] = NULL] /\ i_open' \in [Threads -> BOOLEAN]
        /\ UNCHANGED <<next, prev, n_klist, klist_remove_lock, klist_remove_waiters, waiter,
                       state, objref, owned>>
        /\ \A u \in Threads \ {t} : pc'[u] = pc[u] /\ fr'[u] = fr[u] /\ i_cur'[u] = i_cur[u]
        /\ i_cur'[t] = NULL
    BY <1>2, <2>0 DEF IInv, TypeOK, klist_iter_exit, klist_put, Finish
  <2>2. \/ /\ n_ref[n] = 1 /\ k_lock' = t
           /\ Goto(t, "release") /\ fr' = [fr EXCEPT ![t] = Frame("put", n, NULL, TRUE)]
           /\ pc'[t] = "release" /\ fr'[t] = Frame("put", n, NULL, TRUE)
        \/ /\ n_ref[n] # 1 /\ k_lock' = NULL
           /\ Goto(t, "idle") /\ fr' = [fr EXCEPT ![t] = NoCall]
           /\ pc'[t] = "idle" /\ fr'[t] = NoCall
    <3>1. klist_put(t, n, "put")
      BY <1>2, <2>0 DEF klist_iter_exit
    <3>2. \/ /\ n_ref[n] = 1 /\ k_lock' = t
             /\ Goto(t, "release") /\ fr' = [fr EXCEPT ![t] = Frame("put", n, NULL, TRUE)]
          \/ /\ n_ref[n] # 1 /\ k_lock' = NULL
             /\ Goto(t, "idle") /\ fr' = [fr EXCEPT ![t] = NoCall]
      BY <2>1, <3>1 DEF klist_put, Finish, Last
    <3>3. DOMAIN pc = Threads /\ DOMAIN fr = Threads
      BY DEF IInv, TypeOK
    <3> QED
      BY <3>2, <3>3
  <2>3. fr[t].op # "remove"
    BY <2>1 DEF IInv, Frames, Framed, NoCall, Frame
  <2>4. \A m \in Nodes : Initial(m)' <=> Initial(m)
    <3>1. \A m \in Nodes : InHand(m)' <=> InHand(m)
      BY <2>1, <2>2, Moves DEF Having, Entering
    <3> QED
      BY <2>1, <3>1 DEF Initial
  <2>5. /\ n_klist[n] # "NULL" /\ (n_klist'[n] = "k" <=> Initial(n)')
        /\ n_ref'[n] = Cardinality(Holders(n)') + (IF Initial(n)' THEN 1 ELSE 0)
        /\ n_ref' \in [Nodes -> Nat]
        /\ n_ref[n] = 1 => n_klist[n] = "k|dead" /\ n_ref'[n] = 0
        /\ \A m \in Nodes \ {n} : n_ref'[m] = n_ref[m] /\ Holders(m)' = Holders(m)
        /\ \A u \in Threads : pc[u] \in Entering => fr[u].node # n
    BY <2>0, <2>1, <2>4, LeaveCounts
  <2>6. TypeOK'
    <3>1. fr' \in [Threads -> Locals]
      <4>1. fr \in [Threads -> Locals] /\ NoCall \in Locals
        BY LocalsType DEF IInv
      <4>2. Frame("put", n, NULL, TRUE) \in Locals
        BY FrameType
      <4> QED
        BY <2>2, <4>1, <4>2
    <3>2. pc' \in [Threads -> {"idle", "after", "before", "enlist", "kill", "release", "wake",
                               "rouse", "delist", "detach", "scan", "put", "sleep", "check",
                               "schedule"}]
      BY <2>2 DEF IInv, TypeOK
    <3>3. i_cur' \in [Threads -> Nodes \cup {NULL}]
      BY <2>1 DEF IInv, TypeOK
    <3> QED
      BY <2>1, <2>2, <2>5, <3>1, <3>2, <3>3 DEF IInv, TypeOK, Locals
  <2>7. Locks'
    <3>1. \/ pc'[t] = "release" /\ k_lock' = t
          \/ pc'[t] = "idle" /\ k_lock' = NULL
      BY <2>2
    <3> QED
      BY <2>1, <3>1, KlistConstants DEF IInv, Locks, Locking, Releasing, Leaving, Waking
  <2>8. Framed(t)'
    BY <2>2 DEF Framed, Frame, Having, Entering, Releasing, Leaving
  <2>9. pc'[t] = "release" => fr'[t].node = n
    BY <2>2 DEF Frame
  <2>10. Linked' = Linked /\ Frames' /\ Ownership' /\ Ordered' /\ Waiters' /\ Counts'
    BY <2>1, <2>2, <2>3, <2>4, <2>5, <2>8, <2>9, DropInv
  <2> QED
    BY <2>6, <2>7, <2>10 DEF IInv
<1> QED
  BY <1>1, <1>2

(* klist_next's first step: the successor it reads is a node of the list,   *)
(* and another one than the node it leaves.                                 *)
LEMMA KlistNextInv ==
    ASSUME IInv, NEW t \in Threads, klist_next(t)
    PROVE  IInv' /\ Linked' = Linked
<1>1. /\ pc[t] = "idle" /\ k_lock = NULL /\ k_lock' = t
      /\ i_cur' = [i_cur EXCEPT ![t] = NULL]
      /\ UNCHANGED <<next, prev, n_klist, klist_remove_lock, klist_remove_waiters, waiter,
                     state, i_open, objref, owned>>
      /\ \A u \in Threads \ {t} : pc'[u] = pc[u] /\ fr'[u] = fr[u] /\ i_cur'[u] = i_cur[u]
      /\ i_cur'[t] = NULL
  BY DEF IInv, TypeOK, klist_next
<1>2. fr[t].op = "none" /\ fr[t].put = FALSE
  BY <1>1 DEF IInv, Frames, Framed, NoCall, Frame
<1>3. Locks' /\ i_cur' \in [Threads -> Nodes \cup {NULL}]
  <2>1. pc'[t] \in {"release", "scan"}
    BY DEF IInv, TypeOK, klist_next
  <2>2. Locks'
    BY <1>1, <2>1, KlistConstants DEF IInv, Locks, Locking, Releasing, Leaving, Waking
  <2> QED
    BY <1>1, <2>2 DEF IInv, TypeOK
<1>4. CASE i_cur[t] = NULL
  <2>1. /\ Goto(t, "scan") /\ fr' = [fr EXCEPT ![t] = Frame("next", NULL, next[HEAD], FALSE)]
        /\ pc'[t] = "scan" /\ fr'[t] = Frame("next", NULL, next[HEAD], FALSE)
        /\ UNCHANGED <<n_ref, i_cur>>
    BY <1>4 DEF IInv, TypeOK, klist_next
  <2>2. next[HEAD] \in Linked /\ next[HEAD] \in Slots
    BY Neighbours DEF Linked
  <2>3. TypeOK'
    <3>1. fr' \in [Threads -> Locals]
      <4>1. fr \in [Threads -> Locals]
        BY LocalsType DEF IInv
      <4>2. Frame("next", NULL, next[HEAD], FALSE) \in Locals
        BY <2>2, FrameType
      <4> QED
        BY <2>1, <4>1, <4>2
    <3> QED
      BY <1>1, <2>1, <3>1 DEF IInv, TypeOK, Locals
  <2>4. Linked' = Linked /\ Ordered' /\ Ownership' /\ Counts'
    <3>1. fr'[t].put = FALSE
      BY <2>1 DEF Frame
    <3> QED
      BY <1>1, <1>2, <2>1, <3>1, QuietStep DEF Having, Entering, Releasing, Leaving, Owing
  <2>5. Frames'
    <3>1. Framed(t)'
      BY <2>1, <2>2, <2>4 DEF Framed, Frame, Having, Entering, Releasing, Leaving
    <3> QED
      BY <1>1, <2>4, <3>1, SameFrame DEF IInv, Frames
  <2>6. Waiters'
    BY <1>1, <1>2, <2>1, SameWaiters
  <2> QED
    BY <1>3, <2>3, <2>4, <2>5, <2>6 DEF IInv
<1>5. CASE i_cur[t] # NULL
  <2>0. PICK n \in Nodes : n = i_cur[t]
    BY <1>5 DEF IInv, TypeOK
  <2>1. klist_dec_and_del(n)
    BY <1>5, <2>0 DEF klist_next
  <2>2. next[n] \in Linked \ {n} /\ next[n] \in Slots
    BY <1>5, <2>0, HeldNodes, Neighbours, KlistConstants
  <2>3. \/ /\ n_ref[n] = 1
           /\ Goto(t, "release") /\ fr' = [fr EXCEPT ![t] = Frame("next", n, next[n], TRUE)]
           /\ pc'[t] = "release" /\ fr'[t] = Frame("next", n, next[n], TRUE)
        \/ /\ n_ref[n] # 1
           /\ Goto(t, "scan") /\ fr' = [fr EXCEPT ![t] = Frame("next", n, next[n], FALSE)]
           /\ pc'[t] = "scan" /\ fr'[t] = Frame("next", n, next[n], FALSE)
    BY <1>5, <2>0 DEF IInv, TypeOK, klist_next, Last
  <2>4. \A m \in Nodes : Initial(m)' <=> Initial(m)
    <3>1. \A m \in Nodes : InHand(m)' <=> InHand(m)
      BY <1>1, <2>3, Moves DEF Having, Entering
    <3> QED
      BY <1>1, <3>1 DEF Initial
  <2>5. /\ n_klist[n] # "NULL" /\ (n_klist'[n] = "k" <=> Initial(n)')
        /\ n_ref'[n] = Cardinality(Holders(n)') + (IF Initial(n)' THEN 1 ELSE 0)
        /\ n_ref' \in [Nodes -> Nat]
        /\ n_ref[n] = 1 => n_klist[n] = "k|dead" /\ n_ref'[n] = 0
        /\ \A m \in Nodes \ {n} : n_ref'[m] = n_ref[m] /\ Holders(m)' = Holders(m)
        /\ \A u \in Threads : pc[u] \in Entering => fr[u].node # n
    BY <1>1, <2>0, <2>1, <2>4, LeaveCounts
  <2>6. TypeOK'
    <3>1. fr' \in [Threads -> Locals]
      <4>1. fr \in [Threads -> Locals]
        BY LocalsType DEF IInv
      <4>2. \A b \in BOOLEAN : Frame("next", n, next[n], b) \in Locals
        BY <2>2, FrameType
      <4> QED
        BY <2>3, <4>1, <4>2
    <3>2. pc' \in [Threads -> {"idle", "after", "before", "enlist", "kill", "release", "wake",
                               "rouse", "delist", "detach", "scan", "put", "sleep", "check",
                               "schedule"}]
      BY <2>3 DEF IInv, TypeOK
    <3> QED
      BY <1>1, <1>3, <2>5, <3>1, <3>2 DEF IInv, TypeOK, Locals
  <2>7. Linked' = Linked => Framed(t)'
    BY <2>2, <2>3 DEF Framed, Frame, Having, Entering, Releasing, Leaving
  <2>8. /\ pc'[t] = "release" => fr'[t].node = n
        /\ pc'[t] = "scan" => fr'[t].put = FALSE
    BY <2>3 DEF Frame
  <2>9. Linked' = Linked /\ Frames' /\ Ownership' /\ Ordered' /\ Waiters' /\ Counts'
    BY <1>1, <1>2, <2>3, <2>4, <2>5, <2>7, <2>8, DropInv
  <2> QED
    BY <1>3, <2>6, <2>9 DEF IInv
<1> QED
  BY <1>4, <1>5

(* klist_remove's first step: the initial reference goes from the clients   *)
(* into this call's hand.                                                   *)
LEMMA KlistRemoveInv ==
    ASSUME IInv, NEW t \in Threads, NEW n \in Nodes, klist_remove(t, n)
    PROVE  IInv' /\ Linked' = Linked
<1>1. /\ pc[t] = "idle" /\ n \in owned /\ owned' = owned \ {n}
      /\ waiter'[t].node = n /\ waiter'[t].woken = FALSE
      /\ pc'[t] = "enlist"
      /\ \A u \in Threads \ {t} : pc'[u] = pc[u] /\ fr'[u] = fr[u] /\ waiter'[u] = waiter[u]
      /\ UNCHANGED <<next, prev, n_klist, n_ref, k_lock, klist_remove_lock,
                     klist_remove_waiters, state, i_open, i_cur, objref>>
  BY DEF IInv, TypeOK, klist_remove
<1>2. /\ fr[t].op = "none"
      /\ fr'[t].node = n /\ fr'[t].op = "remove" /\ fr'[t].put = FALSE
  <2>1. fr[t].op = "none"
    BY <1>1 DEF IInv, Frames, Framed, NoCall, Frame
  <2>2. fr'[t] = Frame("remove", n, NULL, FALSE)
    BY DEF IInv, TypeOK, klist_remove
  <2> QED
    BY <2>1, <2>2 DEF Frame
<1>3. TypeOK'
  <2>1. fr' \in [Threads -> Locals]
    <3>1. fr \in [Threads -> Locals] /\ Frame("remove", n, NULL, FALSE) \in Locals
      BY LocalsType, FrameType DEF IInv
    <3> QED
      BY <3>1 DEF klist_remove
  <2>2. waiter' \in [Threads -> [node : Nodes \cup {NULL}, woken : BOOLEAN]]
    BY DEF IInv, TypeOK, klist_remove
  <2>3. pc' \in [Threads -> {"idle", "after", "before", "enlist", "kill", "release", "wake",
                             "rouse", "delist", "detach", "scan", "put", "sleep", "check",
                             "schedule"}]
    BY DEF IInv, TypeOK, klist_remove
  <2> QED
    BY <1>1, <2>1, <2>2, <2>3 DEF IInv, TypeOK, Locals
<1>4. Locks'
  BY <1>1 DEF IInv, Locks, Locking, Releasing, Leaving, Waking
<1>5. Linked' = Linked
  <2>1. \A m \in Nodes : Apart(m)' <=> Apart(m)
    BY <1>1, Moves DEF Entering, Leaving
  <2> QED
    BY <1>1, <2>1 DEF Linked, klist_node_attached
<1>6. Ordered'
  BY <1>1, <1>5 DEF IInv, Ordered
<1>7. Frames'
  <2>1. Framed(t)'
    BY <1>1, <1>2 DEF Framed, Entering, Having, Releasing, Leaving
  <2> QED
    BY <1>1, <1>5, <2>1, SameFrame DEF IInv, Frames
<1>8. \A m \in Nodes : Initial(m)' <=> Initial(m)
  <2>1. \A m \in Nodes \ {n} : InHand(m)' <=> InHand(m)
    BY <1>1, <1>2, Moves DEF Having, Entering
  <2>2. InHand(n)'
    BY <1>1, <1>2, Moves DEF Having
  <2> QED
    BY <1>1, <2>1, <2>2 DEF Initial
<1>9. Ownership'
  <2>1. \A m \in Nodes : Sound(m)'
    BY <1>1, <1>8 DEF IInv, Ownership, Sound
  <2>2. Owns(t)'
    BY <1>1, <1>2 DEF Owns, Having, Entering, Releasing, Leaving
  <2>3. \A u \in Threads \ {t} : Owns(u)'
    BY <1>1 DEF IInv, Ownership, Owns
  <2>4. \A u \in Threads \ {t} : pc[u] \in Having => fr[u].node # n
    BY <1>1 DEF IInv, Ownership, Owns
  <2>5. \A u, v \in Threads :
           pc'[u] \in Having /\ pc'[v] \in Having /\ fr'[u].node = fr'[v].node => u = v
    <3> SUFFICES ASSUME NEW u \in Threads, NEW v \in Threads, pc'[u] \in Having,
                        pc'[v] \in Having, fr'[u].node = fr'[v].node
                 PROVE  u = v
      OBVIOUS
    <3>1. CASE u # t /\ v # t
      BY <1>1, <3>1 DEF IInv, Ownership
    <3>2. CASE u = t \/ v = t
      BY <1>1, <1>2, <2>4, <3>2
    <3> QED
      BY <3>1, <3>2
  <2> QED
    BY <2>1, <2>2, <2>3, <2>5 DEF Ownership
<1>10. Waiters'
  <2>1. klist_remove_waiters \subseteq Threads
    BY DEF IInv, TypeOK
  <2>2. ASSUME NEW w \in klist_remove_waiters
        PROVE  \/ \E u \in Threads : pc'[u] \in {"rouse", "delist"} /\ fr'[u].w = w
               \/ fr'[w].op = "remove" /\ ~waiter'[w].woken
    <3>1. CASE w = t
      BY <1>1, <1>2, <3>1
    <3>2. CASE w # t
      BY <1>1, <2>1, <3>2 DEF IInv, Waiters
    <3> QED
      BY <3>1, <3>2
  <2>3. ASSUME NEW u \in Threads, pc'[u] \in {"enlist", "kill"}
        PROVE  ~waiter'[u].woken /\ waiter'[u].node = fr'[u].node
    BY <1>1, <1>2, <2>3 DEF IInv, Waiters
  <2> QED
    BY <1>1, <2>2, <2>3 DEF Waiters
<1>11. Counts'
  <2>1. \A m \in Nodes : Pending(m)' = Pending(m)
    BY <1>1, <1>2, Moves DEF Owing
  <2> QED
    BY <1>1, <1>8, <2>1 DEF IInv, Counts, Counted, Holders, klist_node_attached
<1> QED
  BY <1>3, <1>4, <1>5, <1>6, <1>7, <1>9, <1>10, <1>11 DEF IInv

(* While one thread is in klist_release, it alone works on its node.        *)
LEMMA OneRelease ==
    ASSUME IInv, NEW t \in Threads, pc[t] \in Releasing
    PROVE  /\ fr[t].node \in Nodes /\ n_klist[fr[t].node] = "k|dead" /\ n_ref[fr[t].node] = 0
           /\ ~Initial(fr[t].node) /\ fr[t].put = TRUE
           /\ k_lock = t /\ klist_remove_lock \in {t, NULL}
           /\ \A u \in Threads \ {t} :
                 /\ pc[u] \notin Locking
                 /\ pc[u] \in Having => fr[u].node # fr[t].node
<1>1. /\ fr[t].node \in Nodes /\ fr[t].put = TRUE
      /\ n_klist[fr[t].node] = "k|dead" /\ n_ref[fr[t].node] = 0
  BY DEF IInv, TypeOK, Frames, Framed, Ownership, Owns
<1>2. ~Initial(fr[t].node)
  BY <1>1 DEF IInv, Ownership, Sound
<1>3. k_lock = t /\ \A u \in Threads \ {t} : pc[u] \notin Locking
  BY DEF IInv, Locks, Locking
<1>4. klist_remove_lock \in {t, NULL}
  BY <1>3 DEF IInv, TypeOK, Locks, Locking, Releasing, Leaving, Waking
<1>5. \A u \in Threads : pc[u] \in Having => fr[u].node # fr[t].node
  BY <1>2 DEF Initial, InHand, Having, Entering
<1> QED
  BY <1>1, <1>2, <1>3, <1>4, <1>5

(* klist_release unlinks: the ring closes behind the node.                  *)
LEMMA UnlinkInv ==
    ASSUME IInv, NEW t \in Threads, Unlink(t)
    PROVE  IInv' /\ Linked' = Linked \ {fr[t].node} /\ fr[t].node \in Linked
<1>0. PICK n \in Nodes : n = fr[t].node
  BY DEF IInv, Frames, Framed, Unlink, Releasing
<1>1. /\ pc[t] = "release" /\ pc'[t] = "wake" /\ list_del(n)
      /\ klist_remove_lock = NULL /\ klist_remove_lock' = t
      /\ \A u \in Threads \ {t} : pc'[u] = pc[u]
      /\ UNCHANGED <<n_klist, n_ref, k_lock, klist_remove_waiters, waiter, state, i_open,
                     i_cur, fr, objref, owned>>
  BY <1>0 DEF IInv, TypeOK, Unlink
<1>2. /\ n_klist[n] = "k|dead" /\ k_lock = t
      /\ \A u \in Threads \ {t} : /\ pc[u] \notin Locking
                                  /\ pc[u] \in Having => fr[u].node # n
  BY <1>0, <1>1, OneRelease DEF Releasing
<1>3. Linked' = Linked \ {n} /\ n \in Linked
  <2>1. \A m \in Nodes \ {n} : Apart(m)' <=> Apart(m)
    BY <1>0, <1>1, Moves
  <2>2. ~Apart(n)
    BY <1>1, <1>2 DEF Apart, Having, Locking, Releasing, Entering, Leaving
  <2>3. Apart(n)'
    BY <1>0, <1>1 DEF Apart, Leaving
  <2>4. \A m \in Nodes : klist_node_attached(m)' <=> klist_node_attached(m)
    BY <1>1 DEF klist_node_attached
  <2>5. klist_node_attached(n)
    BY <1>2 DEF klist_node_attached
  <2> QED
    BY <2>1, <2>2, <2>3, <2>4, <2>5, KlistConstants DEF Linked
<1>4. next[n] \in Linked /\ prev[n] \in Linked /\ Linked \subseteq Slots
  <2>1. next[n] \in Linked /\ prev[n] \in Linked
    BY <1>3, Neighbours
  <2> QED
    BY <2>1 DEF Linked
<1>5. TypeOK'
  <2>1. next' \in [Slots -> Slots \cup {NULL}] /\ prev' \in [Slots -> Slots \cup {NULL}]
    BY <1>1, <1>4 DEF IInv, TypeOK, list_del
  <2>2. pc' \in [Threads -> {"idle", "after", "before", "enlist", "kill", "release", "wake",
                             "rouse", "delist", "detach", "scan", "put", "sleep", "check",
                             "schedule"}]
    BY DEF IInv, TypeOK, Unlink
  <2> QED
    BY <1>1, <2>1, <2>2 DEF IInv, TypeOK
<1>6. Locks'
  BY <1>1, KlistConstants DEF IInv, Locks, Locking, Releasing, Leaving, Waking
<1>7. Ordered'
  <2>1. DOMAIN next = Slots /\ DOMAIN prev = Slots /\ IsRing(next, prev, HEAD, Linked)
    BY DEF IInv, TypeOK, Ordered
  <2>2. n \in Linked \ {HEAD}
    BY <1>3, KlistConstants
  <2>3. IsRing([next EXCEPT ![prev[n]] = next[n], ![n] = NULL],
               [prev EXCEPT ![next[n]] = prev[n], ![n] = NULL], HEAD, Linked \ {n})
    BY <1>4, <2>1, <2>2, RemoveFromRing
  <2> QED
    BY <1>1, <1>3, <2>3 DEF Ordered, list_del
<1>8. Frames'
  <2>1. Framed(t)'
    BY <1>0, <1>1, <1>3 DEF IInv, Frames, Framed, Having, Entering, Releasing, Leaving
  <2>2. \A u \in Threads \ {t} : Framed(u)'
    BY <1>1, <1>2, SameFrame DEF IInv, Frames
  <2> QED
    BY <2>1, <2>2 DEF Frames
<1>9. Ownership' /\ Counts'
  BY <1>1, QuietCounts DEF Having, Entering, Releasing, Leaving, Owing
<1>10. Waiters'
  BY <1>1, SameWaiters
<1> QED
  BY <1>0, <1>3, <1>5, <1>6, <1>7, <1>8, <1>9, <1>10 DEF IInv

(* Detaching: the reference to the object passes from the list to the put.  *)
LEMMA DetachInv ==
    ASSUME IInv, NEW t \in Threads, Detach(t)
    PROVE  IInv' /\ Linked' = Linked
<1>0. PICK n \in Nodes : n = fr[t].node
  BY DEF IInv, Frames, Framed, Detach, Releasing, Leaving
<1>1. /\ pc[t] = "detach" /\ n_klist'[n] = "NULL"
      /\ \A m \in Nodes \ {n} : n_klist'[m] = n_klist[m]
      /\ \A u \in Threads \ {t} : pc'[u] = pc[u] /\ fr'[u] = fr[u]
      /\ UNCHANGED <<next, prev, n_ref, klist_remove_lock, klist_remove_waiters, waiter, state,
                     i_open, i_cur, fr, objref, owned>>
  BY <1>0 DEF IInv, TypeOK, Detach
<1>2. \/ fr[t].op = "next" /\ pc'[t] = "scan" /\ k_lock' = k_lock
      \/ fr[t].op # "next" /\ pc'[t] = "put" /\ k_lock' = NULL
  BY DEF IInv, TypeOK, Detach
<1>3. /\ n_klist[n] = "k|dead" /\ n_ref[n] = 0 /\ ~Initial(n) /\ fr[t].put = TRUE
      /\ k_lock = t
      /\ \A u \in Threads \ {t} : /\ pc[u] \notin Locking
                                  /\ pc[u] \in Having => fr[u].node # n
  BY <1>0, <1>1, OneRelease DEF Releasing, Leaving
<1>4. TypeOK'
  <2>1. pc' \in [Threads -> {"idle", "after", "before", "enlist", "kill", "release", "wake",
                             "rouse", "delist", "detach", "scan", "put", "sleep", "check",
                             "schedule"}]
    <3>1. pc' = [pc EXCEPT ![t] = "scan"] \/ pc' = [pc EXCEPT ![t] = "put"]
      BY DEF Detach
    <3> QED
      BY <3>1 DEF IInv, TypeOK
  <2>2. n_klist' \in [Nodes -> {"NULL", "k", "k|dead"}]
    BY DEF IInv, TypeOK, Detach
  <2> QED
    BY <1>1, <1>2, <2>1, <2>2 DEF IInv, TypeOK
<1>5. Locks'
  BY <1>1, <1>2, <1>3, KlistConstants
     DEF IInv, Locks, Locking, Releasing, Leaving, Waking
<1>6. Linked' = Linked
  <2>1. \A m \in Nodes \ {n} : Apart(m)' <=> Apart(m)
    BY <1>0, <1>1, Moves
  <2>2. Apart(n)
    BY <1>0, <1>1 DEF Apart, Leaving
  <2> QED
    BY <1>1, <2>1, <2>2, KlistConstants DEF Linked, klist_node_attached
<1>7. Ordered'
  BY <1>1, <1>6 DEF IInv, Ordered
<1>8. Frames'
  <2>1. Framed(t)'
    BY <1>0, <1>1, <1>2, <1>6
       DEF IInv, Frames, Framed, Having, Entering, Releasing, Leaving
  <2>2. \A u \in Threads \ {t} : Framed(u)'
    BY <1>1, <1>6, SameFrame DEF IInv, Frames
  <2> QED
    BY <2>1, <2>2 DEF Frames
<1>9. \A m \in Nodes : Initial(m)' <=> Initial(m)
  <2>1. \A m \in Nodes : InHand(m)' <=> InHand(m)
    BY <1>1, <1>2, Moves DEF Having, Entering
  <2> QED
    BY <1>1, <2>1 DEF Initial
<1>10. Ownership'
  <2>1. \A m \in Nodes : Sound(m)'
    BY <1>1, <1>3, <1>9 DEF IInv, Ownership, Sound
  <2>2. Owns(t)'
    BY <1>2 DEF Owns, Having, Entering, Releasing, Leaving
  <2>3. \A u \in Threads \ {t} : Owns(u)'
    BY <1>1, <1>3 DEF IInv, Ownership, Owns, Locking
  <2>4. \A u, v \in Threads :
           pc'[u] \in Having /\ pc'[v] \in Having /\ fr'[u].node = fr'[v].node => u = v
    <3>1. pc'[t] \notin Having
      BY <1>2 DEF Having, Entering
    <3> QED
      BY <1>1, <3>1 DEF IInv, Ownership
  <2> QED
    BY <2>1, <2>2, <2>3, <2>4 DEF Ownership
<1>11. Waiters'
  BY <1>1, <1>2, SameWaiters
<1>12. Counts'
  <2>1. \A m \in Nodes : Holders(m)' = Holders(m)
    BY <1>1 DEF Holders
  <2>2. \A m \in Nodes \ {n} : Pending(m)' = Pending(m)
    BY <1>0, <1>1, Moves
  <2>3. \A m \in Nodes \ {n} : Counted(m)'
    BY <1>1, <1>9, <2>1, <2>2 DEF IInv, Counts, Counted, klist_node_attached
  <2>4. Pending(n)' = Pending(n) \cup {t} /\ t \notin Pending(n)
    BY <1>0, <1>1, <1>2, <1>3 DEF Pending, Owing
  <2>5. /\ Cardinality(Pending(n) \cup {t}) = Cardinality(Pending(n)) + 1
        /\ Cardinality(Pending(n)) \in Nat
    <3>1. Pending(n) \in SUBSET Threads
      BY DEF Pending
    <3> QED
      BY <2>4, <3>1, ThreadSets
  <2>6. Counted(n)'
    <3>1. objref[n] = 1 + Cardinality(Pending(n))
      BY <1>3 DEF IInv, Counts, Counted, klist_node_attached
    <3>2. objref'[n] = 0 + Cardinality(Pending(n)') /\ ~klist_node_attached(n)'
      BY <1>1, <2>4, <2>5, <3>1 DEF klist_node_attached
    <3>3. n_ref'[n] = Cardinality(Holders(n)') + (IF Initial(n)' THEN 1 ELSE 0)
      BY <1>1, <1>9, <2>1 DEF IInv, Counts, Counted
    <3> QED
      BY <3>2, <3>3 DEF Counted
  <2> QED
    BY <2>3, <2>6 DEF Counts
<1> QED
  BY <1>4, <1>5, <1>6, <1>7, <1>8, <1>10, <1>11, <1>12 DEF IInv

LEMMA PutInv ==
    ASSUME IInv, NEW t \in Threads, Put(t)
    PROVE  IInv' /\ Linked' = Linked
<1>0. PICK n \in Nodes : n = fr[t].node
  BY DEF IInv, Frames, Framed, Put
<1>1. /\ pc[t] = "put" /\ objref' = [objref EXCEPT ![n] = @ - 1]
      /\ \A u \in Threads \ {t} : pc'[u] = pc[u] /\ fr'[u] = fr[u]
      /\ UNCHANGED <<next, prev, n_klist, n_ref, k_lock, klist_remove_lock,
                     klist_remove_waiters, waiter, state, i_open, i_cur, owned>>
  BY <1>0 DEF IInv, TypeOK, Put, Finish
<1>2. \/ fr[t].op = "remove" /\ pc'[t] = "sleep" /\ fr'[t] = fr[t]
      \/ fr[t].op # "remove" /\ pc'[t] = "idle" /\ fr'[t] = NoCall
  BY DEF IInv, TypeOK, Put, Finish
<1>3. t \in Pending(n) /\ fr[t].put = TRUE
  BY <1>0, <1>1 DEF IInv, TypeOK, Frames, Framed, Pending, Owing
<1>4. Pending(n)' = Pending(n) \ {t}
  BY <1>0, <1>1, <1>2 DEF Pending, Owing
<1>5. /\ Cardinality(Pending(n)') = Cardinality(Pending(n)) - 1
      /\ Cardinality(Pending(n)') \in Nat /\ Cardinality(Pending(n)) \in Nat
  <2>1. Pending(n) \in SUBSET Threads /\ Pending(n) \ {t} \in SUBSET Threads
    BY DEF Pending
  <2> QED
    BY <1>3, <1>4, <2>1, ThreadSets
<1>6. objref[n] = (IF klist_node_attached(n) THEN 1 ELSE 0) + Cardinality(Pending(n))
  BY DEF IInv, Counts, Counted
<1>7. objref[n] - 1 \in Nat /\ objref'[n] = objref[n] - 1
  BY <1>1, <1>5, <1>6 DEF IInv, TypeOK
<1>8. TypeOK'
  <2>1. fr' \in [Threads -> Locals]
    BY LocalsType DEF IInv, Put, Finish
  <2>2. pc' \in [Threads -> {"idle", "after", "before", "enlist", "kill", "release", "wake",
                             "rouse", "delist", "detach", "scan", "put", "sleep", "check",
                             "schedule"}]
    <3>1. Goto(t, "sleep") \/ Goto(t, "idle")
      BY DEF Put, Finish
    <3> QED
      BY <3>1 DEF IInv, TypeOK
  <2>3. objref' \in [Nodes -> Nat]
    BY <1>1, <1>7 DEF IInv, TypeOK
  <2> QED
    BY <1>1, <2>1, <2>2, <2>3 DEF IInv, TypeOK, Locals
<1>9. Locks'
  BY <1>1, <1>2 DEF IInv, Locks, Locking, Releasing, Leaving, Waking
<1>10. Linked' = Linked
  <2>1. \A m \in Nodes : Apart(m)' <=> Apart(m)
    BY <1>1, <1>2, Moves DEF Entering, Leaving
  <2> QED
    BY <1>1, <2>1 DEF Linked, klist_node_attached
<1>11. Ordered'
  BY <1>1, <1>10 DEF IInv, Ordered
<1>12. Frames'
  <2>1. Framed(t)'
    BY <1>2 DEF Framed, Having, Entering, Releasing, Leaving
  <2> QED
    BY <1>1, <1>10, <2>1, SameFrame DEF IInv, Frames
<1>13. \A m \in Nodes : Initial(m)' <=> Initial(m)
  <2>1. \A m \in Nodes : InHand(m)' <=> InHand(m)
    BY <1>1, <1>2, Moves DEF Having, Entering
  <2> QED
    BY <1>1, <2>1 DEF Initial
<1>14. Ownership'
  <2>1. \A m \in Nodes : Sound(m)'
    BY <1>1, <1>13 DEF IInv, Ownership, Sound
  <2>2. Owns(t)'
    BY <1>2 DEF Owns, Having, Entering, Releasing, Leaving
  <2>3. \A u \in Threads \ {t} : Owns(u)'
    BY <1>1 DEF IInv, Ownership, Owns
  <2>4. \A u, v \in Threads :
           pc'[u] \in Having /\ pc'[v] \in Having /\ fr'[u].node = fr'[v].node => u = v
    <3>1. pc'[t] \notin Having
      BY <1>2 DEF Having, Entering
    <3> QED
      BY <1>1, <3>1 DEF IInv, Ownership
  <2> QED
    BY <2>1, <2>2, <2>3, <2>4 DEF Ownership
<1>15. Waiters'
  BY <1>1, <1>2, SameWaiters
<1>16. Counts'
  <2>1. \A m \in Nodes : Holders(m)' = Holders(m)
    BY <1>1 DEF Holders
  <2>2. \A m \in Nodes \ {n} : Pending(m)' = Pending(m) /\ objref'[m] = objref[m]
    BY <1>0, <1>1, <1>2, Moves, KlistConstants DEF IInv, TypeOK, NoCall, Frame, Owing
  <2>3. \A m \in Nodes \ {n} : Counted(m)'
    BY <1>1, <1>13, <2>1, <2>2 DEF IInv, Counts, Counted, klist_node_attached
  <2>4. Counted(n)'
    <3>1. objref'[n] = (IF klist_node_attached(n)' THEN 1 ELSE 0) + Cardinality(Pending(n)')
      BY <1>1, <1>5, <1>6, <1>7 DEF klist_node_attached
    <3>2. n_ref'[n] = Cardinality(Holders(n)') + (IF Initial(n)' THEN 1 ELSE 0)
      BY <1>1, <1>13, <2>1 DEF IInv, Counts, Counted
    <3> QED
      BY <3>1, <3>2 DEF Counted
  <2> QED
    BY <2>3, <2>4 DEF Counts
<1> QED
  BY <1>8, <1>9, <1>10, <1>11, <1>12, <1>14, <1>15, <1>16 DEF IInv

(* An iterator comes to stand on a node whose initial reference is still    *)
(* there.                                                                   *)
LEMMA GainInv ==
    ASSUME IInv, NEW t \in Threads, NEW n \in Nodes,
           n_klist[n] = "k", i_cur[t] = NULL,
           n_ref' = [n_ref EXCEPT ![n] = @ + 1], i_cur' = [i_cur EXCEPT ![t] = n],
           UNCHANGED <<next, prev, n_klist, objref, owned, klist_remove_waiters, waiter>>,
           \A u \in Threads \ {t} : pc'[u] = pc[u] /\ fr'[u] = fr[u],
           \A u \in Threads : pc[u] \in Entering => fr[u].node # n,
           pc[t] \in {"idle", "scan"}, pc'[t] \in {"idle", "put"},
           pc'[t] = "put" <=> pc[t] = "scan" /\ fr[t].put,
           pc'[t] = "put" => fr'[t] = fr[t],
           fr[t].op # "remove", Framed(t)'
    PROVE  /\ n_ref' \in [Nodes -> Nat] /\ i_cur' \in [Threads -> Nodes \cup {NULL}]
           /\ Linked' = Linked
           /\ Frames' /\ Ownership' /\ Ordered' /\ Waiters' /\ Counts'
<1>1. n_ref' \in [Nodes -> Nat] /\ i_cur' \in [Threads -> Nodes \cup {NULL}]
  BY DEF IInv, TypeOK
<1>2. /\ n_ref'[n] = n_ref[n] + 1 /\ n_ref[n] \in Nat
      /\ \A m \in Nodes \ {n} : n_ref'[m] = n_ref[m]
      /\ \A u \in Threads \ {t} : i_cur'[u] = i_cur[u]
      /\ i_cur'[t] = n
  BY DEF IInv, TypeOK
<1>3. Linked' = Linked
  <2>1. \A m \in Nodes : Apart(m)' <=> Apart(m)
    BY Moves DEF Entering, Leaving
  <2> QED
    BY <2>1 DEF Linked, klist_node_attached
<1>4. Ordered'
  BY <1>3 DEF IInv, Ordered
<1>5. Frames'
  BY <1>2, <1>3, SameFrame DEF IInv, Frames
<1>6. \A m \in Nodes : Initial(m)' <=> Initial(m)
  <2>1. \A m \in Nodes : InHand(m)' <=> InHand(m)
    BY Moves DEF Having, Entering
  <2> QED
    BY <2>1 DEF Initial
<1>7. Ownership'
  <2>1. \A m \in Nodes : Sound(m)'
    BY <1>2, <1>6 DEF IInv, Ownership, Sound
  <2>2. Owns(t)'
    BY DEF Owns, Having, Entering, Releasing, Leaving
  <2>3. ASSUME NEW u \in Threads \ {t} PROVE Owns(u)'
    <3>1. pc[u] \in Releasing => fr[u].node # n
      BY DEF IInv, Ownership, Owns
    <3>2. pc[u] \in Entering \cup Releasing => fr[u].node \in Nodes \ {n}
      BY <3>1 DEF IInv, Frames, Framed, Having
    <3> QED
      BY <1>2, <3>2 DEF IInv, Ownership, Owns
  <2>4. \A u, v \in Threads :
           pc'[u] \in Having /\ pc'[v] \in Having /\ fr'[u].node = fr'[v].node => u = v
    <3>1. pc'[t] \notin Having
      BY DEF Having, Entering
    <3> QED
      BY <3>1 DEF IInv, Ownership
  <2> QED
    BY <2>1, <2>2, <2>3, <2>4 DEF Ownership
<1>8. Waiters'
  BY SameWaiters
<1>9. Counts'
  <2>1. \A m \in Nodes : Pending(m)' = Pending(m)
    BY Moves DEF Owing
  <2>2. /\ \A m \in Nodes \ {n} : Holders(m)' = Holders(m)
        /\ Holders(n)' = Holders(n) \cup {t} /\ t \notin Holders(n)
    BY <1>2, KlistConstants DEF Holders
  <2>3. /\ Cardinality(Holders(n) \cup {t}) = Cardinality(Holders(n)) + 1
        /\ Cardinality(Holders(n)) \in Nat
    <3>1. Holders(n) \in SUBSET Threads
      BY DEF Holders
    <3> QED
      BY <2>2, <3>1, ThreadSets
  <2>4. \A m \in Nodes \ {n} : Counted(m)'
    BY <1>2, <1>6, <2>1, <2>2 DEF IInv, Counts, Counted, klist_node_attached
  <2>5. Counted(n)'
    <3>1. n_ref[n] = Cardinality(Holders(n)) + (IF Initial(n) THEN 1 ELSE 0)
      BY DEF IInv, Counts, Counted
    <3>2. n_ref'[n] = Cardinality(Holders(n)') + (IF Initial(n)' THEN 1 ELSE 0)
      BY <1>2, <1>6, <2>2, <2>3, <3>1
    <3>3. objref'[n] = (IF klist_node_attached(n)' THEN 1 ELSE 0) + Cardinality(Pending(n)')
      BY <2>1 DEF IInv, Counts, Counted, klist_node_attached
    <3> QED
      BY <3>2, <3>3 DEF Counted
  <2> QED
    BY <2>4, <2>5 DEF Counts
<1> QED
  BY <1>1, <1>3, <1>4, <1>5, <1>7, <1>8, <1>9

LEMMA IterInitNodeInv ==
    ASSUME IInv, Iterators, ~StartAnywhere, NEW t \in Threads, NEW n \in Nodes,
           klist_iter_init_node(t, n)
    PROVE  IInv' /\ Linked' = Linked
<1>1. /\ pc[t] = "idle" /\ n \in owned /\ i_open' \in [Threads -> BOOLEAN]
      /\ n_ref' = [n_ref EXCEPT ![n] = @ + 1] /\ i_cur' = [i_cur EXCEPT ![t] = n]
      /\ UNCHANGED <<next, prev, n_klist, objref, owned, klist_remove_lock, k_lock, state,
                     klist_remove_waiters, waiter, pc, fr>>
  BY DEF IInv, TypeOK, klist_iter_init_node
<1>2. i_cur[t] = NULL
  BY DEF Iterators, Iterating, klist_iter_init_node
<1>3. n_klist[n] = "k"
  BY <1>1 DEF IInv, Ownership, Sound, Initial
<1>4. \A u \in Threads : pc[u] \in Entering => fr[u].node # n
  BY <1>1 DEF IInv, Ownership, Owns, Having
<1>5. fr[t] = NoCall /\ fr[t].op # "remove"
  <2>1. fr[t] = NoCall
    BY <1>1 DEF IInv, Frames, Framed
  <2> QED
    BY <2>1 DEF NoCall, Frame
<1>6. Framed(t)'
  BY <1>1, <1>5 DEF Framed, Having, Entering, Releasing, Leaving
<1>7. /\ n_ref' \in [Nodes -> Nat] /\ i_cur' \in [Threads -> Nodes \cup {NULL}]
      /\ Linked' = Linked
      /\ Frames' /\ Ownership' /\ Ordered' /\ Waiters' /\ Counts'
  BY <1>1, <1>2, <1>3, <1>4, <1>5, <1>6, GainInv
<1>8. TypeOK' /\ Locks'
  BY <1>1, <1>7 DEF IInv, TypeOK, Locks
<1> QED
  BY <1>7, <1>8 DEF IInv

(* klist_next's last step.                                                  *)
LEMMA ArriveInv ==
    ASSUME IInv, Iterators, NEW t \in Threads, Arrive(t)
    PROVE  IInv' /\ Linked' = Linked
<1>1. /\ pc[t] = "scan" /\ k_lock' = NULL
      /\ \A u \in Threads \ {t} : pc'[u] = pc[u] /\ fr'[u] = fr[u]
      /\ UNCHANGED <<next, prev, n_klist, klist_remove_lock, klist_remove_waiters, waiter,
                     state, i_open, objref, owned>>
  BY DEF IInv, TypeOK, Arrive, Finish
<1>2. \/ /\ fr[t].put /\ pc'[t] = "put" /\ fr'[t] = fr[t]
         /\ Goto(t, "put") /\ UNCHANGED fr
      \/ /\ ~fr[t].put /\ pc'[t] = "idle" /\ fr'[t] = NoCall
         /\ Goto(t, "idle") /\ fr' = [fr EXCEPT ![t] = NoCall]
  BY DEF IInv, TypeOK, Arrive, Finish
<1>3. /\ fr[t].op = "next" /\ fr[t].next \in Linked
      /\ fr[t].put => fr[t].node \in Nodes
  BY <1>1 DEF IInv, Frames, Framed
<1>4. Framed(t)'
  BY <1>2, <1>3 DEF IInv, TypeOK, Framed, Having, Entering, Releasing, Leaving
<1>5. Locks'
  <2>1. pc'[t] \in {"put", "idle"}
    BY <1>2
  <2>2. k_lock = t
    BY <1>1 DEF IInv, Locks, Locking
  <2> QED
    BY <1>1, <2>1, <2>2, KlistConstants DEF IInv, Locks, Locking, Releasing, Leaving, Waking
<1>6. /\ fr' \in [Threads -> Locals]
      /\ pc' \in [Threads -> {"idle", "after", "before", "enlist", "kill", "release", "wake",
                              "rouse", "delist", "detach", "scan", "put", "sleep", "check",
                              "schedule"}]
  <2>1. fr \in [Threads -> Locals] /\ NoCall \in Locals
    BY LocalsType DEF IInv
  <2>2. fr' \in [Threads -> Locals]
    BY <1>2, <2>1
  <2>3. Goto(t, "put") \/ Goto(t, "idle")
    BY <1>2
  <2> QED
    BY <2>2, <2>3 DEF IInv, TypeOK
<1>7. CASE fr[t].next = HEAD
  <2>1. UNCHANGED <<n_ref, i_cur>>
    BY <1>7 DEF Arrive
  <2>2. TypeOK'
    BY <1>1, <1>6, <2>1 DEF IInv, TypeOK, Locals
  <2>3. NoCall.put = FALSE
    BY DEF NoCall, Frame
  <2>4. Linked' = Linked /\ Ordered' /\ Ownership' /\ Counts'
    BY <1>1, <1>2, <2>1, <2>3, QuietStep DEF Having, Entering, Releasing, Leaving, Owing
  <2>5. Frames'
    BY <1>1, <1>4, <2>1, <2>4, SameFrame DEF IInv, Frames
  <2>6. Waiters'
    BY <1>1, <1>2, <1>3, SameWaiters
  <2> QED
    BY <1>5, <2>2, <2>4, <2>5, <2>6 DEF IInv
<1>8. CASE fr[t].next # HEAD
  <2>0. PICK n \in Nodes : n = fr[t].next
    BY <1>3, <1>8 DEF Linked
  <2>1. /\ n_ref' = [n_ref EXCEPT ![n] = @ + 1] /\ i_cur' = [i_cur EXCEPT ![t] = n]
        /\ ~knode_dead(n)
    BY <1>8, <2>0 DEF Arrive
  <2>2. n_klist[n] = "k" /\ \A u \in Threads : pc[u] \in Entering => fr[u].node # n
    BY <1>3, <2>0, <2>1, KlistConstants
       DEF IInv, TypeOK, Linked, klist_node_attached, knode_dead, Apart
  <2>3. i_cur[t] = NULL
    BY <1>1, <1>3 DEF Iterators, Iterating, Locking
  <2>4. /\ n_ref' \in [Nodes -> Nat] /\ i_cur' \in [Threads -> Nodes \cup {NULL}]
        /\ Linked' = Linked
        /\ Frames' /\ Ownership' /\ Ordered' /\ Waiters' /\ Counts'
    BY <1>1, <1>2, <1>3, <1>4, <2>1, <2>2, <2>3, GainInv
  <2>5. TypeOK'
    BY <1>1, <1>6, <2>4 DEF IInv, TypeOK, Locals
  <2> QED
    BY <1>5, <2>4, <2>5 DEF IInv
<1> QED
  BY <1>7, <1>8

----------------------------------------------------------------------------
(* The invariant of the specification.                                      *)

Inv == IInv /\ Iterators

(* A step moves one thread, and that thread's iterator.                     *)
LEMMA OneMoves ==
    ASSUME TypeOK, NEW t \in Threads, Call(t) \/ Step(t), NEW u \in Threads \ {t}
    PROVE  /\ pc'[u] = pc[u] /\ fr'[u] = fr[u]
           /\ i_cur'[u] = i_cur[u] /\ i_open'[u] = i_open[u]
<1>1. ASSUME NEW n \in Nodes, NEW op, klist_put(t, n, op)
      PROVE  pc'[u] = pc[u] /\ fr'[u] = fr[u]
  BY <1>1 DEF TypeOK, klist_put, Finish
<1>2. ASSUME NEW n \in Nodes, NEW pos, NEW label, AddAt(t, n, pos, label)
      PROVE  /\ pc'[u] = pc[u] /\ fr'[u] = fr[u]
             /\ i_cur'[u] = i_cur[u] /\ i_open'[u] = i_open[u]
  BY <1>2 DEF TypeOK, AddAt
<1>3. CASE Call(t)
  <2>1. ASSUME NEW n \in Nodes,
               \/ klist_add_head(t, n) \/ klist_add_tail(t, n)
               \/ klist_add_after(t, n) \/ klist_add_before(t, n)
        PROVE  /\ pc'[u] = pc[u] /\ fr'[u] = fr[u]
               /\ i_cur'[u] = i_cur[u] /\ i_open'[u] = i_open[u]
    BY <1>2, <2>1 DEF klist_add_head, klist_add_tail, klist_add_after, klist_add_before
  <2>2. ASSUME NEW n \in Nodes, klist_del(t, n)
        PROVE  /\ pc'[u] = pc[u] /\ fr'[u] = fr[u]
               /\ i_cur'[u] = i_cur[u] /\ i_open'[u] = i_open[u]
    BY <1>1, <2>2 DEF klist_del
  <2>3. ASSUME NEW n \in Nodes, klist_remove(t, n) \/ klist_iter_init_node(t, n)
        PROVE  /\ pc'[u] = pc[u] /\ fr'[u] = fr[u]
               /\ i_cur'[u] = i_cur[u] /\ i_open'[u] = i_open[u]
    BY <2>3 DEF TypeOK, klist_remove, klist_iter_init_node
  <2>4. ASSUME klist_iter_exit(t)
        PROVE  /\ pc'[u] = pc[u] /\ fr'[u] = fr[u]
               /\ i_cur'[u] = i_cur[u] /\ i_open'[u] = i_open[u]
    BY <1>1, <2>4 DEF TypeOK, klist_iter_exit
  <2>5. ASSUME klist_iter_init(t) \/ klist_next(t)
        PROVE  /\ pc'[u] = pc[u] /\ fr'[u] = fr[u]
               /\ i_cur'[u] = i_cur[u] /\ i_open'[u] = i_open[u]
    <3>1. CASE klist_iter_init(t)
      BY <3>1 DEF TypeOK, klist_iter_init
    <3>2. CASE klist_next(t)
      BY <3>2 DEF TypeOK, klist_next
    <3> QED
      BY <2>5, <3>1, <3>2
  <2> QED
    BY <1>3, <2>1, <2>2, <2>3, <2>4, <2>5 DEF Call
<1>4. CASE Step(t)
  <2>1. ASSUME RemoveKill(t)
        PROVE  /\ pc'[u] = pc[u] /\ fr'[u] = fr[u]
               /\ i_cur'[u] = i_cur[u] /\ i_open'[u] = i_open[u]
    BY <2>1 DEF TypeOK, RemoveKill, klist_put, Finish
  <2>2. ASSUME Link(t) \/ Enlist(t) \/ SetState(t) \/ Check(t) \/ Schedule(t)
        PROVE  /\ pc'[u] = pc[u] /\ fr'[u] = fr[u]
               /\ i_cur'[u] = i_cur[u] /\ i_open'[u] = i_open[u]
    BY <2>2 DEF TypeOK, Link, Finish, Enlist, SetState, Check, Schedule
  <2>3. ASSUME Unlink(t) \/ (\E w \in Threads : Wake(t, w)) \/ Rouse(t) \/ Delist(t) \/ WakeDone(t)
        PROVE  /\ pc'[u] = pc[u] /\ fr'[u] = fr[u]
               /\ i_cur'[u] = i_cur[u] /\ i_open'[u] = i_open[u]
    BY <2>3 DEF TypeOK, Unlink, Wake, Rouse, Delist, WakeDone
  <2>4. ASSUME Detach(t) \/ Put(t) \/ SkipDead(t) \/ Arrive(t)
        PROVE  /\ pc'[u] = pc[u] /\ fr'[u] = fr[u]
               /\ i_cur'[u] = i_cur[u] /\ i_open'[u] = i_open[u]
    BY <2>4 DEF TypeOK, Detach, Put, Finish, SkipDead, Arrive
  <2> QED
    BY <1>4, <2>1, <2>2, <2>3, <2>4 DEF Step
<1> QED
  BY <1>3, <1>4

LEMMA IteratorsInv ==
    ASSUME TypeOK, Frames, Iterators, NEW t \in Threads, Call(t) \/ Step(t)
    PROVE  Iterators'
<1>0. \A u \in Threads \ {t} : Iterating(u)'
  BY OneMoves DEF Iterators, Iterating
<1> SUFFICES Iterating(t)'
  BY <1>0 DEF Iterators
<1> USE DEF TypeOK, Locking, Releasing, Leaving
<1>1. Iterating(t)
  BY DEF Iterators
<1>2. ASSUME NEW n \in Nodes, NEW pos, NEW label \in Entering, AddAt(t, n, pos, label)
      PROVE  Iterating(t)'
  BY <1>1, <1>2 DEF Iterating, AddAt, Entering
<1>3. CASE Call(t)
  <2>1. ASSUME NEW n \in Nodes,
               \/ klist_add_head(t, n) \/ klist_add_tail(t, n)
               \/ klist_add_after(t, n) \/ klist_add_before(t, n)
        PROVE  Iterating(t)'
    BY <1>2, <2>1 DEF klist_add_head, klist_add_tail, klist_add_after, klist_add_before, Entering
  <2>2. ASSUME NEW n \in Nodes, klist_del(t, n)
        PROVE  Iterating(t)'
    BY <1>1, <2>2 DEF Iterating, klist_del, klist_put, Finish, Frame
  <2>3. ASSUME NEW n \in Nodes, klist_remove(t, n)
        PROVE  Iterating(t)'
    BY <1>1, <2>3 DEF Iterating, klist_remove
  <2>4. ASSUME NEW n \in Nodes, klist_iter_init_node(t, n)
        PROVE  Iterating(t)'
    BY <1>1, <2>4 DEF Iterating, klist_iter_init_node
  <2>5. ASSUME klist_iter_exit(t)
        PROVE  Iterating(t)'
    <3>1. i_cur'[t] = NULL
      BY <2>5 DEF klist_iter_exit
    <3>2. \/ pc'[t] = "idle"
          \/ pc'[t] = "release" /\ fr'[t].op = "put"
      BY <2>5 DEF klist_iter_exit, klist_put, Finish, Frame
    <3> QED
      BY <3>1, <3>2 DEF Iterating
  <2>6. ASSUME klist_iter_init(t)
        PROVE  Iterating(t)'
    BY <1>1, <2>6 DEF Iterating, klist_iter_init
  <2>7. ASSUME klist_next(t)
        PROVE  Iterating(t)'
    BY <1>1, <2>7 DEF Iterating, klist_next
  <2> QED
    BY <1>3, <2>1, <2>2, <2>3, <2>4, <2>5, <2>6, <2>7 DEF Call
<1>4. CASE Step(t)
  <2>1. ASSUME RemoveKill(t)
        PROVE  Iterating(t)'
    BY <1>1, <2>1 DEF Iterating, RemoveKill, klist_put, Finish, Frame
  <2>2. ASSUME Link(t) \/ Enlist(t) \/ SetState(t) \/ Check(t) \/ Schedule(t)
        PROVE  Iterating(t)'
    BY <1>1, <2>2 DEF Iterating, Link, Finish, Enlist, SetState, Check, Schedule
  <2>3. ASSUME Unlink(t) \/ (\E w \in Threads : Wake(t, w)) \/ Rouse(t) \/ Delist(t) \/ WakeDone(t)
        PROVE  Iterating(t)'
    BY <1>1, <2>3 DEF Iterating, Unlink, Wake, Rouse, Delist, WakeDone
  <2>4. ASSUME Detach(t) \/ Put(t) \/ SkipDead(t)
        PROVE  Iterating(t)'
    BY <1>1, <2>4 DEF Iterating, Detach, Put, Finish, SkipDead
  <2>5. ASSUME Arrive(t)
        PROVE  Iterating(t)'
    <3>1. i_open[t]
      BY <1>1, <2>5 DEF Iterating, Arrive, Frames, Framed
    <3>2. i_open' = i_open /\ pc'[t] \in {"put", "idle"}
      BY <2>5 DEF Arrive, Finish
    <3> QED
      BY <3>1, <3>2 DEF Iterating
  <2> QED
    BY <1>4, <2>1, <2>2, <2>3, <2>4, <2>5 DEF Step
<1> QED
  BY <1>3, <1>4

LEMMA InitInv == Init => Inv
<1> SUFFICES ASSUME Init PROVE Inv
  OBVIOUS
<1>1. TypeOK
  BY DEF Init, TypeOK, NoCall, Frame
<1>2. Locks
  BY KlistConstants DEF Init, Locks, Locking, Releasing, Leaving, Waking
<1>3. Linked = {HEAD}
  BY DEF Init, Linked, klist_node_attached
<1>4. Ordered
  <2> DEFINE s == [i \in 0..0 |-> HEAD]
  <2>1. next[HEAD] = HEAD /\ prev[HEAD] = HEAD
    BY DEF Init
  <2>2. s \in [0..0 -> Linked] /\ InOrder(next, prev, HEAD, Linked, 0, s)
    BY <1>3, <2>1 DEF InOrder, Behind
  <2> QED
    BY <1>3, <2>2 DEF Ordered, IsRing
<1>5. Frames
  BY DEF Init, Frames, Framed, Having, Entering, Releasing, Leaving
<1>6. \A n \in Nodes : ~Initial(n)
  BY DEF Init, Initial, InHand
<1>7. Ownership
  BY <1>6 DEF Init, Ownership, Sound, Owns, Having, Entering, Releasing, Leaving
<1>8. Waiters
  BY DEF Init, Waiters
<1>9. Counts
  <2>1. \A n \in Nodes : Holders(n) = {} /\ Pending(n) = {}
    BY KlistConstants DEF Init, Holders, Pending, Owing
  <2>2. Cardinality({}) = 0
    BY FS_EmptySet
  <2>3. \A n \in Nodes : n_ref[n] = 0 /\ objref[n] = 0 /\ ~klist_node_attached(n)
    BY DEF Init, klist_node_attached
  <2>4. ASSUME NEW n \in Nodes PROVE Counted(n)
    BY <1>6, <2>1, <2>2, <2>3 DEF Counted
  <2> QED
    BY <2>4 DEF Counts
<1>10. Iterators
  BY DEF Init, Iterators, Iterating, Locking, Releasing, Leaving
<1> QED
  BY <1>1, <1>2, <1>4, <1>5, <1>7, <1>8, <1>9, <1>10 DEF Inv, IInv

LEMMA StepInv ==
    ASSUME Inv, ~StartAnywhere, NEW t \in Threads, Call(t) \/ Step(t)
    PROVE  Inv'
<1>1. IInv /\ Iterators
  BY DEF Inv
<1>2. Iterators'
  BY <1>1, IteratorsInv DEF IInv
<1> SUFFICES IInv'
  BY <1>2 DEF Inv
<1>3. ASSUME NEW n \in Nodes,
             \/ klist_add_head(t, n) \/ klist_add_tail(t, n)
             \/ klist_add_after(t, n) \/ klist_add_before(t, n)
      PROVE  IInv'
  <2>1. PICK pos \in {HEAD, i_cur[t]} \ {NULL} : \E label \in Entering : AddAt(t, n, pos, label)
    BY <1>3, KlistConstants
       DEF klist_add_head, klist_add_tail, klist_add_after, klist_add_before, Entering
  <2> QED
    BY <1>1, <2>1, AddAtInv
<1>4. CASE Call(t)
  BY <1>1, <1>3, <1>4, KlistDelInv, KlistRemoveInv, IterInitNodeInv, IterInitInv, IterExitInv,
     KlistNextInv DEF Call
<1>5. CASE Step(t)
  BY <1>1, <1>5, LinkInv, EnlistInv, RemoveKillInv, SetStateInv, CheckInv, ScheduleInv,
     UnlinkInv, WakeInv, RouseInv, DelistInv, WakeDoneInv, DetachInv, PutInv, SkipDeadInv,
     ArriveInv DEF Step
<1> QED
  BY <1>4, <1>5

LEMMA StillInv ==
    ASSUME Inv, UNCHANGED vars
    PROVE  Inv'
<1> USE DEF vars
<1>1. TypeOK' /\ Locks' /\ Waiters' /\ Iterators'
  BY DEF Inv, IInv, TypeOK, Locks, Waiters, Iterators, Iterating
<1>2. Linked' = Linked /\ Ordered' /\ Ownership' /\ Counts'
  BY QuietStep DEF Inv
<1>3. Frames'
  BY <1>2, SameFrame DEF Inv, IInv, Frames
<1> QED
  BY <1>1, <1>2, <1>3 DEF Inv, IInv

(* The invariant holds of every klist whose clients start their iterators   *)
(* at nodes that nobody removes meanwhile, whatever else they call.         *)
THEOREM KlistInvariant ==
    ASSUME ~StartAnywhere
    PROVE  Spec => []Inv
<1>1. Inv /\ [Next]_vars => Inv'
  BY StepInv, StillInv DEF Next
<1> QED
  BY <1>1, InitInv, PTL DEF Spec

----------------------------------------------------------------------------
(* What the invariant means to the clients of a klist: the properties the   *)
(* runs check, and its promise.                                             *)

(* Every variable keeps its type; in particular no count drops below zero.  *)
THEOREM KlistTypeCorrect ==
    ASSUME ~StartAnywhere
    PROVE  Spec => []TypeOK
<1>1. Inv => TypeOK
  BY DEF Inv, IInv
<1> QED
  BY <1>1, KlistInvariant, PTL

(* The krefs of klist.c count exactly the iterators on a node and its       *)
(* initial reference, and the objects' references the attached nodes and    *)
(* the puts to come.                                                        *)
THEOREM KlistRefsAccounted ==
    ASSUME ~StartAnywhere
    PROVE  Spec => []RefsAccounted
<1>1. Inv => RefsAccounted
  BY CountsAreRefs DEF Inv, IInv
<1> QED
  BY <1>1, KlistInvariant, PTL

----------------------------------------------------------------------------
(* The walk along next.                                                     *)

(* A recursive function on an interval of numbers is what its equation says.*)
LEMMA WalkFound ==
    /\ Walk[0] = HEAD
    /\ \A i \in 1..Cardinality(Nodes) : Walk[i - 1] \in Slots => Walk[i] = next[Walk[i - 1]]
<1> DEFINE step(f, i) == IF i = 0 THEN HEAD
                         ELSE IF f[i - 1] \in Slots THEN next[f[i - 1]] ELSE NULL
           C == Cardinality(Nodes)
           T == {n \in Nat : \E f : f = [i \in 0..n |-> step(f, i)]}
<1>1. 0 \in T
  <2> DEFINE f == [i \in 0..0 |-> HEAD]
  <2>1. f = [i \in 0..0 |-> step(f, i)]
    OBVIOUS
  <2> QED
    BY <2>1
<1>2. ASSUME NEW n \in Nat, n \in T
      PROVE  n + 1 \in T
  <2>1. PICK h : h = [i \in 0..n |-> step(h, i)]
    BY <1>2
  <2> DEFINE g == [i \in 0..(n + 1) |-> IF i <= n THEN h[i] ELSE step(h, n + 1)]
  <2>2. \A i \in 0..(n + 1) : g[i] = step(g, i)
    <3>1. ASSUME NEW i \in 0..n PROVE g[i] = step(g, i)
      <4>1. g[i] = h[i] /\ h[i] = step(h, i)
        BY <2>1
      <4>2. i # 0 => g[i - 1] = h[i - 1]
        OBVIOUS
      <4> QED
        BY <4>1, <4>2
    <3>2. g[n + 1] = step(g, n + 1)
      <4>1. g[n + 1] = step(h, n + 1) /\ g[n] = h[n]
        OBVIOUS
      <4> QED
        BY <4>1
    <3> QED
      BY <3>1, <3>2
  <2>3. g = [i \in 0..(n + 1) |-> step(g, i)]
    BY <2>2
  <2>4. \E f : f = [i \in 0..(n + 1) |-> step(f, i)]
    <3> HIDE DEF g
    <3> QED
      BY <2>3
  <2> QED
    BY <2>4
<1>3. C \in Nat
  BY KlistConstants, FS_CardinalityType
<1>4. C \in T
  <2> HIDE DEF T
  <2> QED
    BY <1>1, <1>2, <1>3, Induction
<1>5. Walk = [i \in 0..C |-> step(Walk, i)]
  <2>1. \E f : f = [i \in 0..C |-> step(f, i)]
    BY <1>4
  <2> QED
    BY <2>1 DEF Walk
<1>6. \A i \in 0..C : Walk[i] = step(Walk, i)
  BY <1>5
<1> QED
  BY <1>3, <1>6

LEMMA OnListIsLinked ==
    ASSUME IInv
    PROVE  OnList = Linked \ {HEAD}
<1>1. Linked \subseteq Nodes \cup {HEAD} /\ HEAD \notin Nodes /\ IsFiniteSet(Nodes)
  BY KlistConstants DEF Linked
<1>2. {Walk[i] : i \in 0..Cardinality(Nodes)} = Linked
  BY <1>1, WalkFound, WalkAround DEF IInv, Ordered
<1> QED
  BY <1>1, <1>2 DEF OnList

(* The pointers form one ring of exactly the nodes that are attached, save  *)
(* one on its way in or out, and the iterators stand on nodes of it.        *)
THEOREM KlistListIntegrity ==
    ASSUME ~StartAnywhere
    PROVE  Spec => []ListIntegrity
<1>1. ASSUME Inv PROVE ListIntegrity
  <2>1. IInv /\ OnList = Linked \ {HEAD} /\ HEAD \in Linked /\ HEAD \notin Nodes
    BY <1>1, OnListIsLinked, KlistConstants DEF Inv, Linked
  <2>2. HeldNodesLinked
    BY <2>1, HeldNodes DEF HeldNodesLinked
  <2>3. OnList = {n \in Nodes : klist_node_attached(n) /\ ~Apart(n)}
    BY <2>1 DEF Linked
  <2>4. \A n \in Nodes :
           Apart(n) <=> \E t \in Threads : /\ fr[t].node = n
                                           /\ pc[t] \in {"after", "before", "wake", "rouse",
                                                         "delist", "detach"}
    BY DEF Apart, Entering, Leaving
  <2>5. \A s \in OnList \cup {HEAD} : next[s] \in OnList \cup {HEAD} /\ prev[next[s]] = s
    BY <2>1, Neighbours
  <2> QED
    BY <2>2, <2>3, <2>4, <2>5 DEF ListIntegrity
<1> QED
  BY <1>1, KlistInvariant, PTL

----------------------------------------------------------------------------
(* Waiting and waking.                                                      *)

(* Every step but the ones that wake a thread, or let it look, leaves the   *)
(* waits of the other threads alone and sends nobody to sleep.              *)
Waits(t) == Rouse(t) \/ Check(t) \/ \E w \in Threads : Wake(t, w)

LEMMA OthersWait ==
    ASSUME TypeOK, NEW t \in Threads, Call(t) \/ Step(t), ~Waits(t)
    PROVE  /\ pc[t] # "rouse" /\ pc'[t] # "schedule"
           /\ \A u \in Threads \ {t} : waiter'[u] = waiter[u] /\ state'[u] = state[u]
           /\ waiter'[t] = waiter[t] \/ waiter'[t].woken = FALSE
<1> DEFINE Goal == /\ pc[t] # "rouse" /\ pc'[t] # "schedule"
                   /\ \A u \in Threads \ {t} : waiter'[u] = waiter[u] /\ state'[u] = state[u]
                   /\ waiter'[t] = waiter[t] \/ waiter'[t].woken = FALSE
<1>1. CASE Call(t)
  <2>1. ASSUME NEW n \in Nodes, NEW pos, NEW label \in Entering, AddAt(t, n, pos, label)
        PROVE  Goal
    BY <2>1 DEF TypeOK, AddAt, Entering
  <2>2. ASSUME NEW n \in Nodes,
               \/ klist_add_head(t, n) \/ klist_add_tail(t, n)
               \/ klist_add_after(t, n) \/ klist_add_before(t, n)
        PROVE  Goal
    <3>1. \E pos : \E label \in Entering : AddAt(t, n, pos, label)
      BY <2>2 DEF klist_add_head, klist_add_tail, klist_add_after, klist_add_before, Entering
    <3> QED
      BY <2>1, <3>1
  <2>3. ASSUME NEW n \in Nodes, klist_del(t, n)
        PROVE  Goal
    BY <2>3 DEF TypeOK, klist_del, klist_put, Finish
  <2>4. ASSUME NEW n \in Nodes, klist_remove(t, n)
        PROVE  Goal
    BY <2>4 DEF TypeOK, klist_remove
  <2>5. ASSUME NEW n \in Nodes, klist_iter_init_node(t, n)
        PROVE  Goal
    BY <2>5 DEF TypeOK, klist_iter_init_node
  <2>6. ASSUME klist_iter_exit(t)
        PROVE  Goal
    BY <2>6 DEF TypeOK, klist_iter_exit, klist_put, Finish
  <2>7. ASSUME klist_iter_init(t) \/ klist_next(t)
        PROVE  Goal
    BY <2>7 DEF TypeOK, klist_iter_init, klist_next
  <2> HIDE DEF Goal
  <2>8. Goal
    BY <1>1, <2>2, <2>3, <2>4, <2>5, <2>6, <2>7 DEF Call
  <2> QED
    BY <2>8 DEF Goal
<1>2. CASE Step(t)
  <2>1. ASSUME RemoveKill(t)
        PROVE  Goal
    BY <2>1 DEF TypeOK, RemoveKill, klist_put, Finish
  <2>2. ASSUME Link(t) \/ Enlist(t) \/ SetState(t) \/ Schedule(t)
        PROVE  Goal
    BY <2>2 DEF TypeOK, Link, Finish, Enlist, SetState, Schedule
  <2>3. ASSUME Unlink(t) \/ Delist(t) \/ WakeDone(t)
        PROVE  Goal
    BY <2>3 DEF TypeOK, Unlink, Delist, WakeDone
  <2>4. ASSUME Detach(t) \/ Put(t) \/ SkipDead(t) \/ Arrive(t)
        PROVE  Goal
    BY <2>4 DEF TypeOK, Detach, Put, Finish, SkipDead, Arrive
  <2> HIDE DEF Goal
  <2>5. Goal
    BY <1>2, <2>1, <2>2, <2>3, <2>4 DEF Step, Waits
  <2> QED
    BY <2>5 DEF Goal
<1> QED
  BY <1>1, <1>2

LEMMA WakeupInv ==
    ASSUME TypeOK, NoLostWakeup, NEW t \in Threads, Call(t) \/ Step(t)
    PROVE  NoLostWakeup'
<1> SUFFICES ASSUME NEW v \in Threads, pc'[v] = "schedule", waiter'[v].woken,
                    state'[v] = "UNINTERRUPTIBLE"
             PROVE  \E u \in Threads : pc'[u] = "rouse" /\ fr'[u].w = v
  BY DEF NoLostWakeup
<1>1. \A u \in Threads \ {t} : pc'[u] = pc[u] /\ fr'[u] = fr[u]
  BY OneMoves
<1>2. CASE ~Waits(t)
  <2>1. pc[t] # "rouse" /\ v # t /\ waiter'[v] = waiter[v] /\ state'[v] = state[v]
    BY <1>2, OthersWait
  <2>2. \E u \in Threads : pc[u] = "rouse" /\ fr[u].w = v
    BY <1>1, <2>1 DEF NoLostWakeup
  <2> QED
    BY <1>1, <2>1, <2>2
<1>3. CASE Check(t)
  <2>1. /\ pc[t] = "check" /\ waiter' = waiter
        /\ pc'[t] = "schedule" => ~waiter[t].woken
        /\ \A u \in Threads \ {t} : state'[u] = state[u]
    BY <1>3 DEF TypeOK, Check
  <2>2. v # t
    BY <2>1
  <2>3. \E u \in Threads : pc[u] = "rouse" /\ fr[u].w = v
    BY <1>1, <2>1, <2>2 DEF NoLostWakeup
  <2> QED
    BY <1>1, <2>1, <2>3
<1>4. CASE Rouse(t)
  <2>1. /\ pc[t] = "rouse" /\ pc'[t] = "delist" /\ waiter' = waiter
        /\ state' = [state EXCEPT ![fr[t].w] = "RUNNING"]
    BY <1>4 DEF TypeOK, Rouse
  <2>2. v # t /\ v # fr[t].w /\ state[v] = "UNINTERRUPTIBLE"
    BY <2>1 DEF TypeOK
  <2>3. PICK u \in Threads : pc[u] = "rouse" /\ fr[u].w = v
    BY <1>1, <2>1, <2>2 DEF NoLostWakeup
  <2> QED
    BY <1>1, <2>2, <2>3
<1>5. ASSUME NEW w \in Threads, Wake(t, w)
      PROVE  \E u \in Threads : pc'[u] = "rouse" /\ fr'[u].w = v
  <2>1. /\ pc[t] = "wake" /\ pc'[t] = "rouse" /\ fr'[t].w = w /\ state' = state
        /\ \A u \in Threads \ {w} : waiter'[u] = waiter[u]
    BY <1>5 DEF TypeOK, Wake
  <2>2. CASE v = w
    BY <2>1, <2>2
  <2>3. CASE v # w
    <3>1. \E u \in Threads : pc[u] = "rouse" /\ fr[u].w = v
      BY <1>1, <2>1, <2>3 DEF NoLostWakeup
    <3> QED
      BY <1>1, <2>1, <3>1
  <2> QED
    BY <2>2, <2>3
<1> QED
  BY <1>2, <1>3, <1>4, <1>5 DEF Waits

(* No wake-up falls between klist_remove's test of woken and its schedule().*)
THEOREM KlistNoLostWakeup ==
    ASSUME ~StartAnywhere
    PROVE  Spec => []NoLostWakeup
<1>1. Init => NoLostWakeup
  BY DEF Init, NoLostWakeup
<1>2. ASSUME TypeOK, NoLostWakeup, [Next]_vars
      PROVE  NoLostWakeup'
  <2>1. CASE Next
    BY <1>2, <2>1, WakeupInv DEF Next
  <2>2. CASE UNCHANGED vars
    BY <1>2, <2>2 DEF vars, NoLostWakeup
  <2> QED
    BY <1>2, <2>1, <2>2
<1> QED
  BY <1>1, <1>2, KlistTypeCorrect, PTL DEF Spec

----------------------------------------------------------------------------
(* What a step does to the iterators, and to the waiters.                   *)

(* An iterator comes to stand only on a linked node that is not dead.       *)
StandsOn(t, n) ==
    /\ n_klist[n] = "k" /\ n \in Linked
    /\ i_cur' = [i_cur EXCEPT ![t] = n]

LEMMA IteratorSteps ==
    ASSUME Inv, ~StartAnywhere, NEW t \in Threads, Call(t) \/ Step(t)
    PROVE  \/ UNCHANGED i_cur
           \/ i_cur' = [i_cur EXCEPT ![t] = NULL]
           \/ \E n \in Nodes : StandsOn(t, n)
<1> DEFINE Goal == \/ UNCHANGED i_cur
                   \/ i_cur' = [i_cur EXCEPT ![t] = NULL]
                   \/ \E n \in Nodes : StandsOn(t, n)
<1>1. CASE Call(t)
  <2>1. ASSUME NEW n \in Nodes, klist_iter_init_node(t, n)
        PROVE  Goal
    <3>1. n \in owned /\ i_cur' = [i_cur EXCEPT ![t] = n]
      BY <2>1 DEF klist_iter_init_node
    <3>2. n_klist[n] = "k"
      BY <3>1 DEF Inv, IInv, Ownership, Sound, Initial
    <3>3. \A u \in Threads : pc[u] \in Entering \cup Leaving => fr[u].node # n
      BY <3>1, <3>2 DEF Inv, IInv, Ownership, Owns, Having, Releasing
    <3>4. n \in Linked
      BY <3>2, <3>3 DEF Linked, Apart, klist_node_attached
    <3> QED
      BY <3>1, <3>2, <3>4 DEF StandsOn
  <2>2. ASSUME NEW n \in Nodes,
               \/ klist_add_head(t, n) \/ klist_add_tail(t, n)
               \/ klist_add_after(t, n) \/ klist_add_before(t, n)
        PROVE  UNCHANGED i_cur
    BY <2>2 DEF klist_add_head, klist_add_tail, klist_add_after, klist_add_before, AddAt
  <2>3. ASSUME NEW n \in Nodes, klist_del(t, n) \/ klist_remove(t, n)
        PROVE  UNCHANGED i_cur
    BY <2>3 DEF klist_del, klist_remove
  <2>4. ASSUME klist_iter_init(t)
        PROVE  UNCHANGED i_cur
    BY <2>4 DEF klist_iter_init
  <2>5. ASSUME klist_iter_exit(t) \/ klist_next(t)
        PROVE  i_cur' = [i_cur EXCEPT ![t] = NULL]
    BY <2>5 DEF klist_iter_exit, klist_next
  <2> QED
    BY <1>1, <2>1, <2>2, <2>3, <2>4, <2>5 DEF Call
<1>2. CASE Step(t)
  <2>1. ASSUME Arrive(t)
        PROVE  Goal
    <3>1. pc[t] = "scan" /\ fr[t].next \in Linked
      BY <2>1 DEF Inv, IInv, Frames, Framed, Arrive
    <3>2. CASE fr[t].next = HEAD
      BY <2>1, <3>2 DEF Arrive
    <3>3. CASE fr[t].next # HEAD
      <4>1. PICK n \in Nodes : n = fr[t].next
        BY <3>1, <3>3 DEF Linked
      <4>2. ~knode_dead(n) /\ i_cur' = [i_cur EXCEPT ![t] = n]
        BY <2>1, <3>3, <4>1 DEF Arrive
      <4>3. n_klist[n] = "k"
        BY <3>1, <4>1, <4>2, KlistConstants
           DEF Inv, IInv, TypeOK, Linked, klist_node_attached, knode_dead
      <4> QED
        BY <3>1, <4>1, <4>2, <4>3 DEF StandsOn
    <3> QED
      BY <3>2, <3>3
  <2>2. ASSUME RemoveKill(t) \/ Link(t) \/ Enlist(t) \/ SetState(t) \/ Check(t) \/ Schedule(t)
        PROVE  UNCHANGED i_cur
    BY <2>2 DEF RemoveKill, Link, Enlist, SetState, Check, Schedule
  <2>3. ASSUME Unlink(t) \/ (\E w \in Threads : Wake(t, w)) \/ Rouse(t) \/ Delist(t) \/ WakeDone(t)
        PROVE  UNCHANGED i_cur
    BY <2>3 DEF Unlink, Wake, Rouse, Delist, WakeDone
  <2>4. ASSUME Detach(t) \/ Put(t) \/ SkipDead(t)
        PROVE  UNCHANGED i_cur
    BY <2>4 DEF Detach, Put, SkipDead
  <2> QED
    BY <1>2, <2>1, <2>2, <2>3, <2>4 DEF Step
<1> QED
  BY <1>1, <1>2

(* The node a releasing thread works on is off the list, and nobody stands  *)
(* on it.                                                                   *)
LEMMA ReleasedNodes ==
    ASSUME IInv, NEW t \in Threads, pc[t] \in Releasing
    PROVE  /\ Holders(fr[t].node) = {}
           /\ pc[t] \in Leaving => fr[t].node \notin Linked
<1>1. fr[t].node \in Nodes /\ n_ref[fr[t].node] = 0
  BY OneRelease
<1>2. ASSUME NEW u \in Threads, i_cur[u] = fr[t].node
      PROVE  FALSE
  BY <1>1, <1>2, HeldNodes, KlistConstants
<1>3. pc[t] \in Leaving => Apart(fr[t].node)
  BY DEF Apart
<1> QED
  BY <1>1, <1>2, <1>3, KlistConstants DEF Holders, Linked

(* A waiter is woken once, for a node that is gone.                         *)
LEMMA WokenOnce ==
    ASSUME IInv, NEW t \in Threads, NEW w \in Threads, Wake(t, w)
    PROVE  /\ fr[w].op = "remove" /\ ~waiter[w].woken
           /\ waiter[w].node = fr[t].node
           /\ Holders(waiter[w].node) = {} /\ waiter[w].node \notin Linked
<1>1. pc[t] = "wake" /\ w \in klist_remove_waiters /\ waiter[w].node = fr[t].node
  BY DEF Wake, Waiting
<1>2. klist_remove_lock = t
  BY <1>1 DEF IInv, Locks, Waking
<1>3. \A u \in Threads : pc[u] \notin {"rouse", "delist"}
  BY <1>1, <1>2 DEF IInv, Locks, Waking
<1>4. fr[w].op = "remove" /\ ~waiter[w].woken
  BY <1>1, <1>3 DEF IInv, Waiters
<1> QED
  BY <1>1, <1>4, ReleasedNodes DEF Releasing, Leaving

(* After klist_del no iterator comes to stand on a node any more, and       *)
(* klist_remove is told that its node is gone only when nobody stands on it *)
(* and it is off the list.                                                  *)
THEOREM KlistDeletedForGood ==
    ASSUME ~StartAnywhere
    PROVE  Spec => DeletedForGood
<1> DEFINE Good ==
        \A t \in Threads :
          /\ i_cur'[t] \notin {i_cur[t], NULL} => i_cur'[t] \in owned \/ InHand(i_cur'[t])
          /\ ~waiter[t].woken /\ waiter'[t].woken
                => Holders(waiter[t].node) = {} /\ waiter[t].node \notin OnList
<1>1. ASSUME Inv, NEW u \in Threads, Call(u) \/ Step(u), NEW t \in Threads,
             i_cur'[t] \notin {i_cur[t], NULL}
      PROVE  i_cur'[t] \in owned \/ InHand(i_cur'[t])
  <2>1. i_cur \in [Threads -> Nodes \cup {NULL}]
    BY <1>1 DEF Inv, IInv, TypeOK
  <2>2. PICK n \in Nodes : StandsOn(u, n)
    BY <1>1, <2>1, IteratorSteps
  <2>3. i_cur'[t] = n /\ n_klist[n] = "k"
    BY <1>1, <2>1, <2>2 DEF StandsOn
  <2>4. n \in owned \/ InHand(n)
    BY <1>1, <2>3 DEF Inv, IInv, Ownership, Sound, Initial
  <2> QED
    BY <2>3, <2>4
<1>2. ASSUME Inv, NEW u \in Threads, Call(u) \/ Step(u), NEW t \in Threads,
             ~waiter[t].woken, waiter'[t].woken
      PROVE  Holders(waiter[t].node) = {} /\ waiter[t].node \notin OnList
  <2>1. Waits(u)
    BY <1>2, OthersWait DEF Inv, IInv
  <2>2. ~Rouse(u) /\ ~Check(u)
    BY <1>2 DEF Rouse, Check
  <2>3. PICK w \in Threads : Wake(u, w)
    BY <2>1, <2>2 DEF Waits
  <2>4. w = t
    BY <1>2, <2>3 DEF Inv, IInv, TypeOK, Wake
  <2> QED
    BY <1>2, <2>3, <2>4, WokenOnce, OnListIsLinked DEF Inv
<1>3. ASSUME Inv, [Next]_vars
      PROVE  [Good]_vars
  BY <1>1, <1>2, <1>3 DEF Next
<1> QED
  BY <1>3, KlistInvariant, PTL DEF Spec, DeletedForGood

----------------------------------------------------------------------------
(* A klist keeps its promise.  Link is the promise's Enter, klist_del's and *)
(* klist_remove's critical sections are Condemn, Unlink is Leave, Wake is   *)
(* Tell; an iterator steps on or off; every other step stutters.            *)

PhaseOf(n) == IF n \notin Linked THEN "out" ELSE IF knode_dead(n) THEN "condemned" ELSE "in"

LEMMA PhasesAre == IInv => Phases = [n \in Nodes |-> PhaseOf(n)]
BY OnListIsLinked, KlistConstants DEF Phases, PhaseOf

LEMMA PhasesBecome == IInv' => Phases' = [n \in Nodes |-> PhaseOf(n)']
<1> DEFINE A == IInv => Phases = [n \in Nodes |-> PhaseOf(n)]
<1>1. A
  BY PhasesAre
<1>2. A'
  BY <1>1, PTL
<1> QED
  BY <1>2

Awaits == [t \in Threads |-> AwaitOf(t)]

(* What leaves the phases and the waits as they are.                        *)
Unseen(t) ==
    /\ Linked' = Linked
    /\ \A m \in Nodes : m \in Linked => n_klist'[m] = n_klist[m]
    /\ waiter' = waiter
    /\ fr'[t].op = "remove" <=> fr[t].op = "remove"

LEMMA UnseenPhases ==
    ASSUME IInv, IInv', NEW t \in Threads, Unseen(t)
    PROVE  Phases' = Phases
<1>1. \A m \in Nodes : PhaseOf(m)' = PhaseOf(m)
  BY DEF PhaseOf, Unseen, knode_dead
<1> QED
  BY <1>1, PhasesAre, PhasesBecome

LEMMA SameAwaits ==
    ASSUME NEW t \in Threads, \A u \in Threads \ {t} : fr'[u] = fr[u], waiter' = waiter,
           fr'[t].op = "remove" <=> fr[t].op = "remove"
    PROVE  Awaits' = Awaits
<1>1. \A u \in Threads : AwaitOf(u)' = AwaitOf(u)
  BY DEF AwaitOf
<1> QED
  BY <1>1 DEF Awaits

LEMMA UnseenSteps ==
    ASSUME Inv, Inv', ~StartAnywhere, NEW t \in Threads, Call(t) \/ Step(t), Unseen(t)
    PROVE  P!PromiseNext \/ UNCHANGED P!pvars
<1>1. Phases' = Phases
  BY UnseenPhases DEF Inv
<1>2. Awaits' = Awaits
  BY OneMoves, SameAwaits DEF Inv, IInv, Unseen
<1>3. CASE UNCHANGED i_cur
  BY <1>1, <1>2, <1>3 DEF P!pvars, Awaits
<1>4. CASE i_cur' = [i_cur EXCEPT ![t] = NULL]
  <2>1. P!StepOff(t)
    BY <1>1, <1>2, <1>4 DEF P!StepOff, Awaits
  <2> QED
    BY <2>1 DEF P!PromiseNext
<1>5. ASSUME NEW n \in Nodes, StandsOn(t, n)
      PROVE  P!PromiseNext
  <2>1. Phases[n] = "in"
    BY <1>5, PhasesAre DEF Inv, StandsOn, PhaseOf, knode_dead
  <2>2. P!StepOn(t, n)
    BY <1>1, <1>2, <1>5, <2>1 DEF P!StepOn, StandsOn, Awaits
  <2> QED
    BY <2>2 DEF P!PromiseNext
<1> QED
  BY <1>3, <1>4, <1>5, IteratorSteps

(* The stuttering steps, and those of iterators.                            *)
LEMMA UnseenCalls ==
    ASSUME IInv, Iterators, ~StartAnywhere, NEW t \in Threads, Call(t),
           \A n \in Nodes : ~klist_del(t, n) /\ ~klist_remove(t, n)
    PROVE  Unseen(t)
<1>0. pc[t] = "idle" => fr[t].op = "none"
  BY DEF IInv, Frames, Framed, NoCall, Frame
<1>1. ASSUME NEW n \in Nodes, NEW pos \in {HEAD, i_cur[t]} \ {NULL}, NEW label \in Entering,
             AddAt(t, n, pos, label)
      PROVE  Unseen(t)
  <2>1. Linked' = Linked
    BY <1>1, AddAtInv
  <2>2. n \notin Linked
    BY <1>1, KlistConstants DEF Linked, AddAt
  <2>3. /\ \A m \in Nodes \ {n} : n_klist'[m] = n_klist[m]
        /\ waiter' = waiter /\ pc[t] = "idle" /\ fr'[t].op = "add"
    BY <1>1 DEF IInv, TypeOK, AddAt, klist_node_init, Frame
  <2> QED
    BY <1>0, <2>1, <2>2, <2>3 DEF Unseen
<1>2. ASSUME NEW n \in Nodes,
             \/ klist_add_head(t, n) \/ klist_add_tail(t, n)
             \/ klist_add_after(t, n) \/ klist_add_before(t, n)
      PROVE  Unseen(t)
  <2>1. PICK pos \in {HEAD, i_cur[t]} \ {NULL} : \E label \in Entering : AddAt(t, n, pos, label)
    BY <1>2, KlistConstants
       DEF klist_add_head, klist_add_tail, klist_add_after, klist_add_before, Entering
  <2> QED
    BY <1>1, <2>1
<1>3. ASSUME NEW n \in Nodes, klist_iter_init_node(t, n)
      PROVE  Unseen(t)
  <2>1. Linked' = Linked
    BY <1>3, IterInitNodeInv
  <2> QED
    BY <1>3, <2>1 DEF Unseen, klist_iter_init_node
<1>4. ASSUME klist_iter_init(t)
      PROVE  Unseen(t)
  <2>1. Linked' = Linked
    BY <1>4, IterInitInv
  <2> QED
    BY <1>4, <2>1 DEF Unseen, klist_iter_init
<1>5. ASSUME klist_iter_exit(t)
      PROVE  Unseen(t)
  <2>1. Linked' = Linked
    BY <1>5, IterExitInv
  <2>2. fr'[t].op = "put" \/ fr'[t].op = "none" \/ fr'[t] = fr[t]
    BY <1>5 DEF IInv, TypeOK, klist_iter_exit, klist_put, Finish, NoCall, Frame
  <2>3. pc[t] = "idle" /\ waiter' = waiter /\ n_klist' = n_klist
    BY <1>5 DEF klist_iter_exit
  <2> QED
    BY <1>0, <2>1, <2>2, <2>3 DEF Unseen
<1>6. ASSUME klist_next(t)
      PROVE  Unseen(t)
  <2>1. Linked' = Linked
    BY <1>6, KlistNextInv
  <2>2. fr'[t].op = "next"
    BY <1>6 DEF IInv, TypeOK, klist_next, Frame
  <2>3. pc[t] = "idle" /\ waiter' = waiter /\ n_klist' = n_klist
    BY <1>6 DEF klist_next
  <2> QED
    BY <1>0, <2>1, <2>2, <2>3 DEF Unseen
<1> QED
  BY <1>2, <1>3, <1>4, <1>5, <1>6 DEF Call

LEMMA UnseenRest ==
    ASSUME IInv, Iterators, NEW t \in Threads,
           \/ Enlist(t) \/ SetState(t) \/ (Check(t) /\ ~waiter[t].woken) \/ Schedule(t)
           \/ Rouse(t) \/ Delist(t) \/ WakeDone(t) \/ Detach(t) \/ Put(t)
           \/ SkipDead(t) \/ Arrive(t)
    PROVE  Unseen(t)
<1>1. Linked' = Linked
  BY EnlistInv, SetStateInv, CheckInv, ScheduleInv, RouseInv, DelistInv, WakeDoneInv,
     DetachInv, PutInv, SkipDeadInv, ArriveInv
<1>2. CASE Detach(t)
  <2>1. /\ fr[t].node \in Nodes
        /\ \A m \in Nodes \ {fr[t].node} : n_klist'[m] = n_klist[m]
        /\ waiter' = waiter /\ fr' = fr /\ pc[t] = "detach"
    BY <1>2 DEF IInv, TypeOK, Frames, Framed, Detach, Releasing, Leaving
  <2>2. fr[t].node \notin Linked
    BY <2>1, ReleasedNodes DEF Releasing, Leaving
  <2> QED
    BY <1>1, <2>1, <2>2 DEF Unseen
<1>3. CASE Put(t)
  <2>1. fr'[t].op = "remove" <=> fr[t].op = "remove"
    BY <1>3 DEF IInv, TypeOK, Put, Finish, NoCall, Frame
  <2> QED
    BY <1>1, <1>3, <2>1 DEF Unseen, Put
<1>4. CASE Arrive(t)
  <2>1. fr[t].op = "next"
    BY <1>4 DEF IInv, Frames, Framed, Arrive
  <2>2. fr'[t].op = "none" \/ fr'[t] = fr[t]
    BY <1>4 DEF IInv, TypeOK, Arrive, Finish, NoCall, Frame
  <2> QED
    BY <1>1, <1>4, <2>1, <2>2 DEF Unseen, Arrive
<1>5. CASE Delist(t) \/ SkipDead(t)
  <2>1. fr'[t].op = fr[t].op
    BY <1>5 DEF IInv, TypeOK, Delist, SkipDead
  <2> QED
    BY <1>1, <1>5, <2>1 DEF Unseen, Delist, SkipDead
<1>6. CASE \/ Enlist(t) \/ SetState(t) \/ (Check(t) /\ ~waiter[t].woken) \/ Schedule(t)
           \/ Rouse(t) \/ WakeDone(t)
  BY <1>1, <1>6 DEF Unseen, Enlist, SetState, Check, Schedule, Rouse, WakeDone
<1> QED
  BY <1>2, <1>3, <1>4, <1>5, <1>6

(* The steps the promise knows.                                             *)
LEMMA LinkEnters ==
    ASSUME IInv, IInv', NEW t \in Threads, Link(t)
    PROVE  P!PromiseNext
<1>0. PICK n \in Nodes : n = fr[t].node
  BY DEF IInv, Frames, Framed, Link, Having, Entering
<1>1. /\ pc[t] \in Entering /\ UNCHANGED <<n_klist, waiter, i_cur>>
      /\ \A u \in Threads \ {t} : fr'[u] = fr[u]
      /\ fr'[t].op = "none"
  BY DEF IInv, TypeOK, Link, Finish, Entering, NoCall, Frame
<1>2. n_klist[n] = "k" /\ fr[t].op = "add"
  <2>1. n_klist[n] = "k"
    BY <1>0, <1>1, OneHand DEF Having
  <2> QED
    BY <1>1, <2>1 DEF IInv, Frames, Framed
<1>3. Linked' = Linked \cup {n} /\ n \notin Linked
  BY <1>0, LinkInv
<1>4. PhaseOf(n) = "out" /\ PhaseOf(n)' = "in"
  BY <1>1, <1>2, <1>3 DEF PhaseOf, knode_dead
<1>5. \A m \in Nodes \ {n} : PhaseOf(m)' = PhaseOf(m)
  BY <1>1, <1>3 DEF PhaseOf, knode_dead
<1>6. Phases[n] = "out" /\ Phases' = [Phases EXCEPT ![n] = "in"]
  BY <1>4, <1>5, PhasesAre, PhasesBecome
<1>7. Awaits' = Awaits
  BY <1>1, <1>2, SameAwaits
<1>8. P!Enter(n)
  BY <1>1, <1>6, <1>7 DEF P!Enter, Awaits
<1> QED
  BY <1>8 DEF P!PromiseNext

(* What killing does to a node that was linked and alive.                   *)
LEMMA KillCondemns ==
    ASSUME IInv, IInv', NEW t \in Threads, NEW n \in Nodes, n \in Linked, n_klist[n] = "k",
           knode_kill(n), Linked' = Linked, UNCHANGED <<waiter, i_cur>>,
           \A u \in Threads \ {t} : fr'[u] = fr[u],
           fr'[t].op = "remove" <=> fr[t].op = "remove"
    PROVE  P!PromiseNext
<1>1. /\ n_klist'[n] = "k|dead"
      /\ \A m \in Nodes \ {n} : n_klist'[m] = n_klist[m]
  BY DEF IInv, TypeOK, knode_kill
<1>2. PhaseOf(n) = "in" /\ PhaseOf(n)' = "condemned"
  BY <1>1 DEF PhaseOf, knode_dead
<1>3. \A m \in Nodes \ {n} : PhaseOf(m)' = PhaseOf(m)
  BY <1>1 DEF PhaseOf, knode_dead
<1>4. Phases[n] = "in" /\ Phases' = [Phases EXCEPT ![n] = "condemned"]
  BY <1>2, <1>3, PhasesAre, PhasesBecome
<1>5. Awaits' = Awaits
  BY SameAwaits
<1>6. P!Condemn(n)
  BY <1>4, <1>5 DEF P!Condemn, Awaits
<1> QED
  BY <1>6 DEF P!PromiseNext

(* An owned node, and one that klist_remove is about to kill, is linked.    *)
LEMMA OwnedLinked ==
    ASSUME IInv, NEW n \in Nodes, Initial(n),
           \A t \in Threads : pc[t] \in Entering => fr[t].node # n
    PROVE  n_klist[n] = "k" /\ n \in Linked
<1>1. n_klist[n] = "k"
  BY DEF IInv, Ownership, Sound
<1>2. \A t \in Threads : pc[t] \in Leaving => fr[t].node # n
  BY <1>1 DEF IInv, Ownership, Owns, Releasing
<1> QED
  BY <1>1, <1>2 DEF Linked, Apart, klist_node_attached

LEMMA DelCondemns ==
    ASSUME IInv, IInv', NEW t \in Threads, NEW n \in Nodes, klist_del(t, n)
    PROVE  P!PromiseNext
<1>1. /\ pc[t] = "idle" /\ n \in owned /\ knode_kill(n) /\ UNCHANGED <<waiter, i_cur>>
      /\ \A u \in Threads \ {t} : fr'[u] = fr[u]
      /\ fr'[t].op \in {"put", "none"}
  BY DEF IInv, TypeOK, klist_del, klist_put, Finish, NoCall, Frame
<1>2. fr[t].op = "none"
  BY <1>1 DEF IInv, Frames, Framed, NoCall, Frame
<1>3. n_klist[n] = "k" /\ n \in Linked
  BY <1>1, OwnedLinked DEF IInv, Ownership, Owns, Initial, Having
<1>4. Linked' = Linked
  BY KlistDelInv
<1> QED
  BY <1>1, <1>2, <1>3, <1>4, KillCondemns

LEMMA RemoveKillCondemns ==
    ASSUME IInv, IInv', NEW t \in Threads, RemoveKill(t)
    PROVE  P!PromiseNext
<1>0. PICK n \in Nodes : n = fr[t].node
  BY DEF IInv, Frames, Framed, RemoveKill, Having
<1>1. /\ pc[t] = "kill" /\ knode_kill(n) /\ UNCHANGED <<waiter, i_cur>>
      /\ \A u \in Threads \ {t} : fr'[u] = fr[u]
      /\ fr'[t].op = "remove" \/ fr'[t] = fr[t]
  BY <1>0 DEF IInv, TypeOK, RemoveKill, klist_put, Finish, Frame
<1>2. fr[t].op = "remove"
  BY <1>1 DEF IInv, Frames, Framed
<1>3. n_klist[n] = "k" /\ n \in Linked
  <2>1. Initial(n) /\ \A u \in Threads \ {t} : pc[u] \in Having => fr[u].node # n
    BY <1>0, <1>1, OneHand DEF Having
  <2> QED
    BY <1>1, <2>1, OwnedLinked DEF Having, Entering
<1>4. Linked' = Linked
  BY RemoveKillInv
<1> QED
  BY <1>1, <1>2, <1>3, <1>4, KillCondemns

LEMMA UnlinkLeaves ==
    ASSUME IInv, IInv', NEW t \in Threads, Unlink(t)
    PROVE  P!PromiseNext
<1>0. PICK n \in Nodes : n = fr[t].node
  BY DEF IInv, Frames, Framed, Unlink, Releasing
<1>1. pc[t] = "release" /\ UNCHANGED <<n_klist, waiter, i_cur, fr>>
  BY DEF Unlink
<1>2. n_klist[n] = "k|dead"
  BY <1>0, <1>1, OneRelease DEF Releasing
<1>3. Linked' = Linked \ {n} /\ n \in Linked
  BY <1>0, UnlinkInv
<1>4. PhaseOf(n) = "condemned" /\ PhaseOf(n)' = "out"
  BY <1>2, <1>3 DEF PhaseOf, knode_dead
<1>5. \A m \in Nodes \ {n} : PhaseOf(m)' = PhaseOf(m)
  BY <1>1, <1>3 DEF PhaseOf, knode_dead
<1>6. Phases[n] = "condemned" /\ Phases' = [Phases EXCEPT ![n] = "out"]
  BY <1>4, <1>5, PhasesAre, PhasesBecome
<1>7. P!Free(n)
  BY <1>0, <1>1, ReleasedNodes DEF P!Free, Holders, Releasing
<1>8. Awaits' = Awaits
  BY <1>1, SameAwaits
<1>9. P!Leave(n)
  BY <1>1, <1>6, <1>7, <1>8 DEF P!Leave, Awaits
<1> QED
  BY <1>9 DEF P!PromiseNext

LEMMA RemoveAwaits ==
    ASSUME IInv, IInv', NEW t \in Threads, NEW n \in Nodes, klist_remove(t, n)
    PROVE  P!PromiseNext
<1>1. /\ pc[t] = "idle" /\ n \in owned /\ UNCHANGED <<n_klist, i_cur>>
      /\ \A u \in Threads \ {t} : fr'[u] = fr[u] /\ waiter'[u] = waiter[u]
      /\ fr'[t].op = "remove" /\ waiter'[t].node = n /\ ~waiter'[t].woken
  BY DEF IInv, TypeOK, klist_remove, Frame
<1>2. fr[t].op = "none"
  BY <1>1 DEF IInv, Frames, Framed, NoCall, Frame
<1>3. n_klist[n] = "k" /\ n \in Linked
  BY <1>1, OwnedLinked DEF IInv, Ownership, Owns, Initial, Having
<1>4. Phases' = Phases
  <2>1. Linked' = Linked
    BY KlistRemoveInv
  <2>2. \A m \in Nodes : PhaseOf(m)' = PhaseOf(m)
    BY <1>1, <2>1 DEF PhaseOf, knode_dead
  <2> QED
    BY <2>2, PhasesAre, PhasesBecome
<1>5. Phases[n] = "in"
  BY <1>3, PhasesAre DEF PhaseOf, knode_dead
<1>6. /\ AwaitOf(t) = NULL /\ AwaitOf(t)' = n
      /\ \A u \in Threads \ {t} : AwaitOf(u)' = AwaitOf(u)
  BY <1>1, <1>2 DEF AwaitOf
<1>7. Awaits[t] = NULL /\ Awaits' = [Awaits EXCEPT ![t] = n]
  BY <1>6 DEF Awaits
<1>8. P!Await(t, n)
  BY <1>1, <1>4, <1>5, <1>7 DEF P!Await, Awaits
<1> QED
  BY <1>8 DEF P!PromiseNext

LEMMA WakeTells ==
    ASSUME IInv, IInv', NEW t \in Threads, NEW w \in Threads, Wake(t, w)
    PROVE  P!PromiseNext
<1>1. /\ fr[w].op = "remove" /\ ~waiter[w].woken
      /\ waiter[w].node = fr[t].node /\ waiter[w].node \notin Linked
  BY WokenOnce
<1>2. waiter[w].node \in Nodes
  BY <1>1 DEF IInv, Frames, Framed, Wake, Releasing, Leaving
<1>3. /\ waiter'[w].woken /\ UNCHANGED <<n_klist, i_cur>>
      /\ \A u \in Threads \ {w} : waiter'[u] = waiter[u]
      /\ \A u \in Threads : fr'[u].op = fr[u].op
  BY DEF IInv, TypeOK, Wake
<1>4. Phases' = Phases
  <2>1. Linked' = Linked
    BY WakeInv
  <2>2. \A m \in Nodes : PhaseOf(m)' = PhaseOf(m)
    BY <1>3, <2>1 DEF PhaseOf, knode_dead
  <2> QED
    BY <2>2, PhasesAre, PhasesBecome
<1>5. Phases[waiter[w].node] = "out"
  BY <1>1, <1>2, PhasesAre DEF PhaseOf
<1>6. /\ AwaitOf(w) = waiter[w].node /\ AwaitOf(w)' = Told
      /\ \A u \in Threads \ {w} : AwaitOf(u)' = AwaitOf(u)
  BY <1>1, <1>3 DEF AwaitOf
<1>7. Awaits[w] = waiter[w].node /\ Awaits' = [Awaits EXCEPT ![w] = Told]
  BY <1>6 DEF Awaits
<1>8. P!Tell(w)
  BY <1>2, <1>3, <1>4, <1>5, <1>7 DEF P!Tell, Awaits
<1> QED
  BY <1>8 DEF P!PromiseNext

LEMMA CheckReturns ==
    ASSUME IInv, IInv', NEW t \in Threads, Check(t), waiter[t].woken
    PROVE  P!PromiseNext
<1>1. /\ UNCHANGED <<n_klist, i_cur, waiter>> /\ fr'[t].op = "none"
      /\ \A u \in Threads \ {t} : fr'[u] = fr[u]
  BY DEF IInv, TypeOK, Check, NoCall, Frame
<1>2. fr[t].op = "remove"
  BY DEF IInv, Frames, Framed, Check
<1>3. Phases' = Phases
  <2>1. Linked' = Linked
    BY CheckInv
  <2>2. \A m \in Nodes : PhaseOf(m)' = PhaseOf(m)
    BY <1>1, <2>1 DEF PhaseOf, knode_dead
  <2> QED
    BY <2>2, PhasesAre, PhasesBecome
<1>4. /\ AwaitOf(t) = Told /\ AwaitOf(t)' = NULL
      /\ \A u \in Threads \ {t} : AwaitOf(u)' = AwaitOf(u)
  BY <1>1, <1>2 DEF AwaitOf
<1>5. Awaits[t] = Told /\ Awaits' = [Awaits EXCEPT ![t] = NULL]
  BY <1>4 DEF Awaits
<1>6. P!Return(t)
  BY <1>1, <1>3, <1>5 DEF P!Return, Awaits
<1> QED
  BY <1>6 DEF P!PromiseNext

LEMMA InitPromise == Init => P!PromiseInit
<1> SUFFICES ASSUME Init PROVE P!PromiseInit
  OBVIOUS
<1>1. IInv
  BY InitInv DEF Inv
<1>2. \A n \in Nodes : PhaseOf(n) = "out"
  BY KlistConstants DEF Init, PhaseOf, Linked, klist_node_attached
<1>3. Phases = [n \in Nodes |-> "out"]
  BY <1>1, <1>2, PhasesAre
<1>4. \A t \in Threads : AwaitOf(t) = NULL
  BY DEF Init, AwaitOf, NoCall, Frame
<1> QED
  BY <1>3, <1>4 DEF Init, P!PromiseInit

(* Iterators stand only on nodes that are in the list or condemned, a       *)
(* condemned node leaves only when nobody stands on it, and klist_remove    *)
(* learns of that only then: klist.c keeps its promise to any clients.      *)
THEOREM KlistKeepsPromise ==
    ASSUME ~StartAnywhere
    PROVE  Spec => KeepsPromise
<1>1. ASSUME Inv, Inv', [Next]_vars
      PROVE  [P!PromiseNext]_(P!pvars)
  <2>1. IInv /\ IInv' /\ Iterators
    BY <1>1 DEF Inv
  <2> SUFFICES P!PromiseNext \/ UNCHANGED P!pvars
    OBVIOUS
  <2>2. ASSUME NEW t \in Threads, Call(t)
        PROVE  P!PromiseNext \/ UNCHANGED P!pvars
    <3>1. CASE \E n \in Nodes : klist_del(t, n) \/ klist_remove(t, n)
      BY <2>1, <3>1, DelCondemns, RemoveAwaits
    <3>2. CASE \A n \in Nodes : ~klist_del(t, n) /\ ~klist_remove(t, n)
      <4>1. Unseen(t)
        BY <2>1, <2>2, <3>2, UnseenCalls
      <4> QED
        BY <1>1, <2>2, <4>1, UnseenSteps
    <3> QED
      BY <3>1, <3>2
  <2>3. ASSUME NEW t \in Threads, Step(t)
        PROVE  P!PromiseNext \/ UNCHANGED P!pvars
    <3>1. CASE \/ Link(t) \/ RemoveKill(t) \/ Unlink(t) \/ (\E w \in Threads : Wake(t, w))
               \/ (Check(t) /\ waiter[t].woken)
      BY <2>1, <3>1, LinkEnters, RemoveKillCondemns, UnlinkLeaves, WakeTells, CheckReturns
    <3>2. CASE \/ Enlist(t) \/ SetState(t) \/ (Check(t) /\ ~waiter[t].woken) \/ Schedule(t)
               \/ Rouse(t) \/ Delist(t) \/ WakeDone(t) \/ Detach(t) \/ Put(t)
               \/ SkipDead(t) \/ Arrive(t)
      <4>1. Unseen(t)
        BY <2>1, <3>2, UnseenRest
      <4> QED
        BY <1>1, <2>3, <4>1, UnseenSteps
    <3> QED
      BY <2>3, <3>1, <3>2 DEF Step
  <2>4. CASE UNCHANGED vars
    <3>1. Linked' = Linked
      BY <2>4 DEF vars, Linked, Apart, klist_node_attached
    <3>2. \A m \in Nodes : PhaseOf(m)' = PhaseOf(m)
      BY <2>4, <3>1 DEF vars, PhaseOf, knode_dead
    <3>3. Phases' = Phases
      BY <2>1, <3>2, PhasesAre, PhasesBecome
    <3>4. \A u \in Threads : AwaitOf(u)' = AwaitOf(u)
      BY <2>4 DEF vars, AwaitOf
    <3> QED
      BY <2>4, <3>3, <3>4 DEF vars, P!pvars
  <2> QED
    BY <1>1, <2>2, <2>3, <2>4 DEF Next
<1> QED
  BY <1>1, InitPromise, KlistInvariant, PTL DEF Spec, KeepsPromise, P!Promise


----------------------------------------------------------------------------
(* A whole iteration is a turn around the ring of the linked nodes, and     *)
(* what others link and unlink meanwhile leaves the turn in order.          *)

(* The walker is on its way, and the node it comes to next.                 *)
Moving == i_cur[Walker] # NULL \/ (pc[Walker] \in Locking /\ fr[Walker].op = "next")
Comes == IF i_cur[Walker] # NULL THEN next[i_cur[Walker]] ELSE fr[Walker].next

(* What it has passed holds the nodes it has seen, and of the steady ones   *)
(* no others.                                                               *)
Turned(A) ==
    /\ HasPassed(next, prev, HEAD, Linked, A, Comes)
    /\ seen \cap Linked \subseteq A
    /\ steady \cap A \subseteq seen

WalkInv ==
    /\ steady \subseteq {n \in Linked \ {HEAD} : n_klist[n] = "k"}
    /\ ~i_open[Walker] => seen = {} /\ steady = {}
    /\ Moving => \E A : Turned(A)

----------------------------------------------------------------------------
(* What a step does to the ring.                                            *)

Kept ==
    /\ Linked' = Linked /\ owned' \subseteq owned
    /\ \A x \in Linked : next'[x] = next[x] /\ prev'[x] = prev[x]
    /\ \A n \in Linked \ {HEAD} : n_klist'[n] \in {n_klist[n], "k|dead"}

LEMMA CallKeeps ==
    ASSUME Inv, ~StartAnywhere, NEW t \in Threads, Call(t)
    PROVE  Kept
<1>0. IInv /\ Iterators /\ TypeOK
  BY DEF Inv, IInv
<1>1. ASSUME NEW n \in Nodes,
             \/ klist_add_head(t, n) \/ klist_add_tail(t, n)
             \/ klist_add_after(t, n) \/ klist_add_before(t, n)
      PROVE  Kept
  <2>1. PICK pos \in {HEAD, i_cur[t]} \ {NULL} : \E label \in Entering : AddAt(t, n, pos, label)
    BY <1>1, KlistConstants
       DEF klist_add_head, klist_add_tail, klist_add_after, klist_add_before, Entering
  <2>2. PICK label \in Entering : AddAt(t, n, pos, label)
    BY <2>1
  <2>3. Linked' = Linked
    BY <1>0, <2>2, AddAtInv
  <2>4. n \notin Linked
    BY <2>2, KlistConstants DEF AddAt, Linked
  <2>5. /\ owned' = owned
        /\ \A x \in Slots \ {n} : next'[x] = next[x] /\ prev'[x] = prev[x]
        /\ \A m \in Nodes \ {n} : n_klist'[m] = n_klist[m]
    BY <1>0, <2>2 DEF AddAt, klist_node_init, TypeOK
  <2>6. Linked \subseteq Slots /\ Linked \ {HEAD} \subseteq Nodes
    BY DEF Linked
  <2> QED
    BY <2>3, <2>4, <2>5, <2>6 DEF Kept
<1>2. ASSUME NEW n \in Nodes, klist_del(t, n) PROVE Kept
  <2>1. Linked' = Linked
    BY <1>0, <1>2, KlistDelInv
  <2>2. UNCHANGED <<next, prev>> /\ owned' \subseteq owned
    BY <1>2 DEF klist_del
  <2>3. \A m \in Nodes : n_klist'[m] \in {n_klist[m], "k|dead"}
    BY <1>0, <1>2 DEF klist_del, knode_kill, TypeOK
  <2> QED
    BY <2>1, <2>2, <2>3 DEF Kept, Linked
<1>3. ASSUME NEW n \in Nodes, klist_remove(t, n) PROVE Kept
  <2>1. Linked' = Linked
    BY <1>0, <1>3, KlistRemoveInv
  <2> QED
    BY <1>3, <2>1 DEF Kept, klist_remove
<1>4. ASSUME NEW n \in Nodes, klist_iter_init_node(t, n) PROVE Kept
  <2>1. Linked' = Linked
    BY <1>0, <1>4, IterInitNodeInv
  <2> QED
    BY <1>4, <2>1 DEF Kept, klist_iter_init_node
<1>5. CASE klist_iter_init(t)
  BY <1>0, <1>5, IterInitInv DEF Kept, klist_iter_init
<1>6. CASE klist_iter_exit(t)
  BY <1>0, <1>6, IterExitInv DEF Kept, klist_iter_exit
<1>7. CASE klist_next(t)
  BY <1>0, <1>7, KlistNextInv DEF Kept, klist_next
<1> QED
  BY <1>1, <1>2, <1>3, <1>4, <1>5, <1>6, <1>7 DEF Call

LEMMA StepKeeps ==
    ASSUME Inv, NEW t \in Threads, Step(t), ~Link(t), ~Unlink(t)
    PROVE  Kept
<1>0. IInv /\ Iterators /\ TypeOK
  BY DEF Inv, IInv
<1>1. CASE Detach(t)
  <2>1. /\ fr[t].node \in Nodes
        /\ \A m \in Nodes \ {fr[t].node} : n_klist'[m] = n_klist[m]
        /\ UNCHANGED <<next, prev, owned>> /\ pc[t] = "detach"
    BY <1>0, <1>1 DEF IInv, TypeOK, Frames, Framed, Detach, Releasing, Leaving
  <2>2. fr[t].node \notin Linked
    BY <1>0, <2>1, ReleasedNodes DEF Releasing, Leaving
  <2>3. Linked' = Linked
    BY <1>0, <1>1, DetachInv
  <2> QED
    BY <2>1, <2>2, <2>3 DEF Kept, Linked
<1>2. CASE RemoveKill(t)
  <2>1. Linked' = Linked
    BY <1>0, <1>2, RemoveKillInv
  <2>2. UNCHANGED <<next, prev, owned>>
    BY <1>2 DEF RemoveKill
  <2>3. \A m \in Nodes : n_klist'[m] \in {n_klist[m], "k|dead"}
    BY <1>0, <1>2 DEF RemoveKill, knode_kill, TypeOK
  <2> QED
    BY <2>1, <2>2, <2>3 DEF Kept, Linked
<1>3. CASE Enlist(t) \/ SetState(t) \/ Check(t) \/ Schedule(t)
  BY <1>0, <1>3, EnlistInv, SetStateInv, CheckInv, ScheduleInv
     DEF Kept, Enlist, SetState, Check, Schedule
<1>4. CASE (\E w \in Threads : Wake(t, w)) \/ Rouse(t) \/ Delist(t) \/ WakeDone(t)
  BY <1>0, <1>4, WakeInv, RouseInv, DelistInv, WakeDoneInv
     DEF Kept, Wake, Rouse, Delist, WakeDone
<1>5. CASE Put(t) \/ SkipDead(t) \/ Arrive(t)
  BY <1>0, <1>5, PutInv, SkipDeadInv, ArriveInv DEF Kept, Put, SkipDead, Arrive
<1> QED
  BY <1>1, <1>2, <1>3, <1>4, <1>5 DEF Step

----------------------------------------------------------------------------
(* What a step does to the walker's iteration.                              *)

(* The walker stays on its way, towards the same node.                      *)
Onward == Moving /\ Comes' = Comes /\ ~Begins /\ Returned = {}

LEMMA HeldOnward ==
    ASSUME Inv, Kept, i_cur[Walker] # NULL, i_cur'[Walker] = i_cur[Walker]
    PROVE  Onward
<1>1. i_cur[Walker] \in Linked
  BY HeldNodes, WalkerConstant DEF Inv
<1>2. next'[i_cur[Walker]] = next[i_cur[Walker]]
  BY <1>1 DEF Kept
<1> QED
  BY <1>2 DEF Onward, Moving, Comes, Begins, Returned

LEMMA OthersOnward ==
    ASSUME Inv, NEW t \in Threads \ {Walker}, Call(t) \/ Step(t), Kept, Moving'
    PROVE  Onward
<1>1. /\ pc'[Walker] = pc[Walker] /\ fr'[Walker] = fr[Walker]
      /\ i_cur'[Walker] = i_cur[Walker]
  BY OneMoves, WalkerConstant DEF Inv, IInv
<1>2. CASE i_cur[Walker] # NULL
  BY <1>1, <1>2, HeldOnward
<1>3. CASE i_cur[Walker] = NULL
  BY <1>1, <1>3 DEF Onward, Moving, Comes, Begins, Returned
<1> QED
  BY <1>2, <1>3

LEMMA CallsOnward ==
    ASSUME Inv, Call(Walker), Kept, Moving',
           ~\E n \in Nodes : klist_iter_init_node(Walker, n),
           klist_next(Walker) => i_cur[Walker] # NULL
    PROVE  Onward
<1> DEFINE W == Walker
<1>0. TypeOK /\ W \in Threads
  BY WalkerConstant DEF Inv, IInv
<1>1. CASE klist_next(W)
  <2>1. /\ i_cur'[W] = NULL /\ i_cur[W] # NULL /\ i_cur[W] \in Nodes
        /\ fr'[W] = Frame("next", i_cur[W], next[i_cur[W]], Last(i_cur[W]))
    BY <1>0, <1>1 DEF TypeOK, klist_next
  <2> QED
    BY <2>1 DEF Onward, Moving, Comes, Begins, Returned, Frame
<1>2. CASE klist_iter_exit(W)
  <2>1. i_cur'[W] = NULL /\ i_cur[W] \in Nodes \cup {NULL} /\ pc[W] = "idle"
    BY <1>0, <1>2 DEF TypeOK, klist_iter_exit
  <2>2. CASE i_cur[W] = NULL
    BY <1>2, <2>1, <2>2 DEF Moving, klist_iter_exit, Locking, Releasing, Leaving
  <2>3. CASE i_cur[W] # NULL
    <3>1. klist_put(W, i_cur[W], "put")
      BY <1>2, <2>3 DEF klist_iter_exit
    <3>2. pc'[W] = "idle" \/ fr'[W].op = "put"
      BY <1>0, <3>1 DEF TypeOK, klist_put, Finish, Frame
    <3> QED
      BY <2>1, <3>2 DEF Moving, Locking, Releasing, Leaving
  <2> QED
    BY <2>2, <2>3
<1>3. ASSUME NEW n \in Nodes,
             \/ klist_add_head(W, n) \/ klist_add_tail(W, n)
             \/ klist_add_after(W, n) \/ klist_add_before(W, n)
      PROVE  i_cur' = i_cur /\ pc'[W] \notin Locking
  BY <1>0, <1>3
     DEF TypeOK, klist_add_head, klist_add_tail, klist_add_after, klist_add_before, AddAt,
         Locking, Releasing, Leaving
<1>4. ASSUME NEW n \in Nodes, klist_del(W, n)
      PROVE  i_cur' = i_cur /\ (pc'[W] \notin Locking \/ fr'[W].op = "put")
  <2>1. klist_put(W, n, "put")
    BY <1>4 DEF klist_del
  <2>2. pc'[W] = "idle" \/ fr'[W].op = "put"
    BY <1>0, <2>1 DEF TypeOK, klist_put, Finish, Frame
  <2> QED
    BY <1>4, <2>2 DEF klist_del, Locking, Releasing, Leaving
<1>5. ASSUME (\E n \in Nodes : klist_remove(W, n)) \/ klist_iter_init(W)
      PROVE  i_cur' = i_cur /\ pc'[W] \notin Locking
  BY <1>0, <1>5 DEF TypeOK, klist_remove, klist_iter_init, Locking, Releasing, Leaving
<1>6. CASE ~klist_next(W) /\ ~klist_iter_exit(W)
  <2>1. i_cur' = i_cur /\ (pc'[W] \notin Locking \/ fr'[W].op = "put")
    BY <1>3, <1>4, <1>5, <1>6 DEF Call
  <2>2. i_cur[W] # NULL
    BY <2>1 DEF Moving
  <2> QED
    BY <2>1, <2>2, HeldOnward
<1> QED
  BY <1>1, <1>2, <1>6

LEMMA StepsOnward ==
    ASSUME Inv, Step(Walker), Kept, Moving',
           ~Link(Walker), ~Unlink(Walker), ~SkipDead(Walker), ~Arrive(Walker)
    PROVE  Onward
<1> DEFINE W == Walker
<1>0. TypeOK /\ W \in Threads
  BY WalkerConstant DEF Inv, IInv
<1>1. CASE \/ Detach(W) \/ WakeDone(W) \/ Rouse(W) \/ Delist(W)
           \/ \E w \in Threads : Wake(W, w)
  <2>1. i_cur' = i_cur /\ pc[W] \in Leaving /\ fr'[W].op = fr[W].op /\ fr'[W].next = fr[W].next
    BY <1>0, <1>1 DEF TypeOK, Detach, WakeDone, Rouse, Delist, Wake, Leaving
  <2>2. CASE i_cur[W] # NULL
    BY <2>1, <2>2, HeldOnward
  <2>3. CASE i_cur[W] = NULL
    BY <2>1, <2>3 DEF Onward, Moving, Comes, Begins, Returned, Locking, Releasing, Leaving
  <2> QED
    BY <2>2, <2>3
<1>2. ASSUME Enlist(W) \/ SetState(W) \/ Check(W) \/ Schedule(W) \/ Put(W)
      PROVE  i_cur' = i_cur /\ pc'[W] \notin Locking
  BY <1>0, <1>2
     DEF TypeOK, Enlist, SetState, Check, Schedule, Put, Finish, Locking, Releasing, Leaving
<1>3. ASSUME RemoveKill(W)
      PROVE  i_cur' = i_cur /\ (pc'[W] \notin Locking \/ fr'[W].op = "remove")
  <2>1. klist_put(W, fr[W].node, "remove")
    BY <1>3 DEF RemoveKill
  <2>2. pc'[W] = "sleep" \/ fr'[W].op = "remove"
    BY <1>0, <2>1 DEF TypeOK, klist_put, Finish, Frame
  <2> QED
    BY <1>3, <2>2 DEF RemoveKill, Locking, Releasing, Leaving
<1>4. CASE Enlist(W) \/ SetState(W) \/ Check(W) \/ Schedule(W) \/ Put(W) \/ RemoveKill(W)
  <2>1. i_cur' = i_cur /\ (pc'[W] \notin Locking \/ fr'[W].op = "remove")
    BY <1>2, <1>3, <1>4
  <2>2. i_cur[W] # NULL
    BY <2>1 DEF Moving
  <2> QED
    BY <2>1, <2>2, HeldOnward
<1> QED
  BY <1>1, <1>4 DEF Step

----------------------------------------------------------------------------
(* The turn, step by step.                                                  *)

LEMMA OnwardTurn ==
    ASSUME Inv, WalkInv, Watch, Kept, Onward, i_open'[Walker]
    PROVE  \E A : Turned(A)'
<1>1. PICK A : Turned(A)
  BY DEF WalkInv, Onward
<1>2. seen' = seen /\ steady' \subseteq steady
  BY DEF Watch, Onward, Kept, LinkedNow
<1>3. HasPassed(next', prev', HEAD, Linked', A, Comes')
  <2>1. /\ \A x \in Linked : next'[x] = next[x] /\ prev'[x] = prev[x]
        /\ Linked' = Linked /\ Comes' = Comes
    BY DEF Kept, Onward
  <2>2. HasPassed(next', prev', HEAD, Linked, A, Comes)
    BY <1>1, <2>1, TurnElsewhere DEF Turned
  <2> QED
    BY <2>1, <2>2
<1>4. seen' \cap Linked' \subseteq A /\ steady' \cap A \subseteq seen'
  BY <1>1, <1>2 DEF Turned, Kept
<1>5. Turned(A)'
  BY <1>3, <1>4 DEF Turned
<1> QED
  BY <1>5

LEMMA RingNow ==
    ASSUME Inv
    PROVE  /\ IsRing(next, prev, HEAD, Linked) /\ Linked \in SUBSET Slots
           /\ DOMAIN next = Slots /\ DOMAIN prev = Slots
BY DEF Inv, IInv, TypeOK, Ordered, Linked

LEMMA LinkTurn ==
    ASSUME Inv, WalkInv, Watch, NEW t \in Threads, Link(t), Moving', i_open'[Walker]
    PROVE  \E B : Turned(B)'
<1>0. IInv /\ TypeOK /\ Walker \in Threads
  BY WalkerConstant DEF Inv, IInv
<1>1. PICK n \in Nodes : n = fr[t].node
  BY <1>0 DEF IInv, Frames, Framed, Link, Having, Entering
<1>2. /\ pc[t] \in Having /\ pc'[t] = "idle" /\ k_lock = NULL /\ i_cur' = i_cur
      /\ owned' = owned \cup {n}
      /\ \A u \in Threads \ {t} : pc'[u] = pc[u]
  BY <1>0, <1>1 DEF TypeOK, Link, Finish, Having, Entering
<1>3. Linked' = Linked \cup {n} /\ n \notin Linked /\ n \notin owned
  BY <1>0, <1>1, <1>2, LinkInv, OneHand
<1>4. i_cur[Walker] # NULL /\ i_cur[Walker] \in Linked
  <2>1. pc[Walker] \notin Locking
    BY <1>0, <1>2, KlistConstants DEF IInv, Locks
  <2>2. pc'[Walker] \notin Locking
    BY <1>0, <1>2, <2>1 DEF Locking, Releasing, Leaving
  <2>3. i_cur[Walker] # NULL
    BY <1>2, <2>2 DEF Moving
  <2> QED
    BY <1>0, <2>3, HeldNodes
<1>5. prev[Comes] = i_cur[Walker] /\ Comes' = next'[i_cur[Walker]]
  BY <1>0, <1>2, <1>4, Neighbours DEF Comes
<1>6. PICK p \in Linked : InsertBetween(n, p, next[p])
  <2>1. fr[t].next \in Linked
    <3>1. fr[t].next \in {HEAD, i_cur[t]} \ {NULL}
      BY <1>0 DEF IInv, Frames, Framed, Link, Entering
    <3> QED
      BY <1>0, <3>1, HeldNodes DEF Linked
  <2>2. prev[fr[t].next] \in Linked /\ next[prev[fr[t].next]] = fr[t].next
    BY <1>0, <2>1, Neighbours
  <2> QED
    BY <1>1, <2>1, <2>2 DEF Link
<1>7. PICK A : Turned(A)
  BY <1>4 DEF WalkInv, Moving
<1>8. PICK B \in {A, A \cup {n}} : HasPassed(next', prev', HEAD, Linked \cup {n}, B, Comes')
  <2>1. n \in Slots \ Linked
    BY <1>3
  <2>2. /\ next' = [next EXCEPT ![p] = n, ![n] = next[p]]
        /\ prev' = [prev EXCEPT ![next[p]] = n, ![n] = p]
    BY <1>6 DEF InsertBetween
  <2>3. HasPassed(next, prev, HEAD, Linked, A, Comes)
    BY <1>7 DEF Turned
  <2>4. /\ IsRing(next, prev, HEAD, Linked) /\ Linked \in SUBSET Slots
        /\ DOMAIN next = Slots /\ DOMAIN prev = Slots
    BY RingNow
  <2>5. \E B \in {A, A \cup {n}} :
           HasPassed([next EXCEPT ![p] = n, ![n] = next[p]],
                     [prev EXCEPT ![next[p]] = n, ![n] = p], HEAD, Linked \cup {n}, B,
                     IF p = prev[Comes] THEN n ELSE Comes)
    BY <1>6, <2>1, <2>3, <2>4, TurnInsert
  <2>6. Comes' = IF p = prev[Comes] THEN n ELSE Comes
    BY <1>0, <1>3, <1>4, <1>5, <2>2 DEF TypeOK, Comes
  <2> QED
    BY <2>2, <2>5, <2>6
<1>9. HasPassed(next', prev', HEAD, Linked', B, Comes')
  BY <1>3, <1>5, <1>8
<1>10. seen' = seen \ {n} /\ steady' \subseteq steady
  BY <1>2, <1>3, <1>4 DEF Watch, Begins, Returned, LinkedNow
<1>11. n \notin steady
  BY <1>3 DEF WalkInv
<1>12. seen' \cap Linked' \subseteq B /\ steady' \cap B \subseteq seen'
  BY <1>3, <1>7, <1>10, <1>11 DEF Turned
<1>13. Turned(B)'
  BY <1>9, <1>12 DEF Turned
<1> QED
  BY <1>13

LEMMA UnlinkTurn ==
    ASSUME Inv, WalkInv, Watch, NEW t \in Threads, Unlink(t), Moving', i_open'[Walker]
    PROVE  \E B : Turned(B)'
<1>0. IInv /\ TypeOK /\ Walker \in Threads
  BY WalkerConstant DEF Inv, IInv
<1>1. PICK n \in Nodes : n = fr[t].node
  BY <1>0 DEF IInv, Frames, Framed, Unlink, Releasing
<1>2. /\ pc[t] = "release" /\ pc[t] \in Releasing /\ list_del(n)
      /\ \A u \in Threads \ {t} : pc'[u] = pc[u]
      /\ UNCHANGED <<i_cur, fr, owned>>
  BY <1>0, <1>1 DEF TypeOK, Unlink, Releasing
<1>3. Linked' = Linked \ {n} /\ n \in Linked \ {HEAD} /\ n_klist[n] = "k|dead" /\ Holders(n) = {}
  BY <1>0, <1>1, <1>2, UnlinkInv, OneRelease, ReleasedNodes, KlistConstants
<1>4. Moving
  BY <1>0, <1>2 DEF Moving, Locking
<1>5. Comes' = IF Comes = n THEN next[n] ELSE Comes
  <2>1. CASE i_cur[Walker] # NULL
    <3>1. i_cur[Walker] \in Linked /\ i_cur[Walker] # n
      BY <1>0, <1>3, <2>1, HeldNodes DEF Holders
    <3>2. next' = [next EXCEPT ![prev[n]] = next[n], ![n] = NULL]
      BY <1>2 DEF list_del
    <3>3. next[prev[n]] = n /\ prev[next[i_cur[Walker]]] = i_cur[Walker] /\ i_cur[Walker] \in Slots
      BY <1>0, <1>3, <3>1, Neighbours
    <3>4. next'[i_cur[Walker]] = IF prev[n] = i_cur[Walker] THEN next[n] ELSE next[i_cur[Walker]]
      BY <1>0, <3>1, <3>2, <3>3 DEF TypeOK
    <3> QED
      BY <1>2, <2>1, <3>3, <3>4 DEF Comes
  <2>2. CASE i_cur[Walker] = NULL
    <3>1. pc[Walker] \in Locking /\ fr[Walker].op = "next"
      BY <1>4, <2>2 DEF Moving
    <3>2. Walker = t
      BY <1>0, <1>2, <3>1, OneRelease
    <3>3. fr[Walker].next # n
      BY <1>0, <1>1, <1>2, <3>1, <3>2 DEF IInv, Frames, Framed
    <3> QED
      BY <1>2, <2>2, <3>3 DEF Comes
  <2> QED
    BY <2>1, <2>2
<1>6. PICK A : Turned(A)
  BY <1>4 DEF WalkInv
<1>7. HasPassed(next', prev', HEAD, Linked \ {n}, A \ {n}, IF Comes = n THEN next[n] ELSE Comes)
  <2>1. /\ next' = [next EXCEPT ![prev[n]] = next[n], ![n] = NULL]
        /\ prev' = [prev EXCEPT ![next[n]] = prev[n], ![n] = NULL]
    BY <1>2 DEF list_del
  <2>2. HasPassed(next, prev, HEAD, Linked, A, Comes)
    BY <1>6 DEF Turned
  <2>3. /\ IsRing(next, prev, HEAD, Linked) /\ Linked \in SUBSET Slots
        /\ DOMAIN next = Slots /\ DOMAIN prev = Slots
    BY RingNow
  <2> QED
    BY <1>3, <2>1, <2>2, <2>3, TurnRemove
<1>8. HasPassed(next', prev', HEAD, Linked', A \ {n}, Comes')
  BY <1>3, <1>5, <1>7
<1>9. seen' = seen /\ steady' \subseteq steady
  <2>1. ~Begins /\ Returned = {} /\ LinkedNow = {}
    <3>1. ~Begins
      BY <1>0, <1>2 DEF Begins
    <3> QED
      BY <1>2, <3>1 DEF Returned, LinkedNow
  <2> QED
    BY <2>1 DEF Watch
<1>10. seen' \cap Linked' \subseteq A \ {n} /\ steady' \cap (A \ {n}) \subseteq seen'
  BY <1>3, <1>6, <1>9 DEF Turned
<1>11. Turned(A \ {n})'
  BY <1>8, <1>10 DEF Turned
<1> QED
  BY <1>11

(* The walker starts at the head, on a list of nodes that are to be seen.   *)
LEMMA StartTurn ==
    ASSUME Inv, ~StartAnywhere, Watch, klist_next(Walker), i_cur[Walker] = NULL, Kept,
           i_open'[Walker]
    PROVE  \E A : Turned(A)'
<1>0. TypeOK /\ IInv /\ Walker \in Threads
  BY WalkerConstant DEF Inv, IInv
<1>1. /\ pc[Walker] = "idle" /\ pc'[Walker] = "scan" /\ i_cur'[Walker] = NULL
      /\ fr'[Walker].next = next[HEAD] /\ UNCHANGED <<next, prev>>
  BY <1>0 DEF TypeOK, klist_next, Frame
<1>2. Comes' = next[HEAD]
  BY <1>1 DEF Comes
<1>3. seen' = {} /\ steady' \subseteq OnList
  BY <1>1 DEF Watch, Begins
<1>4. OnList = Linked \ {HEAD}
  BY <1>0, OnListIsLinked
<1>5. HasPassed(next, prev, HEAD, Linked, {HEAD}, next[HEAD])
  BY RingNow, TurnStarts
<1>6. HasPassed(next', prev', HEAD, Linked', {HEAD}, Comes')
  BY <1>1, <1>2, <1>5 DEF Kept
<1>7. Turned({HEAD})'
  BY <1>3, <1>4, <1>6 DEF Turned
<1> QED
  BY <1>7

(* A node that is passed over is dead, so it is not steady.                 *)
LEMMA SkipTurn ==
    ASSUME Inv, WalkInv, Watch, SkipDead(Walker), Kept, i_open'[Walker]
    PROVE  \E A : Turned(A)'
<1>0. TypeOK /\ IInv /\ Walker \in Threads
  BY WalkerConstant DEF Inv, IInv
<1>1. PICK q : q = fr[Walker].next
  OBVIOUS
<1>2. /\ pc[Walker] = "scan" /\ q # HEAD /\ n_klist[q] = "k|dead" /\ fr'[Walker].next = next[q]
      /\ UNCHANGED <<next, prev, i_cur, owned>>
  BY <1>0, <1>1 DEF TypeOK, SkipDead, knode_dead
<1>3. Moving /\ i_cur[Walker] = NULL
  BY <1>0, <1>2, WalkerConstant DEF Moving, Inv, IInv, Frames, Framed, Iterators, Iterating, Locking
<1>4. Comes = q /\ Comes' = next[q]
  BY <1>1, <1>2, <1>3 DEF Comes
<1>5. PICK A : Turned(A)
  BY <1>3 DEF WalkInv
<1>6. HasPassed(next, prev, HEAD, Linked, A \cup {q}, next[q])
  BY <1>2, <1>4, <1>5, RingNow, TurnGoesOn DEF Turned
<1>7. HasPassed(next', prev', HEAD, Linked', A \cup {q}, Comes')
  BY <1>2, <1>4, <1>6 DEF Kept
<1>8. seen' = seen /\ steady' \subseteq steady /\ q \notin steady
  <2>1. ~Begins /\ Returned = {} /\ LinkedNow = {}
    BY <1>2 DEF Begins, Returned, LinkedNow
  <2> QED
    BY <1>2, <2>1 DEF Watch, WalkInv
<1>9. seen' \cap Linked' \subseteq A \cup {q} /\ steady' \cap (A \cup {q}) \subseteq seen'
  BY <1>5, <1>8 DEF Turned, Kept
<1>10. Turned(A \cup {q})'
  BY <1>7, <1>9 DEF Turned
<1> QED
  BY <1>10

LEMMA ArriveTurn ==
    ASSUME Inv, WalkInv, Watch, Arrive(Walker), Kept, Moving', i_open'[Walker]
    PROVE  \E A : Turned(A)'
<1>0. TypeOK /\ IInv /\ Walker \in Threads
  BY WalkerConstant DEF Inv, IInv
<1>1. PICK q : q = fr[Walker].next
  OBVIOUS
<1>2. /\ pc[Walker] = "scan" /\ pc'[Walker] \notin Locking
      /\ UNCHANGED <<next, prev, owned>>
      /\ q = HEAD => i_cur' = i_cur
      /\ q # HEAD => i_cur'[Walker] = q
  BY <1>0, <1>1 DEF TypeOK, Arrive, Finish, Locking, Releasing, Leaving
<1>3. Moving /\ i_cur[Walker] = NULL
  BY <1>0, <1>2, WalkerConstant DEF Moving, Inv, IInv, Frames, Framed, Iterators, Iterating, Locking
<1>4. q # HEAD
  BY <1>2, <1>3 DEF Moving
<1>5. i_cur'[Walker] = q /\ i_cur'[Walker] # NULL
  BY <1>2, <1>4 DEF Moving
<1>6. Comes = q /\ Comes' = next[q]
  BY <1>1, <1>2, <1>3, <1>5 DEF Comes
<1>7. PICK A : Turned(A)
  BY <1>3 DEF WalkInv
<1>8. HasPassed(next, prev, HEAD, Linked, A \cup {q}, next[q])
  BY <1>4, <1>6, <1>7, RingNow, TurnGoesOn DEF Turned
<1>9. HasPassed(next', prev', HEAD, Linked', A \cup {q}, Comes')
  BY <1>2, <1>6, <1>8 DEF Kept
<1>10. seen' = seen \cup {q} /\ steady' \subseteq steady
  <2>1. ~Begins /\ Returned = {q} /\ LinkedNow = {}
    BY <1>2, <1>3, <1>5 DEF Begins, Returned, LinkedNow
  <2> QED
    BY <2>1 DEF Watch
<1>11. seen' \cap Linked' \subseteq A \cup {q} /\ steady' \cap (A \cup {q}) \subseteq seen'
  BY <1>7, <1>10 DEF Turned, Kept
<1>12. Turned(A \cup {q})'
  BY <1>9, <1>11 DEF Turned
<1> QED
  BY <1>12

(* An iterator that starts at a node is as far as a turn that reached it,   *)
(* and is not held to have seen what comes before.                          *)
LEMMA InitNodeTurn ==
    ASSUME Inv, ~StartAnywhere, WalkInv, Watch, NEW n \in Nodes, klist_iter_init_node(Walker, n),
           Kept, i_open'[Walker]
    PROVE  \E A : Turned(A)'
<1>0. TypeOK /\ IInv /\ Walker \in Threads
  BY WalkerConstant DEF Inv, IInv
<1>1. /\ n \in owned /\ ~i_open[Walker] /\ i_cur'[Walker] = n /\ n # NULL
      /\ UNCHANGED <<next, prev, pc>>
  BY <1>0, KlistConstants DEF TypeOK, klist_iter_init_node
<1>2. n \in Linked
  <2>1. \A u \in Threads : pc[u] \in Entering => fr[u].node # n
    BY <1>0, <1>1 DEF IInv, Ownership, Owns, Having
  <2> QED
    BY <1>0, <1>1, <2>1, OwnedLinked DEF Initial
<1>3. Comes' = next[n]
  BY <1>1 DEF Comes
<1>4. PICK A : n \in A /\ HasPassed(next, prev, HEAD, Linked, A, next[n])
  BY <1>2, RingNow, TurnAt
<1>5. HasPassed(next', prev', HEAD, Linked', A, Comes')
  BY <1>1, <1>3, <1>4 DEF Kept
<1>6. seen' \subseteq {n} /\ steady' = {}
  <2>1. ~Begins /\ Returned \subseteq {n}
    BY <1>1 DEF Begins, Returned
  <2>2. seen = {} /\ steady = {}
    BY <1>1 DEF WalkInv
  <2> QED
    BY <2>1, <2>2 DEF Watch
<1>7. Turned(A)'
  BY <1>4, <1>5, <1>6 DEF Turned
<1> QED
  BY <1>7

----------------------------------------------------------------------------
(* The invariant of the walk.                                               *)

(* A node that is linked and alive stays linked, until it is deleted.       *)
LEMMA LiveStay ==
    ASSUME Inv, ~StartAnywhere, NEW t \in Threads, Call(t) \/ Step(t),
           NEW n \in Linked \ {HEAD}, n_klist[n] = "k"
    PROVE  n \in Linked' /\ n_klist'[n] \in {"k", "k|dead"}
<1>0. IInv
  BY DEF Inv
<1>1. CASE Kept
  BY <1>1 DEF Kept
<1>2. CASE Link(t)
  BY <1>0, <1>2, LinkInv DEF Link
<1>3. CASE Unlink(t)
  <2>1. n_klist[fr[t].node] = "k|dead" /\ UNCHANGED n_klist
    BY <1>0, <1>3, OneRelease DEF Unlink, Releasing
  <2> QED
    BY <1>0, <1>3, <2>1, UnlinkInv
<1> QED
  BY <1>1, <1>2, <1>3, CallKeeps, StepKeeps

LEMMA WalkTurn ==
    ASSUME Inv, Inv', ~StartAnywhere, WalkInv, Watch,
           NEW t \in Threads, Call(t) \/ Step(t), Moving'
    PROVE  \E A : Turned(A)'
<1>1. i_open'[Walker]
  BY WalkerConstant DEF Moving, Inv, Iterators, Iterating
<1>2. CASE Link(t) \/ Unlink(t)
  BY <1>1, <1>2, LinkTurn, UnlinkTurn
<1>3. CASE ~Link(t) /\ ~Unlink(t)
  <2>1. Kept
    BY <1>3, CallKeeps, StepKeeps
  <2>2. CASE t # Walker
    BY <1>1, <2>1, <2>2, OthersOnward, OnwardTurn
  <2>3. CASE t = Walker /\ Call(t)
    <3>1. CASE \E n \in Nodes : klist_iter_init_node(Walker, n)
      BY <1>1, <2>1, <3>1, InitNodeTurn
    <3>2. CASE klist_next(Walker) /\ i_cur[Walker] = NULL
      BY <1>1, <2>1, <3>2, StartTurn
    <3> QED
      BY <1>1, <2>1, <2>3, <3>1, <3>2, CallsOnward, OnwardTurn
  <2>4. CASE t = Walker /\ Step(t)
    <3>1. CASE SkipDead(Walker) \/ Arrive(Walker)
      BY <1>1, <2>1, <3>1, SkipTurn, ArriveTurn
    <3> QED
      BY <1>1, <1>3, <2>1, <2>4, <3>1, StepsOnward, OnwardTurn
  <2> QED
    BY <2>2, <2>3, <2>4
<1> QED
  BY <1>2, <1>3

(* Only klist_next begins an iteration.                                     *)
LEMMA BeginsWithNext ==
    ASSUME Inv, NEW t \in Threads, Call(t) \/ Step(t), Begins
    PROVE  klist_next(Walker)
<1>0. TypeOK /\ Walker \in Threads
  BY WalkerConstant DEF Inv, IInv
<1>1. t = Walker
  BY <1>0, OneMoves DEF Begins
<1>2. ~Step(Walker)
  BY DEF Begins, Step, Link, Enlist, RemoveKill, SetState, Check, Schedule, Unlink, Wake, Rouse,
         Delist, WakeDone, Detach, Put, SkipDead, Arrive
<1>3. ASSUME NEW n \in Nodes, klist_put(Walker, n, "put")
      PROVE  pc'[Walker] # "scan"
  BY <1>0, <1>3 DEF TypeOK, klist_put, Finish
<1>4. ASSUME NEW n \in Nodes, klist_del(Walker, n)
      PROVE  FALSE
  BY <1>3, <1>4 DEF klist_del, Begins
<1>5. ASSUME NEW n \in Nodes,
             \/ klist_add_head(Walker, n) \/ klist_add_tail(Walker, n)
             \/ klist_add_after(Walker, n) \/ klist_add_before(Walker, n)
             \/ klist_remove(Walker, n) \/ klist_iter_init_node(Walker, n)
      PROVE  FALSE
  BY <1>0, <1>5
     DEF TypeOK, Begins, klist_add_head, klist_add_tail, klist_add_after, klist_add_before, AddAt,
         klist_remove, klist_iter_init_node
<1>6. ~klist_iter_init(Walker) /\ ~klist_iter_exit(Walker)
  BY <1>0 DEF TypeOK, Begins, klist_iter_init, klist_iter_exit
<1> QED
  BY <1>1, <1>2, <1>4, <1>5, <1>6 DEF Call

LEMMA WalkStep ==
    ASSUME Inv, Inv', ~StartAnywhere, WalkInv, Watch, NEW t \in Threads, Call(t) \/ Step(t)
    PROVE  WalkInv'
<1>0. IInv /\ TypeOK
  BY DEF Inv, IInv
<1>1. ASSUME NEW n \in steady'
      PROVE  n \in Linked' \ {HEAD} /\ n_klist'[n] = "k"
  <2>1. CASE Begins
    <3>1. klist_next(Walker)
      BY <2>1, BeginsWithNext
    <3>2. Linked' = Linked /\ UNCHANGED n_klist
      BY <1>0, <3>1, WalkerConstant, KlistNextInv DEF klist_next
    <3>3. n \in OnList /\ ~knode_dead(n)
      BY <1>1, <2>1 DEF Watch
    <3>4. n \in Linked \ {HEAD}
      BY <1>0, <3>3, OnListIsLinked
    <3> QED
      BY <1>0, <3>2, <3>3, <3>4 DEF TypeOK, Linked, klist_node_attached, knode_dead
  <2>2. CASE ~Begins
    <3>1. n \in steady /\ n \notin Killed
      BY <1>1, <2>2 DEF Watch
    <3>2. n \in Linked \ {HEAD} /\ n \in Nodes /\ n_klist[n] = "k"
      BY <3>1 DEF WalkInv, Linked
    <3>3. n \in Linked' /\ n_klist'[n] \in {"k", "k|dead"}
      BY <3>2, LiveStay
    <3> QED
      BY <3>1, <3>2, <3>3 DEF Killed, knode_dead
  <2> QED
    BY <2>1, <2>2
<1>2. ~i_open'[Walker] => seen' = {} /\ steady' = {}
  BY DEF Watch
<1>3. Moving' => \E A : Turned(A)'
  BY WalkTurn
<1> QED
  BY <1>1, <1>2, <1>3 DEF WalkInv

LEMMA WalkStill ==
    ASSUME Inv, WalkInv, UNCHANGED wvars
    PROVE  WalkInv'
<1>1. UNCHANGED <<next, prev, n_klist, pc, fr, i_cur, i_open, seen, steady>> /\ Linked' = Linked
  BY DEF wvars, vars, Linked, Apart, klist_node_attached
<1>2. Moving' = Moving /\ Comes' = Comes
  BY <1>1 DEF Moving, Comes
<1>3. Moving' => \E A : Turned(A)'
  BY <1>1, <1>2 DEF WalkInv, Turned
<1> QED
  BY <1>1, <1>3 DEF WalkInv

LEMMA WalkBegins == WalkInit => WalkInv
<1> SUFFICES ASSUME WalkInit PROVE WalkInv
  OBVIOUS
<1>1. i_cur[Walker] = NULL /\ pc[Walker] = "idle" /\ seen = {} /\ steady = {}
  BY WalkerConstant DEF WalkInit, Init
<1> QED
  BY <1>1 DEF WalkInv, Moving, Locking, Releasing, Leaving

LEMMA WalkInvariant ==
    ASSUME ~StartAnywhere
    PROVE  WalkSpec => [](Inv /\ WalkInv)
<1>1. WalkInit => Inv /\ WalkInv
  BY InitInv, WalkBegins DEF WalkInit
<1>2. Inv /\ WalkInv /\ [WalkNext]_wvars => (Inv /\ WalkInv)'
  <2>1. ASSUME Inv, WalkInv, WalkNext
        PROVE  Inv' /\ WalkInv'
    <3>1. PICK t \in Threads : Call(t) \/ Step(t)
      BY <2>1 DEF WalkNext, Next
    <3>2. Inv'
      BY <2>1, <3>1, StepInv
    <3> QED
      BY <2>1, <3>1, <3>2, WalkStep DEF WalkNext
  <2>2. ASSUME Inv, WalkInv, UNCHANGED wvars
        PROVE  Inv' /\ WalkInv'
    BY <2>2, StillInv, WalkStill DEF wvars
  <2> QED
    BY <2>1, <2>2
<1> QED
  BY <1>1, <1>2, PTL DEF WalkSpec

----------------------------------------------------------------------------
(* What an iteration returns.                                               *)

(* klist_next's iterator at the end of the list has been all around it, so  *)
(* it has returned every node that was on the list from the first call on.  *)
THEOREM KlistWalkComplete ==
    ASSUME ~StartAnywhere
    PROVE  WalkSpec => WalkComplete
<1>1. ASSUME Inv, WalkInv, pc[Walker] = "scan", fr[Walker].next = HEAD
      PROVE  steady \subseteq seen
  <2>1. Moving /\ i_cur[Walker] = NULL
    BY <1>1, WalkerConstant
       DEF Moving, Inv, IInv, Frames, Framed, Iterators, Iterating, Locking
  <2>2. Comes = HEAD
    BY <1>1, <2>1 DEF Comes
  <2>3. PICK A : Turned(A)
    BY <1>1, <2>1 DEF WalkInv
  <2>4. A = Linked
    BY <1>1, <2>2, <2>3, RingNow, TurnEnds DEF Turned
  <2> QED
    BY <1>1, <2>3, <2>4 DEF WalkInv, Turned
<1>2. Inv /\ WalkInv /\ [WalkNext]_wvars =>
        [pc[Walker] = "scan" /\ fr[Walker].next = HEAD /\ pc'[Walker] # "scan"
            => steady \subseteq seen]_wvars
  BY <1>1
<1> QED
  BY <1>2, WalkInvariant, PTL DEF WalkSpec, WalkComplete

(* Only klist_next's arrival and klist_iter_init_node put an iterator on a  *)
(* node.                                                                    *)
LEMMA ReturnedOnce ==
    ASSUME Inv, ~StartAnywhere, WalkInv, NEW t \in Threads, Call(t) \/ Step(t), i_open[Walker],
           i_cur'[Walker] \notin {i_cur[Walker], NULL}
    PROVE  i_cur'[Walker] \notin seen
<1>0. TypeOK /\ IInv /\ Walker \in Threads
  BY WalkerConstant DEF Inv, IInv
<1>1. t = Walker
  BY <1>0, OneMoves
<1>2. ~Call(Walker)
  BY <1>0
     DEF TypeOK, Call, klist_add_head, klist_add_tail, klist_add_after, klist_add_before, AddAt,
         klist_del, klist_remove, klist_iter_init_node, klist_iter_init, klist_iter_exit, klist_next
<1>3. Arrive(Walker)
  BY <1>1, <1>2
     DEF Step, Link, Enlist, RemoveKill, SetState, Check, Schedule, Unlink, Wake, Rouse,
         Delist, WakeDone, Detach, Put, SkipDead
<1>4. pc[Walker] = "scan" /\ fr[Walker].next # HEAD /\ i_cur'[Walker] = fr[Walker].next
  BY <1>0, <1>3 DEF TypeOK, Arrive
<1>5. Moving /\ i_cur[Walker] = NULL
  BY <1>0, <1>4 DEF Moving, Inv, IInv, Frames, Framed, Iterators, Iterating, Locking
<1>6. PICK A : Turned(A)
  BY <1>5 DEF WalkInv
<1>7. Comes = fr[Walker].next
  BY <1>5 DEF Comes
<1> QED
  BY <1>4, <1>6, <1>7 DEF Turned, HasPassed

(* A turn passes no node twice, however the ring changes on the way; so     *)
(* klist_next returns none twice.                                           *)
THEOREM KlistWalkOnce ==
    ASSUME ~StartAnywhere
    PROVE  WalkSpec => WalkOnce
<1>1. ASSUME Inv, WalkInv, WalkNext, i_open[Walker]
      PROVE  Returned \cap seen = {}
  <2>1. PICK t \in Threads : Call(t) \/ Step(t)
    BY <1>1 DEF WalkNext, Next
  <2> QED
    BY <1>1, <2>1, ReturnedOnce DEF Returned
<1>2. Inv /\ WalkInv /\ [WalkNext]_wvars =>
        [i_open[Walker] => Returned \cap seen = {}]_wvars
  BY <1>1
<1> QED
  BY <1>2, WalkInvariant, PTL DEF WalkSpec, WalkOnce
=============================================================================
