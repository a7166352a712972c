---------------------------- MODULE SlistProofs ----------------------------
(***************************************************************************)
(* Slist for every number of nodes and threads that use a list as the      *)
(* table in slist.h allows: no node is lost or used twice although nodes   *)
(* are used again, and the list keeps the promise of a stack.              *)
(***************************************************************************)
EXTENDS Slist, Lemmas, SequenceTheorems, TLAPS

(* What slist.h asks for: threads share a list only through an exchange     *)
(* that is one access, and a loop that deletes what it walks over has the   *)
(* list for itself.  Without the first a run of Slist loses a node.         *)
Users(u) == u.adders \cup u.poppers \cup u.drainers \cup u.sweepers
ForOne(u) == \E t \in Threads : Users(u) \subseteq {t}
Allowed(u) == ForOne(u) \/ (u.atomic /\ u.sweepers = {})

(* Where a thread is in its call.                                           *)
Pushing  == {"add", "add store"}
Popping  == {"load", "pop", "pop store"}
Storing  == {"add store", "pop store"}
Sweeping == {"sweep", "drop"}

(* The node a traversal visits next.                                        *)
Cursor(t) ==
    IF pc[t] \in {"visit", "sweep"} THEN entry[t]
    ELSE IF pc[t] = "drop" THEN new[t] ELSE NULL

(* L is on the list, A[t] ahead of t.                                       *)
Chains(L, A) ==
    /\ IsChain(next, NULL, first, L)
    /\ \A t \in Threads : IsChain(next, NULL, Cursor(t), A[t])

(* What a call's locals are good for at each place.  The node a popper has  *)
(* read from first stays on the list, and what comes behind it there.       *)
Local(t, L) ==
    /\ pc[t] \in Pushing => new[t] \in Nodes /\ next[new[t]] = entry[t]
    /\ pc[t] \in Popping <=> consumer_lock = t
    /\ pc[t] \in Popping => entry[t] \in L
    /\ pc[t] \in {"pop", "pop store"} => new[t] = next[entry[t]]
    /\ pc[t] \in Storing => ~use.atomic /\ first = entry[t]
    /\ pc[t] # "idle" => t \in Users(use)
    /\ pc[t] \in Sweeping => use.sweepers # {}
Locals(L) == \A t \in Threads : Local(t, L)

(* Nobody has a node that another one has; only slist_for_each_safe walks   *)
(* over nodes that are on the list, and frees them there.                   *)
Owned(t, L, A) ==
    /\ pc[t] \in Pushing =>
          /\ new[t] \notin free /\ new[t] \notin L
          /\ \A u \in Threads : /\ new[t] \notin A[u]
                                /\ u # t /\ pc[u] \in Pushing => new[u] # new[t]
    /\ A[t] \cap free = {}
    /\ \A u \in Threads : u # t => A[t] \cap A[u] = {}
    /\ pc[t] \in Sweeping => L \subseteq A[t] \cup free
Apart(L, A) ==
    /\ \A t \in Threads : Owned(t, L, A)
    /\ (\A t \in Threads : pc[t] \notin Sweeping) =>
          L \cap free = {} /\ \A t \in Threads : L \cap A[t] = {}

Everything(L, A) ==
    \A n \in Nodes : \/ n \in free \/ n \in L
                     \/ \E t \in Threads : n \in A[t] \/ (pc[t] \in Pushing /\ new[t] = n)

Good(L, A) == Chains(L, A) /\ Locals(L) /\ Apart(L, A) /\ Everything(L, A)

SlistInv ==
    /\ TypeOK /\ Allowed(use)
    /\ \E L \in SUBSET Nodes : \E A \in [Threads -> SUBSET Nodes] : Good(L, A)

USE DEF NodeOrNull, Goto, slist_empty

----------------------------------------------------------------------------
(* The walks along next.                                                    *)

C == Cardinality(Nodes)

LEMMA NodeCount == C \in Nat /\ Turns = 0..C /\ IsFiniteSet(Nodes) /\ NULL \notin Nodes
BY SlistConstants, FS_CardinalityType DEF C, Turns

(* A recursive function on an interval of numbers is what its equation says.*)
LEMMA AfterFound ==
    \A k \in 0..C : After[k] = IF k = 0 THEN [s \in NodeOrNull |-> s]
                               ELSE [s \in NodeOrNull |-> Onward[After[k - 1][s]]]
<1> DEFINE start == [s \in NodeOrNull |-> s]
           onward(x) == [s \in NodeOrNull |-> Onward[x[s]]]
           step(f, k) == IF k = 0 THEN start ELSE onward(f[k - 1])
           T == {n \in Nat : \E f : f = [k \in 0..n |-> step(f, k)]}
<1>1. After = CHOOSE f : f = [k \in Turns |-> step(f, k)]
  BY DEF After
<1> HIDE DEF start, onward
<1>2. 0 \in T
  <2> DEFINE f == [k \in 0..0 |-> start]
  <2>1. f = [k \in 0..0 |-> step(f, k)]
    OBVIOUS
  <2> QED
    BY <2>1
<1>3. ASSUME NEW n \in Nat, n \in T
      PROVE  n + 1 \in T
  <2>1. PICK f : f = [k \in 0..n |-> step(f, k)]
    BY <1>3
  <2> DEFINE g == [k \in 0..(n + 1) |-> IF k <= n THEN f[k] ELSE step(f, n + 1)]
  <2>2. \A k \in 0..(n + 1) : g[k] = step(g, k)
    <3>1. ASSUME NEW k \in 0..n PROVE g[k] = step(g, k)
      <4>1. g[k] = f[k] /\ f[k] = step(f, k)
        BY <2>1
      <4>2. k # 0 => g[k - 1] = f[k - 1]
        OBVIOUS
      <4> QED
        BY <4>1, <4>2
    <3>2. g[n + 1] = step(g, n + 1)
      <4>1. g[n + 1] = step(f, n + 1) /\ g[n] = f[n]
        OBVIOUS
      <4> QED
        BY <4>1
    <3>3. \A k \in 0..(n + 1) : k \in 0..n \/ k = n + 1
      OBVIOUS
    <3> HIDE DEF g, step
    <3> QED
      BY <3>1, <3>2, <3>3
  <2>3. g = [k \in 0..(n + 1) |-> step(g, k)]
    BY <2>2
  <2>4. \E h : h = [k \in 0..(n + 1) |-> step(h, k)]
    <3> HIDE DEF g
    <3> QED
      BY <2>3
  <2> QED
    BY <2>4
<1>4. C \in T
  <2> HIDE DEF T
  <2> QED
    BY <1>2, <1>3, NodeCount, Induction
<1>5. After = [k \in 0..C |-> step(After, k)]
  <2>1. \E f : f = [k \in Turns |-> step(f, k)]
    BY <1>4, NodeCount
  <2>2. After = [k \in Turns |-> step(After, k)]
    BY <1>1, <2>1
  <2> QED
    BY <2>2, NodeCount
<1>6. \A k \in 0..C : After[k] = step(After, k)
  BY <1>5
<1> QED
  BY <1>6 DEF start, onward

NextType == next \in [Nodes -> NodeOrNull]

LEMMA AfterType == NextType => \A k \in 0..C : After[k] \in [NodeOrNull -> NodeOrNull]
<1> SUFFICES ASSUME NextType PROVE \A k \in 0..C : After[k] \in [NodeOrNull -> NodeOrNull]
  OBVIOUS
<1> DEFINE T == {k \in Nat : k <= C => After[k] \in [NodeOrNull -> NodeOrNull]}
<1>1. Onward \in [NodeOrNull -> NodeOrNull]
  BY DEF NextType, Onward
<1>2. 0 \in T
  <2>1. 0 \in 0..C
    BY NodeCount
  <2>2. After[0] = [s \in NodeOrNull |-> s]
    BY <2>1, AfterFound
  <2> QED
    BY <2>2
<1>3. ASSUME NEW k \in Nat, k \in T PROVE k + 1 \in T
  <2> SUFFICES ASSUME k + 1 <= C PROVE After[k + 1] \in [NodeOrNull -> NodeOrNull]
    OBVIOUS
  <2>1. After[k] \in [NodeOrNull -> NodeOrNull]
    BY <1>3, NodeCount
  <2>2. After[k + 1] = [s \in NodeOrNull |-> Onward[After[k][s]]]
    <3>1. k + 1 \in 0..C /\ k + 1 # 0 /\ (k + 1) - 1 = k
      BY NodeCount
    <3> QED
      BY <3>1, AfterFound
  <2> QED
    BY <1>1, <2>1, <2>2
<1>4. Nat \subseteq T
  <2> HIDE DEF T
  <2> QED
    BY <1>2, <1>3, Induction
<1>5. 0..C \subseteq Nat /\ \A k \in 0..C : k <= C
  BY NodeCount
<1> QED
  BY <1>4, <1>5

WalksAfter == \A s \in NodeOrNull : Walks([k \in Turns |-> After[k][s]], next, NULL, s, C)

LEMMA AfterWalks == NextType => WalksAfter
<1> SUFFICES ASSUME NextType, NEW s \in NodeOrNull
             PROVE  Walks([k \in Turns |-> After[k][s]], next, NULL, s, C)
  BY DEF WalksAfter
<1> DEFINE walk == [k \in Turns |-> After[k][s]]
<1>1. walk[0] = s
  <2>1. 0 \in 0..C /\ walk[0] = After[0][s]
    BY NodeCount
  <2>2. After[0] = [x \in NodeOrNull |-> x]
    BY <2>1, AfterFound
  <2> QED
    BY <2>1, <2>2
<1>2. ASSUME NEW k \in 1..C
      PROVE  walk[k] = IF walk[k - 1] = NULL THEN NULL ELSE next[walk[k - 1]]
  <2>1. /\ k \in 0..C /\ k - 1 \in 0..C /\ k # 0
        /\ walk[k] = After[k][s] /\ walk[k - 1] = After[k - 1][s]
    BY NodeCount
  <2>2. After[k][s] = Onward[After[k - 1][s]]
    BY <2>1, AfterFound
  <2>3. After[k - 1][s] \in NodeOrNull
    BY <2>1, AfterType
  <2> QED
    BY <2>1, <2>2, <2>3 DEF Onward
<1> HIDE DEF walk
<1>3. Walks(walk, next, NULL, s, C)
  BY <1>1, <1>2 DEF Walks
<1> QED
  BY <1>3 DEF walk

(* From finds the nodes of a chain.                                         *)
ChainsFound ==
    \A D \in SUBSET Nodes : \A s \in NodeOrNull : IsChain(next, NULL, s, D) => From(s) = D

LEMMA FromChain == NextType => ChainsFound
<1> SUFFICES ASSUME NextType,
                    NEW D \in SUBSET Nodes, NEW s \in NodeOrNull, IsChain(next, NULL, s, D)
             PROVE  From(s) = D
  BY DEF ChainsFound
<1> DEFINE walk == [k \in Turns |-> After[k][s]]
<1>1. Walks(walk, next, NULL, s, Cardinality(Nodes))
  BY AfterWalks DEF WalksAfter, C
<1>2. {walk[k] : k \in 0..Cardinality(Nodes)} \ {NULL} = D
  <2> HIDE DEF walk
  <2> QED
    BY <1>1, NodeCount, WalkAlong
<1>3. {walk[k] : k \in 0..Cardinality(Nodes)} = {After[k][s] : k \in Turns}
  BY DEF Turns
<1> QED
  BY <1>2, <1>3 DEF From

(* What the properties speak of.                                            *)
LEMMA OnListAndAhead ==
    ASSUME TypeOK, NEW L \in SUBSET Nodes, NEW A \in [Threads -> SUBSET Nodes], Good(L, A)
    PROVE  OnList = L /\ \A t \in Threads : Ahead(t) = A[t]
<1>1. OnList = L
  BY FromChain DEF NextType, ChainsFound, OnList, Good, Chains, TypeOK
<1>2. ASSUME NEW t \in Threads PROVE Ahead(t) = A[t]
  <2>1. Cursor(t) \in NodeOrNull /\ IsChain(next, NULL, Cursor(t), A[t]) /\ A[t] \in SUBSET Nodes
    BY <1>2 DEF Cursor, Good, Chains, TypeOK
  <2>2. From(Cursor(t)) = A[t]
    BY <2>1, FromChain DEF ChainsFound, NextType, TypeOK
  <2>3. Cursor(t) = NULL => A[t] = {}
    BY <2>1, ChainNodes
  <2> QED
    BY <2>2, <2>3 DEF Cursor, Ahead
<1> QED
  BY <1>1, <1>2

----------------------------------------------------------------------------
(* What the invariant says of a state.                                      *)

(* Where somebody sweeps, or exchanges in two steps, nobody else runs.      *)
LEMMA RunsAlone ==
    ASSUME Allowed(use), NEW L, Locals(L), NEW t \in Threads, t \in Users(use)
    PROVE  /\ pc[t] \notin Sweeping => \A u \in Threads : pc[u] \notin Sweeping
           /\ ~use.atomic => \A u \in Threads : u # t => pc[u] = "idle"
<1>1. ASSUME ForOne(use), NEW u \in Threads, pc[u] # "idle" PROVE u = t
  BY <1>1 DEF ForOne, Locals, Local
<1>2. CASE ForOne(use)
  BY <1>1, <1>2 DEF Sweeping
<1>3. CASE use.atomic /\ use.sweepers = {}
  BY <1>3 DEF Locals, Local
<1> QED
  BY <1>2, <1>3 DEF Allowed

(* A thread that does not sweep meets the list without its sweepers.        *)
LEMMA NobodySweeps ==
    ASSUME Allowed(use), NEW L \in SUBSET Nodes, NEW A \in [Threads -> SUBSET Nodes], Good(L, A),
           NEW t \in Threads, t \in Users(use), pc[t] \notin Sweeping
    PROVE  /\ \A u \in Threads : pc[u] \notin Sweeping
           /\ L \cap free = {} /\ \A u \in Threads : L \cap A[u] = {}
BY RunsAlone DEF Good, Apart

(* Threads whose step it is not.                                            *)
Others(t) == \A u \in Threads : u # t => /\ pc'[u] = pc[u]
                                         /\ entry'[u] = entry[u]
                                         /\ new'[u] = new[u]

(* The pointers of the nodes of each chain stay.                            *)
Untouched(D) == \A n \in D : next'[n] = next[n]

LEMMA OtherChains ==
    ASSUME NEW L \in SUBSET Nodes, NEW A \in [Threads -> SUBSET Nodes], Chains(L, A),
           NEW t \in Threads, Others(t), NEW u \in Threads, u # t, Untouched(A[u])
    PROVE  IsChain(next, NULL, Cursor(u), A[u])'
<1>1. Cursor(u)' = Cursor(u)
  BY DEF Others, Cursor
<1>2. IsChain(next', NULL, Cursor(u), A[u])
  BY ChainElsewhere DEF Chains, Untouched
<1> QED
  BY <1>1, <1>2

(* A thread with nothing ahead of it.                                       *)
LEMMA NothingAhead ==
    ASSUME NEW L, NEW A, Chains(L, A), NEW t \in Threads,
           pc[t] \notin Sweeping \cup {"visit"}
    PROVE  A[t] = {}
BY ChainNodes DEF Chains, Cursor, Sweeping

LEMMA InitSlistInv ==
    ASSUME \A u \in Uses : Allowed(u)
    PROVE  Init => SlistInv
<1> SUFFICES ASSUME Init PROVE SlistInv
  OBVIOUS
<1> DEFINE A == [t \in Threads |-> {}]
<1>1. TypeOK /\ Allowed(use)
  BY DEF Init, TypeOK
<1>2. Chains({}, A)
  BY EmptyChain DEF Init, Chains, Cursor
<1>3. Locals({})
  BY SlistConstants DEF Init, Locals, Local, Pushing, Popping, Storing, Sweeping
<1>4. Apart({}, A) /\ Everything({}, A)
  BY DEF Init, Apart, Owned, Everything, Pushing, Sweeping
<1>5. A \in [Threads -> SUBSET Nodes]
  OBVIOUS
<1> HIDE DEF A
<1> QED
  BY <1>1, <1>2, <1>3, <1>4, <1>5 DEF SlistInv, Good

LEMMA OtherLocals ==
    ASSUME NEW L, Locals(L), NEW t \in Threads, Others(t), use' = use,
           NEW u \in Threads, u # t, NEW L2,
           pc[u] \in Pushing => next'[new[u]] = next[new[u]],
           consumer_lock' = u <=> consumer_lock = u,
           pc[u] \in Popping => entry[u] \in L2 /\ next'[entry[u]] = next[entry[u]],
           pc[u] \in Storing => first' = first
    PROVE  Local(u, L2)'
<1>1. pc'[u] = pc[u] /\ entry'[u] = entry[u] /\ new'[u] = new[u] /\ Local(u, L)
  BY DEF Others, Locals
<1>2. pc[u] \in {"pop", "pop store"} => pc[u] \in Popping
  BY DEF Popping
<1> QED
  BY <1>1, <1>2 DEF Local

LEMMA OtherOwned ==
    ASSUME NEW L, NEW A, Apart(L, A), NEW t \in Threads, Others(t),
           NEW u \in Threads, u # t, pc[u] \notin Sweeping,
           NEW L2, NEW A2, \A w \in Threads : w # t => A2[w] = A[w],
           pc[u] \in Pushing => /\ new[u] \notin free' /\ new[u] \notin L2 /\ new[u] \notin A2[t]
                                /\ pc'[t] \in Pushing => new'[t] # new[u],
           A[u] \cap free' = {}, A[u] \cap A2[t] = {}
    PROVE  Owned(u, L2, A2)'
<1>1. pc'[u] = pc[u] /\ new'[u] = new[u] /\ A2[u] = A[u] /\ Owned(u, L, A)
  BY DEF Others, Apart
<1>2. ASSUME NEW w \in Threads, w # u PROVE A2[u] \cap A2[w] = {}
  BY <1>1, <1>2 DEF Owned
<1>3. ASSUME pc[u] \in Pushing, NEW w \in Threads
      PROVE  /\ new[u] \notin A2[w]
             /\ w # u /\ pc'[w] \in Pushing => new'[w] # new[u]
  BY <1>1, <1>3 DEF Owned, Others
<1> QED
  BY <1>1, <1>2, <1>3 DEF Owned

(* Each node still is somewhere if those of t are.                          *)
LEMMA StillEverything ==
    ASSUME NEW L, NEW A, Everything(L, A), NEW t \in Threads, Others(t),
           NEW L2, NEW A2, \A w \in Threads : w # t => A2[w] = A[w],
           \A n \in Nodes : \/ n \in free \/ n \in L \/ n \in A[t]
                            \/ pc[t] \in Pushing /\ new[t] = n
                         => \/ n \in free' \/ n \in L2 \/ n \in A2[t]
                            \/ pc'[t] \in Pushing /\ new'[t] = n
    PROVE  Everything(L2, A2)'
<1> SUFFICES ASSUME NEW n \in Nodes
             PROVE  \/ n \in free' \/ n \in L2
                    \/ \E u \in Threads : n \in A2[u] \/ (pc'[u] \in Pushing /\ new'[u] = n)
  BY DEF Everything
<1>1. CASE n \in free \/ n \in L \/ n \in A[t] \/ (pc[t] \in Pushing /\ new[t] = n)
  BY <1>1
<1>2. CASE \E u \in Threads : u # t /\ (n \in A[u] \/ (pc[u] \in Pushing /\ new[u] = n))
  BY <1>2 DEF Others
<1> QED
  BY <1>1, <1>2 DEF Everything

(* A step that moves nodes between the list and the free ones only.         *)
LEMMA StillElsewhere ==
    ASSUME NEW L, NEW A, Everything(L, A), NEW t \in Threads, Others(t), pc[t] \notin Pushing,
           NEW L2, \A n \in Nodes : n \in free \/ n \in L => n \in free' \/ n \in L2
    PROVE  Everything(L2, A)'
BY StillEverything

----------------------------------------------------------------------------
(* slist_add.                                                               *)

LEMMA AddInv ==
    ASSUME TypeOK, Allowed(use),
           NEW L \in SUBSET Nodes, NEW A \in [Threads -> SUBSET Nodes], Good(L, A),
           NEW t \in Threads, NEW n \in Nodes, slist_add(t, n)
    PROVE  SlistInv'
<1>1. /\ pc[t] = "idle" /\ n \in free /\ t \in Users(use)
      /\ free' = free \ {n} /\ first' = first /\ use' = use /\ consumer_lock' = consumer_lock
      /\ entry' = [entry EXCEPT ![t] = first] /\ next' = [next EXCEPT ![n] = first]
      /\ new' = [new EXCEPT ![t] = n] /\ pc' = [pc EXCEPT ![t] = "add"]
  BY DEF slist_add, Users
<1>2. TypeOK' /\ Allowed(use)' /\ Others(t)
  BY <1>1 DEF TypeOK, Allowed, ForOne, Others
<1>3. /\ pc'[t] = "add" /\ new'[t] = n /\ entry'[t] = first /\ next'[n] = first
      /\ \A m \in Nodes \ {n} : next'[m] = next[m]
  BY <1>1 DEF TypeOK
<1>4. /\ \A u \in Threads : pc[u] \notin Sweeping
      /\ L \cap free = {} /\ \A u \in Threads : L \cap A[u] = {}
  BY <1>1, NobodySweeps DEF Sweeping
<1>5. A[t] = {}
  BY <1>1, NothingAhead DEF Good, Sweeping
<1>6. \A u \in Threads : n \notin A[u] /\ (pc[u] \in Pushing => new[u] # n)
  BY <1>1 DEF Good, Apart, Owned
<1>7. n \notin L
  BY <1>1, <1>4
<1>8. Chains(L, A)'
  <2>1. IsChain(next', NULL, first', L)
    <3>1. IsChain(next, NULL, first, L)
      BY DEF Good, Chains
    <3> QED
      BY <1>1, <1>3, <1>7, <3>1, ChainElsewhere
  <2>2. ASSUME NEW u \in Threads, u # t PROVE IsChain(next, NULL, Cursor(u), A[u])'
    BY <1>2, <1>3, <1>6, <2>2, OtherChains DEF Good, Untouched
  <2>3. IsChain(next, NULL, Cursor(t), A[t])'
    BY <1>3, <1>5, EmptyChain DEF Cursor
  <2> QED
    BY <2>1, <2>2, <2>3 DEF Chains
<1>9. Locals(L)'
  <2>1. ASSUME NEW u \in Threads, u # t PROVE Local(u, L)'
    <3>1. pc[u] \in Pushing => new[u] \in Nodes \ {n}
      BY <1>6, <2>1 DEF Good, Locals, Local
    <3>2. pc[u] \in Popping => entry[u] \in L
      BY DEF Good, Locals, Local
    <3> QED
      BY <1>1, <1>2, <1>3, <1>7, <2>1, <3>1, <3>2, OtherLocals DEF Good
  <2>2. Local(t, L)'
    BY <1>1, <1>3 DEF Good, Locals, Local, Pushing, Popping, Storing, Sweeping, Users
  <2> QED
    BY <2>1, <2>2 DEF Locals
<1>10. Apart(L, A)'
  <2>1. ASSUME NEW u \in Threads, u # t PROVE Owned(u, L, A)'
    <3>1. A[u] \cap free = {} /\ (pc[u] \in Pushing => new[u] \notin free /\ new[u] \notin L)
      BY DEF Good, Apart, Owned
    <3> QED
      BY <1>1, <1>2, <1>3, <1>4, <1>5, <1>6, <2>1, <3>1, OtherOwned DEF Good
  <2>2. Owned(t, L, A)'
    BY <1>1, <1>2, <1>3, <1>5, <1>6, <1>7 DEF Owned, Others, Sweeping
  <2> QED
    BY <1>1, <1>4, <2>1, <2>2 DEF Apart
<1>11. Everything(L, A)'
  <2>1. /\ pc[t] \notin Pushing /\ pc'[t] \in Pushing /\ new'[t] = n
        /\ \A m \in Nodes : m \in free => m \in free' \/ m = n
    BY <1>1, <1>3 DEF Pushing
  <2> QED
    BY <1>2, <2>1, StillEverything DEF Good
<1> QED
  BY <1>2, <1>8, <1>9, <1>10, <1>11 DEF SlistInv, Good

(* Another try: the node is not on the list yet, so that its next may       *)
(* follow first.                                                            *)
LEMMA PushAgainInv ==
    ASSUME TypeOK, Allowed(use),
           NEW L \in SUBSET Nodes, NEW A \in [Threads -> SUBSET Nodes], Good(L, A),
           NEW t \in Threads, pc[t] = "add", Retry(t),
           UNCHANGED <<use, first, free, consumer_lock, new>>
    PROVE  SlistInv'
<1>0. PICK n \in Nodes : n = new[t]
  BY DEF Good, Locals, Local, Pushing
<1>1. /\ t \in Users(use) /\ free' = free /\ first' = first /\ use' = use
      /\ consumer_lock' = consumer_lock /\ new' = new /\ pc' = pc
      /\ entry' = [entry EXCEPT ![t] = first] /\ next' = [next EXCEPT ![n] = first]
  BY <1>0 DEF Retry, Good, Locals, Local
<1>2. TypeOK' /\ Allowed(use)' /\ Others(t)
  BY <1>1 DEF TypeOK, Allowed, ForOne, Others
<1>3. /\ entry'[t] = first /\ next'[n] = first
      /\ \A m \in Nodes \ {n} : next'[m] = next[m]
  BY <1>1 DEF TypeOK
<1>4. /\ n \notin L /\ \A u \in Threads : n \notin A[u]
      /\ \A u \in Threads : u # t /\ pc[u] \in Pushing => new[u] # n
  BY <1>0 DEF Good, Apart, Owned, Pushing
<1>5. A[t] = {}
  BY NothingAhead DEF Good, Sweeping
<1>6. Chains(L, A)'
  <2>1. IsChain(next', NULL, first', L)
    <3>1. IsChain(next, NULL, first, L)
      BY DEF Good, Chains
    <3> QED
      BY <1>1, <1>3, <1>4, <3>1, ChainElsewhere
  <2>2. ASSUME NEW u \in Threads, u # t PROVE IsChain(next, NULL, Cursor(u), A[u])'
    BY <1>2, <1>3, <1>4, <2>2, OtherChains DEF Good, Untouched
  <2>3. IsChain(next, NULL, Cursor(t), A[t])'
    BY <1>1, <1>5, EmptyChain DEF Cursor
  <2> QED
    BY <2>1, <2>2, <2>3 DEF Chains
<1>7. Locals(L)'
  <2>1. ASSUME NEW u \in Threads, u # t PROVE Local(u, L)'
    <3>1. pc[u] \in Pushing => new[u] \in Nodes \ {n}
      BY <1>4, <2>1 DEF Good, Locals, Local
    <3>2. pc[u] \in Popping => entry[u] \in L
      BY DEF Good, Locals, Local
    <3> QED
      BY <1>1, <1>2, <1>3, <1>4, <2>1, <3>1, <3>2, OtherLocals DEF Good
  <2>2. Local(t, L)'
    BY <1>0, <1>1, <1>3 DEF Good, Locals, Local, Pushing, Popping, Storing, Sweeping
  <2> QED
    BY <2>1, <2>2 DEF Locals
<1>8. Apart(L, A)' /\ Everything(L, A)'
  BY <1>1 DEF Good, Apart, Owned, Everything
<1> QED
  BY <1>2, <1>6, <1>7, <1>8 DEF SlistInv, Good

----------------------------------------------------------------------------
(* slist_remove_head, and the exchange.                                     *)

(* A step that moves nothing.                                               *)
LEMMA QuietParts ==
    ASSUME NEW L \in SUBSET Nodes, NEW A \in [Threads -> SUBSET Nodes], Good(L, A),
           NEW t \in Threads, Others(t), UNCHANGED <<first, next, free>>,
           Cursor(t)' = Cursor(t),
           pc'[t] \in Pushing <=> pc[t] \in Pushing, pc[t] \in Pushing => new'[t] = new[t],
           pc'[t] \in Sweeping <=> pc[t] \in Sweeping
    PROVE  Chains(L, A)' /\ Apart(L, A)' /\ Everything(L, A)'
<1>1. \A u \in Threads : /\ Cursor(u)' = Cursor(u)
                         /\ pc'[u] \in Pushing <=> pc[u] \in Pushing
                         /\ pc[u] \in Pushing => new'[u] = new[u]
                         /\ pc'[u] \in Sweeping <=> pc[u] \in Sweeping
  BY DEF Others, Cursor
<1> QED
  BY <1>1 DEF Good, Chains, Apart, Owned, Everything

LEMMA RemoveHeadInv ==
    ASSUME TypeOK, Allowed(use),
           NEW L \in SUBSET Nodes, NEW A \in [Threads -> SUBSET Nodes], Good(L, A),
           NEW t \in Threads, slist_remove_head(t)
    PROVE  SlistInv'
<1>1. /\ pc[t] = "idle" /\ t \in Users(use) /\ consumer_lock = NULL /\ first # NULL
      /\ UNCHANGED <<use, first, next, free, new>> /\ consumer_lock' = t
      /\ entry' = [entry EXCEPT ![t] = first] /\ pc' = [pc EXCEPT ![t] = "load"]
  BY DEF slist_remove_head, Users
<1>2. TypeOK' /\ Allowed(use)' /\ Others(t)
  <2>1. entry' \in [Threads -> NodeOrNull] /\ entry'[t] # NULL /\ t \in use'.poppers
    BY <1>1 DEF slist_remove_head, TypeOK
  <2> QED
    BY <1>1, <2>1 DEF TypeOK, Allowed, ForOne, Others
<1>3. pc'[t] = "load" /\ entry'[t] = first
  BY <1>1 DEF TypeOK
<1>4. Chains(L, A)' /\ Apart(L, A)' /\ Everything(L, A)'
  BY <1>1, <1>2, <1>3, QuietParts DEF Cursor, Pushing, Sweeping
<1>5. Locals(L)'
  <2>1. ASSUME NEW u \in Threads, u # t PROVE Local(u, L)'
    <3>1. consumer_lock # u /\ (pc[u] \in Popping => entry[u] \in L)
      BY <1>1, SlistConstants DEF Good, Locals, Local
    <3> QED
      BY <1>1, <1>2, <2>1, <3>1, OtherLocals DEF Good
  <2>2. first \in L
    BY <1>1, ChainNodes DEF Good, Chains
  <2>3. Local(t, L)'
    BY <1>1, <1>3, <2>2 DEF Local, Pushing, Popping, Storing, Sweeping, Users
  <2> QED
    BY <2>1, <2>3 DEF Locals
<1> QED
  BY <1>2, <1>4, <1>5 DEF SlistInv, Good

(* slist_remove_head looks at the next of its node: at first, and again     *)
(* where an exchange failed.                                                *)
LEMMA LoadInv ==
    ASSUME TypeOK, Allowed(use),
           NEW L \in SUBSET Nodes, NEW A \in [Threads -> SUBSET Nodes], Good(L, A),
           NEW t \in Threads, Load(t)
    PROVE  SlistInv'
<1>1. /\ pc[t] = "load" /\ UNCHANGED <<use, first, next, free, consumer_lock, entry>>
      /\ new' = [new EXCEPT ![t] = next[entry[t]]] /\ pc' = [pc EXCEPT ![t] = "pop"]
      /\ entry[t] \in L /\ Local(t, L)
  BY DEF Load, Good, Locals, Local, Popping
<1>2. TypeOK' /\ Allowed(use)' /\ Others(t)
  BY <1>1 DEF TypeOK, Allowed, ForOne, Others
<1>3. pc'[t] = "pop" /\ new'[t] = next[entry[t]]
  BY <1>1 DEF TypeOK
<1>4. Chains(L, A)' /\ Apart(L, A)' /\ Everything(L, A)'
  BY <1>1, <1>2, <1>3, QuietParts DEF Cursor, Pushing, Sweeping
<1>5. Locals(L)'
  <2>1. ASSUME NEW u \in Threads, u # t PROVE Local(u, L)'
    <3>1. pc[u] \in Popping => entry[u] \in L
      BY DEF Good, Locals, Local
    <3> QED
      BY <1>1, <1>2, <2>1, <3>1, OtherLocals DEF Good
  <2>2. Local(t, L)'
    BY <1>1, <1>3 DEF Local, Pushing, Popping, Storing, Sweeping
  <2> QED
    BY <2>1, <2>2 DEF Locals
<1> QED
  BY <1>2, <1>4, <1>5 DEF SlistInv, Good

LEMMA PopAgainInv ==
    ASSUME TypeOK, Allowed(use),
           NEW L \in SUBSET Nodes, NEW A \in [Threads -> SUBSET Nodes], Good(L, A),
           NEW t \in Threads, pc[t] = "pop", first # entry[t], Retry(t),
           UNCHANGED <<use, first, free, consumer_lock, new>>
    PROVE  SlistInv'
<1>1. /\ UNCHANGED <<use, first, next, free, consumer_lock, new>>
      /\ entry' = [entry EXCEPT ![t] = first] /\ pc' = [pc EXCEPT ![t] = "load"]
      /\ entry[t] \in L /\ Local(t, L)
  BY DEF Retry, Good, Locals, Local, Popping
<1>2. first \in L /\ first # NULL
  BY <1>1, ChainNodes DEF Good, Chains
<1>3. TypeOK' /\ Allowed(use)' /\ Others(t)
  BY <1>1, <1>2 DEF TypeOK, Allowed, ForOne, Others
<1>4. pc'[t] = "load" /\ entry'[t] = first
  BY <1>1 DEF TypeOK
<1>5. Chains(L, A)' /\ Apart(L, A)' /\ Everything(L, A)'
  BY <1>1, <1>3, <1>4, QuietParts DEF Cursor, Pushing, Sweeping
<1>6. Locals(L)'
  <2>1. ASSUME NEW u \in Threads, u # t PROVE Local(u, L)'
    <3>1. pc[u] \in Popping => entry[u] \in L
      BY DEF Good, Locals, Local
    <3> QED
      BY <1>1, <1>3, <2>1, <3>1, OtherLocals DEF Good
  <2>2. Local(t, L)'
    BY <1>1, <1>2, <1>4 DEF Local, Pushing, Popping, Storing, Sweeping
  <2> QED
    BY <2>1, <2>2 DEF Locals
<1> QED
  BY <1>3, <1>5, <1>6 DEF SlistInv, Good

(* The comparison of a split exchange has found what it expects.            *)
LEMMA ComparedInv ==
    ASSUME TypeOK, Allowed(use),
           NEW L \in SUBSET Nodes, NEW A \in [Threads -> SUBSET Nodes], Good(L, A),
           NEW t \in Threads, ~use.atomic, pc[t] \in {"add", "pop"}, first = entry[t],
           Goto(t, IF pc[t] = "add" THEN "add store" ELSE "pop store"),
           UNCHANGED <<use, first, next, free, consumer_lock, entry, new>>
    PROVE  SlistInv'
<1>1. TypeOK' /\ Allowed(use)' /\ Others(t) /\ Local(t, L)
  BY DEF TypeOK, Allowed, ForOne, Others, Good, Locals
<1>2. \/ pc[t] = "add" /\ pc'[t] = "add store"
      \/ pc[t] = "pop" /\ pc'[t] = "pop store"
  BY DEF TypeOK
<1>3. Chains(L, A)' /\ Apart(L, A)' /\ Everything(L, A)'
  <2>1. /\ Cursor(t)' = Cursor(t)
        /\ pc'[t] \in Pushing <=> pc[t] \in Pushing
        /\ pc'[t] \notin Sweeping /\ pc[t] \notin Sweeping
    <3>1. CASE pc[t] = "add" /\ pc'[t] = "add store"
      BY <3>1 DEF Cursor, Pushing, Sweeping
    <3>2. CASE pc[t] = "pop" /\ pc'[t] = "pop store"
      BY <3>2 DEF Cursor, Pushing, Sweeping
    <3> QED
      BY <1>2, <3>1, <3>2
  <2> QED
    BY <1>1, <2>1, QuietParts
<1>4. Locals(L)'
  <2>1. ASSUME NEW u \in Threads, u # t PROVE Local(u, L)'
    <3>1. pc[u] \in Popping => entry[u] \in L
      BY DEF Good, Locals, Local
    <3> QED
      BY <1>1, <2>1, <3>1, OtherLocals DEF Good
  <2>2. Local(t, L)'
    <3>1. CASE pc[t] = "add" /\ pc'[t] = "add store"
      BY <1>1, <3>1 DEF Local, Pushing, Popping, Storing, Sweeping
    <3>2. CASE pc[t] = "pop" /\ pc'[t] = "pop store"
      BY <1>1, <3>2 DEF Local, Pushing, Popping, Storing, Sweeping
    <3> QED
      BY <1>2, <3>1, <3>2
  <2> QED
    BY <2>1, <2>2 DEF Locals
<1> QED
  BY <1>1, <1>3, <1>4 DEF SlistInv, Good

(* Nobody else is about to store.                                           *)
LEMMA StoresAlone ==
    ASSUME Allowed(use), NEW L, Locals(L), NEW t \in Threads, t \in Users(use),
           NEW u \in Threads, u # t
    PROVE  pc[u] \notin Storing
BY RunsAlone DEF Locals, Local, Storing

LEMMA PushedInv ==
    ASSUME TypeOK, Allowed(use),
           NEW L \in SUBSET Nodes, NEW A \in [Threads -> SUBSET Nodes], Good(L, A),
           NEW t \in Threads, pc[t] \in Pushing, first = entry[t], Succeed(t, FALSE)
    PROVE  SlistInv'
<1>0. PICK n \in Nodes : n = new[t]
  BY DEF Good, Locals, Local
<1> DEFINE L2 == L \cup {n}
<1>1. /\ t \in Users(use) /\ next[n] = first /\ pc[t] \notin Popping
      /\ UNCHANGED <<use, next, free, consumer_lock>> /\ first' = n
      /\ entry' = [entry EXCEPT ![t] = NULL] /\ pc' = [pc EXCEPT ![t] = "idle"]
      /\ new' = [new EXCEPT ![t] = NULL]
  BY <1>0 DEF Succeed, Return, Good, Locals, Local, Pushing, Popping
<1>2. TypeOK' /\ Allowed(use)' /\ Others(t) /\ L2 \in SUBSET Nodes
  BY <1>1 DEF TypeOK, Allowed, ForOne, Others
<1>3. pc'[t] = "idle" /\ new'[t] = NULL /\ entry'[t] = NULL
  BY <1>1 DEF TypeOK
<1>4. /\ \A u \in Threads : pc[u] \notin Sweeping
      /\ L \cap free = {} /\ \A u \in Threads : L \cap A[u] = {}
  BY <1>1, NobodySweeps DEF Pushing, Sweeping
<1>5. /\ n \notin L /\ n \notin free /\ \A u \in Threads : n \notin A[u]
      /\ \A u \in Threads : u # t /\ pc[u] \in Pushing => new[u] # n
  BY <1>0 DEF Good, Apart, Owned
<1>6. A[t] = {}
  BY NothingAhead DEF Good, Pushing, Sweeping
<1>7. Chains(L2, A)'
  <2>1. IsChain(next', NULL, first', L2)
    <3>1. IsChain(next, NULL, first, L) /\ n # NULL
      BY SlistConstants DEF Good, Chains
    <3> QED
      BY <1>1, <1>5, <3>1, PushOnChain
  <2>2. ASSUME NEW u \in Threads, u # t PROVE IsChain(next, NULL, Cursor(u), A[u])'
    BY <1>1, <1>2, <2>2, OtherChains DEF Good, Untouched
  <2>3. IsChain(next, NULL, Cursor(t), A[t])'
    BY <1>3, <1>6, EmptyChain DEF Cursor
  <2> QED
    BY <2>1, <2>2, <2>3 DEF Chains
<1>8. Locals(L2)'
  <2>1. ASSUME NEW u \in Threads, u # t PROVE Local(u, L2)'
    <3>1. pc[u] \notin Storing /\ (pc[u] \in Popping => entry[u] \in L2)
      BY <1>1, <2>1, StoresAlone DEF Good, Locals, Local
    <3> QED
      BY <1>1, <1>2, <2>1, <3>1, OtherLocals DEF Good
  <2>2. consumer_lock # t
    BY <1>1 DEF Good, Locals, Local
  <2>3. Local(t, L2)'
    BY <1>1, <1>3, <2>2 DEF Local, Pushing, Popping, Storing, Sweeping
  <2> QED
    BY <2>1, <2>3 DEF Locals
<1>9. Apart(L2, A)'
  <2>1. ASSUME NEW u \in Threads, u # t PROVE Owned(u, L2, A)'
    <3>1. A[u] \cap free = {} /\ (pc[u] \in Pushing => new[u] \notin free /\ new[u] \notin L2)
      BY <1>5, <2>1 DEF Good, Apart, Owned
    <3> QED
      BY <1>1, <1>2, <1>3, <1>4, <1>6, <2>1, <3>1, OtherOwned DEF Good, Pushing
  <2>2. Owned(t, L2, A)'
    BY <1>3, <1>6 DEF Owned, Sweeping, Pushing
  <2>3. L2 \cap free = {} /\ \A u \in Threads : L2 \cap A[u] = {}
    BY <1>4, <1>5
  <2> QED
    BY <1>1, <2>1, <2>2, <2>3 DEF Apart
<1>10. Everything(L2, A)'
  <2>1. \A m \in Nodes : /\ m \in free => m \in free'
                         /\ m \in L \/ (pc[t] \in Pushing /\ new[t] = m) => m \in L2
    BY <1>0, <1>1
  <2> HIDE DEF L2
  <2> QED
    BY <1>2, <2>1, StillEverything DEF Good
<1> QED
  BY <1>2, <1>7, <1>8, <1>9, <1>10 DEF SlistInv, Good

(* No other consumer runs, so what the popper read still comes next.        *)
LEMMA PoppedInv ==
    ASSUME TypeOK, Allowed(use),
           NEW L \in SUBSET Nodes, NEW A \in [Threads -> SUBSET Nodes], Good(L, A),
           NEW t \in Threads, pc[t] \in {"pop", "pop store"}, first = entry[t], Succeed(t, TRUE)
    PROVE  SlistInv'
<1>1. /\ t \in Users(use) /\ consumer_lock = t /\ new[t] = next[first] /\ first \in L
      /\ UNCHANGED <<use, next>> /\ first' = next[first]
      /\ free' = free \cup {first} /\ consumer_lock' = NULL
      /\ entry' = [entry EXCEPT ![t] = NULL] /\ pc' = [pc EXCEPT ![t] = "idle"]
      /\ new' = [new EXCEPT ![t] = NULL]
  BY DEF Succeed, Return, Good, Locals, Local, Popping
<1>2. PICK n \in Nodes : n = first
  BY <1>1
<1> DEFINE L2 == L \ {n}
<1>3. TypeOK' /\ Allowed(use)' /\ Others(t) /\ L2 \in SUBSET Nodes
  BY <1>1 DEF TypeOK, Allowed, ForOne, Others
<1>4. pc'[t] = "idle" /\ new'[t] = NULL /\ entry'[t] = NULL
  BY <1>1 DEF TypeOK
<1>5. /\ \A u \in Threads : pc[u] \notin Sweeping
      /\ L \cap free = {} /\ \A u \in Threads : L \cap A[u] = {}
  BY <1>1, NobodySweeps DEF Sweeping
<1>6. A[t] = {}
  BY NothingAhead DEF Good, Sweeping
<1>7. Chains(L2, A)'
  <2>1. IsChain(next', NULL, first', L2)
    <3>1. IsChain(next, NULL, first, L) /\ first # NULL
      BY <1>1, SlistConstants DEF Good, Chains
    <3> QED
      BY <1>2, <1>1, <3>1, PopOffChain
  <2>2. ASSUME NEW u \in Threads, u # t PROVE IsChain(next, NULL, Cursor(u), A[u])'
    BY <1>1, <1>3, <2>2, OtherChains DEF Good, Untouched
  <2>3. IsChain(next, NULL, Cursor(t), A[t])'
    BY <1>4, <1>6, EmptyChain DEF Cursor
  <2> QED
    BY <2>1, <2>2, <2>3 DEF Chains
<1>8. Locals(L2)'
  <2>1. ASSUME NEW u \in Threads, u # t PROVE Local(u, L2)'
    <3>1. pc[u] \notin Storing /\ pc[u] \notin Popping /\ consumer_lock # u /\ NULL # u
      BY <1>1, <2>1, StoresAlone, SlistConstants DEF Good, Locals, Local
    <3> QED
      BY <1>1, <1>3, <2>1, <3>1, OtherLocals DEF Good
  <2>2. NULL # t
    BY SlistConstants
  <2>3. Local(t, L2)'
    BY <1>1, <1>4, <2>2 DEF Local, Pushing, Popping, Storing, Sweeping
  <2> QED
    BY <2>1, <2>3 DEF Locals
<1>9. Apart(L2, A)'
  <2>1. ASSUME NEW u \in Threads, u # t PROVE Owned(u, L2, A)'
    <3>1. A[u] \cap free = {} /\ (pc[u] \in Pushing => new[u] \notin free /\ new[u] \notin L)
      BY DEF Good, Apart, Owned
    <3>2. A[u] \cap free' = {} /\ (pc[u] \in Pushing => new[u] \notin free' /\ new[u] \notin L2)
      BY <1>1, <1>5, <3>1
    <3> QED
      BY <1>3, <1>4, <1>5, <1>6, <2>1, <3>2, OtherOwned DEF Good, Pushing
  <2>2. Owned(t, L2, A)'
    BY <1>4, <1>6 DEF Owned, Sweeping, Pushing
  <2>3. L2 \cap free' = {} /\ \A u \in Threads : L2 \cap A[u] = {}
    BY <1>2, <1>1, <1>5
  <2> QED
    BY <2>1, <2>2, <2>3 DEF Apart
<1>10. Everything(L2, A)'
  <2>1. /\ pc[t] \notin Pushing
        /\ \A m \in Nodes : m \in free \/ m \in L => m \in free' \/ m \in L2
    BY <1>2, <1>1 DEF Pushing
  <2>2. Everything(L, A) /\ Others(t)
    BY <1>3 DEF Good
  <2> HIDE DEF L2
  <2> QED
    BY <2>1, <2>2, StillElsewhere, Zenon
<1> QED
  BY <1>3, <1>7, <1>8, <1>9, <1>10 DEF SlistInv, Good

----------------------------------------------------------------------------
(* slist_del_all and the traversals.                                        *)

(* t takes D, of which the first node is the next one it visits.            *)
LEMMA ChainsOf ==
    ASSUME NEW L \in SUBSET Nodes, NEW A \in [Threads -> SUBSET Nodes], Chains(L, A),
           NEW t \in Threads, Others(t), next' = next,
           NEW L2, IsChain(next, NULL, first, L2)',
           NEW D, IsChain(next, NULL, Cursor(t), D)'
    PROVE  Chains(L2, [A EXCEPT ![t] = D])'
<1> DEFINE A2 == [A EXCEPT ![t] = D]
<1>1. ASSUME NEW u \in Threads, u # t PROVE IsChain(next, NULL, Cursor(u), A2[u])'
  BY <1>1, OtherChains DEF Untouched
<1>2. A2[t] = D
  OBVIOUS
<1> HIDE DEF A2
<1>3. Chains(L2, A2)'
  BY <1>1, <1>2 DEF Chains
<1> QED
  BY <1>3 DEF A2

LEMMA DelAllInv ==
    ASSUME TypeOK, Allowed(use),
           NEW L \in SUBSET Nodes, NEW A \in [Threads -> SUBSET Nodes], Good(L, A),
           NEW t \in Threads, slist_del_all(t)
    PROVE  SlistInv'
<1> DEFINE A2 == [A EXCEPT ![t] = L]
<1>1. /\ pc[t] = "idle" /\ t \in Users(use) /\ consumer_lock = NULL /\ first # NULL
      /\ UNCHANGED <<use, next, free, consumer_lock, new>> /\ first' = NULL
      /\ entry' = [entry EXCEPT ![t] = first] /\ pc' = [pc EXCEPT ![t] = "visit"]
  BY DEF slist_del_all, Users
<1>2. TypeOK' /\ Allowed(use)' /\ Others(t)
  BY <1>1 DEF TypeOK, Allowed, ForOne, Others
<1>3. pc'[t] = "visit" /\ entry'[t] = first
  BY <1>1 DEF TypeOK
<1>4. /\ \A u \in Threads : pc[u] \notin Sweeping
      /\ L \cap free = {} /\ \A u \in Threads : L \cap A[u] = {}
  BY <1>1, NobodySweeps DEF Sweeping
<1>5. A[t] = {}
  BY <1>1, NothingAhead DEF Good, Sweeping
<1>6. /\ A2 \in [Threads -> SUBSET Nodes] /\ A2[t] = L
      /\ \A u \in Threads : u # t => A2[u] = A[u]
  OBVIOUS
<1>7. Chains({}, A2)'
  <2>1. IsChain(next, NULL, Cursor(t), L)'
    BY <1>1, <1>3 DEF Good, Chains, Cursor
  <2>2. IsChain(next, NULL, first, {})'
    BY <1>1, EmptyChain
  <2> QED
    BY <1>1, <1>2, <2>1, <2>2, ChainsOf DEF Good
<1> HIDE DEF A2
<1>8. Locals({})'
  <2>1. ASSUME NEW u \in Threads PROVE pc[u] \notin Popping
    BY <1>1, SlistConstants DEF Good, Locals, Local
  <2>2. ASSUME NEW u \in Threads, u # t PROVE Local(u, {})'
    BY <1>1, <1>2, <2>1, <2>2, StoresAlone, OtherLocals DEF Good
  <2>3. Local(t, {})'
    BY <1>1, <1>3, SlistConstants DEF Local, Pushing, Popping, Storing, Sweeping, Users
  <2> QED
    BY <2>2, <2>3 DEF Locals
<1>9. Apart({}, A2)'
  <2>1. ASSUME NEW u \in Threads, u # t PROVE Owned(u, {}, A2)'
    <3>1. A[u] \cap free = {} /\ (pc[u] \in Pushing => new[u] \notin free /\ new[u] \notin L)
      BY DEF Good, Apart, Owned
    <3>2. A[u] \cap free' = {} /\ A[u] \cap A2[t] = {} /\ pc'[t] \notin Pushing
      BY <1>1, <1>3, <1>4, <1>6, <3>1 DEF Pushing
    <3>3. pc[u] \in Pushing => new[u] \notin free' /\ new[u] \notin {} /\ new[u] \notin A2[t]
      BY <1>1, <1>6, <3>1
    <3> QED
      BY <1>2, <1>4, <1>6, <2>1, <3>2, <3>3, OtherOwned DEF Good
  <2>2. Owned(t, {}, A2)'
    BY <1>1, <1>3, <1>4, <1>6 DEF Owned, Sweeping, Pushing
  <2> QED
    BY <2>1, <2>2 DEF Apart
<1>10. Everything({}, A2)'
  <2>1. pc[t] \notin Pushing
    BY <1>1 DEF Pushing
  <2> QED
    BY <1>1, <1>2, <1>5, <1>6, <2>1, StillEverything DEF Good
<1> QED
  BY <1>2, <1>6, <1>7, <1>8, <1>9, <1>10 DEF SlistInv, Good

LEMMA ForEachInv ==
    ASSUME TypeOK, Allowed(use),
           NEW L \in SUBSET Nodes, NEW A \in [Threads -> SUBSET Nodes], Good(L, A),
           NEW t \in Threads, slist_for_each(t)
    PROVE  SlistInv'
<1>0. PICK n \in Nodes : n = entry[t]
  BY DEF slist_for_each, TypeOK
<1> DEFINE A2 == [A EXCEPT ![t] = A[t] \ {n}]
<1>1. /\ pc[t] = "visit" /\ t \in Users(use) /\ t # consumer_lock
      /\ UNCHANGED <<use, first, next, consumer_lock>> /\ free' = free \cup {n}
  BY <1>0 DEF slist_for_each, Good, Locals, Local, Popping
<1>2. IF next[n] = NULL
        THEN /\ pc' = [pc EXCEPT ![t] = "idle"] /\ entry' = [entry EXCEPT ![t] = NULL]
             /\ new' = [new EXCEPT ![t] = NULL]
        ELSE pc' = pc /\ entry' = [entry EXCEPT ![t] = next[n]] /\ new' = new
  BY <1>0 DEF slist_for_each, Return
<1>3. TypeOK' /\ Allowed(use)' /\ Others(t)
  BY <1>1, <1>2 DEF TypeOK, Allowed, ForOne, Others
<1>4. pc'[t] \in {"idle", "visit"} /\ Cursor(t)' = next[n]
  BY <1>1, <1>2 DEF TypeOK, Cursor
<1>5. /\ \A u \in Threads : pc[u] \notin Sweeping
      /\ L \cap free = {} /\ \A u \in Threads : L \cap A[u] = {}
  BY <1>1, NobodySweeps DEF Sweeping
<1>6. n \in A[t] /\ IsChain(next, NULL, next[n], A[t] \ {n})
  <2>1. Cursor(t) = n /\ n # NULL
    BY <1>0, <1>1, SlistConstants DEF Cursor
  <2> QED
    BY <2>1, PopOffChain DEF Good, Chains
<1>7. /\ A2 \in [Threads -> SUBSET Nodes] /\ A2[t] = A[t] \ {n}
      /\ \A u \in Threads : u # t => A2[u] = A[u]
  OBVIOUS
<1>8. Chains(L, A2)'
  <2>1. IsChain(next, NULL, Cursor(t), A[t] \ {n})'
    BY <1>1, <1>4, <1>6
  <2>2. IsChain(next, NULL, first, L)'
    BY <1>1 DEF Good, Chains
  <2> QED
    BY <1>1, <1>3, <2>1, <2>2, ChainsOf DEF Good
<1> HIDE DEF A2
<1>9. Locals(L)'
  <2>1. ASSUME NEW u \in Threads, u # t PROVE Local(u, L)'
    <3>1. pc[u] \in Popping => entry[u] \in L
      BY DEF Good, Locals, Local
    <3> QED
      BY <1>1, <1>3, <2>1, <3>1, OtherLocals DEF Good
  <2>2. Local(t, L)'
    BY <1>1, <1>4 DEF Local, Pushing, Popping, Storing, Sweeping
  <2> QED
    BY <2>1, <2>2 DEF Locals
<1>10. Apart(L, A2)'
  <2>1. ASSUME NEW u \in Threads, u # t PROVE Owned(u, L, A2)'
    <3>1. /\ A[u] \cap free = {} /\ A[u] \cap A[t] = {}
          /\ pc[u] \in Pushing => new[u] \notin free /\ new[u] \notin L /\ new[u] \notin A[t]
      BY <2>1 DEF Good, Apart, Owned
    <3>2. /\ A[u] \cap free' = {} /\ A[u] \cap A2[t] = {}
          /\ pc[u] \in Pushing => new[u] \notin free' /\ new[u] \notin L /\ new[u] \notin A2[t]
      BY <1>1, <1>6, <1>7, <3>1
    <3> QED
      <4>1. Apart(L, A) /\ pc'[t] \notin Pushing /\ pc[u] \notin Sweeping
        BY <1>4, <1>5 DEF Good, Pushing
      <4> QED
        BY <1>3, <1>7, <2>1, <3>2, <4>1, OtherOwned
  <2>2. Owned(t, L, A2)'
    <3>1. A[t] \cap free = {} /\ \A u \in Threads : u # t => A[t] \cap A[u] = {}
      BY DEF Good, Apart, Owned
    <3> QED
      BY <1>1, <1>4, <1>7, <3>1 DEF Owned, Sweeping, Pushing
  <2>3. L \cap free' = {} /\ \A u \in Threads : L \cap A2[u] = {}
    BY <1>1, <1>5, <1>6, <1>7
  <2> QED
    BY <1>1, <2>1, <2>2, <2>3 DEF Apart
<1>11. Everything(L, A2)'
  <2>1. /\ pc[t] \notin Pushing
        /\ \A m \in Nodes : m \in free \/ m \in A[t] => m \in free' \/ m \in A2[t]
    BY <1>1, <1>7 DEF Pushing
  <2> QED
    BY <1>3, <1>7, <2>1, StillEverything DEF Good
<1> QED
  BY <1>3, <1>7, <1>8, <1>9, <1>10, <1>11 DEF SlistInv, Good

LEMMA ForEachSafeInv ==
    ASSUME TypeOK, Allowed(use),
           NEW L \in SUBSET Nodes, NEW A \in [Threads -> SUBSET Nodes], Good(L, A),
           NEW t \in Threads, slist_for_each_safe(t)
    PROVE  SlistInv'
<1> DEFINE A2 == [A EXCEPT ![t] = L]
<1>1. /\ pc[t] = "idle" /\ t \in use.sweepers /\ t \in Users(use) /\ first # NULL
      /\ UNCHANGED <<use, first, next, free, consumer_lock, new>>
      /\ entry' = [entry EXCEPT ![t] = first] /\ pc' = [pc EXCEPT ![t] = "sweep"]
  BY DEF slist_for_each_safe, Users
<1>2. TypeOK' /\ Allowed(use)' /\ Others(t)
  BY <1>1 DEF TypeOK, Allowed, ForOne, Others
<1>3. pc'[t] = "sweep" /\ entry'[t] = first
  BY <1>1 DEF TypeOK
<1>4. /\ \A u \in Threads : pc[u] \notin Sweeping
      /\ L \cap free = {} /\ \A u \in Threads : L \cap A[u] = {}
  BY <1>1, NobodySweeps DEF Sweeping
<1>5. A[t] = {}
  BY <1>1, NothingAhead DEF Good, Sweeping
<1>6. /\ A2 \in [Threads -> SUBSET Nodes] /\ A2[t] = L
      /\ \A u \in Threads : u # t => A2[u] = A[u]
  OBVIOUS
<1>7. Chains(L, A2)'
  <2>1. IsChain(next, NULL, Cursor(t), L)' /\ IsChain(next, NULL, first, L)'
    BY <1>1, <1>3 DEF Good, Chains, Cursor
  <2> QED
    BY <1>1, <1>2, <2>1, ChainsOf DEF Good
<1> HIDE DEF A2
<1>8. Locals(L)'
  <2>1. ASSUME NEW u \in Threads, u # t PROVE Local(u, L)'
    <3>1. pc[u] \in Popping => entry[u] \in L
      BY DEF Good, Locals, Local
    <3> QED
      BY <1>1, <1>2, <2>1, <3>1, OtherLocals DEF Good
  <2>2. consumer_lock # t
    BY <1>1 DEF Good, Locals, Local, Popping
  <2>3. Local(t, L)'
    BY <1>1, <1>3, <2>2 DEF Local, Pushing, Popping, Storing, Sweeping, Users
  <2> QED
    BY <2>1, <2>3 DEF Locals
<1>9. Apart(L, A2)'
  <2>1. ASSUME NEW u \in Threads, u # t PROVE Owned(u, L, A2)'
    <3>1. A[u] \cap free = {} /\ (pc[u] \in Pushing => new[u] \notin free /\ new[u] \notin L)
      BY DEF Good, Apart, Owned
    <3>2. A[u] \cap free' = {} /\ A[u] \cap A2[t] = {} /\ pc'[t] \notin Pushing
      BY <1>1, <1>3, <1>4, <1>6, <3>1 DEF Pushing
    <3>3. pc[u] \in Pushing => new[u] \notin free' /\ new[u] \notin L /\ new[u] \notin A2[t]
      BY <1>1, <1>6, <3>1
    <3> QED
      BY <1>2, <1>4, <1>6, <2>1, <3>2, <3>3, OtherOwned DEF Good
  <2>2. Owned(t, L, A2)'
    BY <1>1, <1>3, <1>4, <1>6 DEF Owned, Sweeping, Pushing
  <2> QED
    BY <1>3, <2>1, <2>2 DEF Apart, Sweeping
<1>10. Everything(L, A2)'
  <2>1. pc[t] \notin Pushing
    BY <1>1 DEF Pushing
  <2> QED
    BY <1>1, <1>2, <1>5, <1>6, <2>1, StillEverything DEF Good
<1> QED
  BY <1>2, <1>6, <1>7, <1>8, <1>9, <1>10 DEF SlistInv, Good

(* Whoever sweeps does so alone.                                            *)
LEMMA SweepsAlone ==
    ASSUME Allowed(use), NEW L, Locals(L), NEW t \in Threads, pc[t] \in Sweeping,
           NEW u \in Threads, u # t
    PROVE  pc[u] = "idle" /\ consumer_lock # u
<1>1. use.sweepers # {} /\ t \in Users(use)
  BY DEF Locals, Local, Sweeping
<1>2. u \notin Users(use)
  BY <1>1 DEF Allowed, ForOne
<1> QED
  BY <1>2 DEF Locals, Local, Popping

LEMMA SweepInv ==
    ASSUME TypeOK, Allowed(use),
           NEW L \in SUBSET Nodes, NEW A \in [Threads -> SUBSET Nodes], Good(L, A),
           NEW t \in Threads, Sweep(t)
    PROVE  SlistInv'
<1>0. PICK n \in Nodes : n = entry[t]
  BY DEF Sweep, TypeOK
<1> DEFINE A2 == [A EXCEPT ![t] = A[t] \ {n}]
<1>1. /\ pc[t] = "sweep" /\ Local(t, L)
      /\ UNCHANGED <<use, first, next, consumer_lock, entry>> /\ free' = free \cup {n}
      /\ new' = [new EXCEPT ![t] = next[n]] /\ pc' = [pc EXCEPT ![t] = "drop"]
  BY <1>0 DEF Sweep, Good, Locals
<1>2. TypeOK' /\ Allowed(use)' /\ Others(t)
  BY <1>1 DEF TypeOK, Allowed, ForOne, Others
<1>3. pc'[t] = "drop" /\ new'[t] = next[n] /\ Cursor(t)' = next[n]
  BY <1>1 DEF TypeOK, Cursor
<1>4. \A u \in Threads : u # t => pc[u] = "idle" /\ consumer_lock # u
  BY <1>1, SweepsAlone DEF Good, Sweeping
<1>5. n \in A[t] /\ IsChain(next, NULL, next[n], A[t] \ {n})
  <2>1. Cursor(t) = n /\ n # NULL
    BY <1>0, <1>1, SlistConstants DEF Cursor
  <2> QED
    BY <2>1, PopOffChain DEF Good, Chains
<1>6. /\ A2 \in [Threads -> SUBSET Nodes] /\ A2[t] = A[t] \ {n}
      /\ \A u \in Threads : u # t => A2[u] = A[u]
  OBVIOUS
<1>7. Chains(L, A2)'
  <2>1. IsChain(next, NULL, Cursor(t), A[t] \ {n})' /\ IsChain(next, NULL, first, L)'
    BY <1>1, <1>3, <1>5 DEF Good, Chains
  <2> QED
    BY <1>1, <1>2, <2>1, ChainsOf DEF Good
<1> HIDE DEF A2
<1>8. Locals(L)'
  <2>1. ASSUME NEW u \in Threads, u # t PROVE Local(u, L)'
    <3>1. pc[u] \notin Pushing \cup Popping \cup Storing
      BY <1>4, <2>1 DEF Pushing, Popping, Storing
    <3> QED
      BY <1>1, <1>2, <2>1, <3>1, OtherLocals DEF Good
  <2>2. Local(t, L)'
    BY <1>1, <1>3 DEF Local, Pushing, Popping, Storing, Sweeping
  <2> QED
    BY <2>1, <2>2 DEF Locals
<1>9. Apart(L, A2)'
  <2>1. ASSUME NEW u \in Threads, u # t PROVE Owned(u, L, A2)'
    <3>1. pc[u] \notin Pushing \cup Sweeping
      BY <1>4, <2>1 DEF Pushing, Sweeping
    <3>2. A[u] \cap free' = {} /\ A[u] \cap A2[t] = {}
      BY <1>1, <1>5, <1>6, <2>1 DEF Good, Apart, Owned
    <3> QED
      BY <1>2, <1>6, <2>1, <3>1, <3>2, OtherOwned DEF Good
  <2>2. Owned(t, L, A2)'
    <3>1. /\ A[t] \cap free = {} /\ \A u \in Threads : u # t => A[t] \cap A[u] = {}
          /\ L \subseteq A[t] \cup free
      BY <1>1 DEF Good, Apart, Owned, Sweeping
    <3>2. A2[t] \cap free' = {} /\ L \subseteq A2[t] \cup free'
      BY <1>1, <1>6, <3>1
    <3> QED
      BY <1>3, <1>6, <3>1, <3>2 DEF Owned, Pushing
  <2> QED
    BY <1>3, <2>1, <2>2 DEF Apart, Sweeping
<1>10. Everything(L, A2)'
  <2>1. /\ pc[t] \notin Pushing
        /\ \A m \in Nodes : m \in free \/ m \in A[t] => m \in free' \/ m \in A2[t]
    BY <1>1, <1>6 DEF Pushing
  <2> QED
    BY <1>2, <1>6, <2>1, StillEverything DEF Good
<1> QED
  BY <1>2, <1>6, <1>7, <1>8, <1>9, <1>10 DEF SlistInv, Good

LEMMA DropInv ==
    ASSUME TypeOK, Allowed(use),
           NEW L \in SUBSET Nodes, NEW A \in [Threads -> SUBSET Nodes], Good(L, A),
           NEW t \in Threads, Drop(t)
    PROVE  SlistInv'
<1>1. /\ pc[t] = "drop" /\ Local(t, L)
      /\ UNCHANGED <<use, next, free, consumer_lock>> /\ first' = NULL
  BY DEF Drop, Good, Locals
<1>2. IF new[t] = NULL
        THEN /\ pc' = [pc EXCEPT ![t] = "idle"] /\ entry' = [entry EXCEPT ![t] = NULL]
             /\ new' = [new EXCEPT ![t] = NULL]
        ELSE /\ pc' = [pc EXCEPT ![t] = "sweep"] /\ entry' = [entry EXCEPT ![t] = new[t]]
             /\ new' = [new EXCEPT ![t] = NULL]
  BY DEF Drop, Return
<1>3. TypeOK' /\ Allowed(use)' /\ Others(t)
  <2>1. TypeOK'
    BY <1>1, <1>2 DEF TypeOK
  <2>2. Allowed(use)'
    BY <1>1 DEF Allowed, ForOne
  <2>3. Others(t)
    BY <1>1, <1>2 DEF TypeOK, Others
  <2> QED
    BY <2>1, <2>2, <2>3
<1>4. pc'[t] \in {"idle", "sweep"} /\ Cursor(t)' = Cursor(t)
  BY <1>1, <1>2 DEF TypeOK, Cursor
<1>5. \A u \in Threads : u # t => pc[u] = "idle" /\ consumer_lock # u
  BY <1>1, SweepsAlone DEF Good, Sweeping
<1>6. L \subseteq A[t] \cup free
  BY <1>1 DEF Good, Apart, Owned, Sweeping
<1>7. Chains({}, A)'
  <2>1. \A u \in Threads : Cursor(u)' = Cursor(u)
    BY <1>3, <1>4 DEF Others, Cursor
  <2>2. IsChain(next, NULL, first, {})'
    BY <1>1, EmptyChain
  <2> QED
    BY <1>1, <2>1, <2>2 DEF Good, Chains
<1>8. Locals({})'
  <2>1. ASSUME NEW u \in Threads, u # t PROVE Local(u, {})'
    <3>1. pc[u] \notin Pushing \cup Popping \cup Storing
      BY <1>5, <2>1 DEF Pushing, Popping, Storing
    <3> QED
      BY <1>1, <1>3, <2>1, <3>1, OtherLocals DEF Good
  <2>2. Local(t, {})'
    BY <1>1, <1>4 DEF Local, Pushing, Popping, Storing, Sweeping
  <2> QED
    BY <2>1, <2>2 DEF Locals
<1>9. Apart({}, A)'
  <2>1. ASSUME NEW u \in Threads, u # t PROVE Owned(u, {}, A)'
    <3>1. pc[u] \notin Pushing \cup Sweeping
      BY <1>5, <2>1 DEF Pushing, Sweeping
    <3>2. A[u] \cap free' = {} /\ A[u] \cap A[t] = {}
      BY <1>1, <2>1 DEF Good, Apart, Owned
    <3> QED
      BY <1>3, <2>1, <3>1, <3>2, OtherOwned DEF Good
  <2>2. Owned(t, {}, A)'
    BY <1>1, <1>4 DEF Good, Apart, Owned, Pushing
  <2> QED
    BY <2>1, <2>2 DEF Apart
<1>10. Everything({}, A)'
  <2>1. pc[t] \notin Pushing
    BY <1>1 DEF Pushing
  <2> QED
    BY <1>1, <1>3, <1>6, <2>1, StillEverything DEF Good
<1> QED
  BY <1>3, <1>7, <1>8, <1>9, <1>10 DEF SlistInv, Good

----------------------------------------------------------------------------
(* The invariant.                                                           *)

(* What the two forms of the exchange do, and find.                         *)
LEMMA ExchangeInv ==
    ASSUME TypeOK, Allowed(use),
           NEW L \in SUBSET Nodes, NEW A \in [Threads -> SUBSET Nodes], Good(L, A),
           NEW t \in Threads, cmpxchg(t) \/ Compare(t) \/ Store(t)
    PROVE  SlistInv'
<1>1. CASE cmpxchg(t)
  <2>1. CASE first = entry[t] /\ pc[t] = "add"
    <3>1. Succeed(t, FALSE)
      BY <1>1, <2>1 DEF cmpxchg, Succeed
    <3> QED
      BY <2>1, <3>1, PushedInv DEF Pushing
  <2>2. CASE first = entry[t] /\ pc[t] = "pop"
    <3>1. Succeed(t, TRUE)
      BY <1>1, <2>2 DEF cmpxchg, Succeed
    <3> QED
      BY <2>2, <3>1, PoppedInv
  <2>3. CASE first # entry[t] /\ pc[t] = "add"
    BY <1>1, <2>3, PushAgainInv DEF cmpxchg
  <2>4. CASE first # entry[t] /\ pc[t] = "pop"
    BY <1>1, <2>4, PopAgainInv DEF cmpxchg
  <2> QED
    BY <1>1, <2>1, <2>2, <2>3, <2>4 DEF cmpxchg
<1>2. CASE Compare(t)
  <2>1. CASE first = entry[t]
    <3>1. /\ ~use.atomic /\ pc[t] \in {"add", "pop"}
          /\ Goto(t, IF pc[t] = "add" THEN "add store" ELSE "pop store")
          /\ UNCHANGED <<use, first, next, free, consumer_lock, entry, new>>
      BY <1>2, <2>1 DEF Compare
    <3> QED
      BY <2>1, <3>1, ComparedInv
  <2>2. CASE first # entry[t] /\ pc[t] = "add"
    BY <1>2, <2>2, PushAgainInv DEF Compare
  <2>3. CASE first # entry[t] /\ pc[t] = "pop"
    BY <1>2, <2>3, PopAgainInv DEF Compare
  <2> QED
    BY <1>2, <2>1, <2>2, <2>3 DEF Compare
<1>3. CASE Store(t)
  <2>1. first = entry[t]
    BY <1>3 DEF Store, Good, Locals, Local, Storing
  <2>2. CASE pc[t] = "add store"
    <3>1. Succeed(t, FALSE)
      BY <1>3, <2>2 DEF Store, Succeed
    <3> QED
      BY <2>1, <2>2, <3>1, PushedInv DEF Pushing
  <2>3. CASE pc[t] = "pop store"
    <3>1. Succeed(t, TRUE)
      BY <1>3, <2>3 DEF Store, Succeed
    <3> QED
      BY <2>1, <2>3, <3>1, PoppedInv
  <2> QED
    BY <1>3, <2>2, <2>3 DEF Store
<1> QED
  BY <1>1, <1>2, <1>3

LEMMA StepSlistInv == SlistInv /\ [Next]_vars => SlistInv'
<1> SUFFICES ASSUME SlistInv, [Next]_vars PROVE SlistInv'
  OBVIOUS
<1>1. TypeOK /\ Allowed(use)
  BY DEF SlistInv
<1>2. PICK L \in SUBSET Nodes : \E A \in [Threads -> SUBSET Nodes] : Good(L, A)
  BY DEF SlistInv
<1>3. PICK A \in [Threads -> SUBSET Nodes] : Good(L, A)
  BY <1>2
<1>4. ASSUME NEW t \in Threads, Call(t) PROVE SlistInv'
  <2>1. CASE \E n \in Nodes : slist_add(t, n)
    BY <1>1, <1>3, <2>1, AddInv
  <2>2. CASE slist_remove_head(t)
    BY <1>1, <1>3, <2>2, RemoveHeadInv
  <2>3. CASE slist_del_all(t)
    BY <1>1, <1>3, <2>3, DelAllInv
  <2>4. CASE slist_for_each_safe(t)
    BY <1>1, <1>3, <2>4, ForEachSafeInv
  <2> QED
    BY <1>4, <2>1, <2>2, <2>3, <2>4 DEF Call
<1>5. ASSUME NEW t \in Threads, Step(t) PROVE SlistInv'
  <2>1. CASE Load(t)
    BY <1>1, <1>3, <2>1, LoadInv
  <2>2. CASE cmpxchg(t) \/ Compare(t) \/ Store(t)
    BY <1>1, <1>3, <2>2, ExchangeInv
  <2>3. CASE slist_for_each(t)
    BY <1>1, <1>3, <2>3, ForEachInv
  <2>4. CASE Sweep(t)
    BY <1>1, <1>3, <2>4, SweepInv
  <2>5. CASE Drop(t)
    BY <1>1, <1>3, <2>5, DropInv
  <2> QED
    BY <1>5, <2>1, <2>2, <2>3, <2>4, <2>5 DEF Step
<1>6. ASSUME UNCHANGED vars PROVE SlistInv'
  <2>1. TypeOK' /\ Allowed(use)'
    BY <1>1, <1>6 DEF vars, TypeOK, Allowed, ForOne
  <2>2. Good(L, A)'
    BY <1>3, <1>6 DEF vars, Good, Chains, Cursor, Locals, Local, Apart, Owned, Everything
  <2> QED
    BY <2>1, <2>2 DEF SlistInv
<1> QED
  BY <1>4, <1>5, <1>6 DEF Next

LEMMA SlistInvariant ==
    ASSUME \A u \in Uses : Allowed(u)
    PROVE  Spec => []SlistInv
<1>1. Init => SlistInv
  BY InitSlistInv
<1>2. SlistInv /\ [Next]_vars => SlistInv'
  BY StepSlistInv
<1> QED
  BY <1>1, <1>2, PTL DEF Spec

LEMMA AddingNodes ==
    ASSUME NEW n, n \in Adding
    PROVE  \E t \in Threads : pc[t] \in Pushing /\ new[t] = n
BY DEF Adding, Pushing

(* Whatever threads push, pop and take away at once, every node is free, in *)
(* somebody's hand, on the list or ahead of a traversal.                    *)
THEOREM SlistLosesNothing ==
    ASSUME \A u \in Uses : Allowed(u)
    PROVE  Spec => []NothingLost
<1>1. ASSUME SlistInv PROVE NothingLost
  <2>1. PICK L \in SUBSET Nodes : \E A \in [Threads -> SUBSET Nodes] : Good(L, A)
    BY <1>1 DEF SlistInv
  <2>2. PICK A \in [Threads -> SUBSET Nodes] : Good(L, A)
    BY <2>1
  <2>3. TypeOK /\ OnList = L /\ \A t \in Threads : Ahead(t) = A[t]
    BY <1>1, <2>2, OnListAndAhead DEF SlistInv
  <2>4. ASSUME NEW n \in Nodes
        PROVE  n \in free \cup Adding \cup OnList \cup UNION {Ahead(t) : t \in Threads}
    BY <2>2, <2>3 DEF Good, Everything, Pushing, Adding
  <2>5. ASSUME NEW n \in free \cup Adding \cup OnList \cup UNION {Ahead(t) : t \in Threads}
        PROVE  n \in Nodes
    <3>1. CASE n \in Adding
      <4>1. PICK t \in Threads : pc[t] \in Pushing /\ new[t] = n
        BY <3>1, AddingNodes
      <4>2. Local(t, L)
        BY <2>2 DEF Good, Locals
      <4> QED
        BY <4>1, <4>2 DEF Local
    <3>2. CASE n \in free \/ n \in L
      BY <2>3, <3>2 DEF TypeOK
    <3>3. CASE \E t \in Threads : n \in A[t]
      BY <3>3
    <3> QED
      BY <2>3, <2>5, <3>1, <3>2, <3>3
  <2> QED
    BY <2>4, <2>5 DEF NothingLost
<1> QED
  BY <1>1, SlistInvariant, PTL

(* Nobody uses a node that is another's; and the popper's node, read some   *)
(* time ago, is on the list whenever its next is read, and followed by what *)
(* the exchange stores whenever that succeeds: no other consumer runs.      *)
THEOREM SlistNodesSafe ==
    ASSUME \A u \in Uses : Allowed(u)
    PROVE  Spec => []NodesSafe
<1>1. ASSUME SlistInv PROVE NodesSafe
  <2>1. PICK L \in SUBSET Nodes : \E A \in [Threads -> SUBSET Nodes] : Good(L, A)
    BY <1>1 DEF SlistInv
  <2>2. PICK A \in [Threads -> SUBSET Nodes] : Good(L, A)
    BY <2>1
  <2>3. TypeOK /\ OnList = L /\ \A t \in Threads : Ahead(t) = A[t]
    BY <1>1, <2>2, OnListAndAhead DEF SlistInv
  <2>4. OneOwner
    <3> SUFFICES ASSUME use.sweepers = {} PROVE
                 /\ free \cap OnList = {} /\ free \cap Adding = {} /\ Adding \cap OnList = {}
                 /\ \A t \in Threads : Ahead(t) \cap (free \cup Adding \cup OnList) = {}
                 /\ \A t, u \in Threads : t # u => Ahead(t) \cap Ahead(u) = {}
                 /\ \A t, u \in Threads : pc[t] = "add" /\ pc[u] = "add" /\ new[t] = new[u] => t = u
      BY DEF OneOwner
    <3>1. L \cap free = {} /\ \A t \in Threads : L \cap A[t] = {}
      BY <2>2 DEF Good, Locals, Local, Apart
    <3>2. \A n \in Adding : n \notin free /\ n \notin L /\ \A u \in Threads : n \notin A[u]
      BY <2>2, AddingNodes DEF Good, Apart, Owned
    <3>3. ASSUME NEW t \in Threads PROVE A[t] \cap free = {} /\ A[t] \cap L = {}
      BY <2>2, <3>1 DEF Good, Apart, Owned
    <3>4. \A t, u \in Threads : t # u => A[t] \cap A[u] = {}
      BY <2>2 DEF Good, Apart, Owned
    <3>5. \A t, u \in Threads : pc[t] = "add" /\ pc[u] = "add" /\ new[t] = new[u] => t = u
      BY <2>2 DEF Good, Apart, Owned, Pushing
    <3> QED
      BY <2>3, <3>1, <3>2, <3>3, <3>4, <3>5
  <2>5. ASSUME NEW t \in Threads
        PROVE  /\ pc[t] = "load" => entry[t] \in OnList
               /\ pc[t] = "pop" /\ first = entry[t] => new[t] = next[first]
    BY <2>2, <2>3 DEF Good, Locals, Local, Popping
  <2> QED
    BY <2>3, <2>4, <2>5 DEF NodesSafe
<1> QED
  BY <1>1, SlistInvariant, PTL

----------------------------------------------------------------------------
(* The stack.                                                               *)

Listing(m, s) == [k \in 1..m |-> s[k - 1]]

(* Contents lists the nodes of the chain.                                   *)
ContentsFound ==
    \A D \in SUBSET Nodes : \A m \in Nat : \A s :
        InLine(next, NULL, first, D, m, s) => Contents = Listing(m, s)

LEMMA ContentsOfLine == NextType /\ first \in NodeOrNull => ContentsFound
<1> SUFFICES ASSUME NextType, first \in NodeOrNull,
                    NEW D \in SUBSET Nodes, NEW m \in Nat, NEW s,
                    InLine(next, NULL, first, D, m, s)
             PROVE  Contents = Listing(m, s)
  BY DEF ContentsFound
<1>1. IsChain(next, NULL, first, D) /\ NULL \notin D
  <2>1. NULL \notin D
    BY NodeCount
  <2>2. s \in [0..m -> D \cup {NULL}]
    BY DEF InLine
  <2> QED
    BY <2>1, <2>2 DEF IsChain
<1>2. OnList = D
  BY <1>1, FromChain DEF ChainsFound, OnList
<1>3. m = Cardinality(D)
  BY NodeCount, ChainSize
<1>4. m <= C
  BY NodeCount, ChainSize DEF C
<1> DEFINE walk == [k \in Turns |-> After[k][first]]
<1>5. Walks(walk, next, NULL, first, C)
  BY AfterWalks DEF WalksAfter
<1>6. \A k \in Turns : walk[k] = After[k][first]
  OBVIOUS
<1> HIDE DEF walk
<1>7. \A k \in 0..C : walk[k] = IF k <= m THEN s[k] ELSE NULL
  <2>1. C \in Nat
    BY NodeCount
  <2> QED
    BY <1>1, <1>5, <1>4, <2>1, WalkLine
<1>8. \A k \in 1..m : After[k - 1][first] = s[k - 1]
  <2> SUFFICES ASSUME NEW k \in 1..m PROVE After[k - 1][first] = s[k - 1]
    OBVIOUS
  <2>1. k - 1 \in 0..C /\ k - 1 <= m
    BY <1>4, NodeCount
  <2> QED
    BY <1>6, <1>7, <2>1, NodeCount
<1> QED
  BY <1>2, <1>3, <1>8 DEF Contents, Listing

LEMMA ContentsOfNextLine == (NextType /\ first \in NodeOrNull)' => ContentsFound'
BY ContentsOfLine, PTL

(* Where first stays, and the pointers of the list, so does the stack.      *)
LEMMA SameContents ==
    ASSUME TypeOK, TypeOK', NEW L \in SUBSET Nodes, IsChain(next, NULL, first, L),
           first' = first, Untouched(L)
    PROVE  Contents' = Contents
<1>1. PICK m \in Nat : \E s \in [0..m -> L \cup {NULL}] : InLine(next, NULL, first, L, m, s)
  BY DEF IsChain
<1>2. PICK s \in [0..m -> L \cup {NULL}] : InLine(next, NULL, first, L, m, s)
  BY <1>1
<1>3. InLine(next', NULL, first', L, m, s)
  BY <1>2, LineElsewhere DEF Untouched
<1>4. ContentsFound /\ ContentsFound'
  BY ContentsOfLine, ContentsOfNextLine DEF TypeOK, NextType
<1> QED
  BY <1>2, <1>3, <1>4 DEF ContentsFound

LEMMA InitPromise == Init => Contents = <<>>
<1> SUFFICES ASSUME Init PROVE Contents = <<>>
  OBVIOUS
<1> DEFINE s == [i \in 0..0 |-> NULL]
<1>1. InLine(next, NULL, first, {}, 0, s)
  BY DEF Init, InLine
<1> HIDE DEF s
<1>2. ContentsFound
  BY ContentsOfLine DEF Init, NextType
<1>3. Contents = Listing(0, s)
  BY <1>1, <1>2 DEF ContentsFound
<1> QED
  BY <1>3 DEF Listing

LEMMA PushedPushes ==
    ASSUME TypeOK, TypeOK',
           NEW L \in SUBSET Nodes, NEW A \in [Threads -> SUBSET Nodes], Good(L, A),
           NEW t \in Threads, pc[t] \in Pushing, first = entry[t], Succeed(t, FALSE)
    PROVE  S!Push
<1>0. PICK n \in Nodes : n = new[t]
  BY DEF Good, Locals, Local
<1>1. n \notin L /\ next[n] = first /\ first' = n /\ next' = next
  BY <1>0 DEF Good, Locals, Local, Apart, Owned, Succeed
<1>2. PICK m \in Nat : \E s \in [0..m -> L \cup {NULL}] : InLine(next, NULL, first, L, m, s)
  BY DEF Good, Chains, IsChain
<1>3. PICK s \in [0..m -> L \cup {NULL}] : InLine(next, NULL, first, L, m, s)
  BY <1>2
<1> DEFINE s2 == Before(n, m, s)
<1>4. InLine(next', NULL, first', L \cup {n}, m + 1, s2)
  BY <1>1, <1>3, PushOnLine DEF Good, Chains, IsChain
<1>5. ContentsFound /\ ContentsFound'
  BY ContentsOfLine, ContentsOfNextLine DEF TypeOK, NextType
<1>6. Contents = Listing(m, s)
  BY <1>3, <1>5 DEF ContentsFound
<1>7. Contents' = Listing(m + 1, s2)
  <2>1. L \cup {n} \in SUBSET Nodes /\ m + 1 \in Nat
    OBVIOUS
  <2> HIDE DEF s2
  <2> QED
    BY <1>4, <1>5, <2>1 DEF ContentsFound
<1>8. ASSUME NEW i \in 1..m PROVE s[i - 1] \in L
  <2>1. i - 1 \in 0..(m - 1)
    OBVIOUS
  <2> QED
    BY <1>3, <2>1 DEF InLine
<1>9. Contents \in Seq(Nodes) /\ Len(Contents) = m /\ \A i \in 1..m : Contents[i] # n
  BY <1>1, <1>6, <1>8 DEF Listing
<1>10. Contents' = <<n>> \o Contents
  <2>1. /\ <<n>> \o Contents \in Seq(Nodes) /\ Len(<<n>> \o Contents) = 1 + m
        /\ (<<n>> \o Contents)[1] = n
        /\ \A i \in 1..m : (<<n>> \o Contents)[i + 1] = Contents[i]
    BY <1>9
  <2>2. /\ Contents' \in Seq(Nodes) /\ Len(Contents') = 1 + m
        /\ Contents'[1] = n /\ \A i \in 1..m : Contents'[i + 1] = Contents[i]
    <3>1. Contents'[1] = n
      BY <1>7 DEF Listing, Before
    <3>2. \A i \in 1..m : Contents'[i + 1] = Contents[i]
      BY <1>6, <1>7 DEF Listing, Before
    <3>3. \A i \in 1..(m + 1) : Contents'[i] \in Nodes
      <4> SUFFICES ASSUME NEW i \in 1..(m + 1), i # 1 PROVE Contents'[i] \in Nodes
        BY <3>1
      <4>1. i - 1 \in 1..m /\ (i - 1) + 1 = i
        OBVIOUS
      <4> QED
        BY <1>6, <1>8, <3>2, <4>1 DEF Listing
    <3>4. DOMAIN Contents' = 1..(m + 1) /\ Contents' = [i \in 1..(m + 1) |-> Contents'[i]]
      BY <1>7 DEF Listing
    <3> QED
      BY <3>1, <3>2, <3>3, <3>4
  <2>3. ASSUME NEW i \in 1..(1 + m) PROVE Contents'[i] = (<<n>> \o Contents)[i]
    <3>1. CASE i = 1
      BY <2>1, <2>2, <3>1
    <3>2. CASE i # 1
      <4>1. i - 1 \in 1..m /\ (i - 1) + 1 = i
        BY <3>2
      <4> QED
        BY <2>1, <2>2, <4>1
    <3> QED
      BY <3>1, <3>2
  <2> QED
    BY <2>1, <2>2, <2>3, SeqEqual
<1> QED
  BY <1>9, <1>10 DEF S!Push

LEMMA PoppedPops ==
    ASSUME TypeOK, TypeOK',
           NEW L \in SUBSET Nodes, IsChain(next, NULL, first, L),
           first # NULL, first' = next[first], next' = next
    PROVE  S!Pop
<1>1. first \in L
  BY ChainNodes
<1>2. PICK m \in Nat : \E s \in [0..m -> L \cup {NULL}] : InLine(next, NULL, first, L, m, s)
  BY DEF IsChain
<1>3. PICK s \in [0..m -> L \cup {NULL}] : InLine(next, NULL, first, L, m, s)
  BY <1>2
<1>4. PICK n \in Nodes : n = first
  BY <1>1
<1> DEFINE s2 == WithoutFirst(m, s)
<1>5. m > 0
  BY <1>4, <1>1, <1>3, PopOffLine DEF IsChain
<1>6. InLine(next', NULL, first', L \ {n}, m - 1, s2)
  BY <1>4, <1>1, <1>3, PopOffLine DEF IsChain
<1>7. ContentsFound /\ ContentsFound'
  BY ContentsOfLine, ContentsOfNextLine DEF TypeOK, NextType
<1>8. Contents = Listing(m, s)
  BY <1>3, <1>7 DEF ContentsFound
<1>9. Contents' = Listing(m - 1, s2)
  <2>1. L \ {n} \in SUBSET Nodes /\ m - 1 \in Nat
    BY <1>5
  <2> HIDE DEF s2
  <2> QED
    BY <1>6, <1>7, <2>1 DEF ContentsFound
<1>10. ASSUME NEW i \in 1..m PROVE s[i - 1] \in L
  <2>1. i - 1 \in 0..(m - 1)
    OBVIOUS
  <2> QED
    BY <1>3, <2>1 DEF InLine
<1>11. Contents \in Seq(Nodes) /\ Len(Contents) = m /\ Contents # <<>>
  BY <1>5, <1>8, <1>10 DEF Listing
<1>12. \A k \in 1..(m - 1) : Contents[k + 1] = s2[k - 1]
  BY <1>5, <1>8 DEF Listing, WithoutFirst
<1>13. /\ Tail(Contents) \in Seq(Nodes) /\ Len(Tail(Contents)) = m - 1
       /\ \A k \in 1..(m - 1) : Tail(Contents)[k] = Contents[k + 1]
  BY <1>11, HeadTailProperties
<1>14. Contents' \in Seq(Nodes) /\ Len(Contents') = m - 1
  <2>1. ASSUME NEW k \in 1..(m - 1) PROVE s2[k - 1] \in Nodes
    <3>1. k + 1 \in 1..m
      BY <1>5
    <3>2. Contents[k + 1] \in Nodes
      BY <1>11, <3>1
    <3> QED
      BY <1>12, <3>2
  <2> HIDE DEF s2
  <2> QED
    BY <1>5, <1>9, <2>1 DEF Listing
<1>15. \A k \in 1..(m - 1) : Contents'[k] = Tail(Contents)[k]
  <2> HIDE DEF s2
  <2> QED
    BY <1>9, <1>12, <1>13 DEF Listing
<1>16. Contents' = Tail(Contents)
  BY <1>13, <1>14, <1>15, SeqEqual
<1> QED
  BY <1>11, <1>16 DEF S!Pop

(* The list is emptied, or was empty.                                       *)
LEMMA EmptiedTakesAll ==
    ASSUME TypeOK, TypeOK', first' = NULL
    PROVE  S!TakeAll \/ UNCHANGED Contents
<1> DEFINE s == [i \in 0..0 |-> NULL]
<1>1. InLine(next', NULL, first', {}, 0, s)
  BY DEF InLine
<1> HIDE DEF s
<1>2. ContentsFound'
  BY ContentsOfNextLine DEF TypeOK, NextType
<1>3. Contents' = Listing(0, s)
  BY <1>1, <1>2 DEF ContentsFound
<1>4. Contents' = <<>>
  BY <1>3 DEF Listing
<1> QED
  BY <1>4 DEF S!TakeAll

(* Each step is one of the stack's, or leaves the stack as it is.           *)
LEMMA StepKeepsPromise ==
    ASSUME SlistInv, SlistInv', [Next]_vars
    PROVE  [S!Push \/ S!Pop \/ S!TakeAll]_Contents
<1> USE DEF Untouched
<1>1. TypeOK /\ TypeOK'
  BY DEF SlistInv
<1>2. PICK L \in SUBSET Nodes : \E A \in [Threads -> SUBSET Nodes] : Good(L, A)
  BY DEF SlistInv
<1>3. PICK A \in [Threads -> SUBSET Nodes] : Good(L, A)
  BY <1>2
<1>4. IsChain(next, NULL, first, L)
  BY <1>3 DEF Good, Chains
<1>5. ASSUME first' = first, next' = next PROVE UNCHANGED Contents
  BY <1>1, <1>4, <1>5, SameContents
<1>6. ASSUME NEW t \in Threads, NEW n \in Nodes, slist_add(t, n) PROVE UNCHANGED Contents
  <2>1. L \cap free = {}
    BY <1>3, <1>6, NobodySweeps DEF SlistInv, slist_add, Users, Sweeping
  <2>2. first' = first /\ \A x \in L : next'[x] = next[x]
    BY <1>6, <2>1 DEF slist_add
  <2> QED
    BY <1>1, <1>4, <2>2, SameContents
<1>7. ASSUME NEW t \in Threads, pc[t] = "add", Retry(t), first' = first PROVE UNCHANGED Contents
  <2>1. new[t] \notin L
    BY <1>3, <1>7 DEF Good, Apart, Owned, Pushing
  <2>2. next' = [next EXCEPT ![new[t]] = first] /\ next \in [Nodes -> NodeOrNull]
    BY <1>1, <1>7 DEF Retry, TypeOK
  <2>3. \A x \in L : next'[x] = next[x]
    BY <2>1, <2>2
  <2> QED
    BY <1>1, <1>4, <1>7, <2>3, SameContents
<1>8. ASSUME NEW t \in Threads, pc[t] = "pop", Retry(t), first' = first PROVE UNCHANGED Contents
  BY <1>5, <1>8 DEF Retry
<1>9. ASSUME NEW t \in Threads, pc[t] \in Pushing, first = entry[t], Succeed(t, FALSE)
      PROVE  S!Push
  BY <1>1, <1>3, <1>9, PushedPushes
<1>10. ASSUME NEW t \in Threads, pc[t] \in {"pop", "pop store"}, first = entry[t], Succeed(t, TRUE)
       PROVE  S!Pop
  <2>1. first # NULL /\ first' = next[first] /\ next' = next
    BY <1>3, <1>10, SlistConstants DEF Good, Locals, Local, Popping, Succeed
  <2> QED
    BY <1>1, <1>4, <2>1, PoppedPops
<1>11. ASSUME NEW t \in Threads, cmpxchg(t)
       PROVE  S!Push \/ S!Pop \/ UNCHANGED Contents
  <2>1. CASE first = entry[t] /\ pc[t] = "add"
    <3>1. Succeed(t, FALSE)
      BY <1>11, <2>1 DEF cmpxchg, Succeed
    <3> QED
      BY <1>9, <2>1, <3>1 DEF Pushing
  <2>2. CASE first = entry[t] /\ pc[t] = "pop"
    <3>1. Succeed(t, TRUE)
      BY <1>11, <2>2 DEF cmpxchg, Succeed
    <3> QED
      BY <1>10, <2>2, <3>1
  <2>3. CASE first # entry[t]
    BY <1>7, <1>8, <1>11, <2>3 DEF cmpxchg
  <2> QED
    BY <1>11, <2>1, <2>2, <2>3 DEF cmpxchg
<1>12. ASSUME NEW t \in Threads, Compare(t) PROVE UNCHANGED Contents
  <2>1. CASE first = entry[t]
    BY <1>5, <1>12, <2>1 DEF Compare
  <2>2. CASE first # entry[t]
    BY <1>7, <1>8, <1>12, <2>2 DEF Compare
  <2> QED
    BY <2>1, <2>2
<1>13. ASSUME NEW t \in Threads, Store(t) PROVE S!Push \/ S!Pop
  <2>1. first = entry[t]
    BY <1>3, <1>13 DEF Store, Good, Locals, Local, Storing
  <2>2. CASE pc[t] = "add store"
    <3>1. Succeed(t, FALSE)
      BY <1>13, <2>2 DEF Store, Succeed
    <3> QED
      BY <1>9, <2>1, <2>2, <3>1 DEF Pushing
  <2>3. CASE pc[t] = "pop store"
    <3>1. Succeed(t, TRUE)
      BY <1>13, <2>3 DEF Store, Succeed
    <3> QED
      BY <1>10, <2>1, <2>3, <3>1
  <2> QED
    BY <1>13, <2>2, <2>3 DEF Store
<1>14. ASSUME NEW t \in Threads, slist_del_all(t) \/ Drop(t)
       PROVE  S!TakeAll \/ UNCHANGED Contents
  BY <1>1, <1>14, EmptiedTakesAll DEF slist_del_all, Drop
<1>15. ASSUME NEW t \in Threads,
              \/ slist_remove_head(t) \/ Load(t) \/ slist_for_each(t)
              \/ slist_for_each_safe(t) \/ Sweep(t)
       PROVE  UNCHANGED Contents
  BY <1>5, <1>15
     DEF slist_remove_head, Load, slist_for_each, slist_for_each_safe, Sweep
<1>16. CASE UNCHANGED vars
  BY <1>5, <1>16 DEF vars
<1>17. ASSUME NEW t \in Threads, Call(t) \/ Step(t)
       PROVE  S!Push \/ S!Pop \/ S!TakeAll \/ UNCHANGED Contents
  BY <1>6, <1>11, <1>12, <1>13, <1>14, <1>15, <1>17 DEF Call, Step
<1> QED
  BY <1>16, <1>17 DEF Next

(* A push, a pop and the taking of everything each happen in one step, as   *)
(* if there were a lock: a push comes first, a pop takes what came last.    *)
THEOREM SlistKeepsPromise ==
    ASSUME \A u \in Uses : Allowed(u)
    PROVE  Spec => KeepsPromise
<1>1. Init => S!PromiseInit
  BY InitPromise DEF S!PromiseInit
<1>2. SlistInv /\ SlistInv' /\ [Next]_vars => [vars' # vars => S!Step]_vars
  BY StepKeepsPromise DEF S!Step
<1> QED
  BY <1>1, <1>2, SlistInvariant, PTL DEF Spec, KeepsPromise
=============================================================================
