------------------------------- MODULE Btree -------------------------------
(***************************************************************************)
(* btree.c: B+trees of entries in descending order, in nodes of no_pairs    *)
(* slots from one pool.  Slots are counted from 1.  A call is one step:    *)
(* the structure has no lock and no callback that could look at it before  *)
(* the call returns, but any of its allocations can fail.                  *)
(***************************************************************************)
EXTENDS Integers, FiniteSets, SequencesExt

CONSTANTS
    BKeys,       \* keys in use; 0 is what unused slots hold
    ValsOf(_),   \* the values the client stores under a key; none equals a key
    Geometries,  \* values of geo->no_pairs
    Addresses,   \* where a node can be
    Asked,       \* keys the client may ask to remove when they are not there
    Few, Mixed,  \* bounds: with fewer entries than Few the client adds a key of Mixed
                 \* where it likes; else it fills one tree in order, or only removes
    NIL          \* NULL

ASSUME BtreeConstants ==
    /\ BKeys \subseteq Nat \ {0} /\ Mixed \subseteq BKeys
    /\ \A g \in Geometries : g \in Nat /\ g >= 4
    /\ Addresses \subseteq Nat /\ IsFiniteSet(Addresses)
    /\ Asked \subseteq BKeys \cup {0}
    /\ \A k \in BKeys : NIL \notin ValsOf(k)

VARIABLES
    no_pairs,    \* of the geometry that every call on these trees is given
    btree_head,  \* node and height of each struct btree_head
    mem,         \* the used slots of each node
    used,        \* the nodes allocated
    bt_result,   \* what the last call returned, "ok" if it is one that cannot fail
    merging,     \* whether btree_merge is moving entries
    struck       \* whether a BUG_ON has struck

btree_vars == <<no_pairs, btree_head, mem, used, bt_result, merging, struck>>

Heads == {"target", "victim"}    \* two trees that share a pool, as btree_merge has them
Empty == [node |-> NIL, height |-> 0]

BtreeInit ==   \* after btree_init, or btree_init_mempool, for each
    /\ no_pairs \in Geometries
    /\ btree_head = [h \in Heads |-> Empty]
    /\ mem = [a \in Addresses |-> <<>>]
    /\ used = {}
    /\ bt_result = "ok"
    /\ merging = FALSE
    /\ struck = FALSE

(* A call works on a copy of the memory and of one head; pool is how many   *)
(* allocations succeed, all of which it makes.                              *)
Loaded(h, pool) ==
    [mem |-> mem, used |-> used, node |-> btree_head[h].node, height |-> btree_head[h].height,
     pool |-> pool, err |-> "ok", bug |-> FALSE, ret |-> NIL]

----------------------------------------------------------------------------
(* Slots.                                                                   *)

Slot(key, val) == [key |-> key, val |-> val]
SlotKey(s, i) == IF i \in DOMAIN s THEN s[i].key ELSE 0
SlotVal(s, i) == IF i \in DOMAIN s THEN s[i].val ELSE NIL

(* The first slot whose key is no larger, an unused one if need be.         *)
getpos(s, k) ==
    LET fit == {i \in 1..no_pairs : SlotKey(s, i) <= k}
    IN  IF fit = {} THEN no_pairs + 1 ELSE CHOOSE i \in fit : \A j \in fit : i <= j

(* The address a node gets does not matter: the lowest.                     *)
Fresh(T) == CHOOSE a \in Addresses \ T.used : \A b \in Addresses \ T.used : a <= b
CanAlloc(T) == T.pool > 0 /\ T.used # Addresses
btree_node_alloc(T) ==
    [T EXCEPT !.used = @ \cup {Fresh(T)}, !.mem[Fresh(T)] = <<>>, !.pool = @ - 1]
mempool_free(T, a) == [T EXCEPT !.used = @ \ {a}, !.mem[a] = <<>>]

LeaveKey(T, n, k) == T     \* mutant: the last key is not lowered
Lower(T, n, k) == [T EXCEPT !.mem[n][Len(T.mem[n])].key = k]

(* Down to the node for k on a level.  Where every key is too large, the    *)
(* last one is lowered.                                                     *)
RECURSIVE find_below(_, _, _, _, _)
find_below(T, n, height, k, level) ==
    IF height <= level THEN [tree |-> T, node |-> n]
    ELSE LET s == T.mem[n]
             i == getpos(s, k)
         IN  IF i <= Len(s) THEN find_below(T, s[i].val, height - 1, k, level)
             ELSE IF s = <<>> THEN [tree |-> [T EXCEPT !.bug = TRUE], node |-> n]
             ELSE find_below(Lower(T, n, k), Last(s).val, height - 1, k, level)

find_level(T, k, level) == find_below(T, T.node, T.height, k, level)

----------------------------------------------------------------------------
(* Insertion.                                                               *)

btree_grow(T) ==
    IF ~CanAlloc(T) THEN [T EXCEPT !.err = "ENOMEM"]
    ELSE LET a == Fresh(T)
             root == IF T.node = NIL THEN <<>> ELSE <<Slot(Last(T.mem[T.node]).key, T.node)>>
         IN  [btree_node_alloc(T) EXCEPT !.mem[a] = root, !.node = a, !.height = @ + 1]

SplitLosesOdd(T, n, new) ==   \* mutant: the odd entry of a node is cleared
    LET s == T.mem[n]
        half == Len(s) \div 2
    IN  [T EXCEPT !.mem[new] = SubSeq(s, 1, half), !.mem[n] = SubSeq(s, half + 1, 2 * half)]

(* The left half of a full node n moves to the node new.                    *)
Split(T, n, new) ==
    LET s == T.mem[n]
        half == Len(s) \div 2
    IN  [T EXCEPT !.mem[new] = SubSeq(s, 1, half), !.mem[n] = SubSeq(s, half + 1, Len(s))]

RECURSIVE btree_insert_level(_, _, _, _)
btree_insert_level(T0, k, v, level) ==
    LET T == IF T0.height < level THEN btree_grow(T0) ELSE T0
        found == find_level(T, k, level)
        n == found.node
        s == found.tree.mem[n]
        pos == getpos(s, k)
        U == [found.tree EXCEPT !.bug = @ \/ (pos <= Len(s) /\ SlotKey(s, pos) = k)]
    IN  IF T.err # "ok" THEN T
        ELSE IF Len(s) < no_pairs THEN [U EXCEPT !.mem[n] = InsertAt(s, pos, Slot(k, v))]
        ELSE IF ~CanAlloc(U) THEN [U EXCEPT !.err = "ENOMEM"]
        ELSE LET new == Fresh(U)
                 up == btree_insert_level(btree_node_alloc(U), SlotKey(s, no_pairs \div 2), new, level + 1)
             IN  IF up.err # "ok" THEN mempool_free(up, new)
                 ELSE btree_insert_level(Split(up, n, new), k, v, level)

----------------------------------------------------------------------------
(* Removal.                                                                 *)

OnlyOne(fill) == fill = 1

btree_shrink(T) ==
    mempool_free([T EXCEPT !.bug = @ \/ Len(T.mem[T.node]) > 1,
                           !.node = T.mem[T.node][1].val, !.height = @ - 1], T.node)

Fit(fill, other) == fill + other <= no_pairs

RECURSIVE btree_remove_level(_, _, _, _)

(* The right one of two neighbours under the parent p is moved into the     *)
(* left one, which takes its slot.                                          *)
merge(T, level, left, right, p, lpos) ==
    LET U == [T EXCEPT !.mem[left] = @ \o T.mem[right],
                       !.mem[p][lpos].val = right, !.mem[p][lpos + 1].val = left]
    IN  mempool_free(btree_remove_level(U, SlotKey(T.mem[p], lpos), level + 1, TRUE), right)

rebalance(T, k, level, child, fill) ==
    LET found == find_level(T, k, level + 1)
        p == found.node
        s == found.tree.mem[p]
        i == getpos(s, k)
        U == [found.tree EXCEPT !.bug = @ \/ SlotVal(s, i) # child]
        Takes(j) == j \in DOMAIN s /\ Fit(fill, Len(U.mem[s[j].val]))
    IN  IF fill = 0 THEN mempool_free(btree_remove_level(T, k, level + 1, FALSE), child)
        ELSE IF U.bug THEN U
        ELSE IF Takes(i - 1) THEN merge(U, level, s[i - 1].val, child, p, i - 1)
        ELSE IF Takes(i + 1) THEN merge(U, level, child, s[i + 1].val, p, i)
        ELSE U

(* mangled: key points into the very slot that is removed, so that the      *)
(* shift replaces it by the next slot's.  Past the last slot there is a     *)
(* pointer, which equals no key.  A removal of the unused slot behind the   *)
(* entries clears the last of them, and none in an empty node.              *)
btree_remove_level(T, k, level, mangled) ==
    LET found == find_level(T, k, level)
        n == found.node
        s == found.tree.mem[n]
        pos == getpos(s, k)
        left == IF pos \in DOMAIN s THEN RemoveAt(s, pos) ELSE Front(s)
        U == [found.tree EXCEPT !.mem[n] = left, !.ret = IF level = 1 THEN SlotVal(s, pos) ELSE @]
    IN  IF level > T.height THEN [T EXCEPT !.node = NIL, !.height = 0]
        ELSE IF level = 1 /\ (pos > no_pairs \/ SlotKey(s, pos) # k) THEN found.tree
        ELSE IF s = <<>> THEN [T EXCEPT !.bug = TRUE]    \* writes before the node
        ELSE IF Len(left) >= no_pairs \div 2 THEN U
        ELSE IF level < T.height
               THEN rebalance(U, IF mangled THEN SlotKey(left, pos) ELSE k, level, n, Len(left))
        ELSE IF OnlyOne(Len(left)) /\ T.height > 1 THEN btree_shrink(U) ELSE U

Removed(T, k) == IF T.height = 0 THEN T ELSE btree_remove_level(T, k, 1, FALSE)

----------------------------------------------------------------------------
(* Looking up.                                                              *)

(* The leaf for k, or NIL where every key on the way is too large.          *)
RECURSIVE LeafFor(_, _, _)
LeafFor(n, height, k) ==
    LET i == getpos(mem[n], k)
    IN  IF height = 1 THEN n
        ELSE IF i \in DOMAIN mem[n] THEN LeafFor(SlotVal(mem[n], i), height - 1, k) ELSE NIL

(* The slot for k in its leaf, as {<<leaf, slot>>}, or none.                *)
Place(h, k) ==
    LET n == IF btree_head[h].height = 0 THEN NIL
             ELSE LeafFor(btree_head[h].node, btree_head[h].height, k)
    IN  IF n = NIL THEN {} ELSE {<<n, i>> : i \in {j \in DOMAIN mem[n] : mem[n][j].key = k}}

btree_lookup(h, k) ==
    IF Place(h, k) = {} THEN NIL ELSE LET p == CHOOSE p \in Place(h, k) : TRUE IN mem[p[1]][p[2]].val

RECURSIVE Leftmost(_, _)
Leftmost(n, height) == IF height = 1 THEN n ELSE Leftmost(SlotVal(mem[n], 1), height - 1)

(* Entries are returned as sequences of at most one slot.                   *)
btree_last(h) ==
    IF btree_head[h].height = 0 THEN <<>>
    ELSE LET s == mem[Leftmost(btree_head[h].node, btree_head[h].height)]
         IN  IF s = <<>> THEN <<>> ELSE <<s[1]>>

FirstPassed(retry, key) == IF retry = {} THEN {key} ELSE retry    \* mutant
LastPassed(retry, key) == {key}

(* One attempt of btree_get_prev: retry is the parent's key it passed last. *)
RECURSIVE Attempt(_, _, _, _)
Attempt(n, height, k, retry) ==
    LET s == mem[n]
        i == getpos(s, k)
    IN  IF i \notin DOMAIN s THEN [hit |-> <<>>, retry |-> retry]
        ELSE IF height = 1 THEN [hit |-> <<s[i]>>, retry |-> {}]
        ELSE Attempt(s[i].val, height - 1, k, LastPassed(retry, s[i].key))

RECURSIVE btree_get_prev(_, _)
btree_get_prev(h, k) ==
    LET tried == Attempt(btree_head[h].node, btree_head[h].height, k - 1, {})
    IN  IF k = 0 \/ btree_head[h].height = 0 THEN <<>>
        ELSE IF tried.retry = {} THEN tried.hit
        ELSE btree_get_prev(h, CHOOSE key \in tried.retry : TRUE)

(* __btree_for_each calls its function for these slots, in this order.      *)
RECURSIVE __btree_for_each(_, _, _)
__btree_for_each(m, n, height) ==
    IF height = 1 THEN m[n]
    ELSE FlattenSeq([i \in DOMAIN m[n] |-> __btree_for_each(m, m[n][i].val, height - 1)])

Visited(T) == IF T.node = NIL THEN <<>> ELSE __btree_for_each(T.mem, T.node, T.height)
btree_visitor(h) == Visited(Loaded(h, 0))

(* The nodes it frees if it reaps.                                          *)
RECURSIVE Reaped(_, _)
Reaped(n, height) ==
    IF height = 1 THEN <<n>>
    ELSE Append(FlattenSeq([i \in DOMAIN mem[n] |-> Reaped(mem[n][i].val, height - 1)]), n)

NodesOf(h) ==
    IF btree_head[h].node = NIL THEN <<>> ELSE Reaped(btree_head[h].node, btree_head[h].height)

----------------------------------------------------------------------------
(* The calls.                                                               *)

RECURSIVE SlotsUnder(_, _)
SlotsUnder(n, height) ==
    IF height = 1 THEN ToSet(mem[n])
    ELSE UNION {SlotsUnder(slot.val, height - 1) : slot \in ToSet(mem[n])}

EntriesIn(h) ==
    IF btree_head[h].node = NIL THEN {} ELSE SlotsUnder(btree_head[h].node, btree_head[h].height)
KeysIn(h) == {e.key : e \in EntriesIn(h)}
AllKeys == UNION {KeysIn(h) : h \in Heads}

Stored(h, T) ==
    /\ btree_head' = [btree_head EXCEPT ![h] = [node |-> T.node, height |-> T.height]]
    /\ mem' = T.mem
    /\ used' = T.used
    /\ struck' = (struck \/ T.bug)

(* The key must not be there, and is not in the other tree, so that the two *)
(* can be merged.                                                           *)
MayInsert(h) ==
    LET there == AllKeys
    IN  {k \in BKeys \ there :
            \/ Cardinality(there) < Few /\ k \in Mixed
            \/ h = "target" /\ btree_head["victim"] = Empty /\ there = {j \in BKeys : j > k}}

MayRemove(h) ==
    LET s == btree_visitor(h)
    IN  Asked \cup (IF s = <<>> THEN {} ELSE {s[1].key, Last(s).key} \cup (Mixed \cap KeysIn(h)))

btree_insert(h, k, v, pool) ==
    LET T == btree_insert_level(Loaded(h, pool), k, v, 1)
    IN  /\ ~merging
        /\ T.pool = 0
        /\ Stored(h, T)
        /\ bt_result' = T.err
        /\ UNCHANGED merging

btree_remove(h, k) ==
    /\ ~merging
    /\ Stored(h, Removed(Loaded(h, 0), k))
    /\ bt_result' = "ok"
    /\ UNCHANGED merging

btree_update(h, k, v) ==
    /\ ~merging
    /\ \E p \in Place(h, k) : mem' = [mem EXCEPT ![p[1]][p[2]].val = v]
    /\ bt_result' = "ok"
    /\ UNCHANGED <<btree_head, used, merging, struck>>

btree_grim_visitor(h) ==
    /\ ~merging
    /\ btree_head' = [btree_head EXCEPT ![h] = Empty]
    /\ mem' = [a \in Addresses |-> IF a \in ToSet(NodesOf(h)) THEN <<>> ELSE mem[a]]
    /\ used' = used \ ToSet(NodesOf(h))
    /\ bt_result' = "ok"
    /\ UNCHANGED <<merging, struck>>

(* btree_merge: an empty target takes the victim's nodes over; else entries *)
(* move one at a time until an insertion fails.  (An empty victim has none.) *)
TakeOver ==
    /\ ~merging
    /\ btree_head["target"].node = NIL
    /\ btree_head' = [target |-> btree_head["victim"], victim |-> Empty]
    /\ bt_result' = "ok"
    /\ UNCHANGED <<mem, used, merging, struck>>

btree_merge ==
    /\ ~merging
    /\ btree_head["target"].node # NIL /\ btree_last("victim") # <<>>
    /\ merging' = TRUE
    /\ bt_result' = "ok"
    /\ UNCHANGED <<btree_head, mem, used, struck>>

MoveEntry(pool) ==
    /\ merging
    /\ btree_last("victim") # <<>>
    /\ LET k == btree_last("victim")[1].key
           T == btree_insert_level(Loaded("target", pool), k, btree_lookup("victim", k), 1)
           V == Removed([Loaded("victim", 0) EXCEPT !.mem = T.mem, !.used = T.used], k)
       IN  /\ T.pool = 0
           /\ IF T.err # "ok" THEN Stored("target", T) /\ bt_result' = T.err /\ merging' = FALSE
              ELSE
                /\ btree_head' = [target |-> [node |-> T.node, height |-> T.height],
                                  victim |-> [node |-> V.node, height |-> V.height]]
                /\ mem' = V.mem
                /\ used' = V.used
                /\ struck' = (struck \/ T.bug \/ V.bug)
                /\ bt_result' = "ok"
                /\ UNCHANGED merging

Merged ==
    /\ merging
    /\ btree_last("victim") = <<>>
    /\ merging' = FALSE
    /\ UNCHANGED <<btree_head, mem, used, bt_result, struck>>

Pools == 0..3    \* bound: no insertion here needs more nodes

BtreeNext ==
  /\ UNCHANGED no_pairs
  /\ \/ \E h \in Heads : \E k \in MayInsert(h) : \E v \in ValsOf(k), pool \in Pools : btree_insert(h, k, v, pool)
     \/ \E h \in Heads : \E k \in MayRemove(h) : btree_remove(h, k)
     \/ \E h \in Heads : \E k \in KeysIn(h) : \E v \in ValsOf(k) \ {btree_lookup(h, k)} : btree_update(h, k, v)
     \/ \E h \in Heads : btree_grim_visitor(h)
     \/ TakeOver \/ btree_merge \/ Merged
     \/ \E pool \in Pools : MoveEntry(pool)

BtreeSpec == BtreeInit /\ [][BtreeNext]_btree_vars

----------------------------------------------------------------------------
(* Properties.                                                              *)

BtreeTypeOK ==
    /\ \A h \in Heads : btree_head[h].node \in used \cup {NIL} /\ btree_head[h].height \in Nat
    /\ \A a \in Addresses : Len(mem[a]) <= no_pairs /\ (a \notin used => mem[a] = <<>>)
    /\ used \subseteq Addresses
    /\ bt_result \in {"ok", "ENOMEM"}
    /\ {merging, struck} \subseteq BOOLEAN

(* Down to height 1, no node is empty and the keys of each descend, a slot's *)
(* below hi and not above any key under it, although a parent's keys go     *)
(* stale as entries are removed, and are lowered for new ones.              *)
Above == 1 + Max(BKeys)
RECURSIVE Ordered(_, _, _)
Ordered(n, height, hi) ==
    LET s == mem[n]
        below(i) == IF i = 1 THEN hi ELSE s[i - 1].key
    IN  /\ \A i \in DOMAIN s : s[i].key < below(i)
        /\ height > 1 => \A i \in DOMAIN s :
              /\ mem[s[i].val] # <<>> /\ Ordered(s[i].val, height - 1, below(i))
              /\ \A j \in DOMAIN mem[s[i].val] : mem[s[i].val][j].key >= s[i].key

(* The trees are search trees, with all leaves at one depth and a root that *)
(* has more than one child: btree_shrink misses none.  No BUG_ON has struck *)
(* on the way, and nothing was written outside a node.  Every allocated node *)
(* hangs in one place of one tree: a failed insertion gives back what it    *)
(* allocated, and a removal frees what it empties.                          *)
TreeShape ==
    /\ ~struck
    /\ LET all == NodesOf("target") \o NodesOf("victim") IN IsInjective(all) /\ ToSet(all) = used
    /\ \A h \in Heads : btree_head[h].node # NIL =>
        /\ Ordered(btree_head[h].node, btree_head[h].height, Above)
        /\ btree_head[h].height > 1 => Len(mem[btree_head[h].node]) > 1

(* Every key is looked up as what is stored under it; the last and previous *)
(* entries are the right ones, for any key asked about, stale parents' keys *)
(* or not; a visitor meets each entry once, from the last to the first.     *)
BtreeLookups ==
    \A h \in Heads :
      LET all == btree_visitor(h)
          First(s) == IF s = <<>> THEN <<>> ELSE <<s[1]>>
          Under(k) == SelectSeq(all, LAMBDA e : e.key = k)
      IN  /\ ToSet(all) = EntriesIn(h)
          /\ \A i \in 2..Len(all) : all[i].key < all[i - 1].key
          /\ \A k \in BKeys : btree_lookup(h, k) = (IF Under(k) = <<>> THEN NIL ELSE Under(k)[1].val)
          /\ btree_last(h) = First(all)
          /\ \A k \in BKeys \cup {0} : btree_get_prev(h, k) = First(SelectSeq(all, LAMBDA e : e.key < k))

BothTrees == [target |-> EntriesIn("target"), victim |-> EntriesIn("victim")]
B == INSTANCE DictionaryPromise WITH
        Names <- Heads, Keys <- BKeys, Rekeys <- FALSE, dict <- BothTrees, result <- bt_result

(* Whatever is split, merged and shrunk, and wherever memory runs out, an   *)
(* insertion adds its entry or nothing, a removal takes the entry of its    *)
(* key and no other, an update changes that entry's value, and btree_merge  *)
(* moves the victim's last entry to the target each time, or leaves it and  *)
(* stops.                                                                   *)
BtreeKeepsPromise ==
    /\ B!PromiseInit
    /\ [][btree_vars' # btree_vars =>
            \E old \in {BothTrees}, new \in {BothTrees'} :
              \/ \E h \in Heads :
                    \/ \E k \in MayInsert(h) : \E v \in ValsOf(k) :
                          B!Insert(old, new, h, k, v) /\ \E pool \in Pools : btree_insert(h, k, v, pool)
                    \/ \E k \in MayRemove(h) : B!Remove(old, new, h, k) /\ btree_remove(h, k)
                    \/ \E k \in KeysIn(h) : \E v \in ValsOf(k) :
                          B!Replace(old, new, h, k, k, v) /\ btree_update(h, k, v)
                    \/ B!Clear(old, new, h) /\ btree_grim_visitor(h)
              \/ B!MoveAll(old, new, "victim", "target") /\ TakeOver
              \/ \E slot \in ToSet(btree_last("victim")) :
                    B!Move(old, new, "victim", "target", slot.key) /\ \E pool \in Pools : MoveEntry(pool)
              \/ B!Same(old, new) /\ (btree_merge \/ Merged)]_btree_vars

(* btree.h says that btree_remove "returns the removed entry, or NULL if    *)
(* the key could not be found": it returns and takes what is stored under   *)
(* the key, and nothing else.                                               *)
RemoveAnswers ==
    \A h \in Heads, k \in Asked :
      LET T == Removed(Loaded(h, 0), k)
      IN  /\ T.ret = btree_lookup(h, k)
          /\ Visited(T) = SelectSeq(btree_visitor(h), LAMBDA e : e.key # k)
============================================================================
