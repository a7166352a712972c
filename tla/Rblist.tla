------------------------------- MODULE Rblist -------------------------------
(***************************************************************************)
(* rblist.cpp with the callbacks of intlist.cpp: a sorted list of ints in  *)
(* a red-black tree, its iteration, and the loop that empties it.          *)
(***************************************************************************)
EXTENDS Rbtree

CONSTANTS
    IntMax,      \* INT_MAX: node_cmp subtracts ints
    UintMax,     \* UINT_MAX: nr_entries is an unsigned int
    Loose        \* bound: with so many entries, the client only removes entries,
                 \* or goes on to fill a list it has filled in order

VARIABLES
    call,        \* "none" while there is no list, "idle", or the call in progress
    result,      \* what the last call returned, "ok" if it is void
    nr_entries,  \* rblist->nr_entries
    victim,      \* the node being removed, until node_delete frees it
    pos, next    \* the variables of the loops over the list

list_vars == <<call, result, nr_entries, victim, pos, next>>
rblist_vars == <<tree, loop, cursor, call, result, nr_entries, victim, pos, next>>

(* node->i - i, as it comes out when it does not fit.                       *)
node_cmp(n, i) ==
    LET d == n - i
    IN  IF d > IntMax THEN d - 2 * (IntMax + 1) ELSE IF d < -IntMax - 1 THEN d + 2 * (IntMax + 1) ELSE d

RblistInit ==
    /\ RbtreeInit
    /\ call = "none"
    /\ result = "ok"
    /\ nr_entries = 0
    /\ victim = NULL /\ pos = NULL /\ next = NULL

rblist__init ==   \* intlist__new, when malloc succeeds
    /\ call = "none"
    /\ call' = "idle"
    /\ tree' = [tree EXCEPT !.root = NULL]
    /\ nr_entries' = 0
    /\ UNCHANGED <<loop, cursor, result, victim, pos, next>>

Looping == pos # NULL

(* The last node on the way down to i: the one found, or where i belongs.   *)
Seek(i) ==
    LET Down[n \in Keys] ==
          LET rc == node_cmp(n, i)
              m  == tree.child[n][IF rc > 0 THEN "left" ELSE "right"]
          IN  IF rc = 0 \/ m = NULL THEN n ELSE Down[m]
    IN  IF tree.root = NULL THEN NULL ELSE Down[tree.root]

Found(i) == Seek(i) # NULL /\ node_cmp(Seek(i), i) = 0

Return(r) == result' = r /\ UNCHANGED <<tree, loop, cursor, call, nr_entries, victim, pos, next>>

rblist__find(i) == IF Found(i) THEN Seek(i) ELSE NULL

rblist__entry(idx) ==
    LET Walk[n \in NodeOrNull, k \in 0..idx] ==
          IF n = NULL \/ k = 0 THEN n ELSE Walk[rb_next(tree, n), k - 1]
    IN  Walk[rb_first(tree), idx]

Small == Cardinality(OnTree) < Loose
FilledUpTo(i) == OnTree = {k \in Keys : k < i}

(* Its result is decided here, although the tree is recoloured first.       *)
rblist__add_node(i) ==
    /\ call = "idle" /\ ~Looping
    /\ Small \/ FilledUpTo(i)
    /\ \/ Found(i) /\ Return("EEXIST")
       \/ ~Found(i) /\ Return("ENOMEM")     \* node_new fails
       \/ /\ ~Found(i)
          /\ LET p == Seek(i)
             IN  rb_link_node(i, p, IF p # NULL /\ node_cmp(p, i) > 0 THEN "left" ELSE "right")
          /\ call' = "add"
          /\ result' = "ok"
          /\ UNCHANGED <<nr_entries, victim, pos, next>>

Added ==
    /\ call = "add" /\ loop = "none"
    /\ call' = "idle"
    /\ nr_entries' = (nr_entries + 1) % (UintMax + 1)
    /\ UNCHANGED <<tree, loop, cursor, result, victim, pos, next>>

(* A loop over the list may remove the node it stands on, and no other.     *)
rblist__remove_node(n) ==
    /\ call = "idle"
    /\ Found(n)
    /\ Looping => n = pos
    /\ rb_erase(n)
    /\ victim' = n
    /\ call' = "remove"
    /\ result' = "ok"
    /\ UNCHANGED <<nr_entries, pos, next>>

node_delete ==
    /\ victim # NULL /\ loop = "none"
    /\ tree' = Blank(tree, victim)
    /\ victim' = NULL
    /\ call' = IF call = "remove" THEN "idle" ELSE call
    /\ UNCHANGED <<loop, cursor, result, nr_entries, pos, next>>

(* The owner of the nodes puts another one in a node's place.               *)
ReplaceNode(n, new) ==
    /\ call = "idle" /\ ~Looping /\ Small
    /\ Found(n) /\ ~Found(new)
    /\ \A m \in Keys \ {n} : Found(m) => ((node_cmp(m, n) < 0) <=> (node_cmp(m, new) < 0))
    /\ LET t == rb_replace_node(n, new)
       IN  tree' = Blank(augment_propagate(t, new, NULL), n)
    /\ result' = "ok"
    /\ UNCHANGED <<loop, cursor, call, nr_entries, victim, pos, next>>

----------------------------------------------------------------------------
(* The loops.                                                               *)

(* intlist__next(NULL) is NULL.                                             *)
Following(n) == IF n = NULL THEN NULL ELSE rb_next(tree, n)

intlist__for_each_safe ==
    /\ call = "idle" /\ ~Looping /\ Small
    /\ pos' = rb_first(tree)
    /\ next' = Following(pos')
    /\ UNCHANGED <<tree, loop, cursor, call, result, nr_entries, victim>>

NextTurnLate ==          \* mutant: pos is followed only after the body has run
    /\ call = "idle" /\ Looping
    /\ pos' = Following(pos)
    /\ next' = NULL
    /\ UNCHANGED <<tree, loop, cursor, call, result, nr_entries, victim>>

NextTurn ==
    /\ call = "idle" /\ Looping
    /\ pos' = next
    /\ next' = Following(next)
    /\ UNCHANGED <<tree, loop, cursor, call, result, nr_entries, victim>>

rblist__delete ==
    /\ call = "idle" /\ ~Looping
    /\ call' = "delete"
    /\ next' = rb_first(tree)
    /\ result' = "ok"
    /\ UNCHANGED <<tree, loop, cursor, nr_entries, victim, pos>>

DeleteNext ==
    /\ call = "delete" /\ loop = "none" /\ victim = NULL
    /\ next # NULL
    /\ victim' = next
    /\ next' = rb_next(tree, next)
    /\ rb_erase(next)
    /\ UNCHANGED <<call, result, nr_entries, pos>>

Deleted ==
    /\ call = "delete" /\ loop = "none" /\ victim = NULL
    /\ next = NULL
    /\ call' = "none"
    /\ UNCHANGED <<tree, loop, cursor, result, nr_entries, victim, pos, next>>

----------------------------------------------------------------------------
Call ==
    \/ rblist__init \/ rblist__delete \/ intlist__for_each_safe
    \/ \E i \in Keys : rblist__add_node(i) \/ rblist__remove_node(i)
    \/ \E n, new \in Keys : ReplaceNode(n, new)

(* What a call in progress, or a loop of the client, goes on to do.         *)
Proceed ==
    \/ Turn /\ UNCHANGED list_vars
    \/ Added \/ node_delete \/ NextTurn \/ DeleteNext \/ Deleted

RblistNext == Call \/ Proceed

RblistSpec == RblistInit /\ [][RblistNext]_rblist_vars

----------------------------------------------------------------------------
(* Properties.                                                              *)

RblistTypeOK ==
    /\ RbtreeTypeOK
    /\ call \in {"none", "idle", "add", "remove", "delete"}
    /\ result \in {"ok", "EEXIST", "ENOMEM"}
    /\ nr_entries \in 0..UintMax
    /\ {victim, pos, next} \subseteq NodeOrNull
    /\ call = "none" => tree.root = NULL

Itself(k) == {k}    \* an int is all there is to its entry
Ints == [list |-> {[key |-> k, val |-> k] : k \in OnTree}]
D == INSTANCE DictionaryPromise WITH
        Names <- {"list"}, ValsOf <- Itself, Rekeys <- TRUE, dict <- Ints

(* Steps that take a node off the tree for good, and those that take none.  *)
TakesOff(i) == rblist__remove_node(i) \/ (i = next /\ DeleteNext)
Quiet == rblist__init \/ rblist__delete \/ intlist__for_each_safe \/ (Proceed /\ ~DeleteNext)

(* The list is a set of ints.  Adding one puts it on, if it is not there    *)
(* and there is memory, removing one takes that one off, replacing one puts *)
(* the other in its place, and the loop that empties the list takes off the *)
(* one it stands on.  Nothing else takes or adds one, turns that recolour   *)
(* and rotate included.                                                     *)
RblistKeepsPromise ==
    /\ D!PromiseInit
    /\ [][rblist_vars' # rblist_vars =>
            \E old \in {Ints}, new \in {Ints'} :
              \/ \E i \in Keys :
                    \/ D!Insert(old, new, "list", i, i) /\ rblist__add_node(i)
                    \/ D!Remove(old, new, "list", i) /\ TakesOff(i)
                    \/ \E j \in Keys : D!Replace(old, new, "list", i, j, j) /\ ReplaceNode(i, j)
              \/ D!Same(old, new) /\ Quiet]_rblist_vars

(* Between calls, each int is found exactly if it is there, entries are     *)
(* counted in order, and rb_next, and rb_prev in the opposite order, visit  *)
(* each one and end.                                                        *)
Lookups ==
    LET c == Contents
        at(i) == IF i \in DOMAIN c THEN c[i] ELSE NULL
    IN  call = "idle" =>
          /\ \A i \in Keys : rblist__find(i) = (IF i \in OnTree THEN i ELSE NULL)
          /\ \A idx \in 0..Cardinality(Keys) : rblist__entry(idx) = at(idx + 1)
          /\ rb_last(tree) = at(Len(c))
          /\ \A i \in DOMAIN c :
                rb_next(tree, at(i)) = at(i + 1) /\ rb_prev(tree, at(i)) = at(i - 1)

(* intlist__for_each_safe is "safe against removal of int_node": each turn  *)
(* comes to the next greater int on the list, the last one excepted,        *)
(* whether the body removed the node it had or not.                         *)
LoopInOrder ==
    [][Looping /\ pos' # pos =>
         LET behind == {n \in OnTree : n > pos}
         IN  IF behind = {} THEN pos' = NULL
             ELSE pos' \in behind /\ \A n \in behind : pos' <= n]_rblist_vars
============================================================================
