------------------------------ MODULE Avltree ------------------------------
(***************************************************************************)
(* avltree.cpp: a tree of disjoint intervals of keys.  A node is named by  *)
(* its interval; a call is a step.  An insertion recurs down the tree and  *)
(* rotates on its way back.                                                *)
(***************************************************************************)
EXTENDS Integers, Sequences, FiniteSets

CONSTANTS
    Intervals,       \* pairs of min_key and max_key
    NoTree,          \* the null pointer
    SingleTurns      \* whether callers avoid the insertions that cover an entry or need a
                     \* rotation that is wrong as written

ASSUME AvltreeConstants ==
    /\ Intervals \subseteq {i \in Nat \X Nat : i[1] <= i[2]}
    /\ SingleTurns \in BOOLEAN

VARIABLES
    avl,          \* the fields of the nodes
    root,         \* the caller's pointer to the tree
    inserted,     \* the entries whose insertion has returned 0, since the last ClearAvlTree
    avl_ret       \* what the last call returned; "crash" when it dereferenced a null pointer

avl_vars == <<avl, root, inserted, avl_ret>>

Larger(a, b) == IF a > b THEN a ELSE b
GetHeight(m, tree) == IF tree = NoTree THEN -1 ELSE m[tree].height
Measure(m, tree) ==
    [m EXCEPT ![tree].height = Larger(GetHeight(m, m[tree].left), GetHeight(m, m[tree].right)) + 1]

(* The child on that side becomes the root of the tree, the former root its *)
(* child on the other, and inner that one's child on the side.              *)
Opposite(side) == IF side = "left" THEN "right" ELSE "left"
SetParent(m, tree, parent) == IF tree = NoTree THEN m ELSE [m EXCEPT ![tree].parent = parent]
Turned(m, tree, side, inner) ==
    LET top == m[tree][side]
        a   == SetParent([m EXCEPT ![top].parent = m[tree].parent,
                                   ![tree].parent = top, ![tree][side] = inner], inner, tree)
        b   == [a EXCEPT ![top][Opposite(side)] = tree]
    IN  [mem |-> Measure(Measure(b, tree), top), tree |-> top]

LLRotateBare(m, tree) == Turned(m, tree, "left", NoTree)   \* mutant: the inner subtree is dropped
LLRotate(m, tree) == Turned(m, tree, "left", m[m[tree].left].right)
(* As it is written: tree->left, not root->left.                            *)
RRRotate(m, tree) == Turned(m, tree, "right", m[tree].left)

(* The double rotations turn the tree itself twice.                         *)
LRRotate(m, tree) ==
    IF m[tree].right = NoTree THEN [mem |-> m, tree |-> NoTree]   \* crash
    ELSE LET first == RRRotate(m, tree) IN LLRotate(first.mem, first.tree)
RLRotate(m, tree) ==
    IF m[tree].left = NoTree THEN [mem |-> m, tree |-> NoTree]
    ELSE LET first == LLRotate(m, tree) IN RRRotate(first.mem, first.tree)

(* Rotations that do what their names say here.                             *)
Right(m, tree, side, outer) ==
    /\ outer
    /\ side = "left" \/ m[tree].left = m[m[tree].right].left

Rotated(m, tree, side, outer) ==
    CASE side = "left"  /\ outer  -> LLRotate(m, tree)
      [] side = "left"  /\ ~outer -> LRRotate(m, tree)
      [] side = "right" /\ outer  -> RRRotate(m, tree)
      [] side = "right" /\ ~outer -> RLRotate(m, tree)

----------------------------------------------------------------------------
min_key(i) == i[1]
max_key(i) == i[2]
Overlaps(new, old) ==
    \/ min_key(new) >= min_key(old) /\ min_key(new) <= max_key(old)
    \/ max_key(new) >= min_key(old) /\ max_key(new) <= max_key(old)

NewNode(m, new) ==
    [i \in DOMAIN m \cup {new} |->
        IF i = new THEN [left |-> NoTree, right |-> NoTree, parent |-> NoTree, height |-> 0]
                   ELSE m[i]]

(* What an insertion below a pointer makes of the nodes, the pointer, and   *)
(* what it returns; right is whether it made right turns only.              *)
RECURSIVE Insert(_, _, _)
Insert(m, tree, new) ==
    IF tree = NoTree
    THEN [mem |-> NewNode(m, new), tree |-> new, ret |-> "0", right |-> TRUE]
    ELSE IF Overlaps(new, tree)
    THEN [mem |-> m, tree |-> tree, ret |-> "EEXIST", right |-> TRUE]
    ELSE
    LET side  == IF max_key(new) < min_key(tree) THEN "left" ELSE "right"
        below == Insert(m, m[tree][side], new)
        hung  == [below.mem EXCEPT ![tree][side] = below.tree, ![below.tree].parent = tree]
        outer == IF side = "left" THEN min_key(new) < min_key(below.tree) ELSE min_key(new) > min_key(below.tree)
        uneven == GetHeight(hung, below.tree) - GetHeight(hung, hung[tree][Opposite(side)]) = 2
        r     == IF uneven THEN Rotated(hung, tree, side, outer) ELSE [mem |-> hung, tree |-> tree]
    IN  IF below.ret # "0" THEN [below EXCEPT !.tree = tree]
        ELSE IF r.tree = NoTree
        THEN [mem |-> r.mem, tree |-> tree, ret |-> "crash", right |-> FALSE]
        ELSE [mem |-> Measure(r.mem, r.tree), tree |-> r.tree, ret |-> "0",
              right |-> below.right /\ (uneven => Right(hung, tree, side, outer))]

RECURSIVE FindAvlEntry(_, _, _)
FindAvlEntry(m, tree, key) ==
    IF tree = NoTree THEN NoTree
    ELSE IF key >= min_key(tree) /\ key <= max_key(tree) THEN tree
    ELSE FindAvlEntry(m, m[tree][IF key < min_key(tree) THEN "left" ELSE "right"], key)

RECURSIVE Furthest(_, _, _)
Furthest(m, tree, side) ==
    IF tree = NoTree \/ m[tree][side] = NoTree THEN tree ELSE Furthest(m, m[tree][side], side)
GetMinAvlEntry(m, tree) == Furthest(m, tree, "left")
GetMaxAvlEntry(m, tree) == Furthest(m, tree, "right")

----------------------------------------------------------------------------
AvlTypeOK ==
    /\ DOMAIN avl \subseteq Intervals
    /\ root \in DOMAIN avl \cup {NoTree}
    /\ inserted \subseteq Intervals
    /\ avl_ret \in {"0", "EEXIST", "ENOMEM", "crash"}

AvlInit ==
    /\ avl = [i \in {} |-> 0]
    /\ root = NoTree
    /\ inserted = {}
    /\ avl_ret = "0"

Covers(new, old) == min_key(new) < min_key(old) /\ max_key(old) < max_key(new)

InsertAvlEntry(new) ==
    LET r == Insert(avl, root, new)
    IN  /\ avl_ret # "crash"
        /\ SingleTurns => r.right /\ \A old \in inserted : ~Covers(new, old)
        /\ SingleTurns \/ new \notin inserted    \* a name for each node
        /\ \/ avl' = r.mem /\ root' = r.tree /\ avl_ret' = r.ret
              /\ inserted' = IF r.ret = "0" THEN inserted \cup {new} ELSE inserted
           \/ r.ret = "0" /\ avl_ret' = "ENOMEM" /\ UNCHANGED <<avl, root, inserted>>

ClearAvlTree ==
    /\ SingleTurns
    /\ avl' = [i \in {} |-> 0] /\ root' = NoTree /\ inserted' = {} /\ avl_ret' = "0"

AvlNext == ClearAvlTree \/ \E new \in Intervals : InsertAvlEntry(new)

AvlSpec == AvlInit /\ [][AvlNext]_avl_vars

----------------------------------------------------------------------------
(* Properties.                                                              *)

RECURSIVE InOrder(_)
InOrder(tree) ==
    IF tree = NoTree THEN <<>> ELSE InOrder(avl[tree].left) \o <<tree>> \o InOrder(avl[tree].right)

Keys1 == UNION {min_key(i)..max_key(i) : i \in Intervals}

(* From left to right the tree holds the entries inserted, each once and    *)
(* apart from the next; every key finds the entry it lies in; heights and   *)
(* parents are exact, and no two subtrees of a node differ by more than one *)
(* in height, although rotations reach up to the root on the way back.      *)
AvlSound ==
    LET entries == InOrder(root)
    IN  /\ Len(entries) = Cardinality(inserted)
        /\ {entries[i] : i \in DOMAIN entries} = inserted
        /\ \A i \in 2..Len(entries) : max_key(entries[i - 1]) < min_key(entries[i])
        /\ \A key \in Keys1 :
              FindAvlEntry(avl, root, key) =
                 IF \E e \in inserted : key \in min_key(e)..max_key(e)
                 THEN CHOOSE e \in inserted : key \in min_key(e)..max_key(e) ELSE NoTree
        /\ entries # <<>> => /\ GetMinAvlEntry(avl, root) = entries[1]
                             /\ GetMaxAvlEntry(avl, root) = entries[Len(entries)]
        /\ \A t \in inserted :
              /\ avl[t].height = Larger(GetHeight(avl, avl[t].left), GetHeight(avl, avl[t].right)) + 1
              /\ GetHeight(avl, avl[t].left) - GetHeight(avl, avl[t].right) \in -1..1
              /\ \A side \in {"left", "right"} :
                    avl[t][side] # NoTree => avl[avl[t][side]].parent = t
        /\ root # NoTree => avl[root].parent = NoTree

(* "Double rotation (first left, then right) for balance", says the comment *)
(* on LRRotate: whatever is inserted, the insertion returns and every entry *)
(* is found again.                                                          *)
RotationsKeepEntries ==
    /\ avl_ret # "crash"
    /\ \A e \in inserted : \E key \in min_key(e)..max_key(e) : FindAvlEntry(avl, root, key) = e
=============================================================================
