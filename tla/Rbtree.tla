------------------------------- MODULE Rbtree -------------------------------
(***************************************************************************)
(* rbtree.c and rbtree_augmented.h: linking and erasing a node, and the    *)
(* two loops that restore the colours.  Each turn of a loop is a step (the *)
(* first case of __rb_erase_color, after which the loop's variables are    *)
(* what a new turn would read, is one too), so that what the comments call *)
(* loop invariants are invariants here.                                    *)
(*                                                                         *)
(* Nodes are named by the keys their owners sort them by.  The two mirror  *)
(* images of each loop are one, with the side as a parameter.              *)
(***************************************************************************)
EXTENDS Integers, FiniteSets, Sequences

CONSTANTS
    Keys,        \* the nodes
    Weight,         \* the value in each that an augmented tree keeps the maximum of
    NULL

ASSUME RbtreeConstants ==
    /\ Keys \subseteq Int /\ IsFiniteSet(Keys)
    /\ Weight \in [Keys -> Nat]
    /\ NULL \notin Keys

VARIABLES
    tree,        \* root, and for each node child, parent, color, augmented
    loop,        \* which loop is running, if any: "none", "insert", "erase"
    cursor       \* its variables node and parent (parent is not used by "insert")

rbtree_vars == <<tree, loop, cursor>>

NodeOrNull == Keys \cup {NULL}
Sides == {"left", "right"}
Other(s) == IF s = "left" THEN "right" ELSE "left"

Trees ==
    [root : NodeOrNull, child : [Keys -> [Sides -> NodeOrNull]], parent : [Keys -> NodeOrNull],
     color : [Keys -> {"red", "black"}], augmented : [Keys -> Nat]]

(* The fields of a node that is not on the tree, as the model keeps them.   *)
Blank(t, n) ==
    [t EXCEPT !.child[n] = [s \in Sides |-> NULL], !.parent[n] = NULL,
              !.color[n] = "red", !.augmented[n] = 0]

NoCursor == [node |-> NULL, parent |-> NULL]

RbtreeInit ==
    /\ tree = [root |-> NULL, child |-> [n \in Keys |-> [s \in Sides |-> NULL]],
               parent |-> [n \in Keys |-> NULL], color |-> [n \in Keys |-> "red"],
               augmented |-> [n \in Keys |-> 0]]
    /\ loop = "none"
    /\ cursor = NoCursor

----------------------------------------------------------------------------
(* Helpers: a tree with some fields of a node assigned.                     *)

IsRed(t, n) == n # NULL /\ t.color[n] = "red"

rb_set_parent(t, n, p) == [t EXCEPT !.parent[n] = p]
rb_set_parent_color(t, n, p, c) == [t EXCEPT !.parent[n] = p, !.color[n] = c]
rb_set_black(t, n) == [t EXCEPT !.color[n] = "black"]

AdoptUncolored(t, n, p) == IF n = NULL THEN t ELSE rb_set_parent(t, n, p)    \* mutant: the child keeps its colour

(* if (tmp) rb_set_parent_color(tmp, p, RB_BLACK)                           *)
Adopt(t, n, p) == IF n = NULL THEN t ELSE rb_set_parent_color(t, n, p, "black")

__rb_change_child(t, old, new, p) ==
    IF p = NULL THEN [t EXCEPT !.root = new]
    ELSE [t EXCEPT !.child[p][IF t.child[p].left = old THEN "left" ELSE "right"] = new]

(* new gets old's parent and colour, old gets new as its parent.            *)
__rb_rotate_set_parents(t, old, new, c) ==
    LET p == t.parent[old]
        u == rb_set_parent_color(t, new, p, t.color[old])
    IN  __rb_change_child(rb_set_parent_color(u, old, new, c), old, new, p)

(* The two pointers every rotation assigns: x, p's child on side s, takes p *)
(* as its other child, and p takes over the one x had there.                *)
Swing(t, p, x, s) ==
    [t EXCEPT !.child[p][s] = t.child[x][Other(s)], !.child[x][Other(s)] = p]

----------------------------------------------------------------------------
(* The callbacks RB_DECLARE_CALLBACKS makes, for the maximum of a value.    *)

Largest(a, b) == IF a >= b THEN a ELSE b

augment_recompute(t, n) ==
    LET of(s) == IF t.child[n][s] = NULL THEN 0 ELSE t.augmented[t.child[n][s]]
    IN  Largest(Weight[n], Largest(of("left"), of("right")))

augment_copy(t, old, new) == [t EXCEPT !.augmented[new] = t.augmented[old]]

augment_rotate(t, old, new) ==
    LET u == augment_copy(t, old, new)
    IN  [u EXCEPT !.augmented[old] = augment_recompute(u, old)]

(* Upwards from rb until stop, or until a value is right already.           *)
augment_propagate(t, rb, stop) ==
    LET After[k \in 0..Cardinality(Keys)] ==
          IF k = 0 THEN [t |-> t, rb |-> rb]
          ELSE LET now == After[k - 1]
                   new == augment_recompute(now.t, now.rb)
               IN  IF now.rb = stop \/ now.t.augmented[now.rb] = new
                     THEN [now EXCEPT !.rb = stop]
                     ELSE [t  |-> [now.t EXCEPT !.augmented[now.rb] = new],
                           rb |-> now.t.parent[now.rb]]
    IN  After[Cardinality(Keys)].t

(* What the caller of rb_insert_augmented does on its way down to p.        *)
Raise(t, p, v) ==
    LET Path[n \in NodeOrNull] == IF n = NULL THEN {} ELSE {n} \cup Path[t.parent[n]]
    IN  [t EXCEPT !.augmented = [n \in Keys |-> IF n \in Path[p] THEN Largest(@[n], v) ELSE @[n]]]

----------------------------------------------------------------------------
(* Walking the tree.                                                        *)

(* Down from n towards s as far as it goes.                                 *)
Outermost(t, n, s) ==
    LET Down[m \in Keys] == IF t.child[m][s] = NULL THEN m ELSE Down[t.child[m][s]]
    IN  Down[n]

rb_first(t) == IF t.root = NULL THEN NULL ELSE Outermost(t, t.root, "left")
rb_last(t) == IF t.root = NULL THEN NULL ELSE Outermost(t, t.root, "right")

UpOnce(t, n, s) ==    \* mutant: the first ancestor is taken, whichever side
    IF t.child[n][s] # NULL THEN Outermost(t, t.child[n][s], Other(s)) ELSE t.parent[n]

(* The next node on side s: the innermost one of that side's subtree, or    *)
(* the first ancestor that is reached from its other side.                  *)
Neighbour(t, n, s) ==
    LET Up[m \in Keys] ==
          LET p == t.parent[m]
          IN  IF p # NULL /\ t.child[p][s] = m THEN Up[p] ELSE p
    IN  IF t.child[n][s] # NULL THEN Outermost(t, t.child[n][s], Other(s)) ELSE Up[n]

rb_next(t, n) == Neighbour(t, n, "right")
rb_prev(t, n) == Neighbour(t, n, "left")

----------------------------------------------------------------------------
(* Insertion.                                                               *)

(* The owner has found p, whose child on side s is NULL; or p is NULL and   *)
(* the tree is empty.  Then __rb_insert starts.                             *)
rb_link_node(n, p, s) ==
    LET t == Raise(tree, p, Weight[n])
        u == [Blank(t, n) EXCEPT !.parent[n] = p, !.augmented[n] = Weight[n]]
    IN  /\ tree' = IF p = NULL THEN [u EXCEPT !.root = n] ELSE [u EXCEPT !.child[p][s] = n]
        /\ loop' = "insert"
        /\ cursor' = [node |-> n, parent |-> NULL]

LeaveLoop == loop' = "none" /\ cursor' = NoCursor

Node == cursor.node
Parent == tree.parent[Node]
Grandparent == tree.parent[Parent]
SideOf(t, p, n) == IF t.child[p].right # n THEN "left" ELSE "right"
ParentSide == SideOf(tree, Grandparent, Parent)
Uncle == tree.child[Grandparent][Other(ParentSide)]

InsertAtRoot ==
    /\ loop = "insert"
    /\ Parent = NULL
    /\ tree' = rb_set_parent_color(tree, Node, NULL, "black")
    /\ LeaveLoop

InsertUnderBlack ==
    /\ loop = "insert"
    /\ Parent # NULL /\ ~IsRed(tree, Parent)
    /\ LeaveLoop
    /\ UNCHANGED tree

InsertFlip ==   \* case 1
    /\ loop = "insert"
    /\ IsRed(tree, Parent) /\ IsRed(tree, Uncle)
    /\ tree' = [tree EXCEPT !.color[Uncle] = "black", !.color[Parent] = "black",
                            !.color[Grandparent] = "red"]
    /\ cursor' = [cursor EXCEPT !.node = Grandparent]
    /\ UNCHANGED loop

(* Case 2 leaves the node where its parent was.                             *)
Straighten(t, n, p, s) ==
    LET u == Swing(t, p, n, Other(s))
        v == rb_set_parent_color(Adopt(u, u.child[p][Other(s)], p), p, n, "red")
    IN  augment_rotate(v, p, n)

InsertRotate ==   \* cases 2 and 3
    /\ loop = "insert"
    /\ IsRed(tree, Parent) /\ ~IsRed(tree, Uncle)
    /\ LET g == Grandparent
           s == ParentSide
           bent == Node = tree.child[Parent][Other(s)]
           t == IF bent THEN Straighten(tree, Node, Parent, s) ELSE tree
           top == IF bent THEN Node ELSE Parent
           u == Swing(t, g, top, s)
           v == __rb_rotate_set_parents(Adopt(u, u.child[g][s], g), g, top, "red")
       IN  tree' = augment_rotate(v, g, top)
    /\ LeaveLoop

----------------------------------------------------------------------------
(* Erasure.                                                                 *)

(* Where __rb_erase_color has to start, if at all.                          *)
Rebalance(p) ==
    IF p = NULL THEN LeaveLoop
    ELSE loop' = "erase" /\ cursor' = [node |-> NULL, parent |-> p]

(* Case 1: n has at most the one child c, which takes its place.            *)
EraseSimple(n, c) ==
    LET p == tree.parent[n]
        t == __rb_change_child(tree, n, c, p)
        u == IF c = NULL THEN t ELSE rb_set_parent_color(t, c, p, tree.color[n])
    IN  /\ tree' = augment_propagate(u, p, NULL)
        /\ Rebalance(IF c = NULL /\ ~IsRed(tree, n) THEN p ELSE NULL)

(* Cases 2 and 3: the successor x, whose right child is c, takes its place. *)
(* In case 3, x is not n's child, and leaves its old place under y first.   *)
UnhookChildless(n, x) ==    \* mutant: x's right child is forgotten
    LET y == tree.parent[x]
        r == tree.child[n].right
        t == [tree EXCEPT !.child[y].left = NULL, !.child[x].right = r, !.parent[r] = x]
    IN  IF x = r THEN augment_copy(tree, n, x)
        ELSE augment_propagate(augment_copy(t, n, x), y, x)
Unhook(n, x) ==
    LET y == tree.parent[x]
        r == tree.child[n].right
        t == [tree EXCEPT !.child[y].left = tree.child[x].right, !.child[x].right = r,
                          !.parent[r] = x]
    IN  IF x = r THEN augment_copy(tree, n, x)
        ELSE augment_propagate(augment_copy(t, n, x), y, x)

EraseWithSuccessor(n) ==
    LET x == Outermost(tree, tree.child[n].right, "left")
        y == IF x = tree.child[n].right THEN x ELSE tree.parent[x]
        c == tree.child[x].right
        l == tree.child[n].left
        t == [Unhook(n, x) EXCEPT !.child[x].left = l, !.parent[l] = x]
        u == __rb_change_child(t, n, x, tree.parent[n])
        v == rb_set_parent_color(u, x, tree.parent[n], tree.color[n])
    IN  /\ tree' = augment_propagate(Adopt(v, c, y), x, NULL)
        /\ Rebalance(IF c = NULL /\ ~IsRed(tree, x) THEN y ELSE NULL)

rb_erase(n) ==
    IF tree.child[n].left = NULL THEN EraseSimple(n, tree.child[n].right)
    ELSE IF tree.child[n].right = NULL THEN EraseSimple(n, tree.child[n].left)
    ELSE EraseWithSuccessor(n)

(* __rb_erase_color                                                         *)
Under == cursor.parent
ShortSide == SideOf(tree, Under, cursor.node)
Sibling == tree.child[Under][Other(ShortSide)]
Outer == tree.child[Sibling][Other(ShortSide)]
Inner == tree.child[Sibling][ShortSide]

EraseUnderRed ==   \* case 1
    /\ loop = "erase"
    /\ IsRed(tree, Sibling)
    /\ LET t == Swing(tree, Under, Sibling, Other(ShortSide))
           u == rb_set_parent_color(t, Inner, Under, "black")
       IN  tree' = augment_rotate(__rb_rotate_set_parents(u, Under, Sibling, "red"), Under, Sibling)
    /\ UNCHANGED <<loop, cursor>>

EraseFlipStays ==   \* mutant: the loop does not move up
    /\ loop = "erase"
    /\ ~IsRed(tree, Sibling) /\ ~IsRed(tree, Outer) /\ ~IsRed(tree, Inner)
    /\ LET t == rb_set_parent_color(tree, Sibling, Under, "red")
       IN  tree' = IF IsRed(t, Under) THEN rb_set_black(t, Under) ELSE t
    /\ IF IsRed(tree, Under) THEN LeaveLoop ELSE UNCHANGED <<loop, cursor>>

EraseFlip ==   \* case 2
    /\ loop = "erase"
    /\ ~IsRed(tree, Sibling) /\ ~IsRed(tree, Outer) /\ ~IsRed(tree, Inner)
    /\ LET t == rb_set_parent_color(tree, Sibling, Under, "red")
       IN  tree' = IF IsRed(t, Under) THEN rb_set_black(t, Under) ELSE t
    /\ IF IsRed(tree, Under) \/ tree.parent[Under] = NULL
         THEN LeaveLoop
         ELSE cursor' = [node |-> Under, parent |-> tree.parent[Under]] /\ UNCHANGED loop

(* Case 3: the inner nephew i comes between the sibling b and p.            *)
Widen(t, p, b, i, s) ==
    LET u == [Swing(t, b, i, s) EXCEPT !.child[p][Other(s)] = i]
    IN  augment_rotate(Adopt(u, u.child[b][s], b), b, i)

EraseRotate ==   \* cases 3 and 4
    /\ loop = "erase"
    /\ ~IsRed(tree, Sibling) /\ (IsRed(tree, Outer) \/ IsRed(tree, Inner))
    /\ LET p == Under
           s == ShortSide
           narrow == ~IsRed(tree, Outer)
           t == IF narrow THEN Widen(tree, p, Sibling, Inner, s) ELSE tree
           b == IF narrow THEN Inner ELSE Sibling
           u == Swing(t, p, b, Other(s))
           v == rb_set_parent_color(u, IF narrow THEN Sibling ELSE Outer, b, "black")
           c == v.child[p][Other(s)]
           w == IF c = NULL THEN v ELSE rb_set_parent(v, c, p)
       IN  tree' = augment_rotate(__rb_rotate_set_parents(w, p, b, "black"), p, b)
    /\ LeaveLoop

(* One turn of whichever loop is running.                                   *)
Turn ==
    \/ InsertAtRoot \/ InsertUnderBlack \/ InsertFlip \/ InsertRotate
    \/ EraseUnderRed \/ EraseFlip \/ EraseRotate

----------------------------------------------------------------------------
(* Replacing a node by one that its owner keeps at the same place.          *)
rb_replace_node(victim, new) ==
    LET p == tree.parent[victim]
        adopt(t, c) == IF c = NULL THEN t ELSE rb_set_parent(t, c, new)
        t == __rb_change_child(tree, victim, new, p)
        u == adopt(adopt(t, t.child[victim].left), t.child[victim].right)
    IN  [u EXCEPT !.child[new] = u.child[victim], !.parent[new] = p,
                  !.color[new] = u.color[victim]]

----------------------------------------------------------------------------
(* Properties.  The depth bounds a traversal of a tree that is none.        *)

Depth == 0..Cardinality(Keys)

Sorted[n \in NodeOrNull, d \in Depth] ==
    IF n = NULL \/ d = 0 THEN <<>>
    ELSE Sorted[tree.child[n].left, d - 1] \o <<n>> \o Sorted[tree.child[n].right, d - 1]

Contents == Sorted[tree.root, Cardinality(Keys)]
OnTree == LET c == Contents IN {c[i] : i \in DOMAIN c}

(* The numbers of black nodes on the paths down from n, a missing one       *)
(* counted where __rb_erase_color says it is.                               *)
BlackDepths[n \in NodeOrNull, d \in Depth] ==
    IF n = NULL \/ d = 0 THEN {0}
    ELSE {b + (IF IsRed(tree, n) THEN 0 ELSE 1) : b \in UNION
            {{b + (IF loop = "erase" /\ n = Under /\ s = ShortSide THEN 1 ELSE 0) :
                  b \in BlackDepths[tree.child[n][s], d - 1]} : s \in Sides}}

RbtreeTypeOK ==
    /\ tree \in Trees
    /\ loop \in {"none", "insert", "erase"}
    /\ cursor \in [node : NodeOrNull, parent : NodeOrNull]
    /\ (loop = "insert") => cursor.node # NULL
    /\ (loop = "erase") => cursor.parent # NULL

(* After every call and every turn of a loop in between, the nodes are in   *)
(* order, each is there once, and the pointers up and down agree.           *)
SearchTree ==
    /\ LET c == Contents IN \A i \in 2..Len(c) : c[i - 1] < c[i]
    /\ tree.root # NULL => tree.parent[tree.root] = NULL
    /\ \A n \in OnTree, s \in Sides :
          tree.child[n][s] # NULL => tree.parent[tree.child[n][s]] = n

(* It is a search tree, with the colours of rbtree_test.c's check(), and in *)
(* between what the loops' comments claim: "node is red" and is all that is *)
(* wrong while inserting; "node is black" and "all leaf paths going through *)
(* parent and node have a black node count that is 1 lower" while erasing.  *)
(* And, as in check_augmented(), the callbacks keep each maximum right,     *)
(* although propagation stops at the first value that does not change.      *)
RedBlackTree ==
    /\ SearchTree
    /\ \A n \in OnTree : tree.augmented[n] = augment_recompute(tree, n)
    /\ Cardinality(BlackDepths[tree.root, Cardinality(Keys)]) = 1
    /\ \A n \in OnTree :
          IsRed(tree, n) /\ (tree.parent[n] = NULL \/ IsRed(tree, tree.parent[n]))
              => loop = "insert" /\ n = Node
    /\ loop = "insert" => IsRed(tree, Node)
    /\ loop = "erase" => ~IsRed(tree, cursor.node)

(* Both loops end: a turn that is not the last takes the insertion up the   *)
(* tree, and the erasure up or, in case 1, to a red parent, under which the *)
(* next turn is the last.                                                   *)
DepthOf(n) ==
    LET Up[m \in NodeOrNull] == IF m = NULL THEN 0 ELSE 1 + Up[tree.parent[m]] IN Up[n]
Rank == IF loop = "insert" THEN DepthOf(Node) ELSE IF IsRed(tree, Under) THEN 0 ELSE DepthOf(Under)
LoopsEnd == [][loop # "none" /\ loop' = loop => Rank' < Rank]_rbtree_vars
============================================================================
