----------------------------- MODULE Containers -----------------------------
(***************************************************************************)
(* The structures that need few states, each by itself: part says which    *)
(* one is in use, and the others stay as they are initially.               *)
(***************************************************************************)
EXTENDS KfifoSetup, KfifoSgl, Fifo, Rblist, Btree, Avltree

VARIABLE part

vars == <<part, setup_vars, sgl_vars, fifo_vars, rblist_vars, btree_vars, avl_vars>>

Parts == {"kfifo sizes", "kfifo scatterlist", "fifo", "rblist", "btree", "avl tree"}

Init ==
    /\ part \in Parts
    /\ SetupInit /\ SglInit /\ FifoInit /\ RblistInit /\ BtreeInit /\ AvlInit
    /\ part # "btree" => \A g \in Geometries : no_pairs <= g   \* it plays no part

Next ==
    /\ UNCHANGED part
    /\ IF part = "kfifo sizes" THEN SetupNext ELSE UNCHANGED setup_vars
    /\ IF part = "kfifo scatterlist" THEN SglNext ELSE UNCHANGED sgl_vars
    /\ IF part = "fifo" THEN FifoNext ELSE UNCHANGED fifo_vars
    /\ IF part = "rblist" THEN RblistNext ELSE UNCHANGED rblist_vars
    /\ IF part = "btree" THEN BtreeNext ELSE UNCHANGED btree_vars
    /\ IF part = "avl tree" THEN AvlNext ELSE UNCHANGED avl_vars

Spec == Init /\ [][Next]_vars

----------------------------------------------------------------------------
(* The type invariant.  Some bounds are the code's to keep: indices within  *)
(* the width of an unsigned int or the table, nodes within their slots.     *)
TypeOK ==
    /\ part \in Parts
    /\ CASE part = "kfifo sizes"       -> SetupTypeOK
         [] part = "kfifo scatterlist" -> SglTypeOK
         [] part = "fifo"              -> FifoTypeOK
         [] part = "rblist"            -> RblistTypeOK
         [] part = "btree"             -> BtreeTypeOK
         [] part = "avl tree"          -> AvlTypeOK
============================================================================
