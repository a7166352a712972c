------------------------------- MODULE Lists -------------------------------
(***************************************************************************)
(* The linked structures that are not trees, each by itself: structure     *)
(* says which one is in use, and the others stay as they are initially.    *)
(***************************************************************************)
EXTENDS Slist, Dlist, HashMap, Hashtable

VARIABLE structure

lists_vars == <<structure, vars, dlist_vars, hash_vars, table_vars>>

ListsInit ==
    /\ structure \in {"slist", "dlist", "hash map", "hash table"}
    /\ Init /\ DlistInit /\ HashInit /\ TableInit
    /\ structure # "slist" => use = CHOOSE u \in Uses : TRUE    \* it plays no part

ListsNext ==
    /\ UNCHANGED structure
    /\ IF structure = "slist" THEN Next ELSE UNCHANGED vars
    /\ IF structure = "dlist" THEN DlistNext ELSE UNCHANGED dlist_vars
    /\ IF structure = "hash map" THEN HashNext ELSE UNCHANGED hash_vars
    /\ IF structure = "hash table" THEN TableNext ELSE UNCHANGED table_vars

ListsSpec == ListsInit /\ [][ListsNext]_lists_vars

(* A thread inside a call of slist.h keeps running.                         *)
FairListsSpec == ListsSpec /\ \A t \in Threads : WF_vars(Step(t))

----------------------------------------------------------------------------
(* Links point where they may, and every loop over a structure that may     *)
(* change under it is where it should be and goes on to what it has yet to  *)
(* visit: the loops of dlist.h and hlist.h whose body takes away or         *)
(* replaces the entry they stand on, and EnumHashEntry, whose routine has   *)
(* nodes deleted and inserts and removes others.                            *)
LoopsVisitAll ==
    /\ structure = "dlist" => DlistTypeOK /\ DlistWalks
    /\ structure = "hash map" => HashTypeOK /\ HashScans
    /\ structure = "hash table" => TableTypeOK /\ EnumVisits
============================================================================
