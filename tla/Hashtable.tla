----------------------------- MODULE Hashtable -----------------------------
(***************************************************************************)
(* hashtable.cpp: nodes in the ring of their bucket, in the ring of all    *)
(* nodes (FastList), and in the ring of their brothers, with pointers from *)
(* a parent to its newest child and back.  An id stands for its node, as   *)
(* the table holds one per id; an unused node is linked to itself.         *)
(* Enumeration is a step per callback and per turn, other calls are whole. *)
(***************************************************************************)
EXTENDS Integers, Sequences, FiniteSets

CONSTANTS
    NumberOfBurkets,
    Ids,           \* the values of idNode
    DataOf(_),     \* the data an id may be given
    NOBODY,        \* the null pointer
    WILD           \* a pointer into the middle of a node

ASSUME HashtableConstants ==
    /\ NumberOfBurkets \in Nat \ {0} /\ Ids \subseteq Nat /\ IsFiniteSet(Ids)
    /\ NOBODY # WILD /\ {NOBODY, WILD} \cap Ids = {}

VARIABLES
    rings,         \* Flink and Blink of every listentry_t
    family,        \* Child and Parent
    content,       \* the data of the nodes in use
    NumberOfNode,
    enum,          \* EnumHashEntry in progress: pNode's entry, and (history) rest, the
                   \* entries it has yet to call the routine for, that one first
    answer         \* what the last call returned

table_vars == <<rings, family, content, NumberOfNode, enum, answer>>

Burket(id) == <<"Burket", id % NumberOfBurkets>>
FastList == <<"FastList", 0>>
Entry(id) == <<"Entry", id>>
FastEntry(id) == <<"FastEntry", id>>
BrotherEntry(id) == <<"BrotherEntry", id>>
Spots == {FastList} \cup {Burket(i) : i \in 0..(NumberOfBurkets - 1)}
         \cup {<<link, id>> : link \in {"Entry", "FastEntry", "BrotherEntry"}, id \in Ids}

LinkIn(L, x, list) ==
    [L EXCEPT !.Flink[x] = L.Flink[list], !.Blink[x] = list,
              !.Blink[L.Flink[list]] = x, !.Flink[list] = x]
UnlinkForward(L, x) ==      \* mutant: the next node keeps its Blink
    [L EXCEPT !.Flink[L.Blink[x]] = L.Flink[x], !.Flink[x] = x, !.Blink[x] = x]
Unlink(L, x) ==
    LET M == [L EXCEPT !.Flink[L.Blink[x]] = L.Flink[x], !.Blink[L.Flink[x]] = L.Blink[x]]
    IN  [M EXCEPT !.Flink[x] = x, !.Blink[x] = x]

(* The ids on a ring behind a place, up to another.                         *)
Walk(way, to) ==
    LET walk[n \in 0..(Cardinality(Ids) + 1)] ==
            [x \in Spots |-> IF x = to \/ n = 0 THEN <<>> ELSE <<x[2]>> \o walk[n - 1][rings[way][x]]]
    IN  walk
Ring(way, from, to) == Walk(way, to)[Cardinality(Ids) + 1][rings[way][from]]
Fast == Ring("Flink", FastList, FastList)
IdsIn(s) == {s[i] : i \in DOMAIN s}

Search(id) == id \in IdsIn(Ring("Flink", Burket(id), Burket(id)))
FindHashEntry(id) == IF Search(id) THEN content[id] ELSE NOBODY
Held == {id \in Ids : Search(id)}

NoEnum == [rest |-> <<>>]

TableTypeOK ==
    /\ rings \in [{"Flink", "Blink"} -> [Spots -> Spots]]
    /\ family \in [{"Child", "Parent"} -> [Ids -> Ids \cup {NOBODY, WILD}]]
    /\ \A id \in Ids : content[id] \in DataOf(id) \cup {NOBODY}
    /\ NumberOfNode \in 0..Cardinality(Ids)
    /\ enum = NoEnum \/ enum.pNode \in Ids

TableInit ==     \* CreateHashTable
    /\ rings = [way \in {"Flink", "Blink"} |-> [x \in Spots |-> x]]
    /\ family = [f \in {"Child", "Parent"} |-> [id \in Ids |-> NOBODY]]
    /\ content = [id \in Ids |-> NOBODY]
    /\ NumberOfNode = 0
    /\ enum = NoEnum
    /\ answer = "ok"

----------------------------------------------------------------------------
(* The node malloc made is not freed when the id exists.                    *)
InsertHashEntry(id, data) ==
    /\ UNCHANGED <<family, enum>>
    /\ \/ answer' = "ENOMEM" /\ UNCHANGED <<rings, content, NumberOfNode>>
       \/ Search(id) /\ answer' = "EEXIST" /\ UNCHANGED <<rings, content, NumberOfNode>>
       \/ /\ ~Search(id)
          /\ rings' = LinkIn(LinkIn(rings, Entry(id), Burket(id)), FastEntry(id), FastList)
          /\ content' = [content EXCEPT ![id] = data]
          /\ NumberOfNode' = NumberOfNode + 1
          /\ answer' = "ok"

(* Its brothers, parent and children keep pointing to a node that is freed; *)
(* callers undo the relations first.                                        *)
Single(id) ==
    /\ family.Parent[id] = NOBODY
    /\ rings.Flink[BrotherEntry(id)] = BrotherEntry(id)
    /\ \A child \in Ids : family.Parent[child] # id
Discard(id) ==
    /\ rings' = Unlink(Unlink(rings, Entry(id)), FastEntry(id))
    /\ family' = [family EXCEPT !.Child[id] = NOBODY]
    /\ content' = [content EXCEPT ![id] = NOBODY]
    /\ NumberOfNode' = NumberOfNode - 1

Without(s, id) ==
    IF id \notin IdsIn(s) THEN s
    ELSE LET i == CHOOSE i \in DOMAIN s : s[i] = id
         IN  SubSeq(s, 1, i - 1) \o SubSeq(s, i + 1, Len(s))
RemoveHashEntry(id) ==
    /\ \/ /\ ~Search(id)
          /\ answer' = "ENOENT"
          /\ UNCHANGED <<rings, family, content, NumberOfNode, enum>>
       \/ /\ Search(id) /\ Single(id)
          /\ Discard(id)
          /\ enum' = [enum EXCEPT !.rest = Without(@, id)]
          /\ answer' = "ok"

(* Every node is unlinked and freed, whoever points to it.                  *)
ClearHashTable ==
    /\ rings' = [way \in {"Flink", "Blink"} |-> [x \in Spots |-> x]]
    /\ family' = [f \in {"Child", "Parent"} |-> [id \in Ids |-> NOBODY]]
    /\ content' = [id \in Ids |-> NOBODY]
    /\ NumberOfNode' = NumberOfNode - Len(Fast)
    /\ answer' = "ok"
    /\ UNCHANGED enum

AreHeld(parent, child) == Search(parent) /\ Search(child)

(* With an id that is missing, nothing happens.  Where a wild pointer is    *)
(* taken for the newest child, its BrotherEntry is the idNode and DataSize  *)
(* behind the real one, and Flink->Blink a write to them as an address.     *)
AddChildHashEntry(parent, child) ==
    /\ UNCHANGED <<content, NumberOfNode, enum>>
    /\ LET first == family.Child[parent]
           Relate ==
              /\ answer' = "ok"
              /\ family' = [family EXCEPT !.Child[parent] = child, !.Parent[child] = parent]
              /\ rings' = LinkIn(rings, BrotherEntry(child),
                                 BrotherEntry(IF first = NOBODY THEN child ELSE first))
       IN  \/ answer' = "ok" /\ UNCHANGED <<rings, family>> /\ ~AreHeld(parent, child)
           \/ first = WILD /\ answer' = "fault" /\ UNCHANGED <<rings, family>> /\ AreHeld(parent, child)
           \/ first # WILD /\ Relate /\ AreHeld(parent, child)

NewestStays(child) == child     \* mutant: the removed child stays the newest
(* The cast makes a pointer to the brother's BrotherEntry one to a node.    *)
NewestLeft(child) == IF rings.Flink[BrotherEntry(child)] = BrotherEntry(child) THEN NOBODY ELSE WILD
RemoveChildHashEntry(parent, child) ==
    /\ answer' = "ok"
    /\ UNCHANGED <<content, NumberOfNode, enum>>
    /\ \/ UNCHANGED <<rings, family>> /\ ~AreHeld(parent, child)
       \/ /\ family' = [family EXCEPT
                  !.Child[parent] = IF @ = child THEN NewestLeft(child) ELSE @,
                  !.Parent[child] = NOBODY]
          /\ rings' = Unlink(rings, BrotherEntry(child))
          /\ AreHeld(parent, child)

(* Through a wild pointer it counts on until it faults.                     *)
GetChildHashEntryCount(id) ==
    LET first == family.Child[id]
    IN  IF ~Search(id) \/ first = NOBODY THEN 0
        ELSE IF first = WILD THEN WILD
        ELSE 1 + Len(Ring("Flink", BrotherEntry(first), BrotherEntry(first)))

----------------------------------------------------------------------------
(* EnumHashEntry.  The routine may insert nodes and remove others than the  *)
(* one it was called for; pNode moves on when it has returned.              *)
EnumHashEntry ==
    /\ enum = NoEnum /\ Fast # <<>>
    /\ enum' = [pNode |-> rings.Flink[FastList][2], rest |-> Fast]
    /\ answer' = "ok"
    /\ UNCHANGED <<rings, family, content, NumberOfNode>>

FastNext(L, id) == L.Flink[FastEntry(id)]
EnumTurnOn(L, goes) ==
    enum' = IF ~goes \/ FastNext(L, enum.pNode) = FastList THEN NoEnum
            ELSE [pNode |-> FastNext(L, enum.pNode)[2], rest |-> Tail(enum.rest)]

EnumKeep(goes) ==
    /\ enum # NoEnum
    /\ EnumTurnOn(rings, goes)
    /\ UNCHANGED <<rings, family, content, NumberOfNode, answer>>
EnumDelete(goes) ==
    /\ enum # NoEnum /\ Single(enum.pNode)
    /\ Discard(enum.pNode)
    /\ EnumTurnOn(rings, goes)
    /\ answer' = "ok"

BeingVisited == IF enum = NoEnum THEN {} ELSE {enum.pNode}

(* After a fault there is nothing more to do.                               *)
Faulted == answer = "fault" /\ UNCHANGED table_vars

(* A child has one parent, another node: callers relate one that has none,  *)
(* and dissolve a relation that exists, or is dissolved already.            *)
TableNext ==
    \/ /\ answer # "fault"
       /\ \/ \E id \in Ids, data \in UNION {DataOf(id) : id \in Ids} :
                data \in DataOf(id) /\ InsertHashEntry(id, data)
          \/ \E id \in Ids \ BeingVisited : RemoveHashEntry(id)
          \/ enum = NoEnum /\ ClearHashTable
          \/ \E child \in Ids : \E parent \in Ids \ {child} :
                \/ family.Parent[child] = NOBODY /\ AddChildHashEntry(parent, child)
                \/ family.Parent[child] \in {parent, NOBODY} /\ RemoveChildHashEntry(parent, child)
          \/ EnumHashEntry
          \/ \E goes \in BOOLEAN : EnumKeep(goes) \/ EnumDelete(goes)
    \/ Faulted

TableSpec == TableInit /\ [][TableNext]_table_vars

----------------------------------------------------------------------------
(* Properties.                                                              *)

Table == [name \in {"table"} |-> {[key |-> id, val |-> FindHashEntry(id)] : id \in Held}]
TablePromise == INSTANCE DictionaryPromise WITH
    Names <- {"table"}, Keys <- Ids, ValsOf <- DataOf, Rekeys <- FALSE, result <- answer, dict <- Table

EnumDeletes(id) == enum # NoEnum /\ id = enum.pNode /\ \E goes \in BOOLEAN : EnumDelete(goes)
Relates ==
    \/ \E parent, child \in Ids : AddChildHashEntry(parent, child) \/ RemoveChildHashEntry(parent, child)
    \/ EnumHashEntry \/ \E goes \in BOOLEAN : EnumKeep(goes)

Promised ==
    \E old \in {Table}, new \in {Table'} :
        \/ \E id \in Ids : \E data \in DataOf(id) :
              TablePromise!Insert(old, new, "table", id, data) /\ InsertHashEntry(id, data)
        \/ \E id \in Ids : TablePromise!Remove(old, new, "table", id) /\ (RemoveHashEntry(id) \/ EnumDeletes(id))
        \/ TablePromise!Clear(old, new, "table") /\ ClearHashTable
        \/ (TablePromise!Same(old, new) \/ (new = old /\ answer' = "fault")) /\ Relates

(* What FindHashEntry finds is a dictionary.  An insertion adds the node of *)
(* its id, or is refused or fails and adds nothing; a removal takes the     *)
(* node of its id and no other, and so does an enumeration that deletes,    *)
(* with the node it stands on; relating nodes, with a wild pointer or not,  *)
(* and enumerating them take and add none.                                  *)
HashtableKeepsPromise ==
    TablePromise!PromiseInit /\ [][table_vars' # table_vars => Promised]_table_vars

(* The buckets, the list of all nodes in both directions, and the count     *)
(* hold the same nodes.                                                     *)
SameNodes ==
    /\ IdsIn(Fast) = Held /\ Len(Fast) = Cardinality(Held)
    /\ NumberOfNode = Cardinality(Held)
    /\ \A i \in DOMAIN Fast : Ring("Blink", FastList, FastList)[i] = Fast[Len(Fast) + 1 - i]

Brothers(c) == IdsIn(Ring("Flink", BrotherEntry(c), BrotherEntry(c)))
ChildrenOf(id) == {c \in Held : family.Parent[c] = id}

(* The buckets, the list of all nodes and the count agree, whatever calls   *)
(* insert and remove.  The nodes with the same parent form one ring.  The   *)
(* parent's Child is on it, and GetChildHashEntryCount is right; or Child   *)
(* is wild, where the newest of several children was removed; or there is   *)
(* no child.                                                                *)
FamiliesTogether ==
    /\ SameNodes
    /\ \A id \in Held :
        LET children == ChildrenOf(id)
            first    == family.Child[id]
        IN  /\ first \in children \cup {NOBODY, WILD}
            /\ first = NOBODY => children = {}
            /\ first \in children => GetChildHashEntryCount(id) = Cardinality(children)
            /\ \A c \in children : children = {c} \cup Brothers(c)

(* GetChildHashEntryCount is said to count the children of a node.          *)
ChildrenCounted == \A id \in Held : GetChildHashEntryCount(id) = Cardinality(ChildrenOf(id))

(* The enumeration is at the node it should call the routine for next, and  *)
(* what lies ahead of it is what it started with, less what was removed.    *)
EnumVisits ==
    enum # NoEnum =>
        <<enum.pNode>> \o Ring("Flink", FastEntry(enum.pNode), FastList) = enum.rest
=============================================================================
