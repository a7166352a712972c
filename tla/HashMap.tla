------------------------------ MODULE HashMap ------------------------------
(***************************************************************************)
(* hlist.h and the hash maps of hash_map.h on it.  A node points back at   *)
(* the pointer that points to it (pprev), which is the head's first or     *)
(* another node's next.  Here both are next, of the head or of the node,   *)
(* and pprev names the one or the other.                                   *)
(***************************************************************************)
EXTENDS Naturals, Sequences, FiniteSets

CONSTANTS
    Maps,
    Buckets,     \* HASH_BURKET_SIZE
    HKeys,       \* the keys, uint32_t
    HNodes,      \* hash_map_node_t
    NOWHERE      \* the null pointer

ASSUME HashMapConstants ==
    Buckets \in Nat \ {0} /\ HKeys \subseteq Nat

VARIABLES
    chain,      \* next and pprev
    key,        \* of each node
    scan,       \* the safe loop in progress: c, n, and (history) rest, what is left to visit
    hcall       \* the last call (history)

hash_vars == <<chain, key, scan, hcall>>

HHeads == Maps \X (0..(Buckets - 1))
ADDRESS_OF_N == <<>>       \* what hlist_del stores in pprev: the address of its parameter

HTABLE_INDEX(h, s) == h % s          \* h & (s - 1), s a power of two
htable_burket(m, k) == <<m, HTABLE_INDEX(k, Buckets)>>

hlist_unhashed(C, n) == C.pprev[n] = NOWHERE
Back(C, n, pprev) == IF n = NOWHERE THEN C ELSE [C EXCEPT !.pprev[n] = pprev]
INIT_HLIST_NODE(C, n) == [C EXCEPT !.next[n] = NOWHERE, !.pprev[n] = NOWHERE]

unlink_forward(C, n) == [C EXCEPT !.next[C.pprev[n]] = C.next[n]]   \* mutant: pprev of the next stays
__hlist_del(C, n) == Back([C EXCEPT !.next[C.pprev[n]] = C.next[n]], C.next[n], C.pprev[n])
hlist_del(C, n) ==
    LET D == __hlist_del(C, n) IN [D EXCEPT !.next[n] = n, !.pprev[n] = ADDRESS_OF_N]
hlist_del_init(C, n) ==
    IF hlist_unhashed(C, n) THEN C ELSE INIT_HLIST_NODE(__hlist_del(C, n), n)

hlist_add_head(C, n, h) ==
    LET D == Back([C EXCEPT !.next[n] = C.next[h]], C.next[h], n)
    IN  [D EXCEPT !.next[h] = n, !.pprev[n] = h]
hlist_add_before(C, n, next) ==
    [C EXCEPT !.pprev[n] = C.pprev[next], !.next[n] = next, !.pprev[next] = n,
              !.next[C.pprev[next]] = n]
(* The second argument is the new one.                                      *)
hlist_add_after(C, n, next) ==
    Back([C EXCEPT !.next[next] = C.next[n], !.next[n] = next, !.pprev[next] = n],
         C.next[n], next)
hlist_add_fake(C, n) == [C EXCEPT !.pprev[n] = n]
hlist_move_list(C, old, to) ==
    LET D == Back([C EXCEPT !.next[to] = C.next[old]], C.next[old], to)
    IN  [D EXCEPT !.next[old] = NOWHERE]

----------------------------------------------------------------------------
(* The nodes behind a head or a node.                                       *)
hlist_for_each(C, pos) ==
    LET most == Cardinality(HNodes) + 1
        walk[i \in 0..most, n \in HNodes \cup {NOWHERE}] ==
            IF n = NOWHERE \/ i = 0 THEN <<>> ELSE <<n>> \o walk[i - 1, C.next[n]]
    IN  walk[most, C.next[pos]]

Chain(head) == hlist_for_each(chain, head)
InChain(head) == {Chain(head)[i] : i \in DOMAIN Chain(head)}
Hashed == UNION {InChain(head) : head \in HHeads}
Unhashed == HNodes \ Hashed

FirstWith(s, k) ==
    LET hits == {i \in DOMAIN s : key[s[i]] = k}
    IN  IF hits = {} THEN NOWHERE ELSE s[CHOOSE i \in hits : \A j \in hits : i <= j]
hash_map_find(m, k) == FirstWith(Chain(htable_burket(m, k)), k)

NoScan == [rest |-> <<>>]

HashTypeOK ==
    /\ chain.next \in [HHeads \cup HNodes -> HNodes \cup {NOWHERE}]
    /\ chain.pprev \in [HNodes -> HHeads \cup HNodes \cup {NOWHERE, ADDRESS_OF_N}]
    /\ key \in [HNodes -> HKeys]
    /\ scan = NoScan \/ {scan.c, scan.n} \subseteq HNodes \cup {NOWHERE}

HashInit ==     \* hash_map_init, and nodes after INIT_HLIST_NODE
    /\ chain = [next |-> [x \in HHeads \cup HNodes |-> NOWHERE], pprev |-> [n \in HNodes |-> NOWHERE]]
    /\ key \in {[n \in HNodes |-> k] : k \in {CHOOSE k \in HKeys : TRUE}}
    /\ scan = NoScan
    /\ hcall = [op |-> "nothing"]

----------------------------------------------------------------------------
HashCall(c, C) == scan = NoScan /\ chain' = C /\ hcall' = c /\ UNCHANGED scan

hash_map_insert(m, k, n) ==
    /\ HashCall([op |-> "add", at |-> <<m, k>>, entry |-> n],
                hlist_add_head(chain, n, htable_burket(m, k)))
    /\ key' = [key EXCEPT ![n] = k]

hash_map_earse(m, k) ==
    LET n == hash_map_find(m, k)
    IN  /\ IF n = NOWHERE THEN HashCall([op |-> "nothing"], chain)
                          ELSE HashCall([op |-> "remove", entry |-> n], hlist_del(chain, n))
        /\ UNCHANGED key

(* The owner of the nodes removes them himself, and puts others with the    *)
(* same key next to them.                                                   *)
Delete(n) ==
    /\ HashCall([op |-> "remove", entry |-> n], hlist_del(chain, n)) /\ UNCHANGED key
DeleteInit(n) ==
    /\ HashCall([op |-> "remove", entry |-> n], hlist_del_init(chain, n)) /\ UNCHANGED key
AddBefore(n, next) ==
    /\ HashCall([op |-> "add_tail", at |-> next, entry |-> n], hlist_add_before(chain, n, next))
    /\ key' = [key EXCEPT ![n] = key[next]]
AddAfter(n, next) ==
    /\ HashCall([op |-> "add", at |-> n, entry |-> next], hlist_add_after(chain, n, next))
    /\ key' = [key EXCEPT ![next] = key[n]]
AddFake(n) ==
    /\ HashCall([op |-> "nothing"], hlist_add_fake(chain, n)) /\ UNCHANGED key
Reinit(n) ==
    /\ HashCall([op |-> "nothing"], INIT_HLIST_NODE(chain, n)) /\ UNCHANGED key

(* A bucket goes to another map, where it is empty.                         *)
MoveList(from, to, b) ==
    /\ chain.next[<<to, b>>] = NOWHERE
    /\ HashCall([op |-> "take",
                 moved |-> [n \in {<<to, k>> : k \in {k \in HKeys : HTABLE_INDEX(k, Buckets) = b}}
                              |-> <<from, n[2]>>]],
                hlist_move_list(chain, <<from, b>>, <<to, b>>))
    /\ UNCHANGED key

(* hlist_for_each_entry_safe over a bucket; its body may remove the entry.  *)
hlist_for_each_entry_safe(head) ==
    LET c == chain.next[head]
    IN  /\ scan = NoScan
        /\ c # NOWHERE
        /\ scan' = [c |-> c, n |-> chain.next[c], rest |-> Chain(head)]
        /\ hcall' = [op |-> "nothing"]
        /\ UNCHANGED <<chain, key>>
DeleteCurrent ==
    /\ scan # NoScan /\ scan.c \in Hashed
    /\ chain' = hlist_del(chain, scan.c)
    /\ hcall' = [op |-> "remove", entry |-> scan.c]
    /\ UNCHANGED <<key, scan>>
ScanOn(n) == scan' = IF n = NOWHERE THEN NoScan
                     ELSE [c |-> n, n |-> chain.next[n], rest |-> Tail(scan.rest)]
ScanTurn == scan # NoScan /\ ScanOn(scan.n) /\ UNCHANGED <<chain, key, hcall>>

HashNext ==
    \/ \E m \in Maps, k \in HKeys : hash_map_earse(m, k) \/ \E n \in Unhashed : hash_map_insert(m, k, n)
    \/ \E n \in Hashed : Delete(n)
    \/ \E n \in Hashed \cup {n \in Unhashed : chain.pprev[n] \in {n, NOWHERE}} : DeleteInit(n)
    \/ \E n \in Unhashed, other \in Hashed : AddBefore(n, other) \/ AddAfter(other, n)
    \/ \E n \in Unhashed : hlist_unhashed(chain, n) /\ AddFake(n)
    \/ \E n \in Unhashed : Reinit(n)
    \/ \E from, to \in Maps, b \in 0..(Buckets - 1) : from # to /\ MoveList(from, to, b)
    \/ \E head \in HHeads : hlist_for_each_entry_safe(head)
    \/ DeleteCurrent \/ ScanTurn

HashSpec == HashInit /\ [][HashNext]_hash_vars

----------------------------------------------------------------------------
(* Properties.                                                              *)

MapPromise == INSTANCE ListsPromise WITH
    Names <- Maps \X HKeys, called <- hcall,
    list <- [name \in Maps \X HKeys |->
                SelectSeq(Chain(htable_burket(name[1], name[2])), LAMBDA n : key[n] = name[2])]

(* Each key of each map has a stack of nodes of its own, although keys that *)
(* share a bucket share a chain: an insertion covers the older nodes with   *)
(* the key, removal takes the newest, and a node its owner removes or puts  *)
(* next to another leaves the other keys alone.                             *)
HashMapKeepsPromise ==
    MapPromise!PromiseInit /\ [][hash_vars' # hash_vars => MapPromise!Step]_hash_vars

(* A loop whose body removes the node it stands on visits the whole bucket. *)
HashScans == scan # NoScan => scan.rest # <<>> /\ scan.c = Head(scan.rest)
                              /\ (scan.n = NOWHERE <=> Len(scan.rest) = 1)
=============================================================================
