------------------------- MODULE DictionaryPromise -------------------------
(***************************************************************************)
(* What the library's search structures promise: dictionaries, sets of     *)
(* entries of a key and a value.  Each operation says what a call with     *)
(* its arguments makes of the dictionaries and what it returns; a          *)
(* structure's refinement ties each of its calls to one of them.  old and  *)
(* new are the dictionaries before and after it.                           *)
(***************************************************************************)
EXTENDS Integers

CONSTANTS
    Names,     \* the dictionaries
    Keys,
    ValsOf(_), \* the values a key may have
    Rekeys     \* whether an entry may give its place to one of another key

VARIABLES
    dict,     \* the entries of each
    result    \* what the last call returned; one that cannot fail counts as ok

Entry(k, v) == [key |-> k, val |-> v]
Others(entries, k) == {e \in entries : e.key # k}
Has(entries, k) == \E e \in entries : e.key = k

OnlyIn(names, old, new) == \A m \in Names \ names : new[m] = old[m]

(* An addition fails if the key is there, or for want of memory.            *)
Insert(old, new, n, k, v) ==
    /\ OnlyIn({n}, old, new)
    /\ \/ ~Has(old[n], k) /\ new[n] = old[n] \cup {Entry(k, v)} /\ result' = "ok"
       \/ Has(old[n], k) /\ new[n] = old[n] /\ result' = "EEXIST"
       \/ new[n] = old[n] /\ result' = "ENOMEM"

(* Some say that there is nothing to remove.                                *)
Remove(old, new, n, k) ==
    /\ OnlyIn({n}, old, new)
    /\ new[n] = Others(old[n], k)
    /\ result' = "ok" \/ (~Has(old[n], k) /\ result' = "ENOENT")

(* The entry of a key gets a new value, or, with Rekeys, gives its place to *)
(* one whose key no other one separates from its own.                       *)
Replace(old, new, n, k, j, v) ==
    /\ OnlyIn({n}, old, new)
    /\ Has(old[n], k) /\ (j = k \/ Rekeys)
    /\ \A e \in Others(old[n], k) : e.key # j /\ ((e.key < k) <=> (e.key < j))
    /\ new[n] = Others(old[n], k) \cup {Entry(j, v)}
    /\ result' = "ok"

Clear(old, new, n) == OnlyIn({n}, old, new) /\ new[n] = {} /\ result' = "ok"

(* A merger takes all the entries over, or moves them one by one until      *)
(* memory runs out; nothing is lost on the way.                             *)
MoveAll(old, new, source, target) ==
    /\ OnlyIn({source, target}, old, new)
    /\ new[source] = {} /\ new[target] = old[target] \cup old[source]
    /\ result' = "ok"

Move(old, new, source, target, k) ==
    \/ /\ OnlyIn({source, target}, old, new)
       /\ \E e \in old[source] :
             e.key = k /\ new[source] = old[source] \ {e} /\ new[target] = old[target] \cup {e}
       /\ result' = "ok"
    \/ OnlyIn({}, old, new) /\ result' = "ENOMEM"

(* What goes on inside a call, or looks and changes nothing.                *)
Same(old, new) == OnlyIn({}, old, new) /\ result' \in {result, "ok"}

(* Both states are named, because each is a whole structure seen abstractly. *)
Next ==
    \E old \in {dict}, new \in {dict'} :
        \/ Same(old, new)
        \/ \E n \in Names :
              \/ Clear(old, new, n)
              \/ \E k \in Keys :
                    \/ Remove(old, new, n, k)
                    \/ \E v \in ValsOf(k) : Insert(old, new, n, k, v)
                    \/ \E j \in Keys : \E v \in ValsOf(j) : Replace(old, new, n, k, j, v)
        \/ \E m, n \in Names :
              m # n /\ (MoveAll(old, new, m, n) \/ \E k \in Keys : Move(old, new, m, n, k))

PromiseInit == \A n \in Names : dict[n] = {}
Promise == PromiseInit /\ [][Next]_<<dict, result>>
============================================================================
