---------------------------- MODULE ListsPromise ----------------------------
(***************************************************************************)
(* What the intrusive lists promise: named sequences of entries, and for   *)
(* each call what it makes of them.  called is the last call, so that two  *)
(* calls of different effect are told apart.                               *)
(***************************************************************************)
EXTENDS Naturals, Sequences

CONSTANT Names    \* of the lists

VARIABLES list, called

Without(s, e) == SelectSeq(s, LAMBDA x : x # e)
Removed(l, e) == [n \in Names |-> Without(l[n], e)]
Place(s, e) == CHOOSE i \in 1..Len(s) : s[i] = e
On(s, e) == \E i \in 1..Len(s) : s[i] = e
Front(s, i) == SubSeq(s, 1, i)
Rest(s, i) == SubSeq(s, i + 1, Len(s))

(* s with the entries of t put in behind its first i.                       *)
Insert(s, i, t) == Front(s, i) \o t \o Rest(s, i)

(* A position is a list or an entry of one: behind it, or in front of it,   *)
(* in a circle that the list's name closes.                                 *)
Behind(l, at, e) ==
    [n \in Names |-> IF n = at THEN <<e>> \o l[n]
                     ELSE IF On(l[n], at) THEN Insert(l[n], Place(l[n], at), <<e>>)
                     ELSE l[n]]
InFront(l, at, e) ==
    [n \in Names |-> IF n = at THEN Append(l[n], e)
                     ELSE IF On(l[n], at) THEN Insert(l[n], Place(l[n], at) - 1, <<e>>)
                     ELSE l[n]]

Effect(l, c) ==
    CASE c.op = "add"       -> Behind(l, c.at, c.entry)
      [] c.op = "add_tail"  -> InFront(l, c.at, c.entry)
      [] c.op = "remove"    -> Removed(l, c.entry)
      [] c.op = "move"      -> Behind(Removed(l, c.entry), c.at, c.entry)
      [] c.op = "move_tail" -> InFront(Removed(l, c.entry), c.at, c.entry)
      [] c.op = "replace"   -> [n \in Names |-> [i \in 1..Len(l[n]) |->
                                   IF l[n][i] = c.at THEN c.entry ELSE l[n][i]]]
      [] c.op = "cut"       -> LET i == Place(l[c.at], c.entry)
                               IN  [l EXCEPT ![c.to] = Front(l[c.at], i),
                                                ![c.at] = Rest(l[c.at], i)]
      [] c.op = "join"      -> [l EXCEPT ![c.to] = l[c.at] \o @, ![c.at] = <<>>]
      [] c.op = "join_tail" -> [l EXCEPT ![c.to] = @ \o l[c.at], ![c.at] = <<>>]
      \* The lists c.moved[n] become the lists n.
      [] c.op = "take"      -> [n \in Names |->
                                   IF n \in DOMAIN c.moved THEN l[c.moved[n]]
                                   ELSE IF \E m \in DOMAIN c.moved : c.moved[m] = n THEN <<>>
                                   ELSE l[n]]
      [] c.op = "nothing"   -> l

(* The state is named because it is a whole structure seen abstractly.      *)
Next == \E l \in {list}, c \in {called'} : list' = Effect(l, c)

(* A structure's own steps are Steps.  (Its refinement names them with a    *)
(* guard, so that TLC does not read off the structure in every other step.) *)
PromiseInit == \A n \in Names : list[n] = <<>>
Step == [Next]_<<list, called>>
Promise == PromiseInit /\ [][Step]_<<list, called>>
=============================================================================
