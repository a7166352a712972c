------------------------------- MODULE Dlist -------------------------------
(***************************************************************************)
(* dlist.h: circular, doubly linked lists with a head that is a link like  *)
(* the others.  The functions are operators on the links; a call is a step,*)
(* and a loop that is safe against removal is a step per turn, its body    *)
(* one or more steps of their own.                                         *)
(***************************************************************************)
EXTENDS Naturals, Sequences, FiniteSets

CONSTANTS
    ListHeads,      \* the dlist_t of the lists
    DNodes          \* the dnode_t of the entries

VARIABLES
    links,      \* the fields next and prev of all of them
    stale,      \* heads whose entries dlist_join gave to another list; not to be used
                \* before dlist_init
    turn,       \* the loop in progress: its head, direction, pos, n, and (history) rest,
                \* what it has yet to visit, pos first
    dcall       \* the last call (history)

dlist_vars == <<links, stale, turn, dcall>>

dlist_init(L, list) == [L EXCEPT !.next[list] = list, !.prev[list] = list]

__list_add(L, entry, prev, next) ==
    [L EXCEPT !.prev[next] = entry, !.next[entry] = next,
              !.prev[entry] = prev, !.next[prev] = entry]
dlist_add(L, list, entry) == __list_add(L, entry, list, L.next[list])
dlist_add_tail(L, list, entry) == __list_add(L, entry, L.prev[list], list)

__list_remove_entry(L, entry) ==
    [L EXCEPT !.prev[L.next[entry]] = L.prev[entry], !.next[L.prev[entry]] = L.next[entry]]
dlist_remove(L, entry) == dlist_init(__list_remove_entry(L, entry), entry)

dlist_move(L, new_list, entry) == dlist_add(__list_remove_entry(L, entry), new_list, entry)
dlist_move_tail(L, new_list, entry) ==
    dlist_add_tail(__list_remove_entry(L, entry), new_list, entry)

dlist_replace(L, old_entry, new_entry) ==
    LET forth == [L EXCEPT !.next[new_entry] = L.next[old_entry],
                           !.prev[L.next[old_entry]] = new_entry]
        both  == [forth EXCEPT !.prev[new_entry] = forth.prev[old_entry],
                               !.next[forth.prev[old_entry]] = new_entry]
    IN  dlist_init(both, old_entry)

dlist_empty(L, list) == L.next[list] = list
dlist_empty_careful(L, head) == L.next[head] = head /\ L.prev[head] = head
dlist_is_singular(L, head) == ~dlist_empty(L, head) /\ L.next[head] = L.prev[head]
dlist_is_last_entry(L, list, entry) == L.next[entry] = list

(* As it is written, the arguments of dlist_move_tail change places: the    *)
(* head moves in front of the first entry, where it was.                    *)
dlist_rotate_left(L, list) ==
    IF dlist_empty(L, list) THEN L ELSE dlist_move_tail(L, L.next[list], list)

__list_cut_position(L, list, head, entry) ==
    [L EXCEPT !.next[list] = L.next[head], !.prev[L.next[head]] = list,
              !.prev[list] = entry, !.next[entry] = list,
              !.next[head] = L.next[entry], !.prev[L.next[entry]] = head]

Refused(L, old_list, entry) ==
    \/ dlist_empty(L, old_list)
    \/ dlist_is_singular(L, old_list) /\ L.next[old_list] # entry /\ old_list # entry

dlist_cut_position(L, old_list, entry, new_list) ==
    IF Refused(L, old_list, entry) THEN L
    ELSE IF entry = old_list THEN dlist_init(L, new_list)
    ELSE __list_cut_position(L, new_list, old_list, entry)

splice_singly(L, list, prev, next) ==   \* mutant: the last entry is not linked back
    [L EXCEPT !.prev[L.next[list]] = prev, !.next[prev] = L.next[list],
              !.next[L.prev[list]] = next]
__list_splice(L, list, prev, next) ==
    [L EXCEPT !.prev[L.next[list]] = prev, !.next[prev] = L.next[list],
              !.next[L.prev[list]] = next, !.prev[next] = L.prev[list]]
dlist_join(L, add, to) ==
    IF dlist_empty(L, add) THEN L ELSE __list_splice(L, add, to, L.next[to])
dlist_join_tail(L, add, to) ==
    IF dlist_empty(L, add) THEN L ELSE __list_splice(L, add, L.prev[to], to)

----------------------------------------------------------------------------
(* The loops that leave the list alone visit the links behind start, up to  *)
(* the head.  In links out of order they may never come to it.              *)
dlist_for_each(L, way, start, head) ==
    LET most == Cardinality(DNodes) + 1
        walk[i \in 0..most, pos \in ListHeads \cup DNodes] ==
            IF pos = head \/ i = 0 THEN <<>> ELSE <<pos>> \o walk[i - 1, L[way][pos]]
    IN  walk[most, L[way][start]]

Ways == {"next", "prev"}
Entries(head) == dlist_for_each(links, "next", head, head)
Members(head) == {Entries(head)[i] : i \in DOMAIN Entries(head)}
Lists == ListHeads \ stale
Listed == UNION {Members(head) : head \in Lists}
Free == DNodes \ Listed

NoLoop == [head |-> {}, rest |-> <<>>]
Idle == turn = NoLoop

DlistTypeOK ==
    /\ links \in [Ways -> [ListHeads \cup DNodes -> ListHeads \cup DNodes]]
    /\ stale \subseteq ListHeads
    /\ Idle \/ /\ turn.head \in Lists /\ turn.way \in Ways
               /\ {turn.pos, turn.n} \subseteq DNodes \cup {turn.head}

DlistInit ==
    /\ links = [way \in Ways |-> [link \in ListHeads \cup DNodes |-> link]]
    /\ stale = {}
    /\ turn = NoLoop
    /\ dcall = [op |-> "nothing"]

----------------------------------------------------------------------------
(* Calls outside of loops.  A new entry is on no list, and a list to be     *)
(* filled by dlist_cut_position or dlist_replace is empty or stale.         *)
Position == Lists \cup Listed
Vacant(head) == head \in stale \/ dlist_empty(links, head)

Do(c, L) == Idle /\ links' = L /\ dcall' = c /\ UNCHANGED turn
Keeping == UNCHANGED stale

Initialise(head) ==
    head \in stale /\ Do([op |-> "nothing"], dlist_init(links, head)) /\ stale' = stale \ {head}

Add(at, e) ==
    /\ Do([op |-> "add", at |-> at, entry |-> e], dlist_add(links, at, e)) /\ Keeping
AddTail(at, e) ==
    /\ Do([op |-> "add_tail", at |-> at, entry |-> e], dlist_add_tail(links, at, e)) /\ Keeping
RemoveEntry(e) ==
    /\ Do([op |-> "remove", entry |-> e], dlist_remove(links, e)) /\ Keeping
Move(head, e) ==
    /\ Do([op |-> "move", at |-> head, entry |-> e], dlist_move(links, head, e)) /\ Keeping
MoveTail(head, e) ==
    /\ Do([op |-> "move_tail", at |-> head, entry |-> e], dlist_move_tail(links, head, e)) /\ Keeping
Replace(old, new) ==
    /\ Do([op |-> "replace", at |-> old, entry |-> new], dlist_replace(links, old, new)) /\ Keeping
ReplaceHead(old, new) ==
    /\ Vacant(new)
    /\ Do([op |-> "take", moved |-> [head \in {new} |-> old]], dlist_replace(links, old, new))
    /\ stale' = stale \ {new}
RotateLeft(head) ==
    /\ Do([op |-> "nothing"], dlist_rotate_left(links, head)) /\ Keeping

(* The entry is one of the list or its head, or another one that the code   *)
(* notices.                                                                 *)
Cut(old, entry, new) ==
    LET refused == Refused(links, old, entry)
    IN  /\ Vacant(new)
        /\ entry \in Members(old) \cup {old} \/ refused
        /\ Do(IF refused \/ entry = old THEN [op |-> "nothing"]
                ELSE [op |-> "cut", at |-> old, entry |-> entry, to |-> new],
                dlist_cut_position(links, old, entry, new))
        /\ stale' = IF refused THEN stale ELSE stale \ {new}

Join(add, to) ==
    /\ Do([op |-> "join", at |-> add, to |-> to], dlist_join(links, add, to))
    /\ stale' = IF dlist_empty(links, add) THEN stale ELSE stale \cup {add}
JoinTail(add, to) ==
    /\ Do([op |-> "join_tail", at |-> add, to |-> to], dlist_join_tail(links, add, to))
    /\ stale' = IF dlist_empty(links, add) THEN stale ELSE stale \cup {add}

----------------------------------------------------------------------------
(* The loops that are safe against removal.  They start behind the head or  *)
(* an entry (continue), or at an entry (from).                              *)
Loop(head, way, pos, rest) ==
    /\ Idle
    /\ turn' = [head |-> head, way |-> way, pos |-> pos, n |-> links[way][pos], rest |-> rest]
    /\ dcall' = [op |-> "nothing"]
    /\ UNCHANGED <<links, stale>>

for_each_safe_continue(head, way, start) ==
    Loop(head, way, links[way][start], dlist_for_each(links, way, start, head))
for_each_safe_from(head, pos) ==
    Loop(head, "next", pos, <<pos>> \o dlist_for_each(links, "next", pos, head))

InBody == ~Idle /\ turn.pos # turn.head
BodyCall(c, L) == InBody /\ links' = L /\ dcall' = c /\ UNCHANGED stale

(* The body may take the entry it stands on off the list, and put it on     *)
(* another one, or another entry in its place.                              *)
RemovePos ==
    BodyCall([op |-> "remove", entry |-> turn.pos], dlist_remove(links, turn.pos)) /\ UNCHANGED turn
MovePos(head) ==
    /\ head # turn.head
    /\ BodyCall([op |-> "move", at |-> head, entry |-> turn.pos], dlist_move(links, head, turn.pos))
    /\ UNCHANGED turn
ReplacePos(e) ==
    /\ InBody /\ turn.pos \in Members(turn.head)
    /\ BodyCall([op |-> "replace", at |-> turn.pos, entry |-> e], dlist_replace(links, turn.pos, e))
    /\ UNCHANGED turn

(* With dlist_safe_reset_next it may change what follows; the entry it      *)
(* stands on stays on the list then.                                        *)
dlist_safe_reset_next(L, pos) == L.next[pos]
Reset(rest) == turn' = [turn EXCEPT !.n = dlist_safe_reset_next(links', turn.pos), !.rest = rest]
Resets == InBody /\ turn.way = "next" /\ turn.pos \in Members(turn.head)

RemoveNext ==
    /\ Resets /\ turn.n # turn.head
    /\ BodyCall([op |-> "remove", entry |-> turn.n], dlist_remove(links, turn.n))
    /\ Reset(<<turn.pos>> \o SubSeq(turn.rest, 3, Len(turn.rest)))
AddNext(e) ==
    /\ Resets
    /\ BodyCall([op |-> "add", at |-> turn.pos, entry |-> e], dlist_add(links, turn.pos, e))
    /\ Reset(<<turn.pos, e>> \o Tail(turn.rest))

NextPosUnsafe(lp) == links[lp.way][lp.pos]    \* mutant: as in the loops that are not safe
NextPos(lp) == lp.n
LoopTurn ==
    /\ InBody
    /\ turn' = [turn EXCEPT !.pos = NextPos(turn), !.n = links[turn.way][NextPos(turn)],
                            !.rest = Tail(@)]
    /\ UNCHANGED <<links, stale, dcall>>
LoopEnd ==
    /\ ~Idle /\ turn.pos = turn.head
    /\ turn' = NoLoop
    /\ UNCHANGED <<links, stale, dcall>>

DlistNext ==
    \/ \E head \in ListHeads : Initialise(head)
    \/ \E at \in Position, e \in Free : Add(at, e) \/ AddTail(at, e)
    \/ \E e \in DNodes : RemoveEntry(e)
    \/ \E head \in Lists, e \in DNodes : Move(head, e) \/ MoveTail(head, e)
    \/ \E old \in DNodes, new \in Free : old # new /\ Replace(old, new)
    \/ \E old \in Lists : \E new \in ListHeads \ {old} : ReplaceHead(old, new)
    \/ \E head \in Lists : RotateLeft(head)
    \/ \E old \in Lists, entry \in DNodes \cup ListHeads : \E new \in ListHeads \ {old} : Cut(old, entry, new)
    \/ \E add \in Lists : \E to \in Lists \ {add} : Join(add, to) \/ JoinTail(add, to)
    \/ \E head \in Lists, way \in Ways : \E start \in Members(head) \cup {head} :
          for_each_safe_continue(head, way, start)
    \/ \E head \in Lists : \E pos \in Members(head) : for_each_safe_from(head, pos)
    \/ RemovePos \/ RemoveNext \/ LoopTurn \/ LoopEnd
    \/ \E head \in Lists : MovePos(head)
    \/ \E e \in Free : ReplacePos(e) \/ AddNext(e)

DlistSpec == DlistInit /\ [][DlistNext]_dlist_vars

----------------------------------------------------------------------------
(* Properties.                                                              *)

DlistPromise == INSTANCE ListsPromise WITH
    Names <- ListHeads, called <- dcall,
    list <- [head \in ListHeads |-> IF head \in stale THEN <<>> ELSE Entries(head)]

(* Each call but one makes of the lists, read forwards, what its name says; *)
(* joining and cutting lose no entry and leave none on two lists.  The one  *)
(* is dlist_rotate_left, said to "rotate the list to the left": it hands    *)
(* dlist_move_tail its arguments the wrong way round, and leaves every list *)
(* as it is.                                                                *)
DlistKeepsPromise ==
    DlistPromise!PromiseInit /\ [][dlist_vars' # dlist_vars => DlistPromise!Step]_dlist_vars

Backwards(s) == [i \in 1..Len(s) |-> s[Len(s) + 1 - i]]

(* Backwards the lists hold the same, their tests for emptiness and for the *)
(* last entry agree with them, and a loop whose body removes, moves or      *)
(* replaces the entry it stands on, or resets n, is at the entry it should  *)
(* visit next, to the end of the list.                                      *)
DlistWalks ==
    /\ \A head \in Lists :
          /\ dlist_for_each(links, "prev", head, head) = Backwards(Entries(head))
          /\ dlist_empty(links, head) <=> Entries(head) = <<>>
          /\ dlist_empty_careful(links, head) <=> Entries(head) = <<>>
          /\ dlist_is_singular(links, head) <=> Len(Entries(head)) = 1
          /\ \A e \in Members(head) :
                dlist_is_last_entry(links, head, e) <=> e = Entries(head)[Len(Entries(head))]
    /\ \A e \in Free : links.next[e] = e /\ links.prev[e] = e
    /\ ~Idle => turn.pos = IF turn.rest = <<>> THEN turn.head ELSE Head(turn.rest)
=============================================================================
