------------------------------ MODULE MCLists ------------------------------
(* Lists on small instances: for slist.h three threads, and the ways to use *)
(* a list that its table allows.                                            *)
EXTENDS Lists

CONSTANTS t1, t2, t3

MCDataOf(id) == IF id = 3 THEN {"a", "b"} ELSE {"a"}

AllThreads == {t1, t2, t3}

(* Everybody adds; two consumers pop or take everything, under a lock.      *)
Popping == [adders |-> AllThreads, poppers |-> {t1, t2}, drainers |-> {t1, t2},
            sweepers |-> {}, atomic |-> TRUE]

(* Everybody adds and takes everything, without a lock.                     *)
Draining == [adders |-> AllThreads, poppers |-> {}, drainers |-> AllThreads,
             sweepers |-> {}, atomic |-> TRUE]

(* One thread does everything.                                              *)
Alone == [adders |-> {t1}, poppers |-> {t1}, drainers |-> {t1},
          sweepers |-> {t1}, atomic |-> FALSE]

AllowedUses == {Popping, Draining, Alone}

(* Draining, with cmpxchg as it is compiled.                                *)
PlainExchange == {[Draining EXCEPT !.atomic = FALSE]}
============================================================================
