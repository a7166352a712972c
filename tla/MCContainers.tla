---------------------------- MODULE MCContainers ----------------------------
(* Containers on small instances.                                           *)
EXTENDS Containers

MCRings == {<<2, 1>>, <<2, 3>>, <<4, 1>>, <<4, 2>>}
MCKeys == 1..10
MCWeight == [k \in MCKeys |-> 1 + ((3 * k) % 11)]
MCBKeys == 1..11
MCAddresses == 1..11
MCValsOf(k) == IF k = 3 THEN {<<"old", k>>, <<"new", k>>} ELSE {<<"old", k>>}
MCIntervals == {<<k, k>> : k \in 1..8} \cup {<<2, 3>>, <<4, 5>>, <<6, 8>>}
============================================================================
