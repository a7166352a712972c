---------------------------- MODULE KlistPromise ----------------------------
(***************************************************************************)
(* What klist.c promises its clients, without locks, counts or pointers:   *)
(* a node is out, in, or condemned; an iterator may come to stand only on  *)
(* a node that is in; a condemned node leaves only when nobody stands on   *)
(* it; and a remover that waits for a node is told so only then.           *)
(***************************************************************************)
CONSTANTS Nodes, Threads, NULL, DONE

VARIABLES
    phase,      \* of each node: "out", "in" or "condemned"
    stands,     \* the node each thread's iterator stands on, or NULL
    awaits      \* the node each thread's klist_remove waits for, NULL, or DONE

pvars == <<phase, stands, awaits>>

PromiseTypeOK ==
    /\ phase \in [Nodes -> {"out", "in", "condemned"}]
    /\ stands \in [Threads -> Nodes \cup {NULL}]
    /\ awaits \in [Threads -> Nodes \cup {NULL, DONE}]

PromiseInit ==
    /\ phase = [n \in Nodes |-> "out"]
    /\ stands = [t \in Threads |-> NULL]
    /\ awaits = [t \in Threads |-> NULL]

Free(n) == \A t \in Threads : stands[t] # n

Enter(n) ==
    /\ phase[n] = "out"
    /\ phase' = [phase EXCEPT ![n] = "in"]
    /\ UNCHANGED <<stands, awaits>>

Condemn(n) ==
    /\ phase[n] = "in"
    /\ phase' = [phase EXCEPT ![n] = "condemned"]
    /\ UNCHANGED <<stands, awaits>>

Await(t, n) ==
    /\ awaits[t] = NULL
    /\ phase[n] = "in"
    /\ awaits' = [awaits EXCEPT ![t] = n]
    /\ UNCHANGED <<phase, stands>>

StepOn(t, n) ==
    /\ phase[n] = "in"
    /\ stands' = [stands EXCEPT ![t] = n]
    /\ UNCHANGED <<phase, awaits>>

StepOff(t) ==
    /\ stands' = [stands EXCEPT ![t] = NULL]
    /\ UNCHANGED <<phase, awaits>>

Leave(n) ==
    /\ phase[n] = "condemned"
    /\ Free(n)
    /\ phase' = [phase EXCEPT ![n] = "out"]
    /\ UNCHANGED <<stands, awaits>>

Tell(t) ==
    /\ awaits[t] \in Nodes
    /\ phase[awaits[t]] = "out"
    /\ awaits' = [awaits EXCEPT ![t] = DONE]
    /\ UNCHANGED <<phase, stands>>

Return(t) ==
    /\ awaits[t] = DONE
    /\ awaits' = [awaits EXCEPT ![t] = NULL]
    /\ UNCHANGED <<phase, stands>>

PromiseNext ==
    \/ \E n \in Nodes : Enter(n) \/ Condemn(n) \/ Leave(n)
    \/ \E t \in Threads : StepOff(t) \/ Tell(t) \/ Return(t)
                          \/ \E n \in Nodes : StepOn(t, n) \/ Await(t, n)

Promise == PromiseInit /\ [][PromiseNext]_pvars
=============================================================================
