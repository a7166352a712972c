----------------------------- MODULE KlistWalk -----------------------------
(***************************************************************************)
(* What a whole iteration of a klist sees.  Two history variables watch    *)
(* the iterator of one thread while every thread goes about its calls;     *)
(* they change no step of Klist.                                           *)
(***************************************************************************)
EXTENDS Klist

CONSTANT Walker    \* the thread whose iterations are watched

ASSUME WalkerConstant == Walker \in Threads

VARIABLES
    seen,    \* nodes klist_next returned in the walker's current iteration
    steady   \* nodes on the list when it began, and not deleted since

wvars == <<vars, seen, steady>>

Killed == {n \in Nodes : ~knode_dead(n) /\ n_klist'[n] = "k|dead"}
LinkedNow == owned' \ owned

(* klist_next starts at the list head.                                      *)
Begins == pc[Walker] = "idle" /\ pc'[Walker] = "scan" /\ i_cur[Walker] = NULL
Returned == {i_cur'[Walker]} \ {i_cur[Walker], NULL}

Watch ==
    /\ seen' = IF Begins \/ ~i_open'[Walker] THEN {}
               ELSE (seen \ LinkedNow) \cup Returned
    /\ steady' = IF ~i_open'[Walker] THEN {}
                 ELSE IF Begins THEN {n \in OnList : ~knode_dead(n)}
                 ELSE steady \ Killed

WalkInit == Init /\ seen = {} /\ steady = {}
WalkNext == Next /\ Watch
WalkSpec == WalkInit /\ [][WalkNext]_wvars

(* An iteration that started at the head and ends at the head has returned  *)
(* every node that was on the list all the while, whatever was added,       *)
(* deleted and removed around it and under it.                              *)
WalkComplete ==
    [][pc[Walker] = "scan" /\ fr[Walker].next = HEAD /\ pc'[Walker] # "scan"
          => steady \subseteq seen]_wvars

(* No iteration returns a node twice, unless it was added again meanwhile.  *)
WalkOnce == [][i_open[Walker] => Returned \cap seen = {}]_wvars
============================================================================
