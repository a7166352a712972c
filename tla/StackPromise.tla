---------------------------- MODULE StackPromise ----------------------------
(***************************************************************************)
(* What slist.h promises: one stack, pushed to, popped from, or emptied in *)
(* a single step.                                                          *)
(***************************************************************************)
EXTENDS Naturals, Sequences

CONSTANT Nodes

VARIABLE stack

Push == \E n \in Nodes : /\ \A i \in 1..Len(stack) : stack[i] # n
                         /\ stack' = <<n>> \o stack
Pop == stack # <<>> /\ stack' = Tail(stack)
TakeAll == stack # <<>> /\ stack' = <<>>

(* A list's own steps are Steps.  (Its refinement names them with a guard,  *)
(* so that TLC does not read off the stack in a step of something else.)    *)
PromiseInit == stack = <<>>
Step == [Push \/ Pop \/ TakeAll]_stack
Promise == PromiseInit /\ [][Step]_stack
=============================================================================
