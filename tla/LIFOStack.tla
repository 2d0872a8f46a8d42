------------------------------ MODULE LIFOStack ------------------------------
(***************************************************************************)
(* What a concurrent stack promises: push adds a value on top, pop takes   *)
(* the value on top, each in one step.                                     *)
(***************************************************************************)
EXTENDS Integers, Sequences

CONSTANT Values

VARIABLES
  stack,   \* the values on the stack, the top last
  popped   \* history: the values taken, in order

vars == <<stack, popped>>

Init == stack = << >> /\ popped = << >>

Push(v) ==
  /\ stack' = Append(stack, v)
  /\ UNCHANGED popped

Pop ==
  /\ stack # << >>
  /\ popped' = Append(popped, stack[Len(stack)])
  /\ stack' = SubSeq(stack, 1, Len(stack) - 1)

Next == (\E v \in Values : Push(v)) \/ Pop

Spec == Init /\ [][Next]_vars

=============================================================================
