--------------------- MODULE MCRecyclingConcurrentStack ---------------------
(***************************************************************************)
(* Instances of RecyclingConcurrentStack for TLC.                          *)
(***************************************************************************)
EXTENDS RecyclingConcurrentStack, TLC

CONSTANTS n1, n2, n3, n4, a, b, c

FourNodes == {n1, n2, n3, n4}
ThreeNodes == {n1, n2, n3}
OnePusher == {a}
OnePopper == {c}
TwoPushers == {a, b}

\* Nodes are interchangeable.
Symmetry == Permutations(Nodes)

=============================================================================
