------------------------------- MODULE MCPool -------------------------------
(***************************************************************************)
(* Instances of Pool for TLC.                                              *)
(***************************************************************************)
EXTENDS Pool, TLC

CONSTANTS w1, w2, w3, x, y

TwoWrappers == {w1, w2}
ThreeWrappers == {w1, w2, w3}
OneValue == {x}
TwoValues == {x, y}

\* Wrappers are interchangeable (safety runs only).
Symmetry == Permutations(Wrappers)

=============================================================================
