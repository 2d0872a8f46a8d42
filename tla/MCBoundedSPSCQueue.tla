------------------------- MODULE MCBoundedSPSCQueue -------------------------
(***************************************************************************)
(* Instances of BoundedSPSCQueue for TLC.                                  *)
(***************************************************************************)
EXTENDS BoundedSPSCQueue, TLC

CONSTANTS a, b

TwoValues == {a, b}

\* Values are interchangeable (safety runs only).
Symmetry == Permutations(Values)

=============================================================================
