------------------------- MODULE MCBoundedMPSCQueue -------------------------
(***************************************************************************)
(* Instances of BoundedMPSCQueue for TLC.                                  *)
(***************************************************************************)
EXTENDS BoundedMPSCQueue, TLC

CONSTANTS p1, p2, p3, a, b

OneProducer == {p1}
TwoProducers == {p1, p2}
ThreeProducers == {p1, p2, p3}
TwoValues == {a, b}

\* Producers and values are interchangeable (safety runs only).
Symmetry == Permutations(Producers) \union Permutations(Values)

=============================================================================
