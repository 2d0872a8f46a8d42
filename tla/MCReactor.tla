----------------------------- MODULE MCReactor ------------------------------
(***************************************************************************)
(* Instances of Reactor for TLC.                                           *)
(***************************************************************************)
EXTENDS Reactor

CONSTANTS j1, j2, j3, d1, d2, d3, d4, f1, f2, f3

TwoJobs == {j1, j2}
ThreeJobs == {j1, j2, j3}
ThreeData == {d1, d2, d3}
FourData == {d1, d2, d3, d4}
TwoFrames == {f1, f2}
ThreeFrames == {f1, f2, f3}

\* The slots of the pools and the frames are interchangeable (safety runs only).
Symmetry == Permutations(Jobs) \union Permutations(Data) \union Permutations(Frames)

=============================================================================
