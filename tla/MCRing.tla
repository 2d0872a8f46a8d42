------------------------------- MODULE MCRing -------------------------------
(***************************************************************************)
(* Instances of Ring for TLC.                                              *)
(***************************************************************************)
EXTENDS Ring, TLC

CONSTANTS a, b

TwoValues == {a, b}

DequeOps == {"push_back", "pop_back", "push_front", "pop_front", "clear"}

\* a deque that gets full, wraps around and is never grown
Deque == [capacity |-> 3, ops |-> DequeOps, maxSize |-> 3]

\* a deque whose elements are made contiguous, with a slot to spare
Contiguous == [capacity |-> 4, ops |-> DequeOps \union {"make_cont"}, maxSize |-> 3]

\* a stack, whose head stays at 0, that grows from 2 slots to 8
Stack == [capacity |-> 2, ops |-> {"push_back", "pop_back", "clear"}, maxSize |-> 5]

\* contents that are assigned and then read from the front
Reader == [capacity |-> 1, ops |-> {"assign", "pop_front"}, maxSize |-> 4]

\* messages that are received and then read from the front
Message == [capacity |-> 2, ops |-> {"receive", "pop_front"}, maxSize |-> 4]

\* a queue that grows while its head is not at 0
Queue == [capacity |-> 2, ops |-> {"push_back", "pop_front"}, maxSize |-> 3]

SoundUses == {Deque, Contiguous, Stack, Reader, Message}
QueueUse == {Queue}

\* Values are interchangeable.
Symmetry == Permutations(Values)

=============================================================================
