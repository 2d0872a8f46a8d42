----------------------------- MODULE BoundedFIFO -----------------------------
(***************************************************************************)
(* What a queue of dwhbll::concurrency::queues promises to its clients: a  *)
(* channel that delivers the messages it accepted once each, in the order  *)
(* in which it accepted them, with at most Capacity of them outstanding.   *)
(* BoundedMPSCQueue and BoundedSPSCQueue are shown to implement it.        *)
(***************************************************************************)
EXTENDS Integers, Sequences

CONSTANTS
  Values,     \* the messages
  Capacity    \* how many accepted messages may be undelivered

VARIABLES
  sent,       \* the messages accepted so far, in order
  rcvd        \* the messages delivered so far, in order

fifoVars == <<sent, rcvd>>

Init ==
  /\ sent = << >>
  /\ rcvd = << >>

Send(v) ==
  /\ Len(sent) - Len(rcvd) < Capacity
  /\ sent' = Append(sent, v)
  /\ UNCHANGED rcvd

Receive ==
  /\ Len(rcvd) < Len(sent)
  /\ rcvd' = Append(rcvd, sent[Len(rcvd) + 1])
  /\ UNCHANGED sent

Next == (\E v \in Values : Send(v)) \/ Receive

Spec == Init /\ [][Next]_fifoVars

\* A channel that also delivers everything it accepted.
FairSpec == Spec /\ WF_fifoVars(Receive)

=============================================================================
