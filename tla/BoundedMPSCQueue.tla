-------------------------- MODULE BoundedMPSCQueue --------------------------
(***************************************************************************)
(* BoundedMPSCQueue<T, N, FailOnFull> (concurrency/queues/                 *)
(* bounded_mpsc_queue.h): a ring of N cells, each with a sequence number.  *)
(* put draws a ticket with tail.fetch_add, waits until the cell of that    *)
(* ticket is free (seq = ticket), constructs the object and publishes it   *)
(* (seq = ticket + 1).  The single consumer takes the object of ticket     *)
(* head once it is published and frees the cell for the next lap           *)
(* (seq = head + N).                                                       *)
(*                                                                         *)
(* One action per access to shared memory.  Every seq is written with      *)
(* release and read with acquire order, so an access to a cell's data is   *)
(* ordered by them and the interleaving semantics is exact.  Tickets are   *)
(* 64-bit in the code and never wrap in practice; the model bounds them by *)
(* MaxTickets instead.                                                     *)
(***************************************************************************)
EXTENDS Integers, Sequences, FiniteSets

CONSTANTS
  N,           \* the number of cells, a power of two
  Producers,   \* the threads that call put
  Values,      \* the objects that are put
  NoObj,       \* what a cell holds when no object lives in it
  FailOnFull,  \* the template parameter: put fails instead of waiting
  MaxTickets   \* bound on the number of calls of put

ASSUME NAssumption == N \in Nat /\ N > 1
ASSUME PowerOfTwo == \E k \in 1..62 : N = 2^k
ASSUME ProducersAssumption == IsFiniteSet(Producers)
ASSUME ValueAssumption == NoObj \notin Values
ASSUME ModeAssumption == FailOnFull \in BOOLEAN
ASSUME BoundAssumption == MaxTickets \in Nat

VARIABLES
  tail,      \* the next ticket
  head,      \* the ticket the consumer takes next (private to the consumer)
  seq,       \* seq[c]: the sequence number of cell c
  data,      \* data[c]: the object of cell c
  pc,        \* pc[p]: where producer p is in put
  pos,       \* pos[p]: the ticket of p's current or last put
  val,       \* val[p]: the argument of p's current or last put
  cpc,       \* where the consumer is in get or getBlocking
  result,    \* the local variable of get that holds the moved object
  claimed,   \* history: the arguments of the puts, by ticket
  consumed,  \* history: the objects returned by get and getBlocking
  rejected   \* history: the tickets of the puts that returned false

queue == <<tail, head, seq, data>>
hist == <<claimed, consumed, rejected>>
vars == <<tail, head, seq, data, pc, pos, val, cpc, result,
          claimed, consumed, rejected>>

Cells == 0 .. N - 1

\* ticket & MASK
Cell(t) == t % N

\* "idle": not called, or returned true; "full": returned false
ProducerPC == {"idle", "check", "write", "publish", "full"}

\* "idle": not called, or returned a value; "nullopt": get returned nullopt;
\* "spin": waiting in getBlocking
ConsumerPC == {"idle", "nullopt", "spin", "take", "release"}

TypeOK ==
  /\ tail \in Nat
  /\ head \in Nat
  /\ seq \in [Cells -> Nat]
  /\ data \in [Cells -> Values \union {NoObj}]
  /\ pc \in [Producers -> ProducerPC]
  /\ pos \in [Producers -> Nat]
  /\ val \in [Producers -> Values \union {NoObj}]
  /\ cpc \in ConsumerPC
  /\ result \in Values \union {NoObj}
  /\ claimed \in Seq(Values)
  /\ consumed \in Seq(Values)
  /\ rejected \in SUBSET Nat

Init ==
  /\ tail = 0
  /\ head = 0
  /\ seq = [c \in Cells |-> c]
  /\ data = [c \in Cells |-> NoObj]
  /\ pc = [p \in Producers |-> "idle"]
  /\ pos = [p \in Producers |-> 0]
  /\ val = [p \in Producers |-> NoObj]
  /\ cpc = "idle"
  /\ result = NoObj
  /\ claimed = << >>
  /\ consumed = << >>
  /\ rejected = {}

-----------------------------------------------------------------------------
(***************************************************************************)
(* put                                                                     *)
(***************************************************************************)

\* pos = tail.fetch_add(1)
PutClaim(p, v) ==
  /\ pc[p] \in {"idle", "full"}
  /\ tail < MaxTickets
  /\ tail' = tail + 1
  /\ pos' = [pos EXCEPT ![p] = tail]
  /\ val' = [val EXCEPT ![p] = v]
  /\ pc' = [pc EXCEPT ![p] = "check"]
  /\ claimed' = Append(claimed, v)
  /\ UNCHANGED <<head, seq, data, cpc, result, consumed, rejected>>

\* diff = loc->seq.load() - pos
Diff(p) == seq[Cell(pos[p])] - pos[p]

\* Faulty variant: the loop is left although the cell still holds an object.
PutCheckNoWait(p) ==
  /\ pc[p] = "check"
  /\ Diff(p) <= 0
  /\ pc' = [pc EXCEPT ![p] = "write"]
  /\ UNCHANGED <<queue, pos, val, cpc, result, hist>>

\* diff == 0: the cell is free for this ticket.  Any other value leaves the
\* producer in the loop unless PutFull applies.
PutCheck(p) ==
  /\ pc[p] = "check"
  /\ Diff(p) = 0
  /\ pc' = [pc EXCEPT ![p] = "write"]
  /\ UNCHANGED <<queue, pos, val, cpc, result, hist>>

\* if constexpr (FailOnFull) if (diff < 0) return false
PutFull(p) ==
  /\ FailOnFull
  /\ pc[p] = "check"
  /\ Diff(p) < 0
  /\ pc' = [pc EXCEPT ![p] = "full"]
  /\ rejected' = rejected \union {pos[p]}
  /\ UNCHANGED <<queue, pos, val, cpc, result, claimed, consumed>>

\* new (&loc->data) T(...)
PutWrite(p) ==
  /\ pc[p] = "write"
  /\ data' = [data EXCEPT ![Cell(pos[p])] = val[p]]
  /\ pc' = [pc EXCEPT ![p] = "publish"]
  /\ UNCHANGED <<tail, head, seq, pos, val, cpc, result, hist>>

\* Faulty variant: the ticket itself is stored, so the cell never looks full.
PutPublishSamePos(p) ==
  /\ pc[p] = "publish"
  /\ seq' = [seq EXCEPT ![Cell(pos[p])] = pos[p]]
  /\ pc' = [pc EXCEPT ![p] = "idle"]
  /\ UNCHANGED <<tail, head, data, pos, val, cpc, result, hist>>

\* loc->seq.store(pos + 1); return true
PutPublish(p) ==
  /\ pc[p] = "publish"
  /\ seq' = [seq EXCEPT ![Cell(pos[p])] = pos[p] + 1]
  /\ pc' = [pc EXCEPT ![p] = "idle"]
  /\ UNCHANGED <<tail, head, data, pos, val, cpc, result, hist>>

-----------------------------------------------------------------------------
(***************************************************************************)
(* get and getBlocking                                                     *)
(***************************************************************************)

\* Faulty variant: off by one in the comparison with head.
HeadReadyEarly == seq[Cell(head)] >= head

\* diff >= 0, where diff = c->seq.load() - (head + 1)
HeadReady == seq[Cell(head)] >= head + 1

\* get found the object of ticket head
GetFound ==
  /\ cpc \in {"idle", "nullopt"}
  /\ HeadReady
  /\ cpc' = "take"
  /\ UNCHANGED <<queue, pc, pos, val, result, hist>>

\* get returns std::nullopt
GetNullopt ==
  /\ cpc = "idle"
  /\ ~HeadReady
  /\ cpc' = "nullopt"
  /\ UNCHANGED <<queue, pc, pos, val, result, hist>>

\* getBlocking is called ...
GetBlockingCall ==
  /\ cpc \in {"idle", "nullopt"}
  /\ cpc' = "spin"
  /\ UNCHANGED <<queue, pc, pos, val, result, hist>>

\* ... and leaves its loop
GetBlockingFound ==
  /\ cpc = "spin"
  /\ HeadReady
  /\ cpc' = "take"
  /\ UNCHANGED <<queue, pc, pos, val, result, hist>>

\* result = std::move(c->data); c->data.~T()
GetTake ==
  /\ cpc = "take"
  /\ result' = data[Cell(head)]
  /\ data' = [data EXCEPT ![Cell(head)] = NoObj]
  /\ cpc' = "release"
  /\ UNCHANGED <<tail, head, seq, pc, pos, val, hist>>

\* Faulty variant: head is advanced before the cell is freed, so the wrong
\* cell is.
GetReleaseNextCell ==
  /\ cpc = "release"
  /\ seq' = [seq EXCEPT ![Cell(head + 1)] = head + 1 + N]
  /\ head' = head + 1
  /\ consumed' = Append(consumed, result)
  /\ cpc' = "idle"
  /\ UNCHANGED <<tail, data, pc, pos, val, result, claimed, rejected>>

\* c->seq.store(head + N); head++; return result
GetRelease ==
  /\ cpc = "release"
  /\ seq' = [seq EXCEPT ![Cell(head)] = head + N]
  /\ head' = head + 1
  /\ consumed' = Append(consumed, result)
  /\ cpc' = "idle"
  /\ UNCHANGED <<tail, data, pc, pos, val, result, claimed, rejected>>

-----------------------------------------------------------------------------
Producer(p) ==
  \/ \E v \in Values : PutClaim(p, v)
  \/ PutCheck(p)
  \/ PutFull(p)
  \/ PutWrite(p)
  \/ PutPublish(p)

Get == GetFound \/ GetTake \/ GetRelease
GetBlocking == GetBlockingCall \/ GetBlockingFound

\* every put has returned, no put follows, and the consumer waits in
\* getBlocking: the only state in which the system legitimately rests
Rest ==
  /\ tail = MaxTickets
  /\ cpc = "spin" /\ ~HeadReady
  /\ \A p \in Producers : pc[p] \in {"idle", "full"}
  /\ UNCHANGED vars

Next ==
  \/ \E p \in Producers : Producer(p)
  \/ Get
  \/ GetNullopt
  \/ GetBlocking
  \/ Rest

Spec == Init /\ [][Next]_vars

(***************************************************************************)
(* A thread inside put finishes its step (nothing obliges it to call put); *)
(* the consumer keeps calling get or getBlocking, as its contract with the *)
(* producers requires.                                                     *)
(***************************************************************************)
Fairness ==
  /\ \A p \in Producers : WF_vars(PutCheck(p) \/ PutFull(p) \/ PutWrite(p) \/ PutPublish(p))
  /\ WF_vars(Get \/ GetBlockingFound)

FairSpec == Spec /\ Fairness

-----------------------------------------------------------------------------
(***************************************************************************)
(* Properties                                                              *)
(***************************************************************************)
InPut(p) == pc[p] \in {"check", "write", "publish"}
InCell(p) == pc[p] \in {"write", "publish"}

\* the tickets whose put has returned true and whose object is still queued
Stored == {t \in head .. tail - 1 :
             /\ t \notin rejected
             /\ \A p \in Producers : ~(InPut(p) /\ pos[p] = t)}

(***************************************************************************)
(* No two threads work on the same cell: producers inside the cell hold    *)
(* different cells, and none is in the cell the consumer is emptying.  A   *)
(* put constructs only in a cell without a live object (nothing is         *)
(* overwritten) and get moves only out of a constructed one.               *)
(***************************************************************************)
CellExclusion ==
  /\ \A p, q \in Producers :
       p # q /\ InCell(p) /\ InCell(q) => Cell(pos[p]) # Cell(pos[q])
  /\ \A p \in Producers :
       InCell(p) /\ cpc \in {"take", "release"} => Cell(pos[p]) # Cell(head)
  /\ \A p \in Producers :
       pc[p] = "write" => data[Cell(pos[p])] = NoObj
  /\ cpc = "take" => data[Cell(head)] # NoObj

(***************************************************************************)
(* What get returned so far is exactly the arguments of the first tickets, *)
(* in ticket order: nothing is lost, duplicated, invented or reordered,    *)
(* whatever the interleaving of the puts.                                  *)
(***************************************************************************)
DeliveredInTicketOrder ==
  /\ Len(consumed) <= Len(claimed)
  /\ \A i \in 1 .. Len(consumed) : consumed[i] = claimed[i]

(***************************************************************************)
(* A put that returned true left its object in its cell, and the object    *)
(* stays there until the consumer takes it.                                *)
(***************************************************************************)
AcceptedStaysQueued ==
  \A t \in Stored :
    \/ data[Cell(t)] = claimed[t + 1]
    \/ t = head /\ cpc = "release" /\ result = claimed[t + 1]

(***************************************************************************)
(* A put that returned false is never delivered: the consumer does not     *)
(* pass its ticket.                                                        *)
(***************************************************************************)
RejectedNotDelivered == \A t \in rejected : head <= t

(***************************************************************************)
(* Waiting puts: at most N objects are stored, and in blocking mode at     *)
(* most one more ticket per producer is outstanding.                       *)
(***************************************************************************)
OutstandingBounded ==
  /\ Cardinality(Stored) <= N
  /\ ~FailOnFull => tail - head <= N + Cardinality(Producers)

(***************************************************************************)
(* In blocking mode get returns nullopt only if the queue is empty or the  *)
(* put that holds the oldest ticket has not returned: an object is never   *)
(* withheld once every put has returned.                                   *)
(***************************************************************************)
NulloptOnlyWhenHeadPending ==
  [][GetNullopt => \/ head = tail
                   \/ \E p \in Producers : InPut(p) /\ pos[p] = head]_vars

(***************************************************************************)
(* In blocking mode every object that a put has drawn a ticket for is      *)
(* delivered, although other producers hold the other cells: the put does  *)
(* not wait for ever.                                                      *)
(***************************************************************************)
EveryPutDelivered ==
  \A i \in 1 .. MaxTickets : Len(claimed) >= i ~> Len(consumed) >= i

(***************************************************************************)
(* The queue is a FIFO channel in the order of the tickets.                *)
(***************************************************************************)
FIFO == INSTANCE BoundedFIFO WITH
          sent <- claimed, rcvd <- consumed,
          Capacity <- IF FailOnFull THEN MaxTickets
                                    ELSE N + Cardinality(Producers)
ImplementsFIFO == FIFO!Spec

-----------------------------------------------------------------------------
(***************************************************************************)
(* The inductive invariant behind these properties.  The window of the     *)
(* tickets head .. head + N - 1 uses each cell once; in the window, seq    *)
(* says of a cell that it is free for its ticket (seq = t) or holds the    *)
(* object of its ticket (seq = t + 1).                                     *)
(***************************************************************************)
Window == head .. head + N - 1

TicketInv ==
  /\ Len(claimed) = tail /\ Len(consumed) = head /\ head <= tail
  /\ \A i \in 1 .. head : consumed[i] = claimed[i]

\* a ticket has one owner, who has drawn it and not been passed
OwnerInv ==
  /\ \A p \in Producers : InPut(p) =>
       /\ pos[p] \in head .. tail - 1
       /\ pos[p] \notin rejected
       /\ val[p] = claimed[pos[p] + 1]
  /\ \A p, q \in Producers :
       p # q /\ InPut(p) /\ InPut(q) => pos[p] # pos[q]

WriterInv ==
  \A p \in Producers :
    /\ InCell(p) => pos[p] \in Window /\ seq[Cell(pos[p])] = pos[p]
    /\ pc[p] = "publish" => data[Cell(pos[p])] = val[p]

PublishedInv ==
  \A t \in Window : seq[Cell(t)] = t + 1 =>
    /\ t < tail
    /\ t \notin rejected
    /\ \A p \in Producers : ~(InPut(p) /\ pos[p] = t)
    /\ ~(t = head /\ cpc = "release") => data[Cell(t)] = claimed[t + 1]

FreeInv ==
  \A t \in Window : seq[Cell(t)] # t + 1 =>
    /\ seq[Cell(t)] = t
    /\ (\A p \in Producers : ~(pc[p] = "publish" /\ pos[p] = t))
         => data[Cell(t)] = NoObj

ConsumerInv ==
  /\ cpc \in {"take", "release"} => seq[Cell(head)] = head + 1
  /\ cpc = "release" => result = claimed[head + 1] /\ data[Cell(head)] = NoObj

\* every outstanding ticket is published, given up, or owned
AccountedInv ==
  /\ \A t \in rejected : t \in head .. tail - 1
  /\ ~FailOnFull => rejected = {}
  /\ \A t \in head .. tail - 1 :
       \/ t \in Window /\ seq[Cell(t)] = t + 1
       \/ t \in rejected
       \/ \E p \in Producers : InPut(p) /\ pos[p] = t

IInv ==
  /\ TypeOK
  /\ TicketInv
  /\ OwnerInv
  /\ WriterInv
  /\ PublishedInv
  /\ FreeInv
  /\ ConsumerInv
  /\ AccountedInv

-----------------------------------------------------------------------------
(***************************************************************************)
(* A claim of a comment in the code.                                       *)
(***************************************************************************)

(***************************************************************************)
(* "return false; // queue full": when put fails every cell is in use,     *)
(* counting the cells that other puts have claimed and the one the         *)
(* consumer is emptying.                                                   *)
(***************************************************************************)
InUse(c, p) ==
  \/ data[c] # NoObj
  \/ \E q \in Producers \ {p} : InPut(q) /\ Cell(pos[q]) = c
  \/ cpc \in {"take", "release"} /\ Cell(head) = c
FalseMeansQueueFull ==
  [][\A p \in Producers : PutFull(p) => \A c \in Cells : InUse(c, p)]_vars

=============================================================================
