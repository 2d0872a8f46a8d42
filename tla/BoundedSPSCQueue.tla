-------------------------- MODULE BoundedSPSCQueue --------------------------
(***************************************************************************)
(* BoundedSPSCQueue<T, N, FailOnFull> (concurrency/queues/                 *)
(* bounded_spsc_queue.h): a ring of N slots with one producer, who owns    *)
(* tail, and one consumer, who owns head.  One slot stays empty so that    *)
(* head = tail means empty and tail + 1 = head means full.                 *)
(*                                                                         *)
(* One action per access to shared memory.  Each thread reads its own      *)
(* index with relaxed order, which returns the value it wrote itself, and  *)
(* the other's with acquire order, which pairs with the release store.     *)
(***************************************************************************)
EXTENDS Integers, Sequences, FiniteSets

CONSTANTS
  N,           \* the number of slots, a power of two
  Values,      \* the objects that are put
  NoObj,       \* what a slot holds when no object lives in it
  FailOnFull,  \* the template parameter: put fails instead of waiting
  MaxPuts      \* bound on the number of objects put

ASSUME NAssumption == N \in Nat /\ N > 1
ASSUME PowerOfTwo == \E k \in 1..62 : N = 2^k
ASSUME ValueAssumption == NoObj \notin Values
ASSUME ModeAssumption == FailOnFull \in BOOLEAN
ASSUME BoundAssumption == MaxPuts \in Nat

VARIABLES
  head,      \* index of the slot the consumer takes next
  tail,      \* index of the slot the producer fills next
  buffer,    \* buffer[i]: the object of slot i
  ppc,       \* where the producer is in put
  val,       \* the argument of put
  cpc,       \* where the consumer is in get or getBlocking
  result,    \* the local variable of get that holds the moved object
  sent,      \* history: the objects published, in order
  rcvd       \* history: the objects returned by get and getBlocking

vars == <<head, tail, buffer, ppc, val, cpc, result, sent, rcvd>>

Slots == 0 .. N - 1

\* i & MASK
Slot(i) == i % N

\* "idle": not called, or returned true; "full": returned false
ProducerPC == {"idle", "check", "write", "publish", "full"}

\* "idle": not called, or returned a value; "nullopt": get returned nullopt;
\* "spin": waiting in getBlocking
ConsumerPC == {"idle", "nullopt", "spin", "take", "release"}

TypeOK ==
  /\ head \in Slots
  /\ tail \in Slots
  /\ buffer \in [Slots -> Values \union {NoObj}]
  /\ ppc \in ProducerPC
  /\ val \in Values \union {NoObj}
  /\ cpc \in ConsumerPC
  /\ result \in Values \union {NoObj}
  /\ sent \in Seq(Values)
  /\ rcvd \in Seq(Values)

Init ==
  /\ head = 0
  /\ tail = 0
  /\ buffer = [i \in Slots |-> NoObj]
  /\ ppc = "idle"
  /\ val = NoObj
  /\ cpc = "idle"
  /\ result = NoObj
  /\ sent = << >>
  /\ rcvd = << >>

-----------------------------------------------------------------------------
(***************************************************************************)
(* put                                                                     *)
(***************************************************************************)

\* next = (t + 1) & MASK, where t = tail is the producer's own index
Following(i) == Slot(i + 1)

PutCall(v) ==
  /\ ppc \in {"idle", "full"}
  /\ Len(sent) < MaxPuts
  /\ ppc' = "check"
  /\ val' = v
  /\ UNCHANGED <<head, tail, buffer, cpc, result, sent, rcvd>>

\* Faulty variant: full is tested against tail itself, as if all N slots
\* could be used.
NoRoomAllSlots == tail = head /\ buffer[tail] # NoObj

\* next == head.load()
NoRoom == Following(tail) = head

\* the test fails: put goes on
PutRoom ==
  /\ ppc = "check"
  /\ ~NoRoom
  /\ ppc' = "write"
  /\ UNCHANGED <<head, tail, buffer, val, cpc, result, sent, rcvd>>

\* if constexpr (FailOnFull) return false; otherwise put stays in its loop
PutFull ==
  /\ FailOnFull
  /\ ppc = "check"
  /\ NoRoom
  /\ ppc' = "full"
  /\ UNCHANGED <<head, tail, buffer, val, cpc, result, sent, rcvd>>

\* new (buffer + t) T(...)
PutWrite ==
  /\ ppc = "write"
  /\ buffer' = [buffer EXCEPT ![tail] = val]
  /\ ppc' = "publish"
  /\ UNCHANGED <<head, tail, val, cpc, result, sent, rcvd>>

\* tail.store(next); return true
PutPublish ==
  /\ ppc = "publish"
  /\ tail' = Following(tail)
  /\ sent' = Append(sent, val)
  /\ ppc' = "idle"
  /\ UNCHANGED <<head, buffer, val, cpc, result, rcvd>>

-----------------------------------------------------------------------------
(***************************************************************************)
(* get and getBlocking                                                     *)
(***************************************************************************)

\* Faulty variant: off by one in the test.
EmptyEarly == Following(head) = tail

\* h == tail.load()
Empty == head = tail

GetFound ==
  /\ cpc \in {"idle", "nullopt"}
  /\ ~Empty
  /\ cpc' = "take"
  /\ UNCHANGED <<head, tail, buffer, ppc, val, result, sent, rcvd>>

GetNullopt ==
  /\ cpc = "idle"
  /\ Empty
  /\ cpc' = "nullopt"
  /\ UNCHANGED <<head, tail, buffer, ppc, val, result, sent, rcvd>>

GetBlockingCall ==
  /\ cpc \in {"idle", "nullopt"}
  /\ cpc' = "spin"
  /\ UNCHANGED <<head, tail, buffer, ppc, val, result, sent, rcvd>>

GetBlockingFound ==
  /\ cpc = "spin"
  /\ ~Empty
  /\ cpc' = "take"
  /\ UNCHANGED <<head, tail, buffer, ppc, val, result, sent, rcvd>>

\* result = std::move(buffer[h]); buffer[h].~T()
GetTake ==
  /\ cpc = "take"
  /\ result' = buffer[head]
  /\ buffer' = [buffer EXCEPT ![head] = NoObj]
  /\ cpc' = "release"
  /\ UNCHANGED <<head, tail, ppc, val, sent, rcvd>>

\* Faulty variant: head is not advanced.
GetReleaseNoAdvance ==
  /\ cpc = "release"
  /\ rcvd' = Append(rcvd, result)
  /\ cpc' = "idle"
  /\ UNCHANGED <<head, tail, buffer, ppc, val, result, sent>>

\* head.store((h + 1) & MASK); return result
GetRelease ==
  /\ cpc = "release"
  /\ head' = Following(head)
  /\ rcvd' = Append(rcvd, result)
  /\ cpc' = "idle"
  /\ UNCHANGED <<tail, buffer, ppc, val, result, sent>>

-----------------------------------------------------------------------------
Put == PutRoom \/ PutFull \/ PutWrite \/ PutPublish
Get == GetFound \/ GetTake \/ GetRelease
GetBlocking == GetBlockingCall \/ GetBlockingFound

\* no put is running or follows, and the consumer waits in getBlocking
Rest ==
  /\ Len(sent) = MaxPuts
  /\ ppc \in {"idle", "full"}
  /\ cpc = "spin" /\ Empty
  /\ UNCHANGED vars

Next ==
  \/ \E v \in Values : PutCall(v)
  \/ Put
  \/ Get
  \/ GetNullopt
  \/ GetBlocking
  \/ Rest

Spec == Init /\ [][Next]_vars

(***************************************************************************)
(* A put that was called takes its steps, and the consumer keeps calling   *)
(* get or getBlocking.                                                     *)
(***************************************************************************)
Fairness == WF_vars(Put) /\ WF_vars(Get \/ GetBlockingFound)

FairSpec == Spec /\ Fairness

-----------------------------------------------------------------------------
(***************************************************************************)
(* Properties                                                              *)
(***************************************************************************)
InSlot == ppc \in {"write", "publish"}
Taking == cpc \in {"take", "release"}

(***************************************************************************)
(* The producer and the consumer are never in the same slot; put           *)
(* constructs only in an empty slot and get moves only out of a filled one *)
(***************************************************************************)
SlotExclusion ==
  /\ InSlot /\ Taking => tail # head
  /\ ppc = "write" => buffer[tail] = NoObj
  /\ cpc = "take" => buffer[head] # NoObj

(***************************************************************************)
(* What get returned is what put published, in order, each object once.    *)
(***************************************************************************)
DeliveredInOrder ==
  /\ Len(rcvd) <= Len(sent)
  /\ \A i \in 1 .. Len(rcvd) : rcvd[i] = sent[i]

(***************************************************************************)
(* "return std::nullopt; // nothing in the queue currently"                *)
(* (bounded_spsc_queue.h:60): every object published has been returned.    *)
(***************************************************************************)
NulloptMeansNothingInQueue == [][GetNullopt => Len(rcvd) = Len(sent)]_vars

(***************************************************************************)
(* put returns false only when N - 1 objects are in the queue, the         *)
(* capacity that the static_assert's "One entry is used to know if queue   *)
(* is full" announces.                                                     *)
(***************************************************************************)
FalseMeansQueueFull == [][PutFull => Len(sent) - Len(rcvd) = N - 1]_vars

(***************************************************************************)
(* Every object that put has published is delivered.                       *)
(***************************************************************************)
EveryPutDelivered == \A i \in 1 .. MaxPuts : Len(sent) >= i ~> Len(rcvd) >= i

(***************************************************************************)
(* The queue is a FIFO channel of capacity N - 1.                          *)
(***************************************************************************)
FIFO == INSTANCE BoundedFIFO WITH Capacity <- N - 1
ImplementsFIFO == FIFO!Spec

-----------------------------------------------------------------------------
(***************************************************************************)
(* The inductive invariant: the indices are the lengths of the histories   *)
(* modulo N, and the object of a position between them is in its slot.     *)
(***************************************************************************)
IndexInv ==
  /\ tail = Slot(Len(sent)) /\ head = Slot(Len(rcvd))
  /\ Len(rcvd) <= Len(sent) /\ Len(sent) - Len(rcvd) <= N - 1
  /\ InSlot => Len(sent) - Len(rcvd) < N - 1
  /\ Taking => Len(rcvd) < Len(sent)

FilledInv ==
  /\ \A i \in Len(rcvd) .. Len(sent) - 1 :
       ~(i = Len(rcvd) /\ cpc = "release") => buffer[Slot(i)] = sent[i + 1]
  /\ cpc = "release" => result = sent[Len(rcvd) + 1] /\ buffer[head] = NoObj

EmptyInv ==
  \A i \in Len(sent) .. Len(rcvd) + N - 1 :
    ~(i = Len(sent) /\ ppc = "publish") => buffer[Slot(i)] = NoObj

PutInv ==
  /\ ppc \in {"check", "write", "publish"} => val \in Values
  /\ ppc = "publish" => buffer[tail] = val

IInv == TypeOK /\ IndexInv /\ FilledInv /\ EmptyInv /\ PutInv /\ DeliveredInOrder

=============================================================================
