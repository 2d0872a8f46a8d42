---------------------- MODULE BoundedSPSCQueue_proofs ----------------------
(***************************************************************************)
(* Proofs about BoundedSPSCQueue for every number of slots, every set of   *)
(* values and both values of FailOnFull.                                   *)
(***************************************************************************)
EXTENDS BoundedSPSCQueue, IndexLemmas, SequenceTheorems

(***************************************************************************)
(* What the proofs use of the index arithmetic of the ring.                *)
(***************************************************************************)
LEMMA SlotFacts ==
  /\ \A i \in Nat : Slot(i) \in Slots
  /\ \A i, j \in Nat : Slot(i) = Slot(j) /\ i < j + N /\ j < i + N => i = j
  /\ \A i \in Nat : Slot(i + N) = Slot(i)
  /\ \A i \in Nat : Following(Slot(i)) = Slot(i + 1)
<1>1. N \in Nat \ {0}
  BY NAssumption
<1>2. ASSUME NEW i \in Nat PROVE i % N \in 0 .. N - 1
  BY <1>1, ModRange, Zenon
<1>3. ASSUME NEW i \in Nat, NEW j \in Nat, i % N = j % N, i < j + N, j < i + N
      PROVE  i = j
  BY <1>1, <1>3, ModInjective, Zenon
<1>4. ASSUME NEW i \in Nat PROVE (i + N) % N = i % N
  BY <1>1, ModNextLap, Zenon
<1>5. ASSUME NEW i \in Nat PROVE ((i % N) + 1) % N = (i + 1) % N
  BY <1>1, ModSuccessor, Zenon
<1> QED
  BY <1>2, <1>3, <1>4, <1>5, Zenon DEF Slot, Slots, Following

(***************************************************************************)
(* Slot 0 is the slot of position 0.                                       *)
(***************************************************************************)
LEMMA SlotZero == Slot(0) = 0
<1>1. N \in Nat \ {0} /\ 0 \in 0 .. N - 1 /\ 0 = N * 0 + 0
  BY NAssumption
<1> QED
  BY <1>1, ModUnique DEF Slot

(***************************************************************************)
(* The invariant holds when the constructor has run.                       *)
(***************************************************************************)
LEMMA InitIInv == Init => IInv
<1> SUFFICES ASSUME Init PROVE IInv
  OBVIOUS
<1> USE NAssumption DEF Init
<1>1. TypeOK
  BY DEF TypeOK, Slots, ProducerPC, ConsumerPC
<1>2. IndexInv
  BY SlotZero DEF IndexInv, InSlot, Taking
<1>3. FilledInv /\ PutInv /\ DeliveredInOrder
  BY DEF FilledInv, PutInv, DeliveredInOrder
<1>4. EmptyInv
  BY SlotFacts DEF EmptyInv
<1> QED
  BY <1>1, <1>2, <1>3, <1>4 DEF IInv

(***************************************************************************)
(* The positions the invariant speaks about: fewer than N of them, each    *)
(* with its own slot.                                                      *)
(***************************************************************************)
LEMMA Positions ==
  ASSUME IInv
  PROVE  LET Positions == Len(rcvd) .. Len(rcvd) + N - 1 IN
         /\ Len(rcvd) \in Nat /\ Len(sent) \in Nat
         /\ Len(rcvd) \in Positions /\ Len(sent) \in Positions
         /\ \A i \in Positions : i \in Nat /\ Slot(i) \in Slots
         /\ \A i, j \in Positions : Slot(i) = Slot(j) => i = j
<1> DEFINE P == Len(rcvd) .. Len(rcvd) + N - 1
<1>1. Len(rcvd) \in Nat /\ Len(sent) \in Nat
  BY DEF IInv, TypeOK
<1>2. Len(rcvd) \in P /\ Len(sent) \in P
  BY <1>1, NAssumption DEF IInv, IndexInv
<1>3. \A i \in P : i \in Nat
  BY <1>1, NAssumption
<1>4. \A i, j \in P : i < j + N /\ j < i + N
  BY <1>1, NAssumption
<1> HIDE DEF P
<1>5. \A i, j \in P : Slot(i) = Slot(j) => i = j
  BY <1>3, <1>4, SlotFacts
<1>6. \A i \in P : Slot(i) \in Slots
  BY <1>3, SlotFacts
<1> QED
  BY <1>1, <1>2, <1>3, <1>5, <1>6 DEF P

-----------------------------------------------------------------------------
(***************************************************************************)
(* The steps of put preserve the invariant.                                *)
(***************************************************************************)
LEMMA PutStep ==
  ASSUME IInv, (\E v \in Values : PutCall(v)) \/ Put
  PROVE  IInv'
<1> USE DEF IInv
<1> DEFINE np == Len(sent)
           nc == Len(rcvd)
<1>0. np \in Nat /\ nc \in Nat /\ N \in Nat /\ N > 1
  BY NAssumption, Positions
<1>1. ASSUME NEW v \in Values, PutCall(v) PROVE IInv'
  BY <1>1 DEF PutCall, TypeOK, ProducerPC, IndexInv, FilledInv, EmptyInv,
              PutInv, DeliveredInOrder, InSlot, Taking
<1>2. CASE PutRoom
  <2>1. np - nc < N - 1
    <3>1. Following(tail) # head
      BY <1>2 DEF PutRoom, NoRoom
    <3>2. Slot(np + 1) # Slot(nc)
      BY <3>1, <1>0, SlotFacts DEF IndexInv
    <3>3. np + 1 # nc + N
      BY <3>2, <1>0, SlotFacts
    <3> QED
      BY <3>3, <1>0 DEF IndexInv
  <2> QED
    BY <1>2, <2>1 DEF PutRoom, TypeOK, ProducerPC, IndexInv, FilledInv, EmptyInv,
                      PutInv, DeliveredInOrder, InSlot, Taking
<1>3. CASE PutFull
  BY <1>3 DEF PutFull, TypeOK, ProducerPC, IndexInv, FilledInv, EmptyInv,
              PutInv, DeliveredInOrder, InSlot, Taking
<1>4. CASE PutWrite
  <2>1. /\ UNCHANGED <<head, tail, val, cpc, result, sent, rcvd>>
        /\ ppc = "write" /\ ppc' = "publish" /\ tail = Slot(np) /\ val \in Values
    BY <1>4 DEF PutWrite, IndexInv, PutInv
  <2>2. /\ buffer'[Slot(np)] = val
        /\ \A i \in nc .. nc + N - 1 : i # np => buffer'[Slot(i)] = buffer[Slot(i)]
    BY <1>4, <2>1, Positions DEF PutWrite, TypeOK
  <2>3. TypeOK' /\ DeliveredInOrder'
    BY <1>4, <2>1 DEF PutWrite, TypeOK, ProducerPC, DeliveredInOrder
  <2>4. IndexInv' /\ PutInv'
    BY <2>1, <2>2 DEF IndexInv, PutInv, InSlot, Taking
  <2>5. /\ \A i \in nc .. np - 1 : i \in nc .. nc + N - 1 /\ i # np
        /\ \A i \in np .. nc + N - 1 : i \in nc .. nc + N - 1
    BY <1>0 DEF IndexInv
  <2>6. FilledInv'
    <3>1. cpc = "release" => head = Slot(nc) /\ nc # np
      BY <1>0 DEF IndexInv, Taking
    <3> QED
      BY <2>1, <2>2, <2>5, <3>1, Positions DEF FilledInv
  <2>7. EmptyInv'
    BY <2>1, <2>2, <2>5 DEF EmptyInv
  <2> QED
    BY <2>3, <2>4, <2>6, <2>7
<1>5. CASE PutPublish
  <2>1. /\ UNCHANGED <<head, buffer, val, cpc, result, rcvd>>
        /\ ppc = "publish" /\ ppc' = "idle" /\ tail = Slot(np)
        /\ tail' = Following(tail)
        /\ val \in Values /\ buffer[Slot(np)] = val /\ np - nc < N - 1
    BY <1>5 DEF PutPublish, IndexInv, PutInv, InSlot
  <2>2. /\ sent' \in Seq(Values) /\ Len(sent') = np + 1 /\ sent'[np + 1] = val
        /\ \A i \in 1 .. np : sent'[i] = sent[i]
    BY <1>5, <2>1, AppendProperties DEF PutPublish, TypeOK
  <2>3. tail' = Slot(np + 1) /\ tail' \in Slots
    BY <2>1, <1>0, SlotFacts
  <2>4. TypeOK'
    BY <2>1, <2>2, <2>3 DEF TypeOK, ProducerPC
  <2>5. IndexInv' /\ PutInv'
    BY <1>0, <2>1, <2>2, <2>3 DEF IndexInv, PutInv, InSlot, Taking
  <2>6. DeliveredInOrder'
    BY <1>0, <2>1, <2>2 DEF DeliveredInOrder
  <2>7. FilledInv'
    <3>1. ASSUME NEW i \in nc .. np, ~(i = nc /\ cpc = "release")
          PROVE  buffer[Slot(i)] = sent'[i + 1]
      <4>1. CASE i = np
        BY <4>1, <2>1, <2>2
      <4>2. CASE i # np
        <5>1. i \in nc .. np - 1 /\ i + 1 \in 1 .. np
          BY <4>2, <1>0
        <5> QED
          BY <5>1, <3>1, <2>2 DEF FilledInv
      <4> QED
        BY <4>1, <4>2
    <3>2. cpc = "release" => sent'[nc + 1] = sent[nc + 1]
      BY <1>0, <2>2 DEF IndexInv, Taking
    <3>3. Len(rcvd') .. Len(sent') - 1 = nc .. np
      BY <1>0, <2>1, <2>2
    <3> QED
      BY <2>1, <3>1, <3>2, <3>3 DEF FilledInv
  <2>8. EmptyInv'
    <3>1. \A i \in np + 1 .. nc + N - 1 : i \in np .. nc + N - 1 /\ i # np
      BY <1>0
    <3> QED
      BY <2>1, <2>2, <3>1 DEF EmptyInv
  <2> QED
    BY <2>4, <2>5, <2>6, <2>7, <2>8
<1> QED
  BY <1>1, <1>2, <1>3, <1>4, <1>5 DEF Put

(***************************************************************************)
(* The steps of get and getBlocking preserve the invariant.                *)
(***************************************************************************)
LEMMA GetStep ==
  ASSUME IInv, Get \/ GetNullopt \/ GetBlocking
  PROVE  IInv'
<1> USE DEF IInv
<1> DEFINE np == Len(sent)
           nc == Len(rcvd)
<1>0. np \in Nat /\ nc \in Nat /\ N \in Nat /\ N > 1
  BY NAssumption, Positions
<1>1. CASE GetFound \/ GetBlockingFound
  <2>1. nc < np
    <3>1. Slot(nc) # Slot(np)
      BY <1>1 DEF GetFound, GetBlockingFound, Empty, IndexInv
    <3> QED
      BY <3>1, <1>0 DEF IndexInv
  <2> QED
    BY <1>1, <2>1 DEF GetFound, GetBlockingFound, TypeOK, ConsumerPC, IndexInv,
         FilledInv, EmptyInv, PutInv, DeliveredInOrder, InSlot, Taking
<1>2. CASE GetNullopt \/ GetBlockingCall
  BY <1>2 DEF GetNullopt, GetBlockingCall, TypeOK, ConsumerPC, IndexInv,
       FilledInv, EmptyInv, PutInv, DeliveredInOrder, InSlot, Taking
<1>3. CASE GetTake
  <2>1. /\ UNCHANGED <<head, tail, ppc, val, sent, rcvd>>
        /\ cpc = "take" /\ cpc' = "release" /\ result' = buffer[Slot(nc)]
        /\ head = Slot(nc) /\ tail = Slot(np) /\ nc < np
    BY <1>3 DEF GetTake, IndexInv, Taking
  <2>2. /\ buffer'[Slot(nc)] = NoObj
        /\ \A i \in nc .. nc + N - 1 : i # nc => buffer'[Slot(i)] = buffer[Slot(i)]
    BY <1>3, <2>1, Positions DEF GetTake, TypeOK
  <2>3. buffer[Slot(nc)] = sent[nc + 1]
    BY <1>0, <2>1 DEF FilledInv
  <2>4. TypeOK' /\ DeliveredInOrder'
    BY <1>3, <2>1 DEF GetTake, TypeOK, ConsumerPC, DeliveredInOrder
  <2>5. IndexInv'
    BY <2>1 DEF IndexInv, InSlot, Taking
  <2>6. /\ \A i \in nc .. np - 1 : i \in nc .. nc + N - 1
        /\ \A i \in np .. nc + N - 1 : i \in nc .. nc + N - 1 /\ i # nc
    BY <1>0, <2>1 DEF IndexInv
  <2>7. FilledInv'
    BY <2>1, <2>2, <2>3, <2>6 DEF FilledInv
  <2>8. EmptyInv'
    BY <2>1, <2>2, <2>6 DEF EmptyInv
  <2>9. PutInv'
    <3>1. np \in nc .. nc + N - 1 /\ np # nc
      BY <2>1, Positions
    <3> QED
      BY <2>1, <2>2, <3>1 DEF PutInv
  <2> QED
    BY <2>4, <2>5, <2>7, <2>8, <2>9
<1>4. CASE GetRelease
  <2>1. /\ UNCHANGED <<tail, buffer, ppc, val, result, sent>>
        /\ cpc = "release" /\ cpc' = "idle"
        /\ head = Slot(nc) /\ head' = Following(head) /\ nc < np
        /\ result = sent[nc + 1] /\ buffer[Slot(nc)] = NoObj
    BY <1>4 DEF GetRelease, IndexInv, FilledInv, Taking
  <2>2. result \in Values
    BY <1>0, <2>1 DEF TypeOK
  <2>3. /\ rcvd' \in Seq(Values) /\ Len(rcvd') = nc + 1 /\ rcvd'[nc + 1] = result
        /\ \A i \in 1 .. nc : rcvd'[i] = rcvd[i]
    BY <1>4, <2>2, AppendProperties DEF GetRelease, TypeOK
  <2>4. head' = Slot(nc + 1) /\ head' \in Slots
    BY <2>1, <1>0, SlotFacts
  <2>5. TypeOK'
    BY <2>1, <2>3, <2>4 DEF TypeOK, ConsumerPC
  <2>6. IndexInv'
    BY <1>0, <2>1, <2>3, <2>4 DEF IndexInv, InSlot, Taking
  <2>7. DeliveredInOrder'
    BY <1>0, <2>1, <2>3 DEF DeliveredInOrder
  <2>8. FilledInv'
    <3>1. \A i \in nc + 1 .. np - 1 : i \in nc .. np - 1 /\ i # nc
      BY <1>0
    <3> QED
      BY <2>1, <2>3, <3>1 DEF FilledInv
  <2>9. EmptyInv'
    <3>1. ASSUME NEW i \in np .. nc + N, ~(i = np /\ ppc = "publish")
          PROVE  buffer[Slot(i)] = NoObj
      <4>1. CASE i = nc + N
        BY <4>1, <1>0, <2>1, SlotFacts
      <4>2. CASE i # nc + N
        <5>1. i \in np .. nc + N - 1
          BY <4>2, <1>0
        <5> QED
          BY <3>1, <5>1 DEF EmptyInv
      <4> QED
        BY <4>1, <4>2
    <3>2. Len(sent') .. Len(rcvd') + N - 1 = np .. nc + N
      BY <1>0, <2>1, <2>3
    <3> QED
      BY <2>1, <3>1, <3>2 DEF EmptyInv
  <2>10. PutInv'
    BY <2>1 DEF PutInv
  <2> QED
    BY <2>5, <2>6, <2>7, <2>8, <2>9, <2>10
<1> QED
  BY <1>1, <1>2, <1>3, <1>4 DEF Get, GetBlocking

(***************************************************************************)
(* Every step preserves the invariant.                                     *)
(***************************************************************************)
LEMMA NextIInv == IInv /\ [Next]_vars => IInv'
<1> SUFFICES ASSUME IInv, [Next]_vars PROVE IInv'
  OBVIOUS
<1>1. CASE UNCHANGED vars
  BY <1>1 DEF vars, IInv, TypeOK, IndexInv, FilledInv, EmptyInv, PutInv,
              DeliveredInOrder, InSlot, Taking
<1> QED
  BY <1>1, PutStep, GetStep DEF Next, Rest

(***************************************************************************)
(* The invariant holds in every reachable state.                           *)
(***************************************************************************)
THEOREM Invariance == Spec => []IInv
<1> QED
  BY InitIInv, NextIInv, PTL DEF Spec

(***************************************************************************)
(* get returns what put published, in order, for every N.                  *)
(***************************************************************************)
THEOREM InOrderDelivery == Spec => []DeliveredInOrder
<1>1. IInv => DeliveredInOrder
  BY DEF IInv
<1> QED
  BY <1>1, Invariance, PTL

(***************************************************************************)
(* The two threads are never in the same slot.                             *)
(***************************************************************************)
THEOREM Exclusion == Spec => []SlotExclusion
<1>1. IInv => SlotExclusion
  <2> SUFFICES ASSUME IInv PROVE SlotExclusion
    OBVIOUS
  <2> USE DEF IInv
  <2>1. tail = Slot(Len(sent)) /\ head = Slot(Len(rcvd))
    BY DEF IndexInv
  <2>2. InSlot /\ Taking => tail # head
    BY <2>1, Positions DEF IndexInv
  <2>3. ppc = "write" => buffer[tail] = NoObj
    <3>1. Len(sent) \in Len(sent) .. Len(rcvd) + N - 1
      BY Positions
    <3> QED
      BY <2>1, <3>1 DEF EmptyInv
  <2>4. cpc = "take" => buffer[head] # NoObj
    <3> SUFFICES ASSUME cpc = "take" PROVE buffer[head] # NoObj
      OBVIOUS
    <3>1. /\ Len(rcvd) \in Len(rcvd) .. Len(sent) - 1
          /\ Len(rcvd) + 1 \in 1 .. Len(sent)
      BY Positions DEF IndexInv, Taking
    <3>2. buffer[head] = sent[Len(rcvd) + 1]
      BY <2>1, <3>1 DEF FilledInv
    <3> QED
      BY <3>1, <3>2, ValueAssumption DEF TypeOK
  <2> QED
    BY <2>2, <2>3, <2>4 DEF SlotExclusion
<1> QED
  BY <1>1, Invariance, PTL

(***************************************************************************)
(* nullopt means that everything published has been returned.              *)
(***************************************************************************)
THEOREM NulloptHonest == Spec => NulloptMeansNothingInQueue
<1>1. ASSUME IInv, GetNullopt PROVE Len(rcvd) = Len(sent)
  <2>1. Slot(Len(sent)) = Slot(Len(rcvd))
    BY <1>1 DEF GetNullopt, Empty, IInv, IndexInv
  <2> QED
    BY <1>1, <2>1, Positions
<1>2. IInv => [GetNullopt => Len(rcvd) = Len(sent)]_vars
  BY <1>1
<1> QED
  BY <1>2, Invariance, PTL DEF NulloptMeansNothingInQueue

(***************************************************************************)
(* false means that N - 1 objects are queued.                              *)
(***************************************************************************)
THEOREM FalseHonest == Spec => FalseMeansQueueFull
<1>1. ASSUME IInv, PutFull PROVE Len(sent) - Len(rcvd) = N - 1
  <2>1. /\ Len(rcvd) \in Nat /\ Len(sent) \in Nat /\ N \in Nat /\ N > 1
        /\ Len(rcvd) <= Len(sent) /\ Len(sent) - Len(rcvd) <= N - 1
    BY <1>1, Positions, NAssumption DEF IInv, IndexInv
  <2>2. Slot(Len(sent) + 1) = Slot(Len(rcvd))
    BY <1>1, <2>1, SlotFacts DEF PutFull, NoRoom, IInv, IndexInv
  <2>3. CASE Len(sent) + 1 < Len(rcvd) + N
    <3>1. Len(sent) + 1 = Len(rcvd)
      BY <2>1, <2>2, <2>3, SlotFacts
    <3> QED
      BY <2>1, <3>1
  <2> QED
    BY <2>1, <2>3
<1>2. IInv => [PutFull => Len(sent) - Len(rcvd) = N - 1]_vars
  BY <1>1
<1> QED
  BY <1>2, Invariance, PTL DEF FalseMeansQueueFull

(***************************************************************************)
(* The queue implements the abstract FIFO channel of capacity N - 1:       *)
(* tail.store is Send, head.store is Receive.                              *)
(***************************************************************************)
THEOREM Refinement == Spec => ImplementsFIFO
<1>1. Init => FIFO!Init
  BY DEF Init, FIFO!Init
<1>2. ASSUME IInv, [Next]_vars
      PROVE  [FIFO!Next]_(FIFO!fifoVars)
  <2>1. ASSUME PutPublish PROVE \E v \in Values : FIFO!Send(v)
    <3>1. val \in Values /\ Len(sent) - Len(rcvd) < N - 1
      BY <1>2, <2>1 DEF PutPublish, IInv, PutInv, IndexInv, InSlot
    <3>2. FIFO!Send(val)
      BY <2>1, <3>1 DEF PutPublish, FIFO!Send
    <3> QED
      BY <3>1, <3>2
  <2>2. ASSUME GetRelease PROVE FIFO!Receive
    BY <1>2, <2>2 DEF GetRelease, IInv, IndexInv, FilledInv, Taking, FIFO!Receive
  <2>3. ASSUME NEW v \in Values, PutCall(v) PROVE UNCHANGED <<sent, rcvd>>
    BY <2>3 DEF PutCall
  <2>4. ASSUME \/ PutRoom \/ PutFull \/ PutWrite
               \/ GetFound \/ GetTake \/ GetNullopt \/ GetBlocking
               \/ UNCHANGED vars
        PROVE  UNCHANGED <<sent, rcvd>>
    BY <2>4 DEF PutRoom, PutFull, PutWrite, GetFound, GetTake, GetNullopt,
                GetBlocking, GetBlockingCall, GetBlockingFound, vars
  <2> QED
    BY <1>2, <2>1, <2>2, <2>3, <2>4
       DEF Next, Put, Get, Rest, FIFO!Next, FIFO!fifoVars
<1> QED
  BY <1>1, <1>2, Invariance, PTL DEF Spec, ImplementsFIFO, FIFO!Spec

=============================================================================
