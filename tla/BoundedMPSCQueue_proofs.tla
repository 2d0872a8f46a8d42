---------------------- MODULE BoundedMPSCQueue_proofs ----------------------
(***************************************************************************)
(* Proofs about BoundedMPSCQueue for every number of cells, every set of   *)
(* producers and values, and both values of FailOnFull.                    *)
(***************************************************************************)
EXTENDS BoundedMPSCQueue, IndexLemmas, SequenceTheorems, FiniteSetTheorems

(***************************************************************************)
(* The cell of a ticket is a cell of the ring.                             *)
(***************************************************************************)
LEMMA CellType == \A t \in Nat : Cell(t) \in Cells
BY NAssumption, ModRange DEF Cell, Cells

(***************************************************************************)
(* Two tickets less than a lap apart with the same cell are equal.         *)
(***************************************************************************)
LEMMA CellInjective ==
  \A t, u \in Nat : Cell(t) = Cell(u) /\ t < u + N /\ u < t + N => t = u
<1> SUFFICES ASSUME NEW t \in Nat, NEW u \in Nat,
                    t % N = u % N, t < u + N, u < t + N
             PROVE  t = u
  BY DEF Cell
<1>1. N \in Nat \ {0}
  BY NAssumption
<1> QED
  BY <1>1, ModInjective, Zenon

(***************************************************************************)
(* The ticket that enters the window when head advances uses the cell that *)
(* the consumer has just freed.                                            *)
(***************************************************************************)
LEMMA CellNextLap == \A t \in Nat : Cell(t + N) = Cell(t)
<1> SUFFICES ASSUME NEW t \in Nat PROVE (t + N) % N = t % N
  BY DEF Cell
<1>1. N \in Nat \ {0}
  BY NAssumption
<1> QED
  BY <1>1, ModNextLap, Zenon

(***************************************************************************)
(* The first lap: the cell of ticket t is t.                               *)
(***************************************************************************)
LEMMA CellFirstLap == \A t \in Cells : Cell(t) = t
<1> SUFFICES ASSUME NEW t \in Cells PROVE t % N = t
  BY DEF Cell
<1>1. t \in Nat /\ t \in 0 .. N - 1 /\ N \in Nat \ {0}
  BY NAssumption DEF Cells
<1>2. t = N * 0 + t
  BY <1>1
<1> QED
  BY <1>1, <1>2, ModUnique

(***************************************************************************)
(* A window of N consecutive tickets uses every cell.                      *)
(***************************************************************************)
LEMMA CellCovered ==
  ASSUME NEW h \in Nat, NEW c \in Cells
  PROVE  \E t \in h .. h + N - 1 : Cell(t) = c
<1>1. N \in Nat \ {0} /\ c \in 0 .. N - 1
  BY NAssumption DEF Cells
<1>2. PICK a \in Int : \E r \in 0 .. N - 1 : h = N * a + r /\ r = (h % N)
  BY <1>1, ModSplit, Zenon
<1>3. PICK r \in 0 .. N - 1 : h = N * a + r
  BY <1>2
<1>4. PICK m \in Int : m = N * a
  BY <1>1
<1>5. h = m + r
  BY <1>3, <1>4
<1>6. CASE c >= r
  <2>1. m + c \in h .. h + N - 1 /\ m + c \in Nat
    BY <1>1, <1>5, <1>6
  <2>2. PICK t \in Nat : t = m + c
    BY <2>1
  <2>3. t = N * a + c
    BY <1>4, <2>2
  <2>4. t % N = c
    BY <1>1, <2>3, ModUnique
  <2> QED
    BY <2>1, <2>2, <2>4 DEF Cell
<1>7. CASE c < r
  <2>1. m + N + c \in h .. h + N - 1 /\ m + N + c \in Nat
    BY <1>1, <1>5, <1>7
  <2>2. PICK t \in Nat : t = m + N + c
    BY <2>1
  <2>3. PICK b \in Int : b = a + 1
    BY <1>1
  <2>4. N * b = N * a + N
    BY <1>1, <2>3
  <2>5. t = N * b + c
    BY <1>4, <2>2, <2>4
  <2>6. t % N = c
    BY <1>1, <2>5, ModUnique
  <2> QED
    BY <2>1, <2>2, <2>6 DEF Cell
<1> QED
  BY <1>1, <1>6, <1>7

(***************************************************************************)
(* The invariant holds when the constructor has run.                       *)
(***************************************************************************)
LEMMA InitIInv == Init => IInv
<1> SUFFICES ASSUME Init PROVE IInv
  OBVIOUS
<1> USE NAssumption DEF Init
<1>1. TypeOK
  BY DEF TypeOK, Cells, ProducerPC, ConsumerPC
<1>2. Window = Cells
  BY DEF Window, Cells
<1>3. \A t \in Window : seq[Cell(t)] = t /\ data[Cell(t)] = NoObj /\ t \in Nat
  BY <1>2, CellFirstLap DEF Cells
<1>4. \A p \in Producers : ~InPut(p) /\ ~InCell(p) /\ pc[p] # "publish"
  BY DEF InPut, InCell
<1>5. TicketInv
  BY DEF TicketInv
<1>6. OwnerInv
  BY <1>4 DEF OwnerInv
<1>7. WriterInv
  BY <1>4 DEF WriterInv
<1>8. PublishedInv /\ FreeInv
  <2> HIDE DEF Init
  <2>1. ASSUME NEW t \in Window PROVE seq[Cell(t)] # t + 1
    <3>1. seq[Cell(t)] = t /\ t \in Nat
      BY <1>3
    <3> QED
      BY <3>1
  <2> QED
    BY <1>3, <2>1 DEF PublishedInv, FreeInv
<1>9. ConsumerInv /\ AccountedInv
  BY DEF ConsumerInv, AccountedInv
<1> QED
  BY <1>1, <1>5, <1>6, <1>7, <1>8, <1>9 DEF IInv

-----------------------------------------------------------------------------
(***************************************************************************)
(* Drawing a ticket preserves the invariant.                               *)
(***************************************************************************)
LEMMA PutClaimStep ==
  ASSUME IInv, NEW p \in Producers, NEW v \in Values, PutClaim(p, v)
  PROVE  IInv'
<1> USE DEF IInv
<1>a. claimed' \in Seq(Values) /\ Len(claimed') = Len(claimed) + 1
      /\ claimed'[Len(claimed) + 1] = v
      /\ \A i \in 1 .. Len(claimed) : claimed'[i] = claimed[i]
  BY AppendProperties DEF TypeOK, PutClaim
<1>0. TypeOK'
  BY <1>a DEF TypeOK, PutClaim, ProducerPC
<1>1. /\ tail' = tail + 1 /\ Len(claimed') = tail + 1
      /\ claimed'[tail + 1] = v
      /\ \A i \in 1 .. tail : claimed'[i] = claimed[i]
      /\ UNCHANGED <<head, seq, data, cpc, result, consumed, rejected>>
      /\ Window' = Window
  BY <1>a DEF TypeOK, PutClaim, TicketInv, Window
<1>2. /\ pos'[p] = tail /\ val'[p] = v /\ pc'[p] = "check"
      /\ \A q \in Producers \ {p} :
           pos'[q] = pos[q] /\ val'[q] = val[q] /\ pc'[q] = pc[q]
  BY DEF TypeOK, PutClaim
<1>3. ~InPut(p) /\ ~InCell(p) /\ pc[p] # "publish"
  BY DEF PutClaim, InPut, InCell
<1>4. tail \in Nat /\ head \in Nat /\ head <= tail /\ Len(claimed) = tail
  BY DEF TypeOK, TicketInv
<1>5. TicketInv'
  BY <1>1, <1>4 DEF TicketInv
<1>6. OwnerInv'
  <2>1. tail \notin rejected
    BY <1>4 DEF AccountedInv
  <2>2. \A q \in Producers : q # p => (InPut(q)' <=> InPut(q))
    BY <1>2 DEF InPut
  <2>3. ASSUME NEW q \in Producers, InPut(q)'
        PROVE  /\ pos'[q] \in head' .. tail' - 1 /\ pos'[q] \notin rejected'
               /\ val'[q] = claimed'[pos'[q] + 1]
               /\ q # p => pos'[q] # tail
    <3>1. CASE q = p
      BY <3>1, <2>1, <1>1, <1>2, <1>4
    <3>2. CASE q # p
      <4>1. pos[q] \in head .. tail - 1 /\ pos[q] \notin rejected
            /\ val[q] = claimed[pos[q] + 1]
        BY <3>2, <2>2, <2>3 DEF OwnerInv
      <4> QED
        BY <3>2, <4>1, <1>1, <1>2, <1>4
    <3> QED
      BY <3>1, <3>2
  <2>4. ASSUME NEW q \in Producers, NEW r \in Producers,
               q # r, InPut(q)', InPut(r)'
        PROVE  pos'[q] # pos'[r]
    BY <2>2, <2>3, <2>4, <1>2 DEF OwnerInv
  <2> QED
    BY <2>3, <2>4 DEF OwnerInv
<1>7. WriterInv'
  BY <1>1, <1>2 DEF WriterInv, InCell
<1>8. PublishedInv'
  BY <1>1, <1>2, <1>4 DEF PublishedInv, InPut, Window
<1>9. FreeInv'
  BY <1>1, <1>2, <1>3 DEF FreeInv
<1>10. ConsumerInv'
  <2>1. head \in Window
    BY <1>4, NAssumption DEF Window
  <2>2. cpc \in {"take", "release"} => head < tail
    BY <2>1 DEF ConsumerInv, PublishedInv
  <2> QED
    BY <1>1, <1>4, <2>2 DEF ConsumerInv
<1>11. AccountedInv'
  BY <1>1, <1>2, <1>3, <1>4 DEF AccountedInv, InPut
<1> QED
  BY <1>0, <1>5, <1>6, <1>7, <1>8, <1>9, <1>10, <1>11

(***************************************************************************)
(* Consequences of the invariant that several steps use: the cells of the  *)
(* window are distinct, and the ticket at head is owned by nobody once it  *)
(* is published.                                                           *)
(***************************************************************************)
LEMMA WindowFacts ==
  ASSUME IInv
  PROVE  /\ head \in Window
         /\ \A t \in Window : t \in Nat /\ Cell(t) \in Cells
         /\ \A t, u \in Window : Cell(t) = Cell(u) => t = u
         /\ \A t \in Window : seq[Cell(t)] \in {t, t + 1}
<1>1. head \in Nat
  BY DEF IInv, TypeOK
<1>2. head \in Window /\ \A t \in Window : t \in Nat
  BY <1>1, NAssumption DEF Window
<1>3. \A t, u \in Window : t < u + N /\ u < t + N
  BY <1>1, NAssumption DEF Window
<1>4. \A t, u \in Window : Cell(t) = Cell(u) => t = u
  BY <1>2, <1>3, CellInjective
<1>5. \A t \in Window : seq[Cell(t)] \in {t, t + 1}
  BY DEF IInv, FreeInv
<1> QED
  BY <1>2, <1>4, <1>5, CellType

(***************************************************************************)
(* A put leaves its loop only when its ticket is in the window: a cell     *)
(* whose seq equals a ticket is free for that very ticket.                 *)
(***************************************************************************)
LEMMA CheckedInWindow ==
  ASSUME IInv, NEW p \in Producers, InPut(p), seq[Cell(pos[p])] = pos[p]
  PROVE  pos[p] \in Window
<1>1. head \in Nat /\ pos[p] \in Nat /\ pos[p] >= head
  BY DEF IInv, TypeOK, OwnerInv
<1>2. PICK t \in Window : Cell(t) = Cell(pos[p])
  BY <1>1, CellType, CellCovered DEF Window
<1>3. pos[p] \in {t, t + 1} /\ t \in Nat
  BY <1>2, WindowFacts
<1>4. t # pos[p] => t < pos[p] + N /\ pos[p] < t + N
  BY <1>3, NAssumption
<1>5. t = pos[p]
  BY <1>1, <1>2, <1>3, <1>4, CellInjective
<1> QED
  BY <1>5

(***************************************************************************)
(* Leaving the loop of put with diff == 0 preserves the invariant.         *)
(***************************************************************************)
LEMMA PutCheckStep ==
  ASSUME IInv, NEW p \in Producers, PutCheck(p)
  PROVE  IInv'
<1> USE DEF IInv
<1>1. /\ UNCHANGED <<tail, head, seq, data, pos, val, cpc, result,
                     claimed, consumed, rejected>>
      /\ pc'[p] = "write" /\ pc[p] = "check"
      /\ \A q \in Producers \ {p} : pc'[q] = pc[q]
  BY DEF PutCheck, queue, hist, TypeOK
<1>2. TypeOK'
  BY <1>1 DEF TypeOK, PutCheck, ProducerPC
<1>3. \A q \in Producers : InPut(q)' <=> InPut(q)
  BY <1>1 DEF InPut
<1>4. pos[p] \in Window /\ seq[Cell(pos[p])] = pos[p]
  <2>1. pos[p] \in Nat
    BY DEF TypeOK
  <2>2. seq[Cell(pos[p])] \in Nat
    BY <2>1, CellType DEF TypeOK
  <2>3. seq[Cell(pos[p])] = pos[p]
    BY <2>1, <2>2 DEF PutCheck, Diff
  <2> QED
    BY <1>1, <2>3, CheckedInWindow DEF InPut
<1>5. TicketInv' /\ ConsumerInv'
  BY <1>1 DEF TicketInv, ConsumerInv
<1>6. OwnerInv'
  BY <1>1, <1>3 DEF OwnerInv
<1>7. WriterInv'
  BY <1>1, <1>4 DEF WriterInv, InCell, Window
<1>8. PublishedInv'
  BY <1>1, <1>3 DEF PublishedInv, Window
<1>9. FreeInv'
  BY <1>1 DEF FreeInv, Window
<1>10. AccountedInv'
  BY <1>1, <1>3 DEF AccountedInv, Window
<1> QED
  BY <1>2, <1>5, <1>6, <1>7, <1>8, <1>9, <1>10

(***************************************************************************)
(* A put that returns false gives up a ticket outside the window.          *)
(***************************************************************************)
LEMMA PutFullStep ==
  ASSUME IInv, NEW p \in Producers, PutFull(p)
  PROVE  IInv'
<1> USE DEF IInv
<1>1. /\ UNCHANGED <<tail, head, seq, data, pos, val, cpc, result,
                     claimed, consumed>>
      /\ pc'[p] = "full" /\ pc[p] = "check" /\ FailOnFull
      /\ \A q \in Producers \ {p} : pc'[q] = pc[q]
      /\ rejected' = rejected \union {pos[p]}
  BY DEF PutFull, queue, TypeOK
<1>2. TypeOK'
  BY <1>1, ZenonT(30) DEF TypeOK, PutFull, ProducerPC
<1>3. pos[p] \notin Window
  <2>1. pos[p] \in Nat /\ seq[Cell(pos[p])] \in Nat
    BY CellType DEF TypeOK
  <2>2. seq[Cell(pos[p])] < pos[p]
    BY <2>1 DEF PutFull, Diff
  <2> QED
    BY <2>1, <2>2, WindowFacts
<1>4. /\ \A q \in Producers : InPut(q)' => InPut(q) /\ q # p
      /\ \A q \in Producers \ {p} : InPut(q)' <=> InPut(q)
  BY <1>1 DEF InPut
<1>5. pos[p] \in head .. tail - 1 /\ InPut(p)
  BY <1>1 DEF OwnerInv, InPut
<1>6. TicketInv' /\ ConsumerInv'
  BY <1>1 DEF TicketInv, ConsumerInv
<1>7. OwnerInv'
  BY <1>1, <1>4, <1>5 DEF OwnerInv
<1>8. WriterInv'
  BY <1>1 DEF WriterInv, InCell, Window
<1>9. PublishedInv'
  BY <1>1, <1>3, <1>4 DEF PublishedInv, Window
<1>10. FreeInv'
  BY <1>1 DEF FreeInv, Window
<1>11. AccountedInv'
  <2>1. \A t \in rejected' : t \in head .. tail - 1
    BY <1>1, <1>5 DEF AccountedInv
  <2>2. ASSUME NEW t \in head .. tail - 1
        PROVE  \/ t \in Window /\ seq[Cell(t)] = t + 1
               \/ t \in rejected'
               \/ \E q \in Producers : InPut(q)' /\ pos[q] = t
    BY <1>1, <1>4 DEF AccountedInv
  <2> QED
    BY <1>1, <2>1, <2>2 DEF AccountedInv, Window
<1> QED
  BY <1>2, <1>6, <1>7, <1>8, <1>9, <1>10, <1>11

(***************************************************************************)
(* Constructing the object touches only the cell of the ticket.            *)
(***************************************************************************)
LEMMA PutWriteStep ==
  ASSUME IInv, NEW p \in Producers, PutWrite(p)
  PROVE  IInv'
<1> USE DEF IInv
<1> DEFINE t0 == pos[p]
<1>1. /\ UNCHANGED <<tail, head, seq, pos, val, cpc, result,
                     claimed, consumed, rejected>>
      /\ pc'[p] = "publish" /\ pc[p] = "write"
      /\ \A q \in Producers \ {p} : pc'[q] = pc[q]
  BY DEF PutWrite, hist, TypeOK
<1>2. TypeOK'
  BY <1>1, CellType DEF TypeOK, PutWrite, ProducerPC
<1>3. InCell(p) /\ InPut(p) /\ t0 \in Window /\ seq[Cell(t0)] = t0
  BY <1>1 DEF WriterInv, InCell, InPut
<1>4. /\ data'[Cell(t0)] = val[p]
      /\ \A t \in Window : t # t0 => data'[Cell(t)] = data[Cell(t)]
  BY <1>3, WindowFacts DEF PutWrite, TypeOK
<1>5. \A q \in Producers : (InPut(q)' <=> InPut(q)) /\ (InCell(q)' <=> InCell(q))
  BY <1>1 DEF InPut, InCell
<1>6. \A q \in Producers \ {p} : InPut(q) => pos[q] # t0
  BY <1>3 DEF OwnerInv
<1>7. seq[Cell(t0)] # t0 + 1
  BY <1>3, WindowFacts
<1>8. TicketInv' /\ OwnerInv'
  BY <1>1, <1>5 DEF TicketInv, OwnerInv
<1>9. WriterInv'
  BY <1>1, <1>3, <1>4, <1>5, <1>6 DEF WriterInv, InCell, InPut, Window
<1>10. PublishedInv'
  BY <1>1, <1>4, <1>5, <1>7 DEF PublishedInv, Window
<1>11. FreeInv'
  BY <1>1, <1>4, <1>7 DEF FreeInv, Window
<1>12. ConsumerInv'
  BY <1>1, <1>4, <1>7, WindowFacts DEF ConsumerInv
<1>13. AccountedInv'
  BY <1>1, <1>5 DEF AccountedInv, Window
<1> QED
  BY <1>2, <1>8, <1>9, <1>10, <1>11, <1>12, <1>13

(***************************************************************************)
(* Publishing turns an owned ticket of the window into a published one.    *)
(***************************************************************************)
LEMMA PutPublishStep ==
  ASSUME IInv, NEW p \in Producers, PutPublish(p)
  PROVE  IInv'
<1> USE DEF IInv
<1> DEFINE t0 == pos[p]
<1>1. /\ UNCHANGED <<tail, head, data, pos, val, cpc, result,
                     claimed, consumed, rejected>>
      /\ pc'[p] = "idle" /\ pc[p] = "publish"
      /\ \A q \in Producers \ {p} : pc'[q] = pc[q]
  BY DEF PutPublish, hist, TypeOK
<1>2. t0 \in Nat /\ t0 + 1 \in Nat
  BY DEF TypeOK
<1>3. TypeOK'
  BY <1>1, <1>2, CellType DEF TypeOK, PutPublish, ProducerPC
<1>4. InCell(p) /\ InPut(p) /\ t0 \in Window /\ seq[Cell(t0)] = t0
  BY <1>1 DEF WriterInv, InCell, InPut
<1>5. /\ seq'[Cell(t0)] = t0 + 1
      /\ \A t \in Window : t # t0 => seq'[Cell(t)] = seq[Cell(t)]
  BY <1>4, WindowFacts DEF PutPublish, TypeOK
<1>6. /\ ~InPut(p)' /\ ~InCell(p)'
      /\ \A q \in Producers \ {p} :
           (InPut(q)' <=> InPut(q)) /\ (InCell(q)' <=> InCell(q))
  BY <1>1 DEF InPut, InCell
<1>7. \A q \in Producers \ {p} : InPut(q) => pos[q] # t0
  BY <1>4 DEF OwnerInv
<1>8. t0 \in head .. tail - 1 /\ t0 \notin rejected
      /\ data[Cell(t0)] = claimed[t0 + 1]
  BY <1>1, <1>4 DEF OwnerInv, WriterInv
<1>9. TicketInv'
  BY <1>1 DEF TicketInv
<1>10. OwnerInv'
  BY <1>1, <1>6 DEF OwnerInv
<1>11. WriterInv'
  BY <1>1, <1>5, <1>6, <1>7 DEF WriterInv, InCell, InPut, Window
<1>12. PublishedInv'
  <2>1. ASSUME NEW t \in Window, seq'[Cell(t)] = t + 1
        PROVE  /\ t < tail /\ t \notin rejected
               /\ \A q \in Producers : ~(InPut(q)' /\ pos[q] = t)
               /\ ~(t = head /\ cpc = "release") => data[Cell(t)] = claimed[t + 1]
    <3>1. CASE t = t0
      <4>1. t0 < tail
        BY <1>8 DEF TypeOK
      <4>2. \A q \in Producers : ~(InPut(q)' /\ pos[q] = t0)
        BY <1>6, <1>7
      <4> QED
        BY <3>1, <4>1, <4>2, <1>8
    <3>2. CASE t # t0
      BY <3>2, <2>1, <1>5, <1>6 DEF PublishedInv
    <3> QED
      BY <3>1, <3>2
  <2> QED
    BY <1>1, <2>1 DEF PublishedInv, Window
<1>13. FreeInv'
  <2>1. ASSUME NEW t \in Window, seq'[Cell(t)] # t + 1
        PROVE  /\ seq'[Cell(t)] = t
               /\ (\A q \in Producers : ~(pc'[q] = "publish" /\ pos[q] = t))
                    => data[Cell(t)] = NoObj
    BY <2>1, <1>1, <1>5 DEF FreeInv
  <2> QED
    BY <1>1, <2>1 DEF FreeInv, Window
<1>14. ConsumerInv'
  <2>1. seq[Cell(t0)] # t0 + 1
    BY <1>2, <1>4
  <2> QED
    BY <1>1, <1>5, <2>1, WindowFacts DEF ConsumerInv
<1>15. AccountedInv'
  <2>1. ASSUME NEW t \in head .. tail - 1
        PROVE  \/ t \in Window /\ seq'[Cell(t)] = t + 1
               \/ t \in rejected
               \/ \E q \in Producers : InPut(q)' /\ pos[q] = t
    BY <1>1, <1>4, <1>5, <1>6 DEF AccountedInv
  <2> QED
    BY <1>1, <2>1 DEF AccountedInv, Window
<1> QED
  BY <1>3, <1>9, <1>10, <1>11, <1>12, <1>13, <1>14, <1>15

(***************************************************************************)
(* The consumer's tests of the head cell, and its calls, change only where *)
(* the consumer is.                                                        *)
(***************************************************************************)
LEMMA ConsumerTestStep ==
  ASSUME IInv, UNCHANGED <<queue, pc, pos, val, result, hist>>,
         cpc' \in ConsumerPC \ {"release"}, cpc # "release",
         cpc' = "take" => HeadReady
  PROVE  IInv'
<1> USE DEF IInv
<1>1. UNCHANGED <<tail, head, seq, data, pc, pos, val, result,
                  claimed, consumed, rejected>>
  BY DEF queue, hist
<1>2. \A q \in Producers : (InPut(q)' <=> InPut(q)) /\ (InCell(q)' <=> InCell(q))
  BY <1>1 DEF InPut, InCell
<1>3. HeadReady => seq[Cell(head)] = head + 1
  BY WindowFacts, SMTT(30) DEF HeadReady, TypeOK
<1>4. TypeOK' /\ TicketInv'
  BY <1>1 DEF TypeOK, TicketInv
<1>5. OwnerInv' /\ WriterInv'
  BY <1>1, <1>2 DEF OwnerInv, WriterInv, Window
<1>6. PublishedInv' /\ FreeInv'
  BY <1>1, <1>2 DEF PublishedInv, FreeInv, Window
<1>7. ConsumerInv'
  BY <1>1, <1>3 DEF ConsumerInv
<1>8. AccountedInv'
  BY <1>1, <1>2 DEF AccountedInv, Window
<1> QED
  BY <1>4, <1>5, <1>6, <1>7, <1>8

(***************************************************************************)
(* Moving the object out empties the head cell.                            *)
(***************************************************************************)
LEMMA GetTakeStep ==
  ASSUME IInv, GetTake
  PROVE  IInv'
<1> USE DEF IInv
<1>1. /\ UNCHANGED <<tail, head, seq, pc, pos, val, claimed, consumed, rejected>>
      /\ cpc = "take" /\ cpc' = "release" /\ result' = data[Cell(head)]
  BY DEF GetTake, hist
<1>2. seq[Cell(head)] = head + 1 /\ head \in Window
  BY <1>1, WindowFacts DEF ConsumerInv
<1>3. /\ data[Cell(head)] = claimed[head + 1]
      /\ \A p \in Producers : ~(InPut(p) /\ pos[p] = head)
  BY <1>1, <1>2 DEF PublishedInv
<1>4. /\ data'[Cell(head)] = NoObj
      /\ \A t \in Window : t # head => data'[Cell(t)] = data[Cell(t)]
  BY <1>2, WindowFacts DEF GetTake, TypeOK
<1>5. \A q \in Producers : (InPut(q)' <=> InPut(q)) /\ (InCell(q)' <=> InCell(q))
  BY <1>1 DEF InPut, InCell
<1>6. TypeOK'
  BY <1>1, <1>2, CellType DEF TypeOK, GetTake, ConsumerPC
<1>7. TicketInv' /\ OwnerInv'
  BY <1>1, <1>5 DEF TicketInv, OwnerInv
<1>8. WriterInv'
  BY <1>1, <1>3, <1>4, <1>5 DEF WriterInv, InPut, InCell, Window
<1>9. PublishedInv' /\ FreeInv'
  BY <1>1, <1>4, <1>5 DEF PublishedInv, FreeInv, Window
<1>10. ConsumerInv'
  BY <1>1, <1>2, <1>3, <1>4 DEF ConsumerInv
<1>11. AccountedInv'
  BY <1>1, <1>5 DEF AccountedInv, Window
<1> QED
  BY <1>6, <1>7, <1>8, <1>9, <1>10, <1>11

(***************************************************************************)
(* Freeing the cell moves the window by one ticket; the ticket that enters *)
(* it uses the freed cell.                                                 *)
(***************************************************************************)
LEMMA GetReleaseStep ==
  ASSUME IInv, GetRelease
  PROVE  IInv'
<1> USE DEF IInv
<1>1. /\ UNCHANGED <<tail, data, pc, pos, val, result, claimed, rejected>>
      /\ cpc = "release" /\ cpc' = "idle" /\ head' = head + 1
  BY DEF GetRelease
<1>2. /\ head \in Nat /\ head \in Window /\ tail \in Nat
      /\ seq[Cell(head)] = head + 1
      /\ result = claimed[head + 1] /\ data[Cell(head)] = NoObj
  BY <1>1, WindowFacts DEF ConsumerInv, TypeOK
<1>3. /\ head < tail /\ head \notin rejected
      /\ \A p \in Producers : ~(InPut(p) /\ pos[p] = head)
  BY <1>2 DEF PublishedInv
<1>4. result \in Values
  BY <1>2, <1>3 DEF TypeOK, TicketInv
<1>5. /\ consumed' \in Seq(Values) /\ Len(consumed') = head + 1
      /\ consumed'[head + 1] = result
      /\ \A i \in 1 .. head : consumed'[i] = consumed[i]
  BY <1>4, AppendProperties DEF GetRelease, TypeOK, TicketInv
<1>6. TypeOK'
  <2>1. head + N \in Nat /\ head + 1 \in Nat
    BY <1>2, NAssumption
  <2>2. seq' \in [Cells -> Nat]
    BY <2>1 DEF TypeOK, GetRelease
  <2> QED
    BY <1>1, <1>5, <2>1, <2>2 DEF TypeOK, ConsumerPC
<1>7. Window' = (Window \ {head}) \union {head + N}
  BY <1>1, <1>2, NAssumption DEF Window
<1>8. /\ Cell(head + N) = Cell(head)
      /\ seq'[Cell(head)] = head + N
      /\ \A t \in Window : t # head => seq'[Cell(t)] = seq[Cell(t)]
      /\ head + N \in Nat /\ head + N # head
  <2>1. head + N \in Nat /\ head + N # head
    BY <1>2, NAssumption
  <2>2. Cell(head + N) = Cell(head)
    BY <1>2, CellNextLap
  <2>3. /\ seq'[Cell(head)] = head + N
        /\ \A t \in Window : t # head => seq'[Cell(t)] = seq[Cell(t)]
    BY <1>2, WindowFacts DEF GetRelease, TypeOK
  <2> QED
    BY <2>1, <2>2, <2>3
<1>9. \A q \in Producers : (InPut(q)' <=> InPut(q)) /\ (InCell(q)' <=> InCell(q))
  BY <1>1 DEF InPut, InCell
<1>10. \A q \in Producers : InCell(q) => InPut(q)
  BY DEF InCell, InPut
<1>11. TicketInv'
  BY <1>1, <1>2, <1>3, <1>5 DEF TicketInv
<1>12. \A t \in head .. tail - 1 : t # head => t \in head' .. tail' - 1
  BY <1>1, <1>2
<1>13. OwnerInv'
  BY <1>1, <1>3, <1>9, <1>12 DEF OwnerInv
<1>14. WriterInv'
  <2>1. ASSUME NEW q \in Producers, InCell(q)
        PROVE  pos[q] \in Window' /\ seq'[Cell(pos[q])] = pos[q]
    BY <2>1, <1>3, <1>7, <1>8, <1>10 DEF WriterInv
  <2> QED
    BY <1>1, <1>9, <2>1 DEF WriterInv
<1>15. \A t \in Window' : \/ t \in Window /\ t # head /\ seq'[Cell(t)] = seq[Cell(t)]
                          \/ /\ t = head + N /\ seq'[Cell(t)] = t
                             /\ data[Cell(t)] = NoObj /\ t # t + 1
  BY <1>2, <1>7, <1>8
<1>16. PublishedInv'
  <2>1. ASSUME NEW t \in Window', seq'[Cell(t)] = t + 1
        PROVE  /\ t < tail /\ t \notin rejected
               /\ \A q \in Producers : ~(InPut(q) /\ pos[q] = t)
               /\ data[Cell(t)] = claimed[t + 1]
    <3>1. t \in Window /\ t # head /\ seq[Cell(t)] = t + 1
      BY <2>1, <1>15
    <3> QED
      BY <3>1 DEF PublishedInv
  <2> QED
    BY <1>1, <1>9, <2>1 DEF PublishedInv
<1>17. FreeInv'
  BY <1>1, <1>15 DEF FreeInv
<1>18. ConsumerInv'
  BY <1>1 DEF ConsumerInv
<1>19. AccountedInv'
  <2>1. \A t \in rejected' : t \in head' .. tail' - 1
    BY <1>1, <1>3, <1>12 DEF AccountedInv
  <2>2. ASSUME NEW t \in head' .. tail' - 1
        PROVE  \/ t \in Window' /\ seq'[Cell(t)] = t + 1
               \/ t \in rejected'
               \/ \E q \in Producers : InPut(q)' /\ pos'[q] = t
    <3>1. t \in head .. tail - 1 /\ t # head
      BY <1>1, <1>2
    <3>2. \/ t \in Window /\ seq[Cell(t)] = t + 1
          \/ t \in rejected
          \/ \E q \in Producers : InPut(q) /\ pos[q] = t
      BY <3>1 DEF AccountedInv
    <3> QED
      BY <3>1, <3>2, <1>1, <1>7, <1>8, <1>9
  <2>3. ~FailOnFull => rejected' = {}
    BY <1>1 DEF AccountedInv
  <2> QED
    BY <2>1, <2>2, <2>3 DEF AccountedInv
<1> QED
  BY <1>6, <1>11, <1>13, <1>14, <1>16, <1>17, <1>18, <1>19

-----------------------------------------------------------------------------
(***************************************************************************)
(* Every step of put, get and getBlocking preserves the invariant.         *)
(***************************************************************************)
LEMMA NextIInv == IInv /\ [Next]_vars => IInv'
<1> SUFFICES ASSUME IInv, [Next]_vars PROVE IInv'
  OBVIOUS
<1>1. ASSUME NEW p \in Producers, Producer(p) PROVE IInv'
  BY <1>1, PutClaimStep, PutCheckStep, PutFullStep, PutWriteStep, PutPublishStep
     DEF Producer
<1>2. CASE GetFound \/ GetNullopt \/ GetBlocking
  BY <1>2, ConsumerTestStep
     DEF GetFound, GetNullopt, GetBlocking, GetBlockingCall, GetBlockingFound,
         ConsumerPC
<1>3. CASE GetTake
  BY <1>3, GetTakeStep
<1>4. CASE GetRelease
  BY <1>4, GetReleaseStep
<1>5. CASE UNCHANGED vars
  BY <1>5 DEF vars, IInv, TypeOK, TicketInv, OwnerInv, WriterInv, PublishedInv,
              FreeInv, ConsumerInv, AccountedInv, InPut, InCell, Window
<1> QED
  BY <1>1, <1>2, <1>3, <1>4, <1>5 DEF Next, Get, Rest

(***************************************************************************)
(* The invariant holds in every reachable state.                           *)
(***************************************************************************)
THEOREM Invariance == Spec => []IInv
<1> QED
  BY InitIInv, NextIInv, PTL DEF Spec

(***************************************************************************)
(* The queue's variables keep their types; in particular nothing but an    *)
(* object that was put is ever delivered.                                  *)
(***************************************************************************)
THEOREM TypeCorrect == Spec => []TypeOK
<1>1. IInv => TypeOK
  BY DEF IInv
<1> QED
  BY <1>1, Invariance, PTL

(***************************************************************************)
(* No two threads are ever in the same cell, no construction overwrites a  *)
(* live object and no move reads an unconstructed one: the data race       *)
(* freedom that put's wait and get's test are there for.                   *)
(***************************************************************************)
THEOREM Exclusion == Spec => []CellExclusion
<1>1. IInv => CellExclusion
  <2> SUFFICES ASSUME IInv PROVE CellExclusion
    OBVIOUS
  <2> USE DEF IInv
  <2>1. \A p \in Producers :
          InCell(p) => InPut(p) /\ pos[p] \in Window /\ seq[Cell(pos[p])] = pos[p]
    BY DEF WriterInv, InCell, InPut
  <2>2. \A p, q \in Producers :
          p # q /\ InCell(p) /\ InCell(q) => Cell(pos[p]) # Cell(pos[q])
    BY <2>1, WindowFacts DEF OwnerInv
  <2>3. cpc \in {"take", "release"} =>
          \A p \in Producers : InCell(p) => Cell(pos[p]) # Cell(head)
    <3>1. cpc \in {"take", "release"} =>
            \A p \in Producers : ~(InPut(p) /\ pos[p] = head)
      BY WindowFacts DEF ConsumerInv, PublishedInv
    <3> QED
      BY <2>1, <3>1, WindowFacts
  <2>4. ASSUME NEW p \in Producers, pc[p] = "write"
        PROVE  data[Cell(pos[p])] = NoObj
    <3>1. InCell(p) /\ InPut(p)
      BY <2>4 DEF InCell, InPut
    <3>2. pos[p] \in Window /\ seq[Cell(pos[p])] # pos[p] + 1
      BY <2>1, <3>1, WindowFacts
    <3>3. \A q \in Producers : ~(pc[q] = "publish" /\ pos[q] = pos[p])
      BY <2>4, <3>1 DEF OwnerInv, InPut
    <3> QED
      BY <3>2, <3>3 DEF FreeInv
  <2>5. cpc = "take" => data[Cell(head)] # NoObj
    <3> SUFFICES ASSUME cpc = "take" PROVE data[Cell(head)] # NoObj
      OBVIOUS
    <3>1. head \in Nat /\ head < tail /\ data[Cell(head)] = claimed[head + 1]
      BY WindowFacts DEF ConsumerInv, PublishedInv
    <3>2. claimed[head + 1] \in Values
      BY <3>1 DEF TypeOK, TicketInv
    <3> QED
      BY <3>1, <3>2, ValueAssumption
  <2> QED
    BY <2>2, <2>3, <2>4, <2>5 DEF CellExclusion
<1> QED
  BY <1>1, Invariance, PTL

(***************************************************************************)
(* get and getBlocking deliver the arguments of put in ticket order, each  *)
(* once, for any number of producers and cells.                            *)
(***************************************************************************)
THEOREM InOrderDelivery == Spec => []DeliveredInTicketOrder
<1>1. IInv => DeliveredInTicketOrder
  BY DEF IInv, TicketInv, DeliveredInTicketOrder
<1> QED
  BY <1>1, Invariance, PTL

(***************************************************************************)
(* The object of a put that returned true stays in its cell until get      *)
(* takes it.                                                               *)
(***************************************************************************)
THEOREM NothingLost == Spec => []AcceptedStaysQueued
<1>1. IInv => AcceptedStaysQueued
  <2> SUFFICES ASSUME IInv, NEW t \in Stored
               PROVE  \/ data[Cell(t)] = claimed[t + 1]
                      \/ t = head /\ cpc = "release" /\ result = claimed[t + 1]
    BY DEF AcceptedStaysQueued
  <2>1. t \in Window /\ seq[Cell(t)] = t + 1
    BY DEF Stored, IInv, AccountedInv
  <2> QED
    BY <2>1 DEF IInv, PublishedInv, ConsumerInv
<1> QED
  BY <1>1, Invariance, PTL

(***************************************************************************)
(* The argument of a put that returned false is never delivered.           *)
(***************************************************************************)
THEOREM NoFalseDelivery == Spec => []RejectedNotDelivered
<1>1. IInv => RejectedNotDelivered
  BY DEF IInv, AccountedInv, RejectedNotDelivered, TypeOK
<1> QED
  BY <1>1, Invariance, PTL

-----------------------------------------------------------------------------
(***************************************************************************)
(* In blocking mode the tickets beyond the window all belong to producers  *)
(* that wait inside put, so there are no more of them than such producers. *)
(***************************************************************************)
LEMMA OutstandingByOwners ==
  ASSUME IInv, ~FailOnFull
  PROVE  tail - head <= N + Cardinality({p \in Producers : InPut(p)})
<1> DEFINE Owners == {p \in Producers : InPut(p)}
           Held == {pos[p] : p \in Owners}
           Beyond == head + N .. tail - 1
<1>1. IsFiniteSet(Owners) /\ Cardinality(Owners) \in Nat
  BY ProducersAssumption, FS_Subset, FS_CardinalityType
<1>2. IsFiniteSet(Held) /\ Cardinality(Held) <= Cardinality(Owners)
  <2>1. [p \in Owners |-> pos[p]] \in Surjection(Owners, Held)
    BY DEF Surjection
  <2> QED
    BY <1>1, <2>1, FS_Surjection DEF ExistsSurjection
<1>3. head \in Nat /\ tail \in Nat /\ N \in Nat
  BY NAssumption DEF IInv, TypeOK
<1>4. ASSUME NEW t \in Beyond PROVE t \in Held
  <2>1. t \in head .. tail - 1 /\ t \notin Window
    BY <1>3 DEF Window
  <2>2. t \notin rejected
    BY DEF IInv, AccountedInv
  <2>3. PICK p \in Producers : InPut(p) /\ pos[p] = t
    BY <2>1, <2>2 DEF IInv, AccountedInv
  <2> QED
    BY <2>3
<1>5. Cardinality(Beyond) <= Cardinality(Held)
  BY <1>2, <1>4, FS_Subset
<1>6. head + N <= tail - 1 => Cardinality(Beyond) = (tail - 1) - (head + N) + 1
  BY <1>3, FS_Interval
<1>7. Cardinality(Held) \in Nat
  BY <1>2, FS_CardinalityType
<1> HIDE DEF Owners, Held, Beyond
<1>8. tail - head <= N + Cardinality(Owners)
  BY <1>1, <1>2, <1>3, <1>5, <1>6, <1>7
<1> QED
  BY <1>8 DEF Owners

(***************************************************************************)
(* At most N objects are stored, and in blocking mode the tickets          *)
(* outstanding are at most N plus one per producer.                        *)
(***************************************************************************)
THEOREM BoundedOutstanding == Spec => []OutstandingBounded
<1>1. IInv => OutstandingBounded
  <2> SUFFICES ASSUME IInv PROVE OutstandingBounded
    OBVIOUS
  <2>1. head \in Nat /\ N \in Nat /\ N > 1 /\ tail \in Nat
    BY NAssumption DEF IInv, TypeOK
  <2>2. IsFiniteSet(Window) /\ Cardinality(Window) = N
    BY <2>1, FS_Interval DEF Window
  <2>3. Stored \subseteq Window
    BY DEF Stored, IInv, AccountedInv
  <2>4. Cardinality(Stored) <= N
    BY <2>2, <2>3, FS_Subset
  <2>5. CASE ~FailOnFull
    <3> DEFINE Owners == {p \in Producers : InPut(p)}
    <3>1. Cardinality(Owners) <= Cardinality(Producers) /\ IsFiniteSet(Owners)
      BY ProducersAssumption, FS_Subset
    <3>2. Cardinality(Owners) \in Nat /\ Cardinality(Producers) \in Nat
      BY <3>1, ProducersAssumption, FS_CardinalityType
    <3>3. tail - head <= N + Cardinality(Owners)
      BY <2>5, OutstandingByOwners
    <3> HIDE DEF Owners
    <3>4. tail - head <= N + Cardinality(Producers)
      BY <2>1, <3>1, <3>2, <3>3
    <3> QED
      BY <2>4, <3>4 DEF OutstandingBounded
  <2> QED
    BY <2>4, <2>5 DEF OutstandingBounded
<1> QED
  BY <1>1, Invariance, PTL

(***************************************************************************)
(* In blocking mode nullopt means that the queue is empty or the put with  *)
(* the oldest ticket is still running.                                     *)
(***************************************************************************)
THEOREM NulloptHonest == Spec /\ ~FailOnFull => NulloptOnlyWhenHeadPending
<1> SUFFICES ASSUME ~FailOnFull PROVE Spec => NulloptOnlyWhenHeadPending
  OBVIOUS
<1>1. ASSUME IInv, GetNullopt
      PROVE  head = tail \/ \E p \in Producers : InPut(p) /\ pos[p] = head
  <2>1. head \in Window /\ seq[Cell(head)] # head + 1
    BY <1>1, WindowFacts DEF GetNullopt, HeadReady, IInv, TypeOK
  <2>2. head # tail => head \in head .. tail - 1
    BY <1>1 DEF IInv, TypeOK, TicketInv
  <2> QED
    BY <1>1, <2>1, <2>2 DEF IInv, AccountedInv
<1>2. IInv => [GetNullopt => \/ head = tail
                             \/ \E p \in Producers : InPut(p) /\ pos[p] = head]_vars
  BY <1>1
<1> QED
  BY <1>2, Invariance, PTL DEF NulloptOnlyWhenHeadPending

(***************************************************************************)
(* The queue implements the abstract FIFO channel: drawing a ticket is     *)
(* Send, returning an object is Receive, every other step is a stutter.    *)
(***************************************************************************)
THEOREM Refinement == Spec => ImplementsFIFO
<1>1. Init => FIFO!Init
  BY DEF Init, FIFO!Init
<1>2. ASSUME IInv, [Next]_vars
      PROVE  [FIFO!Next]_(FIFO!fifoVars)
  <2>1. ASSUME NEW p \in Producers, NEW v \in Values, PutClaim(p, v)
        PROVE  FIFO!Send(v)
    <3>1. /\ Len(claimed) = tail /\ Len(consumed) = head
          /\ tail \in Nat /\ head \in Nat /\ N \in Nat
      BY <1>2, NAssumption DEF IInv, TypeOK, TicketInv
    <3>2. CASE FailOnFull
      BY <2>1, <3>1, <3>2, BoundAssumption DEF PutClaim, FIFO!Send
    <3>3. CASE ~FailOnFull
      <4> DEFINE Owners == {q \in Producers : InPut(q)}
      <4>1. Owners \subseteq Producers \ {p}
        BY <2>1 DEF PutClaim, InPut
      <4>2. /\ IsFiniteSet(Producers \ {p})
            /\ Cardinality(Producers \ {p}) = Cardinality(Producers) - 1
            /\ Cardinality(Producers) \in Nat
        BY ProducersAssumption, FS_RemoveElement, FS_CardinalityType
      <4>3. Cardinality(Owners) <= Cardinality(Producers) - 1
            /\ Cardinality(Owners) \in Nat
        BY <4>1, <4>2, FS_Subset, FS_CardinalityType
      <4>4. tail - head <= N + Cardinality(Owners)
        BY <1>2, <3>3, OutstandingByOwners
      <4> HIDE DEF Owners
      <4>5. tail - head < N + Cardinality(Producers)
        BY <3>1, <4>2, <4>3, <4>4
      <4> QED
        BY <2>1, <3>1, <3>3, <4>5 DEF PutClaim, FIFO!Send
    <3> QED
      BY <3>2, <3>3
  <2>2. ASSUME GetRelease PROVE FIFO!Receive
    <3>1. Len(claimed) = tail /\ Len(consumed) = head /\ result = claimed[head + 1]
      BY <1>2, <2>2 DEF IInv, TicketInv, ConsumerInv, GetRelease
    <3>2. head < tail
      BY <1>2, <2>2, WindowFacts DEF IInv, ConsumerInv, PublishedInv, GetRelease
    <3> QED
      BY <2>2, <3>1, <3>2 DEF GetRelease, FIFO!Receive
  <2>3. ASSUME NEW p \in Producers,
               PutCheck(p) \/ PutFull(p) \/ PutWrite(p) \/ PutPublish(p)
        PROVE  UNCHANGED <<claimed, consumed>>
    BY <2>3 DEF PutCheck, PutFull, PutWrite, PutPublish, hist
  <2>4. ASSUME GetFound \/ GetTake \/ GetNullopt \/ GetBlocking \/ UNCHANGED vars
        PROVE  UNCHANGED <<claimed, consumed>>
    BY <2>4 DEF GetFound, GetTake, GetNullopt, GetBlocking, GetBlockingCall,
                GetBlockingFound, vars, hist
  <2> QED
    BY <1>2, <2>1, <2>2, <2>3, <2>4
       DEF Next, Producer, Get, Rest, FIFO!Next, FIFO!fifoVars
<1> QED
  BY <1>1, <1>2, Invariance, PTL DEF Spec, ImplementsFIFO, FIFO!Spec

=============================================================================
