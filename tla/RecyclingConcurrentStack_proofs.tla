------------------- MODULE RecyclingConcurrentStack_proofs -------------------
(***************************************************************************)
(* Proofs about RecyclingConcurrentStack with one thread that pushes and   *)
(* one that pops, for any number of nodes, pushes and initial capacity.    *)
(***************************************************************************)
EXTENDS RecyclingConcurrentStack, SequenceTheorems, FiniteSetTheorems, TLAPS

(***************************************************************************)
(* Removing the first node of a list, the last one of its sequence.        *)
(***************************************************************************)
LEMMA WithoutFirstProperties ==
  ASSUME NEW S, NEW s \in Seq(S), s # << >>
  PROVE  /\ WithoutFirst(s) \in Seq(S)
         /\ Len(WithoutFirst(s)) = Len(s) - 1
         /\ \A i \in 1 .. Len(s) - 1 : WithoutFirst(s)[i] = s[i]
<1>1. Len(s) - 1 \in Nat /\ \A i \in 1 .. Len(s) : s[i] \in S
  BY EmptySeq, LenProperties
<1>2. PICK m \in Int : m = 1
  OBVIOUS
<1>3. PICK n \in Int : n = Len(s) - 1
  BY <1>1
<1>4. \A i \in m .. n : s[i] \in S
  BY <1>1, <1>2, <1>3
<1>5. /\ SubSeq(s, m, n) \in Seq(S)
      /\ Len(SubSeq(s, m, n)) = IF m <= n THEN n - m + 1 ELSE 0
      /\ \A i \in 1 .. n - m + 1 : SubSeq(s, m, n)[i] = s[m + i - 1]
  BY <1>4, SubSeqProperties
<1>6. WithoutFirst(s) = SubSeq(s, m, n)
  BY <1>2, <1>3 DEF WithoutFirst
<1> QED
  BY <1>1, <1>2, <1>3, <1>5, <1>6

\* A sequence without repetitions, and a new element after it.
LEMMA LongerInjective ==
  ASSUME NEW S, NEW s \in Seq(S), NEW r \in Seq(S), NEW e,
         Len(r) = Len(s) + 1,
         \A i \in 1 .. Len(s) : r[i] = s[i],
         r[Len(s) + 1] = e,
         \A i \in 1 .. Len(s) : s[i] # e,
         \A i, j \in 1 .. Len(s) : s[i] = s[j] => i = j
  PROVE  \A i, j \in 1 .. Len(r) : r[i] = r[j] => i = j
<1>1. Len(s) \in Nat
  BY LenProperties
<1> SUFFICES ASSUME NEW i \in 1 .. Len(r), NEW j \in 1 .. Len(r), r[i] = r[j]
             PROVE  i = j
  OBVIOUS
<1>2. i \in 1 .. Len(s) \/ i = Len(s) + 1
  BY <1>1
<1>3. j \in 1 .. Len(s) \/ j = Len(s) + 1
  BY <1>1
<1>4. CASE i \in 1 .. Len(s) /\ j \in 1 .. Len(s)
  BY <1>4, Zenon
<1>5. CASE i = Len(s) + 1 /\ j \in 1 .. Len(s)
  BY <1>5, Zenon
<1>6. CASE j = Len(s) + 1 /\ i \in 1 .. Len(s)
  BY <1>6, Zenon
<1> QED
  BY <1>2, <1>3, <1>4, <1>5, <1>6, Zenon

(***************************************************************************)
(* The constructor establishes the invariant.                              *)
(***************************************************************************)
LEMMA InitInv == Init => IInv
<1> SUFFICES ASSUME Init PROVE IInv
  OBVIOUS
<1> PICK free \in [1 .. InitialCapacity -> Nodes] : Init!(free)
  BY DEF Init
<1>1. free \in Seq(Nodes) /\ Len(free) = InitialCapacity
  BY CapacityAssumption
<1>2. /\ list["free"] = free
      /\ list["head"] = << >>
      /\ Len(list["head"]) = 0
  BY DEF Lists
<1>3. \A l \in Lists : l = "free" \/ l = "head"
  BY DEF Lists
<1>4. TypeOK
  <2>1. \A i \in 2 .. InitialCapacity : free[i - 1] \in Nodes
    BY CapacityAssumption
  <2>2. next \in [Nodes -> Pointers]
    <3>1. SUFFICES ASSUME NEW n \in Nodes, NEW i \in 2 .. InitialCapacity, free[i] = n
                   PROVE  free[(CHOOSE j \in 2 .. InitialCapacity : free[j] = n) - 1] \in Nodes
      BY DEF Pointers
    <3>2. (CHOOSE j \in 2 .. InitialCapacity : free[j] = n) \in 2 .. InitialCapacity
      BY <3>1
    <3> QED
      BY <3>2, <2>1
  <2>3. top \in [Lists -> Pointers]
    BY CapacityAssumption DEF Pointers, Lists
  <2>4. list \in [Lists -> Seq(Nodes)]
    BY <1>1 DEF Lists
  <2> QED
    BY <2>2, <2>3, <2>4, BoundAssumption DEF TypeOK, PC, Pointers
<1>5. PointersSpellLists
  <2>1. \A i \in 1 .. InitialCapacity :
          next[free[i]] = IF i = 1 THEN Null ELSE free[i - 1]
    <3> SUFFICES ASSUME NEW i \in 1 .. InitialCapacity
                 PROVE  next[free[i]] = IF i = 1 THEN Null ELSE free[i - 1]
      OBVIOUS
    <3>1. CASE i = 1
      BY <3>1, CapacityAssumption
    <3>2. CASE i # 1
      <4>1. i \in 2 .. InitialCapacity
        BY <3>2, CapacityAssumption
      <4>2. (CHOOSE j \in 2 .. InitialCapacity : free[j] = free[i]) = i
        BY <4>1, CapacityAssumption
      <4> QED
        BY <4>1, <4>2, <3>2
    <3> QED
      BY <3>1, <3>2
  <2>2. top["free"] = IF free = << >> THEN Null ELSE free[Len(free)]
    BY <1>1, CapacityAssumption, EmptySeq DEF Lists
  <2>3. top["head"] = Null
    BY DEF Lists
  <2> QED
    BY <1>1, <1>2, <1>3, <2>1, <2>2, <2>3 DEF PointersSpellLists
<1>6. NodeInOnePlace
  BY <1>1, <1>2, <1>3 DEF NodeInOnePlace, InList, Holding
<1>7. UnusedInv
  BY <1>1, <1>2, <1>3 DEF UnusedInv, InList, Holding
<1>8. PopTakesTheTop /\ RoleInv /\ RemoverInv /\ HolderInv
  BY DEF PopTakesTheTop, RoleInv, RemoverInv, HolderInv, Holding
<1>9. DataInv
  BY <1>2 DEF DataInv
<1> QED
  BY <1>4, <1>5, <1>6, <1>7, <1>8, <1>9 DEF IInv

(***************************************************************************)
(* The two lists an operation works on, and the nodes on them.             *)
(***************************************************************************)
LEMMA FromTo ==
  ASSUME NEW t
  PROVE  /\ From(t) \in Lists /\ To(t) \in Lists /\ From(t) # To(t)
         /\ \A l \in Lists : l = From(t) \/ l = To(t)
BY DEF From, To, Lists

\* A node in a list is one of Nodes.
LEMMA LinkedNodes ==
  ASSUME TypeOK, NEW l \in Lists, NEW n, InList(l, n)
  PROVE  n \in Nodes
BY LenProperties DEF TypeOK, InList

(***************************************************************************)
(* Each step preserves the invariant.  Only Unlink and Link change the     *)
(* lists, and only Unlink needs OneRemoverPerList.                         *)
(***************************************************************************)
LEMMA PushCallInv ==
  ASSUME IInv, NEW t \in Threads, PushCall(t)
  PROVE  IInv'
<1> USE DEF PushCall, Goto
<1>0. \A l, n : InList(l, n)' <=> InList(l, n)
  BY DEF InList
<1>1. TypeOK'
  BY BoundAssumption DEF IInv, TypeOK, PC, Pointers, Values
<1>2. NodeInOnePlace'
  BY <1>0 DEF IInv, TypeOK, NodeInOnePlace, Holding
<1>3. PointersSpellLists'
  BY DEF IInv, TypeOK, PointersSpellLists
<1>4. PopTakesTheTop'
  BY DEF IInv, TypeOK, PopTakesTheTop, HolderInv, Holding
<1>5. RoleInv'
  BY DEF IInv, TypeOK, RoleInv
<1>6. RemoverInv'
  BY <1>0 DEF IInv, TypeOK, RemoverInv, From
<1>7. HolderInv'
  BY DEF IInv, TypeOK, HolderInv, Holding
<1>8. UnusedInv'
  BY <1>0 DEF IInv, TypeOK, UnusedInv
<1>9. DataInv'
  BY BoundAssumption DEF IInv, TypeOK, DataInv, HolderInv, Holding, Values
<1> QED
  BY <1>1, <1>2, <1>3, <1>4, <1>5, <1>6, <1>7, <1>8, <1>9 DEF IInv

\* A call of pop keeps IInv.
LEMMA PopCallInv ==
  ASSUME IInv, NEW t \in Threads, PopCall(t)
  PROVE  IInv'
<1> USE DEF PopCall, Goto
<1>0. \A l, n : InList(l, n)' <=> InList(l, n)
  BY DEF InList
<1>1. TypeOK'
  BY DEF IInv, TypeOK, PC, Pointers, Values
<1>2. NodeInOnePlace'
  BY <1>0 DEF IInv, TypeOK, NodeInOnePlace, Holding
<1>3. PointersSpellLists'
  BY DEF IInv, TypeOK, PointersSpellLists
<1>4. PopTakesTheTop'
  BY DEF IInv, TypeOK, PopTakesTheTop, HolderInv, Holding
<1>5. RoleInv'
  BY DEF IInv, TypeOK, RoleInv
<1>6. RemoverInv'
  BY <1>0 DEF IInv, TypeOK, RemoverInv, From
<1>7. HolderInv'
  BY DEF IInv, TypeOK, HolderInv, Holding
<1>8. UnusedInv'
  BY <1>0 DEF IInv, TypeOK, UnusedInv
<1>9. DataInv'
  BY DEF IInv, TypeOK, DataInv, HolderInv, Holding
<1> QED
  BY <1>1, <1>2, <1>3, <1>4, <1>5, <1>6, <1>7, <1>8, <1>9 DEF IInv

\* Loading the head of a list keeps IInv.
LEMMA LoadInv ==
  ASSUME IInv, NEW t \in Threads, Load(t)
  PROVE  IInv'
<1> USE DEF Load, Goto
<1>0. \A l, n : InList(l, n)' <=> InList(l, n)
  BY DEF InList
<1>10. top[From(t)] # Null => InList(From(t), top[From(t)])
  <2>1. list[From(t)] \in Seq(Nodes)
    BY FromTo DEF IInv, TypeOK
  <2>2. list[From(t)] # << >> => Len(list[From(t)]) \in 1 .. Len(list[From(t)])
    BY <2>1, EmptySeq
  <2> QED
    BY <2>2, FromTo DEF IInv, PointersSpellLists, InList
<1>1. TypeOK'
  BY FromTo DEF IInv, TypeOK, PC, Pointers, Values
<1>2. NodeInOnePlace'
  BY <1>0 DEF IInv, TypeOK, NodeInOnePlace, Holding
<1>3. PointersSpellLists'
  BY DEF IInv, TypeOK, PointersSpellLists
<1>4. PopTakesTheTop'
  BY DEF IInv, TypeOK, PopTakesTheTop, HolderInv, Holding
<1>5. RoleInv'
  BY DEF IInv, TypeOK, RoleInv
<1>6. RemoverInv'
  BY <1>0, <1>10 DEF IInv, TypeOK, RemoverInv, From
<1>7. HolderInv'
  BY DEF IInv, TypeOK, HolderInv, Holding
<1>8. UnusedInv'
  BY <1>0 DEF IInv, TypeOK, UnusedInv
<1>9. DataInv'
  BY DEF IInv, TypeOK, DataInv, HolderInv, Holding
<1> QED
  BY <1>1, <1>2, <1>3, <1>4, <1>5, <1>6, <1>7, <1>8, <1>9 DEF IInv

\* Loading the next pointer of the loaded node keeps IInv.
LEMMA LoadNextInv ==
  ASSUME IInv, NEW t \in Threads, LoadNext(t)
  PROVE  IInv'
<1> USE DEF LoadNext, Goto
<1>0. \A l, n : InList(l, n)' <=> InList(l, n)
  BY DEF InList
<1>1. TypeOK'
  BY FromTo, LinkedNodes DEF IInv, TypeOK, PC, Pointers, Values,  RemoverInv
<1>2. NodeInOnePlace'
  BY <1>0 DEF IInv, TypeOK, NodeInOnePlace, Holding
<1>3. PointersSpellLists'
  BY DEF IInv, TypeOK, PointersSpellLists
<1>4. PopTakesTheTop'
  BY DEF IInv, TypeOK, PopTakesTheTop, HolderInv, Holding
<1>5. RoleInv'
  BY DEF IInv, TypeOK, RoleInv
<1>6. RemoverInv'
  BY <1>0 DEF IInv, TypeOK, RemoverInv, From
<1>7. HolderInv'
  BY DEF IInv, TypeOK, HolderInv, Holding
<1>8. UnusedInv'
  BY <1>0 DEF IInv, TypeOK, UnusedInv
<1>9. DataInv'
  BY DEF IInv, TypeOK, DataInv, HolderInv, Holding
<1> QED
  BY <1>1, <1>2, <1>3, <1>4, <1>5, <1>6, <1>7, <1>8, <1>9 DEF IInv

\* A compare-and-swap that fails to unlink keeps IInv.
LEMMA UnlinkFailsInv ==
  ASSUME IInv, NEW t \in Threads, UnlinkFails(t)
  PROVE  IInv'
<1> USE DEF UnlinkFails, Goto
<1>0. \A l, n : InList(l, n)' <=> InList(l, n)
  BY DEF InList
<1>1. TypeOK'
  BY DEF IInv, TypeOK, PC, Pointers, Values
<1>2. NodeInOnePlace'
  BY <1>0 DEF IInv, TypeOK, NodeInOnePlace, Holding
<1>3. PointersSpellLists'
  BY DEF IInv, TypeOK, PointersSpellLists
<1>4. PopTakesTheTop'
  BY DEF IInv, TypeOK, PopTakesTheTop, HolderInv, Holding
<1>5. RoleInv'
  BY DEF IInv, TypeOK, RoleInv
<1>6. RemoverInv'
  BY <1>0 DEF IInv, TypeOK, RemoverInv, From
<1>7. HolderInv'
  BY DEF IInv, TypeOK, HolderInv, Holding
<1>8. UnusedInv'
  BY <1>0 DEF IInv, TypeOK, UnusedInv
<1>9. DataInv'
  BY DEF IInv, TypeOK, DataInv, HolderInv, Holding
<1> QED
  BY <1>1, <1>2, <1>3, <1>4, <1>5, <1>6, <1>7, <1>8, <1>9 DEF IInv

\* Allocating a node keeps IInv.
LEMMA NewInv ==
  ASSUME IInv, NEW t \in Threads, New(t)
  PROVE  IInv'
<1> USE DEF New, Goto
<1>0. \A l, n : InList(l, n)' <=> InList(l, n)
  BY DEF InList
<1>1. TypeOK'
  BY DEF IInv, TypeOK, PC, Pointers, Values
<1>2. NodeInOnePlace'
  BY <1>0 DEF IInv, TypeOK, NodeInOnePlace, Holding,  UnusedInv, HolderInv
<1>3. PointersSpellLists'
  BY DEF IInv, TypeOK, PointersSpellLists
<1>4. PopTakesTheTop'
  BY DEF IInv, TypeOK, PopTakesTheTop, HolderInv, Holding
<1>5. RoleInv'
  BY DEF IInv, TypeOK, RoleInv
<1>6. RemoverInv'
  BY <1>0 DEF IInv, TypeOK, RemoverInv, From
<1>7. HolderInv'
  BY DEF IInv, TypeOK, HolderInv, Holding
<1>8. UnusedInv'
  BY <1>0 DEF IInv, TypeOK, UnusedInv
<1>9. DataInv'
  BY DEF IInv, TypeOK, DataInv, HolderInv, Holding
<1> QED
  BY <1>1, <1>2, <1>3, <1>4, <1>5, <1>6, <1>7, <1>8, <1>9 DEF IInv

\* Constructing the object in a held node keeps IInv.
LEMMA ConstructInv ==
  ASSUME IInv, NEW t \in Threads, Construct(t)
  PROVE  IInv'
<1> USE DEF Construct, Goto
<1>0. \A l, n : InList(l, n)' <=> InList(l, n)
  BY DEF InList
<1>1. TypeOK'
  BY DEF IInv, TypeOK, PC, Pointers, Values
<1>2. NodeInOnePlace'
  BY <1>0 DEF IInv, TypeOK, NodeInOnePlace, Holding
<1>3. PointersSpellLists'
  BY DEF IInv, TypeOK, PointersSpellLists
<1>4. PopTakesTheTop'
  BY DEF IInv, TypeOK, PopTakesTheTop, HolderInv, Holding, NodeInOnePlace, RoleInv
<1>5. RoleInv'
  BY DEF IInv, TypeOK, RoleInv
<1>6. RemoverInv'
  BY <1>0 DEF IInv, TypeOK, RemoverInv, From
<1>7. HolderInv'
  BY DEF IInv, TypeOK, HolderInv, Holding
<1>8. UnusedInv'
  BY <1>0 DEF IInv, TypeOK, UnusedInv
<1>9. DataInv'
  BY DEF IInv, TypeOK, DataInv, HolderInv, Holding, NodeInOnePlace, InList, Lists
<1> QED
  BY <1>1, <1>2, <1>3, <1>4, <1>5, <1>6, <1>7, <1>8, <1>9 DEF IInv

\* Moving the object out of a held node keeps IInv.
LEMMA TakeInv ==
  ASSUME IInv, NEW t \in Threads, Take(t)
  PROVE  IInv'
<1> USE DEF Take, Goto
<1>0. \A l, n : InList(l, n)' <=> InList(l, n)
  BY DEF InList
<1>1. TypeOK'
  BY DEF IInv, TypeOK, PC, Pointers, Values, HolderInv, Holding
<1>2. NodeInOnePlace'
  BY <1>0 DEF IInv, TypeOK, NodeInOnePlace, Holding
<1>3. PointersSpellLists'
  BY DEF IInv, TypeOK, PointersSpellLists
<1>4. PopTakesTheTop'
  BY DEF IInv, TypeOK, PopTakesTheTop, HolderInv, Holding, NodeInOnePlace
<1>5. RoleInv'
  BY DEF IInv, TypeOK, RoleInv
<1>6. RemoverInv'
  BY <1>0 DEF IInv, TypeOK, RemoverInv, From
<1>7. HolderInv'
  BY DEF IInv, TypeOK, HolderInv, Holding
<1>8. UnusedInv'
  BY <1>0 DEF IInv, TypeOK, UnusedInv
<1>9. DataInv'
  BY DEF IInv, TypeOK, DataInv, HolderInv, Holding, NodeInOnePlace, InList, Lists
<1> QED
  BY <1>1, <1>2, <1>3, <1>4, <1>5, <1>6, <1>7, <1>8, <1>9 DEF IInv

\* Loading the head of the list to link into keeps IInv.
LEMMA LoadTargetInv ==
  ASSUME IInv, NEW t \in Threads, LoadTarget(t)
  PROVE  IInv'
<1> USE DEF LoadTarget, Goto
<1>0. \A l, n : InList(l, n)' <=> InList(l, n)
  BY DEF InList
<1>1. TypeOK'
  BY FromTo DEF IInv, TypeOK, PC, Pointers, Values
<1>2. NodeInOnePlace'
  BY <1>0 DEF IInv, TypeOK, NodeInOnePlace, Holding
<1>3. PointersSpellLists'
  BY DEF IInv, TypeOK, PointersSpellLists
<1>4. PopTakesTheTop'
  BY DEF IInv, TypeOK, PopTakesTheTop, HolderInv, Holding
<1>5. RoleInv'
  BY DEF IInv, TypeOK, RoleInv
<1>6. RemoverInv'
  BY <1>0 DEF IInv, TypeOK, RemoverInv, From
<1>7. HolderInv'
  BY DEF IInv, TypeOK, HolderInv, Holding
<1>8. UnusedInv'
  BY <1>0 DEF IInv, TypeOK, UnusedInv
<1>9. DataInv'
  BY DEF IInv, TypeOK, DataInv, HolderInv, Holding
<1> QED
  BY <1>1, <1>2, <1>3, <1>4, <1>5, <1>6, <1>7, <1>8, <1>9 DEF IInv

\* Writing the next pointer of a held node keeps IInv.
LEMMA WriteNextInv ==
  ASSUME IInv, NEW t \in Threads, WriteNext(t)
  PROVE  IInv'
<1> USE DEF WriteNext, Goto
<1>0. \A l, n : InList(l, n)' <=> InList(l, n)
  BY DEF InList
<1>1. TypeOK'
  BY DEF IInv, TypeOK, PC, Pointers, Values, HolderInv, Holding
<1>2. NodeInOnePlace'
  BY <1>0 DEF IInv, TypeOK, NodeInOnePlace, Holding
<1>3. PointersSpellLists'
  BY DEF IInv, TypeOK, PointersSpellLists, NodeInOnePlace, InList, HolderInv, Holding
<1>4. PopTakesTheTop'
  BY DEF IInv, TypeOK, PopTakesTheTop, HolderInv, Holding
<1>5. RoleInv'
  BY DEF IInv, TypeOK, RoleInv
<1>6. RemoverInv'
  BY <1>0 DEF IInv, TypeOK, RemoverInv, From, NodeInOnePlace, HolderInv, Holding, Lists
<1>7. HolderInv'
  BY DEF IInv, TypeOK, HolderInv, Holding, NodeInOnePlace
<1>8. UnusedInv'
  BY <1>0 DEF IInv, TypeOK, UnusedInv
<1>9. DataInv'
  BY DEF IInv, TypeOK, DataInv, HolderInv, Holding
<1> QED
  BY <1>1, <1>2, <1>3, <1>4, <1>5, <1>6, <1>7, <1>8, <1>9 DEF IInv

\* A compare-and-swap that fails to link keeps IInv.
LEMMA LinkFailsInv ==
  ASSUME IInv, NEW t \in Threads, LinkFails(t)
  PROVE  IInv'
<1> USE DEF LinkFails, Goto
<1>0. \A l, n : InList(l, n)' <=> InList(l, n)
  BY DEF InList
<1>1. TypeOK'
  BY DEF IInv, TypeOK, PC, Pointers, Values
<1>2. NodeInOnePlace'
  BY <1>0 DEF IInv, TypeOK, NodeInOnePlace, Holding
<1>3. PointersSpellLists'
  BY DEF IInv, TypeOK, PointersSpellLists
<1>4. PopTakesTheTop'
  BY DEF IInv, TypeOK, PopTakesTheTop, HolderInv, Holding
<1>5. RoleInv'
  BY DEF IInv, TypeOK, RoleInv
<1>6. RemoverInv'
  BY <1>0 DEF IInv, TypeOK, RemoverInv, From
<1>7. HolderInv'
  BY DEF IInv, TypeOK, HolderInv, Holding
<1>8. UnusedInv'
  BY <1>0 DEF IInv, TypeOK, UnusedInv
<1>9. DataInv'
  BY DEF IInv, TypeOK, DataInv, HolderInv, Holding
<1> QED
  BY <1>1, <1>2, <1>3, <1>4, <1>5, <1>6, <1>7, <1>8, <1>9 DEF IInv

\* Unlinking the first node of a list keeps IInv.
LEMMA UnlinkInv ==
  ASSUME IInv, OneRemoverPerList, NEW t \in Threads, Unlink(t)
  PROVE  IInv'
<1> DEFINE F == From(t)
           s == list[F]
<1> USE DEF Unlink, Goto
<1>1. F \in Lists /\ s \in Seq(Nodes)
  BY FromTo DEF IInv, TypeOK
<1>2. InList(F, node_[t]) /\ node_[t] \in Nodes
  BY <1>1, LinkedNodes DEF IInv, RemoverInv
<1>3. s # << >> /\ s[Len(s)] = node_[t] /\ Len(s) \in 1 .. Len(s)
  BY <1>1, <1>2, NodesAssumption, EmptySeq DEF IInv, PointersSpellLists
<1>4. next_[t] = IF Len(s) = 1 THEN Null ELSE s[Len(s) - 1]
  <2>1. next_[t] = next[s[Len(s)]]
    BY <1>3 DEF IInv, RemoverInv
  <2>2. \A i \in 1 .. Len(s) : next[s[i]] = IF i = 1 THEN Null ELSE s[i - 1]
    BY <1>1 DEF IInv, PointersSpellLists
  <2> QED
    BY <2>1, <2>2, <1>3
<1>5. /\ list'[F] \in Seq(Nodes)
      /\ Len(list'[F]) = Len(s) - 1
      /\ \A i \in 1 .. Len(s) - 1 : list'[F][i] = s[i]
  BY <1>1, <1>3, WithoutFirstProperties DEF IInv, TypeOK
<1>6. \A l \in Lists : l # F => list'[l] = list[l]
  BY <1>1 DEF IInv, TypeOK
<1>7. \A l \in Lists : \A n : InList(l, n)' <=> InList(l, n) /\ ~(l = F /\ n = node_[t])
  <2> SUFFICES ASSUME NEW l \in Lists, NEW n
               PROVE  InList(l, n)' <=> InList(l, n) /\ ~(l = F /\ n = node_[t])
    OBVIOUS
  <2>1. CASE l # F
    BY <2>1, <1>6 DEF InList
  <2>2. CASE l = F
    <3>1. \A i \in 1 .. Len(s) : s[i] = node_[t] => i = Len(s)
      BY <1>1, <1>3 DEF IInv, NodeInOnePlace
    <3>2. InList(l, n)' <=> \E i \in 1 .. Len(s) - 1 : s[i] = n
      BY <2>2, <1>5 DEF InList
    <3>3. InList(l, n) <=> \E i \in 1 .. Len(s) : s[i] = n
      BY <2>2 DEF InList
    <3> QED
      BY <2>2, <3>1, <3>2, <3>3, <1>3
  <2> QED
    BY <2>1, <2>2
<1> HIDE DEF F, s
<1>8. TypeOK'
  <2>1. list' \in [Lists -> Seq(Nodes)]
    BY <1>1, <1>5, <1>6 DEF IInv, TypeOK
  <2>2. popped' \in Seq(Values \union {NoObj}) /\ due' \in [Threads -> Values \union {NoObj}]
    <3>1. data[node_[t]] \in Values \union {NoObj}
      BY <1>2 DEF IInv, TypeOK
    <3>2. Append(popped, data[node_[t]]) \in Seq(Values \union {NoObj})
      BY <3>1, AppendProperties DEF IInv, TypeOK
    <3> QED
      BY <3>1, <3>2 DEF IInv, TypeOK
  <2> QED
    BY <2>1, <2>2 DEF IInv, TypeOK, PC
<1>9. NodeInOnePlace'
  <2>1. \A l \in Lists : \A i, j \in 1 .. Len(list'[l]) : list'[l][i] = list'[l][j] => i = j
    <3>1. \A i, j \in 1 .. Len(s) : s[i] = s[j] => i = j
      BY <1>1 DEF IInv, NodeInOnePlace, s
    <3> HIDE DEF Unlink, Goto
    <3>2. \A i, j \in 1 .. Len(list'[F]) : list'[F][i] = list'[F][j] => i = j
      BY <3>1, <1>3, <1>5
    <3>3. \A l \in Lists : l # F =>
            \A i, j \in 1 .. Len(list'[l]) : list'[l][i] = list'[l][j] => i = j
      BY <1>6 DEF IInv, NodeInOnePlace
    <3> QED
      BY <3>2, <3>3
  <2>2. \A n \in Nodes : ~(InList("head", n)' /\ InList("free", n)')
    BY <1>7 DEF IInv, NodeInOnePlace, Lists
  <2>3. \A u \in Threads : Holding(u)' => Holding(u) \/ u = t
    BY DEF IInv, TypeOK, Holding
  <2>4. \A u \in Threads : Holding(u) => node_[u] # node_[t]
    BY <1>1, <1>2 DEF IInv, NodeInOnePlace
  <2>5. \A l \in Lists : ~InList(l, node_[t])'
    BY <1>1, <1>2, <1>7 DEF IInv, NodeInOnePlace, Lists
  <2>6. \A u \in Threads : Holding(u)' => \A l \in Lists : ~InList(l, node_[u])'
    BY <2>3, <2>5, <1>7 DEF IInv, NodeInOnePlace
  <2>7. \A u, v \in Threads : Holding(u)' /\ Holding(v)' /\ node_[u] = node_[v] => u = v
    BY <2>3, <2>4 DEF IInv, NodeInOnePlace
  <2> QED
    BY <2>1, <2>2, <2>6, <2>7 DEF NodeInOnePlace
<1>10. PointersSpellLists'
  <2>1. top'[F] = IF list'[F] = << >> THEN Null ELSE list'[F][Len(list'[F])]
    <3>1. top'[F] = next_[t]
      BY <1>1 DEF IInv, TypeOK, F
    <3>2. list'[F] = << >> <=> Len(list'[F]) = 0
      BY <1>5, EmptySeq
    <3> HIDE DEF Unlink, Goto
    <3>3. CASE Len(s) = 1
      BY <3>1, <3>2, <3>3, <1>4, <1>5
    <3>4. CASE Len(s) # 1
      BY <3>1, <3>2, <3>4, <1>3, <1>4, <1>5
    <3> QED
      BY <3>3, <3>4
  <2>2. \A i \in 1 .. Len(list'[F]) :
          next[list'[F][i]] = IF i = 1 THEN Null ELSE list'[F][i - 1]
    <3>1. \A i \in 1 .. Len(s) : next[s[i]] = IF i = 1 THEN Null ELSE s[i - 1]
      BY <1>1 DEF IInv, PointersSpellLists, s
    <3> HIDE DEF Unlink, Goto
    <3> SUFFICES ASSUME NEW i \in 1 .. Len(list'[F])
                 PROVE  next[list'[F][i]] = IF i = 1 THEN Null ELSE list'[F][i - 1]
      OBVIOUS
    <3>2. i \in 1 .. Len(s) /\ i \in 1 .. Len(s) - 1 /\ (i # 1 => i - 1 \in 1 .. Len(s) - 1)
      BY <1>3, <1>5
    <3>3. list'[F][i] = s[i] /\ (i # 1 => list'[F][i - 1] = s[i - 1])
      BY <3>2, <1>5
    <3> QED
      BY <3>1, <3>2, <3>3
  <2>3. \A l \in Lists : l # F => top'[l] = top[l]
    BY <1>1 DEF IInv, TypeOK, F
  <2> QED
    BY <2>1, <2>2, <2>3, <1>1, <1>6 DEF IInv, PointersSpellLists
<1>11. PopTakesTheTop'
  BY DEF IInv, TypeOK, PopTakesTheTop
<1>12. RoleInv'
  BY DEF IInv, TypeOK, RoleInv
<1>13. RemoverInv'
  <2> SUFFICES ASSUME NEW u \in Threads, pc'[u] \in {"next", "unlink"}
               PROVE  /\ InList(From(u), node_[u])'
                      /\ pc'[u] = "unlink" => next_[u] = next[node_[u]]
    BY DEF RemoverInv
  <2>1. u # t /\ pc[u] = pc'[u]
    BY DEF IInv, TypeOK
  <2>2. From(u) # F
    <3>1. op[u] \in {"push", "pop"} /\ op[t] \in {"push", "pop"}
      BY DEF IInv, TypeOK
    <3>2. /\ u \in (IF op[u] = "push" THEN Pushers ELSE Poppers)
          /\ t \in (IF op[t] = "push" THEN Pushers ELSE Poppers)
      BY <2>1 DEF IInv, RoleInv
    <3>3. op[u] # op[t]
      BY <2>1, <3>2 DEF OneRemoverPerList
    <3> QED
      BY <3>1, <3>3 DEF From, F
  <2>3. From(u)' = From(u)
    BY DEF From
  <2> QED
    BY <2>1, <2>2, <2>3, <1>7, FromTo DEF IInv, RemoverInv
<1>14. HolderInv'
  BY <1>1, <1>2 DEF IInv, TypeOK, HolderInv, Holding, UnusedInv
<1>15. UnusedInv'
  BY <1>7 DEF IInv, UnusedInv
<1>16. DataInv'
  <2>1. \A i \in 1 .. Len(list'["head"]) : data[list'["head"][i]] \in Values
    BY <1>3, <1>5, <1>6 DEF IInv, DataInv, Lists, s
  <2> QED
    BY <2>1 DEF IInv, TypeOK, DataInv
<1> QED
  BY <1>8, <1>9, <1>10, <1>11, <1>12, <1>13, <1>14, <1>15, <1>16 DEF IInv

\* Linking a held node in front of a list keeps IInv.
LEMMA LinkInv ==
  ASSUME IInv, NEW t \in Threads, Link(t)
  PROVE  IInv'
<1> DEFINE T == To(t)
           s == list[T]
<1> USE DEF Link, Goto
<1>1. T \in Lists /\ s \in Seq(Nodes) /\ Len(s) \in Nat
  BY FromTo, LenProperties DEF IInv, TypeOK
<1>2. node_[t] \in Nodes \ unused /\ Holding(t) /\ next[node_[t]] = next_[t]
  BY DEF IInv, HolderInv, Holding
<1>3. /\ list'[T] \in Seq(Nodes) /\ list'[T] # << >>
      /\ Len(list'[T]) = Len(s) + 1
      /\ \A i \in 1 .. Len(s) : list'[T][i] = s[i]
      /\ list'[T][Len(s) + 1] = node_[t]
  <2>1. list'[T] = Append(s, node_[t])
    BY <1>1 DEF IInv, TypeOK
  <2> HIDE DEF T, s
  <2>2. node_[t] \in Nodes
    BY <1>2
  <2>3. /\ Append(s, node_[t]) \in Seq(Nodes)
        /\ Append(s, node_[t]) # << >>
        /\ Len(Append(s, node_[t])) = Len(s) + 1
        /\ \A i \in 1 .. Len(s) : Append(s, node_[t])[i] = s[i]
        /\ Append(s, node_[t])[Len(s) + 1] = node_[t]
    BY <1>1, <2>2, AppendProperties, ZenonT(30)
  <2> QED
    BY <2>1, <2>3, Zenon
<1>4. \A l \in Lists : l # T => list'[l] = list[l]
  BY <1>1 DEF IInv, TypeOK
<1>5. \A l \in Lists : ~InList(l, node_[t])
  BY <1>2 DEF IInv, NodeInOnePlace
<1>6. \A l \in Lists : \A n : InList(l, n)' <=> InList(l, n) \/ (l = T /\ n = node_[t])
  <2> SUFFICES ASSUME NEW l \in Lists, NEW n
               PROVE  InList(l, n)' <=> InList(l, n) \/ (l = T /\ n = node_[t])
    OBVIOUS
  <2>1. CASE l # T
    BY <2>1, <1>4 DEF InList
  <2>2. CASE l = T
    <3>1. InList(l, n) <=> \E i \in 1 .. Len(s) : s[i] = n
      BY <2>2 DEF InList
    <3>2. InList(l, n)' <=> \E i \in 1 .. Len(s) + 1 : list'[T][i] = n
      BY <2>2, <1>3 DEF InList
    <3> QED
      BY <2>2, <3>1, <3>2, <1>1, <1>3
  <2> QED
    BY <2>1, <2>2
<1> HIDE DEF T, s
<1>7. TypeOK'
  <2>1. list' \in [Lists -> Seq(Nodes)]
    BY <1>1, <1>3, <1>4 DEF IInv, TypeOK
  <2>2. results' \in Seq(Values \union {NoObj})
    BY AppendProperties DEF IInv, TypeOK
  <2>3. top' \in [Lists -> Pointers]
    BY <1>2 DEF IInv, TypeOK, Pointers
  <2> QED
    BY <2>1, <2>2, <2>3 DEF IInv, TypeOK, PC
<1>8. NodeInOnePlace'
  <2>1. \A l \in Lists : \A i, j \in 1 .. Len(list'[l]) : list'[l][i] = list'[l][j] => i = j
    <3>1. \A i, j \in 1 .. Len(list'[T]) : list'[T][i] = list'[T][j] => i = j
      <4>1. \A i \in 1 .. Len(s) : s[i] # node_[t]
        BY <1>1, <1>5 DEF InList, s
      <4>2. \A i, j \in 1 .. Len(s) : s[i] = s[j] => i = j
        BY <1>1 DEF IInv, NodeInOnePlace, s
      <4> DEFINE r == list'[T]
      <4>3. /\ s \in Seq(Nodes) /\ r \in Seq(Nodes)
            /\ Len(r) = Len(s) + 1
            /\ \A i \in 1 .. Len(s) : r[i] = s[i]
            /\ r[Len(s) + 1] = node_[t]
        BY <1>1, <1>3
      <4> HIDE DEF Link, Goto, r
      <4>4. \A i, j \in 1 .. Len(r) : r[i] = r[j] => i = j
        BY <4>1, <4>2, <4>3, LongerInjective
      <4> QED
        BY <4>4 DEF r
    <3> HIDE DEF Link, Goto
    <3>2. \A l \in Lists : l # T =>
            \A i, j \in 1 .. Len(list'[l]) : list'[l][i] = list'[l][j] => i = j
      BY <1>4 DEF IInv, NodeInOnePlace
    <3> QED
      BY <3>1, <3>2
  <2>2. \A n \in Nodes : ~(InList("head", n)' /\ InList("free", n)')
    BY <1>5, <1>6 DEF IInv, NodeInOnePlace, Lists
  <2>3. \A u \in Threads : Holding(u)' => Holding(u) /\ u # t
    BY DEF IInv, TypeOK, Holding
  <2>4. \A u \in Threads : Holding(u) /\ u # t => node_[u] # node_[t]
    BY <1>2 DEF IInv, NodeInOnePlace
  <2>5. \A u \in Threads : Holding(u)' => \A l \in Lists : ~InList(l, node_[u])'
    BY <2>3, <2>4, <1>6 DEF IInv, NodeInOnePlace
  <2>6. \A u, v \in Threads : Holding(u)' /\ Holding(v)' /\ node_[u] = node_[v] => u = v
    BY <2>3 DEF IInv, NodeInOnePlace
  <2> QED
    BY <2>1, <2>2, <2>5, <2>6 DEF NodeInOnePlace
<1>9. PointersSpellLists'
  <2>1. top'[T] = list'[T][Len(list'[T])]
    BY <1>1, <1>3 DEF IInv, TypeOK, T
  <2>2. \A i \in 1 .. Len(list'[T]) :
          next[list'[T][i]] = IF i = 1 THEN Null ELSE list'[T][i - 1]
    <3>1. \A i \in 1 .. Len(s) : next[s[i]] = IF i = 1 THEN Null ELSE s[i - 1]
      BY <1>1 DEF IInv, PointersSpellLists, s
    <3>2. next[node_[t]] = IF s = << >> THEN Null ELSE s[Len(s)]
      BY <1>1, <1>2 DEF IInv, PointersSpellLists, s, T
    <3>3. s = << >> <=> Len(s) = 0
      BY <1>1, EmptySeq
    <3> SUFFICES ASSUME NEW i \in 1 .. Len(s) + 1
                 PROVE  next[list'[T][i]] = IF i = 1 THEN Null ELSE list'[T][i - 1]
      BY <1>3
    <3> HIDE DEF Link, Goto
    <3>4. CASE i \in 1 .. Len(s)
      <4>1. i # 1 => i - 1 \in 1 .. Len(s)
        BY <3>4, <1>1
      <4> QED
        BY <3>1, <3>4, <4>1, <1>3
    <3>5. CASE i = Len(s) + 1
      <4>1. i # 1 => Len(s) \in 1 .. Len(s) /\ i - 1 = Len(s) /\ s # << >>
        BY <3>5, <3>3, <1>1
      <4>2. i = 1 => s = << >>
        BY <3>5, <3>3, <1>1
      <4> QED
        BY <3>2, <3>5, <4>1, <4>2, <1>3
    <3> QED
      BY <3>4, <3>5, <1>1
  <2>3. \A l \in Lists : l # T => top'[l] = top[l]
    BY <1>1 DEF IInv, TypeOK, T
  <2> SUFFICES ASSUME NEW l \in Lists
               PROVE  /\ top'[l] = IF list'[l] = << >> THEN Null ELSE list'[l][Len(list'[l])]
                      /\ \A i \in 1 .. Len(list'[l]) :
                           next[list'[l][i]] = IF i = 1 THEN Null ELSE list'[l][i - 1]
    BY DEF PointersSpellLists
  <2> HIDE DEF Link, Goto
  <2>4. CASE l = T
    BY <2>1, <2>2, <2>4, <1>3
  <2>5. CASE l # T
    BY <2>3, <2>5, <1>4 DEF IInv, PointersSpellLists
  <2> QED
    BY <2>4, <2>5
<1>10. PopTakesTheTop'
  BY DEF IInv, TypeOK, PopTakesTheTop
<1>11. RoleInv'
  BY DEF IInv, TypeOK, RoleInv
<1>12. RemoverInv'
  <2>1. \A u : From(u)' = From(u)
    BY DEF From
  <2> QED
    BY <2>1, <1>6, FromTo DEF IInv, TypeOK, RemoverInv
<1>13. HolderInv'
  BY DEF IInv, TypeOK, HolderInv, Holding
<1>14. UnusedInv'
  BY <1>2, <1>6 DEF IInv, UnusedInv
<1>15. DataInv'
  <2>1. \A i \in 1 .. Len(list'["head"]) : data[list'["head"][i]] \in Values
    <3>1. CASE T = "head"
      <4>1. op[t] = "push"
        BY <3>1 DEF T, To
      <4>2. data[node_[t]] \in Values
        BY <4>1 DEF IInv, DataInv
      <4> QED
        BY <3>1, <4>2, <1>1, <1>3 DEF IInv, DataInv, s
    <3>2. CASE T # "head"
      BY <3>2, <1>4 DEF IInv, DataInv, Lists
    <3> QED
      BY <3>1, <3>2
  <2> QED
    BY <2>1 DEF IInv, TypeOK, DataInv
<1> QED
  BY <1>7, <1>8, <1>9, <1>10, <1>11, <1>12, <1>13, <1>14, <1>15 DEF IInv

(***************************************************************************)
(* With one pusher and one popper, for any number of nodes and of calls:   *)
(* no node is ever in two places, the pointers spell the two lists, and    *)
(* pop returns the object that was on top.                                 *)
(***************************************************************************)
THEOREM Invariance == OneRemoverPerList /\ Spec => []IInv
<1> SUFFICES ASSUME OneRemoverPerList PROVE Spec => []IInv
  OBVIOUS
<1>1. IInv /\ [Next]_vars => IInv'
  <2> SUFFICES ASSUME IInv, [Next]_vars PROVE IInv'
    OBVIOUS
  <2>1. ASSUME NEW t \in Threads, PushCall(t) PROVE IInv'
    BY <2>1, PushCallInv
  <2>2. ASSUME NEW t \in Threads, PopCall(t) PROVE IInv'
    BY <2>2, PopCallInv
  <2>3. ASSUME NEW t \in Threads, Load(t) PROVE IInv'
    BY <2>3, LoadInv
  <2>4. ASSUME NEW t \in Threads, LoadNext(t) PROVE IInv'
    BY <2>4, LoadNextInv
  <2>5. ASSUME NEW t \in Threads, Unlink(t) PROVE IInv'
    BY <2>5, UnlinkInv
  <2>6. ASSUME NEW t \in Threads, UnlinkFails(t) PROVE IInv'
    BY <2>6, UnlinkFailsInv
  <2>7. ASSUME NEW t \in Threads, New(t) PROVE IInv'
    BY <2>7, NewInv
  <2>8. ASSUME NEW t \in Threads, Construct(t) PROVE IInv'
    BY <2>8, ConstructInv
  <2>9. ASSUME NEW t \in Threads, Take(t) PROVE IInv'
    BY <2>9, TakeInv
  <2>10. ASSUME NEW t \in Threads, LoadTarget(t) PROVE IInv'
    BY <2>10, LoadTargetInv
  <2>11. ASSUME NEW t \in Threads, WriteNext(t) PROVE IInv'
    BY <2>11, WriteNextInv
  <2>12. ASSUME NEW t \in Threads, Link(t) PROVE IInv'
    BY <2>12, LinkInv
  <2>13. ASSUME NEW t \in Threads, LinkFails(t) PROVE IInv'
    BY <2>13, LinkFailsInv
  <2>14. ASSUME UNCHANGED vars PROVE IInv'
    BY <2>14 DEF vars, IInv, TypeOK, NodeInOnePlace, PointersSpellLists, PopTakesTheTop,
                 RoleInv, RemoverInv, HolderInv, UnusedInv, DataInv, InList, Holding, From
  <2> QED
    BY <2>1, <2>2, <2>3, <2>4, <2>5, <2>6, <2>7, <2>8, <2>9, <2>10, <2>11, <2>12, <2>13,
       <2>14 DEF Next, Step
<1> QED
  BY InitInv, <1>1, PTL DEF Spec

\* Every node is in one of the lists or held by one thread, once, with one
\* remover per list.
THEOREM NodesInOnePlace == OneRemoverPerList /\ Spec => []NodeInOnePlace
<1>1. IInv => NodeInOnePlace
  BY DEF IInv
<1> QED
  BY <1>1, Invariance, PTL

(***************************************************************************)
(* The values on the stack change only when the list of _head does, or the *)
(* data of a node on it.                                                   *)
(***************************************************************************)
LEMMA SameValues ==
  ASSUME list'["head"] = list["head"],
         \A i \in 1 .. Len(list["head"]) : data'[list["head"][i]] = data[list["head"][i]]
  PROVE  StackOfValues' = StackOfValues
BY DEF StackOfValues

\* The abstract stack is a sequence of objects.
LEMMA StackOfValuesType ==
  ASSUME IInv
  PROVE  /\ StackOfValues \in Seq(Values)
         /\ Len(StackOfValues) = Len(list["head"])
         /\ \A i \in 1 .. Len(list["head"]) : StackOfValues[i] = data[list["head"][i]]
<1>1. Len(list["head"]) \in Nat
  BY LenProperties DEF IInv, TypeOK, Lists
<1> QED
  BY <1>1 DEF IInv, DataInv, StackOfValues

(***************************************************************************)
(* A successful compare-and-swap of pop on _head is the abstract Pop.      *)
(***************************************************************************)
LEMMA UnlinkIsPop ==
  ASSUME IInv, NEW t \in Threads, Unlink(t), op[t] = "pop"
  PROVE  LIFO!Pop /\ StackOfValues[Len(StackOfValues)] = data[node_[t]]
<1> DEFINE s == list["head"]
<1>1. From(t) = "head" /\ "head" \in Lists
  BY DEF From, Lists
<1>2. s \in Seq(Nodes)
  BY <1>1 DEF IInv, TypeOK
<1>3. InList("head", node_[t]) /\ node_[t] \in Nodes
  BY <1>1, LinkedNodes DEF IInv, RemoverInv, Unlink
<1>4. s # << >> /\ s[Len(s)] = node_[t] /\ Len(s) \in 1 .. Len(s)
  BY <1>1, <1>2, <1>3, NodesAssumption, EmptySeq DEF IInv, PointersSpellLists, Unlink
<1>5. popped' = Append(popped, data[node_[t]])
  BY DEF Unlink
<1>6. list'["head"] = WithoutFirst(s) /\ data' = data
  BY <1>1 DEF Unlink, IInv, TypeOK
<1>7. /\ Len(list'["head"]) = Len(s) - 1
      /\ \A i \in 1 .. Len(s) - 1 : list'["head"][i] = s[i]
  BY <1>2, <1>4, <1>6, WithoutFirstProperties
<1> HIDE DEF s
<1>8. /\ StackOfValues \in Seq(Values)
      /\ Len(StackOfValues) = Len(s)
      /\ \A i \in 1 .. Len(s) : StackOfValues[i] = data[s[i]]
  BY StackOfValuesType DEF s
<1>9. StackOfValues # << >>
  <2>1. Len(s) # 0
    BY <1>4
  <2> QED
    BY <1>8, <2>1, EmptySeq
<1>10. StackOfValues' = [i \in 1 .. Len(s) - 1 |-> data[s[i]]]
  BY <1>6, <1>7 DEF StackOfValues
<1>11. WithoutFirst(StackOfValues) = [i \in 1 .. Len(s) - 1 |-> data[s[i]]]
  <2>1. /\ WithoutFirst(StackOfValues) \in Seq(Values)
        /\ Len(WithoutFirst(StackOfValues)) = Len(s) - 1
        /\ \A i \in 1 .. Len(s) - 1 : WithoutFirst(StackOfValues)[i] = StackOfValues[i]
    BY <1>8, <1>9, WithoutFirstProperties
  <2>2. \A i \in 1 .. Len(s) - 1 : StackOfValues[i] = data[s[i]]
    BY <1>8, <1>4
  <2>3. WithoutFirst(StackOfValues) = [i \in 1 .. Len(s) - 1 |-> WithoutFirst(StackOfValues)[i]]
    BY <2>1, LenProperties
  <2> QED
    BY <2>1, <2>2, <2>3
<1>12. StackOfValues[Len(StackOfValues)] = data[node_[t]]
  BY <1>4, <1>8
<1> QED
  BY <1>5, <1>9, <1>10, <1>11, <1>12 DEF LIFO!Pop, WithoutFirst

(***************************************************************************)
(* A successful compare-and-swap of push on _head is the abstract Push.    *)
(***************************************************************************)
LEMMA LinkIsPush ==
  ASSUME IInv, NEW t \in Threads, Link(t), op[t] = "push"
  PROVE  arg[t] \in Values /\ LIFO!Push(arg[t])
<1> DEFINE s == list["head"]
<1>1. To(t) = "head" /\ "head" \in Lists
  BY DEF To, Lists
<1>2. s \in Seq(Nodes) /\ node_[t] \in Nodes
  BY <1>1 DEF IInv, TypeOK, HolderInv, Holding, Link
<1>3. arg[t] \in Values /\ data[node_[t]] = arg[t]
  BY DEF IInv, DataInv, Link
<1>4. list'["head"] = Append(s, node_[t]) /\ data' = data /\ popped' = popped
  BY <1>1 DEF Link, IInv, TypeOK
<1> HIDE DEF s
<1>5. /\ Append(s, node_[t]) \in Seq(Nodes)
      /\ Append(s, node_[t]) # << >>
      /\ Len(Append(s, node_[t])) = Len(s) + 1
      /\ \A i \in 1 .. Len(s) : Append(s, node_[t])[i] = s[i]
      /\ Append(s, node_[t])[Len(s) + 1] = node_[t]
  BY <1>2, AppendProperties, ZenonT(30)
<1>6. Len(s) \in Nat
  BY <1>2, LenProperties
<1>7. /\ StackOfValues \in Seq(Values)
      /\ Len(StackOfValues) = Len(s)
      /\ \A i \in 1 .. Len(s) : StackOfValues[i] = data[s[i]]
  BY StackOfValuesType DEF s
<1>8. StackOfValues' = [i \in 1 .. Len(s) + 1 |-> data[Append(s, node_[t])[i]]]
  BY <1>4, <1>5 DEF StackOfValues
<1>9. StackOfValues' = Append(StackOfValues, arg[t])
  <2> DEFINE a == Append(StackOfValues, arg[t])
  <2>1. /\ a \in Seq(Values)
        /\ Len(a) = Len(s) + 1
        /\ \A i \in 1 .. Len(s) : a[i] = StackOfValues[i]
        /\ a[Len(s) + 1] = arg[t]
    <3>1. /\ a \in Seq(Values)
          /\ a # << >>
          /\ Len(a) = Len(StackOfValues) + 1
          /\ \A i \in 1 .. Len(StackOfValues) : a[i] = StackOfValues[i]
          /\ a[Len(StackOfValues) + 1] = arg[t]
      BY <1>3, <1>7, AppendProperties, ZenonT(30)
    <3> QED
      BY <3>1, <1>7
  <2> HIDE DEF a
  <2>2. a = [i \in 1 .. Len(s) + 1 |-> a[i]]
    BY <2>1, LenProperties
  <2>3. \A i \in 1 .. Len(s) + 1 : a[i] = data[Append(s, node_[t])[i]]
    BY <2>1, <1>3, <1>5, <1>6, <1>7
  <2>4. a = [i \in 1 .. Len(s) + 1 |-> data[Append(s, node_[t])[i]]]
    BY <2>2, <2>3
  <2> QED
    BY <2>4, <1>8 DEF a
<1> QED
  BY <1>3, <1>4, <1>9 DEF LIFO!Push

(***************************************************************************)
(* Every other step leaves the values on the stack alone.                  *)
(***************************************************************************)
LEMMA OtherSteps ==
  ASSUME IInv, NEW t \in Threads,
         \/ PushCall(t) \/ PopCall(t) \/ Load(t) \/ LoadNext(t) \/ UnlinkFails(t)
         \/ New(t) \/ LoadTarget(t) \/ WriteNext(t) \/ LinkFails(t)
         \/ Construct(t) \/ Take(t) \/ (Unlink(t) /\ op[t] # "pop") \/ (Link(t) /\ op[t] # "push")
  PROVE  StackOfValues' = StackOfValues /\ popped' = popped
<1>1. CASE Unlink(t) /\ op[t] # "pop"
  BY <1>1, SameValues DEF Unlink, IInv, TypeOK, From, Lists
<1>2. CASE Link(t) /\ op[t] # "push"
  BY <1>2, SameValues DEF Link, IInv, TypeOK, To, Lists
<1>3. CASE Construct(t) \/ Take(t)
  <2>1. \A i \in 1 .. Len(list["head"]) : list["head"][i] # node_[t]
    BY <1>3 DEF Construct, Take, IInv, NodeInOnePlace, Holding, InList, Lists
  <2>2. \A i \in 1 .. Len(list["head"]) : list["head"][i] \in Nodes
    BY LinkedNodes DEF IInv, InList, Lists
  <2>3. \A i \in 1 .. Len(list["head"]) : data'[list["head"][i]] = data[list["head"][i]]
    BY <1>3, <2>1, <2>2 DEF Construct, Take, IInv, TypeOK
  <2>4. QED
    BY <1>3, <2>3, SameValues DEF Construct, Take
<1>4. CASE \/ PushCall(t) \/ PopCall(t) \/ Load(t) \/ LoadNext(t) \/ UnlinkFails(t)
           \/ New(t) \/ LoadTarget(t) \/ WriteNext(t) \/ LinkFails(t)
  <2>1. list' = list /\ data' = data /\ popped' = popped
    BY <1>4 DEF PushCall, PopCall, Load, LoadNext, UnlinkFails, New, LoadTarget, WriteNext, LinkFails
  <2>2. QED
    BY <2>1, SameValues
<1>5. QED
  BY <1>1, <1>2, <1>3, <1>4

(***************************************************************************)
(* With one pusher and one popper the two lists and their                  *)
(* compare-and-swaps implement a LIFO stack.                               *)
(***************************************************************************)
THEOREM Refinement == OneRemoverPerList /\ Spec => ImplementsStack
<1>1. Init => LIFO!Init
  BY DEF Init, LIFO!Init, StackOfValues, Lists
<1>2. IInv /\ [Next]_vars => [LIFO!Next]_(LIFO!vars)
  <2> SUFFICES ASSUME IInv, [Next]_vars
               PROVE  LIFO!Next \/ (StackOfValues' = StackOfValues /\ popped' = popped)
    BY DEF LIFO!vars
  <2>1. ASSUME NEW t \in Threads, Unlink(t), op[t] = "pop" PROVE LIFO!Next
    BY <2>1, UnlinkIsPop DEF LIFO!Next
  <2>2. ASSUME NEW t \in Threads, Link(t), op[t] = "push" PROVE LIFO!Next
    BY <2>2, LinkIsPush DEF LIFO!Next
  <2>3. ASSUME NEW t \in Threads, Unlink(t), op[t] # "pop"
        PROVE  StackOfValues' = StackOfValues /\ popped' = popped
    BY <2>3, OtherSteps
  <2>4. ASSUME NEW t \in Threads, Link(t), op[t] # "push"
        PROVE  StackOfValues' = StackOfValues /\ popped' = popped
    BY <2>4, OtherSteps
  <2>5. ASSUME NEW t \in Threads,
               \/ PushCall(t) \/ PopCall(t) \/ Load(t) \/ LoadNext(t) \/ UnlinkFails(t)
               \/ New(t) \/ LoadTarget(t) \/ WriteNext(t) \/ LinkFails(t)
               \/ Construct(t) \/ Take(t)
        PROVE  StackOfValues' = StackOfValues /\ popped' = popped
    BY <2>5, OtherSteps
  <2>6. ASSUME UNCHANGED vars PROVE StackOfValues' = StackOfValues /\ popped' = popped
    BY <2>6, SameValues DEF vars
  <2> QED
    BY <2>1, <2>2, <2>3, <2>4, <2>5, <2>6 DEF Next, Step
<1> QED
  BY <1>1, <1>2, Invariance, PTL DEF Spec, ImplementsStack, LIFO!Spec

-----------------------------------------------------------------------------
(***************************************************************************)
(* Every value is popped once                                              *)
(***************************************************************************)

\* A step of one thread that neither begins nor ends to carry a value.
LEMMA CarryingSame ==
  ASSUME IInv, NEW t \in Threads,
         \/ PopCall(t) \/ Load(t) \/ LoadNext(t) \/ UnlinkFails(t)
         \/ New(t) \/ LoadTarget(t) \/ WriteNext(t) \/ LinkFails(t)
         \/ Construct(t) \/ Take(t) \/ (Unlink(t) /\ op[t] # "pop")
  PROVE  /\ \A u \in Threads : Carrying(u)' <=> Carrying(u)
         /\ \A u \in Threads : Carrying(u) => Carried(u)' = Carried(u)
         /\ results' = results /\ pushes' = pushes
<1>0. /\ op \in [Threads -> {"push", "pop"}] /\ pc \in [Threads -> PC]
      /\ arg \in [Threads -> Values \union {NoObj}] /\ due \in [Threads -> Values \union {NoObj}]
      /\ pc[t] = "take" => op[t] = "pop"
      /\ pc[t] \in {"new", "construct"} => op[t] = "push"
  BY DEF IInv, TypeOK, HolderInv
<1>1. CASE PopCall(t)
  <2>1. \/ op' = op \/ ~Carrying(t)
    BY <1>0, <1>1 DEF PopCall, Carrying
  <2>2. QED
    BY <1>0, <1>1 DEF PopCall, Carrying, Carried, Goto
<1>2. CASE Load(t)
  <2>1. /\ pc[t] = "load" /\ UNCHANGED <<op, arg, due, results, pushes>>
        /\ \A u \in Threads : u # t => pc'[u] = pc[u]
        /\ pc'[t] \in {"next", "new", "idle"} /\ (op[t] = "push" => pc'[t] # "idle")
    BY <1>0, <1>2 DEF Load, Goto
  <2>2. QED
    BY <1>0, <2>1 DEF Carrying, Carried
<1>3. CASE LoadNext(t) \/ UnlinkFails(t) \/ New(t)
  BY <1>0, <1>3 DEF LoadNext, UnlinkFails, New, Goto, Carrying, Carried
<1>4. CASE Construct(t) \/ LoadTarget(t) \/ WriteNext(t) \/ LinkFails(t)
  BY <1>0, <1>4 DEF Construct, LoadTarget, WriteNext, LinkFails, Goto, Carrying, Carried
<1>5. CASE Take(t)
  BY <1>0, <1>5 DEF Take, Goto, Carrying, Carried
<1>6. CASE Unlink(t) /\ op[t] # "pop"
  BY <1>0, <1>6 DEF Unlink, Goto, Carrying, Carried
<1>7. QED
  BY <1>1, <1>2, <1>3, <1>4, <1>5, <1>6

\* The values stay in one place when none of them moves.
LEMMA OnceSame ==
  ASSUME ValuesOnce, StackOfValues' = StackOfValues, results' = results, pushes' = pushes,
         \A u \in Threads : Carrying(u)' <=> Carrying(u),
         \A u \in Threads : Carrying(u) => Carried(u)' = Carried(u)
  PROVE  ValuesOnce'
BY DEF ValuesOnce

\* A call of push brings a value that has not been there before.
LEMMA OncePushCall ==
  ASSUME IInv, ValuesOnce, NEW t \in Threads, PushCall(t)
  PROVE  ValuesOnce'
<1>1. StackOfValues' = StackOfValues /\ results' = results
  BY OtherSteps DEF PushCall
<1>2. pushes \in Nat /\ pushes' = pushes + 1
  BY BoundAssumption DEF IInv, TypeOK, PushCall
<1>3. /\ op[t] \in {"push", "pop"} /\ pc[t] = "idle" /\ ~Carrying(t)
      /\ Carrying(t)' /\ Carried(t)' = pushes + 1
  BY <1>2 DEF IInv, TypeOK, PushCall, Carrying, Carried, Goto
<1>4. \A u \in Threads : u # t =>
        (Carrying(u)' <=> Carrying(u)) /\ Carried(u)' = Carried(u)
  BY DEF IInv, TypeOK, PushCall, Carrying, Carried, Goto
<1>5. 1 .. pushes \subseteq 1 .. pushes' /\ pushes + 1 \in 1 .. pushes' /\ pushes + 1 \notin 1 .. pushes
  BY <1>2
<1>6. \A u \in Threads : Carrying(u)' => Carried(u)' \in 1 .. pushes'
  BY <1>3, <1>4, <1>5 DEF ValuesOnce
<1>7. \A r, u \in Threads : Carrying(r)' /\ Carrying(u)' /\ Carried(r)' = Carried(u)' => r = u
  BY <1>3, <1>4, <1>5 DEF ValuesOnce
<1>8. \A u \in Threads : Carrying(u)' =>
        /\ \A i \in 1 .. Len(results) : results[i] # Carried(u)'
        /\ \A i \in 1 .. Len(StackOfValues) : StackOfValues[i] # Carried(u)'
  BY <1>3, <1>4, <1>5 DEF ValuesOnce
<1>9. QED
  BY <1>1, <1>5, <1>6, <1>7, <1>8 DEF ValuesOnce

\* The compare-and-swap of pop moves the value on top to that call.
LEMMA OnceUnlink ==
  ASSUME IInv, ValuesOnce, NEW t \in Threads, Unlink(t), op[t] = "pop"
  PROVE  ValuesOnce'
<1> DEFINE s == StackOfValues
           v == data[node_[t]]
<1>1. /\ s # << >> /\ s[Len(s)] = v /\ StackOfValues' = SubSeq(s, 1, Len(s) - 1)
  BY UnlinkIsPop DEF LIFO!Pop
<1>2. s \in Seq(Values)
  BY StackOfValuesType
<1>3. /\ ~Carrying(t) /\ Carrying(t)' /\ Carried(t)' = v
      /\ results' = results /\ pushes' = pushes
  BY DEF IInv, TypeOK, Unlink, Carrying, Carried, Goto
<1>4. \A u \in Threads : u # t =>
        (Carrying(u)' <=> Carrying(u)) /\ Carried(u)' = Carried(u)
  BY DEF IInv, TypeOK, Unlink, Carrying, Carried, Goto
<1> HIDE DEF s, v
<1>5. /\ Len(s) \in Nat /\ Len(s) > 0
      /\ Len(StackOfValues') = Len(s) - 1
      /\ \A i \in 1 .. Len(s) - 1 : StackOfValues'[i] = s[i]
  <2>1. Len(s) \in Nat /\ Len(s) > 0
    BY <1>1, <1>2
  <2>2. StackOfValues' = WithoutFirst(s)
    BY <1>1 DEF WithoutFirst
  <2>3. QED
    BY <1>1, <1>2, <2>1, <2>2, WithoutFirstProperties
<1>6. \A i \in 1 .. Len(StackOfValues') : i \in 1 .. Len(s) /\ i # Len(s) /\ StackOfValues'[i] = s[i]
  BY <1>5
<1>7. Len(s) \in 1 .. Len(s) /\ s = StackOfValues
  BY <1>5 DEF s
<1>8. \A u \in Threads : Carrying(u)' => Carried(u)' \in 1 .. pushes'
  BY <1>1, <1>3, <1>4, <1>7 DEF ValuesOnce
<1>9. \A r, u \in Threads : Carrying(r)' /\ Carrying(u)' /\ Carried(r)' = Carried(u)' => r = u
  BY <1>1, <1>3, <1>4, <1>7 DEF ValuesOnce
<1>10. \A u \in Threads : Carrying(u)' =>
         /\ \A i \in 1 .. Len(results) : results[i] # Carried(u)'
         /\ \A i \in 1 .. Len(StackOfValues') : StackOfValues'[i] # Carried(u)'
  BY <1>1, <1>3, <1>4, <1>6, <1>7 DEF ValuesOnce
<1>11. /\ \A i \in 1 .. Len(StackOfValues') : StackOfValues'[i] \in 1 .. pushes
       /\ \A i, j \in 1 .. Len(StackOfValues') : StackOfValues'[i] = StackOfValues'[j] => i = j
       /\ \A i \in 1 .. Len(results), j \in 1 .. Len(StackOfValues') : results[i] # StackOfValues'[j]
  BY <1>6, <1>7 DEF ValuesOnce
<1>12. QED
  BY <1>3, <1>8, <1>9, <1>10, <1>11 DEF ValuesOnce

\* The compare-and-swap of push moves the value of that call to the top.
LEMMA OnceLinkPush ==
  ASSUME IInv, ValuesOnce, NEW t \in Threads, Link(t), op[t] = "push"
  PROVE  ValuesOnce'
<1> DEFINE s == StackOfValues
<1>1. arg[t] \in Values /\ StackOfValues' = Append(s, arg[t])
  BY LinkIsPush DEF LIFO!Push
<1>2. s \in Seq(Values)
  BY StackOfValuesType
<1>3. /\ Carrying(t) /\ Carried(t) = arg[t] /\ ~Carrying(t)'
      /\ results' = results /\ pushes' = pushes
  BY DEF IInv, TypeOK, Link, Carrying, Carried, Goto
<1>4. \A u \in Threads : u # t =>
        (Carrying(u)' <=> Carrying(u)) /\ Carried(u)' = Carried(u)
  BY DEF IInv, TypeOK, Link, Carrying, Carried, Goto
<1> HIDE DEF s
<1>5. /\ Len(s) \in Nat /\ Len(StackOfValues') = Len(s) + 1
      /\ \A i \in 1 .. Len(s) : StackOfValues'[i] = s[i]
      /\ StackOfValues'[Len(s) + 1] = arg[t]
  BY <1>1, <1>2
<1>6. \A i \in 1 .. Len(StackOfValues') :
        \/ i \in 1 .. Len(s) /\ StackOfValues'[i] = s[i]
        \/ i = Len(s) + 1 /\ StackOfValues'[i] = arg[t]
  BY <1>5
<1>7. s = StackOfValues
  BY DEF s
<1>8. \A u \in Threads : Carrying(u)' => u # t /\ Carrying(u) /\ Carried(u)' = Carried(u)
  BY <1>3, <1>4
<1>9. /\ \A i \in 1 .. Len(StackOfValues') : StackOfValues'[i] \in 1 .. pushes
      /\ \A i, j \in 1 .. Len(StackOfValues') : StackOfValues'[i] = StackOfValues'[j] => i = j
      /\ \A i \in 1 .. Len(results), j \in 1 .. Len(StackOfValues') : results[i] # StackOfValues'[j]
  BY <1>3, <1>6, <1>7 DEF ValuesOnce
<1>10. \A u \in Threads : Carrying(u)' =>
         /\ Carried(u)' \in 1 .. pushes
         /\ \A i \in 1 .. Len(results) : results[i] # Carried(u)'
         /\ \A i \in 1 .. Len(StackOfValues') : StackOfValues'[i] # Carried(u)'
  BY <1>3, <1>6, <1>7, <1>8 DEF ValuesOnce
<1>11. \A r, u \in Threads : Carrying(r)' /\ Carrying(u)' /\ Carried(r)' = Carried(u)' => r = u
  BY <1>8 DEF ValuesOnce
<1>12. QED
  BY <1>3, <1>9, <1>10, <1>11 DEF ValuesOnce

\* The return of pop moves the value of that call to the results.
LEMMA OnceLinkPop ==
  ASSUME IInv, ValuesOnce, NEW t \in Threads, Link(t), op[t] # "push"
  PROVE  ValuesOnce'
<1>1. StackOfValues' = StackOfValues
  BY OtherSteps
<1>2. /\ op[t] = "pop" /\ pc[t] = "link" /\ results \in Seq(Values \union {NoObj})
      /\ arg[t] \in Values \union {NoObj} /\ pushes' = pushes
      /\ results' = Append(results, arg[t])
  BY DEF IInv, TypeOK, Link
<1>3. Carrying(t) /\ Carried(t) = arg[t] /\ ~Carrying(t)'
  BY <1>2 DEF IInv, TypeOK, PopTakesTheTop, Link, Carrying, Carried, Goto
<1>4. \A u \in Threads : u # t =>
        (Carrying(u)' <=> Carrying(u)) /\ Carried(u)' = Carried(u)
  BY DEF IInv, TypeOK, Link, Carrying, Carried, Goto
<1>5. \A i \in 1 .. Len(results') :
        \/ i \in 1 .. Len(results) /\ results'[i] = results[i]
        \/ i = Len(results) + 1 /\ results'[i] = arg[t]
  BY <1>2
<1>6. \A u \in Threads : Carrying(u)' => u # t /\ Carrying(u) /\ Carried(u)' = Carried(u)
  BY <1>3, <1>4
<1>7. /\ \A i \in 1 .. Len(results') : results'[i] \in 1 .. pushes
      /\ \A i, j \in 1 .. Len(results') : results'[i] = results'[j] => i = j
      /\ \A i \in 1 .. Len(results'), j \in 1 .. Len(StackOfValues) : results'[i] # StackOfValues[j]
  BY <1>3, <1>5 DEF ValuesOnce
<1>8. \A u \in Threads : Carrying(u)' =>
        /\ Carried(u)' \in 1 .. pushes
        /\ \A i \in 1 .. Len(results') : results'[i] # Carried(u)'
        /\ \A i \in 1 .. Len(StackOfValues) : StackOfValues[i] # Carried(u)'
  BY <1>3, <1>5, <1>6 DEF ValuesOnce
<1>9. \A r, u \in Threads : Carrying(r)' /\ Carrying(u)' /\ Carried(r)' = Carried(u)' => r = u
  BY <1>6 DEF ValuesOnce
<1>10. QED
  BY <1>1, <1>2, <1>7, <1>8, <1>9 DEF ValuesOnce

\* As many distinct values as there have been pushes are all of them.
LEMMA ResultsComplete ==
  ASSUME IInv, ValuesOnce
  PROVE  EveryValuePoppedOnce
<1> SUFFICES ASSUME Len(results) = pushes
             PROVE  {results[i] : i \in 1 .. Len(results)} = 1 .. pushes
  BY DEF EveryValuePoppedOnce
<1> DEFINE f == [i \in 1 .. pushes |-> results[i]]
<1>1. pushes \in Nat
  BY BoundAssumption DEF IInv, TypeOK
<1>2. f \in Injection(1 .. pushes, 1 .. pushes)
  BY DEF ValuesOnce, Injection, IsInjective
<1>3. IsFiniteSet(1 .. pushes)
  BY <1>1, FS_Interval
<1>4. f \in Surjection(1 .. pushes, 1 .. pushes)
  BY <1>2, <1>3, FS_Injection
<1>5. \A v \in 1 .. pushes : \E i \in 1 .. pushes : results[i] = v
  BY <1>4 DEF Surjection
<1>6. \A i \in 1 .. pushes : results[i] \in 1 .. pushes
  BY DEF ValuesOnce
<1>7. QED
  BY <1>5, <1>6

(***************************************************************************)
(* With one pusher and one popper: when as many pops as pushes have        *)
(* returned a value, each value pushed has been popped, and once, what     *)
(* the benchmark asserts of its totals.                                    *)
(***************************************************************************)
THEOREM ValuesPoppedOnce == OneRemoverPerList /\ Spec => []EveryValuePoppedOnce
<1>1. Init => ValuesOnce
  <2> SUFFICES ASSUME Init PROVE ValuesOnce
    OBVIOUS
  <2>1. Len(results) = 0 /\ Len(StackOfValues) = 0
    BY DEF Init, StackOfValues, Lists
  <2>2. \A t \in Threads : ~Carrying(t)
    BY DEF Init, Carrying
  <2>3. QED
    BY <2>1, <2>2 DEF ValuesOnce
<1>2. IInv /\ ValuesOnce /\ [Next]_vars => ValuesOnce'
  <2> SUFFICES ASSUME IInv, ValuesOnce, [Next]_vars PROVE ValuesOnce'
    OBVIOUS
  <2>1. ASSUME NEW t \in Threads, PushCall(t) PROVE ValuesOnce'
    BY <2>1, OncePushCall
  <2>2. ASSUME NEW t \in Threads, Unlink(t), op[t] = "pop" PROVE ValuesOnce'
    BY <2>2, OnceUnlink
  <2>3. ASSUME NEW t \in Threads, Link(t) PROVE ValuesOnce'
    BY <2>3, OnceLinkPush, OnceLinkPop
  <2>4. ASSUME NEW t \in Threads,
               \/ PopCall(t) \/ Load(t) \/ LoadNext(t) \/ UnlinkFails(t)
               \/ New(t) \/ LoadTarget(t) \/ WriteNext(t) \/ LinkFails(t)
               \/ Construct(t) \/ Take(t) \/ (Unlink(t) /\ op[t] # "pop")
        PROVE  ValuesOnce'
    BY <2>4, OtherSteps, CarryingSame, OnceSame
  <2>5. ASSUME UNCHANGED vars PROVE ValuesOnce'
    BY <2>5, OnceSame DEF vars, StackOfValues, Carrying, Carried
  <2>6. QED
    BY <2>1, <2>2, <2>3, <2>4, <2>5 DEF Next, Step
<1>3. IInv /\ ValuesOnce => EveryValuePoppedOnce
  BY ResultsComplete
<1>4. QED
  BY <1>1, <1>2, <1>3, Invariance, PTL DEF Spec

=============================================================================
