----------------------------- MODULE Pool_proofs -----------------------------
(***************************************************************************)
(* Proofs about Pool, for every block size, initial size and number of     *)
(* wrappers.                                                               *)
(***************************************************************************)
EXTENDS Pool, IndexLemmas, FiniteSetTheorems, TLAPS

(***************************************************************************)
(* The number of slots of n blocks.                                        *)
(***************************************************************************)
LEMMA SlotsFinite ==
  ASSUME NEW n \in Nat
  PROVE  IsFiniteSet(SlotsOf(n)) /\ Cardinality(SlotsOf(n)) = n * BlockSize
<1>1. IsFiniteSet(1 .. n) /\ Cardinality(1 .. n) = n
  BY FS_Interval
<1>2. IsFiniteSet(Indices) /\ Cardinality(Indices) = BlockSize
  BY BlockAssumption, FS_Interval DEF Indices
<1>3. /\ IsFiniteSet((1 .. n) \X Indices)
      /\ Cardinality((1 .. n) \X Indices) = Cardinality(1 .. n) * Cardinality(Indices)
  BY <1>1, <1>2, FS_Product, Zenon
<1> QED
  BY <1>1, <1>2, <1>3 DEF SlotsOf

\* The slots of one block are finitely many, BlockSize.
LEMMA BlockSlots ==
  ASSUME NEW b \in Nat
  PROVE  IsFiniteSet({b} \X Indices) /\ Cardinality({b} \X Indices) = BlockSize
<1>1. IsFiniteSet({b}) /\ Cardinality({b}) = 1
  BY FS_Singleton
<1>2. IsFiniteSet(Indices) /\ Cardinality(Indices) = BlockSize
  BY BlockAssumption, FS_Interval DEF Indices
<1>3. /\ IsFiniteSet({b} \X Indices)
      /\ Cardinality({b} \X Indices) = Cardinality({b}) * Cardinality(Indices)
  BY <1>1, <1>2, FS_Product, Zenon
<1> QED
  BY <1>1, <1>2, <1>3, BlockAssumption

\* The used slots are finitely many.
LEMMA UsedFinite ==
  ASSUME TypeOK
  PROVE  /\ IsFiniteSet(used) /\ Cardinality(used) \in Nat
         /\ \A b \in 1 .. MaxBlocks :
              /\ IsFiniteSet(UsedOf(b))
              /\ UsedOf(b) \subseteq {b} \X Indices
              /\ Cardinality(UsedOf(b)) \in 0 .. BlockSize
<1>1. blocks \in Nat /\ used \in SUBSET SlotsOf(blocks)
  BY DEF TypeOK
<1>2. IsFiniteSet(used)
  BY <1>1, SlotsFinite, FS_Subset
<1>3. ASSUME NEW b \in 1 .. MaxBlocks
      PROVE  /\ IsFiniteSet(UsedOf(b))
             /\ UsedOf(b) \subseteq {b} \X Indices
             /\ Cardinality(UsedOf(b)) \in 0 .. BlockSize
  <2>1. UsedOf(b) \in SUBSET ({b} \X Indices)
    BY <1>1 DEF UsedOf, SlotsOf
  <2>2. IsFiniteSet({b} \X Indices) /\ Cardinality({b} \X Indices) = BlockSize
    BY BlockSlots
  <2>3. IsFiniteSet(UsedOf(b)) /\ Cardinality(UsedOf(b)) <= Cardinality({b} \X Indices)
    BY <2>1, <2>2, FS_Subset, Zenon
  <2> QED
    BY <2>1, <2>2, <2>3, FS_CardinalityType, BlockAssumption
<1> QED
  BY <1>2, <1>3, FS_CardinalityType

(***************************************************************************)
(* The constructor establishes the invariant.                              *)
(***************************************************************************)
LEMMA InitInv == Init => IInv
<1> SUFFICES ASSUME Init PROVE IInv
  OBVIOUS
<1> USE DefaultAssumption, BlockAssumption, BoundAssumption DEF Init
<1>1. TypeOK
  <2>1. DefaultSize * BlockSize \in Nat
    OBVIOUS
  <2> QED
    BY <2>1 DEF TypeOK, SlotsOf
<1>2. CountInv
  <2>1. Cardinality(used) = 0
    BY FS_EmptySet
  <2>2. (blocks - 1) = DefaultSize
    OBVIOUS
  <2>3. DefaultSize * BlockSize \in Nat
    OBVIOUS
  <2> QED
    BY <2>1, <2>2, <2>3 DEF CountInv
<1>3. BlockInv
  <2>1. \A b \in 1 .. MaxBlocks : UsedOf(b) = {}
    BY DEF UsedOf
  <2> QED
    BY <2>1, FS_EmptySet DEF BlockInv
<1>4. HeldOnce
  BY DEF HeldOnce
<1> QED
  BY <1>1, <1>2, <1>3, <1>4 DEF IInv

(***************************************************************************)
(* Constructing an object in a free slot keeps the counts of the blocks    *)
(* and the holders right.                                                  *)
(***************************************************************************)
LEMMA ConstructInv ==
  ASSUME IInv, NEW w \in Wrappers, NEW v \in Values, NEW s \in AllSlots,
         s \notin used, wrapper[w] = None, Construct(s, v, w), UNCHANGED disowned
  PROVE  /\ Cardinality(used') = Cardinality(used) + 1
         /\ blockAvailable' \in [1 .. MaxBlocks -> 0 .. BlockSize]
         /\ object' \in [AllSlots -> Values \union {None}]
         /\ wrapper' \in [Wrappers -> AllSlots \union {None}]
         /\ BlockInv' /\ returning' = used' /\ HeldOnce'
<1> USE DEF Construct
<1>1. s[1] \in 1 .. MaxBlocks
  BY DEF AllSlots, SlotsOf
<1>2. IsFiniteSet(used) /\ Cardinality(used') = Cardinality(used) + 1
  BY UsedFinite, FS_AddElement DEF IInv
<1>3. \A b \in 1 .. MaxBlocks : Cardinality(UsedOf(b))' =
        IF b = s[1] THEN Cardinality(UsedOf(b)) + 1 ELSE Cardinality(UsedOf(b))
  <2> SUFFICES ASSUME NEW b \in 1 .. MaxBlocks
               PROVE  Cardinality(UsedOf(b)') =
                        IF b = s[1] THEN Cardinality(UsedOf(b)) + 1 ELSE Cardinality(UsedOf(b))
    OBVIOUS
  <2>1. CASE b = s[1]
    <3>1. UsedOf(b)' = UsedOf(b) \union {s} /\ s \notin UsedOf(b)
      BY <2>1 DEF UsedOf
    <3> QED
      BY <2>1, <3>1, UsedFinite, FS_AddElement DEF IInv
  <2>2. CASE b # s[1]
    BY <2>2 DEF UsedOf
  <2> QED
    BY <2>1, <2>2
<1>4. TypeOK /\ BlockInv /\ returning = used /\ HeldOnce
  BY DEF IInv
<1>5. BlockInv'
  <2> SUFFICES ASSUME NEW b \in 1 .. MaxBlocks
               PROVE  blockAvailable'[b] = BlockSize - Cardinality(UsedOf(b))'
    BY DEF BlockInv
  <2>1. blockAvailable[b] = BlockSize - Cardinality(UsedOf(b)) /\ Cardinality(UsedOf(b)) \in Nat
    BY <1>4, UsedFinite DEF BlockInv
  <2> QED
    BY <2>1, <1>1, <1>3, <1>4, BlockAssumption DEF TypeOK
<1>6. HeldOnce'
  BY <1>4, NoneAssumption DEF HeldOnce, TypeOK
<1>7. object' \in [AllSlots -> Values \union {None}] /\ wrapper' \in [Wrappers -> AllSlots \union {None}]
  BY <1>4 DEF TypeOK
<1>8. blockAvailable' \in [1 .. MaxBlocks -> 0 .. BlockSize]
  <2>1. UsedOf(s[1])' \in SUBSET ({s[1]} \X Indices)
    BY <1>1, <1>4, UsedFinite DEF UsedOf, AllSlots, SlotsOf
  <2>2. Cardinality(UsedOf(s[1])') <= BlockSize
    <3>1. s[1] \in Nat
      BY <1>1
    <3>2. IsFiniteSet({s[1]} \X Indices) /\ Cardinality({s[1]} \X Indices) = BlockSize
      BY <3>1, BlockSlots, Zenon
    <3>3. Cardinality(UsedOf(s[1])') <= Cardinality({s[1]} \X Indices)
      BY <2>1, <3>2, FS_Subset, Zenon
    <3> QED
      BY <3>2, <3>3
  <2>3. blockAvailable[s[1]] = BlockSize - Cardinality(UsedOf(s[1])) /\ Cardinality(UsedOf(s[1])) \in Nat
    BY <1>1, <1>4, UsedFinite DEF BlockInv
  <2>4. blockAvailable[s[1]] - 1 \in 0 .. BlockSize
    BY <2>2, <2>3, <1>1, <1>3, BlockAssumption
  <2> QED
    BY <2>4, <1>4 DEF TypeOK
<1> QED
  BY <1>2, <1>4, <1>5, <1>6, <1>7, <1>8

(***************************************************************************)
(* Destroying an object that is held frees its slot.                       *)
(***************************************************************************)
LEMMA OfferInv ==
  ASSUME IInv, NEW s \in AllSlots, offer(s)
  PROVE  /\ Cardinality(used') = Cardinality(used) - 1
         /\ blockAvailable' \in [1 .. MaxBlocks -> 0 .. BlockSize]
         /\ BlockInv' /\ returning' = used'
<1> USE DEF offer
<1>1. s[1] \in 1 .. MaxBlocks /\ s \in used
  BY DEF AllSlots, SlotsOf, IInv
<1>2. Cardinality(used') = Cardinality(used) - 1
  BY <1>1, UsedFinite, FS_RemoveElement DEF IInv
<1>3. \A b \in 1 .. MaxBlocks : Cardinality(UsedOf(b))' =
        IF b = s[1] THEN Cardinality(UsedOf(b)) - 1 ELSE Cardinality(UsedOf(b))
  <2> SUFFICES ASSUME NEW b \in 1 .. MaxBlocks
               PROVE  Cardinality(UsedOf(b)') =
                        IF b = s[1] THEN Cardinality(UsedOf(b)) - 1 ELSE Cardinality(UsedOf(b))
    OBVIOUS
  <2>1. CASE b = s[1]
    <3>1. UsedOf(b)' = UsedOf(b) \ {s} /\ s \in UsedOf(b)
      BY <2>1, <1>1 DEF UsedOf
    <3> QED
      BY <2>1, <3>1, UsedFinite, FS_RemoveElement, ZenonT(30) DEF IInv
  <2>2. CASE b # s[1]
    BY <2>2 DEF UsedOf
  <2> QED
    BY <2>1, <2>2
<1>4. TypeOK /\ BlockInv /\ returning = used
  BY DEF IInv
<1>5. \A b \in 1 .. MaxBlocks :
        /\ blockAvailable[b] = BlockSize - Cardinality(UsedOf(b))
        /\ Cardinality(UsedOf(b)) \in Nat
  BY <1>4, UsedFinite DEF BlockInv
<1>6. BlockInv'
  BY <1>1, <1>3, <1>4, <1>5, BlockAssumption, SMTT(30) DEF BlockInv, TypeOK
<1>7. blockAvailable' \in [1 .. MaxBlocks -> 0 .. BlockSize]
  <2>1. Cardinality(UsedOf(s[1])) # 0
    <3>1. s \in UsedOf(s[1]) /\ IsFiniteSet(UsedOf(s[1]))
      BY <1>1, <1>4, UsedFinite DEF UsedOf
    <3> QED
      BY <3>1, FS_EmptySet
  <2>2. blockAvailable[s[1]] + 1 \in 0 .. BlockSize
    BY <2>1, <1>1, <1>4, <1>5, BlockAssumption DEF TypeOK
  <2> QED
    BY <2>2, <1>4 DEF TypeOK
<1> QED
  BY <1>2, <1>4, <1>6, <1>7

(***************************************************************************)
(* Each step preserves the invariant.                                      *)
(***************************************************************************)
LEMMA AcquireInv ==
  ASSUME IInv, NEW w \in Wrappers, NEW v \in Values, AcquireFree(w, v) \/ AcquireNew(w, v)
  PROVE  IInv'
<1>1. /\ TypeOK /\ CountInv /\ Cardinality(used) \in Nat
      /\ blocks \in Nat /\ size \in Nat /\ available \in Nat
  BY UsedFinite DEF IInv, TypeOK
<1>2. CASE AcquireFree(w, v)
  <2> PICK s \in SlotsOf(blocks) : FirstFree(s) /\ Construct(s, v, w)
    BY <1>2 DEF AcquireFree
  <2>1. s \in AllSlots /\ s \notin used
    <3>1. 1 .. blocks \subseteq 1 .. MaxBlocks
      BY <1>1, BoundAssumption DEF TypeOK
    <3> QED
      BY <3>1 DEF FirstFree, AllSlots, SlotsOf
  <2>2. /\ Cardinality(used') = Cardinality(used) + 1
        /\ blockAvailable' \in [1 .. MaxBlocks -> 0 .. BlockSize]
        /\ object' \in [AllSlots -> Values \union {None}]
        /\ wrapper' \in [Wrappers -> AllSlots \union {None}]
        /\ BlockInv' /\ returning' = used' /\ HeldOnce'
    BY <1>2, <2>1, ConstructInv DEF AcquireFree
  <2>3. used' \subseteq SlotsOf(blocks') /\ returning' \subseteq AllSlots
    BY <1>1, <1>2, <2>1 DEF AcquireFree, Construct, TypeOK, IInv
  <2>4. TypeOK'
    BY <1>1, <1>2, <2>2, <2>3 DEF AcquireFree, TypeOK
  <2>5. CountInv'
    BY <1>1, <1>2, <2>2 DEF AcquireFree, CountInv
  <2> QED
    BY <2>2, <2>4, <2>5 DEF IInv
<1>3. CASE AcquireNew(w, v)
  <2> DEFINE s == <<blocks + 1, 0>>
  <2>1. blocks + 1 \in 1 .. MaxBlocks /\ blocks' = blocks + 1 /\ Construct(s, v, w)
    BY <1>1, <1>3, BoundAssumption DEF AcquireNew
  <2>2. s \in AllSlots /\ s \in SlotsOf(blocks + 1) /\ s \notin used
    BY <1>1, <2>1, BlockAssumption DEF TypeOK, AllSlots, SlotsOf, Indices
  <2>3. /\ Cardinality(used') = Cardinality(used) + 1
        /\ blockAvailable' \in [1 .. MaxBlocks -> 0 .. BlockSize]
        /\ object' \in [AllSlots -> Values \union {None}]
        /\ wrapper' \in [Wrappers -> AllSlots \union {None}]
        /\ BlockInv' /\ returning' = used' /\ HeldOnce'
    BY <1>3, <2>1, <2>2, ConstructInv DEF AcquireNew
  <2>4. used' \subseteq SlotsOf(blocks') /\ returning' \subseteq AllSlots
    BY <1>1, <2>1, <2>2 DEF Construct, TypeOK, IInv, SlotsOf
  <2>5. size' = size + BlockSize /\ available' = available /\ available = 0
    BY <1>3 DEF AcquireNew
  <2>6. TypeOK'
    BY <1>1, <1>3, <2>1, <2>3, <2>4, <2>5, BlockAssumption DEF AcquireNew, TypeOK
  <2>7. CountInv'
    <3>1. size = (blocks - 1) * BlockSize
      BY <1>1 DEF CountInv
    <3>2. (blocks - 1) * BlockSize + BlockSize = blocks * BlockSize
      BY <1>1, BlockAssumption
    <3>3. size' = (blocks' - 1) * BlockSize
      <4>1. blocks' - 1 = blocks
        BY <1>1, <2>1
      <4> QED
        BY <4>1, <3>1, <3>2, <2>5
    <3> QED
      BY <3>3, <1>1, <2>3, <2>5, BlockAssumption DEF CountInv
  <2> QED
    BY <2>3, <2>6, <2>7 DEF IInv
<1> QED
  BY <1>2, <1>3

\* offer, by a wrapper or of a disowned pointer, keeps IInv.
LEMMA ReturnInv ==
  ASSUME IInv, NEW s \in AllSlots, offer(s),
         disowned' \subseteq disowned, s \notin disowned',
         wrapper' \in [Wrappers -> AllSlots \union {None}],
         \A w \in Wrappers : wrapper'[w] # None => wrapper'[w] = wrapper[w] /\ wrapper[w] # s
  PROVE  IInv'
<1>1. /\ Cardinality(used') = Cardinality(used) - 1
      /\ blockAvailable' \in [1 .. MaxBlocks -> 0 .. BlockSize]
      /\ BlockInv' /\ returning' = used'
  BY OfferInv
<1>2. /\ TypeOK /\ CountInv /\ HeldOnce /\ returning = used /\ Cardinality(used) \in Nat
      /\ available \in Nat
  BY UsedFinite DEF IInv, TypeOK
<1>3. TypeOK'
  BY <1>1, <1>2 DEF TypeOK, offer
<1>4. CountInv'
  BY <1>1, <1>2 DEF CountInv, offer
<1>5. HeldOnce'
  BY <1>2 DEF HeldOnce, offer
<1> QED
  BY <1>1, <1>3, <1>4, <1>5 DEF IInv

\* A step that only moves pointers between wrappers and the program keeps IInv.
LEMMA HandleInv ==
  ASSUME IInv,
         UNCHANGED <<blocks, used, blockAvailable, object, available, size, returning>>,
         TypeOK', HeldOnce'
  PROVE  IInv'
BY DEF IInv, CountInv, BlockInv, UsedOf

\* Every step keeps IInv.
LEMMA NextInv == IInv /\ [Next]_vars => IInv'
<1> SUFFICES ASSUME IInv, [Next]_vars PROVE IInv'
  OBVIOUS
<1> USE DEF IInv
<1>1. ASSUME NEW w \in Wrappers, NEW v \in Values, AcquireFree(w, v) \/ AcquireNew(w, v)
      PROVE  IInv'
  BY <1>1, AcquireInv
<1>2. ASSUME NEW w \in Wrappers, Destroy(w) PROVE IInv'
  <2>1. wrapper[w] \in AllSlots /\ wrapper[w] \notin disowned
    BY <1>2 DEF Destroy, TypeOK, HeldOnce
  <2>2. \A x \in Wrappers : wrapper'[x] # None => wrapper'[x] = wrapper[x] /\ wrapper[x] # wrapper[w]
    BY <1>2 DEF Destroy, TypeOK, HeldOnce
  <2>3. wrapper' \in [Wrappers -> AllSlots \union {None}]
    BY <1>2 DEF Destroy, TypeOK
  <2> QED
    BY <1>2, <2>1, <2>2, <2>3, ReturnInv DEF Destroy
<1>3. ASSUME NEW w \in Wrappers, disown(w) PROVE IInv'
  <2>1. TypeOK'
    BY <1>3 DEF disown, TypeOK
  <2>2. HeldOnce'
    BY <1>3 DEF disown, TypeOK, HeldOnce
  <2> QED
    BY <1>3, <2>1, <2>2, HandleInv DEF disown
<1>4. ASSUME NEW w \in Wrappers, NEW other \in Wrappers, MoveAssign(w, other) PROVE IInv'
  <2>1. TypeOK'
    BY <1>4 DEF MoveAssign, TypeOK
  <2>2. HeldOnce'
    BY <1>4 DEF MoveAssign, TypeOK, HeldOnce
  <2> QED
    BY <1>4, <2>1, <2>2, HandleInv DEF MoveAssign
<1>5. ASSUME NEW s \in AllSlots, OfferDisowned(s) PROVE IInv'
  <2>1. \A w \in Wrappers : wrapper'[w] # None => wrapper'[w] = wrapper[w] /\ wrapper[w] # s
    BY <1>5 DEF OfferDisowned, HeldOnce
  <2> QED
    BY <1>5, <2>1, ReturnInv DEF OfferDisowned, TypeOK
<1>6. ASSUME NEW v \in Values, FindCall(v) PROVE IInv'
  BY <1>6, HandleInv DEF FindCall, TypeOK, HeldOnce
<1>7. ASSUME Find PROVE IInv'
  BY <1>7, HandleInv DEF Find, FindHit, FindAgain, TypeOK, HeldOnce, vars
<1>8. ASSUME ReadSize \/ ReadAvailable \/ UsedSizeReturn PROVE IInv'
  BY <1>8, HandleInv DEF ReadSize, ReadAvailable, UsedSizeReturn, TypeOK, HeldOnce
<1>9. ASSUME UNCHANGED vars PROVE IInv'
  BY <1>9, HandleInv DEF vars, TypeOK, HeldOnce
<1> QED
  BY <1>1, <1>2, <1>3, <1>4, <1>5, <1>6, <1>7, <1>8, <1>9 DEF Next

(***************************************************************************)
(* The counters, the flags and the map agree in every reachable state.     *)
(***************************************************************************)
THEOREM Invariance == Spec => []IInv
BY InitInv, NextInv, PTL DEF Spec

(***************************************************************************)
(* Every object handed out is held once (HeldOnce), whatever is moved,     *)
(* disowned, offered or destroyed.                                         *)
(***************************************************************************)
THEOREM ObjectsHeldOnce == Spec => []HeldOnce
<1>1. IInv => HeldOnce
  BY DEF IInv
<1> QED
  BY <1>1, Invariance, PTL

(***************************************************************************)
(* The throw of acquire is dead code (NeverThrows): the uncounted first    *)
(* block keeps the free slots above the counter.                           *)
(***************************************************************************)
THEOREM AcquireNeverThrows == Spec => []NeverThrows
<1>1. IInv => NeverThrows
  <2> SUFFICES ASSUME IInv, available # 0
               PROVE  \E b \in 1 .. blocks : HasRoom(b)
    BY DEF NeverThrows
  <2>1. /\ TypeOK /\ CountInv /\ BlockInv /\ blocks \in Nat /\ available \in Nat
        /\ Cardinality(used) \in Nat /\ used \in SUBSET SlotsOf(blocks)
    BY UsedFinite DEF IInv, TypeOK
  <2>2. Cardinality(used) < blocks * BlockSize
    <3>1. (blocks - 1) * BlockSize + BlockSize = blocks * BlockSize
      BY <2>1, BlockAssumption
    <3> QED
      BY <3>1, <2>1, BlockAssumption DEF CountInv, TypeOK
  <2>3. used # SlotsOf(blocks)
    BY <2>1, <2>2, SlotsFinite
  <2>4. PICK b \in 1 .. blocks, i \in Indices : <<b, i>> \notin used
    BY <2>1, <2>3 DEF SlotsOf
  <2>5. b \in 1 .. MaxBlocks
    BY <2>1, BoundAssumption DEF TypeOK
  <2>6. UsedOf(b) \in SUBSET ({b} \X Indices) /\ UsedOf(b) # {b} \X Indices
    BY <2>1, <2>4, <2>5, UsedFinite DEF UsedOf
  <2>7. Cardinality(UsedOf(b)) # BlockSize
    <3>1. IsFiniteSet({b} \X Indices) /\ Cardinality({b} \X Indices) = BlockSize
      BY BlockSlots
    <3>2. Cardinality({b} \X Indices) = Cardinality(UsedOf(b)) => {b} \X Indices = UsedOf(b)
      BY <2>6, <3>1, FS_Subset, Zenon
    <3> QED
      BY <2>6, <3>1, <3>2
  <2>8. blockAvailable[b] # 0
    BY <2>1, <2>5, <2>7, UsedFinite, BlockAssumption DEF BlockInv
  <2> QED
    BY <2>4, <2>8 DEF HasRoom
<1> QED
  BY <1>1, Invariance, PTL

\* A number below WordSize is what it is modulo WordSize.
LEMMA DifferenceExact ==
  ASSUME NEW m \in Nat, NEW n \in Nat, n <= m, m < WordSize
  PROVE  Difference(m, n) = m - n
<1>1. m - n \in 0 .. WordSize - 1 /\ WordSize \in Nat \ {0}
  BY WordAssumption
<1>2. m - n = WordSize * 0 + (m - n) /\ m - n \in Nat
  BY <1>1
<1> QED
  BY <1>1, <1>2, ModUnique DEF Difference

\* size grows only; available is never above it.
LEMMA ReadNext == IInv /\ ReadInv /\ [Next]_vars => ReadInv'
<1> SUFFICES ASSUME IInv, ReadInv, [Next]_vars PROVE ReadInv'
  OBVIOUS
<1>1. /\ available \in Nat /\ size \in Nat /\ Cardinality(used) \in Nat /\ available <= size
      /\ readAvailable \in Nat \union {None}
  BY UsedFinite DEF IInv, TypeOK, CountInv
<1>2. /\ size' = size \/ size' = size + BlockSize
      /\ readAvailable' \in {readAvailable, available, None}
  BY DEF Next, AcquireFree, AcquireNew, Destroy, disown, MoveAssign, OfferDisowned, offer,
         FindCall, Find, FindHit, FindAgain, ReadSize, ReadAvailable, UsedSizeReturn, vars
<1> QED
  BY <1>1, <1>2, BlockAssumption, NoneAssumption DEF ReadInv

(***************************************************************************)
(* used_size, read while nobody acquires or offers, never misses an        *)
(* object, and it does not wrap around unless a block is added between its *)
(* two reads (UsedSizeCovers).                                             *)
(***************************************************************************)
THEOREM UsedSizeNeverMisses == Spec => []UsedSizeCovers
<1>1. Init => ReadInv
  BY DEF Init, ReadInv
<1>2. IInv /\ ReadInv => UsedSizeCovers
  <2> SUFFICES ASSUME IInv, ReadInv PROVE UsedSizeCovers
    OBVIOUS
  <2>1. /\ blocks \in 1 .. MaxBlocks /\ available \in Nat /\ size \in Nat
        /\ readAvailable \in Nat \union {None} /\ size = (blocks - 1) * BlockSize
        /\ Cardinality(used) \in Nat
    BY UsedFinite DEF IInv, TypeOK, CountInv
  <2>2. size < WordSize
    <3>1. BlockSize * MaxBlocks >= BlockSize * (blocks - 1) + BlockSize
      BY <2>1, MultipleGap, BlockAssumption, BoundAssumption
    <3>2. BlockSize * (blocks - 1) = (blocks - 1) * BlockSize
      BY <2>1, BlockAssumption
    <3> QED
      BY <2>1, <3>1, <3>2, BlockAssumption, BoundAssumption, WordAssumption
  <2>3. readSize = size /\ readAvailable # None => Difference(readSize, readAvailable) <= size
    <3> SUFFICES ASSUME readSize = size, readAvailable # None
                 PROVE  Difference(size, readAvailable) <= size
      OBVIOUS
    <3>1. readAvailable \in Nat /\ readAvailable <= size
      BY <2>1 DEF ReadInv
    <3>2. Difference(size, readAvailable) = size - readAvailable
      BY <2>1, <2>2, <3>1, DifferenceExact
    <3> QED
      BY <2>1, <3>1, <3>2
  <2>4. /\ Cardinality(used) <= size - available
        /\ BlockSize = 1 => Cardinality(used) = size - available
    BY <2>1 DEF IInv, CountInv
  <2> QED
    BY <2>3, <2>4 DEF UsedSizeCovers
<1> QED
  BY <1>1, <1>2, ReadNext, InitInv, NextInv, PTL DEF Spec

=============================================================================
