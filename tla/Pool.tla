-------------------------------- MODULE Pool --------------------------------
(***************************************************************************)
(* Pool<T, BlockSize> (memory/pool.h): a list of blocks of BlockSize       *)
(* slots.  acquire constructs an object in a free slot, or in a new block, *)
(* and hands it out in an ObjectWrapper; offer destroys it and frees the   *)
(* slot.  A spinlock protects acquire, find and offer, so acquire and      *)
(* offer are one action each; find may keep the lock for many steps, and   *)
(* used_size reads its two counters without the lock.                      *)
(***************************************************************************)
EXTENDS Integers, FiniteSets

CONSTANTS
  BlockSize,    \* the template parameter: slots of a block
  DefaultSize,  \* the argument of the constructor
  Wrappers,     \* the ObjectWrapper variables of the program
  Values,       \* the objects
  None,         \* no object: a null pointer, or an argument not given
  MaxBlocks,    \* bound on the number of blocks
  WordSize      \* 2^w, the range of size_t

ASSUME BlockAssumption == BlockSize \in Nat /\ BlockSize > 0
ASSUME DefaultAssumption == DefaultSize \in Nat
ASSUME NoneAssumption == None \notin Values /\ None \notin Nat \X Nat /\ None \notin Nat
ASSUME BoundAssumption == MaxBlocks \in Nat /\ DefaultSize + 1 <= MaxBlocks
ASSUME WordAssumption == WordSize \in Nat /\ BlockSize * MaxBlocks < WordSize

VARIABLES
  blocks,          \* the number of blocks in the list, objects is block 1
  used,            \* the slots <<b, i>> with used[i] set in block b
  blockAvailable,  \* blockAvailable[b]: the free slots block b counts
  object,          \* object[s]: the object in slot s
  available,       \* the free slots the pool counts
  size,            \* the slots the pool counts
  returning,       \* the keys of the map returning
  wrapper,         \* wrapper[w]: the slot ObjectWrapper w points to
  disowned,        \* the pointers the program got from disown
  finding,         \* the argument of find while it holds the lock
  readSize,        \* what used_size read of size
  readAvailable    \* what used_size read of available

vars == <<blocks, used, blockAvailable, object, available, size, returning, wrapper,
          disowned, finding, readSize, readAvailable>>

Indices == 0 .. BlockSize - 1
SlotsOf(n) == (1 .. n) \X Indices
AllSlots == SlotsOf(MaxBlocks)

TypeOK ==
  /\ blocks \in 1 .. MaxBlocks
  /\ used \subseteq SlotsOf(blocks)
  /\ blockAvailable \in [1 .. MaxBlocks -> 0 .. BlockSize]
  /\ object \in [AllSlots -> Values \union {None}]
  /\ available \in Nat
  /\ size \in Nat
  /\ returning \subseteq AllSlots
  /\ wrapper \in [Wrappers -> AllSlots \union {None}]
  /\ disowned \subseteq AllSlots
  /\ finding \in Values \union {None}
  /\ readSize \in Nat \union {None}
  /\ readAvailable \in Nat \union {None}

\* The first block is not counted in size: the constructor makes
\* DefaultSize more.
Init ==
  /\ blocks = DefaultSize + 1
  /\ used = {}
  /\ blockAvailable = [b \in 1 .. MaxBlocks |-> BlockSize]
  /\ object = [s \in AllSlots |-> None]
  /\ size = DefaultSize * BlockSize
  /\ available = DefaultSize * BlockSize
  /\ returning = {}
  /\ wrapper = [w \in Wrappers |-> None]
  /\ disowned = {}
  /\ finding = None
  /\ readSize = None
  /\ readAvailable = None

Unlocked == finding = None

-----------------------------------------------------------------------------
(***************************************************************************)
(* acquire                                                                 *)
(***************************************************************************)

\* a block that the walk of acquire does not pass by
HasRoom(b) == blockAvailable[b] # 0 /\ \E i \in Indices : <<b, i>> \notin used

\* the slot acquire finds: the first free one of the first block with room
FirstFree(s) ==
  /\ s \in SlotsOf(blocks)
  /\ HasRoom(s[1]) /\ s \notin used
  /\ \A b \in 1 .. s[1] - 1 : ~HasRoom(b)
  /\ \A i \in 0 .. s[2] - 1 : <<s[1], i>> \in used

\* constructing v in slot s and returning it into the variable w
Construct(s, v, w) ==
  /\ used' = used \union {s}
  /\ blockAvailable' = [blockAvailable EXCEPT ![s[1]] = @ - 1]
  /\ object' = [object EXCEPT ![s] = v]
  /\ returning' = returning \union {s}
  /\ wrapper' = [wrapper EXCEPT ![w] = s]

\* Faulty variant: a free slot of a block is found without counting it.
AcquireFreeUncounted(w, v) ==
  /\ Unlocked
  /\ wrapper[w] = None
  /\ available # 0
  /\ \E s \in SlotsOf(blocks) : FirstFree(s) /\ Construct(s, v, w)
  /\ UNCHANGED <<blocks, available, size, disowned, finding, readSize, readAvailable>>

\* available is not 0; the throw after the walk is not reached (NeverThrows)
AcquireFree(w, v) ==
  /\ Unlocked
  /\ wrapper[w] = None
  /\ available # 0
  /\ \E s \in SlotsOf(blocks) : FirstFree(s) /\ Construct(s, v, w)
  /\ available' = available - 1
  /\ UNCHANGED <<blocks, size, disowned, finding, readSize, readAvailable>>

\* Faulty variant: the new block's slots are counted as available twice.
AcquireNewCounted(w, v) ==
  /\ Unlocked
  /\ wrapper[w] = None
  /\ available = 0
  /\ blocks < MaxBlocks
  /\ blocks' = blocks + 1
  /\ size' = size + BlockSize
  /\ available' = available + 2 * BlockSize
  /\ Construct(<<blocks', 0>>, v, w)
  /\ UNCHANGED <<disowned, finding, readSize, readAvailable>>

\* available is 0: makeNew; available stays 0
AcquireNew(w, v) ==
  /\ Unlocked
  /\ wrapper[w] = None
  /\ available = 0
  /\ blocks < MaxBlocks
  /\ blocks' = blocks + 1
  /\ size' = size + BlockSize
  /\ Construct(<<blocks', 0>>, v, w)
  /\ UNCHANGED <<available, disowned, finding, readSize, readAvailable>>

-----------------------------------------------------------------------------
(***************************************************************************)
(* offer, and the operations of ObjectWrapper                              *)
(***************************************************************************)

offer(s) ==
  /\ Unlocked
  /\ s \in returning
  /\ used' = used \ {s}
  /\ object' = [object EXCEPT ![s] = None]
  /\ blockAvailable' = [blockAvailable EXCEPT ![s[1]] = @ + 1]
  /\ returning' = returning \ {s}
  /\ available' = available + 1
  /\ UNCHANGED <<blocks, size, finding, readSize, readAvailable>>

\* ~ObjectWrapper
Destroy(w) ==
  /\ wrapper[w] # None
  /\ offer(wrapper[w])
  /\ wrapper' = [wrapper EXCEPT ![w] = None]
  /\ UNCHANGED disowned

\* the program returns a pointer it got from disown
OfferDisowned(s) ==
  /\ s \in disowned
  /\ offer(s)
  /\ disowned' = disowned \ {s}
  /\ UNCHANGED wrapper

\* Faulty variant: disown leaves the wrapper's pointer.
DisownKeepsObject(w) ==
  /\ wrapper[w] # None
  /\ disowned' = disowned \union {wrapper[w]}
  /\ UNCHANGED <<blocks, used, blockAvailable, object, available, size, returning,
                 wrapper, finding, readSize, readAvailable>>

disown(w) ==
  /\ wrapper[w] # None
  /\ disowned' = disowned \union {wrapper[w]}
  /\ wrapper' = [wrapper EXCEPT ![w] = None]
  /\ UNCHANGED <<blocks, used, blockAvailable, object, available, size, returning,
                 finding, readSize, readAvailable>>

\* operator=(ObjectWrapper&&): what w pointed to is forgotten
MoveAssign(w, other) ==
  /\ w # other
  /\ wrapper' = [wrapper EXCEPT ![w] = wrapper[other], ![other] = None]
  /\ UNCHANGED <<blocks, used, blockAvailable, object, available, size, returning,
                 disowned, finding, readSize, readAvailable>>

-----------------------------------------------------------------------------
(***************************************************************************)
(* find                                                                    *)
(***************************************************************************)
FindCall(v) ==
  /\ Unlocked
  /\ finding' = v
  /\ UNCHANGED <<blocks, used, blockAvailable, object, available, size, returning,
                 wrapper, disowned, readSize, readAvailable>>

\* the for loop over block 1, current's initial value, meets the object
Hit(v) == \E i \in Indices : <<1, i>> \in used /\ object[<<1, i>>] = v

FindHit ==
  /\ finding # None
  /\ Hit(finding)
  /\ finding' = None
  /\ UNCHANGED <<blocks, used, blockAvailable, object, available, size, returning,
                 wrapper, disowned, readSize, readAvailable>>

\* it does not: current is not advanced, the while loop goes round
FindAgain ==
  /\ finding # None
  /\ ~Hit(finding)
  /\ UNCHANGED vars

-----------------------------------------------------------------------------
(***************************************************************************)
(* used_size: two reads, in the order the compiler chooses                 *)
(***************************************************************************)
ReadSize ==
  /\ readSize = None
  /\ readSize' = size
  /\ UNCHANGED <<blocks, used, blockAvailable, object, available, size, returning,
                 wrapper, disowned, finding, readAvailable>>

ReadAvailable ==
  /\ readAvailable = None
  /\ readAvailable' = available
  /\ UNCHANGED <<blocks, used, blockAvailable, object, available, size, returning,
                 wrapper, disowned, finding, readSize>>

UsedSizeReturn ==
  /\ readSize # None /\ readAvailable # None
  /\ readSize' = None
  /\ readAvailable' = None
  /\ UNCHANGED <<blocks, used, blockAvailable, object, available, size, returning,
                 wrapper, disowned, finding>>

\* size - available, in size_t
Difference(sz, av) == (sz - av) % WordSize

-----------------------------------------------------------------------------
Find == FindHit \/ FindAgain

Next ==
  \/ \E w \in Wrappers, v \in Values : AcquireFree(w, v) \/ AcquireNew(w, v)
  \/ \E w \in Wrappers : Destroy(w) \/ disown(w)
  \/ \E w, other \in Wrappers : MoveAssign(w, other)
  \/ \E s \in AllSlots : OfferDisowned(s)
  \/ \E v \in Values : FindCall(v)
  \/ Find
  \/ ReadSize \/ ReadAvailable \/ UsedSizeReturn

Spec == Init /\ [][Next]_vars

-----------------------------------------------------------------------------
(***************************************************************************)
(* Properties                                                              *)
(***************************************************************************)

(***************************************************************************)
(* "throw std::runtime_error("available != 0 and no available objects!")"  *)
(* (pool.h:149) is not reached: while the pool counts a free slot, the     *)
(* walk over the blocks finds one.                                         *)
(***************************************************************************)
NeverThrows == available # 0 => \E b \in 1 .. blocks : HasRoom(b)

(***************************************************************************)
(* An object that is handed out is held once: by one wrapper, or by one    *)
(* disowned pointer; it is alive, and offer will know it.                  *)
(***************************************************************************)
HeldOnce ==
  /\ \A w \in Wrappers : wrapper[w] # None =>
       wrapper[w] \in used /\ wrapper[w] \in returning /\ wrapper[w] \notin disowned
  /\ \A w, x \in Wrappers : wrapper[w] = wrapper[x] /\ wrapper[w] # None => w = x
  /\ disowned \subseteq used \intersect returning

(***************************************************************************)
(* used_size, read at one time, never misses an object, and counts         *)
(* exactly when blocks have one slot.  When other threads acquire and      *)
(* return objects between its two reads, what it returns still does not    *)
(* wrap around, as long as they add no block (with a new block it can).    *)
(***************************************************************************)
UsedSizeCovers ==
  /\ Cardinality(used) <= size - available
  /\ BlockSize = 1 => Cardinality(used) = size - available
  /\ readSize = size /\ readAvailable # None => Difference(readSize, readAvailable) <= size

-----------------------------------------------------------------------------
(***************************************************************************)
(* The inductive invariant: the first block and what a growth does not     *)
(* count keep the counters below the free slots.                           *)
(***************************************************************************)
UsedOf(b) == {s \in used : s[1] = b}

CountInv ==
  /\ size = (blocks - 1) * BlockSize
  /\ available + Cardinality(used) <= size
  /\ BlockSize = 1 => available + Cardinality(used) = size

BlockInv == \A b \in 1 .. MaxBlocks : blockAvailable[b] = BlockSize - Cardinality(UsedOf(b))

IInv ==
  /\ TypeOK
  /\ CountInv
  /\ BlockInv
  /\ returning = used
  /\ HeldOnce

\* what used_size has read of available is not more than the slots there are
ReadInv == readAvailable # None => readAvailable <= size

=============================================================================
