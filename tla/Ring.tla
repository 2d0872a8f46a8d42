-------------------------------- MODULE Ring --------------------------------
(***************************************************************************)
(* Ring<T> (collections/ring.h): a double-ended queue in a vector that     *)
(* wraps around and doubles when it is full.  The reactor's ready queue    *)
(* and waiter lists, the memory buffers and the DNS messages are rings.    *)
(*                                                                         *)
(* A read past the end of the vector is undefined: it gives Junk.  A write *)
(* past the end changes none of the ring's elements.  reverse_iterator is  *)
(* left out: no member of the ring gives one to its callers.               *)
(***************************************************************************)
EXTENDS Integers, Sequences

CONSTANTS
  Values,           \* what is put into the ring
  Blank,            \* a value-initialized element
  Junk,             \* what is read past the end of the vector
  Uses              \* the ways in which programs use a ring

AllOps == {"push_back", "pop_back", "push_front", "pop_front", "clear", "make_cont",
           "assign", "receive"}

ASSUME ValueAssumption == {Blank, Junk} \intersect Values = {}

(***************************************************************************)
(* A use of a ring: the argument of the constructor, the operations that   *)
(* the program calls, and the most elements it keeps in the ring.          *)
(***************************************************************************)
ASSUME UsesAssumption ==
  Uses \subseteq [capacity : Nat \ {0}, ops : SUBSET AllOps, maxSize : Nat]

VARIABLES
  use,         \* how this ring is used
  head,        \* index of the first element
  tail,        \* index past the last element
  sz,          \* the number of elements
  data,        \* the vector _M_data
  needsResize  \* the next insertion has no room

vars == <<use, head, tail, sz, data, needsResize>>

\* _M_data.size(); the vector is a sequence, its index i is at i + 1
Capacity == Len(data)
Elements == Values \union {Blank, Junk}

TypeOK ==
  /\ use \in Uses
  /\ head \in Nat
  /\ tail \in Nat
  /\ sz \in Nat
  /\ data \in Seq(Elements)
  /\ needsResize \in BOOLEAN

Init ==
  /\ use \in Uses
  /\ head = 0
  /\ tail = 0
  /\ sz = 0
  /\ data = [i \in 1 .. use.capacity |-> Blank]
  /\ needsResize = FALSE

\* d[i], wherever i points
Read(d, i) == IF i < Len(d) THEN d[i + 1] ELSE Junk
Write(d, i, v) == IF i < Len(d) THEN [d EXCEPT ![i + 1] = v] ELSE d

-----------------------------------------------------------------------------
(***************************************************************************)
(* The movements of head and tail                                          *)
(***************************************************************************)
Forward(i, cap) == IF i + 1 >= cap THEN 0 ELSE i + 1
Backward(i, cap) == IF i = 0 THEN cap - 1 ELSE i - 1

(***************************************************************************)
(* What resize and make_cont copy to the front of the new vector: sz       *)
(* elements from head on when tail >= head, and otherwise the elements     *)
(* from head to the end of the vector, followed by those before tail.      *)
(***************************************************************************)
InOrder(n) ==
  LET rest == Capacity - head IN
  [i \in 1 .. n |->
     IF tail >= head
       THEN IF i <= sz THEN Read(data, head + i - 1) ELSE Blank
       ELSE IF i <= rest THEN Read(data, head + i - 1)
            ELSE IF i <= rest + tail THEN Read(data, i - rest - 1)
            ELSE Blank]

\* if (needsResize) resize(): where head, tail and the vector are after it
MakeRoom ==
  IF needsResize
    THEN [head |-> 0, tail |-> sz,
          data |-> InOrder(IF Capacity = 0 THEN 2 ELSE Capacity * 2)]
    ELSE [head |-> head, tail |-> tail, data |-> data]

-----------------------------------------------------------------------------
(***************************************************************************)
(* The operations                                                          *)
(***************************************************************************)

\* Faulty variant: a tail that reaches the end does not wrap around.
push_backNoWrap(v) ==
  LET r == MakeRoom IN
  /\ "push_back" \in use.ops
  /\ sz < use.maxSize
  /\ data' = Write(r.data, r.tail, v)
  /\ head' = r.head
  /\ tail' = r.tail + 1
  /\ needsResize' = (tail' = head')
  /\ sz' = sz + 1
  /\ UNCHANGED use

\* push_back and move_back
push_back(v) ==
  LET r == MakeRoom IN
  /\ "push_back" \in use.ops
  /\ sz < use.maxSize
  /\ data' = Write(r.data, r.tail, v)
  /\ head' = r.head
  /\ tail' = Forward(r.tail, Len(r.data))
  /\ needsResize' = (tail' = head')
  /\ sz' = sz + 1
  /\ UNCHANGED use

pop_back ==
  /\ "pop_back" \in use.ops
  /\ sz # 0
  /\ tail' = Backward(tail, Capacity)
  /\ needsResize' = FALSE
  /\ sz' = sz - 1
  /\ UNCHANGED <<use, head, data>>

push_front(v) ==
  LET r == MakeRoom IN
  /\ "push_front" \in use.ops
  /\ sz < use.maxSize
  /\ head' = Backward(r.head, Len(r.data))
  /\ tail' = r.tail
  /\ data' = Write(r.data, head', v)
  /\ needsResize' = (tail' = head')
  /\ sz' = sz + 1
  /\ UNCHANGED use

pop_front ==
  /\ "pop_front" \in use.ops
  /\ sz # 0
  /\ head' = Forward(head, Capacity)
  /\ needsResize' = FALSE
  /\ sz' = sz - 1
  /\ UNCHANGED <<use, tail, data>>

\* needsResize stays as it is
clear ==
  /\ "clear" \in use.ops
  /\ head' = 0
  /\ tail' = 0
  /\ sz' = 0
  /\ UNCHANGED <<use, data, needsResize>>

\* nothing to do when head is 0
make_cont ==
  /\ "make_cont" \in use.ops
  /\ head # 0
  /\ data' = InOrder(Capacity)
  /\ head' = 0
  /\ tail' = sz
  /\ UNCHANGED <<use, sz, needsResize>>

\* the vector gets the size of the contents; needsResize stays
assign(s) ==
  /\ "assign" \in use.ops
  /\ sz' = Len(s)
  /\ data' = s
  /\ head' = 0
  /\ tail' = Len(s)
  /\ UNCHANGED <<use, needsResize>>

(***************************************************************************)
(* resize(target) of a ring r.  A target within the capacity takes target  *)
(* elements from head on, however many there are.                          *)
(***************************************************************************)
ResizeTo(r, target) ==
  LET cap == Len(r.data)
      rest == cap - r.head
      inOrder == r.tail >= r.head
      copied == IF target <= cap THEN target
                ELSE IF inOrder THEN r.sz ELSE rest + r.tail
      at(i) == IF inOrder \/ i < rest THEN r.head + i ELSE i - rest
  IN [head |-> 0, tail |-> r.sz, sz |-> r.sz, needsResize |-> FALSE,
      data |-> [i \in 1 .. target |-> IF i <= copied THEN Read(r.data, at(i - 1)) ELSE Blank]]

\* used(count): the first count elements of the vector were written by hand
Used(r, count) ==
  LET s == IF count > Len(r.data) THEN ResizeTo(r, count) ELSE r IN
  [head |-> s.head, tail |-> count, sz |-> count, data |-> s.data,
   needsResize |-> s.needsResize \/ count = Len(s.data)]

(***************************************************************************)
(* How the resolver receives a message (dns.cpp:698-723): a new ring gets  *)
(* room, the socket writes s into the vector, and used says how much of it *)
(* there is.                                                               *)
(***************************************************************************)
receive(target, s) ==
  LET new == [head |-> 0, tail |-> 0, sz |-> 0, needsResize |-> FALSE,
              data |-> [i \in 1 .. use.capacity |-> Blank]]
      room == ResizeTo(new, target)
      r == Used([room EXCEPT !.data = [i \in DOMAIN @ |->
                                         IF i <= Len(s) THEN s[i] ELSE @[i]]], Len(s))
  IN
  /\ "receive" \in use.ops
  /\ head' = r.head
  /\ tail' = r.tail
  /\ sz' = r.sz
  /\ data' = r.data
  /\ needsResize' = r.needsResize
  /\ UNCHANGED use

Inputs == UNION {[1 .. n -> Values] : n \in 1 .. use.maxSize}

Next ==
  \/ \E v \in Values : push_back(v) \/ push_front(v)
  \/ pop_back \/ pop_front \/ clear \/ make_cont
  \/ \E s \in Inputs : assign(s)
  \/ \E s \in Inputs : \E target \in Len(s) .. use.maxSize : receive(target, s)

Spec == Init /\ [][Next]_vars

-----------------------------------------------------------------------------
(***************************************************************************)
(* Iterators, which are indices of the vector                              *)
(***************************************************************************)
begin == head
end == tail

\* Faulty variant: operator++ lets the index reach the end of the vector.
IncPastEnd(i) == IF i + 1 > Capacity THEN i + 1 - Capacity ELSE i + 1

Inc(i) == IF i + 1 >= Capacity THEN i + 1 - Capacity ELSE i + 1
Dec(i) == IF i - 1 < 0 THEN i - 1 + Capacity ELSE i - 1

\* i + n and, with a negative n, i - n
Plus(i, n) ==
  LET j == IF i + n < 0 THEN i + n + Capacity ELSE i + n IN
  IF j > Capacity THEN j - Capacity ELSE j

Difference(i, j) ==
  LET flat(k) == IF k < head THEN k + Capacity ELSE k IN
  IF tail > head THEN i - j ELSE flat(i) - flat(j)

(***************************************************************************)
(* Access to the elements                                                  *)
(***************************************************************************)
front == Read(data, head)

back == Read(data, IF tail = 0 THEN Capacity - 1 ELSE tail - 1)

\* operator[]
Index(i) == IF head + i > Capacity THEN head + i - Capacity ELSE head + i

\* at: operator[], once the index of the vector is known to be before tail
AtThrows(i) == Index(i) >= tail

-----------------------------------------------------------------------------
(***************************************************************************)
(* Properties                                                              *)
(***************************************************************************)

\* the elements from the first to the last
Wrap(i) == IF i >= Capacity THEN i - Capacity ELSE i
Contents == [i \in 1 .. sz |-> Read(data, Wrap(head + i - 1))]

(***************************************************************************)
(* The ring is a double-ended queue: every operation does to its contents  *)
(* what its name says, and make_cont leaves them alone.                    *)
(***************************************************************************)
DequeSemantics ==
  [][ /\ \A v \in Values : push_back(v) => Contents' = Append(Contents, v)
      /\ \A v \in Values : push_front(v) => Contents' = <<v>> \o Contents
      /\ pop_back => Contents' = SubSeq(Contents, 1, sz - 1)
      /\ pop_front => Contents' = Tail(Contents)
      /\ make_cont => Contents' = Contents
      /\ \A s \in Inputs : assign(s) => Contents' = s
      /\ \A s \in Inputs : \A target \in Len(s) .. use.maxSize :
           receive(target, s) => Contents' = s ]_vars

(***************************************************************************)
(* tests/collections/ring.cpp:69: a walk from begin() meets every element  *)
(* in order and gets to end() after the last one and not before, the walk  *)
(* back does the same, and operator- counts the steps between any two      *)
(* iterators.  On a full ring begin() is end(), and on one that was        *)
(* assigned or received ++ never gets to an end() that is the end of the   *)
(* vector: these are left out.                                             *)
(***************************************************************************)
IterationVisitsAll ==
  sz < Capacity /\ tail < Capacity =>
    LET walk[k \in 0 .. sz] == IF k = 0 THEN begin ELSE Inc(walk[k - 1])
        back_[k \in 0 .. sz] == IF k = 0 THEN end ELSE Dec(back_[k - 1])
    IN /\ \A k \in 0 .. sz : walk[k] = end <=> k = sz
       /\ \A k \in 0 .. sz - 1 : Read(data, walk[k]) = Contents[k + 1]
       /\ \A k \in 0 .. sz : back_[k] = walk[sz - k]
       /\ \A j, k \in 0 .. sz : Difference(walk[j], walk[k]) = j - k

(***************************************************************************)
(* front, back, operator[] and the iterators' operator+ give the elements  *)
(* that the names say, at gives those that do not wrap around, and at      *)
(* refuses the index after the last one.  An index that comes out at the   *)
(* end of the vector, which the code does not wrap, is left out, and so is *)
(* a tail there, which pop_front can leave behind an empty ring's head.    *)
(***************************************************************************)
AccessorsAgree ==
  /\ sz > 0 => front = Contents[1] /\ back = Contents[sz]
  /\ \A i \in 0 .. sz - 1 : head + i # Capacity =>
       /\ Read(data, Index(i)) = Contents[i + 1]
       /\ Plus(begin, i) = Index(i)
       /\ tail < Capacity => Plus(end, i - sz) = Index(i)
       /\ AtThrows(i) => tail <= head
  /\ tail < Capacity => AtThrows(sz)

(***************************************************************************)
(* Wherever head is and however the elements wrap around, the iterators    *)
(* and the accessors show the same elements.                               *)
(***************************************************************************)
ViewsAgree == IterationVisitsAll /\ AccessorsAgree

-----------------------------------------------------------------------------
(***************************************************************************)
(* The uses of a ring that the code serves: a deque that never has to grow *)
(* (with a slot to spare when it is made contiguous), a stack, which may   *)
(* grow as its first element stays where it is, and contents that are      *)
(* assigned or received, and read from the front.                          *)
(***************************************************************************)
DequeUse(u) ==
  /\ u.ops \intersect {"assign", "receive"} = {}
  /\ u.maxSize <= u.capacity
  /\ "make_cont" \in u.ops => u.maxSize < u.capacity
StackUse(u) == u.ops \subseteq {"push_back", "pop_back", "clear"}
ReaderUse(u) == u.ops \subseteq {"assign", "receive", "pop_front"}
SoundUse(u) == DequeUse(u) \/ StackUse(u) \/ ReaderUse(u)
UsesAreSound == \A u \in Uses : SoundUse(u)

(***************************************************************************)
(* The inductive invariant of these uses.  tail is sz places after head,   *)
(* or at the end of the vector, where assign and used put it.              *)
(***************************************************************************)
Layout ==
  /\ head < Capacity /\ sz <= Capacity
  /\ tail = Wrap(head + sz) \/ (tail = Capacity /\ (sz = 0 \/ head + sz = Capacity))

\* of pushes: needsResize is set when the ring is full; clear may leave it set on an empty one
PushInv ==
  /\ tail = Wrap(head + sz)
  /\ sz = Capacity => needsResize
  /\ needsResize => (sz = Capacity \/ (sz = 0 /\ head = 0))

UseInv ==
  /\ SoundUse(use)
  /\ ~ReaderUse(use) => PushInv
  /\ DequeUse(use) => use.maxSize <= Capacity /\ ("make_cont" \in use.ops => use.maxSize < Capacity)
  /\ StackUse(use) => head = 0
  /\ ~ReaderUse(use) => sz <= use.maxSize

IInv == TypeOK /\ Layout /\ UseInv

=============================================================================
