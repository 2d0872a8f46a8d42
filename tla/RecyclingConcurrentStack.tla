---------------------- MODULE RecyclingConcurrentStack ----------------------
(***************************************************************************)
(* RecyclingConcurrentStack<T> (concurrency/recycling_concurrent_stack.h): *)
(* two linked lists with a compare-and-swap on their first pointer, _head  *)
(* with the values pushed and _free with the nodes to use again.  push     *)
(* takes a node from _free, or allocates one, and links it to _head; pop   *)
(* unlinks a node from _head and links it to _free.                        *)
(*                                                                         *)
(* One action per access to shared memory.  The loads are relaxed; the     *)
(* model gives them the order an x86 build gives them.  list and due are   *)
(* history variables that no action reads.                                 *)
(***************************************************************************)
EXTENDS Integers, Sequences, FiniteSets

CONSTANTS
  Pushers,          \* threads that call push
  Poppers,          \* threads that call pop
  Nodes,            \* the memory new Node can return, a bound on it
  InitialCapacity,  \* the argument of the constructor
  MaxPushes,        \* bound on the number of calls of push
  Null,             \* the null pointer
  NoObj             \* what a node's data is when no object lives in it

Threads == Pushers \union Poppers
Values == 1 .. MaxPushes

ASSUME CapacityAssumption == InitialCapacity \in Nat
ASSUME NodesAssumption == IsFiniteSet(Nodes) /\ Null \notin Nodes
ASSUME BoundAssumption == MaxPushes \in Nat /\ NoObj \notin Values

VARIABLES
  top,     \* top["head"] is _head, top["free"] is _free
  next,    \* next[n]: the next field of node n
  data,    \* data[n]: the data field of node n
  unused,  \* the nodes that are not allocated
  op,      \* op[t]: the operation thread t runs
  pc,      \* pc[t]: where it is in that operation
  node_,   \* the local variable node_ of push and pop
  next_,   \* the local variable next_ of push and pop
  arg,     \* the argument of push, and the result of pop
  pushes,  \* how many times push was called; the i-th call pushes i
  results, \* history: the values pop returned
  list,    \* history: the nodes linked into each list, the first one last
  due,     \* due[t]: what was in the node at the time pop unlinked it
  popped   \* history: the values unlinked, in order

vars == <<top, next, data, unused, op, pc, node_, next_, arg, pushes,
          results, list, due, popped>>

Lists == {"head", "free"}
Pointers == Nodes \union {Null}

\* push takes a node from _free and links it to _head, pop the reverse
From(t) == IF op[t] = "push" THEN "free" ELSE "head"
To(t) == IF op[t] = "push" THEN "head" ELSE "free"

PC == {"idle", "load", "next", "unlink", "new", "construct", "take",
       "target", "write", "link"}

TypeOK ==
  /\ top \in [Lists -> Pointers]
  /\ next \in [Nodes -> Pointers]
  /\ data \in [Nodes -> Values \union {NoObj}]
  /\ unused \subseteq Nodes
  /\ op \in [Threads -> {"push", "pop"}]
  /\ pc \in [Threads -> PC]
  /\ node_ \in [Threads -> Pointers]
  /\ next_ \in [Threads -> Pointers]
  /\ arg \in [Threads -> Values \union {NoObj}]
  /\ pushes \in 0 .. MaxPushes
  /\ results \in Seq(Values \union {NoObj})
  /\ list \in [Lists -> Seq(Nodes)]
  /\ due \in [Threads -> Values \union {NoObj}]
  /\ popped \in Seq(Values \union {NoObj})

\* The constructor links InitialCapacity nodes into _free, each new node
\* pointing to the one before.
Init ==
  \E free \in [1 .. InitialCapacity -> Nodes] :
    /\ \A i, j \in 1 .. InitialCapacity : free[i] = free[j] => i = j
    /\ list = [l \in Lists |-> IF l = "free" THEN free ELSE << >>]
    /\ top = [l \in Lists |-> IF l = "free" /\ InitialCapacity > 0
                                THEN free[InitialCapacity] ELSE Null]
    /\ next = [n \in Nodes |->
                 IF \E i \in 2 .. InitialCapacity : free[i] = n
                   THEN free[(CHOOSE i \in 2 .. InitialCapacity : free[i] = n) - 1]
                   ELSE Null]
    /\ unused = Nodes \ {free[i] : i \in 1 .. InitialCapacity}
    /\ data = [n \in Nodes |-> NoObj]
    /\ op = [t \in Threads |-> IF t \in Pushers THEN "push" ELSE "pop"]
    /\ pc = [t \in Threads |-> "idle"]
    /\ node_ = [t \in Threads |-> Null]
    /\ next_ = [t \in Threads |-> Null]
    /\ arg = [t \in Threads |-> NoObj]
    /\ pushes = 0
    /\ results = << >>
    /\ due = [t \in Threads |-> NoObj]
    /\ popped = << >>

Goto(t, l) == pc' = [pc EXCEPT ![t] = l]

-----------------------------------------------------------------------------
(***************************************************************************)
(* Calls of push and pop                                                   *)
(***************************************************************************)
PushCall(t) ==
  /\ t \in Pushers
  /\ pc[t] = "idle"
  /\ pushes < MaxPushes
  /\ pushes' = pushes + 1
  /\ arg' = [arg EXCEPT ![t] = pushes']
  /\ op' = [op EXCEPT ![t] = "push"]
  /\ Goto(t, "load")
  /\ UNCHANGED <<top, next, data, unused, node_, next_, results, list, due, popped>>

PopCall(t) ==
  /\ t \in Poppers
  /\ pc[t] = "idle"
  /\ op' = [op EXCEPT ![t] = "pop"]
  /\ Goto(t, "load")
  /\ UNCHANGED <<top, next, data, unused, node_, next_, arg, pushes, results, list,
                 due, popped>>

-----------------------------------------------------------------------------
(***************************************************************************)
(* Unlinking the first node of a list                                      *)
(***************************************************************************)

\* node_ = top.load(); if there is none, push breaks out and allocates and
\* pop returns nullopt
Load(t) ==
  /\ pc[t] = "load"
  /\ node_' = [node_ EXCEPT ![t] = top[From(t)]]
  /\ Goto(t, CASE top[From(t)] # Null -> "next"
               [] top[From(t)] = Null /\ op[t] = "push" -> "new"
               [] OTHER -> "idle")
  /\ UNCHANGED <<top, next, data, unused, op, next_, arg, pushes, results, list, due,
                 popped>>

\* next_ = node_->next
LoadNext(t) ==
  /\ pc[t] = "next"
  /\ next_' = [next_ EXCEPT ![t] = next[node_[t]]]
  /\ Goto(t, "unlink")
  /\ UNCHANGED <<top, next, data, unused, op, node_, arg, pushes, results, list, due,
                 popped>>

WithoutFirst(s) == SubSeq(s, 1, Len(s) - 1)

\* Faulty variant: a store instead of a compare-and-swap.
UnlinkStore(t) ==
  /\ pc[t] = "unlink"
  /\ top' = [top EXCEPT ![From(t)] = next_[t]]
  /\ list' = [list EXCEPT ![From(t)] = WithoutFirst(@)]
  /\ Goto(t, IF op[t] = "push" THEN "construct" ELSE "take")
  /\ IF op[t] = "pop"
       THEN /\ due' = [due EXCEPT ![t] = data[node_[t]]]
            /\ popped' = Append(popped, data[node_[t]])
       ELSE UNCHANGED <<due, popped>>
  /\ UNCHANGED <<next, data, unused, op, node_, next_, arg, pushes, results>>

\* compare_exchange_weak(node_, next_) succeeds
Unlink(t) ==
  /\ pc[t] = "unlink"
  /\ top[From(t)] = node_[t]
  /\ top' = [top EXCEPT ![From(t)] = next_[t]]
  /\ list' = [list EXCEPT ![From(t)] = WithoutFirst(@)]
  /\ Goto(t, IF op[t] = "push" THEN "construct" ELSE "take")
  /\ IF op[t] = "pop"
       THEN /\ due' = [due EXCEPT ![t] = data[node_[t]]]
            /\ popped' = Append(popped, data[node_[t]])
       ELSE UNCHANGED <<due, popped>>
  /\ UNCHANGED <<next, data, unused, op, node_, next_, arg, pushes, results>>

\* compare_exchange_weak fails: another thread changed the list, or
\* spuriously; the loop starts again
UnlinkFails(t) ==
  /\ pc[t] = "unlink"
  /\ Goto(t, "load")
  /\ UNCHANGED <<top, next, data, unused, op, node_, next_, arg, pushes, results, list,
                 due, popped>>

-----------------------------------------------------------------------------
(***************************************************************************)
(* What is done with the node                                              *)
(***************************************************************************)

\* node_ = new Node
New(t) ==
  /\ pc[t] = "new"
  /\ \E n \in unused :
       /\ node_' = [node_ EXCEPT ![t] = n]
       /\ unused' = unused \ {n}
  /\ Goto(t, "construct")
  /\ UNCHANGED <<top, next, data, op, next_, arg, pushes, results, list, due, popped>>

\* new (&node_->data) T(args)
Construct(t) ==
  /\ pc[t] = "construct"
  /\ data' = [data EXCEPT ![node_[t]] = arg[t]]
  /\ Goto(t, "target")
  /\ UNCHANGED <<top, next, unused, op, node_, next_, arg, pushes, results, list, due,
                 popped>>

\* result = std::move(node_->data); node_->data.~T()
Take(t) ==
  /\ pc[t] = "take"
  /\ arg' = [arg EXCEPT ![t] = data[node_[t]]]
  /\ data' = [data EXCEPT ![node_[t]] = NoObj]
  /\ Goto(t, "target")
  /\ UNCHANGED <<top, next, unused, op, node_, next_, pushes, results, list, due,
                 popped>>

-----------------------------------------------------------------------------
(***************************************************************************)
(* Linking the node as the first one of the other list                     *)
(***************************************************************************)

\* next_ = top.load()
LoadTarget(t) ==
  /\ pc[t] = "target"
  /\ next_' = [next_ EXCEPT ![t] = top[To(t)]]
  /\ Goto(t, "write")
  /\ UNCHANGED <<top, next, data, unused, op, node_, arg, pushes, results, list, due,
                 popped>>

\* node_->next = next_
WriteNext(t) ==
  /\ pc[t] = "write"
  /\ next' = [next EXCEPT ![node_[t]] = next_[t]]
  /\ Goto(t, "link")
  /\ UNCHANGED <<top, data, unused, op, node_, next_, arg, pushes, results, list, due,
                 popped>>

\* Faulty variant: a store instead of a compare-and-swap.
LinkStore(t) ==
  /\ pc[t] = "link"
  /\ top' = [top EXCEPT ![To(t)] = node_[t]]
  /\ list' = [list EXCEPT ![To(t)] = Append(@, node_[t])]
  /\ results' = IF op[t] = "pop" THEN Append(results, arg[t]) ELSE results
  /\ Goto(t, "idle")
  /\ UNCHANGED <<next, data, unused, op, node_, next_, arg, pushes, due, popped>>

\* compare_exchange_weak(next_, node_) succeeds; the operation returns
Link(t) ==
  /\ pc[t] = "link"
  /\ top[To(t)] = next_[t]
  /\ top' = [top EXCEPT ![To(t)] = node_[t]]
  /\ list' = [list EXCEPT ![To(t)] = Append(@, node_[t])]
  /\ results' = IF op[t] = "pop" THEN Append(results, arg[t]) ELSE results
  /\ Goto(t, "idle")
  /\ UNCHANGED <<next, data, unused, op, node_, next_, arg, pushes, due, popped>>

\* compare_exchange_weak fails
LinkFails(t) ==
  /\ pc[t] = "link"
  /\ Goto(t, "target")
  /\ UNCHANGED <<top, next, data, unused, op, node_, next_, arg, pushes, results, list,
                 due, popped>>

-----------------------------------------------------------------------------
Step(t) ==
  \/ Load(t) \/ LoadNext(t) \/ Unlink(t) \/ UnlinkFails(t)
  \/ New(t) \/ Construct(t) \/ Take(t)
  \/ LoadTarget(t) \/ WriteNext(t) \/ Link(t) \/ LinkFails(t)

Next == \E t \in Threads : PushCall(t) \/ PopCall(t) \/ Step(t)

Spec == Init /\ [][Next]_vars

-----------------------------------------------------------------------------
(***************************************************************************)
(* Properties                                                              *)
(***************************************************************************)

\* thread t has taken node_[t] from a list, or allocated it, and not linked it
Holding(t) == pc[t] \in {"construct", "take", "target", "write", "link"}

InList(l, n) == \E i \in 1 .. Len(list[l]) : list[l][i] = n

(***************************************************************************)
(* Recycling never lets a node be in two places: twice on one list, on     *)
(* both lists, on a list while a thread constructs or moves the object in  *)
(* it, or with two threads.                                                *)
(***************************************************************************)
NodeInOnePlace ==
  /\ \A l \in Lists : \A i, j \in 1 .. Len(list[l]) : list[l][i] = list[l][j] => i = j
  /\ \A n \in Nodes : ~(InList("head", n) /\ InList("free", n))
  /\ \A t \in Threads : Holding(t) => \A l \in Lists : ~InList(l, node_[t])
  /\ \A s, t \in Threads : Holding(s) /\ Holding(t) /\ node_[s] = node_[t] => s = t

(***************************************************************************)
(* Following next from _head and from _free visits the nodes that were     *)
(* linked and not unlinked, the last one first, and ends at null.          *)
(***************************************************************************)
PointersSpellLists ==
  \A l \in Lists :
    LET s == list[l] IN
    /\ top[l] = IF s = << >> THEN Null ELSE s[Len(s)]
    /\ \A i \in 1 .. Len(s) : next[s[i]] = IF i = 1 THEN Null ELSE s[i - 1]

(***************************************************************************)
(* pop moves out and returns the object that was on top when it unlinked   *)
(* the node: nobody constructs in that node before the move.               *)
(***************************************************************************)
PopTakesTheTop ==
  \A t \in Threads :
    op[t] = "pop" =>
      /\ pc[t] = "take" => data[node_[t]] = due[t]
      /\ pc[t] \in {"target", "write", "link"} => arg[t] = due[t]

(***************************************************************************)
(* The stack is a LIFO stack of the values whose nodes are linked to       *)
(* _head: push takes effect at its last compare-and-swap, pop at its       *)
(* first.                                                                  *)
(***************************************************************************)
StackOfValues == [i \in 1 .. Len(list["head"]) |-> data[list["head"][i]]]
LIFO == INSTANCE LIFOStack WITH stack <- StackOfValues
ImplementsStack == LIFO!Spec

(***************************************************************************)
(* "cond_assert(sum == total, ...)" (tests/bench/                          *)
(* recycling_concurrent_stack_bench.cpp:75): once every push has returned  *)
(* and as many pops have returned a value, the totals agree; with one      *)
(* value per push, each was popped once.                                   *)
(***************************************************************************)
EveryValuePoppedOnce ==
  /\ \A t \in Threads : pc[t] = "idle"
  /\ Len(results) = pushes
  => {results[i] : i \in 1 .. Len(results)} = 1 .. pushes

-----------------------------------------------------------------------------
(***************************************************************************)
(* The inductive invariant when one thread pushes and one thread pops:     *)
(* each list has a single thread that unlinks from it.  That thread's      *)
(* node_ stays linked, so its next_ stays what node_->next is.             *)
(***************************************************************************)
OneRemoverPerList ==
  /\ \A s, t \in Pushers : s = t
  /\ \A s, t \in Poppers : s = t

RoleInv ==
  \A t \in Threads :
    pc[t] # "idle" => t \in (IF op[t] = "push" THEN Pushers ELSE Poppers)

RemoverInv ==
  \A t \in Threads :
    /\ pc[t] \in {"next", "unlink"} => InList(From(t), node_[t])
    /\ pc[t] = "unlink" => next_[t] = next[node_[t]]

HolderInv ==
  \A t \in Threads :
    /\ Holding(t) => node_[t] \in Nodes \ unused
    /\ pc[t] = "link" => next[node_[t]] = next_[t]
    /\ pc[t] \in {"new", "construct"} => op[t] = "push"
    /\ pc[t] = "take" => op[t] = "pop"

UnusedInv == \A n \in unused : \A l \in Lists : ~InList(l, n)

DataInv ==
  /\ \A i \in 1 .. Len(list["head"]) : data[list["head"][i]] \in Values
  /\ \A t \in Threads : op[t] = "push" /\ pc[t] # "idle" =>
       /\ arg[t] \in Values
       /\ pc[t] \in {"target", "write", "link"} => data[node_[t]] = arg[t]

IInv ==
  /\ TypeOK
  /\ NodeInOnePlace
  /\ PointersSpellLists
  /\ PopTakesTheTop
  /\ RoleInv
  /\ RemoverInv
  /\ HolderInv
  /\ UnusedInv
  /\ DataInv

(***************************************************************************)
(* Every value pushed is with the call of push that pushes it, on the      *)
(* stack, with the call of pop that took it, or among the results, and     *)
(* never in two places.                                                    *)
(***************************************************************************)
Carrying(t) ==
  IF op[t] = "push" THEN pc[t] # "idle" ELSE pc[t] \in {"take", "target", "write", "link"}
Carried(t) == IF op[t] = "push" THEN arg[t] ELSE due[t]

ValuesOnce ==
  /\ \A i \in 1 .. Len(results) : results[i] \in 1 .. pushes
  /\ \A i \in 1 .. Len(StackOfValues) : StackOfValues[i] \in 1 .. pushes
  /\ \A t \in Threads : Carrying(t) => Carried(t) \in 1 .. pushes
  /\ \A i, j \in 1 .. Len(results) : results[i] = results[j] => i = j
  /\ \A i, j \in 1 .. Len(StackOfValues) : StackOfValues[i] = StackOfValues[j] => i = j
  /\ \A s, t \in Threads : Carrying(s) /\ Carrying(t) /\ Carried(s) = Carried(t) => s = t
  /\ \A i \in 1 .. Len(results), j \in 1 .. Len(StackOfValues) : results[i] # StackOfValues[j]
  /\ \A t \in Threads : Carrying(t) =>
       /\ \A i \in 1 .. Len(results) : results[i] # Carried(t)
       /\ \A i \in 1 .. Len(StackOfValues) : StackOfValues[i] # Carried(t)

=============================================================================
