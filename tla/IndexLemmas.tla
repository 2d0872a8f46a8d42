----------------------------- MODULE IndexLemmas -----------------------------
(***************************************************************************)
(* Facts about t % N, the ring index of a ticket, for every N.  The index  *)
(* of the code is t & (N - 1) with N a power of two, which is t % N.       *)
(* The provers know little about % with a symbolic modulus: everything     *)
(* here is derived from uniqueness of quotient and remainder.  At the end, *)
(* two facts about sets of natural numbers: the least number, induction.   *)
(***************************************************************************)
EXTENDS Integers, FiniteSetTheorems, TLAPS

(***************************************************************************)
(* Every ticket is a lap number and an index.                              *)
(***************************************************************************)
LEMMA ModSplit ==
  \A N \in Nat \ {0} : \A t \in Nat : \E a \in Int : \E r \in 0 .. N - 1 :
    t = N * a + r /\ r = (t % N)
<1> TAKE N \in Nat \ {0}, t \in Nat
<1>1. (t \div N) \in Int
  OBVIOUS
<1>2. (t % N) \in 0 .. N - 1
  OBVIOUS
<1>3. t = N * (t \div N) + (t % N)
  OBVIOUS
<1> WITNESS (t \div N) \in Int
<1> WITNESS (t % N) \in 0 .. N - 1
<1> QED
  BY <1>3

(***************************************************************************)
(* Multiples of N are at least N apart.                                    *)
(***************************************************************************)
LEMMA MultipleGap ==
  ASSUME NEW N \in Nat \ {0}, NEW a \in Int, NEW b \in Int, a > b
  PROVE  N * a >= N * b + N
OBVIOUS

(***************************************************************************)
(* Two tickets with the same index less than N apart lie in the same lap.  *)
(***************************************************************************)
LEMMA LapUnique ==
  ASSUME NEW N \in Nat \ {0}, NEW a \in Int, NEW b \in Int, NEW r \in Int,
         N * a + r < N * b + r + N, N * b + r < N * a + r + N
  PROVE  a = b
<1>1. ~(a > b)
  BY MultipleGap
<1>2. ~(b > a)
  BY MultipleGap
<1> QED
  BY <1>1, <1>2

(***************************************************************************)
(* The index is an index of the ring.                                      *)
(***************************************************************************)
LEMMA ModRange ==
  ASSUME NEW N \in Nat \ {0}, NEW t \in Nat
  PROVE  t % N \in 0 .. N - 1
OBVIOUS

(***************************************************************************)
(* Tickets less than N apart have different indices: a window of N tickets *)
(* uses each cell of the ring at most once.                                *)
(***************************************************************************)
LEMMA ModInjective ==
  ASSUME NEW N \in Nat \ {0}, NEW t \in Nat, NEW u \in Nat,
         t % N = u % N, t < u + N, u < t + N
  PROVE  t = u
<1>1. PICK a \in Int : \E r \in 0 .. N - 1 : t = N * a + r /\ r = (t % N)
  BY ModSplit, Zenon
<1>2. PICK r \in 0 .. N - 1 : t = N * a + r /\ r = (t % N)
  BY <1>1
<1>3. PICK b \in Int : \E s \in 0 .. N - 1 : u = N * b + s /\ s = (u % N)
  BY ModSplit, Zenon
<1>4. u = N * b + r
  BY <1>2, <1>3, Zenon
<1>5. a = b
  BY <1>2, <1>4, LapUnique
<1> QED
  BY <1>2, <1>4, <1>5

(***************************************************************************)
(* Remainders are unique.                                                  *)
(***************************************************************************)
LEMMA ModUnique ==
  ASSUME NEW N \in Nat \ {0}, NEW a \in Int, NEW r \in 0 .. N - 1,
         NEW t \in Nat, t = N * a + r
  PROVE  t % N = r
<1>1. PICK b \in Int, s \in 0 .. N - 1 : t = N * b + s /\ s = (t % N)
  BY ModSplit, Zenon
<1>2. ~(a > b)
  BY MultipleGap, <1>1
<1>3. ~(b > a)
  BY MultipleGap, <1>1
<1>4. a = b
  BY <1>2, <1>3
<1>5. s = r
  BY <1>1, <1>4
<1> QED
  BY <1>1, <1>5, Zenon

(***************************************************************************)
(* The ticket one lap later uses the same cell.                            *)
(***************************************************************************)
LEMMA ModNextLap ==
  ASSUME NEW N \in Nat \ {0}, NEW t \in Nat
  PROVE  (t + N) % N = t % N
<1>1. PICK a \in Int, r \in 0 .. N - 1 : t = N * a + r /\ r = (t % N)
  BY ModSplit, Zenon
<1>2. PICK b \in Int : b = a + 1
  BY <1>1
<1>3. PICK u \in Nat : u = t + N
  BY <1>1
<1>4. N * b = N * a + N
  BY <1>2
<1>5. t = N * a + r
  BY <1>1
<1>6. u = N * b + r
  BY <1>3, <1>4, <1>5
<1>7. u % N = r
  BY <1>6, ModUnique
<1> QED
  BY <1>1, <1>3, <1>7, Zenon

(***************************************************************************)
(* The index can be advanced without the ticket: (i + 1) & MASK of the     *)
(* index of t is the index of t + 1.                                       *)
(***************************************************************************)
LEMMA ModSuccessor ==
  ASSUME NEW N \in Nat \ {0}, NEW t \in Nat
  PROVE  ((t % N) + 1) % N = (t + 1) % N
<1>1. PICK a \in Int, r \in 0 .. N - 1 : t = N * a + r /\ r = (t % N)
  BY ModSplit, Zenon
<1>2. PICK u \in Nat : u = t + 1
  OBVIOUS
<1>3. PICK w \in Nat : w = r + 1
  BY <1>1
<1>4. t = N * a + r
  BY <1>1
<1>5. CASE r < N - 1
  <2>1. w \in 0 .. N - 1
    BY <1>3, <1>5
  <2>2. u = N * a + w
    BY <1>2, <1>3, <1>4
  <2>3. u % N = w
    BY <2>1, <2>2, ModUnique
  <2>4. w = N * 0 + w
    OBVIOUS
  <2>5. w % N = w
    BY <2>1, <2>4, ModUnique
  <2> QED
    BY <1>1, <1>2, <1>3, <2>3, <2>5, Zenon
<1>6. CASE r = N - 1
  <2>1. PICK b \in Int : b = a + 1
    BY <1>1
  <2>2. N * b = N * a + N
    BY <2>1
  <2>3. u = N * b + 0
    BY <1>2, <1>4, <1>6, <2>2
  <2>4. 0 \in 0 .. N - 1
    OBVIOUS
  <2>5. u % N = 0
    BY <2>3, <2>4, ModUnique
  <2>6. w = N * 1 + 0
    BY <1>3, <1>6
  <2>7. w % N = 0
    BY <2>4, <2>6, ModUnique
  <2> QED
    BY <1>1, <1>2, <1>3, <2>5, <2>7, Zenon
<1> QED
  BY <1>1, <1>5, <1>6

-----------------------------------------------------------------------------
(***************************************************************************)
(* A set of natural numbers that is not empty has a least element.         *)
(***************************************************************************)
LEMMA LeastNumber ==
  ASSUME NEW T \in SUBSET Nat, T # {}
  PROVE  \E n \in T : \A m \in T : n <= m
<1>1. IsWellFoundedOn(OpToRel(<, Nat), Nat)
  BY NatLessThanWellFounded
<1>2. PICK n \in T : \A m \in T : ~(<<m, n>> \in OpToRel(<, Nat))
  BY <1>1, WFMin
<1>3. \A m \in T : ~(m < n)
  BY <1>2 DEF OpToRel
<1>4. QED
  BY <1>3

(***************************************************************************)
(* Induction over the natural numbers, for a set: if one number m were     *)
(* not in S, the successor would map the members of S up to m one to one   *)
(* to themselves, without 0, and a finite set has no such map.             *)
(***************************************************************************)
LEMMA NatSetInduction ==
  ASSUME NEW S, 0 \in S, \A n \in Nat : n \in S => n + 1 \in S
  PROVE  Nat \subseteq S
<1> SUFFICES ASSUME NEW m \in Nat, m \notin S PROVE FALSE
  OBVIOUS
<1> DEFINE U == {k \in 0 .. m : k \in S}
           f == [k \in U |-> k + 1]
<1>1. ASSUME NEW k \in U PROVE k + 1 \in U
  <2>1. k \in Nat /\ k <= m /\ k \in S /\ k # m
    OBVIOUS
  <2>2. k + 1 \in S /\ k + 1 \in 0 .. m
    BY <2>1
  <2>3. QED
    BY <2>2
<1>2. IsFiniteSet(U)
  <2>1. IsFiniteSet(0 .. m)
    BY FS_Interval
  <2>2. U \in SUBSET (0 .. m)
    OBVIOUS
  <2>3. QED
    BY <2>1, <2>2, FS_Subset
<1>3. 0 \in U /\ U \subseteq Nat
  OBVIOUS
<1> HIDE DEF U
<1>4. f \in Injection(U, U)
  <2>1. f \in [U -> U]
    BY <1>1
  <2>2. \A a, b \in U : f[a] = f[b] => a = b
    BY <1>3
  <2>3. QED
    BY <2>1, <2>2 DEF Injection, IsInjective
<1>5. f \in Surjection(U, U)
  BY <1>2, <1>4, FS_Injection
<1>6. PICK k \in U : f[k] = 0
  BY <1>3, <1>5 DEF Surjection
<1>7. QED
  BY <1>3, <1>6

=============================================================================
