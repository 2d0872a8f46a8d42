--------------------------- MODULE Reactor_proofs ---------------------------
(***************************************************************************)
(* Proofs about the reactor, its tasks and the descriptors that coroutines *)
(* own, for every number of jobs, user_data, timers, submission entries    *)
(* and descriptors.                                                        *)
(***************************************************************************)
EXTENDS Reactor, Tasks, Descriptors, IndexLemmas, FiniteSetTheorems, SequenceTheorems, TLAPS

-----------------------------------------------------------------------------
(***************************************************************************)
(* Counting in sequences                                                   *)
(***************************************************************************)

\* The places of an element in a sequence are finitely many.
LEMMA CountType ==
  ASSUME NEW S, NEW s \in Seq(S), NEW d
  PROVE  /\ IsFiniteSet({i \in 1 .. Len(s) : s[i] = d})
         /\ Count(s, d) \in Nat
<1>1. {i \in 1 .. Len(s) : s[i] = d} \in SUBSET (1 .. Len(s))
  OBVIOUS
<1>2. IsFiniteSet(1 .. Len(s))
  BY FS_Interval
<1>3. IsFiniteSet({i \in 1 .. Len(s) : s[i] = d})
  BY <1>1, <1>2, FS_Subset
<1>4. QED
  BY <1>3, FS_CardinalityType DEF Count

\* An element is in a concatenation as often as in its two parts together.
LEMMA CountConcat ==
  ASSUME NEW S, NEW s \in Seq(S), NEW t \in Seq(S), NEW d
  PROVE  Count(s \o t, d) = Count(s, d) + Count(t, d)
<1> DEFINE A == {i \in 1 .. Len(s) : s[i] = d}
           B == {i \in 1 .. Len(t) : t[i] = d}
           C == {i \in Len(s) + 1 .. Len(s) + Len(t) : t[i - Len(s)] = d}
           f == [i \in B |-> i + Len(s)]
<1>1. Len(s) \in Nat /\ Len(t) \in Nat
  OBVIOUS
<1>2. IsFiniteSet(A) /\ IsFiniteSet(B)
  BY CountType
<1>3. f \in Bijection(B, C)
  <2>1. f \in [B -> C]
    BY <1>1
  <2>2. f \in Injection(B, C)
    BY <2>1, <1>1 DEF Injection, IsInjective
  <2>3. \A c \in C : \E b \in B : f[b] = c
    <3> TAKE c \in C
    <3>1. c - Len(s) \in B /\ f[c - Len(s)] = c
      BY <1>1
    <3>2. QED
      BY <3>1
  <2>4. QED
    BY <2>1, <2>2, <2>3 DEF Bijection, Surjection
<1>4. IsFiniteSet(C) /\ Cardinality(C) = Cardinality(B)
  BY <1>2, <1>3, FS_Bijection DEF ExistsBijection
<1>5. A \cap C = {}
  BY <1>1
<1>6. {i \in 1 .. Len(s \o t) : (s \o t)[i] = d} = A \cup C
  <2> HIDE DEF f, B
  <2>1. /\ Len(s \o t) = Len(s) + Len(t)
        /\ \A i \in 1 .. Len(s) + Len(t) : (s \o t)[i] =
              IF i <= Len(s) THEN s[i] ELSE t[i - Len(s)]
    BY ConcatProperties
  <2>2. QED
    BY <2>1, <1>1
<1>7. Cardinality(A \cup C) = Cardinality(A) + Cardinality(C)
  <2> HIDE DEF A, C
  <2>1. Cardinality(A \cup C) = Cardinality(A) + Cardinality(C) - Cardinality(A \cap C)
    BY <1>2, <1>4, FS_Union
  <2>2. Cardinality(A) \in Nat /\ Cardinality(C) \in Nat
    BY <1>2, <1>4, FS_CardinalityType
  <2>3. Cardinality(A \cap C) = 0
    BY <1>5, FS_EmptySet
  <2>4. QED
    BY <2>1, <2>2, <2>3
<1>8. QED
  BY <1>4, <1>6, <1>7 DEF Count

\* An empty sequence holds nothing, a sequence of one element that one.
LEMMA CountSmall ==
  ASSUME NEW d, NEW e
  PROVE  /\ Count(<<>>, d) = 0
         /\ Count(<<e>>, d) = IF e = d THEN 1 ELSE 0
<1>1. {i \in 1 .. Len(<<>>) : <<>>[i] = d} = {}
  OBVIOUS
<1>2. CASE e = d
  <2>1. {i \in 1 .. Len(<<e>>) : <<e>>[i] = d} = {1}
    BY <1>2
  <2>2. QED
    BY <1>1, <1>2, <2>1, FS_EmptySet, FS_Singleton DEF Count
<1>3. CASE e # d
  <2>1. {i \in 1 .. Len(<<e>>) : <<e>>[i] = d} = {}
    BY <1>3
  <2>2. QED
    BY <1>1, <1>3, <2>1, FS_EmptySet DEF Count
<1>4. QED
  BY <1>2, <1>3

\* Append adds its element to the sequence.
LEMMA CountAppend ==
  ASSUME NEW S, NEW s \in Seq(S), NEW e \in S, NEW d
  PROVE  Count(Append(s, e), d) = Count(s, d) + IF e = d THEN 1 ELSE 0
<1>1. Append(s, e) = s \o <<e>> /\ <<e>> \in Seq(S)
  BY AppendIsConcat
<1>2. Count(s \o <<e>>, d) = Count(s, d) + Count(<<e>>, d)
  BY <1>1, CountConcat
<1>3. Count(<<e>>, d) = IF e = d THEN 1 ELSE 0
  BY CountSmall
<1>4. QED
  BY <1>1, <1>2, <1>3

\* Tail takes the head out of the sequence.
LEMMA CountTail ==
  ASSUME NEW S, NEW s \in Seq(S), s # <<>>, NEW d
  PROVE  /\ Count(s, d) = Count(Tail(s), d) + IF Head(s) = d THEN 1 ELSE 0
         /\ Head(s) \in S /\ Tail(s) \in Seq(S)
<1>1. s = <<Head(s)>> \o Tail(s) /\ <<Head(s)>> \in Seq(S) /\ Tail(s) \in Seq(S)
  BY SMTT(30)
<1>2. Count(<<Head(s)>>, d) \in Nat /\ Count(Tail(s), d) \in Nat
  BY <1>1, CountType
<1>3. Count(s, d) = Count(<<Head(s)>>, d) + Count(Tail(s), d)
  BY <1>1, CountConcat, ZenonT(30)
<1>4. QED
  BY <1>1, <1>2, <1>3, CountSmall

-----------------------------------------------------------------------------
(***************************************************************************)
(* The timers                                                              *)
(***************************************************************************)

\* The fields of the timers of a list.
LEMMA TimerFields ==
  ASSUME NEW list \in Seq(Timers), NEW i \in 1 .. Len(list)
  PROVE  /\ list[i] \in Timers
         /\ list[i].time \in Times /\ list[i].time \in Int
         /\ list[i].data \in Data
<1>1. list[i] \in Timers
  OBVIOUS
<1>2. QED
  BY <1>1, BoundAssumption DEF Timers, Times

\* A set of places that begins at 1 and has no gap is as long as its size.
LEMMA PrefixSize ==
  ASSUME NEW n \in Nat, NEW P \in SUBSET (1 .. n),
         \A i \in P : \A k \in 1 .. i : k \in P
  PROVE  /\ Cardinality(P) \in 0 .. n
         /\ \A i \in 1 .. n : i \in P <=> i <= Cardinality(P)
<1>1. IsFiniteSet(1 .. n) /\ Cardinality(1 .. n) = n
  BY FS_Interval
<1>2. IsFiniteSet(P) /\ Cardinality(P) <= n
  BY <1>1, FS_Subset, ZenonT(30)
<1>3. Cardinality(P) \in Nat
  BY <1>2, FS_CardinalityType
<1>4. ASSUME NEW i \in 1 .. n, i \in P
      PROVE  i <= Cardinality(P)
  <2>1. 1 .. i \in SUBSET P
    BY <1>4
  <2>2. Cardinality(1 .. i) <= Cardinality(P)
    BY <1>2, <2>1, FS_Subset
  <2>3. Cardinality(1 .. i) = i
    BY FS_Interval
  <2>4. QED
    BY <2>2, <2>3
<1>5. ASSUME NEW i \in 1 .. n, i \notin P
      PROVE  Cardinality(P) <= i - 1
  <2>1. P \in SUBSET (1 .. i - 1)
    BY <1>5
  <2>2. IsFiniteSet(1 .. i - 1) /\ Cardinality(1 .. i - 1) = i - 1
    BY FS_Interval
  <2>3. QED
    BY <2>1, <2>2, FS_Subset
<1>6. QED
  BY <1>2, <1>3, <1>4, <1>5

\* In a sorted list the timers before a time are the first ones.
LEMMA EarlierFirst ==
  ASSUME NEW list \in Seq(Timers), SortedByTime(list), NEW t \in Int
  PROVE  LET n == Cardinality({i \in 1 .. Len(list) : list[i].time < t})
         IN  /\ n \in 0 .. Len(list)
             /\ \A i \in 1 .. Len(list) : list[i].time < t <=> i <= n
<1> DEFINE P == {i \in 1 .. Len(list) : list[i].time < t}
<1>0. Len(list) \in Nat /\ \A i \in 1 .. Len(list) : list[i].time \in Int
  BY TimerFields
<1>1. P \in SUBSET (1 .. Len(list))
  OBVIOUS
<1>2. \A i \in P : \A k \in 1 .. i : k \in P
  BY <1>0 DEF SortedByTime
<1>3. /\ Cardinality(P) \in 0 .. Len(list)
      /\ \A i \in 1 .. Len(list) : i \in P <=> i <= Cardinality(P)
  <2> HIDE DEF P
  <2>1. QED
    BY <1>0, <1>1, <1>2, PrefixSize
<1>4. QED
  BY <1>3

\* The user_data of a list of timers, and of its parts.
LEMMA TimerDataType ==
  ASSUME NEW list \in Seq(Timers)
  PROVE  TimerData(list) \in Seq(Data)
<1>1. \A i \in 1 .. Len(list) : list[i].data \in Data
  BY TimerFields
<1>2. QED
  BY <1>1 DEF TimerData

LEMMA TimerDataConcat ==
  ASSUME NEW a \in Seq(Timers), NEW b \in Seq(Timers)
  PROVE  TimerData(a \o b) = TimerData(a) \o TimerData(b)
<1>1. TimerData(a) \in Seq(Data) /\ TimerData(b) \in Seq(Data)
  BY TimerDataType
<1>2. /\ Len(TimerData(a)) = Len(a) /\ Len(TimerData(b)) = Len(b)
      /\ \A i \in 1 .. Len(a) : TimerData(a)[i] = a[i].data
      /\ \A i \in 1 .. Len(b) : TimerData(b)[i] = b[i].data
  BY DEF TimerData
<1>3. /\ Len(a \o b) = Len(a) + Len(b)
      /\ \A i \in 1 .. Len(a) + Len(b) : (a \o b)[i] = IF i <= Len(a) THEN a[i] ELSE b[i - Len(a)]
      /\ a \o b \in Seq(Timers)
  BY ConcatProperties
<1>4. TimerData(a \o b) \in Seq(Data) /\ TimerData(a) \o TimerData(b) \in Seq(Data)
  BY <1>1, <1>3, TimerDataType, ConcatProperties
<1>5. Len(TimerData(a \o b)) = Len(TimerData(a) \o TimerData(b))
  BY <1>1, <1>2, <1>3 DEF TimerData
<1>6. ASSUME NEW i \in 1 .. Len(TimerData(a \o b))
      PROVE  TimerData(a \o b)[i] = (TimerData(a) \o TimerData(b))[i]
  <2>1. i \in 1 .. Len(a) + Len(b) /\ TimerData(a \o b)[i] = (a \o b)[i].data
    BY <1>3 DEF TimerData
  <2>2. (TimerData(a) \o TimerData(b))[i]
          = IF i <= Len(a) THEN TimerData(a)[i] ELSE TimerData(b)[i - Len(a)]
    BY <1>1, <1>2, <2>1, ConcatProperties
  <2>3. QED
    BY <1>2, <1>3, <2>1, <2>2
<1>7. QED
  BY <1>4, <1>5, <1>6, SeqEqual

\* InsertTimer puts one timer in, keeps the others, and keeps the list sorted.
LEMMA InsertTimerProperties ==
  ASSUME NEW list \in Seq(Timers), NEW timer \in Timers, SortedByTime(list), NEW x \in Data
  PROVE  /\ InsertTimer(list, timer) \in Seq(Timers)
         /\ InsertTimer(list, timer) # <<>>
         /\ SortedByTime(InsertTimer(list, timer))
         /\ Count(TimerData(InsertTimer(list, timer)), x)
              = Count(TimerData(list), x) + IF timer.data = x THEN 1 ELSE 0
<1> DEFINE n == Cardinality({i \in 1 .. Len(list) : list[i].time < timer.time})
           a == SubSeq(list, 1, n)
           b == SubSeq(list, n + 1, Len(list))
<1>1. /\ n \in 0 .. Len(list)
      /\ \A i \in 1 .. Len(list) : list[i].time < timer.time <=> i <= n
  <2>1. timer.time \in Int
    BY BoundAssumption DEF Timers, Times
  <2>2. QED
    BY <2>1, EarlierFirst
<1>2. InsertTimer(list, timer) = (a \o <<timer>>) \o b
  <2>1. InsertTimer(list, timer) = InsertAt(list, n + 1, timer)
    BY DEF InsertTimer
  <2> HIDE DEF n
  <2>2. (n + 1) - 1 = n
    BY <1>1
  <2>3. QED
    BY <2>1, <2>2 DEF InsertAt
<1> HIDE DEF n
<1>3. /\ a \in Seq(Timers) /\ Len(a) = n /\ \A i \in 1 .. n : a[i] = list[i]
      /\ b \in Seq(Timers) /\ Len(b) = Len(list) - n
      /\ \A i \in 1 .. Len(list) - n : b[i] = list[n + i]
      /\ <<timer>> \in Seq(Timers)
  BY <1>1
<1>4. list = a \o b
  <2>1. SubSeq(list, 1, n) \o SubSeq(list, n + 1, Len(list)) = SubSeq(list, 1, Len(list))
    <3>1. 1 \in 1 .. Len(list) + 1 /\ n \in 1 - 1 .. Len(list) /\ Len(list) \in n .. Len(list)
      BY <1>1
    <3>2. QED
      BY <3>1, ConcatAdjacentSubSeq
  <2>2. QED
    BY <2>1, SubSeqFull
<1> HIDE DEF a, b
<1>5. a \o <<timer>> \in Seq(Timers)
  BY <1>3
<1>6. SortedByTime(InsertTimer(list, timer))
  <2> DEFINE r == (a \o <<timer>>) \o b
  <2>0. /\ Len(a \o <<timer>>) = n + 1
        /\ \A i \in 1 .. n + 1 :
             (a \o <<timer>>)[i] = IF i <= n THEN list[i] ELSE timer
    BY <1>1, <1>3
  <2>1. /\ Len(r) = Len(list) + 1
        /\ \A i \in 1 .. Len(list) + 1 :
             r[i] = IF i <= n THEN list[i] ELSE IF i = n + 1 THEN timer ELSE list[i - 1]
    <3>1. Len(r) = n + 1 + (Len(list) - n)
      BY <1>3, <1>5, <2>0, ConcatProperties
    <3>2. \A i \in 1 .. n + 1 + (Len(list) - n) :
             r[i] = IF i <= n + 1 THEN (a \o <<timer>>)[i] ELSE b[i - (n + 1)]
      BY <1>3, <1>5, <2>0, ConcatProperties
    <3> HIDE DEF r
    <3>3. QED
      BY <1>1, <1>3, <2>0, <3>1, <3>2, SMTT(30)
  <2>2. \A i \in 1 .. Len(list) : list[i].time \in Int
    BY TimerFields
  <2>3. timer.time \in Int
    BY BoundAssumption DEF Timers, Times
  <2> HIDE DEF r
  <2>4. SUFFICES ASSUME NEW i \in 1 .. Len(r), NEW k \in 1 .. Len(r), i < k
                 PROVE  r[i].time <= r[k].time
    BY <1>2 DEF SortedByTime, r
  <2>5. i \in 1 .. Len(list) + 1 /\ k \in 1 .. Len(list) + 1 /\ i < k /\ n \in 0 .. Len(list)
    BY <1>1, <2>1, <2>4
  <2>6. CASE k <= n
    BY <2>1, <2>5, <2>6 DEF SortedByTime
  <2>7. CASE i <= n /\ k = n + 1
    <3>1. r[i] = list[i] /\ r[k] = timer /\ i \in 1 .. Len(list)
      BY <2>1, <2>5, <2>7
    <3>2. QED
      BY <1>1, <2>2, <2>3, <2>7, <3>1
  <2>8. CASE i <= n /\ k > n + 1
    <3>1. r[i] = list[i] /\ r[k] = list[k - 1] /\ i \in 1 .. Len(list) /\ k - 1 \in 1 .. Len(list)
          /\ i < k - 1
      BY <2>1, <2>5, <2>8
    <3>2. QED
      BY <3>1 DEF SortedByTime
  <2>9. CASE i = n + 1
    <3>1. r[i] = timer /\ r[k] = list[k - 1] /\ k - 1 \in 1 .. Len(list) /\ ~(k - 1 <= n)
      BY <2>1, <2>5, <2>9
    <3>2. QED
      BY <1>1, <2>2, <2>3, <3>1
  <2>10. CASE i > n + 1
    <3>1. r[i] = list[i - 1] /\ r[k] = list[k - 1] /\ i - 1 \in 1 .. Len(list)
          /\ k - 1 \in 1 .. Len(list) /\ i - 1 < k - 1
      BY <2>1, <2>5, <2>10
    <3>2. QED
      BY <3>1 DEF SortedByTime
  <2>11. QED
    BY <2>5, <2>6, <2>7, <2>8, <2>9, <2>10
<1>7. Count(TimerData(InsertTimer(list, timer)), x)
        = Count(TimerData(list), x) + IF timer.data = x THEN 1 ELSE 0
  <2>1. /\ TimerData(a) \in Seq(Data) /\ TimerData(b) \in Seq(Data)
        /\ TimerData(<<timer>>) \in Seq(Data)
    BY <1>3, TimerDataType
  <2> DEFINE at == TimerData(a) \o TimerData(<<timer>>)
  <2>11. at \in Seq(Data)
    BY <2>1
  <2>2. TimerData(InsertTimer(list, timer)) = (TimerData(a) \o TimerData(<<timer>>)) \o TimerData(b)
    BY <1>2, <1>3, <1>5, TimerDataConcat
  <2>3. TimerData(list) = TimerData(a) \o TimerData(b)
    BY <1>3, <1>4, TimerDataConcat
  <2>4. Count(at \o TimerData(b), x) = Count(at, x) + Count(TimerData(b), x)
    BY <2>1, <2>11, CountConcat
  <2>5. Count(TimerData(a) \o TimerData(<<timer>>), x)
          = Count(TimerData(a), x) + Count(TimerData(<<timer>>), x)
    BY <2>1, CountConcat
  <2>6. Count(TimerData(a) \o TimerData(b), x) = Count(TimerData(a), x) + Count(TimerData(b), x)
    BY <2>1, CountConcat
  <2>7. TimerData(<<timer>>) = <<timer.data>>
    BY DEF TimerData
  <2>8. Count(<<timer.data>>, x) = IF timer.data = x THEN 1 ELSE 0
    BY CountSmall
  <2>9. Count(TimerData(a), x) \in Nat /\ Count(TimerData(b), x) \in Nat
    BY <2>1, CountType
  <2> HIDE DEF at
  <2>12. TimerData(InsertTimer(list, timer)) = at \o TimerData(b)
    BY <2>2 DEF at
  <2>13. Count(at, x) = Count(TimerData(a), x) + IF timer.data = x THEN 1 ELSE 0
    BY <2>5, <2>7, <2>8 DEF at
  <2>10. QED
    BY <2>12, <2>13, <2>3, <2>4, <2>5, <2>6, <2>7, <2>8, <2>9
<1>8. QED
  BY <1>2, <1>3, <1>5, <1>6, <1>7

\* update_timer_tasks moves the first n timers to the ready queue: none is
\* lost, none is doubled, and the rest stays sorted.
LEMMA MoveTimers ==
  ASSUME NEW list \in Seq(Timers), NEW n \in 0 .. Len(list), NEW queue \in Seq(Data), NEW x \in Data
  PROVE  LET moved == [i \in 1 .. n |-> list[i].data]
             rest  == SubSeq(list, n + 1, Len(list))
         IN  /\ queue \o moved \in Seq(Data) /\ rest \in Seq(Timers)
             /\ SortedByTime(list) => SortedByTime(rest)
             /\ Count(queue \o moved, x) + Count(TimerData(rest), x)
                  = Count(queue, x) + Count(TimerData(list), x)
<1> DEFINE moved == [i \in 1 .. n |-> list[i].data]
           rest  == SubSeq(list, n + 1, Len(list))
           first == SubSeq(list, 1, n)
<1>1. /\ first \in Seq(Timers) /\ Len(first) = n /\ \A i \in 1 .. n : first[i] = list[i]
      /\ rest \in Seq(Timers) /\ Len(rest) = Len(list) - n
      /\ \A i \in 1 .. Len(list) - n : rest[i] = list[n + i]
  OBVIOUS
<1>2. list = first \o rest
  <2>1. 1 \in 1 .. Len(list) + 1 /\ n \in 1 - 1 .. Len(list) /\ Len(list) \in n .. Len(list)
    OBVIOUS
  <2>2. SubSeq(list, 1, n) \o SubSeq(list, n + 1, Len(list)) = SubSeq(list, 1, Len(list))
    BY <2>1, ConcatAdjacentSubSeq
  <2>3. QED
    BY <2>2, SubSeqFull
<1> HIDE DEF first, rest
<1>3. moved = TimerData(first)
  BY <1>1 DEF TimerData
<1>4. moved \in Seq(Data) /\ TimerData(first) \in Seq(Data) /\ TimerData(rest) \in Seq(Data)
  BY <1>1, <1>3, TimerDataType
<1> HIDE DEF moved
<1>5. TimerData(list) = TimerData(first) \o TimerData(rest)
  BY <1>1, <1>2, TimerDataConcat
<1>6. Count(TimerData(list), x) = Count(moved, x) + Count(TimerData(rest), x)
  BY <1>3, <1>4, <1>5, CountConcat
<1>7. Count(queue \o moved, x) = Count(queue, x) + Count(moved, x)
  BY <1>4, CountConcat
<1>8. Count(queue, x) \in Nat /\ Count(moved, x) \in Nat /\ Count(TimerData(rest), x) \in Nat
  BY <1>4, CountType
<1>9. ASSUME SortedByTime(list)
      PROVE  SortedByTime(rest)
  <2> SUFFICES ASSUME NEW i \in 1 .. Len(rest), NEW k \in 1 .. Len(rest), i < k
               PROVE  rest[i].time <= rest[k].time
    BY DEF SortedByTime
  <2>1. /\ rest[i] = list[n + i] /\ rest[k] = list[n + k]
        /\ n + i \in 1 .. Len(list) /\ n + k \in 1 .. Len(list) /\ n + i < n + k
    BY <1>1
  <2>2. QED
    BY <1>9, <2>1 DEF SortedByTime
<1>10. queue \o moved \in Seq(Data)
  BY <1>4
<1>11. Count(queue \o moved, x) + Count(TimerData(rest), x)
         = Count(queue, x) + Count(TimerData(list), x)
  BY <1>6, <1>7, <1>8
<1>12. QED
  BY <1>1, <1>9, <1>10, <1>11 DEF moved, rest

-----------------------------------------------------------------------------
(***************************************************************************)
(* Types                                                                   *)
(***************************************************************************)

\* The number of due timers.
LEMMA DueType ==
  ASSUME TypeOK, TimersSorted
  PROVE  /\ Due \in 0 .. Len(time_tasks)
         /\ \A i \in 1 .. Len(time_tasks) : time_tasks[i].time < now <=> i <= Due
<1>1. now \in Int /\ time_tasks \in Seq(Timers)
  BY BoundAssumption DEF TypeOK, Times
<1>2. QED
  BY <1>1, EarlierFirst DEF TimersSorted, Due

\* The completions that have not been processed are a sequence.
LEMMA UnseenType ==
  ASSUME TypeOK, ControlInv
  PROVE  Unseen \in Seq(Data)
BY DEF TypeOK, ControlInv, Unseen

\* Whoever runs belongs to a job.
LEMMA CurrentJobType ==
  ASSUME TypeOK, ControlInv
  PROVE  /\ current_job \in Jobs \union {None}
         /\ running # None => current_job = owner[running] /\ current_job \in Jobs
         /\ phase # "none" => running # None /\ running \in Data /\ current_job \in Jobs
BY NoneAssumption DEF TypeOK, ControlInv, current_job

\* Whoever runs is a coroutine.
LEMMA ResumedType ==
  ASSUME TypeOK, ControlInv
  PROVE  phase \in {"code", "sqe"} => resumed \in Frames /\ resumed = handle[running]
BY DEF TypeOK, ControlInv, resumed

\* Every step keeps every variable in its type.
LEMMA TypeNext ==
  ASSUME TypeOK, ControlInv, TimersSorted, [Next]_vars
  PROVE  TypeOK'
<1> USE NoneAssumption, CurrentJobType, ResumedType
<1>1. CASE UNCHANGED vars
  BY <1>1 DEF TypeOK, vars, jobVars, dataVars, ioVars, queueVars
<1>2. CASE RunCall \/ Check \/ WaitTimeout \/ WaitInterrupted \/ PeekNothing \/ ReadyDrained \/ WaitersDone
  BY <1>2 DEF TypeOK, jobVars, dataVars, ioVars, queueVars, RunCall, Check, WaitTimeout, WaitInterrupted,
              PeekNothing, ReadyDrained, WaitersDone
<1>3. CASE WaitCqe \/ PeekFound
  BY <1>3 DEF TypeOK, jobVars, dataVars, WaitCqe, PeekFound, process_cqe, Resume
<1>4. CASE CqeSeen
  BY <1>4 DEF TypeOK, ControlInv, jobVars, dataVars, queueVars, CqeSeen
<1>5. CASE update_timer_tasks
  <2>1. Due \in 0 .. Len(time_tasks)
    BY DueType
  <2>2. time_tasks \in Seq(Timers) /\ ready_queue \in Seq(Data)
    BY DEF TypeOK
  <2>3. ready_queue' \in Seq(Data) /\ time_tasks' \in Seq(Timers)
    <3>1. CASE Data = {}
      <4>1. time_tasks = <<>>
        <5>1. ASSUME time_tasks # <<>> PROVE FALSE
          BY <2>2, <3>1, <5>1, TimerFields
        <5>2. QED
          BY <5>1
      <4>2. Due = 0
        BY <2>1, <4>1
      <4>3. QED
        BY <1>5, <2>2, <4>1, <4>2 DEF update_timer_tasks
    <3>2. CASE Data # {}
      BY <1>5, <2>1, <2>2, <3>2, MoveTimers DEF update_timer_tasks
    <3>3. QED
      BY <3>1, <3>2
  <2>4. QED
    BY <1>5, <2>3 DEF TypeOK, jobVars, dataVars, ioVars, update_timer_tasks
<1>6. CASE ResumeReady
  BY <1>6 DEF TypeOK, jobVars, dataVars, ResumeReady, Resume
<1>7. CASE ResumeWaiter
  BY <1>7 DEF TypeOK, jobVars, dataVars, ResumeWaiter, Resume
<1>8. CASE Finish
  BY <1>8 DEF TypeOK, dataVars, ioVars, queueVars, Finish
<1>20. CASE acquire
  BY <1>20, BoundAssumption DEF TypeOK, jobVars, queueVars, acquire, Suspend
<1>21. ASSUME NEW f \in Frames, NEW d \in Data, release(f, d)
       PROVE  TypeOK'
  <2>1. current_job \in Jobs
    BY <1>21 DEF release
  <2>2. QED
    BY <1>21, <2>1 DEF TypeOK, jobVars, ioVars, release, user_data_lifetime_begin
<1>9. ASSUME NEW d \in Data, enqueue(d)
      PROVE  TypeOK'
  BY <1>9, BoundAssumption DEF TypeOK, jobVars, dataVars, enqueue, Suspend, Await, user_data_lifetime_begin
<1>10. ASSUME NEW d \in Data, enqueue_sqe_waiter(d)
       PROVE  TypeOK'
  BY <1>10, BoundAssumption DEF TypeOK, jobVars, dataVars, enqueue_sqe_waiter, Suspend, Await, user_data_lifetime_begin
<1>11. ASSUME NEW d \in Data, get_sqe(d)
       PROVE  TypeOK'
  BY <1>11, BoundAssumption DEF TypeOK, jobVars, dataVars, queueVars, get_sqe, Suspend, Await, user_data_lifetime_begin
<1>12. ASSUME NEW d \in Data, NEW t \in Times, add_sleep_task(t, d)
       PROVE  TypeOK'
  <2>1. [time |-> t, data |-> d] \in Timers
    BY DEF Timers
  <2>2. InsertTimer(time_tasks, [time |-> t, data |-> d]) \in Seq(Timers)
    BY <2>1, InsertTimerProperties DEF TypeOK, TimersSorted
  <2>3. ready_queue' \in Seq(Data) /\ time_tasks' \in Seq(Timers)
    <3>1. ready_queue \in Seq(Data) /\ time_tasks \in Seq(Timers)
      BY DEF TypeOK
    <3>2. \/ ready_queue' = Append(ready_queue, d) /\ time_tasks' = time_tasks
          \/ ready_queue' = ready_queue
             /\ time_tasks' = InsertTimer(time_tasks, [time |-> t, data |-> d])
      BY <1>12 DEF add_sleep_task
    <3>3. Append(ready_queue, d) \in Seq(Data)
      BY <3>1, AppendProperties
    <3> HIDE DEF InsertTimer
    <3>4. QED
      BY <2>2, <3>1, <3>2, <3>3, Zenon
  <2>4. QED
    BY <1>12, <2>3, BoundAssumption, SMTT(30) DEF TypeOK, jobVars, dataVars, add_sleep_task, Suspend, Await, user_data_lifetime_begin
<1>13. CASE user_data_lifetime_end
  BY <1>13 DEF TypeOK, ioVars, queueVars, user_data_lifetime_end
<1>14. CASE job_lifetime_end
  BY <1>14 DEF TypeOK, ioVars, queueVars, job_lifetime_end
<1>15. ASSUME NEW d \in Data, KernelTakes(d) \/ KernelCompletes(d)
       PROVE  TypeOK'
  <2>1. CASE KernelTakes(d)
    BY <2>1 DEF TypeOK, jobVars, dataVars, queueVars, KernelTakes
  <2>2. CASE KernelCompletes(d)
    BY <2>2 DEF TypeOK, jobVars, dataVars, queueVars, KernelCompletes
  <2>3. QED
    BY <1>15, <2>1, <2>2
<1>16. CASE Tick
  BY <1>16, BoundAssumption DEF TypeOK, jobVars, dataVars, ioVars, queueVars, Tick, Times
<1>17. ASSUME NEW j \in Jobs, NEW d \in Data, NEW f \in Frames,
              SpawnRoot(j, d, f) \/ SpawnChild(j, d, f)
       PROVE  TypeOK'
  <2>1. spawn(j, d, f)
    BY <1>17 DEF SpawnRoot, SpawnChild
  <2>2. /\ jobs' \subseteq Jobs /\ parent' \in [Jobs -> Jobs \union {None}]
        /\ children' \in [Jobs -> SUBSET Jobs] /\ inflight_jobs' \in Int
    BY <2>1 DEF TypeOK, spawn, job_lifetime_begin
  <2>3. /\ completions' \in [Jobs -> SUBSET Data] /\ owner' \in [Data -> Jobs \union {None}]
        /\ awaits' \in [Frames -> 0 .. MaxAwaits] /\ spawned' \in 0 .. MaxSpawns
        /\ ready_queue' \in Seq(Data) /\ coroutine' \subseteq Frames /\ handle' \in [Data -> Frames \union {None}]
    BY <2>1, BoundAssumption DEF TypeOK, spawn, user_data_lifetime_begin
  <2>4. QED
    BY <2>1, <2>2, <2>3 DEF TypeOK, ioVars, spawn
<1>18. QED
  BY <1>1, <1>2, <1>3, <1>4, <1>5, <1>6, <1>7, <1>8, <1>9, <1>10, <1>11, <1>12, <1>13, <1>14,
     <1>15, <1>16, <1>17, <1>20, <1>21
     DEF Next, Loop, Coroutine, Lifetime, Kernel

-----------------------------------------------------------------------------
(***************************************************************************)
(* Jobs, user_data and coroutines                                          *)
(***************************************************************************)

\* d holds the coroutine f, which is suspended
Holds(d, f) == handle[d] = f /\ d # running

\* the coroutine f is suspended
Suspended(f) == f \in coroutine /\ ~(phase \in {"code", "sqe"} /\ resumed = f)

\* SuspendedOnce, without the cardinality
SuspendedExact ==
  \A f \in Frames :
    /\ f \in parked => Suspended(f) /\ \A x \in Data : ~Holds(x, f)
    /\ Suspended(f) /\ f \notin parked => \E d \in Data : \A x \in Data : Holds(x, f) <=> x = d
    /\ ~Suspended(f) => \A x \in Data : ~Holds(x, f)

\* The part of the invariant about the tree of jobs, which only a resume, the
\* steps of a coroutine and the ends of lifetimes can disturb.
JobInv ==
  /\ OwnersAgree /\ ParentsAgree /\ SuspendedExact
  /\ running = None <=> phase = "none"
  /\ running # None => ending = None /\ owner[running] # None
  /\ phase \in {"code", "sqe"} => resumed \in coroutine
  /\ ending # None =>
       /\ ending \in jobs
       /\ completions[ending] = {} /\ children[ending] = {}
  /\ \A j \in jobs : completions[j] # {} \/ children[j] # {} \/ j = ending
  /\ inflight_jobs = Cardinality(jobs)

\* One element or none, as a cardinality.
LEMMA OneOrNone ==
  ASSUME NEW S, IsFiniteSet(S)
  PROVE  /\ Cardinality(S) = 0 <=> S = {}
         /\ Cardinality(S) = 1 <=> \E d \in S : S = {d}
<1>1. Cardinality(S) = 0 <=> S = {}
  BY FS_EmptySet
<1>2. Cardinality(S) = 1 <=> \E d : S = {d}
  BY FS_Singleton
<1>3. QED
  BY <1>1, <1>2

LEMMA SuspendedForms ==
  ASSUME TypeOK
  PROVE  SuspendedOnce <=> SuspendedExact
<1> DEFINE S(f) == {d \in Data \ {running} : handle[d] = f}
<1>1. ASSUME NEW f \in Frames
      PROVE  IsFiniteSet(S(f)) /\ \A x \in Data : Holds(x, f) <=> x \in S(f)
  <2>1. S(f) \in SUBSET Data
    OBVIOUS
  <2>2. IsFiniteSet(S(f))
    BY <2>1, FiniteAssumption, FS_Subset
  <2>3. QED
    BY <2>2 DEF Holds
<1>2. ASSUME NEW f \in Frames
      PROVE  /\ Cardinality(S(f)) \in Nat
             /\ Cardinality(S(f)) = 0 <=> \A x \in Data : ~Holds(x, f)
             /\ Cardinality(S(f)) = 1 <=> \E d \in Data : \A x \in Data : Holds(x, f) <=> x = d
  <2>1. S(f) \in SUBSET Data
    OBVIOUS
  <2>2. Cardinality(S(f)) = 0 <=> S(f) = {}
    BY <1>1, OneOrNone
  <2>3. Cardinality(S(f)) = 1 <=> \E d \in S(f) : S(f) = {d}
    BY <1>1, OneOrNone
  <2>4. Cardinality(S(f)) \in Nat
    BY <1>1, FS_CardinalityType
  <2> HIDE DEF S
  <2>5. S(f) = {} <=> \A x \in Data : ~Holds(x, f)
    BY <1>1, <2>1
  <2>6. (\E d \in S(f) : S(f) = {d}) <=> \E d \in Data : \A x \in Data : Holds(x, f) <=> x = d
    BY <1>1, <2>1
  <2>7. QED
    BY <2>2, <2>3, <2>4, <2>5, <2>6
<1>3. SuspendedOnce <=>
        \A f \in Frames : Cardinality(S(f)) + CountIn(parked, f) = IF Suspended(f) THEN 1 ELSE 0
  BY DEF SuspendedOnce, Suspended
<1>4. ASSUME NEW f \in Frames
      PROVE  (Cardinality(S(f)) + CountIn(parked, f) = IF Suspended(f) THEN 1 ELSE 0) <=>
               /\ f \in parked => Suspended(f) /\ \A x \in Data : ~Holds(x, f)
               /\ Suspended(f) /\ f \notin parked =>
                    \E d \in Data : \A x \in Data : Holds(x, f) <=> x = d
               /\ ~Suspended(f) => \A x \in Data : ~Holds(x, f)
  <2> DEFINE n == Cardinality(S(f))
             none == \A x \in Data : ~Holds(x, f)
             one == \E d \in Data : \A x \in Data : Holds(x, f) <=> x = d
  <2>1. n \in Nat /\ (n = 0 <=> none) /\ (n = 1 <=> one)
    BY <1>2
  <2>2. CountIn(parked, f) = IF f \in parked THEN 1 ELSE 0
    BY DEF CountIn
  <2> HIDE DEF n, none, one, S
  <2>3. (n + CountIn(parked, f) = IF Suspended(f) THEN 1 ELSE 0) <=>
          /\ f \in parked => Suspended(f) /\ none
          /\ Suspended(f) /\ f \notin parked => one
          /\ ~Suspended(f) => none
    <3>1. CASE f \in parked
      <4>1. n + CountIn(parked, f) = n + 1
        BY <2>2, <3>1
      <4>2. (n + CountIn(parked, f) = IF Suspended(f) THEN 1 ELSE 0) <=> Suspended(f) /\ n = 0
        BY <2>1, <4>1
      <4>3. QED
        BY <2>1, <3>1, <4>2
    <3>2. CASE f \notin parked
      <4>1. n + CountIn(parked, f) = n
        BY <2>1, <2>2, <3>2
      <4>2. (n + CountIn(parked, f) = IF Suspended(f) THEN 1 ELSE 0)
              <=> (Suspended(f) => n = 1) /\ (~Suspended(f) => n = 0)
        BY <2>1, <4>1
      <4>3. QED
        BY <2>1, <3>2, <4>2
    <3>3. QED
      BY <3>1, <3>2
  <2>4. QED
    BY <2>3 DEF n, none, one
<1> HIDE DEF S
<1>5. QED
  BY <1>3, <1>4 DEF SuspendedExact

\* A user_data that is in use and not the resumed one belongs to a coroutine
\* that is suspended, and not in a semaphore.
LEMMA HolderSuspended ==
  ASSUME TypeOK, JobInv, NEW d \in Data, owner[d] # None, d # running
  PROVE  /\ owner[d] \in Jobs /\ handle[d] \in Frames /\ Suspended(handle[d])
         /\ handle[d] \in coroutine /\ handle[d] \notin parked
<1>1. handle[d] \in Frames /\ owner[d] \in Jobs
  BY DEF TypeOK, JobInv, OwnersAgree
<1>2. Holds(d, handle[d])
  BY DEF Holds
<1>3. QED
  BY <1>1, <1>2 DEF JobInv, SuspendedExact, Suspended

\* The coroutine that runs is held by nothing but what resumed it.
LEMMA ResumedAlone ==
  ASSUME TypeOK, JobInv, phase \in {"code", "sqe"}
  PROVE  /\ running \in Data /\ running # None /\ ending = None
         /\ current_job = owner[running] /\ current_job \in Jobs /\ current_job \in jobs
         /\ resumed = handle[running] /\ resumed \in Frames /\ resumed \in coroutine
         /\ resumed \notin parked /\ \A x \in Data : handle[x] = resumed => x = running
<1>1. /\ running \in Data /\ running # None /\ ending = None
      /\ current_job = owner[running] /\ resumed = handle[running] /\ resumed \in coroutine
  BY NoneAssumption DEF TypeOK, JobInv, current_job, resumed
<1>2. current_job \in Jobs /\ current_job \in jobs /\ resumed \in Frames
  BY <1>1 DEF TypeOK, JobInv, OwnersAgree
<1>3. ~Suspended(resumed)
  BY <1>1 DEF Suspended
<1>4. resumed \notin parked /\ \A x \in Data : ~Holds(x, resumed)
  BY <1>2, <1>3 DEF JobInv, SuspendedExact
<1>5. QED
  BY <1>1, <1>2, <1>4 DEF Holds

\* The steps that leave the jobs and the user_data alone.
LEMMA JobsSame ==
  ASSUME TypeOK, JobInv,
         UNCHANGED <<running, phase, ending, jobs, parent, children, completions, inflight_jobs,
                     coroutine, owner, handle, parked>>
  PROVE  JobInv'
<1>1. resumed' = resumed
  BY DEF resumed
<1>2. SuspendedExact'
  BY <1>1 DEF JobInv, SuspendedExact, Suspended, Holds
<1>3. QED
  BY <1>1, <1>2 DEF JobInv, OwnersAgree, ParentsAgree

\* A resume of the coroutine that d holds.
LEMMA JobsResume ==
  ASSUME TypeOK, JobInv, NEW d \in Data, NEW then \in {"code", "sqe"},
         Returned, owner[d] # None, Resume(d, then)
  PROVE  JobInv'
<1> USE NoneAssumption
<1> DEFINE r == handle[d]
<1>1. r \in Frames /\ Suspended(r) /\ r \in coroutine /\ r \notin parked
  BY HolderSuspended DEF Returned
<1>2. UNCHANGED <<ending, jobs, parent, children, completions, inflight_jobs, coroutine, owner,
                  handle, parked>>
  BY DEF Resume, jobVars, dataVars
<1>3. running' = d /\ phase' = then /\ phase = "none" /\ running = None /\ ending = None
  BY DEF Resume, Returned, JobInv
<1>4. resumed' = r
  BY <1>2, <1>3 DEF resumed
<1>5. SuspendedExact'
  <2> SUFFICES ASSUME NEW f \in Frames
               PROVE  /\ f \in parked' => Suspended(f)' /\ \A x \in Data : ~Holds(x, f)'
                      /\ Suspended(f)' /\ f \notin parked' =>
                           \E e \in Data : \A x \in Data : Holds(x, f)' <=> x = e
                      /\ ~Suspended(f)' => \A x \in Data : ~Holds(x, f)'
    BY DEF SuspendedExact
  <2>1. Suspended(f)' <=> f \in coroutine /\ r # f
    BY <1>2, <1>3, <1>4 DEF Suspended
  <2>2. Suspended(f) <=> f \in coroutine
    BY <1>3 DEF Suspended
  <2>3. \A x \in Data : Holds(x, f)' <=> handle[x] = f /\ x # d
    BY <1>2, <1>3 DEF Holds
  <2>4. \A x \in Data : Holds(x, f) <=> handle[x] = f
    BY <1>3 DEF Holds
  <2>5. Holds(d, r)
    BY <1>3 DEF Holds
  <2> HIDE DEF r
  <2>6. CASE f = r
    BY <1>1, <1>2, <2>1, <2>2, <2>3, <2>4, <2>5, <2>6 DEF JobInv, SuspendedExact
  <2>7. CASE f # r
    <3>1. handle[d] # f
      BY <2>7 DEF r
    <3>2. \A x \in Data : Holds(x, f)' <=> Holds(x, f)
      BY <2>3, <2>4, <3>1
    <3>3. QED
      BY <1>2, <2>1, <2>2, <2>7, <3>2 DEF JobInv, SuspendedExact
  <2>8. QED
    BY <2>6, <2>7
<1>6. OwnersAgree' /\ ParentsAgree'
  BY <1>2 DEF JobInv, OwnersAgree, ParentsAgree
<1>7. QED
  BY <1>1, <1>2, <1>3, <1>4, <1>5, <1>6 DEF JobInv

\* A new user_data for a job in use: it and its job know each other.
LEMMA OwnersBegin ==
  ASSUME TypeOK, OwnersAgree, NEW d \in Data, NEW c \in Jobs, NEW f \in Frames,
         user_data_lifetime_begin(d, c, f), jobs \subseteq jobs', c \in jobs'
  PROVE  /\ OwnersAgree'
         /\ \A x \in Data : owner'[x] = IF x = d THEN c ELSE owner[x]
         /\ \A x \in Data : handle'[x] = IF x = d THEN f ELSE handle[x]
         /\ \A j \in Jobs : completions'[j] = IF j = c THEN completions[j] \union {d} ELSE completions[j]
         /\ owner[d] = None /\ handle[d] = None
<1> USE NoneAssumption
<1>1. /\ owner[d] = None
      /\ owner' = [owner EXCEPT ![d] = c]
      /\ handle' = [handle EXCEPT ![d] = f]
      /\ completions' = [completions EXCEPT ![c] = @ \union {d}]
  BY DEF user_data_lifetime_begin
<1>2. \A x \in Data : owner'[x] = IF x = d THEN c ELSE owner[x]
  BY <1>1 DEF TypeOK
<1>3. \A x \in Data : handle'[x] = IF x = d THEN f ELSE handle[x]
  BY <1>1 DEF TypeOK
<1>4. \A j \in Jobs : completions'[j] = IF j = c THEN completions[j] \union {d} ELSE completions[j]
  BY <1>1 DEF TypeOK
<1>5. \A j \in Jobs : completions'[j] = {x \in Data : owner'[x] = j}
  BY <1>1, <1>2, <1>4 DEF OwnersAgree
<1>6. \A x \in Data : owner'[x] # None => owner'[x] \in jobs'
  BY <1>2 DEF OwnersAgree
<1>7. \A x \in Data : owner'[x] = None <=> handle'[x] = None
  BY <1>2, <1>3 DEF OwnersAgree
<1>8. QED
  BY <1>1, <1>2, <1>3, <1>4, <1>5, <1>6, <1>7 DEF OwnersAgree

\* An await of the resumed coroutine.
LEMMA JobsAwait ==
  ASSUME TypeOK, JobInv, NEW d \in Data, phase \in {"code", "sqe"}, Await(d)
  PROVE  JobInv'
<1> USE NoneAssumption
<1> DEFINE c == current_job
           r == resumed
<1>1. /\ running \in Data /\ running # None /\ c = owner[running] /\ c \in Jobs /\ c \in jobs
      /\ ending = None /\ r = handle[running] /\ r \in Frames /\ r \in coroutine /\ r \notin parked
      /\ \A x \in Data : handle[x] = r => x = running
  BY ResumedAlone
<1>2. /\ user_data_lifetime_begin(d, c, r) /\ phase' = "over"
      /\ UNCHANGED <<running, ending, jobs, parent, children, inflight_jobs, coroutine, parked>>
  BY DEF Await, Suspend, jobVars
<1> HIDE DEF c, r
<1>3. /\ OwnersAgree'
      /\ \A x \in Data : owner'[x] = IF x = d THEN c ELSE owner[x]
      /\ \A x \in Data : handle'[x] = IF x = d THEN r ELSE handle[x]
      /\ \A j \in Jobs : completions'[j] = IF j = c THEN completions[j] \union {d} ELSE completions[j]
      /\ owner[d] = None /\ handle[d] = None
  BY <1>1, <1>2, OwnersBegin DEF JobInv
<1>4. d # running
  BY <1>1, <1>3
<1>6. SuspendedExact'
  <2> SUFFICES ASSUME NEW f \in Frames
               PROVE  /\ f \in parked' => Suspended(f)' /\ \A x \in Data : ~Holds(x, f)'
                      /\ Suspended(f)' /\ f \notin parked' =>
                           \E e \in Data : \A x \in Data : Holds(x, f)' <=> x = e
                      /\ ~Suspended(f)' => \A x \in Data : ~Holds(x, f)'
    BY DEF SuspendedExact
  <2>1. Suspended(f)' <=> f \in coroutine
    BY <1>2 DEF Suspended
  <2>2. Suspended(f) <=> f \in coroutine /\ f # r
    BY DEF Suspended, r
  <2>3. \A x \in Data : Holds(x, f)' <=> Holds(x, f) \/ (x = d /\ f = r)
    BY <1>1, <1>2, <1>3, <1>4 DEF Holds
  <2>4. QED
    BY <1>1, <1>2, <2>1, <2>2, <2>3 DEF JobInv, SuspendedExact
<1>7. ParentsAgree'
  BY <1>2 DEF JobInv, ParentsAgree
<1>8. \A j \in jobs' : completions'[j] # {} \/ children'[j] # {} \/ j = ending'
  <2>1. \A j \in Jobs : completions[j] # {} => completions'[j] # {}
    BY <1>3
  <2>2. QED
    BY <1>2, <2>1 DEF TypeOK, JobInv
<1>9. owner'[running'] # None
  BY <1>1, <1>2, <1>3
<1>10. QED
  BY <1>1, <1>2, <1>3, <1>6, <1>7, <1>8, <1>9 DEF JobInv

\* The resumed coroutine waits for a semaphore.
LEMMA JobsAcquire ==
  ASSUME TypeOK, JobInv, acquire
  PROVE  JobInv'
<1> USE NoneAssumption
<1> DEFINE r == resumed
<1>1. /\ running \in Data /\ running # None /\ ending = None /\ r \in Frames /\ r \in coroutine
      /\ r \notin parked /\ \A x \in Data : handle[x] = r => x = running
  BY ResumedAlone DEF acquire
<1>2. /\ phase = "code" /\ phase' = "over" /\ parked' = parked \union {r}
      /\ UNCHANGED <<running, ending, jobs, parent, children, inflight_jobs, coroutine, completions,
                     owner, handle>>
  BY DEF acquire, Suspend, jobVars
<1>3. SuspendedExact'
  <2> SUFFICES ASSUME NEW f \in Frames
               PROVE  /\ f \in parked' => Suspended(f)' /\ \A x \in Data : ~Holds(x, f)'
                      /\ Suspended(f)' /\ f \notin parked' =>
                           \E e \in Data : \A x \in Data : Holds(x, f)' <=> x = e
                      /\ ~Suspended(f)' => \A x \in Data : ~Holds(x, f)'
    BY DEF SuspendedExact
  <2>1. Suspended(f)' <=> f \in coroutine
    BY <1>2 DEF Suspended
  <2>2. Suspended(f) <=> f \in coroutine /\ f # r
    BY <1>2 DEF Suspended
  <2>3. \A x \in Data : Holds(x, f)' <=> Holds(x, f)
    BY <1>2 DEF Holds
  <2>4. f = r => \A x \in Data : ~Holds(x, f)
    BY <1>1 DEF Holds
  <2> HIDE DEF r
  <2>5. QED
    BY <1>1, <1>2, <2>1, <2>2, <2>3, <2>4 DEF JobInv, SuspendedExact
<1> HIDE DEF r
<1>4. OwnersAgree' /\ ParentsAgree'
  BY <1>2 DEF JobInv, OwnersAgree, ParentsAgree
<1>5. QED
  BY <1>1, <1>2, <1>3, <1>4 DEF JobInv

\* The resumed coroutine wakes another one that waits for a semaphore.
LEMMA JobsRelease ==
  ASSUME TypeOK, JobInv, NEW w \in Frames, NEW d \in Data, release(w, d)
  PROVE  JobInv'
<1> USE NoneAssumption
<1> DEFINE c == current_job
           r == resumed
<1>1. /\ running \in Data /\ running # None /\ c = owner[running] /\ c \in Jobs /\ c \in jobs
      /\ ending = None /\ r = handle[running] /\ r \in Frames /\ r \in coroutine /\ r \notin parked
  BY ResumedAlone DEF release
<1>2. /\ user_data_lifetime_begin(d, c, w) /\ w \in parked /\ parked' = parked \ {w} /\ phase = "code"
      /\ UNCHANGED <<running, phase, ending, jobs, parent, children, inflight_jobs, coroutine>>
  BY DEF release, jobVars
<1> HIDE DEF c
<1>3. /\ OwnersAgree'
      /\ \A x \in Data : owner'[x] = IF x = d THEN c ELSE owner[x]
      /\ \A x \in Data : handle'[x] = IF x = d THEN w ELSE handle[x]
      /\ \A j \in Jobs : completions'[j] = IF j = c THEN completions[j] \union {d} ELSE completions[j]
      /\ owner[d] = None /\ handle[d] = None
  BY <1>1, <1>2, OwnersBegin DEF JobInv
<1>4. d # running
  BY <1>1, <1>3
<1>5. resumed' = r
  BY <1>1, <1>2, <1>3, <1>4 DEF resumed
<1>6. SuspendedExact'
  <2> SUFFICES ASSUME NEW f \in Frames
               PROVE  /\ f \in parked' => Suspended(f)' /\ \A x \in Data : ~Holds(x, f)'
                      /\ Suspended(f)' /\ f \notin parked' =>
                           \E e \in Data : \A x \in Data : Holds(x, f)' <=> x = e
                      /\ ~Suspended(f)' => \A x \in Data : ~Holds(x, f)'
    BY DEF SuspendedExact
  <2>1. Suspended(f)' <=> Suspended(f)
    BY <1>2, <1>5 DEF Suspended
  <2>3. \A x \in Data : Holds(x, f)' <=> Holds(x, f) \/ (x = d /\ f = w)
    BY <1>1, <1>2, <1>3, <1>4 DEF Holds
  <2>4. QED
    BY <1>1, <1>2, <2>1, <2>3 DEF JobInv, SuspendedExact
<1>7. ParentsAgree'
  BY <1>2 DEF JobInv, ParentsAgree
<1>8. \A j \in jobs' : completions'[j] # {} \/ children'[j] # {} \/ j = ending'
  <2>1. \A j \in Jobs : completions[j] # {} => completions'[j] # {}
    BY <1>3
  <2>2. QED
    BY <1>2, <2>1 DEF TypeOK, JobInv
<1>9. owner'[running'] # None
  BY <1>1, <1>2, <1>3
<1> HIDE DEF r
<1>10. QED
  BY <1>1, <1>2, <1>3, <1>5, <1>6, <1>7, <1>8, <1>9 DEF JobInv

\* The end of the resumed coroutine.
LEMMA JobsFinish ==
  ASSUME TypeOK, JobInv, Finish
  PROVE  JobInv'
<1> USE NoneAssumption
<1> DEFINE r == resumed
<1>1. /\ running \in Data /\ running # None /\ ending = None /\ r \in Frames /\ r \in coroutine
      /\ r \notin parked /\ phase = "code"
  BY ResumedAlone DEF Finish
<1>2. /\ phase' = "over" /\ coroutine' = coroutine \ {r}
      /\ UNCHANGED <<running, ending, jobs, parent, children, completions, inflight_jobs, owner,
                     handle, parked>>
  BY DEF Finish, dataVars
<1>3. SuspendedExact'
  <2> SUFFICES ASSUME NEW f \in Frames
               PROVE  (Suspended(f)' <=> Suspended(f)) /\ \A x \in Data : Holds(x, f)' <=> Holds(x, f)
    BY <1>2 DEF JobInv, SuspendedExact
  <2>1. Suspended(f)' <=> f \in coroutine \ {r}
    BY <1>2 DEF Suspended
  <2>2. Suspended(f) <=> f \in coroutine /\ f # r
    BY <1>1 DEF Suspended
  <2>3. \A x \in Data : Holds(x, f)' <=> Holds(x, f)
    BY <1>2 DEF Holds
  <2>4. QED
    BY <2>1, <2>2, <2>3
<1> HIDE DEF r
<1>4. OwnersAgree' /\ ParentsAgree'
  BY <1>2 DEF JobInv, OwnersAgree, ParentsAgree
<1>5. QED
  BY <1>1, <1>2, <1>3, <1>4 DEF JobInv

\* A new job, of a coroutine or of nobody.
LEMMA JobsSpawn ==
  ASSUME TypeOK, JobInv, NEW j \in Jobs, NEW d \in Data, NEW f \in Frames, ending = None,
         phase = "code" \/ running = None, spawn(j, d, f)
  PROVE  JobInv'
<1> USE NoneAssumption
<1> DEFINE c == current_job
           r == resumed
<1>1. /\ c \in Jobs \union {None} /\ (c # None => c \in jobs) /\ (phase = "code" => c = owner[running])
      /\ phase = "code" => r \in coroutine
  BY DEF TypeOK, JobInv, OwnersAgree, current_job
<1>2. /\ j \notin jobs /\ f \notin coroutine
      /\ user_data_lifetime_begin(d, j, f)
      /\ jobs' = jobs \union {j}
      /\ parent' = [parent EXCEPT ![j] = c]
      /\ children' = [k \in Jobs |-> IF k = c THEN children[k] \union {j} ELSE children[k]]
      /\ inflight_jobs' = inflight_jobs + 1
      /\ coroutine' = coroutine \union {f}
      /\ UNCHANGED <<running, phase, ending, parked>>
  BY DEF spawn, job_lifetime_begin
<1>3. /\ OwnersAgree'
      /\ \A x \in Data : owner'[x] = IF x = d THEN j ELSE owner[x]
      /\ \A x \in Data : handle'[x] = IF x = d THEN f ELSE handle[x]
      /\ \A k \in Jobs : completions'[k] = IF k = j THEN completions[k] \union {d} ELSE completions[k]
      /\ owner[d] = None /\ handle[d] = None
  BY <1>2, OwnersBegin DEF JobInv
<1>5. \A k \in Jobs : parent'[k] = IF k = j THEN c ELSE parent[k]
  BY <1>2 DEF TypeOK
<1>6. running # None => /\ running # d /\ owner'[running] = owner[running] /\ owner[running] \in jobs
                        /\ handle'[running] = handle[running]
  BY <1>2, <1>3 DEF TypeOK, JobInv, OwnersAgree
<1>7. resumed' = r
  BY <1>2, <1>6 DEF resumed
<1> HIDE DEF c
<1>9. ParentsAgree'
  <2>1. ASSUME NEW k \in Jobs
        PROVE  children'[k] = {l \in jobs' : parent'[l] = k}
    BY <1>1, <1>2, <1>5 DEF TypeOK, JobInv, ParentsAgree
  <2>2. \A k \in jobs' : parent'[k] \in jobs' \union {None}
    BY <1>1, <1>2, <1>5 DEF TypeOK, JobInv, ParentsAgree
  <2>3. QED
    BY <2>1, <2>2 DEF ParentsAgree
<1>10. SuspendedExact'
  <2> SUFFICES ASSUME NEW g \in Frames
               PROVE  /\ g \in parked' => Suspended(g)' /\ \A x \in Data : ~Holds(x, g)'
                      /\ Suspended(g)' /\ g \notin parked' =>
                           \E e \in Data : \A x \in Data : Holds(x, g)' <=> x = e
                      /\ ~Suspended(g)' => \A x \in Data : ~Holds(x, g)'
    BY DEF SuspendedExact
  <2>0. running # d
    BY <1>6 DEF TypeOK
  <2>1. CASE g = f
    <3>1. ~Suspended(g)
      BY <1>2, <2>1 DEF Suspended
    <3>2. g \notin parked /\ \A x \in Data : ~Holds(x, g)
      BY <3>1 DEF JobInv, SuspendedExact
    <3>3. Suspended(g)'
      <4>1. phase \in {"code", "sqe"} => r # g
        BY <1>2, <2>1 DEF JobInv
      <4>2. QED
        BY <1>2, <1>7, <2>1, <4>1 DEF Suspended
    <3>4. \A x \in Data : Holds(x, g)' <=> x = d
      BY <1>2, <1>3, <2>0, <2>1, <3>2 DEF Holds
    <3>5. QED
      BY <1>2, <3>2, <3>3, <3>4
  <2>2. CASE g # f
    <3>1. Suspended(g)' <=> Suspended(g)
      BY <1>2, <1>7, <2>2 DEF Suspended
    <3>2. \A x \in Data : Holds(x, g)' <=> Holds(x, g)
      BY <1>2, <1>3, <2>2 DEF Holds, TypeOK
    <3>3. QED
      BY <1>2, <3>1, <3>2 DEF JobInv, SuspendedExact
  <2>3. QED
    BY <2>1, <2>2
<1>11. \A k \in jobs' : completions'[k] # {} \/ children'[k] # {} \/ k = ending'
  BY <1>2, <1>3, ZenonT(30) DEF TypeOK, JobInv
<1>12. inflight_jobs' = Cardinality(jobs')
  <2>1. IsFiniteSet(jobs)
    BY FiniteAssumption, FS_Subset DEF TypeOK
  <2>2. Cardinality(jobs \cup {j}) = Cardinality(jobs) + 1
    BY <1>2, <2>1, FS_AddElement
  <2>3. QED
    BY <1>2, <2>2 DEF JobInv
<1>13. phase' \in {"code", "sqe"} => resumed' \in coroutine'
  BY <1>2, <1>7 DEF JobInv
<1>14. running' # None => owner'[running'] # None
  BY <1>2, <1>6 DEF JobInv
<1> HIDE DEF r
<1>15. QED
  BY <1>2, <1>3, <1>9, <1>10, <1>11, <1>12, <1>13, <1>14 DEF JobInv

\* The end of the resumed user_data.
LEMMA JobsDataEnd ==
  ASSUME TypeOK, JobInv, user_data_lifetime_end
  PROVE  JobInv'
<1> USE NoneAssumption
<1> DEFINE o == owner[running]
<1>1. /\ running \in Data /\ running # None /\ o \in Jobs /\ o \in jobs /\ ending = None
      /\ phase = "over"
  BY DEF TypeOK, JobInv, OwnersAgree, user_data_lifetime_end
<1>2. /\ completions' = [completions EXCEPT ![o] = @ \ {running}]
      /\ owner' = [owner EXCEPT ![running] = None]
      /\ handle' = [handle EXCEPT ![running] = None]
      /\ ending' = IF completions'[o] = {} /\ children'[o] = {} THEN o ELSE None
      /\ running' = None /\ phase' = "none"
      /\ UNCHANGED <<jobs, parent, children, inflight_jobs, coroutine, parked>>
  BY DEF user_data_lifetime_end, Exhausted
<1>3. /\ \A x \in Data : owner'[x] = IF x = running THEN None ELSE owner[x]
      /\ \A x \in Data : handle'[x] = IF x = running THEN None ELSE handle[x]
  BY <1>2 DEF TypeOK
<1>4. \A j \in Jobs : completions'[j] = IF j = o THEN completions[j] \ {running} ELSE completions[j]
  BY <1>2 DEF TypeOK
<1>5. OwnersAgree'
  <2>1. ASSUME NEW j \in Jobs
        PROVE  completions'[j] = {x \in Data : owner'[x] = j}
    <3>1. completions[j] = {x \in Data : owner[x] = j}
      BY DEF JobInv, OwnersAgree
    <3>2. {x \in Data : owner'[x] = j} = {x \in Data : owner[x] = j} \ {running}
      BY <1>1, <1>3
    <3>3. j # o => running \notin {x \in Data : owner[x] = j}
      BY <1>1
    <3> HIDE DEF o
    <3>4. QED
      BY <1>4, <3>1, <3>2, <3>3
  <2>2. \A x \in Data : owner'[x] # None => owner'[x] \in jobs'
    BY <1>2, <1>3 DEF JobInv, OwnersAgree
  <2>3. \A x \in Data : owner'[x] = None <=> handle'[x] = None
    BY <1>3 DEF JobInv, OwnersAgree
  <2>4. QED
    BY <2>1, <2>2, <2>3 DEF OwnersAgree
<1>6. \A f \in Frames : Suspended(f) <=> f \in coroutine
  BY <1>1 DEF Suspended
<1>7. SuspendedExact'
  <2> SUFFICES ASSUME NEW f \in Frames
               PROVE  (Suspended(f)' <=> Suspended(f)) /\ \A x \in Data : Holds(x, f)' <=> Holds(x, f)
    BY <1>2 DEF JobInv, SuspendedExact
  <2>1. Suspended(f)' <=> f \in coroutine
    BY <1>2 DEF Suspended
  <2>2. \A x \in Data : Holds(x, f)' <=> Holds(x, f)
    BY <1>1, <1>2, <1>3 DEF Holds
  <2>3. QED
    BY <1>6, <2>1, <2>2
<1> HIDE DEF o
<1>9. ParentsAgree'
  BY <1>2 DEF JobInv, ParentsAgree
<1>10. ending' # None =>
         /\ ending' \in jobs'
         /\ completions'[ending'] = {} /\ children'[ending'] = {}
  BY <1>1, <1>2
<1>11. \A j \in jobs' : completions'[j] # {} \/ children'[j] # {} \/ j = ending'
  BY <1>1, <1>2, <1>4 DEF TypeOK, JobInv
<1>12. QED
  BY <1>2, <1>5, <1>7, <1>9, <1>10, <1>11 DEF JobInv

\* The end of a job.
LEMMA JobsJobEnd ==
  ASSUME TypeOK, JobInv, job_lifetime_end
  PROVE  JobInv'
<1> USE NoneAssumption
<1> DEFINE up == parent[ending]
<1>1. /\ ending \in Jobs /\ ending \in jobs /\ running = None
      /\ phase = "none" /\ completions[ending] = {} /\ children[ending] = {}
      /\ up \in jobs \union {None} /\ up \in Jobs \union {None} /\ up # ending
  <2>1. ending \in Jobs /\ ending \in jobs /\ children[ending] = {}
    BY DEF TypeOK, JobInv, job_lifetime_end
  <2>2. children[ending] = {k \in jobs : parent[k] = ending}
    BY <2>1 DEF JobInv, ParentsAgree
  <2>3. up # ending
    BY <2>1, <2>2
  <2>4. up \in jobs \union {None} /\ up \in Jobs \union {None}
    BY <2>1 DEF TypeOK, JobInv, ParentsAgree
  <2>5. QED
    BY <2>1, <2>3, <2>4 DEF JobInv, job_lifetime_end
<1>2. /\ children' = [k \in Jobs |-> IF k = up THEN children[k] \ {ending}
                                    ELSE IF k = ending THEN {} ELSE children[k]]
      /\ ending' = IF up # None /\ completions[up] = {} /\ children'[up] = {} THEN up ELSE None
      /\ inflight_jobs' = inflight_jobs - 1 /\ jobs' = jobs \ {ending}
      /\ parent' = [parent EXCEPT ![ending] = None]
      /\ UNCHANGED <<running, phase, coroutine, owner, handle, parked, completions>>
  BY DEF job_lifetime_end, Exhausted
<1>3. \A k \in Jobs : parent'[k] = IF k = ending THEN None ELSE parent[k]
  BY <1>2 DEF TypeOK
<1> HIDE DEF up
<1>4. OwnersAgree'
  <2>1. \A x \in Data : owner[x] # ending
    BY <1>1 DEF JobInv, OwnersAgree
  <2>2. QED
    BY <1>2, <2>1 DEF JobInv, OwnersAgree
<1>5. ParentsAgree'
  <2>0. \A k \in Jobs : children[k] = {l \in jobs : parent[l] = k}
    BY DEF JobInv, ParentsAgree
  <2>1. ASSUME NEW k \in Jobs
        PROVE  children'[k] = {l \in jobs' : parent'[l] = k}
    <3>1. {l \in jobs' : parent'[l] = k} = {l \in jobs : parent[l] = k} \ {ending}
      BY <1>2, <1>3 DEF TypeOK
    <3>2. CASE k = up
      BY <1>2, <2>0, <3>1, <3>2
    <3>3. CASE k # up
      <4>1. ending \notin {l \in jobs : parent[l] = k}
        BY <3>3 DEF up
      <4>2. QED
        BY <1>1, <1>2, <2>0, <3>1, <3>3, <4>1
    <3>4. QED
      BY <3>2, <3>3
  <2>2. \A k \in jobs : parent[k] # ending
    BY <1>1, <2>0
  <2>3. \A k \in jobs' : parent'[k] \in jobs' \union {None}
    BY <1>2, <1>3, <2>2 DEF TypeOK, JobInv, ParentsAgree
  <2>4. QED
    BY <2>1, <2>3 DEF ParentsAgree
<1>6. SuspendedExact'
  <2>1. resumed' = resumed
    BY <1>2 DEF resumed
  <2>2. QED
    BY <1>2, <2>1 DEF JobInv, SuspendedExact, Suspended, Holds
<1>8. ending' # None =>
         /\ ending' \in jobs'
         /\ completions'[ending'] = {} /\ children'[ending'] = {}
  BY <1>1, <1>2
<1>9. \A j \in jobs' : completions'[j] # {} \/ children'[j] # {} \/ j = ending'
  BY <1>1, <1>2 DEF TypeOK, JobInv
<1>10. inflight_jobs' = Cardinality(jobs')
  <2>1. IsFiniteSet(jobs)
    BY FiniteAssumption, FS_Subset DEF TypeOK
  <2>2. Cardinality(jobs \ {ending}) = Cardinality(jobs) - 1
    BY <1>1, <2>1, FS_RemoveElement
  <2>3. QED
    BY <1>2, <2>2 DEF JobInv
<1>11. QED
  BY <1>1, <1>2, <1>4, <1>5, <1>6, <1>8, <1>9, <1>10 DEF JobInv

-----------------------------------------------------------------------------
(***************************************************************************)
(* The places where user_data wait                                         *)
(***************************************************************************)

\* user_data d is in use and not being resumed
InUse(d) == owner[d] # None /\ d # running

\* The parts that Held adds up.
LEMMA HeldParts ==
  ASSUME TypeOK, ControlInv, NEW x \in Data
  PROVE  /\ Count(ready_queue, x) \in Nat /\ Count(sqe_waiters, x) \in Nat
         /\ Count(Unseen, x) \in Nat /\ Count(TimerData(time_tasks), x) \in Nat
         /\ CountIn(sq, x) \in {0, 1} /\ CountIn(kernel, x) \in {0, 1}
<1>1. ready_queue \in Seq(Data) /\ sqe_waiters \in Seq(Data) /\ time_tasks \in Seq(Timers)
  BY DEF TypeOK
<1>2. Unseen \in Seq(Data) /\ TimerData(time_tasks) \in Seq(Data)
  BY <1>1, UnseenType, TimerDataType
<1>3. CountIn(sq, x) \in {0, 1} /\ CountIn(kernel, x) \in {0, 1}
  BY DEF CountIn
<1>4. QED
  BY <1>1, <1>2, <1>3, CountType

\* Whoever is first in a queue, or with io_uring, is in use; who is free is
\* nowhere.
LEMMA HeldInUse ==
  ASSUME TypeOK, ControlInv, HeldInOnePlace
  PROVE  /\ ready_queue # <<>> => Head(ready_queue) \in Data /\ InUse(Head(ready_queue))
         /\ sqe_waiters # <<>> => Head(sqe_waiters) \in Data /\ InUse(Head(sqe_waiters))
         /\ Unseen # <<>> => Head(Unseen) \in Data /\ InUse(Head(Unseen))
         /\ \A d \in Data : d \in sq => d \notin kernel
         /\ \A d \in Data : ~InUse(d) => d \notin sq /\ d \notin kernel
<1>1. \A x \in Data : Held(x) = IF InUse(x) THEN 1 ELSE 0
  BY DEF HeldInOnePlace, InUse
<1>2. ASSUME NEW s \in Seq(Data), s # <<>>
      PROVE  Head(s) \in Data /\ Count(s, Head(s)) >= 1
  <2>1. Count(s, Head(s)) = Count(Tail(s), Head(s)) + 1 /\ Head(s) \in Data /\ Tail(s) \in Seq(Data)
    BY <1>2, CountTail
  <2>2. Count(Tail(s), Head(s)) \in Nat
    BY <2>1, CountType
  <2>3. QED
    BY <2>1, <2>2
<1>3. ready_queue \in Seq(Data) /\ sqe_waiters \in Seq(Data) /\ Unseen \in Seq(Data)
  BY UnseenType DEF TypeOK
<1>4. ASSUME NEW x \in Data
      PROVE  /\ InUse(x) => Held(x) = 1
             /\ ~InUse(x) => Held(x) = 0
             /\ Count(ready_queue, x) >= 1 => Held(x) >= 1
             /\ Count(sqe_waiters, x) >= 1 => Held(x) >= 1
             /\ Count(Unseen, x) >= 1 => Held(x) >= 1
             /\ CountIn(sq, x) + CountIn(kernel, x) <= Held(x)
  BY <1>1, HeldParts DEF Held
<1>5. ready_queue # <<>> => Head(ready_queue) \in Data /\ InUse(Head(ready_queue))
  BY <1>2, <1>3, <1>4
<1>6. sqe_waiters # <<>> => Head(sqe_waiters) \in Data /\ InUse(Head(sqe_waiters))
  BY <1>2, <1>3, <1>4
<1>7. Unseen # <<>> => Head(Unseen) \in Data /\ InUse(Head(Unseen))
  BY <1>2, <1>3, <1>4
<1>8. ASSUME NEW d \in Data
      PROVE  (d \in sq => d \notin kernel) /\ (~InUse(d) => d \notin sq /\ d \notin kernel)
  BY <1>4 DEF CountIn
<1>9. QED
  BY <1>5, <1>6, <1>7, <1>8

\* The steps that move no user_data and change nothing about its use.
LEMMA HeldSame ==
  ASSUME HeldInOnePlace,
         UNCHANGED <<ready_queue, sqe_waiters, time_tasks, sq, kernel, Unseen>>,
         \A x \in Data : InUse(x)' <=> InUse(x)
  PROVE  HeldInOnePlace'
<1>1. \A x \in Data : Held(x) = IF InUse(x) THEN 1 ELSE 0
  BY DEF HeldInOnePlace, InUse
<1>2. \A x \in Data : Held(x)' = Held(x)
  BY DEF Held
<1>3. QED
  BY <1>1, <1>2 DEF HeldInOnePlace, InUse

\* A step that puts d, which becomes in use, into one place.
LEMMA HeldPut ==
  ASSUME HeldInOnePlace, NEW d \in Data, ~InUse(d),
         \A x \in Data : Held(x)' = Held(x) + IF x = d THEN 1 ELSE 0,
         \A x \in Data : InUse(x)' <=> InUse(x) \/ x = d
  PROVE  HeldInOnePlace'
<1>1. \A x \in Data : Held(x) = IF InUse(x) THEN 1 ELSE 0
  BY DEF HeldInOnePlace, InUse
<1>2. \A x \in Data : Held(x)' = IF InUse(x)' THEN 1 ELSE 0
  BY <1>1
<1>3. QED
  BY <1>2 DEF HeldInOnePlace, InUse

\* A step that takes d, which is resumed, out of its place.
LEMMA HeldTake ==
  ASSUME HeldInOnePlace, NEW d \in Data, InUse(d),
         \A x \in Data : Held(x) = Held(x)' + IF x = d THEN 1 ELSE 0,
         \A x \in Data : Held(x)' \in Int,
         \A x \in Data : InUse(x)' <=> InUse(x) /\ x # d
  PROVE  HeldInOnePlace'
<1>1. \A x \in Data : Held(x) = IF InUse(x) THEN 1 ELSE 0
  BY DEF HeldInOnePlace, InUse
<1>2. \A x \in Data : Held(x)' = IF InUse(x)' THEN 1 ELSE 0
  BY <1>1
<1>3. QED
  BY <1>2 DEF HeldInOnePlace, InUse

\* A resume changes the use of d alone, an await and a spawn begin it.
LEMMA UseResume ==
  ASSUME Returned, NEW d \in Data, NEW then, Resume(d, then)
  PROVE  \A x \in Data : InUse(x)' <=> InUse(x) /\ x # d
BY NoneAssumption DEF Returned, Resume, InUse, dataVars

LEMMA UseBegin ==
  ASSUME TypeOK, ControlInv, NEW d \in Data, NEW j \in Jobs, NEW f,
         user_data_lifetime_begin(d, j, f),
         UNCHANGED running
  PROVE  /\ ~InUse(d)
         /\ \A x \in Data : InUse(x)' <=> InUse(x) \/ x = d
BY NoneAssumption DEF TypeOK, ControlInv, InUse, user_data_lifetime_begin

LEMMA HeldResume ==
  ASSUME TypeOK, ControlInv, HeldInOnePlace, TypeOK', ControlInv', Returned,
         WaitCqe \/ PeekFound \/ ResumeReady \/ ResumeWaiter
  PROVE  HeldInOnePlace'
<1> USE NoneAssumption
<1>0. \A x \in Data : Held(x)' \in Int
  <2>1. ASSUME NEW x \in Data
        PROVE  /\ Count(ready_queue', x) \in Nat /\ Count(sqe_waiters', x) \in Nat
               /\ Count(Unseen', x) \in Nat /\ Count(TimerData(time_tasks'), x) \in Nat
    <3>1. /\ ready_queue' \in Seq(Data) /\ sqe_waiters' \in Seq(Data)
          /\ time_tasks' \in Seq(Timers) /\ Unseen' \in Seq(Data)
      BY DEF TypeOK, ControlInv, Unseen
    <3>2. QED
      BY <3>1, CountType, TimerDataType
  <2>2. \A x \in Data : CountIn(sq', x) \in Int /\ CountIn(kernel', x) \in Int
    BY DEF CountIn
  <2>3. QED
    BY <2>1, <2>2 DEF Held
<1>1. CASE WaitCqe \/ PeekFound
  <2> DEFINE d == Head(cqes)
  <2>1. /\ cqes # <<>> /\ Resume(d, "code") /\ pc # "seen" /\ pc' = "seen"
        /\ UNCHANGED <<ready_queue, sqe_waiters, cqes, time_tasks, sq, kernel>>
    BY <1>1 DEF WaitCqe, PeekFound, process_cqe, Resume
  <2>2. Unseen = cqes /\ Unseen' = Tail(cqes)
    BY <2>1 DEF Unseen
  <2>3. d \in Data /\ InUse(d)
    BY <2>1, <2>2, HeldInUse
  <2>4. cqes \in Seq(Data)
    BY DEF TypeOK
  <2>5. ASSUME NEW x \in Data
        PROVE  Held(x) = Held(x)' + IF x = d THEN 1 ELSE 0
    <3>1. Count(cqes, x) = Count(Tail(cqes), x) + IF d = x THEN 1 ELSE 0
      BY <2>1, <2>4, CountTail
    <3>2. Tail(cqes) \in Seq(Data)
      BY <2>1, <2>4
    <3>3. Count(Tail(cqes), x) \in Nat
      BY <3>2, CountType
    <3> HIDE DEF d
    <3>4. QED
      BY <2>1, <2>2, <3>1, <3>3, HeldParts, SMTT(60) DEF Held
  <2>6. \A x \in Data : InUse(x)' <=> InUse(x) /\ x # d
    BY <2>1, <2>3, UseResume
  <2> HIDE DEF d
  <2>7. QED
    BY <1>0, <2>3, <2>5, <2>6, HeldTake
<1>2. CASE ResumeReady
  <2> DEFINE d == Head(ready_queue)
  <2>1. /\ ready_queue # <<>> /\ Resume(d, "code") /\ ready_queue' = Tail(ready_queue)
        /\ UNCHANGED <<pc, sqe_waiters, cqes, time_tasks, sq, kernel>>
    BY <1>2 DEF ResumeReady, Resume
  <2>2. Unseen' = Unseen
    BY <2>1 DEF Unseen
  <2>3. d \in Data /\ InUse(d)
    BY <2>1, HeldInUse
  <2>4. ready_queue \in Seq(Data)
    BY DEF TypeOK
  <2>5. ASSUME NEW x \in Data
        PROVE  Held(x) = Held(x)' + IF x = d THEN 1 ELSE 0
    <3>1. Count(ready_queue, x) = Count(Tail(ready_queue), x) + IF d = x THEN 1 ELSE 0
      BY <2>1, <2>4, CountTail
    <3>2. Tail(ready_queue) \in Seq(Data)
      BY <2>1, <2>4
    <3>3. Count(Tail(ready_queue), x) \in Nat
      BY <3>2, CountType
    <3> HIDE DEF d
    <3>4. QED
      BY <2>1, <2>2, <3>1, <3>3, HeldParts, SMTT(30) DEF Held
  <2>6. \A x \in Data : InUse(x)' <=> InUse(x) /\ x # d
    BY <2>1, <2>3, UseResume
  <2> HIDE DEF d
  <2>7. QED
    BY <1>0, <2>3, <2>5, <2>6, HeldTake
<1>3. CASE ResumeWaiter
  <2> DEFINE d == Head(sqe_waiters)
  <2>1. /\ sqe_waiters # <<>> /\ Resume(d, "sqe") /\ sqe_waiters' = Tail(sqe_waiters)
        /\ UNCHANGED <<pc, ready_queue, cqes, time_tasks, sq, kernel>>
    BY <1>3 DEF ResumeWaiter, Resume
  <2>2. Unseen' = Unseen
    BY <2>1 DEF Unseen
  <2>3. d \in Data /\ InUse(d)
    BY <2>1, HeldInUse
  <2>4. sqe_waiters \in Seq(Data)
    BY DEF TypeOK
  <2>5. ASSUME NEW x \in Data
        PROVE  Held(x) = Held(x)' + IF x = d THEN 1 ELSE 0
    <3>1. Count(sqe_waiters, x) = Count(Tail(sqe_waiters), x) + IF d = x THEN 1 ELSE 0
      BY <2>1, <2>4, CountTail
    <3>2. Tail(sqe_waiters) \in Seq(Data)
      BY <2>1, <2>4
    <3>3. Count(Tail(sqe_waiters), x) \in Nat
      BY <3>2, CountType
    <3> HIDE DEF d
    <3>4. QED
      BY <2>1, <2>2, <3>1, <3>3, HeldParts, SMTT(30) DEF Held
  <2>6. \A x \in Data : InUse(x)' <=> InUse(x) /\ x # d
    BY <2>1, <2>3, UseResume
  <2> HIDE DEF d
  <2>7. QED
    BY <1>0, <2>3, <2>5, <2>6, HeldTake
<1>4. QED
  BY <1>1, <1>2, <1>3

\* A new user_data at the end of the ready queue.
LEMMA HeldReady ==
  ASSUME TypeOK, ControlInv, HeldInOnePlace, NEW d \in Data, NEW j \in Jobs, NEW f,
         user_data_lifetime_begin(d, j, f), ready_queue' = Append(ready_queue, d),
         UNCHANGED <<pc, running, sqe_waiters, cqes, time_tasks, sq, kernel>>
  PROVE  HeldInOnePlace'
<1>1. ~InUse(d) /\ \A x \in Data : InUse(x)' <=> InUse(x) \/ x = d
  BY UseBegin
<1>2. Unseen' = Unseen
  BY DEF Unseen
<1>3. ASSUME NEW x \in Data
      PROVE  Held(x)' = Held(x) + IF x = d THEN 1 ELSE 0
  <2>1. ready_queue \in Seq(Data)
    BY DEF TypeOK
  <2>2. Count(ready_queue', x) = Count(ready_queue, x) + IF x = d THEN 1 ELSE 0
    BY <2>1, CountAppend
  <2>3. /\ Count(ready_queue, x) \in Nat /\ Count(sqe_waiters, x) \in Nat
        /\ Count(Unseen, x) \in Nat /\ Count(TimerData(time_tasks), x) \in Nat
        /\ CountIn(sq, x) \in {0, 1} /\ CountIn(kernel, x) \in {0, 1}
    BY HeldParts
  <2>4. QED
    BY <1>2, <2>2, <2>3, SMTT(60) DEF Held
<1>4. QED
  BY <1>1, <1>3, HeldPut

\* A new user_data that waits for room in the submission queue.
LEMMA HeldWaiter ==
  ASSUME TypeOK, ControlInv, HeldInOnePlace, NEW d \in Data, NEW j \in Jobs, NEW f,
         user_data_lifetime_begin(d, j, f), sqe_waiters' = Append(sqe_waiters, d),
         UNCHANGED <<pc, running, ready_queue, cqes, time_tasks, sq, kernel>>
  PROVE  HeldInOnePlace'
<1>1. ~InUse(d) /\ \A x \in Data : InUse(x)' <=> InUse(x) \/ x = d
  BY UseBegin
<1>2. Unseen' = Unseen
  BY DEF Unseen
<1>3. ASSUME NEW x \in Data
      PROVE  Held(x)' = Held(x) + IF x = d THEN 1 ELSE 0
  <2>1. sqe_waiters \in Seq(Data)
    BY DEF TypeOK
  <2>2. Count(sqe_waiters', x) = Count(sqe_waiters, x) + IF x = d THEN 1 ELSE 0
    BY <2>1, CountAppend
  <2>3. /\ Count(ready_queue, x) \in Nat /\ Count(sqe_waiters, x) \in Nat
        /\ Count(Unseen, x) \in Nat /\ Count(TimerData(time_tasks), x) \in Nat
        /\ CountIn(sq, x) \in {0, 1} /\ CountIn(kernel, x) \in {0, 1}
    BY HeldParts
  <2>4. QED
    BY <1>2, <2>2, <2>3, SMTT(60) DEF Held
<1>4. QED
  BY <1>1, <1>3, HeldPut

\* A new user_data among the timers.
LEMMA HeldTimer ==
  ASSUME TypeOK, ControlInv, TimersSorted, HeldInOnePlace,
         NEW d \in Data, NEW j \in Jobs, NEW f, NEW t \in Times,
         user_data_lifetime_begin(d, j, f),
         time_tasks' = InsertTimer(time_tasks, [time |-> t, data |-> d]),
         UNCHANGED <<pc, running, ready_queue, sqe_waiters, cqes, sq, kernel>>
  PROVE  HeldInOnePlace'
<1>1. ~InUse(d) /\ \A x \in Data : InUse(x)' <=> InUse(x) \/ x = d
  BY UseBegin
<1>2. Unseen' = Unseen
  BY DEF Unseen
<1>3. ASSUME NEW x \in Data
      PROVE  Held(x)' = Held(x) + IF x = d THEN 1 ELSE 0
  <2> DEFINE timer == [time |-> t, data |-> d]
  <2>1. time_tasks \in Seq(Timers) /\ timer \in Timers /\ timer.data = d
    BY DEF TypeOK, Timers
  <2>2. time_tasks' = InsertTimer(time_tasks, timer)
    OBVIOUS
  <2> HIDE DEF timer
  <2>3. Count(TimerData(InsertTimer(time_tasks, timer)), x)
          = Count(TimerData(time_tasks), x) + IF timer.data = x THEN 1 ELSE 0
    BY <2>1, InsertTimerProperties DEF TimersSorted
  <2>4. Count(TimerData(time_tasks'), x) = Count(TimerData(time_tasks), x) + IF d = x THEN 1 ELSE 0
    BY <2>1, <2>2, <2>3
  <2>5. QED
    BY <1>2, <2>4, HeldParts, SMTT(60) DEF Held
<1>4. QED
  BY <1>1, <1>3, HeldPut

\* A new user_data in the submission queue.
LEMMA HeldSubmitted ==
  ASSUME TypeOK, ControlInv, HeldInOnePlace, NEW d \in Data, NEW j \in Jobs, NEW f,
         user_data_lifetime_begin(d, j, f), sq' = sq \union {d},
         UNCHANGED <<pc, running, ready_queue, sqe_waiters, cqes, time_tasks, kernel>>
  PROVE  HeldInOnePlace'
<1>1. ~InUse(d) /\ \A x \in Data : InUse(x)' <=> InUse(x) \/ x = d
  BY UseBegin
<1>2. Unseen' = Unseen
  BY DEF Unseen
<1>3. d \notin sq
  BY <1>1, HeldInUse
<1>4. ASSUME NEW x \in Data
      PROVE  Held(x)' = Held(x) + IF x = d THEN 1 ELSE 0
  <2>1. CountIn(sq', x) = CountIn(sq, x) + IF x = d THEN 1 ELSE 0
    BY <1>3 DEF CountIn
  <2>2. QED
    BY <1>2, <2>1, HeldParts, SMTT(60) DEF Held
<1>5. QED
  BY <1>1, <1>4, HeldPut

\* The steps of the kernel pass a user_data on.
LEMMA HeldKernel ==
  ASSUME TypeOK, ControlInv, HeldInOnePlace, NEW d \in Data, KernelTakes(d) \/ KernelCompletes(d)
  PROVE  HeldInOnePlace'
<1>1. \A x \in Data : InUse(x)' <=> InUse(x)
  BY DEF KernelTakes, KernelCompletes, InUse, dataVars
<1>2. \A x \in Data : Held(x)' = Held(x)
  <2> TAKE x \in Data
  <2>1. CASE KernelTakes(d)
    <3>1. d \in sq /\ d \notin kernel
      BY <2>1, HeldInUse DEF KernelTakes
    <3>2. CountIn(sq', x) + CountIn(kernel', x) = CountIn(sq, x) + CountIn(kernel, x)
      BY <2>1, <3>1 DEF KernelTakes, CountIn
    <3>3. Unseen' = Unseen /\ UNCHANGED <<ready_queue, sqe_waiters, time_tasks>>
      BY <2>1 DEF KernelTakes, Unseen, queueVars
    <3>4. CountIn(sq', x) \in {0, 1} /\ CountIn(kernel', x) \in {0, 1}
      BY DEF CountIn
    <3>5. QED
      BY <3>2, <3>3, <3>4, HeldParts DEF Held
  <2>2. CASE KernelCompletes(d)
    <3>1. /\ d \in kernel /\ kernel' = kernel \ {d} /\ cqes' = Append(cqes, d)
          /\ UNCHANGED <<pc, sq, ready_queue, sqe_waiters, time_tasks>>
      BY <2>2 DEF KernelCompletes, queueVars
    <3>2. cqes \in Seq(Data)
      BY DEF TypeOK
    <3>3. Unseen' = Append(Unseen, d)
      BY <3>1, <3>2, HeadTailAppend DEF Unseen, ControlInv
    <3>4. Count(Unseen', x) = Count(Unseen, x) + IF d = x THEN 1 ELSE 0
      BY <3>3, UnseenType, CountAppend
    <3>5. CountIn(kernel, x) = CountIn(kernel', x) + IF d = x THEN 1 ELSE 0
      BY <3>1 DEF CountIn
    <3>6. CountIn(kernel', x) \in {0, 1}
      BY DEF CountIn
    <3>7. /\ Count(ready_queue, x) \in Nat /\ Count(sqe_waiters, x) \in Nat
          /\ Count(Unseen, x) \in Nat /\ Count(TimerData(time_tasks), x) \in Nat
          /\ CountIn(sq, x) \in {0, 1} /\ CountIn(kernel, x) \in {0, 1}
      BY HeldParts
    <3>8. QED
      BY <3>1, <3>4, <3>5, <3>6, <3>7, SMTT(60) DEF Held
  <2>3. QED
    BY <2>1, <2>2
<1>3. QED
  BY <1>1, <1>2 DEF HeldInOnePlace, InUse

\* update_timer_tasks passes the due timers on.
LEMMA HeldDue ==
  ASSUME TypeOK, ControlInv, TimersSorted, HeldInOnePlace, update_timer_tasks
  PROVE  HeldInOnePlace' /\ TimersSorted'
<1>1. \A x \in Data : InUse(x)' <=> InUse(x)
  BY DEF update_timer_tasks, InUse, dataVars
<1>2. /\ Unseen' = Unseen /\ UNCHANGED <<sqe_waiters, sq, kernel>>
      /\ ready_queue' = ready_queue \o [i \in 1 .. Due |-> time_tasks[i].data]
      /\ time_tasks' = SubSeq(time_tasks, Due + 1, Len(time_tasks))
  BY DEF update_timer_tasks, Unseen, ioVars
<1>3. /\ ready_queue \in Seq(Data) /\ time_tasks \in Seq(Timers)
      /\ Due \in 0 .. Len(time_tasks) /\ SortedByTime(time_tasks)
  BY DueType DEF TypeOK, TimersSorted
<1>4. ASSUME NEW x \in Data
      PROVE  /\ Held(x)' = Held(x)
             /\ SortedByTime(time_tasks')
  <2>1. /\ ready_queue' \in Seq(Data) /\ time_tasks' \in Seq(Timers)
        /\ SortedByTime(time_tasks')
        /\ Count(ready_queue', x) + Count(TimerData(time_tasks'), x)
             = Count(ready_queue, x) + Count(TimerData(time_tasks), x)
    BY <1>2, <1>3, MoveTimers
  <2>2. Count(ready_queue', x) \in Nat /\ Count(TimerData(time_tasks'), x) \in Nat
    BY <2>1, CountType, TimerDataType
  <2>3. /\ Count(ready_queue, x) \in Nat /\ Count(sqe_waiters, x) \in Nat
        /\ Count(Unseen, x) \in Nat /\ Count(TimerData(time_tasks), x) \in Nat
        /\ CountIn(sq, x) \in {0, 1} /\ CountIn(kernel, x) \in {0, 1}
    BY HeldParts
  <2>4. Held(x)' = Held(x)
    <3>1. Unseen' = Unseen /\ sqe_waiters' = sqe_waiters /\ sq' = sq /\ kernel' = kernel
      BY <1>2
    <3>2. Count(ready_queue', x) + Count(TimerData(time_tasks'), x)
            = Count(ready_queue, x) + Count(TimerData(time_tasks), x)
      BY <2>1
    <3>3. QED
      BY <2>2, <2>3, <3>1, <3>2 DEF Held
  <2>5. QED
    BY <2>1, <2>4
<1>5. TimersSorted'
  <2>1. CASE Data = {}
    <3>1. Len(time_tasks) = 0
      <4>1. SUFFICES ASSUME Len(time_tasks) # 0 PROVE FALSE
        OBVIOUS
      <4>2. 1 \in 1 .. Len(time_tasks)
        BY <1>3, <4>1
      <4>3. time_tasks[1].data \in Data
        BY <1>3, <4>2, TimerFields
      <4>4. QED
        BY <2>1, <4>3
    <3>2. Len(time_tasks') = 0
      BY <1>2, <1>3, <3>1
    <3>3. QED
      BY <3>2 DEF TimersSorted, SortedByTime
  <2>2. CASE Data # {}
    BY <1>4, <2>2 DEF TimersSorted
  <2>3. QED
    BY <2>1, <2>2
<1>6. QED
  BY <1>1, <1>4, <1>5 DEF HeldInOnePlace, InUse

-----------------------------------------------------------------------------
(***************************************************************************)
(* The loop of run()                                                       *)
(***************************************************************************)

\* The part of the invariant about where run() is and what is with io_uring.
LoopInv ==
  /\ running # None => pc \in {"seen", "ready", "sqe"}
  /\ ending # None => pc \in {"seen", "ready", "sqe"}
  /\ phase = "sqe" => pc = "sqe"
  /\ pc = "seen" => cqes # <<>>
  /\ inflight_completions = Cardinality(sq) + Cardinality(kernel) + Len(Unseen)
  /\ GetSqeNeverNull /\ WaitHasReason /\ WaitersHaveReason

\* The parts make up the invariant.
LEMMA Parts ==
  ASSUME TypeOK
  PROVE  IInv <=> JobInv /\ LoopInv /\ TimersSorted /\ HeldInOnePlace
<1>1. OwnersAgree => (SuspendedOnce <=> SuspendedExact)
  BY SuspendedForms
<1>2. QED
  BY <1>1 DEF IInv, JobInv, LoopInv, ControlInv, NothingLeaks

\* The submission entries are finitely many, and counted.
LEMMA EntriesFinite ==
  ASSUME TypeOK
  PROVE  /\ IsFiniteSet(sq) /\ Cardinality(sq) \in Nat /\ (Cardinality(sq) = 0 <=> sq = {})
         /\ IsFiniteSet(kernel) /\ Cardinality(kernel) \in Nat
         /\ (Cardinality(kernel) = 0 <=> kernel = {})
<1>1. IsFiniteSet(sq) /\ IsFiniteSet(kernel)
  BY FiniteAssumption, FS_Subset DEF TypeOK
<1>2. QED
  BY <1>1, FS_CardinalityType, FS_EmptySet

\* A resume, or a step of a coroutine, that leaves io_uring alone.
LEMMA LoopSame ==
  ASSUME TypeOK, LoopInv, UNCHANGED <<sq, kernel, inflight_completions, Unseen>>,
         running' # None => pc' \in {"seen", "ready", "sqe"},
         ending' # None => pc' \in {"seen", "ready", "sqe"},
         phase' = "sqe" => pc' = "sqe" /\ sq_space_left > 0,
         pc' = "seen" => cqes' # <<>>,
         pc' \in {"seen", "ready", "sqe"}
  PROVE  LoopInv'
BY DEF LoopInv, GetSqeNeverNull, WaitHasReason, WaitersHaveReason, sq_space_left

\* The steps of run() that only move it on.
LEMMA LoopMoves ==
  ASSUME TypeOK, LoopInv, JobInv,
         RunCall \/ Check \/ WaitTimeout \/ WaitInterrupted \/ PeekNothing \/ ReadyDrained \/ WaitersDone
  PROVE  LoopInv'
<1>1. /\ UNCHANGED <<running, phase, ending, cqes, sq, kernel, inflight_completions, sqe_waiters, time_tasks>>
      /\ pc # "seen" /\ pc' # "seen" /\ running = None /\ ending = None
      /\ pc' \in {"check", "idle", "wait", "peek", "timers", "ready", "sqe"}
  BY DEF RunCall, Check, WaitTimeout, WaitInterrupted, PeekNothing, ReadyDrained, WaitersDone,
         Returned, jobVars, ioVars, queueVars, LoopInv
<1>2. Unseen' = Unseen /\ Unseen = cqes /\ phase # "sqe"
  BY <1>1 DEF Unseen, JobInv
<1>3. cqes \in Seq(Data)
  BY DEF TypeOK
<1>4. WaitersHaveReason' /\ WaitHasReason'
  <2>1. CASE RunCall
    BY <1>1, <2>1 DEF RunCall, LoopInv, WaitersHaveReason, WaitHasReason
  <2>2. CASE Check
    <3>1. pc = "check"
      BY <2>2 DEF Check
    <3>2. CASE empty
      <4>1. pc' = "idle" /\ sqe_waiters = <<>>
        BY <2>2, <3>2 DEF Check, empty
      <4>2. QED
        BY <1>1, <4>1 DEF WaitersHaveReason, WaitHasReason
    <3>3. CASE ~empty /\ ready_queue = <<>> /\ time_tasks = <<>>
      <4>1. pc' = "wait" /\ (sqe_waiters # <<>> \/ inflight_completions # 0)
        BY <2>2, <3>3 DEF Check, empty
      <4>2. inflight_completions # 0 => sq # {} \/ kernel # {} \/ cqes # <<>>
        BY <1>2, <1>3, EntriesFinite DEF LoopInv
      <4>3. sq # {} \/ kernel # {} \/ cqes # <<>>
        BY <3>1, <4>1, <4>2 DEF LoopInv, WaitersHaveReason
      <4>4. QED
        BY <1>1, <4>1, <4>3 DEF WaitersHaveReason, WaitHasReason
    <3>4. CASE ~empty /\ ready_queue = <<>> /\ time_tasks # <<>>
      BY <1>1, <2>2, <3>1, <3>4 DEF Check, LoopInv, WaitersHaveReason, WaitHasReason
    <3>5. CASE ~empty /\ ready_queue # <<>>
      BY <1>1, <2>2, <3>5 DEF Check, WaitersHaveReason, WaitHasReason
    <3>6. QED
      BY <3>2, <3>3, <3>4, <3>5
  <2>3. CASE WaitersDone
    <3>1. pc' = "check" /\ (sqe_waiters = <<>> \/ sq_space_left = 0)
      BY <2>3 DEF WaitersDone
    <3>2. sq_space_left = 0 => sq # {}
      BY SQAssumption, EntriesFinite DEF sq_space_left
    <3>3. QED
      BY <1>1, <3>1, <3>2 DEF WaitersHaveReason, WaitHasReason
  <2>4. CASE WaitTimeout \/ WaitInterrupted \/ PeekNothing \/ ReadyDrained
    <3>1. pc' \in {"peek", "timers", "sqe"}
      BY <2>4 DEF WaitTimeout, WaitInterrupted, PeekNothing, ReadyDrained
    <3>2. QED
      BY <3>1 DEF WaitersHaveReason, WaitHasReason
  <2>5. QED
    BY <2>1, <2>2, <2>3, <2>4
<1>5. GetSqeNeverNull'
  BY <1>1, <1>2 DEF GetSqeNeverNull
<1>6. QED
  BY <1>1, <1>2, <1>4, <1>5 DEF LoopInv

\* A step that run(), the submission and the completion queue have no part in.
LEMMA LoopStill ==
  ASSUME LoopInv,
         UNCHANGED <<pc, running, phase, ending, sq, kernel, cqes, inflight_completions,
                     sqe_waiters, time_tasks>>
  PROVE  LoopInv'
BY DEF LoopInv, GetSqeNeverNull, WaitHasReason, WaitersHaveReason, sq_space_left, Unseen

\* process_cqe counts the completion off that it takes.
LEMMA LoopCqe ==
  ASSUME TypeOK, JobInv, LoopInv, WaitCqe \/ PeekFound
  PROVE  LoopInv'
<1>1. /\ cqes # <<>> /\ pc # "seen" /\ pc' = "seen" /\ phase' = "code" /\ ending = None
      /\ inflight_completions' = inflight_completions - 1
      /\ UNCHANGED <<ending, cqes, sq, kernel>>
  BY DEF WaitCqe, PeekFound, process_cqe, Resume, LoopInv
<1>2. cqes \in Seq(Data)
  BY DEF TypeOK
<1>3. Unseen = cqes /\ Unseen' = Tail(cqes) /\ Len(Tail(cqes)) = Len(cqes) - 1
  BY <1>1, <1>2, HeadTailProperties DEF Unseen
<1>4. inflight_completions' = Cardinality(sq') + Cardinality(kernel') + Len(Unseen')
  BY <1>1, <1>2, <1>3, EntriesFinite DEF LoopInv
<1>5. QED
  BY <1>1, <1>4 DEF LoopInv, GetSqeNeverNull, WaitHasReason, WaitersHaveReason

\* io_uring_cqe_seen drops the completion that has been processed.
LEMMA LoopSeen ==
  ASSUME TypeOK, JobInv, LoopInv, CqeSeen
  PROVE  LoopInv'
<1>1. /\ pc = "seen" /\ pc' = "peek" /\ running = None /\ ending = None /\ phase = "none"
      /\ UNCHANGED <<running, phase, ending, sq, kernel, inflight_completions>>
      /\ cqes' = Tail(cqes)
  BY DEF CqeSeen, Returned, JobInv
<1>2. Unseen' = Unseen
  BY <1>1 DEF Unseen
<1>3. QED
  BY <1>1, <1>2 DEF LoopInv, GetSqeNeverNull, WaitHasReason, WaitersHaveReason

\* get_sqe puts an entry into the submission queue and counts it.
LEMMA LoopSubmit ==
  ASSUME TypeOK, JobInv, LoopInv, NEW d \in Data, d \notin sq, get_sqe(d)
  PROVE  LoopInv'
<1>1. /\ sq' = sq \union {d} /\ inflight_completions' = inflight_completions + 1
      /\ phase' = "over" /\ running # None
      /\ UNCHANGED <<pc, running, ending, kernel, cqes, sqe_waiters, time_tasks>>
  BY DEF get_sqe, Await, Suspend, queueVars, JobInv
<1>2. Cardinality(sq') = Cardinality(sq) + 1
  BY <1>1, EntriesFinite, FS_AddElement
<1>3. Unseen' = Unseen
  BY <1>1 DEF Unseen
<1>4. Len(Unseen) \in Nat
  BY DEF TypeOK, LoopInv, Unseen
<1>5. inflight_completions' = Cardinality(sq') + Cardinality(kernel') + Len(Unseen')
  BY <1>1, <1>2, <1>3, <1>4, EntriesFinite DEF LoopInv
<1>6. QED
  BY <1>1, <1>5 DEF LoopInv, GetSqeNeverNull, WaitHasReason, WaitersHaveReason

\* The kernel makes room in the submission queue, and passes on what it takes.
LEMMA LoopKernel ==
  ASSUME TypeOK, LoopInv, NEW d \in Data, d \in sq => d \notin kernel,
         KernelTakes(d) \/ KernelCompletes(d)
  PROVE  LoopInv'
<1>0. /\ UNCHANGED <<pc, running, phase, ending, inflight_completions, sqe_waiters, time_tasks>>
      /\ cqes \in Seq(Data)
  BY DEF TypeOK, KernelTakes, KernelCompletes, queueVars
<1>1. CASE KernelTakes(d)
  <2>1. d \in sq /\ sq' = sq \ {d} /\ kernel' = kernel \union {d} /\ cqes' = cqes
    BY <1>1 DEF KernelTakes
  <2>2. Cardinality(sq') = Cardinality(sq) - 1 /\ Cardinality(kernel') = Cardinality(kernel) + 1
    BY <2>1, EntriesFinite, FS_AddElement, FS_RemoveElement
  <2>3. Unseen' = Unseen
    BY <1>0, <2>1 DEF Unseen
  <2>4. Len(Unseen) \in Nat
    BY <1>0 DEF LoopInv, Unseen
  <2>5. inflight_completions' = Cardinality(sq') + Cardinality(kernel') + Len(Unseen')
    BY <1>0, <2>2, <2>3, <2>4, EntriesFinite DEF LoopInv
  <2>6. GetSqeNeverNull'
    BY <1>0, <2>2, SQAssumption, EntriesFinite DEF LoopInv, GetSqeNeverNull, sq_space_left
  <2>7. QED
    BY <1>0, <2>1, <2>5, <2>6 DEF LoopInv, WaitHasReason, WaitersHaveReason
<1>2. CASE KernelCompletes(d)
  <2>1. d \in kernel /\ kernel' = kernel \ {d} /\ cqes' = Append(cqes, d) /\ sq' = sq
    BY <1>2 DEF KernelCompletes
  <2>2. Cardinality(kernel') = Cardinality(kernel) - 1
    BY <2>1, EntriesFinite, FS_RemoveElement
  <2>3. Unseen \in Seq(Data) /\ Unseen' = Append(Unseen, d)
    BY <1>0, <2>1, HeadTailAppend DEF LoopInv, Unseen
  <2>4. Len(Unseen) \in Nat /\ Len(Unseen') = Len(Unseen) + 1
    BY <2>3
  <2>5. inflight_completions' = Cardinality(sq') + Cardinality(kernel') + Len(Unseen')
    BY <1>0, <2>1, <2>2, <2>4, EntriesFinite DEF LoopInv
  <2>6. GetSqeNeverNull'
    BY <1>0, <2>1 DEF LoopInv, GetSqeNeverNull, sq_space_left
  <2>7. cqes' # <<>>
    BY <1>0, <2>1
  <2>8. QED
    BY <1>0, <2>5, <2>6, <2>7 DEF LoopInv, WaitHasReason, WaitersHaveReason
<1>3. QED
  BY <1>1, <1>2

-----------------------------------------------------------------------------
(***************************************************************************)
(* The invariant                                                           *)
(***************************************************************************)

LEMMA InitInv == Init => IInv
<1> SUFFICES ASSUME Init PROVE IInv
  OBVIOUS
<1> USE NoneAssumption, BoundAssumption
<1>1. TypeOK
  BY DEF Init, TypeOK, Times
<1>2. JobInv
  BY FS_EmptySet DEF Init, JobInv, OwnersAgree, ParentsAgree, SuspendedExact, Suspended, Holds, resumed
<1>3. Unseen = <<>>
  BY DEF Init, Unseen
<1>4. LoopInv
  BY <1>3, FS_EmptySet DEF Init, LoopInv, GetSqeNeverNull, WaitHasReason, WaitersHaveReason
<1>5. TimersSorted
  BY DEF Init, TimersSorted, SortedByTime
<1>6. HeldInOnePlace
  <2> SUFFICES ASSUME NEW d \in Data PROVE Held(d) = 0
    BY DEF Init, HeldInOnePlace
  <2>1. TimerData(time_tasks) = <<>>
    BY DEF Init, TimerData
  <2>2. Count(<<>>, d) = 0
    BY CountSmall
  <2>3. CountIn(sq, d) = 0 /\ CountIn(kernel, d) = 0
    BY DEF Init, CountIn
  <2>4. ready_queue = <<>> /\ sqe_waiters = <<>>
    BY DEF Init
  <2>5. QED
    BY <1>3, <2>1, <2>2, <2>3, <2>4 DEF Held
<1>7. QED
  BY <1>1, <1>2, <1>4, <1>5, <1>6, Parts

\* Every step keeps the parts of the invariant other than the types.
LEMMA PartsNext ==
  ASSUME TypeOK, ControlInv, JobInv, LoopInv, TimersSorted, HeldInOnePlace, Next, TypeOK'
  PROVE  JobInv' /\ LoopInv' /\ TimersSorted' /\ HeldInOnePlace'
<1> USE NoneAssumption
<1>1. CASE RunCall \/ Check \/ WaitTimeout \/ WaitInterrupted \/ PeekNothing \/ ReadyDrained \/ WaitersDone
  <2>1. /\ UNCHANGED <<running, phase, ending, jobs, parent, children, completions, inflight_jobs,
                       coroutine, owner, handle, parked, ready_queue, sqe_waiters, time_tasks, sq, kernel, cqes>>
        /\ pc # "seen" /\ pc' # "seen"
    BY <1>1 DEF RunCall, Check, WaitTimeout, WaitInterrupted, PeekNothing, ReadyDrained, WaitersDone,
                jobVars, dataVars, ioVars, queueVars
  <2>2. JobInv'
    BY <2>1, JobsSame
  <2>3. LoopInv'
    BY <1>1, LoopMoves
  <2>4. TimersSorted'
    BY <2>1 DEF TimersSorted
  <2>5. HeldInOnePlace'
    BY <2>1, HeldSame DEF Unseen, InUse
  <2>6. QED
    BY <2>2, <2>3, <2>4, <2>5
<1>2. CASE WaitCqe \/ PeekFound
  <2>1. /\ cqes # <<>> /\ Unseen = cqes /\ Resume(Head(cqes), "code") /\ Returned
        /\ time_tasks' = time_tasks
    BY <1>2 DEF WaitCqe, PeekFound, process_cqe, Resume, Unseen, Returned, LoopInv
  <2>2. Head(cqes) \in Data /\ owner[Head(cqes)] # None
    BY <2>1, HeldInUse DEF InUse
  <2>3. JobInv'
    BY <2>1, <2>2, JobsResume
  <2>4. LoopInv'
    BY <1>2, LoopCqe
  <2>5. ControlInv'
    BY <2>3, <2>4 DEF JobInv, LoopInv, ControlInv
  <2>6. HeldInOnePlace'
    BY <1>2, <2>1, <2>5, HeldResume
  <2>7. QED
    BY <2>1, <2>3, <2>4, <2>6 DEF TimersSorted
<1>3. CASE ResumeReady
  <2>1. /\ ready_queue # <<>> /\ Resume(Head(ready_queue), "code") /\ Returned /\ pc = "ready"
        /\ phase' = "code"
        /\ UNCHANGED <<pc, ending, time_tasks, sqe_waiters, sq, kernel, cqes, inflight_completions>>
    BY <1>3 DEF ResumeReady, Resume
  <2>2. Head(ready_queue) \in Data /\ owner[Head(ready_queue)] # None
    BY <2>1, HeldInUse DEF InUse
  <2>3. JobInv'
    BY <2>1, <2>2, JobsResume
  <2>4. LoopInv'
    BY <2>1, LoopSame DEF Unseen
  <2>5. ControlInv'
    BY <2>3, <2>4 DEF JobInv, LoopInv, ControlInv
  <2>6. HeldInOnePlace'
    BY <1>3, <2>1, <2>5, HeldResume
  <2>7. QED
    BY <2>1, <2>3, <2>4, <2>6 DEF TimersSorted
<1>4. CASE ResumeWaiter
  <2>1. /\ sqe_waiters # <<>> /\ Resume(Head(sqe_waiters), "sqe") /\ Returned /\ pc = "sqe"
        /\ phase' = "sqe" /\ sq_space_left > 0
        /\ UNCHANGED <<pc, ending, time_tasks, sq, kernel, cqes, inflight_completions>>
    BY <1>4 DEF ResumeWaiter, Resume
  <2>2. Head(sqe_waiters) \in Data /\ owner[Head(sqe_waiters)] # None
    BY <2>1, HeldInUse DEF InUse
  <2>3. JobInv'
    BY <2>1, <2>2, JobsResume
  <2>4. LoopInv'
    BY <2>1, LoopSame DEF Unseen
  <2>5. ControlInv'
    BY <2>3, <2>4 DEF JobInv, LoopInv, ControlInv
  <2>6. HeldInOnePlace'
    BY <1>4, <2>1, <2>5, HeldResume
  <2>7. QED
    BY <2>1, <2>3, <2>4, <2>6 DEF TimersSorted
<1>5. CASE CqeSeen
  <2>1. /\ UNCHANGED <<running, phase, ending, jobs, parent, children, completions, inflight_jobs,
                       coroutine, owner, handle, parked, ready_queue, sqe_waiters, time_tasks, sq, kernel>>
        /\ Unseen' = Unseen
    BY <1>5 DEF CqeSeen, jobVars, dataVars, queueVars, Unseen
  <2>2. JobInv' /\ LoopInv'
    BY <1>5, <2>1, JobsSame, LoopSeen
  <2>3. HeldInOnePlace'
    BY <2>1, HeldSame DEF InUse
  <2>4. QED
    BY <2>1, <2>2, <2>3 DEF TimersSorted
<1>6. CASE update_timer_tasks
  <2>1. /\ UNCHANGED <<running, phase, ending, jobs, parent, children, completions, inflight_jobs,
                       coroutine, owner, handle, parked, sq, kernel, cqes, inflight_completions>>
        /\ pc = "timers" /\ pc' = "ready"
    BY <1>6 DEF update_timer_tasks, jobVars, dataVars, ioVars
  <2>2. JobInv'
    BY <2>1, JobsSame
  <2>3. LoopInv'
    <3>1. Unseen' = Unseen /\ running = None /\ ending = None /\ phase = "none"
      BY <2>1 DEF Unseen, LoopInv, JobInv
    <3>2. QED
      BY <2>1, <3>1, LoopSame
  <2>4. QED
    BY <1>6, <2>2, <2>3, HeldDue
<1>7. CASE Finish
  <2>1. /\ phase = "code" /\ phase' = "over"
        /\ UNCHANGED <<pc, running, ending, owner, ready_queue, sqe_waiters, time_tasks, sq, kernel,
                       cqes, inflight_completions>>
    BY <1>7 DEF Finish, dataVars, queueVars, ioVars
  <2>2. JobInv'
    BY <1>7, JobsFinish
  <2>3. LoopInv'
    <3>1. Unseen' = Unseen /\ running # None
      BY <2>1 DEF Unseen, JobInv
    <3>2. QED
      BY <2>1, <3>1, LoopSame DEF LoopInv
  <2>4. HeldInOnePlace'
    BY <2>1, HeldSame DEF Unseen, InUse
  <2>5. QED
    BY <2>1, <2>2, <2>3, <2>4 DEF TimersSorted
<1>8. ASSUME NEW d \in Data, enqueue(d) \/ enqueue_sqe_waiter(d) \/ get_sqe(d) \/ \E t \in Times : add_sleep_task(t, d)
      PROVE  JobInv' /\ LoopInv' /\ TimersSorted' /\ HeldInOnePlace'
  <2>1. /\ Await(d) /\ phase \in {"code", "sqe"} /\ phase' = "over"
        /\ UNCHANGED <<pc, running, ending, kernel, cqes>>
    BY <1>8 DEF enqueue, enqueue_sqe_waiter, get_sqe, add_sleep_task, Await, Suspend
  <2>2. JobInv'
    BY <2>1, JobsAwait
  <2>3. current_job \in Jobs /\ user_data_lifetime_begin(d, current_job, resumed) /\ running # None
    BY <2>1, CurrentJobType DEF Await
  <2>4. Unseen' = Unseen /\ pc \in {"seen", "ready", "sqe"}
    BY <2>1, <2>3 DEF Unseen, LoopInv
  <2>5. sq' = sq /\ inflight_completions' = inflight_completions => LoopInv'
    BY <2>1, <2>4, LoopSame DEF LoopInv
  <2>6. CASE enqueue(d)
    <3>1. ready_queue' = Append(ready_queue, d) /\ UNCHANGED <<time_tasks, sqe_waiters, sq, inflight_completions>>
      BY <2>6 DEF enqueue
    <3>2. HeldInOnePlace'
      BY <2>1, <2>3, <3>1, HeldReady
    <3>3. QED
      BY <2>2, <2>5, <3>1, <3>2 DEF TimersSorted
  <2>7. CASE enqueue_sqe_waiter(d)
    <3>1. sqe_waiters' = Append(sqe_waiters, d) /\ UNCHANGED <<ready_queue, time_tasks, sq, inflight_completions>>
      BY <2>7 DEF enqueue_sqe_waiter
    <3>2. HeldInOnePlace'
      BY <2>1, <2>3, <3>1, HeldWaiter
    <3>3. QED
      BY <2>2, <2>5, <3>1, <3>2 DEF TimersSorted
  <2>8. CASE get_sqe(d)
    <3>1. sq' = sq \union {d} /\ UNCHANGED <<ready_queue, time_tasks, sqe_waiters>>
      BY <2>8 DEF get_sqe, queueVars
    <3>2. HeldInOnePlace'
      BY <2>1, <2>3, <3>1, HeldSubmitted
    <3>3. ~InUse(d)
      BY <2>3 DEF user_data_lifetime_begin, InUse
    <3>4. d \notin sq
      BY <3>3, HeldInUse
    <3>5. LoopInv'
      BY <2>8, <3>4, LoopSubmit
    <3>6. QED
      BY <2>2, <3>1, <3>2, <3>5 DEF TimersSorted
  <2>9. ASSUME NEW t \in Times, add_sleep_task(t, d)
        PROVE  JobInv' /\ LoopInv' /\ TimersSorted' /\ HeldInOnePlace'
    <3>1. UNCHANGED <<sqe_waiters, sq, inflight_completions>>
      BY <2>9 DEF add_sleep_task
    <3>2. CASE t < now
      <4>1. ready_queue' = Append(ready_queue, d) /\ UNCHANGED time_tasks
        BY <2>9, <3>2 DEF add_sleep_task
      <4>2. HeldInOnePlace'
        BY <2>1, <2>3, <3>1, <4>1, HeldReady
      <4>3. QED
        BY <2>2, <2>5, <3>1, <4>1, <4>2 DEF TimersSorted
    <3>3. CASE ~(t < now)
      <4>1. time_tasks' = InsertTimer(time_tasks, [time |-> t, data |-> d]) /\ UNCHANGED ready_queue
        BY <2>9, <3>3 DEF add_sleep_task
      <4>2. HeldInOnePlace'
        BY <2>1, <2>3, <3>1, <4>1, HeldTimer
      <4>3. [time |-> t, data |-> d] \in Timers /\ time_tasks \in Seq(Timers)
        BY DEF Timers, TypeOK
      <4>4. TimersSorted'
        BY <4>1, <4>3, InsertTimerProperties DEF TimersSorted
      <4>5. QED
        BY <2>2, <2>5, <3>1, <4>2, <4>4
    <3>4. QED
      BY <3>2, <3>3
  <2>10. QED
    BY <1>8, <2>6, <2>7, <2>8, <2>9
<1>9. CASE user_data_lifetime_end
  <2>1. /\ phase = "over" /\ phase' = "none" /\ running' = None
        /\ owner' = [owner EXCEPT ![running] = None]
        /\ UNCHANGED <<pc, ready_queue, sqe_waiters, time_tasks, sq, kernel, cqes, inflight_completions>>
    BY <1>9 DEF user_data_lifetime_end, queueVars, ioVars
  <2>2. JobInv'
    BY <1>9, JobsDataEnd
  <2>3. Unseen' = Unseen /\ running # None /\ running \in Data
    BY <2>1 DEF Unseen, JobInv, TypeOK
  <2>4. LoopInv'
    BY <2>1, <2>3, LoopSame DEF LoopInv
  <2>5. \A x \in Data : InUse(x)' <=> InUse(x)
    BY <2>1, <2>3 DEF InUse, TypeOK
  <2>6. HeldInOnePlace'
    BY <2>1, <2>3, <2>5, HeldSame
  <2>7. QED
    BY <2>1, <2>2, <2>4, <2>6 DEF TimersSorted
<1>10. CASE job_lifetime_end
  <2>1. /\ ending # None
        /\ UNCHANGED <<pc, running, phase, owner, ready_queue, sqe_waiters, time_tasks, sq, kernel,
                       cqes, inflight_completions>>
    BY <1>10 DEF job_lifetime_end, queueVars, ioVars
  <2>2. JobInv'
    BY <1>10, JobsJobEnd
  <2>3. Unseen' = Unseen /\ running = None /\ phase = "none"
    BY <2>1 DEF Unseen, JobInv
  <2>4. LoopInv'
    BY <2>1, <2>3, LoopSame DEF LoopInv
  <2>5. HeldInOnePlace'
    BY <2>1, <2>3, HeldSame DEF InUse
  <2>6. QED
    BY <2>1, <2>2, <2>4, <2>5 DEF TimersSorted
<1>11. ASSUME NEW d \in Data, KernelTakes(d) \/ KernelCompletes(d)
       PROVE  JobInv' /\ LoopInv' /\ TimersSorted' /\ HeldInOnePlace'
  <2>1. UNCHANGED <<running, phase, ending, jobs, parent, children, completions, inflight_jobs,
                    coroutine, owner, handle, parked, time_tasks>>
    BY <1>11 DEF KernelTakes, KernelCompletes, jobVars, dataVars, queueVars
  <2>2. d \in sq => d \notin kernel
    BY HeldInUse
  <2>3. JobInv' /\ LoopInv' /\ HeldInOnePlace'
    BY <1>11, <2>1, <2>2, JobsSame, LoopKernel, HeldKernel
  <2>4. QED
    BY <2>1, <2>3 DEF TimersSorted
<1>12. CASE Tick
  <2>1. UNCHANGED <<pc, running, phase, ending, jobs, parent, children, completions, inflight_jobs,
                    coroutine, owner, handle, parked, ready_queue, sqe_waiters, time_tasks, sq, kernel, cqes,
                    inflight_completions>>
    BY <1>12 DEF Tick, jobVars, dataVars, queueVars, ioVars
  <2>2. JobInv' /\ LoopInv'
    BY <2>1, JobsSame, LoopStill
  <2>3. HeldInOnePlace'
    BY <2>1, HeldSame DEF Unseen, InUse
  <2>4. QED
    BY <2>1, <2>2, <2>3 DEF TimersSorted
<1>13. ASSUME NEW j \in Jobs, NEW d \in Data, NEW f \in Frames,
              SpawnRoot(j, d, f) \/ SpawnChild(j, d, f)
       PROVE  JobInv' /\ LoopInv' /\ TimersSorted' /\ HeldInOnePlace'
  <2>1. spawn(j, d, f) /\ (phase = "code" \/ running = None) /\ ending = None
    BY <1>13 DEF SpawnRoot, SpawnChild, LoopInv, JobInv
  <2>2. /\ user_data_lifetime_begin(d, j, f) /\ ready_queue' = Append(ready_queue, d)
        /\ UNCHANGED <<pc, running, phase, ending, sqe_waiters, time_tasks, sq, kernel, cqes,
                       inflight_completions>>
    BY <2>1 DEF spawn, ioVars
  <2>3. JobInv' /\ LoopInv' /\ HeldInOnePlace'
    BY <2>1, <2>2, JobsSpawn, LoopStill, HeldReady
  <2>4. QED
    BY <2>2, <2>3 DEF TimersSorted
<1>14. CASE acquire
  <2>1. /\ phase = "code" /\ phase' = "over"
        /\ UNCHANGED <<pc, running, ending, owner, ready_queue, sqe_waiters, time_tasks, sq, kernel,
                       cqes, inflight_completions>>
    BY <1>14 DEF acquire, Suspend, queueVars
  <2>2. JobInv'
    BY <1>14, JobsAcquire
  <2>3. LoopInv'
    <3>1. Unseen' = Unseen /\ running # None
      BY <2>1 DEF Unseen, JobInv
    <3>2. QED
      BY <2>1, <3>1, LoopSame DEF LoopInv
  <2>4. HeldInOnePlace'
    BY <2>1, HeldSame DEF Unseen, InUse
  <2>5. QED
    BY <2>1, <2>2, <2>3, <2>4 DEF TimersSorted
<1>15. ASSUME NEW f \in Frames, NEW d \in Data, release(f, d)
       PROVE  JobInv' /\ LoopInv' /\ TimersSorted' /\ HeldInOnePlace'
  <2>1. /\ user_data_lifetime_begin(d, current_job, f) /\ ready_queue' = Append(ready_queue, d)
        /\ UNCHANGED <<pc, running, phase, ending, sqe_waiters, time_tasks, sq, kernel, cqes,
                       inflight_completions>>
        /\ phase = "code"
    BY <1>15 DEF release, ioVars
  <2>2. current_job \in Jobs
    BY <2>1, CurrentJobType
  <2>3. JobInv' /\ LoopInv' /\ HeldInOnePlace'
    BY <1>15, <2>1, <2>2, JobsRelease, LoopStill, HeldReady
  <2>4. QED
    BY <2>1, <2>3 DEF TimersSorted
<1>16. QED
  BY <1>1, <1>2, <1>3, <1>4, <1>5, <1>6, <1>7, <1>8, <1>9, <1>10, <1>11, <1>12, <1>13, <1>14, <1>15
     DEF Next, Loop, Coroutine, Lifetime, Kernel

\* The invariant holds at every step, whatever coroutines, kernel and clock do.
THEOREM Invariance == Spec => []IInv
<1>1. Init => IInv
  BY InitInv
<1>2. IInv /\ [Next]_vars => IInv'
  <2> SUFFICES ASSUME IInv, [Next]_vars PROVE IInv'
    OBVIOUS
  <2>1. TypeOK /\ ControlInv /\ TimersSorted
    BY DEF IInv
  <2>2. JobInv /\ LoopInv /\ HeldInOnePlace
    BY <2>1, Parts
  <2>3. TypeOK'
    BY <2>1, TypeNext
  <2>4. CASE Next
    <3>1. JobInv' /\ LoopInv' /\ TimersSorted' /\ HeldInOnePlace'
      BY <2>1, <2>2, <2>3, <2>4, PartsNext
    <3>2. OwnersAgree' => (SuspendedOnce' <=> SuspendedExact')
      BY <2>3, SuspendedForms, PTL
    <3>3. QED
      BY <2>3, <3>1, <3>2 DEF IInv, JobInv, LoopInv, ControlInv, NothingLeaks
  <2>5. CASE UNCHANGED vars
    <3>1. \A d \in Data : Held(d)' = Held(d)
      BY <2>5 DEF vars, jobVars, dataVars, queueVars, ioVars, Held, Unseen
    <3>2. HeldInOnePlace'
      BY <2>2, <2>5, <3>1 DEF vars, jobVars, dataVars, queueVars, ioVars, HeldInOnePlace
    <3>3. SuspendedOnce'
      BY <2>5 DEF IInv, vars, jobVars, dataVars, queueVars, ioVars, SuspendedOnce, resumed
    <3>4. ControlInv' /\ TimersSorted' /\ OwnersAgree' /\ ParentsAgree'
      BY <2>5 DEF IInv, vars, jobVars, dataVars, queueVars, ioVars, ControlInv, TimersSorted, OwnersAgree,
                  ParentsAgree, resumed
    <3>5. NothingLeaks' /\ GetSqeNeverNull' /\ WaitHasReason' /\ WaitersHaveReason'
      BY <2>5 DEF IInv, vars, jobVars, dataVars, queueVars, ioVars, NothingLeaks, GetSqeNeverNull,
                  WaitHasReason, WaitersHaveReason, Unseen, sq_space_left
    <3>6. QED
      BY <2>3, <3>2, <3>3, <3>4, <3>5 DEF IInv
  <2>6. QED
    BY <2>4, <2>5
<1>3. QED
  BY <1>1, <1>2, PTL DEF Spec

\* No coroutine is lost and none is resumed twice: every user_data in use is in
\* exactly one of the ready queue, the timers, the waiters and io_uring, and
\* every suspended coroutine is held by exactly one user_data or is in the queue
\* of one semaphore (resume_stall_check consumes the user_data it resumes, release
\* takes the coroutine out of the queue that it enqueues).
THEOREM CoroutinesInOnePlace == Spec => []CoroutineInOnePlace
<1>1. IInv => CoroutineInOnePlace
  BY DEF IInv, CoroutineInOnePlace
<1>2. QED
  BY <1>1, Invariance, PTL

\* A job lives exactly as long as a completion or a child of it does, what it
\* refers to is alive, and inflight_jobs and inflight_completions count what
\* they say (job_lifetime_end, user_data_lifetime_end, process_cqe).
THEOREM JobsEndWithTheirWork == Spec => []JobEndsWithItsWork
<1>1. IInv => JobEndsWithItsWork
  <2> SUFFICES ASSUME IInv PROVE NoDanglingJob /\ NoJobLeaks
    BY DEF JobEndsWithItsWork
  <2>1. \A d \in Data : owner[d] # None => owner[d] \in jobs /\ d \in completions[owner[d]]
    BY DEF IInv, TypeOK, OwnersAgree
  <2>2. \A j \in jobs : parent[j] # None => parent[j] \in jobs /\ j \in children[parent[j]]
    BY DEF IInv, TypeOK, ParentsAgree
  <2>3. NoJobLeaks
    BY NoneAssumption DEF IInv, TypeOK, NothingLeaks, NoJobLeaks, Returned
  <2>4. QED
    BY <2>1, <2>2, <2>3 DEF NoDanglingJob
<1>2. QED
  BY <1>1, Invariance, PTL

\* get_sqe after wait_for_sqe finds room in the submission queue.
THEOREM GetSqeSucceeds == Spec => []GetSqeNeverNull
<1>1. IInv => GetSqeNeverNull
  BY DEF IInv
<1>2. QED
  BY <1>1, Invariance, PTL

\* run() never waits without a timeout for a completion that nobody will send.
THEOREM WaitsHaveReason == Spec => []WaitHasReason
<1>1. IInv => WaitHasReason
  BY DEF IInv
<1>2. QED
  BY <1>1, Invariance, PTL

\* update_timer_tasks readies every timer that is due and no other, in the
\* order of the deadlines.
THEOREM SleepersInOrder == Spec => NoSleeperPassedOver
<1>1. ASSUME IInv, [Next]_vars, pc = "timers", pc' = "ready"
      PROVE  /\ \A i \in DOMAIN time_tasks' : time_tasks'[i].time >= now
             /\ \A i \in DOMAIN time_tasks : time_tasks[i].time < now =>
                  \A k \in 1 .. i : time_tasks[k].time <= time_tasks[i].time
  <2>1. TypeOK /\ TimersSorted /\ ControlInv
    BY <1>1 DEF IInv
  <2>2. /\ Due \in 0 .. Len(time_tasks)
        /\ \A i \in 1 .. Len(time_tasks) : time_tasks[i].time < now <=> i <= Due
    BY <2>1, DueType
  <2>3. time_tasks' = SubSeq(time_tasks, Due + 1, Len(time_tasks))
    <3>1. phase = "none" /\ ending = None /\ running = None
      BY <1>1, <2>1 DEF ControlInv
    <3>2. update_timer_tasks
      BY <1>1, <3>1 DEF Next, Loop, Coroutine, Lifetime, Kernel, vars, Check, WaitCqe, WaitTimeout,
           CqeSeen, PeekFound, process_cqe, PeekNothing, ResumeReady, ReadyDrained, ResumeWaiter,
           WaitersDone, Finish, acquire, release, enqueue, enqueue_sqe_waiter, get_sqe, add_sleep_task,
           user_data_lifetime_end, job_lifetime_end, KernelTakes, KernelCompletes, Tick, RunCall,
           WaitInterrupted, SpawnRoot, SpawnChild
    <3>3. QED
      BY <3>2 DEF update_timer_tasks
  <2>4. /\ time_tasks \in Seq(Timers) /\ now \in Int
        /\ \A i \in 1 .. Len(time_tasks) : time_tasks[i].time \in Int
    <3>1. time_tasks \in Seq(Timers) /\ now \in Times
      BY <2>1 DEF TypeOK
    <3>2. now \in Int
      BY <3>1, BoundAssumption DEF Times
    <3>3. \A i \in 1 .. Len(time_tasks) : time_tasks[i].time \in Int
      BY <3>1, TimerFields
    <3>4. QED
      BY <3>1, <3>2, <3>3
  <2>5. \A i \in DOMAIN time_tasks' :
          i + Due \in 1 .. Len(time_tasks) /\ ~(i + Due <= Due) /\ time_tasks'[i] = time_tasks[i + Due]
    BY <2>2, <2>3, <2>4
  <2>6. \A i \in DOMAIN time_tasks' : time_tasks'[i].time >= now
    BY <2>2, <2>4, <2>5
  <2>7. \A i \in DOMAIN time_tasks : \A k \in 1 .. i : time_tasks[k].time <= time_tasks[i].time
    BY <2>1, <2>4 DEF TimersSorted, SortedByTime
  <2>8. QED
    BY <2>6, <2>7
<1>2. IInv /\ [Next]_vars =>
        [pc = "timers" /\ pc' = "ready" =>
           /\ \A i \in DOMAIN time_tasks' : time_tasks'[i].time >= now
           /\ \A i \in DOMAIN time_tasks : time_tasks[i].time < now =>
                \A k \in 1 .. i : time_tasks[k].time <= time_tasks[i].time]_vars
  BY <1>1
<1>3. QED
  BY <1>2, Invariance, PTL DEF Spec, NoSleeperPassedOver

-----------------------------------------------------------------------------
(***************************************************************************)
(* The reactor implements JobTree                                          *)
(***************************************************************************)

\* what Charged is made of
Charges(d, f, j) ==
  handle[d] = f /\ owner[d] = j /\ owner[d] # None /\ ~(d = running /\ phase = "over")

LEMMA ChargedPairs ==
  ASSUME TypeOK, OwnersAgree
  PROVE  /\ \A p \in Charged : \E f \in Frames, j \in Jobs : p = <<f, j>>
         /\ \A f, j : <<f, j>> \in Charged <=> \E d \in Data : Charges(d, f, j)
<1>1. \A d \in Data : owner[d] # None => owner[d] \in Jobs /\ handle[d] \in Frames
  BY DEF TypeOK, OwnersAgree
<1>2. \A p : p \in Charged <=>
        \E d \in Data : p = <<handle[d], owner[d]>> /\ owner[d] # None /\ ~(d = running /\ phase = "over")
  BY DEF Charged
<1>3. \A p \in Charged : \E f \in Frames, j \in Jobs : p = <<f, j>>
  BY <1>1, <1>2
<1>4. ASSUME NEW f, NEW j
      PROVE  <<f, j>> \in Charged <=> \E d \in Data : Charges(d, f, j)
  BY <1>2 DEF Charges
<1>5. QED
  BY <1>3, <1>4

LEMMA ChargedPairsNext ==
  ASSUME TypeOK', OwnersAgree'
  PROVE  /\ \A p \in Charged' : \E f \in Frames, j \in Jobs : p = <<f, j>>
         /\ \A f, j : <<f, j>> \in Charged' <=> \E d \in Data : Charges(d, f, j)'
<1>1. \A d \in Data : owner'[d] # None => owner'[d] \in Jobs /\ handle'[d] \in Frames
  BY DEF TypeOK, OwnersAgree
<1>2. \A p : p \in Charged' <=>
        \E d \in Data : p = <<handle'[d], owner'[d]>> /\ owner'[d] # None
                        /\ ~(d = running' /\ phase' = "over")
  BY DEF Charged
<1>3. \A p \in Charged' : \E f \in Frames, j \in Jobs : p = <<f, j>>
  BY <1>1, <1>2
<1>4. ASSUME NEW f, NEW j
      PROVE  <<f, j>> \in Charged' <=> \E d \in Data : Charges(d, f, j)'
  BY <1>2 DEF Charges
<1>5. QED
  BY <1>3, <1>4

LEMMA ChargedChange ==
  ASSUME TypeOK, OwnersAgree, TypeOK', OwnersAgree', NEW Gone, NEW More,
         \A p \in More : \E f \in Frames, j \in Jobs : p = <<f, j>>,
         \A f \in Frames, j \in Jobs :
           (\E d \in Data : Charges(d, f, j)')
             <=> ((\E d \in Data : Charges(d, f, j)) /\ <<f, j>> \notin Gone) \/ <<f, j>> \in More
  PROVE  Charged' = (Charged \ Gone) \union More
<1>1. \A p \in Charged : \E f \in Frames, j \in Jobs : p = <<f, j>>
  BY ChargedPairs
<1>2. \A p \in Charged' : \E f \in Frames, j \in Jobs : p = <<f, j>>
  BY ChargedPairsNext
<1>3. ASSUME NEW f \in Frames, NEW j \in Jobs
      PROVE  <<f, j>> \in Charged' <=> (<<f, j>> \in Charged /\ <<f, j>> \notin Gone) \/ <<f, j>> \in More
  <2>1. <<f, j>> \in Charged <=> \E d \in Data : Charges(d, f, j)
    BY ChargedPairs, Zenon
  <2>2. <<f, j>> \in Charged' <=> \E d \in Data : Charges(d, f, j)'
    BY ChargedPairsNext, Zenon
  <2>3. QED
    BY <2>1, <2>2, Zenon
<1>4. ASSUME NEW p
      PROVE  p \in Charged' <=> (p \in Charged /\ p \notin Gone) \/ p \in More
  <2>1. CASE \E f \in Frames, j \in Jobs : p = <<f, j>>
    BY <1>3, <2>1, Zenon
  <2>2. CASE ~\E f \in Frames, j \in Jobs : p = <<f, j>>
    BY <1>1, <1>2, <2>2, Zenon
  <2>3. QED
    BY <2>1, <2>2
<1>5. QED
  BY <1>4, Zenon

\* The steps that do not touch what is charged.
LEMMA ChargedSame ==
  ASSUME UNCHANGED <<running, phase, owner, handle>>
  PROVE  Charged' = Charged
BY DEF Charged

\* A job ends when its children have ended and the coroutines charged to it have
\* finished or have parked in a semaphore: spawn, the end of a DetachedTask, the
\* wait for a semaphore, release and job_lifetime_end are steps of JobTree, and
\* every other step leaves the tree alone.
THEOREM Refinement == Spec => ImplementsJobTree
<1> USE NoneAssumption
<1>1. Init => Tree!Init
  <2> SUFFICES ASSUME Init PROVE Tree!Init
    OBVIOUS
  <2>1. Charged = {}
    BY DEF Init, Charged
  <2>2. QED
    BY <2>1 DEF Init, Tree!Init
<1>2. IInv /\ IInv' /\ [Next]_vars => [Tree!Next]_(Tree!vars)
  <2> SUFFICES ASSUME IInv, IInv', [Next]_vars PROVE [Tree!Next]_(Tree!vars)
    OBVIOUS
  <2>0. /\ TypeOK /\ ControlInv /\ OwnersAgree /\ ParentsAgree /\ JobInv
        /\ TypeOK' /\ OwnersAgree'
    BY Parts DEF IInv
  <2> DEFINE c == current_job
             r == resumed
  <2>1. ASSUME NEW j \in Jobs, NEW d \in Data, NEW f \in Frames,
               SpawnRoot(j, d, f) \/ SpawnChild(j, d, f)
        PROVE  Tree!Next
    <3>1. c \in Jobs \union {None} /\ (phase = "code" \/ (running = None /\ c = None))
      BY <2>0, <2>1, CurrentJobType DEF SpawnRoot, SpawnChild, ControlInv, current_job
    <3>2. /\ spawn(j, d, f) /\ j \notin jobs /\ f \notin coroutine /\ user_data_lifetime_begin(d, j, f)
          /\ jobs' = jobs \union {j} /\ parent' = [parent EXCEPT ![j] = c]
          /\ UNCHANGED <<running, phase, parked>>
      BY <2>1 DEF SpawnRoot, SpawnChild, spawn, job_lifetime_begin
    <3>3. ~Suspended(f)
      BY <3>2 DEF Suspended
    <3>4. f \notin parked /\ \A x \in Data : ~Holds(x, f)
      BY <2>0, <3>3 DEF JobInv, SuspendedExact
    <3>5. \A x \in Data : \A k : ~Charges(x, f, k)
      <4>1. phase = "code" => handle[running] # f
        BY <2>0, <3>2, ResumedAlone
      <4>2. QED
        BY <2>0, <3>1, <3>4, <4>1 DEF Holds, Charges, TypeOK
    <3>6. c # None => Tree!Active(c)
      <4>1. ASSUME c # None
            PROVE  r \in Frames /\ Charges(running, r, c) /\ running \in Data
        BY <2>0, <3>1, <4>1, ResumedAlone DEF Charges
      <4>2. QED
        BY <2>0, <4>1, ChargedPairs DEF Tree!Active
    <3>7. \A k \in Jobs : <<f, k>> \notin Charged
      BY <2>0, <3>5, ChargedPairs
    <3>8. Charged' = (Charged \ {}) \union {<<f, j>>}
      <4>1. /\ \A x \in Data : owner'[x] = IF x = d THEN j ELSE owner[x]
            /\ \A x \in Data : handle'[x] = IF x = d THEN f ELSE handle[x]
            /\ owner[d] = None
        BY <2>0, <3>2, OwnersBegin
      <4>2. d # running
        BY <2>0, <4>1 DEF ControlInv, TypeOK
      <4>3. \A x \in Data, g \in Frames, k \in Jobs :
              Charges(x, g, k)' <=> Charges(x, g, k) \/ (x = d /\ g = f /\ k = j)
        BY <3>2, <4>1, <4>2 DEF Charges
      <4>4. \A g \in Frames, k \in Jobs :
              (\E x \in Data : Charges(x, g, k)')
                <=> ((\E x \in Data : Charges(x, g, k)) /\ <<g, k>> \notin {}) \/ <<g, k>> \in {<<f, j>>}
        BY <4>3
      <4>5. QED
        BY <2>0, <4>4, ChargedChange
    <3>9. Tree!Spawn(c, j, f)
      BY <3>1, <3>2, <3>4, <3>6, <3>7, <3>8 DEF Tree!Spawn
    <3> HIDE DEF c
    <3>10. QED
      BY <3>1, <3>9 DEF Tree!Next
  <2>2. ASSUME Finish \/ acquire
        PROVE  /\ r \in Frames /\ c \in Jobs /\ <<r, c>> \in Charged
               /\ Charged' = Charged \ {<<r, c>>}
    <3>1. /\ r \in Frames /\ c \in Jobs /\ running \in Data /\ c = owner[running] /\ r = handle[running]
          /\ \A x \in Data : handle[x] = r => x = running
      BY <2>0, <2>2, ResumedAlone DEF Finish, acquire
    <3>2. phase = "code" /\ phase' = "over" /\ UNCHANGED <<running, owner, handle>>
      BY <2>2 DEF Finish, acquire, Suspend, dataVars
    <3>3. Charges(running, r, c)
      BY <3>1, <3>2 DEF Charges
    <3>4. \A x \in Data, g \in Frames, k \in Jobs :
            Charges(x, g, k)' <=> Charges(x, g, k) /\ x # running
      BY <3>2 DEF Charges
    <3>5. \A x \in Data, g \in Frames, k \in Jobs :
            Charges(x, g, k) => (x = running <=> g = r /\ k = c)
      BY <3>1, <3>2 DEF Charges
    <3>6. \A g \in Frames, k \in Jobs :
            (\E x \in Data : Charges(x, g, k)')
              <=> ((\E x \in Data : Charges(x, g, k)) /\ <<g, k>> \notin {<<r, c>>}) \/ <<g, k>> \in {}
      BY <3>1, <3>4, <3>5
    <3>7. Charged' = (Charged \ {<<r, c>>}) \union {}
      BY <2>0, <3>6, ChargedChange
    <3>8. QED
      BY <2>0, <3>1, <3>3, <3>7, ChargedPairs
  <2>3. CASE Finish
    <3>1. Tree!Finish(r, c)
      BY <2>2, <2>3 DEF Finish, dataVars, Tree!Finish
    <3> HIDE DEF c, r
    <3>2. QED
      BY <2>2, <2>3, <3>1 DEF Tree!Next
  <2>4. CASE acquire
    <3>1. Tree!Park(r, c)
      BY <2>2, <2>4 DEF acquire, Suspend, jobVars, Tree!Park
    <3> HIDE DEF c, r
    <3>2. QED
      BY <2>2, <2>4, <3>1 DEF Tree!Next
  <2>5. ASSUME NEW f \in Frames, NEW d \in Data, release(f, d)
        PROVE  Tree!Next
    <3>1. /\ c \in Jobs /\ running \in Data /\ r \in Frames /\ c = owner[running] /\ r = handle[running]
          /\ c \in jobs
      BY <2>0, <2>5, ResumedAlone DEF release
    <3>2. /\ phase = "code" /\ f \in parked /\ user_data_lifetime_begin(d, c, f) /\ parked' = parked \ {f}
          /\ UNCHANGED <<running, phase, jobs, parent>>
      BY <2>5 DEF release, jobVars
    <3> HIDE DEF c
    <3>3. Charges(running, r, c)
      BY <3>1, <3>2 DEF Charges
    <3> HIDE DEF r
    <3>4. Tree!Active(c)
      BY <2>0, <3>1, <3>3, ChargedPairs DEF Tree!Active
    <3>5. Charged' = (Charged \ {}) \union {<<f, c>>}
      <4>1. /\ \A x \in Data : owner'[x] = IF x = d THEN c ELSE owner[x]
            /\ \A x \in Data : handle'[x] = IF x = d THEN f ELSE handle[x]
            /\ owner[d] = None
        BY <2>0, <3>1, <3>2, OwnersBegin
      <4>2. d # running
        BY <3>1, <4>1
      <4>3. \A x \in Data, g \in Frames, k \in Jobs :
              Charges(x, g, k)' <=> Charges(x, g, k) \/ (x = d /\ g = f /\ k = c)
        BY <3>1, <3>2, <4>1, <4>2 DEF Charges
      <4>4. \A g \in Frames, k \in Jobs :
              (\E x \in Data : Charges(x, g, k)')
                <=> ((\E x \in Data : Charges(x, g, k)) /\ <<g, k>> \notin {}) \/ <<g, k>> \in {<<f, c>>}
        BY <4>3
      <4>5. QED
        BY <2>0, <3>1, <4>4, ChargedChange
    <3>6. Tree!Wake(f, c)
      BY <3>2, <3>4, <3>5 DEF Tree!Wake
    <3>7. QED
      BY <3>1, <3>6 DEF Tree!Next
  <2>6. CASE job_lifetime_end
    <3>1. ending \in Jobs /\ ending \in jobs /\ children[ending] = {} /\ completions[ending] = {}
      BY <2>0, <2>6 DEF TypeOK, ControlInv, job_lifetime_end
    <3>2. \A k \in jobs : parent[k] # ending
      BY <2>0, <3>1 DEF ParentsAgree
    <3>3. \A x \in Data : owner[x] # ending
      BY <2>0, <3>1 DEF OwnersAgree
    <3>4. ~Tree!Active(ending)
      BY <2>0, <3>3, ChargedPairs DEF Tree!Active, Charges
    <3>5. Charged' = Charged
      BY <2>6, ChargedSame DEF job_lifetime_end
    <3>6. Tree!End(ending)
      BY <2>6, <3>1, <3>2, <3>4, <3>5 DEF job_lifetime_end, Tree!End
    <3>7. QED
      BY <3>1, <3>6 DEF Tree!Next
  <2>7. CASE UNCHANGED vars
    BY <2>7, ChargedSame DEF vars, jobVars, dataVars, Tree!vars
  <2>8. ASSUME NEW d \in Data, NEW then \in {"code", "sqe"}, Returned, Resume(d, then)
        PROVE  UNCHANGED Tree!vars
    <3>1. phase = "none" /\ running' = d /\ phase' = then /\ UNCHANGED <<owner, handle>>
      BY <2>0, <2>8 DEF Resume, dataVars, Returned, ControlInv
    <3>2. Charged' = Charged
      BY <3>1 DEF Charged
    <3>3. QED
      BY <2>8, <3>2 DEF Resume, jobVars, dataVars, Tree!vars
  <2>9. CASE WaitCqe \/ PeekFound \/ ResumeReady \/ ResumeWaiter
    <3>1. Returned
      BY <2>0, <2>9 DEF ControlInv, Returned, WaitCqe, PeekFound, ResumeReady, ResumeWaiter
    <3>2. \E d \in Data, then \in {"code", "sqe"} : Resume(d, then)
      BY <2>0, <2>9 DEF TypeOK, WaitCqe, PeekFound, process_cqe, ResumeReady, ResumeWaiter
    <3>3. QED
      BY <2>8, <3>1, <3>2
  <2>10. CASE Check \/ WaitTimeout \/ CqeSeen \/ PeekNothing \/ ReadyDrained \/ WaitersDone \/ update_timer_tasks
    <3>1. UNCHANGED <<running, phase, owner, handle, jobs, parent, parked>>
      BY <2>10 DEF Check, WaitTimeout, CqeSeen, PeekNothing, ReadyDrained, WaitersDone,
                   update_timer_tasks, jobVars, dataVars
    <3>2. QED
      BY <3>1, ChargedSame DEF Tree!vars
  <2>11. ASSUME NEW d \in Data, enqueue(d) \/ enqueue_sqe_waiter(d) \/ get_sqe(d) \/ \E t \in Times : add_sleep_task(t, d)
        PROVE  UNCHANGED Tree!vars
    <3>1. Await(d) /\ phase \in {"code", "sqe"}
      BY <2>11 DEF enqueue, enqueue_sqe_waiter, get_sqe, add_sleep_task
    <3>2. /\ user_data_lifetime_begin(d, c, r) /\ phase' = "over"
          /\ UNCHANGED <<running, jobs, parent, parked>>
      BY <3>1 DEF Await, Suspend, jobVars
    <3>3. /\ r \in Frames /\ c \in Jobs /\ running \in Data /\ c = owner[running] /\ r = handle[running]
          /\ \A x \in Data : handle[x] = r => x = running
          /\ c \in jobs
      BY <2>0, <3>1, ResumedAlone
    <3> HIDE DEF c, r
    <3>4. /\ \A x \in Data : owner'[x] = IF x = d THEN c ELSE owner[x]
          /\ \A x \in Data : handle'[x] = IF x = d THEN r ELSE handle[x]
          /\ owner[d] = None
      BY <2>0, <3>2, <3>3, OwnersBegin
    <3>5. d # running
      BY <3>3, <3>4
    <3>6. \A x \in Data, g \in Frames, k \in Jobs :
            Charges(x, g, k)' <=> (Charges(x, g, k) /\ x # running) \/ (x = d /\ g = r /\ k = c)
      BY <3>1, <3>2, <3>3, <3>4, <3>5 DEF Charges
    <3>7. \A g \in Frames, k \in Jobs : Charges(running, g, k) <=> g = r /\ k = c
      BY <3>1, <3>3 DEF Charges
    <3>8. \A g \in Frames, k \in Jobs :
            (\E x \in Data : Charges(x, g, k)')
              <=> ((\E x \in Data : Charges(x, g, k)) /\ <<g, k>> \notin {}) \/ <<g, k>> \in {}
      BY <3>3, <3>6, <3>7
    <3>9. Charged' = (Charged \ {}) \union {}
      BY <2>0, <3>8, ChargedChange
    <3>10. QED
      BY <3>2, <3>9 DEF Tree!vars
  <2>12. CASE user_data_lifetime_end
    <3>1. /\ phase = "over" /\ phase' = "none" /\ running' = None /\ running \in Data
          /\ owner' = [owner EXCEPT ![running] = None]
          /\ handle' = [handle EXCEPT ![running] = None]
          /\ UNCHANGED <<jobs, parent, parked>>
      BY <2>0, <2>12 DEF user_data_lifetime_end, ControlInv, TypeOK
    <3>2. \A x \in Data : x # running => owner'[x] = owner[x] /\ handle'[x] = handle[x]
      BY <2>0, <3>1 DEF TypeOK
    <3>3. owner'[running] = None
      BY <2>0, <3>1 DEF TypeOK
    <3>4. \A x \in Data, g \in Frames, k \in Jobs : Charges(x, g, k)' <=> Charges(x, g, k)
      BY <3>1, <3>2, <3>3 DEF Charges
    <3>5. \A g \in Frames, k \in Jobs :
            (\E x \in Data : Charges(x, g, k)')
              <=> ((\E x \in Data : Charges(x, g, k)) /\ <<g, k>> \notin {}) \/ <<g, k>> \in {}
      BY <3>4
    <3>6. Charged' = (Charged \ {}) \union {}
      BY <2>0, <3>5, ChargedChange
    <3>7. QED
      BY <3>1, <3>6 DEF Tree!vars
  <2>13. CASE Kernel \/ Tick \/ RunCall \/ WaitInterrupted
    <3>1. UNCHANGED <<running, phase, owner, handle, jobs, parent, parked>>
      BY <2>13 DEF Kernel, KernelTakes, KernelCompletes, Tick, RunCall, WaitInterrupted, jobVars,
                   dataVars
    <3>2. QED
      BY <3>1, ChargedSame DEF Tree!vars
  <2>14. QED
    BY <2>1, <2>3, <2>4, <2>5, <2>6, <2>7, <2>9, <2>10, <2>11, <2>12, <2>13
       DEF Next, Loop, Coroutine, Lifetime
<1>3. QED
  BY <1>1, <1>2, Invariance, PTL DEF Spec, ImplementsJobTree, Tree!Spec


-----------------------------------------------------------------------------
(***************************************************************************)
(* Tasks and cancellation                                                  *)
(***************************************************************************)

\* What is below the target stays below it: a job gets its parent once.
TaskParentsStay ==
    /\ taskTarget' = taskTarget
    /\ \A k \in TaskJobs : taskJob'[k].parent = taskJob[k].parent \/ taskJob[k].parent = TaskNone

LEMMA TaskBelowStays ==
  ASSUME TaskParentsStay, NEW j, TaskBelowTarget(j)
  PROVE  TaskBelowTarget(j)'
<1>1. ASSUME NEW S \in SUBSET TaskJobs, TaskClosed(S)' PROVE TaskClosed(S)
  BY <1>1, TaskAssumption DEF TaskClosed, TaskParentsStay, TaskNone
<1>2. QED
  BY <1>1 DEF TaskBelowTarget, TaskParentsStay

LEMMA TaskBelowChild ==
  ASSUME TaskTypes, NEW j \in TaskJobs, TaskBelowTarget(j), NEW k \in TaskJobs, taskJob[k].parent = j
  PROVE  TaskBelowTarget(k)
BY DEF TaskBelowTarget, TaskClosed

-----------------------------------------------------------------------------
\* a job of which nothing but its life changes, and one that is spawned
TaskJobKept(k) ==
    /\ taskJob'[k].parent = taskJob[k].parent /\ taskJob'[k].cancelled = taskJob[k].cancelled
    /\ taskJob'[k].late = taskJob[k].late /\ taskJob'[k].passed = taskJob[k].passed
    /\ taskJob'[k].state = "live" => taskJob[k].state = "live"
TaskJobNew(k) ==
    /\ taskJob[k] = TaskNoJob /\ taskJob'[k].cancelled = FALSE /\ taskJob'[k].passed = FALSE
    /\ \A p \in TaskJobs : taskJob'[k].parent = p /\ taskJob[p].cancelled => taskJob'[k].late

\* Whatever is not a step of cancel_job.
LEMMA TaskCodeStep ==
  ASSUME TaskIInv, TaskTypes', TaskCharged', taskTarget' = taskTarget, taskCancels' = taskCancels,
         \A k \in TaskJobs : TaskJobKept(k) \/ TaskJobNew(k),
         \A k \in TaskJobs : taskHomes[k] \subseteq taskHomes'[k],
         \A k \in TaskJobs : TaskTouched(k)' => TaskTouched(k) \/ \E h \in taskHomes'[k] : taskJob[h].cancelled,
         \A k, p \in TaskJobs :
             k \in TaskCompletions(taskWait', p) /\ taskJob[p].cancelled
               => TaskWillThrow(k)' \/ (k \in TaskCompletions(taskWait, p) /\ (TaskWillThrow(k) => TaskWillThrow(k)'))
  PROVE  TaskIInv'
<1>0. TaskTypes /\ TaskNone \notin TaskJobs
  BY TaskAssumption DEF TaskIInv, TaskNone
<1>1. ASSUME NEW k \in TaskJobs
      PROVE  /\ taskJob'[k].cancelled <=> taskJob[k].cancelled
             /\ taskJob'[k].passed <=> taskJob[k].passed
             /\ taskJob'[k].parent = taskJob[k].parent \/ taskJob[k].parent = TaskNone
  BY <1>1 DEF TaskJobKept, TaskJobNew, TaskNoJob
<1>2. ASSUME NEW p \in TaskJobs, taskJob[p].cancelled, NEW k \in TaskChildren(p)'
      PROVE  (k \in TaskChildren(p) /\ taskJob'[k].late = taskJob[k].late) \/ taskJob'[k].late
  <2>1. k \in TaskJobs /\ taskJob'[k].state = "live" /\ taskJob'[k].parent = p
    BY DEF TaskChildren
  <2>2. QED
    BY <1>2, <2>1 DEF TaskJobKept, TaskJobNew, TaskChildren
<1>3. ASSUME NEW x, TaskBelowTarget(x) PROVE TaskBelowTarget(x)'
  <2>1. TaskParentsStay
    BY <1>1 DEF TaskParentsStay
  <2>2. QED
    BY <1>3, <2>1, TaskBelowStays
<1>4. TaskCancelsBelow'
  <2>1. ASSUME NEW i \in DOMAIN taskCancels' PROVE TaskBelowTarget(taskCancels[i].job)'
    <3>1. taskCancels' = taskCancels /\ TaskBelowTarget(taskCancels[i].job)
      BY DEF TaskIInv, TaskCancelsBelow
    <3>2. QED
      BY <1>3, <3>1 DEF TaskBelowTarget, TaskClosed
  <2>2. ASSUME NEW k \in TaskJobs, taskJob'[k].cancelled PROVE TaskBelowTarget(k)'
    BY <1>1, <1>3, <2>2 DEF TaskIInv, TaskCancelsBelow
  <2>3. ASSUME NEW k \in TaskJobs, TaskTouched(k)' PROVE \E h \in taskHomes'[k] : TaskBelowTarget(h)'
    <3>1. CASE TaskTouched(k)
      <4>1. PICK h \in taskHomes[k] : TaskBelowTarget(h)
        BY <3>1 DEF TaskIInv, TaskCancelsBelow
      <4>2. QED
        BY <1>3, <4>1
    <3>2. CASE \E h \in taskHomes'[k] : taskJob[h].cancelled
      <4>1. PICK h \in taskHomes'[k] : taskJob[h].cancelled
        BY <3>2
      <4>2. h \in TaskJobs
        BY DEF TaskTypes
      <4>3. TaskBelowTarget(h)
        BY <4>1, <4>2 DEF TaskIInv, TaskCancelsBelow
      <4>4. QED
        BY <1>3, <4>3
    <3>3. QED
      BY <2>3, <3>1, <3>2
  <2>4. (taskTarget = TaskNone => taskCancels = <<>>)'
    BY DEF TaskIInv, TaskCancelsBelow
  <2>5. QED
    BY <2>1, <2>2, <2>3, <2>4 DEF TaskCancelsBelow
<1>5. TaskCancelsNested'
  <2>1. ASSUME NEW k \in TaskJobs, taskJob'[k].passed PROVE taskJob'[k].cancelled
    BY <1>1, <2>1 DEF TaskIInv, TaskCancelsNested
  <2>2. ASSUME NEW i \in DOMAIN taskCancels
        PROVE  LET c == taskCancels[i]
                   top == i = Len(taskCancels)
               IN /\ ~top => c.at = "child" /\ c.entry = taskCancels[i + 1].job
                  /\ c.at # "start" => taskJob'[c.job].cancelled
                  /\ c.at = "start" => c.seen = {}
                  /\ c.at \in {"start", "child"} => \A k \in c.seen : taskJob'[k].passed \/ (~top /\ k = c.entry)
                  /\ c.at \in {"sqe", "cqe"} => \A k \in TaskChildren(c.job)' : taskJob'[k].passed \/ taskJob'[k].late
    <3> DEFINE c == taskCancels[i]
               top == i = Len(taskCancels)
    <3>1. c \in TaskCancelSet
      BY <1>0 DEF TaskTypes
    <3>2. c.job \in TaskJobs /\ c.seen \subseteq TaskJobs
      BY <3>1 DEF TaskCancelSet
    <3>3. /\ ~top => c.at = "child" /\ c.entry = taskCancels[i + 1].job
          /\ c.at # "start" => taskJob[c.job].cancelled
          /\ c.at = "start" => c.seen = {}
          /\ c.at \in {"start", "child"} => \A k \in c.seen : taskJob[k].passed \/ (~top /\ k = c.entry)
          /\ c.at \in {"sqe", "cqe"} => \A k \in TaskChildren(c.job) : taskJob[k].passed \/ taskJob[k].late
      BY DEF TaskIInv, TaskCancelsNested
    <3> HIDE DEF c, top
    <3>4. c.at # "start" => taskJob'[c.job].cancelled
      BY <1>1, <3>2, <3>3
    <3>5. c.at \in {"start", "child"} => \A k \in c.seen : taskJob'[k].passed \/ (~top /\ k = c.entry)
      BY <1>1, <3>2, <3>3
    <3>6. ASSUME c.at \in {"sqe", "cqe"}, NEW k \in TaskJobs, taskJob'[k].state = "live", taskJob'[k].parent = c.job
          PROVE  taskJob'[k].passed \/ taskJob'[k].late
      <4>1. PICK p \in TaskJobs : p = c.job
        BY <3>2
      <4>2. taskJob[p].cancelled /\ k \in TaskChildren(p)'
        BY <3>3, <3>6, <4>1 DEF TaskChildren
      <4>3. (k \in TaskChildren(p) /\ taskJob'[k].late = taskJob[k].late) \/ taskJob'[k].late
        BY <1>2, <4>2
      <4>4. \A x \in TaskChildren(p) : taskJob[x].passed \/ taskJob[x].late
        BY <3>3, <3>6, <4>1
      <4>5. taskJob'[k].passed <=> taskJob[k].passed
        BY <1>1
      <4>6. QED
        BY <4>3, <4>4, <4>5
    <3>7. QED
      BY <3>3, <3>4, <3>5, <3>6 DEF c, top, TaskChildren
  <2>3. QED
    BY <2>1, <2>2 DEF TaskCancelsNested
<1>6. TaskCancelReaches'
  <2>1. ASSUME NEW j \in TaskJobs, taskJob'[j].passed
        PROVE  /\ \A k \in TaskChildren(j)' : taskJob'[k].passed \/ taskJob'[k].late
               /\ \A k \in TaskCompletions(taskWait', j) : TaskWillThrow(k)'
    <3>1. taskJob[j].passed /\ taskJob[j].cancelled
      BY <1>1, <2>1 DEF TaskIInv, TaskCancelsNested
    <3>2. /\ \A k \in TaskChildren(j) : taskJob[k].passed \/ taskJob[k].late
          /\ \A k \in TaskCompletions(taskWait, j) : TaskWillThrow(k)
      BY <3>1 DEF TaskIInv, TaskCancelReaches
    <3>3. ASSUME NEW k \in TaskChildren(j)' PROVE taskJob'[k].passed \/ taskJob'[k].late
      <4>1. k \in TaskJobs
        BY DEF TaskChildren
      <4>2. QED
        BY <1>1, <1>2, <3>1, <3>2, <4>1
    <3>4. ASSUME NEW k \in TaskCompletions(taskWait', j) PROVE TaskWillThrow(k)'
      <4>1. k \in TaskJobs
        BY DEF TaskCompletions
      <4>2. QED
        BY <3>1, <3>2, <4>1
    <3>5. QED
      BY <3>3, <3>4
  <2>2. QED
    BY <2>1 DEF TaskCancelReaches, TaskCompletions
<1>7. QED
  BY <1>4, <1>5, <1>6 DEF TaskIInv

-----------------------------------------------------------------------------
\* the flags of a coroutine with these frames, this wait and this exception
TaskFlags(frames, wait, thrown) ==
    wait.hit \/ thrown \/ \E i \in DOMAIN frames : frames[i].hit \/ frames[i].error

\* what a wait that is charged to a job that is cancelled is like
TaskReached(frames, wait) ==
    /\ wait.kind \in {"sleep", "defer", "sqe", "woken"} => wait.hit
    /\ wait.kind = "uring" => wait.hit \/ wait.late
    /\ wait.kind = "start" => frames[Len(frames)].hit

\* the coroutine of j goes on, with these frames and this wait
TaskMoves(j, frames, wait) ==
    /\ frames \in Seq(TaskFrameSet) /\ wait \in TaskWaits
    /\ taskFrames' = [taskFrames EXCEPT ![j] = frames] /\ taskWait' = [taskWait EXCEPT ![j] = wait]
    /\ taskAwaits' \in [TaskJobs -> Nat]
    /\ taskRunning' \in {taskRunning, j, TaskNone} /\ taskThrown' \in BOOLEAN
    /\ taskThrown' => (taskRunning' = j \/ (taskThrown /\ taskRunning' = taskRunning))
    /\ taskCurrent' = IF taskRunning' = TaskNone THEN TaskNone ELSE taskHome'[taskRunning']
    /\ taskJob' \in [TaskJobs -> TaskJobSet] /\ taskJob'[j].state # "none"
    /\ \A k \in TaskJobs : \/ TaskJobKept(k) /\ (taskJob'[k].state = "none" <=> taskJob[k].state = "none")
                           \/ TaskJobNew(k) /\ k = j
    /\ taskHome' \in [TaskJobs -> TaskJobs] /\ taskHomes' \in [TaskJobs -> SUBSET TaskJobs]
    /\ \A k \in TaskJobs : k # j => taskHome'[k] = taskHome[k] /\ taskHomes'[k] = taskHomes[k]
    /\ taskHome'[j] \in taskHomes'[j] /\ taskHomes[j] \subseteq taskHomes'[j]
    /\ wait.kind \notin {"none", "parked"} => wait.job = taskHome'[j]
    /\ taskRunning' = j => wait.kind = "none"
    /\ taskRunning' = j \/ wait.kind # "none" => frames # <<>>
    /\ wait.kind \in {"start", "final"} => Len(frames) > 1
    /\ taskTarget' = taskTarget /\ taskCancels' = taskCancels

LEMMA TaskMovesStep ==
  ASSUME TaskIInv, NEW j \in TaskJobs, NEW frames, NEW wait, TaskMoves(j, frames, wait),
         TaskFlags(frames, wait, taskThrown' /\ taskRunning' = j)
            => TaskTouched(j) \/ \E h \in taskHomes'[j] : taskJob[h].cancelled,
         \A p \in TaskJobs : wait.kind \notin {"none", "parked"} /\ wait.job = p /\ taskJob[p].cancelled
                                => TaskReached(frames, wait)
  PROVE  TaskIInv'
<1>0. /\ taskFrames \in [TaskJobs -> Seq(TaskFrameSet)] /\ taskWait \in [TaskJobs -> TaskWaits]
      /\ TaskNone \notin TaskJobs /\ taskJob \in [TaskJobs -> TaskJobSet]
  BY TaskAssumption DEF TaskIInv, TaskTypes, TaskNone
<1>1. /\ taskFrames'[j] = frames /\ taskWait'[j] = wait
      /\ \A k \in TaskJobs : k # j => taskFrames'[k] = taskFrames[k] /\ taskWait'[k] = taskWait[k]
  BY <1>0 DEF TaskMoves
<1>2. TaskTypes'
  <2>1. taskFrames' \in [TaskJobs -> Seq(TaskFrameSet)] /\ taskWait' \in [TaskJobs -> TaskWaits]
    BY <1>0 DEF TaskMoves
  <2>2. taskRunning' \in TaskJobs \union {TaskNone}
    BY DEF TaskMoves, TaskIInv, TaskTypes
  <2>3. QED
    BY <2>1, <2>2 DEF TaskMoves, TaskIInv, TaskTypes
<1>3. ASSUME NEW k \in TaskJobs
      PROVE  /\ taskHome'[k] \in taskHomes'[k]
             /\ taskJob'[k].state = "none" => taskJob'[k] = TaskNoJob /\ taskHome'[k] = k
             /\ taskWait'[k].kind \notin {"none", "parked"} => taskWait'[k].job = taskHome'[k]
             /\ taskRunning' = k => taskWait'[k].kind = "none"
             /\ taskRunning' = k \/ taskWait'[k].kind # "none" => taskJob'[k].state # "none" /\ taskFrames'[k] # <<>>
             /\ taskWait'[k].kind \in {"start", "final"} => Len(taskFrames'[k]) > 1
  <2>1. CASE k = j
    BY <1>1, <2>1, <1>0 DEF TaskMoves
  <2>2. CASE k # j
    <3>1. /\ taskRunning' = k => taskRunning = k
          /\ taskWait'[k] = taskWait[k] /\ taskFrames'[k] = taskFrames[k]
          /\ taskHome'[k] = taskHome[k] /\ taskHomes'[k] = taskHomes[k]
      BY <1>0, <1>1, <2>2 DEF TaskMoves
    <3>2. TaskJobKept(k) /\ (taskJob'[k].state = "none" <=> taskJob[k].state = "none")
      BY <2>2 DEF TaskMoves
    <3>3. /\ taskHome[k] \in taskHomes[k]
          /\ taskJob[k].state = "none" => taskJob[k] = TaskNoJob /\ taskHome[k] = k
          /\ taskWait[k].kind \notin {"none", "parked"} => taskWait[k].job = taskHome[k]
          /\ taskRunning = k => taskWait[k].kind = "none"
          /\ taskRunning = k \/ taskWait[k].kind # "none" => taskJob[k].state # "none" /\ taskFrames[k] # <<>>
          /\ taskWait[k].kind \in {"start", "final"} => Len(taskFrames[k]) > 1
      BY DEF TaskIInv, TaskCharged
    <3>4. ASSUME taskJob'[k].state = "none" PROVE taskJob'[k] = TaskNoJob
      <4>1. taskJob'[k] \in TaskJobSet /\ taskJob[k] = TaskNoJob
        BY <3>2, <3>3, <3>4 DEF TaskMoves
      <4>2. /\ taskJob'[k].state = "none" /\ taskJob'[k].parent = TaskNone /\ taskJob'[k].cancelled = FALSE
            /\ taskJob'[k].late = FALSE /\ taskJob'[k].passed = FALSE
        BY <3>2, <3>4, <4>1 DEF TaskJobKept, TaskNoJob
      <4>3. QED
        BY <4>1, <4>2 DEF TaskJobSet, TaskNoJob
    <3>5. QED
      BY <3>1, <3>2, <3>3, <3>4
  <2>3. QED
    BY <2>1, <2>2
<1>4. TaskCharged'
  <2>1. taskThrown' => taskRunning' # TaskNone
    BY <1>0 DEF TaskMoves, TaskIInv, TaskCharged
  <2>2. taskCurrent' = IF taskRunning' = TaskNone THEN TaskNone ELSE taskHome'[taskRunning']
    BY DEF TaskMoves
  <2>3. QED
    BY <1>3, <2>1, <2>2 DEF TaskCharged
<1>5. ASSUME NEW k \in TaskJobs, TaskTouched(k)'
      PROVE  TaskTouched(k) \/ \E h \in taskHomes'[k] : taskJob[h].cancelled
  <2>1. CASE k = j
    <3>1. TaskFlags(frames, wait, taskThrown' /\ taskRunning' = j)
      BY <1>1, <1>5, <2>1 DEF TaskTouched, TaskFlags
    <3>2. QED
      BY <2>1, <3>1
  <2>2. CASE k # j
    <3>1. taskThrown' /\ taskRunning' = k => taskThrown /\ taskRunning = k
      BY <2>2 DEF TaskMoves
    <3>2. TaskTouched(k)
      BY <1>1, <1>5, <2>2, <3>1 DEF TaskTouched
    <3>3. QED
      BY <3>2
  <2>3. QED
    BY <2>1, <2>2
<1>6. ASSUME NEW k \in TaskJobs, NEW p \in TaskJobs, k \in TaskCompletions(taskWait', p), taskJob[p].cancelled
      PROVE  TaskWillThrow(k)' \/ (k \in TaskCompletions(taskWait, p) /\ (TaskWillThrow(k) => TaskWillThrow(k)'))
  <2>1. taskWait'[k].kind \notin {"none", "parked"} /\ taskWait'[k].job = p
    BY <1>6 DEF TaskCompletions
  <2>2. CASE k = j
    BY <1>1, <1>6, <2>1, <2>2 DEF TaskReached, TaskWillThrow, TaskTop
  <2>3. CASE k # j
    BY <1>1, <1>6, <2>1, <2>3 DEF TaskCompletions, TaskWillThrow, TaskTop
  <2>4. QED
    BY <2>2, <2>3
<1>7. \A k \in TaskJobs : (TaskJobKept(k) \/ TaskJobNew(k)) /\ taskHomes[k] \subseteq taskHomes'[k]
  BY DEF TaskMoves
<1>8. taskTarget' = taskTarget /\ taskCancels' = taskCancels
  BY DEF TaskMoves
<1>9. QED
  BY <1>2, <1>4, <1>5, <1>6, <1>7, <1>8, TaskCodeStep

\* The coroutine that runs, and what it may do next.
LEMMA TaskRunner ==
  ASSUME TaskIInv, taskRunning # TaskNone
  PROVE  /\ taskRunning \in TaskJobs /\ taskCurrent = taskHome[taskRunning] /\ taskJob[taskRunning].state # "none"
         /\ taskCurrent \in TaskJobs /\ taskCurrent \in taskHomes[taskRunning] /\ taskWait[taskRunning].kind = "none"
         /\ taskFrames[taskRunning] \in Seq(TaskFrameSet) /\ Len(taskFrames[taskRunning]) \in Nat \ {0}
         /\ taskAwaits[taskRunning] + 1 \in Nat /\ taskAwaits \in [TaskJobs -> Nat]
         /\ (TaskCancelled(taskCurrent) <=> taskJob[taskCurrent].cancelled) /\ TaskCancelled(taskCurrent) \in BOOLEAN
<1>1. /\ taskRunning \in TaskJobs /\ taskCurrent = taskHome[taskRunning] /\ taskJob[taskRunning].state # "none"
      /\ taskFrames[taskRunning] \in Seq(TaskFrameSet) /\ taskFrames[taskRunning] # <<>>
      /\ taskAwaits \in [TaskJobs -> Nat] /\ taskWait[taskRunning].kind = "none"
  BY DEF TaskIInv, TaskTypes, TaskCharged
<1>2. taskCurrent \in TaskJobs /\ taskCurrent \in taskHomes[taskRunning]
  BY <1>1 DEF TaskIInv, TaskTypes, TaskCharged
<1>3. Len(taskFrames[taskRunning]) \in Nat \ {0} /\ taskAwaits[taskRunning] + 1 \in Nat
  BY <1>1
<1>4. taskJob[taskCurrent].cancelled \in BOOLEAN
  BY <1>2 DEF TaskIInv, TaskTypes, TaskJobSet
<1>5. (TaskCancelled(taskCurrent) <=> taskJob[taskCurrent].cancelled) /\ TaskCancelled(taskCurrent) \in BOOLEAN
  BY <1>2, <1>4, Zenon DEF TaskCancelled
<1>6. QED
  BY <1>1, <1>2, <1>3, <1>5

\* jobs and homes that are left alone
LEMMA TaskSameJobs ==
  ASSUME TaskIInv, taskJob' = taskJob
  PROVE  /\ taskJob' \in [TaskJobs -> TaskJobSet]
         /\ \A k \in TaskJobs : TaskJobKept(k) /\ (taskJob'[k].state = "none" <=> taskJob[k].state = "none")
BY DEF TaskIInv, TaskTypes, TaskJobKept

LEMMA TaskSameHomesStep ==
  ASSUME TaskIInv, TaskSameHomes
  PROVE  /\ taskHome' = taskHome /\ taskHomes' = taskHomes
         /\ taskHome' \in [TaskJobs -> TaskJobs] /\ taskHomes' \in [TaskJobs -> SUBSET TaskJobs]
         /\ \A k \in TaskJobs : taskHome'[k] \in taskHomes'[k] /\ taskHomes'[k] = taskHomes[k]
BY DEF TaskIInv, TaskTypes, TaskCharged, TaskSameHomes

\* It suspends.
LEMMA TaskSuspendStep ==
  ASSUME TaskIInv, taskRunning # TaskNone, NEW frames \in Seq(TaskFrameSet), NEW wait \in TaskWaits,
         taskFrames' = [taskFrames EXCEPT ![taskRunning] = frames], TaskSuspend(wait),
         taskAwaits' \in [TaskJobs -> Nat], wait.job = taskCurrent, frames # <<>>,
         wait.kind \in {"start", "final"} => Len(frames) > 1,
         TaskFlags(frames, wait, FALSE) => TaskTouched(taskRunning) \/ taskJob[taskCurrent].cancelled,
         taskJob[taskCurrent].cancelled => TaskReached(frames, wait)
  PROVE  TaskIInv'
<1>1. /\ taskRunning \in TaskJobs /\ taskJob[taskRunning].state # "none"
      /\ taskCurrent = taskHome[taskRunning] /\ taskCurrent \in taskHomes[taskRunning]
  BY TaskRunner
<1>2. /\ taskWait' = [taskWait EXCEPT ![taskRunning] = wait]
      /\ taskRunning' = TaskNone /\ taskCurrent' = TaskNone /\ taskThrown' = FALSE /\ taskJob' = taskJob
      /\ taskTarget' = taskTarget /\ taskCancels' = taskCancels /\ TaskSameHomes
  BY DEF TaskSuspend, TaskGoesOn
<1>3. /\ taskHome' = taskHome /\ taskHomes' = taskHomes
      /\ taskHome' \in [TaskJobs -> TaskJobs] /\ taskHomes' \in [TaskJobs -> SUBSET TaskJobs]
      /\ \A k \in TaskJobs : taskHome'[k] \in taskHomes'[k] /\ taskHomes'[k] = taskHomes[k]
  BY <1>2, TaskSameHomesStep
<1>4. /\ taskJob' \in [TaskJobs -> TaskJobSet]
      /\ \A k \in TaskJobs : TaskJobKept(k) /\ (taskJob'[k].state = "none" <=> taskJob[k].state = "none")
  BY <1>2, TaskSameJobs
<1>5. TaskMoves(taskRunning, frames, wait)
  <2>1. TaskNone # taskRunning /\ taskRunning' \in {taskRunning, TaskNone}
    BY <1>2
  <2>2. taskThrown' \in BOOLEAN /\ ~taskThrown'
    BY <1>2
  <2>3. taskCurrent' = IF taskRunning' = TaskNone THEN TaskNone ELSE taskHome'[taskRunning']
    BY <1>2
  <2>4. QED
    BY <1>1, <1>2, <1>3, <1>4, <2>1, <2>2, <2>3 DEF TaskMoves
<1>6. ASSUME NEW p \in TaskJobs, wait.job = p, taskJob[p].cancelled PROVE TaskReached(frames, wait)
  BY <1>6
<1>7. TaskFlags(frames, wait, taskThrown' /\ taskRunning' = taskRunning)
        => TaskTouched(taskRunning) \/ \E h \in taskHomes'[taskRunning] : taskJob[h].cancelled
  <2>1. ~taskThrown'
    BY <1>2
  <2>2. TaskFlags(frames, wait, taskThrown' /\ taskRunning' = taskRunning) => TaskFlags(frames, wait, FALSE)
    BY <2>1 DEF TaskFlags
  <2>3. QED
    BY <1>1, <1>3, <2>2
<1> HIDE DEF TaskMoves
<1>8. QED
  BY <1>1, <1>5, <1>6, <1>7, TaskMovesStep

\* TaskBegin of a running coroutine.
LEMMA TaskBeginFields ==
  ASSUME TaskIInv, taskRunning # TaskNone, NEW kind \in {"start", "final", "sleep", "uring", "defer", "sqe"},
         NEW hit \in BOOLEAN
  PROVE  /\ TaskBegin(kind, hit) \in TaskWaits /\ TaskBegin(kind, hit).kind = kind
         /\ TaskBegin(kind, hit).hit = hit /\ TaskBegin(kind, hit).job = taskCurrent
         /\ taskJob[taskCurrent].cancelled => TaskBegin(kind, hit).late
<1>1. /\ taskCurrent \in TaskJobs /\ taskAwaits[taskRunning] + 1 \in Nat
      /\ (TaskCancelled(taskCurrent) <=> taskJob[taskCurrent].cancelled) /\ TaskCancelled(taskCurrent) \in BOOLEAN
  BY TaskRunner
<1>2. PICK l \in BOOLEAN : l = TaskCancelled(taskCurrent)
  BY <1>1
<1>3. TaskBegin(kind, hit) = [kind |-> kind, hit |-> hit, late |-> l, job |-> taskCurrent,
                              id |-> taskAwaits[taskRunning] + 1]
  BY <1>2 DEF TaskBegin
<1>4. QED
  BY <1>1, <1>2, <1>3 DEF TaskWaits

\* frames that are as they were, or lost or got flags that j had
LEMMA TaskOldFlags ==
  ASSUME NEW j, NEW i \in DOMAIN taskFrames[j], taskFrames[j][i].hit \/ taskFrames[j][i].error
  PROVE  TaskTouched(j)
BY DEF TaskTouched

LEMMA TaskCallStep ==
  ASSUME TaskIInv, TaskCall
  PROVE  TaskIInv'
<1> DEFINE r == taskRunning
           h == TaskCancelled(taskCurrent)
           f == Append(taskFrames[r], TaskFrame(h))
           w == TaskBegin("start", FALSE)
<1>1. /\ r # TaskNone /\ taskFrames' = [taskFrames EXCEPT ![r] = f] /\ TaskSuspend(w)
      /\ taskAwaits' = [taskAwaits EXCEPT ![r] = @ + 1]
  BY DEF TaskCall, TaskAwait, TaskCode
<1>2. /\ r \in TaskJobs /\ taskFrames[r] \in Seq(TaskFrameSet) /\ Len(taskFrames[r]) \in Nat \ {0}
      /\ (h <=> taskJob[taskCurrent].cancelled) /\ h \in BOOLEAN /\ taskAwaits \in [TaskJobs -> Nat]
      /\ taskAwaits[r] + 1 \in Nat
  BY <1>1, TaskRunner
<1>3. w \in TaskWaits /\ w.kind = "start" /\ w.hit = FALSE /\ w.job = taskCurrent
  BY <1>1, TaskBeginFields
<1>4. TaskFrame(h) \in TaskFrameSet /\ TaskFrame(h).hit = h /\ TaskFrame(h).error = FALSE
  BY <1>2 DEF TaskFrame, TaskFrameSet
<1>5. taskAwaits' \in [TaskJobs -> Nat]
  BY <1>1, <1>2
<1> HIDE DEF w, h
<1>6. /\ f \in Seq(TaskFrameSet) /\ Len(f) = Len(taskFrames[r]) + 1 /\ f[Len(f)] = TaskFrame(h)
      /\ DOMAIN f = 1 .. Len(f) /\ DOMAIN taskFrames[r] = 1 .. Len(taskFrames[r])
      /\ \A i \in 1 .. Len(taskFrames[r]) : f[i] = taskFrames[r][i]
  BY <1>2, <1>4
<1> HIDE DEF f
<1>7. f # <<>> /\ Len(f) > 1
  BY <1>2, <1>6
<1>8. ASSUME TaskFlags(f, w, FALSE) PROVE TaskTouched(r) \/ taskJob[taskCurrent].cancelled
  <2>1. PICK i \in DOMAIN f : f[i].hit \/ f[i].error
    BY <1>3, <1>8 DEF TaskFlags
  <2>2. CASE i = Len(f)
    BY <1>2, <1>4, <1>6, <2>1, <2>2
  <2>3. CASE i # Len(f)
    <3>1. i \in 1 .. Len(taskFrames[r])
      BY <1>2, <1>6, <2>3
    <3>2. QED
      BY <1>6, <2>1, <3>1, TaskOldFlags
  <2>4. QED
    BY <2>2, <2>3
<1>9. ASSUME taskJob[taskCurrent].cancelled PROVE TaskReached(f, w)
  <2>1. f[Len(f)].hit
    BY <1>2, <1>4, <1>6, <1>9
  <2>2. QED
    BY <1>3, <2>1 DEF TaskReached
<1>10. QED
  BY <1>1, <1>3, <1>5, <1>6, <1>7, <1>8, <1>9, TaskSuspendStep

\* An await that is no task: frames are left alone.
LEMMA TaskAwaitStep ==
  ASSUME TaskIInv, TaskAwait, UNCHANGED taskFrames, NEW kind \in {"sleep", "uring", "defer", "sqe"}, NEW hit,
         hit = TaskCancelled(taskCurrent) \/ (kind = "uring" /\ hit = FALSE), TaskSuspend(TaskBegin(kind, hit))
  PROVE  TaskIInv'
<1> DEFINE r == taskRunning
           f == taskFrames[r]
           w == TaskBegin(kind, hit)
<1>1. r # TaskNone /\ taskAwaits' = [taskAwaits EXCEPT ![r] = @ + 1]
  BY DEF TaskAwait, TaskCode
<1>2. /\ r \in TaskJobs /\ f \in Seq(TaskFrameSet) /\ Len(f) \in Nat \ {0}
      /\ (TaskCancelled(taskCurrent) <=> taskJob[taskCurrent].cancelled) /\ TaskCancelled(taskCurrent) \in BOOLEAN
      /\ taskAwaits \in [TaskJobs -> Nat] /\ taskAwaits[r] + 1 \in Nat
      /\ taskFrames \in [TaskJobs -> Seq(TaskFrameSet)]
  BY <1>1, TaskRunner DEF TaskIInv, TaskTypes
<1>3. /\ hit \in BOOLEAN /\ (hit => taskJob[taskCurrent].cancelled)
      /\ (taskJob[taskCurrent].cancelled => hit \/ kind = "uring")
  BY <1>2, Zenon
<1>4. /\ w \in TaskWaits /\ w.kind = kind /\ w.hit = hit /\ w.job = taskCurrent
      /\ taskJob[taskCurrent].cancelled => w.late
  BY <1>1, <1>3, TaskBeginFields
<1>5. taskAwaits' \in [TaskJobs -> Nat]
  BY <1>1, <1>2
<1>6. taskFrames' = [taskFrames EXCEPT ![r] = f] /\ f # <<>>
  BY <1>2
<1> HIDE DEF w
<1>7. ASSUME TaskFlags(f, w, FALSE) PROVE TaskTouched(r) \/ taskJob[taskCurrent].cancelled
  BY <1>3, <1>4, <1>7 DEF TaskFlags, TaskTouched
<1>8. ASSUME taskJob[taskCurrent].cancelled PROVE TaskReached(f, w)
  BY <1>3, <1>4, <1>8 DEF TaskReached
<1>9. TaskSuspend(w)
  BY DEF w
<1> HIDE DEF f
<1>10. QED
  BY <1>1, <1>2, <1>4, <1>5, <1>6, <1>7, <1>8, <1>9, TaskSuspendStep

LEMMA TaskFinalStep ==
  ASSUME TaskIInv, taskRunning # TaskNone, NEW error \in BOOLEAN, error => taskThrown, TaskFinal(error)
  PROVE  TaskIInv'
<1> DEFINE r == taskRunning
           n == Len(taskFrames[r])
           g == [TaskTop(r) EXCEPT !.state = "done", !.error = error]
           f == [taskFrames[r] EXCEPT ![n] = g]
           w == TaskBegin("final", FALSE)
<1>1. n > 1 /\ taskFrames' = TaskSetTop(r, g) /\ TaskSuspend(w) /\ taskAwaits' = taskAwaits
  BY DEF TaskFinal
<1>2. /\ r \in TaskJobs /\ taskFrames[r] \in Seq(TaskFrameSet) /\ n \in Nat \ {0}
      /\ taskAwaits \in [TaskJobs -> Nat]
  BY TaskRunner
<1>3. w \in TaskWaits /\ w.kind = "final" /\ w.hit = FALSE /\ w.job = taskCurrent
  BY TaskBeginFields
<1>4. TaskTop(r) \in TaskFrameSet /\ TaskTop(r) = taskFrames[r][n]
  BY <1>2 DEF TaskTop
<1>5. g \in TaskFrameSet /\ g.hit = TaskTop(r).hit /\ g.error = error
  BY <1>4 DEF TaskFrameSet
<1>6. taskFrames' = [taskFrames EXCEPT ![r] = f]
  BY <1>1 DEF TaskSetTop
<1> HIDE DEF g, w
<1>7. /\ f \in Seq(TaskFrameSet) /\ Len(f) = n /\ DOMAIN f = DOMAIN taskFrames[r] /\ f[n] = g
      /\ \A i \in DOMAIN f : i # n => f[i] = taskFrames[r][i]
  BY <1>2, <1>5
<1> HIDE DEF f
<1>8. f # <<>> /\ Len(f) > 1
  BY <1>1, <1>2, <1>7
<1>9. ASSUME TaskFlags(f, w, FALSE) PROVE TaskTouched(r)
  <2>1. PICK i \in DOMAIN f : f[i].hit \/ f[i].error
    BY <1>3, <1>9 DEF TaskFlags
  <2>2. CASE i = n /\ g.hit
    BY <1>4, <1>5, <1>7, <2>1, <2>2, TaskOldFlags
  <2>3. CASE i = n /\ error
    BY <2>3 DEF TaskTouched
  <2>4. CASE i # n
    BY <1>7, <2>1, <2>4, TaskOldFlags
  <2>5. QED
    BY <1>5, <1>7, <2>1, <2>2, <2>3, <2>4
<1>10. TaskReached(f, w)
  BY <1>3 DEF TaskReached
<1>11. QED
  BY <1>1, <1>2, <1>3, <1>6, <1>7, <1>8, <1>9, <1>10, TaskSuspendStep

\* The same state, but for the outcome and an exception that is caught.
LEMMA TaskSameStep ==
  ASSUME TaskIInv, taskThrown' \in BOOLEAN, taskThrown' => taskThrown,
         UNCHANGED <<taskJob, taskFrames, taskWait, taskAwaits, taskRunning, taskCurrent, taskTarget, taskCancels>>,
         TaskSameHomes
  PROVE  TaskIInv'
<1>1. taskHome' = taskHome /\ taskHomes' = taskHomes
  BY DEF TaskSameHomes
<1>2. TaskTypes'
  BY <1>1 DEF TaskIInv, TaskTypes
<1>3. TaskCharged'
  BY <1>1 DEF TaskIInv, TaskCharged
<1>4. ASSUME NEW k \in TaskJobs, TaskTouched(k)' PROVE TaskTouched(k)
  BY <1>4 DEF TaskTouched
<1>5. ASSUME NEW k \in TaskJobs PROVE TaskWillThrow(k) => TaskWillThrow(k)'
  BY DEF TaskWillThrow, TaskTop
<1>6. \A k \in TaskJobs : TaskJobKept(k) /\ taskHomes[k] \subseteq taskHomes'[k]
  BY <1>1 DEF TaskJobKept
<1>7. \A k, p \in TaskJobs : k \in TaskCompletions(taskWait', p) => k \in TaskCompletions(taskWait, p)
  BY DEF TaskCompletions
<1>8. QED
  BY <1>2, <1>3, <1>4, <1>5, <1>6, <1>7, TaskCodeStep

\* It goes back to run() for good, or to the queue of a semaphore.
LEMMA TaskLeavesStep ==
  ASSUME TaskIInv, taskRunning # TaskNone, NEW frames \in Seq(TaskFrameSet), NEW wait \in TaskWaits,
         taskFrames' = [taskFrames EXCEPT ![taskRunning] = frames], TaskLeaves(wait),
         taskAwaits' \in [TaskJobs -> Nat], wait.kind \in {"none", "parked"}, wait.hit = FALSE,
         wait.kind = "parked" => frames # <<>>,
         TaskFlags(frames, wait, FALSE) => TaskTouched(taskRunning)
  PROVE  TaskIInv'
<1> DEFINE E == TaskEnded(taskCurrent, taskWait')
<1>1. /\ taskRunning \in TaskJobs /\ taskJob[taskRunning].state # "none"
      /\ taskJob \in [TaskJobs -> TaskJobSet]
  BY TaskRunner DEF TaskIInv, TaskTypes
<1>2. /\ taskWait' = [taskWait EXCEPT ![taskRunning] = wait]
      /\ taskJob' = [k \in TaskJobs |-> IF k \in E THEN [taskJob[k] EXCEPT !.state = "ended"] ELSE taskJob[k]]
      /\ taskRunning' = TaskNone /\ taskCurrent' = TaskNone /\ taskThrown' = FALSE
      /\ taskTarget' = taskTarget /\ taskCancels' = taskCancels /\ TaskSameHomes
  BY DEF TaskLeaves, TaskGoesOn
<1>3. /\ taskHome' = taskHome /\ taskHomes' = taskHomes
      /\ taskHome' \in [TaskJobs -> TaskJobs] /\ taskHomes' \in [TaskJobs -> SUBSET TaskJobs]
      /\ \A k \in TaskJobs : taskHome'[k] \in taskHomes'[k] /\ taskHomes'[k] = taskHomes[k]
  BY <1>2, TaskSameHomesStep
<1>4. ASSUME NEW k \in E PROVE k \in TaskJobs /\ taskJob[k].state # "none"
  <2> DEFINE over(i) == TaskLive(i) /\ TaskCompletions(taskWait', i) = {}
             closed(S) == /\ over(taskCurrent) /\ TaskChildren(taskCurrent) = {} => taskCurrent \in S
                          /\ \A i \in TaskJobs : /\ over(i) /\ TaskChildren(i) # {} /\ TaskChildren(i) \subseteq S
                                                 => i \in S
             S == {i \in TaskJobs : taskJob[i].state # "none"}
  <2>1. k \in TaskJobs /\ \A Q \in SUBSET TaskJobs : closed(Q) => k \in Q
    BY DEF TaskEnded
  <2>2. closed(S)
    BY DEF TaskLive
  <2> HIDE DEF closed
  <2>3. S \in SUBSET TaskJobs
    OBVIOUS
  <2>4. k \in S
    BY <2>1, <2>2, <2>3
  <2>5. QED
    BY <2>4
<1> HIDE DEF E
<1>5. taskJob' \in [TaskJobs -> TaskJobSet]
  BY <1>1, <1>2 DEF TaskJobSet
<1>6. ASSUME NEW k \in TaskJobs
      PROVE  TaskJobKept(k) /\ (taskJob'[k].state = "none" <=> taskJob[k].state = "none")
  <2>1. CASE k \in E
    <3>1. taskJob'[k] = [taskJob[k] EXCEPT !.state = "ended"]
      BY <1>2, <2>1
    <3>2. taskJob[k] \in TaskJobSet
      BY <1>1
    <3>3. QED
      BY <1>4, <2>1, <3>1, <3>2 DEF TaskJobKept, TaskJobSet
  <2>2. CASE k \notin E
    BY <1>2, <2>2 DEF TaskJobKept
  <2>3. QED
    BY <2>1, <2>2
<1>7. TaskMoves(taskRunning, frames, wait)
  <2>1. TaskNone # taskRunning /\ taskRunning' \in {taskRunning, TaskNone}
    BY <1>2
  <2>2. taskThrown' \in BOOLEAN /\ ~taskThrown'
    BY <1>2
  <2>3. taskCurrent' = IF taskRunning' = TaskNone THEN TaskNone ELSE taskHome'[taskRunning']
    BY <1>2
  <2>4. taskJob'[taskRunning].state # "none"
    BY <1>1, <1>6
  <2>5. wait.kind \notin {"start", "final"} /\ (wait.kind # "none" => frames # <<>>) /\ taskRunning' # taskRunning
    BY <1>2
  <2>6. QED
    BY <1>1, <1>2, <1>3, <1>5, <1>6, <2>1, <2>2, <2>3, <2>4, <2>5 DEF TaskMoves
<1>8. TaskFlags(frames, wait, taskThrown' /\ taskRunning' = taskRunning) => TaskTouched(taskRunning)
  <2>1. ~taskThrown'
    BY <1>2
  <2>2. QED
    BY <2>1 DEF TaskFlags
<1> HIDE DEF TaskMoves
<1>9. QED
  BY <1>1, <1>7, <1>8, TaskMovesStep

LEMMA TaskFinishStep ==
  ASSUME TaskIInv, TaskFinish
  PROVE  TaskIInv'
<1>1. /\ taskRunning # TaskNone /\ taskFrames' = [taskFrames EXCEPT ![taskRunning] = <<>>]
      /\ TaskLeaves(TaskNoWait) /\ taskAwaits' = taskAwaits
  BY DEF TaskFinish
<1>2. taskAwaits' \in [TaskJobs -> Nat]
  BY <1>1, TaskRunner
<1>3. TaskNoWait \in TaskWaits /\ TaskNoWait.kind = "none" /\ TaskNoWait.hit = FALSE
  BY DEF TaskNoWait, TaskWaits
<1>4. <<>> \in Seq(TaskFrameSet) /\ ~TaskFlags(<<>>, TaskNoWait, FALSE)
  BY <1>3 DEF TaskFlags
<1>5. QED
  BY <1>1, <1>2, <1>3, <1>4, TaskLeavesStep

LEMMA TaskParkStep ==
  ASSUME TaskIInv, TaskPark
  PROVE  TaskIInv'
<1> DEFINE r == taskRunning
           w == [TaskNoWait EXCEPT !.kind = "parked", !.id = taskAwaits[r] + 1]
<1>1. /\ r # TaskNone /\ taskFrames' = taskFrames /\ TaskLeaves(w)
      /\ taskAwaits' = [taskAwaits EXCEPT ![r] = @ + 1]
  BY DEF TaskPark, TaskAwait, TaskCode
<1>2. /\ r \in TaskJobs /\ taskFrames[r] \in Seq(TaskFrameSet) /\ Len(taskFrames[r]) \in Nat \ {0}
      /\ taskAwaits[r] + 1 \in Nat /\ taskAwaits \in [TaskJobs -> Nat]
      /\ taskFrames \in [TaskJobs -> Seq(TaskFrameSet)]
  BY <1>1, TaskRunner DEF TaskIInv, TaskTypes
<1>3. w \in TaskWaits /\ w.kind = "parked" /\ w.hit = FALSE
  BY <1>2 DEF TaskNoWait, TaskWaits
<1> HIDE DEF w
<1>4. taskFrames' = [taskFrames EXCEPT ![r] = taskFrames[r]] /\ taskFrames[r] # <<>>
  BY <1>1, <1>2
<1>5. taskAwaits' \in [TaskJobs -> Nat]
  BY <1>1, <1>2
<1>6. TaskFlags(taskFrames[r], w, FALSE) => TaskTouched(r)
  BY <1>3 DEF TaskFlags, TaskTouched
<1>7. QED
  BY <1>1, <1>2, <1>3, <1>4, <1>5, <1>6, TaskLeavesStep

\* release() by the coroutine that runs, for one that is in the queue of the semaphore.
LEMMA TaskReleaseStep ==
  ASSUME TaskIInv, NEW k \in TaskJobs, TaskRelease(k)
  PROVE  TaskIInv'
<1> DEFINE r == taskRunning
           w == [kind |-> "woken", hit |-> TaskCancelled(taskCurrent), late |-> TaskCancelled(taskCurrent),
                 job |-> taskCurrent, id |-> taskWait[k].id]
<1>1. /\ r # TaskNone /\ taskWait[k].kind = "parked" /\ taskWait' = [taskWait EXCEPT ![k] = w]
      /\ taskHome' = [taskHome EXCEPT ![k] = taskHome[r]]
      /\ taskHomes' = [taskHomes EXCEPT ![k] = @ \union {taskHome[r]}]
      /\ taskJob' = taskJob /\ taskFrames' = taskFrames /\ taskAwaits' = taskAwaits /\ taskRunning' = taskRunning
      /\ taskThrown' = taskThrown /\ taskCurrent' = taskCurrent /\ taskTarget' = taskTarget
      /\ taskCancels' = taskCancels
  BY DEF TaskRelease, TaskGoesOn
<1>2. /\ r \in TaskJobs /\ taskCurrent = taskHome[r] /\ taskCurrent \in TaskJobs /\ taskWait[r].kind = "none"
      /\ (TaskCancelled(taskCurrent) <=> taskJob[taskCurrent].cancelled) /\ TaskCancelled(taskCurrent) \in BOOLEAN
  BY <1>1, TaskRunner
<1>3. TaskTypes /\ taskWait[k] \in TaskWaits /\ r # k
  BY <1>1, <1>2 DEF TaskIInv, TaskTypes
<1>4. PICK l \in BOOLEAN : l = TaskCancelled(taskCurrent)
  BY <1>2
<1>5. w = [kind |-> "woken", hit |-> l, late |-> l, job |-> taskCurrent, id |-> taskWait[k].id]
  BY <1>4
<1>6. /\ w \in TaskWaits /\ w.kind = "woken" /\ w.hit = l /\ w.job = taskCurrent
  <2>1. taskWait[k].id \in Nat
    BY <1>3 DEF TaskWaits
  <2>2. QED
    BY <1>2, <1>4, <1>5, <2>1 DEF TaskWaits
<1> HIDE DEF w
<1>7. /\ taskJob[k].state # "none" /\ taskFrames[k] # <<>> /\ taskHome[k] \in taskHomes[k]
  BY <1>1 DEF TaskIInv, TaskCharged
<1>8. /\ taskJob' \in [TaskJobs -> TaskJobSet]
      /\ \A i \in TaskJobs : TaskJobKept(i) /\ (taskJob'[i].state = "none" <=> taskJob[i].state = "none")
  BY <1>1, TaskSameJobs
<1>9. /\ taskHome' \in [TaskJobs -> TaskJobs] /\ taskHomes' \in [TaskJobs -> SUBSET TaskJobs]
      /\ taskHome'[k] = taskCurrent /\ taskCurrent \in taskHomes'[k] /\ taskHomes[k] \subseteq taskHomes'[k]
      /\ \A i \in TaskJobs : i # k => taskHome'[i] = taskHome[i] /\ taskHomes'[i] = taskHomes[i]
  <2>1. taskHome \in [TaskJobs -> TaskJobs] /\ taskHomes \in [TaskJobs -> SUBSET TaskJobs] /\ taskHome[r] \in TaskJobs
    BY <1>2, <1>3 DEF TaskTypes
  <2>2. QED
    BY <1>1, <1>2, <2>1
<1>10. taskFrames' = [taskFrames EXCEPT ![k] = taskFrames[k]] /\ taskFrames[k] \in Seq(TaskFrameSet)
  BY <1>1, <1>3 DEF TaskTypes
<1>11. /\ taskCurrent' = IF taskRunning' = TaskNone THEN TaskNone ELSE taskHome'[taskRunning']
       /\ taskThrown' \in BOOLEAN /\ taskAwaits' \in [TaskJobs -> Nat]
  BY <1>1, <1>2, <1>3, <1>9 DEF TaskTypes
<1>12. TaskMoves(k, taskFrames[k], w)
  BY <1>1, <1>3, <1>6, <1>7, <1>8, <1>9, <1>10, <1>11 DEF TaskMoves
<1>13. TaskFlags(taskFrames[k], w, taskThrown' /\ taskRunning' = k)
         => TaskTouched(k) \/ \E h \in taskHomes'[k] : taskJob[h].cancelled
  <2>1. ~(taskThrown' /\ taskRunning' = k)
    BY <1>1, <1>3
  <2>2. w.hit => taskJob[taskCurrent].cancelled
    BY <1>2, <1>4, <1>6
  <2>3. QED
    BY <1>9, <2>1, <2>2 DEF TaskFlags, TaskTouched
<1>14. ASSUME NEW p \in TaskJobs, w.job = p, taskJob[p].cancelled PROVE TaskReached(taskFrames[k], w)
  BY <1>2, <1>4, <1>6, <1>14 DEF TaskReached
<1> HIDE DEF TaskMoves
<1>15. QED
  BY <1>12, <1>13, <1>14, TaskMovesStep

\* A coroutine that waits is resumed.
LEMMA TaskRunsStep ==
  ASSUME TaskIInv, taskRunning = TaskNone, NEW j \in TaskJobs, taskWait[j].kind \notin {"none", "parked"},
         NEW frames \in Seq(TaskFrameSet), frames # <<>>, NEW thrown \in BOOLEAN, TaskRuns(j, frames, thrown),
         TaskFlags(frames, TaskNoWait, thrown) => TaskTouched(j) \/ \E h \in taskHomes[j] : taskJob[h].cancelled
  PROVE  TaskIInv'
<1>1. /\ taskRunning' = j /\ taskCurrent' = taskWait[j].job /\ taskThrown' = thrown
      /\ taskFrames' = [taskFrames EXCEPT ![j] = frames]
      /\ taskWait' = [taskWait EXCEPT ![j] = TaskNoWait]
      /\ taskJob' = taskJob /\ taskAwaits' = taskAwaits /\ taskTarget' = taskTarget /\ taskCancels' = taskCancels
      /\ TaskSameHomes
  BY DEF TaskRuns, TaskGoesOn
<1>2. /\ taskWait[j].job = taskHome[j] /\ taskJob[j].state # "none" /\ taskAwaits \in [TaskJobs -> Nat]
      /\ j # TaskNone
  BY TaskAssumption DEF TaskIInv, TaskTypes, TaskCharged, TaskNone
<1>3. TaskNoWait \in TaskWaits /\ TaskNoWait.kind = "none"
  BY DEF TaskNoWait, TaskWaits
<1>4. /\ taskHome' = taskHome /\ taskHomes' = taskHomes
      /\ taskHome' \in [TaskJobs -> TaskJobs] /\ taskHomes' \in [TaskJobs -> SUBSET TaskJobs]
      /\ \A k \in TaskJobs : taskHome'[k] \in taskHomes'[k] /\ taskHomes'[k] = taskHomes[k]
  BY <1>1, TaskSameHomesStep
<1>5. /\ taskJob' \in [TaskJobs -> TaskJobSet]
      /\ \A k \in TaskJobs : TaskJobKept(k) /\ (taskJob'[k].state = "none" <=> taskJob[k].state = "none")
  BY <1>1, TaskSameJobs
<1>6. TaskMoves(j, frames, TaskNoWait)
  BY <1>1, <1>2, <1>3, <1>4, <1>5 DEF TaskMoves
<1>7. TaskFlags(frames, TaskNoWait, taskThrown' /\ taskRunning' = j)
        => TaskTouched(j) \/ \E h \in taskHomes'[j] : taskJob[h].cancelled
  <2>1. TaskFlags(frames, TaskNoWait, taskThrown' /\ taskRunning' = j) => TaskFlags(frames, TaskNoWait, thrown)
    BY <1>1 DEF TaskFlags
  <2>2. QED
    BY <1>4, <2>1
<1> HIDE DEF TaskMoves
<1>8. QED
  BY <1>3, <1>6, <1>7, TaskMovesStep

LEMMA TaskResumeStep ==
  ASSUME TaskIInv, NEW j \in TaskJobs, TaskResume(j)
  PROVE  TaskIInv'
<1> DEFINE w == taskWait[j]
           F == taskFrames[j]
           n == Len(F)
           below == SubSeq(F, 1, n - 1)
<1>1. taskRunning = TaskNone
  BY DEF TaskResume, TaskKernelSteps
<1>2. w \in TaskWaits /\ F \in Seq(TaskFrameSet) /\ n \in Nat /\ TaskNoWait.hit = FALSE
  BY DEF TaskIInv, TaskTypes, TaskNoWait
<1>3. ASSUME n > 1
      PROVE  /\ below \in Seq(TaskFrameSet) /\ Len(below) = n - 1 /\ below # <<>> /\ n - 1 \in Nat
             /\ \A i \in 1 .. n - 1 : below[i] = F[i] /\ i \in DOMAIN F
             /\ TaskTop(j) = F[n] /\ TaskTop(j) \in TaskFrameSet /\ n \in DOMAIN F
  <2>0. n - 1 \in Nat /\ n - 1 <= n /\ n - 1 > 0
    BY <1>2, <1>3
  <2>1. PICK m \in Nat : m = n - 1 /\ m <= n /\ m > 0
    BY <2>0
  <2>2. SubSeq(F, 1, m) \in Seq(TaskFrameSet) /\ Len(SubSeq(F, 1, m)) = m
    BY <1>2, <2>1
  <2>3. \A i \in 1 .. m : SubSeq(F, 1, m)[i] = F[i] /\ i \in DOMAIN F
    BY <1>2, <2>1
  <2>4. TaskTop(j) = F[n] /\ TaskTop(j) \in TaskFrameSet /\ n \in DOMAIN F
    BY <1>2, <1>3 DEF TaskTop
  <2>5. below # <<>>
    <3>1. below = SubSeq(F, 1, m)
      BY <2>1
    <3> HIDE DEF below
    <3>2. Len(below) = m
      BY <2>2, <3>1
    <3>3. QED
      BY <2>1, <3>2
  <2>6. QED
    BY <2>0, <2>1, <2>2, <2>3, <2>4, <2>5
<1>4. ASSUME w.kind \in {"start", "final"} PROVE n > 1
  BY <1>4 DEF TaskIInv, TaskCharged
<1>5. ASSUME w.kind \notin {"none", "parked"}
      PROVE  F # <<>> /\ taskJob[j].state # "none" /\ w.job = taskHome[j] /\ w.job \in TaskJobs /\ w.job \in taskHomes[j]
  BY <1>5 DEF TaskIInv, TaskCharged, TaskTypes
<1>6. CASE w.kind = "start" /\ TaskRuns(j, Append(below, [TaskTop(j) EXCEPT !.state = "live"]), FALSE)
  <2> DEFINE g == [TaskTop(j) EXCEPT !.state = "live"]
             f == Append(below, g)
  <2>1. n > 1
    BY <1>4, <1>6
  <2>2. g \in TaskFrameSet /\ g.hit = TaskTop(j).hit /\ g.error = TaskTop(j).error
    BY <1>3, <2>1 DEF TaskFrameSet
  <2>3. TaskRuns(j, f, FALSE)
    BY <1>6
  <2> HIDE DEF g, below
  <2>4. /\ f \in Seq(TaskFrameSet) /\ Len(f) = n /\ f[n] = g /\ DOMAIN f = 1 .. n
        /\ \A i \in 1 .. n - 1 : f[i] = below[i]
    BY <1>2, <1>3, <2>1, <2>2
  <2> HIDE DEF f
  <2>5. f # <<>>
    BY <2>1, <2>4
  <2>6. ASSUME TaskFlags(f, TaskNoWait, FALSE) PROVE TaskTouched(j)
    <3>1. PICK i \in DOMAIN f : f[i].hit \/ f[i].error
      BY <1>2, <2>6 DEF TaskFlags
    <3>2. CASE i = n
      BY <1>3, <2>1, <2>2, <2>4, <3>1, <3>2, TaskOldFlags
    <3>3. CASE i # n
      <4>1. i \in 1 .. n - 1
        BY <1>2, <2>4, <3>3
      <4>2. QED
        BY <1>3, <2>1, <2>4, <3>1, <4>1, TaskOldFlags
    <3>4. QED
      BY <3>2, <3>3
  <2>7. QED
    BY <1>1, <1>6, <2>3, <2>4, <2>5, <2>6, TaskRunsStep
<1>7. CASE w.kind = "final" /\ TaskRuns(j, below, TaskTop(j).hit \/ TaskTop(j).error)
  <2> DEFINE thrown == TaskTop(j).hit \/ TaskTop(j).error
  <2>1. n > 1
    BY <1>4, <1>7
  <2>2. thrown \in BOOLEAN
    BY <1>3, <2>1 DEF TaskFrameSet
  <2>3. thrown => TaskTouched(j)
    BY <1>3, <2>1, TaskOldFlags
  <2>4. TaskRuns(j, below, thrown)
    BY <1>7
  <2>5. below \in Seq(TaskFrameSet) /\ below # <<>>
    BY <1>3, <2>1
  <2> HIDE DEF below, thrown
  <2>6. ASSUME TaskFlags(below, TaskNoWait, thrown) PROVE TaskTouched(j)
    <3>1. CASE thrown
      BY <2>3, <3>1
    <3>2. CASE ~thrown
      <4>1. PICK i \in DOMAIN below : below[i].hit \/ below[i].error
        BY <1>2, <2>6, <3>2 DEF TaskFlags
      <4>2. i \in 1 .. n - 1
        BY <1>3, <2>1, <2>5
      <4>3. QED
        BY <1>3, <2>1, <4>1, <4>2, TaskOldFlags
    <3>3. QED
      BY <3>1, <3>2
  <2>7. QED
    BY <1>1, <1>7, <2>2, <2>4, <2>5, <2>6, TaskRunsStep
<1>8. CASE w.kind \in {"sleep", "uring", "woken", "defer"} /\ TaskRuns(j, taskFrames[j], TaskThrows(w))
  <2>1. w.hit \in BOOLEAN
    BY <1>2 DEF TaskWaits
  <2>2. TaskThrows(w) \in BOOLEAN /\ (TaskThrows(w) => w.hit)
    BY <2>1 DEF TaskThrows
  <2>3. TaskFlags(F, TaskNoWait, TaskThrows(w)) => TaskTouched(j)
    BY <1>2, <2>2 DEF TaskFlags, TaskTouched
  <2>4. TaskRuns(j, F, TaskThrows(w)) /\ w.kind \notin {"none", "parked"}
    BY <1>8
  <2>5. F # <<>>
    BY <1>5, <2>4
  <2> HIDE DEF F, w
  <2>6. taskWait[j].kind \notin {"none", "parked"}
    BY <2>4 DEF w
  <2>7. QED
    BY <1>1, <1>2, <2>2, <2>3, <2>4, <2>5, <2>6, TaskRunsStep
<1>9. CASE w.kind = "sleep" /\ TaskCancelled(w.job) /\ TaskRuns(j, taskFrames[j], TRUE)
  <2>1. TaskRuns(j, F, TRUE) /\ F # <<>> /\ w.kind \notin {"none", "parked"} /\ TRUE \in BOOLEAN
    BY <1>5, <1>9
  <2>2. \E h \in taskHomes[j] : taskJob[h].cancelled
    BY <1>5, <1>9, <2>1 DEF TaskCancelled
  <2> HIDE DEF F
  <2>3. QED
    BY <1>1, <1>2, <2>1, <2>2, TaskRunsStep
<1>10. CASE /\ w.kind = "sqe"
            /\ taskWait' = [taskWait EXCEPT ![j].kind = "uring", ![j].id = @ + TaskAwaits,
                                            ![j].late = TaskCancelled(w.job)]
            /\ UNCHANGED <<taskJob, taskFrames, taskAwaits, taskRunning, taskThrown, taskCurrent>>
            /\ TaskGoesOn /\ TaskSameHomes
  <2>1. w.id + TaskAwaits \in Nat
    BY <1>2, TaskAssumption DEF TaskWaits
  <2>2. F # <<>> /\ taskJob[j].state # "none" /\ w.job = taskHome[j] /\ w.job \in TaskJobs
    BY <1>5, <1>10
  <2>3. taskJob[w.job].cancelled \in BOOLEAN
    BY <2>2 DEF TaskIInv, TaskTypes, TaskJobSet
  <2>4. PICK l \in BOOLEAN : l = TaskCancelled(w.job)
    BY <2>2, <2>3, Zenon DEF TaskCancelled
  <2> DEFINE v == [w EXCEPT !.kind = "uring", !.id = @ + TaskAwaits, !.late = l]
  <2>5. v \in TaskWaits /\ v.kind = "uring" /\ v.hit = w.hit /\ v.job = w.job /\ v.late = l
    BY <1>2, <2>1 DEF TaskWaits
  <2>6. taskWait' = [taskWait EXCEPT ![j] = v]
    BY <1>10, <2>4 DEF TaskIInv, TaskTypes
  <2>7. taskFrames' = [taskFrames EXCEPT ![j] = F]
    BY <1>10 DEF TaskIInv, TaskTypes
  <2>8. /\ taskAwaits' \in [TaskJobs -> Nat] /\ taskRunning' = TaskNone /\ taskCurrent' = TaskNone
        /\ taskThrown' = taskThrown /\ ~taskThrown /\ taskThrown \in BOOLEAN
        /\ taskTarget' = taskTarget /\ taskCancels' = taskCancels
    BY <1>1, <1>10 DEF TaskIInv, TaskTypes, TaskCharged, TaskGoesOn
  <2>9. /\ taskJob' \in [TaskJobs -> TaskJobSet]
        /\ \A k \in TaskJobs : TaskJobKept(k) /\ (taskJob'[k].state = "none" <=> taskJob[k].state = "none")
    BY <1>10, TaskSameJobs
  <2>10. /\ taskHome' = taskHome /\ taskHomes' = taskHomes
         /\ taskHome' \in [TaskJobs -> TaskJobs] /\ taskHomes' \in [TaskJobs -> SUBSET TaskJobs]
         /\ \A k \in TaskJobs : taskHome'[k] \in taskHomes'[k] /\ taskHomes'[k] = taskHomes[k]
    BY <1>10, TaskSameHomesStep
  <2>11. l <=> taskJob[w.job].cancelled
    BY <2>2, <2>3, <2>4, Zenon DEF TaskCancelled
  <2> HIDE DEF v, F, w
  <2>12. TaskNone # j
    BY TaskAssumption DEF TaskNone
  <2>13. taskJob'[j].state # "none"
    BY <2>2, <2>9
  <2>14. TaskMoves(j, F, v)
    BY <1>2, <2>2, <2>5, <2>6, <2>7, <2>8, <2>9, <2>10, <2>12, <2>13 DEF TaskMoves
  <2>15. TaskFlags(F, v, taskThrown' /\ taskRunning' = j) => TaskTouched(j)
    BY <2>5, <2>8 DEF TaskFlags, TaskTouched, F, w
  <2>16. ASSUME NEW p \in TaskJobs, v.job = p, taskJob[p].cancelled PROVE TaskReached(F, v)
    BY <2>5, <2>11, <2>16 DEF TaskReached
  <2> HIDE DEF TaskMoves
  <2>17. QED
    BY <2>14, <2>15, <2>16, TaskMovesStep
<1>11. CASE /\ UNCHANGED <<taskJob, taskFrames, taskWait, taskAwaits, taskRunning, taskThrown,
                          taskCurrent, taskTarget, taskCancels>>
            /\ TaskSameHomes
  <2>1. taskThrown' \in BOOLEAN /\ (taskThrown' => taskThrown)
    BY <1>11 DEF TaskIInv, TaskTypes
  <2>2. QED
    BY <1>11, <2>1, TaskSameStep
<1>12. QED
  BY <1>6, <1>7, <1>8, <1>9, <1>10, <1>11 DEF TaskResume

LEMMA TaskSpawnStep ==
  ASSUME TaskIInv, NEW j \in TaskJobs, TaskSpawn(j)
  PROVE  TaskIInv'
<1> DEFINE l == TaskCancelled(taskCurrent)
           job == [TaskNoJob EXCEPT !.state = "live", !.parent = taskCurrent, !.late = l]
           f == <<TaskFrame(FALSE), TaskFrame(FALSE)>>
           w == [TaskNoWait EXCEPT !.kind = "start", !.job = j, !.id = 1]
<1>1. /\ taskJob[j].state = "none" /\ taskJob' = [taskJob EXCEPT ![j] = job]
      /\ taskFrames' = [taskFrames EXCEPT ![j] = f] /\ taskWait' = [taskWait EXCEPT ![j] = w]
      /\ taskAwaits' = [taskAwaits EXCEPT ![j] = 1]
      /\ taskRunning' = taskRunning /\ taskThrown' = taskThrown /\ taskCurrent' = taskCurrent
      /\ taskTarget' = taskTarget /\ taskCancels' = taskCancels /\ TaskSameHomes
  BY DEF TaskSpawn, TaskGoesOn
<1>2. /\ TaskTypes /\ taskRunning # j /\ taskJob[j] = TaskNoJob /\ taskHome[j] = j
      /\ taskCurrent = IF taskRunning = TaskNone THEN TaskNone ELSE taskHome[taskRunning]
  BY <1>1 DEF TaskIInv, TaskCharged
<1>3. w \in TaskWaits /\ w.kind = "start" /\ w.hit = FALSE /\ w.job = j
  BY DEF TaskNoWait, TaskWaits
<1>4. TaskFrame(FALSE) \in TaskFrameSet /\ TaskFrame(FALSE).hit = FALSE /\ TaskFrame(FALSE).error = FALSE
  BY DEF TaskFrame, TaskFrameSet
<1>5. /\ f \in Seq(TaskFrameSet) /\ Len(f) = 2 /\ f # <<>> /\ DOMAIN f = 1 .. 2
      /\ f[1] = TaskFrame(FALSE) /\ f[2] = TaskFrame(FALSE)
  <2>1. PICK a \in TaskFrameSet : a = TaskFrame(FALSE)
    BY <1>4
  <2>2. /\ <<a, a>> \in Seq(TaskFrameSet) /\ Len(<<a, a>>) = 2 /\ <<a, a>> # <<>>
        /\ <<a, a>>[1] = a /\ <<a, a>>[2] = a
    OBVIOUS
  <2>3. DOMAIN <<a, a>> = 1 .. 2
    BY <2>2
  <2>4. f = <<a, a>>
    BY <2>1
  <2>5. QED
    BY <2>1, <2>2, <2>3, <2>4
<1>6. taskCurrent \in TaskJobs \union {TaskNone}
  BY <1>2 DEF TaskTypes
<1>7. l \in BOOLEAN /\ \A p \in TaskJobs : taskCurrent = p /\ taskJob[p].cancelled => l
  <2>1. \A p \in TaskJobs : taskJob[p].cancelled \in BOOLEAN
    BY <1>2 DEF TaskTypes, TaskJobSet
  <2>2. QED
    BY <2>1, Zenon DEF TaskCancelled
<1> HIDE DEF l
<1>8. /\ job \in TaskJobSet /\ job.state = "live" /\ job.cancelled = FALSE /\ job.passed = FALSE
      /\ job.parent = taskCurrent /\ job.late = l
  BY <1>6, <1>7 DEF TaskNoJob, TaskJobSet
<1> HIDE DEF job, f, w
<1>9. /\ taskJob'[j] = job /\ taskJob' \in [TaskJobs -> TaskJobSet]
      /\ \A k \in TaskJobs : k # j => taskJob'[k] = taskJob[k]
  BY <1>1, <1>2, <1>8 DEF TaskTypes
<1>10. \A k \in TaskJobs : \/ TaskJobKept(k) /\ (taskJob'[k].state = "none" <=> taskJob[k].state = "none")
                           \/ TaskJobNew(k) /\ k = j
  BY <1>2, <1>7, <1>8, <1>9 DEF TaskJobKept, TaskJobNew
<1>11. /\ taskHome' = taskHome /\ taskHomes' = taskHomes
       /\ taskHome' \in [TaskJobs -> TaskJobs] /\ taskHomes' \in [TaskJobs -> SUBSET TaskJobs]
       /\ \A k \in TaskJobs : taskHome'[k] \in taskHomes'[k] /\ taskHomes'[k] = taskHomes[k]
  BY <1>1, TaskSameHomesStep
<1>12. taskAwaits' \in [TaskJobs -> Nat] /\ taskThrown' \in BOOLEAN
  BY <1>1, <1>2 DEF TaskTypes
<1>13. taskJob'[j].state # "none"
  BY <1>8, <1>9
<1>14. TaskMoves(j, f, w)
  BY <1>1, <1>2, <1>3, <1>5, <1>9, <1>10, <1>11, <1>12, <1>13 DEF TaskMoves
<1>15. ~TaskFlags(f, w, taskThrown' /\ taskRunning' = j)
  <2>1. \A i \in DOMAIN f : f[i] = TaskFrame(FALSE)
    <3>1. \A i \in DOMAIN f : i = 1 \/ i = 2
      BY <1>5
    <3>2. QED
      BY <1>5, <3>1
  <2>2. ~(\E i \in DOMAIN f : f[i].hit \/ f[i].error)
    BY <1>4, <2>1
  <2>3. QED
    BY <1>1, <1>2, <1>3, <2>2 DEF TaskFlags
<1>16. ASSUME NEW p \in TaskJobs, w.job = p, taskJob[p].cancelled PROVE FALSE
  BY <1>2, <1>3, <1>16 DEF TaskNoJob
<1> HIDE DEF TaskMoves
<1>17. QED
  BY <1>14, <1>15, <1>16, TaskMovesStep

-----------------------------------------------------------------------------
(* cancel_job *)

LEMMA TaskCancelStep ==
  ASSUME TaskIInv, NEW j \in TaskJobs, TaskCancel(j)
  PROVE  TaskIInv'
<1> DEFINE c == TaskCancelFrame(j)
<1>1. /\ taskTarget = TaskNone /\ taskTarget' = j /\ taskCancels' = <<c>>
      /\ UNCHANGED <<taskJob, taskFrames, taskWait, taskAwaits, taskRunning, taskThrown, taskCurrent>>
      /\ taskHome' = taskHome /\ taskHomes' = taskHomes
  BY DEF TaskCancel, TaskUncancelled, TaskSameHomes
<1>2. c \in TaskCancelSet /\ c.job = j /\ c.at = "start" /\ c.seen = {}
  BY DEF TaskCancelFrame, TaskCancelSet
<1> HIDE DEF c
<1>3. taskCancels' \in Seq(TaskCancelSet) /\ DOMAIN taskCancels' = {1} /\ taskCancels'[1] = c /\ Len(taskCancels') = 1
  BY <1>1, <1>2
<1>4. j # TaskNone
  BY TaskAssumption DEF TaskNone
<1>5. TaskTypes'
  BY <1>1, <1>3 DEF TaskIInv, TaskTypes
<1>6. TaskCharged'
  BY <1>1 DEF TaskIInv, TaskCharged
<1>7. ASSUME NEW k \in TaskJobs PROVE ~TaskTouched(k)' /\ ~taskJob'[k].cancelled /\ ~taskJob'[k].passed
  <2>1. ~TaskTouched(k) /\ ~taskJob[k].cancelled
    BY <1>1 DEF TaskIInv, TaskCancelsBelow, TaskBelowTarget
  <2>2. QED
    BY <1>1, <2>1 DEF TaskTouched, TaskIInv, TaskCancelsNested
<1>8. ASSUME NEW i \in DOMAIN taskCancels' PROVE TaskBelowTarget(taskCancels[i].job)'
  <2>1. taskCancels'[i].job = taskTarget'
    BY <1>1, <1>2, <1>3
  <2>2. QED
    BY <1>1, <1>4, <2>1 DEF TaskBelowTarget
<1>9. TaskCancelsBelow'
  BY <1>1, <1>4, <1>7, <1>8 DEF TaskCancelsBelow
<1>10. TaskCancelsNested'
  BY <1>2, <1>3, <1>7 DEF TaskCancelsNested
<1>11. TaskCancelReaches'
  BY <1>7 DEF TaskCancelReaches
<1>12. QED
  BY <1>5, <1>6, <1>9, <1>10, <1>11 DEF TaskIInv

\* The promises of these coroutines, which are charged to one job, are cancelled.
LEMMA TaskHitStep ==
  ASSUME TaskIInv, NEW j \in TaskJobs, NEW hits \in SUBSET TaskCompletions(taskWait, j), TaskHit(hits)
  PROVE  /\ taskFrames' \in [TaskJobs -> Seq(TaskFrameSet)] /\ taskWait' \in [TaskJobs -> TaskWaits]
         /\ \A k \in TaskJobs :
              /\ taskWait'[k].kind = taskWait[k].kind /\ taskWait'[k].job = taskWait[k].job
              /\ Len(taskFrames'[k]) = Len(taskFrames[k]) /\ (taskFrames[k] # <<>> => taskFrames'[k] # <<>>)
              /\ k \notin hits => taskFrames'[k] = taskFrames[k] /\ taskWait'[k] = taskWait[k]
              /\ TaskWillThrow(k) => TaskWillThrow(k)'
              /\ taskWait[k].kind = "uring" /\ taskWait[k].late => TaskWillThrow(k)'
              /\ k \in hits => TaskWillThrow(k)'
<1>1. taskFrames \in [TaskJobs -> Seq(TaskFrameSet)] /\ taskWait \in [TaskJobs -> TaskWaits]
  BY DEF TaskIInv, TaskTypes
<1>2. ASSUME NEW k \in TaskJobs
      PROVE  /\ taskWait'[k] \in TaskWaits
             /\ taskWait'[k].kind = taskWait[k].kind /\ taskWait'[k].job = taskWait[k].job
             /\ taskWait'[k].late = taskWait[k].late /\ (taskWait[k].hit => taskWait'[k].hit)
             /\ k \notin hits => taskWait'[k] = taskWait[k]
             /\ k \in hits /\ taskWait[k].kind \notin {"start", "final"} => taskWait'[k].hit
  <2>1. taskWait'[k] = IF k \in hits /\ taskWait[k].kind \notin {"start", "final"}
                       THEN [taskWait[k] EXCEPT !.hit = TRUE] ELSE taskWait[k]
    BY DEF TaskHit
  <2>2. taskWait[k] \in TaskWaits
    BY <1>1
  <2>3. PICK v \in TaskWaits : v = [taskWait[k] EXCEPT !.hit = TRUE]
    BY <2>2 DEF TaskWaits
  <2>4. v.kind = taskWait[k].kind /\ v.job = taskWait[k].job /\ v.late = taskWait[k].late /\ v.hit = TRUE
    BY <2>2, <2>3 DEF TaskWaits
  <2>5. CASE k \in hits /\ taskWait[k].kind \notin {"start", "final"}
    BY <2>1, <2>3, <2>4, <2>5
  <2>6. CASE ~(k \in hits /\ taskWait[k].kind \notin {"start", "final"})
    BY <2>1, <2>2, <2>6
  <2>7. QED
    BY <2>5, <2>6
<1>3. ASSUME NEW k \in TaskJobs
      PROVE  /\ taskFrames'[k] \in Seq(TaskFrameSet)
             /\ Len(taskFrames'[k]) = Len(taskFrames[k]) /\ (taskFrames[k] # <<>> => taskFrames'[k] # <<>>)
             /\ k \notin hits => taskFrames'[k] = taskFrames[k]
             /\ k \in hits /\ taskWait[k].kind = "start" => taskFrames'[k][Len(taskFrames'[k])].hit
             /\ taskWait[k].kind = "start" /\ taskFrames[k][Len(taskFrames[k])].hit
                  => taskFrames'[k][Len(taskFrames'[k])].hit
  <2> DEFINE F == taskFrames[k]
             m == Len(F)
             g == [F[m] EXCEPT !.hit = TRUE]
  <2>1. taskFrames'[k] = IF k \in hits /\ taskWait[k].kind = "start" THEN [F EXCEPT ![m].hit = TRUE] ELSE F
    BY DEF TaskHit
  <2>2. F \in Seq(TaskFrameSet) /\ m \in Nat
    BY <1>1
  <2>3. CASE k \in hits /\ taskWait[k].kind = "start"
    <3>1. m > 1
      BY <2>3 DEF TaskIInv, TaskCharged
    <3>2. m \in 1 .. m /\ F[m] \in TaskFrameSet
      BY <2>2, <3>1
    <3>3. g \in TaskFrameSet /\ g.hit = TRUE
      BY <3>2 DEF TaskFrameSet
    <3>4. taskFrames'[k] = [F EXCEPT ![m] = g]
      BY <2>1, <2>3
    <3> HIDE DEF g, F
    <3>5. /\ taskFrames'[k] \in Seq(TaskFrameSet) /\ Len(taskFrames'[k]) = m /\ taskFrames'[k][m] = g
          /\ taskFrames'[k] # <<>>
      <4>1. [F EXCEPT ![m] = g] \in Seq(TaskFrameSet) /\ Len([F EXCEPT ![m] = g]) = m
        BY <2>2, <3>2, <3>3
      <4>2. [F EXCEPT ![m] = g][m] = g
        BY <2>2, <3>2
      <4>3. QED
        BY <3>1, <3>4, <4>1, <4>2
    <3>6. QED
      BY <2>3, <3>3, <3>5 DEF F
  <2>4. CASE ~(k \in hits /\ taskWait[k].kind = "start")
    BY <2>1, <2>2, <2>4
  <2>5. QED
    BY <2>3, <2>4
<1>4. taskFrames' \in [TaskJobs -> Seq(TaskFrameSet)]
  <2>1. taskFrames' = [k \in TaskJobs |-> taskFrames'[k]]
    BY DEF TaskHit
  <2>2. QED
    BY <1>3, <2>1
<1>5. taskWait' \in [TaskJobs -> TaskWaits]
  <2>1. taskWait' = [k \in TaskJobs |-> taskWait'[k]]
    BY DEF TaskHit
  <2>2. QED
    BY <1>2, <2>1
<1>6. ASSUME NEW k \in TaskJobs
      PROVE  /\ TaskWillThrow(k) => TaskWillThrow(k)'
             /\ taskWait[k].kind = "uring" /\ taskWait[k].late => TaskWillThrow(k)'
             /\ k \in hits => TaskWillThrow(k)'
  BY <1>2, <1>3 DEF TaskWillThrow, TaskTop
<1>7. QED
  BY <1>2, <1>3, <1>4, <1>5, <1>6

TaskJobsOf(calls) == {calls[i].job : i \in DOMAIN calls}

\* j may be marked by cancel_job, and cancel_job of it may have returned
TaskJobMarked(job, k, j) ==
    /\ job.state = taskJob[k].state /\ job.parent = taskJob[k].parent /\ job.late = taskJob[k].late
    /\ (taskJob[k].cancelled => job.cancelled) /\ (job.cancelled => taskJob[k].cancelled \/ k = j)
    /\ (taskJob[k].passed => job.passed) /\ (job.passed => taskJob[k].passed \/ k = j)

\* A step of cancel_job for job j.
LEMMA TaskCancelMovesStep ==
  ASSUME TaskIInv, NEW j \in TaskJobs, TaskBelowTarget(j), taskJob[j].state # "none",
         NEW hits \in SUBSET TaskCompletions(taskWait, j), TaskHit(hits),
         UNCHANGED <<taskAwaits, taskRunning, taskThrown, taskCurrent, taskTarget>>, TaskSameHomes,
         taskJob' \in [TaskJobs -> TaskJobSet], \A k \in TaskJobs : TaskJobMarked(taskJob'[k], k, j),
         taskCancels' \in Seq(TaskCancelSet), \A k \in TaskJobsOf(taskCancels') : TaskBelowTarget(k),
         TaskCancelsNested',
         taskJob'[j].passed /\ ~taskJob[j].passed
            => /\ \A k \in TaskChildren(j) : taskJob[k].passed \/ taskJob[k].late
               /\ \A k \in TaskCompletions(taskWait, j) : TaskWillThrow(k)'
  PROVE  TaskIInv'
<1>0. TaskTypes /\ TaskNone \notin TaskJobs /\ taskHome' = taskHome /\ taskHomes' = taskHomes
  BY TaskAssumption DEF TaskIInv, TaskNone, TaskSameHomes
<1>1. /\ taskFrames' \in [TaskJobs -> Seq(TaskFrameSet)] /\ taskWait' \in [TaskJobs -> TaskWaits]
      /\ \A k \in TaskJobs :
           /\ taskWait'[k].kind = taskWait[k].kind /\ taskWait'[k].job = taskWait[k].job
           /\ Len(taskFrames'[k]) = Len(taskFrames[k]) /\ (taskFrames[k] # <<>> => taskFrames'[k] # <<>>)
           /\ k \notin hits => taskFrames'[k] = taskFrames[k] /\ taskWait'[k] = taskWait[k]
           /\ TaskWillThrow(k) => TaskWillThrow(k)'
  BY TaskHitStep
<1>2. TaskTypes'
  BY <1>0, <1>1 DEF TaskTypes
<1>3. TaskCharged'
  <2>1. ASSUME NEW k \in TaskJobs
        PROVE  /\ taskHome'[k] \in taskHomes'[k]
               /\ taskJob'[k].state = "none" => taskJob'[k] = TaskNoJob /\ taskHome'[k] = k
               /\ taskWait'[k].kind \notin {"none", "parked"} => taskWait'[k].job = taskHome'[k]
               /\ taskRunning' = k => taskWait'[k].kind = "none"
               /\ taskRunning' = k \/ taskWait'[k].kind # "none" => taskJob'[k].state # "none" /\ taskFrames'[k] # <<>>
               /\ taskWait'[k].kind \in {"start", "final"} => Len(taskFrames'[k]) > 1
    <3>1. /\ taskHome[k] \in taskHomes[k]
          /\ taskJob[k].state = "none" => taskJob[k] = TaskNoJob /\ taskHome[k] = k
          /\ taskWait[k].kind \notin {"none", "parked"} => taskWait[k].job = taskHome[k]
          /\ taskRunning = k => taskWait[k].kind = "none"
          /\ taskRunning = k \/ taskWait[k].kind # "none" => taskJob[k].state # "none" /\ taskFrames[k] # <<>>
          /\ taskWait[k].kind \in {"start", "final"} => Len(taskFrames[k]) > 1
      BY DEF TaskIInv, TaskCharged
    <3>2. taskJob'[k].state = taskJob[k].state
      BY DEF TaskJobMarked
    <3>3. ASSUME taskJob'[k].state = "none" PROVE taskJob'[k] = TaskNoJob
      <4>1. taskJob[k] = TaskNoJob /\ taskJob'[k] \in TaskJobSet
        BY <3>1, <3>2, <3>3
      <4>2. k # j
        BY <3>2, <3>3, <4>1 DEF TaskJobMarked
      <4>3. QED
        BY <3>3, <4>1, <4>2 DEF TaskJobMarked, TaskJobSet, TaskNoJob
    <3>4. QED
      BY <1>0, <1>1, <3>1, <3>2, <3>3
  <2>2. QED
    BY <1>0, <2>1 DEF TaskIInv, TaskCharged
<1>4. ASSUME NEW x, TaskBelowTarget(x) PROVE TaskBelowTarget(x)'
  <2>1. TaskParentsStay
    BY DEF TaskParentsStay, TaskJobMarked
  <2>2. QED
    BY <1>4, <2>1, TaskBelowStays
<1>5. TaskCancelsBelow'
  <2>1. ASSUME NEW i \in DOMAIN taskCancels' PROVE TaskBelowTarget(taskCancels[i].job)'
    <3>1. \A x \in TaskJobsOf(taskCancels') : TaskBelowTarget(x)'
      BY <1>4
    <3>2. taskCancels'[i].job \in TaskJobsOf(taskCancels')
      BY DEF TaskJobsOf
    <3>3. QED
      BY <3>1, <3>2 DEF TaskBelowTarget, TaskClosed
  <2>2. ASSUME NEW k \in TaskJobs, taskJob'[k].cancelled PROVE TaskBelowTarget(k)'
    <3>1. taskJob[k].cancelled \/ k = j
      BY <2>2 DEF TaskJobMarked
    <3>2. TaskBelowTarget(k)
      BY <3>1 DEF TaskIInv, TaskCancelsBelow
    <3>3. QED
      BY <1>4, <3>2
  <2>3. ASSUME NEW k \in TaskJobs, TaskTouched(k)' PROVE \E h \in taskHomes'[k] : TaskBelowTarget(h)'
    <3>1. CASE k \in hits
      <4>1. taskWait[k].kind \notin {"none", "parked"} /\ taskWait[k].job = j
        BY <3>1 DEF TaskCompletions
      <4>2. j \in taskHomes[k]
        BY <4>1 DEF TaskIInv, TaskCharged
      <4>3. QED
        BY <1>0, <1>4, <4>2
    <3>2. CASE k \notin hits
      <4>1. TaskTouched(k)
        BY <1>1, <2>3, <3>2 DEF TaskTouched
      <4>2. PICK h \in taskHomes[k] : TaskBelowTarget(h)
        BY <4>1 DEF TaskIInv, TaskCancelsBelow
      <4>3. QED
        BY <1>0, <1>4, <4>2
    <3>3. QED
      BY <3>1, <3>2
  <2>4. taskTarget' # TaskNone
    BY DEF TaskBelowTarget
  <2>5. QED
    BY <2>1, <2>2, <2>3, <2>4 DEF TaskCancelsBelow
<1>6. TaskCancelReaches'
  <2>1. ASSUME NEW p \in TaskJobs, taskJob'[p].passed
        PROVE  /\ \A k \in TaskChildren(p)' : taskJob'[k].passed \/ taskJob'[k].late
               /\ \A k \in TaskCompletions(taskWait', p) : TaskWillThrow(k)'
    <3>1. TaskChildren(p)' = TaskChildren(p)
      BY DEF TaskChildren, TaskJobMarked
    <3>2. TaskCompletions(taskWait', p) = TaskCompletions(taskWait, p)
      BY <1>1 DEF TaskCompletions
    <3>3. \A k \in TaskChildren(p) : k \in TaskJobs
      BY DEF TaskChildren
    <3>4. \A k \in TaskCompletions(taskWait, p) : k \in TaskJobs
      BY DEF TaskCompletions
    <3>5. CASE taskJob[p].passed
      <4>1. /\ \A k \in TaskChildren(p) : taskJob[k].passed \/ taskJob[k].late
            /\ \A k \in TaskCompletions(taskWait, p) : TaskWillThrow(k)
        BY <3>5 DEF TaskIInv, TaskCancelReaches
      <4>2. QED
        BY <1>1, <3>1, <3>2, <3>3, <3>4, <4>1 DEF TaskJobMarked
    <3>6. CASE ~taskJob[p].passed
      <4>1. p = j
        BY <2>1, <3>6 DEF TaskJobMarked
      <4>2. QED
        BY <2>1, <3>1, <3>2, <3>3, <3>6, <4>1 DEF TaskJobMarked
    <3>7. QED
      BY <3>5, <3>6
  <2>2. QED
    BY <2>1 DEF TaskCancelReaches, TaskCompletions
<1>7. QED
  BY <1>2, <1>3, <1>5, <1>6 DEF TaskIInv

\* The innermost call of cancel_job.
LEMMA TaskInnermost ==
  ASSUME TaskIInv, taskCancels # <<>>
  PROVE  /\ Len(taskCancels) \in Nat \ {0} /\ TaskCall1 = taskCancels[Len(taskCancels)]
         /\ Len(taskCancels) \in DOMAIN taskCancels
         /\ TaskCall1 \in TaskCancelSet /\ TaskCall1.job \in TaskJobs /\ TaskCall1.seen \subseteq TaskJobs
         /\ TaskBelowTarget(TaskCall1.job) /\ taskCancels \in Seq(TaskCancelSet)
         /\ \A k \in TaskJobsOf(taskCancels) : TaskBelowTarget(k)
         /\ TaskCall1.at # "start" => taskJob[TaskCall1.job].cancelled
         /\ TaskCall1.at \in {"start", "child"} => \A k \in TaskCall1.seen : taskJob[k].passed
         /\ TaskCall1.at \in {"sqe", "cqe"}
               => \A k \in TaskChildren(TaskCall1.job) : taskJob[k].passed \/ taskJob[k].late
<1>1. taskCancels \in Seq(TaskCancelSet)
  BY DEF TaskIInv, TaskTypes
<1>2. Len(taskCancels) \in Nat \ {0} /\ Len(taskCancels) \in DOMAIN taskCancels
  BY <1>1
<1>3. TaskCall1 \in TaskCancelSet /\ TaskCall1 = taskCancels[Len(taskCancels)]
  BY <1>1, <1>2 DEF TaskCall1
<1>4. TaskCall1.job \in TaskJobs /\ TaskCall1.seen \subseteq TaskJobs
  BY <1>3 DEF TaskCancelSet
<1>5. \A k \in TaskJobsOf(taskCancels) : TaskBelowTarget(k)
  BY DEF TaskJobsOf, TaskIInv, TaskCancelsBelow
<1>6. TaskBelowTarget(TaskCall1.job)
  BY <1>2, <1>3, <1>5 DEF TaskJobsOf
<1>7. /\ TaskCall1.at # "start" => taskJob[TaskCall1.job].cancelled
      /\ TaskCall1.at \in {"start", "child"} => \A k \in TaskCall1.seen : taskJob[k].passed
      /\ TaskCall1.at \in {"sqe", "cqe"}
            => \A k \in TaskChildren(TaskCall1.job) : taskJob[k].passed \/ taskJob[k].late
  BY <1>2, <1>3 DEF TaskIInv, TaskCancelsNested
<1>8. QED
  BY <1>1, <1>2, <1>3, <1>4, <1>5, <1>6, <1>7

\* what TaskCancelsNested says of call i of these
TaskNestedAt(s, i) ==
    /\ i # Len(s) => s[i].at = "child" /\ s[i].entry = s[i + 1].job
    /\ s[i].at # "start" => taskJob[s[i].job].cancelled
    /\ s[i].at = "start" => s[i].seen = {}
    /\ s[i].at \in {"start", "child"} => \A k \in s[i].seen : taskJob[k].passed \/ (i # Len(s) /\ k = s[i].entry)
    /\ s[i].at \in {"sqe", "cqe"} => \A k \in TaskChildren(s[i].job) : taskJob[k].passed \/ taskJob[k].late

LEMMA TaskNestedAll ==
  ASSUME \A j \in TaskJobs : taskJob'[j].passed => taskJob'[j].cancelled,
         \A i \in DOMAIN taskCancels' : TaskNestedAt(taskCancels, i)'
  PROVE  TaskCancelsNested'
BY DEF TaskCancelsNested, TaskNestedAt

\* The calls around the innermost one are as they were.
LEMMA TaskNestedCallers ==
  ASSUME TaskIInv, taskCancels # <<>>, NEW j, \A k \in TaskJobs : TaskJobMarked(taskJob'[k], k, j),
         NEW i \in DOMAIN taskCancels, i # Len(taskCancels), NEW s, i # Len(s),
         s[i] = taskCancels[i], s[i + 1].job = taskCancels[i + 1].job
  PROVE  /\ s[i].at = "child" /\ s[i].entry = s[i + 1].job /\ taskJob'[s[i].job].cancelled
         /\ \A k \in s[i].seen : taskJob'[k].passed \/ k = s[i].entry
<1>1. taskCancels[i] \in TaskCancelSet
  BY DEF TaskIInv, TaskTypes
<1>2. taskCancels[i].job \in TaskJobs /\ taskCancels[i].seen \subseteq TaskJobs
  BY <1>1 DEF TaskCancelSet
<1>3. /\ taskCancels[i].at = "child" /\ taskCancels[i].entry = taskCancels[i + 1].job
      /\ taskJob[taskCancels[i].job].cancelled
      /\ \A k \in taskCancels[i].seen : taskJob[k].passed \/ k = taskCancels[i].entry
  BY DEF TaskIInv, TaskCancelsNested
<1>4. QED
  BY <1>2, <1>3 DEF TaskJobMarked

\* The jobs of cancel_job's step: as they were, but for the mark of the job it is at.
TaskJobsMarked(marked, j) ==
    /\ marked \in [TaskJobs -> TaskJobSet] /\ \A k \in TaskJobs : TaskJobMarked(marked[k], k, j)
    /\ marked[j].cancelled /\ marked[j].passed = taskJob[j].passed /\ taskJob[j].state # "none"

LEMMA TaskPassedMarked ==
  ASSUME TaskIInv, NEW j \in TaskJobs, \A k \in TaskJobs : TaskJobMarked(taskJob'[k], k, j), taskJob'[j].cancelled
  PROVE  \A k \in TaskJobs : taskJob'[k].passed => taskJob'[k].cancelled
<1>1. \A k \in TaskJobs : taskJob[k].passed => taskJob[k].cancelled
  BY DEF TaskIInv, TaskCancelsNested
<1>2. QED
  BY <1>1 DEF TaskJobMarked

\* cancel_job is at the promises of its job.
LEMMA TaskCancelPromisesStep ==
  ASSUME TaskIInv, taskCancels # <<>>, NEW marked, TaskJobsMarked(marked, TaskCall1.job), TaskCancelPromises(marked),
         \A k \in TaskChildren(TaskCall1.job) : taskJob[k].passed \/ taskJob[k].late,
         UNCHANGED <<taskAwaits, taskRunning, taskThrown, taskCurrent, taskTarget>>, TaskSameHomes
  PROVE  TaskIInv'
<1> DEFINE n == Len(taskCancels)
           all == TaskCompletions(taskWait, taskCancels[n].job)
           operations == {k \in all : taskWait[k].kind = "uring" /\ ~taskWait[k].hit}
           others == {k \in all : taskWait[k].kind # "uring"}
<1>1. PICK j \in TaskJobs : j = TaskCall1.job
  BY TaskInnermost
<1>2. /\ n \in Nat \ {0} /\ n \in DOMAIN taskCancels /\ taskCancels[n] = TaskCall1 /\ TaskCall1 \in TaskCancelSet
      /\ TaskBelowTarget(j) /\ taskCancels \in Seq(TaskCancelSet)
      /\ \A k \in TaskJobsOf(taskCancels) : TaskBelowTarget(k)
  BY <1>1, TaskInnermost
<1>3. /\ marked \in [TaskJobs -> TaskJobSet] /\ \A k \in TaskJobs : TaskJobMarked(marked[k], k, j)
      /\ marked[j].cancelled /\ marked[j].passed = taskJob[j].passed /\ taskJob[j].state # "none"
  BY <1>1 DEF TaskJobsMarked
<1>4. all = TaskCompletions(taskWait, j)
  BY <1>1, <1>2
<1>5. CASE \E k \in operations, some \in SUBSET others, at \in {"sqe", "cqe"} :
             /\ TaskHit(some \union {k})
             /\ taskJob' = marked
             /\ taskCancels' = [taskCancels EXCEPT ![n].at = at, ![n].entry = k, ![n].id = taskWait[k].id]
  <2>1. PICK k \in operations, some \in SUBSET others, at \in {"sqe", "cqe"} :
               /\ TaskHit(some \union {k})
               /\ taskJob' = marked
               /\ taskCancels' = [taskCancels EXCEPT ![n].at = at, ![n].entry = k, ![n].id = taskWait[k].id]
    BY <1>5, Zenon
  <2> DEFINE d == [TaskCall1 EXCEPT !.at = at, !.entry = k, !.id = taskWait[k].id]
  <2>2. k \in TaskJobs /\ taskWait[k].id \in Nat
    <3>1. k \in TaskJobs
      BY DEF TaskCompletions
    <3>2. taskWait[k] \in TaskWaits
      BY <3>1 DEF TaskIInv, TaskTypes
    <3>3. QED
      BY <3>1, <3>2 DEF TaskWaits
  <2>3. d \in TaskCancelSet /\ d.job = j /\ d.at = at
    BY <1>1, <1>2, <2>2 DEF TaskCancelSet
  <2>4. taskCancels' = [taskCancels EXCEPT ![n] = d]
    BY <1>2, <2>1
  <2> HIDE DEF d
  <2>5. /\ taskCancels' \in Seq(TaskCancelSet) /\ Len(taskCancels') = n /\ DOMAIN taskCancels' = DOMAIN taskCancels
        /\ taskCancels'[n] = d /\ \A i \in DOMAIN taskCancels : i # n => taskCancels'[i] = taskCancels[i]
    BY <1>2, <2>3, <2>4
  <2>6. \A i \in DOMAIN taskCancels : taskCancels'[i].job = taskCancels[i].job
    BY <1>1, <1>2, <2>3, <2>5
  <2>7. \A x \in TaskJobsOf(taskCancels') : TaskBelowTarget(x)
    BY <1>2, <2>5, <2>6 DEF TaskJobsOf
  <2>8. \A x \in TaskJobs : TaskJobMarked(taskJob'[x], x, j)
    BY <1>3, <2>1
  <2>9. \A x \in TaskJobs : taskJob'[x].passed => taskJob'[x].cancelled
    BY <1>3, <2>1, <2>8, TaskPassedMarked
  <2>10. ASSUME NEW i \in DOMAIN taskCancels' PROVE TaskNestedAt(taskCancels, i)'
    <3>1. CASE i # n
      <4>1. i + 1 \in DOMAIN taskCancels
        BY <1>2, <2>5, <3>1
      <4>2. /\ taskCancels'[i].at = "child" /\ taskCancels'[i].entry = taskCancels'[i + 1].job
            /\ taskJob'[taskCancels'[i].job].cancelled
            /\ \A x \in taskCancels'[i].seen : taskJob'[x].passed \/ x = taskCancels'[i].entry
        BY <2>5, <2>6, <2>8, <3>1, <4>1, TaskNestedCallers
      <4>3. QED
        BY <2>5, <3>1, <4>2 DEF TaskNestedAt
    <3>2. CASE i = n
      <4>1. taskCancels'[i] = d /\ i = Len(taskCancels') /\ d.at \in {"sqe", "cqe"} /\ taskJob'[j].cancelled
        BY <1>3, <2>1, <2>3, <2>5, <3>2
      <4>2. ASSUME NEW x \in TaskJobs, taskJob'[x].state = "live", taskJob'[x].parent = j
            PROVE  taskJob'[x].passed \/ taskJob'[x].late
        <5>1. x \in TaskChildren(TaskCall1.job)
          BY <1>1, <2>8, <4>2 DEF TaskChildren, TaskJobMarked
        <5>2. QED
          BY <2>8, <5>1 DEF TaskJobMarked
      <4>3. QED
        BY <2>3, <4>1, <4>2 DEF TaskNestedAt, TaskChildren
    <3>3. QED
      BY <3>1, <3>2
  <2>11. TaskCancelsNested'
    BY <2>9, <2>10, TaskNestedAll
  <2>12. some \union {k} \in SUBSET TaskCompletions(taskWait, j)
    BY <1>4
  <2>13. ~(taskJob'[j].passed /\ ~taskJob[j].passed)
    BY <1>3, <2>1
  <2>14. QED
    BY <1>2, <1>3, <2>1, <2>5, <2>7, <2>8, <2>11, <2>12, <2>13, TaskCancelMovesStep
<1>6. CASE /\ \A k \in operations : taskWait[k].late
           /\ TaskHit(others)
           /\ taskJob' = [marked EXCEPT ![taskCancels[n].job].passed = TRUE]
           /\ taskCancels' = TaskCallers
  <2>1. PICK m \in Nat : m = n - 1 /\ m < n
    <3>1. n - 1 \in Nat /\ n - 1 < n
      BY <1>2
    <3>2. QED
      BY <3>1
  <2>2. taskCancels' = SubSeq(taskCancels, 1, m)
    BY <1>6, <2>1 DEF TaskCallers
  <2>3. /\ taskCancels' \in Seq(TaskCancelSet) /\ Len(taskCancels') = m /\ DOMAIN taskCancels' = 1 .. m
        /\ \A i \in 1 .. m : taskCancels'[i] = taskCancels[i] /\ i \in DOMAIN taskCancels /\ i # n
    <3>1. /\ SubSeq(taskCancels, 1, m) \in Seq(TaskCancelSet) /\ Len(SubSeq(taskCancels, 1, m)) = m
          /\ \A i \in 1 .. m : SubSeq(taskCancels, 1, m)[i] = taskCancels[i] /\ i \in DOMAIN taskCancels
      BY <1>2, <2>1
    <3>2. QED
      BY <1>2, <2>1, <2>2, <3>1
  <2>4. \A x \in TaskJobsOf(taskCancels') : TaskBelowTarget(x)
    BY <1>2, <2>3 DEF TaskJobsOf
  <2>5. PICK job \in TaskJobSet : job = [marked[j] EXCEPT !.passed = TRUE]
    BY <1>3 DEF TaskJobSet
  <2>6. /\ job.state = marked[j].state /\ job.parent = marked[j].parent /\ job.late = marked[j].late
        /\ job.cancelled = marked[j].cancelled /\ job.passed = TRUE
    BY <1>3, <2>5 DEF TaskJobSet
  <2>7. taskJob' = [marked EXCEPT ![j] = job]
    BY <1>1, <1>2, <1>6, <2>5
  <2>8. /\ taskJob' \in [TaskJobs -> TaskJobSet] /\ taskJob'[j] = job
        /\ \A x \in TaskJobs : x # j => taskJob'[x] = marked[x]
    BY <1>3, <2>7
  <2>9. \A x \in TaskJobs : TaskJobMarked(taskJob'[x], x, j)
    BY <1>3, <2>6, <2>8 DEF TaskJobMarked
  <2>10. \A x \in TaskJobs : taskJob'[x].passed => taskJob'[x].cancelled
    BY <1>3, <2>6, <2>8, <2>9, TaskPassedMarked
  <2>11. ASSUME NEW i \in DOMAIN taskCancels' PROVE TaskNestedAt(taskCancels, i)'
    <3> DEFINE c == taskCancels[i]
    <3>1. i \in 1 .. m /\ i \in DOMAIN taskCancels /\ taskCancels'[i] = c /\ c \in TaskCancelSet /\ i # n
      BY <1>2, <2>3
    <3>2. c.job \in TaskJobs /\ c.seen \subseteq TaskJobs
      BY <3>1 DEF TaskCancelSet
    <3>3. /\ c.at = "child" /\ c.entry = taskCancels[i + 1].job /\ taskJob[c.job].cancelled
          /\ \A x \in c.seen : taskJob[x].passed \/ x = c.entry
      BY <3>1 DEF TaskIInv, TaskCancelsNested
    <3> HIDE DEF c
    <3>4. taskJob'[c.job].cancelled /\ \A x \in c.seen : taskJob'[x].passed \/ x = c.entry
      BY <2>9, <3>2, <3>3 DEF TaskJobMarked
    <3>5. CASE i = m
      <4>1. c.entry = j /\ taskJob'[j].passed
        BY <1>1, <1>2, <2>1, <2>6, <2>8, <3>3, <3>5
      <4>2. QED
        BY <2>3, <3>1, <3>3, <3>4, <3>5, <4>1 DEF TaskNestedAt
    <3>6. CASE i # m
      <4>1. taskCancels'[i + 1] = taskCancels[i + 1] /\ i # Len(taskCancels')
        BY <2>3, <3>1, <3>6
      <4>2. QED
        BY <3>1, <3>3, <3>4, <4>1 DEF TaskNestedAt
    <3>7. QED
      BY <3>5, <3>6
  <2>12. TaskCancelsNested'
    BY <2>10, <2>11, TaskNestedAll
  <2>13. others \in SUBSET TaskCompletions(taskWait, j)
    BY <1>4
  <2>14. ASSUME NEW k \in TaskCompletions(taskWait, j) PROVE TaskWillThrow(k)'
    <3>1. k \in TaskJobs
      BY DEF TaskCompletions
    <3>2. /\ TaskWillThrow(k) => TaskWillThrow(k)'
          /\ taskWait[k].kind = "uring" /\ taskWait[k].late => TaskWillThrow(k)'
          /\ k \in others => TaskWillThrow(k)'
      BY <1>6, <2>13, <3>1, TaskHitStep
    <3>3. taskWait[k].kind = "uring" /\ taskWait[k].hit => TaskWillThrow(k)
      BY DEF TaskWillThrow
    <3>4. QED
      BY <1>4, <1>6, <3>2, <3>3
  <2>15. \A k \in TaskChildren(j) : taskJob[k].passed \/ taskJob[k].late
    BY <1>1
  <2>16. TaskHit(others)
    BY <1>6
  <2> HIDE DEF others
  <2>17. QED
    BY <1>2, <1>3, <2>3, <2>4, <2>8, <2>9, <2>12, <2>13, <2>14, <2>15, <2>16, TaskCancelMovesStep
<1>7. QED
  BY <1>5, <1>6, Zenon DEF TaskCancelPromises

\* cancel_job at a job: up to its next suspension, or to its return.
LEMMA TaskCancelGoesStep ==
  ASSUME TaskIInv, taskCancels # <<>>, NEW marked, TaskJobsMarked(marked, TaskCall1.job), TaskCancelGoes(marked),
         TaskCall1.at \in {"start", "child"}
  PROVE  TaskIInv'
<1> DEFINE n == Len(taskCancels)
           c == taskCancels[n]
           left == TaskChildren(c.job) \ c.seen
<1>1. PICK j \in TaskJobs : j = TaskCall1.job
  BY TaskInnermost
<1>2. /\ n \in Nat \ {0} /\ n \in DOMAIN taskCancels /\ c = TaskCall1 /\ c \in TaskCancelSet /\ c.seen \subseteq TaskJobs
      /\ TaskBelowTarget(j) /\ taskCancels \in Seq(TaskCancelSet) /\ c.job = j
      /\ \A k \in TaskJobsOf(taskCancels) : TaskBelowTarget(k)
      /\ \A k \in c.seen : taskJob[k].passed
  BY <1>1, TaskInnermost
<1>3. /\ marked \in [TaskJobs -> TaskJobSet] /\ \A k \in TaskJobs : TaskJobMarked(marked[k], k, j)
      /\ marked[j].cancelled /\ marked[j].passed = taskJob[j].passed /\ taskJob[j].state # "none"
  BY <1>1 DEF TaskJobsMarked
<1>4. UNCHANGED <<taskAwaits, taskRunning, taskThrown, taskCurrent, taskTarget>> /\ TaskSameHomes
  BY Zenon DEF TaskCancelGoes
<1>5. CASE (\A k \in left : taskJob[k].late) /\ TaskCancelPromises(marked)
  <2>1. \A k \in TaskChildren(TaskCall1.job) : taskJob[k].passed \/ taskJob[k].late
    BY <1>1, <1>2, <1>5
  <2>2. QED
    BY <1>4, <1>5, <2>1, TaskCancelPromisesStep
<1>6. ASSUME NEW k \in left, taskJob' = marked, UNCHANGED <<taskFrames, taskWait>>,
             taskCancels' = Append([taskCancels EXCEPT ![n].at = "child", ![n].entry = k, ![n].seen = @ \union {k}],
                                   TaskCancelFrame(k))
      PROVE  TaskIInv'
  <2> DEFINE d == [c EXCEPT !.at = "child", !.entry = k, !.seen = @ \union {k}]
             s == [taskCancels EXCEPT ![n] = d]
             e == TaskCancelFrame(k)
  <2>1. k \in TaskJobs /\ TaskBelowTarget(k)
    <3>1. k \in TaskJobs /\ taskJob[k].parent = j
      BY <1>2 DEF TaskChildren
    <3>2. QED
      BY <1>2, <3>1, TaskBelowChild DEF TaskIInv
  <2>2. d \in TaskCancelSet /\ d.job = j /\ d.at = "child" /\ d.entry = k /\ d.seen = c.seen \union {k}
    BY <1>2, <2>1 DEF TaskCancelSet
  <2>3. e \in TaskCancelSet /\ e.job = k /\ e.at = "start" /\ e.seen = {}
    BY <2>1 DEF TaskCancelFrame, TaskCancelSet
  <2>4. taskCancels' = Append(s, e)
    BY <1>2, <1>6
  <2> HIDE DEF d, e
  <2>5. /\ s \in Seq(TaskCancelSet) /\ Len(s) = n /\ DOMAIN s = 1 .. n
        /\ s[n] = d /\ \A i \in 1 .. n : i # n => s[i] = taskCancels[i]
    <3>1. s \in Seq(TaskCancelSet) /\ Len(s) = n /\ DOMAIN s = DOMAIN taskCancels
      BY <1>2, <2>2
    <3>2. s[n] = d /\ \A i \in DOMAIN taskCancels : i # n => s[i] = taskCancels[i]
      BY <1>2, <2>2
    <3>3. DOMAIN taskCancels = 1 .. n
      BY <1>2
    <3> HIDE DEF s, n
    <3>4. QED
      BY <3>1, <3>2, <3>3
  <2> HIDE DEF s, n
  <2>6. /\ taskCancels' \in Seq(TaskCancelSet) /\ Len(taskCancels') = n + 1 /\ DOMAIN taskCancels' = 1 .. n + 1
        /\ taskCancels'[n + 1] = e /\ \A i \in 1 .. n : taskCancels'[i] = s[i]
    <3>1. /\ Append(s, e) \in Seq(TaskCancelSet) /\ Len(Append(s, e)) = n + 1 /\ DOMAIN Append(s, e) = 1 .. n + 1
          /\ Append(s, e)[n + 1] = e /\ \A i \in 1 .. n : Append(s, e)[i] = s[i]
      BY <1>2, <2>3, <2>5
    <3>2. QED
      BY <2>4, <3>1
  <2>7. \A i \in 1 .. n : taskCancels'[i].job = taskCancels[i].job /\ i \in DOMAIN taskCancels
    BY <1>2, <2>2, <2>5, <2>6
  <2>8. ASSUME NEW x \in TaskJobsOf(taskCancels') PROVE TaskBelowTarget(x)
    <3>1. PICK i \in 1 .. n + 1 : x = taskCancels'[i].job
      BY <2>6 DEF TaskJobsOf
    <3>2. CASE i = n + 1
      BY <2>1, <2>3, <2>6, <3>1, <3>2
    <3>3. CASE i \in 1 .. n
      BY <1>2, <2>7, <3>1, <3>3 DEF TaskJobsOf
    <3>4. QED
      BY <1>2, <3>1, <3>2, <3>3
  <2>9. \A x \in TaskJobs : TaskJobMarked(taskJob'[x], x, j)
    BY <1>3, <1>6
  <2>10. \A x \in TaskJobs : taskJob'[x].passed => taskJob'[x].cancelled
    BY <1>3, <1>6, <2>9, TaskPassedMarked
  <2>11. ASSUME NEW i \in DOMAIN taskCancels' PROVE TaskNestedAt(taskCancels, i)'
    <3>1. CASE i = n + 1
      BY <2>3, <2>6, <3>1 DEF TaskNestedAt
    <3>2. CASE i = n
      <4>1. taskCancels'[i] = d /\ taskCancels'[i + 1] = e /\ i # Len(taskCancels') /\ taskJob'[j].cancelled
        BY <1>2, <1>3, <1>6, <2>5, <2>6, <3>2
      <4>2. \A x \in c.seen : taskJob'[x].passed
        BY <1>2, <2>9 DEF TaskJobMarked
      <4>3. \A x \in d.seen : taskJob'[x].passed \/ x = d.entry
        BY <2>2, <4>2
      <4>4. QED
        BY <2>2, <2>3, <4>1, <4>3 DEF TaskNestedAt
    <3>3. CASE i # n /\ i # n + 1
      <4>1. i \in 1 .. n /\ i + 1 \in 1 .. n /\ i \in DOMAIN taskCancels /\ i # Len(taskCancels') /\ i # n
        BY <1>2, <2>6, <2>7, <3>3
      <4>2. taskCancels'[i] = taskCancels[i] /\ taskCancels'[i + 1].job = taskCancels[i + 1].job
        BY <2>5, <2>6, <2>7, <3>3, <4>1
      <4>3. /\ taskCancels'[i].at = "child" /\ taskCancels'[i].entry = taskCancels'[i + 1].job
            /\ taskJob'[taskCancels'[i].job].cancelled
            /\ \A x \in taskCancels'[i].seen : taskJob'[x].passed \/ x = taskCancels'[i].entry
        BY <2>9, <4>1, <4>2, TaskNestedCallers DEF n
      <4>4. QED
        BY <4>1, <4>3 DEF TaskNestedAt
    <3>4. QED
      BY <3>1, <3>2, <3>3
  <2>12. TaskCancelsNested'
    BY <2>10, <2>11, TaskNestedAll
  <2>13. TaskHit({})
    BY <1>6 DEF TaskHit, TaskIInv, TaskTypes
  <2>14. {} \in SUBSET TaskCompletions(taskWait, j) /\ ~(taskJob'[j].passed /\ ~taskJob[j].passed)
    BY <1>3, <1>6
  <2>15. taskJob' \in [TaskJobs -> TaskJobSet]
    BY <1>3, <1>6
  <2>16. QED
    BY <1>2, <1>3, <1>4, <2>6, <2>8, <2>9, <2>12, <2>13, <2>14, <2>15, TaskCancelMovesStep
<1>7. QED
  BY <1>5, <1>6, Zenon DEF TaskCancelGoes

\* The mark of a job, and jobs that are left alone.
LEMMA TaskMarks ==
  ASSUME TaskIInv, NEW j \in TaskJobs, taskJob[j].state # "none"
  PROVE  /\ TaskJobsMarked([taskJob EXCEPT ![j].cancelled = TRUE], j)
         /\ taskJob[j].cancelled => TaskJobsMarked(taskJob, j)
<1>1. taskJob \in [TaskJobs -> TaskJobSet]
  BY DEF TaskIInv, TaskTypes
<1>2. PICK job \in TaskJobSet : job = [taskJob[j] EXCEPT !.cancelled = TRUE]
  BY <1>1 DEF TaskJobSet
<1>3. /\ job.state = taskJob[j].state /\ job.parent = taskJob[j].parent /\ job.late = taskJob[j].late
      /\ job.passed = taskJob[j].passed /\ job.cancelled = TRUE
  BY <1>1, <1>2 DEF TaskJobSet
<1>4. PICK marked : marked = [taskJob EXCEPT ![j] = job]
  OBVIOUS
<1>5. marked = [taskJob EXCEPT ![j].cancelled = TRUE]
  BY <1>2, <1>4
<1>6. marked \in [TaskJobs -> TaskJobSet] /\ marked[j] = job /\ \A k \in TaskJobs : k # j => marked[k] = taskJob[k]
  BY <1>1, <1>4
<1>7. TaskJobsMarked(marked, j)
  BY <1>3, <1>6 DEF TaskJobsMarked, TaskJobMarked
<1>8. taskJob[j].cancelled => TaskJobsMarked(taskJob, j)
  BY <1>1 DEF TaskJobsMarked, TaskJobMarked
<1>9. QED
  BY <1>5, <1>7, <1>8

LEMMA TaskCancelJobStep ==
  ASSUME TaskIInv, TaskCancelBegins \/ TaskCancelNextChild \/ TaskCancelInKernel
  PROVE  TaskIInv'
<1>1. taskCancels # <<>>
  BY DEF TaskCancelBegins, TaskCancelNextChild, TaskCancelInKernel, TaskCancelling
<1>2. PICK j \in TaskJobs : j = TaskCall1.job
  BY <1>1, TaskInnermost
<1>3. /\ Len(taskCancels) \in Nat \ {0} /\ TaskCall1 = taskCancels[Len(taskCancels)] /\ TaskCall1 \in TaskCancelSet
      /\ taskCancels \in Seq(TaskCancelSet) /\ TaskBelowTarget(j)
      /\ \A k \in TaskJobsOf(taskCancels) : TaskBelowTarget(k)
      /\ TaskCall1.at # "start" => taskJob[j].cancelled
      /\ TaskCall1.at \in {"sqe", "cqe"} => \A k \in TaskChildren(j) : taskJob[k].passed \/ taskJob[k].late
  BY <1>1, <1>2, TaskInnermost
<1>4. taskJob[j].cancelled => taskJob[j].state # "none"
  BY DEF TaskIInv, TaskCharged, TaskNoJob
<1>5. CASE TaskUndefined
  <2>1. taskThrown' \in BOOLEAN /\ (taskThrown' => taskThrown)
    BY <1>5 DEF TaskIInv, TaskTypes, TaskUndefined
  <2>2. QED
    BY <1>5, <2>1, TaskSameStep DEF TaskUndefined
<1>6. CASE TaskCancelBegins /\ ~TaskUndefined
  <2>1. /\ TaskCall1.at = "start" /\ TaskLive(j)
        /\ TaskCancelGoes([taskJob EXCEPT ![j].cancelled = TRUE])
    BY <1>2, <1>6 DEF TaskCancelBegins, TaskCancelling
  <2>2. TaskJobsMarked([taskJob EXCEPT ![j].cancelled = TRUE], TaskCall1.job)
    BY <1>2, <2>1, TaskMarks DEF TaskLive
  <2>3. QED
    BY <1>1, <2>1, <2>2, TaskCancelGoesStep
<1>7. CASE TaskCancelNextChild /\ ~TaskUndefined
  <2>1. TaskCall1.at = "child" /\ TaskCancelGoes(taskJob)
    BY <1>7 DEF TaskCancelNextChild, TaskCancelling
  <2>2. TaskJobsMarked(taskJob, TaskCall1.job)
    BY <1>2, <1>3, <1>4, <2>1, TaskMarks
  <2>3. QED
    BY <1>1, <2>1, <2>2, TaskCancelGoesStep
<1>8. CASE TaskCancelInKernel /\ ~TaskUndefined
  <2>1. /\ TaskCall1.at \in {"sqe", "cqe"}
        /\ UNCHANGED <<taskAwaits, taskRunning, taskThrown, taskCurrent, taskTarget>> /\ TaskSameHomes
    BY <1>8 DEF TaskCancelInKernel, TaskCancelling
  <2>2. taskJob[j].cancelled /\ taskJob[j].state # "none"
    BY <1>3, <1>4, <2>1
  <2>3. CASE TaskCancelPromises(taskJob)
    <3>1. TaskJobsMarked(taskJob, TaskCall1.job)
      BY <1>2, <2>2, TaskMarks
    <3>2. QED
      BY <1>1, <1>2, <1>3, <2>1, <2>3, <3>1, TaskCancelPromisesStep
  <2>4. CASE /\ TaskCall1.at = "sqe" /\ taskCancels' = [taskCancels EXCEPT ![Len(taskCancels)].at = "cqe"]
             /\ UNCHANGED <<taskJob, taskFrames, taskWait>>
    <3> DEFINE n == Len(taskCancels)
               d == [TaskCall1 EXCEPT !.at = "cqe"]
    <3>1. d \in TaskCancelSet /\ d.job = j /\ d.at = "cqe"
      BY <1>2, <1>3 DEF TaskCancelSet
    <3>2. taskCancels' = [taskCancels EXCEPT ![n] = d]
      BY <1>3, <2>4
    <3> HIDE DEF d
    <3>3. /\ taskCancels' \in Seq(TaskCancelSet) /\ Len(taskCancels') = n /\ DOMAIN taskCancels' = DOMAIN taskCancels
          /\ taskCancels'[n] = d /\ \A i \in DOMAIN taskCancels : i # n => taskCancels'[i] = taskCancels[i]
      BY <1>3, <3>1, <3>2
    <3>4. \A i \in DOMAIN taskCancels : taskCancels'[i].job = taskCancels[i].job
      BY <1>2, <1>3, <3>1, <3>3
    <3>5. \A x \in TaskJobsOf(taskCancels') : TaskBelowTarget(x)
      BY <1>3, <3>3, <3>4 DEF TaskJobsOf
    <3>6. \A x \in TaskJobs : TaskJobMarked(taskJob'[x], x, j)
      BY <2>4 DEF TaskJobMarked
    <3>7. \A x \in TaskJobs : taskJob'[x].passed => taskJob'[x].cancelled
      BY <2>2, <2>4, <3>6, TaskPassedMarked
    <3>8. ASSUME NEW i \in DOMAIN taskCancels' PROVE TaskNestedAt(taskCancels, i)'
      <4>1. CASE i # n
        <5>1. i + 1 \in DOMAIN taskCancels
          BY <1>3, <3>3, <4>1
        <5>2. /\ taskCancels'[i].at = "child" /\ taskCancels'[i].entry = taskCancels'[i + 1].job
              /\ taskJob'[taskCancels'[i].job].cancelled
              /\ \A x \in taskCancels'[i].seen : taskJob'[x].passed \/ x = taskCancels'[i].entry
          BY <1>1, <3>3, <3>4, <3>6, <4>1, <5>1, TaskNestedCallers
        <5>3. QED
          BY <3>3, <4>1, <5>2 DEF TaskNestedAt
      <4>2. CASE i = n
        <5>1. \A x \in TaskChildren(j) : taskJob[x].passed \/ taskJob[x].late
          BY <1>3, <2>1
        <5>2. QED
          BY <2>2, <2>4, <3>1, <3>3, <4>2, <5>1 DEF TaskNestedAt, TaskChildren
      <4>3. QED
        BY <4>1, <4>2
    <3>9. TaskCancelsNested'
      BY <3>7, <3>8, TaskNestedAll
    <3>10. TaskHit({})
      BY <2>4 DEF TaskHit, TaskIInv, TaskTypes
    <3>11. {} \in SUBSET TaskCompletions(taskWait, j) /\ ~(taskJob'[j].passed /\ ~taskJob[j].passed)
      BY <2>4
    <3>12. taskJob' \in [TaskJobs -> TaskJobSet]
      BY <2>4 DEF TaskIInv, TaskTypes
    <3>13. QED
      BY <1>3, <2>1, <2>2, <3>3, <3>5, <3>6, <3>9, <3>10, <3>11, <3>12, TaskCancelMovesStep
  <2>5. QED
    BY <1>8, <2>3, <2>4 DEF TaskCancelInKernel
<1>9. QED
  BY <1>5, <1>6, <1>7, <1>8

(* Cancelling a job touches only coroutines that were charged to it or to a job below it, whichever        *)
(* coroutines await one another, wait for a semaphore and are released, spawn jobs and are resumed; and    *)
(* once cancel_job of a job has returned, its children are done with as well and what is charged to it     *)
(* will throw, but for children and operations that began when it was cancelled already.                   *)
THEOREM TaskCancelIsExact == TaskSpec => []TaskCancelExact
<1>1. TaskInit => TaskIInv
  <2> SUFFICES ASSUME TaskInit PROVE TaskIInv
    OBVIOUS
  <2>1. TaskNoWait \in TaskWaits /\ TaskNoWait.kind = "none" /\ TaskNoWait.hit = FALSE
    BY DEF TaskNoWait, TaskWaits
  <2>2. /\ TaskNoJob \in TaskJobSet /\ TaskNoJob.cancelled = FALSE /\ TaskNoJob.state = "none"
        /\ TaskNoJob.passed = FALSE
    BY DEF TaskNoJob, TaskJobSet
  <2>3. /\ \A j \in TaskJobs : /\ taskJob[j] = TaskNoJob /\ taskFrames[j] = <<>> /\ taskWait[j] = TaskNoWait
                               /\ taskHome[j] = j /\ taskHomes[j] = {j}
        /\ taskRunning = TaskNone /\ taskThrown = FALSE /\ taskCurrent = TaskNone
        /\ taskTarget = TaskNone /\ taskCancels = <<>>
    BY DEF TaskInit
  <2>4. TaskTypes
    <3> HIDE DEF TaskNoWait, TaskNoJob
    <3>1. taskJob \in [TaskJobs -> TaskJobSet] /\ taskFrames \in [TaskJobs -> Seq(TaskFrameSet)]
      BY <2>2 DEF TaskInit
    <3>2. taskWait \in [TaskJobs -> TaskWaits] /\ taskAwaits \in [TaskJobs -> Nat]
      BY <2>1 DEF TaskInit
    <3>3. taskHome \in [TaskJobs -> TaskJobs] /\ taskHomes \in [TaskJobs -> SUBSET TaskJobs]
      BY DEF TaskInit
    <3>4. taskCancels \in Seq(TaskCancelSet) /\ taskThrown \in BOOLEAN
      <4>1. taskCancels = <<>>
        BY <2>3
      <4>2. taskCancels \in Seq(TaskCancelSet)
        BY <4>1
      <4>3. taskThrown \in BOOLEAN
        BY <2>3, Zenon
      <4>4. QED
        BY <4>2, <4>3
    <3>5. QED
      BY <2>3, <3>1, <3>2, <3>3, <3>4 DEF TaskTypes
  <2>5. TaskCharged
    BY <2>1, <2>2, <2>3, TaskAssumption DEF TaskCharged, TaskNone
  <2>6. \A j \in TaskJobs : ~TaskTouched(j) /\ ~taskJob[j].cancelled /\ ~taskJob[j].passed
    <3>1. ASSUME NEW j \in TaskJobs PROVE DOMAIN taskFrames[j] = {}
      <4>1. taskFrames[j] = <<>>
        BY <2>3
      <4>2. QED
        BY <4>1
    <3>2. QED
      BY <2>1, <2>2, <2>3, <3>1 DEF TaskTouched
  <2>7. TaskCancelsBelow
    BY <2>3, <2>6 DEF TaskCancelsBelow
  <2>8. TaskCancelsNested
    BY <2>3, <2>6 DEF TaskCancelsNested
  <2>9. TaskCancelReaches
    BY <2>6 DEF TaskCancelReaches
  <2>10. QED
    BY <2>4, <2>5, <2>7, <2>8, <2>9 DEF TaskIInv
<1>2. TaskIInv /\ [TaskNext]_taskVars => TaskIInv'
  <2> SUFFICES ASSUME TaskIInv, [TaskNext]_taskVars PROVE TaskIInv'
    OBVIOUS
  <2>1. CASE TaskCall
    BY <2>1, TaskCallStep
  <2>2. CASE TaskSleep \/ TaskDefer \/ TaskOperation
    <3>1. CASE TaskSleep
      BY <3>1, TaskAwaitStep DEF TaskSleep
    <3>2. CASE TaskDefer
      BY <3>2, TaskAwaitStep DEF TaskDefer
    <3>3. CASE TaskOperation
      <4>1. TaskAwait /\ UNCHANGED taskFrames
        BY <3>3 DEF TaskOperation
      <4>2. CASE TaskSuspend(TaskBegin("uring", FALSE))
        BY <4>1, <4>2, TaskAwaitStep
      <4>3. CASE TaskSuspend(TaskBegin("sqe", TaskCancelled(taskCurrent)))
        BY <4>1, <4>3, TaskAwaitStep
      <4>4. QED
        BY <3>3, <4>2, <4>3, Zenon DEF TaskOperation
    <3>4. QED
      BY <2>2, <3>1, <3>2, <3>3
  <2>3. CASE TaskPark
    BY <2>3, TaskParkStep
  <2>4. CASE TaskReturn
    <3>1. taskRunning # TaskNone /\ TaskFinal(FALSE)
      BY <2>4 DEF TaskReturn, TaskCode
    <3>2. QED
      BY <3>1, TaskFinalStep
  <2>5. CASE TaskUnwind
    <3>1. taskThrown /\ TaskFinal(TRUE) /\ TRUE \in BOOLEAN /\ taskRunning # TaskNone
      BY <2>5 DEF TaskUnwind, TaskIInv, TaskCharged
    <3>2. QED
      BY <3>1, TaskFinalStep
  <2>6. CASE TaskCatch
    <3>1. taskThrown' \in BOOLEAN /\ (taskThrown' => taskThrown)
      BY <2>6 DEF TaskCatch
    <3>2. QED
      BY <2>6, <3>1, TaskSameStep DEF TaskCatch, TaskGoesOn
  <2>7. CASE TaskFinish
    BY <2>7, TaskFinishStep
  <2>8. CASE \E j \in TaskJobs : TaskResume(j) \/ TaskSpawn(j) \/ TaskRelease(j) \/ TaskCancel(j)
    BY <2>8, TaskResumeStep, TaskSpawnStep, TaskReleaseStep, TaskCancelStep
  <2>9. CASE TaskCancelBegins \/ TaskCancelNextChild \/ TaskCancelInKernel
    BY <2>9, TaskCancelJobStep
  <2>10. CASE UNCHANGED taskVars
    <3>1. taskThrown' \in BOOLEAN /\ (taskThrown' => taskThrown)
      BY <2>10 DEF taskVars, TaskIInv, TaskTypes
    <3>2. QED
      BY <2>10, <3>1, TaskSameStep DEF taskVars, TaskSameHomes
  <2>11. QED
    BY <2>1, <2>2, <2>3, <2>4, <2>5, <2>6, <2>7, <2>8, <2>9, <2>10 DEF TaskNext
<1>3. TaskIInv => TaskCancelExact
  BY DEF TaskIInv, TaskCharged, TaskCancelsBelow, TaskCancelExact, TaskCancelContained
<1>4. QED
  BY <1>1, <1>2, <1>3, PTL DEF TaskSpec

-----------------------------------------------------------------------------
(***************************************************************************)
(* Descriptors                                                             *)
(***************************************************************************)

\* FdOwnedOnce, objects and coroutines apart
FdLive(o) == o \notin fdStale /\ fdObj[o].state = "live" /\ fdObj[o].fd # FdNone
FdConnects(t) == fdTask[t].op = "connect"
FdListens(l) == l \notin fdStale /\ fdListener[l] # FdNone
FdHeld(f) == f \in fdOpen /\ \A l \in FdListeners : FdListens(l) => f # fdListener[l]
FdApart ==
    /\ \A o \in FdObjects : FdLive(o) => FdHeld(fdObj[o].fd)
    /\ \A t \in FdTasks : FdConnects(t) => FdHeld(fdTask[t].fd)
    /\ \A o, p \in FdObjects : FdLive(o) /\ FdLive(p) /\ fdObj[o].fd = fdObj[p].fd => o = p
    /\ \A t, u \in FdTasks : FdConnects(t) /\ FdConnects(u) /\ fdTask[t].fd = fdTask[u].fd => t = u
    /\ \A o \in FdObjects, t \in FdTasks : FdLive(o) /\ FdConnects(t) => fdObj[o].fd # fdTask[t].fd
    /\ \A l \in FdListeners : FdListens(l) => fdListener[l] \in fdOpen

\* It is the same, as no coroutine is an object.
LEMMA FdApartIsOwnedOnce == (~fdAstray => FdApart) <=> FdOwnedOnce
<1>1. \A o \in FdObjects : o \notin FdTasks /\ FdOf(o) = fdObj[o].fd
  BY FdAssumption DEF FdObjects, FdOf
<1>2. \A t \in FdTasks : FdOf(t) = fdTask[t].fd
  BY DEF FdOf
<1>3. FdOwners = {o \in FdObjects : FdLive(o)} \cup {t \in FdTasks : FdConnects(t)}
  BY DEF FdOwners, FdLive, FdConnects
<1>7. FdListening = {l \in FdListeners : FdListens(l)}
  BY DEF FdListening, FdListens
<1> DEFINE L == {o \in FdObjects : FdLive(o)}
           C == {t \in FdTasks : FdConnects(t)}
<1>4. (\A x \in FdOwners : FdHeld(FdOf(x)))
        <=> (\A o \in L : FdHeld(fdObj[o].fd)) /\ (\A t \in C : FdHeld(fdTask[t].fd))
  BY <1>1, <1>2, <1>3
<1>5. (\A x, y \in FdOwners : x # y => FdOf(x) # FdOf(y))
        <=> /\ \A o, p \in L : fdObj[o].fd = fdObj[p].fd => o = p
            /\ \A t, u \in C : fdTask[t].fd = fdTask[u].fd => t = u
            /\ \A o \in L, t \in C : fdObj[o].fd # fdTask[t].fd
  <2>1. \A o \in L : o \in FdOwners /\ o \notin FdTasks /\ FdOf(o) = fdObj[o].fd
    BY <1>1, <1>3
  <2>2. \A t \in C : t \in FdOwners /\ t \in FdTasks /\ FdOf(t) = fdTask[t].fd
    BY <1>2, <1>3
  <2>3. \A x \in FdOwners : x \in L \/ x \in C
    BY <1>3
  <2> HIDE DEF L, C
  <2>4. QED
    BY <2>1, <2>2, <2>3
<1>8. \A f : FdHeld(f) <=> f \in fdOpen /\ \A l \in FdListening : f # fdListener[l]
  BY <1>7 DEF FdHeld
<1>9. (\A l \in FdListening : fdListener[l] \in fdOpen)
        <=> \A l \in FdListeners : FdListens(l) => fdListener[l] \in fdOpen
  BY <1>7
<1>10. FdApart <=> /\ \A x \in FdOwners : FdHeld(FdOf(x))
                   /\ \A x, y \in FdOwners : x # y => FdOf(x) # FdOf(y)
                   /\ \A l \in FdListening : fdListener[l] \in fdOpen
  BY <1>4, <1>5, <1>9 DEF FdApart
<1>6. QED
  BY <1>8, <1>10 DEF FdOwnedOnce

\* The kernel gives out a number that nobody has.
LEMMA FdLowestFree ==
  ASSUME FdTypeOK, FdFree # {}
  PROVE  FdLowest \in 1 .. FdLimit /\ FdLowest \notin fdOpen /\ FdLowest # FdNone
<1>1. FdFree \in SUBSET Nat
  BY FdAssumption DEF FdFree
<1>2. \E f \in FdFree : \A g \in FdFree : f <= g
  BY <1>1, LeastNumber
<1>3. FdLowest \in FdFree
  BY <1>2 DEF FdLowest
<1>4. QED
  BY <1>3, FdAssumption DEF FdFree, FdNone

\* The fields of objects, of listeners and of coroutines.
LEMMA FdFields ==
  ASSUME FdTypeOK
  PROVE  /\ \A o \in FdObjects : fdObj[o].state \in {"none", "live", "closing"} /\ fdObj[o].fd \in 0 .. FdLimit
         /\ \A t \in FdTasks : fdTask[t].op \in {"idle", "connect", "accept", "open"} /\ fdTask[t].fd \in 0 .. FdLimit
         /\ \A l \in FdListeners : fdListener[l] \in 0 .. FdLimit /\ l \notin FdObjects
         /\ FdNone \notin fdOpen
BY FdAssumption DEF FdTypeOK, FdNone, FdObjects

\* Operations that give a descriptor to a new object keep every other one with its owner.
LEMMA FdGiveStep ==
  ASSUME FdTypeOK, FdApart,
         \/ \E t \in FdTasks : FdConnectStart(t) \/ FdOpenStart(t)
         \/ \E t \in FdTasks, l \in FdListeners : FdAcceptStart(t, l)
         \/ \E t \in FdTasks, o \in FdObjects : FdConnectEnd(t, o) \/ FdOpened(t, o)
         \/ \E l \in FdListeners : FdListen(l)
         \/ \E l, m \in FdListeners : FdCopy(l, m)
  PROVE  FdTypeOK' /\ FdApart'
<1> USE DEF FdIdle, FdObject, FdNone
<1>1. ASSUME NEW t \in FdTasks, FdConnectStart(t)
      PROVE  FdTypeOK' /\ FdApart'
  <2>1. FdLowest \in 1 .. FdLimit /\ FdLowest \notin fdOpen /\ FdLowest # FdNone
    BY <1>1, FdLowestFree DEF FdConnectStart
  <2>2. FdTypeOK'
    BY <1>1, <2>1, FdAssumption DEF FdTypeOK, FdConnectStart, fdPast
  <2>4. /\ fdOpen' = fdOpen \cup {FdLowest} /\ fdObj' = fdObj /\ fdListener' = fdListener /\ fdStale' = fdStale
        /\ fdTask'[t].fd = FdLowest /\ \A u \in FdTasks : u # t => fdTask'[u] = fdTask[u]
    BY <1>1 DEF FdTypeOK, FdConnectStart, fdPast
  <2>3. FdApart'
    BY <2>1, <2>4, FdFields DEF FdApart, FdLive, FdConnects, FdHeld, FdListens
  <2>5. QED
    BY <2>2, <2>3
<1>2. ASSUME NEW t \in FdTasks, FdOpenStart(t) \/ \E l \in FdListeners : FdAcceptStart(t, l)
      PROVE  FdTypeOK' /\ FdApart'
  <2>1. /\ fdOpen' = fdOpen /\ fdObj' = fdObj /\ fdListener' = fdListener /\ fdStale' = fdStale /\ fdAstray' = fdAstray
        /\ \E f \in 0 .. FdLimit :
             \/ fdTask' = [fdTask EXCEPT ![t] = [op |-> "accept", fd |-> f]]
             \/ fdTask' = [fdTask EXCEPT ![t] = [op |-> "open", fd |-> f]]
    BY <1>2, FdFields, FdAssumption DEF FdAcceptStart, FdOpenStart, fdPast
  <2>2. fdTask' \in [FdTasks -> [op : {"idle", "connect", "accept", "open"}, fd : 0 .. FdLimit]]
    BY <2>1, FdAssumption DEF FdTypeOK
  <2>3. fdTask'[t].op # "connect" /\ \A u \in FdTasks : u # t => fdTask'[u] = fdTask[u]
    BY <2>1 DEF FdTypeOK
  <2>4. FdApart'
    BY <2>1, <2>3 DEF FdApart, FdLive, FdConnects, FdHeld, FdListens
  <2>5. QED
    BY <2>1, <2>2, <2>4 DEF FdTypeOK
<1>3. ASSUME NEW t \in FdTasks, NEW o \in FdObjects, FdConnectEnd(t, o)
      PROVE  FdTypeOK' /\ FdApart'
  <2>1. FdTypeOK'
    BY <1>3, FdFields, FdAssumption DEF FdTypeOK, FdConnectEnd, fdPast
  <2>2. /\ fdOpen' = fdOpen /\ fdListener' = fdListener /\ fdStale' = fdStale
        /\ FdConnects(t) /\ ~FdLive(o)
        /\ fdTask'[t].op = "idle" /\ \A u \in FdTasks : u # t => fdTask'[u] = fdTask[u]
        /\ \A x \in FdObjects : x # o => fdObj'[x] = fdObj[x]
        /\ fdObj'[o] = fdObj[o] \/ fdObj'[o].fd = fdTask[t].fd
    BY <1>3 DEF FdTypeOK, FdConnectEnd, FdConnects, FdLive, fdPast
  <2>3. FdApart'
    BY <2>2 DEF FdApart, FdLive, FdConnects, FdHeld, FdListens
  <2>4. QED
    BY <2>1, <2>3
<1>4. ASSUME NEW t \in FdTasks, NEW o \in FdObjects, FdOpened(t, o)
      PROVE  FdTypeOK' /\ FdApart'
  <2>1. FdFree # {} => FdLowest \in 1 .. FdLimit /\ FdLowest \notin fdOpen /\ FdLowest # FdNone
    BY FdLowestFree
  <2>2. /\ fdTask' = [fdTask EXCEPT ![t] = FdIdle] /\ fdListener' = fdListener /\ fdObj[o].state = "none"
        /\ fdStale' = fdStale /\ fdAstray' = fdAstray
        /\ \/ /\ FdFree # {} /\ fdOpen' = fdOpen \cup {FdLowest}
              /\ fdObj' = [fdObj EXCEPT ![o] = FdObject("live", FdLowest)]
           \/ fdOpen' = fdOpen /\ fdObj' = fdObj
    BY <1>4 DEF FdOpened, fdPast
  <2>3. /\ fdTask' \in [FdTasks -> [op : {"idle", "connect", "accept", "open"}, fd : 0 .. FdLimit]]
        /\ fdTask'[t].op = "idle" /\ \A u \in FdTasks : u # t => fdTask'[u] = fdTask[u]
    BY <2>2, FdAssumption DEF FdTypeOK
  <2>4. CASE fdOpen' = fdOpen /\ fdObj' = fdObj
    <3>1. FdApart'
      BY <2>2, <2>3, <2>4 DEF FdApart, FdLive, FdConnects, FdHeld, FdListens
    <3>2. QED
      BY <2>2, <2>3, <2>4, <3>1 DEF FdTypeOK
  <2>5. CASE /\ FdFree # {} /\ fdOpen' = fdOpen \cup {FdLowest}
             /\ fdObj' = [fdObj EXCEPT ![o] = FdObject("live", FdLowest)]
    <3>1. /\ fdObj' \in [FdObjects -> [state : {"none", "live", "closing"}, fd : 0 .. FdLimit]]
          /\ fdObj'[o].fd = FdLowest /\ \A x \in FdObjects : x # o => fdObj'[x] = fdObj[x]
      BY <2>1, <2>5, FdAssumption DEF FdTypeOK
    <3>2. FdApart'
      BY <2>1, <2>2, <2>3, <2>5, <3>1 DEF FdApart, FdLive, FdConnects, FdHeld, FdListens
    <3>3. QED
      BY <2>1, <2>2, <2>3, <2>5, <3>1, <3>2 DEF FdTypeOK
  <2>6. QED
    BY <2>2, <2>4, <2>5
<1>5. ASSUME NEW l \in FdListeners, FdListen(l)
      PROVE  FdTypeOK' /\ FdApart'
  <2>1. FdLowest \in 1 .. FdLimit /\ FdLowest \notin fdOpen /\ FdLowest # FdNone
    BY <1>5, FdLowestFree DEF FdListen
  <2>2. FdTypeOK'
    BY <1>5, <2>1, FdAssumption DEF FdTypeOK, FdListen
  <2>4. /\ fdOpen' = fdOpen \cup {FdLowest} /\ fdObj' = fdObj /\ fdTask' = fdTask
        /\ \A m \in FdListeners : m # l => fdListener'[m] = fdListener[m]
        /\ \A x : x # l => (x \in fdStale' <=> x \in fdStale)
        /\ fdListener'[l] = FdLowest \/ (fdListener'[l] = fdListener[l] /\ fdStale' = fdStale)
    BY <1>5 DEF FdTypeOK, FdListen
  <2>5. \A o \in FdObjects : (FdLive(o))' <=> FdLive(o)
    BY <2>4, FdFields DEF FdLive
  <2>3. FdApart'
    BY <2>1, <2>4, <2>5, FdFields DEF FdTypeOK, FdApart, FdConnects, FdHeld, FdListens
  <2>6. QED
    BY <2>2, <2>3
<1>6. ASSUME NEW l \in FdListeners, NEW m \in FdListeners, FdCopy(l, m)
      PROVE  FdTypeOK' /\ FdApart'
  <2>1. FdTypeOK'
    BY <1>6, FdFields DEF FdTypeOK, FdCopy
  <2>2. /\ fdOpen' = fdOpen /\ fdObj' = fdObj /\ fdTask' = fdTask
        /\ \A k \in FdListeners : k # m => fdListener'[k] = fdListener[k]
        /\ \A x : x # m => (x \in fdStale' <=> x \in fdStale)
        /\ fdListener'[m] = fdListener[l] /\ (m \in fdStale' <=> l \in fdStale)
    BY <1>6 DEF FdTypeOK, FdCopy
  <2>3. \A o \in FdObjects : (FdLive(o))' <=> FdLive(o)
    BY <2>2, FdFields DEF FdLive
  <2>4. FdApart'
    BY <2>2, <2>3 DEF FdApart, FdConnects, FdHeld, FdListens
  <2>5. QED
    BY <2>1, <2>4
<1>7. QED
  BY <1>1, <1>2, <1>3, <1>4, <1>5, <1>6

(* A move passes a descriptor on, a close or a destructor ends its own     *)
(* only, unless a stale object closes.                                     *)
LEMMA FdPassStep ==
  ASSUME FdTypeOK, FdApart,
         \/ \E o, p \in FdObjects : FdMove(o, p) \/ FdAssign(o, p)
         \/ \E o \in FdObjects : FdClose(o) \/ FdDestroy(o)
         \/ \E o \in FdObjects : FdFileClose(o) \/ FdFileClosed(o) \/ FdFileCloseThrows(o)
         \/ \E l \in FdListeners : FdListenerClose(l)
  PROVE  FdTypeOK' /\ (fdAstray' \/ FdApart')
<1> USE DEF FdObject, FdNone
<1>1. ASSUME NEW o \in FdObjects, NEW p \in FdObjects, FdMove(o, p) \/ FdAssign(o, p)
      PROVE  FdTypeOK' /\ FdApart'
  <2>1. /\ o # p /\ fdObj[o].state = "live"
        /\ fdOpen' = fdOpen /\ fdListener' = fdListener /\ fdTask' = fdTask /\ fdAstray' = fdAstray
        /\ fdStale' = (fdStale \ {o, p}) \cup {x \in {p} : o \in fdStale}
    BY <1>1 DEF FdMove, FdAssign, FdSame
  <2>2. fdObj' \in [FdObjects -> [state : {"none", "live", "closing"}, fd : 0 .. FdLimit]]
    BY <1>1, FdFields, FdAssumption DEF FdTypeOK, FdMove, FdAssign
  <2>3. /\ fdObj'[o].fd = FdNone
        /\ fdObj'[p].state = "live" /\ fdObj'[p].fd = fdObj[o].fd
        /\ \A x \in FdObjects : x # o /\ x # p => fdObj'[x] = fdObj[x]
    BY <1>1, <2>1 DEF FdTypeOK, FdMove, FdAssign
  <2>6. /\ fdStale' \subseteq FdFiles \cup FdListeners
        /\ p \in fdStale' <=> o \in fdStale
        /\ \A x : x # o /\ x # p => (x \in fdStale' <=> x \in fdStale)
    <3>1. o \in FdFiles => p \in FdFiles
      BY <1>1, FdAssumption DEF FdMove, FdAssign, FdSame, FdObjects
    <3>2. o \in fdStale => o \in FdFiles
      BY FdAssumption DEF FdTypeOK, FdObjects
    <3>3. QED
      BY <2>1, <3>1, <3>2 DEF FdTypeOK
  <2>7. \A l \in FdListeners : (FdListens(l))' <=> FdListens(l)
    BY <2>1, <2>6, FdFields DEF FdListens
  <2>4. FdApart'
    BY <2>1, <2>3, <2>6, <2>7 DEF FdApart, FdLive, FdConnects, FdHeld
  <2>5. QED
    BY <2>1, <2>2, <2>4, <2>6 DEF FdTypeOK
<1>2. ASSUME NEW o \in FdObjects, FdClose(o) \/ FdFileClose(o) \/ FdDestroy(o)
      PROVE  FdTypeOK' /\ (fdAstray' \/ FdApart')
  <2>1. /\ fdObj[o].state = "live" /\ fdOpen' = fdOpen \ {fdObj[o].fd}
        /\ fdListener' = fdListener /\ fdTask' = fdTask
        /\ fdStale' \subseteq FdFiles \cup FdListeners
        /\ \A x : x # o => (x \in fdStale' <=> x \in fdStale)
    BY <1>2 DEF FdClose, FdFileClose, FdDestroy, fdPast, FdTypeOK
  <2>2. fdObj' \in [FdObjects -> [state : {"none", "live", "closing"}, fd : 0 .. FdLimit]]
    BY <1>2, FdFields, FdAssumption DEF FdTypeOK, FdClose, FdFileClose, FdDestroy
  <2>3. /\ fdObj'[o].state # "live" \/ fdObj'[o].fd = FdNone
        /\ \A x \in FdObjects : x # o => fdObj'[x] = fdObj[x]
    BY <1>2 DEF FdTypeOK, FdClose, FdFileClose, FdDestroy
  <2>6. fdAstray' \in BOOLEAN /\ (fdAstray' = FdHits(o, fdObj[o].fd) \/ o \in FdSockets)
    BY <1>2 DEF FdClose, FdFileClose, FdDestroy, fdPast, FdTypeOK, FdHits
  <2>7. \A l \in FdListeners : (FdListens(l))' <=> FdListens(l)
    BY <2>1, FdFields DEF FdListens
  <2>8. ASSUME o \notin fdStale \/ fdObj[o].fd \notin fdOpen PROVE FdApart'
    BY <2>1, <2>3, <2>7, <2>8, FdFields DEF FdApart, FdLive, FdConnects, FdHeld
  <2>9. o \in FdSockets => o \notin fdStale
    BY FdAssumption DEF FdTypeOK
  <2>4. fdAstray' \/ FdApart'
    BY <2>6, <2>8, <2>9 DEF FdHits
  <2>5. QED
    BY <2>1, <2>2, <2>4, <2>6 DEF FdTypeOK
<1>3. ASSUME NEW o \in FdObjects, FdFileClosed(o) \/ FdFileCloseThrows(o)
      PROVE  FdTypeOK' /\ FdApart'
  <2>1. /\ fdOpen' = fdOpen /\ fdListener' = fdListener /\ fdTask' = fdTask /\ fdAstray' = fdAstray
        /\ fdStale' \subseteq FdFiles \cup FdListeners
        /\ \A x : x # o => (x \in fdStale' <=> x \in fdStale)
    BY <1>3 DEF FdFileClosed, FdFileCloseThrows, FdTypeOK, fdPast
  <2>2. fdObj' \in [FdObjects -> [state : {"none", "live", "closing"}, fd : 0 .. FdLimit]]
    BY <1>3, FdFields, FdAssumption DEF FdTypeOK, FdFileClosed, FdFileCloseThrows
  <2>3. /\ fdObj'[o].fd = FdNone \/ o \in fdStale'
        /\ \A x \in FdObjects : x # o => fdObj'[x] = fdObj[x]
    BY <1>3 DEF FdTypeOK, FdFileClosed, FdFileCloseThrows
  <2>6. \A l \in FdListeners : (FdListens(l))' <=> FdListens(l)
    BY <2>1, FdFields DEF FdListens
  <2>4. FdApart'
    BY <2>1, <2>3, <2>6 DEF FdApart, FdLive, FdConnects, FdHeld
  <2>5. QED
    BY <2>1, <2>2, <2>4 DEF FdTypeOK
<1>4. ASSUME NEW l \in FdListeners, FdListenerClose(l)
      PROVE  FdTypeOK' /\ (fdAstray' \/ FdApart')
  <2>1. /\ fdOpen' = fdOpen \ {fdListener[l]} /\ fdListener'[l] = FdNone
        /\ fdObj' = fdObj /\ fdTask' = fdTask
        /\ \A m \in FdListeners : m # l => fdListener'[m] = fdListener[m]
        /\ \A m \in FdListeners : m # l =>
             (m \in fdStale' <=> m \in fdStale \/ (fdListener[m] # FdNone /\ fdListener[m] = fdListener[l]))
        /\ \A o \in FdObjects : o \in fdStale' <=> o \in fdStale
    BY <1>4, FdFields DEF FdTypeOK, FdListenerClose
  <2>2. fdAstray' = FdHits(l, fdListener[l]) /\ fdAstray' \in BOOLEAN
    BY <1>4 DEF FdListenerClose, FdHits
  <2>8. /\ fdOpen' \subseteq 1 .. FdLimit /\ fdListener' \in [FdListeners -> 0 .. FdLimit]
        /\ fdStale' \subseteq FdFiles \cup FdListeners
    <3>1. fdOpen' \subseteq 1 .. FdLimit
      BY <2>1 DEF FdTypeOK
    <3>2. fdListener' \in [FdListeners -> 0 .. FdLimit]
      BY <1>4, FdAssumption DEF FdTypeOK, FdListenerClose
    <3>3. fdStale' \subseteq FdFiles \cup FdListeners
      BY <1>4 DEF FdTypeOK, FdListenerClose
    <3>4. QED
      BY <3>1, <3>2, <3>3
  <2>3. FdTypeOK'
    BY <2>1, <2>2, <2>8 DEF FdTypeOK
  <2>4. \A o \in FdObjects : (FdLive(o))' <=> FdLive(o)
    BY <2>1 DEF FdLive
  <2>5. \A m \in FdListeners : (FdListens(m))' <=> FdListens(m) /\ m # l /\ fdListener[m] # fdListener[l]
    BY <2>1 DEF FdListens
  <2>6. ASSUME l \notin fdStale \/ fdListener[l] \notin fdOpen PROVE FdApart'
    <3>1. fdListener[l] = FdNone \/ fdListener[l] \notin fdOpen \/ FdListens(l)
      BY <2>6 DEF FdListens
    <3>2. fdListener[l] \notin fdOpen \/ FdListens(l)
      BY <3>1, FdFields
    <3>3. /\ \A o \in FdObjects : FdLive(o) => fdObj[o].fd # fdListener[l]
          /\ \A t \in FdTasks : FdConnects(t) => fdTask[t].fd # fdListener[l]
      BY <3>2 DEF FdApart, FdHeld
    <3>4. \A f : FdHeld(f) /\ f # fdListener[l] => (FdHeld(f))'
      BY <2>1, <2>5 DEF FdHeld
    <3>5. \A t \in FdTasks : (FdConnects(t))' <=> FdConnects(t)
      BY <2>1 DEF FdConnects
    <3>6. \A m \in FdListeners : (FdListens(m))' => fdListener'[m] \in fdOpen'
      BY <2>1, <2>5 DEF FdApart
    <3>7. QED
      BY <2>1, <2>4, <3>3, <3>4, <3>5, <3>6 DEF FdApart
  <2>7. QED
    BY <2>2, <2>3, <2>6 DEF FdHits
<1>5. QED
  BY <1>1, <1>2, <1>3, <1>4

(* However many sockets, files, listeners, coroutines and descriptors      *)
(* there are: until a file whose close has thrown, or a listener whose     *)
(* copy is closed, closes its number after it was given out again, a       *)
(* descriptor is open as long as it has an owner and has one only, so that *)
(* no other close, destructor or move hits the descriptor of another       *)
(* object (socket.cpp, tcp_listener.cpp, file.cpp).                        *)
THEOREM FdsOwnedOnce == FdSpec => []FdOwnedOnce
<1>1. FdInit => FdIInv
  <2> SUFFICES ASSUME FdInit PROVE FdIInv
    OBVIOUS
  <2>1. /\ fdObj \in [FdObjects -> [state : {"none", "live", "closing"}, fd : 0 .. FdLimit]]
        /\ fdListener \in [FdListeners -> 0 .. FdLimit]
        /\ fdTask \in [FdTasks -> [op : {"idle", "connect", "accept", "open"}, fd : 0 .. FdLimit]]
    BY FdAssumption DEF FdInit, FdIdle, FdObject, FdNone
  <2>2. FdTypeOK
    BY <2>1 DEF FdInit, FdTypeOK
  <2>3. /\ \A o \in FdObjects : ~FdLive(o)
        /\ \A t \in FdTasks : ~FdConnects(t)
        /\ \A l \in FdListeners : ~FdListens(l)
    BY DEF FdInit, FdIdle, FdObject, FdNone, FdLive, FdConnects, FdListens
  <2>4. FdApart
    BY <2>3 DEF FdApart
  <2>5. QED
    BY <2>2, <2>4, FdApartIsOwnedOnce DEF FdIInv
<1>2. FdIInv /\ [FdNext]_fdVars => FdIInv'
  <2>1. ASSUME FdIInv, FdNext PROVE FdIInv'
    <3>1. FdTypeOK /\ FdApart /\ FdStep
      BY <2>1, FdApartIsOwnedOnce DEF FdIInv, FdNext
    <3>2. FdTypeOK' /\ (fdAstray' \/ FdApart')
      BY <3>1, FdGiveStep, FdPassStep DEF FdStep
    <3>3. ((~fdAstray => FdApart) <=> FdOwnedOnce)'
      BY FdApartIsOwnedOnce, PTL
    <3>4. QED
      BY <3>2, <3>3 DEF FdIInv
  <2>2. ASSUME FdIInv, UNCHANGED fdVars PROVE FdIInv'
    BY <2>2 DEF FdIInv, FdTypeOK, FdOwnedOnce, FdOwners, FdListening, FdOf, fdVars
  <2>3. QED
    BY <2>1, <2>2
<1>3. FdIInv => FdOwnedOnce
  BY DEF FdIInv
<1>4. QED
  BY <1>1, <1>2, <1>3, PTL DEF FdSpec
=============================================================================
