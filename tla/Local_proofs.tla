---------------------------- MODULE Local_proofs ----------------------------
(***************************************************************************)
(* Proofs about the semaphore, the subprocess, the cache, the ring and     *)
(* the memory buffer.                                                      *)
(***************************************************************************)
EXTENDS Ring, MemBuf, AsyncSemaphore, Subprocess, Cache, IndexLemmas, FiniteSetTheorems, SequenceTheorems, TLAPS

-----------------------------------------------------------------------------
(***************************************************************************)
(* Queues whose elements are all different                                 *)
(***************************************************************************)

\* A new element at the end of a queue.
LEMMA QueueAppend ==
  ASSUME NEW S, NEW q \in Seq(S), NEW e \in S
  PROVE  /\ Append(q, e) \in Seq(S) /\ Append(q, e) # <<>>
         /\ Range(Append(q, e)) = Range(q) \cup {e}
         /\ IsInjective(q) /\ e \notin Range(q) => IsInjective(Append(q, e))
<1>1. /\ Append(q, e) \in Seq(S) /\ Len(q) \in Nat
      /\ DOMAIN q = 1 .. Len(q) /\ DOMAIN Append(q, e) = 1 .. Len(q) + 1
      /\ \A i \in 1 .. Len(q) : Append(q, e)[i] = q[i]
      /\ Append(q, e)[Len(q) + 1] = e
  OBVIOUS
<1>2. \A i \in 1 .. Len(q) + 1 : i \in 1 .. Len(q) \/ i = Len(q) + 1
  BY <1>1
<1>3. Range(Append(q, e)) = Range(q) \cup {e}
  BY <1>1, <1>2 DEF Range
<1>4. ASSUME IsInjective(q), e \notin Range(q)
      PROVE  IsInjective(Append(q, e))
  BY <1>1, <1>2, <1>4 DEF Range, IsInjective
<1>5. QED
  BY <1>1, <1>3, <1>4

\* The first element of a queue is taken out.
LEMMA QueueTail ==
  ASSUME NEW S, NEW q \in Seq(S), q # <<>>
  PROVE  /\ Head(q) \in Range(q) /\ Head(q) \in S /\ Tail(q) \in Seq(S)
         /\ IsInjective(q) => /\ Range(Tail(q)) = Range(q) \ {Head(q)}
                              /\ IsInjective(Tail(q))
<1>1. /\ Len(q) \in Nat /\ Len(q) >= 1
      /\ DOMAIN q = 1 .. Len(q) /\ DOMAIN Tail(q) = 1 .. Len(q) - 1
      /\ \A i \in 1 .. Len(q) - 1 : Tail(q)[i] = q[i + 1]
      /\ Head(q) = q[1] /\ Head(q) \in S /\ Tail(q) \in Seq(S)
  OBVIOUS
<1>2. Head(q) \in Range(q)
  BY <1>1 DEF Range
<1>3. \A i \in 1 .. Len(q) : i = 1 \/ (i - 1 \in 1 .. Len(q) - 1 /\ (i - 1) + 1 = i)
  BY <1>1
<1>4. \A i \in 1 .. Len(q) - 1 : i + 1 \in 1 .. Len(q) /\ i + 1 # 1
  BY <1>1
<1>5. ASSUME IsInjective(q)
      PROVE  Range(Tail(q)) = Range(q) \ {Head(q)}
  <2>1. ASSUME NEW i \in 1 .. Len(q) - 1
        PROVE  Tail(q)[i] \in Range(q) \ {Head(q)}
    BY <1>1, <1>4, <1>5 DEF Range, IsInjective
  <2>2. ASSUME NEW i \in 1 .. Len(q), q[i] # Head(q)
        PROVE  q[i] \in Range(Tail(q))
    <3>1. i - 1 \in 1 .. Len(q) - 1 /\ Tail(q)[i - 1] = q[i]
      BY <1>1, <1>3, <2>2
    <3>2. QED
      BY <1>1, <3>1 DEF Range
  <2>3. Range(Tail(q)) = {Tail(q)[i] : i \in 1 .. Len(q) - 1} /\ Range(q) = {q[i] : i \in 1 .. Len(q)}
    BY <1>1 DEF Range
  <2>4. QED
    BY <2>1, <2>2, <2>3, Zenon
<1>6. ASSUME IsInjective(q)
      PROVE  IsInjective(Tail(q))
  <2>1. \A i, j \in 1 .. Len(q) - 1 : i + 1 = j + 1 => i = j
    BY <1>1
  <2>2. QED
    BY <1>1, <1>4, <1>6, <2>1 DEF IsInjective
<1>7. QED
  BY <1>1, <1>2, <1>5, <1>6

\* Nothing is in an empty queue.
LEMMA QueueEmpty == Range(<<>>) = {} /\ IsInjective(<<>>)
BY DEF Range, IsInjective

-----------------------------------------------------------------------------
(***************************************************************************)
(* The semaphore                                                           *)
(***************************************************************************)

\* release wakes the first of those that wait, who then is in the ready queue.
LEMMA SemReleaseQueues ==
  ASSUME SemIInv, SemReleaseEffect
  PROVE  /\ semPermits' \in Int
         /\ semWaiting' \in Seq(SemTasks) /\ semReady' \in Seq(SemTasks)
         /\ Range(semWaiting') \cup Range(semReady') = Range(semWaiting) \cup Range(semReady)
         /\ Range(semWaiting') \cap Range(semReady') = {}
         /\ IsInjective(semWaiting') /\ IsInjective(semReady')
         /\ semWaiting' # <<>> => semReady' # <<>>
<1> USE DEF SemIInv, SemTypeOK
<1>1. CASE semWaiting # <<>>
  <2>1. semReady' = Append(semReady, Head(semWaiting)) /\ semWaiting' = Tail(semWaiting)
    BY <1>1 DEF SemReleaseEffect
  <2>2. /\ Head(semWaiting) \in Range(semWaiting) /\ Head(semWaiting) \in SemTasks
        /\ Tail(semWaiting) \in Seq(SemTasks)
        /\ Range(Tail(semWaiting)) = Range(semWaiting) \ {Head(semWaiting)}
        /\ IsInjective(Tail(semWaiting))
    BY <1>1, QueueTail
  <2>3. Head(semWaiting) \notin Range(semReady)
    BY <2>2 DEF SemNoLostWakeup
  <2>4. /\ Append(semReady, Head(semWaiting)) \in Seq(SemTasks)
        /\ Append(semReady, Head(semWaiting)) # <<>>
        /\ Range(Append(semReady, Head(semWaiting))) = Range(semReady) \cup {Head(semWaiting)}
        /\ IsInjective(Append(semReady, Head(semWaiting)))
    BY <2>2, <2>3, QueueAppend
  <2>5. semPermits' \in Int
    BY DEF SemReleaseEffect
  <2>6. QED
    BY <2>1, <2>2, <2>3, <2>4, <2>5, Zenon DEF SemNoLostWakeup
<1>2. CASE semWaiting = <<>>
  BY <1>2 DEF SemReleaseEffect, SemNoLostWakeup
<1>3. QED
  BY <1>1, <1>2

\* Every step of the semaphore keeps its inductive invariant.
LEMMA SemStep ==
  ASSUME SemIInv, [SemNext]_semVars
  PROVE  SemIInv'
<1> USE DEF SemTypeOK
<1>1. ASSUME NEW initial \in SemInitial, SemConstruct(initial)
      PROVE  SemIInv'
  <2>1. semWaiting = <<>>
    <3>1. SUFFICES ASSUME semWaiting # <<>> PROVE FALSE
      OBVIOUS
    <3>2. Head(semWaiting) \in Range(semWaiting) /\ Head(semWaiting) \in SemTasks
      BY <3>1, QueueTail DEF SemIInv
    <3>3. QED
      BY <1>1, <3>2 DEF SemIInv, SemNoLostWakeup, SemConstruct
  <2>2. QED
    BY <1>1, <2>1, SemAssumption DEF SemIInv, SemNoLostWakeup, SemConstruct
<1>2. ASSUME NEW t \in SemTasks, SemAwait(t)
      PROVE  SemIInv'
  <2>1. CASE semPermits > 0
    BY <1>2, <2>1 DEF SemIInv, SemNoLostWakeup, SemAwait
  <2>2. CASE ~(semPermits > 0)
    <3>1. t \notin Range(semWaiting) \cup Range(semReady)
      BY <1>2 DEF SemIInv, SemNoLostWakeup, SemAwait
    <3>2. /\ Append(semWaiting, t) \in Seq(SemTasks)
          /\ Range(Append(semWaiting, t)) = Range(semWaiting) \cup {t}
          /\ IsInjective(Append(semWaiting, t))
      BY <3>1, QueueAppend DEF SemIInv
    <3>3. /\ semWaiting' = Append(semWaiting, t) /\ semPermits' = semPermits
          /\ semReady' = semReady /\ semPc' = [semPc EXCEPT ![t] = "waiting"]
      BY <1>2, <2>2 DEF SemAwait
    <3>4. QED
      BY <2>2, <3>1, <3>2, <3>3 DEF SemIInv, SemNoLostWakeup
  <2>3. QED
    BY <2>1, <2>2
<1>3. CASE SemResume
  <2>1. /\ Head(semReady) \in Range(semReady) /\ Head(semReady) \in SemTasks
        /\ Tail(semReady) \in Seq(SemTasks)
        /\ Range(Tail(semReady)) = Range(semReady) \ {Head(semReady)}
        /\ IsInjective(Tail(semReady))
    BY <1>3, QueueTail DEF SemIInv, SemResume
  <2>2. semPc'[Head(semReady)] = "inside"
    BY <1>3, <2>1 DEF SemIInv, SemResume
  <2>3. QED
    BY <1>3, <2>1, <2>2 DEF SemIInv, SemNoLostWakeup, SemResume
<1>4. ASSUME NEW t \in SemTasks, SemLeave(t)
      PROVE  SemIInv'
  <2>1. SemReleaseEffect /\ semPc' = [semPc EXCEPT ![t] = "done"] /\ semPc[t] = "inside"
    BY <1>4 DEF SemLeave
  <2>2. /\ semPc' \in [SemTasks -> {"outside", "waiting", "inside", "done"}]
        /\ \A u \in SemTasks : semPc'[u] = "waiting" <=> semPc[u] = "waiting"
    BY <2>1 DEF SemIInv
  <2>3. QED
    BY <2>1, <2>2, SemReleaseQueues, Zenon DEF SemIInv, SemNoLostWakeup
<1>5. CASE SemSignal
  <2>1. SemReleaseEffect /\ semPc' = semPc
    BY <1>5 DEF SemSignal
  <2>2. QED
    BY <2>1, SemReleaseQueues, Zenon DEF SemIInv, SemNoLostWakeup
<1>6. CASE UNCHANGED semVars
  BY <1>6 DEF semVars, SemIInv, SemNoLostWakeup
<1>7. QED
  BY <1>1, <1>2, <1>3, <1>4, <1>5, <1>6 DEF SemNext

(* No wake-up of the semaphore is lost, for every number of coroutines and *)
(* permits: of those that wait after a release there is one that was woken *)
(* or is inside, and each waits in one place (release, await_suspend).     *)
THEOREM SemWakesWaiters == SemSpec => []SemNoLostWakeup
<1>1. SemInit => SemIInv
  BY QueueEmpty DEF SemInit, SemIInv, SemTypeOK, SemNoLostWakeup
<1>2. SemIInv /\ [SemNext]_semVars => SemIInv'
  BY SemStep
<1>3. SemIInv => SemNoLostWakeup
  BY DEF SemIInv
<1>4. QED
  BY <1>1, <1>2, <1>3, PTL DEF SemSpec

-----------------------------------------------------------------------------
(***************************************************************************)
(* The subprocess                                                          *)
(***************************************************************************)

\* How often a child will still do something, once it has done its first step.
LEMMA ProcCountTail ==
  ASSUME NEW script \in Seq(ProcSteps), script # <<>>, NEW step
  PROVE  /\ ProcCount(script, step) \in Nat /\ ProcCount(Tail(script), step) \in Nat
         /\ ProcCount(script, step) = ProcCount(Tail(script), step) + IF Head(script) = step THEN 1 ELSE 0
<1> DEFINE A == {i \in DOMAIN script : script[i] = step}
           B == {i \in DOMAIN Tail(script) : Tail(script)[i] = step}
           C == A \ {1}
           f == [i \in B |-> i + 1]
<1>1. /\ Len(script) \in Nat /\ Len(script) >= 1
      /\ DOMAIN script = 1 .. Len(script) /\ DOMAIN Tail(script) = 1 .. Len(script) - 1
      /\ \A i \in 1 .. Len(script) - 1 : Tail(script)[i] = script[i + 1]
      /\ Head(script) = script[1]
  OBVIOUS
<1>2. IsFiniteSet(A) /\ IsFiniteSet(B) /\ IsFiniteSet(C)
  <2>1. IsFiniteSet(1 .. Len(script)) /\ IsFiniteSet(1 .. Len(script) - 1)
    BY <1>1, FS_Interval
  <2>2. A \in SUBSET (1 .. Len(script)) /\ B \in SUBSET (1 .. Len(script) - 1)
    BY <1>1
  <2>3. C \in SUBSET (1 .. Len(script))
    BY <2>2
  <2>4. QED
    BY <2>1, <2>2, <2>3, FS_Subset
<1>3. f \in Bijection(B, C)
  <2>1. \A i \in B : i + 1 \in C
    BY <1>1
  <2>2. f \in [B -> C]
    BY <2>1
  <2>3. \A i, j \in B : f[i] = f[j] => i = j
    BY <1>1
  <2>4. \A c \in C : \E b \in B : f[b] = c
    <3> TAKE c \in C
    <3>1. c - 1 \in B /\ f[c - 1] = c
      BY <1>1
    <3>2. QED
      BY <3>1
  <2>5. QED
    BY <2>2, <2>3, <2>4 DEF Bijection, Injection, Surjection, IsInjective
<1>4. Cardinality(C) = Cardinality(B)
  BY <1>2, <1>3, FS_Bijection DEF ExistsBijection
<1>5. Cardinality(A) = Cardinality(C) + IF Head(script) = step THEN 1 ELSE 0
  <2>1. CASE Head(script) = step
    <3>1. 1 \in A
      BY <1>1, <2>1
    <3>2. Cardinality(C) = Cardinality(A) - 1
      BY <1>2, <3>1, FS_RemoveElement
    <3>3. Cardinality(A) \in Nat
      BY <1>2, FS_CardinalityType
    <3>4. QED
      BY <2>1, <3>2, <3>3
  <2>2. CASE Head(script) # step
    <3>1. C = A
      BY <1>1, <2>2
    <3>2. Cardinality(A) \in Nat
      BY <1>2, FS_CardinalityType
    <3> HIDE DEF A, C
    <3>3. QED
      BY <2>2, <3>1, <3>2
  <2>3. QED
    BY <2>1, <2>2
<1>6. Cardinality(A) \in Nat /\ Cardinality(B) \in Nat
  BY <1>2, FS_CardinalityType
<1>7. ProcCount(script, step) = Cardinality(A) /\ ProcCount(Tail(script), step) = Cardinality(B)
  BY DEF ProcCount
<1>8. QED
  BY <1>4, <1>5, <1>6, <1>7

\* How often a child does something is a number, and none when it does nothing.
LEMMA ProcCountType ==
  ASSUME NEW script \in Seq(ProcSteps), NEW step
  PROVE  /\ ProcCount(script, step) \in Nat
         /\ script = <<>> => ProcCount(script, step) = 0
<1>1. CASE script = <<>>
  <2>1. {i \in DOMAIN script : script[i] = step} = {}
    BY <1>1
  <2>2. QED
    BY <1>1, <2>1, FS_EmptySet DEF ProcCount
<1>2. CASE script # <<>>
  BY <1>2, ProcCountTail
<1>3. QED
  BY <1>1, <1>2

\* The steps of the parent and of the child keep the types.
LEMMA ProcTypeStep ==
  ASSUME ProcIInv, [ProcNext]_procVars
  PROVE  ProcTypeOK'
<1> USE DEF ProcIInv, ProcTypeOK, procPipes, procChild, procLocals, ProcNoCall
<1>1. ASSUME NEW script \in ProcScripts, ProcFork(script)
      PROVE  ProcTypeOK'
  BY <1>1, ProcAssumption DEF ProcFork
<1>2. CASE ProcChildStep
  <2>1. procScript # <<>> /\ Tail(procScript) \in Seq(ProcSteps)
    BY <1>2 DEF ProcChildStep
  <2>2. ProcWritten("out") + 1 \in Int /\ ProcWritten("err") + 1 \in Int
    BY DEF ProcStream
  <2>3. /\ procOut' = procOut \/ procOut' = Append(procOut, ProcWritten("out") + 1)
        /\ procErr' = procErr \/ procErr' = Append(procErr, ProcWritten("err") + 1)
        /\ procIn' = procIn \/ procIn' = <<>> \/ (procIn # <<>> /\ procIn' = Tail(procIn))
        /\ procChildGot' \in {procChildGot, procChildGot + 0, procChildGot + 1}
    BY <1>2, Zenon DEF ProcChildStep
  <2>4. /\ procOut' \in Seq(Int) /\ procErr' \in Seq(Int)
        /\ procIn' \in Seq(Int) /\ procChildGot' \in Int
    <3>1. /\ procIn \in Seq(Int) /\ procOut \in Seq(Int) /\ procErr \in Seq(Int)
          /\ procChildGot \in Int
      OBVIOUS
    <3> HIDE DEF ProcIInv, ProcTypeOK
    <3>2. /\ Append(procOut, ProcWritten("out") + 1) \in Seq(Int)
          /\ Append(procErr, ProcWritten("err") + 1) \in Seq(Int)
      BY <2>2, <3>1, QueueAppend
    <3>3. <<>> \in Seq(Int) /\ (procIn # <<>> => Tail(procIn) \in Seq(Int))
      BY <3>1, QueueTail
    <3>4. procChildGot + 0 \in Int /\ procChildGot + 1 \in Int
      BY <3>1
    <3>5. QED
      BY <2>3, <3>1, <3>2, <3>3, <3>4, Zenon
  <2>5. QED
    BY <1>2, <2>1, <2>3, <2>4 DEF ProcChildStep
<1>3. CASE ProcChildEnds
  BY <1>3 DEF ProcChildEnds
<1>4. ASSUME NEW input \in ProcInputs, NEW limit \in BOOLEAN, ProcCommunicate(input, limit)
      PROVE  ProcTypeOK'
  BY <1>4, ProcAssumption DEF ProcCommunicate
<1>5. CASE ProcWriteIn
  <2>1. CASE procSent < procUse.input /\ procState # "runs"
    BY <1>5, <2>1 DEF ProcWriteIn
  <2>2. CASE ~(procSent < procUse.input /\ procState # "runs")
    <3>1. PICK n \in 0 .. procUse.input - procSent :
            /\ procIn' = procIn \o [i \in 1 .. n |-> procSent + i]
            /\ procSent' = procSent + n
            /\ procInOpen' = (procSent + n < procUse.input)
      BY <1>5, <2>2 DEF ProcWriteIn, ProcLlWrite
    <3>2. [i \in 1 .. n |-> procSent + i] \in Seq(Int)
      OBVIOUS
    <3>3. QED
      BY <1>5, <2>2, <3>1, <3>2 DEF ProcWriteIn
  <2>3. QED
    BY <2>1, <2>2
<1>6. CASE ProcReadOut
  BY <1>6 DEF ProcReadOut, ProcReadPipe, ProcLoop
<1>7. CASE ProcReadErr
  BY <1>7 DEF ProcReadErr, ProcReadPipe, ProcLoop
<1>8. CASE ProcWaitpid
  BY <1>8 DEF ProcWaitpid, ProcReap
<1>9. ASSUME NEW limit \in BOOLEAN, ProcWait(limit)
      PROVE  ProcTypeOK'
  BY <1>9 DEF ProcWait
<1>10. CASE ProcPoll
  <2>1. procUse' \in [call : {"none", "communicate", "wait_done", "poll", "wait"}, input : Int, limit : BOOLEAN]
    <3>1. procUse' = [call |-> "poll", input |-> -1, limit |-> FALSE]
      BY <1>10 DEF ProcPoll
    <3>2. -1 \in Int
      OBVIOUS
    <3>3. QED
      BY <3>1, <3>2, Zenon
  <2>2. procState' \in {"none", "runs", "closed", "zombie", "reaped"}
    BY <1>10 DEF ProcPoll, ProcReap
  <2>3. procExit' \in {"unset", "real", "any"} /\ procScript' = procScript /\ procAll' = procAll
        /\ procChildGot' = procChildGot
    BY <1>10 DEF ProcPoll, ProcReap
  <2>4. QED
    BY <1>10, <2>1, <2>2, <2>3 DEF ProcPoll
<1>11. CASE ProcWaitDone
  BY <1>11 DEF ProcWaitDone
<1>12. CASE ProcNullWait
  BY <1>12 DEF ProcNullWait, ProcReap
<1>13. CASE ProcToNull
  BY <1>13 DEF ProcToNull
<1>14. CASE UNCHANGED procVars
  BY <1>14 DEF procVars
<1>15. QED
  BY <1>1, <1>2, <1>3, <1>4, <1>5, <1>6, <1>7, <1>8, <1>9, <1>10, <1>11, <1>12, <1>13, <1>14
  DEF ProcNext, ProcParent, ProcCalls

\* The steps keep the places, the input and the ends of the pipes in agreement.
LEMMA ProcControlStep ==
  ASSUME ProcIInv, [ProcNext]_procVars
  PROVE  ProcControl' /\ ProcInputSent' /\ ProcEndsMet'
<1> USE DEF ProcIInv, ProcTypeOK, ProcControl, ProcInputSent, ProcEndsMet,
            procPipes, procChild, procLocals, ProcNoCall, ProcPipeOf
<1>1. ASSUME NEW script \in ProcScripts, ProcFork(script)
      PROVE  ProcControl' /\ ProcInputSent' /\ ProcEndsMet'
  BY <1>1 DEF ProcFork
<1>2. CASE ProcChildStep
  BY <1>2 DEF ProcChildStep
<1>3. CASE ProcChildEnds
  BY <1>3 DEF ProcChildEnds
<1>4. ASSUME NEW input \in ProcInputs, NEW limit \in BOOLEAN, ProcCommunicate(input, limit)
      PROVE  ProcControl' /\ ProcInputSent' /\ ProcEndsMet'
  <2>1. procUse.call = "none" /\ procPc = "idle" /\ input \in Int
    BY <1>4, ProcAssumption DEF ProcCommunicate
  <2>2. procUse'.call = "communicate" /\ procUse'.input = input /\ procSent' = 0 /\ procDone' = {}
    BY <1>4, <2>1 DEF ProcCommunicate
  <2>3. procInOpen' = (input >= 0) /\ procPc' = IF input >= 0 THEN "in" ELSE "out"
    BY <1>4 DEF ProcCommunicate
  <2>4. procState' = procState /\ procScript' = procScript
    BY <1>4 DEF ProcCommunicate
  <2>5. procInOpen' <=> input >= 0
    BY <2>3, Zenon
  <2>6. ProcControl' /\ ProcEndsMet'
    BY <1>4, <2>1, <2>2, <2>4 DEF ProcCommunicate
  <2>7. QED
    BY <2>1, <2>2, <2>3, <2>5, <2>6
<1>5. CASE ProcWriteIn
  <2>1. CASE procSent < procUse.input /\ procState # "runs"
    BY <1>5, <2>1 DEF ProcWriteIn
  <2>2. CASE ~(procSent < procUse.input /\ procState # "runs")
    <3>1. PICK n \in 0 .. procUse.input - procSent :
            /\ procSent' = procSent + n
            /\ procInOpen' = (procSent + n < procUse.input)
      BY <1>5, <2>2 DEF ProcWriteIn
    <3>2. /\ procPc = "in" /\ procPc' = "out" /\ procUse.call = "communicate" /\ procUse' = procUse
          /\ procState' = procState /\ procScript' = procScript /\ procDone' = procDone
          /\ procOut' = procOut /\ procErr' = procErr
      BY <1>5, <2>2 DEF ProcWriteIn
    <3>3. ProcControl' /\ ProcEndsMet'
      BY <3>2
    <3>4. procSent \in Int /\ procUse.input \in Int
      OBVIOUS
    <3>5. ProcInputSent'
      <4>1. procInOpen' <=> procSent + n < procUse.input
        BY <3>1, Zenon
      <4>2. procSent' = procSent + n /\ n \in Int /\ n <= procUse.input - procSent
        BY <3>1, <3>4
      <4> HIDE DEF ProcIInv, ProcInputSent
      <4>3. /\ procSent + n < procUse.input => procSent' <= procUse.input
            /\ ~(procSent + n < procUse.input) => procSent' = procUse.input
        BY <3>4, <4>2
      <4>4. QED
        BY <3>2, <4>1, <4>3, Zenon DEF ProcInputSent
    <3>6. QED
      BY <3>3, <3>5
  <2>3. QED
    BY <2>1, <2>2
<1>6. CASE ProcReadOut
  BY <1>6 DEF ProcReadOut, ProcReadPipe, ProcLoop
<1>7. CASE ProcReadErr
  BY <1>7 DEF ProcReadErr, ProcReadPipe, ProcLoop
<1>8. CASE ProcWaitpid
  BY <1>8 DEF ProcWaitpid, ProcReap
<1>9. ASSUME NEW limit \in BOOLEAN, ProcWait(limit)
      PROVE  ProcControl' /\ ProcInputSent' /\ ProcEndsMet'
  BY <1>9 DEF ProcWait
<1>10. CASE ProcPoll
  BY <1>10 DEF ProcPoll, ProcReap
<1>11. CASE ProcWaitDone
  BY <1>11 DEF ProcWaitDone
<1>12. CASE ProcNullWait
  BY <1>12 DEF ProcNullWait, ProcReap
<1>13. CASE ProcToNull
  BY <1>13 DEF ProcToNull
<1>14. CASE UNCHANGED procVars
  BY <1>14 DEF procVars
<1>15. QED
  BY <1>1, <1>2, <1>3, <1>4, <1>5, <1>6, <1>7, <1>8, <1>9, <1>10, <1>11, <1>12, <1>13, <1>14
  DEF ProcNext, ProcParent, ProcCalls

\* An element behind two sequences is an element behind the second.
LEMMA ConcatAppend ==
  ASSUME NEW S, NEW s \in Seq(S), NEW t \in Seq(S), NEW e \in S
  PROVE  s \o Append(t, e) = Append(s \o t, e)
<1>1. <<e>> \in Seq(S) /\ s \o t \in Seq(S)
  OBVIOUS
<1>2. Append(t, e) = t \o <<e>> /\ Append(s \o t, e) = (s \o t) \o <<e>>
  BY <1>1, AppendIsConcat
<1>3. (s \o t) \o <<e>> = s \o (t \o <<e>>)
  BY <1>1, ConcatAssociative
<1>4. QED
  BY <1>2, <1>3

\* The bytes 1 to w with byte w + 1 behind them, wherever they are cut in two.
LEMMA NextByte ==
  ASSUME NEW got \in Seq(Int), NEW pipe \in Seq(Int), NEW w \in Nat
  PROVE  got \o pipe = [i \in 1 .. w |-> i] =>
           got \o Append(pipe, w + 1) = [i \in 1 .. w + 1 |-> i]
<1>1. w + 1 \in Int
  OBVIOUS
<1>2. got \o Append(pipe, w + 1) = Append(got \o pipe, w + 1)
  BY <1>1, ConcatAppend
<1>3. [i \in 1 .. w |-> i] \in Seq(Int) /\ Len([i \in 1 .. w |-> i]) = w
  OBVIOUS
<1>4. Append([i \in 1 .. w |-> i], w + 1) = [i \in 1 .. w + 1 |-> i]
  BY <1>3
<1>5. QED
  BY <1>2, <1>4, Zenon

\* What was read, with what is in the pipe behind it, is not changed by reading all of it.
LEMMA ReadAll ==
  ASSUME NEW got \in Seq(Int), NEW pipe \in Seq(Int)
  PROVE  /\ (got \o pipe) \o <<>> = got \o pipe
         /\ <<>> \o <<>> = [i \in 1 .. 0 |-> i]
OBVIOUS

\* A step of the child writes the next byte to one pipe, or to none.
LEMMA ProcChildStream ==
  ASSUME ProcIInv, ProcChildStep
  PROVE  ProcStream'
<1>1. /\ procScript \in Seq(ProcSteps) /\ procScript # <<>> /\ procGot \in [{"out", "err"} -> Seq(Int)]
      /\ procOut \in Seq(Int) /\ procErr \in Seq(Int) /\ procAll \in Seq(ProcSteps)
  BY DEF ProcIInv, ProcTypeOK, ProcChildStep
<1>2. /\ procScript' = Tail(procScript) /\ procAll' = procAll
      /\ procUse' = procUse /\ procGot' = procGot
  BY DEF ProcChildStep, procLocals
<1> SUFFICES ASSUME NEW name \in {"out", "err"}
             PROVE  /\ ProcWritten(name)' \in Nat
                    /\ procUse.call # "wait_done" =>
                         procGot[name] \o ProcPipeOf(name)' = [i \in 1 .. ProcWritten(name)' |-> i]
  BY <1>2 DEF ProcStream
<1> DEFINE w == ProcWritten(name)
           pipe == ProcPipeOf(name)
<1>3. w \in Nat /\ (procUse.call # "wait_done" => procGot[name] \o pipe = [i \in 1 .. w |-> i])
  BY DEF ProcIInv, ProcStream
<1>4. pipe \in Seq(Int) /\ procGot[name] \in Seq(Int)
  BY <1>1 DEF ProcPipeOf
<1>5. w' = w + IF Head(procScript) = name THEN 1 ELSE 0
  <2>1. ProcCount(procAll, name) \in Nat
    BY <1>1, ProcCountType
  <2>2. /\ ProcCount(procScript, name) \in Nat /\ ProcCount(Tail(procScript), name) \in Nat
        /\ ProcCount(procScript, name) = ProcCount(Tail(procScript), name)
             + IF Head(procScript) = name THEN 1 ELSE 0
    BY <1>1, ProcCountTail
  <2>3. w = ProcCount(procAll, name) - ProcCount(procScript, name)
    BY DEF ProcWritten
  <2>4. w' = ProcCount(procAll, name) - ProcCount(Tail(procScript), name)
    BY <1>2 DEF ProcWritten
  <2> HIDE DEF w
  <2>5. QED
    BY <2>1, <2>2, <2>3, <2>4
<1>6. pipe' = IF Head(procScript) = name THEN Append(pipe, w + 1) ELSE pipe
  <2>1. CASE name = "out"
    BY <2>1, Zenon DEF ProcChildStep, ProcPipeOf
  <2>2. CASE name = "err"
    BY <2>2, Zenon DEF ProcChildStep, ProcPipeOf
  <2>3. QED
    BY <2>1, <2>2
<1> HIDE DEF w, pipe
<1>7. CASE Head(procScript) = name
  <2>1. w' = w + 1 /\ pipe' = Append(pipe, w + 1) /\ w + 1 \in Nat
    BY <1>3, <1>5, <1>6, <1>7
  <2>2. ASSUME procUse.call # "wait_done"
        PROVE  procGot[name] \o Append(pipe, w + 1) = [i \in 1 .. w + 1 |-> i]
    BY <1>3, <1>4, <2>2, NextByte
  <2>3. QED
    BY <2>1, <2>2 DEF w, pipe
<1>8. CASE Head(procScript) # name
  <2>1. w' = w /\ pipe' = pipe
    BY <1>3, <1>5, <1>6, <1>8
  <2>2. QED
    BY <1>3, <2>1 DEF w, pipe
<1>9. QED
  BY <1>7, <1>8

\* communicate takes what is in one pipe and leaves the other alone.
LEMMA ProcReadStream ==
  ASSUME ProcIInv, ProcReadOut \/ ProcReadErr
  PROVE  ProcStream'
<1>1. procGot \in [{"out", "err"} -> Seq(Int)] /\ procOut \in Seq(Int) /\ procErr \in Seq(Int)
  BY DEF ProcIInv, ProcTypeOK
<1>2. procScript' = procScript /\ procAll' = procAll /\ procUse' = procUse
  BY DEF ProcReadOut, ProcReadErr, ProcReadPipe, procChild
<1> SUFFICES ASSUME NEW name \in {"out", "err"}
             PROVE  procGot'[name] \o ProcPipeOf(name)' = procGot[name] \o ProcPipeOf(name)
  BY <1>2 DEF ProcIInv, ProcStream, ProcWritten
<1>3. procGot[name] \in Seq(Int) /\ ProcPipeOf(name) \in Seq(Int)
  BY <1>1 DEF ProcPipeOf
<1>4. \/ procGot'[name] = procGot[name] \o ProcPipeOf(name) /\ ProcPipeOf(name)' = <<>>
      \/ procGot'[name] = procGot[name] /\ ProcPipeOf(name)' = ProcPipeOf(name)
  <2>1. CASE ProcReadOut
    <3>1. /\ procGot' = [procGot EXCEPT !["out"] = @ \o procOut]
          /\ procOut' = <<>> /\ procErr' = procErr
      BY <2>1 DEF ProcReadOut, ProcReadPipe
    <3>2. QED
      BY <1>1, <3>1 DEF ProcPipeOf
  <2>2. CASE ProcReadErr
    <3>1. /\ procGot' = [procGot EXCEPT !["err"] = @ \o procErr]
          /\ procErr' = <<>> /\ procOut' = procOut
      BY <2>2 DEF ProcReadErr, ProcReadPipe
    <3>2. QED
      BY <1>1, <3>1 DEF ProcPipeOf
  <2>3. QED
    BY <2>1, <2>2
<1>5. QED
  BY <1>3, <1>4, ReadAll

\* No step loses, repeats or reorders a byte of the child.
LEMMA ProcStreamStep ==
  ASSUME ProcIInv, [ProcNext]_procVars
  PROVE  ProcStream'
<1>1. ASSUME /\ procScript' = procScript /\ procAll' = procAll
             /\ procUse'.call = "wait_done"
                \/ /\ procUse.call # "wait_done"
                   /\ procOut' = procOut /\ procErr' = procErr /\ procGot' = procGot
      PROVE  ProcStream'
  BY <1>1, Zenon DEF ProcIInv, ProcStream, ProcWritten, ProcPipeOf
<1>2. ASSUME NEW script \in ProcScripts, ProcFork(script)
      PROVE  ProcStream'
  <2>1. /\ procScript' = script /\ procAll' = script /\ procOut' = <<>> /\ procErr' = <<>>
        /\ procGot' = ProcNothing
    BY <1>2 DEF ProcFork, ProcIInv, ProcControl, procPipes, procLocals
  <2>2. \A name \in {"out", "err"} : ProcCount(script, name) \in Nat
    BY ProcCountType, ProcAssumption
  <2>3. \A name \in {"out", "err"} : ProcWritten(name)' = 0
    BY <2>1, <2>2 DEF ProcWritten
  <2>4. \A name \in {"out", "err"} : procGot'[name] = <<>> /\ ProcPipeOf(name)' = <<>>
    BY <2>1 DEF ProcPipeOf, ProcNothing
  <2>5. 0 \in Nat /\ <<>> \o <<>> = [i \in 1 .. 0 |-> i]
    OBVIOUS
  <2>6. QED
    BY <2>3, <2>4, <2>5, Zenon DEF ProcStream
<1>3. CASE ProcChildStep
  BY <1>3, ProcChildStream
<1>4. CASE ProcReadOut \/ ProcReadErr
  BY <1>4, ProcReadStream
<1> USE DEF procPipes, procChild, procLocals, ProcNoCall
<1>5. CASE ProcChildEnds
  BY <1>5, <1>1 DEF ProcChildEnds
<1>6. ASSUME NEW input \in ProcInputs, NEW limit \in BOOLEAN, ProcCommunicate(input, limit)
      PROVE  ProcStream'
  BY <1>6, <1>1 DEF ProcCommunicate
<1>7. CASE ProcWriteIn
  BY <1>7, <1>1 DEF ProcWriteIn, ProcIInv, ProcControl
<1>8. CASE ProcWaitpid
  BY <1>8, <1>1 DEF ProcWaitpid, ProcReap, ProcIInv, ProcControl
<1>9. ASSUME NEW limit \in BOOLEAN, ProcWait(limit)
      PROVE  ProcStream'
  BY <1>9, <1>1 DEF ProcWait
<1>10. CASE ProcPoll
  BY <1>10, <1>1 DEF ProcPoll, ProcReap
<1>11. CASE ProcWaitDone
  BY <1>11, <1>1 DEF ProcWaitDone
<1>12. CASE ProcNullWait
  BY <1>12, <1>1 DEF ProcNullWait, ProcReap, ProcIInv, ProcControl
<1>13. CASE ProcToNull
  BY <1>13, <1>1 DEF ProcToNull, ProcIInv, ProcControl
<1>14. CASE UNCHANGED procVars
  BY <1>14, <1>1 DEF procVars
<1>15. QED
  BY <1>2, <1>3, <1>4, <1>5, <1>6, <1>7, <1>8, <1>9, <1>10, <1>11, <1>12, <1>13, <1>14
  DEF ProcNext, ProcParent, ProcCalls

\* The inductive invariant of the subprocess.
LEMMA ProcInvariance == ProcSpec => []ProcIInv
<1>1. ProcInit => ProcIInv
  <2>1. SUFFICES ASSUME ProcInit PROVE ProcIInv
    OBVIOUS
  <2>2. ProcTypeOK /\ ProcControl
    BY <2>1 DEF ProcInit, ProcTypeOK, ProcControl, ProcNoCall, ProcNothing
  <2>3. ProcInputSent /\ ProcEndsMet
    BY <2>1 DEF ProcInit, ProcInputSent, ProcEndsMet, ProcNoCall
  <2>4. \A name \in {"out", "err"} : ProcCount(<<>>, name) = 0
    <3>1. <<>> \in Seq(ProcSteps)
      OBVIOUS
    <3>2. QED
      BY <3>1, ProcCountType, Zenon
  <2>5. \A name \in {"out", "err"} : ProcWritten(name) = 0
    BY <2>1, <2>4 DEF ProcInit, ProcWritten
  <2>6. \A name \in {"out", "err"} : procGot[name] = <<>> /\ ProcPipeOf(name) = <<>>
    BY <2>1 DEF ProcInit, ProcPipeOf, ProcNothing
  <2>7. 0 \in Nat /\ <<>> \o <<>> = [i \in 1 .. 0 |-> i]
    OBVIOUS
  <2>8. QED
    BY <2>2, <2>3, <2>5, <2>6, <2>7, Zenon DEF ProcIInv, ProcStream
<1>2. ProcIInv /\ [ProcNext]_procVars => ProcIInv'
  BY ProcTypeStep, ProcControlStep, ProcStreamStep DEF ProcIInv
<1>3. QED
  BY <1>1, <1>2, PTL DEF ProcSpec

(* When communicate returns it has all that the child wrote to its two     *)
(* pipes, in order, each byte once, has sent the whole input and has the   *)
(* real exit status, for pipes of every size, every input and every child. *)
THEOREM ProcOutputIsComplete == ProcSpec => []ProcOutputComplete
<1>1. ASSUME ProcIInv, procUse.call = "communicate", procPc = "idle"
      PROVE  /\ \A name \in {"out", "err"} : procGot[name] = [i \in 1 .. ProcCount(procAll, name) |-> i]
             /\ procUse.input >= 0 => procSent = procUse.input
             /\ procExit = "real"
  <2>1. procDone = {"out", "err"} /\ ~procInOpen /\ procExit = "real"
    BY <1>1, Zenon DEF ProcIInv, ProcEndsMet
  <2>2. procUse.input >= 0 => procSent = procUse.input
    <3>1. procUse.input \in Int /\ (procUse.input < 0 \/ procSent = procUse.input)
      BY <1>1, <2>1 DEF ProcIInv, ProcInputSent, ProcTypeOK
    <3>2. QED
      BY <3>1
  <2>3. ASSUME NEW name \in {"out", "err"}
        PROVE  procGot[name] = [i \in 1 .. ProcCount(procAll, name) |-> i]
    <3>1. ProcPipeOf(name) = <<>> /\ procState # "runs"
      BY <1>1, <2>1 DEF ProcIInv, ProcEndsMet
    <3>2. procScript = <<>>
      BY <1>1, <3>1 DEF ProcIInv, ProcControl, ProcTypeOK
    <3>3. ProcCount(procScript, name) = 0 /\ ProcCount(procAll, name) \in Nat
      BY <1>1, <3>2, ProcCountType DEF ProcIInv, ProcTypeOK
    <3>4. ProcWritten(name) = ProcCount(procAll, name)
      BY <3>3 DEF ProcWritten
    <3>5. procGot[name] \o <<>> = [i \in 1 .. ProcCount(procAll, name) |-> i]
      BY <1>1, <3>1, <3>4 DEF ProcIInv, ProcStream
    <3>6. procGot[name] \in Seq(Int)
      BY <1>1 DEF ProcIInv, ProcTypeOK
    <3>7. procGot[name] \o <<>> = procGot[name]
      BY <3>6
    <3>8. QED
      BY <3>5, <3>7
  <2>4. QED
    BY <2>1, <2>2, <2>3
<1>2. ProcIInv => ProcOutputComplete
  BY <1>1 DEF ProcOutputComplete
<1>3. QED
  BY <1>2, ProcInvariance, PTL

-----------------------------------------------------------------------------
(***************************************************************************)
(* The cache                                                               *)
(***************************************************************************)

(* What FlattenSeq puts together are the elements of its parts.  Both that *)
(* its recursive function is defined and what it holds are shown by way of *)
(* the least number for which they would fail.                             *)
LEMMA FlattenType ==
  ASSUME NEW E, NEW parts \in Seq(Seq(E)), Len(parts) # 0
  PROVE  FlattenSeq(parts) \in Seq(E)
<1> DEFINE N == Len(parts)
           flat[i \in 1 .. Len(parts)] == IF i = 1 THEN parts[i] ELSE flat[i - 1] \o parts[i]
           Part(n, g) == \A i \in 1 .. n : g[i] = IF i = 1 THEN parts[i] ELSE g[i - 1] \o parts[i]
           Undefined == {n \in 0 .. N : ~ \E g \in [1 .. n -> Seq(E)] : Part(n, g)}
<1>1. N \in Nat /\ N >= 1 /\ \A i \in 1 .. N : parts[i] \in Seq(E)
  OBVIOUS
<1>2. Undefined = {}
  <2>1. SUFFICES ASSUME Undefined # {} PROVE FALSE
    OBVIOUS
  <2>2. PICK n \in Undefined : \A m \in Undefined : n <= m
    <3>1. Undefined \in SUBSET Nat
      BY <1>1
    <3> HIDE DEF Undefined
    <3>2. QED
      BY <2>1, <3>1, LeastNumber
  <2>3. n \in 0 .. N /\ n \in Nat
    BY <1>1
  <2>4. CASE n = 0
    <3>1. [i \in 1 .. 0 |-> <<>>] \in [1 .. 0 -> Seq(E)] /\ Part(0, [i \in 1 .. 0 |-> <<>>])
      OBVIOUS
    <3>2. QED
      BY <2>4, <3>1
  <2>5. CASE n # 0
    <3>1. n - 1 \in 0 .. N /\ n - 1 \notin Undefined
      <4>1. n - 1 \in 0 .. N /\ ~(n <= n - 1)
        BY <1>1, <2>3, <2>5
      <4> HIDE DEF Undefined
      <4>2. QED
        BY <2>2, <4>1
    <3>2. PICK g \in [1 .. n - 1 -> Seq(E)] : Part(n - 1, g)
      BY <3>1
    <3> DEFINE h == [i \in 1 .. n |-> IF i < n THEN g[i] ELSE IF n = 1 THEN parts[n] ELSE g[n - 1] \o parts[n]]
    <3>3. h \in [1 .. n -> Seq(E)]
      <4>1. \A i \in 1 .. n : i < n => g[i] \in Seq(E)
        BY <2>3, <3>2
      <4>2. parts[n] \in Seq(E) /\ (n # 1 => n - 1 \in 1 .. n /\ n - 1 < n)
        BY <1>1, <2>3, <2>5
      <4>3. n # 1 => g[n - 1] \o parts[n] \in Seq(E)
        BY <4>1, <4>2
      <4>4. QED
        BY <4>1, <4>2, <4>3, <2>3
    <3>4. Part(n, h)
      <4> SUFFICES ASSUME NEW i \in 1 .. n
                   PROVE  h[i] = IF i = 1 THEN parts[i] ELSE h[i - 1] \o parts[i]
        OBVIOUS
      <4>1. i \in Int /\ (i # 1 => i - 1 \in 1 .. n /\ i - 1 < n /\ h[i - 1] = g[i - 1])
        BY <2>3
      <4>2. CASE i < n
        <5>1. i \in 1 .. n - 1 /\ h[i] = g[i]
          BY <2>3, <4>2
        <5>2. g[i] = IF i = 1 THEN parts[i] ELSE g[i - 1] \o parts[i]
          BY <3>2, <5>1
        <5>3. QED
          BY <4>1, <5>1, <5>2
      <4>3. CASE ~(i < n)
        <5>1. i = n /\ h[i] = IF n = 1 THEN parts[n] ELSE g[n - 1] \o parts[n]
          BY <2>3, <4>3
        <5>2. QED
          BY <4>1, <5>1
      <4>4. QED
        BY <4>2, <4>3
    <3>5. QED
      BY <3>3, <3>4
  <2>6. QED
    BY <2>4, <2>5
<1>3. PICK g \in [1 .. N -> Seq(E)] : Part(N, g)
  <2>1. N \in 0 .. N
    BY <1>1
  <2> HIDE DEF N, Part
  <2>2. QED
    BY <1>2, <2>1
<1>4. flat = CHOOSE f : f = [i \in 1 .. Len(parts) |-> IF i = 1 THEN parts[i] ELSE f[i - 1] \o parts[i]]
  OBVIOUS
<1>5. FlattenSeq(parts) = flat[N]
  BY DEF FlattenSeq
<1> HIDE DEF flat
<1>6. g = [i \in 1 .. Len(parts) |-> IF i = 1 THEN parts[i] ELSE g[i - 1] \o parts[i]]
  BY <1>3
<1>7. flat = [i \in 1 .. Len(parts) |-> IF i = 1 THEN parts[i] ELSE flat[i - 1] \o parts[i]]
  BY <1>4, <1>6
<1> DEFINE Wrong == {i \in 1 .. N : flat[i] \notin Seq(E)}
<1>8. Wrong = {}
  <2>1. SUFFICES ASSUME Wrong # {} PROVE FALSE
    OBVIOUS
  <2>2. PICK i \in Wrong : \A j \in Wrong : i <= j
    <3>1. Wrong \in SUBSET Nat
      BY <1>1
    <3> HIDE DEF Wrong
    <3>2. QED
      BY <2>1, <3>1, LeastNumber
  <2>3. i \in 1 .. N /\ flat[i] \notin Seq(E)
    OBVIOUS
  <2>4. i # 1 => i - 1 \in 1 .. N /\ flat[i - 1] \in Seq(E)
    BY <1>1, <2>2, <2>3
  <2>5. flat[i] = IF i = 1 THEN parts[i] ELSE flat[i - 1] \o parts[i]
    BY <1>7, <2>3, Zenon
  <2>6. QED
    BY <1>1, <2>3, <2>4, <2>5
<1>9. QED
  BY <1>1, <1>5, <1>8

\* addEntry puts nothing but the old entries and the new one into the list.
LEMMA InsertType ==
  ASSUME NEW E, NEW entries \in Seq(E), NEW new \in E
  PROVE  CacheInsert(entries, new) \in Seq(E)
<1>1. CASE entries = <<>>
  BY <1>1 DEF CacheInsert
<1>2. CASE entries # <<>>
  <2> DEFINE parts == [i \in DOMAIN entries |->
                         IF entries[i].expire > new.expire THEN <<new, entries[i]>> ELSE <<entries[i]>>]
  <2>1. Len(entries) \in Nat /\ Len(entries) # 0 /\ DOMAIN entries = 1 .. Len(entries)
    BY <1>2
  <2>2. \A i \in 1 .. Len(entries) : <<new, entries[i]>> \in Seq(E) /\ <<entries[i]>> \in Seq(E)
    OBVIOUS
  <2>3. \A i \in 1 .. Len(entries) : parts[i] \in Seq(E)
    BY <2>1, <2>2
  <2>4. parts \in Seq(Seq(E)) /\ Len(parts) # 0
    BY <2>1, <2>3
  <2>5. CacheInsert(entries, new) = FlattenSeq(parts)
    BY <1>2 DEF CacheInsert
  <2> HIDE DEF parts
  <2>6. QED
    BY <2>4, <2>5, FlattenType
<1>3. QED
  BY <1>1, <1>2

\* The entries that were made are still there after one more call of addEntry.
LEMMA CacheAddType ==
  ASSUME CacheIInv, NEW expire \in 1 .. CacheTimes, NEW key \in CacheKeys, CacheAdd(expire, key)
  PROVE  CacheIInv'
<1> DEFINE n == Len(cacheAdded) + 1
           call == [key |-> key, expire |-> expire]
           new == [expire |-> expire, object |-> n]
<1>1. cacheAdded \in Seq([key : CacheKeys, expire : Int]) /\ call \in [key : CacheKeys, expire : Int]
  BY DEF CacheIInv, CacheTypeOK
<1>2. cacheAdded' = Append(cacheAdded, call) /\ cacheEntries' = CacheInsert(cacheEntries, new)
      /\ cacheNow' = cacheNow /\ cacheGot' = cacheGot
  BY DEF CacheAdd
<1>3. /\ cacheAdded' \in Seq([key : CacheKeys, expire : Int])
      /\ DOMAIN cacheAdded' = DOMAIN cacheAdded \cup {n}
      /\ \A k \in DOMAIN cacheAdded : cacheAdded'[k] = cacheAdded[k]
      /\ cacheAdded'[n] = call
  <2> HIDE DEF call
  <2>1. DOMAIN cacheAdded = 1 .. Len(cacheAdded) /\ DOMAIN cacheAdded' = 1 .. n /\ Len(cacheAdded) \in Nat
    BY <1>1, <1>2
  <2>2. QED
    BY <1>1, <1>2, <2>1
<1>4. new \in CacheMade'
  BY <1>3 DEF CacheMade
<1>5. CacheMade \subseteq CacheMade'
  BY <1>3 DEF CacheMade
<1>6. cacheEntries \in Seq(CacheMade')
  BY <1>5 DEF CacheIInv, CacheTypeOK
<1>7. cacheEntries' \in Seq(CacheMade')
  <2> HIDE DEF new
  <2>1. QED
    BY <1>2, <1>4, <1>6, InsertType
<1>8. CacheTypeOK'
  BY <1>2, <1>3, <1>7 DEF CacheIInv, CacheTypeOK
<1>9. CacheReturnsFresh'
  BY <1>2, <1>3 DEF CacheIInv, CacheTypeOK, CacheReturnsFresh
<1>10. QED
  BY <1>8, <1>9 DEF CacheIInv

\* Calls of addEntry are numbered from 1, and their times are numbers.
LEMMA CacheAddedTypes ==
  ASSUME CacheIInv
  PROVE  cacheNow \in Int /\ \A n \in DOMAIN cacheAdded : n # 0 /\ cacheAdded[n].expire \in Int
<1> DEFINE Calls == [key : CacheKeys, expire : Int]
<1>1. cacheNow \in Int /\ cacheAdded \in Seq(Calls)
  BY DEF CacheIInv, CacheTypeOK
<1>2. \A n \in DOMAIN cacheAdded : n # 0 /\ cacheAdded[n] \in Calls
  <2> HIDE DEF Calls
  <2>1. QED
    BY <1>1
<1>3. QED
  BY <1>1, <1>2

\* getEntry looks at the time of the entry, which is the one it was added with.
LEMMA CacheGetType ==
  ASSUME CacheIInv, NEW key \in CacheKeys, CacheGet(key)
  PROVE  CacheIInv'
<1> DEFINE objects == {n \in DOMAIN cacheAdded : cacheAdded[n].key = key}
<1>1. PICK object \in IF objects = {} THEN {0} ELSE objects :
        cacheGot' = [key |-> key, at |-> cacheNow, object |-> IF CacheFind(object) = {} THEN 0 ELSE object]
  BY DEF CacheGet
<1>2. cacheNow' = cacheNow /\ cacheAdded' = cacheAdded /\ cacheEntries' = cacheEntries
  BY DEF CacheGet
<1>3. cacheGot'.key = key /\ cacheGot'.at = cacheNow
      /\ cacheGot'.object = IF CacheFind(object) = {} THEN 0 ELSE object
  BY <1>1
<1>4. ASSUME CacheFind(object) # {}
      PROVE  /\ object \in DOMAIN cacheAdded /\ cacheAdded[object].key = key
             /\ cacheNow <= cacheAdded[object].expire
  <2>1. PICK i \in DOMAIN cacheEntries : cacheEntries[i].object = object /\ ~(cacheNow > cacheEntries[i].expire)
    BY <1>4 DEF CacheFind
  <2>2. cacheEntries[i] \in CacheMade
    BY <2>1 DEF CacheIInv, CacheTypeOK
  <2>3. PICK n \in DOMAIN cacheAdded : cacheEntries[i] = [expire |-> cacheAdded[n].expire, object |-> n]
    BY <2>2 DEF CacheMade
  <2>4. n = object /\ cacheEntries[i].expire = cacheAdded[object].expire
    BY <2>1, <2>3
  <2>5. object # 0
    BY <2>3, <2>4, CacheAddedTypes
  <2>6. object \in objects
    BY <1>1, <2>5
  <2>7. cacheNow \in Int /\ cacheAdded[object].expire \in Int
    BY <2>3, <2>4, CacheAddedTypes
  <2>8. QED
    BY <2>1, <2>4, <2>6, <2>7
<1>5. CacheMade' = CacheMade
  BY <1>2 DEF CacheMade
<1>6. CacheTypeOK'
  BY <1>2, <1>3, <1>4, <1>5 DEF CacheIInv, CacheTypeOK
<1>7. CacheReturnsFresh'
  BY <1>2, <1>3, <1>4 DEF CacheReturnsFresh
<1>8. QED
  BY <1>6, <1>7 DEF CacheIInv

(* What getEntry returns was added for its key and had not expired, for    *)
(* every set of keys and however many entries addEntry repeats or drops.   *)
THEOREM CacheEntriesFresh == CacheSpec => []CacheReturnsFresh
<1>1. CacheInit => CacheIInv
  BY DEF CacheInit, CacheIInv, CacheTypeOK, CacheReturnsFresh, CacheNothing, CacheMade
<1>2. ASSUME CacheIInv, CacheTick
      PROVE  CacheIInv'
  <2>1. cacheNow' \in Int /\ cacheAdded' = cacheAdded /\ cacheEntries' = cacheEntries /\ cacheGot' = cacheGot
    BY <1>2 DEF CacheTick, CacheIInv, CacheTypeOK
  <2>2. CacheMade' = CacheMade
    BY <2>1 DEF CacheMade
  <2>3. QED
    BY <1>2, <2>1, <2>2 DEF CacheIInv, CacheTypeOK, CacheReturnsFresh
<1>3. ASSUME CacheIInv, UNCHANGED cacheVars
      PROVE  CacheIInv'
  BY <1>3, Zenon DEF CacheIInv, CacheTypeOK, CacheReturnsFresh, CacheMade, cacheVars
<1>4. CacheIInv /\ [CacheNext]_cacheVars => CacheIInv'
  BY <1>2, <1>3, CacheAddType, CacheGetType DEF CacheNext
<1>5. CacheIInv => CacheReturnsFresh
  BY DEF CacheIInv
<1>6. QED
  BY <1>1, <1>4, <1>5, PTL DEF CacheSpec

-----------------------------------------------------------------------------
(***************************************************************************)
(* The ring                                                                *)
(***************************************************************************)

\* The place in a vector of c slots that is n slots after h, and the n elements from h on.
RingPlace(h, n, c) == IF h + n >= c THEN h + n - c ELSE h + n
RingView(d, h, n) == [i \in 1 .. n |-> Read(d, RingPlace(h, i - 1, Len(d)))]

LEMMA RingPlaces ==
  ASSUME NEW h \in Nat, NEW n \in Nat, NEW c \in Nat, h < c, n <= c
  PROVE  /\ RingPlace(h, n, c) \in Nat /\ RingPlace(h, n, c) < c
         /\ \A m \in Nat : m < n /\ n < c => RingPlace(h, m, c) # RingPlace(h, n, c)
         /\ \A m \in Nat : m <= c => RingPlace(h, m, c) \in Nat /\ RingPlace(h, m, c) < c
BY DEF RingPlace

\* Neighbours.
LEMMA RingNeighbours ==
  ASSUME NEW h \in Nat, NEW c \in Nat, h < c
  PROVE  /\ Forward(h, c) \in Nat /\ Forward(h, c) < c /\ Backward(h, c) \in Nat /\ Backward(h, c) < c
         /\ \A n \in Nat : n < c => /\ RingPlace(Forward(h, c), n, c) = RingPlace(h, n + 1, c)
                                    /\ RingPlace(Backward(h, c), n + 1, c) = RingPlace(h, n, c)
                                    /\ Forward(RingPlace(h, n, c), c) = RingPlace(h, n + 1, c)
                                    /\ Backward(RingPlace(h, n + 1, c), c) = RingPlace(h, n, c)
         /\ RingPlace(Backward(h, c), 0, c) = Backward(h, c)
BY DEF RingPlace, Forward, Backward

LEMMA RingReads ==
  ASSUME NEW d \in Seq(Elements), NEW i \in Nat
  PROVE  Read(d, i) \in Elements /\ (i < Len(d) => Read(d, i) = d[i + 1])
<1>1. CASE i < Len(d)
  <2>1. i + 1 \in 1 .. Len(d)
    BY <1>1
  <2>2. QED
    BY <1>1, <2>1 DEF Read
<1>2. CASE ~(i < Len(d))
  BY <1>2 DEF Read, Elements
<1>3. QED
  BY <1>1, <1>2

LEMMA RingViews ==
  ASSUME NEW d \in Seq(Elements), NEW h \in Nat, NEW n \in Nat, h < Len(d), n <= Len(d)
  PROVE  /\ RingView(d, h, n) \in Seq(Elements) /\ Len(RingView(d, h, n)) = n
         /\ \A i \in 1 .. n : RingView(d, h, n)[i] = Read(d, RingPlace(h, i - 1, Len(d)))
         /\ \A i \in 1 .. n : Read(d, RingPlace(h, i - 1, Len(d))) \in Elements
<1> DEFINE c == Len(d)
<1>1. c \in Nat
  OBVIOUS
<1>2. \A i \in 1 .. n : Read(d, RingPlace(h, i - 1, c)) \in Elements
  <2>1. TAKE i \in 1 .. n
  <2>2. i - 1 \in Nat /\ i - 1 <= c
    BY <1>1
  <2>3. RingPlace(h, i - 1, c) \in Nat
    BY <1>1, <2>2, RingPlaces
  <2>4. QED
    BY <2>3, RingReads
<1>3. RingView(d, h, n) \in [1 .. n -> Elements]
  BY <1>2 DEF RingView
<1>4. QED
  BY <1>2, <1>3 DEF RingView

\* A view is the sequence that has its elements.
LEMMA RingViewIs ==
  ASSUME NEW d \in Seq(Elements), NEW h \in Nat, NEW n \in Nat, h < Len(d), n <= Len(d),
         NEW s \in Seq(Elements), Len(s) = n, \A i \in 1 .. n : s[i] = Read(d, RingPlace(h, i - 1, Len(d)))
  PROVE  RingView(d, h, n) = s
<1>1. /\ RingView(d, h, n) \in Seq(Elements) /\ Len(RingView(d, h, n)) = n
      /\ \A i \in 1 .. n : RingView(d, h, n)[i] = s[i]
  BY RingViews
<1>2. QED
  BY <1>1, SeqEqual

\* An element that is written.
LEMMA RingWrites ==
  ASSUME NEW d \in Seq(Elements), NEW t \in Nat, t < Len(d), NEW v \in Values
  PROVE  /\ Write(d, t, v) \in Seq(Elements) /\ Len(Write(d, t, v)) = Len(d)
         /\ Read(Write(d, t, v), t) = v
         /\ \A i \in Nat : i # t => Read(Write(d, t, v), i) = Read(d, i)
<1> DEFINE e == [d EXCEPT ![t + 1] = v]
<1>1. Write(d, t, v) = e
  BY DEF Write
<1>2. v \in Elements /\ t + 1 \in 1 .. Len(d) /\ Len(d) \in Nat
  BY DEF Elements
<1>3. e \in Seq(Elements) /\ Len(e) = Len(d) /\ e[t + 1] = v /\ \A i \in 1 .. Len(d) : i # t + 1 => e[i] = d[i]
  BY <1>2
<1> HIDE DEF e
<1>4. Read(e, t) = v
  BY <1>3 DEF Read
<1>5. ASSUME NEW i \in Nat, i # t PROVE Read(e, i) = Read(d, i)
  <2>1. CASE i < Len(d)
    <3>1. i + 1 \in 1 .. Len(d) /\ i + 1 # t + 1
      BY <1>2, <1>5, <2>1
    <3>2. QED
      BY <1>3, <2>1, <3>1 DEF Read
  <2>2. CASE ~(i < Len(d))
    BY <1>3, <2>2 DEF Read
  <2>3. QED
    BY <2>1, <2>2
<1>6. QED
  BY <1>1, <1>3, <1>4, <1>5

LEMMA RingPushedBack ==
  ASSUME NEW d \in Seq(Elements), NEW h \in Nat, NEW n \in Nat, h < Len(d), n < Len(d), NEW v \in Values
  PROVE  RingView(Write(d, RingPlace(h, n, Len(d)), v), h, n + 1) = Append(RingView(d, h, n), v)
<1> DEFINE c == Len(d)
           t == RingPlace(h, n, c)
           e == Write(d, t, v)
           view == RingView(d, h, n)
           s == Append(view, v)
<1>1. c \in Nat /\ n + 1 \in Nat /\ n + 1 <= c /\ n <= c
  OBVIOUS
<1>2. t \in Nat /\ t < c /\ \A m \in Nat : m < n => RingPlace(h, m, c) # t /\ RingPlace(h, m, c) \in Nat
  <2>1. n < c /\ h < c
    OBVIOUS
  <2> HIDE DEF c
  <2>2. QED
    BY <1>1, <2>1 DEF RingPlace
<1>3. /\ view \in Seq(Elements) /\ Len(view) = n
      /\ \A i \in 1 .. n : view[i] = Read(d, RingPlace(h, i - 1, c))
  BY <1>1, RingViews
<1> HIDE DEF t, view
<1>4. /\ e \in Seq(Elements) /\ Len(e) = c /\ Read(e, t) = v
      /\ \A i \in Nat : i # t => Read(e, i) = Read(d, i)
  BY <1>2, RingWrites
<1> HIDE DEF e, c
<1>5. v \in Elements
  BY DEF Elements
<1>6. s \in Seq(Elements) /\ Len(s) = n + 1 /\ s[n + 1] = v /\ \A i \in 1 .. n : s[i] = view[i]
  BY <1>3, <1>5
<1> HIDE DEF s
<1>7. ASSUME NEW i \in 1 .. n + 1 PROVE s[i] = Read(e, RingPlace(h, i - 1, c))
  <2>1. CASE i = n + 1
    <3>1. i - 1 = n
      BY <2>1
    <3>2. QED
      BY <1>4, <1>6, <2>1, <3>1 DEF t
  <2>2. CASE i # n + 1
    <3>1. i \in 1 .. n /\ i - 1 \in Nat /\ i - 1 < n
      BY <2>2
    <3>2. s[i] = Read(d, RingPlace(h, i - 1, c))
      BY <1>3, <1>6, <3>1
    <3>3. RingPlace(h, i - 1, c) # t /\ RingPlace(h, i - 1, c) \in Nat
      BY <1>2, <3>1
    <3>4. QED
      BY <1>4, <3>2, <3>3
  <2>3. QED
    BY <2>1, <2>2
<1>8. RingView(e, h, n + 1) = s
  <2>1. h < Len(e) /\ n + 1 <= Len(e) /\ \A i \in 1 .. n + 1 : s[i] = Read(e, RingPlace(h, i - 1, Len(e)))
    BY <1>1, <1>4, <1>7 DEF c
  <2>2. QED
    BY <1>1, <1>4, <1>6, <2>1, RingViewIs
<1>9. QED
  BY <1>8 DEF e, t, c, view, s

LEMMA RingPushedFront ==
  ASSUME NEW d \in Seq(Elements), NEW h \in Nat, NEW n \in Nat, h < Len(d), n < Len(d), NEW v \in Values
  PROVE  RingView(Write(d, Backward(h, Len(d)), v), Backward(h, Len(d)), n + 1) = <<v>> \o RingView(d, h, n)
<1> DEFINE c == Len(d)
           t == Backward(h, c)
           e == Write(d, t, v)
           view == RingView(d, h, n)
           s == <<v>> \o view
<1>1. c \in Nat /\ n + 1 \in Nat /\ n + 1 <= c /\ n <= c
  OBVIOUS
<1>2. /\ t \in Nat /\ t < c /\ RingPlace(t, 0, c) = t
      /\ \A m \in Nat : m < n => RingPlace(t, m + 1, c) = RingPlace(h, m, c)
  BY <1>1, RingNeighbours
<1>3. /\ view \in Seq(Elements) /\ Len(view) = n
      /\ \A i \in 1 .. n : view[i] = Read(d, RingPlace(h, i - 1, c))
  BY <1>1, RingViews
<1> HIDE DEF t, view
<1>4. /\ e \in Seq(Elements) /\ Len(e) = c /\ Read(e, t) = v
      /\ \A i \in Nat : i # t => Read(e, i) = Read(d, i)
  BY <1>2, RingWrites
<1> HIDE DEF e, c
<1>5. v \in Elements
  BY DEF Elements
<1>6. s \in Seq(Elements) /\ Len(s) = n + 1 /\ s[1] = v /\ \A i \in 1 .. n : s[i + 1] = view[i]
  BY <1>3, <1>5
<1> HIDE DEF s
<1>7. ASSUME NEW i \in 1 .. n + 1 PROVE s[i] = Read(e, RingPlace(t, i - 1, c))
  <2>1. CASE i = 1
    <3>1. i - 1 = 0
      BY <2>1
    <3>2. QED
      BY <1>2, <1>4, <1>6, <2>1, <3>1
  <2>2. CASE i # 1
    <3>1. i - 1 \in 1 .. n /\ (i - 1) - 1 \in Nat /\ (i - 1) - 1 < n /\ ((i - 1) - 1) + 1 = i - 1 /\ (i - 1) + 1 = i
      BY <2>2
    <3> DEFINE m == (i - 1) - 1
    <3>2. s[i] = Read(d, RingPlace(h, m, c))
      BY <1>3, <1>6, <3>1
    <3>3. RingPlace(t, i - 1, c) = RingPlace(h, m, c)
      BY <1>2, <3>1
    <3>4. RingPlace(h, m, c) # t /\ RingPlace(h, m, c) \in Nat
      <4>1. m \in Nat /\ m < c - 1
        BY <1>1, <3>1
      <4>2. h < c
        BY DEF c
      <4> HIDE DEF m
      <4>3. QED
        BY <1>1, <4>1, <4>2 DEF RingPlace, t, Backward
    <3>5. QED
      BY <1>4, <3>2, <3>3, <3>4
  <2>3. QED
    BY <2>1, <2>2
<1>8. RingView(e, t, n + 1) = s
  <2>1. t < Len(e) /\ n + 1 <= Len(e) /\ \A i \in 1 .. n + 1 : s[i] = Read(e, RingPlace(t, i - 1, Len(e)))
    BY <1>1, <1>2, <1>4, <1>7
  <2>2. QED
    BY <1>1, <1>2, <1>4, <1>6, <2>1, RingViewIs
<1>9. QED
  BY <1>8 DEF e, t, c, view, s

LEMMA RingPoppedBack ==
  ASSUME NEW d \in Seq(Elements), NEW h \in Nat, NEW n \in Nat, h < Len(d), n <= Len(d), n # 0
  PROVE  RingView(d, h, n - 1) = SubSeq(RingView(d, h, n), 1, n - 1)
<1> DEFINE view == RingView(d, h, n)
           s == SubSeq(view, 1, n - 1)
<1>1. /\ view \in Seq(Elements) /\ Len(view) = n /\ n - 1 \in Nat /\ n - 1 <= n /\ n - 1 <= Len(d)
      /\ \A i \in 1 .. n : view[i] = Read(d, RingPlace(h, i - 1, Len(d)))
  BY RingViews
<1> HIDE DEF view
<1>2. s \in Seq(Elements) /\ Len(s) = n - 1 /\ \A i \in 1 .. n - 1 : s[i] = view[i]
  BY <1>1
<1> HIDE DEF s
<1>3. \A i \in 1 .. n - 1 : s[i] = Read(d, RingPlace(h, i - 1, Len(d)))
  BY <1>1, <1>2
<1>4. RingView(d, h, n - 1) = s
  BY <1>1, <1>2, <1>3, RingViewIs
<1>5. QED
  BY <1>4 DEF s, view

LEMMA RingPoppedFront ==
  ASSUME NEW d \in Seq(Elements), NEW h \in Nat, NEW n \in Nat, h < Len(d), n <= Len(d), n # 0
  PROVE  RingView(d, Forward(h, Len(d)), n - 1) = Tail(RingView(d, h, n))
<1> DEFINE c == Len(d)
           f == Forward(h, c)
           view == RingView(d, h, n)
           s == Tail(view)
<1>1. /\ view \in Seq(Elements) /\ Len(view) = n /\ n - 1 \in Nat /\ n - 1 <= n /\ n - 1 <= c /\ c \in Nat
      /\ \A i \in 1 .. n : view[i] = Read(d, RingPlace(h, i - 1, c))
  BY RingViews
<1>2. f \in Nat /\ f < c /\ \A m \in Nat : m < c => RingPlace(f, m, c) = RingPlace(h, m + 1, c)
  BY <1>1, RingNeighbours
<1> HIDE DEF view, f
<1>3. s \in Seq(Elements) /\ Len(s) = n - 1 /\ \A i \in 1 .. n - 1 : s[i] = view[i + 1]
  BY <1>1
<1> HIDE DEF s
<1>4. ASSUME NEW i \in 1 .. n - 1 PROVE s[i] = Read(d, RingPlace(f, i - 1, c))
  <2>1. i + 1 \in 1 .. n /\ i - 1 \in Nat /\ i - 1 < c /\ (i + 1) - 1 = (i - 1) + 1
    BY <1>1
  <2>2. QED
    BY <1>1, <1>2, <1>3, <2>1
<1>5. RingView(d, f, n - 1) = s
  BY <1>1, <1>2, <1>3, <1>4, RingViewIs
<1>6. QED
  BY <1>5 DEF s, view, f

-----------------------------------------------------------------------------
\* The ring in numbers.
RingNumbers ==
    /\ head \in Nat /\ tail \in Nat /\ sz \in Nat /\ Capacity \in Nat
    /\ head < Capacity /\ sz <= Capacity
    /\ tail = RingPlace(head, sz, Capacity) \/ (tail = Capacity /\ (sz = 0 \/ head + sz = Capacity))

LEMMA RingInNumbers ==
  ASSUME IInv
  PROVE  RingNumbers /\ data \in Seq(Elements) /\ Contents = RingView(data, head, sz)
<1>1. head \in Nat /\ tail \in Nat /\ sz \in Nat /\ data \in Seq(Elements) /\ Capacity \in Nat
  BY DEF IInv, TypeOK, Capacity
<1>2. Wrap(head + sz) = RingPlace(head, sz, Capacity)
  BY <1>1 DEF Wrap, RingPlace
<1>3. \A i \in 1 .. sz : Wrap(head + i - 1) = RingPlace(head, i - 1, Len(data))
  <2>1. \A i \in 1 .. sz : head + i - 1 = head + (i - 1)
    BY <1>1
  <2>2. QED
    BY <1>1, <2>1 DEF Wrap, RingPlace, Capacity
<1>4. Contents = RingView(data, head, sz)
  BY <1>3 DEF Contents, RingView
<1>5. QED
  BY <1>1, <1>2, <1>4 DEF IInv, Layout, RingNumbers

\* The contents after a step.
LEMMA RingNextContents ==
  ASSUME NEW d, NEW h \in Nat, NEW n \in Nat, data' = d, head' = h, sz' = n
  PROVE  Contents' = RingView(d, h, n)
<1>1. \A i \in 1 .. n : Wrap(head + i - 1)' = RingPlace(h, i - 1, Len(d))
  <2>1. \A i \in 1 .. n : h + i - 1 = h + (i - 1)
    OBVIOUS
  <2>2. QED
    BY <2>1 DEF Wrap, RingPlace, Capacity
<1>2. QED
  BY <1>1 DEF Contents, RingView

\* A ring that can be pushed to: where resize, if it is due, leaves it.
RingPushes == sz < use.maxSize /\ ~ReaderUse(use)
RingRoom(r) ==
    /\ r.data \in Seq(Elements) /\ r.head \in Nat /\ r.head < Len(r.data) /\ sz < Len(r.data)
    /\ r.tail = RingPlace(r.head, sz, Len(r.data)) /\ Capacity <= Len(r.data)
    /\ RingView(r.data, r.head, sz) = Contents
    /\ head = 0 => r.head = 0

LEMMA RingMakesRoom ==
  ASSUME IInv, RingPushes
  PROVE  RingRoom(MakeRoom)
<1>1. RingNumbers /\ data \in Seq(Elements) /\ Contents = RingView(data, head, sz)
  BY RingInNumbers
<1>2. use.maxSize \in Nat /\ sz < use.maxSize
  BY UsesAssumption DEF IInv, TypeOK, RingPushes
<1>3. /\ tail = RingPlace(head, sz, Capacity) /\ (sz = Capacity => needsResize)
      /\ (needsResize => sz = Capacity \/ (sz = 0 /\ head = 0)) /\ needsResize \in BOOLEAN
  BY <1>1 DEF IInv, TypeOK, UseInv, PushInv, RingPushes, RingNumbers, Wrap, RingPlace
<1>4. CASE needsResize = FALSE
  <2>1. MakeRoom = [head |-> head, tail |-> tail, data |-> data]
    BY <1>4 DEF MakeRoom
  <2>2. sz # Capacity
    BY <1>3, <1>4
  <2>3. sz < Len(data) /\ head \in Nat /\ head < Len(data) /\ Capacity <= Len(data) /\ Len(data) = Capacity
    BY <1>1, <2>2 DEF RingNumbers, Capacity
  <2>4. QED
    BY <1>1, <1>3, <2>1, <2>3 DEF RingRoom
<1>5. CASE needsResize = TRUE
  <2>1. head = 0
    <3>1. CASE DequeUse(use)
      <4>1. use.maxSize <= Capacity
        BY <3>1 DEF IInv, UseInv
      <4>2. sz # Capacity
        BY <1>1, <1>2, <4>1 DEF RingNumbers
      <4>3. QED
        BY <1>3, <1>5, <4>2
    <3>2. CASE StackUse(use)
      BY <3>2 DEF IInv, UseInv
    <3>3. QED
      BY <3>1, <3>2 DEF IInv, UseInv, SoundUse, RingPushes
  <2> DEFINE n == IF Capacity = 0 THEN 2 ELSE Capacity * 2
             d == InOrder(n)
  <2>2. n \in Nat /\ n > Capacity /\ n > sz
    BY <1>1 DEF RingNumbers
  <2>3. MakeRoom = [head |-> 0, tail |-> sz, data |-> d]
    BY <1>5 DEF MakeRoom
  <2> HIDE DEF n
  <2>4. d = [i \in 1 .. n |-> IF i <= sz THEN Read(data, i - 1) ELSE Blank]
    <3>1. tail >= head /\ \A i \in 1 .. n : head + i - 1 = i - 1
      BY <1>1, <2>1, <2>2 DEF RingNumbers
    <3>2. QED
      BY <3>1 DEF InOrder
  <2>5. \A i \in 1 .. n : (IF i <= sz THEN Read(data, i - 1) ELSE Blank) \in Elements
    <3>1. TAKE i \in 1 .. n
    <3>2. i - 1 \in Nat
      BY <2>2
    <3>3. QED
      BY <1>1, <3>2, RingReads DEF Elements
  <2>6. d \in Seq(Elements) /\ Len(d) = n
    <3>1. d \in [1 .. n -> Elements]
      BY <2>4, <2>5
    <3>2. QED
      BY <2>2, <3>1, LenProperties
  <2>7. \A i \in 1 .. sz : d[i] = Read(data, i - 1)
    <3>1. \A i \in 1 .. sz : i \in 1 .. n /\ i <= sz
      BY <1>1, <2>2 DEF RingNumbers
    <3>2. QED
      BY <2>4, <3>1
  <2> HIDE DEF d
  <2>8. sz = RingPlace(0, sz, n)
    BY <1>1, <2>2 DEF RingPlace, RingNumbers
  <2>9. RingView(d, 0, sz) = Contents
    <3>1. /\ Contents \in Seq(Elements) /\ Len(Contents) = sz
          /\ \A i \in 1 .. sz : Contents[i] = Read(data, RingPlace(head, i - 1, Len(data)))
      BY <1>1, RingViews DEF RingNumbers, Capacity
    <3>2. ASSUME NEW i \in 1 .. sz PROVE Contents[i] = Read(d, RingPlace(0, i - 1, Len(d)))
      <4>1. i - 1 < n /\ i - 1 < Capacity /\ i - 1 \in Nat /\ (i - 1) + 1 = i
        BY <1>1, <2>2 DEF RingNumbers
      <4>2. RingPlace(head, i - 1, Len(data)) = i - 1 /\ RingPlace(0, i - 1, Len(d)) = i - 1
        BY <2>1, <2>2, <2>6, <4>1 DEF RingPlace, Capacity
      <4>3. Read(d, i - 1) = d[i]
        BY <2>6, <4>1 DEF Read
      <4>4. QED
        BY <2>7, <3>1, <4>2, <4>3
    <3>3. 0 \in Nat /\ sz \in Nat /\ 0 < Len(d) /\ sz <= Len(d)
      BY <1>1, <2>2, <2>6 DEF RingNumbers
    <3>4. QED
      BY <2>6, <3>1, <3>2, <3>3, RingViewIs
  <2>10. /\ 0 \in Nat /\ 0 < Len(d) /\ sz < Len(d) /\ Capacity <= Len(d) /\ sz = RingPlace(0, sz, Len(d))
    BY <1>1, <2>2, <2>6, <2>8 DEF RingNumbers
  <2>11. QED
    BY <2>3, <2>6, <2>9, <2>10 DEF RingRoom
<1>6. QED
  BY <1>3, <1>4, <1>5

\* The new ring: d is its vector, h, n and f its head, size and flag; tail is n places after h.
RingBecomes(d, h, n, f) ==
    /\ use' = use /\ data' = d /\ head' = h /\ sz' = n /\ needsResize' = f /\ tail' = RingPlace(h, n, Len(d))
    /\ d \in Seq(Elements) /\ h \in Nat /\ n \in Nat /\ h < Len(d) /\ n <= Len(d) /\ f \in BOOLEAN
    /\ Capacity <= Len(d)

LEMMA RingKept ==
  ASSUME IInv, NEW d, NEW h, NEW n, NEW f, RingBecomes(d, h, n, f),
         ~ReaderUse(use) => /\ n <= use.maxSize /\ (n = Len(d) => f)
                            /\ (f => n = Len(d) \/ (n = 0 /\ h = 0)),
         StackUse(use) => h = 0
  PROVE  IInv'
<1>1. Capacity' = Len(d) /\ Len(d) \in Nat /\ Capacity \in Nat /\ use.maxSize \in Nat
  BY UsesAssumption DEF RingBecomes, Capacity, IInv, TypeOK
<1>2. tail' \in Nat /\ tail' = Wrap(head + sz)'
  BY <1>1 DEF RingBecomes, RingPlace, Wrap
<1>3. TypeOK'
  BY <1>2 DEF RingBecomes, IInv, TypeOK
<1>4. Layout'
  BY <1>1, <1>2 DEF RingBecomes, Layout
<1>5. ~ReaderUse(use) => PushInv'
  BY <1>1, <1>2 DEF RingBecomes, PushInv
<1>6. DequeUse(use) => use.maxSize <= Capacity' /\ ("make_cont" \in use.ops => use.maxSize < Capacity')
  BY <1>1 DEF RingBecomes, IInv, UseInv
<1>7. use' = use /\ head' = h /\ sz' = n
  BY DEF RingBecomes
<1>8. UseInv'
  BY <1>5, <1>6, <1>7 DEF IInv, UseInv
<1>9. QED
  BY <1>3, <1>4, <1>8 DEF IInv

\* The kinds of use and the operations.
LEMMA RingUses ==
  ASSUME IInv
  PROVE  /\ use.ops \intersect {"push_back", "push_front", "pop_back", "clear", "make_cont"} # {} => ~ReaderUse(use)
         /\ use.ops \intersect {"push_front", "pop_front", "make_cont", "assign", "receive"} # {} => ~StackUse(use)
         /\ use.ops \intersect {"assign", "receive"} # {} => ReaderUse(use) /\ ~DequeUse(use)
         /\ use.maxSize \in Nat
<1>1. use.maxSize \in Nat
  BY UsesAssumption DEF IInv, TypeOK
<1>2. SoundUse(use)
  BY DEF IInv, UseInv
<1>3. use.ops \intersect {"assign", "receive"} # {} => ~DequeUse(use) /\ ~StackUse(use)
  BY DEF DequeUse, StackUse
<1>4. QED
  BY <1>1, <1>2, <1>3 DEF SoundUse, StackUse, ReaderUse

LEMMA RingPushBackStep ==
  ASSUME IInv, NEW v \in Values, push_back(v)
  PROVE  IInv' /\ Contents' = Append(Contents, v)
<1> DEFINE r == MakeRoom
           c == Len(r.data)
           e == Write(r.data, r.tail, v)
<1>1. /\ "push_back" \in use.ops /\ sz < use.maxSize /\ data' = e /\ head' = r.head /\ use' = use
      /\ tail' = Forward(r.tail, c) /\ needsResize' = (tail' = head') /\ sz' = sz + 1
  BY DEF push_back
<1>2. ~ReaderUse(use) /\ use.maxSize \in Nat
  BY <1>1, RingUses
<1>3. RingRoom(r)
  BY <1>1, <1>2, RingMakesRoom DEF RingPushes
<1> HIDE DEF r
<1>4. /\ r.data \in Seq(Elements) /\ r.head \in Nat /\ r.head < c /\ sz < c /\ c \in Nat /\ sz \in Nat
      /\ r.tail = RingPlace(r.head, sz, c) /\ Capacity <= c /\ (head = 0 => r.head = 0)
      /\ RingView(r.data, r.head, sz) = Contents
  BY <1>3 DEF RingRoom, IInv, TypeOK
<1>5. r.tail \in Nat /\ r.tail < c
  BY <1>4 DEF RingPlace
<1>6. e \in Seq(Elements) /\ Len(e) = c
  BY <1>4, <1>5, RingWrites
<1>7. RingView(e, r.head, sz + 1) = Append(Contents, v)
  BY <1>4, RingPushedBack
<1> HIDE DEF c, e
<1>8. tail' = RingPlace(r.head, sz + 1, c) /\ (tail' = r.head <=> sz + 1 = c)
  BY <1>1, <1>4 DEF RingPlace, Forward
<1>9. needsResize' \in BOOLEAN /\ (needsResize' <=> sz + 1 = c)
  <2>1. needsResize' = (tail' = r.head)
    BY <1>1
  <2>2. QED
    BY <1>8, <2>1, Zenon
<1>10. RingBecomes(e, r.head, sz + 1, needsResize')
  <2>1. sz + 1 \in Nat /\ sz + 1 <= c
    BY <1>4
  <2>2. QED
    BY <1>1, <1>4, <1>6, <1>8, <1>9, <2>1 DEF RingBecomes
<1>11. StackUse(use) => r.head = 0
  BY <1>4 DEF IInv, UseInv
<1>12. sz + 1 <= use.maxSize
  BY <1>1, <1>2, <1>4
<1>13. IInv'
  BY <1>6, <1>9, <1>10, <1>11, <1>12, RingKept
<1>14. Contents' = RingView(e, r.head, sz + 1)
  <2>1. sz + 1 \in Nat
    BY <1>4
  <2>2. QED
    BY <1>1, <1>4, <2>1, RingNextContents
<1>15. QED
  BY <1>7, <1>13, <1>14

LEMMA RingPushFrontStep ==
  ASSUME IInv, NEW v \in Values, push_front(v)
  PROVE  IInv' /\ Contents' = <<v>> \o Contents
<1> DEFINE r == MakeRoom
           c == Len(r.data)
           k == Backward(r.head, c)
           e == Write(r.data, k, v)
<1>1. /\ "push_front" \in use.ops /\ sz < use.maxSize /\ data' = e /\ head' = k /\ use' = use
      /\ tail' = r.tail /\ needsResize' = (tail' = head') /\ sz' = sz + 1
  BY DEF push_front
<1>2. ~ReaderUse(use) /\ ~StackUse(use) /\ use.maxSize \in Nat
  BY <1>1, RingUses
<1>3. RingRoom(r)
  BY <1>1, <1>2, RingMakesRoom DEF RingPushes
<1> HIDE DEF r
<1>4. /\ r.data \in Seq(Elements) /\ r.head \in Nat /\ r.head < c /\ sz < c /\ c \in Nat /\ sz \in Nat
      /\ r.tail = RingPlace(r.head, sz, c) /\ Capacity <= c
      /\ RingView(r.data, r.head, sz) = Contents
  BY <1>3 DEF RingRoom, IInv, TypeOK
<1>5. k \in Nat /\ k < c
  BY <1>4, RingNeighbours
<1>6. e \in Seq(Elements) /\ Len(e) = c
  BY <1>4, <1>5, RingWrites
<1>7. RingView(e, k, sz + 1) = <<v>> \o Contents
  BY <1>4, RingPushedFront
<1> HIDE DEF c, e
<1>8. tail' = RingPlace(k, sz + 1, c) /\ (tail' = k <=> sz + 1 = c)
  BY <1>1, <1>4 DEF RingPlace, Backward
<1> HIDE DEF k
<1>9. needsResize' \in BOOLEAN /\ (needsResize' <=> sz + 1 = c)
  <2>1. needsResize' = (tail' = k)
    BY <1>1
  <2>2. QED
    BY <1>8, <2>1, Zenon
<1>10. RingBecomes(e, k, sz + 1, needsResize')
  <2>1. sz + 1 \in Nat /\ sz + 1 <= c
    BY <1>4
  <2>2. QED
    BY <1>1, <1>4, <1>5, <1>6, <1>8, <1>9, <2>1 DEF RingBecomes
<1>11. sz + 1 <= use.maxSize
  BY <1>1, <1>2, <1>4
<1>12. IInv'
  BY <1>2, <1>6, <1>9, <1>10, <1>11, RingKept
<1>13. Contents' = RingView(e, k, sz + 1)
  <2>1. sz + 1 \in Nat
    BY <1>4
  <2>2. QED
    BY <1>1, <1>5, <2>1, RingNextContents
<1>14. QED
  BY <1>7, <1>12, <1>13

LEMMA RingPopBackStep ==
  ASSUME IInv, pop_back
  PROVE  IInv' /\ Contents' = SubSeq(Contents, 1, sz - 1)
<1>1. /\ "pop_back" \in use.ops /\ sz # 0 /\ tail' = Backward(tail, Capacity) /\ needsResize' = FALSE
      /\ sz' = sz - 1 /\ use' = use /\ head' = head /\ data' = data
  BY DEF pop_back
<1>2. ~ReaderUse(use) /\ use.maxSize \in Nat
  BY <1>1, RingUses
<1>3. RingNumbers /\ data \in Seq(Elements) /\ Contents = RingView(data, head, sz)
  BY RingInNumbers
<1>4. /\ head \in Nat /\ sz \in Nat /\ head < Len(data) /\ sz <= Len(data) /\ Len(data) \in Nat /\ Capacity = Len(data)
      /\ sz <= use.maxSize /\ tail = RingPlace(head, sz, Len(data)) /\ (StackUse(use) => head = 0)
  BY <1>2, <1>3 DEF RingNumbers, Capacity, IInv, UseInv, PushInv, Wrap, RingPlace
<1> DEFINE c == Len(data)
<1> HIDE DEF c
<1>5. tail' = RingPlace(head, sz - 1, c) /\ sz - 1 \in Nat /\ sz - 1 < c /\ sz - 1 <= use.maxSize
  <2>1. /\ head \in Nat /\ sz \in Nat /\ head < c /\ sz <= c /\ c \in Nat /\ tail = RingPlace(head, sz, c)
        /\ tail' = Backward(tail, c) /\ sz # 0 /\ sz <= use.maxSize
    BY <1>1, <1>4 DEF c
  <2>2. QED
    BY <1>2, <2>1 DEF RingPlace, Backward
<1>6. RingBecomes(data, head, sz - 1, FALSE)
  BY <1>1, <1>3, <1>4, <1>5 DEF RingBecomes, c
<1>7. IInv'
  <2>1. sz - 1 # Len(data)
    BY <1>4, <1>5 DEF c
  <2>2. QED
    BY <1>4, <1>5, <1>6, <2>1, RingKept
<1>8. Contents' = RingView(data, head, sz - 1)
  BY <1>1, <1>4, <1>5, RingNextContents
<1>9. RingView(data, head, sz - 1) = SubSeq(Contents, 1, sz - 1)
  BY <1>1, <1>3, <1>4, RingPoppedBack
<1>10. QED
  BY <1>7, <1>8, <1>9

LEMMA RingPopFrontStep ==
  ASSUME IInv, pop_front
  PROVE  IInv' /\ Contents' = Tail(Contents)
<1>1. /\ "pop_front" \in use.ops /\ sz # 0 /\ head' = Forward(head, Capacity) /\ needsResize' = FALSE
      /\ sz' = sz - 1 /\ use' = use /\ tail' = tail /\ data' = data
  BY DEF pop_front
<1>2. ~StackUse(use) /\ use.maxSize \in Nat
  BY <1>1, RingUses
<1>3. RingNumbers /\ data \in Seq(Elements) /\ Contents = RingView(data, head, sz)
  BY RingInNumbers
<1> DEFINE c == Len(data)
           f == Forward(head, c)
<1>4. /\ head \in Nat /\ sz \in Nat /\ head < c /\ sz <= c /\ c \in Nat /\ Capacity = c /\ Capacity' = c /\ tail \in Nat
      /\ tail = RingPlace(head, sz, c) \/ (tail = c /\ head + sz = c)
  BY <1>1, <1>3 DEF RingNumbers, Capacity
<1>5. /\ f \in Nat /\ f < c /\ sz - 1 \in Nat /\ sz - 1 < c
      /\ tail = RingPlace(head, sz, c) => tail = RingPlace(f, sz - 1, c)
      /\ tail = RingPlace(f, sz - 1, c) \/ (tail = c /\ (sz - 1 = 0 \/ f + (sz - 1) = c))
  <2> HIDE DEF c
  <2>1. QED
    BY <1>1, <1>4 DEF RingPlace, Forward
<1>6. TypeOK'
  BY <1>1, <1>4, <1>5 DEF IInv, TypeOK
<1>7. Wrap(head + sz)' = RingPlace(f, sz - 1, c)
  BY <1>1, <1>4, <1>5 DEF Wrap, RingPlace
<1>8. Layout'
  BY <1>1, <1>4, <1>5, <1>7 DEF Layout
<1>9. ~ReaderUse(use) => PushInv' /\ sz' <= use.maxSize
  <2> SUFFICES ASSUME ~ReaderUse(use) PROVE PushInv' /\ sz' <= use.maxSize
    OBVIOUS
  <2>1. tail = RingPlace(head, sz, c) /\ sz <= use.maxSize
    BY <1>4 DEF IInv, UseInv, PushInv, Wrap, RingPlace
  <2>2. sz' <= use.maxSize /\ sz' # Capacity'
    BY <1>1, <1>2, <1>4, <1>5, <2>1
  <2>3. QED
    BY <1>1, <1>5, <1>7, <2>1, <2>2 DEF PushInv
<1>10. UseInv'
  BY <1>1, <1>2, <1>4, <1>9 DEF IInv, UseInv
<1>11. Contents' = RingView(data, f, sz - 1)
  BY <1>1, <1>4, <1>5, RingNextContents
<1>12. RingView(data, f, sz - 1) = Tail(Contents)
  BY <1>1, <1>3, <1>4, RingPoppedFront
<1>13. QED
  BY <1>6, <1>8, <1>10, <1>11, <1>12 DEF IInv

LEMMA RingClearStep ==
  ASSUME IInv, clear
  PROVE  IInv'
<1>1. /\ "clear" \in use.ops /\ head' = 0 /\ tail' = 0 /\ sz' = 0 /\ use' = use /\ data' = data
      /\ needsResize' = needsResize
  BY DEF clear
<1>2. ~ReaderUse(use) /\ use.maxSize \in Nat
  BY <1>1, RingUses
<1>3. RingNumbers /\ data \in Seq(Elements) /\ needsResize \in BOOLEAN
  BY RingInNumbers DEF IInv, TypeOK
<1>4. Len(data) \in Nat /\ 0 < Len(data) /\ 0 <= Len(data) /\ Capacity <= Len(data) /\ 0 # Len(data)
  BY <1>3 DEF RingNumbers, Capacity
<1>5. RingPlace(0, 0, Len(data)) = 0
  BY <1>4 DEF RingPlace
<1>6. RingBecomes(data, 0, 0, needsResize)
  BY <1>1, <1>3, <1>4, <1>5 DEF RingBecomes
<1>7. 0 <= use.maxSize
  BY <1>2
<1>8. QED
  BY <1>4, <1>6, <1>7, RingKept

LEMMA RingMakeContStep ==
  ASSUME IInv, make_cont
  PROVE  IInv' /\ Contents' = Contents
<1> DEFINE c == Len(data)
           d == InOrder(c)
<1>1. /\ "make_cont" \in use.ops /\ head # 0 /\ data' = d /\ head' = 0 /\ tail' = sz
      /\ use' = use /\ sz' = sz /\ needsResize' = needsResize
  BY DEF make_cont, Capacity
<1>2. ~ReaderUse(use) /\ ~StackUse(use) /\ use.maxSize \in Nat
  BY <1>1, RingUses
<1>3. RingNumbers /\ data \in Seq(Elements) /\ Contents = RingView(data, head, sz) /\ needsResize \in BOOLEAN
  BY RingInNumbers DEF IInv, TypeOK
<1>4. sz <= use.maxSize /\ use.maxSize < c
  BY <1>1, <1>2 DEF IInv, UseInv, SoundUse, Capacity
<1>5. /\ head \in Nat /\ sz \in Nat /\ head < c /\ sz < c /\ c \in Nat /\ Capacity = c /\ tail \in Nat
      /\ tail = RingPlace(head, sz, c)
  BY <1>2, <1>3, <1>4 DEF RingNumbers, Capacity, IInv, UseInv, PushInv, Wrap, RingPlace
<1>6. needsResize = FALSE
  <2>1. needsResize => sz = Capacity \/ (sz = 0 /\ head = 0)
    BY <1>2 DEF IInv, UseInv, PushInv
  <2>2. QED
    BY <1>1, <1>3, <1>5, <2>1
<1> DEFINE rest == c - head
           el(i) == IF tail >= head
                      THEN IF i <= sz THEN Read(data, head + i - 1) ELSE Blank
                      ELSE IF i <= rest THEN Read(data, head + i - 1)
                           ELSE IF i <= rest + tail THEN Read(data, i - rest - 1)
                           ELSE Blank
<1>7. d = [i \in 1 .. c |-> el(i)]
  BY DEF InOrder, Capacity
<1>8. \A i \in 1 .. sz : el(i) = Read(data, RingPlace(head, i - 1, c)) /\ i \in 1 .. c
  <2>1. TAKE i \in 1 .. sz
  <2>2. i \in 1 .. c
    BY <1>5
  <2>3. CASE tail >= head
    <3>1. head + sz < c
      BY <1>5, <2>3 DEF RingPlace
    <3>2. RingPlace(head, i - 1, c) = head + i - 1
      BY <1>5, <3>1 DEF RingPlace
    <3>3. el(i) = Read(data, head + i - 1)
      BY <2>3
    <3>4. QED
      BY <2>2, <3>2, <3>3
  <2>4. CASE ~(tail >= head)
    <3>1. head + sz >= c /\ tail = head + sz - c
      BY <1>5, <2>4 DEF RingPlace
    <3>2. CASE i <= rest
      <4>1. RingPlace(head, i - 1, c) = head + i - 1
        BY <1>5, <3>2 DEF RingPlace
      <4>2. el(i) = Read(data, head + i - 1)
        BY <2>4, <3>2
      <4>3. QED
        BY <2>2, <4>1, <4>2
    <3>3. CASE ~(i <= rest)
      <4>1. RingPlace(head, i - 1, c) = i - rest - 1 /\ i <= rest + tail
        BY <1>5, <3>1, <3>3 DEF RingPlace
      <4>2. el(i) = Read(data, i - rest - 1)
        BY <2>4, <3>3, <4>1
      <4>3. QED
        BY <2>2, <4>1, <4>2
    <3>4. QED
      BY <3>2, <3>3
  <2>5. QED
    BY <2>3, <2>4
<1>9. \A i \in 1 .. c : el(i) \in Elements
  <2>1. TAKE i \in 1 .. c
  <2>2. CASE el(i) = Read(data, head + i - 1)
    <3>1. head + i - 1 \in Nat
      BY <1>5
    <3>2. Read(data, head + i - 1) \in Elements
      BY <1>3, <3>1, RingReads
    <3>3. QED
      BY <2>2, <3>2
  <2>3. CASE el(i) = Read(data, i - rest - 1) /\ ~(i <= rest)
    <3>1. i - rest - 1 \in Nat
      BY <1>5, <2>3
    <3>2. Read(data, i - rest - 1) \in Elements
      BY <1>3, <3>1, RingReads
    <3>3. QED
      BY <2>3, <3>2
  <2>4. CASE el(i) = Blank
    <3>1. Blank \in Elements
      BY DEF Elements
    <3>2. QED
      BY <2>4, <3>1
  <2>5. QED
    BY <2>2, <2>3, <2>4
<1> HIDE DEF el
<1>10. d \in Seq(Elements) /\ Len(d) = c /\ \A i \in 1 .. sz : d[i] = Read(data, RingPlace(head, i - 1, c))
  <2>1. d \in [1 .. c -> Elements]
    BY <1>7, <1>9
  <2>2. d \in Seq(Elements) /\ Len(d) = c
    BY <1>5, <2>1, LenProperties
  <2>3. \A i \in 1 .. sz : d[i] = el(i)
    BY <1>7, <1>8
  <2>4. QED
    BY <1>8, <2>2, <2>3
<1> HIDE DEF d
<1>11. RingBecomes(d, 0, sz, FALSE)
  <2>1. 0 \in Nat /\ 0 < Len(d) /\ sz <= Len(d) /\ Capacity <= Len(d) /\ sz = RingPlace(0, sz, Len(d))
    BY <1>5, <1>10 DEF RingPlace
  <2>2. QED
    BY <1>1, <1>5, <1>6, <1>10, <2>1 DEF RingBecomes
<1>12. IInv'
  <2>1. sz # Len(d)
    BY <1>5, <1>10
  <2>2. QED
    BY <1>2, <1>4, <1>11, <2>1, RingKept
<1>13. Contents' = RingView(d, 0, sz)
  <2>1. 0 \in Nat
    OBVIOUS
  <2>2. QED
    BY <1>1, <1>5, <2>1, RingNextContents
<1>14. RingView(d, 0, sz) = Contents
  <2>1. /\ Contents \in Seq(Elements) /\ Len(Contents) = sz
        /\ \A i \in 1 .. sz : Contents[i] = Read(data, RingPlace(head, i - 1, c))
    <3>1. sz \in Nat /\ sz <= Len(data) /\ head \in Nat /\ head < Len(data)
      BY <1>5
    <3>2. QED
      BY <1>3, <3>1, RingViews
  <2>2. ASSUME NEW i \in 1 .. sz PROVE Contents[i] = Read(d, RingPlace(0, i - 1, Len(d)))
    <3>1. i - 1 \in Nat /\ i - 1 < c /\ (i - 1) + 1 = i
      BY <1>5
    <3>2. RingPlace(0, i - 1, Len(d)) = i - 1
      BY <1>5, <1>10, <3>1 DEF RingPlace
    <3>3. Read(d, i - 1) = d[i]
      BY <1>10, <3>1 DEF Read
    <3>4. QED
      BY <1>10, <2>1, <3>2, <3>3
  <2>3. 0 \in Nat /\ 0 < Len(d) /\ sz <= Len(d)
    BY <1>5, <1>10
  <2>4. QED
    BY <1>5, <1>10, <2>1, <2>2, <2>3, RingViewIs
<1>15. QED
  BY <1>12, <1>13, <1>14

\* A sequence at the front of a vector is what the ring has in it.
LEMMA RingFront ==
  ASSUME NEW d \in Seq(Elements), NEW s \in Seq(Elements), 0 < Len(d), Len(s) <= Len(d),
         \A i \in 1 .. Len(s) : d[i] = s[i]
  PROVE  RingView(d, 0, Len(s)) = s
<1> DEFINE n == Len(s)
           c == Len(d)
<1>1. n \in Nat /\ c \in Nat /\ 0 \in Nat
  OBVIOUS
<1>2. ASSUME NEW i \in 1 .. n PROVE s[i] = Read(d, RingPlace(0, i - 1, c))
  <2>1. i - 1 \in Nat /\ i - 1 < c /\ (i - 1) + 1 = i
    BY <1>1
  <2>2. RingPlace(0, i - 1, c) = i - 1
    BY <1>1, <2>1 DEF RingPlace
  <2>3. Read(d, i - 1) = d[i]
    BY <2>1 DEF Read
  <2>4. QED
    BY <2>2, <2>3
<1>3. QED
  BY <1>1, <1>2, RingViewIs

\* Inputs are sequences that are not empty.
LEMMA RingInputs ==
  ASSUME IInv, NEW s \in Inputs
  PROVE  s \in Seq(Elements) /\ Len(s) \in Nat /\ Len(s) > 0 /\ Len(s) <= use.maxSize
<1>1. PICK n \in 1 .. use.maxSize : s \in [1 .. n -> Values]
  BY DEF Inputs
<1>2. n \in Nat /\ n > 0 /\ n <= use.maxSize
  BY <1>1, RingUses
<1>3. s \in [1 .. n -> Elements]
  BY <1>1 DEF Elements
<1>4. QED
  BY <1>2, <1>3

\* Contents that are put into the vector from its beginning.
LEMMA RingFilled ==
  ASSUME IInv, ReaderUse(use), ~DequeUse(use), ~StackUse(use), NEW s \in Inputs, NEW d \in Seq(Elements),
         Len(s) <= Len(d), \A i \in 1 .. Len(s) : d[i] = s[i],
         use' = use, data' = d, head' = 0, tail' = Len(s), sz' = Len(s), needsResize' \in BOOLEAN
  PROVE  IInv' /\ Contents' = s
<1>1. s \in Seq(Elements) /\ Len(s) \in Nat /\ Len(s) > 0 /\ Len(d) \in Nat /\ 0 < Len(d)
  BY RingInputs
<1>2. Contents' = RingView(d, 0, Len(s))
  <2>1. 0 \in Nat
    OBVIOUS
  <2>2. QED
    BY <1>1, <2>1, RingNextContents
<1>3. RingView(d, 0, Len(s)) = s
  BY <1>1, RingFront
<1>4. TypeOK'
  BY <1>1 DEF IInv, TypeOK
<1>5. Layout'
  <2>1. Capacity' = Len(d)
    BY DEF Capacity
  <2>2. QED
    BY <1>1, <2>1 DEF Layout, Wrap
<1>6. UseInv'
  BY DEF IInv, UseInv
<1>7. QED
  BY <1>2, <1>3, <1>4, <1>5, <1>6 DEF IInv

LEMMA RingAssignStep ==
  ASSUME IInv, NEW s \in Inputs, assign(s)
  PROVE  IInv' /\ Contents' = s
<1>1. /\ "assign" \in use.ops /\ sz' = Len(s) /\ data' = s /\ head' = 0 /\ tail' = Len(s) /\ use' = use
      /\ needsResize' = needsResize
  BY DEF assign
<1>2. ReaderUse(use) /\ ~DequeUse(use) /\ ~StackUse(use)
  BY <1>1, RingUses
<1>3. s \in Seq(Elements) /\ Len(s) \in Nat /\ needsResize \in BOOLEAN
  BY RingInputs DEF IInv, TypeOK
<1>4. QED
  BY <1>1, <1>2, <1>3, RingFilled

LEMMA RingReceiveStep ==
  ASSUME IInv, NEW s \in Inputs, NEW target \in Len(s) .. use.maxSize, receive(target, s)
  PROVE  IInv' /\ Contents' = s
<1> DEFINE new == [head |-> 0, tail |-> 0, sz |-> 0, needsResize |-> FALSE,
                   data |-> [i \in 1 .. use.capacity |-> Blank]]
           room == ResizeTo(new, target)
           d == [i \in DOMAIN room.data |-> IF i <= Len(s) THEN s[i] ELSE room.data[i]]
           full == [room EXCEPT !.data = d]
           r == Used(full, Len(s))
<1>1. /\ "receive" \in use.ops /\ head' = r.head /\ tail' = r.tail /\ sz' = r.sz /\ data' = r.data
      /\ needsResize' = r.needsResize /\ use' = use
  BY DEF receive
<1>2. ReaderUse(use) /\ ~DequeUse(use) /\ ~StackUse(use) /\ use.maxSize \in Nat
  BY <1>1, RingUses
<1>3. s \in Seq(Elements) /\ Len(s) \in Nat /\ Len(s) > 0 /\ target \in Nat /\ Len(s) <= target
  BY <1>2, RingInputs
<1>4. use.capacity \in Nat /\ new.data \in Seq(Elements)
  <2>1. use.capacity \in Nat
    BY UsesAssumption DEF IInv, TypeOK
  <2>2. new.data \in [1 .. use.capacity -> Elements]
    BY DEF Elements
  <2>3. QED
    BY <2>1, <2>2
<1>5. new.head = 0 /\ new.tail = 0 /\ new.sz = 0
  OBVIOUS
<1> HIDE DEF new
<1>6. /\ room.head = 0 /\ room.needsResize = FALSE
      /\ DOMAIN room = {"head", "tail", "sz", "needsResize", "data"}
  BY <1>5 DEF ResizeTo
<1>7. room.data \in [1 .. target -> Elements]
  <2> DEFINE cap == Len(new.data)
             copied == IF target <= cap THEN target ELSE new.sz
             el(i) == IF i <= copied THEN Read(new.data, i - 1) ELSE Blank
  <2>1. \A i \in 1 .. target : el(i) \in Elements
    <3>1. TAKE i \in 1 .. target
    <3>2. i - 1 \in Nat
      BY <1>3
    <3>3. Read(new.data, i - 1) \in Elements /\ Blank \in Elements
      BY <1>4, <3>2, RingReads DEF Elements
    <3>4. QED
      BY <3>3
  <2>2. room.data = [i \in 1 .. target |-> el(i)]
    <3>1. new.tail >= new.head /\ \A i \in 1 .. target : new.head + (i - 1) = i - 1
      BY <1>3, <1>5
    <3>2. QED
      BY <1>5, <3>1 DEF ResizeTo
  <2> HIDE DEF el
  <2>3. QED
    BY <2>1, <2>2
<1> HIDE DEF room
<1>8. d \in Seq(Elements) /\ Len(d) = target /\ \A i \in 1 .. Len(s) : d[i] = s[i]
  <2>1. \A i \in 1 .. target : (IF i <= Len(s) THEN s[i] ELSE room.data[i]) \in Elements
    <3>1. TAKE i \in 1 .. target
    <3>2. CASE i <= Len(s)
      <4>1. i \in 1 .. Len(s)
        BY <1>3, <3>2
      <4>2. QED
        BY <1>3, <3>2, <4>1
    <3>3. CASE ~(i <= Len(s))
      BY <1>7, <3>3
    <3>4. QED
      BY <3>2, <3>3
  <2>2. d \in [1 .. target -> Elements]
    BY <1>7, <2>1
  <2>3. d \in Seq(Elements) /\ Len(d) = target
    BY <1>3, <2>2, LenProperties
  <2>4. \A i \in 1 .. Len(s) : i \in 1 .. target /\ i <= Len(s)
    BY <1>3
  <2>5. QED
    BY <1>7, <2>3, <2>4
<1> HIDE DEF d
<1>9. full.head = 0 /\ full.data = d
  BY <1>6
<1> HIDE DEF full
<1>10. r = [head |-> full.head, tail |-> Len(s), sz |-> Len(s), data |-> full.data,
            needsResize |-> full.needsResize \/ Len(s) = Len(full.data)]
  <2>1. ~(Len(s) > Len(full.data))
    BY <1>3, <1>8, <1>9
  <2>2. QED
    BY <2>1 DEF Used
<1>11. /\ r.head = 0 /\ r.tail = Len(s) /\ r.sz = Len(s) /\ r.data = d
       /\ r.needsResize = (full.needsResize \/ Len(s) = Len(full.data))
  BY <1>9, <1>10
<1> HIDE DEF r
<1>12. needsResize' \in BOOLEAN
  BY <1>1, <1>11, Zenon
<1>13. Len(s) <= Len(d)
  BY <1>3, <1>8
<1>14. QED
  BY <1>1, <1>2, <1>8, <1>11, <1>12, <1>13, RingFilled

-----------------------------------------------------------------------------
\* The vector of the constructor.
LEMMA RingInitially == ASSUME UsesAreSound, Init PROVE IInv
<1>1. /\ use \in Uses /\ head = 0 /\ tail = 0 /\ sz = 0 /\ needsResize = FALSE
      /\ data = [i \in 1 .. use.capacity |-> Blank]
  BY DEF Init
<1>2. use.capacity \in Nat /\ use.capacity > 0 /\ use.maxSize \in Nat
  BY <1>1, UsesAssumption
<1>3. data \in Seq(Elements) /\ Len(data) = use.capacity
  <2>1. data \in [1 .. use.capacity -> Elements]
    BY <1>1 DEF Elements
  <2>2. QED
    BY <1>2, <2>1, LenProperties
<1>4. Capacity = use.capacity /\ Wrap(head + sz) = 0
  BY <1>1, <1>2, <1>3 DEF Capacity, Wrap
<1>5. TypeOK
  BY <1>1, <1>3 DEF TypeOK
<1>6. Layout
  BY <1>1, <1>2, <1>4 DEF Layout
<1>7. PushInv
  BY <1>1, <1>2, <1>4 DEF PushInv
<1>8. sz <= use.maxSize
  BY <1>1, <1>2
<1>9. UseInv
  BY <1>1, <1>4, <1>7, <1>8 DEF UseInv, UsesAreSound, DequeUse
<1>10. QED
  BY <1>5, <1>6, <1>9 DEF IInv

LEMMA RingStep == IInv /\ [Next]_vars => IInv'
<1> SUFFICES ASSUME IInv, [Next]_vars PROVE IInv'
  OBVIOUS
<1>1. ASSUME NEW v \in Values, push_back(v) PROVE IInv'
  BY <1>1, RingPushBackStep
<1>2. ASSUME NEW v \in Values, push_front(v) PROVE IInv'
  BY <1>2, RingPushFrontStep
<1>3. CASE pop_back
  BY <1>3, RingPopBackStep
<1>4. CASE pop_front
  BY <1>4, RingPopFrontStep
<1>5. CASE clear
  BY <1>5, RingClearStep
<1>6. CASE make_cont
  BY <1>6, RingMakeContStep
<1>7. ASSUME NEW s \in Inputs, assign(s) PROVE IInv'
  BY <1>7, RingAssignStep
<1>8. ASSUME NEW s \in Inputs, NEW target \in Len(s) .. use.maxSize, receive(target, s) PROVE IInv'
  BY <1>8, RingReceiveStep
<1>9. CASE UNCHANGED vars
  BY <1>9 DEF vars, IInv, TypeOK, Layout, UseInv, PushInv, Capacity, Wrap
<1>10. QED
  BY <1>1, <1>2, <1>3, <1>4, <1>5, <1>6, <1>7, <1>8, <1>9, Zenon DEF Next

(***************************************************************************)
(* Every operation of the ring does to its contents what its name says,    *)
(* for every capacity, every kind of elements and all of the uses that the *)
(* code serves (ring.h: push_back, push_front, pop_back, pop_front,        *)
(* make_cont, the assignments and the resize of a stack).                  *)
(***************************************************************************)
THEOREM RingIsDeque == UsesAreSound /\ Spec => DequeSemantics
<1> DEFINE A == /\ \A v \in Values : push_back(v) => Contents' = Append(Contents, v)
                /\ \A v \in Values : push_front(v) => Contents' = <<v>> \o Contents
                /\ pop_back => Contents' = SubSeq(Contents, 1, sz - 1)
                /\ pop_front => Contents' = Tail(Contents)
                /\ make_cont => Contents' = Contents
                /\ \A s \in Inputs : assign(s) => Contents' = s
                /\ \A s \in Inputs : \A target \in Len(s) .. use.maxSize :
                     receive(target, s) => Contents' = s
<1>1. IInv => A
  BY RingPushBackStep, RingPushFrontStep, RingPopBackStep, RingPopFrontStep, RingMakeContStep,
     RingAssignStep, RingReceiveStep, Zenon
<1>2. UsesAreSound /\ Init => IInv
  BY RingInitially
<1>3. IInv /\ [Next]_vars => [A]_vars
  BY <1>1
<1> HIDE DEF A
<1>4. UsesAreSound /\ Spec => [][A]_vars
  BY <1>2, <1>3, RingStep, PTL DEF Spec
<1>5. QED
  BY <1>4 DEF DequeSemantics, A

-----------------------------------------------------------------------------
\* Two functions on 0 .. n that begin alike and go on alike are alike.
LEMMA RingSameWalk ==
  ASSUME NEW n \in Nat, NEW f, NEW g, f[0] = g[0], \A k \in 1 .. n : f[k - 1] = g[k - 1] => f[k] = g[k]
  PROVE  \A k \in 0 .. n : f[k] = g[k]
<1> DEFINE T == {k \in 0 .. n : f[k] # g[k]}
<1> SUFFICES ASSUME T # {} PROVE FALSE
  OBVIOUS
<1>1. T \in SUBSET Nat
  OBVIOUS
<1>2. PICK k \in T : \A m \in T : k <= m
  BY <1>1, LeastNumber
<1>3. k \in 0 .. n /\ f[k] # g[k]
  BY <1>2
<1>4. k # 0
  BY <1>3
<1>5. k \in 1 .. n /\ k - 1 \in 0 .. n /\ ~(k <= k - 1)
  BY <1>3, <1>4
<1>6. f[k - 1] = g[k - 1]
  BY <1>2, <1>5
<1>7. QED
  BY <1>3, <1>5, <1>6

\* The walks of the iterators, forward from begin() and back from end().
RingWalk == [k \in 0 .. sz |-> RingPlace(head, k, Capacity)]
RingWalkBack == [k \in 0 .. sz |-> RingPlace(head, sz - k, Capacity)]

LEMMA RingIterates ==
  ASSUME IInv
  PROVE  IterationVisitsAll
<1> DEFINE walk[k \in 0 .. sz] == IF k = 0 THEN begin ELSE Inc(walk[k - 1])
           back_[k \in 0 .. sz] == IF k = 0 THEN end ELSE Dec(back_[k - 1])
<1> SUFFICES ASSUME sz < Capacity /\ tail < Capacity
             PROVE  /\ \A k \in 0 .. sz : walk[k] = end <=> k = sz
                    /\ \A k \in 0 .. sz - 1 : Read(data, walk[k]) = Contents[k + 1]
                    /\ \A k \in 0 .. sz : back_[k] = walk[sz - k]
                    /\ \A j, k \in 0 .. sz : Difference(walk[j], walk[k]) = j - k
  BY DEF IterationVisitsAll
<1> DEFINE n == sz
           c == Capacity
<1>1. RingNumbers /\ data \in Seq(Elements) /\ Contents = RingView(data, head, sz)
  BY RingInNumbers
<1>2. /\ n \in Nat /\ c \in Nat /\ head \in Nat /\ head < c /\ n < c /\ tail = RingPlace(head, n, c) /\ c = Len(data)
  BY <1>1 DEF RingNumbers, Capacity
<1>3. /\ \A k \in 1 .. n : /\ Inc(RingPlace(head, k - 1, c)) = RingPlace(head, k, c)
                           /\ Dec(RingPlace(head, n - (k - 1), c)) = RingPlace(head, n - k, c)
      /\ RingPlace(head, 0, c) = head
  <2>1. ASSUME NEW k \in 1 .. n
        PROVE  /\ Inc(RingPlace(head, k - 1, c)) = RingPlace(head, k, c)
               /\ Dec(RingPlace(head, n - (k - 1), c)) = RingPlace(head, n - k, c)
    <3> HIDE DEF n, c
    <3>1. /\ Inc(RingPlace(head, k - 1, Capacity)) = RingPlace(head, k, Capacity)
          /\ Dec(RingPlace(head, n - (k - 1), Capacity)) = RingPlace(head, n - k, Capacity)
      BY <1>2 DEF RingPlace, Inc, Dec, c
    <3>2. QED
      BY <3>1 DEF c
  <2>2. RingPlace(head, 0, c) = head
    BY <1>2 DEF RingPlace
  <2>3. QED
    BY <2>1, <2>2
<1>4. walk = [k \in 0 .. n |-> IF k = 0 THEN begin ELSE Inc(walk[k - 1])]
  <2> DEFINE Eq(w) == w = [k \in 0 .. n |-> IF k = 0 THEN begin ELSE Inc(w[k - 1])]
  <2>1. Eq(RingWalk)
    <3>1. \A k \in 0 .. n : RingPlace(head, k, c) = (IF k = 0 THEN begin ELSE Inc(RingWalk[k - 1]))
      <4>1. TAKE k \in 0 .. n
      <4>2. CASE k = 0
        BY <1>3, <4>2 DEF begin
      <4>3. CASE k # 0
        <5>1. k \in 1 .. n /\ k - 1 \in 0 .. n
          BY <1>2, <4>3
        <5>2. RingWalk[k - 1] = RingPlace(head, k - 1, c)
          BY <5>1 DEF RingWalk
        <5>3. QED
          BY <1>3, <4>3, <5>1, <5>2
      <4>4. QED
        BY <4>2, <4>3
    <3>2. QED
      BY <3>1 DEF RingWalk
  <2>2. walk = CHOOSE w : Eq(w)
    OBVIOUS
  <2> HIDE DEF Eq, walk
  <2>3. Eq(walk)
    BY <2>1, <2>2
  <2>4. QED
    BY <2>3 DEF Eq
<1>5. back_ = [k \in 0 .. n |-> IF k = 0 THEN end ELSE Dec(back_[k - 1])]
  <2> DEFINE Eq(w) == w = [k \in 0 .. n |-> IF k = 0 THEN end ELSE Dec(w[k - 1])]
  <2>1. Eq(RingWalkBack)
    <3>1. \A k \in 0 .. n : RingPlace(head, n - k, c) = (IF k = 0 THEN end ELSE Dec(RingWalkBack[k - 1]))
      <4>1. TAKE k \in 0 .. n
      <4>2. CASE k = 0
        <5>1. n - k = n
          BY <1>2, <4>2
        <5>2. QED
          BY <1>2, <4>2, <5>1 DEF end
      <4>3. CASE k # 0
        <5>1. k \in 1 .. n /\ k - 1 \in 0 .. n
          BY <1>2, <4>3
        <5>2. RingWalkBack[k - 1] = RingPlace(head, n - (k - 1), c)
          BY <5>1 DEF RingWalkBack
        <5>3. QED
          BY <1>3, <4>3, <5>1, <5>2
      <4>4. QED
        BY <4>2, <4>3
    <3>2. QED
      BY <3>1 DEF RingWalkBack
  <2>2. back_ = CHOOSE w : Eq(w)
    OBVIOUS
  <2> HIDE DEF Eq, back_
  <2>3. Eq(back_)
    BY <2>1, <2>2
  <2>4. QED
    BY <2>3 DEF Eq
<1> HIDE DEF walk, back_
<1>6. \A k \in 0 .. n : walk[k] = RingPlace(head, k, c)
  <2> DEFINE g == [k \in 0 .. n |-> RingPlace(head, k, c)]
  <2>1. walk[0] = g[0]
    BY <1>2, <1>3, <1>4 DEF begin
  <2>2. ASSUME NEW k \in 1 .. n, walk[k - 1] = g[k - 1] PROVE walk[k] = g[k]
    <3>1. k \in 0 .. n /\ k - 1 \in 0 .. n /\ k # 0
      BY <1>2
    <3>2. walk[k] = Inc(walk[k - 1])
      BY <1>4, <3>1
    <3>3. g[k - 1] = RingPlace(head, k - 1, c) /\ g[k] = RingPlace(head, k, c)
      BY <3>1
    <3>4. QED
      BY <1>3, <2>2, <3>2, <3>3
  <2> HIDE DEF g
  <2>3. \A k \in 0 .. n : walk[k] = g[k]
    <3>1. n \in Nat /\ \A k \in 1 .. n : walk[k - 1] = g[k - 1] => walk[k] = g[k]
      BY <1>2, <2>2
    <3> HIDE DEF n
    <3>2. QED
      BY <2>1, <3>1, RingSameWalk
  <2>4. QED
    BY <2>3 DEF g
<1>7. \A k \in 0 .. n : back_[k] = RingPlace(head, n - k, c)
  <2> DEFINE g == [k \in 0 .. n |-> RingPlace(head, n - k, c)]
  <2>1. back_[0] = g[0]
    <3>1. n - 0 = n /\ 0 \in 0 .. n
      BY <1>2
    <3>2. QED
      BY <1>2, <1>5, <3>1 DEF end
  <2>2. ASSUME NEW k \in 1 .. n, back_[k - 1] = g[k - 1] PROVE back_[k] = g[k]
    <3>1. k \in 0 .. n /\ k - 1 \in 0 .. n /\ k # 0
      BY <1>2
    <3>2. back_[k] = Dec(back_[k - 1])
      BY <1>5, <3>1
    <3>3. g[k - 1] = RingPlace(head, n - (k - 1), c) /\ g[k] = RingPlace(head, n - k, c)
      BY <3>1
    <3>4. QED
      BY <1>3, <2>2, <3>2, <3>3
  <2> HIDE DEF g
  <2>3. \A k \in 0 .. n : back_[k] = g[k]
    <3>1. n \in Nat /\ \A k \in 1 .. n : back_[k - 1] = g[k - 1] => back_[k] = g[k]
      BY <1>2, <2>2
    <3> HIDE DEF n
    <3>2. QED
      BY <2>1, <3>1, RingSameWalk
  <2>4. QED
    BY <2>3 DEF g
<1>8. ASSUME NEW k \in 0 .. n PROVE walk[k] = end <=> k = n
  <2>1. RingPlace(head, k, c) = RingPlace(head, n, c) <=> k = n
    <3> HIDE DEF n, c
    <3>1. QED
      BY <1>2 DEF RingPlace
  <2>2. QED
    BY <1>2, <1>6, <2>1 DEF end
<1>9. ASSUME NEW k \in 0 .. n - 1 PROVE Read(data, walk[k]) = Contents[k + 1]
  <2>1. k + 1 \in 1 .. n /\ (k + 1) - 1 = k /\ k \in 0 .. n
    BY <1>2
  <2>2. n <= Len(data) /\ head < Len(data)
    BY <1>2
  <2>3. Contents[k + 1] = Read(data, RingPlace(head, (k + 1) - 1, Len(data)))
    BY <1>1, <1>2, <2>1, <2>2, RingViews
  <2>4. QED
    BY <1>2, <1>6, <2>1, <2>3
<1>10. ASSUME NEW k \in 0 .. n PROVE back_[k] = walk[n - k]
  <2>1. n - k \in 0 .. n
    BY <1>2
  <2>2. QED
    BY <1>6, <1>7, <2>1
<1>11. ASSUME NEW j \in 0 .. n, NEW k \in 0 .. n PROVE Difference(walk[j], walk[k]) = j - k
  <2>1. Difference(RingPlace(head, j, c), RingPlace(head, k, c)) = j - k
    <3>1. CASE tail > head
      <4>1. head + n < c
        <5> HIDE DEF n, c
        <5>1. QED
          BY <1>2, <3>1 DEF RingPlace
      <4>2. RingPlace(head, j, c) = head + j /\ RingPlace(head, k, c) = head + k
        <5> HIDE DEF n, c
        <5>1. QED
          BY <1>2, <4>1 DEF RingPlace
      <4>3. (head + j) - (head + k) = j - k
        BY <1>2
      <4>4. QED
        BY <3>1, <4>2, <4>3 DEF Difference
    <3>2. CASE ~(tail > head)
      <4> DEFINE flat(i) == IF i < head THEN i + c ELSE i
      <4>1. flat(RingPlace(head, j, c)) = head + j /\ flat(RingPlace(head, k, c)) = head + k
        <5> HIDE DEF n, c
        <5>1. QED
          BY <1>2 DEF RingPlace
      <4>2. (head + j) - (head + k) = j - k
        BY <1>2
      <4>3. Difference(RingPlace(head, j, c), RingPlace(head, k, c))
              = flat(RingPlace(head, j, c)) - flat(RingPlace(head, k, c))
        BY <3>2 DEF Difference
      <4>4. QED
        BY <4>1, <4>2, <4>3
    <3>3. QED
      BY <3>1, <3>2
  <2>2. QED
    BY <1>6, <2>1
<1>12. QED
  BY <1>8, <1>9, <1>10, <1>11

LEMMA RingAccess ==
  ASSUME IInv
  PROVE  AccessorsAgree
<1> DEFINE n == sz
           c == Capacity
<1>1. RingNumbers /\ data \in Seq(Elements) /\ Contents = RingView(data, head, sz)
  BY RingInNumbers
<1>2. /\ n \in Nat /\ c \in Nat /\ head \in Nat /\ tail \in Nat /\ head < c /\ n <= c /\ c = Len(data)
      /\ tail = RingPlace(head, n, c) \/ (tail = c /\ (n = 0 \/ head + n = c))
  BY <1>1 DEF RingNumbers, Capacity
<1>3. \A i \in 0 .. n - 1 : Contents[i + 1] = Read(data, RingPlace(head, i, c))
  <2>1. TAKE i \in 0 .. n - 1
  <2>2. i + 1 \in 1 .. n /\ (i + 1) - 1 = i /\ n <= Len(data) /\ head < Len(data)
    BY <1>2
  <2>3. Contents[i + 1] = Read(data, RingPlace(head, (i + 1) - 1, Len(data)))
    BY <1>1, <1>2, <2>2, RingViews
  <2>4. QED
    BY <1>2, <2>2, <2>3
<1>4. ASSUME n > 0 PROVE front = Contents[1] /\ back = Contents[n]
  <2>1. 0 \in 0 .. n - 1 /\ n - 1 \in 0 .. n - 1 /\ 0 + 1 = 1 /\ (n - 1) + 1 = n
    BY <1>2, <1>4
  <2>2. RingPlace(head, 0, c) = head
    BY <1>2 DEF RingPlace
  <2>3. RingPlace(head, n - 1, c) = IF tail = 0 THEN c - 1 ELSE tail - 1
    <3> HIDE DEF n, c
    <3>1. QED
      BY <1>2, <1>4 DEF RingPlace
  <2>4. Contents[0 + 1] = Read(data, RingPlace(head, 0, c)) /\ Contents[(n - 1) + 1] = Read(data, RingPlace(head, n - 1, c))
    BY <1>3, <2>1
  <2>5. front = Contents[1]
    BY <2>1, <2>2, <2>4 DEF front
  <2>6. back = Contents[n]
    BY <2>1, <2>3, <2>4 DEF back
  <2>7. QED
    BY <2>5, <2>6
<1>5. ASSUME NEW i \in 0 .. n - 1, head + i # c
      PROVE  /\ Read(data, Index(i)) = Contents[i + 1]
             /\ Plus(begin, i) = Index(i)
             /\ tail < c => Plus(end, i - n) = Index(i)
             /\ AtThrows(i) => tail <= head
  <2>1. Index(i) = RingPlace(head, i, c)
    BY <1>2, <1>5 DEF Index, RingPlace
  <2>2. Plus(head, i) = RingPlace(head, i, c)
    BY <1>2, <1>5 DEF Plus, RingPlace
  <2>3. ASSUME tail < c PROVE Plus(tail, i - n) = RingPlace(head, i, c)
    <3>1. tail = RingPlace(head, n, c)
      BY <1>2, <2>3
    <3>2. i \in Nat /\ i < n /\ head + i # c
      BY <1>2, <1>5
    <3> HIDE DEF n
    <3>3. CASE head + n < c
      <4>1. tail = head + n /\ tail + (i - n) = head + i
        BY <1>2, <3>1, <3>2, <3>3 DEF RingPlace
      <4>2. QED
        BY <1>2, <3>2, <3>3, <4>1 DEF Plus, RingPlace
    <3>4. CASE ~(head + n < c)
      <4>1. tail = head + n - c /\ tail + (i - n) = head + i - c
        BY <1>2, <3>1, <3>2, <3>4 DEF RingPlace
      <4>2. QED
        BY <1>2, <3>2, <3>4, <4>1 DEF Plus, RingPlace
    <3>5. QED
      BY <3>3, <3>4
  <2>4. ASSUME AtThrows(i) PROVE tail <= head
    <3>1. RingPlace(head, i, c) >= tail
      BY <2>1, <2>4 DEF AtThrows
    <3> HIDE DEF n, c
    <3>2. QED
      BY <1>2, <3>1 DEF RingPlace
  <2>5. QED
    BY <1>3, <2>1, <2>2, <2>3, <2>4 DEF begin, end
<1>6. ASSUME tail < c PROVE AtThrows(n)
  <2>1. Index(n) >= tail
    BY <1>2, <1>6 DEF Index, RingPlace
  <2>2. QED
    BY <2>1 DEF AtThrows
<1>7. QED
  BY <1>4, <1>5, <1>6 DEF AccessorsAgree

(***************************************************************************)
(* Iterators, front, back, operator[] and at show the same elements, for   *)
(* every capacity and all of the uses that the code serves, wherever head  *)
(* is and however the elements wrap around.                                *)
(***************************************************************************)
THEOREM RingViewsAgree == UsesAreSound /\ Spec => []ViewsAgree
<1>1. UsesAreSound /\ Init => IInv
  BY RingInitially
<1>2. IInv => ViewsAgree
  BY RingIterates, RingAccess DEF ViewsAgree
<1>3. QED
  BY <1>1, <1>2, RingStep, PTL DEF Spec

-----------------------------------------------------------------------------
(***************************************************************************)
(* The memory buffer                                                       *)
(***************************************************************************)

\* Products and sums of naturals are naturals.
LEMMA MemNatural ==
  ASSUME NEW a \in Nat, NEW b \in Nat, NEW c \in Nat
  PROVE  a * b + c \in Nat
<1>1. a * b \in Nat
  OBVIOUS
<1>2. QED
  BY <1>1

\* A function that is the value of the first digits up to m of them.
MemValuesTo(digits, m, v) ==
    /\ v \in [0 .. m -> Nat]
    /\ \A k \in 0 .. m : v[k] = IF k = 0 THEN 0 ELSE v[k - 1] * MemBase + digits[k]

LEMMA MemValuesExist ==
  ASSUME NEW w \in Nat, NEW digits \in [1 .. w -> Nat], NEW m \in Nat, m <= w
  PROVE  \E v : MemValuesTo(digits, m, v)
<1> DEFINE T == {n \in Nat : n <= w => \E v : MemValuesTo(digits, n, v)}
<1>1. 0 \in T
  <2> DEFINE v == [k \in 0 .. 0 |-> 0]
  <2>1. MemValuesTo(digits, 0, v)
    BY DEF MemValuesTo
  <2>2. QED
    BY <2>1
<1>2. ASSUME NEW n \in Nat, n \in T PROVE n + 1 \in T
  <2> SUFFICES ASSUME n + 1 <= w PROVE \E v : MemValuesTo(digits, n + 1, v)
    OBVIOUS
  <2>1. PICK v : MemValuesTo(digits, n, v)
    BY <1>2
  <2> DEFINE f == v[n] * MemBase + digits[n + 1]
             u == [k \in 0 .. n + 1 |-> IF k = n + 1 THEN f ELSE v[k]]
  <2>2. v[n] \in Nat /\ digits[n + 1] \in Nat
    BY <2>1 DEF MemValuesTo
  <2>3. f \in Nat
    BY <2>2, MemAssumption, MemNatural
  <2> HIDE DEF f
  <2>4. u \in [0 .. n + 1 -> Nat]
    BY <2>1, <2>3 DEF MemValuesTo
  <2>5. ASSUME NEW k \in 0 .. n + 1
        PROVE  u[k] = IF k = 0 THEN 0 ELSE u[k - 1] * MemBase + digits[k]
    <3>1. CASE k = n + 1
      <4>1. u[k] = f /\ u[k - 1] = v[n] /\ k # 0
        BY <3>1
      <4>2. QED
        BY <3>1, <4>1 DEF f
    <3>2. CASE k # n + 1
      <4>1. k \in 0 .. n /\ u[k] = v[k] /\ (k # 0 => k - 1 \in 0 .. n /\ u[k - 1] = v[k - 1])
        BY <3>2
      <4>2. QED
        BY <2>1, <4>1 DEF MemValuesTo
    <3>3. QED
      BY <3>1, <3>2
  <2> HIDE DEF u
  <2>6. QED
    BY <2>4, <2>5 DEF MemValuesTo
<1> HIDE DEF T
<1>3. Nat \subseteq T
  BY <1>1, <1>2, NatSetInduction
<1>4. QED
  BY <1>3 DEF T

\* What the value of the digits is, one digit at a time.
LEMMA MemValuesUnfold ==
  ASSUME NEW w \in Nat, NEW digits \in [1 .. w -> Nat]
  PROVE  /\ MemValues(digits, w)[0] = 0
         /\ \A k \in 1 .. w : MemValues(digits, w)[k] = MemValues(digits, w)[k - 1] * MemBase + digits[k]
<1> DEFINE D(v) == v = [k \in 0 .. w |-> IF k = 0 THEN 0 ELSE v[k - 1] * MemBase + digits[k]]
<1>1. PICK v : MemValuesTo(digits, w, v)
  BY MemValuesExist
<1>2. D(v)
  BY <1>1 DEF MemValuesTo
<1>3. MemValues(digits, w) = CHOOSE f : D(f)
  BY DEF MemValues
<1>4. D(MemValues(digits, w))
  BY <1>2, <1>3
<1>5. PICK u : u = MemValues(digits, w) /\ u = [k \in 0 .. w |-> IF k = 0 THEN 0 ELSE u[k - 1] * MemBase + digits[k]]
  BY <1>4
<1>6. u[0] = 0 /\ \A k \in 1 .. w : u[k] = u[k - 1] * MemBase + digits[k]
  <2>1. 0 \in 0 .. w /\ \A k \in 1 .. w : k \in 0 .. w /\ k # 0
    OBVIOUS
  <2>2. \A k \in 0 .. w : u[k] = IF k = 0 THEN 0 ELSE u[k - 1] * MemBase + digits[k]
    BY <1>5
  <2>3. QED
    BY <2>1, <2>2
<1>7. QED
  BY <1>5, <1>6

\* Two digits at a time, and four: a word is put together from its halves.
LEMMA MemTwoDigits ==
  ASSUME NEW v \in Nat, NEW a \in Nat, NEW b \in Nat, NEW B \in Nat
  PROVE  (v * B + a) * B + b = v * (B * B) + (a * B + b)
OBVIOUS

LEMMA MemValuesOf ==
  ASSUME NEW d, NEW w \in MemWidths, d \in [1 .. w -> Nat]
  PROVE  /\ w = 1 => MemValues(d, w)[w] = d[1]
         /\ w = 2 => MemValues(d, w)[w] = d[1] * MemBase + d[2]
         /\ w = 4 => MemValues(d, w)[w] = (d[1] * MemBase + d[2]) * MemPairs + (d[3] * MemBase + d[4])
         /\ w = 8 => MemValues(d, w)[w] =
                       ((d[1] * MemBase + d[2]) * MemPairs + (d[3] * MemBase + d[4])) * MemQuads
                         + ((d[5] * MemBase + d[6]) * MemPairs + (d[7] * MemBase + d[8]))
<1> DEFINE v == MemValues(d, w)
<1>1. w \in Nat /\ MemBase \in Nat /\ MemPairs \in Nat /\ MemQuads \in Nat
  BY MemAssumption DEF MemWidths, MemPairs, MemQuads
<1>2. v[0] = 0 /\ \A k \in 1 .. w : v[k] = v[k - 1] * MemBase + d[k]
  BY <1>1, MemValuesUnfold
<1> HIDE DEF v
<1>3. \A k \in 1 .. w : d[k] \in Nat
  OBVIOUS
<1>4. v[1] = d[1] /\ v[1] \in Nat
  <2>1. 1 \in 1 .. w /\ 1 - 1 = 0
    BY DEF MemWidths
  <2>2. QED
    BY <1>1, <1>2, <1>3, <2>1
<1>5. ASSUME w # 1 PROVE v[2] = d[1] * MemBase + d[2] /\ v[2] \in Nat
  <2>1. 2 \in 1 .. w /\ 1 \in 1 .. w /\ 2 - 1 = 1
    BY <1>5 DEF MemWidths
  <2>2. v[2] = d[1] * MemBase + d[2]
    BY <1>2, <1>4, <2>1
  <2>3. QED
    <3>1. d[1] * MemBase + d[2] \in Nat
      BY <1>1, <1>3, <2>1, MemNatural, Zenon
    <3>2. QED
      BY <2>2, <3>1, Zenon
<1>6. ASSUME NEW k \in {2, 4, 6}, k + 2 <= w, v[k] \in Nat
      PROVE  v[k + 2] = v[k] * MemPairs + (d[k + 1] * MemBase + d[k + 2]) /\ v[k + 2] \in Nat
  <2>1. k + 1 \in 1 .. w /\ k + 2 \in 1 .. w /\ (k + 1) - 1 = k /\ (k + 2) - 1 = k + 1
    BY <1>1, <1>6
  <2>2. v[k + 1] = v[k] * MemBase + d[k + 1] /\ v[k + 2] = v[k + 1] * MemBase + d[k + 2]
    BY <1>2, <2>1
  <2>3. v[k] \in Nat /\ d[k + 1] \in Nat /\ d[k + 2] \in Nat
    BY <1>3, <1>6, <2>1
  <2>4. v[k + 2] = v[k] * (MemBase * MemBase) + (d[k + 1] * MemBase + d[k + 2])
    <3>1. (v[k] * MemBase + d[k + 1]) * MemBase + d[k + 2] = v[k] * (MemBase * MemBase) + (d[k + 1] * MemBase + d[k + 2])
      <4>1. PICK u, c, e \in Nat : u = v[k] /\ c = d[k + 1] /\ e = d[k + 2]
        BY <2>3, Zenon
      <4>2. (u * MemBase + c) * MemBase + e = u * (MemBase * MemBase) + (c * MemBase + e)
        BY <1>1, MemTwoDigits
      <4>3. QED
        BY <4>1, <4>2, Zenon
    <3>2. QED
      BY <2>2, <3>1, Zenon
  <2>5. v[k + 2] = v[k] * MemPairs + (d[k + 1] * MemBase + d[k + 2])
    BY <2>4 DEF MemPairs
  <2>6. d[k + 1] * MemBase + d[k + 2] \in Nat
    BY <1>1, <2>3, MemNatural, Zenon
  <2>7. v[k] * MemPairs + (d[k + 1] * MemBase + d[k + 2]) \in Nat
    BY <1>1, <2>3, <2>6, MemNatural, Zenon
  <2>8. QED
    BY <2>5, <2>7
<1>7. ASSUME w # 1, w # 2
      PROVE  v[4] = (d[1] * MemBase + d[2]) * MemPairs + (d[3] * MemBase + d[4]) /\ v[4] \in Nat
  <2>1. 2 \in {2, 4, 6} /\ 2 + 1 = 3 /\ 2 + 2 = 4 /\ 2 + 2 <= w
    BY <1>7 DEF MemWidths
  <2>2. v[4] = v[2] * MemPairs + (d[3] * MemBase + d[4]) /\ v[4] \in Nat
    BY <1>5, <1>6, <1>7, <2>1
  <2>3. QED
    BY <1>5, <1>7, <2>2
<1>8. ASSUME w = 8
      PROVE  v[8] = v[4] * MemQuads + ((d[5] * MemBase + d[6]) * MemPairs + (d[7] * MemBase + d[8]))
  <2>1. /\ 4 \in {2, 4, 6} /\ 4 + 1 = 5 /\ 4 + 2 = 6 /\ 4 + 2 <= w
        /\ 6 \in {2, 4, 6} /\ 6 + 1 = 7 /\ 6 + 2 = 8 /\ 6 + 2 <= w
    BY <1>8
  <2>2. v[4] \in Nat
    BY <1>7, <1>8
  <2>3. v[6] = v[4] * MemPairs + (d[5] * MemBase + d[6]) /\ v[6] \in Nat
    BY <1>6, <2>1, <2>2
  <2>4. v[8] = v[6] * MemPairs + (d[7] * MemBase + d[8])
    BY <1>6, <2>1, <2>3
  <2>5. d[5] * MemBase + d[6] \in Nat /\ d[7] * MemBase + d[8] \in Nat
    BY <1>1, <1>3, <1>8
  <2>6. v[8] = v[4] * (MemPairs * MemPairs) + ((d[5] * MemBase + d[6]) * MemPairs + (d[7] * MemBase + d[8]))
    <3>1. (v[4] * MemPairs + (d[5] * MemBase + d[6])) * MemPairs + (d[7] * MemBase + d[8]) =
            v[4] * (MemPairs * MemPairs) + ((d[5] * MemBase + d[6]) * MemPairs + (d[7] * MemBase + d[8]))
      <4>1. PICK u, c, e \in Nat : u = v[4] /\ c = d[5] * MemBase + d[6] /\ e = d[7] * MemBase + d[8]
        BY <2>2, <2>5, Zenon
      <4>2. (u * MemPairs + c) * MemPairs + e = u * (MemPairs * MemPairs) + (c * MemPairs + e)
        BY <1>1, MemTwoDigits
      <4>3. QED
        BY <4>1, <4>2, Zenon
    <3>2. QED
      BY <2>3, <2>4, <3>1, Zenon
  <2>7. QED
    BY <2>6 DEF MemQuads
<1>9. QED
  <2>1. w = 1 \/ w = 2 \/ w = 4 \/ w = 8
    BY DEF MemWidths
  <2>2. CASE w = 1
    BY <1>4, <2>2 DEF v
  <2>3. CASE w = 2
    BY <1>5, <2>3 DEF v
  <2>4. CASE w = 4
    BY <1>7, <2>4 DEF v
  <2>5. CASE w = 8
    BY <1>7, <1>8, <2>5 DEF v
  <2>6. QED
    BY <2>1, <2>2, <2>3, <2>4, <2>5

-----------------------------------------------------------------------------
\* A word is the positional value of its bytes.
LEMMA MemWordIsNumber ==
  ASSUME NEW b \in Seq(Nat), NEW w \in MemWidths, NEW i \in Nat, i + w <= Len(b)
  PROVE  MemPeekAt(w, b, i) = MemNumber(b, w, i)
<1> DEFINE d == MemDigits(b, w, i)
<1>1. w \in Nat /\ Len(b) \in Nat
  BY DEF MemWidths
<1>2. \A k \in 1 .. w : /\ i + k \in 1 .. Len(b) /\ i + w + 1 - k \in 1 .. Len(b)
                        /\ b[i + k] \in Nat /\ b[i + w + 1 - k] \in Nat
  <2> SUFFICES ASSUME NEW k \in 1 .. w
               PROVE  /\ i + k \in 1 .. Len(b) /\ i + w + 1 - k \in 1 .. Len(b)
                      /\ b[i + k] \in Nat /\ b[i + w + 1 - k] \in Nat
    OBVIOUS
  <2>1. i + k \in 1 .. Len(b) /\ i + w + 1 - k \in 1 .. Len(b)
    BY <1>1
  <2>2. QED
    BY <2>1
<1>3. d \in [1 .. w -> Nat]
  BY <1>2 DEF MemDigits
<1>4. \A k \in 1 .. w : d[k] = IF memBig THEN b[i + k] ELSE b[i + w + 1 - k]
  BY DEF MemDigits
<1>5. MemNumber(b, w, i) = MemValues(d, w)[w]
  BY DEF MemNumber
<1> HIDE DEF d
<1>6. w = 1 \/ w = 2 \/ w = 4 \/ w = 8
  BY DEF MemWidths
<1>7. CASE w = 1
  <2>1. d[1] = b[i + 1]
    BY <1>4, <1>7
  <2>2. MemNumber(b, w, i) = d[1]
    BY <1>3, <1>5, MemValuesOf, <1>7
  <2>3. QED
    BY <1>7, <2>1, <2>2 DEF MemPeekAt, MemPeek1
<1>8. CASE w = 2
  <2>1. /\ d[1] = IF memBig THEN b[i + 1] ELSE b[i + 1 + 1]
        /\ d[2] = IF memBig THEN b[i + 1 + 1] ELSE b[i + 1]
    BY <1>4, <1>8
  <2>2. MemNumber(b, w, i) = d[1] * MemBase + d[2]
    BY <1>3, <1>5, <1>8, MemValuesOf
  <2>3. QED
    BY <1>8, <2>1, <2>2 DEF MemPeekAt, MemPeek1, MemPeek2, MemJoin
<1>9. CASE w = 4
  <2>1. /\ d[1] = IF memBig THEN b[i + 1] ELSE b[i + 2 + 1 + 1]
        /\ d[2] = IF memBig THEN b[i + 1 + 1] ELSE b[i + 2 + 1]
        /\ d[3] = IF memBig THEN b[i + 2 + 1] ELSE b[i + 1 + 1]
        /\ d[4] = IF memBig THEN b[i + 2 + 1 + 1] ELSE b[i + 1]
    <3>1. /\ 1 \in 1 .. w /\ 2 \in 1 .. w /\ 3 \in 1 .. w /\ 4 \in 1 .. w
          /\ i + 1 + 1 = i + 2 /\ i + 2 + 1 = i + 3 /\ i + 2 + 1 + 1 = i + 4
          /\ i + w + 1 - 1 = i + 4 /\ i + w + 1 - 2 = i + 3 /\ i + w + 1 - 3 = i + 2 /\ i + w + 1 - 4 = i + 1
      BY <1>9
    <3>2. /\ d[1] = IF memBig THEN b[i + 1] ELSE b[i + w + 1 - 1]
          /\ d[2] = IF memBig THEN b[i + 2] ELSE b[i + w + 1 - 2]
          /\ d[3] = IF memBig THEN b[i + 3] ELSE b[i + w + 1 - 3]
          /\ d[4] = IF memBig THEN b[i + 4] ELSE b[i + w + 1 - 4]
      BY <1>4, <3>1
    <3>3. QED
      BY <3>1, <3>2
  <2>2. MemNumber(b, w, i) = (d[1] * MemBase + d[2]) * MemPairs + (d[3] * MemBase + d[4])
    BY <1>3, <1>5, <1>9, MemValuesOf
  <2>3. QED
    BY <1>9, <2>1, <2>2 DEF MemPeekAt, MemPeek1, MemPeek2, MemPeek4, MemJoin
<1>10. CASE w = 8
  <2>1. /\ d[1] = IF memBig THEN b[i + 1] ELSE b[i + 4 + 2 + 1 + 1]
        /\ d[2] = IF memBig THEN b[i + 1 + 1] ELSE b[i + 4 + 2 + 1]
        /\ d[3] = IF memBig THEN b[i + 2 + 1] ELSE b[i + 4 + 1 + 1]
        /\ d[4] = IF memBig THEN b[i + 2 + 1 + 1] ELSE b[i + 4 + 1]
    BY <1>4, <1>10
  <2>2. /\ d[5] = IF memBig THEN b[i + 4 + 1] ELSE b[i + 2 + 1 + 1]
        /\ d[6] = IF memBig THEN b[i + 4 + 1 + 1] ELSE b[i + 2 + 1]
        /\ d[7] = IF memBig THEN b[i + 4 + 2 + 1] ELSE b[i + 1 + 1]
        /\ d[8] = IF memBig THEN b[i + 4 + 2 + 1 + 1] ELSE b[i + 1]
    BY <1>4, <1>10
  <2>3. MemNumber(b, w, i) =
          ((d[1] * MemBase + d[2]) * MemPairs + (d[3] * MemBase + d[4])) * MemQuads
            + ((d[5] * MemBase + d[6]) * MemPairs + (d[7] * MemBase + d[8]))
    BY <1>3, <1>5, <1>10, MemValuesOf
  <2>4. MemPeekAt(w, b, i) = MemJoin(MemPeek4(b, i), MemPeek4(b, i + 4), MemQuads)
    BY <1>10 DEF MemPeekAt, MemPeek8
  <2>5. CASE memBig
    <3>1. /\ MemPeek4(b, i) = (d[1] * MemBase + d[2]) * MemPairs + (d[3] * MemBase + d[4])
          /\ MemPeek4(b, i + 4) = (d[5] * MemBase + d[6]) * MemPairs + (d[7] * MemBase + d[8])
      BY <2>1, <2>2, <2>5, Zenon DEF MemPeek1, MemPeek2, MemPeek4, MemJoin
    <3>2. QED
      BY <2>3, <2>4, <2>5, <3>1, Zenon DEF MemJoin
  <2>6. CASE ~memBig
    <3>1. /\ MemPeek4(b, i + 4) = (d[1] * MemBase + d[2]) * MemPairs + (d[3] * MemBase + d[4])
          /\ MemPeek4(b, i) = (d[5] * MemBase + d[6]) * MemPairs + (d[7] * MemBase + d[8])
      BY <2>1, <2>2, <2>6, Zenon DEF MemPeek1, MemPeek2, MemPeek4, MemJoin
    <3>2. QED
      BY <2>3, <2>4, <2>6, <3>1, Zenon DEF MemJoin
  <2>7. QED
    BY <2>5, <2>6
<1>11. QED
  BY <1>6, <1>7, <1>8, <1>9, <1>10

-----------------------------------------------------------------------------
\* A number is its two halves.
LEMMA MemHalves ==
  ASSUME NEW x \in Nat, NEW p \in Nat \ {0}, x < p * p
  PROVE  \E q, z \in 0 .. p - 1 : q = x \div p /\ z = x % p /\ q * p + z = x
<1>1. x = p * (x \div p) + (x % p) /\ x % p \in 0 .. p - 1 /\ x \div p \in Nat
  OBVIOUS
<1> DEFINE q == x \div p
<1>2. q < p
  <2> SUFFICES ASSUME q >= p PROVE FALSE
    BY <1>1
  <2>1. p * q >= p * p
    BY <1>1
  <2>2. QED
    BY <1>1, <2>1
<1>3. PICK y \in Nat : y = x \div p
  BY <1>1
<1>4. PICK z \in Nat : z = x % p /\ z \in 0 .. p - 1
  BY <1>1
<1>5. y \in 0 .. p - 1
  BY <1>2, <1>3
<1>6. p * y = y * p
  OBVIOUS
<1>7. y * p + z = x
  BY <1>1, <1>3, <1>4, <1>6
<1>8. QED
  BY <1>3, <1>4, <1>5, <1>7

\* s is a, of n bytes, and then b, of m bytes.
MemIsConcat(a, b, n, m, s) ==
    /\ s \in Seq(Nat) /\ Len(s) = n + m
    /\ \A k \in 1 .. n : s[k] = a[k]
    /\ \A k \in 1 .. m : s[n + k] = b[k]

LEMMA MemConcat ==
  ASSUME NEW a \in Seq(Nat), NEW b \in Seq(Nat), NEW n, Len(a) = n, NEW m, Len(b) = m
  PROVE  MemIsConcat(a, b, n, m, a \o b)
<1>1. n \in Nat /\ m \in Nat
  OBVIOUS
<1>2. /\ a \o b \in Seq(Nat) /\ Len(a \o b) = n + m
      /\ \A k \in 1 .. n + m : (a \o b)[k] = IF k <= n THEN a[k] ELSE b[k - n]
  BY ConcatProperties
<1>3. \A k \in 1 .. n : k \in 1 .. n + m /\ k <= n
  BY <1>1
<1>4. \A k \in 1 .. m : n + k \in 1 .. n + m /\ ~(n + k <= n) /\ n + k - n = k
  BY <1>1
<1>5. PICK s : /\ s = a \o b /\ s \in Seq(Nat) /\ Len(s) = n + m
               /\ \A k \in 1 .. n + m : s[k] = IF k <= n THEN a[k] ELSE b[k - n]
  BY <1>2, Zenon
<1>6. \A k \in 1 .. n : s[k] = a[k]
  BY <1>3, <1>5
<1>7. \A k \in 1 .. m : s[n + k] = b[k]
  <2> SUFFICES ASSUME NEW k \in 1 .. m PROVE s[n + k] = b[k]
    OBVIOUS
  <2>1. PICK j : j = n + k /\ j \in 1 .. n + m /\ ~(j <= n) /\ j - n = k
    BY <1>4
  <2>2. s[j] = IF j <= n THEN a[j] ELSE b[j - n]
    BY <1>5, <2>1, Zenon
  <2>3. s[j] = b[k]
    BY <2>1, <2>2, Zenon
  <2>4. QED
    BY <2>1, <2>3, Zenon
<1>8. MemIsConcat(a, b, n, m, s)
  BY <1>5, <1>6, <1>7 DEF MemIsConcat
<1>9. QED
  BY <1>5, <1>8, Zenon

\* The halves in the order they are stored, and what is joined from them.
MemStore(h, l) == IF memBig THEN h \o l ELSE l \o h
MemIsStored(h, l, n, s) ==
    /\ s \in Seq(Nat) /\ Len(s) = n + n
    /\ \A k \in 1 .. n : /\ s[k] = IF memBig THEN h[k] ELSE l[k]
                         /\ s[n + k] = IF memBig THEN l[k] ELSE h[k]

LEMMA MemStored ==
  ASSUME NEW h \in Seq(Nat), NEW l \in Seq(Nat), NEW n \in Nat, Len(h) = n, Len(l) = n,
         NEW s, s = MemStore(h, l)
  PROVE  MemIsStored(h, l, n, s)
<1>1. CASE memBig
  <2>1. MemIsConcat(h, l, n, n, s)
    <3>1. s = h \o l
      BY <1>1 DEF MemStore
    <3>2. QED
      BY <3>1, MemConcat, Zenon
  <2>2. QED
    BY <1>1, <2>1 DEF MemIsConcat, MemIsStored
<1>2. CASE ~memBig
  <2>1. MemIsConcat(l, h, n, n, s)
    <3>1. s = l \o h
      BY <1>2 DEF MemStore
    <3>2. QED
      BY <3>1, MemConcat, Zenon
  <2>2. QED
    BY <1>2, <2>1 DEF MemIsConcat, MemIsStored
<1>3. QED
  BY <1>1, <1>2

LEMMA MemJoined ==
  ASSUME NEW h, NEW l, NEW p, NEW a, NEW b,
         a = IF memBig THEN h ELSE l, b = IF memBig THEN l ELSE h
  PROVE  MemJoin(a, b, p) = h * p + l
BY DEF MemJoin

\* The bytes a half contributes are found in the whole where they were put.
LEMMA MemSplitWord ==
  ASSUME NEW w \in MemWidths, NEW x \in 0 .. MemCount(w) - 1
  PROVE  MemSplit(w, x) \in Seq(Nat) /\ Len(MemSplit(w, x)) = w /\ MemPeekAt(w, MemSplit(w, x), 0) = x
<1>1. MemBase \in Nat \ {0} /\ MemPairs \in Nat \ {0} /\ MemQuads \in Nat \ {0}
  BY MemAssumption DEF MemPairs, MemQuads
<1>2. ASSUME NEW y \in Nat
      PROVE  MemSplit1(y) \in Seq(Nat) /\ Len(MemSplit1(y)) = 1 /\ MemPeek1(MemSplit1(y), 0) = y
  BY DEF MemSplit1, MemPeek1
<1>3. ASSUME NEW y \in Nat, y < MemPairs
      PROVE  MemSplit2(y) \in Seq(Nat) /\ Len(MemSplit2(y)) = 2 /\ MemPeek2(MemSplit2(y), 0) = y
  <2>1. PICK q, z \in 0 .. MemBase - 1 : q = y \div MemBase /\ z = y % MemBase /\ q * MemBase + z = y
    BY <1>1, <1>3, MemHalves DEF MemPairs
  <2> DEFINE h == MemSplit1(q)
             l == MemSplit1(z)
             s == MemStore(h, l)
  <2>2. /\ h \in Seq(Nat) /\ Len(h) = 1 /\ MemPeek1(h, 0) = q
        /\ l \in Seq(Nat) /\ Len(l) = 1 /\ MemPeek1(l, 0) = z
    BY <1>1, <1>2, <2>1
  <2>3. MemSplit2(y) = s
    BY <2>1 DEF MemSplit2, MemStore
  <2>4. s = MemStore(h, l) /\ 1 \in Nat
    OBVIOUS
  <2> HIDE DEF h, l, s
  <2>5. MemIsStored(h, l, 1, s)
    BY <2>2, <2>4, MemStored, Zenon
  <2>6. MemPeek2(s, 0) = y
    <3>1. /\ MemPeek1(s, 0) = IF memBig THEN MemPeek1(h, 0) ELSE MemPeek1(l, 0)
          /\ MemPeek1(s, 0 + 1) = IF memBig THEN MemPeek1(l, 0) ELSE MemPeek1(h, 0)
      BY <2>5 DEF MemIsStored, MemPeek1
    <3>2. MemPeek2(s, 0) = MemPeek1(h, 0) * MemBase + MemPeek1(l, 0)
      BY <3>1, MemJoined DEF MemPeek2
    <3>3. QED
      BY <2>1, <2>2, <3>2
  <2>7. QED
    BY <2>3, <2>5, <2>6 DEF MemIsStored
<1>4. ASSUME NEW y \in Nat, y < MemQuads
      PROVE  MemSplit4(y) \in Seq(Nat) /\ Len(MemSplit4(y)) = 4 /\ MemPeek4(MemSplit4(y), 0) = y
  <2>1. PICK q, z \in 0 .. MemPairs - 1 : q = y \div MemPairs /\ z = y % MemPairs /\ q * MemPairs + z = y
    BY <1>1, <1>4, MemHalves DEF MemQuads
  <2> DEFINE h == MemSplit2(q)
             l == MemSplit2(z)
             s == MemStore(h, l)
  <2>2. /\ h \in Seq(Nat) /\ Len(h) = 2 /\ MemPeek2(h, 0) = q
        /\ l \in Seq(Nat) /\ Len(l) = 2 /\ MemPeek2(l, 0) = z
    BY <1>1, <1>3, <2>1
  <2>3. MemSplit4(y) = s
    BY <2>1 DEF MemSplit4, MemStore
  <2>4. s = MemStore(h, l) /\ 2 \in Nat
    OBVIOUS
  <2> HIDE DEF h, l, s
  <2>5. MemIsStored(h, l, 2, s)
    BY <2>2, <2>4, MemStored, Zenon
  <2>6. /\ s[1] = (IF memBig THEN h[1] ELSE l[1]) /\ s[2] = (IF memBig THEN h[2] ELSE l[2])
        /\ s[3] = (IF memBig THEN l[1] ELSE h[1]) /\ s[4] = (IF memBig THEN l[2] ELSE h[2])
    BY <2>5 DEF MemIsStored
  <2>7. /\ MemPeek2(s, 0) = IF memBig THEN MemPeek2(h, 0) ELSE MemPeek2(l, 0)
        /\ MemPeek2(s, 0 + 2) = IF memBig THEN MemPeek2(l, 0) ELSE MemPeek2(h, 0)
    BY <2>6 DEF MemPeek2, MemPeek1
  <2>8. MemPeek4(s, 0) = y
    <3>1. MemPeek4(s, 0) = MemPeek2(h, 0) * MemPairs + MemPeek2(l, 0)
      BY <2>7, MemJoined DEF MemPeek4
    <3>2. QED
      BY <2>1, <2>2, <3>1
  <2>9. QED
    BY <2>3, <2>5, <2>8 DEF MemIsStored
<1>5. ASSUME NEW y \in Nat, y < MemQuads * MemQuads
      PROVE  MemSplit8(y) \in Seq(Nat) /\ Len(MemSplit8(y)) = 8 /\ MemPeek8(MemSplit8(y), 0) = y
  <2>1. PICK q, z \in 0 .. MemQuads - 1 : q = y \div MemQuads /\ z = y % MemQuads /\ q * MemQuads + z = y
    BY <1>1, <1>5, MemHalves
  <2> DEFINE h == MemSplit4(q)
             l == MemSplit4(z)
             s == MemStore(h, l)
  <2>2. /\ h \in Seq(Nat) /\ Len(h) = 4 /\ MemPeek4(h, 0) = q
        /\ l \in Seq(Nat) /\ Len(l) = 4 /\ MemPeek4(l, 0) = z
    BY <1>1, <1>4, <2>1
  <2>3. MemSplit8(y) = s
    BY <2>1 DEF MemSplit8, MemStore
  <2>4. s = MemStore(h, l) /\ 4 \in Nat
    OBVIOUS
  <2> HIDE DEF h, l, s
  <2>5. MemIsStored(h, l, 4, s)
    BY <2>2, <2>4, MemStored, Zenon
  <2>6. /\ s[1] = (IF memBig THEN h[1] ELSE l[1]) /\ s[2] = (IF memBig THEN h[2] ELSE l[2])
        /\ s[3] = (IF memBig THEN h[3] ELSE l[3]) /\ s[4] = (IF memBig THEN h[4] ELSE l[4])
        /\ s[5] = (IF memBig THEN l[1] ELSE h[1]) /\ s[6] = (IF memBig THEN l[2] ELSE h[2])
        /\ s[7] = (IF memBig THEN l[3] ELSE h[3]) /\ s[8] = (IF memBig THEN l[4] ELSE h[4])
    BY <2>5 DEF MemIsStored
  <2>7. /\ MemPeek4(s, 0) = IF memBig THEN MemPeek4(h, 0) ELSE MemPeek4(l, 0)
        /\ MemPeek4(s, 0 + 4) = IF memBig THEN MemPeek4(l, 0) ELSE MemPeek4(h, 0)
    BY <2>6 DEF MemPeek4, MemPeek2, MemPeek1
  <2>8. MemPeek8(s, 0) = y
    <3>1. MemPeek8(s, 0) = MemPeek4(h, 0) * MemQuads + MemPeek4(l, 0)
      BY <2>7, MemJoined DEF MemPeek8
    <3>2. QED
      BY <2>1, <2>2, <3>1
  <2>9. QED
    BY <2>3, <2>5, <2>8 DEF MemIsStored
<1>6. w = 1 \/ w = 2 \/ w = 4 \/ w = 8
  BY DEF MemWidths
<1>7. CASE w = 1
  <2>1. x \in Nat
    BY <1>1, <1>7 DEF MemCount
  <2>2. QED
    BY <1>2, <1>7, <2>1 DEF MemSplit, MemPeekAt
<1>8. CASE w = 2
  <2>1. x \in Nat /\ x < MemPairs
    BY <1>1, <1>8 DEF MemCount
  <2>2. QED
    BY <1>3, <1>8, <2>1 DEF MemSplit, MemPeekAt
<1>9. CASE w = 4
  <2>1. x \in Nat /\ x < MemQuads
    BY <1>1, <1>9 DEF MemCount
  <2>2. QED
    BY <1>4, <1>9, <2>1 DEF MemSplit, MemPeekAt
<1>10. CASE w = 8
  <2>1. x \in Nat /\ x < MemQuads * MemQuads
    BY <1>1, <1>10 DEF MemCount
  <2>2. QED
    BY <1>5, <1>10, <2>1 DEF MemSplit, MemPeekAt
<1>11. QED
  BY <1>6, <1>7, <1>8, <1>9, <1>10

\* A word is where its bytes are.
LEMMA MemWordMoved ==
  ASSUME NEW w \in MemWidths, NEW b \in Seq(Nat), NEW s \in Seq(Nat), Len(s) = w
  PROVE  MemPeekAt(w, b \o s, Len(b)) = MemPeekAt(w, s, 0)
<1> DEFINE n == Len(b)
           c == b \o s
<1>1. n \in Nat /\ \A k \in 1 .. w : c[n + k] = s[k]
  BY DEF MemWidths
<1> HIDE DEF n, c
<1>2. w = 1 \/ w = 2 \/ w = 4 \/ w = 8
  BY DEF MemWidths
<1>3. MemPeekAt(w, c, n) = MemPeekAt(w, s, 0)
  <2>1. CASE w = 1
    BY <1>1, <2>1 DEF MemPeekAt, MemPeek1
  <2>2. CASE w = 2
    <3>1. c[n + 1] = s[1] /\ c[n + 1 + 1] = s[2]
      BY <1>1, <2>2
    <3>2. QED
      BY <2>2, <3>1 DEF MemPeekAt, MemPeek2, MemPeek1
  <2>3. CASE w = 4
    <3>1. c[n + 1] = s[1] /\ c[n + 1 + 1] = s[2] /\ c[n + 2 + 1] = s[3] /\ c[n + 2 + 1 + 1] = s[4]
      BY <1>1, <2>3
    <3>2. QED
      BY <2>3, <3>1 DEF MemPeekAt, MemPeek4, MemPeek2, MemPeek1
  <2>4. CASE w = 8
    <3>1. c[n + 1] = s[1] /\ c[n + 1 + 1] = s[2] /\ c[n + 2 + 1] = s[3] /\ c[n + 2 + 1 + 1] = s[4]
      BY <1>1, <2>4
    <3>2. c[n + 4 + 1] = s[5] /\ c[n + 4 + 1 + 1] = s[6] /\ c[n + 4 + 2 + 1] = s[7] /\ c[n + 4 + 2 + 1 + 1] = s[8]
      BY <1>1, <2>4
    <3>3. QED
      BY <2>4, <3>1, <3>2 DEF MemPeekAt, MemPeek8, MemPeek4, MemPeek2, MemPeek1
  <2>5. QED
    BY <1>2, <2>1, <2>2, <2>3, <2>4
<1>4. QED
  BY <1>3 DEF n, c

-----------------------------------------------------------------------------
\* What operator[] shows of bytes that are not past the last cell.
LEMMA MemIndexedIsWord ==
  ASSUME MemFits, NEW past \in Nat, NEW w \in MemWidths, NEW i \in Nat, i + w <= Len(memBuffer), ~MemPeeksPast(w, i)
  PROVE  MemPeekAt(w, MemIndexed(past), i) = MemPeekAt(w, memBuffer, i)
<1> DEFINE b == MemIndexed(past)
<1>1. w \in Nat /\ memBuffer \in Seq(Nat) /\ Len(memBuffer) \in Nat /\ memHead \in Nat /\ memCells \in Nat
  BY DEF MemWidths, MemFits
<1>2. ASSUME NEW k \in 1 .. w PROVE b[i + k] = memBuffer[i + k]
  <2>1. i + k \in DOMAIN memBuffer /\ memHead + (i + k) - 1 # memCells
    BY <1>1 DEF MemPeeksPast
  <2>2. QED
    BY <2>1 DEF MemIndexed
<1> HIDE DEF b
<1>3. w = 1 \/ w = 2 \/ w = 4 \/ w = 8
  BY DEF MemWidths
<1>4. MemPeekAt(w, b, i) = MemPeekAt(w, memBuffer, i)
  <2>1. CASE w = 1
    <3>1. b[i + 1] = memBuffer[i + 1]
      BY <1>2, <2>1
    <3>2. QED
      BY <2>1, <3>1 DEF MemPeekAt, MemPeek1
  <2>2. CASE w = 2
    <3>1. b[i + 1] = memBuffer[i + 1] /\ b[i + 1 + 1] = memBuffer[i + 1 + 1]
      BY <1>2, <2>2
    <3>2. QED
      BY <2>2, <3>1 DEF MemPeekAt, MemPeek2, MemPeek1
  <2>3. CASE w = 4
    <3>1. /\ b[i + 1] = memBuffer[i + 1] /\ b[i + 1 + 1] = memBuffer[i + 1 + 1]
          /\ b[i + 2 + 1] = memBuffer[i + 2 + 1] /\ b[i + 2 + 1 + 1] = memBuffer[i + 2 + 1 + 1]
      BY <1>2, <2>3
    <3>2. QED
      BY <2>3, <3>1 DEF MemPeekAt, MemPeek4, MemPeek2, MemPeek1
  <2>4. CASE w = 8
    <3>1. /\ b[i + 1] = memBuffer[i + 1] /\ b[i + 1 + 1] = memBuffer[i + 1 + 1]
          /\ b[i + 2 + 1] = memBuffer[i + 2 + 1] /\ b[i + 2 + 1 + 1] = memBuffer[i + 2 + 1 + 1]
      BY <1>2, <2>4
    <3>2. /\ b[i + 4 + 1] = memBuffer[i + 4 + 1] /\ b[i + 4 + 1 + 1] = memBuffer[i + 4 + 1 + 1]
          /\ b[i + 4 + 2 + 1] = memBuffer[i + 4 + 2 + 1] /\ b[i + 4 + 2 + 1 + 1] = memBuffer[i + 4 + 2 + 1 + 1]
      BY <1>2, <2>4
    <3>3. QED
      BY <2>4, <3>1, <3>2 DEF MemPeekAt, MemPeek8, MemPeek4, MemPeek2, MemPeek1
  <2>5. QED
    BY <1>3, <2>1, <2>2, <2>3, <2>4
<1>5. QED
  BY <1>4 DEF b

\* The cells after a growth.
LEMMA MemGrownFits ==
  ASSUME MemFits, NEW w \in MemWidths
  PROVE  MemGrown(w) \in Nat \ {0} /\ memCells <= MemGrown(w) /\ Len(memBuffer) + w <= MemGrown(w)
<1> DEFINE n == Len(memBuffer)
           Fit(c) == /\ n + w <= c
                     /\ c = 2 * memCells \/ n + w > c \div 2
           C == {2 * memCells, 4 * memCells, 8 * memCells, 16 * memCells}
<1>1. n \in Nat /\ w \in 1 .. 8 /\ memCells \in Nat \ {0} /\ n <= memCells
  BY DEF MemFits, MemWidths
<1> HIDE DEF n
<1>2. \E c \in C : Fit(c)
  <2>1. CASE n + w <= 2 * memCells
    BY <1>1, <2>1
  <2>2. CASE n + w > 2 * memCells /\ n + w <= 4 * memCells
    <3>1. (4 * memCells) \div 2 = 2 * memCells
      BY <1>1
    <3>2. QED
      BY <1>1, <2>2, <3>1
  <2>3. CASE n + w > 4 * memCells /\ n + w <= 8 * memCells
    <3>1. (8 * memCells) \div 2 = 4 * memCells
      BY <1>1
    <3>2. QED
      BY <1>1, <2>3, <3>1
  <2>4. CASE n + w > 8 * memCells
    <3>1. (16 * memCells) \div 2 = 8 * memCells
      BY <1>1
    <3>2. QED
      BY <1>1, <2>4, <3>1
  <2>5. QED
    BY <1>1, <2>1, <2>2, <2>3, <2>4
<1>3. PICK c : c = MemGrown(w) /\ c \in C /\ Fit(c)
  <2>1. MemGrown(w) = CHOOSE c \in C : Fit(c)
    BY DEF MemGrown, n
  <2> HIDE DEF C, Fit
  <2>2. QED
    BY <1>2, <2>1, Zenon
<1>4. c \in Nat \ {0} /\ memCells <= c /\ n + w <= c
  BY <1>1, <1>3
<1>5. QED
  BY <1>3, <1>4 DEF n

\* What pops leave.
LEMMA MemPopFits ==
  ASSUME MemFits, NEW k \in Nat, MemPop(k)
  PROVE  MemFits'
<1> DEFINE n == Len(memBuffer)
           p == IF k <= Len(memBuffer) THEN k ELSE Len(memBuffer)
<1>1. memBuffer \in Seq(Nat) /\ n \in Nat /\ memCells \in Nat \ {0} /\ memHead \in 0 .. memCells - 1 /\ n <= memCells
  BY DEF MemFits
<1>2. p \in 0 .. n
  BY <1>1
<1>3. /\ memBuffer' = SubSeq(memBuffer, p + 1, n) /\ memHead' = (memHead + p) % memCells
      /\ memFull' = (memFull /\ p = 0) /\ memCells' = memCells
  BY DEF MemPop
<1> HIDE DEF n, p
<1>4. memBuffer' \in Seq(Nat) /\ Len(memBuffer') = n - p
  <2>1. p + 1 \in 1 .. n + 1 /\ n \in p .. n
    BY <1>1, <1>2
  <2>2. SubSeq(memBuffer, p + 1, n) \in Seq(Nat) /\ Len(SubSeq(memBuffer, p + 1, n)) = n - p
    BY <1>1, <1>2, <2>1, SubSeqProperties DEF n
  <2>3. QED
    BY <1>3, <2>2
<1>5. memHead' \in 0 .. memCells' - 1
  BY <1>1, <1>2, <1>3
<1>6. memFull' \in BOOLEAN /\ (memFull' => memFull /\ p = 0) /\ (memFull /\ p = 0 => memFull')
  BY <1>3 DEF MemFits
<1>7. (n = memCells => memFull) /\ (memFull => n = memCells \/ n = 0)
  BY DEF MemFits, n
<1>8. (n - p = memCells => memFull') /\ (memFull' => n - p = memCells \/ n - p = 0)
  BY <1>1, <1>2, <1>6, <1>7
<1>9. QED
  BY <1>1, <1>2, <1>3, <1>4, <1>5, <1>6, <1>8 DEF MemFits

(***************************************************************************)
(* Numbers of all widths, mixed in one buffer and in both byte orders, for *)
(* a byte with any number of values and a ring with any number of cells:   *)
(* what a read returns, what a peek returns that is not of the byte that   *)
(* operator[] looks for past the last cell, and what a write was given is  *)
(* the positional value of the bytes it took, looked at or appended.       *)
(***************************************************************************)
THEOREM MemWordsPositional == MemSpec => MemWordsArePositional
<1> DEFINE Step == LET c == memLast'
                       bytes == IF c.op = "write" THEN memBuffer' ELSE memBuffer
                   IN \/ c.op = "none"
                      \/ c.op = "peek" /\ MemPeeksPast(c.width, c.index)
                      \/ c.value = MemNumber(bytes, c.width, c.index)
<1>1. MemInit => MemFits
  <2> SUFFICES ASSUME MemInit PROVE MemFits
    OBVIOUS
  <2>1. memBuffer = <<>> /\ memHead = 0 /\ memCells \in Nat \ {0} /\ memFull = FALSE
    BY MemAssumption DEF MemInit
  <2>2. memBuffer \in Seq(Nat) /\ Len(memBuffer) = 0
    BY <2>1
  <2>3. memFull \in BOOLEAN /\ ~memFull
    BY <2>1, Zenon
  <2>4. memHead \in 0 .. memCells - 1 /\ Len(memBuffer) <= memCells /\ ~(Len(memBuffer) = memCells)
    BY <2>1, <2>2
  <2>5. QED
    BY <2>1, <2>2, <2>3, <2>4, Zenon DEF MemFits
<1>2. ASSUME MemFits, NEW w \in MemWidths, NEW i \in Nat, Len(memBuffer) >= i + w
      PROVE  i + w <= Len(memBuffer) /\ MemPeekAt(w, memBuffer, i) = MemNumber(memBuffer, w, i)
  <2>1. i + w <= Len(memBuffer) /\ memBuffer \in Seq(Nat)
    BY <1>2 DEF MemWidths, MemFits
  <2>2. QED
    BY <1>2, <2>1, MemWordIsNumber
<1>3. memLast' = MemNoCall => Step
  BY DEF MemNoCall
<1>4. ASSUME MemFits, NEW w \in MemWidths, MemRead(w) PROVE MemFits' /\ Step
  <2>1. w \in Nat
    BY DEF MemWidths
  <2>2. MemFits'
    BY <1>4, <2>1, MemPopFits DEF MemRead
  <2>3. CASE w <= Len(memBuffer)
    <3>1. memLast'.op = "read" /\ memLast'.width = w /\ memLast'.index = 0 /\ memLast'.value = MemPeekAt(w, memBuffer, 0)
      BY <1>4, <2>3 DEF MemRead
    <3>2. Len(memBuffer) \in Nat
      BY <1>4 DEF MemFits
    <3>3. Len(memBuffer) >= 0 + w
      BY <2>1, <2>3, <3>2
    <3>4. MemPeekAt(w, memBuffer, 0) = MemNumber(memBuffer, w, 0)
      BY <1>2, <1>4, <3>3
    <3>5. QED
      BY <2>2, <3>1, <3>4
  <2>4. CASE ~(w <= Len(memBuffer))
    BY <1>3, <1>4, <2>2, <2>4 DEF MemRead
  <2>5. QED
    BY <2>3, <2>4
<1>5. ASSUME MemFits, NEW w \in MemWidths, NEW i \in 0 .. MemLimit, MemPeek(w, i) PROVE MemFits' /\ Step
  <2>1. i \in Nat /\ MemBase \in Nat
    BY MemAssumption
  <2>2. MemFits'
    BY <1>5 DEF MemPeek, MemFits
  <2>3. PICK past \in 0 .. MemBase - 1 :
          memLast' = [op |-> "peek", width |-> w, index |-> i, value |-> MemPeekAt(w, MemIndexed(past), i)]
    BY <1>5 DEF MemPeek
  <2>4. memLast'.op = "peek" /\ memLast'.width = w /\ memLast'.index = i /\ memLast'.value = MemPeekAt(w, MemIndexed(past), i)
    BY <2>3
  <2>5. CASE MemPeeksPast(w, i)
    BY <2>2, <2>4, <2>5
  <2>6. CASE ~MemPeeksPast(w, i)
    <3>1. past \in Nat
      BY <2>1
    <3>2. i + w <= Len(memBuffer) /\ MemPeekAt(w, memBuffer, i) = MemNumber(memBuffer, w, i)
      BY <1>2, <1>5, <2>1 DEF MemPeek
    <3>3. MemPeekAt(w, MemIndexed(past), i) = MemPeekAt(w, memBuffer, i)
      BY <1>5, <2>1, <2>6, <3>1, <3>2, MemIndexedIsWord
    <3>4. QED
      BY <2>2, <2>4, <3>2, <3>3
  <2>7. QED
    BY <2>5, <2>6
<1>6. ASSUME MemFits, NEW w \in MemWidths, NEW x \in MemInputs[w], MemWrite(w, x) PROVE MemFits' /\ Step
  <2> DEFINE n == Len(memBuffer)
  <2>0. memBuffer \in Seq(Nat) /\ n \in Nat /\ w \in Nat /\ w > 0 /\ x \in 0 .. MemCount(w) - 1
    BY <1>6, MemAssumption DEF MemFits, MemWidths
  <2>1. MemSplit(w, x) \in Seq(Nat) /\ Len(MemSplit(w, x)) = w /\ MemPeekAt(w, MemSplit(w, x), 0) = x
    BY <2>0, MemSplitWord
  <2>2. PICK b \in Seq(Nat) : b = memBuffer \o MemSplit(w, x) /\ Len(b) = n + w
    <3>1. MemIsConcat(memBuffer, MemSplit(w, x), n, w, memBuffer \o MemSplit(w, x))
      BY <2>0, <2>1, MemConcat, Zenon
    <3>2. QED
      BY <3>1, Zenon DEF MemIsConcat
  <2>3. memBuffer' = b /\ Len(b) = n + w
    BY <1>6, <2>1, <2>2 DEF MemWrite
  <2>4. MemFits'
    <3>1. memHead' = memHead /\ memFull' = (n + w = memCells')
      BY <1>6 DEF MemWrite
    <3>2. /\ memCells \in Nat \ {0} /\ memHead \in 0 .. memCells - 1
          /\ memCells' \in Nat \ {0} /\ memCells <= memCells' /\ n + w <= memCells'
      <4>1. CASE MemGrows(w)
        <5>1. memCells' = MemGrown(w)
          BY <1>6, <4>1 DEF MemWrite
        <5>2. QED
          BY <1>6, <5>1, MemGrownFits DEF MemFits
      <4>2. CASE ~MemGrows(w)
        <5>1. memCells' = memCells
          BY <1>6, <4>2 DEF MemWrite
        <5>2. ~(n + w > memCells)
          BY <4>2 DEF MemGrows
        <5>3. memCells \in Nat \ {0} /\ memHead \in 0 .. memCells - 1
          BY <1>6 DEF MemFits
        <5> HIDE DEF n
        <5>4. QED
          BY <2>0, <5>1, <5>2, <5>3
      <4>3. QED
        BY <4>1, <4>2
    <3> HIDE DEF n
    <3>3. memHead' \in 0 .. memCells' - 1
      <4>1. memHead' = memHead
        BY <3>1, Zenon
      <4>2. PICK h, c, d : h = memHead /\ c = memCells /\ d = memCells'
        OBVIOUS
      <4>3. c \in Nat /\ h \in 0 .. c - 1 /\ d \in Nat /\ c <= d
        BY <3>2, <4>2, Zenon
      <4>4. h \in 0 .. d - 1
        BY <4>3
      <4>5. QED
        BY <4>1, <4>2, <4>4, Zenon
    <3>4. memFull' \in BOOLEAN /\ (Len(b) = memCells' <=> memFull')
      <4>1. memFull' \in BOOLEAN /\ (n + w = memCells' <=> memFull')
        BY <3>1, Zenon
      <4>2. QED
        BY <2>3, <4>1
    <3>5. QED
      BY <2>2, <2>3, <3>2, <3>3, <3>4 DEF MemFits
  <2>5. memLast'.op = "write" /\ memLast'.width = w /\ memLast'.index = n /\ memLast'.value = x
    BY <1>6 DEF MemWrite
  <2>6. MemPeekAt(w, b, n) = x
    BY <2>0, <2>1, <2>2, MemWordMoved
  <2> HIDE DEF n
  <2>7. n + w <= Len(b)
    BY <2>0, <2>3
  <2>8. MemPeekAt(w, b, n) = MemNumber(b, w, n)
    BY <2>0, <2>2, <2>7, MemWordIsNumber
  <2>9. QED
    BY <2>3, <2>4, <2>5, <2>6, <2>8
<1>7. ASSUME MemFits, NEW w \in MemWidths, MemWriteUndefined(w) PROVE MemFits' /\ Step
  BY <1>3, <1>7 DEF MemWriteUndefined, MemFits
<1>8. ASSUME MemFits, NEW n \in 1 .. MemLimit, MemSkip(n) PROVE MemFits' /\ Step
  <2>1. n \in Nat
    BY MemAssumption
  <2>2. QED
    BY <1>3, <1>8, <2>1, MemPopFits DEF MemSkip
<1>9. ASSUME MemFits, MemClear PROVE MemFits' /\ Step
  <2>1. /\ memBuffer' = <<>> /\ memHead' = 0 /\ memCells' = memCells /\ memFull' = memFull /\ memLast' = MemNoCall
        /\ memCells \in Nat \ {0} /\ memFull \in BOOLEAN
    BY <1>9 DEF MemClear, MemFits
  <2>2. memBuffer' \in Seq(Nat) /\ Len(memBuffer') = 0
    BY <2>1
  <2>3. MemFits'
    BY <2>1, <2>2 DEF MemFits
  <2>4. QED
    BY <1>3, <2>1, <2>3
<1>10. ASSUME MemFits, NEW endian \in BOOLEAN, MemSetBigEndian(endian) PROVE MemFits' /\ Step
  BY <1>3, <1>10 DEF MemSetBigEndian, MemFits
<1>11. MemFits /\ [MemNext]_memVars => MemFits' /\ (Step \/ UNCHANGED memVars)
  <2> SUFFICES ASSUME MemFits, [MemNext]_memVars PROVE MemFits' /\ (Step \/ UNCHANGED memVars)
    OBVIOUS
  <2>1. CASE UNCHANGED memVars
    BY <2>1 DEF memVars, MemFits
  <2>2. CASE MemNext
    <3> HIDE DEF Step
    <3>1. QED
      BY <1>4, <1>5, <1>6, <1>7, <1>8, <1>9, <1>10, <2>2, Zenon DEF MemNext
  <2>3. QED
    BY <2>1, <2>2
<1>12. MemFits /\ [MemNext]_memVars => [Step]_memVars
  BY <1>11
<1>13. MemSpec => []MemFits
  <2>1. MemFits /\ [MemNext]_memVars => MemFits'
    BY <1>11
  <2>2. QED
    BY <1>1, <2>1, PTL DEF MemSpec
<1>14. QED
  BY <1>12, <1>13, PTL DEF MemSpec, MemWordsArePositional

=============================================================================
