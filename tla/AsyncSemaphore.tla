--------------------------- MODULE AsyncSemaphore ---------------------------
(***************************************************************************)
(* concurrency/coroutine/async_semaphore.cpp: coroutines of one reactor    *)
(* that use a semaphore with get_with(), whose destructor releases, or     *)
(* with acquire() and release().                                           *)
(*                                                                         *)
(* The ready queue of the reactor holds the coroutines that were woken; a  *)
(* coroutine runs until it suspends.  await_ready does not take a permit,  *)
(* and await_suspend is only called when there is none.                    *)
(***************************************************************************)
EXTENDS Integers, Sequences, SequencesExt

CONSTANTS SemTasks,       \* the coroutines
          SemInitial,     \* initial values of permits_
          SemMaxPermits   \* bound: permits_

ASSUME SemAssumption == SemInitial \subseteq Int /\ SemMaxPermits \in Int

VARIABLES semPermits,   \* permits_
          semWaiting,   \* waiting
          semReady,     \* woken, in the ready queue of the reactor
          semPc         \* coroutine -> "outside", "waiting", "inside" or "done"

semVars == <<semPermits, semWaiting, semReady, semPc>>

SemInit ==
    /\ semPermits = 0 /\ semWaiting = <<>> /\ semReady = <<>>
    /\ semPc = [t \in SemTasks |-> "outside"]

\* the constructor, before any coroutine runs
SemConstruct(initial) ==
    /\ semPermits = 0 /\ \A t \in SemTasks : semPc[t] = "outside"
    /\ semPermits' = initial
    /\ UNCHANGED <<semWaiting, semReady, semPc>>

\* co_await of acquire() or get_with(): await_ready, and await_suspend if it is false
SemAwait(t) ==
    /\ semPc[t] = "outside"
    /\ IF semPermits > 0
       THEN semPc' = [semPc EXCEPT ![t] = "inside"] /\ UNCHANGED semWaiting
       ELSE /\ semPc' = [semPc EXCEPT ![t] = "waiting"]
            /\ semWaiting' = Append(semWaiting, t)
    /\ UNCHANGED <<semPermits, semReady>>

\* the reactor resumes the first coroutine of its queue
SemResume ==
    /\ semReady # <<>>
    /\ semPc' = [semPc EXCEPT ![Head(semReady)] = "inside"]
    /\ semReady' = Tail(semReady)
    /\ UNCHANGED <<semPermits, semWaiting>>

\* Faulty variant: a coroutine is woken only by the first permit.
SemReleaseEffectOnFirst ==
    /\ semPermits' = semPermits + 1
    /\ IF semWaiting # <<>> /\ semPermits = 0
       THEN semReady' = Append(semReady, Head(semWaiting)) /\ semWaiting' = Tail(semWaiting)
       ELSE UNCHANGED <<semReady, semWaiting>>

\* release
SemReleaseEffect ==
    /\ semPermits' = semPermits + 1
    /\ IF semWaiting # <<>>
       THEN semReady' = Append(semReady, Head(semWaiting)) /\ semWaiting' = Tail(semWaiting)
       ELSE UNCHANGED <<semReady, semWaiting>>

\* ~deferrable_awaitable, or a call of release by the coroutine that acquired
SemLeave(t) ==
    /\ semPc[t] = "inside" /\ semPermits < SemMaxPermits
    /\ SemReleaseEffect
    /\ semPc' = [semPc EXCEPT ![t] = "done"]

\* release by somebody else, who signals
SemSignal ==
    /\ semPermits < SemMaxPermits - Len(semWaiting)
    /\ SemReleaseEffect
    /\ UNCHANGED semPc

SemNext ==
    \/ \E initial \in SemInitial : SemConstruct(initial)
    \/ \E t \in SemTasks : SemAwait(t) \/ SemLeave(t)
    \/ SemResume \/ SemSignal

SemSpec == SemInit /\ [][SemNext]_semVars

-----------------------------------------------------------------------------
(* No wake-up is lost: once there was a release, every coroutine that      *)
(* waits will be woken, because somebody ahead of it was woken or is       *)
(* inside and will release in turn; and each coroutine waits in one place. *)
(* (release wakes one coroutine only, and await_suspend never looks at the *)
(* permits again.)                                                         *)
SemNoLostWakeup ==
    /\ semWaiting # <<>> /\ semPermits > 0 =>
         semReady # <<>> \/ \E t \in SemTasks : semPc[t] = "inside"
    /\ \A t \in SemTasks :
         (semPc[t] = "waiting") <=> t \in Range(semWaiting) \union Range(semReady)
    /\ Range(semWaiting) \intersect Range(semReady) = {}

SemTypeOK ==
    /\ semPermits \in Int
    /\ semWaiting \in Seq(SemTasks) /\ semReady \in Seq(SemTasks)
    /\ semPc \in [SemTasks -> {"outside", "waiting", "inside", "done"}]

\* What makes it inductive: no coroutine is twice in one of the queues.
SemIInv == SemTypeOK /\ SemNoLostWakeup /\ IsInjective(semWaiting) /\ IsInjective(semReady)
=============================================================================
