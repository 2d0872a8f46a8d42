------------------------------ MODULE Reactor -------------------------------
(***************************************************************************)
(* The coroutine reactor (concurrency/coroutine/reactor.{h,cpp}): run()    *)
(* resumes coroutines whose awaits are over.  A coroutine that awaits is   *)
(* held by a user_data, which is in the ready queue, in the timers,        *)
(* waiting for room in the submission queue, or with io_uring.  Every      *)
(* user_data belongs to a job; a job is over when it has no user_data and  *)
(* no child left.                                                          *)
(*                                                                         *)
(* A coroutine that waits for a semaphore (async_semaphore.cpp) has no     *)
(* user_data: its job may end before it does.  Whoever releases the        *)
(* semaphore makes one for it that belongs to the releaser's job, so that  *)
(* a coroutine and the job it was spawned with are different things here.  *)
(*                                                                         *)
(* run() is a sequential program: pc is its place, running the user_data   *)
(* whose coroutine it has resumed.  The kernel and the clock interleave    *)
(* with it.  A coroutine is what it asks the reactor for, in any order:    *)
(* spawn jobs, release semaphores, then one await, or the end.  Jobs are   *)
(* never cancelled here.                                                   *)
(***************************************************************************)
EXTENDS Integers, Sequences, FiniteSets, SequencesExt

CONSTANTS
  Jobs,       \* the slots of job_pool
  Data,       \* the slots of data_pool
  Frames,     \* the coroutines: frames of DetachedTask
  None,       \* the null pointer
  SQSize,     \* entries of the submission queue
  MaxAwaits,  \* bound on the awaits of one coroutine
  MaxSpawns,  \* bound on the jobs ever spawned
  MaxTime     \* bound on the clock

ASSUME NoneAssumption == None \notin Jobs /\ None \notin Data /\ None \notin Frames
ASSUME FiniteAssumption == IsFiniteSet(Jobs) /\ IsFiniteSet(Data) /\ IsFiniteSet(Frames)
ASSUME SQAssumption == SQSize \in Nat \ {0}
ASSUME BoundAssumption == MaxAwaits \in Nat /\ MaxSpawns \in Nat /\ MaxTime \in Nat

VARIABLES
  pc,                    \* where run() is, or "idle" outside of it
  running,               \* the user_data resume_stall_check has resumed
  phase,                 \* of the resumed coroutine
  ending,                \* the argument of job_lifetime_end, None when not called
  jobs,                  \* the slots of job_pool in use
  parent,                \* parent[j], of a job
  children,              \* children[j], of a job
  completions,           \* completions[j], of a job
  inflight_jobs,
  inflight_completions,
  owner,                 \* owner[d]: the parent of user_data d, None when d is free
  handle,                \* handle[d]: the coroutine that d resumes
  parked,                \* the coroutines in the queues of semaphores
  ready_queue,
  time_tasks,            \* records [time, data]
  sqe_waiters,
  sq,                    \* submission entries that the kernel has not taken
  kernel,                \* operations that the kernel works on
  cqes,                  \* the completion queue
  now,                   \* steady_clock::now()
  coroutine,             \* the frames that exist
  awaits,                \* awaits[f]: how often the coroutine f has suspended
  spawned                \* the number of jobs spawned

jobVars == <<jobs, parent, children, inflight_jobs, spawned, coroutine>>
ioVars == <<sq, kernel, cqes, inflight_completions>>
queueVars == <<ready_queue, time_tasks, sqe_waiters>>
dataVars == <<completions, owner, handle, parked>>
vars == <<pc, running, phase, ending, jobVars, dataVars, queueVars, ioVars, now, awaits>>

Times == 0 .. MaxTime
Timers == [time : Times, data : Data]

TypeOK ==
  /\ pc \in {"idle", "check", "wait", "seen", "peek", "timers", "ready", "sqe"}
  /\ running \in Data \union {None}
  /\ phase \in {"none", "code", "sqe", "over"}
  /\ ending \in Jobs \union {None}
  /\ jobs \subseteq Jobs
  /\ parent \in [Jobs -> Jobs \union {None}]
  /\ children \in [Jobs -> SUBSET Jobs]
  /\ completions \in [Jobs -> SUBSET Data]
  /\ inflight_jobs \in Int
  /\ inflight_completions \in Int
  /\ owner \in [Data -> Jobs \union {None}]
  /\ handle \in [Data -> Frames \union {None}]
  /\ parked \subseteq Frames
  /\ ready_queue \in Seq(Data)
  /\ time_tasks \in Seq(Timers)
  /\ sqe_waiters \in Seq(Data)
  /\ sq \subseteq Data
  /\ kernel \subseteq Data
  /\ cqes \in Seq(Data)
  /\ now \in Times
  /\ coroutine \subseteq Frames
  /\ awaits \in [Frames -> 0 .. MaxAwaits]
  /\ spawned \in 0 .. MaxSpawns

Init ==
  /\ pc = "idle"
  /\ running = None
  /\ phase = "none"
  /\ ending = None
  /\ jobs = {}
  /\ parent = [j \in Jobs |-> None]
  /\ children = [j \in Jobs |-> {}]
  /\ completions = [j \in Jobs |-> {}]
  /\ inflight_jobs = 0
  /\ inflight_completions = 0
  /\ owner = [d \in Data |-> None]
  /\ handle = [d \in Data |-> None]
  /\ parked = {}
  /\ ready_queue = <<>>
  /\ time_tasks = <<>>
  /\ sqe_waiters = <<>>
  /\ sq = {}
  /\ kernel = {}
  /\ cqes = <<>>
  /\ now = 0
  /\ coroutine = {}
  /\ awaits = [f \in Frames |-> 0]
  /\ spawned = 0

-----------------------------------------------------------------------------
(***************************************************************************)
(* Jobs and user_data                                                      *)
(***************************************************************************)

\* current_job: run() sets it for the time of a resume, it is null outside
current_job == IF running = None THEN None ELSE owner[running]

\* the coroutine that runs
resumed == IF running = None THEN None ELSE handle[running]

\* a user_data from the pool, for job j, that resumes f
user_data_lifetime_begin(d, j, f) ==
  /\ owner[d] = None
  /\ owner' = [owner EXCEPT ![d] = j]
  /\ handle' = [handle EXCEPT ![d] = f]
  /\ completions' = [completions EXCEPT ![j] = @ \union {d}]

\* Faulty variant: the job is not entered among the children of its parent.
job_lifetime_beginOrphan(j) ==
  /\ j \notin jobs
  /\ jobs' = jobs \union {j}
  /\ parent' = [parent EXCEPT ![j] = current_job]
  /\ inflight_jobs' = inflight_jobs + 1
  /\ UNCHANGED children

\* a job from the pool; its parent is the current job
job_lifetime_begin(j) ==
  /\ j \notin jobs
  /\ jobs' = jobs \union {j}
  /\ parent' = [parent EXCEPT ![j] = current_job]
  /\ children' = [k \in Jobs |-> IF k = current_job THEN children[k] \union {j} ELSE children[k]]
  /\ inflight_jobs' = inflight_jobs + 1

\* Faulty variant: a job ends with its last completion, whatever its children do.
ExhaustedByCompletions(j) == completions'[j] = {}

\* job j has nothing left to wait for
Exhausted(j) == completions'[j] = {} /\ children'[j] = {}

\* the destruction of the resumed user_data at the end of resume_stall_check
user_data_lifetime_end ==
  /\ phase = "over"
  /\ completions' = [completions EXCEPT ![owner[running]] = @ \ {running}]
  /\ children' = children
  /\ ending' = IF Exhausted(owner[running]) THEN owner[running] ELSE None
  /\ owner' = [owner EXCEPT ![running] = None]
  /\ handle' = [handle EXCEPT ![running] = None]
  /\ running' = None
  /\ phase' = "none"
  /\ UNCHANGED <<pc, jobs, parent, inflight_jobs, spawned, coroutine, parked, queueVars,
                 ioVars, now, awaits>>

\* one call; the recursive call on the parent is the next step
job_lifetime_end ==
  /\ ending # None
  /\ LET up == parent[ending] IN
       /\ children' = [k \in Jobs |-> IF k = up THEN children[k] \ {ending}
                                      ELSE IF k = ending THEN {} ELSE children[k]]
       /\ completions' = completions
       /\ ending' = IF up # None /\ Exhausted(up) THEN up ELSE None
  /\ inflight_jobs' = inflight_jobs - 1
  /\ jobs' = jobs \ {ending}
  /\ parent' = [parent EXCEPT ![ending] = None]
  /\ UNCHANGED <<pc, running, phase, spawned, coroutine, owner, handle, parked, queueVars,
                 ioVars, now, awaits>>

-----------------------------------------------------------------------------
(***************************************************************************)
(* What a resumed coroutine does                                           *)
(***************************************************************************)

\* spawn: the DetachedTask f runs up to its first await, which enqueues the task
spawn(j, d, f) ==
  /\ spawned < MaxSpawns
  /\ f \notin coroutine
  /\ job_lifetime_begin(j)
  /\ user_data_lifetime_begin(d, j, f)
  /\ ready_queue' = Append(ready_queue, d)
  /\ coroutine' = coroutine \union {f}
  /\ awaits' = [awaits EXCEPT ![f] = 0]
  /\ spawned' = spawned + 1
  /\ UNCHANGED <<pc, running, phase, ending, parked, time_tasks, sqe_waiters, ioVars, now>>

\* a root job, spawned before run() is called
SpawnRoot(j, d, f) == pc = "idle" /\ spawn(j, d, f)

\* a job spawned by a coroutine
SpawnChild(j, d, f) == phase = "code" /\ spawn(j, d, f)

\* the coroutine suspends; wait_for_sqe and get_sqe are one await
Suspend ==
  /\ phase = "code" => awaits[resumed] < MaxAwaits
  /\ awaits' = [awaits EXCEPT ![resumed] = IF phase = "code" THEN @ + 1 ELSE @]
  /\ phase' = "over"
  /\ UNCHANGED <<pc, running, ending, jobVars, kernel, cqes, now>>

\* it does so held by d
Await(d) ==
  /\ Suspend
  /\ user_data_lifetime_begin(d, current_job, resumed)
  /\ UNCHANGED parked

\* co_await of a semaphore without permits: semaphore_awaitable::await_suspend.
\* Which waits find a permit is in module AsyncSemaphore; await_ready, which is
\* called just before, lets those through.
acquire ==
  /\ phase = "code"
  /\ Suspend
  /\ parked' = parked \union {resumed}
  /\ UNCHANGED <<completions, owner, handle, queueVars, sq, inflight_completions>>

\* Faulty variant: the coroutine that is woken stays in the queue of the semaphore.
releaseKeeps(f, d) ==
  /\ phase = "code"
  /\ f \in parked
  /\ user_data_lifetime_begin(d, current_job, f)
  /\ ready_queue' = Append(ready_queue, d)
  /\ UNCHANGED <<pc, running, phase, ending, jobVars, parked, time_tasks, sqe_waiters, ioVars,
                 now, awaits>>

\* release() of a semaphore with f first in its queue: f is enqueued as if it
\* were the coroutine that runs, for the current job, and that one goes on
release(f, d) ==
  /\ phase = "code"
  /\ f \in parked
  /\ user_data_lifetime_begin(d, current_job, f)
  /\ parked' = parked \ {f}
  /\ ready_queue' = Append(ready_queue, d)
  /\ UNCHANGED <<pc, running, phase, ending, jobVars, time_tasks, sqe_waiters, ioVars, now,
                 awaits>>

\* co_await of a task, the end of an awaited task, or co_await coro::defer()
enqueue(d) ==
  /\ phase = "code"
  /\ Await(d)
  /\ ready_queue' = Append(ready_queue, d)
  /\ UNCHANGED <<time_tasks, sqe_waiters, sq, inflight_completions>>

\* Faulty variant: the timer is put at the end of the list.
AppendTimer(list, timer) == Append(list, timer)

\* where SortedLinkedList puts a timer: before the first that is not earlier
InsertTimer(list, timer) ==
  LET earlier == {i \in 1 .. Len(list) : list[i].time < timer.time}
  IN  InsertAt(list, Cardinality(earlier) + 1, timer)

\* co_await of a sleep until t; t may have passed since await_ready looked
add_sleep_task(t, d) ==
  /\ phase = "code"
  /\ t < MaxTime
  /\ Await(d)
  /\ IF t < now
       THEN ready_queue' = Append(ready_queue, d) /\ UNCHANGED time_tasks
       ELSE /\ time_tasks' = InsertTimer(time_tasks, [time |-> t, data |-> d])
            /\ UNCHANGED ready_queue
  /\ UNCHANGED <<sqe_waiters, sq, inflight_completions>>

\* io_uring_sq_space_left
sq_space_left == SQSize - Cardinality(sq)

\* co_await wait_for_sqe() with the submission queue full
enqueue_sqe_waiter(d) ==
  /\ phase = "code"
  /\ sq_space_left = 0
  /\ Await(d)
  /\ sqe_waiters' = Append(sqe_waiters, d)
  /\ UNCHANGED <<ready_queue, time_tasks, sq, inflight_completions>>

\* get_sqe after wait_for_sqe, submit, and co_await of the uring_promise
get_sqe(d) ==
  /\ phase \in {"code", "sqe"}
  /\ sq_space_left > 0
  /\ Await(d)
  /\ sq' = sq \union {d}
  /\ inflight_completions' = inflight_completions + 1
  /\ UNCHANGED queueVars

\* the DetachedTask ends and destroys itself
Finish ==
  /\ phase = "code"
  /\ phase' = "over"
  /\ coroutine' = coroutine \ {resumed}
  /\ UNCHANGED <<pc, running, ending, jobs, parent, children, inflight_jobs, spawned, dataVars,
                 queueVars, ioVars, now, awaits>>

-----------------------------------------------------------------------------
(***************************************************************************)
(* run()                                                                   *)
(***************************************************************************)

\* resume_stall_check has returned, or was not called
Returned == running = None /\ ending = None

\* the call of resume_stall_check for d
Resume(d, then) ==
  /\ running' = d
  /\ phase' = then
  /\ UNCHANGED <<ending, jobVars, dataVars, time_tasks, sq, kernel, now, awaits>>

RunCall ==
  /\ pc = "idle"
  /\ pc' = "check"
  /\ UNCHANGED <<running, phase, ending, jobVars, dataVars, queueVars, ioVars,
                 now, awaits>>

empty ==
  ready_queue = <<>> /\ time_tasks = <<>> /\ sqe_waiters = <<>> /\ inflight_completions = 0

\* Faulty variant: every round waits for a completion.
CheckAlwaysWaits ==
  /\ pc = "check"
  /\ pc' = IF empty THEN "idle" ELSE "wait"
  /\ UNCHANGED <<running, phase, ending, jobVars, dataVars, queueVars, ioVars,
                 now, awaits>>

\* the loop condition, and whether this round waits for a completion
Check ==
  /\ pc = "check"
  /\ pc' = IF empty THEN "idle" ELSE IF ready_queue = <<>> THEN "wait" ELSE "peek"
  /\ UNCHANGED <<running, phase, ending, jobVars, dataVars, queueVars, ioVars,
                 now, awaits>>

\* Faulty variant: the completion is not counted off.
process_cqeUncounted ==
  /\ cqes # <<>>
  /\ Resume(Head(cqes), "code")
  /\ pc' = "seen"
  /\ UNCHANGED <<ready_queue, sqe_waiters, cqes, inflight_completions>>

\* process_cqe up to the resume
process_cqe ==
  /\ cqes # <<>>
  /\ inflight_completions' = inflight_completions - 1
  /\ Resume(Head(cqes), "code")
  /\ pc' = "seen"
  /\ UNCHANGED <<ready_queue, sqe_waiters, cqes>>

\* io_uring_wait_cqe and io_uring_wait_cqe_timeout return a completion
WaitCqe == pc = "wait" /\ process_cqe

\* io_uring_wait_cqe_timeout returns as the first timer is due
WaitTimeout ==
  /\ pc = "wait"
  /\ time_tasks # <<>>
  /\ Head(time_tasks).time <= now
  /\ pc' = "peek"
  /\ UNCHANGED <<running, phase, ending, jobVars, dataVars, queueVars, ioVars,
                 now, awaits>>

\* either wait returns with an error, as on a signal
WaitInterrupted ==
  /\ pc = "wait"
  /\ pc' = "peek"
  /\ UNCHANGED <<running, phase, ending, jobVars, dataVars, queueVars, ioVars,
                 now, awaits>>

\* io_uring_cqe_seen at the end of process_cqe
CqeSeen ==
  /\ pc = "seen"
  /\ Returned
  /\ cqes' = Tail(cqes)
  /\ pc' = "peek"
  /\ UNCHANGED <<running, phase, ending, jobVars, dataVars, queueVars, sq, kernel,
                 inflight_completions, now, awaits>>

PeekFound == pc = "peek" /\ process_cqe

PeekNothing ==
  /\ pc = "peek"
  /\ cqes = <<>>
  /\ pc' = "timers"
  /\ UNCHANGED <<running, phase, ending, jobVars, dataVars, queueVars, ioVars,
                 now, awaits>>

\* how many timers are due
Due == Cardinality({i \in 1 .. Len(time_tasks) : time_tasks[i].time < now})

\* Faulty variant: the due timers stay in the list.
update_timer_tasksKeep ==
  /\ pc = "timers"
  /\ ready_queue' = ready_queue \o [i \in 1 .. Due |-> time_tasks[i].data]
  /\ pc' = "ready"
  /\ UNCHANGED <<running, phase, ending, jobVars, dataVars, time_tasks,
                 sqe_waiters, ioVars, now, awaits>>

update_timer_tasks ==
  /\ pc = "timers"
  /\ ready_queue' = ready_queue \o [i \in 1 .. Due |-> time_tasks[i].data]
  /\ time_tasks' = SubSeq(time_tasks, Due + 1, Len(time_tasks))
  /\ pc' = "ready"
  /\ UNCHANGED <<running, phase, ending, jobVars, dataVars, sqe_waiters, ioVars,
                 now, awaits>>

ResumeReady ==
  /\ pc = "ready"
  /\ Returned
  /\ ready_queue # <<>>
  /\ ready_queue' = Tail(ready_queue)
  /\ Resume(Head(ready_queue), "code")
  /\ UNCHANGED <<pc, sqe_waiters, inflight_completions, cqes>>

ReadyDrained ==
  /\ pc = "ready"
  /\ Returned
  /\ ready_queue = <<>>
  /\ pc' = "sqe"
  /\ UNCHANGED <<running, phase, ending, jobVars, dataVars, queueVars, ioVars,
                 now, awaits>>

\* Faulty variant: a waiter is resumed whether there is room or not.
ResumeWaiterAlways ==
  /\ pc = "sqe"
  /\ Returned
  /\ sqe_waiters # <<>>
  /\ sqe_waiters' = Tail(sqe_waiters)
  /\ Resume(Head(sqe_waiters), "sqe")
  /\ UNCHANGED <<pc, ready_queue, inflight_completions, cqes>>

ResumeWaiter ==
  /\ pc = "sqe"
  /\ Returned
  /\ sqe_waiters # <<>>
  /\ sq_space_left > 0
  /\ sqe_waiters' = Tail(sqe_waiters)
  /\ Resume(Head(sqe_waiters), "sqe")
  /\ UNCHANGED <<pc, ready_queue, inflight_completions, cqes>>

WaitersDone ==
  /\ pc = "sqe"
  /\ Returned
  /\ sqe_waiters = <<>> \/ sq_space_left = 0
  /\ pc' = "check"
  /\ UNCHANGED <<running, phase, ending, jobVars, dataVars, queueVars, ioVars,
                 now, awaits>>

-----------------------------------------------------------------------------
(***************************************************************************)
(* The kernel (IORING_SETUP_SQPOLL) and the clock                          *)
(***************************************************************************)

KernelTakes(d) ==
  /\ d \in sq
  /\ sq' = sq \ {d}
  /\ kernel' = kernel \union {d}
  /\ UNCHANGED <<pc, running, phase, ending, jobVars, dataVars, queueVars, cqes,
                 inflight_completions, now, awaits>>

KernelCompletes(d) ==
  /\ d \in kernel
  /\ kernel' = kernel \ {d}
  /\ cqes' = Append(cqes, d)
  /\ UNCHANGED <<pc, running, phase, ending, jobVars, dataVars, queueVars, sq,
                 inflight_completions, now, awaits>>

Tick ==
  /\ now < MaxTime
  /\ now' = now + 1
  /\ UNCHANGED <<pc, running, phase, ending, jobVars, dataVars, queueVars, ioVars,
                 awaits>>

-----------------------------------------------------------------------------
\* a step of run(), between two resumes
Loop ==
  \/ Check \/ WaitCqe \/ WaitTimeout \/ CqeSeen \/ PeekFound \/ PeekNothing
  \/ update_timer_tasks \/ ResumeReady \/ ReadyDrained \/ ResumeWaiter \/ WaitersDone

\* an await of the resumed coroutine, or its end
Coroutine ==
  \/ Finish \/ acquire
  \/ \E d \in Data :
       \/ enqueue(d) \/ enqueue_sqe_waiter(d) \/ get_sqe(d)
       \/ \E t \in Times : add_sleep_task(t, d)

Lifetime == user_data_lifetime_end \/ job_lifetime_end

Kernel == \E d \in Data : KernelTakes(d) \/ KernelCompletes(d)

Next ==
  \/ Loop \/ Coroutine \/ Lifetime \/ Kernel \/ Tick \/ RunCall \/ WaitInterrupted
  \/ \E j \in Jobs, d \in Data, f \in Frames : SpawnRoot(j, d, f) \/ SpawnChild(j, d, f)
  \/ \E f \in Frames, d \in Data : release(f, d)

Spec == Init /\ [][Next]_vars

\* run() is one thread that keeps running; a coroutine gets to its next await;
\* an operation in flight completes; the clock advances.  Nobody has to call
\* run(), to spawn, to release a semaphore, or to be interrupted.
FairSpec ==
  /\ Spec
  /\ WF_vars(Loop) /\ WF_vars(Coroutine) /\ WF_vars(Lifetime)
  /\ WF_vars(Kernel) /\ WF_vars(Tick)

-----------------------------------------------------------------------------
(***************************************************************************)
(* Properties                                                              *)
(***************************************************************************)

Count(seq, d) == Cardinality({i \in 1 .. Len(seq) : seq[i] = d})
CountIn(set, d) == IF d \in set THEN 1 ELSE 0

\* the completions that process_cqe has not been called for
Unseen == IF pc = "seen" THEN Tail(cqes) ELSE cqes

\* the user_data of a list of timers
TimerData(list) == [i \in 1 .. Len(list) |-> list[i].data]

\* how often user_data d is held: by the queues, the timers and io_uring
Held(d) ==
  Count(ready_queue, d) + Count(sqe_waiters, d) + Count(Unseen, d)
  + Count(TimerData(time_tasks), d) + CountIn(sq, d) + CountIn(kernel, d)

\* Every user_data in use is in exactly one of the ready queue, the timers,
\* the waiters for a submission entry and io_uring, once, and is taken out
\* of it before it is resumed: no coroutine is resumed twice for one await
\* (resume_stall_check consumes the user_data, reactor.h:87) and none is lost.
HeldInOnePlace ==
  \A d \in Data : Held(d) = IF owner[d] # None /\ d # running THEN 1 ELSE 0

\* A coroutine that has not finished and is not the one that runs is held by
\* exactly one user_data or is in the queue of one semaphore; one that has
\* finished is held by nobody: no coroutine waits for two things at a time, also
\* when another one wakes it, and nothing resumes a frame that has destroyed
\* itself (DetachedTask).
SuspendedOnce ==
  \A f \in Frames :
    Cardinality({d \in Data \ {running} : handle[d] = f}) + CountIn(parked, f) =
      IF f \in coroutine /\ ~(phase \in {"code", "sqe"} /\ resumed = f) THEN 1 ELSE 0

\* No coroutine is lost, and none is resumed twice: user_data and the coroutines
\* that the reactor holds belong together one to one, and the other coroutines
\* are in the queues of semaphores.
CoroutineInOnePlace == HeldInOnePlace /\ SuspendedOnce

\* What a resume or the end of a job dereferences is alive: the job of every
\* user_data in use and the parent of every job are in use, and know it
\* (user_data_lifetime_end and job_lifetime_end erase it from there).
NoDanglingJob ==
  /\ \A d \in Data : owner[d] # None => owner[d] \in jobs /\ d \in completions[owner[d]]
  /\ \A j \in jobs : parent[j] # None => parent[j] \in jobs /\ j \in children[parent[j]]

\* Between two resumes every job in flight still waits for something, and
\* inflight_jobs and inflight_completions count what they say: jobs in
\* flight, and operations that the kernel or run() has yet to complete.
NoJobLeaks ==
  Returned =>
    /\ \A j \in jobs : completions[j] # {} \/ children[j] # {}
    /\ inflight_jobs = Cardinality(jobs)
    /\ inflight_completions = Cardinality(sq) + Cardinality(kernel) + Len(Unseen)

\* A job lives exactly as long as something of it does: it does not end before
\* its last completion or child, and not later either.
JobEndsWithItsWork == NoDanglingJob /\ NoJobLeaks

\* The coroutine that was resumed because there is room in the submission
\* queue still finds it there: get_sqe after wait_for_sqe never returns the
\* null pointer, which the callers do not look for.
GetSqeNeverNull == phase = "sqe" => sq_space_left > 0

\* run() waits for a completion without a timeout only when one is to come:
\* never with only coroutines that wait for room in the submission queue.
WaitHasReason ==
  pc = "wait" /\ time_tasks = <<>> => sq # {} \/ kernel # {} \/ cqes # <<>>

\* update_timer_tasks leaves no timer behind that is due, and readies the
\* coroutines in the order of their deadlines.
NoSleeperPassedOver ==
  [][pc = "timers" /\ pc' = "ready" =>
       /\ \A i \in DOMAIN time_tasks' : time_tasks'[i].time >= now
       /\ \A i \in DOMAIN time_tasks : time_tasks[i].time < now =>
            \A k \in 1 .. i : time_tasks[k].time <= time_tasks[i].time]_vars

\* Between its calls the bookkeeping of run() is in order: a coroutine is
\* resumed with a user_data in use and from a loop that resumes, a job is
\* ended only when nothing of it is left, and the completion queue keeps the
\* entry that is being processed.
ControlInv ==
  /\ running = None <=> phase = "none"
  /\ running # None =>
       ending = None /\ owner[running] # None /\ pc \in {"seen", "ready", "sqe"}
  /\ phase \in {"code", "sqe"} => resumed \in coroutine
  /\ phase = "sqe" => pc = "sqe"
  /\ ending # None =>
       /\ pc \in {"seen", "ready", "sqe"}
       /\ ending \in jobs
       /\ completions[ending] = {} /\ children[ending] = {}
  /\ pc = "seen" => cqes # <<>>

SortedByTime(list) ==
  \A i, k \in 1 .. Len(list) : i < k => list[i].time <= list[k].time

TimersSorted == SortedByTime(time_tasks)

\* A user_data in use has a coroutine, it and its job know each other, and the
\* job is in use.
OwnersAgree ==
  /\ \A d \in Data : owner[d] = None <=> handle[d] = None
  /\ \A j \in Jobs : completions[j] = {d \in Data : owner[d] = j}
  /\ \A d \in Data : owner[d] # None => owner[d] \in jobs

\* A job and its parent know each other, and the parent is in use.
ParentsAgree ==
  /\ \A j \in Jobs : children[j] = {k \in jobs : parent[k] = j}
  /\ \A k \in jobs : parent[k] \in jobs \union {None}

\* What NoJobLeaks says, at every step: the one job with nothing left is the
\* one that job_lifetime_end is called for.
NothingLeaks ==
  /\ \A j \in jobs : completions[j] # {} \/ children[j] # {} \/ j = ending
  /\ inflight_jobs = Cardinality(jobs)
  /\ inflight_completions = Cardinality(sq) + Cardinality(kernel) + Len(Unseen)

\* Outside of its loops over the ready queue and the waiters, run() knows that
\* whoever waits for room waits for operations in flight.
WaitersHaveReason ==
  /\ pc = "idle" => sqe_waiters = <<>>
  /\ pc \in {"check", "wait"} /\ sqe_waiters # <<>> =>
       sq # {} \/ kernel # {} \/ cqes # <<>>

\* The inductive invariant of the reactor.
IInv ==
  /\ TypeOK /\ ControlInv /\ TimersSorted
  /\ HeldInOnePlace /\ SuspendedOnce
  /\ OwnersAgree /\ ParentsAgree /\ NothingLeaks
  /\ GetSqeNeverNull /\ WaitHasReason /\ WaitersHaveReason

\* the coroutines that run or are held, with the jobs they are charged to
Charged ==
  {<<handle[d], owner[d]>> :
     d \in {e \in Data : owner[e] # None /\ ~(e = running /\ phase = "over")}}

Tree == INSTANCE JobTree WITH alive <- jobs, charged <- Charged

\* A job ends when its children have ended and every coroutine charged to it has
\* finished or has parked, and not before; a coroutine is charged to the job it
\* was spawned with until it parks, and then to the job that wakes it.
ImplementsJobTree == Tree!Spec

\* run() returns: coroutines that await finitely often cannot keep it, and
\* it does not block with work left.
RunReturns == pc = "check" ~> pc = "idle"

\* Every coroutine that waits while run() runs is resumed: due sleepers,
\* completed operations and the waiters for a submission entry alike.
EveryAwaitEnds == \A d \in Data : (pc # "idle" /\ owner[d] # None) ~> (owner[d] = None)

=============================================================================
