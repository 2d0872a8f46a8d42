------------------------------- MODULE Tasks -------------------------------
(***************************************************************************)
(* concurrency/coroutine/task.h and the cancellation of jobs               *)
(* (reactor.cpp, cancellable_base.cpp): coroutines that await one another, *)
(* the promises that cancel_job reaches, and the exception it causes.      *)
(*                                                                         *)
(* Module Reactor has the queues of run() and the life of user_data.  Here *)
(* a coroutine that waits may be resumed at any time, and a coroutine runs *)
(* from its resume to its next suspension without anything in between.     *)
(* A coroutine has the name of the job it was spawned with.  It is charged *)
(* to that job until it waits for a semaphore (async_semaphore.cpp), for   *)
(* which there is no user_data, so that its job may end; from then on it   *)
(* is charged to the job of the coroutine that released it.                *)
(* cancel_job is a coroutine itself; where it would use what was freed     *)
(* meanwhile the outcome is "undefined", and the model ends.  What joins a *)
(* set while cancel_job iterates over it may or may not be met; the sets   *)
(* stay below the 13 elements at which they would be rehashed.             *)
(***************************************************************************)
EXTENDS Integers, Sequences

CONSTANTS TaskJobs,     \* jobs that can be spawned
          TaskDepth,    \* bound: frames of a job
          TaskAwaits    \* bound: awaits of a job

ASSUME TaskAssumption ==
    TaskDepth \in Nat /\ TaskAwaits \in Nat /\ "none" \notin TaskJobs /\ "canceller" \notin TaskJobs

VARIABLES taskJob,       \* job -> [state, parent, cancelled, late, passed]
          taskFrames,    \* coroutine -> its frames: that of spawn, and tasks that await one another
          taskWait,      \* coroutine -> what its innermost frame waits for: [kind, hit, late, job, id]
          taskAwaits,    \* coroutine -> number of its awaits
          taskRunning,   \* the coroutine that runs
          taskThrown,    \* it was resumed with a cancellation_exception that is not caught yet
          taskCurrent,   \* current_job
          taskTarget,    \* the job that cancel() was called for
          taskCancels,   \* the calls of cancel_job within one another: [job, at, entry, seen, id]
          taskOutcome,   \* "runs", "undefined" or "terminated"
          taskHome,      \* history: coroutine -> the job it is to be charged to
          taskHomes      \* history: coroutine -> the jobs it was ever to be charged to

taskVars == <<taskJob, taskFrames, taskWait, taskAwaits, taskRunning, taskThrown, taskCurrent,
              taskTarget, taskCancels, taskOutcome, taskHome, taskHomes>>

TaskNone == "none"
TaskCanceller == "canceller"     \* the job that cancel() makes
TaskNoWait == [kind |-> "none", hit |-> FALSE, late |-> FALSE, job |-> TaskNone, id |-> 0]
\* a job: late when its parent was being cancelled at its spawn; passed (history) when cancel_job of it has returned
TaskNoJob == [state |-> "none", parent |-> TaskNone, cancelled |-> FALSE, late |-> FALSE, passed |-> FALSE]

\* a frame that is awaited: hit is the flag of the continuation_awaiter that waits for it
TaskFrame(hit) == [state |-> "new", hit |-> hit, error |-> FALSE]

TaskInit ==
    /\ taskJob = [j \in TaskJobs |-> TaskNoJob]
    /\ taskFrames = [j \in TaskJobs |-> <<>>]
    /\ taskWait = [j \in TaskJobs |-> TaskNoWait]
    /\ taskAwaits = [j \in TaskJobs |-> 0]
    /\ taskRunning = TaskNone /\ taskThrown = FALSE /\ taskCurrent = TaskNone
    /\ taskTarget = TaskNone /\ taskCancels = <<>> /\ taskOutcome = "runs"
    /\ taskHome = [j \in TaskJobs |-> j] /\ taskHomes = [j \in TaskJobs |-> {j}]

TaskTop(j) == taskFrames[j][Len(taskFrames[j])]
TaskSetTop(j, frame) == [taskFrames EXCEPT ![j][Len(taskFrames[j])] = frame]
TaskLive(j) == j \in TaskJobs /\ taskJob[j].state = "live"
TaskCancelled(j) == j \in TaskJobs /\ taskJob[j].cancelled
TaskChildren(j) == {k \in TaskJobs : taskJob[k].state = "live" /\ taskJob[k].parent = j}
\* the coroutines whose user_data is among the completions of j, as they wait
TaskCompletions(waits, j) == {k \in TaskJobs : waits[k].kind \notin {"none", "parked"} /\ waits[k].job = j}

\* the outcome of every step but a crash
TaskGoesOn == UNCHANGED <<taskTarget, taskCancels, taskOutcome>>
TaskSameHomes == UNCHANGED <<taskHome, taskHomes>>
TaskKernelSteps == taskOutcome = "runs" /\ taskRunning = TaskNone

-----------------------------------------------------------------------------
(* suspension: a new user_data for current_job, back to run() *)

TaskBegin(kind, hit) == [kind |-> kind, hit |-> hit, late |-> TaskCancelled(taskCurrent), job |-> taskCurrent,
                         id |-> taskAwaits[taskRunning] + 1]
TaskCode == taskOutcome = "runs" /\ taskRunning # TaskNone /\ ~taskThrown

TaskSuspend(wait) ==
    /\ taskWait' = [taskWait EXCEPT ![taskRunning] = wait]
    /\ taskRunning' = TaskNone /\ taskCurrent' = TaskNone /\ taskThrown' = FALSE
    /\ UNCHANGED <<taskJob>> /\ TaskGoesOn /\ TaskSameHomes

TaskAwait == TaskCode /\ taskAwaits[taskRunning] < TaskAwaits
                      /\ taskAwaits' = [taskAwaits EXCEPT ![taskRunning] = @ + 1]

\* co_await of a task: continuation_awaiter::await_suspend
TaskCall ==
    /\ TaskAwait /\ Len(taskFrames[taskRunning]) < TaskDepth
    /\ taskFrames' = [taskFrames EXCEPT ![taskRunning] = Append(@, TaskFrame(TaskCancelled(taskCurrent)))]
    /\ TaskSuspend(TaskBegin("start", FALSE))

TaskSleep == TaskAwait /\ UNCHANGED taskFrames /\ TaskSuspend(TaskBegin("sleep", TaskCancelled(taskCurrent)))
TaskDefer == TaskAwait /\ UNCHANGED taskFrames /\ TaskSuspend(TaskBegin("defer", TaskCancelled(taskCurrent)))

(* an operation: wait_for_sqe, which suspends when there is no room, then  *)
(* get_sqe, which does not look whether the job is cancelled               *)
TaskOperation ==
    /\ TaskAwait /\ UNCHANGED taskFrames
    /\ \/ TaskSuspend(TaskBegin("uring", FALSE))
       \/ TaskSuspend(TaskBegin("sqe", TaskCancelled(taskCurrent)))

-----------------------------------------------------------------------------
(* the end of a frame, and of a job *)

\* final_suspend of a task, after return or unhandled_exception: its continuation is enqueued
TaskFinal(error) ==
    /\ Len(taskFrames[taskRunning]) > 1
    /\ taskFrames' = TaskSetTop(taskRunning, [TaskTop(taskRunning) EXCEPT !.state = "done", !.error = error])
    /\ TaskSuspend(TaskBegin("final", FALSE))
    /\ UNCHANGED taskAwaits

TaskReturn == TaskCode /\ TaskFinal(FALSE)

TaskUnwind == taskOutcome = "runs" /\ taskThrown /\ TaskFinal(TRUE)

TaskCatch ==
    /\ taskOutcome = "runs" /\ taskThrown /\ Len(taskFrames[taskRunning]) > 1
    /\ taskThrown' = FALSE
    /\ UNCHANGED <<taskJob, taskFrames, taskWait, taskAwaits, taskRunning, taskCurrent>> /\ TaskGoesOn
    /\ TaskSameHomes

(* jobs whose last user_data or child is gone when the resumed user_data   *)
(* of job j is, with these waits left, up the parents: the least set with  *)
(* j, if nothing of it is left, and with whom all children are in          *)
TaskEnded(j, waits) ==
    LET over(k) == TaskLive(k) /\ TaskCompletions(waits, k) = {}
        closed(S) == /\ over(j) /\ TaskChildren(j) = {} => j \in S
                     /\ \A k \in TaskJobs : /\ over(k) /\ TaskChildren(k) # {} /\ TaskChildren(k) \subseteq S
                                            => k \in S
    IN {k \in TaskJobs : \A S \in SUBSET TaskJobs : closed(S) => k \in S}

\* the coroutine goes back to run() without a user_data for it, which may end its job
TaskLeaves(wait) ==
    /\ taskWait' = [taskWait EXCEPT ![taskRunning] = wait]
    /\ taskJob' = [k \in TaskJobs |-> IF k \in TaskEnded(taskCurrent, taskWait')
                                      THEN [taskJob[k] EXCEPT !.state = "ended"] ELSE taskJob[k]]
    /\ taskRunning' = TaskNone /\ taskCurrent' = TaskNone /\ taskThrown' = FALSE
    /\ TaskGoesOn /\ TaskSameHomes

\* the coroutine of spawn ends: by return, or by an exception, which it eats
TaskFinish ==
    /\ taskOutcome = "runs" /\ taskRunning # TaskNone /\ Len(taskFrames[taskRunning]) = 1
    /\ taskFrames' = [taskFrames EXCEPT ![taskRunning] = <<>>]
    /\ TaskLeaves(TaskNoWait)
    /\ UNCHANGED taskAwaits

\* co_await of a semaphore without a permit: the coroutine is in the queue of the semaphore alone
TaskPark ==
    /\ TaskAwait /\ UNCHANGED taskFrames
    /\ TaskLeaves([TaskNoWait EXCEPT !.kind = "parked", !.id = taskAwaits[taskRunning] + 1])

\* release() with k first in the queue, also by a destructor as the exception unwinds: enqueue for current_job
TaskRelease(k) ==
    /\ taskOutcome = "runs" /\ taskRunning # TaskNone /\ taskWait[k].kind = "parked"
    /\ taskWait' = [taskWait EXCEPT ![k] = [kind |-> "woken", hit |-> TaskCancelled(taskCurrent),
                                            late |-> TaskCancelled(taskCurrent), job |-> taskCurrent, id |-> @.id]]
    /\ taskHome' = [taskHome EXCEPT ![k] = taskHome[taskRunning]]
    /\ taskHomes' = [taskHomes EXCEPT ![k] = @ \union {taskHome[taskRunning]}]
    /\ UNCHANGED <<taskJob, taskFrames, taskAwaits, taskRunning, taskThrown, taskCurrent>> /\ TaskGoesOn

-----------------------------------------------------------------------------
(* resumption: await_resume of what was awaited *)

\* j's coroutine is resumed, with these frames, with or without the exception
TaskRuns(j, frames, thrown) ==
    /\ taskRunning' = j /\ taskCurrent' = taskWait[j].job /\ taskThrown' = thrown
    /\ taskFrames' = [taskFrames EXCEPT ![j] = frames]
    /\ taskWait' = [taskWait EXCEPT ![j] = TaskNoWait]
    /\ UNCHANGED <<taskJob, taskAwaits>> /\ TaskGoesOn /\ TaskSameHomes

\* await_resume of sleep_task, uring_promise and semaphore_awaitable throws when it is cancelled
TaskThrows(w) == w.kind \in {"sleep", "uring", "woken"} /\ w.hit

\* that of defer_again and of wait_for_sqe throws as well, but is noexcept: std::terminate
TaskTerminates(w) == w.kind \in {"defer", "sqe"} /\ w.hit

TaskResume(j) ==
    LET w == taskWait[j]
        below == SubSeq(taskFrames[j], 1, Len(taskFrames[j]) - 1)
    IN /\ TaskKernelSteps
       /\ \/ /\ w.kind = "start"        \* the task begins to run
             /\ TaskRuns(j, Append(below, [TaskTop(j) EXCEPT !.state = "live"]), FALSE)
          \/ /\ w.kind = "final"        \* continuation_awaiter::await_resume destroys the frame
             /\ TaskRuns(j, below, TaskTop(j).hit \/ TaskTop(j).error)
          \/ /\ w.kind \in {"sleep", "uring", "woken", "defer"} /\ ~TaskTerminates(w)
             /\ TaskRuns(j, taskFrames[j], TaskThrows(w))
          \/ /\ w.kind = "sleep" /\ TaskCancelled(w.job)      \* update_timer_tasks finds it first
             /\ TaskRuns(j, taskFrames[j], TRUE)
          \/ /\ w.kind = "sqe" /\ ~TaskTerminates(w)      \* and goes on with get_sqe
             /\ taskWait' = [taskWait EXCEPT ![j].kind = "uring", ![j].id = @ + TaskAwaits,
                                             ![j].late = TaskCancelled(w.job)]
             /\ UNCHANGED <<taskJob, taskFrames, taskAwaits, taskRunning, taskThrown, taskCurrent>>
             /\ TaskGoesOn /\ TaskSameHomes
          \/ /\ TaskTerminates(w)
             /\ taskOutcome' = "terminated"
             /\ UNCHANGED <<taskJob, taskFrames, taskWait, taskAwaits, taskRunning, taskThrown,
                            taskCurrent, taskTarget, taskCancels>>
             /\ TaskSameHomes

\* spawn, from outside of run() or by the coroutine that runs; it awaits its task at once
TaskSpawn(k) ==
    /\ taskOutcome = "runs" /\ ~taskThrown /\ taskJob[k].state = "none"
    /\ taskJob' = [taskJob EXCEPT ![k] = [TaskNoJob EXCEPT !.state = "live", !.parent = taskCurrent,
                                                             !.late = TaskCancelled(taskCurrent)]]
    /\ taskFrames' = [taskFrames EXCEPT ![k] = <<TaskFrame(FALSE), TaskFrame(FALSE)>>]
    /\ taskWait' = [taskWait EXCEPT ![k] = [TaskNoWait EXCEPT !.kind = "start", !.job = k, !.id = 1]]
    /\ taskAwaits' = [taskAwaits EXCEPT ![k] = 1]
    /\ UNCHANGED <<taskRunning, taskThrown, taskCurrent>> /\ TaskGoesOn /\ TaskSameHomes

-----------------------------------------------------------------------------
(* reactor_job::cancel and cancel_job *)

TaskCancelFrame(j) == [job |-> j, at |-> "start", entry |-> TaskNone, seen |-> {}, id |-> 0]
TaskUncancelled(j) == taskOutcome = "runs" /\ ~taskThrown /\ taskTarget = TaskNone /\ TaskLive(j)

\* Faulty variant: current_job stays the job of the cancellation.
TaskCancelKeepsCurrent(j) ==
    /\ TaskUncancelled(j)
    /\ taskTarget' = j /\ taskCancels' = <<TaskCancelFrame(j)>>
    /\ taskCurrent' = IF taskRunning = TaskNone THEN TaskNone ELSE TaskCanceller
    /\ UNCHANGED <<taskJob, taskFrames, taskWait, taskAwaits, taskRunning, taskThrown, taskOutcome>> /\ TaskSameHomes

\* cancel() of a job that lives: cancel_job is enqueued, for a job of its own, and current_job restored
TaskCancel(j) ==
    /\ TaskUncancelled(j)
    /\ taskTarget' = j /\ taskCancels' = <<TaskCancelFrame(j)>>
    /\ UNCHANGED <<taskJob, taskFrames, taskWait, taskAwaits, taskRunning, taskThrown, taskCurrent, taskOutcome>>
    /\ TaskSameHomes

TaskCall1 == taskCancels[Len(taskCancels)]
TaskCallers == SubSeq(taskCancels, 1, Len(taskCancels) - 1)
TaskCancelling(at) == TaskKernelSteps /\ taskCancels # <<>> /\ TaskCall1.at = at

TaskUndefined ==
    /\ taskOutcome' = "undefined"
    /\ UNCHANGED <<taskJob, taskFrames, taskWait, taskAwaits, taskRunning, taskThrown, taskCurrent,
                   taskTarget, taskCancels>>
    /\ TaskSameHomes

\* cancel() of the promises of these coroutines; a task that is to begin has its promise, the
\* continuation_awaiter, in the frame below
TaskHit(hits) ==
    /\ taskFrames' = [k \in TaskJobs |-> IF k \in hits /\ taskWait[k].kind = "start"
                                         THEN [taskFrames[k] EXCEPT ![Len(taskFrames[k])].hit = TRUE]
                                         ELSE taskFrames[k]]
    /\ taskWait' = [k \in TaskJobs |-> IF k \in hits /\ taskWait[k].kind \notin {"start", "final"}
                                       THEN [taskWait[k] EXCEPT !.hit = TRUE] ELSE taskWait[k]]

(* The loop over the completions up to its next suspension, or the return  *)
(* of cancel_job, for the job as it is in these jobs.  The promises come   *)
(* in any order; an operation is cancelled in the kernel, too, which waits *)
(* for room and then for a completion.                                     *)
TaskCancelPromises(jobs) ==
    LET n == Len(taskCancels)
        j == taskCancels[n].job
        all == TaskCompletions(taskWait, j)
        operations == {k \in all : taskWait[k].kind = "uring" /\ ~taskWait[k].hit}
        others == {k \in all : taskWait[k].kind # "uring"}
    IN \/ \E k \in operations, some \in SUBSET others, at \in {"sqe", "cqe"} :
            /\ TaskHit(some \union {k})
            /\ taskJob' = jobs
            /\ taskCancels' = [taskCancels EXCEPT ![n].at = at, ![n].entry = k, ![n].id = taskWait[k].id]
       \/ /\ \A k \in operations : taskWait[k].late
          /\ TaskHit(others)
          /\ taskJob' = [jobs EXCEPT ![j].passed = TRUE]
          /\ taskCancels' = TaskCallers

\* Faulty variant: cancel_job does not look at the children.
TaskCancelGoesAlone(jobs) ==
    /\ TaskCancelPromises(jobs)
    /\ UNCHANGED <<taskAwaits, taskRunning, taskThrown, taskCurrent, taskTarget, taskOutcome>> /\ TaskSameHomes

(* What cancel_job does up to its next suspension: it awaits itself for a  *)
(* child that is left, or goes on to the promises.                         *)
TaskCancelGoes(jobs) ==
    LET n == Len(taskCancels)
        c == taskCancels[n]
        left == TaskChildren(c.job) \ c.seen
    IN /\ \/ \E k \in left :
               /\ taskCancels' = Append([taskCancels EXCEPT ![n].at = "child", ![n].entry = k,
                                                            ![n].seen = @ \union {k}],
                                        TaskCancelFrame(k))
               /\ taskJob' = jobs
               /\ UNCHANGED <<taskFrames, taskWait>>
          \/ (\A k \in left : taskJob[k].late) /\ TaskCancelPromises(jobs)
       /\ UNCHANGED <<taskAwaits, taskRunning, taskThrown, taskCurrent, taskTarget, taskOutcome>> /\ TaskSameHomes

\* cancel_job begins; the job may have ended since cancel() was called, or since its parent was at it
TaskCancelBegins ==
    /\ TaskCancelling("start")
    /\ IF ~TaskLive(TaskCall1.job) THEN TaskUndefined
       ELSE TaskCancelGoes([taskJob EXCEPT ![TaskCall1.job].cancelled = TRUE])

\* the loop over the children goes on; the child it is at must still be in the set
TaskCancelNextChild ==
    /\ TaskCancelling("child")
    /\ IF TaskCall1.entry \notin TaskChildren(TaskCall1.job) THEN TaskUndefined
       ELSE TaskCancelGoes(taskJob)

\* the loop over the completions goes on; so must the operation it is at
TaskCancelInKernel ==
    LET c == TaskCall1
        w == taskWait[c.entry]
    IN
    /\ TaskCancelling("sqe") \/ TaskCancelling("cqe")
    /\ IF w.kind # "uring" \/ w.job # c.job \/ w.id # c.id THEN TaskUndefined
       ELSE /\ \/ /\ c.at = "sqe"
                  /\ taskCancels' = [taskCancels EXCEPT ![Len(taskCancels)].at = "cqe"]
                  /\ UNCHANGED <<taskJob, taskFrames, taskWait>>
               \/ c.at = "cqe" /\ TaskCancelPromises(taskJob)
            /\ UNCHANGED <<taskAwaits, taskRunning, taskThrown, taskCurrent, taskTarget, taskOutcome>>
            /\ TaskSameHomes

TaskNext ==
    \/ TaskCall \/ TaskSleep \/ TaskDefer \/ TaskOperation \/ TaskPark
    \/ TaskReturn \/ TaskUnwind \/ TaskCatch \/ TaskFinish
    \/ \E j \in TaskJobs : TaskResume(j) \/ TaskSpawn(j) \/ TaskRelease(j) \/ TaskCancel(j)
    \/ TaskCancelBegins \/ TaskCancelNextChild \/ TaskCancelInKernel

TaskSpec == TaskInit /\ [][TaskNext]_taskVars

-----------------------------------------------------------------------------
(* j is the job that was cancelled, or was spawned below it: it is in all  *)
(* sets that have that job and, with a job, its children                   *)
TaskClosed(S) == \A k \in TaskJobs : taskJob[k].parent \in S => k \in S
TaskBelowTarget(j) ==
    /\ taskTarget # TaskNone
    /\ \A S \in SUBSET TaskJobs : taskTarget \in S /\ TaskClosed(S) => j \in S

\* the coroutine j has a promise that is cancelled, or meets the exception
TaskTouched(j) ==
    \/ taskWait[j].hit \/ (taskThrown /\ taskRunning = j)
    \/ \E i \in DOMAIN taskFrames[j] : taskFrames[j][i].hit \/ taskFrames[j][i].error

(* Cancelling a job, from wherever, touches nobody else: an await is       *)
(* always charged to the job that its coroutine was spawned with or, once  *)
(* it has waited for a semaphore, to that of the coroutine that released   *)
(* it (current_job is what it should be after nested resumes, spawns,      *)
(* releases and cancellations); only the job that cancel() was called for  *)
(* and jobs below it are marked; and only coroutines that were charged to  *)
(* one of those have promises that are cancelled, or meet the exception.   *)
TaskCancelContained ==
    \A j \in TaskJobs :
        /\ taskWait[j].kind \notin {"none", "parked"} => taskWait[j].job = taskHome[j]
        /\ taskJob[j].cancelled => TaskBelowTarget(j)
        /\ TaskTouched(j) => \E h \in taskHomes[j] : TaskBelowTarget(h)

(* A job that was cancelled does not get away: once cancel_job of it has   *)
(* returned, the same has happened to its children, and whatever is        *)
(* charged to it will throw, the first await and the ones that begin after *)
(* the exception was caught, whether they begin before or after cancel_job *)
(* looked at its promises.  Left out are children that were spawned and    *)
(* operations that began in a job that was cancelled already (spawn does   *)
(* not pass the mark on, get_sqe does not look at it), a task that is over *)
(* already, whose result still arrives, and a coroutine in the queue of a  *)
(* semaphore, which is charged to nobody.                                  *)
TaskWillThrow(j) ==
    /\ taskWait[j].kind \in {"sleep", "defer", "sqe", "woken"} => taskWait[j].hit
    /\ taskWait[j].kind = "uring" => taskWait[j].hit \/ taskWait[j].late
    /\ taskWait[j].kind = "start" => TaskTop(j).hit
TaskCancelReaches ==
    \A j \in TaskJobs :
        taskJob[j].passed =>
            /\ \A k \in TaskChildren(j) : taskJob[k].passed \/ taskJob[k].late
            /\ \A k \in TaskCompletions(taskWait, j) : TaskWillThrow(k)

\* A cancellation hits the job it is for and the jobs below it, and nobody else.
TaskCancelExact == TaskCancelContained /\ TaskCancelReaches

-----------------------------------------------------------------------------
(* The inductive invariant *)
TaskFrameSet == [state : {"new", "live", "done"}, hit : BOOLEAN, error : BOOLEAN]
TaskWaits == [kind : {"none", "parked", "woken", "start", "final", "sleep", "uring", "defer", "sqe"},
              hit : BOOLEAN, late : BOOLEAN, job : TaskJobs \union {TaskNone}, id : Nat]
TaskCancelSet == [job : TaskJobs, at : {"start", "child", "sqe", "cqe"}, entry : TaskJobs \union {TaskNone},
                  seen : SUBSET TaskJobs, id : Nat]
TaskJobSet == [state : {"none", "live", "ended"}, parent : TaskJobs \union {TaskNone},
               cancelled : BOOLEAN, late : BOOLEAN, passed : BOOLEAN]
TaskTypes ==
    /\ taskJob \in [TaskJobs -> TaskJobSet]
    /\ taskFrames \in [TaskJobs -> Seq(TaskFrameSet)]
    /\ taskWait \in [TaskJobs -> TaskWaits]
    /\ taskAwaits \in [TaskJobs -> Nat]
    /\ taskRunning \in TaskJobs \union {TaskNone} /\ taskThrown \in BOOLEAN
    /\ taskTarget \in TaskJobs \union {TaskNone} /\ taskCancels \in Seq(TaskCancelSet)
    /\ taskHome \in [TaskJobs -> TaskJobs] /\ taskHomes \in [TaskJobs -> SUBSET TaskJobs]

\* a coroutine runs or waits, and is charged to its home; current_job is the home of the coroutine that runs
TaskCharged ==
    /\ taskCurrent = IF taskRunning = TaskNone THEN TaskNone ELSE taskHome[taskRunning]
    /\ taskThrown => taskRunning # TaskNone
    /\ \A j \in TaskJobs :
         /\ taskHome[j] \in taskHomes[j]
         /\ taskJob[j].state = "none" => taskJob[j] = TaskNoJob /\ taskHome[j] = j
         /\ taskWait[j].kind \notin {"none", "parked"} => taskWait[j].job = taskHome[j]
         /\ taskRunning = j => taskWait[j].kind = "none"
         /\ taskRunning = j \/ taskWait[j].kind # "none" => taskJob[j].state # "none" /\ taskFrames[j] # <<>>
         /\ taskWait[j].kind \in {"start", "final"} => Len(taskFrames[j]) > 1

\* cancel_job is at the target, and at jobs below it
TaskCancelsBelow ==
    /\ taskTarget = TaskNone => taskCancels = <<>>
    /\ \A i \in DOMAIN taskCancels : TaskBelowTarget(taskCancels[i].job)
    /\ \A j \in TaskJobs : taskJob[j].cancelled => TaskBelowTarget(j)
    /\ \A j \in TaskJobs : TaskTouched(j) => \E h \in taskHomes[j] : TaskBelowTarget(h)

\* where the calls of cancel_job are: each at the job of the next one, and done with what it has seen
TaskCancelsNested ==
    /\ \A j \in TaskJobs : taskJob[j].passed => taskJob[j].cancelled
    /\ \A i \in DOMAIN taskCancels :
         LET c == taskCancels[i]
             top == i = Len(taskCancels)
         IN /\ ~top => c.at = "child" /\ c.entry = taskCancels[i + 1].job
            /\ c.at # "start" => taskJob[c.job].cancelled
            /\ c.at = "start" => c.seen = {}
            /\ c.at \in {"start", "child"} => \A k \in c.seen : taskJob[k].passed \/ (~top /\ k = c.entry)
            /\ c.at \in {"sqe", "cqe"} => \A k \in TaskChildren(c.job) : taskJob[k].passed \/ taskJob[k].late

TaskIInv == TaskTypes /\ TaskCharged /\ TaskCancelsBelow /\ TaskCancelsNested /\ TaskCancelReaches
=============================================================================
