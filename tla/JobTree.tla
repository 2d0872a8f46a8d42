------------------------------ MODULE JobTree -------------------------------
(***************************************************************************)
(* What the reactor promises about jobs (reactor.h, struct job): a job     *)
(* lasts as long as a coroutine charged to it, or a child.  A coroutine is *)
(* charged to the job it was spawned with; one that parks in a semaphore   *)
(* is charged to nobody, which may end its job, and then to the job of the *)
(* coroutine that wakes it.                                                *)
(***************************************************************************)
CONSTANTS Jobs, Frames, None

VARIABLES
  alive,    \* the jobs in flight
  parent,   \* parent[j]: the job that spawned j, None for a root
  charged,  \* pairs of a coroutine and the job it is charged to
  parked    \* the coroutines that wait in semaphores

vars == <<alive, parent, charged, parked>>

Init == alive = {} /\ parent = [j \in Jobs |-> None] /\ charged = {} /\ parked = {}

\* a coroutine of job j can act
Active(j) == \E f \in Frames : <<f, j>> \in charged

Spawn(p, j, f) ==
  /\ p = None \/ Active(p)
  /\ j \in Jobs \ alive
  /\ f \notin parked /\ \A k \in Jobs : <<f, k>> \notin charged
  /\ alive' = alive \union {j}
  /\ parent' = [parent EXCEPT ![j] = p]
  /\ charged' = charged \union {<<f, j>>}
  /\ UNCHANGED parked

Finish(f, j) ==
  /\ <<f, j>> \in charged
  /\ charged' = charged \ {<<f, j>>}
  /\ UNCHANGED <<alive, parent, parked>>

Park(f, j) ==
  /\ <<f, j>> \in charged
  /\ charged' = charged \ {<<f, j>>}
  /\ parked' = parked \union {f}
  /\ UNCHANGED <<alive, parent>>

Wake(f, j) ==
  /\ f \in parked /\ Active(j)
  /\ charged' = charged \union {<<f, j>>}
  /\ parked' = parked \ {f}
  /\ UNCHANGED <<alive, parent>>

End(j) ==
  /\ j \in alive /\ ~Active(j)
  /\ \A k \in alive : parent[k] # j
  /\ alive' = alive \ {j}
  /\ parent' = [parent EXCEPT ![j] = None]
  /\ UNCHANGED <<charged, parked>>

Next ==
  \E j \in Jobs :
    \/ End(j)
    \/ \E f \in Frames :
         \/ Finish(f, j) \/ Park(f, j) \/ Wake(f, j)
         \/ \E p \in Jobs \union {None} : Spawn(p, j, f)

Spec == Init /\ [][Next]_vars

=============================================================================
