------------------------------ MODULE JobPool ------------------------------
(***************************************************************************)
(* What a pool of worker threads promises to the code that gives it jobs,  *)
(* with no thread, lock or counter in sight: a job is accepted once, jobs  *)
(* start in the order in which they were accepted, no more of them run at  *)
(* the same time than the limit in force, and a job that started ends at   *)
(* most once.  The limit never shrinks: it is the highest parallelism that *)
(* anybody has asked for so far, because lowering the parallelism of a     *)
(* Worker does not stop the threads that are already there.                *)
(***************************************************************************)
EXTENDS Integers, Sequences, FiniteSets, Functions

CONSTANT Job

VARIABLES
  waiting,    \* the jobs that nobody runs yet, oldest first
  running,    \* the jobs being run
  finished,   \* the jobs that have returned
  limit       \* how many jobs may run at the same time

poolVars == <<waiting, running, finished, limit>>

PoolInit ==
  /\ waiting = <<>>
  /\ running = {}
  /\ finished = {}
  /\ limit \in Nat

Accept(j) ==
  /\ j \notin Range(waiting) \cup running \cup finished
  /\ waiting' = Append(waiting, j)
  /\ UNCHANGED <<running, finished, limit>>

Start ==
  /\ waiting # <<>>
  /\ Cardinality(running) < limit
  /\ waiting' = Tail(waiting)
  /\ running' = running \cup {Head(waiting)}
  /\ UNCHANGED <<finished, limit>>

Finish(j) ==
  /\ j \in running
  /\ running' = running \ {j}
  /\ finished' = finished \cup {j}
  /\ UNCHANGED <<waiting, limit>>

Raise ==
  /\ limit' \in Nat
  /\ limit' >= limit
  /\ UNCHANGED <<waiting, running, finished>>

PoolNext ==
  \/ Start
  \/ Raise
  \/ \E j \in Job : Accept(j) \/ Finish(j)

PoolSpec == PoolInit /\ [][PoolNext]_poolVars
=============================================================================
