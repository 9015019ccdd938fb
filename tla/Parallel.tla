------------------------------ MODULE Parallel ------------------------------
(***************************************************************************)
(* mk::parallel (common/parallel.hpp): run `size` asynchronous operations  *)
(* and call back once, with one overall error, when all of them are done.  *)
(* A call in progress is a record.  The parallelism here is 0, as in the   *)
(* two callers that are modelled: every operation has a lane of its own,   *)
(* and parallel() starts them one after the other.                         *)
(***************************************************************************)
EXTENDS Integers

ParallelCall(size) == [size |-> size, completed |-> 0, failed |-> FALSE]

\* Mutant of OneDone: the first operation to complete decides.
OneDoneFirstDecides(p, error) ==
  [p EXCEPT !.completed = @ + 1,
            !.failed = IF p.completed = 0 THEN error ELSE @]

\* An operation completes.  The first error of any makes the overall error.
OneDone(p, error) ==
  [p EXCEPT !.completed = @ + 1, !.failed = @ \/ error]

\* Mutant of AllDone: fail fast.
AllDoneOrFailed(p) == p.completed = p.size \/ p.failed

\* It is time to call back; with no operation at all, that is at once.
AllDone(p) == p.completed = p.size
=============================================================================
