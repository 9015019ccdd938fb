------------------------------- MODULE Worker -------------------------------
(***************************************************************************)
(* mk::Worker (common/worker.cpp): a queue of jobs drained by detached     *)
(* background threads.  call_in_thread() queues a job and starts a thread  *)
(* when fewer than `parallelism` are active; a thread runs queued jobs     *)
(* until it finds the queue empty, and then goes away for good.            *)
(*                                                                         *)
(* Everything done while holding State::mutex is one action.  A job runs   *)
(* with the mutex released, so "taking" a job and "calling" it are two     *)
(* actions and anything may happen between them.                           *)
(*                                                                         *)
(* A thread may fail to start (std::thread throws std::system_error): the  *)
(* job it was meant for has already been queued and stays there.  Thread   *)
(* is the supply of thread identities; when all are taken, only the        *)
(* failing call is possible.                                               *)
(***************************************************************************)
EXTENDS Integers, Sequences, FiniteSets, Functions

CONSTANTS
  Job,           \* the functions passed to call_in_thread, each passed once
  Throwing,      \* those that end by throwing an exception
  Thread,        \* thread identities
  NoJob,         \* what a thread that runs no job holds
  P0,            \* the argument of the constructor, a short
  Parallelisms   \* the values passed to set_parallelism

\* The largest unsigned short.
MaxUShort == 65535

ASSUME WorkerAssumption ==
  /\ IsFiniteSet(Thread)
  /\ Throwing \subseteq Job
  /\ NoJob \notin Job
  /\ P0 \in Int
  /\ Parallelisms \subseteq 0 .. MaxUShort

VARIABLES
  queue,         \* State::queue
  active,        \* State::active
  parallelism,   \* State::parallelism
  tpc,           \* where each thread is: "absent", "take" or "call"
  tjob,          \* the job each thread has taken and not yet returned from
  waiter,        \* where the caller of wait_empty_ is
  aborted,       \* an exception left a thread: the process is gone
  \* History, read by the properties only.
  submissions,   \* the jobs given to call_in_thread, in order
  started,       \* the jobs taken from the queue, in order
  finished,      \* the jobs that returned
  unserved,      \* queued, with no thread active, by a call that could start
                 \* none: parallelism was 0, or std::thread threw
  peak,          \* the highest parallelism so far
  waitFor        \* what had been submitted when wait_empty_ was called

state == <<queue, active, parallelism>>
threads == <<tpc, tjob, aborted>>
waitState == <<waiter, waitFor>>
history == <<submissions, started, finished, unserved, peak>>
vars == <<state, threads, waitState, history>>

Live == {t \in Thread : tpc[t] # "absent"}
Running == {tjob[t] : t \in {u \in Thread : tpc[u] = "call"}}

-----------------------------------------------------------------------------
(* The constructors.  Worker(short) assigns a short to an unsigned short.  *)

ToUShort(p) == p % (MaxUShort + 1)

Init ==
  /\ queue = <<>>
  /\ active = 0
  /\ parallelism = ToUShort(P0)
  /\ tpc = [t \in Thread |-> "absent"]
  /\ tjob = [t \in Thread |-> NoJob]
  /\ waiter = "idle"
  /\ aborted = FALSE
  /\ submissions = <<>>
  /\ started = <<>>
  /\ finished = {}
  /\ unserved = {}
  /\ peak = ToUShort(P0)
  /\ waitFor = {}

-----------------------------------------------------------------------------
(* call_in_thread, from any thread, a background one included.             *)

EnqueueAt(j, newQueue) ==
  /\ ~aborted
  /\ j \notin Range(submissions)
  /\ queue' = newQueue
  /\ submissions' = Append(submissions, j)
  /\ UNCHANGED <<parallelism, tjob, aborted, waitState, started, finished, peak>>

Enqueue(j) == EnqueueAt(j, Append(queue, j))

\* The job is queued and no thread is started for it.
LeaveQueued(j, noThreadAllowed) ==
  /\ Enqueue(j)
  /\ unserved' = IF active = 0 /\ noThreadAllowed THEN unserved \cup {j}
                                                  ELSE unserved
  /\ UNCHANGED <<active, tpc>>

\* Mutant of CallQueues: one thread is kept in reserve.
CallQueuesEarly(j) ==
  active + 1 >= parallelism /\ LeaveQueued(j, parallelism = 0)

CallQueues(j) == active >= parallelism /\ LeaveQueued(j, parallelism = 0)

\* std::thread{task} throws: the caller sees the exception, ++active is not
\* reached, and the job has been pushed already.
CallThrows(j) == active < parallelism /\ LeaveQueued(j, TRUE)

StartThread(j, t) ==
  /\ tpc[t] = "absent"
  /\ Enqueue(j)
  /\ tpc' = [tpc EXCEPT ![t] = "take"]
  /\ active' = active + 1
  /\ UNCHANGED unserved

\* Mutant of CallSpawns: > for >= in the early return.
CallSpawnsOneMore(j, t) == active <= parallelism /\ StartThread(j, t)

CallSpawns(j, t) == active < parallelism /\ StartThread(j, t)

CallInThread(j) ==
  CallQueues(j) \/ CallThrows(j) \/ \E t \in Thread : CallSpawns(j, t)

-----------------------------------------------------------------------------
(* The loop of a background thread.                                        *)

Take(t, newQueue) ==
  /\ ~aborted
  /\ tpc[t] = "take"
  /\ queue # <<>>
  /\ queue' = newQueue
  /\ tpc' = [tpc EXCEPT ![t] = "call"]
  /\ tjob' = [tjob EXCEPT ![t] = Head(queue)]
  /\ started' = Append(started, Head(queue))
  /\ UNCHANGED <<active, parallelism, aborted, waitState, submissions, finished,
                 unserved, peak>>

TakeJob(t) == Take(t, Tail(queue))

Exit(t, newActive) ==
  /\ ~aborted
  /\ tpc[t] = "take"
  /\ active' = newActive
  /\ tpc' = [tpc EXCEPT ![t] = "absent"]
  /\ UNCHANGED <<queue, parallelism, tjob, aborted, waitState, history>>

\* Mutants of ExitThread: the decrement is forgotten; a thread in excess of
\* the parallelism leaves at once.
ExitThreadKeepsCount(t) == queue = <<>> /\ Exit(t, active)
ExitThreadShrinks(t) ==
  (queue = <<>> \/ active > parallelism) /\ Exit(t, active - 1)

\* The decrement is in the critical section that saw the queue empty.
ExitThread(t) == queue = <<>> /\ Exit(t, active - 1)

ReturnFromJob(t) ==
  /\ ~aborted
  /\ tpc[t] = "call"
  /\ tjob[t] \notin Throwing
  /\ finished' = finished \cup {tjob[t]}
  /\ tpc' = [tpc EXCEPT ![t] = "take"]
  /\ tjob' = [tjob EXCEPT ![t] = NoJob]
  /\ UNCHANGED <<state, aborted, waitState, submissions, started, unserved, peak>>

\* The exception is logged and thrown again, out of the thread: terminate().
ThrowFromJob(t) ==
  /\ ~aborted
  /\ tpc[t] = "call"
  /\ tjob[t] \in Throwing
  /\ aborted' = TRUE
  /\ UNCHANGED <<state, tpc, tjob, waitState, history>>

RunThread(t) ==
  TakeJob(t) \/ ExitThread(t) \/ ReturnFromJob(t) \/ ThrowFromJob(t)

-----------------------------------------------------------------------------
(* The other methods.                                                      *)

SetParallelism(p) ==
  /\ ~aborted
  /\ parallelism' = p
  /\ peak' = IF p > peak THEN p ELSE peak
  /\ UNCHANGED <<queue, active, threads, waitState, submissions, started, finished,
                 unserved>>

\* Mutant of concurrency: the length of the queue.
concurrencyByQueue == Len(queue)

concurrency == active

WaitEmpty ==
  /\ ~aborted
  /\ waiter # "polling"
  /\ waiter' = "polling"
  /\ waitFor' = Range(submissions)
  /\ UNCHANGED <<state, threads, history>>

WaitEmptyReturns ==
  /\ ~aborted
  /\ waiter = "polling"
  /\ concurrency <= 0
  /\ waiter' = "returned"
  /\ UNCHANGED <<state, threads, waitFor, history>>

-----------------------------------------------------------------------------
Next ==
  \/ \E j \in Job : CallInThread(j)
  \/ \E t \in Thread : RunThread(t)
  \/ \E p \in Parallelisms : SetParallelism(p)
  \/ WaitEmpty
  \/ WaitEmptyReturns

\* A thread that has something to do eventually does it: it gets the mutex,
\* and a job returns or throws.
Fairness == \A t \in Thread : WF_vars(RunThread(t))

Spec == Init /\ [][Next]_vars
FairSpec == Spec /\ Fairness

-----------------------------------------------------------------------------
(* Invariants.                                                             *)

TypeOK ==
  /\ queue \in Seq(Job)
  /\ active \in 0 .. MaxUShort
  /\ parallelism \in 0 .. MaxUShort
  /\ tpc \in [Thread -> {"absent", "take", "call"}]
  /\ tjob \in [Thread -> Job \cup {NoJob}]
  /\ \A t \in Thread : tpc[t] = "call" <=> tjob[t] # NoJob
  /\ waiter \in {"idle", "polling", "returned"}
  /\ aborted \in BOOLEAN
  /\ submissions \in Seq(Job)
  /\ started \in Seq(Job)
  /\ finished \subseteq Job
  /\ unserved \subseteq Job
  /\ peak \in 0 .. MaxUShort
  /\ waitFor \subseteq Job

\* The counter that call_in_thread, concurrency() and the reactor trust is
\* the number of threads there really are, and it never exceeds the highest
\* parallelism ever configured, whatever set_parallelism did meanwhile.
ActiveCountsThreads == active = Cardinality(Live) /\ active <= peak

\* No lost job: when the last thread has gone, what is left in the queue is
\* only what no call could have started a thread for.  This is what taking
\* "the queue is empty" and "--active" in one critical section is for.
NoStrandedJob == active = 0 => Range(queue) \subseteq unserved

\* Jobs are taken in the order of the calls to call_in_thread.
FifoStart == submissions = started \o queue

\* A job is in one place only: two threads never run the same job, and no
\* thread runs a job that has returned or that is still queued.
RunsOnce ==
  \A t \in Thread : tpc[t] = "call" =>
    /\ tjob[t] \notin finished \cup Range(queue)
    /\ \A u \in Thread : tpc[u] = "call" /\ tjob[u] = tjob[t] => u = t

\* When wait_empty_ returns, every job submitted before it was called has
\* run, those left behind by a call that could start no thread excepted.
WaitEmptyMeansDone == waiter = "returned" => waitFor \subseteq finished \cup unserved

-----------------------------------------------------------------------------
(* Liveness and refinement.                                                *)

\* A job in the queue of a worker that has a thread eventually returns,
\* unless a job throws: lowering the parallelism, to zero even, or a thread
\* that failed to start does not leave it behind.
QueuedJobRuns ==
  \A j \in Job : (j \in Range(queue) /\ active > 0) ~> (j \in finished \/ aborted)

Pool == INSTANCE JobPool WITH
          waiting <- queue, running <- Running, limit <- peak

\* The worker is a pool of jobs: what JobPool promises is what it does.
ImplementsPool == Pool!PoolSpec

=============================================================================
