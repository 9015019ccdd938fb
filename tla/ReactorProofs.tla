--------------------------- MODULE ReactorProofs ---------------------------
(***************************************************************************)
(* The safety of run(), for every set of events, jobs and threads.  The    *)
(* worker inside the reactor takes only the steps of Worker, so what       *)
(* WorkerProofs shows of a worker holds of this one; the invariant of the  *)
(* reactor adds what run() knows of the event base at each of its points.  *)
(***************************************************************************)
EXTENDS Reactor, FiniteSetTheorems, SequenceTheorems, TLAPS

\* The worker of the reactor, with the lemmas about it.
P == INSTANCE WorkerProofs WITH
       Throwing <- {}, P0 <- DefaultParallelism, Parallelisms <- {}

-----------------------------------------------------------------------------
(* The steps of the reactor are steps of its worker, or leave it alone.    *)

LEMMA CallIsWorkerStep ==
  ASSUME NEW j \in Job,
         \/ W!CallQueues(j) \/ W!CallThrows(j)
         \/ \E t \in Thread : W!CallSpawns(j, t)
  PROVE  P!CallInThread(j)
BY DEF P!CallInThread, W!CallQueues, P!CallQueues, W!CallThrows, P!CallThrows,
       W!CallSpawns, P!CallSpawns, W!LeaveQueued, P!LeaveQueued, W!StartThread,
       P!StartThread, W!Enqueue, P!Enqueue, W!EnqueueAt, P!EnqueueAt,
       W!waitState, P!waitState, W!Range, P!Range

LEMMA RunIsWorkerStep ==
  ASSUME NEW t \in Thread, W!RunThread(t)
  PROVE  P!RunThread(t)
BY DEF W!RunThread, P!RunThread, W!TakeJob, P!TakeJob, W!Take, P!Take,
       W!ExitThread, P!ExitThread, W!Exit, P!Exit, W!ReturnFromJob,
       P!ReturnFromJob, W!ThrowFromJob, P!ThrowFromJob,
       W!waitState, P!waitState, W!state, P!state, W!history, P!history

LEMMA WorkerInit == Init => P!Init
BY DEF Init, W!Init, P!Init, W!ToUShort, P!ToUShort, W!MaxUShort, P!MaxUShort

LEMMA WorkerUnchanged == UNCHANGED workerVars => UNCHANGED P!vars
BY DEF workerVars, P!vars, P!state, P!threads, P!waitState, P!history

\* The steps of run() that leave the worker alone, and those of the others
\* that register an event or stop the loop.
LoopSteps ==
  \/ RunWithInitialEvent \/ IOThread \/ DispatchFails \/ stop \/ Over
  \/ \E e \in Event : CallbackRegisters(e)
  \/ \E t \in Thread, e \in Event : JobPosts(t, e)

LEMMA LoopStepsKeepWorker == LoopSteps => UNCHANGED workerVars
BY DEF LoopSteps, RunWithInitialEvent, IOThread, Dispatch, DispatchBroken,
       DispatchEmpty, DispatchFails, LeaveDispatch, Fire, CallBack, FireTick,
       Decide, Decision, CallbackReturns, CallbackRegisters, JobPosts, stop,
       Over, vars

LEMMA NextCases ==
  ASSUME [Next]_vars
  PROVE  \/ LoopSteps
         \/ \E j \in Job : CallbackCallsInThread(j)
         \/ \E t \in Thread : WorkerThread(t)
         \/ UNCHANGED vars
BY DEF Next, LoopSteps

LEMMA WorkerStep == [Next]_vars => [P!Next]_(P!vars)
<1> SUFFICES ASSUME [Next]_vars PROVE P!Next \/ UNCHANGED P!vars
  OBVIOUS
<1>1. CASE LoopSteps
  BY <1>1, LoopStepsKeepWorker, WorkerUnchanged
<1>2. ASSUME NEW j \in Job, CallbackCallsInThread(j)
      PROVE  P!Next
  BY <1>2, CallIsWorkerStep DEF CallbackCallsInThread, P!Next
<1>3. ASSUME NEW t \in Thread, WorkerThread(t)
      PROVE  P!Next
  BY <1>3, RunIsWorkerStep DEF WorkerThread, P!Next
<1>4. CASE UNCHANGED vars
  BY <1>4, WorkerUnchanged DEF vars
<1> QED BY <1>1, <1>2, <1>3, <1>4, NextCases

\* What Worker assumes of its constants.
LEMMA PoolConstants ==
  /\ P!IsFiniteSet(Thread) /\ NoJob \notin Job
  /\ DefaultParallelism \in Int
BY ReactorAssumption DEF P!IsFiniteSet, IsFiniteSet, DefaultParallelism

\* The reactor uses its worker as Worker says it may be used: whatever the
\* callbacks and the jobs do, the worker behaves as the specification of the
\* worker alone.
THEOREM ReactorUsesWorker == Spec => P!Spec
BY WorkerInit, WorkerStep, PTL DEF Spec, P!Spec

\* Hence the invariant of the worker: its types, the count of its threads,
\* the place of each job, and that none is stranded.
LEMMA WorkerHolds == Spec => []P!IInv
<1>1. P!Spec => []P!IInv
  BY PoolConstants, P!IInvHolds
<1> QED BY <1>1, ReactorUsesWorker, PTL

-----------------------------------------------------------------------------
(* What the reactor adds.                                                  *)

\* The parallelism stays what it is by default, and a job is left unserved
\* only when starting a thread for it threw: the exception leaves run().
Served ==
  /\ parallelism = DefaultParallelism
  /\ rpc # "thrown" => unserved = {}

\* An event is registered until its callback is called.
Kept == events = registered \ delivered /\ delivered \subseteq registered

\* When dispatch says that nothing is registered, whatever is has come since.
EmptyWasTrue ==
  /\ evStatus \in {-1, 0, 1}
  /\ rpc = "status" /\ evStatus = 1 => events \subseteq late

\* Nobody is left to add anything once run() has returned.
Quiet == rpc = "done" => active = 0 /\ events \subseteq late

RInv == Served /\ Kept /\ EmptyWasTrue /\ Quiet

LEMMA RInvInit == Init => RInv
BY DEF Init, W!Init, W!ToUShort, W!MaxUShort, DefaultParallelism, RInv, Served,
       Kept, EmptyWasTrue, Quiet

\* With no thread counted, no thread is anywhere.
LEMMA NoThreadLeft ==
  ASSUME P!IInv, active = 0, NEW t \in Thread
  PROVE  tpc[t] = "absent"
BY PoolConstants, P!LiveThreadCounts DEF P!IInv

LEMMA ServedNext == Served /\ P!IInv /\ [Next]_vars => Served'
<1> SUFFICES ASSUME Served, P!IInv, [Next]_vars PROVE Served'
  OBVIOUS
<1>1. CASE LoopSteps
  <2>1. UNCHANGED <<parallelism, unserved>>
    BY <1>1, LoopStepsKeepWorker DEF workerVars
  <2>2. rpc = "thrown" => rpc' = "thrown"
    BY <1>1 DEF LoopSteps, RunWithInitialEvent, IOThread, Dispatch, DispatchBroken,
       DispatchEmpty, DispatchFails, LeaveDispatch, Fire, CallBack, FireTick,
       Decide, Decision, CallbackReturns, CallbackRegisters, JobPosts, stop,
       Over, vars, loop
  <2> QED BY <2>1, <2>2 DEF Served
<1>2. ASSUME NEW j \in Job, CallbackCallsInThread(j)
      PROVE  Served'
  <2>1. CASE W!CallThrows(j) /\ rpc' = "thrown"
    BY <2>1 DEF W!CallThrows, W!LeaveQueued, W!Enqueue, W!EnqueueAt, Served
  <2>2. CASE W!CallQueues(j) /\ UNCHANGED rpc
    <3>1. parallelism # 0
      BY DEF Served, DefaultParallelism
    <3> QED BY <2>2, <3>1
            DEF W!CallQueues, W!LeaveQueued, W!Enqueue, W!EnqueueAt, Served
  <2>3. CASE UNCHANGED rpc /\ \E t \in Thread : W!CallSpawns(j, t)
    BY <2>3 DEF W!CallSpawns, W!StartThread, W!Enqueue, W!EnqueueAt, Served
  <2> QED BY <1>2, <2>1, <2>2, <2>3 DEF CallbackCallsInThread
<1>3. ASSUME NEW t \in Thread, WorkerThread(t)
      PROVE  Served'
  BY <1>3 DEF WorkerThread, W!RunThread, W!TakeJob, W!Take, W!ExitThread, W!Exit,
              W!ReturnFromJob, W!ThrowFromJob, W!state, W!history, loop, Served
<1>4. CASE UNCHANGED vars
  BY <1>4 DEF vars, workerVars, loop, Served
<1> QED BY <1>1, <1>2, <1>3, <1>4, NextCases

LEMMA KeptNext == Kept /\ [Next]_vars => Kept'
<1> SUFFICES ASSUME Kept, [Next]_vars PROVE Kept'
  OBVIOUS
<1>1. ASSUME NEW e \in Event, pollfd(e), UNCHANGED delivered
      PROVE  Kept'
  BY <1>1 DEF pollfd, Kept
<1>2. ASSUME NEW e \in Event, Fire(e)
      PROVE  Kept'
  BY <1>2 DEF Fire, CallBack, Kept
<1>3. ASSUME UNCHANGED <<events, registered, delivered>>
      PROVE  Kept'
  BY <1>3 DEF Kept
<1>4. CASE LoopSteps
  <2>1. CASE RunWithInitialEvent
    BY <1>1, <2>1, ReactorAssumption DEF RunWithInitialEvent, call_soon
  <2>2. CASE IOThread
    BY <1>2, <1>3, <2>2
       DEF IOThread, Dispatch, DispatchBroken, DispatchEmpty, LeaveDispatch,
           FireTick, Decide, Decision, CallbackReturns, base, history
  <2>3. CASE DispatchFails \/ stop \/ Over
    BY <1>3, <2>3 DEF DispatchFails, stop, Over, vars, base, history
  <2>4. CASE \E e \in Event : CallbackRegisters(e)
    BY <1>1, <2>4 DEF CallbackRegisters
  <2>5. CASE \E t \in Thread, e \in Event : JobPosts(t, e)
    BY <1>1, <2>5 DEF JobPosts, call_soon
  <2> QED BY <1>4, <2>1, <2>2, <2>3, <2>4, <2>5 DEF LoopSteps
<1>5. CASE \/ \E j \in Job : CallbackCallsInThread(j)
           \/ \E t \in Thread : WorkerThread(t)
           \/ UNCHANGED vars
  BY <1>3, <1>5 DEF CallbackCallsInThread, WorkerThread, vars, base, history
<1> QED BY <1>4, <1>5, NextCases

LEMMA EmptyNext == EmptyWasTrue /\ [Next]_vars => EmptyWasTrue'
<1> SUFFICES ASSUME EmptyWasTrue, [Next]_vars PROVE EmptyWasTrue'
  OBVIOUS
<1>1. ASSUME NEW e \in Event, pollfd(e), UNCHANGED <<rpc, evStatus>>
      PROVE  EmptyWasTrue'
  BY <1>1 DEF pollfd, EmptyWasTrue
<1>2. ASSUME UNCHANGED evStatus, rpc' # "status"
      PROVE  EmptyWasTrue'
  BY <1>2 DEF EmptyWasTrue
<1>3. ASSUME UNCHANGED <<rpc, evStatus, events, late>>
      PROVE  EmptyWasTrue'
  BY <1>3 DEF EmptyWasTrue
<1>4. CASE LoopSteps
  <2>1. CASE RunWithInitialEvent \/ Dispatch \/ CallbackReturns
             \/ \E e \in Event : Fire(e)
    BY <1>2, <2>1 DEF RunWithInitialEvent, Dispatch, CallbackReturns, Fire, CallBack
  <2>2. CASE DispatchBroken \/ DispatchEmpty \/ DispatchFails
    BY <2>2 DEF DispatchBroken, DispatchEmpty, DispatchFails, LeaveDispatch,
                base, history, EmptyWasTrue
  <2>3. CASE Decide
    BY <1>2, <2>3 DEF Decide, Decision, Leave, DispatchAgain
  <2>4. CASE FireTick \/ stop \/ Over
    BY <1>3, <2>4 DEF FireTick, stop, Over, vars, base, loop, history
  <2>5. CASE \/ \E e \in Event : CallbackRegisters(e)
             \/ \E t \in Thread, e \in Event : JobPosts(t, e)
    BY <1>1, <2>5 DEF CallbackRegisters, JobPosts, call_soon, loop
  <2> QED BY <1>4, <2>1, <2>2, <2>3, <2>4, <2>5 DEF LoopSteps, IOThread
<1>5. ASSUME NEW j \in Job, CallbackCallsInThread(j)
      PROVE  EmptyWasTrue'
  BY <1>2, <1>3, <1>5 DEF CallbackCallsInThread, base, history
<1>6. CASE \/ \E t \in Thread : WorkerThread(t)
           \/ UNCHANGED vars
  BY <1>3, <1>6 DEF WorkerThread, vars, base, loop, history
<1> QED BY <1>4, <1>5, <1>6, NextCases

\* run() leaves only when the worker has no thread and dispatch had found
\* nothing registered.
LEMMA QuietNext == P!IInv /\ EmptyWasTrue /\ Quiet /\ [Next]_vars => Quiet'
<1> SUFFICES ASSUME P!IInv, EmptyWasTrue, Quiet, [Next]_vars PROVE Quiet'
  OBVIOUS
<1>0. active \in Nat
  BY PoolConstants, P!UShortIsNat DEF P!IInv, P!IInv1, P!TypeOK
<1>1. ASSUME rpc' # "done" PROVE Quiet'
  BY <1>1 DEF Quiet
<1>2. ASSUME UNCHANGED <<rpc, active, events, late>> PROVE Quiet'
  BY <1>2 DEF Quiet
<1>3. CASE LoopSteps
  <2>1. UNCHANGED active
    BY <1>3, LoopStepsKeepWorker DEF workerVars
  <2>2. CASE RunWithInitialEvent \/ Dispatch \/ CallbackReturns
             \/ DispatchBroken \/ DispatchEmpty \/ DispatchFails
             \/ \E e \in Event : Fire(e) \/ CallbackRegisters(e)
    BY <1>1, <2>2 DEF RunWithInitialEvent, Dispatch, CallbackReturns, Fire,
         CallBack, DispatchBroken, DispatchEmpty, DispatchFails, LeaveDispatch,
         CallbackRegisters, loop
  <2>3. CASE Decide
    <3>1. CASE evStatus > 0 /\ Idle
      <4>1. evStatus = 1 /\ active = 0 /\ rpc = "status"
        BY <1>0, <2>3, <3>1 DEF Decide, Decision, Idle, W!concurrency, EmptyWasTrue
      <4>2. UNCHANGED <<events, late>>
        BY <2>3, <3>1 DEF Decide, Decision, Leave
      <4> QED BY <2>1, <4>1, <4>2 DEF EmptyWasTrue, Quiet
    <3>2. CASE ~(evStatus > 0 /\ Idle)
      BY <1>1, <2>3, <3>2 DEF Decide, Decision, DispatchAgain
    <3> QED BY <3>1, <3>2
  <2>4. CASE FireTick \/ stop \/ Over
    BY <1>2, <2>1, <2>4 DEF FireTick, stop, Over, vars, base, loop, history
  <2>5. ASSUME NEW t \in Thread, NEW e \in Event, JobPosts(t, e)
        PROVE  Quiet'
    <3>1. active # 0
      BY <2>5, NoThreadLeft DEF JobPosts
    <3> QED BY <2>1, <2>5, <3>1 DEF JobPosts, loop, Quiet
  <2> QED BY <1>3, <2>2, <2>3, <2>4, <2>5 DEF LoopSteps, IOThread
<1>4. ASSUME NEW j \in Job, CallbackCallsInThread(j)
      PROVE  Quiet'
  BY <1>1, <1>4 DEF CallbackCallsInThread
<1>5. ASSUME NEW t \in Thread, WorkerThread(t)
      PROVE  Quiet'
  <2>1. tpc[t] # "absent"
    BY <1>5 DEF WorkerThread, W!RunThread, W!TakeJob, W!Take, W!ExitThread,
                W!Exit, W!ReturnFromJob, W!ThrowFromJob
  <2>2. active # 0
    BY <2>1, NoThreadLeft
  <2> QED BY <1>5, <2>2 DEF WorkerThread, loop, Quiet
<1>6. CASE UNCHANGED vars
  BY <1>2, <1>6 DEF vars, workerVars, base, loop, history
<1> QED BY <1>3, <1>4, <1>5, <1>6, NextCases

LEMMA RInvNext == P!IInv /\ RInv /\ [Next]_vars => RInv'
BY ServedNext, KeptNext, EmptyNext, QuietNext DEF RInv

LEMMA RInvHolds == Spec => []RInv
BY RInvInit, RInvNext, WorkerHolds, PTL DEF Spec

\* When run() returns, every job ever sent to the worker has returned, and
\* the only events left are those registered after dispatch had found none.
THEOREM ReactorLeavesNothing == Spec => []RunLeavesNothing
<1>1. P!IInv /\ RInv => RunLeavesNothing
  <2> SUFFICES ASSUME P!IInv, RInv, rpc = "done"
               PROVE  /\ Range(submissions) \subseteq finished /\ active = 0
                      /\ registered \ delivered \subseteq late
    BY DEF RunLeavesNothing
  <2>1. active = 0 /\ registered \ delivered \subseteq late
    BY DEF RInv, Quiet, Kept
  <2>2. P!Range(queue) = {}
    BY <2>1 DEF P!IInv, P!NoStrandedJob, RInv, Served
  <2>3. \A t \in Thread : tpc[t] # "call"
    BY <2>1, NoThreadLeft
  <2>4. P!Range(started) \subseteq finished
    BY <2>3 DEF P!IInv, P!Placed, P!Accounted
  <2>5. P!Range(submissions) = P!Range(started) \cup P!Range(queue)
    BY PoolConstants, P!SubmissionsRange DEF P!IInv, P!IInv1, P!Placed
  <2>6. Range(submissions) = P!Range(submissions)
    BY DEF Range, P!Range
  <2> QED BY <2>1, <2>2, <2>4, <2>5, <2>6
<1> QED BY <1>1, RInvHolds, WorkerHolds, PTL

=============================================================================
