------------------------------ MODULE Reactor ------------------------------
(***************************************************************************)
(* mk::LibeventReactor (common/libevent_reactor.hpp): the I/O loop, and    *)
(* the Worker it owns for the calls that block, such as getaddrinfo().     *)
(*                                                                         *)
(* Three kinds of actors share the reactor: the thread inside run(), which *)
(* calls the callbacks of the events one at a time; the threads of the     *)
(* worker, whose jobs post their result with call_soon(); and the threads  *)
(* that call stop().  The event base is thread safe (evthread_use_...), so *)
(* each call to libevent is one action; run() reads the state of libevent  *)
(* and that of the worker one after the other, and those are two.          *)
(*                                                                         *)
(* Libevent itself is modelled from how run() uses it: event_base_dispatch *)
(* clears the break flag when it is entered, returns 0 when it finds the   *)
(* flag set, 1 when nothing is registered, and -1 on error.                *)
(***************************************************************************)
EXTENDS Integers, Sequences, FiniteSets, Functions

CONSTANTS
  Job, Thread, NoJob,   \* of the worker
  Event,                \* what is registered with pollfd(), each once
  Initial,              \* the event run_with_initial_event() posts
  Silent,               \* no timeout, on a socket that never gets ready
  MaxStops              \* bound: calls to stop()

ASSUME ReactorAssumption ==
  /\ IsFiniteSet(Thread)
  /\ NoJob \notin Job
  /\ Initial \in Event
  /\ Silent \subseteq Event \ {Initial}
  /\ MaxStops \in Nat

VARIABLES
  \* The worker.
  queue, active, parallelism, tpc, tjob, waiter, aborted,
  submissions, started, finished, unserved, peak, waitFor,
  \* The event base and run().
  events,        \* registered, and not called yet
  ticks,         \* how many of the 250 ms no-ops of run() are registered
  loopbreak,     \* the flag event_base_loopbreak() sets
  rpc,           \* where the thread of run() is
  evStatus,      \* what event_base_dispatch() returned last
  \* History, read by the properties only.
  registered,    \* every event registered so far
  delivered,     \* the events whose callback was called
  late,          \* registered after dispatch returned 1, before run() decides
  stops,         \* the calls to stop()
  stopRequested  \* one of them was made while run() was running

workerVars == <<queue, active, parallelism, tpc, tjob, waiter, aborted,
                submissions, started, finished, unserved, peak, waitFor>>
base == <<events, ticks, loopbreak>>
loop == <<rpc, evStatus>>
history == <<registered, delivered, late, stops, stopRequested>>
vars == <<workerVars, base, loop, history>>

\* Worker worker; State::parallelism is 3 unless somebody says otherwise.
DefaultParallelism == 3

W == INSTANCE Worker WITH
       Throwing <- {}, P0 <- DefaultParallelism, Parallelisms <- {}

Init ==
  /\ W!Init
  /\ events = {}
  /\ ticks = 0
  /\ loopbreak = FALSE
  /\ rpc = "idle"
  /\ evStatus = 0
  /\ registered = {}
  /\ delivered = {}
  /\ late = {}
  /\ stops = 0
  /\ stopRequested = FALSE

Running == rpc \in {"enter", "loop", "callback", "status"}
Returned == rpc \in {"done", "thrown"}

-----------------------------------------------------------------------------
(* Registering events: call_soon, call_later, pollin_once and pollout_once *)
(* all end in pollfd(), which allocates the callback and registers it.     *)

pollfd(e) ==
  /\ e \notin registered
  /\ events' = events \cup {e}
  /\ registered' = registered \cup {e}
  /\ late' = IF rpc = "status" /\ evStatus = 1 THEN late \cup {e} ELSE late

call_soon(e) == pollfd(e)

-----------------------------------------------------------------------------
(* The thread of run().                                                    *)

\* run_with_initial_event() is call_soon(), then run().
RunWithInitialEvent ==
  /\ rpc = "idle"
  /\ call_soon(Initial)
  /\ rpc' = "enter"
  /\ UNCHANGED <<workerVars, ticks, loopbreak, evStatus, delivered, stops,
                 stopRequested>>

Dispatch ==
  /\ rpc = "enter"
  /\ rpc' = "loop"
  /\ loopbreak' = FALSE
  /\ UNCHANGED <<workerVars, events, ticks, evStatus, history>>

LeaveDispatch(status) ==
  /\ rpc = "loop"
  /\ rpc' = "status"
  /\ evStatus' = status
  /\ UNCHANGED <<workerVars, base, history>>

DispatchBroken == loopbreak /\ LeaveDispatch(0)

DispatchEmpty == ~loopbreak /\ events = {} /\ ticks = 0 /\ LeaveDispatch(1)

\* ev_status < 0: run() throws.
DispatchFails ==
  /\ rpc = "loop"
  /\ rpc' = "thrown"
  /\ evStatus' = -1
  /\ UNCHANGED <<workerVars, base, history>>

\* pollfd_cb(): the socket is ready, or the timeout has expired.
CallBack(e) ==
  /\ rpc = "loop"
  /\ ~loopbreak
  /\ e \in events \ Silent
  /\ events' = events \ {e}
  /\ delivered' = delivered \cup {e}
  /\ rpc' = "callback"
  /\ UNCHANGED <<workerVars, ticks, loopbreak, evStatus, registered, late, stops,
                 stopRequested>>

\* Mutant of Fire: pollfd_cb() returns early when the timeout has expired.
FireUnlessTimeout(e) ==
  \/ CallBack(e)
  \/ /\ rpc = "loop" /\ ~loopbreak
     /\ e \in events \ Silent
     /\ events' = events \ {e}
     /\ UNCHANGED <<workerVars, ticks, loopbreak, loop, history>>

Fire(e) == CallBack(e)

FireTick ==
  /\ rpc = "loop"
  /\ ~loopbreak
  /\ ticks > 0
  /\ ticks' = ticks - 1
  /\ UNCHANGED <<workerVars, events, loopbreak, loop, history>>

\* What a callback may do: register events, send jobs to the worker, return,
\* or throw out of run().
CallbackRegisters(e) ==
  /\ rpc = "callback"
  /\ pollfd(e)
  /\ UNCHANGED <<workerVars, ticks, loopbreak, loop, delivered, stops,
                 stopRequested>>

CallbackCallsInThread(j) ==
  /\ rpc = "callback"
  /\ \/ (W!CallQueues(j) \/ \E t \in Thread : W!CallSpawns(j, t)) /\ UNCHANGED rpc
     \/ W!CallThrows(j) /\ rpc' = "thrown"
  /\ UNCHANGED <<base, evStatus, history>>

CallbackReturns ==
  /\ rpc = "callback"
  /\ rpc' \in {"loop", "thrown"}
  /\ UNCHANGED <<workerVars, base, evStatus, history>>

Leave ==
  /\ rpc' = "done"
  /\ UNCHANGED <<ticks, late>>

\* Register n no-ops 250 ms ahead, and dispatch again.
DispatchAgain(n) ==
  /\ ticks' = ticks + n
  /\ rpc' = "enter"
  /\ late' = {}

Decision(mayLeave, n) ==
  /\ rpc = "status"
  /\ IF mayLeave THEN Leave ELSE DispatchAgain(n)
  /\ UNCHANGED <<workerVars, events, loopbreak, evStatus, registered, delivered,
                 stops, stopRequested>>

Idle == W!concurrency <= 0

\* Mutants of Decide: leave without asking the worker; wait for a count below
\* zero.
DecideAlone == Decision(evStatus > 0, 1)
DecideNever == Decision(evStatus > 0 /\ W!concurrency < 0, 1)

\* The last lines of the loop of run().
Decide == Decision(evStatus > 0 /\ Idle, 1)

IOThread ==
  \/ Dispatch \/ DispatchBroken \/ DispatchEmpty \/ FireTick \/ Decide
  \/ CallbackReturns
  \/ \E e \in Event : Fire(e)

-----------------------------------------------------------------------------
(* The threads of the worker, and those that call stop().                  *)

WorkerThread(t) ==
  /\ W!RunThread(t)
  /\ UNCHANGED <<base, loop, history>>

\* A job posts its result: it runs in thread t, and may do so at any moment.
JobPosts(t, e) ==
  /\ tpc[t] = "call"
  /\ call_soon(e)
  /\ UNCHANGED <<workerVars, ticks, loopbreak, loop, delivered, stops,
                 stopRequested>>

stop ==
  /\ stops < MaxStops
  /\ stops' = stops + 1
  /\ loopbreak' = TRUE
  /\ stopRequested' = (stopRequested \/ rpc \in {"loop", "callback"})
  /\ UNCHANGED <<workerVars, events, ticks, loop, registered, delivered, late>>

\* Nothing is left to do: run() is over, and so are the jobs.
Over == Returned /\ active = 0 /\ UNCHANGED vars

Next ==
  \/ RunWithInitialEvent
  \/ IOThread
  \/ DispatchFails
  \/ \E e \in Event : CallbackRegisters(e)
  \/ \E j \in Job : CallbackCallsInThread(j)
  \/ \E t \in Thread : WorkerThread(t)
  \/ \E t \in Thread, e \in Event : JobPosts(t, e)
  \/ stop
  \/ Over

\* The thread of run() is never denied the processor, and its callbacks
\* return; libevent does not forget an event for ever; jobs return.
Fairness ==
  /\ WF_vars(RunWithInitialEvent)
  /\ WF_vars(IOThread)
  /\ \A e \in Event : SF_vars(Fire(e))
  /\ \A t \in Thread : WF_vars(WorkerThread(t))

Spec == Init /\ [][Next]_vars
FairSpec == Spec /\ Fairness

-----------------------------------------------------------------------------
(* Invariants.                                                             *)

\* run() treats background jobs like pending events: when it returns, all
\* those ever sent to the worker have returned, whatever was stopped,
\* queued or posted meanwhile.  And no event registered while
\* event_base_dispatch() was looking is left behind: the only ones that may be
\* are those a background job posted after dispatch had returned 1 and before
\* run() asked the worker.
RunLeavesNothing ==
  rpc = "done" =>
    /\ Range(submissions) \subseteq finished /\ active = 0
    /\ registered \ delivered \subseteq late

-----------------------------------------------------------------------------
(* Liveness.                                                               *)

\* run() does not block, or spin, for ever: once no event is left that will
\* never be ready, it returns, or throws.
RunReturns == Running ~> (Returned \/ events \cap Silent # {})

\* The callback of an event that can become ready is called, unless run()
\* is over: stop() in particular does not lose it.
EventDelivered ==
  \A e \in Event \ Silent : e \in events ~> (e \in delivered \/ Returned)

-----------------------------------------------------------------------------
(* What the comments of reactor.hpp say, and the code does not do.         *)

\* "This function will return if there is no pending I/O and no delayed
\* calls (either registered to run in background threads or in the I/O
\* thread)": when run() has returned, no call is pending.
ReturnMeansNothingPending == rpc = "done" => events = {} /\ queue = <<>>

=============================================================================
