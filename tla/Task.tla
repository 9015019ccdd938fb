-------------------------------- MODULE Task --------------------------------
(***************************************************************************)
(* mk::engine::Task (engine/task.cpp, driven through ffi.cpp): a thread    *)
(* that runs a nettest and emits events, and the application threads that  *)
(* take the events, ask whether the task is done, interrupt it and destroy *)
(* it.  All the tasks of the process share one mutex, the "semaphore",     *)
(* that keeps them from running at the same time.                          *)
(*                                                                         *)
(* A step is what a thread does between two points where another one can   *)
(* be seen: `running` is an atomic that is written without the mutex of    *)
(* the task, notify_all() is called without it, and cond.wait() tests its  *)
(* predicate with the mutex held and gives the mutex back only when it     *)
(* goes to sleep.  Those are separate steps.                               *)
(*                                                                         *)
(* task_run_legacy() is here as far as the events and the flag             *)
(* `interrupted` are concerned: it may refuse the settings, and otherwise  *)
(* it runs the reactor.  The reactor may return early (see Reactor), hence *)
(* any number of measurements; interrupt() also calls Reactor::stop(),     *)
(* which only makes run() dispatch once more, hence nothing here.          *)
(***************************************************************************)
EXTENDS Integers, Sequences, FiniteSets

CONSTANTS
  Task,        \* the tasks the application creates
  Consumer,    \* the threads that call wait_for_next_event()
  Nobody,      \* no task, or no thread
  Disablings,  \* the values of the setting "disabled_events"
  MaxWarnings, \* bound: warnings about settings come while Extra is less
  MaxExtra     \* bound: log lines and measurements, while Extra is less

\* "log" and "measurement" stand for all that is emitted while running, where
\* "failure.startup" may come again: from query_bouncer(), for instance.
EventKind == {"status.queued", "failure.startup", "status.started", "log",
              "measurement", "status.end"}

ASSUME TaskAssumption ==
  /\ Nobody \notin Task \cup Consumer
  /\ MaxExtra \in Nat /\ MaxWarnings \in Nat
  /\ Disablings \subseteq SUBSET EventKind

VARIABLES
  \* Task and TaskImpl, per task.
  object,      \* the C++ object: its constructor and destructor
  pc,          \* where the thread of the task is
  notifying,   \* the thread is between push_back() and notify_all()
  barrier,     \* the promise `barrier` has a value
  running,     \* TaskImpl::running
  interrupted, \* TaskImpl::interrupted
  disabled,    \* the events its settings disable
  deque,       \* TaskImpl::deque
  mutex,       \* who holds TaskImpl::mutex across steps
  semaphore,   \* the task that holds the static mutex
  \* The threads inside wait_for_next_event().
  cpc,         \* where each one is
  ctask,       \* of which task
  \* History, read by the properties only.
  emitted,     \* the events of each task, in order
  received,    \* those taken by the application, in order
  told         \* somebody was told that the task is over

object_ == <<object, barrier, disabled>>
thread_ == <<pc, notifying, running, semaphore>>
consumers == <<cpc, ctask>>
vars == <<object_, thread_, interrupted, deque, mutex, consumers, emitted,
          received, told>>

Init ==
  /\ object = [t \in Task |-> "unborn"]
  /\ pc = [t \in Task |-> "none"]
  /\ notifying = [t \in Task |-> FALSE]
  /\ barrier = [t \in Task |-> FALSE]
  /\ running = [t \in Task |-> FALSE]
  /\ interrupted = [t \in Task |-> FALSE]
  /\ disabled = [t \in Task |-> {}]
  /\ deque = [t \in Task |-> <<>>]
  /\ mutex = [t \in Task |-> Nobody]
  /\ semaphore = Nobody
  /\ cpc = [c \in Consumer |-> "out"]
  /\ ctask = [c \in Consumer |-> Nobody]
  /\ emitted = [t \in Task |-> <<>>]
  /\ received = [t \in Task |-> <<>>]
  /\ told = [t \in Task |-> FALSE]

-----------------------------------------------------------------------------
(* Task::Task()                                                            *)

Construct(t) ==
  /\ object[t] = "unborn"
  /\ object' = [object EXCEPT ![t] = "constructing"]
  /\ \E d \in Disablings : disabled' = [disabled EXCEPT ![t] = d]
  /\ pc' = [pc EXCEPT ![t] = "start"]
  /\ UNCHANGED <<barrier, notifying, running, semaphore, interrupted, deque, mutex,
                 consumers, emitted, received, told>>

ConstructorReturns(t) ==
  /\ object[t] = "constructing"
  /\ object' = [object EXCEPT ![t] = "usable"]
  /\ UNCHANGED <<barrier, disabled, thread_, interrupted, deque, mutex, consumers, emitted,
                 received, told>>

\* Mutant of Constructed: started.wait() is missing.
ConstructedAtOnce(t) == ConstructorReturns(t)

\* started.wait()
Constructed(t) == barrier[t] /\ ConstructorReturns(t)

-----------------------------------------------------------------------------
(* The thread of the task.  It is at pc[t], and busy while it notifies.    *)

At(t, label) == pc[t] = label /\ ~notifying[t]

Goto(t, label) == pc' = [pc EXCEPT ![t] = label]

SetRunning(t) ==
  /\ At(t, "start")
  /\ running' = [running EXCEPT ![t] = TRUE]
  /\ Goto(t, "barrier")
  /\ UNCHANGED <<object_, notifying, semaphore, interrupted, deque, mutex,
                 consumers, emitted, received, told>>

SetBarrier(t) ==
  /\ At(t, "barrier")
  /\ barrier' = [barrier EXCEPT ![t] = TRUE]
  /\ Goto(t, "queued")
  /\ UNCHANGED <<object, disabled, notifying, running, semaphore, interrupted, deque, mutex,
                 consumers, emitted, received, told>>

\* Mutant of emit: the readers are not notified.
emitSilently(t, e) ==
  /\ mutex[t] = Nobody
  /\ deque' = [deque EXCEPT ![t] = Append(@, e)]
  /\ emitted' = [emitted EXCEPT ![t] = Append(@, e)]
  /\ UNCHANGED <<object_, notifying, running, semaphore, interrupted, mutex,
                 consumers, received, told>>

\* The first half of emit(): the event is queued with the mutex held.
emit(t, e) ==
  /\ mutex[t] = Nobody
  /\ deque' = [deque EXCEPT ![t] = Append(@, e)]
  /\ emitted' = [emitted EXCEPT ![t] = Append(@, e)]
  /\ notifying' = [notifying EXCEPT ![t] = TRUE]
  /\ UNCHANGED <<object_, running, semaphore, interrupted, mutex, consumers,
                 received, told>>

\* Events of the nettest go through its logger, which has no handler for the
\* disabled ones.
emitUnlessDisabled(t, e) ==
  IF e \notin disabled[t]
  THEN emit(t, e)
  ELSE UNCHANGED <<object_, notifying, running, semaphore, interrupted, deque,
                   mutex, consumers, emitted, received, told>>

\* Every thread asleep on cond has to get the mutex again.
WakeAll(t) ==
  cpc' = [c \in Consumer |-> IF cpc[c] = "asleep" /\ ctask[c] = t
                             THEN "lock" ELSE cpc[c]]

\* The second half of emit().
Notify(t) ==
  /\ notifying[t]
  /\ notifying' = [notifying EXCEPT ![t] = FALSE]
  /\ WakeAll(t)
  /\ UNCHANGED <<object_, pc, running, semaphore, interrupted, deque, mutex, ctask,
                 emitted, received, told>>

EmitQueued(t) ==
  /\ At(t, "queued")
  /\ emit(t, "status.queued")
  /\ Goto(t, "acquire")

Acquire(t) ==
  /\ At(t, "acquire")
  /\ semaphore' = t
  /\ Goto(t, "validate")
  /\ UNCHANGED <<object_, notifying, running, interrupted, deque, mutex, consumers,
                 emitted, received, told>>

\* Mutant of TakeSemaphore: the static mutex is not taken.
TakeNoSemaphore(t) == Acquire(t)

TakeSemaphore(t) == semaphore = Nobody /\ Acquire(t)

\* What the tasks have emitted besides the events that each of them emits.
Extra == Cardinality(UNION {{t} \X {i \in DOMAIN emitted[t] :
           emitted[t][i] \in {"log", "measurement", "failure.startup"}} : t \in Task})

\* emit_settings_warning() and emit_settings_failure() emit a line of log, since
\* the logger has no handlers yet; the second one goes on to refuse the task.
LogSettings(t) ==
  /\ At(t, "validate")
  /\ emit(t, "log")
  /\ \/ Extra < MaxWarnings /\ UNCHANGED pc
     \/ Goto(t, "refuse")

\* Mutant of EmitFailure: task_run_legacy() does not return after it.
EmitFailureAndGoOn(t) ==
  /\ At(t, "refuse")
  /\ emit(t, "failure.startup")
  /\ Goto(t, "initial")

\* task_run_legacy() returns before it has started anything.
EmitFailure(t) ==
  /\ At(t, "refuse")
  /\ emit(t, "failure.startup")
  /\ Goto(t, "finish")

EmitStarted(t) ==
  /\ At(t, "validate")
  /\ emitUnlessDisabled(t, "status.started")
  /\ Goto(t, "initial")

\* The initial event of the reactor looks at the flag, and nobody else does.
InitialEvent(t) ==
  /\ At(t, "initial")
  /\ Goto(t, IF interrupted[t] THEN "end" ELSE "run")
  /\ UNCHANGED <<object_, notifying, running, semaphore, interrupted, deque, mutex,
                 consumers, emitted, received, told>>

EmitWhileRunning(t) ==
  /\ At(t, "run")
  /\ Extra < MaxExtra
  /\ \E e \in {"log", "measurement", "failure.startup"} : emitUnlessDisabled(t, e)
  /\ UNCHANGED pc

ReactorReturns(t) ==
  /\ At(t, "run")
  /\ Goto(t, "end")
  /\ UNCHANGED <<object_, notifying, running, semaphore, interrupted, deque, mutex,
                 consumers, emitted, received, told>>

EmitEnd(t) ==
  /\ At(t, "end")
  /\ emitUnlessDisabled(t, "status.end")
  /\ Goto(t, "finish")

\* running = false, without the mutex.
ClearRunning(t) ==
  /\ At(t, "finish")
  /\ running' = [running EXCEPT ![t] = FALSE]
  /\ Goto(t, "lastNotify")
  /\ UNCHANGED <<object_, notifying, semaphore, interrupted, deque, mutex,
                 consumers, emitted, received, told>>

LastNotify(t) ==
  /\ At(t, "lastNotify")
  /\ WakeAll(t)
  /\ Goto(t, "release")
  /\ UNCHANGED <<object_, notifying, running, semaphore, interrupted, deque, mutex,
                 ctask, emitted, received, told>>

Exit(t) ==
  /\ At(t, "release")
  /\ Goto(t, "exited")
  /\ UNCHANGED <<object_, notifying, running, interrupted, deque, mutex, consumers,
                 emitted, received, told>>

\* Mutant of Release: the static mutex stays locked.
ReleaseNothing(t) == Exit(t) /\ UNCHANGED semaphore

\* The unique_lock goes out of scope, and the thread is over.
Release(t) == Exit(t) /\ semaphore' = Nobody

TaskThread(t) ==
  \/ SetRunning(t) \/ SetBarrier(t) \/ Notify(t) \/ EmitQueued(t)
  \/ TakeSemaphore(t) \/ LogSettings(t) \/ EmitFailure(t)
  \/ EmitStarted(t)
  \/ InitialEvent(t) \/ EmitWhileRunning(t) \/ ReactorReturns(t) \/ EmitEnd(t)
  \/ ClearRunning(t) \/ LastNotify(t) \/ Release(t)

-----------------------------------------------------------------------------
(* wait_for_next_event()                                                   *)

Move(c, label) == cpc' = [cpc EXCEPT ![c] = label]

WaitCall(c, t) ==
  /\ cpc[c] = "out"
  /\ object[t] = "usable"
  /\ ctask' = [ctask EXCEPT ![c] = t]
  /\ Move(c, "lock")
  /\ UNCHANGED <<object_, thread_, interrupted, deque, mutex, emitted, received,
                 told>>

\* When the call begins, and when cond.wait() wakes up.
Lock(c) ==
  /\ cpc[c] = "lock"
  /\ mutex[ctask[c]] = Nobody
  /\ mutex' = [mutex EXCEPT ![ctask[c]] = c]
  /\ Move(c, "test")
  /\ UNCHANGED <<object_, thread_, interrupted, deque, ctask, emitted, received,
                 told>>

\* Mutant of Leave: the mutex stays locked.
LeaveLocked(c) ==
  /\ Move(c, "out")
  /\ ctask' = [ctask EXCEPT ![c] = Nobody]
  /\ UNCHANGED mutex

Leave(c) ==
  /\ Move(c, "out")
  /\ ctask' = [ctask EXCEPT ![c] = Nobody]
  /\ mutex' = [mutex EXCEPT ![ctask[c]] = Nobody]

\* The oldest event is popped and returned.
ReturnEvent(c) ==
  LET t == ctask[c] IN
  /\ cpc[c] = "test"
  /\ deque[t] # <<>>
  /\ deque' = [deque EXCEPT ![t] = Tail(@)]
  /\ received' = [received EXCEPT ![t] = Append(@, Head(deque[t]))]
  /\ Leave(c)
  /\ UNCHANGED <<object_, thread_, interrupted, emitted, told>>

TellTerminated(c) ==
  /\ cpc[c] = "test"
  /\ ~running[ctask[c]]
  /\ told' = [told EXCEPT ![ctask[c]] = TRUE]
  /\ Leave(c)
  /\ UNCHANGED <<object_, thread_, interrupted, deque, emitted, received>>

\* Mutant of ReturnTerminated: the queue is not drained first.
ReturnTerminatedFirst(c) == TellTerminated(c)

\* The dummy "task_terminated" event, when the queue is empty.
ReturnTerminated(c) ==
  cpc[c] = "test" /\ deque[ctask[c]] = <<>> /\ TellTerminated(c)

\* The predicate is false.  The mutex is still held.
DecideToSleep(c) ==
  /\ cpc[c] = "test"
  /\ deque[ctask[c]] = <<>>
  /\ running[ctask[c]]
  /\ Move(c, "sleep")
  /\ UNCHANGED <<object_, thread_, interrupted, deque, mutex, ctask, emitted,
                 received, told>>

Sleep(c) ==
  /\ cpc[c] = "sleep"
  /\ mutex' = [mutex EXCEPT ![ctask[c]] = Nobody]
  /\ Move(c, "asleep")
  /\ UNCHANGED <<object_, thread_, interrupted, deque, ctask, emitted, received,
                 told>>

\* Allowed to a condition variable at any time, and never to be counted on.
WakeSpuriously(c) ==
  /\ cpc[c] = "asleep"
  /\ Move(c, "lock")
  /\ UNCHANGED <<object_, thread_, interrupted, deque, mutex, ctask, emitted,
                 received, told>>

Waiting(c) ==
  Lock(c) \/ ReturnEvent(c) \/ ReturnTerminated(c) \/ DecideToSleep(c) \/ Sleep(c)

-----------------------------------------------------------------------------
(* The other calls of the application.                                     *)

IsDone(t) == ~running[t] /\ deque[t] = <<>>

\* is_done() returns true, and the caller knows; false tells nothing.
is_done(t) ==
  /\ object[t] = "usable"
  /\ mutex[t] = Nobody
  /\ IsDone(t)
  /\ told' = [told EXCEPT ![t] = TRUE]
  /\ UNCHANGED <<object_, thread_, interrupted, deque, mutex, consumers, emitted,
                 received>>

interrupt(t) ==
  /\ object[t] = "usable"
  /\ interrupted' = [interrupted EXCEPT ![t] = TRUE]
  /\ UNCHANGED <<object_, thread_, deque, mutex, consumers, emitted, received, told>>

\* ~Task() joins the thread.  No other call may be in progress.
Destroy(t) ==
  /\ object[t] = "usable"
  /\ \A c \in Consumer : ctask[c] # t
  /\ object' = [object EXCEPT ![t] = "joining"]
  /\ UNCHANGED <<barrier, disabled, thread_, interrupted, deque, mutex, consumers, emitted,
                 received, told>>

Joined(t) ==
  /\ object[t] = "joining"
  /\ pc[t] = "exited"
  /\ object' = [object EXCEPT ![t] = "destroyed"]
  /\ UNCHANGED <<barrier, disabled, thread_, interrupted, deque, mutex, consumers, emitted,
                 received, told>>

AllDestroyed ==
  /\ \A t \in Task : object[t] = "destroyed"
  /\ UNCHANGED vars

Next ==
  \/ \E t \in Task :
       \/ Construct(t) \/ Constructed(t) \/ TaskThread(t)
       \/ is_done(t) \/ interrupt(t) \/ Destroy(t) \/ Joined(t)
  \/ \E c \in Consumer : Waiting(c) \/ WakeSpuriously(c)
  \/ \E c \in Consumer, t \in Task : WaitCall(c, t)
  \/ AllDestroyed

\* A thread that can go on does; one that waits for the mutex of a task that
\* is released again and again gets it in the end.  Nothing obliges the
\* application to call, nor a condition variable to wake up by itself.
Fairness ==
  /\ \A t \in Task : SF_vars(TaskThread(t)) /\ WF_vars(Constructed(t))
                     /\ WF_vars(Joined(t))
  /\ \A c \in Consumer : SF_vars(Waiting(c))

Spec == Init /\ [][Next]_vars
FairSpec == Spec /\ Fairness

-----------------------------------------------------------------------------
(* Invariants.                                                             *)

Labels == {"none", "start", "barrier", "queued", "acquire", "validate", "refuse",
           "initial", "run", "end", "finish", "lastNotify", "release", "exited"}

TypeOK ==
  /\ object \in [Task -> {"unborn", "constructing", "usable", "joining",
                          "destroyed"}]
  /\ pc \in [Task -> Labels]
  /\ notifying \in [Task -> BOOLEAN]
  /\ barrier \in [Task -> BOOLEAN]
  /\ running \in [Task -> BOOLEAN]
  /\ interrupted \in [Task -> BOOLEAN]
  /\ disabled \in [Task -> Disablings \cup {{}}]
  /\ deque \in [Task -> Seq(EventKind)]
  /\ mutex \in [Task -> Consumer \cup {Nobody}]
  /\ semaphore \in Task \cup {Nobody}
  /\ cpc \in [Consumer -> {"out", "lock", "test", "sleep", "asleep"}]
  /\ ctask \in [Consumer -> Task \cup {Nobody}]
  /\ \A c \in Consumer : cpc[c] = "out" <=> ctask[c] = Nobody
  /\ emitted \in [Task -> Seq(EventKind)]
  /\ received \in [Task -> Seq(EventKind)]
  /\ told \in [Task -> BOOLEAN]

Active(t) == pc[t] \in {"validate", "refuse", "initial", "run", "end", "finish"}

\* Tasks may be created at any time, by any thread, and only one runs: the
\* events of two tasks between "status.started" and "status.end" never mix.
TasksDoNotOverlap == \A t, u \in Task : Active(t) /\ Active(u) => t = u

\* The events of a task: "status.queued" first; then either the failure to
\* start and nothing after it, or "status.started", what is emitted while
\* running (maybe other failures to start) and one "status.end", and nothing
\* after it.  An event of the run that is disabled is missing, and the others
\* keep their places.
EventsInOrder ==
  \A t \in Task : \A i \in DOMAIN emitted[t] :
    LET e == emitted[t]
        before(kind) == \E k \in 1 .. i - 1 : e[k] = kind
        started == before("status.started") \/ "status.started" \in disabled[t]
    IN /\ e[i] = "status.queued" <=> i = 1
       /\ e[i] = "status.end" => i = Len(e)
       /\ e[i] = "failure.startup" => i = Len(e) \/ started
       /\ e[i] \in {"measurement", "status.end"} => started
       /\ e[i] = "status.started" =>
            ~before("status.started") /\ ~before("failure.startup")

\* When the application is told that a task is over, the task has said how it
\* ended, unless that event is disabled, and somebody has taken the event.
ToldMeansEndSeen ==
  \A t \in Task : told[t] =>
    \/ "status.end" \in disabled[t]
    \/ \E i \in DOMAIN received[t] : received[t][i] = "status.end"
    \/ /\ \E i \in DOMAIN received[t] : received[t][i] = "failure.startup"
       /\ \A i \in DOMAIN emitted[t] : emitted[t][i] # "status.started"

\* A thread asleep in wait_for_next_event() while there is an event to take
\* is about to be notified: no event is slept on.
NoSleepOnEvent ==
  \A c \in Consumer : cpc[c] = "asleep" =>
    (deque[ctask[c]] # <<>> => notifying[ctask[c]])

-----------------------------------------------------------------------------
(* Refinement and liveness.                                                *)

Chan == INSTANCE EventChannel WITH
          Channel <- Task,
          sent <- emitted,
          closed <- [t \in Task |-> pc[t] \in {"lastNotify", "release", "exited"}]

\* To the application, a task is a channel of events: each is received once
\* and in order, by however many threads, and none after the end was told.
ImplementsChannel == Chan!ChanSpec

\* A task that was created runs to its end, however many wait for their turn:
\* the destructor, which joins the thread, cannot block for ever.
TaskEnds == \A t \in Task : object[t] = "constructing" ~> pc[t] = "exited"

\* A call to wait_for_next_event() returns, unless it slept through the end of
\* the task: its test of `running` came before running = false, and the last
\* notify_all() came before it was asleep.
Missed(c) ==
  cpc[c] = "asleep" /\ ~running[ctask[c]] /\ pc[ctask[c]] \in {"release", "exited"}

WaitReturnsOrMissed == \A c \in Consumer : cpc[c] # "out" ~> (cpc[c] = "out" \/ Missed(c))

-----------------------------------------------------------------------------
(* What the documentation says, and the code does not do.                  *)

\* "wait_for_next_event blocks until the next event occurs. When the task is
\* terminated, it returns the "task_terminated" dummy event": a call returns.
WaitReturns == \A c \in Consumer : cpc[c] # "out" ~> cpc[c] = "out"

=============================================================================
