----------------------------- MODULE TaskProofs -----------------------------
(***************************************************************************)
(* Proofs about Task, for any number of tasks, of threads that wait for    *)
(* events, and of events.                                                  *)
(*                                                                         *)
(* Tasks do not overlap because whoever is between the semaphore and its   *)
(* release is the task that the semaphore names.  A task is not said to be *)
(* over before its last event was read because `running` is cleared after  *)
(* that event was emitted, and looked at when the queue is empty.  Nobody  *)
(* sleeps on an event because the mutex of the task is held from the test  *)
(* of the predicate to the sleep, and every event is followed by a         *)
(* notification.                                                           *)
(*                                                                         *)
(* And about Api: the loop of BaseTest::run() is one of the applications   *)
(* that Task allows, hence its callbacks come in the order of the events.  *)
(*                                                                         *)
(* And about Getopt: what getopt() returned so far, before what the words  *)
(* ahead of it mean, stays what the words mean.                            *)
(***************************************************************************)
EXTENDS Api, SequenceTheorems, FiniteSetTheorems, WellFoundedInduction, TLAPS

Begun == {"queued", "acquire", "validate", "refuse", "initial", "run", "end", "finish",
          "lastNotify", "release", "exited"}
Holding == {"validate", "refuse", "initial", "run", "end", "finish", "lastNotify",
            "release"}
Closed == {"lastNotify", "release", "exited"}

\* The thread, the flags it sets, and the object.
Stages(t) ==
  /\ running[t] => pc[t] \notin Closed
  /\ pc[t] \notin Closed \cup {"none", "start"} => running[t]
  /\ barrier[t] => pc[t] \in Begun
  /\ object[t] = "usable" => barrier[t]
  /\ object[t] = "unborn" => pc[t] = "none"

Exclusive(t) == pc[t] \in Holding => semaphore = t

Queue(t) == emitted[t] = received[t] \o deque[t]

Said(s, e) == \E i \in DOMAIN s : s[i] = e

\* The event that ends the task.
SaidEnd(t, s) ==
  \/ "status.end" \in disabled[t]
  \/ Said(s, "status.end")
  \/ Said(s, "failure.startup") /\ ~Said(emitted[t], "status.started")

Ending(t) ==
  /\ pc[t] \in {"none", "start", "barrier", "queued", "acquire", "validate", "refuse"} =>
       ~Said(emitted[t], "status.started")
  /\ pc[t] \in Closed \cup {"finish"} => SaidEnd(t, emitted[t])
  /\ told[t] => pc[t] \in Closed /\ deque[t] = <<>>

\* A thread inside wait_for_next_event().
Reader(c) ==
  LET t == ctask[c] IN
  /\ cpc[c] \in {"test", "sleep"} => mutex[t] = c
  /\ cpc[c] # "out" => pc[t] \in Begun
  /\ cpc[c] = "sleep" => deque[t] = <<>>
  /\ cpc[c] = "asleep" /\ deque[t] # <<>> => notifying[t]

IInv ==
  /\ TypeOK
  /\ \A t \in Task : Stages(t) /\ Exclusive(t) /\ Queue(t) /\ Ending(t)
  /\ \A c \in Consumer : Reader(c)

-----------------------------------------------------------------------------
(* Types.                                                                  *)

LEMMA InitTypeOK == Init => TypeOK
<1> SUFFICES ASSUME Init PROVE TypeOK
  OBVIOUS
<1>1. \A t \in Task : <<>> \in Seq(EventKind)
  OBVIOUS
<1> QED
  BY <1>1 DEF Init, TypeOK, Labels

LEMMA EmitTypes ==
  ASSUME TypeOK, NEW t \in Task, NEW e \in EventKind, emit(t, e)
  PROVE  /\ deque' \in [Task -> Seq(EventKind)]
         /\ emitted' \in [Task -> Seq(EventKind)]
         /\ notifying' \in [Task -> BOOLEAN]
<1>1. /\ Append(deque[t], e) \in Seq(EventKind)
      /\ Append(emitted[t], e) \in Seq(EventKind)
  BY DEF TypeOK
<1> QED
  BY <1>1 DEF TypeOK, emit

LEMMA EmitUnlessDisabledTypes ==
  ASSUME TypeOK, NEW t \in Task, NEW e \in EventKind, emitUnlessDisabled(t, e)
  PROVE  /\ deque' \in [Task -> Seq(EventKind)]
         /\ emitted' \in [Task -> Seq(EventKind)]
         /\ notifying' \in [Task -> BOOLEAN]
<1>1. CASE e \notin disabled[t]
  BY <1>1, EmitTypes DEF emitUnlessDisabled
<1>2. CASE e \in disabled[t]
  BY <1>2 DEF emitUnlessDisabled, TypeOK
<1> QED
  BY <1>1, <1>2

LEMMA ThreadTypes ==
  ASSUME TypeOK, NEW t \in Task, TaskThread(t)
  PROVE  TypeOK'
<1> USE DEF Goto, At, Labels
<1>1. CASE SetRunning(t)
  BY <1>1 DEF TypeOK, SetRunning, object_, consumers
<1>2. CASE SetBarrier(t)
  BY <1>2 DEF TypeOK, SetBarrier, consumers
<1>3. CASE Notify(t)
  BY <1>3 DEF TypeOK, Notify, WakeAll, object_
<1>4. CASE EmitQueued(t)
  BY <1>4, EmitTypes DEF TypeOK, EmitQueued, emit, object_, consumers, EventKind
<1>5. CASE TakeSemaphore(t)
  BY <1>5 DEF TypeOK, TakeSemaphore, Acquire, object_, consumers
<1>6. CASE LogSettings(t) /\ UNCHANGED pc
  BY <1>6, EmitTypes DEF TypeOK, LogSettings, emit, object_, consumers, EventKind
<1>7. CASE LogSettings(t) /\ Goto(t, "refuse")
  BY <1>7, EmitTypes DEF TypeOK, LogSettings, emit, object_, consumers, EventKind
<1>8. CASE EmitFailure(t)
  BY <1>8, EmitTypes DEF TypeOK, EmitFailure, emit, object_, consumers, EventKind
<1>9. CASE EmitStarted(t)
  BY <1>9, EmitUnlessDisabledTypes
     DEF TypeOK, EmitStarted, emitUnlessDisabled, emit, object_, consumers, EventKind
<1>10. CASE InitialEvent(t)
  BY <1>10 DEF TypeOK, InitialEvent, object_, consumers
<1>11. CASE EmitWhileRunning(t)
  <2>1. PICK e \in {"log", "measurement", "failure.startup"} : emitUnlessDisabled(t, e)
    BY <1>11 DEF EmitWhileRunning
  <2>2. e \in EventKind
    BY DEF EventKind
  <2> QED
    BY <1>11, <2>1, <2>2, EmitUnlessDisabledTypes
       DEF TypeOK, EmitWhileRunning, emitUnlessDisabled, emit, object_, consumers
<1>12. CASE ReactorReturns(t)
  BY <1>12 DEF TypeOK, ReactorReturns, object_, consumers
<1>13. CASE EmitEnd(t)
  BY <1>13, EmitUnlessDisabledTypes
     DEF TypeOK, EmitEnd, emitUnlessDisabled, emit, object_, consumers, EventKind
<1>14. CASE ClearRunning(t)
  BY <1>14 DEF TypeOK, ClearRunning, object_, consumers
<1>15. CASE LastNotify(t)
  BY <1>15 DEF TypeOK, LastNotify, WakeAll, object_
<1>16. CASE Release(t)
  BY <1>16 DEF TypeOK, Release, Exit, object_, consumers
<1> QED
  BY <1>1, <1>2, <1>3, <1>4, <1>5, <1>6, <1>7, <1>8, <1>9, <1>10, <1>11, <1>12, <1>13,
     <1>14, <1>15, <1>16 DEF TaskThread, LogSettings

LEMMA ReaderTypes ==
  ASSUME TypeOK, NEW c \in Consumer, Waiting(c) \/ WakeSpuriously(c)
  PROVE  TypeOK'
<1> USE DEF Move, object_, thread_
<1>1. CASE Lock(c)
  BY <1>1, TaskAssumption DEF TypeOK, Lock
<1>2. CASE ReturnEvent(c)
  <2>1. ctask[c] \in Task /\ Nobody \notin Task
    BY <1>2, TaskAssumption DEF TypeOK, ReturnEvent
  <2>2. /\ Tail(deque[ctask[c]]) \in Seq(EventKind)
        /\ Head(deque[ctask[c]]) \in EventKind
    BY <1>2, <2>1 DEF TypeOK, ReturnEvent
  <2>3. /\ deque' \in [Task -> Seq(EventKind)]
        /\ received' \in [Task -> Seq(EventKind)]
    BY <1>2, <2>1, <2>2 DEF TypeOK, ReturnEvent
  <2> QED
    BY <1>2, <2>1, <2>3 DEF TypeOK, ReturnEvent, Leave
<1>3. CASE ReturnTerminated(c)
  BY <1>3, TaskAssumption DEF TypeOK, ReturnTerminated, TellTerminated, Leave
<1>4. CASE DecideToSleep(c)
  BY <1>4 DEF TypeOK, DecideToSleep
<1>5. CASE Sleep(c)
  BY <1>5, TaskAssumption DEF TypeOK, Sleep
<1>6. CASE WakeSpuriously(c)
  BY <1>6 DEF TypeOK, WakeSpuriously
<1> QED
  BY <1>1, <1>2, <1>3, <1>4, <1>5, <1>6 DEF Waiting

LEMMA ApplicationTypes ==
  ASSUME TypeOK, NEW t \in Task,
         \/ Construct(t) \/ Constructed(t) \/ is_done(t) \/ interrupt(t) \/ Destroy(t)
         \/ Joined(t) \/ \E c \in Consumer : WaitCall(c, t)
  PROVE  TypeOK'
<1> USE DEF consumers, thread_, object_, Goto, Move, Labels
<1>1. CASE Construct(t)
  BY <1>1 DEF TypeOK, Construct
<1>2. CASE Constructed(t)
  BY <1>2 DEF TypeOK, Constructed, ConstructorReturns
<1>3. CASE is_done(t)
  BY <1>3 DEF TypeOK, is_done
<1>4. CASE interrupt(t)
  BY <1>4 DEF TypeOK, interrupt
<1>5. CASE Destroy(t)
  BY <1>5 DEF TypeOK, Destroy
<1>6. CASE Joined(t)
  BY <1>6 DEF TypeOK, Joined
<1>7. ASSUME NEW c \in Consumer, WaitCall(c, t) PROVE TypeOK'
  BY <1>7, TaskAssumption DEF TypeOK, WaitCall
<1> QED
  BY <1>1, <1>2, <1>3, <1>4, <1>5, <1>6, <1>7

LEMMA StutterTypes == TypeOK /\ UNCHANGED vars => TypeOK'
BY DEF TypeOK, vars, object_, thread_, consumers

LEMMA NextTypeOK == TypeOK /\ [Next]_vars => TypeOK'
BY ThreadTypes, ReaderTypes, ApplicationTypes, StutterTypes DEF Next, AllDestroyed

\* The state of the tasks and of the threads that read their events has its
\* type in every reachable state.
THEOREM TaskTypes == Spec => []TypeOK
BY InitTypeOK, NextTypeOK, PTL DEF Spec

-----------------------------------------------------------------------------
(* Sequences.                                                              *)

LEMMA SaidAppend ==
  ASSUME NEW s \in Seq(EventKind), NEW e \in EventKind, NEW x
  PROVE  Said(Append(s, e), x) <=> Said(s, x) \/ x = e
<1>1. /\ Len(Append(s, e)) = Len(s) + 1 /\ Len(s) \in Nat
      /\ Append(s, e)[Len(s) + 1] = e
      /\ \A i \in 1 .. Len(s) : Append(s, e)[i] = s[i]
      /\ DOMAIN s = 1 .. Len(s) /\ DOMAIN Append(s, e) = 1 .. Len(s) + 1
  OBVIOUS
<1> QED
  BY <1>1 DEF Said

LEMMA ConcatAppend ==
  ASSUME NEW r \in Seq(EventKind), NEW s \in Seq(EventKind), NEW e \in EventKind
  PROVE  r \o Append(s, e) = Append(r \o s, e)
<1>1. <<e>> \in Seq(EventKind) /\ r \o s \in Seq(EventKind)
  BY ConcatProperties
<1>2. Append(s, e) = s \o <<e>> /\ Append(r \o s, e) = (r \o s) \o <<e>>
  BY <1>1, AppendIsConcat
<1> QED
  BY <1>1, <1>2, ConcatAssociative

LEMMA HeadMoves ==
  ASSUME NEW r \in Seq(EventKind), NEW s \in Seq(EventKind), s # <<>>
  PROVE  Append(r, Head(s)) \o Tail(s) = r \o s
<1>1. Head(s) \in EventKind /\ Tail(s) \in Seq(EventKind) /\ <<Head(s)>> \in Seq(EventKind)
  OBVIOUS
<1>2. Append(r, Head(s)) = r \o <<Head(s)>>
  BY <1>1, AppendIsConcat
<1>3. s = <<Head(s)>> \o Tail(s)
  OBVIOUS
<1> QED
  BY <1>1, <1>2, <1>3, ConcatAssociative

-----------------------------------------------------------------------------
(* The steps of a thread.                                                  *)

LEMMA EmitEffect ==
  ASSUME TypeOK, NEW t \in Task, NEW e \in EventKind,
         emit(t, e) \/ emitUnlessDisabled(t, e)
  PROVE  \/ e \in disabled[t] /\ deque' = deque /\ emitted' = emitted /\ notifying' = notifying
         \/ /\ mutex[t] = Nobody /\ notifying'[t]
            /\ deque'[t] = Append(deque[t], e) /\ emitted'[t] = Append(emitted[t], e)
            /\ \A u \in Task \ {t} : /\ deque'[u] = deque[u] /\ emitted'[u] = emitted[u]
                                     /\ notifying'[u] = notifying[u]
<1>1. CASE emit(t, e)
  BY <1>1 DEF emit, TypeOK
<1>2. CASE emitUnlessDisabled(t, e) /\ e \notin disabled[t]
  BY <1>2 DEF emitUnlessDisabled, emit, TypeOK
<1>3. CASE emitUnlessDisabled(t, e) /\ e \in disabled[t]
  BY <1>3 DEF emitUnlessDisabled
<1> QED
  BY <1>1, <1>2, <1>3

\* What a step of the thread of t leaves alone.
LEMMA ThreadFrame ==
  ASSUME TypeOK, NEW t \in Task, TaskThread(t)
  PROVE  /\ object' = object /\ disabled' = disabled /\ received' = received
         /\ told' = told /\ mutex' = mutex /\ ctask' = ctask
         /\ \A u \in Task \ {t} :
              /\ pc'[u] = pc[u] /\ running'[u] = running[u] /\ barrier'[u] = barrier[u]
              /\ deque'[u] = deque[u] /\ emitted'[u] = emitted[u]
              /\ notifying'[u] = notifying[u]
         /\ \A c \in Consumer : \/ cpc'[c] = cpc[c]
                                \/ cpc[c] = "asleep" /\ cpc'[c] = "lock" /\ ctask[c] = t
<1> USE DEF Goto, At, object_, consumers, TypeOK
<1>1. CASE SetRunning(t) \/ SetBarrier(t) \/ TakeSemaphore(t) \/ InitialEvent(t)
           \/ ReactorReturns(t) \/ ClearRunning(t) \/ Release(t)
  BY <1>1 DEF SetRunning, SetBarrier, TakeSemaphore, Acquire, InitialEvent, ReactorReturns,
              ClearRunning, Release, Exit
<1>2. CASE Notify(t) \/ LastNotify(t)
  BY <1>2 DEF Notify, LastNotify, WakeAll
<1>3. CASE EmitQueued(t) \/ LogSettings(t) \/ EmitFailure(t)
  BY <1>3 DEF EmitQueued, LogSettings, EmitFailure, emit
<1>4. CASE EmitStarted(t) \/ EmitWhileRunning(t) \/ EmitEnd(t)
  BY <1>4 DEF EmitStarted, EmitWhileRunning, EmitEnd, emitUnlessDisabled, emit
<1> QED
  BY <1>1, <1>2, <1>3, <1>4 DEF TaskThread

\* A step that emits nothing leaves the queue, or has woken every reader.
LEMMA QuietEffect ==
  ASSUME TypeOK, NEW t \in Task,
         \/ SetRunning(t) \/ SetBarrier(t) \/ Notify(t) \/ TakeSemaphore(t)
         \/ InitialEvent(t) \/ ReactorReturns(t) \/ ClearRunning(t) \/ LastNotify(t)
         \/ Release(t)
  PROVE  /\ deque' = deque /\ emitted' = emitted
         /\ \/ notifying' = notifying
            \/ \A c \in Consumer : cpc'[c] = "asleep" => ctask'[c] # t
<1> USE DEF Goto, At, object_, consumers, TypeOK
<1>1. CASE Notify(t)
  BY <1>1 DEF Notify, WakeAll
<1> QED
  BY <1>1 DEF SetRunning, SetBarrier, TakeSemaphore, Acquire, InitialEvent,
              ReactorReturns, ClearRunning, LastNotify, Release, Exit

Emits(t) ==
  \/ EmitQueued(t) \/ LogSettings(t) \/ EmitFailure(t)
  \/ EmitStarted(t) \/ EmitWhileRunning(t) \/ EmitEnd(t)

LEMMA EmitsOne ==
  ASSUME NEW t \in Task, Emits(t)
  PROVE  \E e \in EventKind : emit(t, e) \/ emitUnlessDisabled(t, e)
BY DEF Emits, EmitQueued, LogSettings, EmitFailure, EmitStarted,
       EmitWhileRunning, EmitEnd, EventKind

LEMMA ThreadStages ==
  ASSUME TypeOK, NEW t \in Task, Stages(t), TaskThread(t)
  PROVE  Stages(t)'
<1> USE DEF Goto, At, object_, consumers, TypeOK, Stages, Begun, Closed
<1>1. CASE SetRunning(t) \/ SetBarrier(t) \/ TakeSemaphore(t) \/ InitialEvent(t)
           \/ ReactorReturns(t) \/ ClearRunning(t) \/ Release(t)
  BY <1>1 DEF SetRunning, SetBarrier, TakeSemaphore, Acquire, InitialEvent, ReactorReturns,
              ClearRunning, Release, Exit
<1>2. CASE Notify(t) \/ LastNotify(t)
  BY <1>2 DEF Notify, LastNotify, WakeAll
<1>3. CASE EmitQueued(t) \/ LogSettings(t) \/ EmitFailure(t)
  BY <1>3 DEF EmitQueued, LogSettings, EmitFailure, emit
<1>4. CASE EmitStarted(t) \/ EmitWhileRunning(t) \/ EmitEnd(t)
  BY <1>4 DEF EmitStarted, EmitWhileRunning, EmitEnd, emitUnlessDisabled, emit
<1> QED
  BY <1>1, <1>2, <1>3, <1>4 DEF TaskThread

\* The semaphore is taken when it is free, and given back by its holder.
LEMMA ThreadExclusive ==
  ASSUME TypeOK, NEW t \in Task, TaskThread(t), \A u \in Task : Exclusive(u)
  PROVE  \A u \in Task : Exclusive(u)'
<1>1. \A u \in Task \ {t} : pc'[u] = pc[u]
  BY ThreadFrame
<1>2. SUFFICES ASSUME NEW u \in Task, pc'[u] \in Holding
               PROVE  semaphore' = u
  BY DEF Exclusive
<1>3. pc[u] \in Holding => semaphore = u
  BY DEF Exclusive
<1> USE DEF Goto, At, object_, consumers, TypeOK
<1>4. CASE TakeSemaphore(t)
  <2>1. semaphore = Nobody /\ semaphore' = t /\ u # Nobody
    BY <1>4, TaskAssumption DEF TakeSemaphore, Acquire
  <2> QED
    BY <1>1, <1>2, <1>3, <2>1
<1>5. CASE Release(t)
  <2>1. pc[t] = "release" /\ pc'[t] = "exited"
    BY <1>5 DEF Release, Exit
  <2>2. semaphore = t
    BY <2>1 DEF Exclusive, Holding
  <2>3. u # t
    BY <1>2, <2>1 DEF Holding
  <2> QED
    BY <1>1, <1>2, <1>3, <2>2, <2>3
<1>6. CASE ~TakeSemaphore(t) /\ ~Release(t)
  <2>1. CASE SetRunning(t) \/ SetBarrier(t) \/ InitialEvent(t) \/ ReactorReturns(t)
             \/ ClearRunning(t) \/ Notify(t) \/ LastNotify(t)
    BY <1>1, <1>2, <1>3, <2>1 DEF SetRunning, SetBarrier, InitialEvent, ReactorReturns,
       ClearRunning, Notify, LastNotify, Holding
  <2>2. CASE EmitQueued(t) \/ LogSettings(t) \/ EmitFailure(t)
    BY <1>1, <1>2, <1>3, <2>2 DEF EmitQueued, LogSettings, EmitFailure,
       emit, Holding
  <2>3. CASE EmitStarted(t) \/ EmitWhileRunning(t) \/ EmitEnd(t)
    BY <1>1, <1>2, <1>3, <2>3 DEF EmitStarted, EmitWhileRunning, EmitEnd,
       emitUnlessDisabled, emit, Holding
  <2> QED
    BY <1>6, <2>1, <2>2, <2>3 DEF TaskThread
<1> QED
  BY <1>4, <1>5, <1>6

LEMMA ThreadQueue ==
  ASSUME TypeOK, NEW t \in Task, TaskThread(t), Queue(t)
  PROVE  Queue(t)'
<1>1. received' = received
  BY ThreadFrame
<1>2. SUFFICES emitted'[t] = received[t] \o deque'[t]
  BY <1>1 DEF Queue
<1>3. CASE Emits(t)
  <2>1. PICK e \in EventKind : emit(t, e) \/ emitUnlessDisabled(t, e)
    BY <1>3, EmitsOne
  <2>2. received[t] \in Seq(EventKind) /\ deque[t] \in Seq(EventKind)
    BY DEF TypeOK
  <2>3. CASE deque' = deque /\ emitted' = emitted
    BY <2>3 DEF Queue
  <2>4. CASE deque'[t] = Append(deque[t], e) /\ emitted'[t] = Append(emitted[t], e)
    BY <2>2, <2>4, ConcatAppend DEF Queue
  <2> QED
    BY <2>1, <2>3, <2>4, EmitEffect
<1>4. CASE ~Emits(t)
  <2>1. deque' = deque /\ emitted' = emitted
    BY <1>4, QuietEffect DEF TaskThread, Emits
  <2> QED
    BY <2>1 DEF Queue
<1> QED
  BY <1>3, <1>4

LEMMA ThreadReader ==
  ASSUME TypeOK, NEW t \in Task, TaskThread(t), NEW c \in Consumer, Reader(c)
  PROVE  Reader(c)'
<1>1. /\ mutex' = mutex /\ ctask' = ctask
      /\ \A u \in Task \ {t} : /\ pc'[u] = pc[u] /\ deque'[u] = deque[u]
                               /\ notifying'[u] = notifying[u]
      /\ cpc'[c] = cpc[c] \/ (cpc[c] = "asleep" /\ cpc'[c] = "lock" /\ ctask[c] = t)
  BY ThreadFrame
<1>2. cpc[c] # "out" => ctask[c] \in Task
  BY DEF TypeOK
<1>3. pc[t] \in Begun => pc'[t] \in Begun
  <2> USE DEF Goto, At, Begun, TypeOK
  <2>1. CASE Notify(t)
    BY <2>1 DEF Notify
  <2>2. CASE LogSettings(t)
    BY <2>2 DEF LogSettings
  <2>3. CASE EmitWhileRunning(t)
    BY <2>3 DEF EmitWhileRunning
  <2> QED
    BY <2>1, <2>2, <2>3 DEF TaskThread, SetRunning, SetBarrier, EmitQueued, TakeSemaphore,
          Acquire, EmitFailure, EmitStarted, InitialEvent, ReactorReturns, EmitEnd,
          ClearRunning, LastNotify, Release, Exit
<1>4. CASE ctask[c] # t
  BY <1>1, <1>2, <1>4 DEF Reader, TypeOK
<1>5. CASE ctask[c] = t /\ Emits(t)
  <2>1. PICK e \in EventKind : emit(t, e) \/ emitUnlessDisabled(t, e)
    BY <1>5, EmitsOne
  <2>2. c # Nobody
    BY TaskAssumption
  <2> QED
    BY <1>1, <1>2, <1>3, <1>5, <2>1, <2>2, EmitEffect DEF Reader, TypeOK
<1>6. CASE ctask[c] = t /\ ~Emits(t)
  BY <1>1, <1>2, <1>3, <1>6, QuietEffect DEF Reader, TypeOK, TaskThread, Emits
<1> QED
  BY <1>4, <1>5, <1>6

\* The emission of e by t, when the setting lets it pass.
LEMMA EmitSaid ==
  ASSUME TypeOK, NEW t \in Task, NEW e \in EventKind,
         emit(t, e) \/ emitUnlessDisabled(t, e)
  PROVE  /\ \A x : Said(emitted[t], x) => Said(emitted'[t], x)
         /\ \A x : Said(emitted'[t], x) => Said(emitted[t], x) \/ x = e
         /\ Said(emitted'[t], e) \/ e \in disabled[t]
<1>1. emitted[t] \in Seq(EventKind)
  BY DEF TypeOK
<1>2. CASE e \in disabled[t] /\ emitted' = emitted
  BY <1>2
<1>3. CASE emitted'[t] = Append(emitted[t], e)
  BY <1>1, <1>3, SaidAppend
<1> QED
  BY <1>2, <1>3, EmitEffect

LEMMA EmitAlwaysSaid ==
  ASSUME TypeOK, NEW t \in Task, NEW e \in EventKind, emit(t, e)
  PROVE  Said(emitted'[t], e)
<1>1. emitted[t] \in Seq(EventKind) /\ emitted'[t] = Append(emitted[t], e)
  BY DEF TypeOK, emit
<1> QED
  BY <1>1, SaidAppend

\* "status.started" is said when the settings are good, and the last event
\* before `running` is cleared.
LEMMA ThreadEnds ==
  ASSUME TypeOK, NEW t \in Task, TaskThread(t), Ending(t)
  PROVE  Ending(t)'
<1>1. told' = told /\ disabled' = disabled
  BY ThreadFrame
<1>2. pc[t] \in Labels /\ pc \in [Task -> Labels]
  BY DEF TypeOK
<1>3. CASE Emits(t)
  <2>1. told[t] = FALSE
    BY <1>3 DEF Ending, Closed, Emits, EmitQueued, LogSettings, EmitFailure,
       EmitStarted, EmitWhileRunning, EmitEnd, At, TypeOK
  <2>2. CASE EmitQueued(t)
    <3>1. emit(t, "status.queued") /\ "status.queued" \in EventKind
      BY <2>2 DEF EmitQueued, EventKind
    <3>2. pc[t] = "queued" /\ pc'[t] = "acquire"
      BY <1>2, <2>2 DEF EmitQueued, At, Goto
    <3>3. ~Said(emitted'[t], "status.started")
      BY <3>1, <3>2, EmitSaid DEF Ending
    <3> QED
      BY <1>1, <2>1, <3>2, <3>3 DEF Ending, Closed
  <2>3. CASE LogSettings(t)
    <3>1. emit(t, "log") /\ "log" \in EventKind
      BY <2>3 DEF LogSettings, EventKind
    <3>2. pc[t] = "validate" /\ pc'[t] \in {"validate", "refuse"}
      BY <1>2, <2>3 DEF LogSettings, At, Goto
    <3>3. ~Said(emitted'[t], "status.started")
      BY <3>1, <3>2, EmitSaid DEF Ending
    <3> QED
      BY <1>1, <2>1, <3>2, <3>3 DEF Ending, Closed
  <2>4. CASE EmitFailure(t)
    <3>1. emit(t, "failure.startup") /\ "failure.startup" \in EventKind
      BY <2>4 DEF EmitFailure, EventKind
    <3>2. pc[t] = "refuse" /\ pc'[t] = "finish"
      BY <1>2, <2>4 DEF EmitFailure, At, Goto
    <3>3. ~Said(emitted'[t], "status.started") /\ Said(emitted'[t], "failure.startup")
      BY <3>1, <3>2, EmitSaid, EmitAlwaysSaid DEF Ending
    <3> QED
      BY <1>1, <2>1, <3>2, <3>3 DEF Ending, Closed, SaidEnd
  <2>5. CASE EmitStarted(t) \/ EmitWhileRunning(t)
    <3>1. pc'[t] \in {"initial", "run"}
      BY <1>2, <2>5 DEF EmitStarted, EmitWhileRunning, At, Goto
    <3> QED
      BY <1>1, <2>1, <3>1 DEF Ending, Closed
  <2>6. CASE EmitEnd(t)
    <3>1. emitUnlessDisabled(t, "status.end") /\ "status.end" \in EventKind
      BY <2>6 DEF EmitEnd, EventKind
    <3>2. pc'[t] = "finish"
      BY <1>2, <2>6 DEF EmitEnd, Goto
    <3>3. Said(emitted'[t], "status.end") \/ "status.end" \in disabled[t]
      BY <3>1, EmitSaid
    <3> QED
      BY <1>1, <2>1, <3>2, <3>3 DEF Ending, Closed, SaidEnd
  <2> QED
    BY <1>3, <2>2, <2>3, <2>4, <2>5, <2>6 DEF Emits
<1>4. CASE ~Emits(t)
  <2>1. deque' = deque /\ emitted' = emitted
    BY <1>4, QuietEffect DEF TaskThread, Emits
  <2>2. \/ pc'[t] = pc[t]
        \/ pc[t] = "start" /\ pc'[t] = "barrier"
        \/ pc[t] = "barrier" /\ pc'[t] = "queued"
        \/ pc[t] = "acquire" /\ pc'[t] = "validate"
        \/ pc[t] = "initial" /\ pc'[t] \in {"run", "end"}
        \/ pc[t] = "run" /\ pc'[t] = "end"
        \/ pc[t] = "finish" /\ pc'[t] = "lastNotify"
        \/ pc[t] = "lastNotify" /\ pc'[t] = "release"
        \/ pc[t] = "release" /\ pc'[t] = "exited"
    BY <1>2, <1>4 DEF Emits, TaskThread, Goto, At, SetRunning, SetBarrier, Notify,
       TakeSemaphore, Acquire, InitialEvent, ReactorReturns, ClearRunning, LastNotify,
       Release, Exit
  <2> QED
    BY <1>1, <2>1, <2>2 DEF Ending, Closed, SaidEnd
<1> QED
  BY <1>3, <1>4

LEMMA ThreadStep ==
  ASSUME IInv, NEW t \in Task, TaskThread(t)
  PROVE  IInv'
<1>1. TypeOK /\ TypeOK'
  BY ThreadTypes DEF IInv
<1>2. \A u \in Task : Exclusive(u)'
  BY <1>1, ThreadExclusive DEF IInv
<1>3. Stages(t)' /\ Queue(t)' /\ Ending(t)'
  BY <1>1, ThreadStages, ThreadQueue, ThreadEnds DEF IInv
<1>4. ASSUME NEW u \in Task \ {t} PROVE Stages(u)' /\ Queue(u)' /\ Ending(u)'
  <2>1. /\ object' = object /\ disabled' = disabled /\ received' = received /\ told' = told
        /\ pc'[u] = pc[u] /\ running'[u] = running[u] /\ barrier'[u] = barrier[u]
        /\ deque'[u] = deque[u] /\ emitted'[u] = emitted[u]
    BY <1>1, ThreadFrame
  <2>2. Stages(u) /\ Queue(u) /\ Ending(u)
    BY DEF IInv
  <2>3. Stages(u)'
    BY <2>1, <2>2 DEF Stages
  <2>4. Queue(u)'
    BY <2>1, <2>2 DEF Queue
  <2>5. Ending(u)'
    BY <2>1, <2>2 DEF Ending, SaidEnd
  <2> QED
    BY <2>3, <2>4, <2>5
<1>5. \A c \in Consumer : Reader(c)'
  BY <1>1, ThreadReader DEF IInv
<1> QED
  BY <1>1, <1>2, <1>3, <1>4, <1>5 DEF IInv

-----------------------------------------------------------------------------
(* The steps of the threads that wait, and those of the application.       *)

\* A step that changes neither what a thread does nor what it has emitted.
LEMMA TaskKept ==
  ASSUME NEW t \in Task, Stages(t), Exclusive(t), Queue(t), Ending(t),
         pc' = pc, running' = running, barrier' = barrier, semaphore' = semaphore,
         disabled' = disabled, emitted' = emitted,
         object'[t] = object[t], deque'[t] = deque[t], received'[t] = received[t],
         told'[t] = told[t]
  PROVE  Stages(t)' /\ Exclusive(t)' /\ Queue(t)' /\ Ending(t)'
<1>1. Stages(t)'
  BY DEF Stages
<1>2. Exclusive(t)' /\ Queue(t)'
  BY DEF Exclusive, Queue
<1>3. Ending(t)'
  BY DEF Ending, SaidEnd
<1> QED
  BY <1>1, <1>2, <1>3

\* Once the barrier is down, the thread is running or has stopped for good.
LEMMA NotRunningIsClosed ==
  ASSUME TypeOK, NEW t \in Task, Stages(t), pc[t] \in Begun, ~running[t]
  PROVE  pc[t] \in Closed
BY DEF Stages, Begun, Closed

LEMMA LockStep ==
  ASSUME IInv, NEW c \in Consumer, Lock(c) \/ DecideToSleep(c) \/ Sleep(c) \/ WakeSpuriously(c)
  PROVE  IInv'
<1>1. TypeOK /\ TypeOK'
  BY ReaderTypes DEF IInv, Waiting
<1>2. \A t \in Task : Stages(t)' /\ Exclusive(t)' /\ Queue(t)' /\ Ending(t)'
  BY TaskKept DEF IInv, Lock, DecideToSleep, Sleep, WakeSpuriously, object_, thread_
<1>3. ASSUME NEW d \in Consumer PROVE Reader(d)'
  <2>1. Reader(c) /\ Reader(d) /\ c # Nobody /\ d # Nobody
    BY TaskAssumption DEF IInv
  <2>2. /\ cpc[c] # "out" => ctask[c] \in Task
        /\ cpc[d] # "out" => ctask[d] \in Task
    BY <1>1 DEF TypeOK
  <2> USE DEF object_, thread_, Move, TypeOK, Reader
  <2>3. CASE Lock(c)
    BY <1>1, <2>1, <2>2, <2>3 DEF Lock
  <2>4. CASE DecideToSleep(c)
    BY <1>1, <2>1, <2>2, <2>4 DEF DecideToSleep
  <2>5. CASE Sleep(c)
    BY <1>1, <2>1, <2>2, <2>5 DEF Sleep
  <2>6. CASE WakeSpuriously(c)
    BY <1>1, <2>1, <2>2, <2>6 DEF WakeSpuriously
  <2> QED
    BY <2>3, <2>4, <2>5, <2>6
<1> QED
  BY <1>1, <1>2, <1>3 DEF IInv

LEMMA ReturnEventStep ==
  ASSUME IInv, NEW c \in Consumer, ReturnEvent(c)
  PROVE  IInv'
<1>1. TypeOK /\ TypeOK'
  BY ReaderTypes DEF IInv, Waiting
<1>0. PICK t \in Task : t = ctask[c]
  BY <1>1 DEF ReturnEvent, TypeOK
<1>2. t \in Task /\ deque[t] # <<>> /\ cpc[c] = "test"
  BY <1>0 DEF ReturnEvent
<1>3. /\ deque' = [deque EXCEPT ![t] = Tail(@)]
      /\ received' = [received EXCEPT ![t] = Append(@, Head(deque[t]))]
      /\ cpc' = [cpc EXCEPT ![c] = "out"] /\ ctask' = [ctask EXCEPT ![c] = Nobody]
      /\ mutex' = [mutex EXCEPT ![t] = Nobody]
      /\ pc' = pc /\ notifying' = notifying
  BY <1>0 DEF ReturnEvent, Leave, Move, thread_
<1>4. UNCHANGED <<object_, thread_, emitted, told>>
  BY DEF ReturnEvent
<1>5. ASSUME NEW u \in Task, u # t
      PROVE  Stages(u)' /\ Exclusive(u)' /\ Queue(u)' /\ Ending(u)'
  <2>1. deque'[u] = deque[u] /\ received'[u] = received[u]
    BY <1>1, <1>3, <1>5 DEF TypeOK
  <2> QED
    BY <1>4, <2>1, TaskKept DEF IInv, object_, thread_
<1>6. Stages(t)' /\ Exclusive(t)'
  BY <1>2, <1>4 DEF IInv, Stages, Exclusive, object_, thread_
<1>7. Queue(t)'
  <2>1. deque'[t] = Tail(deque[t]) /\ received'[t] = Append(received[t], Head(deque[t]))
    BY <1>1, <1>2, <1>3 DEF TypeOK
  <2>2. received[t] \in Seq(EventKind) /\ deque[t] \in Seq(EventKind)
    BY <1>1, <1>2 DEF TypeOK
  <2>3. emitted'[t] = received[t] \o deque[t]
    BY <1>2, <1>4 DEF IInv, Queue
  <2> QED
    BY <1>2, <2>1, <2>2, <2>3, HeadMoves DEF Queue
<1>8. Ending(t)'
  <2>1. Ending(t)
    BY <1>2 DEF IInv
  <2>2. told'[t] = told[t] /\ emitted' = emitted /\ pc' = pc /\ disabled' = disabled
    BY <1>4 DEF thread_, object_
  <2>3. ~told[t]
    BY <1>2, <2>1 DEF Ending
  <2> QED
    BY <2>1, <2>2, <2>3 DEF Ending, SaidEnd
<1>9. ASSUME NEW d \in Consumer PROVE Reader(d)'
  <2>1. Reader(c) /\ Reader(d)
    BY DEF IInv
  <2>2. mutex[t] = c
    BY <1>0, <1>2, <2>1 DEF Reader
  <2>3. CASE d = c
    BY <1>1, <1>3, <2>3 DEF TypeOK, Reader
  <2>4. CASE d # c
    <3>1. cpc'[d] = cpc[d] /\ ctask'[d] = ctask[d]
      BY <1>1, <1>3, <2>4 DEF TypeOK
    <3>2. CASE ctask[d] = t
      BY <1>1, <1>2, <1>3, <2>1, <2>2, <2>4, <3>1, <3>2 DEF Reader, TypeOK
    <3>3. CASE ctask[d] # t
      BY <1>1, <1>3, <2>1, <3>1, <3>3 DEF Reader, TypeOK
    <3> QED
      BY <3>2, <3>3
  <2> QED
    BY <2>3, <2>4
<1> QED
  BY <1>1, <1>2, <1>5, <1>6, <1>7, <1>8, <1>9 DEF IInv

LEMMA ReturnTerminatedStep ==
  ASSUME IInv, NEW c \in Consumer, ReturnTerminated(c)
  PROVE  IInv'
<1>1. TypeOK /\ TypeOK'
  BY ReaderTypes DEF IInv, Waiting
<1>0. PICK t \in Task : t = ctask[c]
  BY <1>1 DEF ReturnTerminated, TellTerminated, TypeOK
<1>2. t \in Task /\ deque[t] = <<>> /\ cpc[c] = "test" /\ ~running[t]
  BY <1>0 DEF ReturnTerminated, TellTerminated
<1>3. /\ told' = [told EXCEPT ![t] = TRUE]
      /\ cpc' = [cpc EXCEPT ![c] = "out"] /\ ctask' = [ctask EXCEPT ![c] = Nobody]
      /\ mutex' = [mutex EXCEPT ![t] = Nobody]
      /\ pc' = pc /\ notifying' = notifying /\ deque' = deque
  BY <1>0 DEF ReturnTerminated, TellTerminated, Leave, Move, thread_
<1>4. UNCHANGED <<object_, thread_, emitted, received>>
  BY DEF ReturnTerminated, TellTerminated
<1>5. ASSUME NEW u \in Task, u # t
      PROVE  Stages(u)' /\ Exclusive(u)' /\ Queue(u)' /\ Ending(u)'
  <2>1. told'[u] = told[u]
    BY <1>1, <1>3, <1>5 DEF TypeOK
  <2> QED
    BY <1>3, <1>4, <2>1, TaskKept DEF IInv, object_, thread_
<1>6. Stages(t)' /\ Exclusive(t)' /\ Queue(t)'
  BY <1>2, <1>3, <1>4 DEF IInv, Stages, Exclusive, Queue, object_, thread_
<1>7. Ending(t)'
  <2>1. pc[t] \in Begun /\ Stages(t) /\ Ending(t)
    BY <1>0, <1>2 DEF IInv, Reader
  <2>2. pc[t] \in Closed
    BY <1>1, <1>2, <2>1, NotRunningIsClosed
  <2>3. emitted' = emitted /\ disabled' = disabled
    BY <1>4 DEF object_
  <2> QED
    BY <1>2, <1>3, <2>1, <2>2, <2>3 DEF Ending, SaidEnd
<1>8. ASSUME NEW d \in Consumer PROVE Reader(d)'
  <2>1. Reader(c) /\ Reader(d)
    BY DEF IInv
  <2>2. mutex[t] = c
    BY <1>0, <1>2, <2>1 DEF Reader
  <2>3. CASE d = c
    BY <1>1, <1>3, <2>3 DEF TypeOK, Reader
  <2>4. CASE d # c
    <3>1. cpc'[d] = cpc[d] /\ ctask'[d] = ctask[d]
      BY <1>1, <1>3, <2>4 DEF TypeOK
    <3>2. CASE ctask[d] = t
      BY <1>1, <1>2, <1>3, <2>1, <2>2, <2>4, <3>1, <3>2 DEF Reader, TypeOK
    <3>3. CASE ctask[d] # t
      BY <1>1, <1>3, <2>1, <3>1, <3>3 DEF Reader, TypeOK
    <3> QED
      BY <3>2, <3>3
  <2> QED
    BY <2>3, <2>4
<1> QED
  BY <1>1, <1>2, <1>5, <1>6, <1>7, <1>8 DEF IInv

LEMMA ReadersKept ==
  ASSUME \A c \in Consumer : Reader(c),
         mutex' = mutex, cpc' = cpc, ctask' = ctask, deque' = deque,
         notifying' = notifying,
         \A c \in Consumer : cpc[c] # "out" => pc'[ctask[c]] = pc[ctask[c]]
  PROVE  \A c \in Consumer : Reader(c)'
BY DEF Reader

LEMMA ApplicationStep ==
  ASSUME IInv, NEW t \in Task,
         \/ Construct(t) \/ Constructed(t) \/ is_done(t) \/ interrupt(t) \/ Destroy(t)
         \/ Joined(t) \/ \E c \in Consumer : WaitCall(c, t)
  PROVE  IInv'
<1>1. TypeOK /\ TypeOK'
  BY ApplicationTypes DEF IInv
<1>2. /\ Stages(t) /\ Exclusive(t) /\ Queue(t) /\ Ending(t)
      /\ \A u \in Task : Stages(u) /\ Exclusive(u) /\ Queue(u) /\ Ending(u)
      /\ \A c \in Consumer : Reader(c) /\ (cpc[c] # "out" => ctask[c] \in Task)
  BY <1>1 DEF IInv, TypeOK
<1> USE DEF object_, thread_, consumers
<1>3. CASE Construct(t)
  <2>1. /\ pc[t] = "none" /\ ~barrier[t] /\ ~told[t] /\ pc' = [pc EXCEPT ![t] = "start"]
        /\ object'[t] = "constructing" /\ pc'[t] = "start"
        /\ \A u \in Task \ {t} : /\ object'[u] = object[u] /\ pc'[u] = pc[u]
                                 /\ disabled'[u] = disabled[u]
    BY <1>1, <1>2, <1>3 DEF Construct, TypeOK, Stages, Ending, Begun, Closed
  <2>2. UNCHANGED <<barrier, notifying, running, semaphore, interrupted, deque, mutex,
                    consumers, emitted, received, told>>
    BY <1>3 DEF Construct
  <2>3. ASSUME NEW u \in Task PROVE Stages(u)'
    BY <1>2, <2>1, <2>2 DEF Stages, Begun, Closed
  <2>4. ASSUME NEW u \in Task PROVE Exclusive(u)' /\ Queue(u)'
    BY <1>2, <2>1, <2>2 DEF Exclusive, Queue, Holding
  <2>5. ASSUME NEW u \in Task PROVE Ending(u)'
    <3>1. CASE u = t
      BY <1>2, <2>1, <2>2, <3>1 DEF Ending, Closed
    <3>2. CASE u # t
      BY <1>2, <2>1, <2>2, <3>2 DEF Ending, SaidEnd
    <3> QED
      BY <3>1, <3>2
  <2>6. \A c \in Consumer : cpc[c] # "out" => pc'[ctask[c]] = pc[ctask[c]]
    BY <1>2, <2>1 DEF Reader, Begun
  <2>7. \A c \in Consumer : Reader(c)'
    BY <1>2, <2>2, <2>6, ReadersKept
  <2> QED
    BY <1>1, <2>3, <2>4, <2>5, <2>7 DEF IInv
<1>4. CASE Constructed(t) \/ Destroy(t) \/ Joined(t)
  <2>1. /\ \A u \in Task : \/ object'[u] = object[u]
                           \/ object'[u] = "usable" /\ barrier[u]
                           \/ object'[u] \in {"joining", "destroyed"}
        /\ UNCHANGED <<barrier, disabled, thread_, interrupted, deque, mutex, consumers,
                       emitted, received, told>>
    BY <1>1, <1>4 DEF Constructed, ConstructorReturns, Destroy, Joined, TypeOK
  <2>2. ASSUME NEW u \in Task PROVE Stages(u)' /\ Exclusive(u)' /\ Queue(u)'
    BY <1>2, <2>1 DEF Stages, Exclusive, Queue
  <2>3. ASSUME NEW u \in Task PROVE Ending(u)'
    BY <1>2, <2>1 DEF Ending, SaidEnd
  <2>4. \A c \in Consumer : Reader(c)'
    BY <1>2, <2>1, ReadersKept
  <2> QED
    BY <1>1, <2>2, <2>3, <2>4 DEF IInv
<1>5. CASE is_done(t)
  <2>1. /\ told' = [told EXCEPT ![t] = TRUE] /\ deque[t] = <<>> /\ ~running[t]
        /\ object[t] = "usable"
        /\ UNCHANGED <<object_, thread_, deque, mutex, consumers, emitted, received>>
    BY <1>5 DEF is_done, IsDone
  <2>2. pc[t] \in Closed
    BY <1>1, <1>2, <2>1, NotRunningIsClosed DEF Stages
  <2>3. ASSUME NEW u \in Task PROVE Stages(u)' /\ Exclusive(u)' /\ Queue(u)'
    BY <1>2, <2>1 DEF Stages, Exclusive, Queue
  <2>4. ASSUME NEW u \in Task PROVE Ending(u)'
    <3>1. told'[u] => told[u] \/ u = t
      BY <1>1, <2>1 DEF TypeOK
    <3> QED
      BY <1>2, <2>1, <2>2, <3>1 DEF Ending, SaidEnd
  <2>5. \A c \in Consumer : Reader(c)'
    BY <1>2, <2>1, ReadersKept
  <2> QED
    BY <1>1, <2>3, <2>4, <2>5 DEF IInv
<1>6. CASE interrupt(t)
  <2>1. UNCHANGED <<object_, thread_, deque, mutex, consumers, emitted, received, told>>
    BY <1>6 DEF interrupt
  <2>2. ASSUME NEW u \in Task PROVE Stages(u)' /\ Exclusive(u)' /\ Queue(u)' /\ Ending(u)'
    BY <1>2, <2>1, TaskKept
  <2>3. \A c \in Consumer : Reader(c)'
    BY <1>2, <2>1, ReadersKept
  <2> QED
    BY <1>1, <2>2, <2>3 DEF IInv
<1>7. ASSUME NEW c \in Consumer, WaitCall(c, t) PROVE IInv'
  <2>1. /\ object[t] = "usable" /\ cpc[c] = "out"
        /\ cpc' = [cpc EXCEPT ![c] = "lock"] /\ ctask' = [ctask EXCEPT ![c] = t]
        /\ UNCHANGED <<object_, thread_, interrupted, deque, mutex, emitted, received, told>>
    BY <1>7 DEF WaitCall, Move
  <2>2. pc[t] \in Begun
    BY <1>2, <2>1 DEF Stages
  <2>3. ASSUME NEW u \in Task PROVE Stages(u)' /\ Exclusive(u)' /\ Queue(u)' /\ Ending(u)'
    BY <1>2, <2>1, TaskKept
  <2>4. ASSUME NEW d \in Consumer PROVE Reader(d)'
    <3>1. CASE d = c
      BY <1>1, <2>1, <2>2, <3>1 DEF Reader, TypeOK
    <3>2. CASE d # c
      BY <1>1, <1>2, <2>1, <3>2 DEF Reader, TypeOK
    <3> QED
      BY <3>1, <3>2
  <2> QED
    BY <1>1, <2>3, <2>4 DEF IInv
<1> QED
  BY <1>3, <1>4, <1>5, <1>6, <1>7

-----------------------------------------------------------------------------
(* The invariant, and what it implies.                                     *)

LEMMA InitIInv == Init => IInv
<1> SUFFICES ASSUME Init PROVE IInv
  OBVIOUS
<1>1. TypeOK
  BY InitTypeOK
<1>2. \A t \in Task : Stages(t) /\ Exclusive(t) /\ Ending(t)
  BY DEF Init, Stages, Exclusive, Holding, Ending, Closed, Said
<1>3. ASSUME NEW t \in Task PROVE Queue(t)
  <2>1. emitted[t] = <<>> /\ received[t] = <<>> /\ deque[t] = <<>>
    BY DEF Init
  <2>2. <<>> \o <<>> = <<>>
    OBVIOUS
  <2> QED
    BY <2>1, <2>2 DEF Queue
<1>4. \A c \in Consumer : Reader(c)
  BY DEF Init, Reader
<1> QED
  BY <1>1, <1>2, <1>3, <1>4 DEF IInv

LEMMA StutterIInv == IInv /\ UNCHANGED vars => IInv'
<1> SUFFICES ASSUME IInv, UNCHANGED vars PROVE IInv'
  OBVIOUS
<1>1. TypeOK'
  BY StutterTypes DEF IInv
<1>2. \A t \in Task : Stages(t)' /\ Exclusive(t)' /\ Queue(t)' /\ Ending(t)'
  BY TaskKept DEF IInv, vars, object_, thread_
<1>3. \A c \in Consumer : Reader(c)'
  BY ReadersKept DEF IInv, vars, object_, thread_, consumers
<1> QED
  BY <1>1, <1>2, <1>3 DEF IInv

LEMMA NextIInv == IInv /\ [Next]_vars => IInv'
<1> SUFFICES ASSUME IInv, [Next]_vars PROVE IInv'
  OBVIOUS
<1>1. ASSUME NEW t \in Task, TaskThread(t) PROVE IInv'
  BY <1>1, ThreadStep
<1>2. ASSUME NEW t \in Task,
             \/ Construct(t) \/ Constructed(t) \/ is_done(t) \/ interrupt(t)
             \/ Destroy(t) \/ Joined(t) \/ \E c \in Consumer : WaitCall(c, t)
      PROVE  IInv'
  BY <1>2, ApplicationStep
<1>3. ASSUME NEW c \in Consumer, Waiting(c) \/ WakeSpuriously(c) PROVE IInv'
  BY <1>3, LockStep, ReturnEventStep, ReturnTerminatedStep DEF Waiting
<1> QED
  BY <1>1, <1>2, <1>3, StutterIInv DEF Next, AllDestroyed

\* The inductive invariant: the thread of each task is where its flags say, the
\* semaphore names the task that runs, nothing emitted is lost between the queue
\* and the readers, and a reader that has tested the predicate keeps the mutex.
THEOREM TaskInvariant == Spec => []IInv
BY InitIInv, NextIInv, PTL DEF Spec

\* However many tasks are created, and by whatever threads, one runs at a time:
\* between "status.started" and "status.end" no other task emits either of them.
THEOREM TasksExclude == Spec => []TasksDoNotOverlap
<1>1. IInv => TasksDoNotOverlap
  BY DEF IInv, TasksDoNotOverlap, Active, Exclusive, Holding
<1> QED
  BY <1>1, TaskInvariant, PTL

LEMMA ToldIsTrue == IInv => ToldMeansEndSeen
<1> SUFFICES ASSUME IInv, NEW t \in Task, told[t]
             PROVE  \/ "status.end" \in disabled[t]
                    \/ \E i \in DOMAIN received[t] : received[t][i] = "status.end"
                    \/ /\ \E i \in DOMAIN received[t] : received[t][i] = "failure.startup"
                       /\ \A i \in DOMAIN emitted[t] : emitted[t][i] # "status.started"
  BY DEF ToldMeansEndSeen
<1>1. deque[t] = <<>> /\ SaidEnd(t, emitted[t])
  BY DEF IInv, Ending
<1>2. received[t] \in Seq(EventKind) /\ emitted[t] = received[t] \o deque[t]
  BY DEF IInv, TypeOK, Queue
<1>3. emitted[t] = received[t]
  BY <1>1, <1>2
<1> QED
  BY <1>1, <1>3 DEF SaidEnd, Said

\* Whoever is told that a task is over, by is_done() or by "task_terminated",
\* its last event has been taken by then, among any number of readers.
THEOREM TaskTellsTruly == Spec => []ToldMeansEndSeen
BY ToldIsTrue, TaskInvariant, PTL

\* No thread is left asleep with an event in its queue and no notification to
\* come, however many threads wait for the events of the same task.
THEOREM NobodySleepsOnAnEvent == Spec => []NoSleepOnEvent
<1>1. IInv => NoSleepOnEvent
  BY DEF IInv, NoSleepOnEvent, Reader
<1> QED
  BY <1>1, TaskInvariant, PTL

-----------------------------------------------------------------------------
(* The order of the events.                                                *)

Earlier(s, i, e) == \E k \in 1 .. i - 1 : s[k] = e

\* What EventsInOrder says of the events s of t.
InOrder(t, s) ==
  \A i \in DOMAIN s :
    LET started == Earlier(s, i, "status.started") \/ "status.started" \in disabled[t]
    IN /\ s[i] = "status.queued" <=> i = 1
       /\ s[i] = "status.end" => i = Len(s)
       /\ s[i] = "failure.startup" => i = Len(s) \/ started
       /\ s[i] \in {"measurement", "status.end"} => started
       /\ s[i] = "status.started" =>
            ~Earlier(s, i, "status.started") /\ ~Earlier(s, i, "failure.startup")

\* Nothing that was said so far had to be the last event.
MayGoOn(t, s) ==
  /\ ~Said(s, "status.end")
  /\ \A i \in DOMAIN s : s[i] = "failure.startup" =>
       Earlier(s, i, "status.started") \/ "status.started" \in disabled[t]

\* What has been said, according to where the thread is.
Ordered(t) ==
  /\ pc[t] \in {"none", "start", "barrier", "queued"} <=> emitted[t] = <<>>
  /\ pc[t] \in {"none", "start", "barrier", "queued", "acquire", "validate", "refuse"} =>
       ~Said(emitted[t], "status.started") /\ ~Said(emitted[t], "failure.startup")
  /\ pc[t] \in {"initial", "run", "end"} =>
       Said(emitted[t], "status.started") \/ "status.started" \in disabled[t]
  /\ pc[t] \notin Closed \cup {"finish"} => MayGoOn(t, emitted[t])
  /\ InOrder(t, emitted[t])

\* An event e that comes after those of s.
LEMMA OrderAppend ==
  ASSUME NEW t, NEW s \in Seq(EventKind), NEW e \in EventKind,
         InOrder(t, s), MayGoOn(t, s), e = "status.queued" <=> s = <<>>,
         e \in {"measurement", "status.end"} =>
           Said(s, "status.started") \/ "status.started" \in disabled[t],
         e = "status.started" =>
           ~Said(s, "status.started") /\ ~Said(s, "failure.startup")
  PROVE  /\ InOrder(t, Append(s, e))
         /\ (e = "failure.startup" =>
               Said(s, "status.started") \/ "status.started" \in disabled[t])
            /\ e # "status.end" => MayGoOn(t, Append(s, e))
<1> DEFINE w == Append(s, e)
           n == Len(s)
<1>1. /\ Len(w) = n + 1 /\ n \in Nat /\ w[n + 1] = e
      /\ \A i \in 1 .. n : w[i] = s[i]
      /\ DOMAIN s = 1 .. n /\ DOMAIN w = 1 .. n + 1
      /\ s = <<>> <=> n = 0
  OBVIOUS
<1> HIDE DEF w, n
<1>2. ASSUME NEW i \in 1 .. n, NEW x PROVE Earlier(w, i, x) <=> Earlier(s, i, x)
  BY <1>1, <1>2 DEF Earlier
<1>3. ASSUME NEW x PROVE Earlier(w, n + 1, x) <=> Said(s, x)
  BY <1>1 DEF Earlier, Said
<1>4. ASSUME NEW i \in 1 .. n
      PROVE  /\ w[i] = s[i] /\ i # n + 1
             /\ s[i] # "status.end"
             /\ s[i] = "failure.startup" =>
                  Earlier(s, i, "status.started") \/ "status.started" \in disabled[t]
  BY <1>1, <1>4 DEF MayGoOn, Said
<1>5. InOrder(t, w)
  <2>1. ASSUME NEW i \in 1 .. n + 1
        PROVE  LET started == Earlier(w, i, "status.started")
                              \/ "status.started" \in disabled[t]
               IN /\ w[i] = "status.queued" <=> i = 1
                  /\ w[i] = "status.end" => i = Len(w)
                  /\ w[i] = "failure.startup" => i = Len(w) \/ started
                  /\ w[i] \in {"measurement", "status.end"} => started
                  /\ w[i] = "status.started" =>
                       ~Earlier(w, i, "status.started") /\ ~Earlier(w, i, "failure.startup")
    <3>1. CASE i \in 1 .. n
      BY <1>1, <1>2, <1>4, <3>1 DEF InOrder
    <3>2. CASE i = n + 1
      BY <1>1, <1>3, <3>2
    <3> QED BY <1>1, <3>1, <3>2
  <2> QED BY <1>1, <2>1 DEF InOrder
<1>6. ASSUME e = "failure.startup" =>
               Said(s, "status.started") \/ "status.started" \in disabled[t],
             e # "status.end"
      PROVE  MayGoOn(t, w)
  <2>1. ~Said(w, "status.end")
    BY <1>1, <1>4, <1>6 DEF Said
  <2>2. ASSUME NEW i \in 1 .. n + 1, w[i] = "failure.startup"
        PROVE  Earlier(w, i, "status.started") \/ "status.started" \in disabled[t]
    <3>1. CASE i \in 1 .. n
      BY <1>2, <1>4, <2>2, <3>1
    <3>2. CASE i = n + 1
      BY <1>1, <1>3, <1>6, <2>2, <3>2
    <3> QED BY <1>1, <3>1, <3>2
  <2> QED BY <1>1, <2>1, <2>2 DEF MayGoOn
<1> QED BY <1>5, <1>6 DEF w

LEMMA OrderEmpty ==
  ASSUME NEW t PROVE InOrder(t, <<>>) /\ MayGoOn(t, <<>>) /\ \A e : ~Said(<<>>, e)
BY DEF InOrder, MayGoOn, Said

LEMMA OrderedKept ==
  ASSUME NEW t, Ordered(t), pc'[t] = pc[t], emitted'[t] = emitted[t],
         disabled'[t] = disabled[t]
  PROVE  Ordered(t)'
BY DEF Ordered, MayGoOn, InOrder

LEMMA ThreadOrdered ==
  ASSUME TypeOK, NEW t \in Task, TaskThread(t), Ordered(t)
  PROVE  Ordered(t)'
<1>1. disabled' = disabled
  BY ThreadFrame
<1>2. pc[t] \in Labels /\ pc \in [Task -> Labels] /\ emitted[t] \in Seq(EventKind)
  BY DEF TypeOK
<1> DEFINE s == emitted[t]
           ok == Said(s, "status.started") \/ "status.started" \in disabled[t]
           Good == InOrder(t, emitted'[t])
           More == MayGoOn(t, emitted'[t])
<1>3. MayGoOn(t, emitted[t])' = More /\ InOrder(t, emitted[t])' = Good
  BY <1>1 DEF MayGoOn, InOrder
\* The emission of e, or the lack of it.
<1>4. ASSUME NEW e \in EventKind, emit(t, e) \/ emitUnlessDisabled(t, e),
             pc[t] \notin Closed \cup {"finish"}, e = "status.queued" <=> s = <<>>,
             e \in {"measurement", "status.end"} => ok,
             e = "status.started" =>
               ~Said(s, "status.started") /\ ~Said(s, "failure.startup")
      PROVE  /\ Good
             /\ (e = "failure.startup" => ok) /\ e # "status.end" => More
             /\ s # <<>> => emitted'[t] # <<>>
  <2>1. InOrder(t, s) /\ MayGoOn(t, s)
    BY <1>4 DEF Ordered
  <2>2. CASE emitted'[t] = s
    BY <2>1, <2>2
  <2>3. CASE emitted'[t] = Append(s, e)
    <3>1. /\ InOrder(t, Append(s, e))
          /\ (e = "failure.startup" => ok) /\ e # "status.end" => MayGoOn(t, Append(s, e))
      BY <1>2, <1>4, <2>1, OrderAppend
    <3>2. Append(s, e) # <<>>
      BY <1>2, AppendProperties
    <3> HIDE DEF s, ok
    <3> QED BY <2>3, <3>1, <3>2
  <2> QED BY <1>4, <2>2, <2>3, EmitEffect
<1>5. CASE EmitQueued(t)
  <2>1. /\ emit(t, "status.queued") /\ "status.queued" \in EventKind
        /\ pc[t] = "queued" /\ pc'[t] = "acquire"
    BY <1>2, <1>5 DEF EmitQueued, At, Goto, EventKind
  <2>2. s = <<>> /\ emitted'[t] = Append(s, "status.queued")
    BY <1>2, <2>1 DEF Ordered, emit, TypeOK
  <2>3. Good /\ More /\ emitted'[t] # <<>>
    BY <1>2, <1>4, <2>1, <2>2 DEF Closed
  <2>4. ~Said(emitted'[t], "status.started") /\ ~Said(emitted'[t], "failure.startup")
    BY <2>1, EmitSaid DEF Ordered
  <2> QED BY <1>3, <2>1, <2>3, <2>4 DEF Ordered
<1>6. CASE LogSettings(t)
  <2>1. /\ emit(t, "log") /\ "log" \in EventKind
        /\ pc[t] = "validate" /\ pc'[t] \in {"validate", "refuse"}
    BY <1>2, <1>6 DEF LogSettings, At, Goto, EventKind
  <2>2. Good /\ More /\ emitted'[t] # <<>>
    BY <1>4, <2>1 DEF Ordered, Closed
  <2>3. ~Said(emitted'[t], "status.started") /\ ~Said(emitted'[t], "failure.startup")
    BY <2>1, EmitSaid DEF Ordered
  <2> QED BY <1>3, <2>1, <2>2, <2>3 DEF Ordered
<1>7. CASE EmitFailure(t)
  <2>1. /\ emit(t, "failure.startup") /\ "failure.startup" \in EventKind
        /\ pc[t] = "refuse" /\ pc'[t] = "finish"
    BY <1>2, <1>7 DEF EmitFailure, At, Goto, EventKind
  <2>2. Good /\ emitted'[t] # <<>>
    BY <1>4, <2>1 DEF Ordered, Closed
  <2> QED BY <1>3, <2>1, <2>2 DEF Ordered
<1>8. CASE EmitStarted(t)
  <2>1. /\ emitUnlessDisabled(t, "status.started") /\ "status.started" \in EventKind
        /\ pc[t] = "validate" /\ pc'[t] = "initial"
    BY <1>2, <1>8 DEF EmitStarted, At, Goto, EventKind
  <2>2. Good /\ More /\ emitted'[t] # <<>>
    BY <1>4, <2>1 DEF Ordered, Closed
  <2>3. Said(emitted'[t], "status.started") \/ "status.started" \in disabled[t]
    BY <2>1, EmitSaid
  <2> QED BY <1>1, <1>3, <2>1, <2>2, <2>3 DEF Ordered
<1>9. CASE EmitWhileRunning(t)
  <2>1. PICK e \in {"log", "measurement", "failure.startup"} : emitUnlessDisabled(t, e)
    BY <1>9 DEF EmitWhileRunning
  <2>2. e \in EventKind /\ pc[t] = "run" /\ pc'[t] = "run"
    BY <1>9 DEF EmitWhileRunning, At, EventKind
  <2>3. ok /\ s # <<>>
    BY <2>2 DEF Ordered
  <2>4. Good /\ More /\ emitted'[t] # <<>>
    BY <1>4, <2>1, <2>2, <2>3 DEF Closed
  <2>5. Said(emitted'[t], "status.started") \/ "status.started" \in disabled[t]
    BY <2>1, <2>2, <2>3, EmitSaid
  <2> QED BY <1>1, <1>3, <2>2, <2>4, <2>5 DEF Ordered
<1>10. CASE EmitEnd(t)
  <2>1. /\ emitUnlessDisabled(t, "status.end") /\ "status.end" \in EventKind
        /\ pc[t] = "end" /\ pc'[t] = "finish"
    BY <1>2, <1>10 DEF EmitEnd, At, Goto, EventKind
  <2>2. ok /\ s # <<>>
    BY <2>1 DEF Ordered
  <2>3. Good /\ emitted'[t] # <<>>
    BY <1>4, <2>1, <2>2 DEF Closed
  <2> QED BY <1>3, <2>1, <2>3 DEF Ordered
<1>11. CASE ~Emits(t)
  <2>1. emitted' = emitted
    BY <1>11, QuietEffect DEF TaskThread, Emits
  <2>2. \/ pc'[t] = pc[t]
        \/ pc[t] = "start" /\ pc'[t] = "barrier"
        \/ pc[t] = "barrier" /\ pc'[t] = "queued"
        \/ pc[t] = "acquire" /\ pc'[t] = "validate"
        \/ pc[t] = "initial" /\ pc'[t] \in {"run", "end"}
        \/ pc[t] = "run" /\ pc'[t] = "end"
        \/ pc[t] = "finish" /\ pc'[t] = "lastNotify"
        \/ pc[t] = "lastNotify" /\ pc'[t] = "release"
        \/ pc[t] = "release" /\ pc'[t] = "exited"
    BY <1>2, <1>11 DEF Emits, TaskThread, Goto, At, SetRunning, SetBarrier, Notify,
       TakeSemaphore, Acquire, InitialEvent, ReactorReturns, ClearRunning, LastNotify,
       Release, Exit
  <2> QED BY <1>1, <1>3, <2>1, <2>2 DEF Ordered, Closed
<1> QED BY <1>5, <1>6, <1>7, <1>8, <1>9, <1>10, <1>11 DEF Emits

LEMMA OrderedNext ==
  ASSUME IInv, [Next]_vars, \A t \in Task : Ordered(t), NEW t \in Task
  PROVE  Ordered(t)'
<1>1. ASSUME NEW u \in Task, TaskThread(u) PROVE Ordered(t)'
  <2>1. CASE u = t
    BY <1>1, <2>1, ThreadOrdered DEF IInv
  <2>2. CASE u # t
    BY <1>1, <2>2, ThreadFrame, OrderedKept DEF IInv
  <2> QED BY <2>1, <2>2
<1>2. ASSUME NEW u \in Task, Construct(u) PROVE Ordered(t)'
  <2>1. /\ object[u] = "unborn" /\ emitted' = emitted
        /\ \A v \in Task \ {u} : disabled'[v] = disabled[v] /\ pc'[v] = pc[v]
        /\ pc'[u] = "start"
    BY <1>2 DEF Construct, IInv, TypeOK
  <2>2. CASE u = t
    <3>1. pc[t] = "none"
      BY <2>1, <2>2 DEF IInv, Stages
    <3>2. emitted'[t] = <<>>
      BY <2>1, <3>1 DEF Ordered
    <3>3. InOrder(t, <<>>)' /\ MayGoOn(t, <<>>)' /\ \A e : ~Said(<<>>, e)
      BY OrderEmpty DEF InOrder, MayGoOn, Said
    <3> QED BY <2>1, <2>2, <3>2, <3>3 DEF Ordered
  <2>3. CASE u # t
    BY <2>1, <2>3, OrderedKept
  <2> QED BY <2>2, <2>3
<1>3. CASE UNCHANGED <<pc, emitted, disabled>>
  BY <1>3, OrderedKept
<1> QED
  BY <1>1, <1>2, <1>3
     DEF Next, AllDestroyed, vars, object_, thread_, consumers, Constructed,
         ConstructorReturns, is_done, interrupt, Destroy, Joined, Waiting,
         WakeSpuriously, WaitCall, Lock, ReturnEvent, ReturnTerminated, TellTerminated,
         DecideToSleep, Sleep

LEMMA InitOrdered == Init => \A t \in Task : Ordered(t)
<1> SUFFICES ASSUME Init, NEW t \in Task PROVE Ordered(t)
  OBVIOUS
<1>1. pc[t] = "none" /\ emitted[t] = <<>>
  BY DEF Init
<1> QED
  BY <1>1, OrderEmpty DEF Ordered, Closed

\* Whatever is disabled, and whenever the task is interrupted, its events come
\* in their order: the first and the last, and those in between.
THEOREM TaskTellsInOrder == Spec => []EventsInOrder
<1> DEFINE OInv == \A t \in Task : Ordered(t)
<1>1. Init => OInv
  BY InitOrdered
<1>2. OInv /\ IInv /\ [Next]_vars => OInv'
  BY OrderedNext
<1>3. OInv => EventsInOrder
  BY DEF Ordered, InOrder, Earlier, EventsInOrder
<1> HIDE DEF OInv
<1> QED
  BY <1>1, <1>2, <1>3, TaskInvariant, PTL DEF Spec

-----------------------------------------------------------------------------
(* Refinement.                                                             *)

Ended(t) == pc[t] \in {"lastNotify", "release", "exited"}

over == [t \in Task |-> Ended(t)]

LEMMA InitChannel == Init => Chan!ChanInit
<1> SUFFICES ASSUME Init PROVE Chan!ChanInit
  OBVIOUS
<1>1. [t \in Task |-> pc[t] \in {"lastNotify", "release", "exited"}]
        = [t \in Task |-> FALSE]
  <2>1. \A t \in Task : pc[t] = "none"
    BY DEF Init
  <2>2. \A t \in Task : (pc[t] \in {"lastNotify", "release", "exited"}) = FALSE
    BY <2>1
  <2> QED
    BY <2>2, Zenon
<1> QED
  BY <1>1 DEF Init, Chan!ChanInit

LEMMA ThreadIsChannel ==
  ASSUME IInv, NEW t \in Task, TaskThread(t)
  PROVE  [Chan!ChanNext]_(Chan!chanVars)
<1>1. TypeOK /\ received' = received /\ told' = told
      /\ \A u \in Task \ {t} : pc'[u] = pc[u]
  BY ThreadFrame DEF IInv
<1>2. pc \in [Task -> Labels] /\ pc' \in [Task -> Labels]
  BY <1>1, ThreadTypes DEF TypeOK
<1>3. CASE Emits(t)
  <2>1. ~Ended(t) /\ ~Ended(t)'
    BY <1>2, <1>3 DEF Ended, Emits, EmitQueued, LogSettings, EmitFailure,
       EmitStarted, EmitWhileRunning, EmitEnd, At, Goto
  <2>2. over' = over
    BY <1>1, <1>2, <2>1 DEF over, Ended
  <2>3. PICK e \in EventKind : emit(t, e) \/ emitUnlessDisabled(t, e)
    BY <1>3, EmitsOne
  <2>4. CASE emitted' = emitted
    BY <1>1, <2>2, <2>4 DEF Chan!chanVars, over, Ended
  <2>5. CASE emitted' = [emitted EXCEPT ![t] = Append(@, e)]
    <3>1. Chan!Send(t, e)
      BY <1>1, <2>1, <2>2, <2>5 DEF Chan!Send, over, Ended
    <3> QED
      BY <3>1 DEF Chan!ChanNext
  <2> QED
    BY <2>3, <2>4, <2>5 DEF emit, emitUnlessDisabled
<1>4. CASE ClearRunning(t)
  <2>1. emitted' = emitted /\ pc' = [pc EXCEPT ![t] = "lastNotify"]
    BY <1>4 DEF ClearRunning, Goto
  <2>2. over' = [over EXCEPT ![t] = TRUE]
    BY <1>2, <2>1 DEF over, Ended
  <2>3. Chan!Close(t)
    BY <1>1, <2>1, <2>2 DEF Chan!Close, over, Ended
  <2> QED
    BY <2>3 DEF Chan!ChanNext
<1>5. CASE ~Emits(t) /\ ~ClearRunning(t)
  <2>1. emitted' = emitted
    BY <1>1, <1>5, QuietEffect DEF TaskThread, Emits
  <2>2. Ended(t)' <=> Ended(t)
    BY <1>2, <1>5 DEF Emits, TaskThread, Goto, At, SetRunning, SetBarrier, Notify,
       TakeSemaphore, Acquire, InitialEvent, ReactorReturns, LastNotify, Release, Exit, Ended
  <2>3. over' = over
    BY <1>1, <1>2, <2>2 DEF over, Ended
  <2> QED
    BY <1>1, <2>1, <2>3 DEF Chan!chanVars, over, Ended
<1> QED
  BY <1>3, <1>4, <1>5

LEMMA ReceiveIsChannel ==
  ASSUME IInv, NEW c \in Consumer, ReturnEvent(c)
  PROVE  Chan!ChanNext
<1>1. TypeOK
  BY DEF IInv
<1>2. PICK t \in Task : t = ctask[c]
  BY <1>1 DEF ReturnEvent, TypeOK
<1>3. /\ deque[t] # <<>> /\ pc' = pc /\ emitted' = emitted /\ told' = told
      /\ received' = [received EXCEPT ![t] = Append(@, Head(deque[t]))]
  BY <1>2 DEF ReturnEvent, thread_
<1>4. /\ received[t] \in Seq(EventKind) /\ deque[t] \in Seq(EventKind)
      /\ emitted[t] = received[t] \o deque[t]
  BY <1>1 DEF IInv, TypeOK, Queue
<1>5. /\ Len(received[t]) < Len(emitted[t])
      /\ emitted[t][Len(received[t]) + 1] = Head(deque[t])
  <2>1. /\ Len(deque[t]) \in Nat \ {0} /\ Len(received[t]) \in Nat
        /\ Head(deque[t]) = deque[t][1]
    BY <1>3, <1>4
  <2> DEFINE r == received[t]
             d == deque[t]
  <2>2. r \in Seq(EventKind) /\ d \in Seq(EventKind)
    BY <1>4
  <2>3. /\ Len(r \o d) = Len(r) + Len(d)
        /\ \A i \in 1 .. Len(r) + Len(d) :
             (r \o d)[i] = IF i <= Len(r) THEN r[i] ELSE d[i - Len(r)]
    BY <2>2, ConcatProperties
  <2> HIDE DEF r, d
  <2>4. Len(r) \in Nat /\ Len(d) \in Nat \ {0} /\ Head(d) = d[1]
    BY <2>1 DEF r, d
  <2>5. Len(r) < Len(r \o d) /\ (r \o d)[Len(r) + 1] = d[1]
    BY <2>3, <2>4
  <2> QED
    BY <1>4, <2>4, <2>5 DEF r, d
<1>6. Chan!Receive(t)
  BY <1>3, <1>5 DEF Chan!Receive
<1> QED
  BY <1>6 DEF Chan!ChanNext

LEMMA TellIsChannel ==
  ASSUME IInv, NEW t \in Task, deque[t] = <<>>, pc[t] \in Closed,
         told' = [told EXCEPT ![t] = TRUE],
         emitted' = emitted, received' = received, pc' = pc
  PROVE  Chan!ChanNext
<1>1. received[t] \in Seq(EventKind) /\ emitted[t] = received[t] \o <<>>
  BY DEF IInv, TypeOK, Queue
<1>2. received[t] = emitted[t]
  BY <1>1
<1>3. Chan!Tell(t)
  BY <1>2 DEF Chan!Tell, Closed
<1> QED
  BY <1>3 DEF Chan!ChanNext

LEMMA NextChannel == IInv /\ [Next]_vars => [Chan!ChanNext]_(Chan!chanVars)
<1> SUFFICES ASSUME IInv, [Next]_vars PROVE [Chan!ChanNext]_(Chan!chanVars)
  OBVIOUS
<1>0. TypeOK
  BY DEF IInv
<1>1. ASSUME NEW t \in Task, TaskThread(t) PROVE [Chan!ChanNext]_(Chan!chanVars)
  BY <1>1, ThreadIsChannel
<1>2. ASSUME NEW c \in Consumer, ReturnEvent(c) PROVE [Chan!ChanNext]_(Chan!chanVars)
  BY <1>2, ReceiveIsChannel
<1>3. ASSUME NEW c \in Consumer, ReturnTerminated(c)
      PROVE  [Chan!ChanNext]_(Chan!chanVars)
  <2>1. PICK t \in Task : t = ctask[c]
    BY <1>0, <1>3 DEF ReturnTerminated, TellTerminated, TypeOK
  <2>2. /\ deque[t] = <<>> /\ ~running[t] /\ told' = [told EXCEPT ![t] = TRUE]
        /\ emitted' = emitted /\ received' = received /\ pc' = pc
    BY <1>3, <2>1 DEF ReturnTerminated, TellTerminated, thread_
  <2>3. Stages(t) /\ pc[t] \in Begun
    BY <1>3, <2>1 DEF IInv, Reader, ReturnTerminated
  <2> QED
    BY <1>0, <2>2, <2>3, NotRunningIsClosed, TellIsChannel
<1>4. ASSUME NEW t \in Task, is_done(t) PROVE [Chan!ChanNext]_(Chan!chanVars)
  <2>1. /\ deque[t] = <<>> /\ ~running[t] /\ told' = [told EXCEPT ![t] = TRUE]
        /\ emitted' = emitted /\ received' = received /\ pc' = pc
        /\ object[t] = "usable"
    BY <1>4 DEF is_done, IsDone, thread_
  <2>2. Stages(t) /\ pc[t] \in Begun
    BY <2>1 DEF IInv, Stages
  <2> QED
    BY <1>0, <2>1, <2>2, NotRunningIsClosed, TellIsChannel
<1>5. ASSUME NEW t \in Task, Construct(t) PROVE [Chan!ChanNext]_(Chan!chanVars)
  <2>1. pc[t] = "none" /\ pc' = [pc EXCEPT ![t] = "start"]
        /\ emitted' = emitted /\ received' = received /\ told' = told
    BY <1>5 DEF Construct, IInv, Stages
  <2>2. over' = over
    BY <1>0, <2>1 DEF over, Ended, TypeOK
  <2> QED
    BY <2>1, <2>2 DEF Chan!chanVars, over, Ended
<1>6. ASSUME UNCHANGED <<pc, emitted, received, told>>
      PROVE  [Chan!ChanNext]_(Chan!chanVars)
  BY <1>6 DEF Chan!chanVars
<1>7. ASSUME NEW t \in Task,
             \/ Constructed(t) \/ interrupt(t) \/ Destroy(t) \/ Joined(t)
             \/ \E c \in Consumer : WaitCall(c, t)
      PROVE  UNCHANGED <<pc, emitted, received, told>>
  BY <1>7 DEF Constructed, ConstructorReturns, interrupt, Destroy, Joined, WaitCall, thread_
<1>8. ASSUME NEW c \in Consumer,
             Lock(c) \/ DecideToSleep(c) \/ Sleep(c) \/ WakeSpuriously(c)
      PROVE  UNCHANGED <<pc, emitted, received, told>>
  BY <1>8 DEF Lock, DecideToSleep, Sleep, WakeSpuriously, thread_
<1>9. UNCHANGED vars => UNCHANGED <<pc, emitted, received, told>>
  BY DEF vars, thread_
<1> QED
  BY <1>1, <1>2, <1>3, <1>4, <1>5, <1>6, <1>7, <1>8, <1>9 DEF Next, AllDestroyed, Waiting

\* To the application a task is a channel that loses, repeats and reorders no
\* event, and says that it is over when it is empty and closed.
THEOREM TaskImplementsChannel == Spec => ImplementsChannel
<1>1. IInv /\ [Next]_vars => [Chan!ChanNext]_(Chan!chanVars)
  BY NextChannel
<1> QED
  BY <1>1, InitChannel, TaskInvariant, PTL DEF Spec, ImplementsChannel, Chan!ChanSpec

-----------------------------------------------------------------------------
(* The loop of BaseTest::run(): what it does to its task is what any       *)
(* application may do, and what it calls follows from what it received.    *)

AtLast == {"logger_eof", "destroy"}
Once == {"begin", "overall_data_usage", "end", "logger_eof"}
Callbacks == {"log", "begin", "entry", "progress", "event"} \cup AtLast \cup Once
Finishing == {"over", "joining", "returned"}

\* Where the loop is, its thread and its task.
Driven ==
  LET c == driver.thread
      t == driver.task
  IN /\ driver \in [thread : Consumer, task : Task]
     /\ loop = "starting" => object[t] = "constructing"
     /\ loop \in {"ask", "wait", "waiting", "eof", "over"} => object[t] = "usable"
     /\ loop = "waiting" => ctask[c] = t
     /\ loop # "setup" => disabled[t] = {}
     /\ loop \in Finishing \cup {"eof"} => told[t]
     /\ loop # "thrown"

\* The callbacks s, as far as each depends on those before it.
InTurn(s) ==
  /\ s \in Seq(Callbacks)
  /\ \A i, j \in DOMAIN s : s[i] = s[j] /\ s[i] \in Once => i = j
  /\ \A i \in DOMAIN s : s[i] \notin {"log", "begin"} \cup AtLast => Earlier(s, i, "begin")
  /\ \A i \in DOMAIN s : Earlier(s, i, "end") => s[i] \in AtLast

\* What they tell of the events r.
TellOf(s, r) ==
  /\ Said(s, "begin") <=> Said(r, "status.started")
  /\ Said(s, "end") <=> Said(r, "status.end")
  /\ Said(s, "overall_data_usage") <=> Said(r, "status.end")

ApiInv ==
  /\ IInv
  /\ \A t \in Task : Ordered(t)
  /\ driver = Nobody => loop = "setup" /\ called = <<>>
  /\ driver # Nobody =>
       /\ Driven
       /\ InTurn(called) /\ TellOf(called, received[driver.task])
       /\ loop \notin Finishing => \A name \in AtLast : ~Said(called, name)

LEMMA CallOne ==
  ASSUME NEW s, InTurn(s), NEW e \in Callbacks, e \in Once => ~Said(s, e),
         e \notin {"log", "begin"} \cup AtLast => Said(s, "begin"),
         Said(s, "end") => e \in AtLast
  PROVE  InTurn(Append(s, e)) /\ \A x : Said(Append(s, e), x) <=> Said(s, x) \/ x = e
<1> DEFINE w == Append(s, e)
           n == Len(s)
<1>0. s \in Seq(Callbacks)
  BY DEF InTurn
<1>1. /\ w \in Seq(Callbacks) /\ n \in Nat /\ w[n + 1] = e
      /\ \A i \in 1 .. n : w[i] = s[i]
      /\ DOMAIN s = 1 .. n /\ DOMAIN w = 1 .. n + 1
  BY <1>0
<1> HIDE DEF w, n
<1>2. ASSUME NEW i \in 1 .. n, NEW x PROVE Earlier(w, i, x) <=> Earlier(s, i, x)
  BY <1>1, <1>2 DEF Earlier
<1>3. ASSUME NEW x PROVE Earlier(w, n + 1, x) <=> Said(s, x)
  BY <1>1 DEF Earlier, Said
<1>4. \A x : Said(w, x) <=> Said(s, x) \/ x = e
  BY <1>1 DEF Said
<1>5. \A i, j \in DOMAIN w : w[i] = w[j] /\ w[i] \in Once => i = j
  BY <1>1 DEF InTurn, Said
<1>6. \A i \in DOMAIN w : w[i] \notin {"log", "begin"} \cup AtLast => Earlier(w, i, "begin")
  <2> SUFFICES ASSUME NEW i \in DOMAIN w, w[i] \notin {"log", "begin"} \cup AtLast
               PROVE  Earlier(w, i, "begin")
    OBVIOUS
  <2>1. CASE i \in 1 .. n
    BY <1>1, <1>2, <2>1 DEF InTurn
  <2>2. CASE i = n + 1
    BY <1>1, <1>3, <2>2
  <2> QED
    BY <1>1, <2>1, <2>2
<1>7. \A i \in DOMAIN w : Earlier(w, i, "end") => w[i] \in AtLast
  <2> SUFFICES ASSUME NEW i \in DOMAIN w, Earlier(w, i, "end") PROVE w[i] \in AtLast
    OBVIOUS
  <2>1. CASE i \in 1 .. n
    BY <1>1, <1>2, <2>1 DEF InTurn
  <2>2. CASE i = n + 1
    BY <1>1, <1>3, <2>2
  <2> QED
    BY <1>1, <2>1, <2>2
<1> QED
  BY <1>1, <1>4, <1>5, <1>6, <1>7 DEF InTurn, w

\* The event that comes next, when none is disabled.
LEMMA NextEvent ==
  ASSUME IInv, NEW t \in Task, Ordered(t), disabled[t] = {}, deque[t] # <<>>
  PROVE  LET e == Head(deque[t])
             r == received[t]
         IN /\ e \in EventKind /\ ~Said(r, "status.end")
            /\ e \in {"measurement", "status.end"} => Said(r, "status.started")
            /\ e = "status.started" => ~Said(r, "status.started")
<1> DEFINE e == Head(deque[t])
           r == received[t]
           d == deque[t]
           n == Len(r)
           s == emitted[t]
<1>1. r \in Seq(EventKind) /\ d \in Seq(EventKind) /\ d # <<>> /\ s = r \o d
  BY DEF IInv, TypeOK, Queue
<1>2. InOrder(t, s)
  BY DEF Ordered
<1>3. /\ n \in Nat /\ e \in EventKind /\ n + 1 \in DOMAIN s /\ s[n + 1] = e /\ Len(s) >= n + 1
      /\ DOMAIN r = 1 .. n /\ \A i \in 1 .. n : s[i] = r[i] /\ i \in DOMAIN s
  <2>1. /\ Len(d) \in Nat /\ Len(d) >= 1 /\ e = d[1] /\ e \in EventKind
        /\ n \in Nat /\ DOMAIN r = 1 .. n
    BY <1>1
  <2>2. /\ Len(s) = n + Len(d) /\ DOMAIN s = 1 .. n + Len(d)
        /\ \A i \in 1 .. n : s[i] = r[i]
        /\ \A i \in n + 1 .. n + Len(d) : s[i] = d[i - n]
    <3> HIDE DEF s, d, r
    <3> QED
      BY <1>1, <2>1, ConcatProperties DEF s
  <2> HIDE DEF d, s, r, n, e
  <2> QED
    BY <2>1, <2>2
<1> HIDE DEF e, r, n, s, d
<1>4. ASSUME NEW x PROVE Earlier(s, n + 1, x) <=> Said(r, x)
  BY <1>3 DEF Earlier, Said
<1>5. ~Said(r, "status.end")
  BY <1>2, <1>3 DEF Said, InOrder
<1>6. e \in {"measurement", "status.end"} => Said(r, "status.started")
  BY <1>2, <1>3, <1>4 DEF InOrder
<1>7. e = "status.started" => ~Said(r, "status.started")
  BY <1>2, <1>3, <1>4 DEF InOrder
<1> QED
  BY <1>3, <1>5, <1>6, <1>7 DEF e, r

\* The keys that an event may have, and the callbacks of each.
LEMMA CallsOfKeys ==
  ASSUME NEW t \in Task, NEW kind \in EventKind, NEW key \in mk_event_create_(t, kind)
  PROVE  /\ Reads(key) \subseteq possibly_validate_event(key)
         /\ kind = "status.started" => Calls(key) = <<"begin">>
         /\ kind = "status.end" => Calls(key) = <<"overall_data_usage", "end">>
         /\ kind \notin {"status.started", "status.end"} =>
              \/ Calls(key) = <<>>
              \/ Calls(key) = <<"log">>
              \/ kind = "measurement" /\ Calls(key) = <<"entry">>
              \/ /\ Said(received[t], "status.started")
                 /\ Calls(key) = <<"progress">> \/ Calls(key) = <<"event">>
<1>1. key \in is_event_key_valid
  BY DEF mk_event_create_, is_event_key_valid, EventKind, Failures, Without, Others
<1>2. Reads(key) \subseteq possibly_validate_event(key)
  BY <1>1 DEF Reads, possibly_validate_event, is_event_key_valid, Failures, Without, Others
<1>3. CASE kind = "log" /\ "status.started" \in Range(received[t])
  <2>1. Said(received[t], "status.started")
    BY <1>3 DEF Range, Said
  <2>2. key = "log" \/ key \notin EventKind
    BY <1>3 DEF mk_event_create_
  <2> QED
    BY <1>2, <1>3, <2>1, <2>2 DEF Calls, EventKind
<1>4. CASE ~(kind = "log" /\ "status.started" \in Range(received[t])) /\ kind \in {"log", "measurement"}
  <2>1. key \in {kind, "bug.json_dump"}
    BY <1>4 DEF mk_event_create_
  <2> QED
    BY <1>2, <1>4, <2>1 DEF Calls
<1>5. CASE kind \notin {"log", "measurement"}
  <2>1. key = kind
    BY <1>5 DEF mk_event_create_
  <2> QED
    BY <1>2, <1>5, <2>1 DEF Calls, EventKind
<1> QED
  BY <1>3, <1>4, <1>5

\* A step of the loop is one of its task, or of nobody.
LEMMA LoopStep ==
  ASSUME IInv, driver # Nobody, Driven, EngineNext
  PROVE  [Next]_vars /\ driver' = driver /\ Driven'
<1> DEFINE c == driver.thread
           t == driver.task
<1>1. /\ c \in Consumer /\ t \in Task /\ TypeOK
      /\ driver \in [thread : Consumer, task : Task]
  BY DEF Driven, IInv
<1>2. RunStatic(c, t)
  BY DEF EngineNext
<1>3. /\ loop = "starting" => object[t] = "constructing"
      /\ loop \in {"ask", "wait", "waiting", "eof", "over"} => object[t] = "usable"
      /\ loop = "waiting" => ctask[c] = t
      /\ loop # "setup" => disabled[t] = {}
      /\ loop \in Finishing \cup {"eof"} => told[t]
      /\ loop # "thrown"
  BY DEF Driven
<1>4. ASSUME /\ driver' = driver
             /\ loop' = "starting" => object'[t] = "constructing"
             /\ loop' \in {"ask", "wait", "waiting", "eof", "over"} => object'[t] = "usable"
             /\ loop' = "waiting" => ctask'[c] = t
             /\ loop' # "setup" => disabled'[t] = {}
             /\ loop' \in Finishing \cup {"eof"} => told'[t]
             /\ loop' # "thrown"
      PROVE  Driven'
  BY <1>1, <1>4 DEF Driven
<1> HIDE DEF c, t
<1> USE DEF Steps, Finishing, object_, thread_, consumers, vars, apiVars
<1>5. CASE Configure
  BY <1>3, <1>4, <1>5 DEF Configure
<1>6. CASE mk_task_start(t)
  <2>1. Construct(t) /\ disabled'[t] = {} /\ Steps("setup", "starting")
    BY <1>6 DEF mk_task_start
  <2>2. object'[t] = "constructing"
    BY <1>1, <2>1 DEF Construct, TypeOK
  <2> QED
    BY <1>1, <1>4, <2>1, <2>2 DEF Next
<1>7. CASE Started(t)
  <2>1. Constructed(t) /\ Steps("starting", "ask")
    BY <1>7 DEF Started
  <2>2. object'[t] = "usable" /\ disabled' = disabled
    BY <1>1, <2>1 DEF Constructed, ConstructorReturns, TypeOK
  <2> QED
    BY <1>1, <1>3, <1>4, <2>1, <2>2 DEF Next
<1>8. CASE mk_task_is_done(t)
  <2>1. loop = "ask" /\ object[t] = "usable" /\ driver' = driver /\ UNCHANGED <<object_, ctask>>
    BY <1>3, <1>8 DEF mk_task_is_done
  <2>2. CASE Finished(t)
    <3>1. is_done(t) /\ loop' = "eof" /\ told' = [told EXCEPT ![t] = TRUE]
      BY <1>8, <2>1, <2>2 DEF mk_task_is_done, is_done, Finished
    <3>2. told'[t]
      BY <1>1, <3>1 DEF TypeOK
    <3> QED
      BY <1>1, <1>3, <1>4, <2>1, <3>1, <3>2 DEF Next
  <2>3. CASE ~Finished(t)
    <3>1. loop' = "wait" /\ UNCHANGED vars
      BY <1>8, <2>3 DEF mk_task_is_done
    <3> QED
      BY <1>3, <1>4, <2>1, <3>1
  <2> QED
    BY <2>2, <2>3
<1>9. CASE mk_task_wait_for_next_event(c, t)
  <2>1. WaitCall(c, t) /\ Steps("wait", "waiting")
    BY <1>9 DEF mk_task_wait_for_next_event
  <2>2. ctask'[c] = t /\ UNCHANGED object_
    BY <1>1, <2>1 DEF WaitCall, TypeOK
  <2> QED
    BY <1>1, <1>3, <1>4, <2>1, <2>2 DEF Next
<1>10. CASE Blocked(c)
  <2>1. /\ loop = "waiting" /\ loop' = "waiting" /\ driver' = driver
        /\ Lock(c) \/ DecideToSleep(c) \/ Sleep(c) \/ WakeSpuriously(c)
    BY <1>10 DEF Blocked
  <2>2. UNCHANGED <<object_, ctask>>
    BY <2>1 DEF Lock, DecideToSleep, Sleep, WakeSpuriously
  <2>3. Next
    BY <1>1, <2>1 DEF Next, Waiting
  <2> QED
    BY <1>3, <1>4, <2>1, <2>2, <2>3
<1>11. CASE process_event(c, t)
  <2>1. /\ loop = "waiting" /\ ctask[c] = t /\ driver' = driver /\ ReturnEvent(c) /\ deque[t] # <<>>
        /\ \E key \in mk_event_create_(t, Head(deque[t])) :
             loop' = IF Reads(key) \subseteq possibly_validate_event(key) THEN "ask" ELSE "thrown"
    BY <1>3, <1>11 DEF process_event
  <2>2. Head(deque[t]) \in EventKind
    BY <1>1, <2>1 DEF TypeOK
  <2>3. loop' = "ask"
    BY <1>1, <2>1, <2>2, CallsOfKeys
  <2>4. UNCHANGED object_
    BY <2>1 DEF ReturnEvent
  <2>5. Next
    BY <1>1, <2>1 DEF Next, Waiting
  <2> QED
    BY <1>3, <1>4, <2>1, <2>3, <2>4, <2>5
<1>12. CASE Terminated(c)
  <2>1. loop = "waiting" /\ loop' = "ask" /\ driver' = driver /\ ReturnTerminated(c)
    BY <1>12 DEF Terminated
  <2>2. UNCHANGED object_
    BY <2>1 DEF ReturnTerminated, TellTerminated
  <2>3. Next
    BY <1>1, <2>1 DEF Next, Waiting
  <2> QED
    BY <1>3, <1>4, <2>1, <2>2, <2>3
<1>13. CASE LastCallbacks
  BY <1>3, <1>4, <1>13 DEF LastCallbacks
<1>14. CASE mk_task_destroy(t)
  <2>1. /\ Destroy(t) \/ Joined(t)
        /\ loop \in Finishing /\ loop' \in {"joining", "returned"} /\ driver' = driver
    BY <1>14 DEF mk_task_destroy
  <2>2. UNCHANGED <<disabled, told>>
    BY <2>1 DEF Destroy, Joined
  <2>3. Next
    BY <1>1, <2>1 DEF Next
  <2> QED
    BY <1>3, <1>4, <2>1, <2>2, <2>3
<1>15. CASE Over
  BY <1>3, <1>4, <1>15 DEF Over, engine
<1>16. CASE TaskThread(t) /\ UNCHANGED <<commandLineVars, apiVars>>
  <2>1. UNCHANGED <<driver, loop, object, disabled, told, ctask>>
    BY <1>1, <1>16, ThreadFrame
  <2> QED
    BY <1>1, <1>3, <1>4, <1>16, <2>1 DEF Next
<1> QED
  BY <1>2, <1>5, <1>6, <1>7, <1>8, <1>9, <1>10, <1>11, <1>12, <1>13, <1>14, <1>15, <1>16 DEF RunStatic

\* Only process_event() and the last callbacks call anything, and only the
\* first one takes an event.
LEMMA SilentStep ==
  ASSUME IInv, driver # Nobody, Driven, EngineNext,
         ~process_event(driver.thread, driver.task), ~LastCallbacks
  PROVE  /\ called' = called /\ received' = received
         /\ loop' \notin Finishing => loop \notin Finishing
<1> DEFINE c == driver.thread
           t == driver.task
<1>1. c \in Consumer /\ t \in Task /\ TypeOK
  BY DEF Driven, IInv
<1>2. RunStatic(c, t)
  BY DEF EngineNext
<1> HIDE DEF c, t
<1> USE DEF Steps, Finishing, Quietly, vars, apiVars
<1>3. CASE Configure \/ mk_task_start(t) \/ Started(t)
  BY <1>3 DEF Configure, mk_task_start, Started, Construct, Constructed, ConstructorReturns
<1>4. CASE mk_task_is_done(t) \/ mk_task_wait_for_next_event(c, t)
  BY <1>4 DEF mk_task_is_done, mk_task_wait_for_next_event, WaitCall
<1>5. CASE Blocked(c) \/ Terminated(c)
  BY <1>5 DEF Blocked, Terminated, Lock, DecideToSleep, Sleep, WakeSpuriously, ReturnTerminated, TellTerminated
<1>6. CASE mk_task_destroy(t) \/ Over
  BY <1>6 DEF mk_task_destroy, Over, Destroy, Joined, engine
<1>7. CASE TaskThread(t) /\ UNCHANGED <<commandLineVars, apiVars>>
  <2>1. received' = received /\ called' = called /\ loop' = loop
    BY <1>1, <1>7, ThreadFrame
  <2> QED
    BY <2>1
<1> QED
  BY <1>2, <1>3, <1>4, <1>5, <1>6, <1>7 DEF RunStatic, c, t

\* What an event that is received makes the loop call comes in turn.
LEMMA ProcessStep ==
  ASSUME ApiInv, driver # Nobody, process_event(driver.thread, driver.task)
  PROVE  /\ InTurn(called') /\ TellOf(called', received'[driver.task])
         /\ \A name \in AtLast : ~Said(called', name)
<1> DEFINE c == driver.thread
           t == driver.task
           kind == Head(deque[t])
           r == received[t]
<1>1. /\ c \in Consumer /\ t \in Task /\ TypeOK /\ IInv /\ Ordered(t)
      /\ InTurn(called) /\ TellOf(called, r)
      /\ loop \notin Finishing => \A name \in AtLast : ~Said(called, name)
  BY DEF ApiInv, Driven, IInv
<1>2. /\ loop = "waiting" /\ ctask[c] = t /\ disabled[t] = {}
  BY DEF process_event, Steps, ApiInv, Driven
<1>3. ReturnEvent(c) /\ deque[t] # <<>>
  BY DEF process_event
<1>4. PICK key \in mk_event_create_(t, kind) :
        called' = IF Reads(key) \subseteq possibly_validate_event(key) THEN called \o Calls(key) ELSE called
  BY DEF process_event
<1>5. /\ kind \in EventKind /\ ~Said(r, "status.end")
      /\ kind \in {"measurement", "status.end"} => Said(r, "status.started")
      /\ kind = "status.started" => ~Said(r, "status.started")
  BY <1>1, <1>2, <1>3, NextEvent
<1>6. r \in Seq(EventKind) /\ received'[t] = Append(r, kind)
  BY <1>1, <1>2, <1>3 DEF ReturnEvent, TypeOK
<1>7. \A e : Said(received'[t], e) <=> Said(r, e) \/ e = kind
  BY <1>5, <1>6, SaidAppend
<1>8. /\ Said(called, "begin") <=> Said(r, "status.started")
      /\ ~Said(called, "end") /\ ~Said(called, "overall_data_usage")
      /\ \A name \in AtLast : ~Said(called, name)
  BY <1>1, <1>2, <1>5 DEF TellOf, Finishing
<1>9. called' = called \o Calls(key)
  BY <1>1, <1>4, <1>5, CallsOfKeys
<1> HIDE DEF c, t, kind, r
<1>10. called \in Seq(Callbacks)
  BY <1>1 DEF InTurn
<1> DEFINE Good(s) == /\ InTurn(s) /\ TellOf(s, received'[t])
                      /\ \A name \in AtLast : ~Said(s, name)
<1>11. SUFFICES Good(called')
  BY DEF t
<1>12. CASE kind = "status.started"
  <2>1. called' = Append(called, "begin")
    <3>1. called' = called \o <<"begin">>
      BY <1>1, <1>4, <1>5, <1>9, <1>12, CallsOfKeys
    <3> QED
      BY <1>10, <3>1
  <2>2. /\ InTurn(Append(called, "begin"))
        /\ \A x : Said(Append(called, "begin"), x) <=> Said(called, x) \/ x = "begin"
    BY <1>1, <1>5, <1>8, <1>12, CallOne DEF Callbacks, Once, AtLast
  <2> QED
    BY <1>5, <1>7, <1>8, <1>12, <2>1, <2>2 DEF TellOf, AtLast
<1>13. CASE kind = "status.end"
  <2> DEFINE s == Append(called, "overall_data_usage")
  <2>1. called' = Append(s, "end")
    <3>1. called' = called \o <<"overall_data_usage", "end">>
      BY <1>1, <1>4, <1>5, <1>9, <1>13, CallsOfKeys
    <3> QED
      BY <1>10, <3>1
  <2>2. InTurn(s) /\ \A x : Said(s, x) <=> Said(called, x) \/ x = "overall_data_usage"
    BY <1>1, <1>5, <1>8, <1>13, CallOne DEF Callbacks, Once, AtLast
  <2> HIDE DEF s
  <2>3. InTurn(Append(s, "end")) /\ \A x : Said(Append(s, "end"), x) <=> Said(s, x) \/ x = "end"
    BY <1>5, <1>8, <1>13, <2>2, CallOne DEF Callbacks, Once, AtLast
  <2> QED
    BY <1>5, <1>7, <1>8, <1>13, <2>1, <2>2, <2>3 DEF TellOf, AtLast
<1>14. CASE kind \notin {"status.started", "status.end"}
  <2>1. \/ Calls(key) = <<>>
        \/ \E e \in Callbacks \ (AtLast \cup Once) :
             Calls(key) = <<e>> /\ (e # "log" => Said(r, "status.started"))
    BY <1>1, <1>4, <1>5, <1>14, CallsOfKeys DEF Callbacks, AtLast, Once, r
  <2>2. CASE Calls(key) = <<>>
    <3>1. called' = called
      BY <1>9, <1>10, <2>2
    <3> QED
      BY <1>1, <1>7, <1>8, <1>14, <3>1 DEF TellOf
  <2>3. ASSUME NEW e \in Callbacks \ (AtLast \cup Once), Calls(key) = <<e>>,
               e # "log" => Said(r, "status.started")
        PROVE  Good(called')
    <3>1. called' = Append(called, e)
      BY <1>9, <1>10, <2>3
    <3>2. InTurn(Append(called, e)) /\ \A x : Said(Append(called, e), x) <=> Said(called, x) \/ x = e
      BY <1>1, <1>8, <2>3, CallOne
    <3> QED
      BY <1>7, <1>8, <1>14, <2>3, <3>1, <3>2, <1>5 DEF TellOf, AtLast, Once
  <2> QED
    BY <2>1, <2>2, <2>3
<1> QED
  BY <1>12, <1>13, <1>14

LEMMA ApiStep ==
  ASSUME ApiInv, [ApiNext]_everything
  PROVE  [Next]_vars /\ ApiInv'
<1>1. CASE UNCHANGED engine
  <2>1. IInv' /\ UNCHANGED vars
    BY <1>1, StutterIInv DEF ApiInv, engine
  <2>2. (\A t \in Task : Ordered(t))'
    BY <1>1, <2>1, OrderedNext DEF ApiInv
  <2> QED
    BY <1>1, <2>1, <2>2
       DEF ApiInv, Driven, engine, apiVars, vars, object_, consumers
<1>2. CASE EngineNext /\ driver = Nobody
  <2>1. Next /\ UNCHANGED apiVars
    BY <1>2 DEF EngineNext
  <2>2. IInv' /\ (\A t \in Task : Ordered(t))'
    BY <2>1, NextIInv, OrderedNext DEF ApiInv
  <2> QED
    BY <1>2, <2>1, <2>2 DEF ApiInv, apiVars
<1>3. CASE EngineNext /\ driver # Nobody
  <2>1. IInv /\ Driven /\ (\A t \in Task : Ordered(t))
    BY <1>3 DEF ApiInv
  <2>2. [Next]_vars /\ driver' = driver /\ Driven'
    BY <1>3, <2>1, LoopStep
  <2>3. IInv' /\ (\A t \in Task : Ordered(t))'
    BY <2>1, <2>2, NextIInv, OrderedNext
  <2>4. /\ InTurn(called') /\ TellOf(called', received'[driver.task])
        /\ loop' \notin Finishing => \A name \in AtLast : ~Said(called', name)
    <3>1. CASE process_event(driver.thread, driver.task)
      BY <1>3, <3>1, ProcessStep
    <3>2. CASE LastCallbacks
      <4> DEFINE s == Append(called, "logger_eof")
      <4>1. /\ loop = "eof" /\ loop' = "over" /\ called' = called \o <<"logger_eof", "destroy">>
            /\ received' = received
        BY <3>2 DEF LastCallbacks, Steps, vars
      <4>2. /\ InTurn(called) /\ TellOf(called, received[driver.task]) /\ called \in Seq(Callbacks)
            /\ ~Said(called, "logger_eof") /\ ~Said(called, "destroy")
        BY <1>3, <4>1 DEF ApiInv, InTurn, Finishing, AtLast
      <4>3. called' = Append(s, "destroy")
        BY <4>1, <4>2
      <4>4. InTurn(s) /\ \A x : Said(s, x) <=> Said(called, x) \/ x = "logger_eof"
        BY <4>2, CallOne DEF Callbacks, Once, AtLast
      <4> HIDE DEF s
      <4>5. InTurn(Append(s, "destroy")) /\ \A x : Said(Append(s, "destroy"), x) <=> Said(s, x) \/ x = "destroy"
        BY <4>2, <4>4, CallOne DEF Callbacks, Once, AtLast
      <4> QED
        BY <4>1, <4>2, <4>3, <4>4, <4>5 DEF TellOf, Finishing
    <3>3. CASE ~process_event(driver.thread, driver.task) /\ ~LastCallbacks
      BY <1>3, <2>1, <3>3, SilentStep DEF ApiInv
    <3> QED
      BY <3>1, <3>2, <3>3
  <2> QED
    BY <1>3, <2>2, <2>3, <2>4 DEF ApiInv
<1> QED
  BY <1>1, <1>2, <1>3 DEF ApiNext, everything

LEMMA InitApi == ApiInit => ApiInv
<1> SUFFICES ASSUME ApiInit PROVE ApiInv
  OBVIOUS
<1>1. Init /\ loop = "setup" /\ called = <<>>
  BY DEF ApiInit
<1>2. IInv
  BY <1>1, InitIInv
<1>3. \A t \in Task : Ordered(t)
  BY <1>1, InitOrdered
<1>4. driver # Nobody => driver \in [thread : Consumer, task : Task]
  BY DEF ApiInit
<1>5. InTurn(called) /\ \A name : ~Said(called, name)
  BY <1>1 DEF InTurn, Said
<1>6. \A t \in Task : \A e : ~Said(received[t], e)
  BY <1>1 DEF Init, Said
<1>7. driver # Nobody => Driven
  BY <1>1, <1>4 DEF Driven, Finishing
<1>8. driver # Nobody => TellOf(called, received[driver.task])
  BY <1>4, <1>5, <1>6 DEF TellOf
<1> QED
  BY <1>1, <1>2, <1>3, <1>5, <1>7, <1>8 DEF ApiInv

\* When the loop is over, the task has told its end if it has told its start.
LEMMA BegunMeansEnded ==
  ASSUME IInv, NEW t \in Task, Ordered(t), told[t], disabled[t] = {}
  PROVE  /\ ~running[t] /\ received[t] = emitted[t]
         /\ Said(received[t], "status.started") <=> Said(received[t], "status.end")
<1>1. pc[t] \in Closed /\ deque[t] = <<>> /\ ~running[t] /\ SaidEnd(t, emitted[t])
  BY DEF IInv, Ending, Stages
<1>2. received[t] = emitted[t]
  <2>1. received[t] \in Seq(EventKind) /\ emitted[t] = received[t] \o deque[t]
    BY DEF IInv, TypeOK, Queue
  <2> QED
    BY <1>1, <2>1
<1>3. Said(emitted[t], "status.end") => Said(emitted[t], "status.started")
  <2> SUFFICES ASSUME NEW i \in DOMAIN emitted[t], emitted[t][i] = "status.end"
               PROVE  Said(emitted[t], "status.started")
    BY DEF Said
  <2>1. Earlier(emitted[t], i, "status.started")
    BY DEF Ordered, InOrder
  <2>2. emitted[t] \in Seq(EventKind)
    BY DEF IInv, TypeOK
  <2>3. DOMAIN emitted[t] = 1 .. Len(emitted[t]) /\ i \in 1 .. Len(emitted[t]) /\ Len(emitted[t]) \in Nat
    BY <2>2
  <2> QED
    BY <2>1, <2>3 DEF Said, Earlier
<1> QED
  BY <1>1, <1>2, <1>3 DEF SaidEnd

\* The object is there as long as the loop uses it, each callback has its place,
\* and what was called is what the events that were received said.
THEOREM ApiInvariant == ApiSpec => []ApiInv
<1>1. ApiInv /\ [ApiNext]_everything => ApiInv'
  BY ApiStep
<1> QED
  BY <1>1, InitApi, PTL DEF ApiSpec

\* The loop of BaseTest::run() does nothing to its task that an application may
\* not do: all that is shown of Task, of its events and of its queue holds of it.
THEOREM LoopIsAnApplication == ApiSpec => Spec
<1>1. ApiInit => Init
  BY DEF ApiInit
<1>2. ApiInv /\ [ApiNext]_everything => [Next]_vars
  BY ApiStep
<1> QED
  BY <1>1, <1>2, ApiInvariant, PTL DEF ApiSpec, Spec

\* The callbacks of a run come in their order, each as often as it should: the
\* start before what the nettest says, its end after it if there was a start,
\* and the last two when the task has stopped and its queue is empty; and no
\* event ends the program.
THEOREM CallbacksComeInOrder == ApiSpec => []CallbacksInOrder
<1>1. ApiInv => CallbacksInOrder
  <2> SUFFICES ASSUME ApiInv PROVE CallbacksInOrder
    OBVIOUS
  <2> DEFINE at(name) == {i \in DOMAIN called : called[i] = name}
             none == Len(called) + 1
             first(name) == IF at(name) = {} THEN none
                            ELSE CHOOSE i \in at(name) : \A j \in at(name) : i <= j
  <2>1. InTurn(called) /\ loop # "thrown"
    <3>1. InTurn(<<>>)
      BY DEF InTurn
    <3> QED
      BY <3>1 DEF ApiInv, Driven
  <2>2. called \in Seq(Callbacks) /\ DOMAIN called = 1 .. Len(called) /\ Len(called) \in Nat
    BY <2>1 DEF InTurn
  <2>3. ASSUME NEW name \in Once, NEW i \in at(name) PROVE at(name) = {i} /\ first(name) = i
    <3>1. at(name) = {i}
      BY <2>1, <2>3 DEF InTurn
    <3>2. i <= i
      BY <2>2
    <3> QED
      BY <3>1, <3>2
  <2>4. \A name \in Once : Cardinality(at(name)) <= 1
    <3> TAKE name \in Once
    <3>1. CASE at(name) = {}
      BY <3>1, FS_EmptySet
    <3>2. CASE \E i : i \in at(name)
      <4>1. PICK i : i \in at(name)
        BY <3>2
      <4>2. at(name) = {i}
        BY <2>3, <4>1
      <4> QED
        BY <4>2, FS_Singleton
    <3> QED
      BY <3>1, <3>2
  <2>5. \A i \in DOMAIN called :
          /\ called[i] # "log" => first("begin") <= i \/ called[i] \in {"logger_eof", "destroy"}
          /\ i > first("end") => called[i] \in {"logger_eof", "destroy"}
    <3> TAKE i \in DOMAIN called
    <3>1. ASSUME called[i] \notin {"log"} \cup AtLast PROVE first("begin") <= i
      <4>1. PICK k \in 1 .. i : called[k] = "begin"
        BY <2>1, <2>2, <3>1 DEF InTurn, Earlier
      <4>2. k \in at("begin") /\ k <= i
        BY <2>2, <4>1
      <4> QED
        BY <2>3, <4>2 DEF Once
    <3>2. ASSUME i > first("end") PROVE called[i] \in AtLast
      <4>1. CASE at("end") = {}
        BY <2>2, <3>2, <4>1
      <4>2. CASE \E k : k \in at("end")
        <5>1. PICK k : k \in at("end")
          BY <4>2
        <5>2. k < i /\ k \in 1 .. i - 1 /\ called[k] = "end"
          BY <2>2, <2>3, <3>2, <5>1 DEF Once
        <5> QED
          BY <2>1, <5>2 DEF InTurn, Earlier
      <4> QED
        BY <4>1, <4>2
    <3> QED
      BY <3>1, <3>2 DEF AtLast
  <2>6. \A name : at(name) # {} <=> Said(called, name)
    BY DEF Said
  <2>7. at("overall_data_usage") # {} <=> at("end") # {}
    <3>1. Said(called, "overall_data_usage") <=> Said(called, "end")
      BY DEF ApiInv, TellOf, Said
    <3> QED
      BY <2>6, <3>1
  <2>8. loop \in {"eof", "over", "joining", "returned"} =>
          /\ ~running[driver.task] /\ received[driver.task] = emitted[driver.task]
          /\ at("begin") # {} <=> at("end") # {}
    <3> SUFFICES ASSUME loop \in {"eof", "over", "joining", "returned"}
                 PROVE  /\ ~running[driver.task] /\ received[driver.task] = emitted[driver.task]
                        /\ Said(called, "begin") <=> Said(called, "end")
      BY <2>6
    <3>1. driver # Nobody /\ Driven /\ TellOf(called, received[driver.task]) /\ IInv
          /\ \A t \in Task : Ordered(t)
      BY DEF ApiInv
    <3>2. driver.task \in Task /\ told[driver.task] /\ disabled[driver.task] = {}
      BY <3>1 DEF Driven, Finishing
    <3> QED
      BY <3>1, <3>2, BegunMeansEnded DEF TellOf
  <2> HIDE DEF at, first, none
  <2>9. \A name \in {"begin", "overall_data_usage", "end", "logger_eof"} : Cardinality(at(name)) <= 1
    BY <2>4 DEF Once
  <2> QED
    BY <2>1, <2>5, <2>7, <2>8, <2>9 DEF CallbacksInOrder, at, first, none
<1> QED
  BY <1>1, ApiInvariant, PTL

-----------------------------------------------------------------------------
(* getopt(): what it hands over is what the words mean.                    *)

\* An argument, or none.
Text == Seq(Sign) \cup {NULL}

Meant ==
  [options : Seq([ch : Sign, optarg : Text]), rest : Seq(Seq(Sign)), bad : BOOLEAN,
   open : BOOLEAN]

LEMMA BeforeIsMeant ==
  ASSUME NEW more \in Meant, NEW options \in Seq([ch : Sign, optarg : Text])
  PROVE  /\ Before(options, more) \in Meant
         /\ Before(options, more).options = options \o more.options
         /\ Before(options, more).rest = more.rest /\ Before(options, more).bad = more.bad
         /\ Before(options, more).open = more.open
         /\ Before(<<>>, more) = more
<1>1. Before(options, more) = [more EXCEPT !.options = options \o more.options]
  BY DEF Before
<1>2. options \o more.options \in Seq([ch : Sign, optarg : Text])
  BY DEF Meant
<1>3. Before(<<>>, more) = [more EXCEPT !.options = <<>> \o more.options]
  BY DEF Before
<1>4. <<>> \o more.options = more.options
  BY DEF Meant
<1> QED
  BY <1>1, <1>2, <1>3, <1>4 DEF Meant

\* First some options, and then others.
LEMMA BeforeTwice ==
  ASSUME NEW more \in Meant, NEW o \in Seq([ch : Sign, optarg : Text]),
         NEW p \in Seq([ch : Sign, optarg : Text])
  PROVE  Before(o, Before(p, more)) = Before(o \o p, more)
<1>1. Before(o, Before(p, more)) = [more EXCEPT !.options = o \o (p \o more.options)]
  BY DEF Before, Meant
<1>2. o \o (p \o more.options) = (o \o p) \o more.options
  BY DEF Meant
<1> QED
  BY <1>1, <1>2 DEF Before

\* Induction over an interval.
LEMMA Reached ==
  ASSUME NEW max \in Nat, NEW T, 0 \in T, \A n \in 1 .. max : n - 1 \in T => n \in T
  PROVE  0 .. max \subseteq T
<1> DEFINE missed == (0 .. max) \ T
<1>1. SUFFICES ASSUME missed # {} PROVE FALSE
  OBVIOUS
<1>2. missed \subseteq Nat
  OBVIOUS
<1> HIDE DEF missed
<1>3. PICK n \in missed : \A m \in missed : ~ (<<m, n>> \in OpToRel(<, Nat))
  BY <1>1, <1>2, NatLessThanWellFounded, WFMin
<1>4. \A m \in Nat : m < n => m \notin missed
  BY <1>2, <1>3 DEF OpToRel
<1>5. n \in 1 .. max /\ n \notin T
  <2>1. n \in (0 .. max) \ T
    BY DEF missed
  <2> QED
    BY <2>1
<1>6. n - 1 \notin missed /\ n - 1 \in 0 .. max
  BY <1>4, <1>5
<1> QED
  BY <1>5, <1>6 DEF missed

\* A set of numbers has a least one.
LEMMA Least ==
  ASSUME NEW numbers \in SUBSET Nat, numbers # {}
  PROVE  \E i \in numbers : \A j \in numbers : i <= j
<1>1. PICK i \in numbers : \A j \in numbers : ~ (<<j, i>> \in OpToRel(<, Nat))
  BY NatLessThanWellFounded, WFMin
<1>2. \A j \in numbers : i <= j
  <2> TAKE j \in numbers
  <2>1. i \in Nat /\ j \in Nat
    OBVIOUS
  <2>2. ~ (j < i)
    BY <1>1, <2>1 DEF OpToRel
  <2> QED
    BY <2>1, <2>2
<1> QED
  BY <1>2

\* How many of the first positions are in a set.
LEMMA LongestRun ==
  ASSUME NEW max \in Nat, NEW F
  PROVE  \E n \in 0 .. max : (\A j \in 1 .. n : j \in F) /\ (n < max => n + 1 \notin F)
<1> DEFINE T == {n \in 0 .. max : \A j \in 1 .. n : j \in F}
<1>1. SUFFICES ASSUME \A n \in T : n < max /\ n + 1 \in F PROVE FALSE
  OBVIOUS
<1>2. 0 \in T
  OBVIOUS
<1>3. \A n \in 1 .. max : n - 1 \in T => n \in T
  <2> TAKE n \in 1 .. max
  <2> HAVE n - 1 \in T
  <2>1. n \in F
    BY <1>1
  <2>2. \A j \in 1 .. n : j \in 1 .. n - 1 \/ j = n
    OBVIOUS
  <2> QED
    BY <2>1, <2>2
<1>4. max \in T
  <2>1. 0 .. max \subseteq T
    <3> HIDE DEF T
    <3> QED
      BY <1>2, <1>3, Reached
  <2> QED
    BY <2>1
<1> QED
  BY <1>1, <1>4

\* What the first letters mean that are no flags.
OptionMeaning(specs, long, tail, ws, one, two) ==
  IF tail = <<>> THEN one
  ELSE IF long /\ tail[1] = "-" THEN LongMeaning(specs, Tail(tail), ws, one, two)
  ELSE IF tail = <<"-">> THEN Ends(ws)
  ELSE IF Wants(as_getopt_string(specs), tail[1])
  THEN Argument(tail[1], Tail(tail), ws, one, two)
  ELSE Bad

IsFlag(specs, c) == Lists(as_getopt_string(specs), c) /\ ~Wants(as_getopt_string(specs), c)
FlagsOf(letters, n) == [j \in 1 .. n |-> [ch |-> letters[j], optarg |-> NULL]]

\* The flags that letters begin with are not a matter of choice.
LEMMA LettersInParts ==
  ASSUME NEW specs, NEW long, NEW letters \in Seq(Sign), NEW ws, NEW one, NEW two,
         NEW n \in 0 .. Len(letters), \A j \in 1 .. n : IsFlag(specs, letters[j]),
         n < Len(letters) => ~IsFlag(specs, letters[n + 1])
  PROVE  LettersMeaning(specs, long, letters, ws, one, two) =
           Before(FlagsOf(letters, n),
                  OptionMeaning(specs, long, SubSeq(letters, n + 1, Len(letters)), ws, one, two))
<1> DEFINE m == CHOOSE m \in 0 .. Len(letters) :
                  /\ \A j \in 1 .. m : IsFlag(specs, letters[j])
                  /\ m < Len(letters) => ~IsFlag(specs, letters[m + 1])
<1>1. /\ m \in 0 .. Len(letters) /\ \A j \in 1 .. m : IsFlag(specs, letters[j])
      /\ m < Len(letters) => ~IsFlag(specs, letters[m + 1])
  OBVIOUS
<1>2. LettersMeaning(specs, long, letters, ws, one, two) =
        Before(FlagsOf(letters, m),
               OptionMeaning(specs, long, SubSeq(letters, m + 1, Len(letters)), ws, one, two))
  BY DEF LettersMeaning, IsFlag, FlagsOf, OptionMeaning
<1> HIDE DEF m
<1>3. m = n
  <2>1. ~(m < n)
    BY <1>1
  <2>2. ~(n < m)
    BY <1>1
  <2> QED
    BY <1>1, <2>1, <2>2
<1> QED
  BY <1>2, <1>3

\* There is such a number, for each sequence of letters.
LEMMA SomeFlags ==
  ASSUME NEW specs, NEW letters \in Seq(Sign)
  PROVE  \E n \in 0 .. Len(letters) :
           /\ \A j \in 1 .. n : IsFlag(specs, letters[j])
           /\ n < Len(letters) => ~IsFlag(specs, letters[n + 1])
<1> DEFINE F == {j \in 1 .. Len(letters) : IsFlag(specs, letters[j])}
<1>1. Len(letters) \in Nat
  OBVIOUS
<1>2. PICK n \in 0 .. Len(letters) :
        (\A j \in 1 .. n : j \in F) /\ (n < Len(letters) => n + 1 \notin F)
  <2> HIDE DEF F
  <2> QED
    BY <1>1, LongestRun
<1> QED
  BY <1>2

\* All of this is about words, and what can follow them.
Around(specs, ws, one, two) ==
  /\ Options(specs) /\ ws \in Seq(Seq(Sign)) \ {<<>>} /\ one \in Meant /\ two \in Meant

LEMMA EndsIsMeant ==
  ASSUME NEW ws \in Seq(Seq(Sign))
  PROVE  Ends(ws) \in Meant /\ Bad \in Meant /\ Open \in Meant /\ Open.open
BY DEF Ends, Bad, Open, Meant

LEMMA TextIsMeant ==
  ASSUME NEW c \in Sign, NEW text \in Text, NEW more \in Meant
  PROVE  WithText(c, text, more) \in Meant
<1>1. <<[ch |-> c, optarg |-> text]>> \in Seq([ch : Sign, optarg : Text])
  OBVIOUS
<1> QED
  BY <1>1, BeforeIsMeant DEF WithText

LEMMA TextsAreMeant ==
  ASSUME NEW c \in Sign, NEW more \in Meant
  PROVE  /\ \A text \in Seq(Sign) : WithText(c, text, more) \in Meant
         /\ WithText(c, NULL, more) \in Meant
<1>1. Seq(Sign) \subseteq Text /\ NULL \in Text
  BY DEF Text
<1> QED
  BY <1>1, TextIsMeant

LEMMA ArgumentIsMeant ==
  ASSUME NEW specs, NEW ws, NEW one, NEW two, Around(specs, ws, one, two),
         NEW c \in Sign, NEW own \in Seq(Sign)
  PROVE  Argument(c, own, ws, one, two) \in Meant
<1>1. Len(ws) # 1 => ws[2] \in Seq(Sign)
  <2>1. ws \in Seq(Seq(Sign)) /\ ws # <<>>
    BY DEF Around
  <2> HAVE Len(ws) # 1
  <2>2. Len(ws) \in Nat /\ 2 \in 1 .. Len(ws)
    <3>1. Len(ws) \in Nat /\ Len(ws) # 0
      BY <2>1, EmptySeq, LenProperties
    <3>2. \A l \in Nat : l # 0 /\ l # 1 => 2 \in 1 .. l
      OBVIOUS
    <3> QED
      BY <3>1, <3>2
  <2> QED
    BY <2>1, <2>2, ElementOfSeq
<1>2. WithText(c, own, one) \in Meant /\ (Len(ws) # 1 => WithText(c, ws[2], two) \in Meant)
  BY <1>1, TextsAreMeant DEF Around
<1> QED
  BY <1>2, EndsIsMeant DEF Argument, Around

LEMMA LongIsMeant ==
  ASSUME NEW specs, NEW ws, NEW one, NEW two, Around(specs, ws, one, two), NEW text \in Seq(Sign)
  PROVE  LongMeaning(specs, text, ws, one, two) \in Meant
<1> DEFINE equals == {i \in DOMAIN text : text[i] = "="}
           e == IF equals = {} THEN Len(text) + 1 ELSE CHOOSE i \in equals : \A j \in equals : i <= j
           named == Named(specs, SubSeq(text, 1, e - 1))
           option == specs[CHOOSE i \in named : TRUE]
           after == SubSeq(text, e + 1, Len(text))
<1>1. named \subseteq DOMAIN specs
  BY DEF Named
<1>2. ASSUME named # {} PROVE option.val \in Sign
  <2> DEFINE i == CHOOSE i \in named : TRUE
  <2>1. i \in DOMAIN specs
    BY <1>1, <1>2
  <2> HIDE DEF i
  <2> DEFINE R == [val : Sign, short : BOOLEAN, long_name : Seq(Sign), requires_argument : BOOLEAN]
  <2>2. specs[i] \in R
    <3>1. specs \in Seq(R)
      BY DEF Around, Options
    <3> HIDE DEF R
    <3> QED
      BY <2>1, <3>1
  <2>3. specs[i].val \in Sign
    BY <2>2
  <2> QED
    BY <2>3 DEF i
<1>3. after \in Seq(Sign)
  <2>1. e \in Nat /\ e > 0
    <3>1. CASE equals = {}
      BY <3>1
    <3>2. CASE equals # {}
      <4>1. equals \subseteq Nat
        OBVIOUS
      <4>2. PICK i \in equals : \A j \in equals : i <= j
        BY <3>2, <4>1, Least
      <4>3. (CHOOSE k \in equals : \A j \in equals : k <= j) \in equals
        BY <4>2
      <4>4. e \in equals
        BY <3>2, <4>3
      <4>5. \A k \in equals : k \in Nat /\ k > 0
        OBVIOUS
      <4> QED
        BY <4>4, <4>5
    <3> QED
      BY <3>1, <3>2
  <2> HIDE DEF e
  <2> QED
    BY <2>1
<1> HIDE DEF named, option, after, e
<1>4. ASSUME named # {}
      PROVE  /\ WithText(option.val, after, one) \in Meant
             /\ Argument(option.val, <<>>, ws, one, two) \in Meant
             /\ WithText(option.val, NULL, one) \in Meant
  <2>1. option.val \in Sign /\ one \in Meant /\ <<>> \in Seq(Sign)
    BY <1>2, <1>4 DEF Around
  <2>2. WithText(option.val, after, one) \in Meant
    BY <1>3, <2>1, TextsAreMeant
  <2>3. WithText(option.val, NULL, one) \in Meant
    BY <2>1, TextsAreMeant
  <2>4. Argument(option.val, <<>>, ws, one, two) \in Meant
    BY <2>1, ArgumentIsMeant
  <2> QED
    BY <2>2, <2>3, <2>4
<1>5. LongMeaning(specs, text, ws, one, two) =
        IF named = {} THEN Open
        ELSE IF equals # {} /\ ~option.requires_argument THEN Bad
        ELSE IF equals # {} THEN WithText(option.val, after, one)
        ELSE IF option.requires_argument THEN Argument(option.val, <<>>, ws, one, two)
        ELSE WithText(option.val, NULL, one)
  BY DEF LongMeaning, named, option, after, e
<1> QED
  BY <1>4, <1>5, EndsIsMeant DEF Around

LEMMA OptionIsMeant ==
  ASSUME NEW specs, NEW long, NEW ws, NEW one, NEW two, Around(specs, ws, one, two),
         NEW tail \in Seq(Sign)
  PROVE  OptionMeaning(specs, long, tail, ws, one, two) \in Meant
<1>1. CASE tail = <<>>
  BY <1>1 DEF OptionMeaning, Around
<1>2. CASE tail # <<>>
  <2>1. tail[1] \in Sign /\ Tail(tail) \in Seq(Sign)
    BY <1>2
  <2>2. /\ LongMeaning(specs, Tail(tail), ws, one, two) \in Meant
        /\ Argument(tail[1], Tail(tail), ws, one, two) \in Meant /\ Ends(ws) \in Meant /\ Bad \in Meant
    BY <2>1, LongIsMeant, ArgumentIsMeant, EndsIsMeant DEF Around
  <2> QED
    BY <1>2, <2>2 DEF OptionMeaning
<1> QED
  BY <1>1, <1>2

LEMMA FlagsAreOptions ==
  ASSUME NEW letters \in Seq(Sign), NEW n \in 0 .. Len(letters)
  PROVE  FlagsOf(letters, n) \in Seq([ch : Sign, optarg : Text])
<1>1. \A j \in 1 .. n : [ch |-> letters[j], optarg |-> NULL] \in [ch : Sign, optarg : Text]
  BY DEF Text
<1> QED
  BY <1>1 DEF FlagsOf

LEMMA LettersAreMeant ==
  ASSUME NEW specs, NEW long, NEW ws, NEW one, NEW two, Around(specs, ws, one, two),
         NEW letters \in Seq(Sign)
  PROVE  LettersMeaning(specs, long, letters, ws, one, two) \in Meant
<1>1. PICK n \in 0 .. Len(letters) :
        /\ \A j \in 1 .. n : IsFlag(specs, letters[j])
        /\ n < Len(letters) => ~IsFlag(specs, letters[n + 1])
  BY SomeFlags
<1>2. SubSeq(letters, n + 1, Len(letters)) \in Seq(Sign)
  OBVIOUS
<1>3. LettersMeaning(specs, long, letters, ws, one, two) =
        Before(FlagsOf(letters, n),
               OptionMeaning(specs, long, SubSeq(letters, n + 1, Len(letters)), ws, one, two))
  BY <1>1, LettersInParts
<1>4. OptionMeaning(specs, long, SubSeq(letters, n + 1, Len(letters)), ws, one, two) \in Meant
  BY <1>2, OptionIsMeant
<1>5. FlagsOf(letters, n) \in Seq([ch : Sign, optarg : Text])
  BY FlagsAreOptions
<1> QED
  BY <1>3, <1>4, <1>5, BeforeIsMeant

\* A word that begins with a flag, or does not.
RestOf(letters) == Tail(letters)

LEMMA LettersFlag ==
  ASSUME NEW specs, NEW long, NEW ws, NEW one, NEW two, Around(specs, ws, one, two),
         NEW letters \in Seq(Sign), letters # <<>>, IsFlag(specs, letters[1])
  PROVE  LET m == LettersMeaning(specs, long, letters, ws, one, two)
         IN /\ RestOf(letters) = <<>> => m = WithText(letters[1], NULL, one)
            /\ RestOf(letters) # <<>> =>
                 m = WithText(letters[1], NULL,
                              LettersMeaning(specs, long, RestOf(letters), ws, one, two))
<1> DEFINE rest == Tail(letters)
           meaning(n) == OptionMeaning(specs, long, SubSeq(rest, n + 1, Len(rest)), ws, one, two)
           first == [ch |-> letters[1], optarg |-> NULL]
<1>1. /\ rest \in Seq(Sign) /\ Len(rest) = Len(letters) - 1 /\ Len(letters) \in Nat \ {0}
      /\ \A j \in 1 .. Len(rest) : rest[j] = letters[j + 1]
      /\ letters[1] \in Sign
  OBVIOUS
<1>8. \A n \in 0 .. Len(rest) : SubSeq(letters, n + 1 + 1, Len(letters)) = SubSeq(rest, n + 1, Len(rest))
  OBVIOUS
<1> HIDE DEF rest
<1>2. PICK n \in 0 .. Len(rest) :
        /\ \A j \in 1 .. n : IsFlag(specs, rest[j])
        /\ n < Len(rest) => ~IsFlag(specs, rest[n + 1])
  BY <1>1, SomeFlags
<1>3. LettersMeaning(specs, long, rest, ws, one, two) = Before(FlagsOf(rest, n), meaning(n))
  <2>1. rest \in Seq(Sign)
    BY <1>1
  <2> QED
    BY <1>2, <2>1, LettersInParts
<1>4. LettersMeaning(specs, long, letters, ws, one, two) =
        Before(FlagsOf(letters, n + 1), meaning(n))
  <2>1. ASSUME NEW j \in 1 .. n + 1 PROVE IsFlag(specs, letters[j])
    <3>1. CASE j = 1
      BY <3>1
    <3>2. CASE j - 1 \in 1 .. n
      <4>1. j - 1 \in 1 .. Len(rest) /\ IsFlag(specs, rest[j - 1])
        BY <1>2, <3>2
      <4> QED
        BY <1>1, <4>1
    <3> QED
      BY <3>1, <3>2
  <2>2. n + 1 \in 0 .. Len(letters) /\ (n + 1 < Len(letters) => ~IsFlag(specs, letters[n + 1 + 1]))
    BY <1>1, <1>2
  <2> DEFINE m == n + 1
  <2>3. SubSeq(letters, m + 1, Len(letters)) = SubSeq(rest, n + 1, Len(rest))
    BY <1>8
  <2>4. m \in 0 .. Len(letters) /\ (\A j \in 1 .. m : IsFlag(specs, letters[j]))
        /\ (m < Len(letters) => ~IsFlag(specs, letters[m + 1]))
    BY <2>1, <2>2
  <2> HIDE DEF m
  <2>5. LettersMeaning(specs, long, letters, ws, one, two) =
          Before(FlagsOf(letters, m),
                 OptionMeaning(specs, long, SubSeq(letters, m + 1, Len(letters)), ws, one, two))
    BY <2>4, LettersInParts
  <2> QED
    BY <2>3, <2>5 DEF m
<1>5. FlagsOf(letters, n + 1) = <<first>> \o FlagsOf(rest, n)
  BY <1>1, <1>2 DEF FlagsOf
<1>7. /\ meaning(n) \in Meant /\ <<first>> \in Seq([ch : Sign, optarg : Text])
      /\ FlagsOf(rest, n) \in Seq([ch : Sign, optarg : Text])
  <2>1. SubSeq(rest, n + 1, Len(rest)) \in Seq(Sign)
    BY <1>1, <1>2
  <2>2. meaning(n) \in Meant
    BY <2>1, OptionIsMeant
  <2>3. FlagsOf(rest, n) \in Seq([ch : Sign, optarg : Text])
    BY <1>1, FlagsAreOptions
  <2>4. first \in [ch : Sign, optarg : Text]
    BY <1>1 DEF Text
  <2> HIDE DEF first, meaning
  <2>5. <<first>> \in Seq([ch : Sign, optarg : Text])
    BY <2>4
  <2> QED
    BY <2>2, <2>3, <2>5
<1>6. LettersMeaning(specs, long, letters, ws, one, two) =
        Before(<<first>>, Before(FlagsOf(rest, n), meaning(n)))
  <2> HIDE DEF first, meaning
  <2>1. Before(<<first>>, Before(FlagsOf(rest, n), meaning(n))) =
          Before(<<first>> \o FlagsOf(rest, n), meaning(n))
    BY <1>7, BeforeTwice
  <2> QED
    BY <1>4, <1>5, <2>1
<1>9. rest = <<>> => Before(FlagsOf(rest, n), meaning(n)) = one
  <2> HAVE rest = <<>>
  <2>0. Len(rest) = 0
    BY <1>1, EmptySeq, LenProperties
  <2>1. n = 0 /\ SubSeq(rest, n + 1, Len(rest)) = <<>>
    BY <1>2, <2>0
  <2>2. meaning(n) = one /\ FlagsOf(rest, n) = <<>>
    BY <2>1 DEF FlagsOf, OptionMeaning
  <2> QED
    BY <1>7, <2>2, BeforeIsMeant
<1> QED
  BY <1>3, <1>6, <1>9 DEF WithText, RestOf, rest

LEMMA LettersOption ==
  ASSUME NEW specs, NEW long, NEW ws, NEW one, NEW two, Around(specs, ws, one, two),
         NEW letters \in Seq(Sign), letters # <<>>, ~IsFlag(specs, letters[1])
  PROVE  LettersMeaning(specs, long, letters, ws, one, two) =
           OptionMeaning(specs, long, letters, ws, one, two)
<1>1. LettersMeaning(specs, long, letters, ws, one, two) =
        Before(FlagsOf(letters, 0),
               OptionMeaning(specs, long, SubSeq(letters, 0 + 1, Len(letters)), ws, one, two))
  <2> DEFINE n == 0
  <2>1. n \in 0 .. Len(letters) /\ (\A j \in 1 .. n : IsFlag(specs, letters[j]))
        /\ (n < Len(letters) => ~IsFlag(specs, letters[n + 1]))
    OBVIOUS
  <2> HIDE DEF n
  <2>2. LettersMeaning(specs, long, letters, ws, one, two) =
          Before(FlagsOf(letters, n),
                 OptionMeaning(specs, long, SubSeq(letters, n + 1, Len(letters)), ws, one, two))
    BY <2>1, LettersInParts
  <2> QED
    BY <2>2 DEF n
<1>2. FlagsOf(letters, 0) = <<>> /\ SubSeq(letters, 0 + 1, Len(letters)) = letters
  BY DEF FlagsOf
<1>3. OptionMeaning(specs, long, letters, ws, one, two) \in Meant
  BY OptionIsMeant
<1>4. Before(<<>>, OptionMeaning(specs, long, letters, ws, one, two)) =
        OptionMeaning(specs, long, letters, ws, one, two)
  <2>1. <<>> \in Seq([ch : Sign, optarg : Text])
    OBVIOUS
  <2> QED
    BY <1>3, <2>1, BeforeIsMeant
<1> QED
  BY <1>1, <1>2, <1>4

\* The words from one on, of which there are k.
From(words, k) == SubSeq(words, Len(words) - k + 1, Len(words))

WordMeaning(specs, long, words, k, one, two) ==
  LET ws == From(words, k)
  IN IF k = 0 \/ ~IsOption(ws[1]) THEN Ends(ws)
     ELSE IF ws[1] = <<"-", "-">> THEN Ends(Tail(ws))
     ELSE LettersMeaning(specs, long, Tail(ws[1]), ws, one, two)

LEMMA FromIsWords ==
  ASSUME NEW words \in Seq(Seq(Sign)), NEW k \in 0 .. Len(words)
  PROVE  /\ From(words, k) \in Seq(Seq(Sign)) /\ Len(From(words, k)) = k
         /\ k > 0 => /\ From(words, k) # <<>>
                     /\ From(words, k)[1] = words[Len(words) - k + 1]
                     /\ From(words, k)[1] \in Seq(Sign)
                     /\ Tail(From(words, k)) = From(words, k - 1)
         /\ k > 1 => From(words, k)[2] = words[Len(words) - k + 2]
<1>1. Len(words) \in Nat
  OBVIOUS
<1>2. /\ From(words, k) \in Seq(Seq(Sign)) /\ Len(From(words, k)) = k
      /\ \A i \in 1 .. k : From(words, k)[i] = words[Len(words) - k + i]
  BY <1>1 DEF From
<1>3. ASSUME k > 0 PROVE Tail(From(words, k)) = From(words, k - 1)
  BY <1>1, <1>3 DEF From
<1>4. ASSUME k > 0
      PROVE  /\ From(words, k) # <<>> /\ From(words, k)[1] \in Seq(Sign)
             /\ From(words, k)[1] = words[Len(words) - k + 1]
  BY <1>2, <1>4, ElementOfSeq
<1>5. k > 1 => From(words, k)[2] = words[Len(words) - k + 2]
  BY <1>2
<1> QED
  BY <1>2, <1>3, <1>4, <1>5

LEMMA WordIsMeant ==
  ASSUME NEW specs, Options(specs), NEW long, NEW words \in Seq(Seq(Sign)),
         NEW k \in 0 .. Len(words), NEW one, NEW two, k > 0 => one \in Meant /\ two \in Meant
  PROVE  WordMeaning(specs, long, words, k, one, two) \in Meant
<1>1. Ends(From(words, k)) \in Meant
  BY FromIsWords, EndsIsMeant
<1>2. CASE k = 0
  BY <1>1, <1>2 DEF WordMeaning
<1>3. CASE k > 0
  <2>1. /\ From(words, k) \in Seq(Seq(Sign)) \ {<<>>} /\ From(words, k)[1] \in Seq(Sign)
        /\ Around(specs, From(words, k), one, two)
    BY <1>3, FromIsWords DEF Around
  <2>2. Ends(Tail(From(words, k))) \in Meant
    <3>1. k - 1 \in 0 .. Len(words)
      BY <1>3
    <3> QED
      BY <1>3, <3>1, FromIsWords, EndsIsMeant
  <2>3. IsOption(From(words, k)[1]) => Tail(From(words, k)[1]) \in Seq(Sign)
    <3>1. \A w \in Seq(Sign) : Len(w) > 1 => Tail(w) \in Seq(Sign)
      OBVIOUS
    <3> QED
      BY <2>1, <3>1 DEF IsOption
  <2>4. IsOption(From(words, k)[1]) =>
          LettersMeaning(specs, long, Tail(From(words, k)[1]), From(words, k), one, two) \in Meant
    BY <2>1, <2>3, LettersAreMeant
  <2> QED
    BY <1>1, <1>3, <2>2, <2>4 DEF WordMeaning
<1> QED
  BY <1>2, <1>3

\* The meaning of the last words, one word more at a time.
LEMMA MeaningsGoOn ==
  ASSUME NEW specs, Options(specs), NEW long, NEW words \in Seq(Seq(Sign))
  PROVE  LET last == Meanings(specs, long, words)
         IN \A k \in 0 .. Len(words) :
              /\ last[k] \in Meant
              /\ last[k] = WordMeaning(specs, long, words, k, last[k - 1],
                                       IF k > 1 THEN last[k - 2] ELSE Bad)
<1> DEFINE step(g, k) == WordMeaning(specs, long, words, k, g[k - 1], IF k > 1 THEN g[k - 2] ELSE Bad)
           goes(g, n) == g = [k \in 0 .. n |-> step(g, k)]
           good == {n \in 0 .. Len(words) : \E g : goes(g, n)}
           last == Meanings(specs, long, words)
<1>0. Len(words) \in Nat
  OBVIOUS
<1>1. \A g, h : step(g, 0) = step(h, 0)
  BY DEF WordMeaning
<1>2. \A g, h : \A k \in Nat \ {0} :
        g[k - 1] = h[k - 1] /\ (k > 1 => g[k - 2] = h[k - 2]) => step(g, k) = step(h, k)
  OBVIOUS
<1>3. 0 \in good
  <2> DEFINE g == [k \in 0 .. 0 |-> step(<<>>, 0)]
  <2>1. g = [k \in 0 .. 0 |-> step(g, k)]
    BY <1>1
  <2> HIDE DEF g, step
  <2>2. goes(g, 0)
    BY <2>1
  <2> QED
    BY <1>0, <2>2
<1> HIDE DEF step
<1>4. \A n \in 1 .. Len(words) : n - 1 \in good => n \in good
  <2> SUFFICES ASSUME NEW n \in 1 .. Len(words), n - 1 \in good
               PROVE  \E g : goes(g, n)
    OBVIOUS
  <2>1. PICK g : goes(g, n - 1)
    OBVIOUS
  <2> DEFINE h == [k \in 0 .. n |-> IF k < n THEN g[k] ELSE step(g, n)]
  <2>2. \A k \in 0 .. n - 1 : h[k] = g[k]
    OBVIOUS
  <2>3. h[n] = step(g, n)
    OBVIOUS
  <2>4. h = [k \in 0 .. n |-> h[k]]
    OBVIOUS
  <2> HIDE DEF h
  <2>5. ASSUME NEW k \in 0 .. n PROVE h[k] = step(h, k)
    <3>1. step(h, k) = step(g, k)
      <4>1. CASE k = 0
        BY <1>1, <4>1
      <4>2. CASE k > 0
        <5>1. k - 1 \in 0 .. n - 1 /\ (k > 1 => k - 2 \in 0 .. n - 1) /\ k \in Nat \ {0}
          BY <4>2
        <5> QED
          BY <1>2, <2>2, <5>1
      <4> QED
        BY <4>1, <4>2
    <3>2. CASE k < n
      <4>1. k \in 0 .. n - 1
        BY <3>2
      <4>2. g[k] = step(g, k)
        BY <2>1, <4>1
      <4> QED
        BY <2>2, <3>1, <4>1, <4>2
    <3>3. CASE k = n
      BY <2>3, <3>1, <3>3
    <3> QED
      BY <3>2, <3>3
  <2>6. goes(h, n)
    BY <2>4, <2>5
  <2> QED
    BY <2>6
<1>5. PICK g : goes(g, Len(words))
  <2>1. 0 .. Len(words) \subseteq good
    <3> HIDE DEF good
    <3> QED
      BY <1>0, <1>3, <1>4, Reached
  <2> QED
    BY <1>0, <2>1
<1>6. last = [k \in 0 .. Len(words) |-> step(last, k)]
  <2>1. last = CHOOSE f : f = [k \in 0 .. Len(words) |-> step(f, k)]
    BY DEF Meanings, step, WordMeaning, From
  <2> QED
    BY <1>5, <2>1
<1> HIDE DEF last
<1>7. \A k \in 0 .. Len(words) : last[k] = step(last, k)
  BY <1>6
<1>8. 0 .. Len(words) \subseteq {k \in 0 .. Len(words) : \A j \in 0 .. k : last[j] \in Meant}
  <2> DEFINE typed_ == {k \in 0 .. Len(words) : \A j \in 0 .. k : last[j] \in Meant}
  <2>1. 0 \in typed_
    <3>1. step(last, 0) \in Meant
      BY <1>0, WordIsMeant DEF step
    <3>2. last[0] \in Meant
      BY <1>0, <1>7, <3>1
    <3> QED
      BY <1>0, <3>2
  <2>2. ASSUME NEW n \in 1 .. Len(words), n - 1 \in typed_ PROVE n \in typed_
    <3>1. \A j \in 0 .. n - 1 : last[j] \in Meant
      BY <2>2
    <3>2. last[n - 1] \in Meant /\ (IF n > 1 THEN last[n - 2] ELSE Bad) \in Meant
      BY <3>1, EndsIsMeant
    <3>3. step(last, n) \in Meant
      BY <3>2, WordIsMeant DEF step
    <3>4. last[n] \in Meant
      BY <1>7, <3>3
    <3>5. \A j \in 0 .. n : j \in 0 .. n - 1 \/ j = n
      OBVIOUS
    <3> QED
      BY <3>1, <3>4, <3>5
  <2> HIDE DEF typed_
  <2>3. 0 .. Len(words) \subseteq typed_
    BY <1>0, <2>1, <2>2, Reached
  <2> QED
    BY <2>3 DEF typed_
<1>9. \A k \in 0 .. Len(words) : last[k] \in Meant
  BY <1>8
<1> QED
  BY <1>7, <1>9 DEF step, last

-----------------------------------------------------------------------------

\* Options that getopt() is called with.
Scannable(specs, long) ==
  /\ Options(specs) /\ long \in BOOLEAN
  /\ long => /\ specs # <<>>
             /\ \A i, j \in DOMAIN specs : specs[i].long_name = specs[j].long_name => i = j
  /\ argv \in Seq(Seq(Sign)) /\ \A i \in DOMAIN argv : argv[i] # NULL

\* Between two calls: what the static variables say of the words.
Scanning(s) ==
  /\ s \in [optind : 1 .. Len(argv) + 1, optreset : BOOLEAN, place : Seq(Sign)]
  /\ s.optreset \/ s.place = EMSG \/ s.optind <= Len(argv)

WordsLeft(s) == Len(argv) - s.optind + 1
One(specs, long, s) == Meanings(specs, long, argv)[WordsLeft(s) - 1]
Two(specs, long, s) ==
  IF WordsLeft(s) > 1 THEN Meanings(specs, long, argv)[WordsLeft(s) - 2] ELSE Bad

\* What is still ahead: letters of a word, or whole words.
Ahead(specs, long, s) ==
  IF s.optreset \/ s.place = EMSG THEN Meanings(specs, long, argv)[WordsLeft(s)]
  ELSE LettersMeaning(specs, long, s.place, From(argv, WordsLeft(s)),
                      One(specs, long, s), Two(specs, long, s))

\* One of the options, with the argument that it requires.
Expected(specs, c, text) ==
  \E i \in DOMAIN specs : specs[i].val = c /\ (specs[i].requires_argument => text # NULL)

\* An answer of getopt(), to what had a certain meaning.
Agrees(specs, long, a, meaning) ==
  ~(long /\ meaning.open) =>
    /\ a.ch # "fault"
    /\ a.ch = "?" => meaning.bad
    /\ a.ch = "-1" =>
         /\ meaning = Ends(SubSeq(argv, a.scan.optind, Len(argv)))
         /\ a.scan \in [optind : 1 .. Len(argv) + 1, optreset : {FALSE}, place : {EMSG}]
    /\ a.ch \notin {"?", "-1"} =>
         /\ a.ch \in Sign /\ a.optarg \in Text /\ Scanning(a.scan)
         /\ Expected(specs, a.ch, a.optarg)
         /\ meaning = WithText(a.ch, a.optarg, Ahead(specs, long, a.scan))

InWord == [optind : 1 .. Len(argv), optreset : {FALSE}, place : Seq(Sign)]
NextWord(s) == [s EXCEPT !.optind = @ + 1, !.place = EMSG]

\* The static variables with some of them changed.
LEMMA OtherScan ==
  ASSUME NEW o, NEW r, NEW p, NEW s, s = [optind |-> o, optreset |-> r, place |-> p],
         NEW i, NEW b, NEW q
  PROVE  /\ [s EXCEPT !.optind = i] = [optind |-> i, optreset |-> r, place |-> p]
         /\ [s EXCEPT !.place = q] = [optind |-> o, optreset |-> r, place |-> q]
         /\ [s EXCEPT !.optreset = b] = [optind |-> o, optreset |-> b, place |-> p]
         /\ [s EXCEPT !.optind = i, !.place = q] = [optind |-> i, optreset |-> r, place |-> q]
         /\ [s EXCEPT !.optreset = b, !.optind = i] = [optind |-> i, optreset |-> b, place |-> p]
<1>1. [s EXCEPT !.optind = i] = [optind |-> i, optreset |-> r, place |-> p]
  OBVIOUS
<1>2. [s EXCEPT !.place = q] = [optind |-> o, optreset |-> r, place |-> q]
  OBVIOUS
<1>3. [s EXCEPT !.optreset = b] = [optind |-> o, optreset |-> b, place |-> p]
  OBVIOUS
<1>4. [s EXCEPT !.optind = i, !.place = q] = [optind |-> i, optreset |-> r, place |-> q]
  <2> DEFINE m == [s EXCEPT !.optind = i]
  <2>1. [s EXCEPT !.optind = i, !.place = q] = [m EXCEPT !.place = q]
    OBVIOUS
  <2>2. m = [optind |-> i, optreset |-> r, place |-> p]
    BY <1>1
  <2> HIDE DEF m
  <2> QED
    BY <2>1, <2>2
<1>5. [s EXCEPT !.optreset = b, !.optind = i] = [optind |-> i, optreset |-> b, place |-> p]
  <2> DEFINE m == [s EXCEPT !.optreset = b]
  <2>1. [s EXCEPT !.optreset = b, !.optind = i] = [m EXCEPT !.optind = i]
    OBVIOUS
  <2>2. m = [optind |-> o, optreset |-> b, place |-> p]
    BY <1>3
  <2> HIDE DEF m
  <2> QED
    BY <2>1, <2>2
<1> QED
  BY <1>1, <1>2, <1>3, <1>4, <1>5

LEMMA ScanIsAround ==
  ASSUME NEW specs, NEW long, Scannable(specs, long), NEW s \in InWord
  PROVE  /\ WordsLeft(s) \in 1 .. Len(argv)
         /\ From(argv, WordsLeft(s)) = SubSeq(argv, s.optind, Len(argv))
         /\ Around(specs, From(argv, WordsLeft(s)), One(specs, long, s), Two(specs, long, s))
<1>1. Len(argv) \in Nat /\ argv \in Seq(Seq(Sign)) /\ Options(specs)
  BY DEF Scannable
<1>2. WordsLeft(s) \in 1 .. Len(argv) /\ s.optind \in 1 .. Len(argv)
      /\ Len(argv) - WordsLeft(s) + 1 = s.optind
  BY <1>1 DEF InWord, WordsLeft
<1> DEFINE k == WordsLeft(s)
<1>3. k \in 0 .. Len(argv) /\ k - 1 \in 0 .. Len(argv) /\ (k > 1 => k - 2 \in 0 .. Len(argv)) /\ k > 0
  BY <1>1, <1>2
<1> HIDE DEF k
<1>4. /\ Meanings(specs, long, argv)[k - 1] \in Meant
      /\ k > 1 => Meanings(specs, long, argv)[k - 2] \in Meant
  BY <1>1, <1>3, MeaningsGoOn
<1>5. From(argv, k) \in Seq(Seq(Sign)) /\ From(argv, k) # <<>>
  BY <1>1, <1>3, FromIsWords
<1>6. One(specs, long, s) \in Meant /\ Two(specs, long, s) \in Meant
  <2>1. Bad \in Meant
    BY <1>5, EndsIsMeant
  <2> QED
    BY <1>4, <2>1 DEF One, Two, k
<1> QED
  BY <1>1, <1>2, <1>5, <1>6 DEF Around, From, k

\* The word after this one, and what is ahead there.
LEMMA WordAfter ==
  ASSUME NEW specs, NEW long, Scannable(specs, long), NEW s \in InWord
  PROVE  LET next == NextWord(s)
             more == [next EXCEPT !.optind = @ + 1]
             ws == From(argv, WordsLeft(s))
         IN /\ next.optind = s.optind + 1 /\ Scanning(next)
            /\ Ahead(specs, long, next) = One(specs, long, s)
            /\ Word(next.optind) = NULL <=> Len(ws) = 1
            /\ Len(ws) # 1 => /\ Word(next.optind) = ws[2] /\ ws[2] \in Seq(Sign)
                              /\ Scanning(more) /\ Ahead(specs, long, more) = Two(specs, long, s)
<1> DEFINE next == NextWord(s)
           more == [next EXCEPT !.optind = @ + 1]
           k == WordsLeft(s)
           ws == From(argv, k)
<1>1. Len(argv) \in Nat /\ argv \in Seq(Seq(Sign)) /\ \A i \in DOMAIN argv : argv[i] # NULL
  BY DEF Scannable
<1>2. /\ s.optind \in 1 .. Len(argv) /\ k = Len(argv) - s.optind + 1
      /\ next = [optind |-> s.optind + 1, optreset |-> FALSE, place |-> EMSG]
      /\ more = [optind |-> s.optind + 2, optreset |-> FALSE, place |-> EMSG]
  <2>1. PICK o \in 1 .. Len(argv), p \in Seq(Sign) :
          s = [optind |-> o, optreset |-> FALSE, place |-> p]
    BY DEF InWord
  <2>2. next = [optind |-> o + 1, optreset |-> FALSE, place |-> EMSG]
    <3>1. next = [s EXCEPT !.optind = o + 1, !.place = EMSG]
      BY <2>1 DEF NextWord
    <3> QED
      BY <2>1, <3>1, OtherScan
  <2>3. more = [optind |-> (o + 1) + 1, optreset |-> FALSE, place |-> EMSG]
    <3> HIDE DEF next
    <3>1. more = [next EXCEPT !.optind = (o + 1) + 1]
      BY <2>2
    <3> DEFINE i == (o + 1) + 1
    <3> HIDE DEF i
    <3>2. [next EXCEPT !.optind = i] = [optind |-> i, optreset |-> FALSE, place |-> EMSG]
      <4> DEFINE j == o + 1
                 f == FALSE
      <4>1. next = [optind |-> j, optreset |-> f, place |-> EMSG]
        BY <2>2
      <4> HIDE DEF j, f
      <4>2. [next EXCEPT !.optind = i] = [optind |-> i, optreset |-> f, place |-> EMSG]
        BY <4>1
      <4> QED
        BY <4>2 DEF f
    <3> QED
      BY <3>1, <3>2 DEF i
  <2>4. (o + 1) + 1 = o + 2
    BY <1>1
  <2> QED
    BY <2>1, <2>2, <2>3, <2>4 DEF WordsLeft
<1> HIDE DEF k, next, more
<1>3. EMSG \in Seq(Sign)
  BY DEF EMSG
<1>4. k \in 1 .. Len(argv) /\ Len(ws) = k /\ (k > 1 => ws[2] = argv[s.optind + 1])
  <2>1. k \in 1 .. Len(argv) /\ k \in 0 .. Len(argv) /\ Len(argv) - k + 2 = s.optind + 1
    BY <1>1, <1>2
  <2> QED
    BY <1>1, <2>1, FromIsWords
<1> HIDE DEF ws
<1>5. Scanning(next)
  BY <1>1, <1>2, <1>3 DEF Scanning
<1>6. Ahead(specs, long, next) = One(specs, long, s)
  <2>1. WordsLeft(next) = WordsLeft(s) - 1
    BY <1>1, <1>2 DEF WordsLeft
  <2> QED
    BY <1>2, <2>1 DEF Ahead, One
<1>7. k > 1 => /\ s.optind + 1 \in 1 .. Len(argv) /\ argv[s.optind + 1] \in Seq(Sign)
               /\ argv[s.optind + 1] # NULL /\ Word(next.optind) = ws[2]
  <2> HAVE k > 1
  <2>1. s.optind + 1 \in 1 .. Len(argv) /\ DOMAIN argv = 1 .. Len(argv)
    BY <1>1, <1>2
  <2>2. argv[s.optind + 1] \in Seq(Sign)
    BY <1>1, <2>1, ElementOfSeq
  <2> QED
    BY <1>1, <1>2, <1>4, <2>1, <2>2 DEF Word
<1>8. k = 1 => Word(next.optind) = NULL
  <2> HAVE k = 1
  <2>1. s.optind + 1 \notin DOMAIN argv
    BY <1>1, <1>2
  <2> QED
    BY <1>2, <2>1 DEF Word
<1>9. k > 1 => Scanning(more) /\ Ahead(specs, long, more) = Two(specs, long, s)
  <2> HAVE k > 1
  <2>1. WordsLeft(more) = WordsLeft(s) - 2 /\ WordsLeft(s) > 1
    BY <1>1, <1>2 DEF WordsLeft
  <2>2. Ahead(specs, long, more) = Two(specs, long, s)
    BY <1>2, <2>1 DEF Ahead, Two
  <2> QED
    BY <1>1, <1>2, <1>3, <2>2 DEF Scanning
<1>10. Len(ws) # 1 <=> k > 1
  BY <1>4
<1>11. next.optind = s.optind + 1
  BY <1>2
<1> QED
  BY <1>4, <1>5, <1>6, <1>7, <1>8, <1>9, <1>10, <1>11 DEF next, more, ws, k

\* Only words that are there are handed over.
LEMMA NoWordIsNull == \A word \in Seq(Sign) : word # NULL
<1> SUFFICES ASSUME NEW word \in Seq(Sign), word = <<"NULL">> PROVE FALSE
  BY DEF NULL
<1>1. word[1] = "NULL" /\ Len(word) = 1
  OBVIOUS
<1>2. word[1] \in Sign
  <2> HIDE DEF Sign
  <2> QED
    BY <1>1, ElementOfSeq
<1> QED
  BY <1>1, <1>2 DEF Sign

\* An option without what is not in its word.
LEMMA TextAgrees ==
  ASSUME NEW specs, NEW long, Scannable(specs, long), NEW s \in InWord,
         NEW c \in Sign, c \notin {"?", "-1", "fault"}, NEW text \in Text, Expected(specs, c, text)
  PROVE  Agrees(specs, long, Answer(c, text, NextWord(s)), WithText(c, text, One(specs, long, s)))
<1>1. Scanning(NextWord(s)) /\ Ahead(specs, long, NextWord(s)) = One(specs, long, s)
  BY WordAfter
<1>2. /\ Answer(c, text, NextWord(s)).ch = c /\ Answer(c, text, NextWord(s)).optarg = text
      /\ Answer(c, text, NextWord(s)).scan = NextWord(s)
  BY DEF Answer
<1> QED
  BY <1>1, <1>2 DEF Agrees

LEMMA BadAgrees ==
  ASSUME NEW specs, NEW long, NEW s
  PROVE  Agrees(specs, long, BADCH(s), Bad)
  BY DEF Agrees, BADCH, Answer, Bad

\* An option with an argument that is in its word, if own is not empty.
LEMMA ArgumentAgrees ==
  ASSUME NEW specs, NEW long, Scannable(specs, long), NEW s \in InWord,
         NEW c \in Sign, c \notin {"?", "-1", "fault"}, NEW own \in Seq(Sign),
         \A text : text # NULL => Expected(specs, c, text)
  PROVE  LET next == NextWord(s)
             more == [next EXCEPT !.optind = @ + 1]
             ws == From(argv, WordsLeft(s))
         IN Agrees(specs, long,
                   IF own # <<>> THEN Answer(c, own, next)
                   ELSE IF Word(next.optind) = NULL THEN BADCH(next)
                   ELSE Answer(c, Word(next.optind), more),
                   Argument(c, own, ws, One(specs, long, s), Two(specs, long, s)))
<1> DEFINE next == NextWord(s)
           more == [next EXCEPT !.optind = @ + 1]
           ws == From(argv, WordsLeft(s))
<1>1. CASE own # <<>>
  <2>1. own \in Text /\ Expected(specs, c, own)
    BY NoWordIsNull DEF Text
  <2>2. Agrees(specs, long, Answer(c, own, next), WithText(c, own, One(specs, long, s)))
    BY <2>1, TextAgrees
  <2> QED
    BY <1>1, <2>2 DEF Argument
<1>2. CASE own = <<>> /\ Len(ws) = 1
  <2>1. Word(next.optind) = NULL
    BY <1>2, WordAfter
  <2> QED
    BY <1>2, <2>1, BadAgrees DEF Argument
<1>3. CASE own = <<>> /\ Len(ws) # 1
  <2>1. /\ Word(next.optind) # NULL /\ Word(next.optind) = ws[2] /\ ws[2] \in Text
        /\ Scanning(more) /\ Ahead(specs, long, more) = Two(specs, long, s)
        /\ Expected(specs, c, ws[2])
    BY <1>3, WordAfter DEF Text
  <2> DEFINE a == Answer(c, ws[2], more)
  <2> HIDE DEF more, ws, next
  <2>2. a.ch = c /\ a.optarg = ws[2] /\ a.scan = more
    BY DEF Answer
  <2> HIDE DEF a
  <2>3. Agrees(specs, long, a, WithText(c, ws[2], Two(specs, long, s)))
    BY <2>1, <2>2 DEF Agrees
  <2>4. Argument(c, own, ws, One(specs, long, s), Two(specs, long, s)) = WithText(c, ws[2], Two(specs, long, s))
    BY <1>3 DEF Argument
  <2>5. (IF own # <<>> THEN Answer(c, own, next)
         ELSE IF Word(next.optind) = NULL THEN BADCH(next)
         ELSE Answer(c, Word(next.optind), more)) = a
    BY <1>3, <2>1 DEF a
  <2> QED
    BY <2>3, <2>4, <2>5 DEF more, ws, next
<1> QED
  BY <1>1, <1>2, <1>3

\* An option of getopt_long(), maybe one that is none.
Entry == [name : Seq(Sign), has_arg : Nat, val : Sign]

\* The table, and what comes behind it.
LEMMA TableGoesOn ==
  ASSUME NEW specs, Scannable(specs, TRUE), NEW beyond \in Seq(Entry)
  PROVE  LET longs == as_long_options(specs) \o beyond
         IN /\ DOMAIN specs = 1 .. Len(specs) /\ Len(specs) \in Nat /\ Len(beyond) \in Nat
            /\ DOMAIN longs = 1 .. Len(specs) + Len(beyond)
            /\ \A j \in DOMAIN specs :
                 /\ j \in DOMAIN longs
                 /\ longs[j].name = specs[j].long_name /\ longs[j].val = specs[j].val
                 /\ longs[j].has_arg = IF specs[j].requires_argument THEN required_argument
                                       ELSE no_argument
<1> DEFINE R == [val : Sign, short : BOOLEAN, long_name : Seq(Sign), requires_argument : BOOLEAN]
           table == as_long_options(specs)
           longs == table \o beyond
           n == Len(specs)
<1>1. n \in Nat /\ DOMAIN specs = 1 .. n
  <2>1. specs \in Seq(R)
    BY DEF Scannable, Options
  <2> HIDE DEF R
  <2> QED
    BY <2>1
<1>2. /\ DOMAIN table = 1 .. n
      /\ \A j \in 1 .. n : /\ table[j].name = specs[j].long_name /\ table[j].val = specs[j].val
                           /\ table[j].has_arg = IF specs[j].requires_argument THEN required_argument
                                                 ELSE no_argument
  BY <1>1 DEF as_long_options
<1>3. table \in Seq({table[j] : j \in 1 .. n} \cup Entry) /\ Len(table) = n
  <2>1. table = [j \in 1 .. n |-> table[j]]
    BY <1>1 DEF as_long_options
  <2> HIDE DEF table, n
  <2> QED
    BY <1>1, <2>1
<1>4. beyond \in Seq({table[j] : j \in 1 .. n} \cup Entry) /\ Len(beyond) \in Nat
  <2>1. Entry \subseteq {table[j] : j \in 1 .. n} \cup Entry
    OBVIOUS
  <2> HIDE DEF table, n
  <2> QED
    BY <2>1
<1> DEFINE Entries == {table[j] : j \in 1 .. n} \cup Entry
<1> HIDE DEF table, n, Entries
<1>5. /\ DOMAIN longs = 1 .. n + Len(beyond)
      /\ \A j \in 1 .. n : longs[j] = table[j]
  <2>1. table \in Seq(Entries) /\ beyond \in Seq(Entries) /\ Len(table) = n
    BY <1>3, <1>4 DEF Entries
  <2> QED
    BY <1>1, <2>1
<1>6. \A j \in 1 .. n : j \in 1 .. n + Len(beyond)
  BY <1>1, <1>4
<1> QED
  BY <1>1, <1>2, <1>4, <1>5, <1>6 DEF table, n

\* An option that is named in full is found, whatever comes behind the options.
LEMMA MatchesNamed ==
  ASSUME NEW specs, Scannable(specs, TRUE), NEW beyond \in Seq(Entry), NEW i \in DOMAIN specs
  PROVE  LET longs == as_long_options(specs) \o beyond
             key == specs[i].long_name
         IN /\ ~Strays(key, longs) /\ ~Unclear(key, longs) /\ Match(key, longs) = i
            /\ longs[i].val = specs[i].val
            /\ longs[i].has_arg = IF specs[i].requires_argument THEN required_argument ELSE no_argument
<1> DEFINE R == [val : Sign, short : BOOLEAN, long_name : Seq(Sign), requires_argument : BOOLEAN]
           longs == as_long_options(specs) \o beyond
           key == specs[i].long_name
           n == Len(specs)
<1>1. /\ specs \in Seq(R) /\ \A j, k \in DOMAIN specs : specs[j].long_name = specs[k].long_name => j = k
      /\ \A j \in DOMAIN specs : specs[j].val # "fault"
  BY DEF Scannable, Options
<1>2. n \in Nat /\ DOMAIN specs = 1 .. n
  <2> HIDE DEF R
  <2> QED
    BY <1>1
<1>3. /\ DOMAIN longs = 1 .. n + Len(beyond) /\ Len(beyond) \in Nat
      /\ \A j \in 1 .. n : /\ longs[j].name = specs[j].long_name /\ longs[j].val = specs[j].val
                           /\ longs[j].has_arg = IF specs[j].requires_argument THEN required_argument
                                                 ELSE no_argument
  BY <1>2, TableGoesOn
<1> HIDE DEF longs, n, key
<1>6. i \in Exact(key, longs) /\ \A j \in Exact(key, longs) : j \in Nat /\ i <= j
  <2>1. i \in 1 .. n /\ i \in DOMAIN longs
    BY <1>2, <1>3
  <2>2. i \in Exact(key, longs)
    BY <1>3, <2>1 DEF Exact, key
  <2>3. ASSUME NEW j \in Exact(key, longs) PROVE j \in Nat /\ i <= j
    <3>1. j \in 1 .. n + Len(beyond) /\ longs[j].name = key
      BY <1>3, <2>3 DEF Exact
    <3>2. CASE j \in 1 .. n
      <4>1. specs[j].long_name = specs[i].long_name
        BY <1>3, <3>1, <3>2 DEF key
      <4> QED
        BY <1>1, <1>2, <2>1, <3>2, <4>1
    <3>3. CASE j \notin 1 .. n
      BY <1>2, <1>3, <2>1, <3>1, <3>3
    <3> QED
      BY <3>2, <3>3
  <2> QED
    BY <2>2, <2>3
<1>7. Match(key, longs) = i
  <2>1. Match(key, longs) = First(Exact(key, longs))
    BY <1>6 DEF Match
  <2>2. \E k \in Exact(key, longs) : \A j \in Exact(key, longs) : k <= j
    BY <1>6
  <2>3. /\ First(Exact(key, longs)) \in Exact(key, longs)
        /\ \A j \in Exact(key, longs) : First(Exact(key, longs)) <= j
    BY <2>2 DEF First
  <2>4. First(Exact(key, longs)) <= i /\ i <= First(Exact(key, longs))
        /\ First(Exact(key, longs)) \in Nat /\ i \in Nat
    BY <1>6, <2>3
  <2> QED
    BY <2>1, <2>4
<1>8. ~Unclear(key, longs)
  BY <1>6 DEF Unclear
<1>9. ~Strays(key, longs)
  <2>1. ASSUME NEW j \in DOMAIN longs, longs[j].val = "fault", j < i PROVE FALSE
    <3>1. j \in 1 .. n
      BY <1>2, <1>3, <2>1
    <3> QED
      BY <1>1, <1>2, <1>3, <2>1, <3>1
  <2> QED
    BY <1>6, <2>1 DEF Strays
<1> QED
  BY <1>2, <1>3, <1>7, <1>8, <1>9 DEF longs, key

\* A long option, of which the dashes are behind.
LEMMA LongAgrees ==
  ASSUME NEW specs, Scannable(specs, TRUE), NEW beyond \in Seq(Entry), NEW s \in InWord,
         NEW text \in Seq(Sign)
  PROVE  Agrees(specs, TRUE, parse_long_options(text, as_long_options(specs) \o beyond, s),
                LongMeaning(specs, text, From(argv, WordsLeft(s)), One(specs, TRUE, s), Two(specs, TRUE, s)))
<1> DEFINE equals == {i \in DOMAIN text : text[i] = "="}
           first == First(equals)
           e == IF equals = {} THEN Len(text) + 1 ELSE first
           key == SubSeq(text, 1, e - 1)
           longs == as_long_options(specs) \o beyond
           match == Match(key, longs)
           named == Named(specs, key)
           k == CHOOSE i \in named : TRUE
           value == SubSeq(text, first + 1, Len(text))
           next == NextWord(s)
           more == [next EXCEPT !.optind = @ + 1]
           a == parse_long_options(text, longs, s)
           m == LongMeaning(specs, text, From(argv, WordsLeft(s)), One(specs, TRUE, s), Two(specs, TRUE, s))
<1>1. key = IF equals = {} THEN text ELSE SubSeq(text, 1, first - 1)
  <2>1. Len(text) \in Nat /\ SubSeq(text, 1, Len(text)) = text
    OBVIOUS
  <2>2. Len(text) + 1 - 1 = Len(text)
    BY <2>1
  <2> HIDE DEF first
  <2>3. CASE equals = {}
    BY <2>1, <2>2, <2>3
  <2>4. CASE equals # {}
    BY <2>4
  <2> QED
    BY <2>3, <2>4
<1>2. a = CASE Strays(key, longs) -> Answer("fault", NULL, next)
            [] Unclear(key, longs) /\ ~Strays(key, longs) -> BADCH(next)
            [] OTHER ->
                 CASE longs[match].has_arg = no_argument /\ equals # {} -> BADCH(next)
                   [] longs[match].has_arg = required_argument /\ equals = {} ->
                        IF Word(next.optind) = NULL THEN BADCH(next)
                        ELSE Answer(longs[match].val, Word(next.optind), more)
                   [] longs[match].has_arg \in {required_argument, optional_argument} /\ equals # {} ->
                        Answer(longs[match].val, value, next)
                   [] OTHER -> Answer(longs[match].val, NULL, next)
  <2> HIDE DEF key, longs
  <2> QED
    BY <1>1 DEF parse_long_options, NextWord
<1>3. m = IF named = {} THEN Open
          ELSE IF equals # {} /\ ~specs[k].requires_argument THEN Bad
          ELSE IF equals # {} THEN WithText(specs[k].val, SubSeq(text, e + 1, Len(text)), One(specs, TRUE, s))
          ELSE IF specs[k].requires_argument
          THEN Argument(specs[k].val, <<>>, From(argv, WordsLeft(s)), One(specs, TRUE, s), Two(specs, TRUE, s))
          ELSE WithText(specs[k].val, NULL, One(specs, TRUE, s))
  BY DEF LongMeaning, First
<1>4. named # {} => k \in DOMAIN specs /\ specs[k].long_name = key
  <2> HIDE DEF key
  <2> QED
    BY DEF Named
<1>5. equals # {} => e = first /\ value \in Seq(Sign)
  <2> HAVE equals # {}
  <2>1. equals \subseteq Nat
    OBVIOUS
  <2>2. PICK i \in equals : \A j \in equals : i <= j
    BY <2>1, Least
  <2>3. first \in equals
    BY <2>2 DEF First
  <2>4. first \in Nat /\ first > 0
    <3>1. \A j \in equals : j \in Nat /\ j > 0
      OBVIOUS
    <3> QED
      BY <2>3, <3>1
  <2> HIDE DEF first
  <2> QED
    BY <2>4
<1> HIDE DEF a, m, match, named, equals, e, first, key, next, more
<1>6. CASE named = {}
  <2>1. m = Open /\ Open.open
    BY <1>3, <1>6 DEF Open
  <2>2. LongMeaning(specs, text, From(argv, WordsLeft(s)), One(specs, TRUE, s), Two(specs, TRUE, s)).open
    BY <2>1 DEF m
  <2> QED
    BY <2>2 DEF Agrees
<1>7. CASE named # {}
  <2>1. k \in DOMAIN specs /\ specs[k].long_name = key
    BY <1>4, <1>7
  <2> DEFINE i == k
             option == specs[i]
             c == option.val
             needs == option.requires_argument
  <2> HIDE DEF k
  <2>2. /\ ~Strays(key, longs) /\ ~Unclear(key, longs) /\ match = i
        /\ longs[i].val = c
        /\ longs[i].has_arg = IF needs THEN required_argument ELSE no_argument
    BY <2>1, MatchesNamed DEF match
  <2>4. c \in Sign /\ c \notin {"?", "-1", "fault"} /\ needs \in BOOLEAN
    <3> DEFINE R == [val : Sign, short : BOOLEAN, long_name : Seq(Sign), requires_argument : BOOLEAN]
    <3>1. specs \in Seq(R) /\ specs[i].val \notin {"?", "-1", "-", "fault"}
      BY <2>1 DEF Scannable, Options
    <3>2. specs[i] \in R
      <4> HIDE DEF R
      <4> QED
        BY <2>1, <3>1
    <3>3. specs[i].val \in Sign /\ specs[i].requires_argument \in BOOLEAN
      BY <3>2
    <3> QED
      BY <3>1, <3>3
  <2>5. \A x : (needs => x # NULL) => Expected(specs, c, x)
    BY <2>1 DEF Expected
  <2> DEFINE option_ == longs[match]
  <2>6. a = CASE ~needs /\ equals # {} -> BADCH(next)
              [] ~needs /\ equals = {} -> Answer(c, NULL, next)
              [] needs /\ equals # {} -> Answer(c, value, next)
              [] OTHER -> IF Word(next.optind) = NULL THEN BADCH(next)
                          ELSE Answer(c, Word(next.optind), more)
    <3>1. option_.val = c /\ option_.has_arg = IF needs THEN required_argument ELSE no_argument
      BY <2>2
    <3>2. a = CASE option_.has_arg = no_argument /\ equals # {} -> BADCH(next)
                [] option_.has_arg = required_argument /\ equals = {} ->
                     IF Word(next.optind) = NULL THEN BADCH(next)
                     ELSE Answer(option_.val, Word(next.optind), more)
                [] option_.has_arg \in {required_argument, optional_argument} /\ equals # {} ->
                     Answer(option_.val, value, next)
                [] OTHER -> Answer(option_.val, NULL, next)
      BY <1>2, <2>2
    <3> HIDE DEF option_, option, c, needs, value
    <3>3. CASE needs
      <4>1. option_.has_arg = 1
        BY <3>1, <3>3 DEF required_argument
      <4> QED
        BY <2>4, <3>1, <3>2, <3>3, <4>1 DEF required_argument, no_argument, optional_argument
    <3>4. CASE ~needs
      <4>1. option_.has_arg = 0
        BY <3>1, <3>4 DEF no_argument
      <4> QED
        BY <2>4, <3>1, <3>2, <3>4, <4>1 DEF required_argument, no_argument, optional_argument
    <3> QED
      BY <3>3, <3>4
  <2>7. m = IF equals # {} /\ ~needs THEN Bad
            ELSE IF equals # {} THEN WithText(c, SubSeq(text, e + 1, Len(text)), One(specs, TRUE, s))
            ELSE IF needs
            THEN Argument(c, <<>>, From(argv, WordsLeft(s)), One(specs, TRUE, s), Two(specs, TRUE, s))
            ELSE WithText(c, NULL, One(specs, TRUE, s))
    BY <1>3, <1>7
  <2> HIDE DEF c, needs, longs
  <2>8. CASE equals # {} /\ ~needs
    <3>1. a = BADCH(next) /\ m = Bad
      BY <2>6, <2>7, <2>8
    <3> QED
      BY <3>1, BadAgrees DEF a, m, longs
  <2>9. CASE equals # {} /\ needs
    <3>1. a = Answer(c, value, next) /\ m = WithText(c, value, One(specs, TRUE, s))
      BY <1>5, <2>6, <2>7, <2>9
    <3>2. value \in Text /\ Expected(specs, c, value)
      BY <1>5, <2>5, <2>9, NoWordIsNull DEF Text
    <3> QED
      BY <2>4, <3>1, <3>2, TextAgrees DEF a, m, next, longs
  <2>10. CASE equals = {} /\ ~needs
    <3>1. a = Answer(c, NULL, next) /\ m = WithText(c, NULL, One(specs, TRUE, s)) /\ NULL \in Text
      BY <2>6, <2>7, <2>10 DEF Text
    <3> QED
      BY <2>4, <2>5, <2>10, <3>1, TextAgrees DEF a, m, next, longs
  <2>11. CASE equals = {} /\ needs
    <3> DEFINE own == <<>>
    <3>1. a = IF Word(next.optind) = NULL THEN BADCH(next) ELSE Answer(c, Word(next.optind), more)
      BY <2>6, <2>11
    <3>2. m = Argument(c, own, From(argv, WordsLeft(s)), One(specs, TRUE, s), Two(specs, TRUE, s))
      BY <2>7, <2>11
    <3>3. own \in Seq(Sign) /\ own = <<>> /\ \A x : x # NULL => Expected(specs, c, x)
      BY <2>5
    <3> HIDE DEF own
    <3>4. Agrees(specs, TRUE,
                 IF own # <<>> THEN Answer(c, own, next)
                 ELSE IF Word(next.optind) = NULL THEN BADCH(next)
                 ELSE Answer(c, Word(next.optind), more),
                 Argument(c, own, From(argv, WordsLeft(s)), One(specs, TRUE, s), Two(specs, TRUE, s)))
      BY <2>4, <3>3, ArgumentAgrees DEF next, more
    <3> QED
      BY <3>1, <3>2, <3>3, <3>4 DEF a, m, longs
  <2> QED
    BY <2>4, <2>8, <2>9, <2>10, <2>11
<1> QED
  BY <1>6, <1>7

LongsOf(specs, long, beyond) == IF long THEN as_long_options(specs) \o beyond ELSE <<>>

\* A letter of getopt() is none of its own signs.
LEMMA LettersAreSigns ==
  ASSUME NEW specs, Options(specs), NEW c
  PROVE  /\ Wants(as_getopt_string(specs), c) =>
              Lists(as_getopt_string(specs), c) /\ \A text : text # NULL => Expected(specs, c, text)
         /\ Lists(as_getopt_string(specs), c) => c \in Sign /\ c \notin {"?", "-1", "-", "fault"}
         /\ IsFlag(specs, c) => \A text : Expected(specs, c, text)
<1> DEFINE R == [val : Sign, short : BOOLEAN, long_name : Seq(Sign), requires_argument : BOOLEAN]
<1>1. ASSUME NEW arg \in BOOLEAN, <<c, arg>> \in as_getopt_string(specs)
      PROVE  /\ c \in Sign /\ c \notin {"?", "-1", "-", "fault"}
             /\ \A text : (arg => text # NULL) => Expected(specs, c, text)
  <2>1. PICK i \in DOMAIN specs : <<c, arg>> = <<specs[i].val, specs[i].requires_argument>>
    BY <1>1 DEF as_getopt_string
  <2>2. specs \in Seq(R) /\ specs[i].val \notin {"?", "-1", "-", "fault"}
    BY DEF Options
  <2>3. specs[i] \in R
    <3> HIDE DEF R
    <3> QED
      BY <2>2
  <2>4. specs[i].val \in Sign
    BY <2>3
  <2>5. \A text : (arg => text # NULL) => Expected(specs, c, text)
    BY <2>1 DEF Expected
  <2> QED
    BY <2>1, <2>2, <2>4, <2>5
<1>2. Wants(as_getopt_string(specs), c) =>
        Lists(as_getopt_string(specs), c) /\ \A text : text # NULL => Expected(specs, c, text)
  BY <1>1 DEF Wants, Lists
<1>3. Lists(as_getopt_string(specs), c) => c \in Sign /\ c \notin {"?", "-1", "-", "fault"}
  BY <1>1 DEF Lists
<1>4. IsFlag(specs, c) => \A text : Expected(specs, c, text)
  <2> HAVE IsFlag(specs, c)
  <2>1. <<c, FALSE>> \in as_getopt_string(specs)
    BY DEF IsFlag, Lists, Wants
  <2> QED
    BY <1>1, <2>1
<1> QED
  BY <1>2, <1>3, <1>4

\* An option letter.
LEMMA LetterAgrees ==
  ASSUME NEW specs, NEW long, Scannable(specs, long), NEW s \in InWord, s.place # <<>>,
         ~(long /\ s.place[1] = "-")
  PROVE  Agrees(specs, long, OptionLetter(as_getopt_string(specs), s), Ahead(specs, long, s))
<1> DEFINE options == as_getopt_string(specs)
           c == Head(s.place)
           rest == Tail(s.place)
           next == NextWord(s)
           ws == From(argv, WordsLeft(s))
           one == One(specs, long, s)
           two == Two(specs, long, s)
           this == IF rest = EMSG THEN next ELSE [s EXCEPT !.place = rest]
           a == OptionLetter(options, s)
           m == LettersMeaning(specs, long, s.place, ws, one, two)
<1>1. s.place \in Seq(Sign) /\ c = s.place[1] /\ rest \in Seq(Sign) /\ EMSG = <<>>
  BY DEF InWord, EMSG
<1>2. Ahead(specs, long, s) = m
  BY <1>1 DEF Ahead, InWord
<1>3. Around(specs, ws, one, two) /\ ws = SubSeq(argv, s.optind, Len(argv))
  BY ScanIsAround
<1>4. a = CASE ~Lists(options, c) /\ c = "-" /\ rest = EMSG -> Done([s EXCEPT !.place = EMSG])
            [] ~Lists(options, c) /\ ~(c = "-" /\ rest = EMSG) -> BADCH(this)
            [] Lists(options, c) /\ ~Wants(options, c) -> Answer(c, NULL, this)
            [] Wants(options, c) /\ rest # EMSG -> Answer(c, rest, next)
            [] OTHER -> IF Word(next.optind) = NULL THEN BADCH(next)
                        ELSE Answer(c, Word(next.optind), [next EXCEPT !.optind = @ + 1])
  BY DEF OptionLetter, NextWord
<1>5. /\ Wants(options, c) => Lists(options, c) /\ \A text : text # NULL => Expected(specs, c, text)
      /\ Lists(options, c) => c \in Sign /\ c \notin {"?", "-1", "-", "fault"}
      /\ Lists(options, c) /\ ~Wants(options, c) => \A text : Expected(specs, c, text)
  BY LettersAreSigns DEF Scannable, IsFlag
<1>6. ASSUME ~(Lists(options, c) /\ ~Wants(options, c))
      PROVE  m = IF s.place = <<"-">> THEN Ends(ws)
                 ELSE IF Wants(options, c) THEN Argument(c, rest, ws, one, two) ELSE Bad
  <2>1. m = OptionMeaning(specs, long, s.place, ws, one, two)
    BY <1>1, <1>3, <1>6, LettersOption DEF IsFlag
  <2> QED
    BY <1>1, <2>1 DEF OptionMeaning
<1>7. s.place = <<"-">> <=> c = "-" /\ rest = EMSG
  <2>1. ASSUME rest = <<>> PROVE s.place = <<s.place[1]>>
    <3>1. Len(s.place) = 1
      <4>1. Len(s.place) \in Nat /\ Len(s.place) # 0
        BY <1>1, EmptySeq, LenProperties
      <4>2. Len(rest) = Len(s.place) - 1 /\ Len(rest) = 0
        BY <1>1, <2>1, HeadTailProperties
      <4> QED
        BY <4>1, <4>2
    <3> QED
      BY <1>1, <3>1
  <2>2. s.place = <<"-">> => s.place[1] = "-" /\ rest = <<>>
    OBVIOUS
  <2> QED
    BY <1>1, <2>1, <2>2
<1> HIDE DEF options, c, rest, next, ws, one, two, this, a, m
<1>8. CASE Lists(options, c) /\ ~Wants(options, c)
  <2>1. a = Answer(c, NULL, this)
    BY <1>4, <1>8
  <2>2. /\ rest = <<>> => m = WithText(c, NULL, one)
        /\ rest # <<>> => m = WithText(c, NULL, LettersMeaning(specs, long, rest, ws, one, two))
    <3> DEFINE letters == s.place
    <3>1. letters \in Seq(Sign) /\ letters # <<>> /\ IsFlag(specs, letters[1])
      BY <1>1, <1>8 DEF IsFlag, options
    <3>2. c = letters[1] /\ rest = RestOf(letters)
      BY <1>1 DEF rest, RestOf
    <3> HIDE DEF letters
    <3>3. LET n == LettersMeaning(specs, long, letters, ws, one, two)
          IN /\ RestOf(letters) = <<>> => n = WithText(letters[1], NULL, one)
             /\ RestOf(letters) # <<>> =>
                  n = WithText(letters[1], NULL,
                               LettersMeaning(specs, long, RestOf(letters), ws, one, two))
      <4>1. Around(specs, ws, one, two)
        BY <1>3
      <4> QED
        BY <3>1, <4>1, LettersFlag
    <3> QED
      BY <3>2, <3>3 DEF letters, m
  <2>3. CASE rest = <<>>
    <3>1. a = Answer(c, NULL, next) /\ m = WithText(c, NULL, one) /\ NULL \in Text
      BY <1>1, <2>1, <2>2, <2>3 DEF this, Text
    <3> QED
      BY <1>2, <1>5, <1>8, <3>1, TextAgrees DEF a, next, one, options
  <2>4. CASE rest # <<>>
    <3>1. this = [s EXCEPT !.place = rest]
      BY <1>1, <2>4 DEF this
    <3>2. this \in InWord /\ this.optind = s.optind /\ this.place = rest /\ ~this.optreset
      BY <1>1, <3>1 DEF InWord
    <3>3. Scanning(this)
      <4>1. Len(argv) \in Nat
        BY DEF Scannable
      <4>2. this \in [optind : 1 .. Len(argv) + 1, optreset : BOOLEAN, place : Seq(Sign)]
            /\ this.optind \in 1 .. Len(argv)
        <5>1. \A o \in 1 .. Len(argv) : o \in 1 .. Len(argv) + 1
          BY <4>1
        <5> QED
          BY <3>2, <5>1 DEF InWord
      <4>3. this.optind <= Len(argv)
        BY <4>1, <4>2
      <4> QED
        BY <4>2, <4>3 DEF Scanning
    <3>4. Ahead(specs, long, this) = LettersMeaning(specs, long, rest, ws, one, two)
      <4>1. WordsLeft(this) = WordsLeft(s)
        BY <3>2 DEF WordsLeft
      <4> QED
        BY <1>1, <2>4, <3>2, <4>1 DEF Ahead, One, Two, one, two, ws
    <3>5. a.ch = c /\ a.optarg = NULL /\ a.scan = this
      BY <2>1 DEF Answer
    <3>6. m = WithText(c, NULL, Ahead(specs, long, this)) /\ NULL \in Text
      BY <2>2, <2>4, <3>4 DEF Text
    <3>7. Agrees(specs, long, a, m)
      BY <1>5, <1>8, <3>3, <3>5, <3>6 DEF Agrees
    <3> QED
      BY <1>2, <3>7 DEF a, options
  <2> QED
    BY <2>3, <2>4
<1>9. CASE Wants(options, c)
  <2>1. m = Argument(c, rest, ws, one, two)
    BY <1>5, <1>6, <1>7, <1>9
  <2>2. a = IF rest # <<>> THEN Answer(c, rest, next)
            ELSE IF Word(next.optind) = NULL THEN BADCH(next)
            ELSE Answer(c, Word(next.optind), [next EXCEPT !.optind = @ + 1])
    BY <1>1, <1>4, <1>5, <1>9
  <2>3. /\ c \in Sign /\ c \notin {"?", "-1", "fault"} /\ rest \in Seq(Sign)
        /\ \A text : text # NULL => Expected(specs, c, text)
    BY <1>1, <1>5, <1>9
  <2>4. Agrees(specs, long,
               IF rest # <<>> THEN Answer(c, rest, next)
               ELSE IF Word(next.optind) = NULL THEN BADCH(next)
               ELSE Answer(c, Word(next.optind), [next EXCEPT !.optind = @ + 1]),
               Argument(c, rest, ws, one, two))
    BY <2>3, ArgumentAgrees DEF next, ws, one, two
  <2> QED
    BY <1>2, <2>1, <2>2, <2>4 DEF a, options
<1>10. CASE ~Lists(options, c) /\ c = "-" /\ rest = EMSG
  <2>1. a = Done([s EXCEPT !.place = EMSG])
    BY <1>4, <1>10
  <2>2. m = Ends(SubSeq(argv, s.optind, Len(argv)))
    BY <1>3, <1>6, <1>7, <1>10
  <2>3. [s EXCEPT !.place = EMSG] \in [optind : 1 .. Len(argv) + 1, optreset : {FALSE}, place : {EMSG}]
        /\ [s EXCEPT !.place = EMSG].optind = s.optind
    <3>1. \A o \in 1 .. Len(argv) : o \in 1 .. Len(argv) + 1
      <4>1. Len(argv) \in Nat
        BY DEF Scannable
      <4> QED
        BY <4>1
    <3> QED
      BY <3>1 DEF InWord
  <2>4. Agrees(specs, long, a, m)
    BY <2>1, <2>2, <2>3 DEF Agrees, Done, Answer
  <2> QED
    BY <1>2, <2>4 DEF a, options
<1>11. CASE ~Lists(options, c) /\ ~(c = "-" /\ rest = EMSG)
  <2>1. a = BADCH(this) /\ m = Bad
    BY <1>4, <1>5, <1>6, <1>7, <1>11
  <2> QED
    BY <1>2, <2>1, BadAgrees DEF a, options
<1> QED
  BY <1>5, <1>8, <1>9, <1>10, <1>11

\* Whatever is in a word behind its first letters.
LEMMA OptionAgrees ==
  ASSUME NEW specs, NEW long, Scannable(specs, long), NEW beyond \in Seq(Entry),
         NEW s \in InWord, s.place # <<>>
  PROVE  Agrees(specs, long, Option(as_getopt_string(specs), LongsOf(specs, long, beyond), s),
                Ahead(specs, long, s))
<1>1. s.place \in Seq(Sign) /\ Head(s.place) = s.place[1] /\ Tail(s.place) \in Seq(Sign) /\ EMSG = <<>>
  BY DEF InWord, EMSG
<1>2. LongsOf(specs, long, beyond) # <<>> <=> long
  <2>1. long => as_long_options(specs) \o beyond # <<>>
    <3> HAVE long
    <3> DEFINE R == [val : Sign, short : BOOLEAN, long_name : Seq(Sign), requires_argument : BOOLEAN]
    <3>1. specs # <<>> /\ specs \in Seq(R)
      BY DEF Scannable, Options
    <3> HIDE DEF R
    <3>2. DOMAIN specs # {}
      <4>1. Len(specs) \in Nat /\ Len(specs) # 0 /\ DOMAIN specs = 1 .. Len(specs)
        BY <3>1, EmptySeq, LenProperties
      <4>2. 1 \in DOMAIN specs
        BY <4>1
      <4> QED
        BY <4>2
    <3>3. PICK i \in DOMAIN specs : TRUE
      BY <3>2
    <3>4. i \in DOMAIN (as_long_options(specs) \o beyond)
      <4>1. Scannable(specs, TRUE)
        BY DEF Scannable
      <4> QED
        BY <3>3, <4>1, TableGoesOn
    <3> QED
      BY <3>4
  <2>2. long \in BOOLEAN
    BY DEF Scannable
  <2> QED
    BY <2>1, <2>2 DEF LongsOf
<1>3. CASE ~(long /\ s.place[1] = "-")
  <2>1. Option(as_getopt_string(specs), LongsOf(specs, long, beyond), s) = OptionLetter(as_getopt_string(specs), s)
    BY <1>1, <1>2, <1>3 DEF Option
  <2> QED
    BY <1>3, <2>1, LetterAgrees
<1>4. CASE long /\ s.place[1] = "-"
  <2>1. long = TRUE
    BY <1>4 DEF Scannable
  <2>2. Option(as_getopt_string(specs), LongsOf(specs, long, beyond), s) =
          parse_long_options(Tail(s.place), as_long_options(specs) \o beyond, s)
    BY <1>1, <1>2, <1>4 DEF Option, LongsOf
  <2>3. ~IsFlag(specs, s.place[1])
    BY <1>4, LettersAreSigns DEF IsFlag, Scannable
  <2>4. Ahead(specs, long, s) = LongMeaning(specs, Tail(s.place), From(argv, WordsLeft(s)),
                                            One(specs, long, s), Two(specs, long, s))
    <3>1. Around(specs, From(argv, WordsLeft(s)), One(specs, long, s), Two(specs, long, s))
      BY ScanIsAround
    <3>2. Ahead(specs, long, s) =
            OptionMeaning(specs, long, s.place, From(argv, WordsLeft(s)),
                          One(specs, long, s), Two(specs, long, s))
      BY <1>1, <2>3, <3>1, LettersOption DEF Ahead, InWord
    <3> QED
      BY <1>4, <3>2 DEF OptionMeaning
  <2>5. Agrees(specs, TRUE, parse_long_options(Tail(s.place), as_long_options(specs) \o beyond, s),
               LongMeaning(specs, Tail(s.place), From(argv, WordsLeft(s)), One(specs, TRUE, s), Two(specs, TRUE, s)))
    BY <1>1, <2>1, LongAgrees
  <2> QED
    BY <2>1, <2>2, <2>4, <2>5
<1> QED
  BY <1>3, <1>4

\* One call of getopt(), or of getopt_long().
LEMMA CallAgrees ==
  ASSUME NEW specs, NEW long, Scannable(specs, long), NEW beyond \in Seq(Entry), Scanning(scan)
  PROVE  Agrees(specs, long, getopt_internal(as_getopt_string(specs), LongsOf(specs, long, beyond)),
                Ahead(specs, long, scan))
<1> DEFINE options == as_getopt_string(specs)
           longs == LongsOf(specs, long, beyond)
           s == [scan EXCEPT !.optreset = FALSE]
           o == scan.optind
           word == Word(o)
           k == WordsLeft(scan)
           ws == From(argv, k)
           a == getopt_internal(options, longs)
           m == Ahead(specs, long, scan)
           ended == [s EXCEPT !.place = EMSG]
           skipped == [s EXCEPT !.optind = @ + 1, !.place = EMSG]
           inside == [s EXCEPT !.place = Tail(word)]
<1>1. /\ Len(argv) \in Nat /\ argv \in Seq(Seq(Sign)) /\ Options(specs)
      /\ \A i \in DOMAIN argv : argv[i] # NULL
  BY DEF Scannable
<1>2. PICK r \in BOOLEAN, p \in Seq(Sign) : scan = [optind |-> o, optreset |-> r, place |-> p]
  BY DEF Scanning
<1>3. o \in 1 .. Len(argv) + 1 /\ k = Len(argv) - o + 1 /\ k \in 0 .. Len(argv)
  BY <1>1 DEF Scanning, WordsLeft
<1>4. EMSG = <<>> /\ EMSG \in Seq(Sign)
  BY DEF EMSG
<1>5. /\ s = [optind |-> o, optreset |-> FALSE, place |-> p]
      /\ ended = [optind |-> o, optreset |-> FALSE, place |-> EMSG]
      /\ skipped = [optind |-> o + 1, optreset |-> FALSE, place |-> EMSG]
      /\ inside = [optind |-> o, optreset |-> FALSE, place |-> Tail(word)]
  <2> DEFINE f == FALSE
             w == Tail(word)
             q == o + 1
  <2>0. s = [scan EXCEPT !.optreset = f]
    OBVIOUS
  <2>1. s = [optind |-> o, optreset |-> f, place |-> p]
    <3> HIDE DEF s, o, f
    <3> QED
      BY <1>2, <2>0
  <2>2. skipped = [s EXCEPT !.optind = q, !.place = EMSG]
    <3> HIDE DEF s
    <3> QED
      BY <2>1
  <2> HIDE DEF f, w, q, s, o
  <2>5. ended = [optind |-> o, optreset |-> f, place |-> EMSG]
    BY <2>1
  <2>6. inside = [optind |-> o, optreset |-> f, place |-> w]
    <3>1. inside = [s EXCEPT !.place = w]
      BY DEF w
    <3> HIDE DEF inside
    <3> QED
      BY <2>1, <3>1
  <2>4. skipped = [optind |-> q, optreset |-> f, place |-> EMSG]
    <3> DEFINE n == [s EXCEPT !.optind = q]
    <3>1. [s EXCEPT !.optind = q, !.place = EMSG] = [n EXCEPT !.place = EMSG]
      OBVIOUS
    <3>2. n = [optind |-> q, optreset |-> f, place |-> p]
      BY <2>1
    <3> HIDE DEF n
    <3> QED
      BY <2>2, <3>1, <3>2
  <2> QED
    BY <2>1, <2>4, <2>5, <2>6 DEF f, w, q, s, o
<1>6. a = IF ~scan.optreset /\ scan.place # EMSG THEN Option(options, longs, s)
          ELSE CASE word = NULL -> Done(ended)
                 [] word # NULL /\ (word = EMSG \/ Head(word) # "-" \/ Len(word) = 1) -> Done(ended)
                 [] word = <<"-", "-">> -> Done(skipped)
                 [] OTHER -> Option(options, longs, inside)
  <2>1. s.optind = o
    BY <1>5
  <2> QED
    BY <2>1 DEF getopt_internal
<1>9. /\ NULL # <<"-", "-">> /\ IsOption(<<"-", "-">>)
  BY DEF NULL, IsOption
<1> HIDE DEF options, longs, s, o, word, k, ws, a, m, ended, skipped, inside
<1>7. CASE ~scan.optreset /\ scan.place # EMSG
  <2>1. s = scan /\ scan \in InWord
    <3>1. r = FALSE /\ o \in 1 .. Len(argv)
      BY <1>1, <1>2, <1>3, <1>7 DEF Scanning, o
    <3> QED
      BY <1>2, <1>5, <3>1 DEF InWord
  <2>2. a = Option(options, longs, scan)
    BY <1>6, <1>7, <2>1
  <2> QED
    BY <1>4, <1>7, <2>1, <2>2, OptionAgrees DEF a, m, options, longs
<1>8. CASE ~(~scan.optreset /\ scan.place # EMSG)
  <2> DEFINE last == Meanings(specs, long, argv)
  <2>1. m = last[k]
    BY <1>2, <1>8 DEF Ahead, m, k
  <2>2. last[k] = WordMeaning(specs, long, argv, k, last[k - 1], IF k > 1 THEN last[k - 2] ELSE Bad)
    BY <1>1, <1>3, MeaningsGoOn
  <2>3. /\ ended \in [optind : 1 .. Len(argv) + 1, optreset : {FALSE}, place : {EMSG}]
        /\ ended.optind = o
    BY <1>3, <1>5
  <2>4. Agrees(specs, long, Done(ended), Ends(SubSeq(argv, o, Len(argv))))
    BY <2>3 DEF Agrees, Done, Answer
  <2>5. ws = SubSeq(argv, o, Len(argv))
    <3>1. Len(argv) - k + 1 = o
      BY <1>1, <1>3
    <3> QED
      BY <3>1 DEF ws, From
  <2> HIDE DEF last
  <2>6. CASE k = 0
    <3>1. o \notin DOMAIN argv
      BY <1>1, <1>3, <2>6
    <3>2. a = Done(ended)
      <4>1. word = NULL
        BY <3>1 DEF word, Word
      <4> QED
        BY <1>6, <1>8, <1>9, <4>1
    <3>3. m = Ends(ws)
      BY <2>1, <2>2, <2>6 DEF WordMeaning, ws
    <3> QED
      BY <2>4, <2>5, <3>2, <3>3 DEF a, m, options, longs
  <2>7. CASE k > 0
    <3>1. o \in 1 .. Len(argv)
      BY <1>1, <1>3, <2>7
    <3>2. word = argv[o] /\ word # NULL /\ word \in Seq(Sign)
      <4>1. o \in DOMAIN argv /\ argv[o] \in Seq(Sign)
        BY <1>1, <3>1, ElementOfSeq
      <4> QED
        BY <1>1, <4>1 DEF word, Word
    <3>3. ws[1] = word /\ Tail(ws) = SubSeq(argv, o + 1, Len(argv))
      <4>1. k - 1 \in 0 .. Len(argv) /\ Len(argv) - k + 1 = o /\ Len(argv) - (k - 1) + 1 = o + 1
        BY <1>1, <1>3, <2>7
      <4>2. ws[1] = argv[Len(argv) - k + 1] /\ Tail(ws) = From(argv, k - 1)
        BY <1>1, <1>3, <2>7, FromIsWords DEF ws
      <4> QED
        BY <3>2, <4>1, <4>2 DEF From
    <3>4. m = IF ~IsOption(word) THEN Ends(ws)
              ELSE IF word = <<"-", "-">> THEN Ends(Tail(ws))
              ELSE LettersMeaning(specs, long, Tail(word), ws, last[k - 1], IF k > 1 THEN last[k - 2] ELSE Bad)
      BY <2>1, <2>2, <2>7, <3>3 DEF WordMeaning, ws
    <3>5. /\ Len(word) \in Nat /\ (word # <<>> => Head(word) = word[1])
          /\ word = <<>> <=> Len(word) = 0
      BY <3>2, EmptySeq, LenProperties
    <3>6. IsOption(word) <=> ~(word = EMSG \/ Head(word) # "-" \/ Len(word) = 1)
      <4>1. word = EMSG <=> Len(word) = 0
        BY <1>4, <3>5
      <4>2. Len(word) > 1 <=> ~(Len(word) = 0 \/ Len(word) = 1)
        <5>1. \A l \in Nat : l > 1 <=> ~(l = 0 \/ l = 1)
          OBVIOUS
        <5> QED
          BY <3>5, <5>1
      <4>3. Len(word) > 1 => Head(word) = word[1]
        BY <3>5
      <4> QED
        BY <4>1, <4>2, <4>3 DEF IsOption
    <3>7. CASE ~IsOption(word)
      <4>1. a = Done(ended)
        BY <1>6, <1>8, <1>9, <3>2, <3>6, <3>7
      <4>2. m = Ends(ws)
        BY <3>4, <3>7
      <4> QED
        BY <2>4, <2>5, <4>1, <4>2 DEF a, m, options, longs
    <3>8. CASE IsOption(word) /\ word = <<"-", "-">>
      <4>1. a = Done(skipped)
        BY <1>6, <1>8, <3>2, <3>6, <3>8
      <4>2. m = Ends(SubSeq(argv, o + 1, Len(argv)))
        BY <3>3, <3>4, <3>8
      <4>3. /\ skipped \in [optind : 1 .. Len(argv) + 1, optreset : {FALSE}, place : {EMSG}]
            /\ skipped.optind = o + 1
        <5>1. o + 1 \in 1 .. Len(argv) + 1
          BY <1>1, <3>1
        <5> QED
          BY <1>5, <5>1
      <4>4. Agrees(specs, long, Done(skipped), m)
        BY <4>2, <4>3 DEF Agrees, Done, Answer
      <4> QED
        BY <4>1, <4>4 DEF a, m, options, longs
    <3>9. CASE IsOption(word) /\ word # <<"-", "-">>
      <4>1. a = Option(options, longs, inside)
        BY <1>6, <1>8, <3>2, <3>6, <3>9
      <4>2. Tail(word) \in Seq(Sign) /\ Tail(word) # <<>>
        <5>1. Len(word) > 1
          BY <3>9 DEF IsOption
        <5>2. Len(Tail(word)) = Len(word) - 1 /\ Tail(word) \in Seq(Sign)
          BY <3>2, <5>1, EmptySeq, HeadTailProperties
        <5>3. Len(Tail(word)) # 0
          BY <3>5, <5>1, <5>2
        <5> QED
          BY <5>2, <5>3, EmptySeq
      <4>3. inside \in InWord /\ inside.place = Tail(word) /\ inside.place # <<>>
        BY <1>5, <3>1, <4>2 DEF InWord
      <4>4. Agrees(specs, long, a, Ahead(specs, long, inside))
        BY <4>1, <4>3, OptionAgrees DEF options, longs
      <4>5. Ahead(specs, long, inside) = m
        <5>1. WordsLeft(inside) = k
          BY <1>3, <1>5 DEF WordsLeft
        <5>2. inside.optreset = FALSE /\ inside.place # EMSG
          BY <1>4, <1>5, <4>3
        <5>3. Ahead(specs, long, inside) =
                LettersMeaning(specs, long, inside.place, From(argv, WordsLeft(inside)),
                               One(specs, long, inside), Two(specs, long, inside))
          BY <5>2 DEF Ahead
        <5>4. One(specs, long, inside) = last[k - 1]
              /\ Two(specs, long, inside) = IF k > 1 THEN last[k - 2] ELSE Bad
          BY <5>1 DEF One, Two, last
        <5> QED
          BY <3>4, <3>9, <4>3, <5>1, <5>3, <5>4 DEF ws
      <4> QED
        BY <4>4, <4>5 DEF a, m, options, longs
    <3> QED
      BY <3>7, <3>8, <3>9
  <2> QED
    BY <1>3, <2>6, <2>7
<1> QED
  BY <1>7, <1>8

\* What was returned so far, and what is ahead, is what was written.
Own == Meaning(typed.main.specs, FALSE, argv)
Global == Meaning(kv_specs, TRUE, typed.words)
Returned == Seq([ch : Sign, optarg : Text])
Words(words) == words \in Seq(Seq(Sign)) /\ \A i \in DOMAIN words : words[i] # NULL

AsFarAsScanned ==
  /\ stage \in {"unused", "global", "own", "run", "usage", "fault"}
  /\ stage # "unused" /\ ~Global.open =>
       /\ stage # "fault"
       /\ stage \in {"global", "own"} =>
            /\ Words(argv) /\ typed.words \in Seq(Seq(Sign)) /\ typed.main \in Mains /\ Scanning(scan)
            /\ returned \in [global : Returned, own : Returned]
       /\ stage = "global" =>
            /\ argv = typed.words /\ returned.own = <<>>
            /\ Global = Before(returned.global, Ahead(kv_specs, TRUE, scan))
       /\ stage = "own" =>
            /\ ~Global.bad /\ Global.rest # <<>> /\ argv = Tail(Global.rest)
            /\ returned.global = Global.options
            /\ Own = Before(returned.own, Ahead(typed.main.specs, FALSE, scan))
  /\ OptionsAsWritten

\* A stage begins at the first word.
LEMMA FirstWord ==
  ASSUME NEW specs, Options(specs), NEW long, argv \in Seq(Seq(Sign)),
         scan.optind = 1, scan.optreset \/ scan.place = EMSG
  PROVE  /\ Ahead(specs, long, scan) = Meaning(specs, long, argv)
         /\ Meaning(specs, long, argv) \in Meant
<1>1. Len(argv) \in Nat /\ WordsLeft(scan) = Len(argv)
  BY DEF WordsLeft
<1>2. Meanings(specs, long, argv)[Len(argv)] \in Meant
  BY <1>1, MeaningsGoOn
<1> QED
  BY <1>1, <1>2 DEF Ahead, Meaning

LEMMA InitScanned == (GetoptIdle \/ GetoptInit) => AsFarAsScanned
<1>1. GetoptIdle => AsFarAsScanned
  BY DEF GetoptIdle, AsFarAsScanned, OptionsAsWritten
<1>2. ASSUME GetoptInit PROVE AsFarAsScanned
  <2>1. PICK main \in Mains : typed = [words |-> argv, main |-> main]
    BY <1>2 DEF GetoptInit
  <2>2. /\ stage = "global" /\ argv \in Argvs /\ returned = [global |-> <<>>, own |-> <<>>]
        /\ scan = [optind |-> 1, optreset |-> FALSE, place |-> EMSG]
    BY <1>2 DEF GetoptInit
  <2>3. Words(argv)
    <3>1. argv \in Seq(Seq(Sign))
      BY <2>2, GetoptConstants
    <3>2. \A i \in DOMAIN argv : argv[i] \in Seq(Sign)
      <4> DEFINE W == Seq(Sign)
      <4> HIDE DEF W
      <4>1. argv \in Seq(W)
        BY <3>1 DEF W
      <4>2. \A i \in DOMAIN argv : argv[i] \in W
        BY <4>1
      <4> QED
        BY <4>2 DEF W
    <3> QED
      BY <3>1, <3>2, NoWordIsNull DEF Words
  <2>4. Scanning(scan)
    <3>1. 1 \in 1 .. Len(argv) + 1
      BY <2>3 DEF Words
    <3>2. EMSG \in Seq(Sign)
      BY DEF EMSG
    <3> QED
      BY <2>2, <3>1, <3>2 DEF Scanning
  <2>5. Ahead(kv_specs, TRUE, scan) = Global /\ Global \in Meant
    BY <2>1, <2>2, <2>3, FirstWord, GetoptConstants DEF Global, Words
  <2>6. <<>> \in Returned
    BY DEF Returned
  <2>7. Before(<<>>, Global) = Global
    BY <2>5, <2>6, BeforeIsMeant DEF Returned
  <2> QED
    BY <2>1, <2>2, <2>3, <2>4, <2>5, <2>6, <2>7 DEF AsFarAsScanned, OptionsAsWritten, Words
<1> QED
  BY <1>1, <1>2

LEMMA AheadIsMeant ==
  ASSUME NEW specs, NEW long, Scannable(specs, long), NEW s, Scanning(s)
  PROVE  Ahead(specs, long, s) \in Meant
<1>1. /\ Len(argv) \in Nat /\ argv \in Seq(Seq(Sign)) /\ Options(specs)
      /\ WordsLeft(s) \in 0 .. Len(argv)
  BY DEF Scannable, Scanning, WordsLeft
<1>2. CASE s.optreset \/ s.place = EMSG
  BY <1>1, <1>2, MeaningsGoOn DEF Ahead
<1>3. CASE ~(s.optreset \/ s.place = EMSG)
  <2>1. s \in InWord /\ s.place \in Seq(Sign)
    <3>0. /\ s.optind \in 1 .. Len(argv) + 1 /\ s.optreset \in BOOLEAN /\ s.place \in Seq(Sign)
          /\ s.optreset \/ s.place = EMSG \/ s.optind <= Len(argv)
      BY DEF Scanning
    <3>1. s.optind \in 1 .. Len(argv) /\ s.optreset \in {FALSE} /\ s.place \in Seq(Sign)
      <4>1. s.optind <= Len(argv)
        BY <1>3, <3>0
      <4>2. s.optreset = FALSE
        BY <1>3, <3>0, Zenon
      <4>3. s.optind \in 1 .. Len(argv)
        BY <1>1, <3>0, <4>1
      <4> QED
        BY <3>0, <4>2, <4>3
    <3>2. s = [optind |-> s.optind, optreset |-> s.optreset, place |-> s.place]
      BY DEF Scanning
    <3> QED
      BY <3>1, <3>2 DEF InWord
  <2>2. Ahead(specs, long, s) = LettersMeaning(specs, long, s.place, From(argv, WordsLeft(s)),
                                               One(specs, long, s), Two(specs, long, s))
    BY <1>3 DEF Ahead
  <2> QED
    BY <1>1, <1>3, <2>1, <2>2, ScanIsAround, LettersAreMeant DEF EMSG
<1> QED
  BY <1>2, <1>3

\* One option more was returned.
LEMMA OneMore ==
  ASSUME NEW r \in Returned, NEW ch \in Sign, NEW optarg \in Text, NEW more \in Meant
  PROVE  LET x == [ch |-> ch, optarg |-> optarg]
         IN Append(r, x) \in Returned
            /\ Before(r, WithText(ch, optarg, more)) = Before(Append(r, x), more)
<1> DEFINE x == [ch |-> ch, optarg |-> optarg]
<1>1. x \in [ch : Sign, optarg : Text]
  OBVIOUS
<1> HIDE DEF x
<1>2. <<x>> \in Returned /\ Append(r, x) = r \o <<x>> /\ Append(r, x) \in Returned
  BY <1>1 DEF Returned
<1>3. WithText(ch, optarg, more) = Before(<<x>>, more)
  BY DEF WithText, x
<1>4. Before(r, Before(<<x>>, more)) = Before(r \o <<x>>, more)
  BY <1>2, BeforeTwice DEF Returned
<1> QED
  BY <1>2, <1>3, <1>4 DEF x

\* Nothing but the words that are left.
LEMMA NothingAhead ==
  ASSUME NEW r \in Returned, NEW ws \in Seq(Seq(Sign))
  PROVE  /\ Before(r, Ends(ws)).options = r /\ Before(r, Ends(ws)).rest = ws
         /\ ~Before(r, Ends(ws)).bad
<1>1. Ends(ws) \in Meant /\ Ends(ws).options = <<>> /\ Ends(ws).rest = ws /\ ~Ends(ws).bad
  BY EndsIsMeant DEF Ends
<1>2. r \o <<>> = r
  BY DEF Returned
<1> QED
  BY <1>1, <1>2, BeforeIsMeant DEF Returned

LEMMA BadAhead ==
  ASSUME NEW r \in Returned, NEW more \in Meant, more.bad
  PROVE  Before(r, more).bad
BY BeforeIsMeant DEF Returned

LEMMA FromProgram == ASSUME Words(argv) PROVE Scannable(kv_specs, TRUE)
BY GetoptConstants DEF Scannable, Words

LEMMA FromNettest ==
  ASSUME Words(argv), NEW main \in Mains PROVE Scannable(main.specs, FALSE)
BY GetoptConstants DEF Scannable, Words

\* What there was to scan when the scan ends.
LEMMA WordsAreLeft ==
  ASSUME Words(argv), NEW i \in 1 .. Len(argv) + 1
  PROVE  LET left == SubSeq(argv, i, Len(argv))
         IN /\ Words(left) /\ Len(left) = Len(argv) - i + 1
            /\ left = <<>> <=> i > Len(argv)
            /\ i <= Len(argv) => Tail(left) = SubSeq(argv, i + 1, Len(argv)) /\ Words(Tail(left))
<1> DEFINE left == SubSeq(argv, i, Len(argv))
<1>1. argv \in Seq(Seq(Sign)) /\ Len(argv) \in Nat /\ \A j \in 1 .. Len(argv) : argv[j] # NULL
  BY DEF Words
<1>2. /\ left \in Seq(Seq(Sign)) /\ Len(left) = Len(argv) - i + 1
      /\ \A j \in 1 .. Len(left) : left[j] = argv[i + j - 1]
  BY <1>1
<1> HIDE DEF left
<1>3. Words(left)
  <2>1. \A j \in 1 .. Len(left) : i + j - 1 \in 1 .. Len(argv)
    BY <1>1, <1>2
  <2>2. \A j \in DOMAIN left : left[j] # NULL
    <3>1. DOMAIN left = 1 .. Len(left)
      BY <1>2, LenProperties
    <3> QED
      BY <1>1, <1>2, <2>1, <3>1
  <2> QED
    BY <1>2, <2>2 DEF Words
<1>4. left = <<>> <=> Len(left) = 0
  BY <1>2, EmptySeq
<1>5. ASSUME i <= Len(argv)
      PROVE  Tail(left) = SubSeq(argv, i + 1, Len(argv)) /\ Words(Tail(left))
  <2>1. Tail(left) = SubSeq(argv, i + 1, Len(argv))
    BY <1>1, <1>5 DEF left
  <2>2. /\ Tail(left) \in Seq(Seq(Sign)) /\ Len(Tail(left)) = Len(left) - 1
        /\ \A j \in 1 .. Len(Tail(left)) : Tail(left)[j] = left[j + 1]
    BY <1>2, <1>4, <1>5, HeadTailProperties
  <2>3. \A j \in 1 .. Len(Tail(left)) : j + 1 \in 1 .. Len(left)
    BY <1>2, <2>2
  <2>4. \A j \in DOMAIN Tail(left) : Tail(left)[j] # NULL
    BY <1>2, <1>3, <2>2, <2>3 DEF Words
  <2> QED
    BY <2>1, <2>2, <2>4 DEF Words
<1> QED
  BY <1>2, <1>3, <1>4, <1>5 DEF left

LEMMA GlobalScanGoesOn ==
  ASSUME AsFarAsScanned, GlobalScan
  PROVE  AsFarAsScanned'
<1>10. CASE Global.open
  <2>1. stage' \in {"global", "own", "usage", "fault"} /\ typed' = typed
    BY DEF GlobalScan, Usage, Fault, NextStage, Take
  <2> QED
    BY <1>10, <2>1 DEF AsFarAsScanned, OptionsAsWritten, Global
<1>11. SUFFICES ASSUME ~Global.open PROVE AsFarAsScanned'
  BY <1>10
<1>12. PICK beyond \in Beyond :
         LET b == getopt_long(beyond)
         IN CASE b.ch = "-1" -> IF b.scan.optind > Len(argv) THEN Usage ELSE NextStage(b.scan)
              [] b.ch = "fault" \/ (Uses(b.ch) /\ b.optarg = NULL) -> Fault
              [] Known(b.ch) /\ ~(Uses(b.ch) /\ b.optarg = NULL) -> Take(b)
              [] OTHER -> Usage
  BY DEF GlobalScan
<1> DEFINE a == getopt_long(beyond)
           ahead == Ahead(kv_specs, TRUE, scan)
           left == SubSeq(argv, a.scan.optind, Len(argv))
           main == typed.main
<1>1. /\ stage = "global" /\ Words(argv) /\ typed.words \in Seq(Seq(Sign)) /\ main \in Mains
      /\ Scanning(scan) /\ returned \in [global : Returned, own : Returned]
      /\ argv = typed.words /\ returned.own = <<>> /\ Global = Before(returned.global, ahead)
      /\ returned.global \in Returned
  BY <1>11 DEF GlobalScan, AsFarAsScanned
<1>2. Scannable(kv_specs, TRUE) /\ Agrees(kv_specs, TRUE, a, ahead)
  <2>1. beyond \in Seq(Entry)
    BY <1>12, GetoptConstants DEF Entry
  <2> QED
    BY <1>1, <2>1, FromProgram, CallAgrees DEF getopt_long, LongsOf
<1>3. ahead \in Meant /\ ~ahead.open
  <2>1. ahead \in Meant
    BY <1>1, <1>2, AheadIsMeant
  <2> QED
    BY <1>1, <1>11, <2>1, BeforeIsMeant DEF Returned
<1>4. Len(argv) \in Nat
  BY <1>1 DEF Words
<1>5. \/ a.ch = "?" /\ Usage
      \/ a.ch = "-1" /\ (IF a.scan.optind > Len(argv) THEN Usage ELSE NextStage(a.scan))
      \/ a.ch \notin {"?", "-1"} /\ Take(a)
  <2> HIDE DEF a, ahead, left, main
  <2>1. CASE a.ch = "-1"
    <3>1. ~Known(a.ch) /\ ~Uses(a.ch) /\ a.ch # "fault"
      BY <2>1, GetoptConstants DEF Options, Known, Uses
    <3> QED
      BY <1>12, <2>1, <3>1 DEF a
  <2>2. CASE a.ch = "?"
    <3>1. ~Known(a.ch) /\ ~Uses(a.ch) /\ a.ch # "fault"
      BY <2>2, GetoptConstants DEF Options, Known, Uses
    <3> QED
      BY <1>12, <2>2, <3>1 DEF a
  <2>3. CASE a.ch \notin {"?", "-1"}
    <3>1. a.ch # "fault" /\ Expected(kv_specs, a.ch, a.optarg)
      BY <1>2, <1>3, <2>3 DEF Agrees
    <3>2. PICK i \in DOMAIN kv_specs :
            kv_specs[i].val = a.ch /\ (kv_specs[i].requires_argument => a.optarg # NULL)
      BY <3>1 DEF Expected
    <3>3. Known(a.ch) /\ ~(Uses(a.ch) /\ a.optarg = NULL)
      BY <3>2, GetoptConstants DEF Known, Uses
    <3> QED
      BY <1>12, <2>3, <3>1, <3>3 DEF a
  <2> QED
    BY <2>1, <2>2, <2>3
<1> HIDE DEF a, ahead, left, main
<1>6. ASSUME Usage, Global.bad \/ Global.rest = <<>> PROVE AsFarAsScanned'
  BY <1>6 DEF Usage, AsFarAsScanned, OptionsAsWritten, Global
<1>7. CASE a.ch = "?" /\ Usage
  <2>1. ahead.bad
    BY <1>2, <1>3, <1>7 DEF Agrees
  <2>2. Global.bad
    BY <1>1, <1>3, <2>1, BadAhead
  <2> QED
    BY <1>6, <1>7, <2>2
<1>8. CASE a.ch = "-1" /\ (IF a.scan.optind > Len(argv) THEN Usage ELSE NextStage(a.scan))
  <2>1. /\ ahead = Ends(left)
        /\ a.scan \in [optind : 1 .. Len(argv) + 1, optreset : {FALSE}, place : {EMSG}]
        /\ a.scan.optind \in 1 .. Len(argv) + 1
    BY <1>2, <1>3, <1>8 DEF Agrees, left
  <2>2. /\ Words(left) /\ (left = <<>> <=> a.scan.optind > Len(argv))
        /\ a.scan.optind <= Len(argv) =>
             Tail(left) = SubSeq(argv, a.scan.optind + 1, Len(argv)) /\ Words(Tail(left))
    BY <1>1, <2>1, WordsAreLeft DEF left
  <2>3. Global.options = returned.global /\ Global.rest = left /\ ~Global.bad
    BY <1>1, <2>1, <2>2, NothingAhead DEF Words
  <2>4. CASE a.scan.optind > Len(argv)
    BY <1>6, <1>8, <2>2, <2>3, <2>4
  <2>5. CASE ~(a.scan.optind > Len(argv))
    <3>1. /\ stage' = "own" /\ scan' = Reset(a.scan) /\ typed' = typed /\ returned' = returned
          /\ argv' = Tail(left) /\ left # <<>> /\ Words(Tail(left))
      <4>1. a.scan.optind <= Len(argv)
        BY <1>4, <2>1, <2>5
      <4>2. NextStage(a.scan)
        BY <1>8, <2>5
      <4>3. argv' = Tail(left) /\ left # <<>> /\ Words(Tail(left))
        BY <2>2, <2>5, <4>1, <4>2 DEF NextStage
      <4> QED
        BY <4>2, <4>3 DEF NextStage
    <3>2. scan' = [optind |-> 1, optreset |-> TRUE, place |-> EMSG]
      <4> DEFINE t == TRUE
                 f == FALSE
                 s == a.scan
                 o == s.optind
                 m == [s EXCEPT !.optreset = t]
      <4>1. s = [optind |-> o, optreset |-> f, place |-> EMSG]
        BY <2>1
      <4>2. scan' = [m EXCEPT !.optind = 1]
        <5>1. Reset(s) = [s EXCEPT !.optreset = TRUE, !.optind = 1]
          BY DEF Reset
        <5>2. [s EXCEPT !.optreset = TRUE, !.optind = 1] = [m EXCEPT !.optind = 1]
          OBVIOUS
        <5> QED
          BY <3>1, <5>1, <5>2
      <4> HIDE DEF t, f, s, o
      <4>3. m = [optind |-> o, optreset |-> t, place |-> EMSG]
        BY <4>1
      <4> HIDE DEF m
      <4>4. scan' = [optind |-> 1, optreset |-> t, place |-> EMSG]
        BY <4>2, <4>3
      <4> QED
        BY <4>4 DEF t
    <3>3. Words(argv)' /\ Scanning(scan)'
      <4>1. Words(argv')
        BY <3>1
      <4>2. 1 \in 1 .. Len(argv') + 1 /\ EMSG \in Seq(Sign)
        BY <4>1 DEF Words, EMSG
      <4> QED
        BY <3>2, <4>1, <4>2 DEF Scanning, Words
    <3>4. Own' = Before(returned.own, Ahead(typed.main.specs, FALSE, scan))'
      <4>1. Options(main.specs)
        BY <1>1, GetoptConstants
      <4>2. /\ Ahead(main.specs, FALSE, scan)' = Own' /\ Own' \in Meant
        <5>1. Len(argv') \in Nat /\ argv' \in Seq(Seq(Sign))
          BY <3>3 DEF Words
        <5>2. Len(argv') - 1 + 1 = Len(argv')
          BY <5>1
        <5>3. Meanings(main.specs, FALSE, argv')[Len(argv')] \in Meant
          <6>1. \A words \in Seq(Seq(Sign)) :
                  Len(words) \in Nat => Meanings(main.specs, FALSE, words)[Len(words)] \in Meant
            <7> TAKE words \in Seq(Seq(Sign))
            <7> HAVE Len(words) \in Nat
            <7>1. Len(words) \in 0 .. Len(words)
              OBVIOUS
            <7> QED
              BY <4>1, <7>1, MeaningsGoOn
          <6> QED
            BY <5>1, <6>1
        <5>4. Ahead(main.specs, FALSE, scan)' = Meanings(main.specs, FALSE, argv')[Len(argv')]
          BY <3>1, <3>2, <5>2 DEF Ahead, WordsLeft, main
        <5>5. Own' = Meanings(main.specs, FALSE, argv')[Len(argv')]
          BY <3>1 DEF Own, Meaning, main
        <5> QED
          BY <5>3, <5>4, <5>5
      <4>3. returned'.own = <<>> /\ <<>> \in Returned
        BY <1>1, <3>1 DEF Returned
      <4>4. Before(<<>>, Own') = Own'
        BY <4>2, <4>3, BeforeIsMeant DEF Returned
      <4> QED
        BY <4>2, <4>3, <4>4 DEF main
    <3>5. Global' = Global
      BY <3>1 DEF Global
    <3>6. OptionsAsWritten'
      BY <3>1 DEF OptionsAsWritten
    <3> QED
      BY <1>1, <2>3, <3>1, <3>3, <3>4, <3>5, <3>6 DEF AsFarAsScanned, main
  <2> QED
    BY <2>4, <2>5
<1>9. CASE a.ch \notin {"?", "-1"} /\ Take(a)
  <2>1. /\ a.ch \in Sign /\ a.optarg \in Text /\ Scanning(a.scan)
        /\ ahead = WithText(a.ch, a.optarg, Ahead(kv_specs, TRUE, a.scan))
    BY <1>2, <1>3, <1>9 DEF Agrees
  <2>2. /\ scan' = a.scan /\ argv' = argv /\ stage' = stage /\ typed' = typed
        /\ returned' = [returned EXCEPT !.global = Append(@, [ch |-> a.ch, optarg |-> a.optarg])]
    BY <1>1, <1>9 DEF Take
  <2>3. /\ Append(returned.global, [ch |-> a.ch, optarg |-> a.optarg]) \in Returned
        /\ Global = Before(Append(returned.global, [ch |-> a.ch, optarg |-> a.optarg]),
                           Ahead(kv_specs, TRUE, a.scan))
    BY <1>1, <1>2, <2>1, AheadIsMeant, OneMore
  <2>4. /\ returned' \in [global : Returned, own : Returned] /\ returned'.own = <<>>
        /\ returned'.global = Append(returned.global, [ch |-> a.ch, optarg |-> a.optarg])
    BY <1>1, <2>2, <2>3
  <2>5. Ahead(kv_specs, TRUE, scan)' = Ahead(kv_specs, TRUE, a.scan)
    BY <2>2 DEF Ahead, One, Two, WordsLeft
  <2>6. Words(argv)' /\ Scanning(scan)' /\ Global' = Global
    BY <1>1, <2>1, <2>2 DEF Words, Scanning, Global
  <2>7. OptionsAsWritten'
    BY <1>1, <2>2 DEF OptionsAsWritten
  <2> QED
    BY <1>1, <2>2, <2>3, <2>4, <2>5, <2>6, <2>7 DEF AsFarAsScanned, main
<1> QED
  BY <1>5, <1>7, <1>8, <1>9

LEMMA OwnScanGoesOn ==
  ASSUME AsFarAsScanned, OwnScan
  PROVE  AsFarAsScanned'
<1>12. CASE Global.open
  <2>1. stage' \in {"own", "usage", "run"} /\ typed' = typed
    BY DEF OwnScan, Usage, Take
  <2> QED
    BY <1>12, <2>1 DEF AsFarAsScanned, OptionsAsWritten, Global
<1>13. SUFFICES ASSUME ~Global.open PROVE AsFarAsScanned'
  BY <1>12
<1> DEFINE a == getopt
           specs == typed.main.specs
           ahead == Ahead(specs, FALSE, scan)
           left == SubSeq(argv, a.scan.optind, Len(argv))
<1>1. /\ stage = "own" /\ Words(argv) /\ typed.words \in Seq(Seq(Sign)) /\ typed.main \in Mains
      /\ Scanning(scan) /\ returned \in [global : Returned, own : Returned]
      /\ ~Global.bad /\ Global.rest # <<>> /\ argv = Tail(Global.rest)
      /\ returned.global = Global.options /\ Own = Before(returned.own, ahead)
      /\ returned.own \in Returned
  BY <1>13 DEF OwnScan, AsFarAsScanned
<1>2. Scannable(specs, FALSE)
  BY <1>1, FromNettest
<1>3. Agrees(specs, FALSE, a, ahead)
  <2>1. <<>> \in Seq(Entry)
    OBVIOUS
  <2> QED
    BY <1>1, <1>2, <2>1, CallAgrees DEF getopt, LongsOf
<1>4. ahead \in Meant
  BY <1>1, <1>2, AheadIsMeant
<1>5. Len(argv) \in Nat /\ typed.main.operands \in Nat
  BY <1>1, GetoptConstants DEF Words
<1>6. \/ a.ch = "?" /\ Usage
      \/ a.ch = "-1" /\ (IF Len(argv) - a.scan.optind + 1 > typed.main.operands THEN Usage ELSE
                         /\ stage' = "run" /\ scan' = a.scan /\ argv' = left
                         /\ UNCHANGED <<returned, typed>>)
      \/ a.ch \notin {"?", "-1"} /\ Take(a)
  BY DEF OwnScan
<1>7. Own = Meaning(specs, FALSE, Tail(Global.rest))
  BY <1>1 DEF Own
<1> HIDE DEF a, ahead, left, specs
<1>8. ASSUME Usage, Own.bad \/ ~(Len(Own.rest) <= typed.main.operands) PROVE AsFarAsScanned'
  BY <1>7, <1>8 DEF Usage, AsFarAsScanned, OptionsAsWritten, Global, specs
<1>9. CASE a.ch = "?" /\ Usage
  <2>1. ahead.bad
    BY <1>3, <1>9 DEF Agrees
  <2>2. Own.bad
    BY <1>1, <1>4, <2>1, BadAhead
  <2> QED
    BY <1>8, <1>9, <2>2
<1>10. CASE a.ch = "-1" /\ (IF Len(argv) - a.scan.optind + 1 > typed.main.operands THEN Usage ELSE
                            /\ stage' = "run" /\ scan' = a.scan /\ argv' = left
                            /\ UNCHANGED <<returned, typed>>)
  <2>1. ahead = Ends(left) /\ a.scan.optind \in 1 .. Len(argv) + 1
    BY <1>3, <1>10 DEF Agrees, left
  <2>2. Words(left) /\ Len(left) = Len(argv) - a.scan.optind + 1
    BY <1>1, <2>1, WordsAreLeft DEF left
  <2>3. Own.options = returned.own /\ Own.rest = left /\ ~Own.bad
    BY <1>1, <2>1, <2>2, NothingAhead DEF Words
  <2>4. CASE Len(argv) - a.scan.optind + 1 > typed.main.operands
    <3>1. ~(Len(Own.rest) <= typed.main.operands)
      BY <1>5, <2>1, <2>2, <2>3, <2>4
    <3> QED
      BY <1>8, <1>10, <2>4, <3>1
  <2>5. CASE ~(Len(argv) - a.scan.optind + 1 > typed.main.operands)
    <3>1. stage' = "run" /\ argv' = left /\ returned' = returned /\ typed' = typed
      BY <1>10, <2>5
    <3>2. Len(Own.rest) <= typed.main.operands
      BY <1>5, <2>1, <2>2, <2>3, <2>5
    <3>3. returned = [global |-> Global.options, own |-> Own.options]
      BY <1>1, <2>3
    <3> QED
      BY <1>1, <1>7, <2>3, <3>1, <3>2, <3>3 DEF AsFarAsScanned, OptionsAsWritten, Global, specs
  <2> QED
    BY <2>4, <2>5
<1>11. CASE a.ch \notin {"?", "-1"} /\ Take(a)
  <2>1. /\ a.ch \in Sign /\ a.optarg \in Text /\ Scanning(a.scan)
        /\ ahead = WithText(a.ch, a.optarg, Ahead(specs, FALSE, a.scan))
    BY <1>3, <1>11 DEF Agrees
  <2>2. /\ scan' = a.scan /\ argv' = argv /\ stage' = stage /\ typed' = typed
        /\ returned' = [returned EXCEPT !.own = Append(@, [ch |-> a.ch, optarg |-> a.optarg])]
    BY <1>1, <1>11 DEF Take
  <2>3. /\ Append(returned.own, [ch |-> a.ch, optarg |-> a.optarg]) \in Returned
        /\ Own = Before(Append(returned.own, [ch |-> a.ch, optarg |-> a.optarg]),
                        Ahead(specs, FALSE, a.scan))
    BY <1>1, <1>2, <2>1, AheadIsMeant, OneMore
  <2>4. /\ returned' \in [global : Returned, own : Returned] /\ returned'.global = returned.global
        /\ returned'.own = Append(returned.own, [ch |-> a.ch, optarg |-> a.optarg])
    BY <1>1, <2>2, <2>3
  <2>5. Ahead(specs, FALSE, scan)' = Ahead(specs, FALSE, a.scan)
    BY <2>2 DEF Ahead, One, Two, WordsLeft, specs
  <2>6. Words(argv)' /\ Scanning(scan)' /\ Global' = Global /\ Own' = Own
    BY <1>1, <2>1, <2>2 DEF Words, Scanning, Global, Own
  <2>7. OptionsAsWritten'
    BY <1>1, <2>2 DEF OptionsAsWritten
  <2> QED
    BY <1>1, <2>2, <2>3, <2>4, <2>5, <2>6, <2>7 DEF AsFarAsScanned, specs
<1> QED
  BY <1>6, <1>9, <1>10, <1>11

LEMMA StillScanned ==
  ASSUME AsFarAsScanned, UNCHANGED getoptVars
  PROVE  AsFarAsScanned'
BY DEF AsFarAsScanned, getoptVars, OptionsAsWritten, Words, Scanning, Own, Global, Ahead, One, Two,
       WordsLeft

\* As long as getopt() scans, the options that it returned so far and what the
\* letters and words ahead of optind and place mean are, together, what the
\* words mean: those of the program before the reset of main.cpp, and those of
\* the nettest behind it.
THEOREM ScannerInvariant == ApiSpec => []AsFarAsScanned
<1>1. ApiInit => AsFarAsScanned
  BY InitScanned DEF ApiInit
<1>2. AsFarAsScanned /\ [ApiNext]_everything => AsFarAsScanned'
  <2> SUFFICES ASSUME AsFarAsScanned, [ApiNext]_everything PROVE AsFarAsScanned'
    OBVIOUS
  <2>1. \/ GlobalScan
        \/ OwnScan
        \/ UNCHANGED getoptVars
    BY DEF ApiNext, GetoptNext, GetoptOver, everything
  <2> QED
    BY <2>1, GlobalScanGoesOn, OwnScanGoesOn, StillScanned
<1> QED
  BY <1>1, <1>2, PTL DEF ApiSpec

\* The two scans of main.cpp with portable/getopt_long.c, for whatever options
\* and command lines: the program and the nettest are handed the options that
\* the user wrote, each its own and with their arguments, and the words that are
\* left, and the usage is shown only for what has no meaning.
THEOREM OptionsComeAsWritten == ApiSpec => []OptionsAsWritten
<1>1. AsFarAsScanned => OptionsAsWritten
  BY DEF AsFarAsScanned
<1> QED
  BY <1>1, ScannerInvariant, PTL

=============================================================================
