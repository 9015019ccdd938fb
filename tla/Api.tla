-------------------------------- MODULE Api --------------------------------
(***************************************************************************)
(* BaseTest::run() of include/measurement_kit/nettests.hpp, on top of the  *)
(* C interface (ffi.cpp): a loop that takes the events of one task and     *)
(* turns them into the callbacks of the application.  Here the application *)
(* is the program measurement_kit, which has read its command line first;  *)
(* any other application (driver = Nobody) does to its tasks what module   *)
(* Task says.  How the words of the command line become options is a       *)
(* program of its own (module Getopt).                                     *)
(*                                                                         *)
(* One callback of each kind is registered.  The exceptions of a callback  *)
(* are swallowed, hence a callback does nothing here.                      *)
(***************************************************************************)
EXTENDS Task, CommandLine, Getopt

VARIABLES
  driver,  \* the thread inside main(), and its task; or Nobody
  loop,    \* where run_static() is
  called   \* history: the callbacks that were called

apiVars == <<driver, loop, called>>
engine == <<vars, commandLineVars, apiVars>>
everything == <<engine, getoptVars>>

ApiInit ==
  /\ Init /\ CommandLineInit
  /\ loop = "setup" /\ called = <<>>
  /\ \/ GetoptIdle /\ driver \in {Nobody} \cup [thread : Consumer, task : Task]
     \/ GetoptInit /\ driver = Nobody

-----------------------------------------------------------------------------
(* The events as the application sees them.                                *)

\* Keys with the same fields.
Failures ==
  {"failure.asn_lookup", "failure.cc_lookup", "failure.ip_lookup", "failure.measurement",
   "failure.network_name_lookup", "failure.report_create", "failure.report_close",
   "failure.resolver_lookup", "failure.startup"}
Without == {"status.queued", "status.started", "task_terminated"}

Others ==
  {"bug.json_dump", "failure.measurement_submission", "log", "measurement", "status.end",
   "status.geoip_lookup", "status.progress", "status.measurement_start",
   "status.measurement_submission", "status.measurement_done", "status.report_close",
   "status.report_create", "status.resolver_lookup", "status.update.performance",
   "status.update.websites"}

is_event_key_valid == Failures \cup Without \cup Others

\* The fields that an event is asserted to have.
possibly_validate_event(key) ==
  CASE key \in Failures -> {"failure"}
    [] key \in Without -> {}
    [] key = "bug.json_dump" -> {"failure", "orig_key"}
    [] key = "failure.measurement_submission" -> {"failure", "idx", "json_str"}
    [] key = "log" -> {"log_level", "message"}
    [] key = "measurement" -> {"idx", "json_str"}
    [] key = "status.end" -> {"downloaded_kb", "uploaded_kb", "failure"}
    [] key = "status.geoip_lookup" -> {"probe_ip", "probe_asn", "probe_cc", "probe_network_name"}
    [] key = "status.progress" -> {"percentage", "message"}
    [] key = "status.measurement_start" -> {"idx", "input"}
    [] key \in {"status.measurement_submission", "status.measurement_done"} -> {"idx"}
    [] key \in {"status.report_close", "status.report_create"} -> {"report_id"}
    [] key = "status.resolver_lookup" -> {"ip_address"}
    [] key = "status.update.performance" -> {"direction", "elapsed", "num_streams", "speed_kbps"}
    [] key = "status.update.websites" -> {"url", "status"}

\* What process_event() reads with at(), which throws, and what it calls.
Reads(key) ==
  CASE key = "log" -> {"log_level", "message"}
    [] key = "measurement" -> {"json_str"}
    [] key = "status.end" -> {"downloaded_kb", "uploaded_kb"}
    [] key = "status.progress" -> {"percentage", "message"}
    [] key = "status.update.performance" -> {"direction", "elapsed", "num_streams", "speed_kbps"}
    [] OTHER -> {}

Calls(key) ==
  CASE key = "log" -> <<"log">>
    [] key = "measurement" -> <<"entry">>
    [] key = "status.end" -> <<"overall_data_usage", "end">>
    [] key = "status.progress" -> <<"progress">>
    [] key = "status.started" -> <<"begin">>
    [] key = "status.update.performance" -> <<"event">>
    [] OTHER -> <<>>

\* "log" stands for whatever is emitted while running, and only for a line of
\* log until then.  What holds bytes of the network may be impossible to dump,
\* and mk_event_create_() replaces it.
mk_event_create_(t, kind) ==
  IF kind = "log" /\ "status.started" \in Range(received[t])
  THEN {"log"} \cup (is_event_key_valid \ (EventKind \cup {"task_terminated"}))
  ELSE {kind} \cup (IF kind \in {"log", "measurement"} THEN {"bug.json_dump"} ELSE {})

-----------------------------------------------------------------------------
(* run_static().                                                           *)

Steps(from, to) == loop = from /\ loop' = to /\ UNCHANGED driver
Quietly == UNCHANGED <<commandLineVars, called>>

\* getopt() and the setters.
Configure == Steps("setup", "setup") /\ CommandLineNext /\ UNCHANGED <<vars, called>>

\* The object is moved away, and mk_task_start() gets its settings: the setters
\* know nothing of "disabled_events".
mk_task_start(t) ==
  /\ cli = "ready" /\ Steps("setup", "starting")
  /\ cli' = "moved" /\ taken' = 0 /\ initializers' = <<>>
  /\ test' = NewTest("") /\ locals' = NoLocals /\ given' = <<>>
  /\ Construct(t) /\ disabled'[t] = {}
  /\ UNCHANGED called

Started(t) == Steps("starting", "ask") /\ Constructed(t) /\ Quietly

\* Mutant of Finished: the queue is not drained.
FinishedUndrained(t) == ~running[t]

Finished(t) == IsDone(t)

\* The condition of the loop.
mk_task_is_done(t) ==
  /\ mutex[t] = Nobody
  /\ IF Finished(t)
     THEN Steps("ask", "eof") /\ told' = [told EXCEPT ![t] = TRUE]
     ELSE Steps("ask", "wait") /\ UNCHANGED told
  /\ UNCHANGED <<object_, thread_, interrupted, deque, mutex, consumers, emitted, received>>
  /\ Quietly

mk_task_wait_for_next_event(c, t) == Steps("wait", "waiting") /\ WaitCall(c, t) /\ Quietly

Blocked(c) ==
  /\ Steps("waiting", "waiting")
  /\ Lock(c) \/ DecideToSleep(c) \/ Sleep(c) \/ WakeSpuriously(c)
  /\ Quietly

\* An event is there, and process_event() follows.
process_event(c, t) ==
  deque[t] # <<>> /\ \E key \in mk_event_create_(t, Head(deque[t])) :
    /\ ReturnEvent(c)
    /\ IF Reads(key) \subseteq possibly_validate_event(key)
       THEN Steps("waiting", "ask") /\ called' = called \o Calls(key)
       ELSE Steps("waiting", "thrown") /\ UNCHANGED called
    /\ UNCHANGED commandLineVars

\* The event "task_terminated" calls nothing.
Terminated(c) == Steps("waiting", "ask") /\ ReturnTerminated(c) /\ Quietly

LastCallbacks ==
  /\ Steps("eof", "over")
  /\ called' = called \o <<"logger_eof", "destroy">>
  /\ UNCHANGED <<vars, commandLineVars>>

\* The unique_ptr to the task goes out of scope.
mk_task_destroy(t) ==
  \/ Steps("over", "joining") /\ Destroy(t) /\ Quietly
  \/ Steps("joining", "returned") /\ Joined(t) /\ Quietly

Over ==
  /\ loop \in {"returned", "thrown"} \/ cli = "exited"
  /\ UNCHANGED engine

RunStatic(c, t) ==
  \/ Configure \/ mk_task_start(t) \/ Started(t) \/ mk_task_is_done(t)
  \/ mk_task_wait_for_next_event(c, t) \/ Blocked(c) \/ process_event(c, t)
  \/ Terminated(c) \/ LastCallbacks \/ mk_task_destroy(t) \/ Over
  \/ TaskThread(t) /\ UNCHANGED <<commandLineVars, apiVars>>

EngineNext ==
  \/ driver = Nobody /\ Next /\ UNCHANGED <<commandLineVars, apiVars>>
  \/ driver # Nobody /\ RunStatic(driver.thread, driver.task)

ApiNext ==
  \/ stage = "unused" /\ EngineNext /\ UNCHANGED getoptVars
  \/ GetoptNext /\ UNCHANGED engine
  \/ GetoptOver /\ UNCHANGED engine

ApiSpec == ApiInit /\ [][ApiNext]_everything

-----------------------------------------------------------------------------
\* The callbacks of a run: on_begin() before any other but on_log(); the data
\* usage and then on_end(), once, if and only if there was an on_begin(), and
\* after all that the nettest had to say; on_logger_eof() and on_destroy() last,
\* when the task has stopped and each of its events was processed.  And no event
\* lacks a field that process_event() wants, which would end the program.
CallbacksInOrder ==
  LET at(name) == {i \in DOMAIN called : called[i] = name}
      none == Len(called) + 1
      first(name) == IF at(name) = {} THEN none ELSE CHOOSE i \in at(name) : \A j \in at(name) : i <= j
  IN /\ loop # "thrown"
     /\ \A i \in DOMAIN called :
          /\ called[i] # "log" => first("begin") <= i \/ called[i] \in {"logger_eof", "destroy"}
          /\ i > first("end") => called[i] \in {"logger_eof", "destroy"}
     /\ \A name \in {"begin", "overall_data_usage", "end", "logger_eof"} : Cardinality(at(name)) <= 1
     /\ at("overall_data_usage") # {} <=> at("end") # {}
     /\ loop \in {"eof", "over", "joining", "returned"} =>
          /\ ~running[driver.task] /\ received[driver.task] = emitted[driver.task]
          /\ at("begin") # {} <=> at("end") # {}
=============================================================================
