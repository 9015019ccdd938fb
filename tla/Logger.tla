------------------------------ MODULE Logger ------------------------------
(***************************************************************************)
(* The DefaultLogger (common/logger.cpp) of a nettest, as the engine sets  *)
(* it up (task_run_legacy()) and the nettest uses it to tell how far it is *)
(* (Runnable, the clients of NDT and DASH).                                *)
(*                                                                         *)
(* A percentage is counted in units of 1/10000: the argument of progress() *)
(* in thousandths, the scale in tenths.  Nobody in the program calls       *)
(* on_event(), on_eof() or the logger's on_progress().  The clock does not *)
(* go back.  A log file takes as many lines as it has room for, none when  *)
(* it could not be opened: nobody looks at the state of its stream.        *)
(***************************************************************************)
EXTENDS Integers, Sequences, SequencesExt

CONSTANTS
  LogSettings,  \* what the settings of the task may say of the logger
  LogClients,   \* the nettests, as far as their progress goes
  MaxSamples    \* half seconds of a transfer before its tenth second

Transfers(tests) == {i \in DOMAIN tests : tests[i] # "meta"}
Metas(tests) == DOMAIN tests \ Transfers(tests)

\* Of the tests that the server has granted, all are left.
ASSUME LoggerAssumption ==
  /\ MaxSamples \in 0 .. 19
  /\ LET Tests == Seq({"upload", "download", "download_ext", "meta"})
     IN LogClients \subseteq
          [kind : {"entries", "ndt", "dash"}, entries : Nat, max_runtime : BOOLEAN,
           granted : Tests, tests : Tests, max_iterations : Nat]
  /\ \A c \in LogClients : c.tests = c.granted
  /\ \A s \in LogSettings : s.warnings \in Nat /\ s.room \in Nat

VARIABLES
  logger,   \* the fields of DefaultLogger
  logging,  \* the settings and the nettest
  at,       \* where the nettest is
  done,     \* entries, iterations, steps or samples that are done
  told,     \* the percentages that the events told
  lines     \* the lines in the queue of the task, and in the log file

loggerVars == <<logger, logging, at, done, told, lines>>

One == 10000
MK_LOG_ERR == 1
MK_LOG_WARNING == 2
MK_LOG_INFO == 3
MK_LOG_DEBUG == 4

-----------------------------------------------------------------------------
(* Lines.                                                                  *)

\* on_log() of the engine takes no line that is an event, and the file all.
logs_unlocked_(level, event) ==
  [queue |-> IF logger.consumer = "engine" /\ ~event THEN Append(lines.queue, level)
             ELSE lines.queue,
   file |-> IF logger.ofile /\ Len(lines.file) < logging.settings.room
            THEN Append(lines.file, <<level, event>>)
            ELSE lines.file]

logv(level, event) ==
  IF logger.consumer = "none" /\ ~logger.ofile THEN lines ELSE logs_unlocked_(level, event)

log(level, event) ==
  lines' = IF level <= logger.verbosity THEN logv(level, event) ELSE lines

-----------------------------------------------------------------------------
(* Progress.                                                               *)

\* A disabled event goes to the handler of "__disabled", which drops it.
emit_event_ex(key, percentage) ==
  told' = IF key \in logger.handlers THEN Append(told, percentage) ELSE told

progress(prog) ==
  /\ emit_event_ex("status.progress", prog * logger.scale + logger.offset)
  /\ UNCHANGED logger

\* Mutant of Relative: the scale is forgotten.
RelativeUnscaled(prog) == logger.relative + prog * 10

Relative(prog) == logger.relative + prog * logger.scale

progress_relative(prog) ==
  /\ logger' = [logger EXCEPT !.relative = Relative(prog)]
  /\ emit_event_ex("status.progress", logger.offset + Relative(prog))

\* set_progress_offset() and set_progress_scale()
Rescaled(offset, scale) ==
  [logger EXCEPT !.offset = offset, !.relative = 0, !.scale = scale]

DefaultLogger ==
  [verbosity |-> MK_LOG_WARNING, consumer |-> "stderr", ofile |-> FALSE, handlers |-> {},
   offset |-> 0, scale |-> 10, relative |-> 0]

-----------------------------------------------------------------------------
(* The nettest.                                                            *)

LoggerIdle ==
  /\ logger = DefaultLogger /\ logging = <<>> /\ at = "idle" /\ done = 0
  /\ told = <<>> /\ lines = [queue |-> <<>>, file |-> <<>>]

LoggerInit ==
  /\ logger = DefaultLogger /\ at = "configure" /\ done = 0
  /\ \E s \in LogSettings, c \in LogClients : logging = [settings |-> s, client |-> c]
  /\ told = <<>> /\ lines = [queue |-> <<>>, file |-> <<>>]

Client == logging.client
Quiet == UNCHANGED lines
Silent == UNCHANGED <<logger, told>>
Goto(label) == at' = label /\ done' = 0 /\ UNCHANGED logging
Count == done' = done + 1 /\ UNCHANGED <<at, logging>>

\* set_logfile(), set_verbosity(), on_log() and on_event_ex(), as the settings say.
SetUp(s) ==
  [logger EXCEPT
     !.ofile = s.log_filepath,
     !.verbosity = s.log_level,
     !.consumer = IF "log" \in s.disabled_events THEN "none" ELSE "engine",
     !.handlers = {"status.progress"} \ s.disabled_events]

\* emit_settings_warning(): past the logger, hence also where "log" is disabled.
Warned == lines.queue \o [i \in 1 .. logging.settings.warnings |-> MK_LOG_WARNING]

\* task_run_legacy()
Configure ==
  /\ at = "configure"
  /\ logger' = SetUp(logging.settings)
  /\ lines' = [lines EXCEPT !.queue = Warned]
  /\ Goto("geoip") /\ UNCHANGED told

\* emit_settings_failure(): the task is over.
Refuse ==
  /\ at = "configure"
  /\ lines' = [lines EXCEPT !.queue = Append(Warned, MK_LOG_ERR)]
  /\ Silent /\ Goto("over")

geoip_lookup ==
  /\ at = "geoip"
  /\ IF logging.settings.no_geoip THEN Quiet /\ Silent
     ELSE /\ \E level \in {MK_LOG_WARNING, MK_LOG_INFO, MK_LOG_DEBUG} : log(level, FALSE)
          /\ progress(50)
  /\ Goto("open_report")

\* An error of the bouncer, or of the report where it counts, ends begin().
BeginFails ==
  /\ at \in {"geoip", "open_report"}
  /\ IF at = "geoip" THEN Quiet ELSE log(MK_LOG_WARNING, FALSE)
  /\ Silent /\ Goto("end")

StartingTheTest ==
  /\ at = "open_report"
  /\ progress(100)
  /\ Quiet /\ Goto("started")

\* process_input_filepaths() may fail: begin() ends without a measurement.
Scale ==
  /\ at = "started"
  /\ logger' = Rescaled(1000, 8)
  /\ \E label \in {Client.kind, "end"} : Goto(label)
  /\ Quiet /\ UNCHANGED told

\* The measurements: the entries, or the time that passed, tell the progress.
run_next_measurement ==
  /\ at = "entries" /\ (Client.max_runtime \/ done < Client.entries)
  /\ IF Client.max_runtime THEN \E tenths \in done .. 9 : progress(100 * tenths) /\ done' = tenths + 1
     ELSE progress((1000 * done) \div Client.entries) /\ done' = done + 1
  /\ Quiet /\ UNCHANGED <<at, logging>>

\* The runtime is over, or the inputs are.
EntriesEnd ==
  /\ at = "entries"
  /\ Client.max_runtime \/ done = Client.entries
  /\ IF Client.max_runtime THEN log(MK_LOG_INFO, FALSE) ELSE Quiet
  /\ Silent /\ Goto("end")

\* The six steps before the tests, and the two after them, of NDT.
ndt_Step ==
  /\ at \in {"ndt", "results"}
  /\ progress_relative(10)
  /\ Quiet
  /\ CASE at = "ndt" /\ done = 5 -> Goto("tests")
       [] at = "results" /\ done = 1 -> Goto("end")
       [] OTHER -> Count

\* run_tests(): the next one that the server has granted.
ndt_Test ==
  /\ at = "tests"
  /\ Quiet
  /\ IF Client.tests = <<>> THEN Silent /\ Goto("results")
     ELSE /\ logging' = [logging EXCEPT !.client.tests = Tail(@)]
          /\ done' = 0
          /\ IF Head(Client.tests) = "meta" THEN progress_relative(10) /\ UNCHANGED at
             ELSE Silent /\ at' = "transfer"

\* A sample of the speed: what is not positive is no progress.
log_speed ==
  /\ at = "transfer" /\ done < MaxSamples
  /\ progress_relative(25) \/ Silent
  /\ log(MK_LOG_INFO, TRUE)
  /\ Count

TransferEnds == at = "transfer" /\ Silent /\ Quiet /\ Goto("tests")

\* DASH: after each iteration, the first of which is number 1.
dash_Downloaded ==
  /\ at = "dash"
  /\ Quiet
  /\ IF done < Client.max_iterations
     THEN progress((1000 * (done + 1)) \div Client.max_iterations) /\ Count
     ELSE Silent /\ Goto("end")

\* An error of the client is told in the entry, and begin() ends.
ClientFails ==
  /\ at \in {"ndt", "tests", "transfer", "results", "dash"}
  /\ Silent /\ Quiet /\ Goto("end")

\* Runnable::end(), before and after the report is closed.
end ==
  /\ at = "end"
  /\ logger' = Rescaled(0, 10)
  /\ emit_event_ex("status.progress", 9500)
  /\ Quiet /\ Goto("close")

Closed == at = "close" /\ progress(1000) /\ Quiet /\ Goto("over")

LoggerNext ==
  \/ Configure \/ Refuse \/ geoip_lookup \/ BeginFails \/ StartingTheTest \/ Scale
  \/ run_next_measurement \/ EntriesEnd \/ ndt_Step \/ ndt_Test \/ log_speed \/ TransferEnds
  \/ dash_Downloaded \/ ClientFails \/ end \/ Closed

LoggerOver == at \in {"idle", "over"}

-----------------------------------------------------------------------------

\* With at most two transfers, and one test of metadata, the percentages stay
\* within 1 and never go back, whatever the nettest does and wherever it fails,
\* and 1 is told last and only then.  (The server may grant an NDT client three
\* transfers: then they exceed 1.)  And a line of the log file is what the user
\* is told, in the same order, after the warnings of the settings, which the
\* file never has; while the file has room, it misses no other line.
ProgressTold ==
  LET granted == IF Client.kind = "ndt" THEN Client.granted ELSE <<>>
  IN /\ at # "idle" /\ Cardinality(Transfers(granted)) <= 2 /\ Cardinality(Metas(granted)) <= 1 =>
          /\ \A i \in DOMAIN told : told[i] \in 0 .. One
          /\ \A i, j \in DOMAIN told : i < j => told[i] <= told[j]
          /\ \A i \in DOMAIN told : told[i] = One <=> (i = Len(told) /\ at = "over")
     /\ logger.ofile /\ logger.consumer = "engine" =>
          LET kept == {i \in DOMAIN lines.file : ~lines.file[i][2]}
              Place(i) == logging.settings.warnings + Cardinality({j \in kept : j <= i})
          IN /\ \A i \in kept : /\ Place(i) \in DOMAIN lines.queue
                              /\ lines.queue[Place(i)] = lines.file[i][1]
             /\ Len(lines.file) < logging.settings.room =>
                  Len(lines.queue) = logging.settings.warnings + Cardinality(kept)

=============================================================================
