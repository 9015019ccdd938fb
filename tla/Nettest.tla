------------------------------ MODULE Nettest -------------------------------
(***************************************************************************)
(* nettests::Runnable (nettests/runnable.cpp) as task_run_legacy() drives  *)
(* it: the settings are looked at (see Settings), and maybe refused;       *)
(* begin() contacts the bouncer, looks up the resolver, opens the report,  *)
(* loads the inputs and runs `parallelism` chains of measurements through  *)
(* mk::parallel; then end() closes the report, and "status.end" carries    *)
(* the error that is left.                                                 *)
(*                                                                         *)
(* All of it runs in the thread of the reactor.  Chains take their inputs  *)
(* from one queue and number them with one counter; between two callbacks  *)
(* of a chain those of the other chains run.  What is called back at once  *)
(* is finished before anything else happens: see Quiet.  The reactor calls *)
(* what is registered (see Reactor for when it does).  An option that can  *)
(* not be converted throws where it is read, and the exception leaves the  *)
(* reactor and the thread.                                                 *)
(***************************************************************************)
EXTENDS Report, Settings

CONSTANTS
  GivenSettings, \* the settings that the application may pass
  MaxInputs      \* bound: how many inputs the user gives

\* The client of the report that is no chain: begin() and end().
Main == 0
Chain == Client \ {Main}

\* There is a client for each of the chains that the settings ask for.
EnoughClients(given) ==
  LET r == Prepared(given) IN
  \/ r.refused \/ "parallelism" \in Unreadable(r.options)
  \/ 1 .. Number(r.options, "parallelism", 3) \subseteq Client

ASSUME NettestAssumption ==
  /\ MaxInputs \in Nat \ {0}
  /\ Entry = 0 .. MaxInputs - 1
  /\ None \notin Entry
  /\ Main \in Client
  /\ \A given \in GivenSettings : EnoughClients(given)

ASSUME SettingsAreJson == \A given \in GivenSettings : IsJson(given)

VARIABLES
  settings,      \* what the application has passed
  runnable,      \* what task_run_legacy() has made of it
  options,       \* the options that decide what the nettest does
  stage,         \* how far begin() and end() are
  inputs,        \* Runnable::inputs
  currentEntry,  \* *current_entry
  expired,       \* max_runtime is over
  chain,         \* what each chain is doing
  entry,         \* the index of its measurement: saved_current_entry
  toStart,       \* the next chain that parallel() starts
  par,           \* the parallel() of the chains
  error,         \* the error of task_run_legacy()
  \* History, read by the properties only.
  beginFailed,   \* begin() called back with an error
  done,          \* the indexes in "status.measurement_done", or given up
  submission     \* the event each index got about its submission

runVars == <<inputs, currentEntry, expired, chain, entry, toStart, par>>
config == <<settings, runnable, options>>
vars == <<reportVars, config, stage, runVars, error, beginFailed, done, submission>>

\* The options that a nettest reads, with their defaults.
OptionsOf(task, given) ==
  [no_file_report |-> Flag(given, "no_file_report", FALSE),
   no_collector |-> Flag(given, "no_collector", FALSE),
   use_bouncer |-> ~Flag(given, "no_bouncer", FALSE),
   ignore_open_report_error |-> Flag(given, "ignore_open_report_error", TRUE),
   ignore_write_entry_error |-> Flag(given, "ignore_write_entry_error", TRUE),
   max_runtime |-> "max_runtime" \in DOMAIN given,
   needs_input |-> NeedsInput(task),
   parallelism |-> Number(given, "parallelism", 3),
   unreadable |-> Unreadable(given)]

CanRead(keys) == options.unreadable \cap keys = {}

Init ==
  /\ ReportInit
  /\ settings \in GivenSettings
  /\ runnable = NewRunnable
  /\ options = OptionsOf("", << >>)
  /\ stage = "validating"
  /\ inputs = <<>>
  /\ currentEntry = 0
  /\ expired = FALSE
  /\ chain = [c \in Chain |-> "unborn"]
  /\ entry = [c \in Chain |-> None]
  /\ toStart = 1
  /\ par = ParallelCall(0)
  /\ error = "generic"
  /\ beginFailed = FALSE
  /\ done = {}
  /\ submission = [i \in Entry |-> "none"]

\* No callback is waiting to be called at once, and parallel() is not in the
\* middle of starting the chains: the reactor may call what it likes.
Quiet == ~Busy /\ (stage = "measuring" => toStart > options.parallelism)

-----------------------------------------------------------------------------
(* task_run_legacy(), before it starts the reactor.                        *)

Validate ==
  /\ stage = "validating"
  /\ runnable' = Prepared(settings)
  /\ IF runnable'.refused
     THEN stage' = "refused" /\ UNCHANGED options
     ELSE /\ stage' = "initial"
          /\ options' = OptionsOf(settings.at.name.text, runnable'.options)
  /\ UNCHANGED <<reportVars, settings, runVars, error, beginFailed, done, submission>>

-----------------------------------------------------------------------------
(* The ends of begin() and end().                                          *)

\* begin() calls back, and end() closes the report.
BeginReturns(calls, failed) ==
  /\ stage' = "closing"
  /\ error' = IF failed THEN "error" ELSE "none"
  /\ beginFailed' = failed
  /\ call' = Calling(calls, Main, "close", None, reporters)

\* end() calls back: if there was an error, its own error takes the place.
EndReturns ==
  /\ stage = "closing"
  /\ Completed(Main)
  /\ call' = Answered(call, Main)
  /\ stage' = "over"
  /\ error' = IF error # "none" /\ ~call[Main].par.failed THEN "none" ELSE error
  /\ UNCHANGED <<reporters, store, config, runVars, beginFailed, done, submission>>

\* The reactor has nothing left to do, and run() returns.
EmitEnd ==
  /\ stage = "over"
  /\ stage' = "ended"
  /\ UNCHANGED <<reportVars, config, runVars, error, beginFailed, done, submission>>

-----------------------------------------------------------------------------
(* begin()                                                                 *)

Goto(label) == stage' = label /\ UNCHANGED <<error, beginFailed>>

\* The initial event of the reactor: begin(), unless the task was interrupted.
Begin ==
  /\ stage = "initial"
  /\ CanRead({"no_bouncer"})
  /\ Goto(IF options.use_bouncer THEN "bouncer" ELSE "resolver")
  /\ UNCHANGED <<reportVars, config, runVars, done, submission>>

\* query_bouncer() asks with get_noexcept().
BadBouncerOption ==
  /\ stage = "initial"
  /\ ~CanRead({"no_bouncer"})
  /\ BeginReturns(call, TRUE)
  /\ UNCHANGED <<reporters, store, config, runVars, done, submission>>

InterruptedEarly ==
  /\ stage = "initial"
  /\ Goto("over")
  /\ UNCHANGED <<reportVars, config, runVars, done, submission>>

\* What the bouncer may answer to post_net_tests(), and which answers are the
\* same JsonProcessingError to the caller.
Replies == {"no_json", "error", "no_net_tests", "no_collector", "collector"}
ReplyCreated(reply) == reply \notin {"no_json", "error", "no_net_tests"}

\* There is a collector to use: that of the options goes first.  The reply must
\* be a good one all the same.
CollectorFound(reply) ==
  /\ ReplyCreated(reply)
  /\ reply = "collector" \/ "collector_base_url" \in DOMAIN runnable.options

\* query_bouncer().  Test helpers that are missing end nothing.
BouncerReplies ==
  /\ stage = "bouncer"
  /\ \E reply \in Replies : IF CollectorFound(reply)
                              THEN Goto("resolver") /\ UNCHANGED call
                              ELSE BeginReturns(call, TRUE)
  /\ UNCHANGED <<reporters, store, config, runVars, done, submission>>

BouncerFails ==
  /\ stage = "bouncer"
  /\ BeginReturns(call, TRUE)
  /\ UNCHANGED <<reporters, store, config, runVars, done, submission>>

WantedReporters ==
  (IF options.no_file_report THEN <<>> ELSE <<"file">>) \o
  (IF options.no_collector THEN <<>> ELSE <<"ooni">>)

\* What geoip_lookup(), resolver_lookup() and open_report() read.
LookupOptions ==
  {"save_real_probe_ip", "save_real_probe_asn", "save_real_probe_cc",
   "save_real_probe_network_name", "no_geoip", "no_resolver_lookup",
   "no_file_report", "no_collector"}

\* geoip_lookup() and resolver_lookup(), whose errors are ignored; then
\* open_report().
ResolverReplies ==
  /\ stage = "resolver"
  /\ CanRead(LookupOptions)
  /\ Goto("opening")
  /\ AddReporters(WantedReporters)
  /\ call' = Calling(call, Main, "open", None, WantedReporters)
  /\ UNCHANGED <<store, config, runVars, done, submission>>

ReportOpened ==
  /\ stage = "opening"
  /\ Completed(Main)

OpenFails ==
  /\ ReportOpened
  /\ call[Main].par.failed /\ ~options.ignore_open_report_error
  /\ BeginReturns(Answered(call, Main), TRUE)
  /\ UNCHANGED <<reporters, store, config, runVars, done, submission>>

MayGoOn ==
  /\ ReportOpened
  /\ call[Main].par.failed =>
       CanRead({"ignore_open_report_error"}) /\ options.ignore_open_report_error

\* process_input_filepaths() asks for "randomize_input" with get_noexcept().
InputsLoaded == MayGoOn /\ (options.needs_input => CanRead({"randomize_input"}))

\* process_input_filepaths() fails: no file could be read, for instance, or
\* "randomize_input" cannot be.
NoInputs ==
  /\ MayGoOn
  /\ options.needs_input
  /\ BeginReturns(Answered(call, Main), TRUE)
  /\ UNCHANGED <<reporters, store, config, runVars, done, submission>>

\* A nettest that needs no input has one that is empty.
LoadInputs ==
  /\ InputsLoaded
  /\ CanRead({"parallelism"})
  /\ \E n \in IF options.needs_input THEN 1 .. MaxInputs ELSE {1} :
       inputs' = [i \in 1 .. n |-> i - 1]
  /\ par' = ParallelCall(options.parallelism)
  /\ IF AllDone(par')
     THEN BeginReturns(Answered(call, Main), FALSE)
     ELSE Goto("measuring") /\ call' = Answered(call, Main)
  /\ UNCHANGED <<reporters, store, config, currentEntry, expired, chain, entry,
                 toStart, done, submission>>

-----------------------------------------------------------------------------
(* run_next_measurement()                                                  *)

Become(c, label) == chain' = [chain EXCEPT ![c] = label]

\* A chain ends; with the last one, so does begin().
ChainEnds(calls, c, failed) ==
  /\ Become(c, "finished")
  /\ par' = OneDone(par, failed)
  /\ IF AllDone(par')
     THEN BeginReturns(calls, par'.failed)
     ELSE call' = calls /\ UNCHANGED <<stage, error, beginFailed>>

\* The chain takes the first input and the number of the entry.
TakeInput(c) ==
  /\ inputs' = Tail(inputs)
  /\ entry' = [entry EXCEPT ![c] = currentEntry]
  /\ currentEntry' = currentEntry + 1
  /\ Become(c, "main")
  /\ UNCHANGED <<par, call, stage, error, beginFailed>>

MustStop == inputs = <<>> \/ (options.max_runtime /\ expired)

\* The handler as far as the call of main().
RunNext(c) ==
  /\ IF MustStop
     THEN ChainEnds(call, c, FALSE) /\ UNCHANGED <<inputs, entry, currentEntry>>
     ELSE TakeInput(c)
  /\ UNCHANGED <<reporters, store, config, expired, done, submission>>

\* parallel() starts the chains one after the other.
StartChain ==
  /\ stage = "measuring"
  /\ ~Busy
  /\ CanRead({"max_runtime"})
  /\ toStart <= options.parallelism
  /\ toStart' = toStart + 1
  /\ RunNext(toStart)

\* main() calls back, maybe at once: the chain that was started last may go on
\* before parallel() starts the next one.
MainReturns(c) ==
  /\ chain[c] = "main"
  /\ ~Busy
  /\ Quiet \/ c = toStart - 1
  /\ call' = Calling(call, c, "write", entry[c], reporters)
  /\ Become(c, "writing")
  /\ UNCHANGED <<reporters, store, config, stage, inputs, currentEntry, expired,
                 entry, toStart, par, error, beginFailed, done, submission>>

EmitSubmission(c, event) ==
  submission' = IF options.no_collector THEN submission
                ELSE [submission EXCEPT ![entry[c]] = event]

MeasurementDone(c) ==
  /\ entry' = [entry EXCEPT ![c] = None]
  /\ done' = done \cup {entry[c]}

\* Mutant of Reschedule: call_soon() is forgotten.
RescheduleNever(calls, c) ==
  /\ Become(c, "stuck")
  /\ call' = calls
  /\ UNCHANGED <<stage, par, error, beginFailed>>

\* call_soon(): run_next_measurement() again.
Reschedule(calls, c) ==
  /\ Become(c, "scheduled")
  /\ call' = calls
  /\ UNCHANGED <<stage, par, error, beginFailed>>

EntryWritten(c) == chain[c] = "writing" /\ Completed(c) /\ ~call[c].par.failed

WriteSucceeds(c) ==
  /\ EntryWritten(c)
  /\ EmitSubmission(c, "status")
  /\ MeasurementDone(c)
  /\ Reschedule(Answered(call, c), c)
  /\ UNCHANGED <<reporters, store, config, inputs, currentEntry, expired, toStart>>

EntryNotWritten(c) == chain[c] = "writing" /\ Completed(c) /\ call[c].par.failed

\* Mutant of GoOn: a chain stops, with no error, when an entry is not written.
GoOnNever(c) == ChainEnds(Answered(call, c), c, FALSE)

\* An error of write_entry() ends the chain, unless it is to be ignored.
GoOn(c) ==
  IF options.ignore_write_entry_error
  THEN Reschedule(Answered(call, c), c)
  ELSE ChainEnds(Answered(call, c), c, TRUE)

WriteFails(c) ==
  /\ EntryNotWritten(c)
  /\ CanRead({"ignore_write_entry_error"})
  /\ EmitSubmission(c, "failure")
  /\ MeasurementDone(c)
  /\ GoOn(c)
  /\ UNCHANGED <<reporters, store, config, inputs, currentEntry, expired, toStart>>

\* The reactor calls what call_soon() registered.
Resume(c) ==
  /\ Quiet
  /\ chain[c] = "scheduled"
  /\ RunNext(c)
  /\ UNCHANGED toStart

\* max_runtime expires.
TimePasses ==
  /\ options.max_runtime
  /\ stage \notin {"refused", "thrown"}
  /\ ~expired
  /\ expired' = TRUE
  /\ UNCHANGED <<reportVars, config, stage, inputs, currentEntry, chain, entry,
                 toStart, par, error, beginFailed, done, submission>>

\* Settings::get() throws where an option is read that cannot be converted.
Throw ==
  /\ \/ stage = "resolver" /\ ~CanRead(LookupOptions)
     \/ ReportOpened /\ call[Main].par.failed /\ ~CanRead({"ignore_open_report_error"})
     \/ InputsLoaded /\ ~CanRead({"parallelism"})
     \/ stage = "measuring" /\ ~Busy /\ ~CanRead({"max_runtime"})
     \/ /\ \E c \in Chain : EntryNotWritten(c)
        /\ ~CanRead({"ignore_write_entry_error"})
  /\ Goto("thrown")
  /\ UNCHANGED <<reportVars, config, runVars, done, submission>>

-----------------------------------------------------------------------------
ReportStep ==
  /\ \E c \in Client : AtOnce(c) \/ (Quiet /\ CollectorReplies(c))
  /\ UNCHANGED <<config, stage, runVars, error, beginFailed, done, submission>>

Steps ==
  /\ stage # "thrown"
  /\ \/ Validate \/ Begin \/ BadBouncerOption \/ BouncerReplies \/ BouncerFails
     \/ ResolverReplies \/ OpenFails \/ NoInputs \/ LoadInputs \/ StartChain \/ EndReturns \/ EmitEnd
     \/ Throw
     \/ \E c \in Chain :
          MainReturns(c) \/ WriteSucceeds(c) \/ WriteFails(c) \/ Resume(c)
     \/ ReportStep

Ended == stage \in {"refused", "ended", "thrown"} /\ UNCHANGED vars

Next == Steps \/ InterruptedEarly \/ TimePasses \/ Ended

\* Timeouts see to it that the bouncer, the resolver, the measurements and the
\* collector all call back.
Fairness == WF_vars(Steps)

Spec == Init /\ [][Next]_vars
FairSpec == Spec /\ Fairness

-----------------------------------------------------------------------------
(* Properties.                                                             *)

InFlight == {entry[c] : c \in {d \in Chain : chain[d] \in {"main", "writing"}}}

\* "status.measurement_submission" is never a lie: the collector has accepted
\* that very entry, whatever happened to the other chains, to the file, or to
\* the opening of the report; and it has accepted no entry twice.
SubmittedMeansCollected ==
  /\ \A i \in Entry : submission[i] = "status" => i \in Range(collected)
  /\ Len(collected) = Cardinality(Range(collected))

\* The nettest stops early only because of max_runtime, of an error, or of a
\* parallelism of 0: otherwise all the inputs have been measured in the end.
CompleteUnlessStopped ==
  stage \in {"closing", "over", "ended"} /\ error # "generic" =>
    \/ inputs = <<>>
    \/ beginFailed \/ expired \/ options.parallelism = 0

\* Measurements are numbered by the position of their input, however the
\* chains interleave, and the report is closed after the last of them.
Camp == INSTANCE Campaign WITH
          Input <- Entry, todo <- inputs, inFlight <- InFlight,
          over <- stage \in {"closing", "over", "ended"},
          limit <- options.parallelism

ImplementsCampaign == Camp!CampaignSpec

\* The nettest comes to its end, with "status.end" unless it was refused or an
\* exception ends it, as long as those it waits for call back.
SessionEnds == <>(stage \in {"refused", "ended", "thrown"})

\* The task starts if and only if nothing in the settings must be refused,
\* wherever it is; all the options that are not empty reach the nettest; and
\* an option does what it is documented to do in each form in which it is
\* accepted: without a collector nothing is submitted, nor told about.  The
\* options that make the nettest throw have been warned about, or are numbers
\* out of range: what the table of the engine accepts in silence is what the
\* nettests can read.
SettingsHonoured ==
  /\ stage = "refused" => ~Acceptable(settings)
  /\ stage \notin {"validating", "refused"} =>
       /\ Acceptable(settings)
       /\ DOMAIN runnable.options = Asked(settings)
       /\ SwitchedOn(settings, "no_collector") =>
            collected = <<>> /\ \A i \in Entry : submission[i] = "none"
  /\ stage = "thrown" => \A k \in options.unreadable :
       k \in runnable.warned \/ runnable.options[k] = "huge"

-----------------------------------------------------------------------------
(* What the documentation says, and the code does not do.                  *)

\* "failure is the overall failure that occurred during the test (or the empty
\* string, if no error occurred)": an error of begin() is in "status.end".
EndCarriesFailure == stage = "ended" /\ beginFailed => error # "none"
=============================================================================
