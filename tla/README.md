# A TLA+ specification of Measurement Kit

Measurement Kit (`src/libmeasurement_kit/`) runs network measurements on
behalf of an application: the application starts a *task*, which runs a
*nettest* in a thread of its own, and reads the events that it emits. This
directory holds TLA+ modules of the library and of the program
`measurement_kit`, the configurations that check them with TLC, and proofs for
TLAPS.

All paths below are relative to `src/libmeasurement_kit/`, unless they begin
with `include/` or `src/measurement_kit/`.

## 1. The system

| Component | State it keeps | Operations | Talks to |
|---|---|---|---|
| Task (`engine/task.*`, `ffi.cpp`) | event queue, `running`, `interrupted`, a mutex and a condition variable; one static mutex for all tasks | create, `wait_for_next_event`, `is_done`, `interrupt`, destroy | the application's threads; `task_run_legacy` in its own thread |
| Engine (`engine/autoapi.cpp`) | the error of the nettest | check the settings, run begin and end in the reactor, emit `status.*` | Runnable, Reactor, Logger |
| Reactor (`common/libevent_reactor.hpp`) | libevent's event base, a Worker, the data usage | `run`, `stop`, `call_soon`, `call_later`, polls, `call_in_thread` | callbacks in the I/O thread; jobs in background threads |
| Worker (`common/worker.*`) | queue of jobs, `active`, `parallelism` | `call_in_thread`, `set_parallelism`, `concurrency`, `wait_empty_` | detached threads |
| Logger (`common/logger.*`) | verbosity, consumers, a file, handlers per event, scale and offset of the progress | `log`, `emit_event_ex`, `progress` | Task::emit |
| Runnable (`nettests/runnable.*`) | inputs, the number of the next entry, options | `begin`, `run_next_measurement`, `end` | bouncer, report, the test's `main` |
| Report (`report/`) | per reporter: `openned_`, `closed_`, `prev_entry_`, a stream or a report id | `open`, `write_entry`, `close` | the file system, the collector |
| parallel (`common/parallel.hpp`) | per call: completed, overall error, lanes | run N operations, call back once | whoever passes operations |
| Collector, bouncer, orchestrate clients (`ooni/`, `mkapi/`) | a connection per request, a token, the secrets file | one request and its reply; resubmission of a file; registration, login, update and retry | HTTP |
| Transports (`net/`) | handlers, buffers, `close_pending`, a held-back EOF | `on_*`, `write`, `close`, connect, SOCKS5, TLS | libevent |
| HTTP (`http/`) | parser state, redirect count | request, response, redirect | transports |
| DNS (`dns/`) | a context per query | system, getaddrinfo and libevent engines | Reactor, Worker |
| NDT, DASH (`ndt/`, `neubot/`) | protocol phase, streams, rate | the measurements themselves | transports, HTTP, mlab-ns |
| OONI tests (`ooni/`) | the entry, counters of what is outstanding | stages of measurements, verdicts | HTTP, DNS, transports |
| Traceroute (`traceroute/`) | one socket, the outstanding probe | `send_probe`, its answers and its timeout | the kernel |
| Command line (`src/measurement_kit/`, `include/measurement_kit/nettests.hpp`) | initializers, settings, callbacks | scan the words, `run()` and its loop | Task, through the C interface |

The parts interact through callbacks in the I/O thread of a reactor, and across
threads at five places only: the queue of a task, the queue of a worker, the
event base (`call_soon` and `stop` from other threads), the flag `interrupted`,
and the client of `mkapi/` that is copied into a job. What is hard is

* **concurrency** across threads: the worker's count against its queue, `run()`
  against the jobs and `stop()`, the task's flags against its condition
  variable, tasks against one another, setters against a sync;
* **interleaving of callbacks** in one thread: the chains of a nettest share
  the inputs, the counter of entries and the reporters; the measurements of an
  OONI test share its entry; the streams of NDT share their counters;
* **partial failure**: a thread that cannot be started, one reporter of two, an
  error in begin and none in end, one address of several, one test of a suite;
* **unreliable delivery**: a collector or a registry that has done what was
  asked and whose answer is lost, a process that dies in between, data that
  comes in pieces, an end of file that overtakes data, late answers to a probe;
* **ending**: of `run()`, of a wait, of a request, of a session with a server
  that may send anything.

What makes each component correct:

* Task: tasks never overlap; a reader gets each event once and in order, hears
  that the task is over only after its last event, and is never left asleep.
* Reactor: `run()` returns when, and only when, nothing is left to do.
* Worker: jobs run once, in order, on at most as many threads as allowed, and
  none is forgotten.
* Engine, command line: what the user wrote is what runs, or is refused.
* Report and Runnable: what is told about a submission is true; inputs are
  measured once, in order, and all of them unless there is a reason to stop;
  the report is closed after the last measurement; the nettest ends.
* Transports, HTTP, DNS: a response is whole or an error; each operation calls
  back once; every connection is closed; a message is read as it was sent,
  however it was cut up; the name of a peer stays what it was.
* NDT, DASH: streams are closed, a success has measured all, the rate follows
  the speed.
* OONI tests: the verdict follows from all the answers, in whatever order.
* Collector, orchestrate: what is told to be stored is stored; one probe keeps
  one account.

The list "hazards" in `PROJECT.json` names the lines where these can go wrong,
and the properties that would show it.

## 2. The modules

| Module | Stands for |
|---|---|
| `JobPool` | abstract: what a pool of threads promises |
| `Worker`, `WorkerProofs` | `common/worker.cpp` |
| `Reactor`, `ReactorProofs` | `common/libevent_reactor.hpp`; contains an instance of `Worker` |
| `EventChannel` | abstract: what the events of a task promise to the application |
| `Task`, `TaskProofs` | `engine/task.cpp`, and the events of `task_run_legacy` |
| `Api`, `MCApi` | `BaseTest::run()` of `nettests.hpp`; extends `Task`, `CommandLine`, `Getopt` |
| `CommandLine`, `Getopt` | `src/measurement_kit/`, with its own `getopt_long()` |
| `Settings` | `engine/autoapi.cpp`, `common/scalar.hpp`; used by `CommandLine` and `Nettest` |
| `Parallel` | `common/parallel.hpp`, as operators on a record |
| `Report` | `report/`: state and actions, used by `Nettest` |
| `Campaign` | abstract: what a nettest promises about its measurements |
| `Nettest`, `MCNettest`, `NettestProofs` | `nettests/runnable.cpp` as `task_run_legacy` drives it; extends `Report`, `Settings` |
| `Dns`, `Transport`, `Connect`, `Http` | `dns/`, `net/`, `http/`; each extends the one before it |
| `Wire`, `Endpoints` | messages in pieces; names of peers |
| `Net`, `MCHttp`, `NetProofs` | one of `Http`, `Wire`, `Endpoints` at a time |
| `Ndt`, `Dash`, `Logger` | `ndt/`, `neubot/`, `common/logger.cpp` |
| `Speed`, `MCSpeed`, `SpeedProofs` | one of these three at a time |
| `Probes`, `Messengers`, `Middleboxes`, `WebConnectivity` | the tests of `ooni/` |
| `Submission` | the resubmission of a file (`ooni/collector_client_impl.hpp`) |
| `Orchestra` | the client of the registry (`ooni/orchestrate_impl.hpp`) |
| `Mkapi` | `mkapi/orchestra.cpp` and the metadata it sends |
| `Traceroute` | `traceroute/android.cpp` |
| `Ooni`, `MCOoni` | one of the tests and clients above at a time |
| `OoniProofs`, `VerdictProofs` | proofs about the clients, and about the tests |

Where a module says that a behaviour is one of several programs, that is what
the code does: a process runs one nettest at a time, by the semaphore of
`Task` (`TasksDoNotOverlap`).

### Worker

State: `queue`, `active` and `parallelism` are the fields of `Worker::State`;
`tpc` and `tjob` say where each detached thread is and with which job. A
critical section of `State::mutex` is one action. `call_in_thread` has three
outcomes: the job is left to the threads there are (`CallQueues`), a thread is
started (`CallSpawns`), or `std::thread` throws after the job was queued
(`CallThrows`). A thread takes a job (`TakeJob`) or finds none and gives up its
place in the same section (`ExitThread`); a job returns or throws, which ends
the process. `WaitEmpty` and `WaitEmptyReturns` are `wait_empty_()`, which
polls `concurrency()`. The constructor's `short` becomes an `unsigned short`
(`ToUShort`, modulo 2^16). `submissions`, `started`, `finished`, `unserved`,
`peak` and `waitFor` are history variables.

`JobPool` promises: accepted jobs start in order, each once, no more at a time
than the highest limit ever set, and stop if one throws. `Worker` implements
it with `waiting <- queue`, `running <- Running`, `limit <- peak`.

### Reactor

State: the events that are registered, the 250 ms no-ops of `run()` (`ticks`),
the break flag of the event base, where the thread of `run()` is, and the
worker, instantiated with the default parallelism of 3. Libevent is modelled
from how `run()` uses it: `event_base_dispatch` clears the break flag when it
is entered, returns 0 if it finds it set, 1 if nothing is registered, and -1 on
error. `Decide` is line 125: `run()` reads the status that dispatch returned
earlier and then the worker, and threads move in between. A job posts its
result (`JobPosts`) at any moment while it runs, as `getaddrinfo_async` does.

### Task, Api and the command line

`Task` has the fields of `TaskImpl`; `pc` and `notifying` are where the thread
of the task is, `cpc` where each reader inside `wait_for_next_event` is. The
steps are as fine as the code's atomicity: `running` is written without the
mutex, `notify_all()` is called without it, and a reader tests its predicate
with the mutex held and gives it back only when it sleeps. `mutex` and
`semaphore` are the two mutexes. The nettest in between is reduced to what it
emits: refused settings (a line of log, then `failure.startup`),
`status.started`, any number of lines of log and measurements, `status.end`.
`emitUnlessDisabled` is the routing of `logger.cpp` with the handlers that
`task_run_legacy` registers. `EventChannel` promises that events are received
once and in order and that the channel is reported closed only when it is;
`Task` implements one channel per task.

In `Api` one reader is `BaseTest::run()`: it takes the events of its task and
turns each into the callbacks of the application, then the last ones
(`on_logger_eof`, `on_destroy`). The application is the program
`measurement_kit`: `CommandLine` goes from its options, with the initializers
that wait until the defaults are set, to the settings of the task, one record
per nettest that it knows (`kv_specs`); `Getopt` is the scan of the words by the
`getopt_long()` that the program brings, with `place`, `optind`, `optreset`,
clusters, abbreviations and `--`, for the program and then again for the
nettest. What a command line means (`Meaning`) is defined apart from the scan,
from the last word to the first.

The table of long options has no end: `as_long_options()` (`utils.cpp:54`)
pushes no option without a name, `main.cpp:87` passes the `data()` of that
vector, and `getopt_long.c:188` looks until it sees a `NULL` name or has found
the whole name. So a long option that is abbreviated, or unknown, makes the
program read behind its vector, which is undefined. `Beyond` is what may be
there: nothing (a `NULL` name), options that are found like the others, or a
name that is no pointer, which ends in a fault; so does a listed option that
comes back without the argument that `main()` makes a string of. Nothing is
claimed of such a command line (`Open`). Of one whose long options are written
in full it is claimed that what is behind the table makes no difference.

### Settings, Report and Nettest

`Settings` looks at a JSON value as `task_run_legacy` does: section by section,
in the order of the code, to refuse the task, to warn, or to copy. An option
becomes text, and `ReadAs` says which nettest reads it as what; a text that
cannot be converted throws at that place in `Nettest`.

`Report` keeps the flags of `BaseReporter` per kind of reporter, the error bits
of the file stream, and one operation per client: the chains, and begin/end
(client 0). An operation visits the reporters one after the other, as
`mk::parallel` does: the file answers at once, the collector later, with an
answer or an error, so that operations of several chains overlap there.

`Nettest` walks through `begin()`: bouncer, lookup of the resolver, open the
report, load the inputs, start `parallelism` chains. A chain takes an input and
a number (`RunNext`), calls `main()`, writes the entry, and either schedules
itself again (`Reschedule`) or ends (`ChainEnds`). `end()` closes the report.
Everything runs in one thread: `Quiet` keeps the reactor from calling another
callback while one has still something to do at once. `error` is the variable
of that name in `task_run_legacy`.

`Campaign` promises that inputs are measured in order, once, at most
`parallelism` at a time, and that the end comes when none is in progress.

### Dns, Transport, Connect, Http; Wire and Endpoints

The I/O thread runs one callback at a time: `call` names the callback that is
being entered and `arg` its error, and libevent calls the next one when `call`
is `"none"`. `Dns` is `resolve_hostname` (A, then AAAA) over either engine:
evdns with its attempts and timeouts and the context that the last callback
deletes, or a job of the worker. `Transport` has the handlers of `EmitterBase`,
its `close_pending`, the end of file that `LibeventEmitter` holds back while
data is buffered, `write()` and `read()`, and a `Socks5` on top. `Connect`
tries the addresses in turn, with TLS or not, and counts the data usage.
`Http` sends the request, feeds the parser, and starts again where the response
redirects. The server is a sequence of turns, and of an end: it closes, resets,
or stays silent.

`Wire` goes below: a message of NDT, SOCKS5 or HTTP is a sequence of bytes
which arrive in pieces of any size (lengths are as wide as in the code), and
`net::Buffer` with its `readn` and `readline` must give it back. `Endpoints`
follows a name: an endpoint as the user writes it, the address that is
connected to, the URL, the Host header, the redirect, PTR names.

### Ndt, Dash, Logger

`Ndt` is the session from mlab-ns to the entry: each exchange with the server
has as outcomes the errors that the code tells apart, "ok", or "again" where
the message calls for another one; the streams of c2s and s2c are counted as
they connect, transfer, fail and close. `Dash` negotiates on one transport,
downloads on a second one at rates that follow the speed, and collects.
`Logger` has the consumers, the verbosity, the file, and the scale and offset
with which each program reports its progress; percentages are integers, in
units of 1/10000. What the engine says of bad settings goes to the queue past
the logger (`Configure`, `Refuse`), and the file takes as many lines as it has
room for: none if it was not opened (`room = 0`), no more once it is full.

### The tests of OONI and their backends

`Probes` is what the tests share: stages, in each of which measurements are
started (some over bounded lanes of `mk::parallel`), whose callbacks write into
the entry in any order, and the last of which begins the next stage.
`Messengers`, `Middleboxes` and `WebConnectivity` are the tests; their verdicts
are computed as the code does, callback by callback, and the properties compare
them with what the answers say taken together.

`Submission` reads a file line by line and sends each entry once the one before
was accepted; `Orchestra` loads, registers, logs in, updates and dumps, with
`secrets` the file and `accounts` those of the registry. In both, an answer may
be lost after the server has done what was asked; in `Orchestra` the process
may die between any two steps. `Mkapi` is the interface on top: setters, and a
sync that works on a copy in a thread of the worker. `Traceroute` is one probe
at a time, its timeout, the error queue and answers to earlier probes;
`send_probe` may be called from the callbacks of `send_probe`.

## 3. The runs

| Run | Instance | Shows |
|---|---|---|
| `worker` | 4 jobs (one throws), 3 threads, limits 0..2 | `ActiveCountsThreads`, `NoStrandedJob`, `WaitEmptyMeansDone`, `QueuedJobRuns`, implements `JobPool` |
| `reactor` | 3 events (one may never be ready), 2 jobs, 2 stops | `RunLeavesNothing`, `RunReturns`, `EventDelivered` |
| `reactor_lost_event` | 2 events, 1 job | violation of `ReturnMeansNothingPending` |
| `task` | 2 tasks, 2 readers, a warning or an extra event; command lines of 2 options or 4 words | `TasksDoNotOverlap`, `EventsInOrder`, `ToldMeansEndSeen`, `NoSleepOnEvent`, implements `EventChannel`; `CallbacksInOrder`, `CommandLineHonoured`, `OptionsAsWritten` |
| `task_live` | 2 tasks, 1 reader, disabled events | `TaskEnds`, `WaitReturnsOrMissed` |
| `task_lost_wakeup` | 1 task, 1 reader | violation of `WaitReturns` |
| `nettest` | 2 chains, 3 inputs, settings right, wrong and unreadable | `SubmittedMeansCollected`, `CompleteUnlessStopped`, `SettingsHonoured`, `SessionEnds`, implements `Campaign` |
| `nettest_end_failure` | 2 chains, 1 input | violation of `EndCarriesFailure` |
| `http` | a base case varied in each setting that a branch looks at; every server and end; messages of up to 5 bytes a line in every split; journeys of up to 2 redirects | `ResponseWhole`, `ConnectionsClosed`, `RequestEnds`; `MessagesWhole`; `NamesKept` |
| `http_proxy` | the settings with a proxy | violation of `IOTimesOut` |
| `speed` | NDT with 2 streams; DASH with 3 rates and 7 speeds; the phases of each program | `StreamsClosed`, `NdtTruthful`, `RateFollowsSpeed`, `DashComplete`, `ClientEnds`, `ProgressTold` |
| `ooni` | each test; a file of up to 3 lines submitted twice; 3 syncs, 2 tokens; 3 setters; 3 hops | `VerdictsFollow`, `SubmittedWhole`, `IdentityKept`, `MetadataTold`, `ProbesAnswered`, `CallsEnd` |

Above each property in its module is what it says of the code. A passing run
checks each property against the code as it is; `PROJECT.json` pairs each one
with a plausible mistake in the code (an operator of the same module, marked as
a mutant) that the run detects.

**Bounds and why they are enough.** Four jobs on at most three threads under a
limit of at most two make every case of `call_in_thread` happen: below, at and
above the limit, after it was lowered, and with the limit at zero. Two jobs and
three events give the reactor a job that posts while another one runs, an event
that is late and one that is not; two stops can hit two different dispatches.
Two tasks contend for the semaphore, and two readers of one task for its mutex
and its events; `MaxWarnings` and `MaxExtra` bound what the tasks emit in between,
all alike. Two options are enough for one to override another, a default, or an
initializer, and four words for a cluster, an option's argument, the name of
the nettest and what follows it. With three inputs on two chains, one chain
waits for the collector while the other takes two inputs. Two addresses of a
name, one redirect below and one at the limit, and a response whose head and
body come in any turns reach each branch of the network stack. `MaxLine` (5)
has lines shorter, as long as and longer than the limit. Two streams (eight at
most in the code) are enough for one to fail or to end before the other;
`MaxAgain` bounds what the server can repeat, `MaxNegotiations`,
`MaxSamples` and `MaxRate` the counters of DASH and of the logger. A log file is
not opened, becomes full after two lines, or never does. Four
Telegram endpoints are one more than there are lanes. Two submissions of a file
make a second attempt after a partial one; three syncs register, use a token
and find it expired. `MaxStops`, `MaxWarnings`, `MaxExtra`, `MaxOptions`, `MaxInputs`,
`MaxRecords`, `MaxLine`, `MaxHops`, `MaxStreams`, `MaxAgain`, `MaxRate`,
`MaxNegotiations`, `MaxSamples`, `MaxSubmissions`, `MaxSyncs`, `MaxTokens`,
`MaxSets` and `MaxTtl` are the only bounds. The tasks and readers of `task` are
interchangeable, which its symmetry uses; no run with a liveness property has
symmetry.

**Deadlock** is checked, except in `worker`, where an exception that leaves a
job ends the process. The other modules have a final state that may stutter.

**Fairness and why the code justifies it.** Threads that can go on do: weak
fairness of each thread of the worker, of the thread of `run()` and of what a
task does before and after it holds a mutex, strong fairness of those that
compete for a mutex that is taken and released again and again (`TaskThread`,
`Waiting`): mutexes here are held for a few instructions only, and the operating
system does not starve a thread for ever. Jobs and callbacks return:
`getaddrinfo` and the callbacks of the library do not block for ever. An event
that can be ready is called in the end (strong fairness of `Fire`), since
libevent serves all that is active. In `Nettest`, `Http` and the tests of
`Ooni`, whoever is waited for calls back, since connections and requests have
timeouts: a silent peer is a peer whose timeout comes; `RequestEnds` says where
the code sets none. A server of NDT or DASH may repeat itself `MaxAgain` or
`MaxNegotiations` times; that one which never lets the client go keeps it for
ever, and the code has no limit of its own. Nothing is assumed about the
application, about `stop()`, about spurious wakeups, about failures, about
processes that die, or about max_runtime.

## 4. Where the code and its documentation differ

Shown by a run that expects a violation:

* `Reactor::run()` may return with a delayed call pending
  (`reactor_lost_event`), in the window that `RunLeavesNothing` shows to be
  the only one.
* A reader may miss the end of the task and sleep for ever
  (`task_lost_wakeup`); `WaitReturnsOrMissed` shows that this is the only way
  a wait can fail to return.
* `status.end` loses the failure of `begin()` (`nettest_end_failure`).
* A request through a SOCKS5 proxy that falls silent never times out
  (`http_proxy`); `RequestEnds` shows that it is the only one.

Met while modelling, and part of the models where they are concerned:

* Engine and nettests. `stop()`, hence `interrupt()`, only makes `run()`
  dispatch once more. `status.queued` is emitted even when disabled.
  `failure.measurement_submission` is also emitted for an entry that the
  collector has, when the file failed. `ignore_bouncer_error` and `server` are
  read nowhere (NDT reads `address`, DASH `hostname`), and a bouncer's error
  ends `begin()`. An option that the table accepts with a warning may throw out
  of the thread of the task when it is read. `failure.startup` may follow
  `status.started` (`query_bouncer`). The refusal of an unknown `log_level`
  lists names in lower case, and only upper case is accepted. A second `run()`
  of one object throws, and of `start()` in its thread. The data usage is
  divided by 1024 in the engine and multiplied by 1000 in `nettests.hpp`, whose
  keys `status.measurement_started` and `status.report_created` no event has.
* Logger. With download, download-ext and upload an NDT client tells a progress
  of up to 1.312 (`ndt/internal.hpp:281`; `include/measurement_kit/README.md:672`
  says at most 1.0); `ProgressTold` covers two transfers. A message with
  `MK_LOG_EVENT` is dropped when there is neither a consumer nor a file. The
  warnings and failures of the settings (`autoapi.cpp:414`) are emitted past the
  logger: the log file never has them, and disabling "log" does not stop them.
  A log file that is not opened, or that a write fails on, stays silent from
  then on and nobody is told (the TODOs of `logger.cpp:121` and `:208`).
* Network. The length of a SOCKS5 bound name is read as a signed `char`
  (`net/socks5.cpp:113`). A proxy's address is split at its first colon, and so
  has no IPv6 form. Data through a proxy is counted twice. A bad `allow_ssl23`
  leaves the `SSL*` behind. The Host header has no brackets around an IPv6
  address. A relative redirect is appended to the whole path, and a `Location`
  with its schema in capitals is taken for a relative one. `unreverse_ipv4`
  accepts any number of labels. `ConnectionsClosed` names the three failures
  that leave a connection open.
* mlab-ns. A country alone is ignored; the status of the reply is too.
* NDT. `TEST_PREPARE` without words reads the first element of an empty vector.
* mkapi. A sync works on a copy of the client, but reads `secrets_file` through
  a reference to the original when it dumps. An ASN or a country that is set
  alone is overwritten by the lookup of both. Registration checks the required
  values, the update does not. `list_tasks` and the methods of a task throw.
* OONI tests. An address that the control did not try does not advance the
  index of `web_connectivity.cpp:240`: the mark of each connection after it is
  written on one before. `WebVerdict` says what is left: no mark is lost, none
  is invented, and up to such an address each is where it belongs. Facebook
  Messenger throws out of the callback when all of its connections fail on the
  spot and the last service has none (`facebook_messenger.cpp:159`), the web test
  when its page came and the control has neither a page nor a failure, a
  submission at a line after the first that is JSON and no object; `CallsEnd`
  takes an exception for an end in these cases only.
* Traceroute. `error_cb_` is called twice when `init()` fails; a late answer is
  told for the next probe; IPv4's (3,13) is told as `OTHER`.
* Command line. `-e-` ends the scan with a word left over; `-g-foo` is read as
  `-g --foo`. The NDT and DASH summaries throw on an
  entry of a failed test, which is swallowed. The table of long
  options has no end (`utils.cpp:54-64`, `main.cpp:87`): for every long option
  that is not the whole name of one listed, `getopt_long.c:188` reads on behind
  it, with the 17 options of the program in memory of the vector that nobody has
  written. `Getopt` goes on with whatever may be there (`Beyond`), and
  `OptionsAsWritten` says nothing of such a command line.

## 5. What is proved

Each theorem holds for every value of the constants, from the named assumption
of its module if there is one.

**`WorkerProofs`**, from `WorkerAssumption`: `WorkerTypes`, `WorkerCounts`
(`ActiveCountsThreads`), `WorkerLosesNoJob` (`NoStrandedJob`), `WorkerIsFifo`,
`WorkerRunsOnce`, `WorkerWaitIsSound` (`WaitEmptyMeansDone`) and
`WorkerImplementsPool` (`Spec => Pool!PoolSpec`). `TypeOK` is inductive together
with the exact count of the live threads (`Counted`), since `++active` must stay
in range. `RunsOnce` and `FifoStart` are not inductive alone: `Placed` says that
the history of submissions has no repetition and is the concatenation of what
was started and what is queued, and that the started jobs are those that are
running or finished, so that a job taken from the queue is new everywhere else.
`WaitEmptyMeansDone` needs, besides `NoStrandedJob`, that every job waited for
was submitted (`WaitKnown`): when `active` is 0, by the count nothing runs, by
`NoStrandedJob` what is queued is unserved, and by `Placed` the rest is
finished. One lemma per action shows that each layer is preserved. For the
refinement, each action of the worker maps to an action of `JobPool` or to a
stuttering step, under the invariant.

**`TaskProofs`**: `TaskTypes`, `TaskInvariant`, `TasksExclude`
(`TasksDoNotOverlap`), `TaskTellsTruly` (`ToldMeansEndSeen`),
`NobodySleepsOnAnEvent` (`NoSleepOnEvent`), `TaskTellsInOrder`
(`EventsInOrder`) and `TaskImplementsChannel` (`ImplementsChannel`), for any
number of tasks and readers. The invariant has,
for each task, the stages its thread can be in with what its flags are there
(`Stages`), that it holds the semaphore between acquiring and releasing it
(`Exclusive`), that the queue is what was emitted and not yet taken (`Queue`),
and what was emitted when (`Ending`); and, for each reader, what it holds and what
it may be told (`Reader`). That nobody sleeps on an event needs the thread's
place between queueing an event and its notification; that the told end is the
true one needs `running` and the queue together, since the reader looks at both
under the mutex and the thread writes the first without it. The order of the
events is a statement about a whole history, to which a step appends one: beside
it (`InOrder`) the proof keeps what the place of the thread says of that history,
that is whether the run has been announced, refused or ended (`MayGoOn`,
`Ordered`).

The same module proves of `Api` that the loop of `BaseTest::run()` is one of the
applications that `Task` allows (`LoopIsAnApplication`: `ApiSpec => Spec`), so
that all of the above holds of it, and `ApiInvariant` and `CallbacksComeInOrder`
(`CallbacksInOrder`), for any number of tasks and readers. The object exists as
long as the loop uses it, since only its own thread destroys it, and the loop
leaves only when it was told that the task is over (`Driven`). Each callback
depends on one before it, not on one to come (`InTurn`): so a call that is
appended needs only what was called so far. What was called so far is what the
events received so far say (`TellOf`), and the order of those is
`TaskTellsInOrder`, since the received events are the first ones of the emitted;
when the task is over they are all of them (`TaskTellsTruly`).

And, from `GetoptConstants` (the options are a sequence of records, none of the
letters is one of getopt()'s own signs, the names and letters of the program's
options differ, and what is behind them is a sequence of options),
`ScannerInvariant` and `OptionsComeAsWritten` (`OptionsAsWritten`), for any
options, nettests and words of any length, and for anything that may be behind
the table of long options. The invariant (`AsFarAsScanned`) is that, unless a
long option is not in full, the options returned so far, before what `place`
and the words from `optind` on mean (`Ahead`), are what the words mean: of the
program's, and behind the reset of the nettest's. An option that is named in
full is found first, whatever follows the table (`MatchesNamed`). A call of
getopt() agrees with what is ahead (`CallAgrees`): it returns the first option
of it and leaves the rest, or ends where it ends, or refuses what has no
meaning; or a long option is ahead that is not in full. That a
word means something is an induction from the last word on (`MeaningsGoOn`),
and so are the first letter of a cluster that is no flag and the first equals
sign; these rest on the least element of a set of numbers (`Least`, `Reached`),
which needs no operator as a parameter. The proof found that the reference was
wrong of a dash behind flags, in a nettest that also takes words: the scan ends
with `optind` at that word, which is left to the nettest whole.

**`ReactorProofs`**, from `ReactorAssumption`: `ReactorUsesWorker`, that the
worker inside the reactor only goes through steps of `Worker`, so that
all of `WorkerProofs` holds of it; and `ReactorLeavesNothing`
(`RunLeavesNothing`), for any events, jobs, threads and calls of `stop()`. When
`run()` decides to return it has seen dispatch return 1 and then a worker
without threads. Dispatch saw an empty event base; what is in it now was posted
afterwards, by a job that was still running (`EmptyWasTrue`), and by
`WorkerLosesNoJob` no job is left behind (`Served`).

**`NettestProofs`**, from `NettestAssumption` and `SettingsAreJson`: `NettestInvariant`,
`SubmissionsAreCollected` (`SubmittedMeansCollected`), `NettestCompletes`
(`CompleteUnlessStopped`) and `NettestIsACampaign` (`ImplementsCampaign`), for
any settings, inputs, number of chains and failures of the file and of the
collector. The assumption says that there are as many clients as the settings
ask for chains. The invariant has, beside the types: how inputs and measurements
are numbered (`Numbered`); what each stage knows of its chains (`Stages`); the
reporters there are and their flags (`Reporters`); how far each operation on
them is (`Calls`); what has been told about each entry, and what the collector
has by then (`Told`); and that whatever stopped the nettest left its error
(`ErrorSet`). Two chains write through one reporter, and that is where it is
needed: what a chain will tell follows from its own operation alone, whatever
the others have done to the flags in between.

The same module has `SettingsInvariant` and `SettingsAreHonoured`
(`SettingsHonoured`), for any settings in sections of any length. `Prepares` says
that, once it is accepted, the nettest stays what the processing of its settings
made of it (`Prepared`); that nothing is collected or told before it has opened
its report; and that with `no_collector` it has no reporter for the collector
and still collects and tells nothing. The rest is about `Prepared`, a recursive
function over the elements of a section nested in one over the fields. The
induction is over the positions of a section (`Reached`, `ForEachGoesOn`): up to
a position the nettest is refused exactly if one of the elements so far has to
be, and else has them all, each converted as its type asks, and a warning if one
of them could not be used. That an option that is set stays set needs that no
key comes twice in an object (`OtherField`). `SettingsAreJson` states that and
no more of the JSON library: arrays and objects are sequences, the members of an
object have different keys, and an integer is a number.

**`NetProofs`**, from `RedirectsAreNumbers` and `PeersTakeTurns`:
`RequestInvariant` and `RequestClosesConnections` (`ConnectionsClosed`), for any
settings, servers, proxies and numbers of addresses. A request is in one of seven
phases (at rest, looking a name up, trying addresses, negotiating with a proxy,
telling its caller, exchanging data, closed), each of which says which connection
there is and which handlers are on it; which callback may come next depends on
these alone. A lookup has one context with evdns and none otherwise (`Contexts`).

On top of it, `WholeInvariant` and `ResponsesAreWhole` (`ResponseWhole`), for any
parts that the peers send in any number of pieces. `WholeInv` says where the data
of a connection is. Without a proxy (`Direct`) what the server has sent is the
response, then what the callback of `net::read()` is about to take, then the
buffer of libevent; nothing is read that nobody waits for; and the end of file,
whether it is an event, suppressed or with the callback, comes after all of it,
so that a response that ends there has lost nothing. Through a proxy (`Relayed`)
reading is never disabled, and what arrives before the reader has set its handler
is not told to anybody. Either nothing was dropped so far (`Kept`) or the head of
the response was (`Lost`), and without that the parser accepts nothing: this
needs that one response comes, which is what `PeersTakeTurns` says of a proxy. It
answers each of the two requests of SOCKS5 with one part and then passes on the
answer to one request; a proxy that pushed a second head would have it taken for
the first. Of servers the assumption says only that they send parts. What the
parser accepts is known from its state (`ParsedAs`). It is a recursive function
over the parts of a piece, and the induction is over the positions in the piece
(`Reached`, `FeedGoesOn`, from the well-founded order of the numbers), which
needs no operator as a parameter. While the proxy is asked (`Asking`) the
invariant counts the turns that it has taken. TLC found `WholeInv` to hold on
the instance of the run `http`, and on one with more servers and proxies, before
it was proved.

And, from `WireConstants`, `WireInvariant` and `MessagesAreWhole`
(`MessagesWhole`), for any messages, names, headers, bodies, lines and sizes of
the pieces. The assumption gives the shape of what a peer says: bytes, a message
of NDT whose length fits in 16 bits (`format_any` refuses to write any other), a
SOCKS5 answer of two bytes to the first request, headers of HTTP that have names. `WireInv` has for each protocol what
its reader has read, and says that the rest is in the buffer and behind it.
`NdtRead`: the messages passed up are the first ones that were sent; what is
kept and what has not come are the encodings of the others, or the text of the
next one and then these, with the type and length that its header had. This
needs that the two bytes of a length give back the number that was written
(`read_uint`). `SocksRead`: what is kept never holds an answer in full, so
nothing that follows the answer is taken with it; a name of 128 bytes or more is
left out, as its length is read as negative. `LinesRead`: the lines passed up
and what is left are, put together, what was sent, and no line has a line feed
but at its end. `HttpReads` says at which character of the status, of which
header, or of the body the parser is, and what it has kept of it in the field
and the value whose header is not complete. A piece may end anywhere in these,
and the parser is called back for each run of characters within a piece; the
invariant holds between any two characters of a piece if the characters held
back, which are of one item, are counted as read (`SymbolExecuted`), and so of a
piece by induction over its positions.

**`SpeedProofs`**, from `DashBounds`, `NdtBounds` and `LoggerAssumption`: of
DASH, `DashInvariant`, `DashCompletes` (`DashComplete`), `DashRemovesAddresses` and
`DashRateFollowsSpeed` (`RateFollowsSpeed`), for any rates, speeds and
iterations: which transports are open at which step, and that records and
iterations go together. That the rate follows the speed rests on the rates being
increasing, as the table of the code is: the rate found is below the speed, and
the least index above it is the next one. Of NDT, `NdtInvariant`,
`NdtClosesStreams` (`StreamsClosed`) and `NdtTellsTruly` (`NdtTruthful`), for
any number of streams and any messages: where there is a control connection and
a test (`Phased`, `Placed`), which streams each place of a test has
(`Streamed`), and what the entry holds by then (`Noted`). Of the logger,
`LoggerInvariant` and `LoggerTellsProgress` (`ProgressTold`), for any numbers of
entries, iterations and samples, any order of the tests that an NDT server
grants, and a failure at any point. The assumption gives the shape of a client,
and fewer samples in a transfer than the twenty half seconds that its progress is
divided by. The invariant says that what was told rises up to a ceiling
(`Rising`, `Tells`), that of what the place tells next: for entries and DASH it
is the share of what is done, a quotient that grows; for NDT the sum of what its
tests have added so far, which together with the most that the tests left may add
(`Left`, `Spent`) stays below the end. Beside it `SameLines` says that the lines
of the log file are, one by one, those of the queue after the warnings of the
settings, and all of them while the file has room.

**`OoniProofs`**: the clients of the backend. `SubmissionInvariant` and
`SubmissionStoresTheFile` (`SubmittedWhole`), for any files and any number of
submissions: what is stored is what was read, up to the position in the file,
one less or equal according to where the request in flight is; a report is
closed only when that is the whole file, and "ok" is told only then.
`OrchestraInvariant` and `OrchestraKeepsIdentity` (`IdentityKept`), for any
number of syncs, tokens, crashes and lost answers: the invariant ties the
request in flight to the account in memory and to the one in the file, and
bounds the number of accounts by one more than the faults there were, as only an
answer lost, or a process that died between registration and dump, makes a
second account. `MkapiTellsMetadata` (`MetadataTold`), for any values and
locations: what the copy holds is what was set at the call, and the lookup
writes both the ASN and the country or none. `TracerouteAnswersProbes`
(`ProbesAnswered`), for any number of hops: the outstanding probe, the answers
in flight and the callbacks owed are counted together (`Traced`, `Counted`), and
an answer in the socket is of the last probe as long as none was given up
(`Answered`).

**`VerdictProofs`**, from `MessengersConstants`, `MiddleboxConstants` and
`WebConstants`: `VerdictInvariant` and `OoniVerdictsFollow` (`VerdictsFollow`),
for any names, addresses, endpoints, pages, headers and invalid lines. There is
an invariant for each test; it says which measurements have called back in each
stage (`CalledBack`: those of the stages before, and of this one all that are
not waited for), and what the entry says of those alone. So the last callback
finds an entry that is true of all the others, whichever they were. In web
connectivity the records of the connections cover the addresses that were
resolved and no others (`WebRecords`), from which the agreement with the control
follows. The marks of the connections are counted: the place of an address among
those that the control knows grows with its place among all (`CountedInOrder`),
so that the marks are moved forward one to one (`MarksAre`, `MarksCounted`). That
"dns" is no service of Facebook
keeps its queries and its connections apart.

**Only model-checked.**

* Liveness (`QueuedJobRuns`, `RunReturns`, `EventDelivered`, `TaskEnds`,
  `WaitReturnsOrMissed`, `SessionEnds`, `RequestEnds`, `ClientEnds`,
  `CallsEnd`): it rests on fairness and on ENABLED, which the prover does not
  handle.
* `CommandLineHonoured` and `NamesKept`: they compare what folds, filters and
  nested recursive functions compute from sequences of any length with what
  they should, which needs induction over data. The library states it for
  operators, which the provers cannot instantiate. The parser of `Http`, the
  sections of `Settings`, the words of `Getopt` and the encodings and the
  callbacks of `Wire` are such computations that were proved position by
  position instead.

## 6. What is not modelled

* Vendored code: `http_parser`, `mkcurl`, and the test framework
  (`include/private/catch.hpp`, which alone is 17,881 of the repository's lines
  of C and C++). Of `http_parser` the modules have what its callbacks see.
* OpenSSL, libevent and the kernel are external: they are modelled from how the
  code uses them, with every outcome that it tells apart.
* The utilities of `common/`: pure functions on strings and numbers without
  state, of which `Endpoints` and `Settings` have what decides something.
* The wording of log lines, the JSON of entries and of the bouncer's and
  mlab-ns's replies: data that no property tells apart.
* The stubs that throw (`list_tasks` and the methods of `Task` in `ooni/`), and
  `permute_args()` of `getopt_long`, which this program never reaches.
* The estimates of data usage for DNS, and `on_event` and `on_eof` of the
  logger, which nobody in the program registers.
* In `Nettest` and `Submission`, the collector is an answer or an error per
  request. In `Nettest`, `collected` is what it has acknowledged: an entry that
  it stored without the acknowledgement arriving counts as failed, as for the
  code; `Submission` keeps what it has stored apart from what it has told.
* Of JSON, options and names, texts are classes, as the headers of `Settings`,
  `CommandLine` and `Endpoints` say.
