-------------------------------- MODULE Ndt --------------------------------
(***************************************************************************)
(* The client of NDT (ndt/), from mlab-ns (mlabns/mlabns_impl.hpp) to the  *)
(* entry of its nettest (nettests/ndt.cpp).  The server is not trusted: an *)
(* exchange with it has the outcomes that the code tells apart, as a set   *)
(* of errors, "ok", or "again" where the message calls for another one.    *)
(***************************************************************************)
EXTENDS Naturals, Sequences

CONSTANTS
  NdtOptions, \* what the settings may say (see MCSpeed)
  Suites,     \* the lists of tests that a server may grant
  MaxStreams, \* connections of a download: 8 in the code
  MaxAgain    \* bound: messages of the server that only call for another

ASSUME NdtBounds == MaxStreams \in Nat \ {0} /\ MaxAgain \in Nat

VARIABLES
  options, \* the settings
  phase,   \* the phase of the protocol that waits for its callback
  error,   \* what disconnect_and_callback() was called with
  control, \* ctx->txp
  granted, \* ctx->granted_suite
  test,    \* the test that runs, and where it is
  streams, \* its connections: to be opened, open, being closed; and dropped
  entry,   \* the entry of the measurement
  again    \* the messages of the server that may still call for another

ndtVars == <<options, phase, error, control, granted, test, streams, entry, again>>

NoTest == [id |-> "none", at |-> "nowhere"]
NoStreams == [left |-> 0, open |-> 0, closing |-> 0, flows |-> 0, err |-> "ok", dropped |-> 0]
\* id_to_name(), for the tests that run_tests() knows.
Names == {"upload", "meta", "download", "download_ext"}
NoOptions == [port |-> "none"]
NewEntry == [failure |-> "none", test_s2c |-> <<>>, test_c2s |-> <<>>,
             phase_result |-> [name \in Names |-> "none"]]

NdtInit ==
  /\ options \in NdtOptions
  /\ phase = "run" /\ error = "none" /\ control = FALSE
  /\ granted = <<>> /\ test = NoTest /\ streams = NoStreams
  /\ entry = NewEntry /\ again = MaxAgain

\* Where the other client runs.
NdtIdle ==
  /\ options = NoOptions
  /\ phase = "idle" /\ error = "none" /\ control = FALSE
  /\ granted = <<>> /\ test = NoTest /\ streams = NoStreams
  /\ entry = NewEntry /\ again = 0

-----------------------------------------------------------------------------
(* mlab-ns: each option is "" where it is not set.                         *)

\* The country alone is not enough to make a query.
as_query(o) ==
  CASE o.policy = "" /\ o.metro = "" /\ o.address_family = "" -> "ok"
    [] o.policy = "bad" -> "InvalidPolicy"
    [] o.policy # "bad" /\ o.country = "bad" -> "InvalidCountry"
    [] o.policy # "bad" /\ o.country # "bad" /\ o.metro = "bad" -> "InvalidMetro"
    [] o.policy # "bad" /\ o.country # "bad" /\ o.metro # "bad"
         /\ o.address_family = "bad" -> "InvalidAddressFamily"
    [] OTHER -> "ok"

\* The request fails, or its answer is not JSON, whatever its status.
request_json_string == {"ok", "Http", "JsonProcessing"}

\* And the answer may lack what is looked for.
query(o, toolOk) ==
  IF as_query(o) # "ok" THEN {as_query(o)}
  ELSE IF ~toolOk THEN {"InvalidToolName"} ELSE request_json_string \cup {"JsonProcessing"}

-----------------------------------------------------------------------------
(* The messages (ndt/messages_impl.hpp): type, length, JSON, "msg".        *)

read_ll == {"ok", "ReadingMessageTypeLength", "ReadingMessagePayload"}
read_json == read_ll \cup {"JsonProcessing"}
read_msg == read_json \cup {"JsonProcessing"}
format_any(long) == IF long THEN {"MessageTooLong"} ELSE {"ok"}
format_msg_extended_login == format_any(FALSE)
format_test_msg == format_any(FALSE)

\* net::write() of a message that was formatted.
write(failed) == {"ok", failed}

\* A message of the type that is expected; another one; or none.
Expect(read, failed, wrong) ==
  {IF err = "ok" THEN "ok" ELSE failed : err \in read} \cup {wrong}

-----------------------------------------------------------------------------
(* The phases (ndt/protocol_impl.hpp).                                     *)

connect == {"ok", "ConnectControlConnection"}
send_extended_login ==
  IF format_msg_extended_login = {"ok"} THEN write("WriteExtendedLoginMessage")
  ELSE {"FormatExtendedLoginMessage"}
recv_and_ignore_kickoff == {"ok", "ReadingKickoffMessage", "InvalidKickoffMessage"}

\* The server may be at fault or busy, or let us wait, with a heartbeat or not.
wait_in_queue ==
  Expect(read_msg, "ReadingSrvQueueMessage", "NotSrvQueueMessage")
  \cup {"InvalidSrvQueueMessage", "QueueServerFault", "QueueServerBusy", "again"}
recv_version == Expect(read_msg, "ReadingServerVersionMessage", "NotServerVersionMessage")
recv_tests_id == Expect(read_msg, "ReadingTestsIdMessage", "NotTestsIdMessage")
recv_results_and_logout ==
  Expect(read_msg, "ReadingResultsOrLogout", "NotResultsOrLogout") \cup {"again"}

\* The end of file, or a second of silence, is what should come.
wait_close == {"ok", "WaitingClose", "DataAfterLogout"}

Outcomes(p) ==
  CASE p = "connect" -> connect
    [] p = "login" -> send_extended_login
    [] p = "kickoff" -> recv_and_ignore_kickoff
    [] p = "queue" -> wait_in_queue
    [] p = "version" -> recv_version
    [] p = "tests_id" -> recv_tests_id
    [] p = "results" -> recv_results_and_logout
    [] p = "wait_close" -> wait_close

\* run_with_specific_server(): the phases, in order.
After(p) ==
  CASE p = "connect" -> "login"
    [] p = "login" -> "kickoff"
    [] p = "kickoff" -> "queue"
    [] p = "queue" -> "version"
    [] p = "version" -> "tests_id"
    [] p = "tests_id" -> "run_tests"
    [] p = "run_tests" -> "results"
    [] p = "results" -> "wait_close"

\* The callback of ndt::run(), or the close() before it.
disconnect_and_callback(err) ==
  /\ error' = err
  /\ phase' = IF control THEN "closing" ELSE "called"

\* The end of a phase.
PhaseEnds ==
  /\ phase \in {"connect", "login", "kickoff", "queue", "version", "tests_id",
                "results", "wait_close"}
  /\ \E err \in Outcomes(phase) :
       \/ /\ err = "again" /\ again > 0
          /\ again' = again - 1
          /\ UNCHANGED <<phase, error, control, granted>>
       \/ /\ err # "again" /\ (err # "ok" \/ phase = "wait_close")
          /\ disconnect_and_callback(err)
          /\ UNCHANGED <<control, granted, again>>
       \/ /\ err = "ok" /\ phase # "wait_close"
          /\ phase' = After(phase)
          /\ control' = (control \/ phase = "connect")
          /\ IF phase = "tests_id" THEN granted' \in Suites ELSE UNCHANGED granted
          /\ UNCHANGED <<error, again>>
  /\ UNCHANGED <<options, test, streams, entry>>

\* txp->close() has called back.
Disconnected ==
  /\ phase = "closing"
  /\ control' = FALSE /\ phase' = "called"
  /\ UNCHANGED <<options, error, granted, test, streams, entry, again>>

run_impl ==
  /\ phase = "run"
  /\ IF options.port = "bad" THEN error' = "InvalidPort" /\ phase' = "called"
     ELSE \E err \in IF options.address THEN {"ok"}
                     ELSE query(options.mlabns, options.tool = "ok") :
            IF err = "ok" THEN phase' = "connect" /\ UNCHANGED error
            ELSE error' = "MlabnsQuery" /\ phase' = "called"
  /\ UNCHANGED <<options, control, granted, test, streams, entry, again>>

-----------------------------------------------------------------------------
(* The tests (ndt/test_*_impl.hpp).                                        *)

Downloads == {"download", "download_ext"}

run_tests ==
  /\ phase = "run_tests" /\ test = NoTest
  /\ IF granted = <<>>
     THEN phase' = After(phase) /\ UNCHANGED <<error, granted, test>>
     ELSE /\ granted' = Tail(granted)
          /\ IF Head(granted) \in Names
             THEN /\ test' = [id |-> Head(granted), at |-> "prepare"]
                  /\ UNCHANGED <<phase, error>>
             ELSE /\ disconnect_and_callback(IF Head(granted) = "number" THEN "UnknownTestId"
                                             ELSE "InvalidTestId")
                  /\ UNCHANGED test
  /\ UNCHANGED <<options, control, streams, entry, again>>

At(step) == test' = [test EXCEPT !.at = step]

\* The callback of a test: its error is noted, and the next one runs.  Its
\* connections that are open belong to nobody now.
TestEnds(err) ==
  /\ test' = NoTest
  /\ entry' = [entry EXCEPT !.phase_result[test.id] = err]
  /\ streams' = [NoStreams EXCEPT !.dropped = streams.dropped + streams.open]

Unmoved == UNCHANGED <<options, phase, error, control, granted>>

\* A step of a test that only goes on, or ends it with an error.
Step(from, errors, to) ==
  /\ test.at = from
  /\ \E err \in errors :
       IF err = "ok" THEN At(to) /\ UNCHANGED <<streams, entry>> ELSE TestEnds(err)
  /\ Unmoved /\ UNCHANGED again

\* TEST_PREPARE is not read, or not good.
NotPrepared(params) ==
  /\ \E err \in (Expect(read_msg, "ReadingTestPrepare", "NotTestPrepare") \ {"ok"}) \cup params :
       TestEnds(err)
  /\ Unmoved /\ UNCHANGED again

\* Or it is: the connections that are to be opened.
Prepared(flows) ==
  /\ streams' = [streams EXCEPT !.left = flows, !.flows = flows]
  /\ At("connect") /\ UNCHANGED <<entry, again>> /\ Unmoved

PrepareMeta ==
  /\ test.at = "prepare" /\ test.id = "meta"
  /\ \/ NotPrepared({})
     \/ At("start") /\ UNCHANGED <<streams, entry, again>> /\ Unmoved

PrepareUpload ==
  /\ test.at = "prepare" /\ test.id = "upload"
  /\ NotPrepared({"InvalidPort"}) \/ Prepared(1)

\* A download has more parameters than the port.  With an empty message it looks
\* at the first of no words.
PrepareDownload ==
  /\ test.at = "prepare" /\ test.id \in Downloads
  /\ \/ NotPrepared({"InvalidPort", "InvalidDuration", "InvalidSnapsDelay", "InvalidNumStreams"})
     \/ \E flows \in 1 .. MaxStreams : Prepared(flows)
PrepareOfNoWords ==
  /\ test.at = "prepare" /\ test.id \in Downloads
  /\ phase' = "undefined"
  /\ UNCHANGED <<options, error, control, granted, test, streams, entry, again>>

\* net::connect_many(), or net::connect(): one connection after the other.
connect_many ==
  /\ test.at = "connect"
  /\ \/ /\ streams' = [streams EXCEPT !.left = @ - 1, !.open = @ + 1]
        /\ IF streams.left = 1 THEN At("start") ELSE UNCHANGED test
        /\ UNCHANGED entry
     \/ TestEnds("ConnectTestConnection")
  /\ Unmoved /\ UNCHANGED again

Start ==
  Step("start", Expect(read_msg, "ReadingTestStart", "NotTestStart"),
       IF test.id = "meta" THEN "send" ELSE "transfer")

StreamEnds(errors) ==
  /\ test.at = "transfer" /\ streams.open > 0
  /\ \E err \in errors :
       streams' = [streams EXCEPT !.open = @ - 1, !.closing = @ + 1, !.err = err]
  /\ Unmoved /\ UNCHANGED <<test, entry, again>>

\* on_flush() writes on until the time is over, and then calls on_error() itself.
UploadEnds == test.id = "upload" /\ StreamEnds({"ok", "Net", "broken_pipe"})

\* on_data() goes on until the server closes: the end of file is no error.
DownloadEnds == test.id \in Downloads /\ StreamEnds({"ok", "Net"})

\* Mutant of Completes: the first connection that ends completes the test.
CompletesAtOnce == TRUE

\* Mutant of Completes: the connection that was closed is not counted yet.
CompletesLate == streams.open + streams.closing = 0

\* Whether the connection that was closed is the last one.
Completes == streams.open + streams.closing = 1

\* With several connections the errors are not looked at.
coroutine_error ==
  IF test.id = "upload"
  THEN IF streams.err = "broken_pipe" THEN "ok" ELSE streams.err
  ELSE IF streams.flows = 1 THEN streams.err ELSE "ok"

\* The callback of txp->close().
StreamClosed ==
  /\ test.at = "transfer" /\ streams.closing > 0
  /\ IF Completes /\ coroutine_error # "ok" THEN TestEnds(coroutine_error)
     ELSE /\ streams' = [streams EXCEPT !.closing = @ - 1]
          /\ IF Completes THEN At("msg") ELSE UNCHANGED test
          /\ UNCHANGED entry
  /\ Unmoved /\ UNCHANGED again

\* How many samples of the speed there are: less than eight, or enough.
Samples == {"few", "enough"}

\* TEST_MSG is not read, or is another message.
NoMsg(read) == \E err \in Expect(read, "ReadingTestMsg", "NotTestMsg") \ {"ok"} : TestEnds(err)

\* The upload is in the entry from now on.
UploadMsg ==
  /\ test.at = "msg" /\ test.id = "upload"
  /\ \/ NoMsg(read_msg)
     \/ /\ \E n \in Samples : entry' = [entry EXCEPT !.test_c2s = Append(@, n)]
        /\ At("finalize") /\ UNCHANGED streams
  /\ Unmoved /\ UNCHANGED again

DownloadMsg ==
  /\ test.at = "msg" /\ test.id \in Downloads
  /\ NoMsg(read_json) \/ (At("send") /\ UNCHANGED <<streams, entry>>)
  /\ Unmoved /\ UNCHANGED again

\* What we have measured; and who we are.
SendSpeed ==
  test.id \in Downloads
    /\ Step("send", IF format_test_msg = {"ok"} THEN write("WritingTestMsg")
                    ELSE {"SerializingTestMsg"}, "finalizing")
SendMeta ==
  test.id = "meta"
    /\ Step("send", UNION {IF err = "ok" THEN write("WritingMeta") ELSE {"SerializingClient"} :
                           err \in format_any(options.longName)},
            "finalize")

Finalize == Step("finalize", Expect(read_msg, "ReadingTestFinalize", "NotTestFinalize"), "end")
TestOk == test.at = "end" /\ TestEnds("ok") /\ Unmoved /\ UNCHANGED again

\* add_to_report(): whether the server has told all that the statistics need; a
\* line that is not "name: value" is left out.
Web100 == BOOLEAN

\* finalizing_test(): the results of the server, until TEST_FINALIZE.
finalizing_test ==
  /\ test.at = "finalizing"
  /\ \/ NoMsg(read_msg) /\ UNCHANGED again
     \/ \E n \in Samples, web100 \in Web100 :
          /\ test' = NoTest
          /\ entry' = [entry EXCEPT
                 !.test_s2c = Append(@, [samples |-> n, web100 |-> web100,
                                         connect_times |-> streams.flows]),
                 !.phase_result[test.id] = "ok"]
          /\ UNCHANGED <<streams, again>>
     \/ again > 0 /\ again' = again - 1 /\ UNCHANGED <<test, streams, entry>>
  /\ Unmoved

-----------------------------------------------------------------------------
(* The nettest (nettests/ndt.cpp, ndt/utils.cpp).                          *)

compute_speed_throws(samples) == samples = "few"

\* The mean of the times to connect stands in for the RTT of the server.
compute_ping_throws(s2c) == ~s2c.web100 /\ s2c.connect_times = 0

compute_simple_stats_throws(e) ==
  \/ e.test_s2c = <<>> \/ compute_speed_throws(e.test_s2c[1].samples)
  \/ compute_ping_throws(e.test_s2c[1])
  \/ e.test_c2s = <<>> \/ compute_speed_throws(e.test_c2s[1])
compute_advanced_stats_throws(e) == e.test_s2c = <<>> \/ ~e.test_s2c[1].web100

\* What operator[] of the JSON library adds when the element does not exist.
Null == [samples |-> "null", web100 |-> FALSE, connect_times |-> 0]

\* Mutant of FailureOf: the error of the run is only used if nothing else is.
FailureForgotten(e) ==
  CASE compute_advanced_stats_throws(e) -> "compute_advanced_stats_error"
    [] ~compute_advanced_stats_throws(e) /\ compute_simple_stats_throws(e) ->
         "compute_simple_stats_error"
    [] OTHER -> "none"

\* The last failure that is noted is the one that stays.
FailureOf(e) ==
  CASE compute_advanced_stats_throws(e) -> "compute_advanced_stats_error"
    [] ~compute_advanced_stats_throws(e) /\ compute_simple_stats_throws(e) ->
         "compute_simple_stats_error"
    [] OTHER -> IF error = "ok" THEN "none" ELSE error

main ==
  /\ phase = "called"
  /\ phase' = "done"
  /\ entry' = [entry EXCEPT !.failure = FailureOf(entry),
                            !.test_s2c = IF @ = <<>> THEN <<Null>> ELSE @]
  /\ UNCHANGED <<options, error, control, granted, test, streams, again>>

NdtNext ==
  \/ run_impl \/ PhaseEnds \/ Disconnected \/ run_tests
  \/ PrepareMeta \/ PrepareUpload \/ PrepareDownload \/ PrepareOfNoWords
  \/ connect_many \/ Start \/ UploadEnds \/ DownloadEnds \/ StreamClosed
  \/ UploadMsg \/ DownloadMsg \/ SendSpeed \/ SendMeta \/ Finalize \/ TestOk
  \/ finalizing_test \/ main

NdtOver == phase \in {"idle", "done", "undefined"}

-----------------------------------------------------------------------------

\* A test that has begun its transfer goes on when all its connections are
\* closed, and not before; and when the caller is called back nothing is left,
\* but what a test dropped that failed before its transfer.
StreamsClosed ==
  /\ test.at \in {"msg", "finalize", "finalizing", "end"} \/ (test.at = "send" /\ test.id # "meta")
       => streams.open = 0 /\ streams.closing = 0
  /\ phase \in {"called", "done"} => ~control /\ test = NoTest

\* An entry without a failure has measured all: the session ended well, and
\* there is a download and an upload, as the results of the phases say.
NdtTruthful ==
  /\ phase = "done" /\ entry.failure = "none" =>
       error = "ok" /\ entry.test_c2s # <<>> /\ entry.test_s2c # <<>>
  /\ (\E d \in Downloads : entry.phase_result[d] = "ok") => entry.test_s2c \notin {<<>>, <<Null>>}
  /\ entry.phase_result["upload"] = "ok" => entry.test_c2s # <<>>

=============================================================================
