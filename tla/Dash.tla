-------------------------------- MODULE Dash --------------------------------
(***************************************************************************)
(* The DASH client of Neubot (neubot/dash_impl.hpp, nettests/dash.cpp): it *)
(* negotiates with a server on one connection, downloads on a second one   *)
(* at rates that follow the speed it sees, and gives its results to the    *)
(* server on the first.  Rates and speeds are in kbit/s.                   *)
(***************************************************************************)
EXTENDS Integers, Sequences

CONSTANTS
  DashOptions,     \* what the settings may say (see MCSpeed)
  Rates,           \* dash_rates(), in increasing order
  Speeds,          \* the speeds that a download may have
  MaxRate,         \* INT_MAX / 1000: a higher rate makes the count overflow
  MaxNegotiations  \* MAX_NEGOTIATIONS: 512 in the code

ASSUME DashBounds ==
  /\ Rates \in Seq(Nat \ {0}) /\ Rates # <<>>
  /\ \A i, j \in DOMAIN Rates : i < j => Rates[i] < Rates[j]
  /\ Speeds \subseteq Nat /\ MaxRate \in Nat /\ MaxNegotiations \in Nat
  /\ \A o \in DashOptions : o.max_iterations \in Nat

VARIABLES
  conf,      \* the settings
  step,      \* what waits for its callback
  transports,\* those that are open: "negotiate", "test"
  loop,      \* DashLoopCtx: iteration, speed_kbit, the rate in use, the count
  negotiation, \* how many requests to negotiate were made
  data,      \* entry["receiver_data"]: the address that each record holds
  testError, \* the error of the test
  failure    \* entry["failure"], or "unset"

dashVars == <<conf, step, transports, loop, negotiation, data, testError, failure>>

NewLoop == [iteration |-> 1, speed_kbit |-> -1, rate_kbit |-> 0, count |-> "none"]

DashStart(at) ==
  /\ step = at /\ transports = {} /\ loop = NewLoop
  /\ negotiation = 0 /\ data = <<>> /\ testError = "none" /\ failure = "unset"
DashInit == conf \in DashOptions /\ DashStart("negotiate")
DashIdle == conf = [hostname |-> FALSE] /\ DashStart("idle")

-----------------------------------------------------------------------------
(* The choice of the rate.                                                 *)

\* Mutant of select_lower_rate_index: the index where the loop ends.
select_next_rate_index(speed) ==
  IF \A i \in DOMAIN Rates : Rates[i] < speed THEN Len(Rates)
  ELSE CHOOSE i \in DOMAIN Rates :
         Rates[i] >= speed /\ \A j \in 1 .. i - 1 : Rates[j] < speed

\* The loop runs to the first rate that is not lower, or past the last one
\* (what is read there makes no difference), and one step back unless it is
\* at the first.  Indices start at 1 here.
select_lower_rate_index(speed) ==
  LET stop == IF \A i \in DOMAIN Rates : Rates[i] < speed THEN Len(Rates) + 1
              ELSE CHOOSE i \in DOMAIN Rates :
                     Rates[i] >= speed /\ \A j \in 1 .. i - 1 : Rates[j] < speed
  IN IF stop > 1 THEN stop - 1 ELSE stop

\* Each option is looked at in every iteration.
invalid_option == conf.option = "bad"

\* Mutant of Finished: the last iteration is not made.
FinishedEarly == loop.iteration >= conf.max_iterations

Finished == loop.iteration > conf.max_iterations

\* The first estimate, if there is none.
initial_speed ==
  IF loop.speed_kbit >= 0 THEN loop.speed_kbit
  ELSE IF conf.use_fixed_rates THEN Rates[1] ELSE conf.initial_rate

rate(speed) ==
  IF conf.use_fixed_rates THEN Rates[select_lower_rate_index(speed)]
  ELSE IF conf.constant_bitrate > 0 THEN conf.constant_bitrate ELSE speed

\* The bytes that take elapsed_target; the product may overflow.
count(rate_kbit) ==
  IF rate_kbit > MaxRate THEN {"negative", "some"}
  ELSE IF conf.elapsed_target = 0 \/ rate_kbit = 0 THEN {"zero"} ELSE {"some"}

\* The speed of the next iteration.  The relative error is negative, so a slow
\* download leads to the lowest rate; but no bytes in no time are not a number,
\* and what it is converted to is undefined.
next_speed(speed, slow) ==
  IF ~(conf.fast_scale_down /\ slow) THEN {speed}
  ELSE IF conf.elapsed_target = 0 /\ speed = 0 THEN Speeds \cup {-1}
  ELSE {Rates[1]}

-----------------------------------------------------------------------------
(* negotiate().                                                            *)

\* Every way to get an HTTP answer may fail, and its status may not be 200.
http_errors == {"Http", "HttpRequestFailed"}

mlabns_query == {"ok", "Mlabns"}

CallBack(err) == failure' = (IF err = "ok" THEN "none" ELSE err) /\ step' = "done"

\* negotiate_impl(): the server is given, or mlab-ns knows one.
negotiate ==
  /\ step = "negotiate"
  /\ \E err \in IF conf.hostname THEN {"ok"} ELSE mlabns_query :
       IF err = "ok" THEN step' = "connect" /\ UNCHANGED failure ELSE CallBack(err)
  /\ UNCHANGED <<conf, transports, loop, negotiation, data, testError>>

\* The callback of request_connect() in negotiate_with_().
OnNegotiateConnect ==
  /\ step = "connect"
  /\ \/ transports' = {"negotiate"} /\ step' = "negotiating" /\ UNCHANGED failure
     \/ CallBack("Connect") /\ UNCHANGED transports
  /\ UNCHANGED <<conf, loop, negotiation, data, testError>>

\* txp->close(), which calls back with the error later.
CloseNegotiation(err) == step' = "closing" /\ failure' = err

TooMany == negotiation > MaxNegotiations

\* negotiate_loop_(): until we are unchoked, or it was too often.
negotiate_loop_ ==
  /\ step = "negotiating"
  /\ IF TooMany
     THEN CloseNegotiation("too_many_negotiations") /\ UNCHANGED negotiation
     ELSE \/ \E err \in http_errors \cup {"JsonProcessing"} :
               CloseNegotiation(err) /\ UNCHANGED negotiation
          \/ negotiation' = negotiation + 1 /\ UNCHANGED <<step, failure>>
          \/ step' = "testConnect" /\ UNCHANGED <<negotiation, failure>>
  /\ UNCHANGED <<conf, transports, loop, data, testError>>

NegotiationClosed ==
  /\ step = "closing"
  /\ transports' = transports \ {"negotiate"}
  /\ CallBack(failure)
  /\ UNCHANGED <<conf, loop, negotiation, data, testError>>

-----------------------------------------------------------------------------
(* The test.                                                               *)

\* The callback of run_impl(): an error is logged, and the results collected.
TestFails(err) == testError' = err /\ step' = "collect" /\ UNCHANGED failure

\* ctx->cb: the transport of the test is closed before the callback.
ctx_cb(err) == testError' = err /\ step' = "testClosing" /\ UNCHANGED failure

OnTestConnect ==
  /\ step = "testConnect"
  /\ \/ /\ transports' = transports \cup {"test"}
        /\ step' = "loop" /\ UNCHANGED <<testError, failure>>
     \/ TestFails("Connect") /\ UNCHANGED transports
  /\ UNCHANGED <<conf, loop, negotiation, data>>

\* run_loop_(), up to the request.
run_loop_ ==
  /\ step = "loop"
  /\ CASE invalid_option -> ctx_cb("Value") /\ UNCHANGED loop
       [] ~invalid_option /\ Finished -> ctx_cb("ok") /\ UNCHANGED loop
       [] OTHER ->
            /\ \E c \in count(rate(initial_speed)) :
                 loop' = [loop EXCEPT !.speed_kbit = initial_speed,
                                      !.rate_kbit = rate(initial_speed), !.count = c]
            /\ step' = "download"
            /\ UNCHANGED <<testError, failure>>
  /\ UNCHANGED <<conf, transports, negotiation, data>>

\* A Connection: close comes from a middlebox, and time may stand still.
DownloadFails ==
  /\ step = "download"
  /\ \E err \in http_errors \cup {"MiddleboxDetected", "negative_time_error"} : ctx_cb(err)
  /\ UNCHANGED <<conf, transports, loop, negotiation, data>>

NewRecord == [iteration |-> loop.iteration, internal_address |-> "ours", real_address |-> "ours"]

\* The callback of request_recv_response().
Downloaded ==
  /\ step = "download"
  /\ \E speed \in Speeds, slow \in (IF conf.elapsed_target = 0 THEN {TRUE} ELSE BOOLEAN) :
       /\ loop.count = "zero" => speed = 0
       /\ \E next \in next_speed(speed, slow) :
            loop' = [loop EXCEPT !.speed_kbit = next, !.iteration = @ + 1]
  /\ data' = Append(data, NewRecord)
  /\ step' = "loop"
  /\ UNCHANGED <<conf, transports, negotiation, testError, failure>>

TestClosed ==
  /\ step = "testClosing"
  /\ transports' = transports \ {"test"}
  /\ TestFails(testError)
  /\ UNCHANGED <<conf, loop, negotiation, data>>

sanitize_entry_(records) ==
  [i \in DOMAIN records |-> [records[i] EXCEPT !.internal_address = "127.0.0.1",
                                               !.real_address = "127.0.0.1"]]

\* collect_(): the records go to the server as they are, and are sanitized
\* whatever it answers; its error is the one that is told.
collect_ ==
  /\ step = "collect"
  /\ \E err \in {"ok", "JsonProcessing"} \cup http_errors : CloseNegotiation(err)
  /\ data' = sanitize_entry_(data)
  /\ UNCHANGED <<conf, transports, loop, negotiation, testError>>

DashNext ==
  \/ negotiate \/ OnNegotiateConnect \/ negotiate_loop_ \/ NegotiationClosed
  \/ OnTestConnect \/ run_loop_ \/ DownloadFails \/ Downloaded \/ TestClosed
  \/ collect_

DashOver == step \in {"idle", "done"}

-----------------------------------------------------------------------------

DashTypeOK ==
  /\ step \in {"idle", "negotiate", "connect", "negotiating", "testConnect", "loop",
               "download", "testClosing", "collect", "closing", "done"}
  /\ loop.speed_kbit \in Int /\ loop.rate_kbit \in Nat
  /\ negotiation \in 0 .. MaxNegotiations + 1
  /\ Len(data) = loop.iteration - 1

\* "sanitize_entry_ removes the user IP address from the JSON document that is
\* going to be saved by OONI and submitted to the collector": from every
\* record, on whatever path the client came to its end.
AddressesRemoved ==
  step = "done" => \A i \in DOMAIN data :
    data[i].internal_address # "ours" /\ data[i].real_address # "ours"

\* With the fixed rates, the one in use is the highest that is lower than the
\* speed, or else the lowest of all.
RateFollowsSpeed ==
  step = "download" /\ conf.use_fixed_rates =>
    LET lower == {i \in DOMAIN Rates : Rates[i] < loop.speed_kbit} IN
    /\ \E i \in DOMAIN Rates : Rates[i] = loop.rate_kbit
    /\ \A i \in lower : Rates[i] <= loop.rate_kbit
    /\ IF lower = {} THEN loop.rate_kbit = Rates[1] ELSE loop.rate_kbit < loop.speed_kbit

\* A test that ended well has a record of each of its iterations, and the
\* client leaves no transport open, and no address, however it ends.
DashComplete ==
  /\ testError = "ok" => Len(data) = conf.max_iterations
  /\ step = "done" => transports = {}
  /\ step = "collect" => transports = {"negotiate"}
  /\ AddressesRemoved

=============================================================================
