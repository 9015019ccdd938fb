------------------------------- MODULE Probes -------------------------------
(***************************************************************************)
(* What the tests of ooni/ have in common.  A test goes through stages; in *)
(* each of them it starts measurements over ooni/templates.cpp, whose      *)
(* callbacks write into the entry of the report in whatever order they     *)
(* come, and the last callback begins the next stage.  The shared_ptr that *)
(* hold the entry and the counters are the variables.                      *)
(***************************************************************************)
EXTENDS Integers, Sequences, FiniteSets

VARIABLES
  test,     \* the test that runs, its options and input
  stage,    \* the stage whose callbacks come
  waiting,  \* the measurements of the stage that have not called back
  results,  \* how each measurement of the test ended
  entry,    \* what the report's entry, and what is on its way there, says
  open      \* the transports that are connected

probeVars == <<test, stage, waiting, results, entry, open>>

\* What a template may call back with.  dns_query() calls back with addresses:
\* its callers do not tell a name that has none from one that fails.
tcp_connect == {"ok", "failed"}
http_request == {"ok", "failed"}

TestInit(t, first, measurements, e) ==
  /\ test = t /\ stage = first /\ waiting = measurements
  /\ results = << >> /\ entry = e /\ open = {}

Record(measurement, result) ==
  results' = [m \in DOMAIN results \cup {measurement} |->
                IF m = measurement THEN result ELSE results[m]]

\* A callback of the stage counts itself; the last one calls the `cb` of it.
IsLast(measurement) == waiting = {measurement}

StillWaiting(measurement) == waiting' = waiting \ {measurement} /\ UNCHANGED stage

Begin(next, measurements) == stage' = next /\ waiting' = measurements

\* mk::parallel() with a lane for each third measurement (common/parallel.hpp):
\* a lane goes on when its measurement calls back.
Lanes == 3
Running(order) ==
  {m \in waiting : \E i \in DOMAIN order :
     order[i] = m /\ (i > Lanes => order[i - Lanes] \notin waiting)}

\* close() on a transport that never connected has nothing to close, and its
\* callback comes when the transport is freed.
Keep(measurement, result) ==
  open' = IF result = "ok" THEN open \cup {measurement} ELSE open

\* A transport closes some time after close(), whose callback does nothing,
\* unless the test waits for it.
Closed ==
  /\ \E txp \in open \ waiting : open' = open \ {txp}
  /\ UNCHANGED <<test, stage, waiting, results, entry>>

Elements(sequence) == {sequence[i] : i \in DOMAIN sequence}

\* What was measured, once the test is over, of those measurements.
Seen(measurements, result) ==
  {m \in measurements : m \in DOMAIN results /\ results[m] = result}
=============================================================================
