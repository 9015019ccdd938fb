-------------------------------- MODULE Ooni --------------------------------
(***************************************************************************)
(* The tests of ooni/, two clients of its backend, the one that submits a  *)
(* file again and the one that keeps the registry up to date, which has an *)
(* interface of its own in mkapi/, and the prober of traceroute/.  A       *)
(* process runs one of them at a time (see Task), so that a behaviour is   *)
(* of one of them.                                                         *)
(***************************************************************************)
EXTENDS Messengers, Middleboxes, WebConnectivity, Submission, Orchestra, Mkapi, Traceroute

backendVars == <<submissionVars, orchestraVars, mkapiVars, tracerouteVars>>
ooniVars == <<probeVars, backendVars>>

\* A behaviour of a client has no test, and no measurement to wait for.
Client(name) == TestInit([name |-> name], "done", {}, << >>)
TestInits == MessengersInit \/ MiddleboxesInit \/ WebInit

Init ==
  /\ TestInits \/ Client("submit_report") \/ Client("orchestra") \/ Client("mkapi")
     \/ Client("traceroute")
  /\ SubmissionInit /\ OrchestraInit /\ MkapiInit /\ TracerouteInit
  /\ test.name # "submit_report" => file = CHOOSE f \in Files : TRUE
  /\ test.name # "traceroute" => use_ipv4

Callback == (MessengersNext \/ MiddleboxesNext \/ WebNext) /\ UNCHANGED backendVars
TransportClosed == Closed /\ UNCHANGED backendVars

Resubmission ==
  /\ test.name = "submit_report" /\ SubmissionNext
  /\ UNCHANGED <<probeVars, orchestraVars, mkapiVars, tracerouteVars>>
Synchronization ==
  /\ test.name = "orchestra" /\ OrchestraNext
  /\ UNCHANGED <<probeVars, submissionVars, mkapiVars, tracerouteVars>>
Configuration ==
  /\ test.name = "mkapi" /\ MkapiNext
  /\ UNCHANGED <<probeVars, submissionVars, orchestraVars, tracerouteVars>>
Tracing ==
  /\ test.name = "traceroute" /\ TracerouteNext
  /\ UNCHANGED <<probeVars, submissionVars, orchestraVars, mkapiVars>>

\* The exception that a callback throws leaves the reactor, and the test; and
\* the application has no more to submit, or to synchronize.
Over ==
  /\ stage \in {"done", "thrown"} /\ open = {}
  /\ at \in {"out", "thrown"} /\ request = "none" /\ step = "idle"
  /\ test.name = "traceroute" => TracerouteOver
  /\ UNCHANGED ooniVars

Next == Callback \/ TransportClosed \/ Resubmission \/ Synchronization \/ Configuration \/ Tracing \/ Over

\* Each measurement, each probe and each request has a timeout, and a transport
\* that is closed calls back.
Fairness ==
  /\ WF_ooniVars(Callback) /\ WF_ooniVars(TransportClosed)
  /\ WF_ooniVars(Resubmission /\ at # "out") /\ WF_ooniVars(Synchronization /\ Reply)
  /\ WF_ooniVars(Configuration /\ MkapiSteps) /\ WF_ooniVars(Tracing /\ TracerouteSteps)

Spec == Init /\ [][Next]_ooniVars
FairSpec == Spec /\ Fairness

-----------------------------------------------------------------------------

\* "If any request succeeds", "if ANY services": the entry agrees with all that
\* was measured, in whatever order the callbacks came.
VerdictsFollow == MessengersVerdict /\ MiddleboxesVerdict /\ WebVerdict

\* What was measured when an exception leaves a callback.  Of Facebook: every
\* connection failed on the spot, and none is to the last of the services.  Of
\* the web: the page came, and the control has no failure and no page either.
TestExcused ==
  CASE IsFacebook ->
         LET sockets == FacebookSockets(Addresses(ServiceSet)) IN
         /\ sockets # {} /\ \A socket \in sockets : results[socket] = "failed"
         /\ \E s \in ServiceSet \ {"stun"} : \A socket \in sockets : Place(socket[1]) < Place(s)
    [] IsWeb ->
         LET control == results[<<"control">>] IN
         /\ results[<<"http">>].failure = "none"
         /\ "failed" \notin DOMAIN control /\ control.http = [failure |-> "none", missing |-> TRUE]
    [] OTHER -> FALSE

\* Of a submission: a line after the first one is JSON, and no object.
SubmissionExcused == position > 1 /\ CurrentLine \in NotObjects

\* Every test calls back, unless an exception ends it for one of those reasons,
\* and every transport that it opened is closed; so does every submission, every
\* sync() returns, and a traceroute comes to its end.
CallsEnd ==
  []<>(/\ stage = "done" \/ (stage = "thrown" /\ TestExcused)
       /\ open = {}
       /\ at = "out" \/ (at = "thrown" /\ SubmissionExcused)
       /\ request = "none" /\ step = "idle"
       /\ test.name = "traceroute" => TracerouteOver)
=============================================================================
