--------------------------------- MODULE Net ---------------------------------
(***************************************************************************)
(* The network stack: a request of HTTP from the settings to its callback  *)
(* (Http), and two things that it takes for granted: that the bytes of a   *)
(* connection arrive as the messages that were sent (Wire), and that the   *)
(* name of a peer stays what it was (Endpoints).  Each behaviour is one of *)
(* the three.                                                              *)
(***************************************************************************)
EXTENDS Http, Wire, Endpoints

byteVars == <<said, wire, buffer, reading, got>>
nameVars == <<asked, stage, value, came>>
vars == <<requestVars, byteVars, nameVars>>

Init ==
  \/ RequestInit /\ WireIdle /\ EndpointsIdle
  \/ RequestIdle /\ WireInit /\ EndpointsIdle
  \/ RequestIdle /\ WireIdle /\ EndpointsInit

Over == RequestOver /\ WireOver /\ EndpointsOver /\ UNCHANGED vars

RequestSteps(steps) == steps /\ UNCHANGED <<byteVars, nameVars>>

Next ==
  \/ RequestSteps(RequestNext)
  \/ WireNext /\ UNCHANGED <<requestVars, nameVars>>
  \/ EndpointsNext /\ UNCHANGED <<requestVars, byteVars>>
  \/ Over

\* The I/O loop runs, getaddrinfo() and evdns answer, and libevent reports a
\* timeout where nothing else happens.
Fairness ==
  /\ WF_vars(RequestSteps(DnsNext /\ UNCHANGED <<ioVars, live, connectVars, httpVars>>))
  /\ WF_vars(RequestSteps(TransportNext /\ UNCHANGED <<connectVars, httpVars>>))
  /\ WF_vars(RequestSteps(ConnectNext /\ UNCHANGED httpVars))
  /\ WF_vars(RequestSteps(HttpNext))

Spec == Init /\ [][Next]_vars
FairSpec == Spec /\ Fairness

=============================================================================
