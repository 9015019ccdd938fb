------------------------------- MODULE Speed -------------------------------
(***************************************************************************)
(* The two clients that measure the speed of the network, and the logger   *)
(* that tells how far a nettest is.  A process runs one nettest at a time  *)
(* (see Task), so that a behaviour is one of them.                         *)
(***************************************************************************)
EXTENDS Ndt, Dash, Logger

vars == <<ndtVars, dashVars, loggerVars>>

Init ==
  \/ NdtInit /\ DashIdle /\ LoggerIdle
  \/ NdtIdle /\ DashInit /\ LoggerIdle
  \/ NdtIdle /\ DashIdle /\ LoggerInit

Over == NdtOver /\ DashOver /\ LoggerOver /\ UNCHANGED vars

Next ==
  \/ NdtNext /\ UNCHANGED <<dashVars, loggerVars>>
  \/ DashNext /\ UNCHANGED <<ndtVars, loggerVars>>
  \/ LoggerNext /\ UNCHANGED <<ndtVars, dashVars>>
  \/ Over

\* Each wait is one of a transport, which has a timeout (NDT_TIMEOUT, and
\* "net/timeout"), or for a closure: its callback comes.
Fairness ==
  /\ WF_vars(NdtNext /\ UNCHANGED <<dashVars, loggerVars>>)
  /\ WF_vars(DashNext /\ UNCHANGED <<ndtVars, loggerVars>>)
  /\ WF_vars(LoggerNext /\ UNCHANGED <<ndtVars, dashVars>>)

Spec == Init /\ [][Next]_vars
FairSpec == Spec /\ Fairness

\* The caller is told the outcome, once the server has run out of messages
\* that only call for another; unless the first of no words was read.
ClientEnds == <>(phase = "done" \/ phase = "undefined" \/ step = "done" \/ at = "over")

=============================================================================
