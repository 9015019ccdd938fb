------------------------------ MODULE Campaign ------------------------------
(***************************************************************************)
(* What a nettest promises to whoever reads its measurements: the inputs   *)
(* are measured in the order in which they were loaded, each one once, no  *)
(* more of them at a time than allowed, and when the nettest is over no    *)
(* measurement is in progress and none starts any more.                    *)
(***************************************************************************)
EXTENDS Integers, Sequences, FiniteSets

CONSTANT Input

VARIABLES todo, inFlight, done, over, limit

campaignVars == <<todo, inFlight, done, over, limit>>

CampaignInit ==
  /\ todo = <<>>
  /\ inFlight = {}
  /\ done = {}
  /\ over = FALSE
  /\ limit \in Nat

\* The options are read.
Configure ==
  /\ todo = <<>> /\ inFlight = {} /\ done = {} /\ ~over
  /\ limit' \in Nat
  /\ UNCHANGED <<todo, inFlight, done, over>>

\* The inputs are those of 0 .. n - 1.  If none may be measured, that is all.
Load ==
  /\ todo = <<>> /\ inFlight = {} /\ done = {} /\ ~over
  /\ \E n \in 1 .. Cardinality(Input) : todo' = [i \in 1 .. n |-> i - 1]
  /\ over' = (limit = 0)
  /\ UNCHANGED <<inFlight, done, limit>>

Begin ==
  /\ ~over
  /\ todo # <<>>
  /\ Cardinality(inFlight) < limit
  /\ todo' = Tail(todo)
  /\ inFlight' = inFlight \cup {Head(todo)}
  /\ UNCHANGED <<done, over, limit>>

Complete(i) ==
  /\ i \in inFlight
  /\ inFlight' = inFlight \ {i}
  /\ done' = done \cup {i}
  /\ UNCHANGED <<todo, over, limit>>

End ==
  /\ inFlight = {}
  /\ over' = TRUE
  /\ UNCHANGED <<todo, inFlight, done, limit>>

\* The last measurement completes, and with it the nettest.
CompleteAndEnd(i) ==
  /\ inFlight = {i}
  /\ inFlight' = {}
  /\ done' = done \cup {i}
  /\ over' = TRUE
  /\ UNCHANGED <<todo, limit>>

CampaignNext ==
  \/ Configure \/ Load \/ Begin \/ End
  \/ \E i \in Input : Complete(i) \/ CompleteAndEnd(i)

CampaignSpec == CampaignInit /\ [][CampaignNext]_campaignVars
=============================================================================
