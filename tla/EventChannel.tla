---------------------------- MODULE EventChannel ----------------------------
(***************************************************************************)
(* What the queues of events of the tasks promise to the code that drives  *)
(* the tasks: in each of them every event comes out once and in the order  *)
(* in which it went in, whoever takes it, and when somebody has been told  *)
(* that the task is over no event comes out any more.                      *)
(***************************************************************************)
EXTENDS Integers, Sequences

CONSTANTS Channel, EventKind

VARIABLES
  sent,      \* the events emitted, in order
  received,  \* the events handed out, in order
  closed,    \* the task emits nothing more
  told       \* somebody was told that the task is over

chanVars == <<sent, received, closed, told>>

ChanInit ==
  /\ sent = [ch \in Channel |-> <<>>]
  /\ received = [ch \in Channel |-> <<>>]
  /\ closed = [ch \in Channel |-> FALSE]
  /\ told = [ch \in Channel |-> FALSE]

Send(ch, e) ==
  /\ ~closed[ch]
  /\ sent' = [sent EXCEPT ![ch] = Append(@, e)]
  /\ UNCHANGED <<received, closed, told>>

Receive(ch) ==
  LET n == Len(received[ch]) IN
  /\ n < Len(sent[ch])
  /\ received' = [received EXCEPT ![ch] = Append(@, sent[ch][n + 1])]
  /\ UNCHANGED <<sent, closed, told>>

Close(ch) ==
  /\ closed' = [closed EXCEPT ![ch] = TRUE]
  /\ UNCHANGED <<sent, received, told>>

Tell(ch) ==
  /\ closed[ch]
  /\ received[ch] = sent[ch]
  /\ told' = [told EXCEPT ![ch] = TRUE]
  /\ UNCHANGED <<sent, received, closed>>

ChanNext ==
  \E ch \in Channel :
    \/ \E e \in EventKind : Send(ch, e)
    \/ Receive(ch) \/ Close(ch) \/ Tell(ch)

ChanSpec == ChanInit /\ [][ChanNext]_chanVars
=============================================================================
