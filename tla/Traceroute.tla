----------------------------- MODULE Traceroute -----------------------------
(***************************************************************************)
(* The prober of traceroute/android.cpp, with the application of its       *)
(* tests: whatever it is told, it sends a probe with the next time to      *)
(* live, from the callback itself, until it reaches the target or the      *)
(* highest one.  Calls of send_probe() nest, because send_probe() calls    *)
(* error_cb_ before it returns.  A probe is named by its time to live.     *)
(***************************************************************************)
EXTENDS Integers, Sequences, SequencesExt

CONSTANTS
  MaxTtl,     \* the time to live at which the application stops
  Answers     \* what the network may answer

ASSUME TracerouteConstants ==
  /\ MaxTtl \in Nat \ {0}
  /\ Answers \subseteq {"TTL_EXCEEDED", "PORT_IS_CLOSED", "ADMIN_FILTER", "GOT_REPLY_PACKET", "LOCAL"}

VARIABLES
  use_ipv4,        \* the family of the prober
  sockfd,          \* its socket: "closed" or "open"
  probe_pending,   \* probe_pending_
  calls,           \* the calls of send_probe() on the stack, the innermost one first
  ttl,             \* the last probe that the application asked for
  polled,          \* the probe whose pollin_once() is registered, or 0
  flying,          \* the probes that the network may still answer
  arrived,         \* the answers that wait in the socket
  callbacks,       \* how many callbacks were called for each probe
  unopened,        \* the probes for which init() failed
  given_up,        \* the probes whose answer nobody waits for any longer
  result,          \* the result told for each probe, if one was
  aborted          \* an exception left the callback of the reactor

tracerouteVars ==
  <<use_ipv4, sockfd, probe_pending, calls, ttl, polled, flying, arrived,
    callbacks, unopened, given_up, result, aborted>>

Probe == 1 .. MaxTtl
NoAnswer == [probe |-> 0, meaning |-> "none", kind |-> "none"]

TracerouteInit ==
  /\ use_ipv4 \in BOOLEAN
  /\ sockfd = "closed" /\ probe_pending = FALSE
  /\ calls = << >> /\ ttl = 0 /\ polled = 0
  /\ flying = {} /\ arrived = << >>
  /\ callbacks = [k \in Probe |-> 0] /\ unopened = {} /\ given_up = {}
  /\ result = [k \in Probe |-> NoAnswer] /\ aborted = FALSE

wireVars == <<flying, arrived>>
toldVars == <<unopened, given_up, result>>

-----------------------------------------------------------------------------
\* ICMP and ICMPv6: what a router writes when it means the answer.
Encoded(answer) ==
  CASE answer = "TTL_EXCEEDED"   -> IF use_ipv4 THEN <<11, 0>> ELSE <<3, 0>>
    [] answer = "PORT_IS_CLOSED" -> IF use_ipv4 THEN <<3, 3>> ELSE <<1, 4>>
    [] answer = "ADMIN_FILTER"   -> IF use_ipv4 THEN <<3, 13>> ELSE <<1, 1>>
    [] OTHER -> <<255, 255>>

MAPPINGv4 ==
  [typeCode \in {<<11, 0>>, <<3, 3>>, <<3, 2>>, <<3, 0>>, <<3, 1>>} |->
     CASE typeCode = <<11, 0>> -> "TTL_EXCEEDED"
       [] typeCode = <<3, 3>> -> "PORT_IS_CLOSED"
       [] typeCode = <<3, 2>> -> "PROTO_NOT_IMPL"
       [] typeCode = <<3, 0>> -> "NO_ROUTE_TO_HOST"
       [] typeCode = <<3, 1>> -> "ADDRESS_UNREACH"]

MAPPINGv6 ==
  [typeCode \in {<<3, 0>>, <<1, 4>>, <<1, 0>>, <<1, 3>>, <<1, 1>>} |->
     CASE typeCode = <<3, 0>> -> "TTL_EXCEEDED"
       [] typeCode = <<1, 4>> -> "PORT_IS_CLOSED"
       [] typeCode = <<1, 0>> -> "NO_ROUTE_TO_HOST"
       [] typeCode = <<1, 3>> -> "ADDRESS_UNREACH"
       [] typeCode = <<1, 1>> -> "ADMIN_FILTER"]

\* The messages of the socket: those of a router carry its type and code, a
\* reply has none, and what the local host says has another origin.
get_meaning(answer) ==
  LET mapping == IF use_ipv4 THEN MAPPINGv4 ELSE MAPPINGv6 IN
  IF answer = "GOT_REPLY_PACKET" THEN answer
  ELSE IF Encoded(answer) \in DOMAIN mapping THEN mapping[Encoded(answer)] ELSE "OTHER"

-----------------------------------------------------------------------------
\* The application's callback: it sends the next probe, on top of the stack, or
\* stops the reactor.  What is told is told for probe k.
TellApplication(k, stack, last) ==
  /\ callbacks' = [callbacks EXCEPT ![k] = @ + 1]
  /\ IF last \/ ttl = MaxTtl THEN calls' = stack /\ UNCHANGED ttl
     ELSE /\ ttl' = ttl + 1
          /\ calls' = <<[probe |-> ttl + 1, point |-> "init"]>> \o stack

\* The event with which run_with_initial_event() begins.
FirstProbe ==
  /\ ttl = 0
  /\ ttl' = 1 /\ calls' = <<[probe |-> 1, point |-> "init"]>>
  /\ UNCHANGED <<use_ipv4, sockfd, probe_pending, polled, wireVars, callbacks, toldVars, aborted>>

Inner == calls[1]
AtPoint(point) == calls # << >> /\ Inner.point = point
Inited == <<[Inner EXCEPT !.point = "send"]>> \o Tail(calls)

\* init(): the socket is there, or is created, set up and bound.
InitOpens ==
  /\ AtPoint("init")
  /\ sockfd' = "open" /\ calls' = Inited
  /\ UNCHANGED <<use_ipv4, probe_pending, ttl, polled, wireVars, callbacks, toldVars, aborted>>

\* init() calls error_cb_, and send_probe() goes on.
InitFails ==
  /\ AtPoint("init") /\ sockfd = "closed"
  /\ unopened' = unopened \cup {Inner.probe}
  /\ TellApplication(Inner.probe, Inited, FALSE)
  /\ UNCHANGED <<use_ipv4, sockfd, probe_pending, polled, wireVars, given_up, result, aborted>>

\* SocketAlreadyClosedError, ProbeAlreadyPendingError, or an error of the system.
SendFails ==
  /\ AtPoint("send")
  /\ TellApplication(Inner.probe, Tail(calls), FALSE)
  /\ UNCHANGED <<use_ipv4, sockfd, probe_pending, polled, wireVars, toldVars, aborted>>

\* Mutant of Sends: a probe that is pending is not looked at.
SendsPending ==
  /\ AtPoint("send") /\ sockfd = "open"
  /\ probe_pending' = TRUE /\ polled' = Inner.probe
  /\ flying' = flying \cup {Inner.probe} /\ calls' = Tail(calls)
  /\ UNCHANGED <<use_ipv4, sockfd, ttl, arrived, callbacks, toldVars, aborted>>

Sends ==
  /\ AtPoint("send") /\ sockfd = "open" /\ ~probe_pending
  /\ probe_pending' = TRUE /\ polled' = Inner.probe
  /\ flying' = flying \cup {Inner.probe} /\ calls' = Tail(calls)
  /\ UNCHANGED <<use_ipv4, sockfd, ttl, arrived, callbacks, toldVars, aborted>>

send_probe == FirstProbe \/ InitOpens \/ InitFails \/ SendFails \/ Sends

-----------------------------------------------------------------------------
\* The network answers a probe, whether or not anybody waits for it.
Arrives(k) ==
  /\ k \in flying
  /\ flying' = flying \ {k}
  /\ \E kind \in Answers : arrived' = Append(arrived, [probe |-> k, kind |-> kind])
  /\ UNCHANGED <<use_ipv4, sockfd, probe_pending, calls, ttl, polled, callbacks, toldVars, aborted>>

EventCalled == calls = << >> /\ polled # 0 /\ polled' = 0

OnTimeout ==
  /\ EventCalled
  /\ probe_pending' = FALSE /\ given_up' = given_up \cup {polled}
  /\ TellApplication(polled, << >>, FALSE)
  /\ UNCHANGED <<use_ipv4, sockfd, wireVars, unopened, result, aborted>>

\* recvmsg() reads the queue of errors, and recvfrom() the replies if it is empty.
IsError(answer) == answer.kind # "GOT_REPLY_PACKET"
NextAnswer ==
  IF \E i \in DOMAIN arrived : IsError(arrived[i])
  THEN SelectInSeq(arrived, IsError) ELSE 1

OnResult ==
  /\ EventCalled /\ arrived # << >>
  /\ probe_pending' = FALSE
  /\ LET answer == arrived[NextAnswer]
         meaning == get_meaning(answer.kind)
     IN /\ arrived' = RemoveAt(arrived, NextAnswer)
        /\ result' = [result EXCEPT ![polled] =
                        [probe |-> answer.probe, meaning |-> meaning, kind |-> answer.kind]]
        /\ TellApplication(polled, << >>, meaning # "TTL_EXCEEDED")
  /\ UNCHANGED <<use_ipv4, sockfd, flying, unopened, given_up, aborted>>

\* clock_gettime() fails: the answer stays in the socket.
OnError ==
  /\ EventCalled /\ arrived # << >>
  /\ probe_pending' = FALSE /\ given_up' = given_up \cup {polled}
  /\ TellApplication(polled, << >>, FALSE)
  /\ UNCHANGED <<use_ipv4, sockfd, wireVars, unopened, result, aborted>>

\* The calls of the system that fail throw no Error: nothing catches it.
OnSystemError ==
  /\ EventCalled /\ arrived # << >>
  /\ probe_pending' = FALSE /\ aborted' = TRUE
  /\ UNCHANGED <<use_ipv4, sockfd, calls, ttl, wireVars, callbacks, toldVars>>

event_callback == OnTimeout \/ OnResult \/ OnError \/ OnSystemError

TracerouteSteps == send_probe \/ event_callback
TracerouteNext == TracerouteSteps \/ \E k \in Probe : Arrives(k)
TracerouteOver == ttl > 0 /\ calls = << >> /\ polled = 0

-----------------------------------------------------------------------------
\* Only one probe is waited for, and it is told that it is pending.
OneOutstanding == probe_pending <=> polled # 0

\* When all is over, each call of send_probe() was answered by one callback, and
\* by one more if init() failed: error_cb_ is called, and the call goes on.
AnsweredOnce ==
  TracerouteOver /\ ~aborted =>
    \A k \in 1 .. ttl : callbacks[k] = IF k \in unopened THEN 2 ELSE 1

\* A result is of the probe it is told for, unless the answer to an earlier
\* one came after it was given up: nothing in an answer says which probe it is
\* for, and send_probe() leaves in the socket what is there.
ResultsInStep ==
  \A k \in Probe : result[k].probe \in {0, k} \/ given_up # {}

\* What is told is what the router meant, in both families.
MeaningsKept ==
  \A k \in Probe : LET r == result[k] IN
    r.meaning \in {r.kind, "OTHER"} /\ (r.meaning = "OTHER" => r.kind # "TTL_EXCEEDED")

ProbesAnswered == OneOutstanding /\ AnsweredOnce /\ ResultsInStep /\ MeaningsKept
=============================================================================
