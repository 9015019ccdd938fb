----------------------------- MODULE Transport -----------------------------
(***************************************************************************)
(* A net::Transport: the handlers of EmitterBase (net/emitter.hpp), a      *)
(* LibeventEmitter (net/libevent_emitter.hpp) or a Socks5 that stands on   *)
(* one (net/socks5.cpp), and write(), read() of net/transport.cpp, on a    *)
(* bufferevent of libevent, which is modelled from how they use it.        *)
(*                                                                         *)
(* Data is a sequence of parts, named by the protocol above.  The peer     *)
(* sends the next of its turns once it has our output, and then closes,    *)
(* resets the connection or stays silent.                                  *)
(***************************************************************************)
EXTENDS Dns

VARIABLES
  emitter, \* the handlers and flags of the transport
  bev,     \* the bufferevent: its buffers and the events it is to report
  peer,    \* what the other end has sent, will send, and how it ends
  buff,    \* the Buffer of the user
  tail,    \* handle_read_() has still to look at suppressed_eof
  usage,   \* the parts sent and received, as told, and before this transport
  live     \* the bufferevents that were not freed

ioVars == <<emitter, bev, peer, buff, tail, usage>>

NoEmitter == [kind |-> "none", stage |-> "up", onData |-> "none",
              onFlush |-> "none", onError |-> "none", closing |-> FALSE,
              self |-> FALSE, suppressed_eof |-> FALSE]
\* What the constructors make: `self` keeps a LibeventEmitter, also the one
\* below a Socks5, until it is closed.
LibeventEmitter == [NoEmitter EXCEPT !.kind = "libevent", !.self = TRUE]
Socks5 == [LibeventEmitter EXCEPT !.kind = "socks5", !.stage = "auth"]

NoBev == [reading |-> FALSE, writing |-> FALSE, input |-> <<>>, events |-> {}]
NoPeer == [sent |-> <<>>, wire |-> <<>>, later |-> <<>>, end |-> "silent"]
NoUsage == [up |-> 0, down |-> 0]

TransportInit ==
  /\ emitter = NoEmitter /\ bev = NoBev /\ peer = NoPeer
  /\ buff = <<>> /\ tail = FALSE /\ live = 0
  /\ usage = [now |-> NoUsage, before |-> NoUsage]

\* libevent calls back when the I/O thread is in no callback.
InLoop == call = "none" /\ ~tail

-----------------------------------------------------------------------------
(* libevent and the peer.                                                  *)

\* Parts arrive while EV_READ is enabled.
Arrive ==
  /\ bev.reading /\ peer.wire # <<>> /\ ~emitter.closing
  /\ \E n \in 1 .. Len(peer.wire) :
       /\ bev' = [bev EXCEPT !.input = @ \o SubSeq(peer.wire, 1, n),
                             !.events = @ \cup {"read"}]
       /\ peer' = [peer EXCEPT !.sent = @ \o SubSeq(peer.wire, 1, n),
                               !.wire = SubSeq(@, n + 1, Len(@))]
  /\ UNCHANGED <<settings, call, arg, dnsVars, emitter, buff, tail, usage, live>>

\* The output was written: the peer takes its next turn.
Flushed ==
  /\ bev.writing /\ ~emitter.closing
  /\ bev' = [bev EXCEPT !.writing = FALSE, !.events = @ \cup {"write"}]
  /\ peer' = IF peer.later = <<>> THEN peer
             ELSE [peer EXCEPT !.wire = @ \o Head(peer.later), !.later = Tail(@)]
  /\ UNCHANGED <<settings, call, arg, dnsVars, emitter, buff, tail, usage, live>>

\* An event that ends the reading: the end of file and the reset come after
\* the data, a timeout at any time.
Ends(what) ==
  /\ bev.reading /\ what \notin bev.events /\ ~emitter.closing
  /\ what # "Timeout" => peer.wire = <<>> /\ peer.later = <<>> /\ peer.end = what
  /\ bev' = [bev EXCEPT !.reading = FALSE, !.events = @ \cup {what}]
  /\ UNCHANGED <<settings, call, arg, dnsVars, emitter, peer, buff, tail, usage, live>>

\* The peer does not take our output in time.
WriteTimeout ==
  /\ bev.writing /\ ~emitter.closing
  /\ bev' = [bev EXCEPT !.writing = FALSE, !.events = @ \cup {"Timeout"}]
  /\ UNCHANGED <<settings, call, arg, dnsVars, emitter, peer, buff, tail, usage, live>>

-----------------------------------------------------------------------------
(* The functions of the user: EmitterBase::on_xxx(), write(), read().      *)

start_reading(b) == [b EXCEPT !.reading = TRUE]
start_writing(b) == [b EXCEPT !.writing = TRUE]

\* on_data() starts or stops reading; a Socks5 never stops.
Reading(b, on) ==
  IF on THEN start_reading(b)
  ELSE [b EXCEPT !.reading = @ /\ emitter.kind = "socks5"]

\* with_current_data_usage(): both the Socks5 and the transport below count
\* what passes through them.
Layers == IF emitter.kind = "socks5" THEN 2 ELSE 1
CountUp(n) == usage' = [usage EXCEPT !.now.up = @ + n]
CountDown(n) == usage' = [usage EXCEPT !.now.down = @ + n]

\* Mutant of write: no handler for errors.
writeAlone ==
  /\ emitter' = [emitter EXCEPT !.onFlush = "write"]
  /\ bev' = start_writing(bev)
  /\ CountUp(Layers)

write ==
  /\ emitter' = [emitter EXCEPT !.onFlush = "write", !.onError = "write"]
  /\ bev' = start_writing(bev)
  /\ CountUp(Layers)

read ==
  /\ emitter' = [emitter EXCEPT !.onData = "readn", !.onError = "readn"]
  /\ bev' = Reading(bev, TRUE)

\* close(): libevent is told to forget us; the handlers go, except the one
\* for data, because on_data() returns early once close_pending is set.
close ==
  IF emitter.closing
  THEN Enter("thrown", "close already pending") /\ UNCHANGED <<emitter, bev>>
  ELSE /\ emitter' = [emitter EXCEPT !.closing = TRUE, !.onFlush = "none",
                                     !.onError = "none"]
       /\ bev' = [bev EXCEPT !.events = {}]
       /\ Enter("none", "ok")

\* The call_soon() of shutdown() drops `self`; the destructor calls back,
\* unless the handler for data still holds a reference.
DropSelf ==
  /\ InLoop /\ emitter.closing /\ emitter.self
  /\ IF emitter.onData = "none"
     THEN /\ Enter("closed", "ok")
          /\ emitter' = NoEmitter /\ bev' = NoBev /\ peer' = NoPeer
          /\ live' = live - 1
     ELSE /\ emitter' = [emitter EXCEPT !.self = FALSE]
          /\ UNCHANGED <<call, arg, bev, peer, live>>
  /\ UNCHANGED <<settings, dnsVars, buff, tail, usage>>

-----------------------------------------------------------------------------
(* The callbacks of LibeventEmitter.                                       *)

\* emit_error(), and the handlers of write() and readn(), which first clear
\* themselves.  A Socks5 sets no handler for the errors of its connection.
emit_error(err, b) ==
  IF emitter.kind = "socks5" \/ emitter.onError = "none"
  THEN bev' = b /\ UNCHANGED <<emitter, call, arg>>
  ELSE IF emitter.onError = "write"
  THEN /\ emitter' = [emitter EXCEPT !.onFlush = "none", !.onError = "none"]
       /\ bev' = b
       /\ Enter("written", err)
  ELSE /\ emitter' = [emitter EXCEPT !.onData = "none", !.onError = "none"]
       /\ bev' = Reading(b, FALSE)
       /\ Enter("read", err)

\* The data handler that readn() sets, when it needs one byte.
ReadnGets(data, b) ==
  /\ emitter' = [emitter EXCEPT !.onData = "none", !.onError = "none"]
  /\ bev' = Reading(b, FALSE)
  /\ buff' = data
  /\ Enter("read", "ok")

\* Only data that a handler gets is counted.  The handler that a Socks5 sets
\* on the transport below is always there.
emit_data(data, b) ==
  IF emitter.onData = "none"
  THEN bev' = b /\ CountDown(Len(data) * (Layers - 1)) /\ UNCHANGED <<emitter, buff, call, arg>>
  ELSE ReadnGets(data, b) /\ CountDown(Len(data) * Layers)

\* The replies of a proxy that are in order, and requests that fit.
AuthAccepted(data) == data = <<"auth">>
ConnectGranted(data) == data = <<"granted">>
socks5_format_connect_request == {"ok", "SocksAddressTooLong"}

\* A Socks5 negotiates with the proxy before it passes the data up.
\* on_connect() or on_error() of socks5_connect() is called once.
socks5_connect_(data, b) ==
  \/ /\ emitter.stage = "auth" /\ AuthAccepted(data)
     /\ \E err \in socks5_format_connect_request :
          IF err = "ok"
          THEN /\ emitter' = [emitter EXCEPT !.stage = "connect"]
               /\ bev' = start_writing(b)
               /\ usage' = [usage EXCEPT !.now.up = @ + 1, !.now.down = @ + Len(data)]
               /\ UNCHANGED <<buff, call, arg>>
          ELSE bev' = b /\ Enter("connected", err) /\ CountDown(Len(data))
               /\ UNCHANGED <<emitter, buff>>
  \/ /\ \/ emitter.stage = "auth" /\ ~AuthAccepted(data)
        \/ emitter.stage = "connect" /\ ~ConnectGranted(data)
     /\ bev' = b
     /\ Enter("connected", "Socks") /\ CountDown(Len(data))
     /\ UNCHANGED <<emitter, buff>>
  \/ /\ emitter.stage = "connect" /\ ConnectGranted(data)
     /\ emitter' = [emitter EXCEPT !.stage = "up"]
     /\ bev' = b
     /\ Enter("connected", "ok") /\ CountDown(Len(data))
     /\ UNCHANGED buff
  \/ emitter.stage = "up" /\ emit_data(data, b)

handle_read_ ==
  /\ InLoop /\ "read" \in bev.events
  /\ LET b == [bev EXCEPT !.input = <<>>, !.events = @ \ {"read"}]
     IN IF emitter.kind = "socks5" THEN socks5_connect_(bev.input, b)
        ELSE emit_data(bev.input, b)
  /\ tail' = TRUE
  /\ UNCHANGED <<settings, dnsVars, peer, live>>

\* The end of handle_read_(), when the handlers have returned.
DeliverSuppressedEof ==
  /\ call = "none" /\ tail
  /\ tail' = FALSE
  /\ IF emitter.suppressed_eof /\ emitter.onError = "readn" /\ emitter.kind # "socks5"
     THEN /\ emitter' = [emitter EXCEPT !.suppressed_eof = FALSE, !.onData = "none",
                                        !.onError = "none"]
          /\ bev' = Reading(bev, FALSE)
          /\ Enter("read", "Eof")
     ELSE /\ emitter' = [emitter EXCEPT !.suppressed_eof = FALSE]
          /\ UNCHANGED <<bev, call, arg>>
  /\ UNCHANGED <<settings, dnsVars, peer, buff, usage, live>>

\* libevent reports the data before it reports an error.
Event(what) ==
  /\ InLoop /\ what \in bev.events
  /\ what # "Eof" => "read" \notin bev.events
  /\ UNCHANGED <<settings, dnsVars, peer, buff, tail, usage, live>>

\* Mutant of handle_event_: the end of file is not held back.
handle_event_AtOnce(what) ==
  Event(what) /\ emit_error(what, [bev EXCEPT !.events = @ \ {what}])

handle_event_(what) ==
  /\ Event(what)
  /\ LET b == [bev EXCEPT !.events = @ \ {what}]
     IN IF what = "Eof" /\ bev.input # <<>>
        THEN /\ emitter' = [emitter EXCEPT !.suppressed_eof = TRUE]
             /\ bev' = b
             /\ UNCHANGED <<call, arg>>
        ELSE emit_error(what, b)

handle_write_ ==
  /\ Event("write")
  /\ bev' = [bev EXCEPT !.events = @ \ {"write"}]
  /\ IF emitter.onFlush = "none" \/ emitter.stage # "up"
     THEN UNCHANGED <<emitter, call, arg>>
     ELSE /\ emitter' = [emitter EXCEPT !.onFlush = "none", !.onError = "none"]
          /\ Enter("written", "ok")

EndKinds == {"Eof", "Sys", "Timeout"}

TransportNext ==
  \/ Arrive \/ Flushed \/ WriteTimeout \/ \E what \in EndKinds : Ends(what)
  \/ DropSelf \/ handle_read_ \/ DeliverSuppressedEof \/ handle_write_
  \/ \E what \in EndKinds : handle_event_(what)

=============================================================================
