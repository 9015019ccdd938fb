------------------------------ MODULE NetProofs ------------------------------
(***************************************************************************)
(* A request of HTTP holds at most one connection, and leaves none behind  *)
(* but in the cases that the code forgets (ConnectionsClosed), and a       *)
(* response that it accepts is whole (ResponseWhole), for any settings,    *)
(* servers, proxies, pieces and numbers of addresses; and the readers above*)
(* it pass up what the peer has said (MessagesWhole), for any messages and *)
(* any pieces.  The first invariant says in which phase a request is, and  *)
(* who holds its bufferevent there; the second where the data is that the  *)
(* peer has sent; the third which part of what the peer says each reader   *)
(* has read, and that the rest is still before it.                         *)
(***************************************************************************)
EXTENDS Net, FiniteSetTheorems, SequenceTheorems, WellFoundedInduction, TLAPS

-----------------------------------------------------------------------------
(* The invariant.                                                          *)

\* The records have their fields, and the numbers are numbers.
Typed ==
  /\ settings \in Settings
  /\ query = [type |-> query.type, at |-> query.at]
  /\ attempt = [index |-> attempt.index, at |-> attempt.at]
  /\ errors \in Seq({"ok", "Sys", "Timeout"})
  /\ emitter = [field \in DOMAIN NoEmitter |-> emitter[field]]
  /\ http = [at |-> http.at, redirs |-> http.redirs, err |-> http.err]
  /\ http.redirs \in Nat

NoTransport == emitter = NoEmitter /\ bev = NoBev
NoneLeft == live = 0 /\ leaked = {}
OneHeld == live = 1 /\ leaked = {}
NoQueryRuns == query.at = "nowhere"
NotTrying == attempt.at = "nowhere"
NoSuccess == \A i \in DOMAIN errors : errors[i] # "ok"

\* Not begun, about to begin, or over: nothing is held, but what was leaked.
Resting ==
  /\ http.at \in {"idle", "again", "done"} /\ call = "none"
  /\ NoTransport /\ NoQueryRuns /\ NotTrying
  /\ http.at = "again" => outcome = "none"
  /\ NoneLeft \/ (http.at = "done" /\ live = 1 /\ \E why \in leaked : leaked = {why})

\* In connect(), before there is a transport.
LookingUp ==
  /\ http.at = "connecting" /\ outcome = "none"
  /\ NoTransport /\ NotTrying /\ NoneLeft /\ errors = <<>>
  /\ \/ call = "none" /\ query.at \in {"soon", "evdns", "worker", "ok", "Resolver"}
     \/ call = "answer" /\ query.at = "answered"
     \/ call = "resolved" /\ NoQueryRuns

Trying ==
  /\ http.at = "connecting" /\ outcome = "none"
  /\ NoTransport /\ NoQueryRuns
  /\ \/ call = "connect_first_of" /\ NotTrying /\ NoneLeft /\ NoSuccess
     \/ call = "none" /\ attempt.at = "connecting" /\ OneHeld /\ NoSuccess
     \/ call = "tcp" /\ NotTrying /\ OneHeld
     \/ call = "none" /\ attempt.at = "handshake" /\ OneHeld

\* The dialogue with a proxy.
Negotiating ==
  /\ http.at = "connecting" /\ outcome = "none" /\ call = "none"
  /\ NoQueryRuns /\ NotTrying /\ OneHeld
  /\ emitter.kind = "socks5" /\ emitter.stage # "up" /\ ~emitter.closing
  /\ emitter.onData = "none" /\ emitter.onFlush = "none" /\ emitter.onError = "none"

\* The caller of connect() is being told.
Told ==
  /\ http.at = "connecting" /\ outcome = "none" /\ call = "connected"
  /\ NoQueryRuns /\ NotTrying
  /\ \/ arg = "ok" /\ emitter.kind # "none" /\ emitter.stage = "up" /\ OneHeld
     \/ arg # "ok" /\ emitter.kind = "socks5" /\ OneHeld
     \/ arg # "ok" /\ NoTransport /\ NoneLeft
     \/ arg # "ok" /\ NoTransport /\ live = 1 /\ \E why \in leaked : leaked = {why}

\* The transport is there: the request, the response and close().
Exchanging ==
  /\ http.at \in {"sending", "receiving", "ended", "closing"} /\ outcome = "none"
  /\ call \in {"none", "written", "read", "thrown"}
  /\ NoQueryRuns /\ NotTrying /\ OneHeld
  /\ emitter.kind # "none" /\ emitter.stage = "up"

Closed ==
  /\ outcome = "none" /\ call = "closed"
  /\ NoQueryRuns /\ NotTrying /\ NoTransport /\ NoneLeft

Phases ==
  \/ Resting \/ LookingUp \/ Trying \/ Negotiating \/ Told \/ Exchanging \/ Closed

Contexts == contexts = IF query.at = "evdns" THEN 1 ELSE 0
Redirections ==
  http.redirs <= IF settings.max_redirects > 0 THEN settings.max_redirects ELSE 0

RequestInv == Typed /\ Phases /\ Contexts /\ Redirections

-----------------------------------------------------------------------------
(* In which phase a step can be.                                           *)

LEMMA InPhase ==
  ASSUME RequestInv
  PROVE  /\ query.at # "nowhere" => LookingUp
         /\ call \in {"answer", "resolved"} => LookingUp
         /\ call \in {"connect_first_of", "tcp"} \/ attempt.at # "nowhere" => Trying
         /\ call = "connected" => Told
         /\ call \in {"written", "read"} => Exchanging
         /\ http.at = "ended" /\ call = "none" => Exchanging
         /\ call = "closed" => Closed
         /\ http.at = "again" => Resting \/ Closed
         /\ emitter.kind # "none" /\ call = "none" => Negotiating \/ Exchanging
         /\ emitter.kind = "none" => NoTransport
         /\ emitter.kind # "none" => Negotiating \/ Told \/ Exchanging
  BY DEF RequestInv, Phases, Resting, LookingUp, Trying, Negotiating, Told, Exchanging, Closed,
         NoTransport, NotTrying, NoQueryRuns, NoEmitter

-----------------------------------------------------------------------------
(* The steps.                                                              *)

LEMMA InitKeeps == Init => RequestInv
<1> SUFFICES ASSUME Init PROVE RequestInv
  OBVIOUS
<1>1. /\ settings \in Settings /\ call = "none" /\ arg = "ok" /\ query = NoQuery /\ contexts = 0
      /\ NoTransport /\ NoneLeft /\ attempt = NoAttempt /\ errors = <<>>
      /\ \E place \in {"idle", "again"} : http = [at |-> place, redirs |-> 0, err |-> "ok"]
      /\ http.at = "again" => outcome = "none"
  BY DEF Init, RequestInit, RequestIdle, RequestStart, DnsInit, TransportInit, ConnectInit,
         NoTransport, NoneLeft
<1>2. Typed
  BY <1>1 DEF Typed, NoQuery, NoAttempt, NoTransport, NoEmitter
<1>3. Phases
  BY <1>1 DEF Phases, Resting, NoQueryRuns, NotTrying, NoQuery, NoAttempt
<1> QED
  BY <1>1, <1>2, <1>3, RedirectsAreNumbers DEF RequestInv, Contexts, Redirections, NoQuery

\* A lookup goes on, or ends with the result.
LEMMA DnsKeeps ==
  ASSUME RequestInv, DnsNext, UNCHANGED <<ioVars, live, connectVars, httpVars>>
  PROVE  RequestInv'
<1>1. LookingUp
  BY InPhase DEF DnsNext, StartQuery, dns_callback, getaddrinfo_async, ResultPosted, OnIpv4, OnIpv6
<1>2. UNCHANGED <<settings, emitter, bev, live, attempt, errors, leaked, http, outcome>>
  BY DEF DnsNext, StartQuery, dns_callback, getaddrinfo_async, ResultPosted, OnIpv4, OnIpv6,
         ioVars, connectVars, httpVars
<1>3. /\ query' = [type |-> query'.type, at |-> query'.at]
      /\ contexts' = IF query'.at = "evdns" THEN 1 ELSE 0
      /\ \/ call' = "none" /\ query'.at \in {"soon", "evdns", "worker", "ok", "Resolver"}
         \/ call' = "answer" /\ query'.at = "answered"
         \/ call' = "resolved" /\ query'.at = "nowhere"
  <2> USE <1>1 DEF RequestInv, Typed, LookingUp, NoQueryRuns, Contexts, Answer, Enter, Ask, NoQuery
  <2>1. CASE StartQuery
    <3>1. CASE settings.engine = "libevent"
      BY <2>1, <3>1 DEF StartQuery, libevent_query, QueryContext
    <3>2. CASE settings.engine = "system"
      BY <2>1, <3>2 DEF StartQuery, system_resolver
    <3>3. CASE settings.engine \notin {"libevent", "system"}
      BY <2>1, <3>3 DEF StartQuery
    <3> QED
      BY <3>1, <3>2, <3>3
  <2>2. CASE dns_callback
    BY <2>2 DEF dns_callback, dns_error
  <2>3. CASE getaddrinfo_async
    BY <2>3 DEF getaddrinfo_async, getaddrinfo_async_map_error
  <2>4. CASE ResultPosted
    BY <2>4 DEF ResultPosted
  <2>5. CASE OnIpv4
    BY <2>5 DEF OnIpv4
  <2>6. CASE OnIpv6
    BY <2>6 DEF OnIpv6
  <2> QED
    BY <2>1, <2>2, <2>3, <2>4, <2>5, <2>6 DEF DnsNext
<1>4. LookingUp'
  BY <1>1, <1>2, <1>3 DEF LookingUp, NoTransport, NotTrying, NoneLeft, NoQueryRuns
<1> QED
  BY <1>2, <1>3, <1>4 DEF RequestInv, Typed, Phases, Contexts, Redirections

\* The transport alone changes: nothing happens where there is none.
LEMMA NoTransportKeeps ==
  ASSUME RequestInv, TransportNext, UNCHANGED <<connectVars, httpVars>>, emitter.kind = "none"
  PROVE  RequestInv'
<1>1. NoTransport
  BY InPhase
<1>2. DeliverSuppressedEof
  BY <1>1 DEF TransportNext, Arrive, Flushed, WriteTimeout, Ends, DropSelf, handle_read_, Event,
              handle_write_, handle_event_, NoTransport, NoBev, NoEmitter
<1>3. emitter' = emitter
  BY <1>1, <1>2 DEF DeliverSuppressedEof, NoTransport, NoEmitter
<1>4. UNCHANGED <<settings, call, arg, dnsVars, bev, live>>
  BY <1>1, <1>2 DEF DeliverSuppressedEof, NoTransport, NoEmitter
<1> QED
  BY <1>3, <1>4 DEF RequestInv, Typed, Phases, Contexts, Redirections, Resting, LookingUp, Trying,
                    Negotiating, Told, Exchanging, Closed, NoTransport, NoneLeft, OneHeld, NoQueryRuns,
                    NotTrying, NoSuccess, dnsVars, connectVars, httpVars

\* libevent and the peer do not touch the transport.
Background == Arrive \/ Flushed \/ WriteTimeout \/ \E what \in EndKinds : Ends(what)

\* What an event does while the proxy is asked for a connection.
LEMMA NegotiatingSteps ==
  ASSUME RequestInv, Negotiating, TransportNext, ~Background, UNCHANGED <<connectVars, httpVars>>
  PROVE  /\ emitter' = [field \in DOMAIN NoEmitter |-> emitter'[field]]
         /\ Negotiating' \/ Told'
<1> USE DEF RequestInv, Typed, Negotiating, NoEmitter
<1>1. UNCHANGED <<query, attempt, http, outcome, live, leaked>>
  BY DEF TransportNext, Background, DropSelf, handle_read_, DeliverSuppressedEof, Event, handle_write_,
         handle_event_, dnsVars, connectVars, httpVars
<1>2. CASE handle_read_
  <2> DEFINE b == [bev EXCEPT !.input = <<>>, !.events = @ \ {"read"}]
  <2>1. socks5_connect_(bev.input, b)
    BY <1>2 DEF handle_read_
  <2> HIDE DEF b
  <2> QED
    BY <2>1, <1>1 DEF socks5_connect_, socks5_format_connect_request, Enter, Told, NoQueryRuns, NotTrying,
                      OneHeld
<1>3. CASE DeliverSuppressedEof \/ handle_write_ \/ \E what \in EndKinds : handle_event_(what)
  <2>1. call' = call /\ (emitter' = emitter \/ \E eof_ \in BOOLEAN : emitter' = [emitter EXCEPT !.suppressed_eof = eof_])
    BY <1>3 DEF DeliverSuppressedEof, handle_write_, handle_event_, emit_error
  <2> QED
    BY <2>1, <1>1 DEF NoQueryRuns, NotTrying, OneHeld
<1> QED
  BY <1>2, <1>3 DEF TransportNext, Background, DropSelf

\* And later, until the transport is gone.
LEMMA ExchangingSteps ==
  ASSUME RequestInv, Exchanging, TransportNext, ~Background, UNCHANGED <<connectVars, httpVars>>
  PROVE  /\ emitter' = [field \in DOMAIN NoEmitter |-> emitter'[field]]
         /\ Exchanging' \/ Closed'
<1> USE DEF RequestInv, Typed, Exchanging, NoEmitter
<1>1. UNCHANGED <<query, attempt, http, outcome, leaked>>
  BY DEF TransportNext, Background, DropSelf, handle_read_, DeliverSuppressedEof, Event, handle_write_,
         handle_event_, dnsVars, connectVars, httpVars
<1>2. CASE DropSelf
  BY <1>1, <1>2 DEF DropSelf, InLoop, Enter, Closed, NoTransport, NoneLeft, OneHeld, NoQueryRuns, NotTrying
<1>3. CASE TransportNext /\ ~DropSelf
  <2>1. /\ live' = live /\ call' \in {"none", "written", "read"}
        /\ emitter' = [field \in DOMAIN NoEmitter |-> emitter'[field]]
        /\ emitter'.kind = emitter.kind /\ emitter'.stage = emitter.stage
    <3>1. CASE handle_read_
      <4> DEFINE b == [bev EXCEPT !.input = <<>>, !.events = @ \ {"read"}]
      <4>1. emit_data(bev.input, b) /\ live' = live /\ call = "none"
        BY <3>1 DEF handle_read_, InLoop, socks5_connect_
      <4> HIDE DEF b
      <4> QED
        BY <4>1 DEF emit_data, ReadnGets, Enter
    <3>2. CASE DeliverSuppressedEof
      BY <3>2 DEF DeliverSuppressedEof, Enter
    <3>3. CASE handle_write_
      BY <3>3 DEF handle_write_, Event, InLoop, Enter
    <3>4. CASE \E what \in EndKinds : handle_event_(what)
      <4> PICK what \in EndKinds : handle_event_(what)
        BY <3>4
      <4> DEFINE b == [bev EXCEPT !.events = @ \ {what}]
      <4>1. /\ call = "none" /\ live' = live
            /\ \/ emitter' = [emitter EXCEPT !.suppressed_eof = TRUE] /\ call' = call
               \/ emit_error(what, b)
        BY DEF handle_event_, Event, InLoop
      <4> HIDE DEF b
      <4> QED
        BY <4>1 DEF emit_error, Enter
    <3> QED
      BY <1>3, <3>1, <3>2, <3>3, <3>4 DEF TransportNext, Background
  <2> QED
    BY <1>1, <2>1 DEF NoQueryRuns, NotTrying, OneHeld
<1> QED
  BY <1>2, <1>3

LEMMA TransportKeeps ==
  ASSUME RequestInv, TransportNext, UNCHANGED <<connectVars, httpVars>>, emitter.kind # "none"
  PROVE  RequestInv'
<1>1. UNCHANGED <<settings, query, contexts, attempt, errors, leaked, http, outcome>>
  BY DEF TransportNext, Arrive, Flushed, WriteTimeout, Ends, DropSelf, handle_read_,
         DeliverSuppressedEof, Event, handle_write_, handle_event_, dnsVars, connectVars, httpVars
<1>2. /\ emitter' = [field \in DOMAIN NoEmitter |-> emitter'[field]]
      /\ Negotiating' \/ Told' \/ Exchanging' \/ Closed'
  <2>1. CASE Background
    <3>1. UNCHANGED <<call, arg, emitter, live>>
      BY <2>1 DEF Background, Arrive, Flushed, WriteTimeout, Ends
    <3>2. Negotiating \/ Told \/ Exchanging
      BY InPhase
    <3> QED
      BY <1>1, <3>1, <3>2 DEF RequestInv, Typed, Negotiating, Told, Exchanging, NoTransport, NoEmitter,
                              OneHeld, NoQueryRuns, NotTrying
  <2>2. CASE ~Background
    <3>1. call = "none"
      BY <2>2 DEF TransportNext, Background, DropSelf, handle_read_, DeliverSuppressedEof, Event,
                  handle_write_, handle_event_, InLoop
    <3>2. Negotiating \/ Exchanging
      BY <3>1, InPhase
    <3> QED
      BY <2>2, <3>2, NegotiatingSteps, ExchangingSteps
  <2> QED
    BY <2>1, <2>2
<1> QED
  BY <1>1, <1>2 DEF RequestInv, Typed, Phases, Contexts, Redirections

\* connect(), up to its callback.
LEMMA ConnectSteps ==
  ASSUME RequestInv, ConnectNext, UNCHANGED httpVars
  PROVE  /\ attempt' = [index |-> attempt'.index, at |-> attempt'.at]
         /\ errors' \in Seq({"ok", "Sys", "Timeout"})
         /\ emitter' = [field \in DOMAIN NoEmitter |-> emitter'[field]]
         /\ Trying' \/ Negotiating' \/ Told'
<1> USE DEF RequestInv, Typed, NoAttempt, NoEmitter, NoBev
<1>1. UNCHANGED <<query, http, outcome>>
  BY DEF ConnectNext, OnResolved, connect_first_of, OnTcp, AttemptEnds, HandshakeEnds, dnsVars, httpVars
<1>2. CASE OnResolved
  <2>1. LookingUp
    BY <1>2, InPhase DEF OnResolved
  <2>2. UNCHANGED <<emitter, bev, live, errors, leaked>>
    BY <1>2 DEF OnResolved, ioVars
  <2>3. CASE result.addresses = <<>>
    BY <1>1, <1>2, <2>1, <2>2, <2>3
    DEF OnResolved, LookingUp, Told, Enter, NoTransport, NoneLeft, NoQueryRuns, NotTrying
  <2>4. CASE result.addresses # <<>>
    BY <1>1, <1>2, <2>1, <2>2, <2>4
    DEF OnResolved, LookingUp, Trying, Enter, NoTransport, NoneLeft, NoQueryRuns, NotTrying, NoSuccess
  <2> QED
    BY <2>3, <2>4
<1>3. CASE connect_first_of
  <2>1. Trying /\ NotTrying /\ NoneLeft /\ NoSuccess /\ call = "connect_first_of"
    BY <1>3, InPhase DEF connect_first_of, Trying
  <2>2. UNCHANGED <<emitter, bev, leaked>>
    BY <1>3 DEF connect_first_of, ioVars, connectVars
  <2>3. CASE attempt.index > Len(result.addresses)
    <3>1. AllFailed # "ok"
      BY <2>1 DEF AllFailed, NoSuccess
    <3> QED
      BY <1>1, <1>3, <2>1, <2>2, <2>3, <3>1
      DEF connect_first_of, Trying, Told, Enter, NoTransport, NoneLeft, NoQueryRuns, NotTrying, connectVars
  <2>4. CASE errors' = Append(errors, "Sys") /\ NextAddress /\ UNCHANGED <<call, arg, live>>
    BY <1>1, <2>1, <2>2, <2>4
    DEF NextAddress, Trying, NoTransport, NoneLeft, NoQueryRuns, NotTrying, NoSuccess
  <2>5. CASE /\ attempt' = [attempt EXCEPT !.at = "connecting"] /\ live' = live + 1
             /\ Enter("none", "ok") /\ UNCHANGED errors
    BY <1>1, <2>1, <2>2, <2>5
    DEF Enter, Trying, NoTransport, NoneLeft, OneHeld, NoQueryRuns, NotTrying, NoSuccess
  <2> QED
    BY <1>3, <2>3, <2>4, <2>5 DEF connect_first_of, connect_base
<1>4. CASE \E err \in {"ok", "Sys", "Timeout"} : AttemptEnds(err)
  <2> PICK err \in {"ok", "Sys", "Timeout"} : AttemptEnds(err)
    BY <1>4
  <2>1. Trying /\ attempt.at = "connecting" /\ OneHeld /\ NoSuccess
    BY InPhase DEF AttemptEnds, InLoop, Trying, NotTrying
  <2>2. UNCHANGED <<emitter, bev, leaked>>
    BY DEF AttemptEnds, ioVars
  <2> QED
    BY <1>1, <2>1, <2>2
    DEF AttemptEnds, FreeAttempt, NextAddress, Enter, Trying, NoTransport, NoneLeft, OneHeld, NoQueryRuns,
        NotTrying, NoSuccess
<1>5. CASE OnTcp
  <2>1. Trying /\ NotTrying /\ OneHeld
    BY <1>5, InPhase DEF OnTcp, Trying
  <2>2. UNCHANGED errors
    BY <1>5 DEF OnTcp
  <2>3. CASE \E err \in {"Nagle", "MissingCaBundle"} :
               FailedAndLeaked(err) /\ UNCHANGED <<attempt, linkVars>>
    BY <1>1, <2>1, <2>2, <2>3
    DEF FailedAndLeaked, linkVars, Trying, Told, Enter, NoTransport, OneHeld, NoQueryRuns, NotTrying
  <2>4. CASE socks5_connect
    BY <1>1, <2>1, <2>2, <2>4
    DEF socks5_connect, MakeTransport, Socks5, LibeventEmitter, Trying, Negotiating, Enter, OneHeld,
        NoQueryRuns, NotTrying
  <2>5. CASE Connected /\ UNCHANGED <<attempt, live, leaked>>
    BY <1>1, <2>1, <2>2, <2>5
    DEF Connected, MakeTransport, LibeventEmitter, Trying, Told, Enter, OneHeld, NoQueryRuns, NotTrying
  <2>6. CASE /\ attempt' = [attempt EXCEPT !.at = "handshake"]
             /\ Enter("none", "ok") /\ UNCHANGED <<live, leaked, linkVars>>
    BY <1>1, <2>1, <2>2, <2>6 DEF Trying, Enter, linkVars, NoTransport, OneHeld, NoQueryRuns, NotTrying
  <2>7. CASE \E err \in SslErrors : /\ err # "ok" /\ FailedAndFreed(err)
                                   /\ UNCHANGED <<attempt, linkVars>>
    BY <1>1, <2>1, <2>2, <2>7
    DEF FailedAndFreed, linkVars, Trying, Told, Enter, NoTransport, NoneLeft, OneHeld, NoQueryRuns, NotTrying
  <2> QED
    BY <1>5, <2>3, <2>4, <2>5, <2>6, <2>7 DEF OnTcp
<1>6. CASE \E err \in {"ok", "Ssl", "Timeout"} : HandshakeEnds(err)
  <2> PICK err \in {"ok", "Ssl", "Timeout"} : HandshakeEnds(err)
    BY <1>6
  <2>1. Trying /\ OneHeld
    BY InPhase DEF HandshakeEnds, Trying, NotTrying
  <2>2. UNCHANGED errors /\ attempt' = [attempt EXCEPT !.at = "nowhere"]
    BY DEF HandshakeEnds
  <2>3. CASE Connected /\ UNCHANGED <<live, leaked>>
    BY <1>1, <2>1, <2>2, <2>3
    DEF Connected, MakeTransport, LibeventEmitter, Trying, Told, Enter, OneHeld, NoQueryRuns, NotTrying
  <2>4. CASE \E why \in {"Value", "Ssl", "Timeout"} : FailedAndFreed(why) /\ UNCHANGED linkVars
    BY <1>1, <2>1, <2>2, <2>4
    DEF FailedAndFreed, linkVars, Trying, Told, Enter, NoTransport, NoneLeft, OneHeld, NoQueryRuns, NotTrying
  <2> QED
    BY <2>3, <2>4 DEF HandshakeEnds
<1> QED
  BY <1>2, <1>3, <1>4, <1>5, <1>6 DEF ConnectNext

LEMMA ConnectKeeps ==
  ASSUME RequestInv, ConnectNext, UNCHANGED httpVars
  PROVE  RequestInv'
<1>1. UNCHANGED <<settings, query, contexts, http>>
  BY DEF ConnectNext, OnResolved, connect_first_of, OnTcp, AttemptEnds, HandshakeEnds, dnsVars, httpVars
<1> QED
  BY <1>1, ConnectSteps DEF RequestInv, Typed, Phases, Contexts, Redirections

\* The steps that use the transport: it is there before and after.
Uses == OnWritten \/ OnData \/ OnReadError \/ EndOfClosure

LEMMA UsesKeep ==
  ASSUME RequestInv, Uses
  PROVE  RequestInv'
<1> USE DEF RequestInv, Typed, NoEmitter
<1>1. Exchanging
  BY InPhase DEF Uses, OnWritten, OnData, OnReadError, EndOfClosure, InLoop
<1>2. UNCHANGED <<settings, query, contexts, attempt, errors, live, leaked, outcome>>
  BY DEF Uses, OnWritten, OnData, OnReadError, EndOfClosure, dnsVars, connectVars
<1>3. /\ http' = [at |-> http'.at, redirs |-> http'.redirs, err |-> http'.err]
      /\ http'.redirs = http.redirs
      /\ http'.at \in {"sending", "receiving", "ended", "closing"}
      /\ call' \in {"none", "thrown"}
      /\ emitter' = [field \in DOMAIN NoEmitter |-> emitter'[field]]
      /\ emitter'.kind = emitter.kind /\ emitter'.stage = emitter.stage
  <2> USE <1>1 DEF Exchanging, CloseWith, close, Enter, At, read
  <2>1. CASE OnWritten
    BY <2>1 DEF OnWritten, request_recv_response
  <2>2. CASE OnData
    BY <2>2 DEF OnData, ReadEnds
  <2>3. CASE OnReadError
    BY <2>3 DEF OnReadError, ReadEnds
  <2>4. CASE EndOfClosure
    BY <2>4 DEF EndOfClosure
  <2> QED
    BY <2>1, <2>2, <2>3, <2>4 DEF Uses
<1>4. Exchanging'
  BY <1>1, <1>2, <1>3 DEF Exchanging, NoQueryRuns, NotTrying, OneHeld
<1> QED
  BY <1>2, <1>3, <1>4 DEF Phases, Contexts, Redirections

LEMMA RequestKeeps ==
  ASSUME RequestInv, request
  PROVE  RequestInv'
<1> USE DEF RequestInv, Typed
<1>1. Resting /\ NoneLeft /\ outcome = "none" /\ call = "none"
  BY InPhase DEF request, InLoop, Resting, Closed
<1>2. /\ settings' \in Settings /\ settings'.max_redirects = settings.max_redirects
      /\ UNCHANGED <<emitter, bev, live, leaked, contexts>>
  BY DEF request, request_connect_impl, connect, resolve_hostname, dnsVars, ioVars, connectVars
<1>3. CASE /\ \E err : CallBack(err)
           /\ UNCHANGED <<dnsVars, ioVars, live, connectVars>>
  BY <1>1, <1>2, <1>3
  DEF CallBack, At, Resting, NoTransport, NoneLeft, NoQueryRuns, NotTrying, Phases, Contexts, Redirections,
      dnsVars, connectVars
<1>4. CASE connect(settings') /\ At("connecting") /\ UNCHANGED outcome
  <2>1. /\ query' = [type |-> query'.type, at |-> query'.at]
        /\ \/ call' = "none" /\ query'.at = "soon"
           \/ call' = "resolved" /\ query' = query
    BY <1>4 DEF connect, resolve_hostname, Ask, Enter
  <2>2. /\ attempt' = NoAttempt /\ errors' = <<>> /\ UNCHANGED outcome
        /\ http' = [http EXCEPT !.at = "connecting"]
    BY <1>4 DEF connect, At
  <2>3. LookingUp'
    BY <1>1, <1>2, <2>1, <2>2
    DEF LookingUp, Resting, NoTransport, NoneLeft, NoQueryRuns, NotTrying, NoAttempt
  <2> QED
    BY <1>1, <1>2, <2>1, <2>2, <2>3 DEF Phases, Contexts, Redirections, Resting, NoQueryRuns, NoAttempt
<1> QED
  BY <1>3, <1>4 DEF request, request_connect_impl

LEMMA OnConnectedKeeps ==
  ASSUME RequestInv, OnConnected
  PROVE  RequestInv'
<1> USE DEF RequestInv, Typed, NoEmitter
<1>1. Told
  BY InPhase DEF OnConnected
<1>2. UNCHANGED <<settings, query, contexts, attempt, errors, live>>
  BY DEF OnConnected, dnsVars
<1>3. CASE arg = "ok"
  <2>1. UNCHANGED <<outcome, leaked>> /\ write /\ At("sending") /\ Enter("none", "ok")
    BY <1>3 DEF OnConnected, request_maybe_send
  <2> QED
    BY <1>1, <1>2, <1>3, <2>1
    DEF write, At, Enter, Told, Exchanging, OneHeld, NoQueryRuns, NotTrying, Phases, Contexts, Redirections
<1>4. CASE arg # "ok"
  <2>1. /\ CallBack(arg) /\ emitter' = NoEmitter /\ bev' = NoBev
        /\ leaked' = leaked \cup (IF emitter.kind = "socks5" THEN {"Socks"} ELSE {})
    BY <1>4 DEF OnConnected
  <2>2. NoneLeft' \/ (live' = 1 /\ \E why \in leaked' : leaked' = {why})
    <3>1. CASE emitter.kind = "socks5"
      <4>1. leaked' = {"Socks"} /\ live' = 1
        BY <1>1, <1>2, <1>4, <2>1, <3>1 DEF Told, OneHeld, NoTransport
      <4> QED
        BY <4>1
    <3>2. CASE emitter.kind # "socks5"
      <4>1. leaked' = leaked
        BY <2>1, <3>2
      <4> QED
        BY <1>1, <1>2, <1>4, <3>2, <4>1 DEF Told, NoneLeft
    <3> QED
      BY <3>1, <3>2
  <2>3. Resting'
    BY <1>1, <1>2, <1>4, <2>1, <2>2
    DEF CallBack, At, Told, Resting, NoTransport, NoneLeft, OneHeld, NoQueryRuns, NotTrying
  <2> QED
    BY <1>1, <1>2, <2>1, <2>3 DEF CallBack, At, Phases, Contexts, Redirections
<1> QED
  BY <1>3, <1>4

LEMMA OnClosedKeeps ==
  ASSUME RequestInv, OnClosed
  PROVE  RequestInv'
<1> USE DEF RequestInv, Typed
<1>1. Closed
  BY InPhase DEF OnClosed
<1>2. UNCHANGED <<settings, dnsVars, emitter, bev, live, attempt, errors, leaked>>
  BY DEF OnClosed, below, ioVars, connectVars
<1>3. CASE \E err : CallBack(err)
  BY <1>1, <1>2, <1>3
  DEF CallBack, At, Closed, Resting, NoTransport, NoneLeft, NoQueryRuns, NotTrying, Phases, Contexts,
      Redirections, dnsVars
<1>4. CASE /\ settings.max_redirects > 0 /\ http.redirs < settings.max_redirects
           /\ http' = [http EXCEPT !.at = "again", !.redirs = @ + 1]
           /\ Enter("none", "ok") /\ UNCHANGED outcome
  <2>1. /\ http' = [at |-> http'.at, redirs |-> http'.redirs, err |-> http'.err]
        /\ http'.at = "again" /\ http'.redirs = http.redirs + 1
    BY <1>4
  <2>2. Redirections' /\ http'.redirs \in Nat
    <3>1. settings.max_redirects \in Int /\ settings' = settings
      BY <1>2, RedirectsAreNumbers
    <3> QED
      BY <1>4, <2>1, <3>1 DEF Redirections
  <2>3. Resting'
    BY <1>1, <1>2, <1>4, <2>1
    DEF Enter, Closed, Resting, NoTransport, NoneLeft, NoQueryRuns, NotTrying, dnsVars
  <2> QED
    BY <1>2, <2>1, <2>2, <2>3 DEF Phases, Contexts, dnsVars
<1>5. CASE settings.max_redirects > 0 /\ Head1 \in Redirects /\ FollowRedirect
  <2>1. CASE Head1 = "moved"
    <3>1. settings.max_redirects \in Int
      BY RedirectsAreNumbers
    <3> QED
      BY <1>3, <1>4, <1>5, <2>1, <3>1 DEF FollowRedirect, redirect_valid
  <2>2. CASE Head1 # "moved"
    BY <1>3, <1>5, <2>2 DEF FollowRedirect, redirect_valid, Redirects
  <2> QED
    BY <2>1, <2>2
<1>6. \/ CallBack(http.err) \/ CallBack("ok")
      \/ settings.max_redirects > 0 /\ Head1 \in Redirects /\ FollowRedirect
  BY DEF OnClosed
<1> QED
  BY <1>3, <1>5, <1>6

LEMMA StepKeeps == RequestInv /\ [Next]_vars => RequestInv'
<1> SUFFICES ASSUME RequestInv, [Next]_vars PROVE RequestInv'
  OBVIOUS
<1>1. CASE RequestNext
  <2>1. CASE DnsNext /\ UNCHANGED <<ioVars, live, connectVars, httpVars>>
    BY <2>1, DnsKeeps
  <2>2. CASE TransportNext /\ UNCHANGED <<connectVars, httpVars>>
    BY <2>2, NoTransportKeeps, TransportKeeps
  <2>3. CASE ConnectNext /\ UNCHANGED httpVars
    BY <2>3, ConnectKeeps
  <2>4. CASE HttpNext
    BY <2>4, RequestKeeps, OnConnectedKeeps, UsesKeep, OnClosedKeeps DEF HttpNext, Uses
  <2> QED
    BY <1>1, <2>1, <2>2, <2>3, <2>4 DEF RequestNext
<1>2. CASE UNCHANGED requestVars
  <2>1. /\ UNCHANGED <<settings, call, arg, query, contexts, emitter, bev, live>>
        /\ UNCHANGED <<attempt, errors, leaked, http, outcome>>
    BY <1>2 DEF requestVars, dnsVars, ioVars, connectVars, httpVars
  <2> QED
    BY <2>1 DEF RequestInv, Typed, Phases, Contexts, Redirections, Resting, LookingUp, Trying, Negotiating,
                Told, Exchanging, Closed, NoTransport, NoneLeft, OneHeld, NoQueryRuns, NotTrying, NoSuccess
<1> QED
  BY <1>1, <1>2 DEF Next, RequestSteps, Over, vars

\* The phases of a request and what it holds in each, as RequestInv says.
THEOREM RequestInvariant == Spec => []RequestInv
  BY InitKeeps, StepKeeps, PTL DEF Spec

LEMMA HeldByPhase == RequestInv => ConnectionsClosed
<1> SUFFICES ASSUME RequestInv PROVE ConnectionsClosed
  OBVIOUS
<1>1. live \in {0, 1}
  BY DEF RequestInv, Phases, Resting, LookingUp, Trying, Negotiating, Told, Exchanging, Closed, NoneLeft,
         OneHeld
<1>2. ASSUME outcome # "none" PROVE live = Cardinality(leaked) /\ contexts = 0
  <2>1. Resting
    BY <1>2 DEF RequestInv, Phases, LookingUp, Trying, Negotiating, Told, Exchanging, Closed
  <2>2. CASE NoneLeft
    <3>1. Cardinality({}) = 0
      BY FS_EmptySet
    <3> QED
      BY <2>1, <2>2, <3>1 DEF RequestInv, Resting, NoQueryRuns, Contexts, NoneLeft
  <2>3. CASE live = 1 /\ \E why \in leaked : leaked = {why}
    <3>1. PICK why \in leaked : leaked = {why}
      BY <2>3
    <3>2. Cardinality({why}) = 1
      BY FS_Singleton
    <3> QED
      BY <2>1, <2>3, <3>1, <3>2 DEF RequestInv, Resting, NoQueryRuns, Contexts
  <2> QED
    BY <2>1, <2>2, <2>3 DEF Resting
<1> QED
  BY <1>1, <1>2 DEF RequestInv, Redirections, ConnectionsClosed

\* One connection at a time, no more redirections than the settings allow, and
\* when the caller of request() is called back no connection is left but those
\* that an error of disable_nagle(), a missing CA bundle or a proxy that
\* refuses leaves behind.
THEOREM RequestClosesConnections == Spec => []ConnectionsClosed
  BY RequestInvariant, HeldByPhase, PTL

-----------------------------------------------------------------------------
(* That a response is whole: what the peer has sent is in the response, in *)
(* the buffer that is handed to the reader, or in that of libevent.        *)

Count == [up : Nat, down : Nat]

\* The length, which the steps that add and subtract need not look into.
Size(parts) == Len(parts)

DataTyped ==
  /\ peer \in [sent : Seq(Part), wire : Seq(Part), later : Seq(Seq(Part)), end : EndKinds \cup {"silent"}]
  /\ bev \in [reading : BOOLEAN, writing : BOOLEAN, input : Seq(Part),
              events : SUBSET ({"read", "write"} \cup EndKinds)]
  /\ buff \in Seq(Part) /\ response \in Seq(Part)
  /\ usage \in [now : Count, before : Count]

\* Which handlers the request has set, and which callback may come.
Handled ==
  /\ emitter.kind \in {"none", "libevent", "socks5"}
  /\ emitter.onData \in {"none", "readn"} /\ emitter.onError \in {"none", "write", "readn"}
  /\ call = "written" => emitter.onFlush = "none"
  /\ call = "read" => emitter.onData = "none" /\ emitter.onError = "none"
  /\ http.at \in {"connecting", "sending"} =>
       emitter.onData = "none" /\ emitter.onError # "readn" /\ call # "read"
  /\ http.at = "receiving" =>
       emitter.onFlush = "none" /\ emitter.onError # "write" /\ call # "written"
  /\ http.at = "ended" =>
       /\ emitter.onData = "none" /\ emitter.onFlush = "none" /\ emitter.onError = "none"
       /\ call \notin {"read", "written"}
  /\ http.at = "closing" =>
       /\ emitter.onFlush = "none" /\ emitter.onError = "none" /\ call \notin {"read", "written"}
       /\ emitter.kind # "none" => emitter.closing /\ bev.events = {}
  /\ http.at # "closing" => ~emitter.closing /\ call # "closed"

States == {"start", "counted", "untilEof", "end", "error"}

\* What the parser has seen, as far as its state tells.
ParsedAs(state, parts) ==
  /\ state \in States
  /\ state = "start" => parts = <<>>
  /\ state = "counted" => parts = <<"counted">>
  /\ state = "untilEof" => parts # <<>> /\ parts[1] = "untilEof"
  /\ state = "end" => \/ parts = <<"counted", "body">>
                      \/ \E head \in {"empty"} \cup Redirects : parts = <<head>>

Parsed ==
  /\ ParsedAs(parser, response)
  /\ http.at \in {"connecting", "sending"} => parser = "start"

\* From the moment that connect() calls back to the end of a good response.
Flowing ==
  \/ http.at = "connecting" /\ call = "connected" /\ arg = "ok"
  \/ http.at \in {"sending", "receiving"}
  \/ http.at = "ended" /\ http.err = "ok"

\* What the callback of net::read() is about to take.
Pending == IF call = "read" /\ arg = "ok" THEN buff ELSE <<>>

EndOfData == peer.wire = <<>> /\ peer.later = <<>> /\ peer.end = "Eof"

\* Without a proxy.  Nothing is read that nobody waits for, and the end of
\* file comes last.
Direct ==
  /\ peer.sent = (response \o Pending) \o bev.input
  /\ usage.now.down = usage.before.down + Size(peer.sent) - Size(bev.input)
  /\ usage.now.up = usage.before.up + (IF http.at = "connecting" THEN 0 ELSE 1)
  /\ emitter.onData = "none" => ~bev.reading /\ bev.input = <<>>
  /\ emitter.suppressed_eof \/ "Eof" \in bev.events \/ (call = "read" /\ arg = "Eof") => EndOfData
  /\ emitter.suppressed_eof /\ tail => bev.input = <<>>

\* What a server has sent through the proxy.
Served == SubSeq(peer.sent, 3, Len(peer.sent))

NoHead(parts) == \A i \in DOMAIN parts : parts[i] \notin Heads

\* All of it was taken, or the first part was dropped, for nobody waited for
\* it, and without that the parser accepts nothing.
Kept ==
  /\ Served = (response \o Pending) \o bev.input
  /\ usage.now.down = usage.before.down + 2 + 2 * (Size(Served) - Size(bev.input))
Lost ==
  /\ Served # <<>>
  /\ NoHead(Pending) /\ NoHead(bev.input)
  /\ parser \in {"start", "error"}

Relayed ==
  /\ Size(peer.sent) >= 2
  /\ OneResponse(Served \o peer.wire)
  /\ bev.writing \/ http.at = "connecting" => Served = <<>> /\ peer.wire = <<>>
  /\ http.at = "connecting" => ~bev.writing
  /\ peer.later # <<>> =>
       /\ Served = <<>> /\ peer.wire = <<>>
       /\ Len(peer.later) = 1 /\ OneResponse(peer.later[1])
  /\ usage.now.up = usage.before.up + (IF http.at = "connecting" THEN 2 ELSE 4)
  /\ http.at = "receiving" /\ call = "none" => emitter.onData = "readn"
  /\ call = "read" => arg = "ok"
  /\ Kept \/ Lost

\* The data of a transport that is up.
Flows ==
  /\ bev.input # <<>> <=> "read" \in bev.events
  /\ emitter.kind = "libevent" => Direct
  /\ emitter.kind = "socks5" => Relayed
  /\ http.at = "ended" =>
       parser = "end" \/ (emitter.kind = "libevent" /\ parser = "untilEof" /\ EndOfData)

\* The proxy has taken n of its turns, or could not take them.
Turns(n) ==
  /\ Size(peer.sent) + Size(peer.wire) <= n
  /\ \A i \in DOMAIN peer.later :
       \/ i + n < 3 /\ Size(peer.later[i]) = 1
       \/ i + n = 3 /\ OneResponse(peer.later[i])

Asking ==
  \/ /\ emitter.stage = "auth"
     /\ peer.sent = bev.input
     /\ Turns(0) \/ (Turns(1) /\ ~bev.writing)
     /\ usage.now.down = usage.before.down /\ usage.now.up = usage.before.up + 1
  \/ /\ emitter.stage = "connect"
     /\ peer.sent = <<"auth">> \o bev.input
     /\ Turns(1) \/ (Turns(2) /\ ~bev.writing)
     /\ usage.now.down = usage.before.down + 1 /\ usage.now.up = usage.before.up + 2

WholeInv ==
  /\ DataTyped /\ Handled /\ Parsed
  /\ Negotiating => Asking
  /\ Flowing => Flows

-----------------------------------------------------------------------------
(* Sequences of parts, and the parser that goes through one.               *)

\* Of sequences of parts.
LEMMA Concatenations ==
  /\ \A s, t \in Seq(Part) : s \o t \in Seq(Part) /\ Len(s \o t) = Len(s) + Len(t)
  /\ \A s, t, u \in Seq(Part) : (s \o t) \o u = s \o (t \o u)
  /\ \A s \in Seq(Part) : s \o <<>> = s /\ <<>> \o s = s
  /\ <<>> \in Seq(Part)
<1>1. \A s, t \in Seq(Part) : s \o t \in Seq(Part) /\ Len(s \o t) = Len(s) + Len(t)
  BY ConcatProperties
<1>2. \A s, t, u \in Seq(Part) : (s \o t) \o u = s \o (t \o u)
  BY ConcatAssociative
<1>3. \A s \in Seq(Part) : s \o <<>> = s /\ <<>> \o s = s
  BY ConcatEmptySeq
<1> QED
  BY <1>1, <1>2, <1>3

LEMMA Sizes ==
  /\ \A s \in Seq(Part) : Size(s) \in Nat /\ (Size(s) = 0 <=> s = <<>>)
  /\ \A s, t \in Seq(Part) : Size(s \o t) = Size(s) + Size(t)
  BY Concatenations, EmptySeq DEF Size

LEMMA Pairs ==
  ASSUME NEW a \in Part, NEW b \in Part
  PROVE  Append(<<a>>, b) = <<a, b>>
<1> DEFINE one == <<a>>
           two == <<a, b>>
<1>1. /\ one \in Seq(Part) /\ Len(one) = 1 /\ one[1] = a
      /\ two \in Seq(Part) /\ Len(two) = 2 /\ two[1] = a /\ two[2] = b
  OBVIOUS
<1> HIDE DEF one, two
<1>2. /\ Len(Append(one, b)) = Len(one) + 1 /\ Append(one, b)[Len(one) + 1] = b
      /\ \A i \in 1 .. Len(one) : Append(one, b)[i] = one[i]
      /\ Append(one, b) \in Seq(Part)
  <2>1. \A s \in Seq(Part), e \in Part :
          /\ Append(s, e) \in Seq(Part) /\ Len(Append(s, e)) = Len(s) + 1
          /\ \A i \in 1 .. Len(s) : Append(s, e)[i] = s[i]
          /\ Append(s, e)[Len(s) + 1] = e
    BY AppendProperties
  <2> QED
    BY <1>1, <2>1
<1>3. Append(one, b) = two
  BY <1>1, <1>2, SeqEqual
<1> QED
  BY <1>3 DEF one, two

LEMMA Executes ==
  ASSUME NEW state, NEW part
  PROVE  execute(state, part) \in States
  BY DEF execute, States

\* Induction over an interval.
LEMMA Reached ==
  ASSUME NEW max \in Nat, NEW S, 0 \in S, \A n \in 1 .. max : n - 1 \in S => n \in S
  PROVE  0 .. max \subseteq S
<1> DEFINE missed == (0 .. max) \ S
<1>1. SUFFICES ASSUME missed # {} PROVE FALSE
  OBVIOUS
<1>2. missed \subseteq Nat
  OBVIOUS
<1> HIDE DEF missed
<1>3. PICK n \in missed : \A m \in missed : ~ (<<m, n>> \in OpToRel(<, Nat))
  BY <1>1, <1>2, NatLessThanWellFounded, WFMin
<1>4. \A m \in Nat : m < n => m \notin missed
  BY <1>2, <1>3 DEF OpToRel
<1>5. n \in 1 .. max /\ n \notin S
  <2>1. n \in (0 .. max) \ S
    BY DEF missed
  <2> QED
    BY <2>1
<1>6. n - 1 \notin missed /\ n - 1 \in 0 .. max
  BY <1>4, <1>5
<1> QED
  BY <1>5, <1>6 DEF missed

\* The states that the parser goes through.
LEMMA FeedGoesOn ==
  ASSUME NEW parts \in Seq(Part), parser \in States
  PROVE  \E state \in [0 .. Len(parts) -> States] :
           /\ state[0] = parser /\ feed(parts) = state[Len(parts)]
           /\ \A n \in 1 .. Len(parts) : state[n] = execute(state[n - 1], parts[n])
<1> DEFINE goes(g, n) ==
             g \in [0 .. n -> States]
             /\ \A i \in 0 .. n : g[i] = IF i = 0 THEN parser ELSE execute(g[i - 1], parts[i])
           good == {n \in 0 .. Len(parts) : \E g : goes(g, n)}
           state == CHOOSE f : f = [n \in 0 .. Len(parts) |->
                                      IF n = 0 THEN parser ELSE execute(f[n - 1], parts[n])]
<1>0. Len(parts) \in Nat
  OBVIOUS
<1>1. 0 \in good
  <2>1. goes([i \in 0 .. 0 |-> parser], 0)
    OBVIOUS
  <2> HIDE DEF goes
  <2> QED
    BY <1>0, <2>1
<1> HIDE DEF goes
<1>2. \A n \in 1 .. Len(parts) : n - 1 \in good => n \in good
  <2> SUFFICES ASSUME NEW n \in 1 .. Len(parts), n - 1 \in good
               PROVE  \E g : goes(g, n)
    BY <1>0
  <2>1. PICK g : goes(g, n - 1)
    OBVIOUS
  <2> USE DEF goes
  <2> DEFINE h == [i \in 0 .. n |-> IF i < n THEN g[i] ELSE execute(g[n - 1], parts[n])]
  <2>2. \A i \in 0 .. n : h[i] \in States
    BY <1>0, <2>1, Executes
  <2>3. \A i \in 0 .. n : h[i] = IF i = 0 THEN parser ELSE execute(h[i - 1], parts[i])
    <3> SUFFICES ASSUME NEW i \in 0 .. n
                 PROVE  h[i] = IF i = 0 THEN parser ELSE execute(h[i - 1], parts[i])
      OBVIOUS
    <3>1. CASE i < n
      BY <3>1, <1>0, <2>1
    <3>2. CASE i = n
      <4>1. h[n] = execute(g[n - 1], parts[n]) /\ h[n - 1] = g[n - 1]
        BY <1>0
      <4> HIDE DEF h
      <4> QED
        BY <3>2, <4>1
    <3> QED
      BY <3>1, <3>2, <1>0
  <2>4. h \in [0 .. n -> States]
    BY <2>2
  <2> HIDE DEF h
  <2> QED
    BY <2>3, <2>4
<1>3. PICK g : goes(g, Len(parts))
  <2>1. 0 .. Len(parts) \subseteq good
    <3> HIDE DEF good
    <3> QED
      BY <1>0, <1>1, <1>2, Reached
  <2> QED
    BY <1>0, <2>1
<1>4. g = [n \in 0 .. Len(parts) |-> IF n = 0 THEN parser ELSE execute(g[n - 1], parts[n])]
  BY <1>3 DEF goes
<1>5. state = [n \in 0 .. Len(parts) |-> IF n = 0 THEN parser ELSE execute(state[n - 1], parts[n])]
  BY <1>4
<1>6. feed(parts) = state[Len(parts)]
  BY DEF feed
<1> HIDE DEF state
<1>7. \A n \in 0 .. Len(parts) : state[n] \in States
  BY <1>0, <1>5, Executes
<1> QED
  BY <1>0, <1>5, <1>6, <1>7

LEMMA ParsedOn ==
  ASSUME NEW state, NEW parts \in Seq(Part), ParsedAs(state, parts), NEW part \in Part
  PROVE  ParsedAs(execute(state, part), Append(parts, part))
<1> DEFINE more == Append(parts, part)
<1>1. parts = <<>> => more = <<part>>
  OBVIOUS
<1>2. parts = <<"counted">> => more = <<"counted", part>>
  BY Pairs DEF Part, Heads
<1>3. more # <<>>
  BY AppendProperties
<1>4. parts # <<>> => more[1] = parts[1]
  <2>1. Len(parts) \in Nat /\ (parts # <<>> => Len(parts) # 0)
    OBVIOUS
  <2>2. \A i \in 1 .. Len(parts) : more[i] = parts[i]
    BY AppendProperties
  <2> HIDE DEF more
  <2> QED
    BY <2>1, <2>2
<1> HIDE DEF more
<1>5. ASSUME state = "start" PROVE ParsedAs(execute(state, part), more)
  <2>1. more = <<part>> /\ more # <<>> /\ more[1] = part
    BY <1>1, <1>5 DEF ParsedAs
  <2>2. CASE part \in {"counted", "untilEof"}
    <3>1. execute(state, part) = part
      BY <1>5, <2>2 DEF execute, Redirects
    <3> QED
      BY <2>1, <2>2, <3>1 DEF ParsedAs, States
  <2>3. CASE part \in {"empty"} \cup Redirects
    BY <1>5, <2>1, <2>3 DEF ParsedAs, States, execute, Heads, Redirects
  <2>4. CASE part \notin Heads
    BY <1>5, <2>1, <2>4 DEF ParsedAs, States, execute, Heads, Redirects
  <2> QED
    BY <2>2, <2>3, <2>4 DEF Heads, Redirects
<1>6. ASSUME state = "counted" PROVE ParsedAs(execute(state, part), more)
  BY <1>2, <1>6 DEF ParsedAs, States, execute
<1>7. ASSUME state = "untilEof" PROVE ParsedAs(execute(state, part), more)
  BY <1>3, <1>4, <1>7 DEF ParsedAs, States, execute
<1>8. ASSUME state \in {"end", "error"} PROVE ParsedAs(execute(state, part), more)
  BY <1>8 DEF ParsedAs, States, execute
<1> QED
  BY <1>5, <1>6, <1>7, <1>8 DEF ParsedAs, States, more

LEMMA FeedParses ==
  ASSUME NEW parts \in Seq(Part), response \in Seq(Part), ParsedAs(parser, response)
  PROVE  ParsedAs(feed(parts), response \o parts)
<1>1. PICK state \in [0 .. Len(parts) -> States] :
        /\ state[0] = parser /\ feed(parts) = state[Len(parts)]
        /\ \A n \in 1 .. Len(parts) : state[n] = execute(state[n - 1], parts[n])
  BY FeedGoesOn DEF ParsedAs
<1> DEFINE seen(n) == response \o SubSeq(parts, 1, n)
           good == {n \in 0 .. Len(parts) : ParsedAs(state[n], seen(n))}
<1>2. Len(parts) \in Nat
  OBVIOUS
<1>3. seen(0) = response /\ seen(Len(parts)) = response \o parts
  BY SubSeqEmpty, SubSeqFull, ConcatEmptySeq
<1>4. 0 \in good
  <2> HIDE DEF seen
  <2> QED
    BY <1>1, <1>2, <1>3
<1>5. ASSUME NEW n \in 1 .. Len(parts)
      PROVE  /\ seen(n - 1) \in Seq(Part) /\ parts[n] \in Part
             /\ seen(n) = Append(seen(n - 1), parts[n])
  <2> DEFINE before == SubSeq(parts, 1, n - 1)
  <2>1. parts[n] \in Part /\ before \in Seq(Part) /\ <<parts[n]>> \in Seq(Part)
    BY <1>2, SubSeqProperties
  <2>2. SubSeq(parts, 1, n) = before \o <<parts[n]>>
    BY <1>2, SubSeqRecursiveSecond
  <2> HIDE DEF before
  <2>3. seen(n) = (response \o before) \o <<parts[n]>>
    <3>1. (response \o before) \o <<parts[n]>> = response \o (before \o <<parts[n]>>)
      BY <2>1, Concatenations, ZenonT(40)
    <3> QED
      BY <2>2, <3>1
  <2>4. response \o before \in Seq(Part)
    BY <2>1, ConcatProperties
  <2>5. (response \o before) \o <<parts[n]>> = Append(response \o before, parts[n])
    BY <2>1, <2>4, AppendIsConcat
  <2> QED
    BY <2>1, <2>3, <2>4, <2>5 DEF before
<1> HIDE DEF seen
<1>6. \A n \in 1 .. Len(parts) : n - 1 \in good => n \in good
  <2> SUFFICES ASSUME NEW n \in 1 .. Len(parts), n - 1 \in good
               PROVE  ParsedAs(state[n], seen(n))
    BY <1>2
  <2>1. state[n] = execute(state[n - 1], parts[n])
    BY <1>1
  <2> QED
    BY <1>5, <2>1, ParsedOn
<1>7. Len(parts) \in good
  <2> HIDE DEF good
  <2>1. 0 .. Len(parts) \subseteq good
    BY <1>2, <1>4, <1>6, Reached
  <2> QED
    BY <1>2, <2>1
<1> QED
  BY <1>1, <1>3, <1>7

\* Without a head the parser does not start.
LEMMA FeedRefuses ==
  ASSUME NEW parts \in Seq(Part), parser \in {"start", "error"}, NoHead(parts)
  PROVE  feed(parts) \in {"start", "error"}
<1>1. PICK state \in [0 .. Len(parts) -> States] :
        /\ state[0] = parser /\ feed(parts) = state[Len(parts)]
        /\ \A n \in 1 .. Len(parts) : state[n] = execute(state[n - 1], parts[n])
  BY FeedGoesOn DEF States
<1> DEFINE good == {n \in 0 .. Len(parts) : state[n] \in {"start", "error"}}
<1>2. Len(parts) \in Nat
  OBVIOUS
<1>3. 0 \in good
  BY <1>1, <1>2
<1>4. \A n \in 1 .. Len(parts) : n - 1 \in good => n \in good
  <2> SUFFICES ASSUME NEW n \in 1 .. Len(parts), n - 1 \in good
               PROVE  state[n] \in {"start", "error"}
    BY <1>2
  <2>1. state[n] = execute(state[n - 1], parts[n]) /\ parts[n] \notin Heads
    BY <1>1 DEF NoHead
  <2> QED
    BY <2>1 DEF execute, Heads
<1>5. Len(parts) \in good
  <2> HIDE DEF good
  <2>1. 0 .. Len(parts) \subseteq good
    BY <1>2, <1>3, <1>4, Reached
  <2> QED
    BY <1>2, <2>1
<1> QED
  BY <1>1, <1>5
\* A sequence cut in two.
LEMMA Cut ==
  ASSUME NEW w \in Seq(Part), NEW n \in 1 .. Len(w)
  PROVE  /\ SubSeq(w, 1, n) \in Seq(Part) /\ Len(SubSeq(w, 1, n)) = n
         /\ SubSeq(w, n + 1, Len(w)) \in Seq(Part)
         /\ SubSeq(w, 1, n) \o SubSeq(w, n + 1, Len(w)) = w
<1>1. Len(w) \in Nat /\ \A i \in 1 .. Len(w) : w[i] \in Part
  OBVIOUS
<1>2. SubSeq(w, 1, n) \in Seq(Part) /\ Len(SubSeq(w, 1, n)) = n
  BY <1>1, SubSeqProperties
<1>3. SubSeq(w, n + 1, Len(w)) \in Seq(Part)
  BY <1>1, SubSeqProperties
<1>4. SubSeq(w, 1, n) \o SubSeq(w, n + 1, Len(w)) = SubSeq(w, 1, Len(w))
  BY <1>1, ConcatAdjacentSubSeq
<1> QED
  BY <1>2, <1>3, <1>4, SubSeqFull

\* After the first two parts.
LEMMA Others ==
  ASSUME NEW s \in Seq(Part), NEW w \in Seq(Part), Len(s) >= 2
  PROVE  /\ SubSeq(s, 3, Len(s)) \in Seq(Part) /\ Len(SubSeq(s, 3, Len(s))) = Len(s) - 2
         /\ SubSeq(s \o w, 3, Len(s \o w)) = SubSeq(s, 3, Len(s)) \o w
<1> DEFINE t == SubSeq(s, 3, Len(s))
           u == SubSeq(s \o w, 3, Len(s \o w))
<1>1. Len(s) \in Nat /\ Len(w) \in Nat /\ \A i \in 1 .. Len(s) : s[i] \in Part
  OBVIOUS
<1>2. /\ t \in Seq(Part) /\ Len(t) = Len(s) - 2
      /\ \A i \in 1 .. Len(s) - 2 : t[i] = s[i + 2]
  <2>1. /\ SubSeq(s, 3, Len(s)) \in Seq(Part)
        /\ Len(SubSeq(s, 3, Len(s))) = IF 3 <= Len(s) THEN Len(s) - 3 + 1 ELSE 0
        /\ \A i \in 1 .. Len(s) - 3 + 1 : SubSeq(s, 3, Len(s))[i] = s[3 + i - 1]
    BY <1>1, SubSeqProperties
  <2>2. t = SubSeq(s, 3, Len(s))
    OBVIOUS
  <2> HIDE DEF t
  <2>3. t \in Seq(Part) /\ Len(t) = Len(s) - 2
    <3>1. t \in Seq(Part)
      BY <2>1, <2>2, Zenon
    <3>2. Len(t) = IF 3 <= Len(s) THEN Len(s) - 3 + 1 ELSE 0
      BY <2>1, <2>2, Zenon
    <3>3. Len(s) \in Nat /\ Len(s) >= 2
      BY <1>1
    <3>4. Len(t) = Len(s) - 2
      <4>1. CASE Len(s) = 2
        BY <3>2, <4>1
      <4>2. CASE Len(s) # 2
        <5>1. 3 <= Len(s)
          <6>1. \A n \in Nat : n >= 2 /\ n # 2 => 3 <= n
            OBVIOUS
          <6> QED
            BY <3>3, <4>2, <6>1, Zenon
        <5> QED
          BY <3>2, <3>3, <5>1
      <4> QED
        BY <4>1, <4>2
    <3> QED
      BY <3>1, <3>4
  <2>4. \A i \in 1 .. Len(s) - 2 : t[i] = s[i + 2]
    <3> TAKE i \in 1 .. Len(s) - 2
    <3>1. i \in 1 .. Len(s) - 3 + 1 /\ 3 + i - 1 = i + 2
      BY <1>1
    <3> QED
      BY <2>1, <2>2, <3>1
  <2> QED
    BY <2>3, <2>4
<1>3. /\ s \o w \in Seq(Part) /\ Len(s \o w) = Len(s) + Len(w)
      /\ \A i \in 1 .. Len(s) + Len(w) : (s \o w)[i] = IF i <= Len(s) THEN s[i] ELSE w[i - Len(s)]
  BY ConcatProperties
<1> DEFINE c == s \o w
<1>4. \A i \in 1 .. Len(c) : c[i] \in Part
  BY <1>3
<1> HIDE DEF c
<1>5. /\ u \in Seq(Part) /\ Len(u) = Len(s) + Len(w) - 2
      /\ \A i \in 1 .. Len(s) + Len(w) - 2 : u[i] = c[i + 2]
  <2>1. /\ SubSeq(c, 3, Len(c)) \in Seq(Part)
        /\ Len(SubSeq(c, 3, Len(c))) = IF 3 <= Len(c) THEN Len(c) - 3 + 1 ELSE 0
        /\ \A i \in 1 .. Len(c) - 3 + 1 : SubSeq(c, 3, Len(c))[i] = c[3 + i - 1]
    BY <1>1, <1>3, <1>4, SubSeqProperties DEF c
  <2>2. u = SubSeq(c, 3, Len(c)) /\ Len(c) = Len(s) + Len(w)
    BY <1>3 DEF c
  <2> HIDE DEF u
  <2>3. u \in Seq(Part) /\ Len(u) = Len(s) + Len(w) - 2
    BY <1>1, <2>1, <2>2
  <2>4. \A i \in 1 .. Len(s) + Len(w) - 2 : u[i] = c[i + 2]
    <3> TAKE i \in 1 .. Len(s) + Len(w) - 2
    <3>1. i \in 1 .. Len(c) - 3 + 1 /\ 3 + i - 1 = i + 2
      BY <1>1, <2>2
    <3> QED
      BY <2>1, <2>2, <3>1
  <2> QED
    BY <2>3, <2>4
<1> HIDE DEF t, u
<1>6. /\ t \o w \in Seq(Part) /\ Len(t \o w) = Len(t) + Len(w)
      /\ \A i \in 1 .. Len(t) + Len(w) : (t \o w)[i] = IF i <= Len(t) THEN t[i] ELSE w[i - Len(t)]
  BY <1>2, ConcatProperties
<1>7. u = t \o w
  <2>1. \A i \in 1 .. Len(u) : u[i] = (t \o w)[i]
    <3> TAKE i \in 1 .. Len(u)
    <3>1. i \in 1 .. Len(s) + Len(w) - 2 /\ i \in 1 .. Len(t) + Len(w) /\ i + 2 \in 1 .. Len(s) + Len(w)
      BY <1>1, <1>2, <1>5
    <3>2. u[i] = IF i + 2 <= Len(s) THEN s[i + 2] ELSE w[i + 2 - Len(s)]
      BY <1>3, <1>5, <3>1 DEF c
    <3>3. (t \o w)[i] = IF i <= Len(s) - 2 THEN s[i + 2] ELSE w[i - (Len(s) - 2)]
      BY <1>1, <1>2, <1>6, <3>1
    <3> QED
      BY <1>1, <3>1, <3>2, <3>3
  <2> DEFINE v == t \o w
  <2>2. v \in Seq(Part) /\ Len(v) = Len(u)
    BY <1>1, <1>2, <1>5, <1>6
  <2>3. \A i \in 1 .. Len(u) : u[i] = v[i]
    BY <2>1
  <2> HIDE DEF v
  <2>4. u = v
    BY <1>5, <2>2, <2>3, SeqEqual
  <2> QED
    BY <2>4 DEF v
<1> QED
  BY <1>2, <1>7 DEF t, u

\* The end of one response has no head.
LEMMA NoOtherHead ==
  ASSUME NEW s \in Seq(Part), NEW w \in Seq(Part), NEW n \in 1 .. Len(w),
         s # <<>>, OneResponse(s \o w)
  PROVE  NoHead(SubSeq(w, 1, n))
<1>1. Len(s) \in Nat \ {0} /\ Len(w) \in Nat /\ \A i \in 1 .. Len(w) : w[i] \in Part
  BY EmptySeq
<1>2. /\ SubSeq(w, 1, n) \in Seq(Part) /\ Len(SubSeq(w, 1, n)) = n
      /\ \A i \in 1 .. n : SubSeq(w, 1, n)[i] = w[i]
  <2>1. /\ SubSeq(w, 1, n) \in Seq(Part)
        /\ Len(SubSeq(w, 1, n)) = IF 1 <= n THEN n - 1 + 1 ELSE 0
        /\ \A i \in 1 .. n - 1 + 1 : SubSeq(w, 1, n)[i] = w[1 + i - 1]
    BY <1>1, SubSeqProperties
  <2> QED
    BY <1>1, <2>1
<1>3. \A i \in 1 .. n : w[i] \notin Heads
  <2> SUFFICES ASSUME NEW i \in 1 .. n PROVE w[i] \notin Heads
    OBVIOUS
  <2>1. (s \o w)[Len(s) + i] = w[i] /\ Len(s) + i \in DOMAIN (s \o w)
    <3>1. /\ s \o w \in Seq(Part) /\ Len(s \o w) = Len(s) + Len(w)
          /\ \A k \in 1 .. Len(s) + Len(w) : (s \o w)[k] = IF k <= Len(s) THEN s[k] ELSE w[k - Len(s)]
      BY ConcatProperties
    <3>2. DOMAIN (s \o w) = 1 .. Len(s) + Len(w)
      BY <3>1, LenProperties
    <3> QED
      BY <1>1, <3>1, <3>2
  <2> QED
    BY <1>1, <2>1 DEF OneResponse
<1>4. DOMAIN SubSeq(w, 1, n) = 1 .. n
  BY <1>2, LenProperties
<1> QED
  BY <1>2, <1>3, <1>4 DEF NoHead

LEMMA NoHeadInBoth ==
  ASSUME NEW s \in Seq(Part), NEW w \in Seq(Part), NoHead(s), NoHead(w)
  PROVE  NoHead(s \o w)
<1>1. /\ s \o w \in Seq(Part) /\ Len(s \o w) = Len(s) + Len(w) /\ Len(s) \in Nat /\ Len(w) \in Nat
      /\ \A i \in 1 .. Len(s) + Len(w) : (s \o w)[i] = IF i <= Len(s) THEN s[i] ELSE w[i - Len(s)]
  BY ConcatProperties
<1>2. DOMAIN (s \o w) = 1 .. Len(s) + Len(w) /\ DOMAIN s = 1 .. Len(s) /\ DOMAIN w = 1 .. Len(w)
  BY <1>1, LenProperties
<1> SUFFICES ASSUME NEW i \in 1 .. Len(s) + Len(w) PROVE (s \o w)[i] \notin Heads
  BY <1>2 DEF NoHead
<1>3. CASE i <= Len(s)
  BY <1>1, <1>2, <1>3 DEF NoHead
<1>4. CASE ~ (i <= Len(s))
  <2>1. i - Len(s) \in 1 .. Len(w) /\ (s \o w)[i] = w[i - Len(s)]
    BY <1>1, <1>4
  <2> QED
    BY <1>2, <2>1 DEF NoHead
<1> QED
  BY <1>3, <1>4

\* Nothing follows a response that is complete.
LEMMA Complete ==
  ASSUME NEW r \in Seq(Part), NEW x \in Seq(Part), NEW w \in Seq(Part),
         ParsedAs("end", r), OneResponse((r \o x) \o w)
  PROVE  x = <<>> /\ w = <<>>
<1>1. /\ Len(r) \in Nat \ {0} /\ Len(x) \in Nat /\ Len(w) \in Nat
      /\ r[1] \in {"counted", "empty"} \cup Redirects
      /\ r[1] = "counted" => Len(r) = 2
  BY DEF ParsedAs, Redirects
<1> DEFINE s == (r \o x) \o w
<1>2. Len(s) = Len(r) + Len(x) + Len(w) /\ s[1] = r[1]
  <2>1. /\ r \o x \in Seq(Part) /\ Len(r \o x) = Len(r) + Len(x)
        /\ \A i \in 1 .. Len(r) + Len(x) : (r \o x)[i] = IF i <= Len(r) THEN r[i] ELSE x[i - Len(r)]
    BY ConcatProperties
  <2> DEFINE p == r \o x
  <2> HIDE DEF p
  <2>2. /\ Len(p \o w) = Len(p) + Len(w)
        /\ \A i \in 1 .. Len(p) + Len(w) : (p \o w)[i] = IF i <= Len(p) THEN p[i] ELSE w[i - Len(p)]
    BY <2>1, ConcatProperties DEF p
  <2>3. s = p \o w
    BY DEF p
  <2> HIDE DEF s
  <2> QED
    BY <1>1, <2>1, <2>2, <2>3 DEF p
<1>3. OneResponse(s)
  OBVIOUS
<1> HIDE DEF s
<1>4. Len(x) = 0 /\ Len(w) = 0
  <2>1. CASE r[1] = "counted"
    <3>1. ~ (Len(s) > 2)
      BY <1>2, <1>3, <2>1 DEF OneResponse
    <3>2. Len(r) = 2
      BY <1>1, <2>1
    <3>3. Len(x) \in Nat /\ Len(w) \in Nat /\ Len(s) = 2 + Len(x) + Len(w)
      BY <1>1, <1>2, <3>2
    <3> QED
      BY <3>1, <3>3
  <2>2. CASE r[1] \in {"empty"} \cup Redirects
    <3>1. ~ (Len(s) > 1)
      BY <1>2, <1>3, <2>2 DEF OneResponse
    <3> QED
      BY <1>1, <1>2, <3>1
  <2>3. r[1] = "counted" \/ r[1] \in {"empty"} \cup Redirects
    BY <1>1
  <2> QED
    BY <2>1, <2>2, <2>3
<1> QED
  BY <1>4, EmptySeq

-----------------------------------------------------------------------------
(* The data, step by step.                                                 *)

LEMMA InitWhole == Init => WholeInv
<1> SUFFICES ASSUME Init PROVE WholeInv
  OBVIOUS
<1>1. /\ call = "none" /\ arg = "ok" /\ emitter = NoEmitter /\ bev = NoBev /\ peer = NoPeer
      /\ buff = <<>> /\ tail = FALSE /\ usage = [now |-> NoUsage, before |-> NoUsage]
      /\ http.at \in {"idle", "again"} /\ parser = "start" /\ response = <<>>
  BY DEF Init, RequestInit, RequestIdle, RequestStart, DnsInit, TransportInit
<1>2. DataTyped
  <2>1. <<>> \in Seq(Part) /\ <<>> \in Seq(Seq(Part)) /\ NoUsage \in Count
    BY DEF NoUsage, Count
  <2> QED
    BY <1>1, <2>1 DEF DataTyped, NoPeer, NoBev
<1>3. Handled
  BY <1>1 DEF Handled, NoEmitter
<1>4. Parsed
  BY <1>1 DEF Parsed, ParsedAs, States
<1>5. ~Negotiating /\ ~Flowing
  BY <1>1 DEF Negotiating, Flowing
<1> QED
  BY <1>2, <1>3, <1>4, <1>5 DEF WholeInv

\* libevent tells nobody, and no handler changes.
LEMMA BackgroundRest ==
  ASSUME WholeInv, Background, UNCHANGED <<connectVars, httpVars>>
  PROVE  /\ Handled' /\ Parsed'
         /\ Negotiating' => Negotiating /\ Asking
         /\ Flowing' => Flowing /\ Flows
         /\ UNCHANGED <<call, arg, emitter, buff, tail, usage, http, parser, response>>
<1>1. /\ UNCHANGED <<call, arg, query, emitter, buff, tail, usage, live>> /\ ~emitter.closing
      /\ UNCHANGED <<attempt, leaked, http, parser, response, outcome>>
  BY DEF Background, Arrive, Flushed, WriteTimeout, Ends, dnsVars, connectVars, httpVars
<1>2. Handled'
  BY <1>1 DEF WholeInv, Handled
<1>3. Parsed'
  BY <1>1 DEF WholeInv, Parsed, ParsedAs
<1>4. Negotiating' => Negotiating /\ Asking
  BY <1>1 DEF WholeInv, Negotiating, NoQueryRuns, NotTrying, OneHeld
<1>5. Flowing' => Flowing /\ Flows
  BY <1>1 DEF WholeInv, Flowing
<1> QED
  BY <1>1, <1>2, <1>3, <1>4, <1>5

\* A piece of what is on the way arrives.
LEMMA Arrived ==
  ASSUME DataTyped, Arrive, UNCHANGED httpVars
  PROVE  /\ bev.reading /\ peer.wire # <<>>
         /\ bev'.events = bev.events \cup {"read"}
         /\ bev'.reading = bev.reading /\ bev'.writing = bev.writing
         /\ peer'.later = peer.later /\ peer'.end = peer.end
         /\ DataTyped'
         /\ \E first \in Seq(Part) :
              /\ first # <<>> /\ peer.wire = first \o peer'.wire
              /\ peer'.sent = peer.sent \o first /\ bev'.input = bev.input \o first
              /\ \A s \in Seq(Part) : s # <<>> /\ OneResponse(s \o peer.wire) => NoHead(first)
<1>1. PICK n \in 1 .. Len(peer.wire) :
        /\ bev' = [bev EXCEPT !.input = @ \o SubSeq(peer.wire, 1, n), !.events = @ \cup {"read"}]
        /\ peer' = [peer EXCEPT !.sent = @ \o SubSeq(peer.wire, 1, n),
                                !.wire = SubSeq(@, n + 1, Len(@))]
  BY DEF Arrive
<1> DEFINE first == SubSeq(peer.wire, 1, n)
           rest == SubSeq(peer.wire, n + 1, Len(peer.wire))
<1>2. /\ peer.wire \in Seq(Part) /\ peer.sent \in Seq(Part) /\ bev.input \in Seq(Part)
      /\ peer.later \in Seq(Seq(Part))
  BY DEF DataTyped
<1>3. first \in Seq(Part) /\ Len(first) = n /\ rest \in Seq(Part) /\ first \o rest = peer.wire
  BY <1>2, Cut
<1>4. \A s \in Seq(Part) : s # <<>> /\ OneResponse(s \o peer.wire) => NoHead(first)
  BY <1>2, NoOtherHead
<1>5. /\ bev' = [bev EXCEPT !.input = @ \o first, !.events = @ \cup {"read"}]
      /\ peer' = [peer EXCEPT !.sent = @ \o first, !.wire = rest]
  BY <1>1
<1> HIDE DEF first, rest
<1>6. first # <<>>
  BY <1>3
<1>7. peer.sent \o first \in Seq(Part) /\ bev.input \o first \in Seq(Part)
  BY <1>2, <1>3, Concatenations
<1>8. /\ bev'.input = bev.input \o first /\ bev'.events = bev.events \cup {"read"}
      /\ bev'.reading = bev.reading /\ bev'.writing = bev.writing
      /\ peer'.sent = peer.sent \o first /\ peer'.wire = rest
      /\ peer'.later = peer.later /\ peer'.end = peer.end
  BY <1>5 DEF DataTyped
<1>9. DataTyped'
  <2>1. UNCHANGED <<buff, response, usage>>
    BY DEF Arrive, httpVars
  <2> QED
    BY <1>3, <1>5, <1>7, <2>1 DEF DataTyped, Count
<1>10. bev.reading /\ peer.wire # <<>>
  BY DEF Arrive
<1> QED
  BY <1>3, <1>4, <1>6, <1>8, <1>9, <1>10

\* All that a proxy has sent, or that a server has sent through it.
LEMMA ServedTyped ==
  ASSUME DataTyped, Size(peer.sent) >= 2
  PROVE  Served \in Seq(Part) /\ Size(Served) = Size(peer.sent) - 2
<1>1. peer.sent \in Seq(Part) /\ Len(peer.sent) >= 2
  BY DEF DataTyped, Size
<1> QED
  BY <1>1, Others, Concatenations DEF Served, Size

LEMMA ServedOn ==
  ASSUME NEW first \in Seq(Part), DataTyped, Size(peer.sent) >= 2, peer'.sent = peer.sent \o first
  PROVE  Served' \in Seq(Part) /\ Served' = Served \o first
<1>1. peer.sent \in Seq(Part) /\ Len(peer.sent) >= 2
  BY DEF DataTyped, Size
<1>2. SubSeq(peer.sent \o first, 3, Len(peer.sent \o first))
        = SubSeq(peer.sent, 3, Len(peer.sent)) \o first
  BY <1>1, Others
<1>3. Served' = Served \o first
  BY <1>2 DEF Served
<1>4. Served' \in Seq(Part)
  BY <1>3, ServedTyped, Concatenations
<1> QED
  BY <1>3, <1>4

LEMMA ArriveWhole ==
  ASSUME WholeInv, Arrive, UNCHANGED <<connectVars, httpVars>>
  PROVE  WholeInv'
<1>1. /\ Handled' /\ Parsed'
      /\ Negotiating' => Negotiating /\ Asking
      /\ Flowing' => Flowing /\ Flows
      /\ UNCHANGED <<call, arg, emitter, buff, tail, usage, http, parser, response>>
  BY BackgroundRest DEF Background
<1>2. /\ bev.reading /\ peer.wire # <<>>
      /\ bev'.events = bev.events \cup {"read"}
      /\ bev'.reading = bev.reading /\ bev'.writing = bev.writing
      /\ peer'.later = peer.later /\ peer'.end = peer.end
      /\ DataTyped'
  BY Arrived DEF WholeInv
<1>3. PICK first \in Seq(Part) :
        /\ first # <<>> /\ peer.wire = first \o peer'.wire
        /\ peer'.sent = peer.sent \o first /\ bev'.input = bev.input \o first
        /\ \A s \in Seq(Part) : s # <<>> /\ OneResponse(s \o peer.wire) => NoHead(first)
  BY Arrived DEF WholeInv
<1>4. /\ peer.sent \in Seq(Part) /\ bev.input \in Seq(Part) /\ peer'.wire \in Seq(Part)
      /\ first \in Seq(Part) /\ response \in Seq(Part) /\ buff \in Seq(Part)
      /\ usage \in [now : Count, before : Count]
  BY <1>2, <1>3 DEF WholeInv, DataTyped
<1>5. /\ Size(first) \in Nat \ {0} /\ Size(bev.input) \in Nat
      /\ Size(peer.sent) \in Nat /\ Size(peer'.wire) \in Nat
      /\ Size(bev'.input) = Size(bev.input) + Size(first)
      /\ Size(peer'.sent) = Size(peer.sent) + Size(first)
      /\ Size(peer.wire) = Size(first) + Size(peer'.wire)
  BY <1>3, <1>4, Sizes
<1>6. \A s, t, u \in Seq(Part) : (s \o t) \o u = s \o (t \o u)
  BY Concatenations
<1>7. bev'.input # <<>>
  <2>1. Size(bev'.input) # 0
    BY <1>5
  <2>2. bev'.input \in Seq(Part)
    BY <1>2 DEF DataTyped
  <2> QED
    BY <2>1, <2>2, Sizes
<1>8. /\ Pending' = Pending /\ Pending \in Seq(Part) /\ response \o Pending \in Seq(Part)
  BY <1>1, <1>4, Concatenations DEF Pending
<1>9. \A s \in Seq(Part) : (s \o bev.input) \o first = s \o bev'.input
  <2>1. bev.input \in Seq(Part) /\ first \in Seq(Part)
    BY <1>4
  <2>2. \A s \in Seq(Part) : (s \o bev.input) \o first = s \o (bev.input \o first)
    BY <1>6, <2>1
  <2> QED
    BY <1>3, <2>2
<1>10. ASSUME Asking PROVE Asking'
  <2>1. \A n : Turns(n) => Turns(n)'
    <3> SUFFICES ASSUME NEW n, Turns(n) PROVE Turns(n)'
      OBVIOUS
    <3>1. Size(peer'.sent) + Size(peer'.wire) = Size(peer.sent) + Size(peer.wire)
      BY <1>5
    <3> QED
      BY <1>2, <3>1 DEF Turns
  <2>2. <<"auth">> \in Seq(Part)
    BY DEF Part
  <2>3. peer.sent = <<"auth">> \o bev.input => peer'.sent = <<"auth">> \o bev'.input
    BY <1>3, <1>9, <2>2
  <2>4. peer.sent = bev.input => peer'.sent = bev'.input
    BY <1>3
  <2> QED
    BY <1>1, <1>2, <1>10, <2>1, <2>3, <2>4 DEF Asking
<1>11. ASSUME Direct PROVE Direct'
  <2>1. peer'.sent = (response' \o Pending') \o bev'.input
    BY <1>1, <1>3, <1>8, <1>9, <1>11 DEF Direct
  <2>2. ~EndOfData
    BY <1>2 DEF EndOfData
  <2>3. usage'.now.down = usage'.before.down + Size(peer'.sent) - Size(bev'.input)
    <3>1. usage.now.down = usage.before.down + Size(peer.sent) - Size(bev.input)
      BY <1>11 DEF Direct
    <3>2. usage.before.down \in Nat
      BY <1>4 DEF Count
    <3>3. usage' = usage
      BY <1>1
    <3> QED
      BY <1>5, <3>1, <3>2, <3>3
  <2> QED
    BY <1>1, <1>2, <1>11, <2>1, <2>2, <2>3 DEF Direct
<1>12. ASSUME Relayed PROVE Relayed'
  <2>1. /\ Served \in Seq(Part) /\ Size(Served) = Size(peer.sent) - 2
        /\ Served' \in Seq(Part) /\ Served' = Served \o first
    BY <1>3, <1>12, ServedOn, ServedTyped DEF WholeInv, Relayed
  <2>2. Size(Served) \in Nat /\ Size(Served') = Size(Served) + Size(first)
    BY <1>4, <2>1, Sizes
  <2>3. Served' \o peer'.wire = Served \o peer.wire
    <3>1. Served \in Seq(Part) /\ first \in Seq(Part) /\ peer'.wire \in Seq(Part)
      BY <1>4, <2>1
    <3>2. (Served \o first) \o peer'.wire = Served \o (first \o peer'.wire)
      BY <1>6, <3>1
    <3> QED
      BY <1>3, <2>1, <3>2
  <2>4. ~bev.writing /\ peer.later = <<>>
    BY <1>2, <1>12 DEF Relayed
  <2>5. ASSUME Kept PROVE Kept'
    <3>1. Served' = (response' \o Pending') \o bev'.input
      BY <1>1, <1>8, <1>9, <2>1, <2>5 DEF Kept
    <3>2. Size(Served') - Size(bev'.input) = Size(Served) - Size(bev.input)
      BY <1>5, <2>2
    <3> QED
      BY <1>1, <2>5, <3>1, <3>2 DEF Kept
  <2>6. ASSUME Lost PROVE Lost'
    <3>1. NoHead(first)
      BY <1>3, <1>12, <2>1, <2>6 DEF Relayed, Lost
    <3>2. NoHead(bev.input \o first)
      BY <1>4, <2>6, <3>1, NoHeadInBoth DEF Lost
    <3>3. Served' # <<>>
      BY <1>5, <2>1, <2>2, Sizes
    <3> QED
      BY <1>1, <1>3, <1>8, <2>6, <3>2, <3>3 DEF Lost
  <2>7. Size(peer'.sent) >= 2
    BY <1>5, <1>12 DEF Relayed
  <2>8. OneResponse(Served' \o peer'.wire)
    BY <1>12, <2>3 DEF Relayed
  <2>9. ~bev'.writing /\ peer'.later = <<>>
    BY <1>2, <2>4
  <2>10. Kept' \/ Lost'
    BY <1>12, <2>5, <2>6 DEF Relayed
  <2>11. http'.at # "connecting"
    BY <1>1, <1>2, <1>12 DEF Relayed
  <2> QED
    BY <1>1, <1>12, <2>7, <2>8, <2>9, <2>10, <2>11 DEF Relayed
<1>13. ASSUME Flows PROVE Flows'
  <2>1. ~EndOfData
    BY <1>2 DEF EndOfData
  <2> QED
    BY <1>1, <1>2, <1>7, <1>11, <1>12, <1>13, <2>1 DEF Flows
<1> QED
  BY <1>1, <1>2, <1>10, <1>13 DEF WholeInv

\* The output was written, and the peer answers, if it has something to say.
LEMMA FlushedData ==
  ASSUME DataTyped, Flushed, UNCHANGED httpVars
  PROVE  /\ bev.writing /\ ~bev'.writing
         /\ bev'.events = bev.events \cup {"write"}
         /\ bev'.reading = bev.reading /\ bev'.input = bev.input
         /\ peer'.sent = peer.sent /\ peer'.end = peer.end
         /\ DataTyped'
         /\ \/ peer.later = <<>> /\ peer' = peer
            \/ /\ peer.later # <<>>
               /\ peer.later[1] \in Seq(Part) /\ peer'.wire = peer.wire \o peer.later[1]
               /\ Len(peer.later) = 1 => peer'.later = <<>>
               /\ \A i \in DOMAIN peer'.later :
                    /\ i \in Nat /\ i + 1 \in DOMAIN peer.later
                    /\ peer'.later[i] = peer.later[i + 1]
<1>1. /\ bev.writing /\ bev' = [bev EXCEPT !.writing = FALSE, !.events = @ \cup {"write"}]
      /\ UNCHANGED <<buff, response, usage>>
  BY DEF Flushed, httpVars
<1>2. /\ ~bev'.writing /\ bev'.events = bev.events \cup {"write"}
      /\ bev'.reading = bev.reading /\ bev'.input = bev.input
      /\ bev' \in [reading : BOOLEAN, writing : BOOLEAN, input : Seq(Part),
                   events : SUBSET ({"read", "write"} \cup EndKinds)]
  BY <1>1 DEF DataTyped
<1>3. CASE peer.later = <<>>
  <2>1. peer' = peer
    BY <1>3 DEF Flushed
  <2> QED
    BY <1>1, <1>2, <1>3, <2>1 DEF DataTyped
<1>4. CASE peer.later # <<>>
  <2> DEFINE later == peer.later
  <2>1. /\ peer' = [peer EXCEPT !.wire = @ \o Head(later), !.later = Tail(@)]
        /\ later \in Seq(Seq(Part)) /\ later # <<>> /\ peer.wire \in Seq(Part)
        /\ peer' = [peer EXCEPT !.wire = peer.wire \o Head(later), !.later = Tail(later)]
    BY <1>4 DEF Flushed, DataTyped
  <2>2. peer'.wire = peer.wire \o Head(later) /\ peer'.later = Tail(later)
        /\ peer'.sent = peer.sent /\ peer'.end = peer.end
    BY <2>1 DEF DataTyped
  <2> HIDE DEF later
  <2>3. /\ Head(later) \in Seq(Part) /\ Tail(later) \in Seq(Seq(Part))
        /\ Len(later) \in Nat \ {0} /\ Len(Tail(later)) = Len(later) - 1
        /\ \A i \in 1 .. Len(later) - 1 : Tail(later)[i] = later[i + 1]
    BY <2>1, HeadTailProperties, EmptySeq
  <2>4. Head(later) = later[1]
    BY <2>1
  <2>5. DOMAIN later = 1 .. Len(later) /\ DOMAIN Tail(later) = 1 .. Len(later) - 1
    BY <2>1, <2>3, LenProperties
  <2>6. \A i \in DOMAIN Tail(later) :
          i \in Nat /\ i + 1 \in DOMAIN later /\ Tail(later)[i] = later[i + 1]
    BY <2>3, <2>5
  <2>7. Len(later) = 1 => Tail(later) = <<>>
    <3> SUFFICES ASSUME Len(later) = 1 PROVE Tail(later) = <<>>
      OBVIOUS
    <3> DEFINE t == Tail(later)
    <3>1. t \in Seq(Seq(Part)) /\ Len(t) = 1 - 1
      BY <2>3
    <3> HIDE DEF t
    <3>2. t = <<>>
      BY <3>1, EmptySeq
    <3> QED
      BY <3>2 DEF t
  <2>8. peer.wire \o Head(later) \in Seq(Part)
    BY <2>1, <2>3, Concatenations
  <2>9. peer' \in [sent : Seq(Part), wire : Seq(Part), later : Seq(Seq(Part)),
                   end : EndKinds \cup {"silent"}]
    BY <2>1, <2>3, <2>8 DEF DataTyped
  <2>10. DataTyped'
    BY <1>1, <1>2, <2>9 DEF DataTyped
  <2> QED
    BY <1>1, <1>2, <1>4, <2>2, <2>3, <2>4, <2>6, <2>7, <2>10 DEF later
<1> QED
  BY <1>3, <1>4

LEMMA FlushedWhole ==
  ASSUME WholeInv, Flushed, UNCHANGED <<connectVars, httpVars>>
  PROVE  WholeInv'
<1>1. /\ Handled' /\ Parsed'
      /\ Negotiating' => Negotiating /\ Asking
      /\ Flowing' => Flowing /\ Flows
      /\ UNCHANGED <<call, arg, emitter, buff, tail, usage, http, parser, response>>
  BY BackgroundRest DEF Background
<1>2. /\ bev.writing /\ ~bev'.writing
      /\ bev'.events = bev.events \cup {"write"}
      /\ bev'.reading = bev.reading /\ bev'.input = bev.input
      /\ peer'.sent = peer.sent /\ peer'.end = peer.end
      /\ DataTyped'
      /\ \/ peer.later = <<>> /\ peer' = peer
         \/ /\ peer.later # <<>>
            /\ peer.later[1] \in Seq(Part) /\ peer'.wire = peer.wire \o peer.later[1]
            /\ Len(peer.later) = 1 => peer'.later = <<>>
            /\ \A i \in DOMAIN peer'.later :
                 /\ i \in Nat /\ i + 1 \in DOMAIN peer.later
                 /\ peer'.later[i] = peer.later[i + 1]
  BY FlushedData DEF WholeInv
<1>3. peer.sent \in Seq(Part) /\ peer.wire \in Seq(Part) /\ peer.later \in Seq(Seq(Part))
  BY DEF WholeInv, DataTyped
<1>4. Size(peer.sent) \in Nat /\ Size(peer.wire) \in Nat
  BY <1>3, Sizes
<1>5. Pending' = Pending /\ Served' = Served
  BY <1>1, <1>2 DEF Pending, Served
<1>6. EndOfData => EndOfData'
  BY <1>2 DEF EndOfData
<1>7. ASSUME Asking PROVE Asking'
  <2>1. ASSUME NEW n \in {0, 1}, Turns(n) PROVE Turns(n + 1)'
    <3>1. CASE peer.later = <<>>
      BY <1>2, <1>4, <2>1, <3>1 DEF Turns
    <3>2. CASE peer.later # <<>>
      <4>1. 1 \in DOMAIN peer.later
        BY <1>3, <3>2
      <4>2. Size(peer.later[1]) = 1
        BY <2>1, <4>1 DEF Turns
      <4>3. Size(peer'.wire) = Size(peer.wire) + 1
        BY <1>2, <1>3, <3>2, <4>2, Sizes
      <4>4. Size(peer'.sent) + Size(peer'.wire) <= n + 1
        BY <1>2, <1>4, <2>1, <4>3 DEF Turns
      <4>5. ASSUME NEW i \in DOMAIN peer'.later
            PROVE  \/ i + (n + 1) < 3 /\ Size(peer'.later[i]) = 1
                   \/ i + (n + 1) = 3 /\ OneResponse(peer'.later[i])
        <5>1. /\ i \in Nat /\ i + 1 \in DOMAIN peer.later
              /\ peer'.later[i] = peer.later[i + 1]
          BY <1>2, <3>2, <4>5
        <5>2. \/ (i + 1) + n < 3 /\ Size(peer.later[i + 1]) = 1
              \/ (i + 1) + n = 3 /\ OneResponse(peer.later[i + 1])
          BY <2>1, <5>1 DEF Turns
        <5>3. (i + 1) + n = i + (n + 1)
          BY <5>1
        <5> QED
          BY <5>1, <5>2, <5>3
      <4> QED
        BY <4>4, <4>5 DEF Turns
    <3> QED
      BY <3>1, <3>2
  <2>2. Turns(0) => Turns(1)'
    BY <2>1
  <2>3. Turns(1) => Turns(2)'
    BY <2>1
  <2> QED
    BY <1>1, <1>2, <1>7, <2>2, <2>3 DEF Asking
<1>8. ASSUME Direct PROVE Direct'
  BY <1>1, <1>2, <1>5, <1>6, <1>8 DEF Direct
<1>9. ASSUME Relayed PROVE Relayed'
  <2>1. Kept \/ Lost => Kept' \/ Lost'
    BY <1>1, <1>2, <1>5 DEF Kept, Lost
  <2>2. Served' = <<>> /\ peer.wire = <<>>
    BY <1>2, <1>5, <1>9 DEF Relayed
  <2>3. OneResponse(Served' \o peer'.wire) /\ peer'.later = <<>>
    <3>1. CASE peer.later = <<>>
      BY <1>2, <1>5, <1>9, <3>1 DEF Relayed
    <3>2. CASE peer.later # <<>>
      <4>1. Len(peer.later) = 1 /\ OneResponse(peer.later[1])
        BY <1>9, <3>2 DEF Relayed
      <4>2. peer'.wire = peer.later[1] /\ Served' \o peer'.wire = peer.later[1]
        <5>1. peer.later[1] \in Seq(Part) /\ peer'.wire = <<>> \o peer.later[1]
          BY <1>2, <2>2, <3>2
        <5>2. peer'.wire = peer.later[1]
          BY <5>1, Concatenations
        <5> QED
          BY <2>2, <5>1, <5>2, Concatenations
      <4> QED
        BY <1>2, <3>2, <4>1, <4>2
    <3> QED
      BY <3>1, <3>2
  <2> QED
    BY <1>1, <1>2, <1>9, <2>1, <2>3 DEF Relayed
<1>10. ASSUME Flows PROVE Flows'
  BY <1>1, <1>2, <1>6, <1>8, <1>9, <1>10 DEF Flows
<1> QED
  BY <1>1, <1>2, <1>7, <1>10 DEF WholeInv

\* The input or the output ends.
LEMMA EndsWhole ==
  ASSUME WholeInv, WriteTimeout \/ \E what \in EndKinds : Ends(what),
         UNCHANGED <<connectVars, httpVars>>
  PROVE  WholeInv'
<1>1. /\ Handled' /\ Parsed'
      /\ Negotiating' => Negotiating /\ Asking
      /\ Flowing' => Flowing /\ Flows
      /\ UNCHANGED <<call, arg, emitter, buff, tail, usage, http, parser, response>>
  BY BackgroundRest DEF Background
<1>2. /\ bev' \in [reading : BOOLEAN, writing : BOOLEAN, input : Seq(Part),
                   events : SUBSET ({"read", "write"} \cup EndKinds)]
      /\ bev'.input = bev.input /\ peer' = peer
      /\ bev'.reading => bev.reading
      /\ bev'.writing => bev.writing
      /\ \E what \in EndKinds :
           /\ bev'.events = bev.events \cup {what}
           /\ what = "Eof" => EndOfData
  <2> USE DEF WholeInv, DataTyped, EndKinds
  <2>1. CASE WriteTimeout
    BY <2>1 DEF WriteTimeout
  <2>2. CASE \E what \in EndKinds : Ends(what)
    <3> PICK what \in EndKinds : Ends(what)
      BY <2>2
    <3>1. bev' = [bev EXCEPT !.reading = FALSE, !.events = @ \cup {what}] /\ peer' = peer
      BY DEF Ends
    <3>2. what = "Eof" => EndOfData
      BY DEF Ends, EndOfData
    <3>3. /\ bev'.input = bev.input /\ ~bev'.reading /\ bev'.writing = bev.writing
          /\ bev'.events = bev.events \cup {what}
      BY <3>1
    <3>4. bev' \in [reading : BOOLEAN, writing : BOOLEAN, input : Seq(Part),
                    events : SUBSET ({"read", "write"} \cup EndKinds)]
      BY <3>1
    <3> QED
      BY <3>1, <3>2, <3>3, <3>4
  <2> QED
    BY <2>1, <2>2
<1>3. DataTyped'
  BY <1>1, <1>2 DEF WholeInv, DataTyped
<1>4. Pending' = Pending /\ Served' = Served /\ EndOfData' = EndOfData
  BY <1>1, <1>2 DEF Pending, Served, EndOfData
<1>5. Asking => Asking'
  BY <1>1, <1>2 DEF Asking, Turns
<1>6. Direct => Direct'
  BY <1>1, <1>2, <1>4 DEF Direct
<1>7. Relayed => Relayed'
  BY <1>1, <1>2, <1>4 DEF Relayed, Kept, Lost
<1>8. ("read" \in bev'.events) = ("read" \in bev.events)
  BY <1>2 DEF EndKinds
<1>9. Flows => Flows'
  BY <1>1, <1>2, <1>4, <1>6, <1>7, <1>8 DEF Flows
<1> QED
  BY <1>1, <1>3, <1>5, <1>9 DEF WholeInv

\* While a name is looked up there is no transport.
LEMMA DnsWhole ==
  ASSUME RequestInv, WholeInv, DnsNext, UNCHANGED <<ioVars, live, connectVars, httpVars>>
  PROVE  WholeInv'
<1>1. LookingUp
  BY InPhase DEF DnsNext, StartQuery, dns_callback, getaddrinfo_async, ResultPosted, OnIpv4, OnIpv6
<1>2. UNCHANGED <<emitter, bev, peer, buff, usage, http, parser, response>>
  BY DEF ioVars, httpVars
<1>3. /\ http.at = "connecting" /\ emitter = NoEmitter
      /\ call \in {"none", "answer", "resolved"}
  BY <1>1 DEF LookingUp, NoTransport
<1>4. call' \in {"none", "answer", "resolved"}
  <2> USE DEF Answer, Enter
  <2>1. CASE StartQuery
    <3>1. CASE settings.engine = "libevent"
      BY <2>1, <3>1 DEF StartQuery, libevent_query
    <3>2. CASE settings.engine = "system"
      BY <2>1, <3>2 DEF StartQuery, system_resolver
    <3>3. CASE settings.engine \notin {"libevent", "system"}
      BY <2>1, <3>3 DEF StartQuery
    <3> QED
      BY <3>1, <3>2, <3>3
  <2>2. CASE dns_callback
    BY <2>2 DEF dns_callback
  <2>3. CASE getaddrinfo_async
    BY <1>3, <2>3 DEF getaddrinfo_async
  <2>4. CASE ResultPosted \/ OnIpv4 \/ OnIpv6
    BY <2>4 DEF ResultPosted, OnIpv4, OnIpv6
  <2> QED
    BY <2>1, <2>2, <2>3, <2>4 DEF DnsNext
<1>5. Handled'
  BY <1>2, <1>3, <1>4 DEF Handled, NoEmitter
<1>6. DataTyped' /\ Parsed'
  BY <1>2 DEF WholeInv, DataTyped, Parsed, ParsedAs
<1>7. ~Negotiating' /\ ~Flowing'
  BY <1>2, <1>3, <1>4 DEF Negotiating, Flowing, NoEmitter
<1> QED
  BY <1>5, <1>6, <1>7 DEF WholeInv

\* Nor does anything happen where there is none.
LEMMA NoTransportWhole ==
  ASSUME RequestInv, WholeInv, TransportNext, UNCHANGED <<connectVars, httpVars>>,
         emitter.kind = "none"
  PROVE  WholeInv'
<1>1. NoTransport
  BY InPhase
<1>2. DeliverSuppressedEof
  BY <1>1 DEF TransportNext, Arrive, Flushed, WriteTimeout, Ends, DropSelf, handle_read_, Event,
              handle_write_, handle_event_, NoTransport, NoBev, NoEmitter
<1>3. emitter' = emitter
  BY <1>1, <1>2 DEF DeliverSuppressedEof, NoTransport, NoEmitter
<1>4. UNCHANGED <<call, arg, bev, peer, buff, usage, http, parser, response>>
  BY <1>1, <1>2 DEF DeliverSuppressedEof, NoTransport, NoEmitter, httpVars
<1>5. DataTyped' /\ Parsed' /\ Handled'
  BY <1>3, <1>4 DEF WholeInv, DataTyped, Parsed, ParsedAs, Handled
<1>6. ~Negotiating'
  BY <1>3 DEF Negotiating
<1>7. Flowing' => Flows'
  BY <1>3, <1>4 DEF WholeInv, Flowing, Flows
<1> QED
  BY <1>5, <1>6, <1>7 DEF WholeInv

\* A transport goes away when it is closed, and then nothing flows.
LEMMA DropWhole ==
  ASSUME RequestInv, WholeInv, DropSelf, UNCHANGED <<connectVars, httpVars>>
  PROVE  WholeInv'
<1>1. /\ http.at = "closing" /\ call = "none" /\ emitter.closing
      /\ UNCHANGED <<buff, usage, http, parser, response>>
  BY DEF WholeInv, Handled, DropSelf, InLoop, httpVars
<1>2. ~Negotiating' /\ ~Flowing'
  BY <1>1 DEF Negotiating, Flowing
<1>3. Parsed'
  BY <1>1 DEF WholeInv, Parsed, ParsedAs
<1>4. DataTyped' /\ Handled'
  <2>1. CASE emitter.onData = "none"
    <3>1. emitter' = NoEmitter /\ bev' = NoBev /\ peer' = NoPeer /\ call' = "closed"
      BY <2>1 DEF DropSelf, Enter
    <3>2. Handled'
      BY <1>1, <3>1 DEF Handled, NoEmitter
    <3>3. <<>> \in Seq(Part) /\ <<>> \in Seq(Seq(Part))
      OBVIOUS
    <3>4. DataTyped'
      BY <1>1, <3>1, <3>3 DEF WholeInv, DataTyped, NoBev, NoPeer
    <3> QED
      BY <3>2, <3>4
  <2>2. CASE emitter.onData # "none"
    <3>1. /\ emitter' = [emitter EXCEPT !.self = FALSE] /\ UNCHANGED <<call, bev, peer>>
      BY <2>2 DEF DropSelf
    <3>2. /\ emitter'.kind = emitter.kind /\ emitter'.onData = emitter.onData
          /\ emitter'.onFlush = emitter.onFlush /\ emitter'.onError = emitter.onError
          /\ emitter'.closing = emitter.closing
      BY <3>1 DEF RequestInv, Typed, NoEmitter
    <3>3. Handled'
      BY <1>1, <3>1, <3>2 DEF WholeInv, Handled
    <3>4. DataTyped'
      BY <1>1, <3>1 DEF WholeInv, DataTyped
    <3> QED
      BY <3>3, <3>4
  <2> QED
    BY <2>1, <2>2
<1> QED
  BY <1>2, <1>3, <1>4 DEF WholeInv

\* The data usage, after n more parts.
LEMMA Counted ==
  ASSUME DataTyped, NEW n \in Nat
  PROVE  /\ CountUp(n) =>
              /\ usage' \in [now : Count, before : Count] /\ usage'.before = usage.before
              /\ usage'.now.up = usage.now.up + n /\ usage'.now.down = usage.now.down
         /\ CountDown(n) =>
              /\ usage' \in [now : Count, before : Count] /\ usage'.before = usage.before
              /\ usage'.now.up = usage.now.up /\ usage'.now.down = usage.now.down + n
         /\ usage' = [usage EXCEPT !.now.up = @ + 1, !.now.down = @ + n] =>
              /\ usage' \in [now : Count, before : Count] /\ usage'.before = usage.before
              /\ usage'.now.up = usage.now.up + 1 /\ usage'.now.down = usage.now.down + n
<1>1. /\ usage = [now |-> [up |-> usage.now.up, down |-> usage.now.down], before |-> usage.before]
      /\ usage.now.up \in Nat /\ usage.now.down \in Nat /\ usage.before \in Count
  BY DEF DataTyped, Count
<1> DEFINE counted(up, down) ==
             /\ usage' \in [now : Count, before : Count] /\ usage'.before = usage.before
             /\ usage'.now.up = up /\ usage'.now.down = down
<1>2. ASSUME NEW up \in Nat, NEW down \in Nat,
             usage' = [now |-> [up |-> up, down |-> down], before |-> usage.before]
      PROVE  counted(up, down)
  <2> DEFINE new == [up |-> up, down |-> down]
  <2>1. new \in Count /\ new.up = up /\ new.down = down
    BY DEF Count
  <2> HIDE DEF new
  <2>2. usage' = [now |-> new, before |-> usage.before]
    BY <1>2 DEF new
  <2> QED
    BY <1>1, <2>1, <2>2
<1> HIDE DEF counted
<1>3. CountUp(n) => counted(usage.now.up + n, usage.now.down)
  <2> SUFFICES ASSUME CountUp(n) PROVE counted(usage.now.up + n, usage.now.down)
    OBVIOUS
  <2>1. usage' = [now |-> [up |-> usage.now.up + n, down |-> usage.now.down], before |-> usage.before]
    BY <1>1 DEF CountUp
  <2> QED
    BY <1>1, <1>2, <2>1
<1>4. CountDown(n) => counted(usage.now.up, usage.now.down + n)
  <2> SUFFICES ASSUME CountDown(n) PROVE counted(usage.now.up, usage.now.down + n)
    OBVIOUS
  <2>1. usage' = [now |-> [up |-> usage.now.up, down |-> usage.now.down + n], before |-> usage.before]
    BY <1>1 DEF CountDown
  <2> QED
    BY <1>1, <1>2, <2>1
<1>5. usage' = [usage EXCEPT !.now.up = @ + 1, !.now.down = @ + n] =>
        counted(usage.now.up + 1, usage.now.down + n)
  <2> SUFFICES ASSUME usage' = [usage EXCEPT !.now.up = @ + 1, !.now.down = @ + n]
               PROVE  counted(usage.now.up + 1, usage.now.down + n)
    OBVIOUS
  <2> DEFINE u == usage.now.up
             d == usage.now.down
             c == usage.before
             once == [usage EXCEPT !.now.up = @ + 1]
  <2>1. usage = [now |-> [up |-> u, down |-> d], before |-> c] /\ u \in Nat /\ d \in Nat
    BY <1>1
  <2> HIDE DEF u, d, c
  <2>2. once = [now |-> [up |-> u + 1, down |-> d], before |-> c]
    BY <2>1
  <2>3. usage' = [once EXCEPT !.now.down = @ + n]
    BY <2>1
  <2> HIDE DEF once
  <2>4. usage' = [now |-> [up |-> u + 1, down |-> d + n], before |-> c]
    BY <2>1, <2>2, <2>3
  <2>5. u + 1 \in Nat /\ d + n \in Nat
    BY <2>1
  <2>6. usage' = [now |-> [up |-> u + 1, down |-> d + n], before |-> usage.before]
    BY <2>4 DEF c
  <2>7. counted(u + 1, d + n)
    BY <1>2, <2>5, <2>6
  <2> QED
    BY <2>7 DEF u, d
<1> QED
  BY <1>3, <1>4, <1>5 DEF counted

\* What is left when libevent has handed over its data.
LEMMA Emptied ==
  ASSUME DataTyped, handle_read_, NEW b,
         b = [bev EXCEPT !.input = <<>>, !.events = @ \ {"read"}]
  PROVE  /\ b \in [reading : BOOLEAN, writing : BOOLEAN, input : Seq(Part),
                   events : SUBSET ({"read", "write"} \cup EndKinds)]
         /\ b.input = <<>> /\ b.events = bev.events \ {"read"}
         /\ b.reading = bev.reading /\ b.writing = bev.writing
         /\ IF emitter.kind = "socks5" THEN socks5_connect_(bev.input, b) ELSE emit_data(bev.input, b)
         /\ tail' = TRUE /\ peer' = peer /\ call = "none" /\ "read" \in bev.events
<1>1. <<>> \in Seq(Part)
  OBVIOUS
<1>2. /\ b \in [reading : BOOLEAN, writing : BOOLEAN, input : Seq(Part),
                events : SUBSET ({"read", "write"} \cup EndKinds)]
      /\ b.input = <<>> /\ b.events = bev.events \ {"read"}
      /\ b.reading = bev.reading /\ b.writing = bev.writing
  BY <1>1 DEF DataTyped
<1> QED
  BY <1>2 DEF handle_read_, InLoop

\* The proxy answers.
LEMMA ProxyReadWhole ==
  ASSUME RequestInv, WholeInv, Negotiating, handle_read_, UNCHANGED <<connectVars, httpVars>>
  PROVE  WholeInv'
<1> DEFINE data == bev.input
<1>1. PICK b :
        /\ b \in [reading : BOOLEAN, writing : BOOLEAN, input : Seq(Part),
                  events : SUBSET ({"read", "write"} \cup EndKinds)]
        /\ b.input = <<>> /\ b.events = bev.events \ {"read"}
        /\ b.reading = bev.reading /\ b.writing = bev.writing
        /\ socks5_connect_(data, b)
        /\ tail' = TRUE /\ peer' = peer /\ call = "none"
  <2> DEFINE c == [bev EXCEPT !.input = <<>>, !.events = @ \ {"read"}]
  <2>1. /\ c \in [reading : BOOLEAN, writing : BOOLEAN, input : Seq(Part),
                  events : SUBSET ({"read", "write"} \cup EndKinds)]
        /\ c.input = <<>> /\ c.events = bev.events \ {"read"}
        /\ c.reading = bev.reading /\ c.writing = bev.writing
        /\ IF emitter.kind = "socks5" THEN socks5_connect_(bev.input, c) ELSE emit_data(bev.input, c)
        /\ tail' = TRUE /\ peer' = peer /\ call = "none" /\ "read" \in bev.events
    BY Emptied DEF WholeInv
  <2> HIDE DEF c
  <2> QED
    BY <2>1 DEF Negotiating
<1>2. /\ data \in Seq(Part) /\ peer.sent \in Seq(Part) /\ peer.wire \in Seq(Part)
      /\ peer.later \in Seq(Seq(Part)) /\ usage \in [now : Count, before : Count]
  BY DEF WholeInv, DataTyped
<1>3. /\ http.at = "connecting" /\ emitter.kind = "socks5" /\ emitter.stage # "up" /\ ~emitter.closing
      /\ emitter.onData = "none" /\ emitter.onFlush = "none" /\ emitter.onError = "none"
      /\ Asking
  BY DEF Negotiating, WholeInv
<1>4. UNCHANGED <<http, parser, response>> /\ parser = "start" /\ response = <<>>
  BY <1>3 DEF httpVars, WholeInv, Parsed, ParsedAs
<1>5. Parsed'
  BY <1>4 DEF WholeInv, Parsed, ParsedAs
<1>6. Size(data) = Len(data) /\ Size(data) \in Nat /\ Len(data) \in Nat
  BY <1>2, Sizes DEF Size
<1>7. /\ Size(<<"auth">>) = 1 /\ Size(<<"granted">>) = 1
      /\ <<"auth">> \in Seq(Part) /\ <<"granted">> \in Seq(Part)
  BY DEF Size, Part
<1> HIDE DEF data
<1>8. CASE /\ emitter.stage = "auth" /\ AuthAccepted(data)
           /\ emitter' = [emitter EXCEPT !.stage = "connect"]
           /\ bev' = start_writing(b)
           /\ usage' = [usage EXCEPT !.now.up = @ + 1, !.now.down = @ + Len(data)]
           /\ UNCHANGED <<buff, call, arg>>
  <2>1. /\ emitter'.kind = "socks5" /\ emitter'.stage = "connect" /\ ~emitter'.closing
        /\ emitter'.onData = "none" /\ emitter'.onFlush = "none" /\ emitter'.onError = "none"
    BY <1>3, <1>8 DEF RequestInv, Typed, NoEmitter
  <2>2. /\ bev' \in [reading : BOOLEAN, writing : BOOLEAN, input : Seq(Part),
                     events : SUBSET ({"read", "write"} \cup EndKinds)]
        /\ bev'.input = <<>>
    BY <1>1, <1>8 DEF start_writing
  <2>3. data = <<"auth">>
    BY <1>8 DEF AuthAccepted
  <2>4. /\ usage' \in [now : Count, before : Count] /\ usage'.before = usage.before
        /\ usage'.now.up = usage.now.up + 1 /\ usage'.now.down = usage.now.down + 1
    BY <1>6, <1>7, <1>8, <2>3, Counted DEF WholeInv
  <2>5. /\ peer.sent = data /\ (Turns(0) \/ Turns(1))
        /\ usage.now.down = usage.before.down /\ usage.now.up = usage.before.up + 1
    BY <1>3, <1>8 DEF Asking, data
  <2>6. Size(peer.sent) + Size(peer.wire) # 0
    <3>1. Size(peer.sent) = 1
      BY <1>7, <2>3, <2>5
    <3>2. Size(peer.wire) \in Nat
      BY <1>2, Sizes
    <3> QED
      BY <3>1, <3>2
  <2>7. Turns(1)'
    <3>1. ~Turns(0)
      <4>1. Size(peer.sent) \in Nat /\ Size(peer.wire) \in Nat
        BY <1>2, Sizes
      <4> QED
        BY <2>6, <4>1 DEF Turns
    <3>2. Turns(1)
      BY <2>5, <3>1
    <3> QED
      BY <1>1, <3>2 DEF Turns
  <2>8. peer'.sent = <<"auth">> \o bev'.input
    <3>1. <<"auth">> = <<"auth">> \o <<>>
      BY <1>7, Concatenations
    <3>2. peer'.sent = <<"auth">>
      BY <1>1, <2>3, <2>5
    <3> QED
      BY <2>2, <3>1, <3>2
  <2>9. usage.before.down \in Nat /\ usage.before.up \in Nat
    BY <1>2 DEF Count
  <2>10. usage'.now.down = usage'.before.down + 1 /\ usage'.now.up = usage'.before.up + 2
    BY <2>4, <2>5, <2>9
  <2>11. Asking'
    BY <2>1, <2>7, <2>8, <2>10 DEF Asking
  <2>12. DataTyped'
    BY <1>1, <1>4, <1>8, <2>2, <2>4 DEF WholeInv, DataTyped
  <2>13. Handled' /\ ~Flowing'
    BY <1>1, <1>3, <1>4, <1>8, <2>1 DEF Handled, Flowing
  <2> QED
    BY <1>5, <2>11, <2>12, <2>13 DEF WholeInv
<1>9. CASE /\ bev' = b /\ call' = "connected" /\ arg' # "ok" /\ CountDown(Len(data))
           /\ UNCHANGED <<emitter, buff>>
  <2>1. usage' \in [now : Count, before : Count]
    BY <1>6, <1>9, Counted DEF WholeInv
  <2>2. DataTyped'
    BY <1>1, <1>4, <1>9, <2>1 DEF WholeInv, DataTyped
  <2>3. Handled' /\ ~Flowing' /\ ~Negotiating'
    BY <1>3, <1>4, <1>9 DEF Handled, Flowing, Negotiating
  <2> QED
    BY <1>5, <2>2, <2>3 DEF WholeInv
<1>10. CASE /\ emitter.stage = "connect" /\ ConnectGranted(data)
            /\ emitter' = [emitter EXCEPT !.stage = "up"]
            /\ bev' = b /\ Enter("connected", "ok") /\ CountDown(Len(data))
            /\ UNCHANGED buff
  <2>1. /\ emitter'.kind = "socks5" /\ ~emitter'.closing
        /\ emitter'.onData = "none" /\ emitter'.onFlush = "none" /\ emitter'.onError = "none"
    BY <1>3, <1>10 DEF RequestInv, Typed, NoEmitter
  <2>2. data = <<"granted">> /\ call' = "connected" /\ arg' = "ok"
    BY <1>10 DEF ConnectGranted, Enter
  <2>3. /\ usage' \in [now : Count, before : Count] /\ usage'.before = usage.before
        /\ usage'.now.up = usage.now.up /\ usage'.now.down = usage.now.down + 1
    BY <1>6, <1>7, <1>10, <2>2, Counted DEF WholeInv
  <2>4. /\ peer.sent = <<"auth">> \o data /\ (Turns(1) \/ (Turns(2) /\ ~bev.writing))
        /\ usage.now.down = usage.before.down + 1 /\ usage.now.up = usage.before.up + 2
    BY <1>3, <1>10 DEF Asking, data
  <2>5. Size(peer.sent) = 2 /\ Size(peer.wire) \in Nat
    <3>1. Size(<<"auth">> \o <<"granted">>) = Size(<<"auth">>) + Size(<<"granted">>)
      BY <1>7, Sizes
    <3>2. Size(peer.sent) = 1 + 1
      BY <1>7, <2>2, <2>4, <3>1
    <3>3. Size(peer.wire) \in Nat
      BY <1>2, Sizes
    <3> QED
      BY <3>2, <3>3
  <2>6. Turns(2) /\ ~bev.writing
    BY <2>4, <2>5 DEF Turns
  <2>7. peer.wire = <<>>
    <3>1. Size(peer.wire) = 0
      BY <2>5, <2>6 DEF Turns
    <3> QED
      BY <1>2, <3>1, Sizes
  <2>8. Served' = <<>>
    <3>1. Served \in Seq(Part) /\ Size(Served) = 0
      BY <2>5, ServedTyped DEF WholeInv
    <3> QED
      BY <1>1, <3>1, Sizes DEF Served
  <2>9. OneResponse(Served' \o peer'.wire)
    <3>1. Served' \o peer'.wire = <<>>
      BY <1>1, <2>7, <2>8
    <3> QED
      BY <3>1 DEF OneResponse
  <2>10. peer.later # <<>> => Len(peer.later) = 1 /\ OneResponse(peer.later[1])
    <3> SUFFICES ASSUME peer.later # <<>>
                 PROVE  Len(peer.later) = 1 /\ OneResponse(peer.later[1])
      OBVIOUS
    <3> DEFINE later == peer.later
    <3>1. later \in Seq(Seq(Part)) /\ later # <<>>
      BY <1>2
    <3>2. \A i \in DOMAIN later : i + 2 < 3 \/ (i + 2 = 3 /\ OneResponse(later[i]))
      BY <2>6 DEF Turns
    <3> HIDE DEF later
    <3>3. DOMAIN later = 1 .. Len(later) /\ Len(later) \in Nat \ {0}
      BY <3>1, EmptySeq, LenProperties
    <3>4. OneResponse(later[1])
      BY <3>2, <3>3
    <3>5. Len(later) = 1
      <4>1. Len(later) \in DOMAIN later
        BY <3>3
      <4> QED
        BY <3>2, <3>3, <4>1
    <3> QED
      BY <3>4, <3>5 DEF later
  <2>11. /\ Pending' = <<>> /\ response' = <<>> /\ bev'.input = <<>> /\ bev'.events = bev.events \ {"read"}
         /\ ~bev'.writing
    BY <1>1, <1>4, <1>10, <2>2, <2>6 DEF Pending
  <2>12. usage.before.down \in Nat /\ usage.before.up \in Nat
    BY <1>2 DEF Count
  <2>13. Kept'
    <3>1. Size(<<>>) = 0
      BY DEF Size
    <3>2. usage'.now.down = usage'.before.down + 2
      BY <2>3, <2>4, <2>12
    <3>3. Served' = (response' \o Pending') \o bev'.input
      BY <2>8, <2>11
    <3> QED
      BY <2>3, <2>8, <2>11, <2>12, <3>1, <3>2, <3>3 DEF Kept
  <2>14. Relayed'
    <3>1. Size(peer'.sent) >= 2
      BY <1>1, <2>5
    <3>2. usage'.now.up = usage'.before.up + 2
      BY <2>3, <2>4
    <3> QED
      BY <1>1, <1>3, <1>4, <2>2, <2>7, <2>8, <2>9, <2>10, <2>11, <2>13, <3>1, <3>2 DEF Relayed
  <2>15. Flows'
    BY <1>3, <1>4, <2>1, <2>11, <2>14 DEF Flows
  <2>16. DataTyped'
    BY <1>1, <1>4, <1>10, <2>3 DEF WholeInv, DataTyped
  <2>17. Handled' /\ ~Negotiating'
    BY <1>3, <1>4, <2>1, <2>2 DEF Handled, Negotiating
  <2> QED
    BY <1>5, <2>15, <2>16, <2>17 DEF WholeInv
<1> QED
  BY <1>1, <1>3, <1>8, <1>9, <1>10 DEF socks5_connect_, socks5_format_connect_request, Enter

\* The transport hands the data to a reader, or drops it.
LEMMA ReadWhole ==
  ASSUME RequestInv, WholeInv, Exchanging, handle_read_, UNCHANGED <<connectVars, httpVars>>
  PROVE  WholeInv'
<1> DEFINE data == bev.input
<1>1. PICK b :
        /\ b \in [reading : BOOLEAN, writing : BOOLEAN, input : Seq(Part),
                  events : SUBSET ({"read", "write"} \cup EndKinds)]
        /\ b.input = <<>> /\ b.events = bev.events \ {"read"}
        /\ b.reading = bev.reading /\ b.writing = bev.writing
        /\ emit_data(data, b)
        /\ tail' = TRUE /\ peer' = peer /\ call = "none" /\ "read" \in bev.events
  <2> DEFINE c == [bev EXCEPT !.input = <<>>, !.events = @ \ {"read"}]
  <2>1. /\ c \in [reading : BOOLEAN, writing : BOOLEAN, input : Seq(Part),
                  events : SUBSET ({"read", "write"} \cup EndKinds)]
        /\ c.input = <<>> /\ c.events = bev.events \ {"read"}
        /\ c.reading = bev.reading /\ c.writing = bev.writing
        /\ IF emitter.kind = "socks5" THEN socks5_connect_(bev.input, c) ELSE emit_data(bev.input, c)
        /\ tail' = TRUE /\ peer' = peer /\ call = "none" /\ "read" \in bev.events
    BY Emptied DEF WholeInv
  <2> HIDE DEF c
  <2>2. emit_data(bev.input, c)
    BY <2>1 DEF socks5_connect_, Exchanging
  <2> QED
    BY <2>1, <2>2
<1>2. /\ data \in Seq(Part) /\ peer.sent \in Seq(Part) /\ peer.wire \in Seq(Part) /\ response \in Seq(Part)
      /\ usage \in [now : Count, before : Count]
  BY DEF WholeInv, DataTyped
<1>3. /\ emitter.kind \in {"libevent", "socks5"} /\ emitter.stage = "up"
      /\ http.at \in {"sending", "receiving", "ended"} /\ ~emitter.closing
      /\ emitter.onData \in {"none", "readn"}
      /\ emitter.onData = "readn" => http.at = "receiving"
  BY <1>1 DEF Exchanging, WholeInv, Handled
<1>4. UNCHANGED <<http, parser, response>> /\ Pending = <<>>
  BY <1>1 DEF httpVars, Pending
<1>5. Parsed'
  BY <1>4 DEF WholeInv, Parsed, ParsedAs
<1>6. /\ Len(data) = Size(data) /\ Size(data) \in Nat
      /\ usage.before.down \in Nat /\ usage.before.up \in Nat
      /\ usage.now.down \in Nat /\ usage.now.up \in Nat
  BY <1>2, Sizes DEF Size, Count
<1>7. /\ \A s \in Seq(Part) : s \o <<>> = s /\ <<>> \o s = s
      /\ <<>> \in Seq(Part) /\ Size(<<>>) = 0 /\ NoHead(<<>>)
  BY Concatenations DEF Size, NoHead
<1>8. ~Negotiating'
  BY <1>3, <1>4 DEF Negotiating
<1>9. Flowing' => Flowing /\ Flows
  BY <1>3, <1>4 DEF Flowing, WholeInv
<1>10. CASE emitter.onData = "none"
  <2>1. /\ bev' = b /\ CountDown(Len(data) * (Layers - 1)) /\ UNCHANGED <<emitter, buff, call, arg>>
    BY <1>1, <1>10 DEF emit_data
  <2>2. Layers - 1 = IF emitter.kind = "socks5" THEN 1 ELSE 0
    BY DEF Layers
  <2>3. Size(data) * (Layers - 1) = IF emitter.kind = "socks5" THEN Size(data) ELSE 0
    BY <1>6, <2>2
  <2> HIDE DEF data
  <2>4. /\ usage' \in [now : Count, before : Count] /\ usage'.before = usage.before
        /\ usage'.now.up = usage.now.up
        /\ usage'.now.down = usage.now.down + IF emitter.kind = "socks5" THEN Size(data) ELSE 0
    BY <1>6, <2>1, <2>3, Counted DEF WholeInv
  <2>5. DataTyped'
    BY <1>1, <1>4, <2>1, <2>4 DEF WholeInv, DataTyped
  <2>6. Handled'
    BY <1>1, <1>3, <1>4, <2>1 DEF WholeInv, Handled
  <2>7. ASSUME Flowing' PROVE Flows'
    <3>1. Flowing /\ Flows
      BY <1>9, <2>7
    <3>2. data # <<>>
      BY <1>1, <3>1 DEF Flows, data
    <3>3. emitter.kind = "socks5"
      BY <1>3, <1>10, <3>1, <3>2 DEF Flows, Direct, data
    <3>4. Relayed
      BY <3>1, <3>3 DEF Flows
    <3>5. /\ bev'.input = <<>> /\ bev'.events = bev.events \ {"read"} /\ bev'.writing = bev.writing
          /\ Pending' = <<>> /\ Served' = Served
      BY <1>1, <2>1 DEF Pending, Served
    <3>6. Served \in Seq(Part)
      BY <3>4, ServedTyped DEF WholeInv, Relayed
    <3>7. http.at \in {"sending", "ended"}
      BY <1>1, <1>3, <1>10, <3>4 DEF Relayed
    <3>8. http.at # "ended"
      <4> SUFFICES ASSUME http.at = "ended" PROVE FALSE
        OBVIOUS
      <4>1. parser = "end"
        BY <3>1, <3>3 DEF Flows
      <4>2. ParsedAs("end", response)
        BY <4>1 DEF WholeInv, Parsed
      <4>3. Kept
        BY <3>4, <4>1 DEF Relayed, Lost
      <4>4. Served = response \o data
        BY <1>2, <1>4, <1>7, <4>3 DEF Kept, data
      <4>5. OneResponse((response \o data) \o peer.wire)
        BY <3>4, <4>4 DEF Relayed
      <4> QED
        BY <1>2, <3>2, <4>2, <4>5, Complete
    <3>9. http.at = "sending" /\ parser = "start" /\ response = <<>>
      BY <3>7, <3>8 DEF WholeInv, Parsed, ParsedAs
    <3>10. Served # <<>>
      <4>1. CASE Kept
        <5>1. Served = data
          BY <1>2, <1>4, <1>7, <3>9, <4>1 DEF Kept, data
        <5> QED
          BY <3>2, <5>1
      <4>2. CASE Lost
        BY <4>2 DEF Lost
      <4> QED
        BY <3>4, <4>1, <4>2 DEF Relayed
    <3>11. Lost'
      BY <1>4, <1>7, <3>5, <3>9, <3>10 DEF Lost
    <3>12. Relayed'
      BY <1>1, <1>4, <2>1, <2>4, <3>3, <3>4, <3>5, <3>9, <3>11 DEF Relayed
    <3> QED
      BY <1>4, <2>1, <3>3, <3>5, <3>9, <3>12 DEF Flows
  <2> QED
    BY <1>5, <1>8, <2>5, <2>6, <2>7 DEF WholeInv
<1>11. CASE emitter.onData = "readn"
  <2>1. ReadnGets(data, b) /\ CountDown(Len(data) * Layers)
    BY <1>1, <1>11 DEF emit_data
  <2>2. /\ emitter' = [emitter EXCEPT !.onData = "none", !.onError = "none"]
        /\ bev' = Reading(b, FALSE) /\ buff' = data /\ call' = "read" /\ arg' = "ok"
    BY <2>1 DEF ReadnGets, Enter
  <2>3. /\ emitter'.kind = emitter.kind /\ emitter'.closing = emitter.closing
        /\ emitter'.onData = "none" /\ emitter'.onFlush = emitter.onFlush /\ emitter'.onError = "none"
        /\ emitter'.suppressed_eof = emitter.suppressed_eof
    BY <2>2 DEF RequestInv, Typed, NoEmitter
  <2>4. /\ bev' \in [reading : BOOLEAN, writing : BOOLEAN, input : Seq(Part),
                     events : SUBSET ({"read", "write"} \cup EndKinds)]
        /\ bev'.input = <<>> /\ bev'.events = bev.events \ {"read"} /\ bev'.writing = bev.writing
        /\ emitter.kind = "libevent" => ~bev'.reading
    BY <1>1, <2>2 DEF Reading
  <2>5. Layers = IF emitter.kind = "socks5" THEN 2 ELSE 1
    BY DEF Layers
  <2>6. Size(data) * Layers \in Nat
    BY <1>6, <2>5
  <2>7. Size(data) * Layers = IF emitter.kind = "socks5" THEN 2 * Size(data) ELSE Size(data)
    BY <1>6, <2>5
  <2> HIDE DEF data
  <2>8. /\ usage' \in [now : Count, before : Count] /\ usage'.before = usage.before
        /\ usage'.now.up = usage.now.up
        /\ usage'.now.down = usage.now.down + Size(data) * Layers
    BY <1>6, <2>1, <2>6, Counted DEF WholeInv
  <2>9. DataTyped'
    BY <1>1, <1>2, <1>4, <2>2, <2>4, <2>8 DEF WholeInv, DataTyped
  <2>10. http.at = "receiving"
    BY <1>3, <1>11
  <2>11. Handled'
    BY <1>3, <1>4, <2>2, <2>3, <2>10 DEF WholeInv, Handled
  <2>12. ASSUME Flowing' PROVE Flows'
    <3>1. Flowing /\ Flows
      BY <1>9, <2>12
    <3>2. Pending' = data /\ Served' = Served /\ EndOfData' = EndOfData
      BY <1>1, <2>2 DEF Pending, Served, EndOfData
    <3>3. response \o data \in Seq(Part)
      BY <1>2, Concatenations
    <3>4. /\ (response \o Pending) \o data = response \o data
          /\ (response' \o Pending') \o bev'.input = response \o data
      BY <1>2, <1>4, <1>7, <2>4, <3>2, <3>3
    <3>5. ASSUME emitter.kind = "libevent" PROVE Direct'
      <4>1. Direct
        BY <3>1, <3>5 DEF Flows
      <4>2. peer'.sent = (response' \o Pending') \o bev'.input
        BY <1>1, <3>4, <4>1 DEF Direct, data
      <4>3. usage'.now.down = usage'.before.down + Size(peer'.sent) - Size(bev'.input)
        <5>1. usage.now.down = usage.before.down + Size(peer.sent) - Size(data)
          BY <4>1 DEF Direct, data
        <5>2. usage'.now.down = usage.now.down + Size(data)
          BY <2>7, <2>8, <3>5
        <5>3. Size(peer.sent) \in Nat
          BY <1>2, Sizes
        <5> QED
          BY <1>1, <1>6, <1>7, <2>4, <2>8, <5>1, <5>2, <5>3
      <4> QED
        BY <1>4, <2>2, <2>3, <2>4, <2>8, <2>10, <3>2, <3>5, <4>1, <4>2, <4>3 DEF Direct
    <3>6. ASSUME emitter.kind = "socks5" PROVE Relayed'
      <4>1. Relayed
        BY <3>1, <3>6 DEF Flows
      <4>2. Served \in Seq(Part) /\ Size(Served) \in Nat
        BY <4>1, ServedTyped, Sizes DEF WholeInv, Relayed
      <4>3. ASSUME Kept PROVE Kept'
        <5>1. Served' = (response' \o Pending') \o bev'.input
          BY <3>2, <3>4, <4>3 DEF Kept, data
        <5>2. usage.now.down = usage.before.down + 2 + 2 * (Size(Served) - Size(data))
          BY <4>3 DEF Kept, data
        <5>3. usage'.now.down = usage.now.down + 2 * Size(data)
          BY <2>7, <2>8, <3>6
        <5>4. usage'.now.down = usage'.before.down + 2 + 2 * (Size(Served') - Size(bev'.input))
          BY <1>6, <1>7, <2>4, <2>8, <3>2, <4>2, <5>2, <5>3, SMTT(20)
        <5> QED
          BY <5>1, <5>4 DEF Kept
      <4>4. ASSUME Lost PROVE Lost'
        BY <1>4, <1>7, <2>4, <3>2, <4>4 DEF Lost, data
      <4>5. Kept' \/ Lost'
        BY <4>1, <4>3, <4>4 DEF Relayed
      <4> QED
        BY <1>1, <1>4, <2>2, <2>4, <2>8, <2>10, <3>2, <4>1, <4>5 DEF Relayed
    <3> QED
      BY <1>4, <2>3, <2>4, <2>10, <3>5, <3>6 DEF Flows
  <2> QED
    BY <1>5, <1>8, <2>9, <2>11, <2>12 DEF WholeInv
<1> QED
  BY <1>3, <1>10, <1>11

\* An event that is not about data, and what becomes of it: nothing, the end
\* of a write, or an error for a reader.
Unheard ==
  /\ UNCHANGED <<call, arg>> /\ bev'.reading = bev.reading
  /\ emitter'.onData = emitter.onData /\ emitter'.onFlush = emitter.onFlush
  /\ emitter'.onError = emitter.onError
  /\ emitter'.suppressed_eof => emitter.suppressed_eof \/ "Eof" \in bev.events

WriterHears ==
  /\ http.at = "sending" /\ call' = "written" /\ bev'.reading = bev.reading
  /\ emitter'.onData = emitter.onData /\ emitter'.onFlush = "none" /\ emitter'.onError = "none"
  /\ emitter'.suppressed_eof => emitter.suppressed_eof

ReaderHears ==
  /\ http.at = "receiving" /\ emitter.kind = "libevent"
  /\ call' = "read" /\ arg' \in EndKinds /\ ~bev'.reading
  /\ emitter'.onData = "none" /\ emitter'.onFlush = emitter.onFlush /\ emitter'.onError = "none"
  /\ emitter'.suppressed_eof => emitter.suppressed_eof
  /\ Flows => bev.input = <<>>
  /\ arg' = "Eof" => emitter.suppressed_eof \/ "Eof" \in bev.events

\* Where each kind of handler is.
LEMMA HandlersByPhase ==
  ASSUME RequestInv, WholeInv, Negotiating \/ Exchanging
  PROVE  /\ emitter.kind \in {"libevent", "socks5"}
         /\ emitter.onError \in {"none", "write", "readn"}
         /\ emitter.onError = "readn" => http.at = "receiving"
         /\ emitter.onError = "write" => http.at = "sending"
         /\ emitter.onFlush # "none" => http.at = "sending"
         /\ http.at = "closing" => bev.events = {} /\ emitter.onError = "none"
         /\ http.at \in {"connecting", "sending", "receiving", "ended", "closing"}
<1>1. emitter.kind # "none"
  BY DEF Negotiating, Exchanging
<1> QED
  BY <1>1 DEF WholeInv, Handled, Negotiating, Exchanging

LEMMA EventOutcomes ==
  ASSUME RequestInv, WholeInv, Negotiating \/ Exchanging,
         DeliverSuppressedEof \/ handle_write_ \/ \E what \in EndKinds : handle_event_(what)
  PROVE  /\ UNCHANGED <<peer, buff, usage>> /\ call = "none"
         /\ bev' \in [reading : BOOLEAN, writing : BOOLEAN, input : Seq(Part),
                      events : SUBSET ({"read", "write"} \cup EndKinds)]
         /\ bev'.input = bev.input /\ bev'.writing = bev.writing
         /\ ("read" \in bev'.events) = ("read" \in bev.events)
         /\ "Eof" \in bev'.events => "Eof" \in bev.events
         /\ bev.events = {} => bev'.events = {}
         /\ emitter'.kind = emitter.kind /\ emitter'.stage = emitter.stage
         /\ emitter'.closing = emitter.closing
         /\ emitter'.suppressed_eof => ~tail'
         /\ Unheard \/ WriterHears \/ ReaderHears
<1> USE DEF RequestInv, Typed, NoEmitter
<1>1. bev \in [reading : BOOLEAN, writing : BOOLEAN, input : Seq(Part),
               events : SUBSET ({"read", "write"} \cup EndKinds)]
  BY DEF WholeInv, DataTyped
<1>2. CASE DeliverSuppressedEof
  <2>1. UNCHANGED <<peer, buff, usage>> /\ call = "none" /\ tail /\ ~tail'
    BY <1>2 DEF DeliverSuppressedEof
  <2>2. CASE emitter.suppressed_eof /\ emitter.onError = "readn" /\ emitter.kind # "socks5"
    <3>1. /\ emitter' = [emitter EXCEPT !.suppressed_eof = FALSE, !.onData = "none",
                                        !.onError = "none"]
          /\ bev' = Reading(bev, FALSE) /\ call' = "read" /\ arg' = "Eof"
      BY <1>2, <2>2 DEF DeliverSuppressedEof, Enter
    <3>2. http.at = "receiving" /\ emitter.kind = "libevent"
      BY <2>2, HandlersByPhase
    <3>3. bev' = [bev EXCEPT !.reading = FALSE]
      BY <1>1, <3>1, <3>2 DEF Reading
    <3>4. Flows => bev.input = <<>>
      BY <2>1, <2>2, <3>2 DEF Flows, Direct
    <3>5. ReaderHears
      BY <1>1, <2>2, <3>1, <3>2, <3>3, <3>4 DEF ReaderHears, EndKinds
    <3> QED
      BY <1>1, <2>1, <3>1, <3>3, <3>5
  <2>3. CASE ~(emitter.suppressed_eof /\ emitter.onError = "readn" /\ emitter.kind # "socks5")
    <3>1. emitter' = [emitter EXCEPT !.suppressed_eof = FALSE] /\ UNCHANGED <<bev, call, arg>>
      BY <1>2, <2>3 DEF DeliverSuppressedEof
    <3> QED
      BY <1>1, <2>1, <3>1 DEF Unheard
  <2> QED
    BY <2>2, <2>3
<1>3. CASE handle_write_
  <2>1. /\ UNCHANGED <<peer, buff, usage>> /\ call = "none" /\ ~tail'
        /\ bev' = [bev EXCEPT !.events = @ \ {"write"}]
    BY <1>3 DEF handle_write_, Event, InLoop
  <2>2. /\ bev' \in [reading : BOOLEAN, writing : BOOLEAN, input : Seq(Part),
                     events : SUBSET ({"read", "write"} \cup EndKinds)]
        /\ bev'.input = bev.input /\ bev'.writing = bev.writing /\ bev'.reading = bev.reading
        /\ bev'.events = bev.events \ {"write"}
    BY <1>1, <2>1
  <2>3. CASE emitter.onFlush = "none" \/ emitter.stage # "up"
    <3>1. UNCHANGED <<emitter, call, arg>>
      BY <1>3, <2>3 DEF handle_write_
    <3> QED
      BY <2>1, <2>2, <3>1 DEF Unheard
  <2>4. CASE ~(emitter.onFlush = "none" \/ emitter.stage # "up")
    <3>1. /\ emitter' = [emitter EXCEPT !.onFlush = "none", !.onError = "none"]
          /\ call' = "written"
      BY <1>3, <2>4 DEF handle_write_, Enter
    <3>2. http.at = "sending"
      BY <2>4, HandlersByPhase
    <3> QED
      BY <2>1, <2>2, <3>1, <3>2 DEF WriterHears
  <2> QED
    BY <2>3, <2>4
<1>4. CASE \E what \in EndKinds : handle_event_(what)
  <2> PICK what \in EndKinds : handle_event_(what)
    BY <1>4
  <2> DEFINE b == [bev EXCEPT !.events = @ \ {what}]
  <2>1. /\ UNCHANGED <<peer, buff, usage>> /\ call = "none" /\ ~tail' /\ what \in bev.events
        /\ what # "Eof" => "read" \notin bev.events
        /\ \/ /\ what = "Eof" /\ bev.input # <<>>
              /\ emitter' = [emitter EXCEPT !.suppressed_eof = TRUE]
              /\ bev' = b /\ UNCHANGED <<call, arg>>
           \/ ~(what = "Eof" /\ bev.input # <<>>) /\ emit_error(what, b)
    BY DEF handle_event_, Event, InLoop
  <2>2. /\ b \in [reading : BOOLEAN, writing : BOOLEAN, input : Seq(Part),
                  events : SUBSET ({"read", "write"} \cup EndKinds)]
        /\ b.input = bev.input /\ b.writing = bev.writing /\ b.reading = bev.reading
        /\ b.events = bev.events \ {what}
    BY <1>1
  <2>3. /\ ("read" \in b.events) = ("read" \in bev.events)
        /\ "Eof" \in b.events => "Eof" \in bev.events
        /\ bev.events # {}
    BY <2>1, <2>2 DEF EndKinds
  <2> HIDE DEF b
  <2>4. CASE /\ what = "Eof"
             /\ emitter' = [emitter EXCEPT !.suppressed_eof = TRUE]
             /\ bev' = b /\ UNCHANGED <<call, arg>>
    BY <2>1, <2>2, <2>3, <2>4 DEF Unheard
  <2>5. CASE ~(what = "Eof" /\ bev.input # <<>>) /\ emit_error(what, b)
    <3>1. CASE emitter.kind = "socks5" \/ emitter.onError = "none"
      <4>1. bev' = b /\ UNCHANGED <<emitter, call, arg>>
        BY <2>5, <3>1 DEF emit_error
      <4> QED
        BY <2>1, <2>2, <2>3, <4>1 DEF Unheard
    <3>2. CASE emitter.kind # "socks5" /\ emitter.onError = "write"
      <4>1. /\ emitter' = [emitter EXCEPT !.onFlush = "none", !.onError = "none"]
            /\ bev' = b /\ call' = "written"
        BY <2>5, <3>2 DEF emit_error, Enter
      <4>2. http.at = "sending"
        BY <3>2, HandlersByPhase
      <4> QED
        BY <2>1, <2>2, <2>3, <4>1, <4>2 DEF WriterHears
    <3>3. CASE emitter.kind # "socks5" /\ emitter.onError = "readn"
      <4>1. /\ emitter' = [emitter EXCEPT !.onData = "none", !.onError = "none"]
            /\ bev' = Reading(b, FALSE) /\ call' = "read" /\ arg' = what
        BY <2>5, <3>3 DEF emit_error, Enter
      <4>2. http.at = "receiving" /\ emitter.kind = "libevent"
        BY <3>3, HandlersByPhase
      <4>3. /\ bev' \in [reading : BOOLEAN, writing : BOOLEAN, input : Seq(Part),
                         events : SUBSET ({"read", "write"} \cup EndKinds)]
            /\ bev'.input = bev.input /\ bev'.writing = bev.writing /\ ~bev'.reading
            /\ bev'.events = b.events
        BY <2>2, <4>1, <4>2 DEF Reading
      <4>4. Flows => bev.input = <<>>
        BY <2>1, <2>5 DEF Flows
      <4>5. ReaderHears
        BY <2>1, <4>1, <4>2, <4>3, <4>4 DEF ReaderHears
      <4> QED
        BY <2>1, <2>3, <4>1, <4>3, <4>5
    <3> QED
      BY <3>1, <3>2, <3>3, HandlersByPhase
  <2> QED
    BY <2>1, <2>4, <2>5
<1> QED
  BY <1>2, <1>3, <1>4

LEMMA EventWhole ==
  ASSUME RequestInv, WholeInv, Negotiating \/ Exchanging,
         DeliverSuppressedEof \/ handle_write_ \/ \E what \in EndKinds : handle_event_(what),
         UNCHANGED <<connectVars, httpVars>>
  PROVE  WholeInv'
<1>1. /\ UNCHANGED <<peer, buff, usage>> /\ call = "none"
      /\ bev' \in [reading : BOOLEAN, writing : BOOLEAN, input : Seq(Part),
                   events : SUBSET ({"read", "write"} \cup EndKinds)]
      /\ bev'.input = bev.input /\ bev'.writing = bev.writing
      /\ ("read" \in bev'.events) = ("read" \in bev.events)
      /\ "Eof" \in bev'.events => "Eof" \in bev.events
      /\ bev.events = {} => bev'.events = {}
      /\ emitter'.kind = emitter.kind /\ emitter'.stage = emitter.stage
      /\ emitter'.closing = emitter.closing
      /\ emitter'.suppressed_eof => ~tail'
      /\ Unheard \/ WriterHears \/ ReaderHears
  BY EventOutcomes
<1>2. UNCHANGED <<http, parser, response, attempt, leaked, outcome>>
  BY DEF httpVars, connectVars
<1>3. DataTyped' /\ Parsed'
  BY <1>1, <1>2 DEF WholeInv, DataTyped, Parsed, ParsedAs
<1>4. Handled'
  BY <1>1, <1>2, HandlersByPhase DEF WholeInv, Handled, Unheard, WriterHears, ReaderHears
<1>5. Negotiating' => Asking'
  <2> SUFFICES ASSUME Negotiating' PROVE Asking'
    OBVIOUS
  <2>1. http.at = "connecting"
    BY <1>2 DEF Negotiating
  <2>2. Asking
    BY <2>1 DEF WholeInv, Exchanging
  <2> QED
    BY <1>1, <2>2 DEF Asking, Turns
<1>6. ASSUME Flowing' PROVE Flows'
  <2>1. Flowing /\ Flows
    BY <1>1, <1>2, <1>6 DEF Flowing, WholeInv, Unheard, WriterHears, ReaderHears
  <2>2. Pending' = <<>> /\ Pending = <<>> /\ Served' = Served /\ EndOfData' = EndOfData
    BY <1>1 DEF Pending, Served, EndOfData, Unheard, WriterHears, ReaderHears, EndKinds
  <2>3. ASSUME emitter.kind = "libevent" PROVE Direct'
    <3>1. Direct
      BY <2>1, <2>3 DEF Flows
    <3>2. CASE Unheard
      BY <1>1, <1>2, <2>2, <3>1, <3>2 DEF Unheard, Direct
    <3>3. CASE WriterHears
      BY <1>1, <1>2, <2>2, <3>1, <3>3 DEF WriterHears, Direct
    <3>4. CASE ReaderHears
      BY <1>1, <1>2, <2>1, <2>2, <3>1, <3>4 DEF ReaderHears, Direct
    <3> QED
      BY <1>1, <3>2, <3>3, <3>4
  <2>4. ASSUME emitter.kind = "socks5" PROVE Relayed'
    <3>1. Relayed
      BY <2>1, <2>4 DEF Flows
    <3>2. Kept => Kept'
      BY <1>1, <1>2, <2>2 DEF Kept
    <3>3. Lost => Lost'
      BY <1>1, <1>2, <2>2 DEF Lost
    <3>4. CASE Unheard
      BY <1>1, <1>2, <2>2, <3>1, <3>2, <3>3, <3>4 DEF Unheard, Relayed
    <3>5. CASE WriterHears
      BY <1>1, <1>2, <2>2, <3>1, <3>2, <3>3, <3>5 DEF WriterHears, Relayed
    <3> QED
      BY <1>1, <2>4, <3>4, <3>5 DEF ReaderHears
  <2> QED
    BY <1>1, <1>2, <2>1, <2>2, <2>3, <2>4 DEF Flows
<1> QED
  BY <1>3, <1>4, <1>5, <1>6 DEF WholeInv

LEMMA TransportWhole ==
  ASSUME RequestInv, WholeInv, TransportNext, UNCHANGED <<connectVars, httpVars>>
  PROVE  WholeInv'
<1>1. CASE emitter.kind = "none"
  BY <1>1, NoTransportWhole
<1>2. CASE emitter.kind # "none"
  <2>1. CASE Background
    BY <2>1, ArriveWhole, FlushedWhole, EndsWhole DEF Background
  <2>2. CASE DropSelf
    BY <2>2, DropWhole
  <2>3. CASE handle_read_ \/ DeliverSuppressedEof \/ handle_write_ \/ \E what \in EndKinds : handle_event_(what)
    <3>1. call = "none"
      BY <2>3 DEF handle_read_, DeliverSuppressedEof, Event, handle_write_, handle_event_, InLoop
    <3>2. Negotiating \/ Exchanging
      BY <1>2, <3>1, InPhase
    <3> QED
      BY <2>3, <3>2, ProxyReadWhole, ReadWhole, EventWhole
  <2> QED
    BY <2>1, <2>2, <2>3 DEF TransportNext, Background
<1> QED
  BY <1>1, <1>2

\* As long as there is no transport.
LEMMA NoLinkWhole ==
  ASSUME WholeInv, http.at = "connecting", emitter = NoEmitter,
         UNCHANGED <<linkVars, buff, httpVars>>,
         call' \in {"none", "tcp", "connect_first_of", "connected"},
         call' = "connected" => arg' # "ok"
  PROVE  WholeInv'
<1>1. UNCHANGED <<emitter, bev, peer, usage, buff, http, parser, response>>
  BY DEF linkVars, httpVars
<1>2. DataTyped' /\ Parsed'
  BY <1>1 DEF WholeInv, DataTyped, Parsed, ParsedAs
<1>3. Handled' /\ ~Negotiating' /\ ~Flowing'
  BY <1>1 DEF Handled, Negotiating, Flowing, NoEmitter
<1> QED
  BY <1>2, <1>3 DEF WholeInv

\* What a new transport begins with.
LEMMA LinkMade ==
  ASSUME WholeInv, NEW new, NEW b, NEW peers \in {Servers, Proxies}, NEW sent \in {0, 1},
         MakeTransport(new, b, peers, sent)
  PROVE  /\ emitter' = new /\ bev' = b /\ peer' \in peers
         /\ peer' \in [sent : {<<>>}, wire : Seq(Part), later : Seq(Seq(Part)),
                       end : EndKinds \cup {"silent"}]
         /\ usage' \in [now : Count, before : Count]
         /\ usage'.now.down = usage'.before.down /\ usage'.now.up = usage'.before.up + sent
<1>1. /\ emitter' = new /\ bev' = b /\ peer' \in peers
      /\ usage' = [before |-> usage.now, now |-> [usage.now EXCEPT !.up = @ + sent]]
  BY DEF MakeTransport
<1>2. usage.now = [up |-> usage.now.up, down |-> usage.now.down] /\ usage.now.up \in Nat /\ usage.now.down \in Nat
  BY DEF WholeInv, DataTyped, Count
<1>3. peer' \in Servers \cup Proxies
  BY <1>1
<1> DEFINE now == [usage.now EXCEPT !.up = @ + sent]
<1>4. now \in Count /\ now.up = usage.now.up + sent /\ now.down = usage.now.down
  BY <1>2 DEF Count
<1> HIDE DEF now
<1>5. usage' = [before |-> usage.now, now |-> now] /\ usage.now \in Count
  BY <1>1, <1>2 DEF now, Count
<1>6. /\ usage' \in [now : Count, before : Count]
      /\ usage'.now.down = usage'.before.down /\ usage'.now.up = usage'.before.up + sent
  BY <1>4, <1>5
<1> QED
  BY <1>1, <1>3, <1>6, PeersTakeTurns

LEMMA ConnectedWhole ==
  ASSUME WholeInv, http.at = "connecting", Connected, UNCHANGED <<buff, httpVars>>
  PROVE  WholeInv'
<1>1. /\ MakeTransport(LibeventEmitter, NoBev, Servers, 0)
      /\ call' = "connected" /\ arg' = "ok"
  BY DEF Connected, Enter
<1>2. /\ emitter' = LibeventEmitter /\ bev' = NoBev
      /\ peer' \in [sent : {<<>>}, wire : Seq(Part), later : Seq(Seq(Part)),
                    end : EndKinds \cup {"silent"}]
      /\ usage' \in [now : Count, before : Count]
      /\ usage'.now.down = usage'.before.down /\ usage'.now.up = usage'.before.up + 0
  BY <1>1, LinkMade
<1>3. UNCHANGED <<buff, http, parser, response>> /\ parser = "start" /\ response = <<>>
  BY DEF httpVars, WholeInv, Parsed, ParsedAs
<1>4. <<>> \in Seq(Part) /\ Size(<<>>) = 0
  BY DEF Size
<1>5. DataTyped' /\ Parsed'
  <2>1. peer' \in [sent : Seq(Part), wire : Seq(Part), later : Seq(Seq(Part)),
                   end : EndKinds \cup {"silent"}]
    BY <1>2, <1>4
  <2>2. bev' \in [reading : BOOLEAN, writing : BOOLEAN, input : Seq(Part),
                  events : SUBSET ({"read", "write"} \cup EndKinds)]
    BY <1>2, <1>4 DEF NoBev
  <2> QED
    BY <1>2, <1>3, <2>1, <2>2 DEF WholeInv, DataTyped, Parsed, ParsedAs
<1>6. Handled' /\ ~Negotiating'
  BY <1>1, <1>2, <1>3 DEF Handled, Negotiating, LibeventEmitter, NoEmitter
<1>7. Direct'
  <2>1. peer'.sent = <<>> /\ Pending' = <<>> /\ response' = <<>> /\ bev'.input = <<>>
    BY <1>1, <1>2, <1>3 DEF Pending, NoBev
  <2>2. /\ emitter'.onData = "none" /\ ~emitter'.suppressed_eof /\ ~bev'.reading
        /\ bev'.events = {} /\ http'.at = "connecting"
    BY <1>2, <1>3 DEF LibeventEmitter, NoEmitter, NoBev
  <2>3. usage'.before.down \in Nat /\ usage'.before.up \in Nat
    BY <1>2 DEF Count
  <2>4. usage'.now.down = usage'.before.down + Size(peer'.sent) - Size(bev'.input)
    BY <1>2, <1>4, <2>1, <2>3
  <2>5. usage'.now.up = usage'.before.up + 0
    BY <1>2
  <2> QED
    BY <1>1, <2>1, <2>2, <2>4, <2>5 DEF Direct
<1>8. Flows'
  BY <1>2, <1>3, <1>7 DEF Flows, LibeventEmitter, NoEmitter, NoBev
<1> QED
  BY <1>5, <1>6, <1>8 DEF WholeInv

LEMMA SocksWhole ==
  ASSUME WholeInv, http.at = "connecting", socks5_connect, UNCHANGED <<buff, httpVars>>
  PROVE  WholeInv'
<1> DEFINE b == start_writing(start_reading(NoBev))
<1>1. /\ MakeTransport(Socks5, b, Proxies, 1) /\ call' = "none"
  BY DEF socks5_connect, Enter
<1>2. <<>> \in Seq(Part) /\ Size(<<>>) = 0
  BY DEF Size
<1>3. /\ b \in [reading : BOOLEAN, writing : BOOLEAN, input : Seq(Part),
                events : SUBSET ({"read", "write"} \cup EndKinds)]
      /\ b.input = <<>>
  BY <1>2 DEF start_writing, start_reading, NoBev
<1> HIDE DEF b
<1>4. /\ emitter' = Socks5 /\ bev' = b /\ peer' \in Proxies
      /\ peer' \in [sent : {<<>>}, wire : Seq(Part), later : Seq(Seq(Part)),
                    end : EndKinds \cup {"silent"}]
      /\ usage' \in [now : Count, before : Count]
      /\ usage'.now.down = usage'.before.down /\ usage'.now.up = usage'.before.up + 1
  BY <1>1, LinkMade
<1>5. UNCHANGED <<buff, http, parser, response>>
  BY DEF httpVars
<1>6. DataTyped' /\ Parsed'
  <2>1. peer' \in [sent : Seq(Part), wire : Seq(Part), later : Seq(Seq(Part)),
                   end : EndKinds \cup {"silent"}]
    BY <1>2, <1>4
  <2> QED
    BY <1>3, <1>4, <1>5, <2>1 DEF WholeInv, DataTyped, Parsed, ParsedAs
<1>7. Handled' /\ ~Flowing'
  BY <1>1, <1>4, <1>5 DEF Handled, Flowing, Socks5, LibeventEmitter, NoEmitter
<1>8. Turns(0)'
  <2>1. peer'.sent = <<>> /\ peer'.wire = <<>>
    BY <1>4, PeersTakeTurns
  <2>2. Size(peer'.sent) + Size(peer'.wire) <= 0
    BY <1>2, <2>1
  <2>3. ASSUME NEW i \in DOMAIN peer'.later
        PROVE  \/ i + 0 < 3 /\ Size(peer'.later[i]) = 1
               \/ i + 0 = 3 /\ OneResponse(peer'.later[i])
    <3>1. i \in Nat
      <4> DEFINE later == peer'.later
      <4>1. later \in Seq(Seq(Part)) /\ i \in DOMAIN later
        BY <1>4
      <4> HIDE DEF later
      <4> QED
        BY <4>1, LenProperties
    <3>2. \/ i < 3 /\ Len(peer'.later[i]) = 1
          \/ i = 3 /\ OneResponse(peer'.later[i])
      BY <1>4, <2>3, PeersTakeTurns
    <3> QED
      BY <3>1, <3>2 DEF Size
  <2> QED
    BY <2>2, <2>3 DEF Turns
<1>9. Asking'
  <2>1. emitter'.stage = "auth" /\ peer'.sent = bev'.input
    BY <1>3, <1>4 DEF Socks5, LibeventEmitter, NoEmitter
  <2> QED
    BY <1>4, <1>8, <2>1 DEF Asking
<1> QED
  BY <1>6, <1>7, <1>9 DEF WholeInv

LEMMA ConnectWhole ==
  ASSUME RequestInv, WholeInv, ConnectNext, UNCHANGED httpVars
  PROVE  WholeInv'
<1>1. CASE OnResolved
  <2>1. LookingUp /\ call = "resolved"
    BY <1>1, InPhase DEF OnResolved
  <2>2. UNCHANGED <<linkVars, buff>>
    BY <1>1 DEF OnResolved, ioVars, linkVars
  <2>3. call' \in {"connected", "connect_first_of"} /\ (call' = "connected" => arg' # "ok")
    BY <1>1 DEF OnResolved, Enter
  <2> QED
    BY <2>1, <2>2, <2>3, NoLinkWhole DEF LookingUp, NoTransport
<1>2. ASSUME connect_first_of \/ OnTcp \/ (\E err \in {"ok", "Sys", "Timeout"} : AttemptEnds(err))
               \/ (\E err \in {"ok", "Ssl", "Timeout"} : HandshakeEnds(err))
      PROVE  Trying /\ http.at = "connecting" /\ emitter = NoEmitter
  <2>1. Trying
    BY <1>2, InPhase DEF connect_first_of, OnTcp, AttemptEnds, HandshakeEnds
  <2> QED
    BY <2>1 DEF Trying, NoTransport
<1>3. CASE connect_first_of
  <2>1. UNCHANGED <<linkVars, buff>>
    BY <1>3 DEF connect_first_of, ioVars, linkVars
  <2>2. NoSuccess /\ call = "connect_first_of"
    BY <1>2, <1>3 DEF Trying, connect_first_of
  <2>3. AllFailed # "ok"
    BY <2>2 DEF AllFailed, NoSuccess, RequestInv, Typed
  <2>4. call' \in {"none", "connect_first_of", "connected"} /\ (call' = "connected" => arg' # "ok")
    <3>1. CASE attempt.index > Len(result.addresses)
      BY <1>3, <2>3, <3>1 DEF connect_first_of, Enter
    <3>2. CASE ~(attempt.index > Len(result.addresses))
      <4>1. connect_base
        BY <1>3, <3>2 DEF connect_first_of
      <4> QED
        BY <2>2, <4>1 DEF connect_base, Enter
    <3> QED
      BY <3>1, <3>2
  <2> QED
    BY <1>2, <1>3, <2>1, <2>4, NoLinkWhole
<1>4. CASE \E err \in {"ok", "Sys", "Timeout"} : AttemptEnds(err)
  <2>1. UNCHANGED <<linkVars, buff>> /\ call' \in {"tcp", "connect_first_of"}
    BY <1>4 DEF AttemptEnds, ioVars, linkVars, Enter
  <2> QED
    BY <1>2, <1>4, <2>1, NoLinkWhole
<1>5. CASE OnTcp
  <2>1. buff' = buff
    BY <1>5 DEF OnTcp
  <2>2. CASE socks5_connect
    BY <1>2, <1>5, <2>1, <2>2, SocksWhole
  <2>3. CASE Connected
    BY <1>2, <1>5, <2>1, <2>3, ConnectedWhole
  <2>4. CASE ~socks5_connect /\ ~Connected
    <3>1. UNCHANGED linkVars
      BY <1>5, <2>4 DEF OnTcp
    <3>2. call' \in {"none", "connected"} /\ (call' = "connected" => arg' # "ok")
      BY <1>5, <2>4 DEF OnTcp, FailedAndLeaked, FailedAndFreed, Enter
    <3> QED
      BY <1>2, <1>5, <2>1, <3>1, <3>2, NoLinkWhole
  <2> QED
    BY <2>2, <2>3, <2>4
<1>6. CASE \E err \in {"ok", "Ssl", "Timeout"} : HandshakeEnds(err)
  <2> PICK err \in {"ok", "Ssl", "Timeout"} : HandshakeEnds(err)
    BY <1>6
  <2>1. CASE err = "ok" /\ settings.ssl # "badShutdown"
    BY <1>2, <1>6, <2>1, ConnectedWhole DEF HandshakeEnds
  <2>2. CASE ~(err = "ok" /\ settings.ssl # "badShutdown")
    <3>1. UNCHANGED <<linkVars, buff>> /\ call' = "connected" /\ arg' # "ok"
      BY <2>2 DEF HandshakeEnds, FailedAndFreed, Enter
    <3> QED
      BY <1>2, <1>6, <3>1, NoLinkWhole
  <2> QED
    BY <2>1, <2>2
<1> QED
  BY <1>1, <1>3, <1>4, <1>5, <1>6 DEF ConnectNext

\* Where a step does not belong to the exchange, and leaves no transport.
LEMMA AsideWhole ==
  ASSUME DataTyped', Parsed', emitter' = NoEmitter, call' \in {"none", "resolved"},
         http'.at \in {"connecting", "done", "again"}
  PROVE  WholeInv'
<1>1. Handled' /\ ~Negotiating' /\ ~Flowing'
  BY DEF Handled, Negotiating, Flowing, NoEmitter
<1> QED
  BY <1>1 DEF WholeInv

LEMMA RequestWhole ==
  ASSUME RequestInv, WholeInv, request
  PROVE  WholeInv'
<1>1. NoTransport
  BY InPhase DEF request, InLoop, Resting, Closed
<1>2. UNCHANGED ioVars /\ call' \in {"none", "resolved"} /\ http'.at \in {"connecting", "done"}
  BY DEF request, request_connect_impl, CallBack, At, connect, resolve_hostname, Enter,
         RequestInv, Typed
<1>3. parser' = "start" /\ response' = <<>> /\ <<>> \in Seq(Part)
  BY DEF request
<1>4. DataTyped' /\ Parsed'
  BY <1>2, <1>3 DEF WholeInv, DataTyped, Parsed, ParsedAs, States, ioVars
<1> QED
  BY <1>1, <1>2, <1>4, AsideWhole DEF NoTransport, ioVars

\* The request is written on the transport that is there.
LEMMA OnConnectedWhole ==
  ASSUME RequestInv, WholeInv, OnConnected
  PROVE  WholeInv'
<1>1. /\ Told /\ http.at = "connecting" /\ call = "connected"
      /\ UNCHANGED <<parser, response>>
  BY InPhase DEF OnConnected, Told
<1>2. CASE arg # "ok"
  <2>1. /\ emitter' = NoEmitter /\ bev' = NoBev /\ peer' = NoPeer /\ buff' = <<>> /\ usage' = usage
        /\ call' = "none" /\ http'.at = "done"
    BY <1>2 DEF OnConnected, CallBack, At, RequestInv, Typed
  <2>2. <<>> \in Seq(Part) /\ <<>> \in Seq(Seq(Part))
    OBVIOUS
  <2>3. DataTyped' /\ Parsed'
    BY <1>1, <2>1, <2>2 DEF WholeInv, DataTyped, Parsed, ParsedAs, NoBev, NoPeer
  <2> QED
    BY <2>1, <2>3, AsideWhole
<1>3. CASE arg = "ok"
  <2>1. /\ emitter' = [emitter EXCEPT !.onFlush = "write", !.onError = "write"]
        /\ bev' = start_writing(bev) /\ CountUp(Layers)
        /\ http'.at = "sending" /\ call' = "none"
        /\ UNCHANGED <<peer, buff>>
    BY <1>3 DEF OnConnected, request_maybe_send, write, At, Enter, RequestInv, Typed
  <2>2. /\ emitter'.kind = emitter.kind /\ emitter'.stage = emitter.stage
        /\ emitter'.closing = emitter.closing /\ emitter'.suppressed_eof = emitter.suppressed_eof
        /\ emitter'.onData = emitter.onData
        /\ emitter'.onFlush = "write" /\ emitter'.onError = "write"
    BY <2>1 DEF RequestInv, Typed, NoEmitter
  <2>3. /\ bev' \in [reading : BOOLEAN, writing : BOOLEAN, input : Seq(Part),
                     events : SUBSET ({"read", "write"} \cup EndKinds)]
        /\ bev'.input = bev.input /\ bev'.reading = bev.reading /\ bev'.events = bev.events
    BY <2>1 DEF start_writing, WholeInv, DataTyped
  <2>4. Layers = IF emitter.kind = "socks5" THEN 2 ELSE 1
    BY DEF Layers
  <2>5. /\ usage' \in [now : Count, before : Count] /\ usage'.before = usage.before
        /\ usage'.now.up = usage.now.up + Layers /\ usage'.now.down = usage.now.down
    BY <2>1, <2>4, Counted DEF WholeInv
  <2>6. DataTyped' /\ Parsed'
    BY <1>1, <2>1, <2>3, <2>5 DEF WholeInv, DataTyped, Parsed, ParsedAs
  <2>7. Handled' /\ ~Negotiating'
    BY <1>1, <2>1, <2>2 DEF WholeInv, Handled, Negotiating
  <2>8. Flows
    BY <1>1, <1>3 DEF WholeInv, Flowing
  <2>9. Pending' = Pending /\ Served' = Served /\ EndOfData' = EndOfData
    BY <1>1, <2>1 DEF Pending, Served, EndOfData
  <2>10. usage.before.up \in Nat
    BY DEF WholeInv, DataTyped, Count
  <2>11. ASSUME emitter.kind = "libevent" PROVE Direct'
    <3>1. Direct
      BY <2>8, <2>11 DEF Flows
    <3>2. usage'.now.up = usage'.before.up + 1
      BY <1>1, <2>4, <2>5, <2>10, <2>11, <3>1 DEF Direct
    <3>3. tail' = tail
      BY <1>3 DEF OnConnected
    <3> QED
      BY <1>1, <2>1, <2>2, <2>3, <2>5, <2>9, <3>1, <3>2, <3>3 DEF Direct
  <2>12. ASSUME emitter.kind = "socks5" PROVE Relayed'
    <3>1. Relayed
      BY <2>8, <2>12 DEF Flows
    <3>2. usage'.now.up = usage'.before.up + 4
      BY <1>1, <2>4, <2>5, <2>10, <2>12, <3>1 DEF Relayed
    <3>3. Kept => Kept'
      BY <1>1, <2>3, <2>5, <2>9 DEF Kept
    <3>4. Lost => Lost'
      BY <1>1, <2>3, <2>9 DEF Lost
    <3> QED
      BY <1>1, <2>1, <2>2, <2>3, <2>9, <3>1, <3>2, <3>3, <3>4 DEF Relayed
  <2>13. Flows'
    BY <2>1, <2>2, <2>3, <2>8, <2>11, <2>12 DEF Flows
  <2> QED
    BY <2>6, <2>7, <2>13 DEF WholeInv
<1> QED
  BY <1>2, <1>3

\* The transport is closed, with or without an error of the exchange.
LEMMA CloseWhole ==
  ASSUME RequestInv, WholeInv, Exchanging, http.at # "closing", NEW err, CloseWith(err),
         UNCHANGED <<peer, buff, usage, parser, response>>
  PROVE  WholeInv'
<1>1. ~emitter.closing
  BY DEF WholeInv, Handled
<1>2. /\ http'.at = "closing"
      /\ emitter' = [emitter EXCEPT !.closing = TRUE, !.onFlush = "none", !.onError = "none"]
      /\ bev' = [bev EXCEPT !.events = {}] /\ call' = "none"
  BY <1>1 DEF CloseWith, close, Enter, RequestInv, Typed
<1>3. /\ emitter'.kind = emitter.kind /\ emitter'.closing /\ emitter'.onData = emitter.onData
      /\ emitter'.onFlush = "none" /\ emitter'.onError = "none"
  BY <1>2 DEF RequestInv, Typed, NoEmitter
<1>4. /\ bev' \in [reading : BOOLEAN, writing : BOOLEAN, input : Seq(Part),
                   events : SUBSET ({"read", "write"} \cup EndKinds)]
      /\ bev'.events = {}
  BY <1>2 DEF WholeInv, DataTyped
<1>5. DataTyped' /\ Parsed'
  BY <1>2, <1>4 DEF WholeInv, DataTyped, Parsed, ParsedAs
<1>6. Handled' /\ ~Negotiating' /\ ~Flowing'
  BY <1>2, <1>3, <1>4 DEF WholeInv, Handled, Negotiating, Flowing
<1> QED
  BY <1>5, <1>6 DEF WholeInv

\* A reader waits for (more of) the response.
LEMMA ReaderSet ==
  ASSUME RequestInv, WholeInv, read
  PROVE  /\ emitter'.kind = emitter.kind /\ emitter'.stage = emitter.stage
         /\ emitter'.closing = emitter.closing /\ emitter'.suppressed_eof = emitter.suppressed_eof
         /\ emitter'.onData = "readn" /\ emitter'.onFlush = emitter.onFlush /\ emitter'.onError = "readn"
         /\ bev' \in [reading : BOOLEAN, writing : BOOLEAN, input : Seq(Part),
                      events : SUBSET ({"read", "write"} \cup EndKinds)]
         /\ bev'.input = bev.input /\ bev'.writing = bev.writing /\ bev'.events = bev.events
<1>1. /\ emitter' = [emitter EXCEPT !.onData = "readn", !.onError = "readn"]
      /\ bev' = [bev EXCEPT !.reading = TRUE]
  BY DEF read, Reading, start_reading
<1> QED
  BY <1>1 DEF RequestInv, Typed, NoEmitter, WholeInv, DataTyped

LEMMA OnWrittenWhole ==
  ASSUME RequestInv, WholeInv, OnWritten
  PROVE  WholeInv'
<1>1. /\ Exchanging /\ call = "written" /\ http.at = "sending"
      /\ UNCHANGED <<peer, buff, tail, usage, parser, response>>
  <2>1. Exchanging /\ call = "written"
    BY InPhase DEF OnWritten
  <2> QED
    BY <2>1 DEF OnWritten, Exchanging, WholeInv, Handled
<1>2. CASE arg # "ok"
  BY <1>1, <1>2, CloseWhole DEF OnWritten
<1>3. CASE arg = "ok" /\ settings.ignore_body = "bad"
  BY <1>1, <1>3, CloseWhole DEF OnWritten, request_recv_response
<1>4. CASE arg = "ok" /\ settings.ignore_body # "bad"
  <2>1. read /\ http'.at = "receiving" /\ call' = "none"
    BY <1>4 DEF OnWritten, request_recv_response, At, Enter, RequestInv, Typed
  <2>2. /\ emitter'.kind = emitter.kind /\ emitter'.stage = emitter.stage
        /\ emitter'.closing = emitter.closing /\ emitter'.suppressed_eof = emitter.suppressed_eof
        /\ emitter'.onData = "readn" /\ emitter'.onFlush = emitter.onFlush /\ emitter'.onError = "readn"
        /\ bev' \in [reading : BOOLEAN, writing : BOOLEAN, input : Seq(Part),
                     events : SUBSET ({"read", "write"} \cup EndKinds)]
        /\ bev'.input = bev.input /\ bev'.writing = bev.writing /\ bev'.events = bev.events
    BY <2>1, ReaderSet
  <2>3. DataTyped' /\ Parsed'
    BY <1>1, <2>1, <2>2 DEF WholeInv, DataTyped, Parsed, ParsedAs
  <2>4. Handled' /\ ~Negotiating'
    BY <1>1, <2>1, <2>2 DEF WholeInv, Handled, Negotiating
  <2>5. Flows
    BY <1>1 DEF WholeInv, Flowing
  <2>6. Pending' = Pending /\ Served' = Served /\ EndOfData' = EndOfData
    BY <1>1, <2>1 DEF Pending, Served, EndOfData
  <2>7. Direct => Direct'
    BY <1>1, <2>1, <2>2, <2>6 DEF Direct
  <2>8. Kept => Kept'
    BY <1>1, <2>2, <2>6 DEF Kept
  <2>9. Lost => Lost'
    BY <1>1, <2>2, <2>6 DEF Lost
  <2>10. Relayed => Relayed'
    BY <1>1, <2>1, <2>2, <2>6, <2>8, <2>9 DEF Relayed
  <2>11. Flows'
    BY <2>1, <2>2, <2>5, <2>7, <2>10 DEF Flows
  <2> QED
    BY <2>3, <2>4, <2>11 DEF WholeInv
<1> QED
  BY <1>2, <1>3, <1>4

LEMMA WhileReading ==
  ASSUME RequestInv, WholeInv, call = "read"
  PROVE  /\ Exchanging /\ http.at = "receiving" /\ Flowing /\ Flows
         /\ emitter.onData = "none" /\ emitter.onFlush = "none" /\ emitter.onError = "none"
         /\ ~emitter.closing /\ emitter.kind \in {"libevent", "socks5"}
<1>1. Exchanging
  BY InPhase
<1>2. http.at = "receiving"
  BY <1>1 DEF Exchanging, WholeInv, Handled
<1> QED
  BY <1>1, <1>2 DEF Exchanging, WholeInv, Handled, Flowing

\* The parser is fed.
LEMMA OnDataWhole ==
  ASSUME RequestInv, WholeInv, OnData
  PROVE  WholeInv'
<1>1. /\ call = "read" /\ arg = "ok" /\ parser' = feed(buff) /\ response' = response \o buff
      /\ buff' = <<>> /\ UNCHANGED <<peer, tail, usage>>
  BY DEF OnData
<1>2. /\ Exchanging /\ http.at = "receiving" /\ Flowing /\ Flows
      /\ emitter.onData = "none" /\ emitter.onFlush = "none" /\ emitter.onError = "none"
      /\ ~emitter.closing /\ emitter.kind \in {"libevent", "socks5"}
  BY <1>1, WhileReading
<1>3. buff \in Seq(Part) /\ response \in Seq(Part) /\ ParsedAs(parser, response)
  BY DEF WholeInv, DataTyped, Parsed
<1>4. ParsedAs(parser', response')
  BY <1>1, <1>3, FeedParses
<1>5. response' \in Seq(Part) /\ <<>> \in Seq(Part) /\ response' \o <<>> = response'
  BY <1>1, <1>3, Concatenations
<1>6. Pending = buff /\ Served' = Served /\ EndOfData' = EndOfData
  BY <1>1 DEF Pending, Served, EndOfData
<1>7. /\ call' = "none"
      /\ \/ http'.at = "ended" /\ http'.err = "Parser" /\ UNCHANGED <<emitter, bev>>
         \/ http'.at = "ended" /\ parser' = "end" /\ UNCHANGED <<emitter, bev>>
         \/ read /\ http' = http
  <2>1. CASE parser' = "error"
    BY <2>1 DEF OnData, ReadEnds, Enter, RequestInv, Typed
  <2>2. CASE parser' = "end"
    BY <2>2 DEF OnData, ReadEnds, Enter, RequestInv, Typed
  <2>3. CASE parser' \notin {"error", "end"}
    BY <2>3 DEF OnData, Enter
  <2> QED
    BY <2>1, <2>2, <2>3
<1>8. /\ emitter'.kind = emitter.kind /\ emitter'.closing = emitter.closing
      /\ emitter'.suppressed_eof = emitter.suppressed_eof
      /\ emitter'.onFlush = emitter.onFlush /\ emitter'.onError \in {"none", "readn"}
      /\ bev' \in [reading : BOOLEAN, writing : BOOLEAN, input : Seq(Part),
                   events : SUBSET ({"read", "write"} \cup EndKinds)]
      /\ bev'.input = bev.input /\ bev'.writing = bev.writing /\ bev'.events = bev.events
      /\ \/ http'.at = "receiving" /\ emitter'.onData = "readn"
         \/ /\ http'.at = "ended" /\ emitter'.onData = "none" /\ emitter'.onError = "none"
            /\ bev'.reading = bev.reading
            /\ parser' = "end" \/ http'.err = "Parser"
  BY <1>2, <1>7, ReaderSet DEF WholeInv, DataTyped
<1>9. DataTyped'
  BY <1>1, <1>5, <1>8 DEF WholeInv, DataTyped
<1>10. Parsed'
  BY <1>4, <1>8 DEF Parsed
<1>11. Handled' /\ ~Negotiating'
  BY <1>2, <1>7, <1>8 DEF Handled, Negotiating
<1>12. ASSUME Flowing' PROVE Flows'
  <2>1. Pending' = <<>> /\ (response' \o Pending') = response \o Pending
    BY <1>1, <1>5, <1>6, <1>7 DEF Pending
  <2>2. http'.at = "ended" => parser' = "end"
    BY <1>8, <1>12 DEF Flowing
  <2>3. ASSUME emitter.kind = "libevent" PROVE Direct'
    <3>1. Direct
      BY <1>2, <2>3 DEF Flows
    <3> QED
      BY <1>1, <1>2, <1>6, <1>7, <1>8, <2>1, <3>1 DEF Direct
  <2>4. ASSUME emitter.kind = "socks5" PROVE Relayed'
    <3>1. Relayed
      BY <1>2, <2>4 DEF Flows
    <3>2. Kept => Kept'
      BY <1>1, <1>6, <1>8, <2>1 DEF Kept
    <3>3. ASSUME Lost PROVE Lost'
      <4>1. parser' \in {"start", "error"}
        BY <1>1, <1>3, <1>6, <3>3, FeedRefuses DEF Lost
      <4>2. NoHead(<<>>)
        BY DEF NoHead
      <4> QED
        BY <1>6, <1>8, <2>1, <3>3, <4>1, <4>2 DEF Lost
    <3>4. Kept' \/ Lost'
      BY <3>1, <3>2, <3>3 DEF Relayed
    <3> QED
      BY <1>1, <1>2, <1>6, <1>7, <1>8, <3>1, <3>4 DEF Relayed
  <2> QED
    BY <1>2, <1>8, <2>2, <2>3, <2>4 DEF Flows
<1> QED
  BY <1>9, <1>10, <1>11, <1>12 DEF WholeInv

\* Only the end of file can be good, and only to a message that it ends.
LEMMA OnReadErrorWhole ==
  ASSUME RequestInv, WholeInv, OnReadError
  PROVE  WholeInv'
<1>1. /\ call = "read" /\ arg # "ok" /\ call' = "none"
      /\ UNCHANGED <<peer, buff, tail, usage, parser, response, emitter, bev>>
      /\ http'.at = "ended"
      /\ http'.err = "ok" => arg = "Eof" /\ parser = "untilEof"
  BY DEF OnReadError, ReadEnds, Enter, RequestInv, Typed, valid_response, eof
<1>2. /\ Exchanging /\ http.at = "receiving" /\ Flowing /\ Flows
      /\ emitter.onData = "none" /\ emitter.onFlush = "none" /\ emitter.onError = "none"
      /\ ~emitter.closing /\ emitter.kind \in {"libevent", "socks5"}
  BY <1>1, WhileReading
<1>3. DataTyped' /\ Parsed'
  BY <1>1 DEF WholeInv, DataTyped, Parsed, ParsedAs
<1>4. Handled' /\ ~Negotiating'
  BY <1>1, <1>2 DEF Handled, Negotiating
<1>5. ASSUME Flowing' PROVE Flows'
  <2>1. arg = "Eof" /\ parser = "untilEof"
    BY <1>1, <1>5 DEF Flowing
  <2>2. emitter.kind = "libevent" /\ Direct
    BY <1>1, <1>2 DEF Flows, Relayed
  <2>3. EndOfData /\ EndOfData'
    BY <1>1, <2>1, <2>2 DEF Direct, EndOfData
  <2>4. Pending = <<>> /\ Pending' = <<>>
    BY <1>1 DEF Pending
  <2>5. Direct'
    BY <1>1, <1>2, <2>2, <2>3, <2>4 DEF Direct
  <2> QED
    BY <1>1, <1>2, <2>1, <2>2, <2>3, <2>5 DEF Flows
<1> QED
  BY <1>3, <1>4, <1>5 DEF WholeInv

LEMMA HttpWhole ==
  ASSUME RequestInv, WholeInv, HttpNext
  PROVE  WholeInv'
<1>1. CASE EndOfClosure
  <2>1. http.at = "ended" /\ call = "none"
    BY <1>1 DEF EndOfClosure, InLoop
  <2>2. Exchanging
    BY <2>1, InPhase
  <2> QED
    BY <1>1, <2>1, <2>2, CloseWhole DEF EndOfClosure
<1>2. CASE OnClosed
  <2>1. Closed /\ UNCHANGED <<ioVars, parser, response>>
    BY <1>2, InPhase DEF OnClosed, below
  <2>2. http'.at \in {"done", "again"} /\ call' = "none"
    BY <1>2 DEF OnClosed, FollowRedirect, CallBack, At, Enter, RequestInv, Typed
  <2>3. DataTyped' /\ Parsed'
    BY <2>1, <2>2 DEF WholeInv, DataTyped, Parsed, ParsedAs, ioVars
  <2> QED
    BY <2>1, <2>2, <2>3, AsideWhole DEF Closed, NoTransport, ioVars
<1> QED
  BY <1>1, <1>2, RequestWhole, OnConnectedWhole, OnWrittenWhole, OnDataWhole, OnReadErrorWhole DEF HttpNext

LEMMA StepWhole == RequestInv /\ WholeInv /\ [Next]_vars => WholeInv'
<1> SUFFICES ASSUME RequestInv, WholeInv, [Next]_vars PROVE WholeInv'
  OBVIOUS
<1>1. CASE RequestSteps(RequestNext)
  BY <1>1, DnsWhole, TransportWhole, ConnectWhole, HttpWhole DEF RequestSteps, RequestNext
<1>2. CASE UNCHANGED requestVars
  <2>1. /\ UNCHANGED <<settings, call, arg, query, emitter, bev, peer, buff, tail, usage, live>>
        /\ UNCHANGED <<attempt, leaked, http, parser, response, outcome>>
    BY <1>2 DEF requestVars, dnsVars, ioVars, connectVars, httpVars
  <2>2. DataTyped' /\ Handled' /\ Parsed'
    BY <2>1 DEF WholeInv, DataTyped, Handled, Parsed, ParsedAs
  <2>3. Negotiating' => Asking'
    BY <2>1 DEF WholeInv, Negotiating, NoQueryRuns, NotTrying, OneHeld, Asking, Turns
  <2>4. Flowing' => Flowing /\ Flows
    BY <2>1 DEF WholeInv, Flowing
  <2>5. Pending' = Pending /\ Served' = Served /\ EndOfData' = EndOfData
    BY <2>1 DEF Pending, Served, EndOfData
  <2>6. Direct => Direct'
    BY <2>1, <2>5 DEF Direct
  <2>7. (Kept => Kept') /\ (Lost => Lost')
    BY <2>1, <2>5 DEF Kept, Lost
  <2>8. Relayed => Relayed'
    BY <2>1, <2>5, <2>7 DEF Relayed
  <2>9. Flows => Flows'
    BY <2>1, <2>5, <2>6, <2>8 DEF Flows
  <2> QED
    BY <2>2, <2>3, <2>4, <2>9 DEF WholeInv
<1> QED
  BY <1>1, <1>2 DEF Next, Over, vars

\* What was received, or handed over, or is lost, adds up at each moment of a
\* request to what the peer has sent.
THEOREM WholeInvariant == Spec => []WholeInv
<1>1. RequestInv /\ WholeInv /\ [Next]_vars => WholeInv'
  BY StepWhole
<1> QED
  BY <1>1, InitWhole, RequestInvariant, PTL DEF Spec

LEMMA WholeAtTheEnd == RequestInv /\ WholeInv => ResponseWhole
<1> SUFFICES ASSUME RequestInv, WholeInv, http.at = "ended", http.err = "ok"
             PROVE  /\ response = Content(peer.sent)
                    /\ parser \in {"end", "untilEof"}
                    /\ parser = "untilEof" => peer.wire = <<>> /\ peer.end = "Eof"
                    /\ LET dialogue == Len(peer.sent) - Len(response)
                       IN /\ usage.now.down = usage.before.down + dialogue + Layers * Len(response)
                          /\ usage.now.up = usage.before.up + dialogue + Layers
  BY DEF ResponseWhole
<1>1. Flows /\ emitter.onData = "none" /\ emitter.kind \in {"libevent", "socks5"} /\ Pending = <<>>
  <2>1. Exchanging \/ Closed
    BY DEF RequestInv, Phases, Resting, LookingUp, Trying, Negotiating, Told, Exchanging, Closed
  <2>2. Exchanging
    BY <2>1 DEF Closed, WholeInv, Handled
  <2> QED
    BY <2>2 DEF Exchanging, WholeInv, Handled, Flowing, Pending
<1>2. /\ response \in Seq(Part) /\ bev.input \in Seq(Part) /\ peer.sent \in Seq(Part) /\ peer.wire \in Seq(Part)
      /\ usage.before.down \in Nat /\ usage.before.up \in Nat
  BY DEF WholeInv, DataTyped, Count
<1>3. \A s \in Seq(Part) : s \o <<>> = s
  BY Concatenations
<1>4. /\ Len(response) = Size(response) /\ Size(response) \in Nat
      /\ Len(peer.sent) = Size(peer.sent) /\ Size(peer.sent) \in Nat /\ Size(<<>>) = 0
  BY <1>2, Sizes DEF Size
<1>5. /\ parser \in {"end", "untilEof"}
      /\ parser = "untilEof" => peer.wire = <<>> /\ peer.end = "Eof"
  BY <1>1 DEF Flows, EndOfData
<1>6. CASE emitter.kind = "libevent"
  <2>1. Direct /\ bev.input = <<>>
    BY <1>1, <1>6 DEF Flows, Direct
  <2>2. response = peer.sent
    BY <1>1, <1>2, <1>3, <2>1 DEF Direct
  <2>3. Layers = 1 /\ Content(peer.sent) = peer.sent
    BY <1>6 DEF Layers, Content
  <2>4. Size(peer.sent) - Size(response) = 0 /\ 1 * Size(response) = Size(response)
    BY <1>4, <2>2
  <2>5. usage.now.down = usage.before.down + Size(response)
    <3>1. usage.now.down = usage.before.down + Size(peer.sent) - Size(bev.input)
      BY <2>1 DEF Direct
    <3>2. usage.now.down = usage.before.down + Size(response) - 0
      BY <1>4, <2>1, <2>2, <3>1
    <3> QED
      BY <1>2, <1>4, <3>2
  <2>6. usage.now.up = usage.before.up + 1
    BY <2>1 DEF Direct
  <2>7. /\ usage.now.down = usage.before.down + 0 + 1 * Size(response)
        /\ usage.now.up = usage.before.up + 0 + 1
    BY <1>2, <1>4, <2>5, <2>6
  <2> QED
    BY <1>4, <1>5, <2>2, <2>3, <2>4, <2>7
<1>7. CASE emitter.kind = "socks5"
  <2>1. Relayed /\ parser = "end"
    BY <1>1, <1>7 DEF Flows
  <2>2. Kept
    BY <2>1 DEF Relayed, Lost
  <2>3. Served = response \o bev.input
    BY <1>1, <1>2, <1>3, <2>2 DEF Kept
  <2>4. bev.input = <<>>
    <3>1. ParsedAs("end", response)
      BY <2>1 DEF WholeInv, Parsed
    <3>2. OneResponse((response \o bev.input) \o peer.wire)
      BY <2>1, <2>3 DEF Relayed
    <3> QED
      BY <1>2, <3>1, <3>2, Complete
  <2>5. Served = response
    BY <1>2, <1>3, <2>3, <2>4
  <2>6. Content(peer.sent) = Served /\ Layers = 2
    BY <1>7 DEF Content, Served, Layers
  <2>7. Size(response) = Size(peer.sent) - 2
    BY <2>1, <2>5, ServedTyped DEF WholeInv, Relayed
  <2>8. Size(peer.sent) - Size(response) = 2
    BY <1>4, <2>7
  <2>9. usage.now.down = usage.before.down + 2 + 2 * Size(response)
    <3>1. usage.now.down = usage.before.down + 2 + 2 * (Size(Served) - Size(bev.input))
      BY <2>2 DEF Kept
    <3>2. usage.now.down = usage.before.down + 2 + 2 * (Size(response) - 0)
      BY <1>4, <2>4, <2>5, <3>1
    <3> QED
      BY <1>2, <1>4, <3>2
  <2>10. usage.now.up = usage.before.up + 2 + 2
    BY <1>2, <2>1 DEF Relayed
  <2> QED
    BY <1>4, <1>5, <2>5, <2>6, <2>8, <2>9, <2>10
<1> QED
  BY <1>1, <1>6, <1>7

\* A response that is passed up as valid holds all that the server sent for it,
\* in order, and the data usage has grown by what went over the connection.
THEOREM ResponsesAreWhole == Spec => []ResponseWhole
  BY RequestInvariant, WholeInvariant, WholeAtTheEnd, PTL

-----------------------------------------------------------------------------
(* Sequences that are read piece by piece.                                 *)

LEMMA SmallestNumber ==
  ASSUME NEW S, S \subseteq Nat, S # {}
  PROVE  \E i \in S : \A j \in S : i <= j
<1>1. PICK i \in S : \A j \in S : ~ (<<j, i>> \in OpToRel(<, Nat))
  BY NatLessThanWellFounded, WFMin
<1>2. \A j \in S : ~ (j < i)
  BY <1>1 DEF OpToRel
<1> QED
  BY <1>2

\* A function that is defined step by step.
GoesOn(f, V, n, a, step) ==
  f \in [0 .. n -> V] /\ f[0] = a /\ \A i \in 1 .. n : f[i] = step[i][f[i - 1]]

LEMMA StepByStep ==
  ASSUME NEW n \in Nat, NEW V, NEW a \in V, NEW step \in [1 .. n -> [V -> V]]
  PROVE  \E f : GoesOn(f, V, n, a, step)
<1> DEFINE goes(g, m) ==
             g \in [0 .. m -> V] /\ \A i \in 0 .. m : g[i] = IF i = 0 THEN a ELSE step[i][g[i - 1]]
           good == {m \in 0 .. n : \E g : goes(g, m)}
<1>1. 0 \in good
  <2>1. goes([i \in 0 .. 0 |-> a], 0)
    OBVIOUS
  <2> HIDE DEF goes
  <2> QED
    BY <2>1
<1> HIDE DEF goes
<1>2. \A m \in 1 .. n : m - 1 \in good => m \in good
  <2> SUFFICES ASSUME NEW m \in 1 .. n, m - 1 \in good
               PROVE  \E g : goes(g, m)
    OBVIOUS
  <2>1. PICK g : goes(g, m - 1)
    OBVIOUS
  <2> USE DEF goes
  <2> DEFINE h == [i \in 0 .. m |-> IF i < m THEN g[i] ELSE step[m][g[m - 1]]]
  <2>0. step[m][g[m - 1]] \in V
    <3>1. m - 1 \in 0 .. m - 1
      OBVIOUS
    <3>2. g[m - 1] \in V
      BY <2>1, <3>1
    <3> QED
      BY <3>2
  <2>2. h \in [0 .. m -> V]
    BY <2>0, <2>1
  <2>3. \A i \in 0 .. m : h[i] = IF i = 0 THEN a ELSE step[i][h[i - 1]]
    <3> SUFFICES ASSUME NEW i \in 0 .. m
                 PROVE  h[i] = IF i = 0 THEN a ELSE step[i][h[i - 1]]
      OBVIOUS
    <3>1. CASE i < m
      BY <3>1, <2>1
    <3>2. CASE i = m
      <4>1. h[m] = step[m][g[m - 1]] /\ h[m - 1] = g[m - 1]
        OBVIOUS
      <4> HIDE DEF h
      <4> QED
        BY <3>2, <4>1
    <3> QED
      BY <3>1, <3>2
  <2> HIDE DEF h
  <2> QED
    BY <2>2, <2>3
<1>3. PICK f : goes(f, n)
  <2>1. 0 .. n \subseteq good
    <3> HIDE DEF good
    <3> QED
      BY <1>1, <1>2, Reached
  <2> QED
    BY <2>1
<1>4. f \in [0 .. n -> V] /\ f[0] = a /\ \A i \in 1 .. n : f[i] = step[i][f[i - 1]]
  BY <1>3 DEF goes
<1> QED
  BY <1>4 DEF GoesOn

LEMMA Associative == \A T : \A x, y, z \in Seq(T) : x \o (y \o z) = (x \o y) \o z
BY ConcatAssociative

LEMMA Joined ==
  ASSUME NEW T, NEW x \in Seq(T), NEW y \in Seq(T)
  PROVE  x \o y \in Seq(T)
BY ConcatProperties

LEMMA NotEmpty == \A s : Len(s) # 0 => s # <<>>
OBVIOUS

LEMMA LengthIsNat ==
  ASSUME NEW T, NEW s \in Seq(T)
  PROVE  Len(s) \in Nat
OBVIOUS

LEMMA Lengths ==
  ASSUME NEW T, NEW x \in Seq(T), NEW y \in Seq(T)
  PROVE  Len(x \o y) = Len(x) + Len(y) /\ Len(x) \in Nat /\ Len(y) \in Nat
BY ConcatProperties

\* Two sequences of one kind.
Pair(T, x, y) == x \in Seq(T) /\ y \in Seq(T)

LEMMA Both ==
  ASSUME NEW T, NEW x, NEW y, Pair(T, x, y)
  PROVE  /\ x \o y \in Seq(T) /\ Len(x \o y) = Len(x) + Len(y)
         /\ \A i \in 1 .. Len(x) + Len(y) :
              (x \o y)[i] = IF i <= Len(x) THEN x[i] ELSE y[i - Len(x)]
BY ConcatProperties DEF Pair

LEMMA AssociativeIn ==
  ASSUME NEW T, NEW Q, Q = Seq(T)
  PROVE  \A x, y, z \in Q : x \o (y \o z) = (x \o y) \o z
BY Associative

LEMMA Flattened ==
  ASSUME NEW T, NEW ss \in Seq(Seq(T))
  PROVE  \E f \in [0 .. Len(ss) -> Seq(T)] :
           /\ f[0] = <<>> /\ \A i \in 1 .. Len(ss) : f[i] = f[i - 1] \o ss[i]
           /\ FlattenSeq(ss) = f[Len(ss)]
<1> DEFINE n == Len(ss)
           Q == Seq(T)
           step == [i \in 1 .. n |-> [x \in Q |-> x \o ss[i]]]
           goes(g) == g = [i \in 1 .. n |-> IF i = 1 THEN ss[i] ELSE g[i - 1] \o ss[i]]
<1>1. n \in Nat /\ (n = 0 => ss = <<>>) /\ \A i \in 1 .. n : ss[i] \in Q
  BY EmptySeq, ElementOfSeq
<1>2. <<>> \in Q /\ \A x, y \in Q : x \o y \in Q
  BY ConcatProperties
<1>10. \A x \in Q : <<>> \o x = x
  BY ConcatEmptySeq
<1>11. FlattenSeq(ss) = IF n = 0 THEN ss ELSE (CHOOSE h : goes(h))[n]
  BY DEF FlattenSeq
<1> SUFFICES \E f \in [0 .. n -> Q] :
           /\ f[0] = <<>> /\ \A i \in 1 .. n : f[i] = f[i - 1] \o ss[i]
           /\ FlattenSeq(ss) = f[n]
  OBVIOUS
<1> HIDE DEF n, Q
<1>3. step \in [1 .. n -> [Q -> Q]] /\ \A x \in Q, i \in 1 .. n : step[i][x] = x \o ss[i]
  BY <1>1, <1>2
<1> HIDE DEF step
<1>6. PICK f \in [0 .. n -> Q] : f[0] = <<>> /\ \A i \in 1 .. n : f[i] = step[i][f[i - 1]]
  <2> DEFINE none == <<>>
  <2>1. none \in Q /\ \A f : f[0] = none <=> f[0] = <<>>
    BY <1>2
  <2> HIDE DEF none
  <2>4. n \in Nat /\ none \in Q /\ step \in [1 .. n -> [Q -> Q]]
    BY <1>1, <1>3, <2>1
  <2>2. PICK f : GoesOn(f, Q, n, none, step)
    BY <2>4, StepByStep
  <2> QED
    BY <2>1, <2>2 DEF GoesOn
<1>7. \A i \in 1 .. n : f[i] = f[i - 1] \o ss[i]
  <2> TAKE i \in 1 .. n
  <2>1. f[i - 1] \in Q
    BY <1>1
  <2> QED
    BY <1>3, <1>6, <2>1
<1>8. CASE n = 0
  BY <1>1, <1>6, <1>7, <1>8, <1>11
<1>9. CASE n # 0
  <2> DEFINE g == [i \in 1 .. n |-> f[i]]
             h == CHOOSE h : goes(h)
  <2>1. goes(g)
    <3>1. f[1] = ss[1]
      <4>1. 1 \in 1 .. n /\ 1 - 1 = 0
        BY <1>1, <1>9
      <4>2. f[1] = <<>> \o ss[1]
        BY <1>6, <1>7, <4>1
      <4> QED
        BY <1>1, <1>10, <4>1, <4>2
    <3>2. ASSUME NEW i \in 1 .. n, i # 1 PROVE g[i] = g[i - 1] \o ss[i]
      <4>1. i - 1 \in 1 .. n
        BY <1>1, <3>2
      <4> QED
        BY <1>7, <4>1
    <3>3. \A i \in 1 .. n : g[i] = IF i = 1 THEN ss[i] ELSE g[i - 1] \o ss[i]
      BY <3>1, <3>2, Zenon
    <3> QED
      BY <3>3
  <2>2. goes(h)
    BY <2>1, Zenon
  <2>3. FlattenSeq(ss) = h[n]
    BY <1>9, <1>11
  <2>6. g[1] = ss[1] /\ \A i \in 1 .. n : g[i] = f[i]
    BY <2>1, <1>1, <1>9
  <2> HIDE DEF g, h
  <2> DEFINE same == {i \in 0 .. n : i # 0 => h[i] = g[i]}
  <2>7. 0 \in same
    BY <1>1
  <2>8. ASSUME NEW i \in 1 .. n, i - 1 \in same PROVE i \in same
    <3>1. h[i] = (IF i = 1 THEN ss[i] ELSE h[i - 1] \o ss[i])
          /\ g[i] = (IF i = 1 THEN ss[i] ELSE g[i - 1] \o ss[i])
      BY <2>1, <2>2
    <3>2. i # 1 => h[i - 1] = g[i - 1]
      BY <2>8
    <3> QED
      BY <3>1, <3>2
  <2> HIDE DEF same
  <2>9. 0 .. n \subseteq same
    BY <1>1, <2>7, <2>8, Reached
  <2>10. n \in 0 .. n /\ n \in 1 .. n
    BY <1>1, <1>9
  <2>5. h[n] = g[n] /\ g[n] = f[n]
    BY <1>9, <2>6, <2>9, <2>10 DEF same
  <2> QED
    BY <1>6, <1>7, <2>3, <2>5
<1> QED
  BY <1>8, <1>9

\* It is the only such function.
LEMMA FlattenIs ==
  ASSUME NEW T, NEW ss \in Seq(Seq(T)), NEW g, g[0] = <<>>,
         \A i \in 1 .. Len(ss) : g[i] = g[i - 1] \o ss[i]
  PROVE  FlattenSeq(ss) = g[Len(ss)] /\ FlattenSeq(ss) \in Seq(T)
<1>1. PICK f \in [0 .. Len(ss) -> Seq(T)] :
           /\ f[0] = <<>> /\ \A i \in 1 .. Len(ss) : f[i] = f[i - 1] \o ss[i]
           /\ FlattenSeq(ss) = f[Len(ss)]
  BY Flattened
<1> DEFINE n == Len(ss)
           same == {i \in 0 .. n : f[i] = g[i]}
<1>2. n \in Nat
  OBVIOUS
<1>6. \A i \in 1 .. n : f[i] = f[i - 1] \o ss[i] /\ g[i] = g[i - 1] \o ss[i]
  BY <1>1
<1> HIDE DEF n
<1>3. 0 \in same
  BY <1>1, <1>2
<1>4. ASSUME NEW i \in 1 .. n, i - 1 \in same PROVE i \in same
  <2>1. f[i - 1] = g[i - 1]
    BY <1>4
  <2>2. f[i] = g[i]
    BY <1>6, <2>1
  <2> QED
    BY <1>2, <2>2
<1> HIDE DEF same
<1>5. 0 .. n \subseteq same
  BY <1>2, <1>3, <1>4, Reached
<1>7. f[n] = g[n]
  BY <1>2, <1>5 DEF same
<1>8. f[n] \in Seq(T)
  BY <1>1, <1>2 DEF n
<1> QED
  BY <1>1, <1>7, <1>8 DEF n

LEMMA FlattenIn ==
  ASSUME NEW T, NEW ss \in Seq(Seq(T))
  PROVE  FlattenSeq(ss) \in Seq(T)
<1> DEFINE Q == Seq(T)
<1>1. PICK f \in [0 .. Len(ss) -> Q] : FlattenSeq(ss) = f[Len(ss)]
  BY Flattened
<1>2. Len(ss) \in 0 .. Len(ss)
  OBVIOUS
<1> HIDE DEF Q
<1>3. f[Len(ss)] \in Q
  BY <1>2
<1> QED
  BY <1>1, <1>3 DEF Q

LEMMA FlattenFirst ==
  ASSUME NEW T, NEW ss \in Seq(Seq(T)), ss # <<>>
  PROVE  FlattenSeq(ss) = ss[1] \o FlattenSeq(Tail(ss)) /\ FlattenSeq(Tail(ss)) \in Seq(T)
<1> DEFINE n == Len(ss)
           Q == Seq(T)
           behind == Tail(ss)
<1>1. n \in Nat /\ n # 0 /\ \A i \in 1 .. n : ss[i] \in Q
  BY EmptySeq, ElementOfSeq
<1>2. behind \in Seq(Q) /\ Len(behind) = n - 1 /\ \A i \in 1 .. n - 1 : behind[i] = ss[i + 1]
  BY HeadTailProperties
<1>3. PICK f \in [0 .. n - 1 -> Q] :
           /\ f[0] = <<>> /\ \A i \in 1 .. n - 1 : f[i] = f[i - 1] \o behind[i]
           /\ FlattenSeq(behind) = f[n - 1]
  <2> HIDE DEF behind, n
  <2>1. PICK f \in [0 .. Len(behind) -> Q] :
           /\ f[0] = <<>> /\ \A i \in 1 .. Len(behind) : f[i] = f[i - 1] \o behind[i]
           /\ FlattenSeq(behind) = f[Len(behind)]
    BY <1>2, Flattened
  <2> QED
    BY <1>2, <2>1
<1>8. \A x \in Q : <<>> \o x = x /\ x \o <<>> = x
  BY ConcatEmptySeq
<1>9. \A x, y, z \in Q : x \o (y \o z) = (x \o y) \o z
  <2>1. Q = Seq(T)
    OBVIOUS
  <2> HIDE DEF Q
  <2> QED
    BY <2>1, AssociativeIn, SMTT(30)
<1> SUFFICES FlattenSeq(ss) = ss[1] \o FlattenSeq(behind) /\ FlattenSeq(behind) \in Q
  OBVIOUS
<1> DEFINE g == [i \in 0 .. n |-> IF i = 0 THEN <<>> ELSE ss[1] \o f[i - 1]]
<1>10. (\A i \in 1 .. n : g[i] = g[i - 1] \o ss[i]) /\ g[0] = <<>> => FlattenSeq(ss) = g[n]
  <2> HIDE DEF g
  <2> QED
    BY FlattenIs
<1> HIDE DEF n, Q, behind
<1>4. g[0] = <<>>
  BY <1>1
<1>5. ASSUME NEW i \in 1 .. n PROVE g[i] = g[i - 1] \o ss[i]
  <2>1. g[i] = ss[1] \o f[i - 1] /\ ss[1] \in Q /\ ss[i] \in Q /\ f[i - 1] \in Q
    <3>1. 1 \in 1 .. n /\ i - 1 \in 0 .. n - 1 /\ i \in 0 .. n /\ i # 0
      BY <1>1
    <3> QED
      BY <1>1, <3>1
  <2>2. CASE i = 1
    <3>1. g[i - 1] = <<>> /\ f[i - 1] = <<>>
      BY <1>1, <1>3, <2>2
    <3> QED
      BY <1>8, <2>1, <2>2, <3>1
  <2>3. CASE i # 1
    <3>1. i - 1 \in 1 .. n - 1 /\ i - 2 \in 0 .. n - 1 /\ (i - 1) - 1 = i - 2 /\ (i - 1) + 1 = i
          /\ i - 1 # 0 /\ i - 1 \in 0 .. n
      BY <1>1, <2>3
    <3>2. f[i - 1] = f[i - 2] \o ss[i] /\ f[i - 2] \in Q
      BY <1>2, <1>3, <3>1
    <3>3. g[i - 1] = ss[1] \o f[i - 2]
      BY <3>1
    <3> HIDE DEF g
    <3>4. ss[1] \o (f[i - 2] \o ss[i]) = (ss[1] \o f[i - 2]) \o ss[i]
      BY <1>9, <2>1, <3>2
    <3> QED
      BY <2>1, <3>2, <3>3, <3>4
  <2> QED
    BY <2>2, <2>3
<1>6. g[n] = ss[1] \o f[n - 1] /\ f[n - 1] \in Q
  <2>1. n \in 0 .. n /\ n - 1 \in 0 .. n - 1
    BY <1>1
  <2> QED
    BY <1>1, <2>1
<1> HIDE DEF g
<1> QED
  BY <1>3, <1>4, <1>5, <1>6, <1>10

LEMMA FlattenLast ==
  ASSUME NEW T, NEW ss \in Seq(Seq(T)), NEW s \in Seq(T)
  PROVE  FlattenSeq(Append(ss, s)) = FlattenSeq(ss) \o s /\ FlattenSeq(ss) \in Seq(T)
<1> DEFINE n == Len(ss)
           Q == Seq(T)
           more == Append(ss, s)
<1>1. n \in Nat /\ s \in Q /\ \A i \in 1 .. n : ss[i] \in Q
  BY ElementOfSeq
<1>2. /\ more \in Seq(Q) /\ Len(more) = n + 1 /\ more[n + 1] = s
      /\ \A i \in 1 .. n : more[i] = ss[i]
  BY AppendProperties
<1>3. PICK f \in [0 .. n -> Q] :
           /\ f[0] = <<>> /\ \A i \in 1 .. n : f[i] = f[i - 1] \o ss[i]
           /\ FlattenSeq(ss) = f[n]
  BY Flattened
<1> SUFFICES FlattenSeq(more) = FlattenSeq(ss) \o s /\ FlattenSeq(ss) \in Q
  OBVIOUS
<1> DEFINE g == [i \in 0 .. n + 1 |-> IF i <= n THEN f[i] ELSE f[n] \o s]
<1>7. (\A i \in 1 .. n + 1 : g[i] = g[i - 1] \o more[i]) /\ g[0] = <<>> => FlattenSeq(more) = g[n + 1]
  <2> HIDE DEF g, n, more
  <2> QED
    BY <1>2, FlattenIs
<1> HIDE DEF n, more, Q
<1>4. g[0] = <<>> /\ g[n + 1] = f[n] \o s /\ f[n] \in Q
  BY <1>1, <1>3
<1>5. ASSUME NEW i \in 1 .. n + 1 PROVE g[i] = g[i - 1] \o more[i]
  <2>1. CASE i <= n
    <3>1. i \in 1 .. n /\ i - 1 \in 0 .. n + 1 /\ i - 1 <= n /\ i \in 0 .. n + 1
      BY <1>1, <2>1
    <3>2. g[i] = f[i] /\ g[i - 1] = f[i - 1]
      BY <3>1
    <3> HIDE DEF g
    <3> QED
      BY <1>2, <1>3, <3>1, <3>2
  <2>2. CASE i = n + 1
    <3>1. i - 1 = n /\ n \in 0 .. n + 1 /\ i \in 0 .. n + 1 /\ ~(i <= n)
      BY <1>1, <2>2
    <3>2. g[i] = f[n] \o s /\ g[i - 1] = f[n]
      BY <3>1
    <3>3. more[i] = s
      BY <1>2, <2>2
    <3> HIDE DEF g
    <3> QED
      BY <3>2, <3>3, Zenon
  <2>3. i <= n \/ i = n + 1
    BY <1>1
  <2> QED
    BY <2>1, <2>2, <2>3, Zenon
<1> HIDE DEF g
<1> QED
  BY <1>3, <1>4, <1>5, <1>7

LEMMA FlattenNone == FlattenSeq(<<>>) = <<>>
BY DEF FlattenSeq

\* What the operations of Buffer return, when what there is to read begins with h
\* and all of h has arrived.
HasArrived(T, b, w, h, x) ==
  /\ b \in Seq(T) /\ w \in Seq(T) /\ h \in Seq(T) /\ x \in Seq(T)
  /\ b \o w = h \o x /\ Len(b) >= Len(h)

LEMMA Taken ==
  ASSUME NEW T, NEW b, NEW w, NEW h, NEW x, HasArrived(T, b, w, h, x)
  PROVE  /\ readpeek(b, Len(h)) = h /\ readn(b, Len(h)) = h
         /\ discard(b, Len(h)) \in Seq(T) /\ discard(b, Len(h)) \o w = x
<1> DEFINE k == Len(h)
           n == Len(b)
           rest == SubSeq(b, k + 1, n)
           first == SubSeq(b, 1, k)
           all == b \o w
           after == rest \o w
<1>0. /\ b \in Seq(T) /\ w \in Seq(T) /\ h \in Seq(T) /\ x \in Seq(T)
      /\ b \o w = h \o x /\ Len(b) >= Len(h)
  BY DEF HasArrived
<1>1. k \in Nat /\ n \in Nat /\ Len(w) \in Nat /\ Len(x) \in Nat /\ k <= n
  BY <1>0
<1>2. /\ Len(all) = n + Len(w) /\ Len(all) = k + Len(x)
      /\ \A i \in 1 .. n + Len(w) : all[i] = IF i <= n THEN b[i] ELSE w[i - n]
      /\ \A i \in 1 .. k + Len(x) : all[i] = IF i <= k THEN h[i] ELSE x[i - k]
  BY <1>0, ConcatProperties
<1>3. /\ rest \in Seq(T) /\ Len(rest) = n - k /\ \A i \in 1 .. n - k : rest[i] = b[k + i]
      /\ first \in Seq(T) /\ Len(first) = k
      /\ \A i \in 1 .. k : first[i] = b[i]
  BY <1>0, <1>1
<1>4. /\ after \in Seq(T) /\ Len(after) = Len(rest) + Len(w)
      /\ \A i \in 1 .. Len(rest) + Len(w) :
           after[i] = IF i <= Len(rest) THEN rest[i] ELSE w[i - Len(rest)]
  <2> DEFINE a == rest
             lr == Len(a)
  <2> HIDE DEF rest, k, n
  <2>1. a \in Seq(T) /\ after = a \o w
    BY <1>3
  <2>2. /\ a \o w \in Seq(T) /\ Len(a \o w) = Len(a) + Len(w)
        /\ \A i \in 1 .. Len(a) + Len(w) : (a \o w)[i] = IF i <= Len(a) THEN a[i] ELSE w[i - Len(a)]
    <3> HIDE DEF a
    <3> QED
      BY <1>0, <2>1, ConcatProperties
  <2> QED
    BY <2>2
<1>5. (\A i \in 1 .. k : first[i] = h[i]) => first = h
  <2> HIDE DEF first
  <2> QED
    BY <1>0, <1>3, SeqEqual
<1>6. Len(after) = Len(x) /\ (\A i \in 1 .. Len(x) : after[i] = x[i]) => after = x
  <2> HIDE DEF after
  <2> QED
    BY <1>0, <1>4, SeqEqual
<1> DEFINE lw == Len(w)
           lx == Len(x)
<1>11. /\ readpeek(b, Len(h)) = first /\ readn(b, Len(h)) = readpeek(b, Len(h))
       /\ discard(b, Len(h)) = rest
  <2>1. (IF k < n THEN k ELSE n) = k /\ ~(k > n)
    BY <1>1
  <2> QED
    BY <2>1, Zenon DEF readpeek, readn, discard, length
<1> SUFFICES first = h /\ rest \in Seq(T) /\ after = x
  BY <1>11, Zenon
<1> HIDE DEF k, n, rest, all, first, after, lw, lx
<1>7. /\ k \in Nat /\ n \in Nat /\ lw \in Nat /\ lx \in Nat /\ k <= n /\ n + lw = k + lx
      /\ \A i \in 1 .. n + lw : all[i] = IF i <= n THEN b[i] ELSE w[i - n]
      /\ \A i \in 1 .. k + lx : all[i] = IF i <= k THEN h[i] ELSE x[i - k]
      /\ Len(after) = n - k + lw
      /\ \A i \in 1 .. n - k + lw : after[i] = IF i <= n - k THEN rest[i] ELSE w[i - (n - k)]
  BY <1>1, <1>2, <1>3, <1>4 DEF lw, lx
<1>8. \A i \in 1 .. k : first[i] = h[i]
  <2> TAKE i \in 1 .. k
  <2>1. i \in 1 .. n + lw /\ i \in 1 .. k + lx /\ i <= n /\ i <= k
    BY <1>7
  <2> QED
    BY <1>3, <1>7, <2>1
<1>9. ASSUME NEW i \in 1 .. lx PROVE after[i] = x[i]
  <2>1. /\ k + i \in 1 .. k + lx /\ ~(k + i <= k) /\ (k + i) - k = i /\ k + i \in 1 .. n + lw
        /\ i \in 1 .. n - k + lw
    BY <1>7
  <2>2. all[k + i] = x[i]
    BY <1>7, <2>1
  <2>3. CASE i <= n - k
    <3>1. k + i <= n /\ i \in 1 .. n - k
      BY <1>7, <2>3
    <3> QED
      BY <1>3, <1>7, <2>1, <2>2, <2>3, <3>1
  <2>4. CASE ~(i <= n - k)
    <3>1. ~(k + i <= n) /\ (k + i) - n = i - (n - k)
      BY <1>7, <2>4
    <3>2. all[k + i] = w[i - (n - k)]
      BY <1>7, <2>1, <3>1
    <3> QED
      BY <1>7, <2>1, <2>2, <2>4, <3>2
  <2> QED
    BY <2>3, <2>4
<1>10. Len(after) = lx
  BY <1>7
<1> QED
  BY <1>3, <1>5, <1>6, <1>8, <1>9, <1>10 DEF lx

\* The first part of a sequence and the rest.
LEMMA Parted ==
  ASSUME NEW T, NEW w \in Seq(T), NEW n \in 0 .. Len(w)
  PROVE  /\ SubSeq(w, 1, n) \in Seq(T) /\ Len(SubSeq(w, 1, n)) = n
         /\ SubSeq(w, n + 1, Len(w)) \in Seq(T) /\ Len(SubSeq(w, n + 1, Len(w))) = Len(w) - n
         /\ SubSeq(w, 1, n) \o SubSeq(w, n + 1, Len(w)) = w
<1> DEFINE m == Len(w)
<1>1. m \in Nat /\ n \in 0 .. m
  OBVIOUS
<1>2. SubSeq(w, 1, n) \in Seq(T) /\ Len(SubSeq(w, 1, n)) = n
  OBVIOUS
<1>3. SubSeq(w, n + 1, m) \in Seq(T) /\ Len(SubSeq(w, n + 1, m)) = m - n
  OBVIOUS
<1>4. SubSeq(w, 1, n) \o SubSeq(w, n + 1, m) = w
  <2>1. SubSeq(w, 1, n) \o SubSeq(w, n + 1, m) = SubSeq(w, 1, m)
    <3>1. 1 \in 1 .. m + 1 /\ n \in 1 - 1 .. m /\ m \in n .. m
      BY <1>1
    <3> QED
      BY <3>1, ConcatAdjacentSubSeq
  <2>2. SubSeq(w, 1, m) = w
    BY SubSeqFull
  <2> QED
    BY <2>1, <2>2, Zenon
<1> QED
  BY <1>2, <1>3, <1>4

\* The first element of a sequence and the rest.
LEMMA Headed ==
  ASSUME NEW T, NEW s \in Seq(T), s # <<>>
  PROVE  \E e \in T, r \in Seq(T) : s = <<e>> \o r
<1>1. 1 \in 1 .. Len(s) /\ Len(s) \in 1 .. Len(s)
  BY EmptySeq
<1>2. SubSeq(s, 1, Len(s)) = <<s[1]>> \o SubSeq(s, 2, Len(s))
  BY <1>1, SubSeqRecursiveFirst
<1>3. SubSeq(s, 1, Len(s)) = s
  BY SubSeqFull
<1>4. s[1] \in T /\ SubSeq(s, 2, Len(s)) \in Seq(T)
  BY <1>1
<1> QED
  BY <1>2, <1>3, <1>4, Zenon

LEMMA HeadsEqual ==
  ASSUME NEW T, NEW a \in T, NEW b \in T, NEW x \in Seq(T), NEW y \in Seq(T), <<a>> \o x = <<b>> \o y
  PROVE  a = b /\ x = y
<1>1. <<a>> \in Seq(T) /\ <<b>> \in Seq(T) /\ Len(<<a>>) = 1 /\ Len(<<b>>) = 1
  OBVIOUS
<1>2. (<<a>> \o x)[1] = a /\ (<<b>> \o y)[1] = b
  OBVIOUS
<1>3. a = b
  BY <1>2
<1>4. <<a>> \o x = <<a>> \o y
  BY <1>3
<1> QED
  BY <1>1, <1>3, <1>4, ConcatSimplifications

SameHeads(T, a, b, x, y) ==
  a \in T /\ b \in T /\ x \in Seq(T) /\ y \in Seq(T) /\ <<a>> \o x = <<b>> \o y

LEMMA HeadsSame ==
  ASSUME NEW T, NEW a, NEW b, NEW x, NEW y, SameHeads(T, a, b, x, y)
  PROVE  a = b /\ x = y
BY HeadsEqual DEF SameHeads

-----------------------------------------------------------------------------
(* Wire: what was read, and what there is to read.                         *)

Message == [type : Byte, text : Seq(Byte)]

\* The messages of NDT behind the first ones.
FormatsFrom(k) ==
  FlattenSeq([i \in 1 .. Len(said.messages) - k |-> format_any(said.messages[k + i])])

NdtRead ==
  LET k == Len(got)
  IN /\ got \in Seq(Message) /\ k <= Len(said.messages)
     /\ \A i \in 1 .. k : got[i] = said.messages[i]
     /\ buffer \in Seq(Byte) /\ wire \in Seq(Byte)
     /\ reading \in [at : {"header", "payload"}, type : Byte, length : Nat]
     /\ \/ reading.at = "header" /\ buffer \o wire = FormatsFrom(k)
        \/ /\ reading.at = "payload" /\ k < Len(said.messages)
           /\ reading.type = said.messages[k + 1].type
           /\ reading.length = Len(said.messages[k + 1].text)
           /\ buffer \o wire = said.messages[k + 1].text \o FormatsFrom(k + 1)

\* The head of a message: its type and its length.
HeadOf(m) == write_uint8(m.type) \o write_uint16(Len(m.text))

LEMMA HeadTyped ==
  ASSUME NEW m \in Message, Len(m.text) < 65536
  PROVE  /\ HeadOf(m) \in Seq(Byte) /\ Len(HeadOf(m)) = 3 /\ HeadOf(m)[1] = m.type
         /\ HeadOf(m)[2] * 256 + HeadOf(m)[3] = Len(m.text)
         /\ format_any(m) = HeadOf(m) \o m.text /\ format_any(m) \in Seq(Byte)
<1> DEFINE n == Len(m.text)
           t == m.type
           q == n \div 256
           r == n % 256
<1>1. t \in 0 .. 255 /\ m.text \in Seq(Byte) /\ n \in Nat /\ n < 65536
  BY DEF Message, Byte
<1>2. HeadOf(m) = <<t % 256>> \o <<q % 256, r>>
  BY DEF HeadOf, write_uint8, write_uint16
<1>3. format_any(m) = HeadOf(m) \o m.text
  BY DEF format_any, HeadOf
<1> SUFFICES /\ HeadOf(m) \in Seq(Byte) /\ Len(HeadOf(m)) = 3 /\ HeadOf(m)[1] = t
             /\ HeadOf(m)[2] * 256 + HeadOf(m)[3] = n /\ format_any(m) \in Seq(Byte)
  BY <1>3
<1> HIDE DEF n, t
<1>4. q \in Nat /\ r \in 0 .. 255 /\ n = 256 * q + r
  BY <1>1
<1>5. q < 256
  BY <1>1
<1> HIDE DEF q, r
<1>6. t % 256 = t /\ q % 256 = q /\ q \in 0 .. 255
  BY <1>1, <1>4, <1>5
<1>7. HeadOf(m) = <<t>> \o <<q, r>>
  BY <1>2, <1>6
<1>8. /\ HeadOf(m) \in Seq(Byte) /\ Len(HeadOf(m)) = 3 /\ HeadOf(m)[1] = t
      /\ HeadOf(m)[2] = q /\ HeadOf(m)[3] = r
  BY <1>1, <1>4, <1>6, <1>7 DEF Byte
<1>9. q * 256 + r = n
  BY <1>1, <1>4
<1>10. format_any(m) \in Seq(Byte)
  <2>1. HeadOf(m) \in Seq(Byte) /\ m.text \in Seq(Byte)
    BY <1>1, <1>8
  <2> QED
    BY <1>3, <2>1, Joined
<1> QED
  BY <1>8, <1>9, <1>10

LEMMA NdtPeer ==
  ASSUME said.protocol = "ndt", Peer(said)
  PROVE  /\ said.messages \in Seq(Message)
         /\ \A i \in 1 .. Len(said.messages) : Len(said.messages[i].text) < 65536
         /\ said.pieces \subseteq Nat
<1>1. /\ said.messages \in Seq([type : Byte, text : Seq(Byte)])
      /\ \A i \in DOMAIN said.messages : Len(said.messages[i].text) < 65536
      /\ said.pieces \subseteq Nat
  BY DEF Peer
<1> QED
  BY <1>1 DEF Message

LEMMA FormatsNext ==
  ASSUME said.protocol = "ndt", Peer(said), NEW k \in Nat, k < Len(said.messages)
  PROVE  /\ FormatsFrom(k) = format_any(said.messages[k + 1]) \o FormatsFrom(k + 1)
         /\ FormatsFrom(k + 1) \in Seq(Byte) /\ said.messages[k + 1] \in Message
         /\ Len(said.messages[k + 1].text) < 65536
<1> DEFINE n == Len(said.messages)
           formats(j) == [i \in 1 .. n - j |-> format_any(said.messages[j + i])]
<1>1. n \in Nat /\ \A i \in 1 .. n : said.messages[i] \in Message /\ Len(said.messages[i].text) < 65536
  <2>1. said.messages \in Seq(Message) /\ n \in Nat
    BY NdtPeer
  <2>2. \A i \in 1 .. n : said.messages[i] \in Message
    BY <2>1, ElementOfSeq
  <2> QED
    BY <2>1, <2>2, NdtPeer
<1> HIDE DEF n
<1>2. k + 1 \in 1 .. n
  BY <1>1 DEF n
<1>3. ASSUME NEW j \in 0 .. n PROVE formats(j) \in Seq(Seq(Byte)) /\ Len(formats(j)) = n - j
  <2>1. \A i \in 1 .. n - j : format_any(said.messages[j + i]) \in Seq(Byte)
    <3> TAKE i \in 1 .. n - j
    <3>1. j + i \in 1 .. n
      BY <1>1
    <3> HIDE DEF formats
    <3> DEFINE m == said.messages[j + i]
    <3>2. m \in Message /\ Len(m.text) < 65536
      BY <1>1, <3>1
    <3> HIDE DEF m
    <3>3. format_any(m) \in Seq(Byte)
      BY <3>2, HeadTyped
    <3> QED
      BY <3>3 DEF m
  <2>2. n - j \in Nat
    BY <1>1
  <2> QED
    BY <2>1, <2>2, IsASeq
<1> DEFINE all == formats(k)
           later == formats(k + 1)
<1>4. /\ all \in Seq(Seq(Byte)) /\ Len(all) = n - k /\ n - k > 0 /\ all[1] = format_any(said.messages[k + 1])
      /\ later \in Seq(Seq(Byte)) /\ Len(later) = n - k - 1
  <2>1. k \in 0 .. n /\ k + 1 \in 0 .. n /\ n - (k + 1) = n - k - 1 /\ 1 \in 1 .. n - k
    BY <1>1, <1>2
  <2>2. all[1] = format_any(said.messages[k + 1])
    BY <2>1
  <2>3. all \in Seq(Seq(Byte)) /\ Len(all) = n - k /\ later \in Seq(Seq(Byte)) /\ Len(later) = n - (k + 1)
    <3> HIDE DEF formats
    <3> QED
      BY <1>3, <2>1
  <2>4. n - k > 0
    BY <1>1, <1>2
  <2> HIDE DEF all, later
  <2> QED
    BY <2>1, <2>2, <2>3, <2>4
<1>5. \A i \in 1 .. n - k - 1 : later[i] = all[i + 1]
  <2> TAKE i \in 1 .. n - k - 1
  <2>1. i \in 1 .. n - (k + 1) /\ i + 1 \in 1 .. n - k /\ k + (i + 1) = (k + 1) + i
    <3> HIDE DEF all, later, formats
    <3>1. n \in Nat /\ k \in Nat /\ i \in Nat /\ i >= 1 /\ i <= n - k - 1
      BY <1>1
    <3> QED
      BY <3>1
  <2> QED
    BY <2>1
<1>6. FormatsFrom(k) = FlattenSeq(all) /\ FormatsFrom(k + 1) = FlattenSeq(later)
  BY DEF FormatsFrom, n
<1> HIDE DEF all, later
<1>7. all # <<>>
  BY <1>1, <1>4
<1>8. Tail(all) = later
  <2> DEFINE t == Tail(all)
  <2>1. t \in Seq(Seq(Byte)) /\ Len(t) = n - k - 1 /\ \A i \in 1 .. n - k - 1 : t[i] = all[i + 1]
    BY <1>4, <1>7, HeadTailProperties
  <2> HIDE DEF t, formats
  <2>2. later \in Seq(Seq(Byte)) /\ Len(t) = Len(later) /\ Len(t) = n - k - 1
    BY <1>4, <2>1
  <2>3. \A i \in 1 .. Len(t) : t[i] = later[i]
    BY <1>5, <2>1, <2>2
  <2>4. t = later
    BY <2>1, <2>2, <2>3, SeqEqual
  <2> QED
    BY <2>4 DEF t
<1>9. FlattenSeq(all) = all[1] \o FlattenSeq(later) /\ FlattenSeq(later) \in Seq(Byte)
  <2>1. all \in Seq(Seq(Byte))
    BY <1>4
  <2> HIDE DEF formats
  <2>2. FlattenSeq(all) = all[1] \o FlattenSeq(Tail(all)) /\ FlattenSeq(Tail(all)) \in Seq(Byte)
    BY <2>1, <1>7, FlattenFirst
  <2> QED
    BY <1>8, <2>2, Zenon
<1>10. said.messages[k + 1] \in Message /\ Len(said.messages[k + 1].text) < 65536
  BY <1>1, <1>2
<1>11. all[1] = format_any(said.messages[k + 1])
  BY <1>4
<1> HIDE DEF formats
<1> QED
  BY <1>6, <1>9, <1>10, <1>11

LEMMA FormatsOver ==
  ASSUME said.protocol = "ndt", Peer(said)
  PROVE  FormatsFrom(Len(said.messages)) = <<>> /\ Encoded(said) = FormatsFrom(0)
<1>1. Len(said.messages) \in Nat /\ DOMAIN said.messages = 1 .. Len(said.messages)
  BY DEF Peer
<1>2. FormatsFrom(Len(said.messages)) = FlattenSeq(<<>>)
  <2>1. [i \in 1 .. Len(said.messages) - Len(said.messages) |->
           format_any(said.messages[Len(said.messages) + i])] = <<>>
    BY <1>1
  <2> QED
    BY <2>1 DEF FormatsFrom
<1>3. Encoded(said) = FlattenSeq([i \in DOMAIN said.messages |-> format_any(said.messages[i])])
  BY DEF Encoded
<1>4. [i \in DOMAIN said.messages |-> format_any(said.messages[i])]
      = [i \in 1 .. Len(said.messages) - 0 |-> format_any(said.messages[0 + i])]
  BY <1>1
<1> QED
  BY <1>2, <1>3, <1>4, FlattenNone DEF FormatsFrom

LEMMA BytesAreNumbers == \A x \in Byte : x \in Nat
BY DEF Byte

LEMMA ReadOne ==
  ASSUME NEW b \in Seq(Byte), Len(b) >= 1
  PROVE  read_uint(b, 1).value = b[1]
<1> DEFINE v[i \in 0 .. 1] == IF i = 0 THEN 0 ELSE v[i - 1] * 256 + b[i]
           goes(g) == g = [i \in 0 .. 1 |-> IF i = 0 THEN 0 ELSE g[i - 1] * 256 + b[i]]
           u == [i \in 0 .. 1 |-> IF i = 0 THEN 0 ELSE b[1]]
<1>1. read_uint(b, 1).value = v[1]
  BY DEF read_uint, length
<1>2. b[1] \in Nat
  <2>1. b[1] \in Byte
    OBVIOUS
  <2> QED
    BY <2>1, BytesAreNumbers
<1>3. goes(u)
  <2>1. u[0] = 0 /\ 0 * 256 + b[1] = b[1]
    BY <1>2
  <2>2. \A i \in 0 .. 1 : u[i] = IF i = 0 THEN 0 ELSE u[i - 1] * 256 + b[i]
    BY <2>1
  <2> QED
    BY <2>2
<1>4. v = CHOOSE g : goes(g)
  OBVIOUS
<1> HIDE DEF v, u
<1>5. goes(v)
  BY <1>3, <1>4
<1>6. v[0] = 0 /\ v[1] = v[0] * 256 + b[1]
  BY <1>5
<1> QED
  BY <1>1, <1>2, <1>6

LEMMA ReadTwo ==
  ASSUME NEW b \in Seq(Byte), Len(b) >= 2
  PROVE  read_uint(b, 2).value = b[1] * 256 + b[2]
<1> DEFINE v[i \in 0 .. 2] == IF i = 0 THEN 0 ELSE v[i - 1] * 256 + b[i]
           goes(g) == g = [i \in 0 .. 2 |-> IF i = 0 THEN 0 ELSE g[i - 1] * 256 + b[i]]
           u == [i \in 0 .. 2 |-> IF i = 0 THEN 0 ELSE IF i = 1 THEN b[1] ELSE b[1] * 256 + b[2]]
<1>1. read_uint(b, 2).value = v[2]
  BY DEF read_uint, length
<1>2. b[1] \in Nat /\ b[2] \in Nat
  <2>1. b[1] \in Byte /\ b[2] \in Byte
    OBVIOUS
  <2> QED
    BY <2>1, BytesAreNumbers
<1>3. goes(u)
  <2>1. u[0] = 0 /\ u[1] = b[1] /\ u[2] = b[1] * 256 + b[2] /\ 0 * 256 + b[1] = b[1]
    BY <1>2
  <2>2. ASSUME NEW i \in 0 .. 2 PROVE u[i] = IF i = 0 THEN 0 ELSE u[i - 1] * 256 + b[i]
    <3>1. i = 0 \/ (i = 1 /\ i - 1 = 0) \/ (i = 2 /\ i - 1 = 1)
      OBVIOUS
    <3> HIDE DEF u
    <3> QED
      BY <2>1, <3>1
  <2> QED
    BY <2>2
<1>4. v = CHOOSE g : goes(g)
  OBVIOUS
<1> HIDE DEF v, u
<1>5. goes(v)
  BY <1>3, <1>4
<1>6. v[0] = 0 /\ v[1] = v[0] * 256 + b[1] /\ v[2] = v[1] * 256 + b[2]
  BY <1>5
<1> QED
  BY <1>1, <1>2, <1>6

\* A piece of what has not arrived goes behind what the buffer holds.
LEMMA PieceKept ==
  ASSUME NEW T, NEW b \in Seq(T), NEW w \in Seq(T), NEW n \in 0 .. Len(w)
  PROVE  /\ b \o SubSeq(w, 1, n) \in Seq(T) /\ SubSeq(w, n + 1, Len(w)) \in Seq(T)
         /\ (b \o SubSeq(w, 1, n)) \o SubSeq(w, n + 1, Len(w)) = b \o w
<1> DEFINE d == SubSeq(w, 1, n)
           r == SubSeq(w, n + 1, Len(w))
           Q == Seq(T)
<1>1. b \in Q /\ d \in Q /\ r \in Q /\ d \o r = w
  BY Parted
<1>2. Q = Seq(T)
  OBVIOUS
<1> HIDE DEF d, r, Q
<1>3. b \o (d \o r) = (b \o d) \o r
  <2>1. \A x, y, z \in Q : x \o (y \o z) = (x \o y) \o z
    BY <1>2, AssociativeIn, SMTT(30)
  <2> QED
    BY <1>1, <2>1
<1>4. b \o d \in Q
  BY <1>1, <1>2, Joined
<1> QED
  BY <1>1, <1>2, <1>3, <1>4 DEF d, r

\* Which piece arrives.
LEMMA PieceOf ==
  ASSUME PieceArrives, said.pieces \subseteq Nat, reading.at # "auth", NEW T, wire \in Seq(T)
  PROVE  /\ said' = said /\ Waits
         /\ \E n \in 0 .. Len(wire) :
              /\ wire' = SubSeq(wire, n + 1, Len(wire))
              /\ reading.at \in {"connect", "up"} => socks5_connect_reads(SubSeq(wire, 1, n))
              /\ reading.at = "feed" => feed_chunk(SubSeq(wire, 1, n))
              /\ reading.at \notin {"connect", "up", "feed"} => Keep(SubSeq(wire, 1, n))
<1>1. Available = Len(wire) /\ Len(wire) \in Nat
  BY DEF Available
<1>2. PICK n \in said.pieces \cup {Available} :
        /\ n <= Available
        /\ wire' = SubSeq(wire, n + 1, Len(wire))
        /\ CASE reading.at \in {"auth", "connect", "up"} -> socks5_connect_reads(SubSeq(wire, 1, n))
             [] reading.at = "feed" -> feed_chunk(SubSeq(wire, 1, n))
             [] OTHER -> Keep(SubSeq(wire, 1, n))
  BY DEF PieceArrives
<1>3. n \in 0 .. Len(wire)
  BY <1>1, <1>2
<1>4. /\ reading.at \in {"connect", "up"} => socks5_connect_reads(SubSeq(wire, 1, n))
      /\ reading.at = "feed" => feed_chunk(SubSeq(wire, 1, n))
      /\ reading.at \notin {"connect", "up", "feed"} => Keep(SubSeq(wire, 1, n))
  BY <1>2
<1>5. said' = said /\ Waits
  BY DEF PieceArrives
<1> QED
  BY <1>2, <1>3, <1>4, <1>5

\* A name for the concatenation, and for four sequences of one kind.
Cat(x, y) == x \o y
Four(T, f, l, r, w) == f \in Seq(T) /\ l \in Seq(T) /\ r \in Seq(T) /\ w \in Seq(T)

LEMMA CatIn == \A T : \A x, y \in Seq(T) : Cat(x, y) \in Seq(T)
BY Joined DEF Cat

LEMMA CatAssociative ==
  \A T : \A x, y, z \in Seq(T) : Cat(x, Cat(y, z)) = Cat(Cat(x, y), z)
BY Associative, Zenon DEF Cat

LEMMA Shifted ==
  ASSUME NEW T, NEW f, NEW l, NEW r, NEW w, Four(T, f, l, r, w)
  PROVE  (f \o l) \o (r \o w) = f \o ((l \o r) \o w)
<1> DEFINE Q == Seq(T)
<1>1. Q = Seq(T) /\ f \in Q /\ l \in Q /\ r \in Q /\ w \in Q
  BY DEF Four
<1> HIDE DEF Q
<1>2. /\ \A x, y \in Q : Cat(x, y) \in Q
      /\ \A x, y, z \in Q : Cat(x, Cat(y, z)) = Cat(Cat(x, y), z)
  <2>1. Q = Seq(T)
    BY <1>1
  <2>2. \A x, y \in Q : Cat(x, y) \in Q
    BY <2>1, CatIn
  <2>3. \A x, y, z \in Q : Cat(x, Cat(y, z)) = Cat(Cat(x, y), z)
    BY <2>1, CatAssociative
  <2> QED
    BY <2>2, <2>3
<1>3. Cat(r, w) \in Q /\ Cat(l, Cat(r, w)) = Cat(Cat(l, r), w)
  BY <1>1, <1>2
<1>4. Cat(f, Cat(l, Cat(r, w))) = Cat(Cat(f, l), Cat(r, w))
  BY <1>1, <1>2, <1>3
<1>5. Cat(Cat(f, l), Cat(r, w)) = Cat(f, Cat(Cat(l, r), w))
  BY <1>3, <1>4
<1> QED
  BY <1>5, Zenon DEF Cat

LEMMA Regrouped ==
  ASSUME NEW T, NEW x \in Seq(T), NEW y \in Seq(T), NEW z \in Seq(T), NEW s, s = (x \o y) \o z
  PROVE  s = x \o (y \o z) /\ y \o z \in Seq(T)
<1>1. x \o (y \o z) = (x \o y) \o z
  BY Associative
<1>2. y \o z \in Seq(T)
  BY Joined
<1> QED
  BY <1>1, <1>2

LEMMA NdtHeader ==
  ASSUME said.protocol = "ndt", Peer(said), NdtRead, read_ll, reading.at = "header"
  PROVE  NdtRead'
<1> DEFINE k == Len(got)
           m == said.messages[k + 1]
           h == HeadOf(m)
<1>1. /\ got \in Seq(Message) /\ k \in Nat /\ k <= Len(said.messages)
      /\ \A i \in 1 .. k : got[i] = said.messages[i]
      /\ buffer \in Seq(Byte) /\ wire \in Seq(Byte)
      /\ reading \in [at : {"header", "payload"}, type : Byte, length : Nat]
      /\ buffer \o wire = FormatsFrom(k)
  BY DEF NdtRead
<1>2. Len(said.messages) \in Nat
  BY NdtPeer
<1>3. /\ Len(buffer) >= 3 /\ said' = said /\ wire' = wire /\ got' = got
      /\ reading' = [reading EXCEPT !.at = "payload", !.type = read_uint(buffer, 1).value,
                                    !.length = read_uint(discard(buffer, 1), 2).value]
      /\ buffer' = discard(buffer, 3)
  BY DEF read_ll, Ready, needed, length
<1> HIDE DEF k
<1>4. k < Len(said.messages)
  <2>1. SUFFICES ASSUME k = Len(said.messages) PROVE FALSE
    BY <1>1, <1>2
  <2>2. buffer \o wire = <<>>
    BY <1>1, <2>1, FormatsOver
  <2>3. Len(buffer \o wire) = Len(buffer) + Len(wire) /\ Len(wire) \in Nat
    BY <1>1, ConcatProperties
  <2> QED
    BY <1>1, <1>3, <2>2, <2>3
<1>5. /\ FormatsFrom(k) = format_any(m) \o FormatsFrom(k + 1) /\ FormatsFrom(k + 1) \in Seq(Byte)
      /\ m \in Message /\ Len(m.text) < 65536
  <2>1. k \in Nat
    BY <1>1
  <2> QED
    BY <1>4, <2>1, FormatsNext
<1> HIDE DEF m
<1>6. /\ h \in Seq(Byte) /\ Len(h) = 3 /\ h[1] = m.type /\ h[2] * 256 + h[3] = Len(m.text)
      /\ format_any(m) = h \o m.text /\ m.text \in Seq(Byte) /\ m.type \in Byte
  BY <1>5, HeadTyped DEF Message
<1> DEFINE text == m.text
           after == FormatsFrom(k + 1)
           later == text \o after
           all == buffer \o wire
<1>7. all = h \o later /\ later \in Seq(Byte)
  <2>1. all = (h \o text) \o after
    <3>1. all = FormatsFrom(k) /\ FormatsFrom(k) = format_any(m) \o after /\ format_any(m) = h \o text
      BY <1>1, <1>5, <1>6
    <3> HIDE DEF all, after, h, text
    <3> QED
      BY <3>1
  <2>2. h \in Seq(Byte) /\ text \in Seq(Byte) /\ after \in Seq(Byte)
    BY <1>5, <1>6
  <2> HIDE DEF h, text, after, all
  <2> QED
    BY <2>1, <2>2, Regrouped
<1> HIDE DEF h, later
<1>8. readpeek(buffer, 3) = h /\ discard(buffer, 3) \in Seq(Byte) /\ discard(buffer, 3) \o wire = later
  <2>1. Len(buffer) >= 3 /\ buffer \o wire = h \o later
    BY <1>3, <1>7
  <2>2. buffer \in Seq(Byte) /\ wire \in Seq(Byte) /\ h \in Seq(Byte) /\ later \in Seq(Byte) /\ Len(h) = 3
    BY <1>1, <1>6, <1>7
  <2>3. /\ readpeek(buffer, Len(h)) = h
        /\ discard(buffer, Len(h)) \in Seq(Byte) /\ discard(buffer, Len(h)) \o wire = later
    <3>1. Len(buffer) >= Len(h)
      BY <2>1, <2>2
    <3>2. buffer \in Seq(Byte) /\ wire \in Seq(Byte) /\ h \in Seq(Byte) /\ later \in Seq(Byte)
          /\ buffer \o wire = h \o later
      BY <2>1, <2>2
    <3>3. HasArrived(Byte, buffer, wire, h, later)
      BY <3>1, <3>2 DEF HasArrived
    <3> QED
      BY <3>3, Taken
  <2> QED
    BY <2>2, <2>3
<1>9. buffer[1] = h[1] /\ buffer[2] = h[2] /\ buffer[3] = h[3]
  <2>1. readpeek(buffer, 3) = SubSeq(buffer, 1, 3)
    BY <1>1, <1>3 DEF readpeek, length
  <2>2. \A i \in 1 .. 3 : SubSeq(buffer, 1, 3)[i] = buffer[i]
    BY <1>1, <1>3
  <2> QED
    BY <1>8, <2>1, <2>2
<1>10. read_uint(buffer, 1).value = m.type
  BY <1>1, <1>3, <1>6, <1>9, ReadOne
<1>11. read_uint(discard(buffer, 1), 2).value = Len(m.text)
  <2> DEFINE c == SubSeq(buffer, 2, Len(buffer))
  <2>1. c \in Seq(Byte) /\ Len(c) >= 2 /\ c[1] = buffer[2] /\ c[2] = buffer[3]
    BY <1>1, <1>3
  <2>2. discard(buffer, 1) = c
    BY DEF discard, length
  <2> HIDE DEF c
  <2>3. read_uint(c, 2).value = c[1] * 256 + c[2]
    BY <2>1, ReadTwo
  <2> QED
    BY <1>6, <1>9, <2>1, <2>2, <2>3
<1>12. /\ reading'.at = "payload" /\ reading'.type = m.type /\ reading'.length = Len(m.text)
       /\ reading' \in [at : {"header", "payload"}, type : Byte, length : Nat]
  <2>1. Len(m.text) \in Nat
    BY <1>6
  <2> QED
    BY <1>1, <1>3, <1>6, <1>10, <1>11, <2>1
<1>14. /\ got' = got /\ said' = said /\ wire' = wire /\ buffer' \in Seq(Byte)
       /\ buffer' \o wire' = m.text \o FormatsFrom(k + 1)
  BY <1>3, <1>8, Zenon DEF later
<1>15. FormatsFrom(k + 1)' = FormatsFrom(k + 1)
  BY <1>3 DEF FormatsFrom, k
<1> QED
  BY <1>1, <1>4, <1>12, <1>14, <1>15 DEF NdtRead, k, m

LEMMA NdtPayload ==
  ASSUME said.protocol = "ndt", Peer(said), NdtRead, read_ll, reading.at = "payload"
  PROVE  NdtRead'
<1> DEFINE k == Len(got)
           m == said.messages[k + 1]
           text == m.text
           after == FormatsFrom(k + 1)
           one == [type |-> reading.type, text |-> readn(buffer, reading.length)]
<1>1. /\ got \in Seq(Message) /\ k \in Nat /\ k < Len(said.messages)
      /\ \A i \in 1 .. k : got[i] = said.messages[i]
      /\ buffer \in Seq(Byte) /\ wire \in Seq(Byte)
      /\ reading \in [at : {"header", "payload"}, type : Byte, length : Nat]
      /\ reading.type = m.type /\ reading.length = Len(text)
      /\ buffer \o wire = text \o after
  <2>1. /\ got \in Seq(Message)
        /\ \A i \in 1 .. k : got[i] = said.messages[i]
        /\ buffer \in Seq(Byte) /\ wire \in Seq(Byte)
        /\ reading \in [at : {"header", "payload"}, type : Byte, length : Nat]
    BY DEF NdtRead
  <2>2. /\ k < Len(said.messages) /\ reading.type = m.type /\ reading.length = Len(text)
        /\ buffer \o wire = text \o after
    BY Zenon DEF NdtRead
  <2>3. k \in Nat
    BY <2>1
  <2> HIDE DEF k, text, after
  <2> QED
    BY <2>1, <2>2, <2>3
<1>2. Len(said.messages) \in Nat
  BY NdtPeer
<1>3. /\ Len(buffer) >= Len(text) /\ said' = said /\ wire' = wire
      /\ reading' = [reading EXCEPT !.at = "header"] /\ got' = Append(got, one)
      /\ buffer' = discard(buffer, Len(readn(buffer, reading.length)))
  BY <1>1 DEF read_ll, Ready, needed, length
<1> HIDE DEF k
<1>4. m \in Message /\ after \in Seq(Byte)
  <2>1. k \in Nat /\ k < Len(said.messages)
    BY <1>1
  <2> QED
    BY <2>1, FormatsNext
<1>5. text \in Seq(Byte) /\ m = [type |-> m.type, text |-> text]
  BY <1>4 DEF Message
<1> HIDE DEF after, text, m
<1>6. HasArrived(Byte, buffer, wire, text, after)
  BY <1>1, <1>3, <1>4, <1>5 DEF HasArrived
<1>7. readn(buffer, Len(text)) = text /\ discard(buffer, Len(text)) \in Seq(Byte)
      /\ discard(buffer, Len(text)) \o wire = after
  BY <1>6, Taken
<1>8. one = m
  BY <1>1, <1>5, <1>7
<1> HIDE DEF one
<1>9. /\ got' \in Seq(Message) /\ Len(got') = k + 1
      /\ \A i \in 1 .. k + 1 : got'[i] = said.messages[i]
  <2>1. /\ got' \in Seq(Message) /\ Len(got') = k + 1 /\ got'[k + 1] = m
        /\ \A i \in 1 .. k : got'[i] = got[i]
    BY <1>1, <1>3, <1>4, <1>8, AppendProperties DEF k
  <2>2. \A i \in 1 .. k + 1 : i \in 1 .. k \/ i = k + 1
    BY <1>1
  <2> QED
    BY <1>1, <2>1, <2>2 DEF m
<1>10. reading' \in [at : {"header", "payload"}, type : Byte, length : Nat] /\ reading'.at = "header"
  BY <1>1, <1>3
<1>11. buffer' \in Seq(Byte) /\ buffer' \o wire' = after /\ wire' \in Seq(Byte)
  BY <1>1, <1>3, <1>7
<1>12. FormatsFrom(Len(got))' = after
  BY <1>3, <1>9 DEF FormatsFrom, after
<1>13. said' = said /\ k + 1 <= Len(said.messages)
  BY <1>1, <1>2, <1>3, SMTT(20)
<1> HIDE DEF after
<1> QED
  BY <1>9, <1>10, <1>11, <1>12, <1>13 DEF NdtRead

LEMMA NdtPiece ==
  ASSUME said.protocol = "ndt", Peer(said), NdtRead, PieceArrives
  PROVE  NdtRead'
<1>1. /\ reading.at \in {"header", "payload"} /\ wire \in Seq(Byte) /\ buffer \in Seq(Byte)
  BY DEF NdtRead
<1>2. said.pieces \subseteq Nat
  BY NdtPeer
<1>3. PICK n \in 0 .. Len(wire) :
        /\ wire' = SubSeq(wire, n + 1, Len(wire)) /\ Keep(SubSeq(wire, 1, n)) /\ said' = said
  BY <1>1, <1>2, PieceOf
<1>4. buffer' \in Seq(Byte) /\ wire' \in Seq(Byte) /\ buffer' \o wire' = buffer \o wire
  BY <1>1, <1>3, PieceKept, Zenon DEF Keep
<1>5. UNCHANGED <<said, reading, got>>
  BY <1>3 DEF Keep
<1>6. \A k : FormatsFrom(k)' = FormatsFrom(k)
  BY <1>5 DEF FormatsFrom
<1>7. Len(got)' = Len(got) /\ FormatsFrom(Len(got))' = FormatsFrom(Len(got))
      /\ FormatsFrom(Len(got) + 1)' = FormatsFrom(Len(got) + 1)
  BY <1>5 DEF FormatsFrom
<1> QED
  BY <1>4, <1>5, <1>7 DEF NdtRead

LEMMA NdtStep ==
  ASSUME said.protocol = "ndt", Peer(said), NdtRead, WireNext
  PROVE  NdtRead'
<1>1. reading.at \in {"header", "payload"}
  BY DEF NdtRead
<1>2. ~TakeLine
  BY <1>1 DEF TakeLine
<1> QED
  BY <1>1, <1>2, NdtHeader, NdtPayload, NdtPiece DEF WireNext

\* A sequence that agrees with another as far as it goes.
LEMMA PrefixOf ==
  ASSUME NEW T, NEW s \in Seq(T), NEW t \in Seq(T), Len(s) <= Len(t), \A i \in 1 .. Len(s) : s[i] = t[i]
  PROVE  IsPrefix(s, t) /\ (Len(s) = Len(t) => s = t)
<1> DEFINE k == Len(s)
           u == SubSeq(t, 1, k)
           v == SubSeq(s, 1, k)
<1>1. k \in Nat /\ k \in 0 .. Len(t)
  OBVIOUS
<1>2. u \in Seq(T) /\ Len(u) = k /\ \A i \in 1 .. k : u[i] = t[i]
  BY <1>1
<1>3. v = s
  BY SubSeqFull
<1>4. u = s
  <2> HIDE DEF u
  <2> QED
    BY <1>2, SeqEqual
<1>5. Len(s) = Len(t) => s = t
  BY SeqEqual
<1> QED
  BY <1>3, <1>4, <1>5 DEF IsPrefix

LEMMA NdtWhole ==
  ASSUME said.protocol = "ndt", Peer(said), NdtRead
  PROVE  MessagesWhole
<1> DEFINE k == Len(got)
           n == Len(said.messages)
<1>1. /\ got \in Seq(Message) /\ k \in Nat /\ k <= n
      /\ \A i \in 1 .. k : got[i] = said.messages[i]
      /\ buffer \in Seq(Byte) /\ wire \in Seq(Byte)
  BY DEF NdtRead
<1>2. said.messages \in Seq(Message) /\ n \in Nat
  BY NdtPeer
<1>3. Sent(said.messages) = said.messages
  <2>1. \A m \in Message : [type |-> m.type, text |-> m.text] = m
    BY DEF Message
  <2>2. \A i \in 1 .. n : said.messages[i] \in Message
    BY <1>2, ElementOfSeq
  <2>3. DOMAIN said.messages = 1 .. n /\ said.messages = [i \in 1 .. n |-> said.messages[i]]
    BY <1>2
  <2>4. Sent(said.messages) = [i \in 1 .. n |-> said.messages[i]]
    BY <2>1, <2>2, <2>3 DEF Sent
  <2> QED
    BY <2>3, <2>4
<1>4. IsPrefix(got, said.messages) /\ (k = n => got = said.messages)
  BY <1>1, <1>2, PrefixOf
<1>5. ASSUME WireOver PROVE k = n
  <2>1. reading.at \in {"header", "payload"}
    BY DEF NdtRead
  <2>2. ~Ready /\ Len(wire) = 0
    BY <1>5, <2>1 DEF WireOver, Waits, Available
  <2>3. buffer \o wire = buffer
    BY <1>1, <2>2, EmptySeq, ConcatEmptySeq
  <2>4. SUFFICES ASSUME k < n PROVE FALSE
    BY <1>1, <1>2
  <2> DEFINE m == said.messages[k + 1]
             text == m.text
             after == FormatsFrom(k + 1)
  <2>5. /\ FormatsFrom(k) = format_any(m) \o after /\ after \in Seq(Byte) /\ m \in Message
        /\ Len(text) < 65536
    <3>1. k \in Nat /\ k < Len(said.messages)
      BY <1>1, <2>4
    <3> HIDE DEF k
    <3> QED
      BY <3>1, FormatsNext
  <2>6. CASE reading.at = "header"
    <3>1. Len(buffer) < 3 /\ Len(buffer) \in Nat
      BY <1>1, <2>2, <2>6 DEF Ready, needed, length
    <3>2. buffer = format_any(m) \o after
      BY <2>3, <2>5, <2>6 DEF NdtRead
    <3> HIDE DEF m, after, text
    <3>3. /\ format_any(m) \in Seq(Byte) /\ format_any(m) = HeadOf(m) \o m.text
          /\ HeadOf(m) \in Seq(Byte) /\ Len(HeadOf(m)) = 3 /\ m.text \in Seq(Byte)
      BY <2>5, HeadTyped DEF Message, text
    <3>4. Len(format_any(m)) = 3 + Len(m.text) /\ Len(m.text) \in Nat
      <4> DEFINE h == HeadOf(m)
                 x == m.text
      <4>1. h \in Seq(Byte) /\ Len(h) = 3 /\ x \in Seq(Byte) /\ format_any(m) = h \o x
        BY <3>3
      <4> HIDE DEF h, x
      <4>2. Len(h \o x) = Len(h) + Len(x) /\ Len(x) \in Nat
        <5>1. h \in Seq(Byte) /\ x \in Seq(Byte)
          BY <4>1
        <5> QED
          BY <5>1, Lengths
      <4>3. Len(format_any(m)) = 3 + Len(x) /\ Len(x) \in Nat
        BY <4>1, <4>2
      <4> QED
        BY <4>3 DEF x
    <3>5. Len(buffer) = Len(format_any(m)) + Len(after) /\ Len(after) \in Nat
      BY <2>5, <3>2, <3>3, ConcatProperties
    <3> QED
      BY <3>1, <3>4, <3>5
  <2>7. CASE reading.at = "payload"
    <3>1. Len(buffer) < Len(text) /\ Len(buffer) \in Nat
      BY <1>1, <2>2, <2>7 DEF Ready, needed, length, NdtRead
    <3>2. buffer = text \o after
      BY <2>3, <2>7 DEF NdtRead
    <3>3. text \in Seq(Byte)
      BY <2>5 DEF Message
    <3> HIDE DEF text, after
    <3>4. Len(buffer) = Len(text) + Len(after) /\ Len(after) \in Nat /\ Len(text) \in Nat
      BY <2>5, <3>2, <3>3, ConcatProperties
    <3> QED
      BY <3>1, <3>4
  <2> QED
    BY <2>1, <2>6, <2>7
<1> QED
  BY <1>3, <1>4, <1>5 DEF MessagesWhole

-----------------------------------------------------------------------------
(* Wire: lines.                                                            *)

LineOf(l) ==
  Len(l) <= MaxLine /\ Last(l) = 10 /\ \A j \in 1 .. Len(l) - 1 : l[j] # 10

LinesRead ==
  /\ reading \in [at : {"line", "LineTooLong", "EOLNotFound"}, type : Nat, length : Nat]
  /\ buffer \in Seq(Byte) /\ wire \in Seq(Byte)
  /\ got \in Seq(Seq(Byte)) /\ \A i \in DOMAIN got : LineOf(got[i])
  /\ FlattenSeq(got) \o (buffer \o wire) = said.data

\* A line is what comes before the first line feed, and the line feed.
LEMMA FirstLine ==
  ASSUME buffer \in Seq(Byte), 10 \in Range(buffer)
  PROVE  \E n \in 1 .. Len(buffer) :
           /\ buffer[n] = 10 /\ \A j \in 1 .. n - 1 : buffer[j] # 10
           /\ Line = IF n > MaxLine THEN [err |-> "LineTooLong", line |-> <<>>]
                     ELSE [err |-> "ok", line |-> SubSeq(buffer, 1, n)]
<1> DEFINE ends == {i \in DOMAIN buffer : buffer[i] = 10}
           first(i) == i \in ends /\ \A j \in ends : i <= j
           n == CHOOSE i \in ends : \A j \in ends : i <= j
<1>1. ends # {} /\ ends \subseteq 1 .. Len(buffer) /\ Len(buffer) \in Nat
  BY DEF Range
<1>2. Line = IF n > MaxLine THEN [err |-> "LineTooLong", line |-> <<>>]
             ELSE [err |-> "ok", line |-> readpeek(buffer, n)]
  BY <1>1 DEF Line, readline
<1> HIDE DEF ends
<1>3. \E i \in ends : \A j \in ends : i <= j
  <2>1. ends \subseteq Nat
    BY <1>1
  <2> QED
    BY <1>1, <2>1, SmallestNumber
<1>4. n \in ends /\ \A j \in ends : n <= j
  BY <1>3
<1> HIDE DEF n
<1>5. n \in 1 .. Len(buffer) /\ buffer[n] = 10
  BY <1>1, <1>4 DEF ends
<1>6. ASSUME NEW j \in 1 .. n - 1 PROVE buffer[j] # 10
  <2>1. j \in 1 .. Len(buffer) /\ ~(n <= j)
    BY <1>1, <1>5
  <2>2. j \notin ends
    BY <1>4, <2>1
  <2> QED
    BY <2>1, <2>2 DEF ends
<1>7. readpeek(buffer, n) = SubSeq(buffer, 1, n)
  <2>1. (IF n < Len(buffer) THEN n ELSE Len(buffer)) = n
    BY <1>1, <1>5
  <2> QED
    BY <2>1, Zenon DEF readpeek, length
<1> QED
  BY <1>2, <1>5, <1>6, <1>7

LEMMA NoLine ==
  ASSUME buffer \in Seq(Byte), 10 \notin Range(buffer)
  PROVE  /\ Line.line = <<>> /\ Line.err \in {"ok", "EOLNotFound"}
<1> DEFINE ends == {i \in DOMAIN buffer : buffer[i] = 10}
<1>1. ends = {}
  BY DEF Range
<1>2. Len(buffer) \in Nat /\ MaxLine \in Nat
  BY WireConstants
<1>3. \/ Len(buffer) > MaxLine /\ Line = [err |-> "EOLNotFound", line |-> <<>>]
      \/ Len(buffer) <= MaxLine /\ Line = [err |-> "ok", line |-> <<>>]
  BY <1>1, <1>2 DEF Line, readline, length
<1> QED
  BY <1>3

LEMMA LineTaken ==
  ASSUME LinesRead, TakeLine
  PROVE  LinesRead'
<1>1. /\ reading \in [at : {"line", "LineTooLong", "EOLNotFound"}, type : Nat, length : Nat]
      /\ buffer \in Seq(Byte) /\ wire \in Seq(Byte)
      /\ got \in Seq(Seq(Byte)) /\ \A i \in DOMAIN got : LineOf(got[i])
      /\ FlattenSeq(got) \o (buffer \o wire) = said.data
  BY DEF LinesRead
<1>2. /\ LineReady /\ said' = said /\ wire' = wire
      /\ \/ /\ Line.err = "ok" /\ reading' = reading
            /\ got' = Append(got, Line.line) /\ buffer' = discard(buffer, Len(Line.line))
         \/ /\ Line.err # "ok" /\ got' = got /\ buffer' = buffer
            /\ reading' = [reading EXCEPT !.at = Line.err]
  BY DEF TakeLine
<1>3. CASE Line.err # "ok"
  <2>1. Line.err \in {"LineTooLong", "EOLNotFound"}
    <3>1. CASE 10 \in Range(buffer)
      BY <1>1, <1>3, <3>1, FirstLine
    <3>2. CASE 10 \notin Range(buffer)
      BY <1>1, <1>3, <3>2, NoLine
    <3> QED
      BY <3>1, <3>2
  <2>2. got' = got /\ buffer' = buffer /\ reading' = [reading EXCEPT !.at = Line.err]
    BY <1>2, <1>3
  <2>3. reading' \in [at : {"line", "LineTooLong", "EOLNotFound"}, type : Nat, length : Nat]
    BY <1>1, <2>1, <2>2
  <2> QED
    BY <1>1, <1>2, <2>2, <2>3 DEF LinesRead
<1>4. CASE Line.err = "ok"
  <2>1. reading' = reading /\ got' = Append(got, Line.line) /\ buffer' = discard(buffer, Len(Line.line))
    BY <1>2, <1>4
  <2>2. 10 \in Range(buffer)
    BY <1>1, <1>2, <1>4, NoLine DEF LineReady
  <2>3. PICK n \in 1 .. Len(buffer) :
           /\ buffer[n] = 10 /\ \A j \in 1 .. n - 1 : buffer[j] # 10
           /\ Line = IF n > MaxLine THEN [err |-> "LineTooLong", line |-> <<>>]
                     ELSE [err |-> "ok", line |-> SubSeq(buffer, 1, n)]
    BY <1>1, <2>2, FirstLine
  <2> DEFINE l == SubSeq(buffer, 1, n)
             rest == SubSeq(buffer, n + 1, Len(buffer))
  <2>4. Line.line = l /\ n <= MaxLine /\ n \in Nat /\ n >= 1
    <3>1. MaxLine \in Nat /\ Len(buffer) \in Nat
      BY <1>1, WireConstants
    <3> QED
      BY <1>4, <2>3, <3>1
  <2>5. /\ l \in Seq(Byte) /\ Len(l) = n /\ rest \in Seq(Byte) /\ l \o rest = buffer
        /\ \A i \in 1 .. n : l[i] = buffer[i]
    <3>1. n \in 0 .. Len(buffer)
      BY <2>3
    <3>2. \A i \in 1 .. n : l[i] = buffer[i]
      BY <1>1, <3>1
    <3> HIDE DEF l, rest
    <3> QED
      BY <1>1, <3>1, <3>2, Parted DEF l, rest
  <2>6. buffer' = rest
    BY <2>1, <2>4, <2>5 DEF discard, length
  <2> HIDE DEF l, rest
  <2>7. LineOf(l)
    <3>1. l[n] = 10 /\ \A j \in 1 .. n - 1 : l[j] # 10
      BY <2>3, <2>4, <2>5
    <3> QED
      BY <2>4, <2>5, <3>1 DEF LineOf, Last
  <2>8. got' \in Seq(Seq(Byte)) /\ \A i \in DOMAIN got' : LineOf(got'[i])
    <3>1. /\ got' \in Seq(Seq(Byte)) /\ Len(got') = Len(got) + 1 /\ got'[Len(got) + 1] = l
          /\ \A i \in 1 .. Len(got) : got'[i] = got[i]
      BY <1>1, <2>1, <2>4, <2>5, AppendProperties
    <3>2. Len(got) \in Nat /\ DOMAIN got = 1 .. Len(got) /\ DOMAIN got' = 1 .. Len(got) + 1
      BY <1>1, <3>1
    <3>3. \A i \in DOMAIN got' : i \in DOMAIN got \/ i = Len(got) + 1
      BY <3>2
    <3> QED
      BY <1>1, <2>7, <3>1, <3>2, <3>3
  <2>9. FlattenSeq(got') \o (buffer' \o wire') = said.data
    <3> DEFINE f == FlattenSeq(got)
    <3>1. FlattenSeq(got') = f \o l /\ f \in Seq(Byte)
      BY <1>1, <2>1, <2>4, <2>5, FlattenLast, ZenonT(40)
    <3>2. l \in Seq(Byte) /\ rest \in Seq(Byte) /\ wire \in Seq(Byte)
      BY <1>1, <2>5
    <3>3. f \o (buffer \o wire) = said.data /\ l \o rest = buffer
      BY <1>1, <2>5
    <3> HIDE DEF f
    <3>4. (f \o l) \o (rest \o wire) = f \o ((l \o rest) \o wire)
      <4>1. Four(Byte, f, l, rest, wire)
        BY <3>1, <3>2 DEF Four
      <4> QED
        BY <4>1, Shifted, SMTT(20)
    <3> QED
      BY <1>2, <2>6, <3>1, <3>3, <3>4
  <2> QED
    BY <1>1, <1>2, <2>1, <2>5, <2>6, <2>8, <2>9 DEF LinesRead
<1> QED
  BY <1>3, <1>4

LEMMA LinesStep ==
  ASSUME said.protocol = "lines", Peer(said), LinesRead, WireNext
  PROVE  LinesRead'
<1>1. reading.at \in {"line", "LineTooLong", "EOLNotFound"}
  BY DEF LinesRead
<1>2. ~read_ll
  BY <1>1 DEF read_ll
<1>3. ASSUME PieceArrives PROVE LinesRead'
  <2>1. wire \in Seq(Byte) /\ buffer \in Seq(Byte) /\ said.pieces \subseteq Nat
    BY DEF LinesRead, Peer
  <2>2. PICK n \in 0 .. Len(wire) :
          /\ wire' = SubSeq(wire, n + 1, Len(wire)) /\ Keep(SubSeq(wire, 1, n)) /\ said' = said
    BY <1>1, <1>3, <2>1, PieceOf
  <2>3. buffer' \in Seq(Byte) /\ wire' \in Seq(Byte) /\ buffer' \o wire' = buffer \o wire
    BY <2>1, <2>2, PieceKept DEF Keep
  <2>4. UNCHANGED <<said, reading, got>>
    BY <2>2 DEF Keep
  <2> QED
    BY <2>3, <2>4 DEF LinesRead
<1> QED
  BY <1>2, <1>3, LineTaken DEF WireNext

\* What a sequence begins with.
LEMMA Begins ==
  ASSUME NEW T, NEW x \in Seq(T), NEW y \in Seq(T), NEW z, z = x \o y
  PROVE  IsPrefix(x, z)
<1>1. /\ z \in Seq(T) /\ Len(z) = Len(x) + Len(y) /\ Len(x) \in Nat /\ Len(y) \in Nat
      /\ \A i \in 1 .. Len(x) + Len(y) : z[i] = IF i <= Len(x) THEN x[i] ELSE y[i - Len(x)]
  BY ConcatProperties
<1>2. Len(x) <= Len(z) /\ \A i \in 1 .. Len(x) : x[i] = z[i]
  BY <1>1
<1> QED
  BY <1>1, <1>2, PrefixOf

LEMMA LinesWhole ==
  ASSUME said.protocol = "lines", Peer(said), LinesRead
  PROVE  MessagesWhole
<1>1. IsPrefix(FlattenSeq(got), said.data)
  <2> DEFINE f == FlattenSeq(got)
             rest == buffer \o wire
  <2>1. f \in Seq(Byte) /\ rest \in Seq(Byte)
    BY FlattenIn, Joined DEF LinesRead
  <2>2. said.data = f \o rest
    BY DEF LinesRead
  <2> HIDE DEF f, rest
  <2>3. IsPrefix(f, said.data)
    BY <2>1, <2>2, Begins
  <2> QED
    BY <2>3 DEF f
<1>2. \A i \in DOMAIN got : Len(got[i]) <= MaxLine /\ Last(got[i]) = 10
                             /\ \A j \in 1 .. Len(got[i]) - 1 : got[i][j] # 10
  BY DEF LinesRead, LineOf
<1>3. ASSUME WireOver, reading.at = "line", 10 \in Range(buffer) PROVE FALSE
  <2>1. ~LineReady /\ buffer \in Seq(Byte)
    BY <1>3 DEF WireOver, Waits, LinesRead
  <2>2. PICK n \in 1 .. Len(buffer) :
           /\ buffer[n] = 10 /\ \A j \in 1 .. n - 1 : buffer[j] # 10
           /\ Line = IF n > MaxLine THEN [err |-> "LineTooLong", line |-> <<>>]
                     ELSE [err |-> "ok", line |-> SubSeq(buffer, 1, n)]
    BY <1>3, <2>1, FirstLine
  <2>3. SubSeq(buffer, 1, n) # <<>> /\ buffer # <<>>
    BY <2>1, <2>2
  <2> QED
    BY <2>1, <2>2, <2>3 DEF LineReady
<1> QED
  BY <1>1, <1>2, <1>3 DEF MessagesWhole

-----------------------------------------------------------------------------
(* Wire: the answers of a SOCKS5 proxy.                                    *)

\* Why a proxy is refused.
Refuses ==
  \/ said.auth # <<5, 0>> \/ said.answer.version # 5 \/ said.answer.reply # 0
  \/ said.answer.reserved # 0 \/ said.answer.atype \notin {1, 3, 4}

Refusals ==
  {"BadSocksVersion", "NoAvailableSocksAuthentication", "Socks", "BadSocksReservedField",
   "BadSocksAtypeValue"}

SocksRead ==
  /\ reading \in [at : {"auth", "connect", "up"} \cup Refusals, type : Nat, length : Nat]
  /\ buffer \in Seq(Byte) /\ wire \in Seq(Byte)
  /\ reading.at = "auth" =>
       /\ buffer \o wire = said.auth \o (Reply(said.answer) \o said.data)
       /\ Len(buffer) < 2 /\ got = <<>>
  /\ reading.at = "connect" =>
       /\ buffer \o wire = Reply(said.answer) \o said.data
       /\ Len(buffer) < Len(Reply(said.answer)) /\ got = <<>>
  /\ reading.at = "up" => got \in Seq(Byte) /\ got \o wire = said.data /\ buffer = <<>>
  /\ reading.at \in Refusals => Refuses

\* A name that a char can measure.
ShortName(m) == m.atype = 3 => m.name < 128

ProxyAnswer == [version : Byte, reply : Byte, reserved : Byte, atype : Byte, name : Byte]

LEMMA SocksPeer ==
  ASSUME said.protocol = "socks5", Peer(said)
  PROVE  /\ said.auth \in Seq(Byte) /\ Len(said.auth) = 2 /\ said.data \in Seq(Byte)
         /\ said.answer \in ProxyAnswer /\ said.pieces \subseteq Nat
<1>1. /\ said.auth \in Seq(Byte) /\ Len(said.auth) = 2 /\ said.data \in Seq(Byte)
      /\ said.answer \in [version : Byte, reply : Byte, reserved : Byte, atype : Byte, name : Byte]
      /\ said.pieces \subseteq Nat
  BY DEF Peer
<1> QED
  BY <1>1 DEF ProxyAnswer

Zeros(k) == [i \in 1 .. k |-> 0]

AddressOf(m) ==
  CASE m.atype = 1 -> Zeros(4)
    [] m.atype = 3 -> <<m.name>> \o Zeros(m.name)
    [] OTHER -> Zeros(16)

LEMMA ZerosTyped == \A k \in Nat : Zeros(k) \in Seq(Byte) /\ Len(Zeros(k)) = k
BY DEF Zeros, Byte

LEMMA AddressTyped ==
  ASSUME NEW m \in ProxyAnswer
  PROVE  /\ AddressOf(m) \in Seq(Byte) /\ Len(AddressOf(m)) >= 1
         /\ m.atype = 1 => Len(AddressOf(m)) = 4
         /\ m.atype = 3 => Len(AddressOf(m)) = 1 + m.name /\ AddressOf(m)[1] = m.name
         /\ m.atype = 4 => Len(AddressOf(m)) = 16
<1> DEFINE address == AddressOf(m)
           size == Len(address)
<1> SUFFICES /\ address \in Seq(Byte) /\ size >= 1
             /\ m.atype = 1 => size = 4
             /\ m.atype = 3 => size = 1 + m.name /\ address[1] = m.name
             /\ m.atype = 4 => size = 16
  OBVIOUS
<1>2. m.name \in Byte /\ m.name \in Nat
  BY BytesAreNumbers DEF ProxyAnswer
<1>3. CASE m.atype = 1
  <2>1. AddressOf(m) = Zeros(4)
    BY <1>3 DEF AddressOf
  <2>2. address \in Seq(Byte) /\ size = 4
    BY <2>1, ZerosTyped
  <2> HIDE DEF address, size
  <2> QED
    BY <1>3, <2>2
<1>4. CASE m.atype = 3
  <2> DEFINE name == Zeros(m.name)
             one == <<m.name>>
  <2>1. name \in Seq(Byte) /\ Len(name) = m.name
    BY <1>2, ZerosTyped
  <2>2. one \in Seq(Byte) /\ Len(one) = 1 /\ one[1] = m.name
    BY <1>2
  <2>3. AddressOf(m) = one \o name
    BY <1>4 DEF AddressOf
  <2> HIDE DEF name, one
  <2>4. Pair(Byte, one, name)
    BY <2>1, <2>2 DEF Pair
  <2>5. /\ AddressOf(m) \in Seq(Byte) /\ Len(AddressOf(m)) = Len(one) + Len(name)
        /\ \A i \in 1 .. Len(one) + Len(name) :
             AddressOf(m)[i] = IF i <= Len(one) THEN one[i] ELSE name[i - Len(one)]
    BY <2>3, <2>4, Both
  <2>6. 1 \in 1 .. Len(one) + Len(name) /\ 1 <= Len(one)
    BY <1>2, <2>1, <2>2
  <2>7. Len(AddressOf(m)) = 1 + m.name /\ AddressOf(m)[1] = m.name
    BY <2>1, <2>2, <2>5, <2>6
  <2>8. address \in Seq(Byte) /\ size = 1 + m.name /\ address[1] = m.name
    BY <2>5, <2>7
  <2> HIDE DEF address, size
  <2> QED
    BY <1>2, <1>4, <2>8
<1>5. CASE m.atype \notin {1, 3}
  <2>1. AddressOf(m) = Zeros(16)
    BY <1>5 DEF AddressOf
  <2>2. address \in Seq(Byte) /\ size = 16
    BY <2>1, ZerosTyped
  <2> HIDE DEF address, size
  <2> QED
    BY <1>5, <2>2
<1> QED
  BY <1>3, <1>4, <1>5

LEMMA ReplyTyped ==
  ASSUME NEW m \in ProxyAnswer
  PROVE  /\ Reply(m) \in Seq(Byte) /\ Len(Reply(m)) = 6 + Len(AddressOf(m))
         /\ Reply(m)[1] = m.version /\ Reply(m)[2] = m.reply
         /\ Reply(m)[3] = m.reserved /\ Reply(m)[4] = m.atype
         /\ Reply(m)[5] = AddressOf(m)[1]
<1> DEFINE head == <<m.version, m.reply, m.reserved, m.atype>>
           address == AddressOf(m)
           port == write_uint16(80)
           all == Reply(m)
<1>1. all = (head \o address) \o port
  BY DEF Reply, AddressOf, Zeros
<1>2. port \in Seq(Byte) /\ Len(port) = 2
  BY DEF write_uint16, Byte
<1>3. /\ head \in Seq(Byte) /\ Len(head) = 4 /\ head[1] = m.version /\ head[2] = m.reply
      /\ head[3] = m.reserved /\ head[4] = m.atype
  BY DEF ProxyAnswer
<1>4. address \in Seq(Byte) /\ Len(address) >= 1 /\ Len(address) \in Nat
  BY AddressTyped
<1> HIDE DEF head, address, port, all
<1> DEFINE first == head \o address
<1>5. /\ first \in Seq(Byte) /\ Len(first) = 4 + Len(address)
      /\ \A i \in 1 .. 4 + Len(address) : first[i] = IF i <= 4 THEN head[i] ELSE address[i - 4]
  <2>1. Pair(Byte, head, address)
    BY <1>3, <1>4 DEF Pair
  <2> HIDE DEF first
  <2>2. /\ first \in Seq(Byte) /\ Len(first) = Len(head) + Len(address)
        /\ \A i \in 1 .. Len(head) + Len(address) :
             first[i] = IF i <= Len(head) THEN head[i] ELSE address[i - Len(head)]
    BY <2>1, Both DEF first
  <2> QED
    BY <1>3, <2>2
<1>6. all = first \o port
  BY <1>1
<1> HIDE DEF first
<1>7. /\ all \in Seq(Byte) /\ Len(all) = Len(first) + 2
      /\ \A i \in 1 .. Len(first) + 2 : all[i] = IF i <= Len(first) THEN first[i] ELSE port[i - Len(first)]
  <2>1. Pair(Byte, first, port)
    BY <1>2, <1>5 DEF Pair
  <2>2. /\ all \in Seq(Byte) /\ Len(all) = Len(first) + Len(port)
        /\ \A i \in 1 .. Len(first) + Len(port) :
             all[i] = IF i <= Len(first) THEN first[i] ELSE port[i - Len(first)]
    BY <1>6, <2>1, Both
  <2> QED
    BY <1>2, <2>2
<1>8. \A i \in 1 .. 5 : all[i] = first[i]
  <2> TAKE i \in 1 .. 5
  <2>1. i \in 1 .. Len(first) + 2 /\ i <= Len(first)
    BY <1>4, <1>5
  <2> QED
    BY <1>7, <2>1
<1>9. \A i \in 1 .. 4 : first[i] = head[i]
  BY <1>4, <1>5
<1>10. first[5] = address[1]
  BY <1>4, <1>5
<1>11. Len(all) = 6 + Len(address)
  BY <1>4, <1>5, <1>7
<1> QED
  BY <1>3, <1>7, <1>8, <1>9, <1>10, <1>11 DEF all, address

LEMMA AuthParsed ==
  ASSUME NEW b \in Seq(Byte), NEW w \in Seq(Byte), NEW auth \in Seq(Byte), NEW x \in Seq(Byte),
         b \o w = auth \o x, Len(auth) = 2, Len(b) <= 2
  PROVE  \/ socks5_parse_auth_response(b) = "again" /\ Len(b) < 2
         \/ /\ socks5_parse_auth_response(b) = "ok"
            /\ discard(b, 2) = <<>> /\ discard(b, 2) \o w = x
         \/ /\ socks5_parse_auth_response(b) \in {"BadSocksVersion", "NoAvailableSocksAuthentication"}
            /\ auth # <<5, 0>>
<1>1. Len(b) \in Nat
  OBVIOUS
<1>2. CASE Len(b) < 2
  <2>1. readn(b, 2) = <<>>
    BY <1>1, <1>2 DEF readn, length
  <2> QED
    BY <1>2, <2>1 DEF socks5_parse_auth_response
<1>3. CASE Len(b) = 2
  <2>1. HasArrived(Byte, b, w, auth, x)
    BY <1>3 DEF HasArrived
  <2>2. readn(b, Len(auth)) = auth /\ discard(b, Len(auth)) \o w = x
    <3>1. /\ readpeek(b, Len(auth)) = auth /\ readn(b, Len(auth)) = auth
          /\ discard(b, Len(auth)) \in Seq(Byte) /\ discard(b, Len(auth)) \o w = x
      BY <2>1, Taken
    <3> QED
      BY <3>1
  <2>3. readn(b, 2) = auth /\ discard(b, 2) \o w = x
    BY <2>2
  <2>4. discard(b, 2) = <<>>
    BY <1>3 DEF discard, length
  <2>5. auth # <<>>
    <3>1. Len(auth) # 0
      OBVIOUS
    <3> QED
      BY <3>1, NotEmpty
  <2>6. auth[1] # 5 \/ auth[2] # 0 => auth # <<5, 0>>
    OBVIOUS
  <2> DEFINE one == auth[1]
             two == auth[2]
  <2>7. \/ socks5_parse_auth_response(b) = "ok"
        \/ /\ socks5_parse_auth_response(b) \in {"BadSocksVersion", "NoAvailableSocksAuthentication"}
           /\ (one # 5 \/ two # 0)
    BY <2>3, <2>5 DEF socks5_parse_auth_response
  <2> QED
    BY <2>3, <2>4, <2>6, <2>7
<1>4. Len(b) < 2 \/ Len(b) = 2
  BY <1>1
<1> QED
  BY <1>2, <1>3, <1>4, Zenon

\* The arithmetic of a short name is that of its bytes.
LEMMA TotalIs ==
  ASSUME NEW m \in ProxyAnswer, m.atype \in {1, 3, 4}, ShortName(m), NEW p, p[4] = m.atype, p[5] = AddressOf(m)[1]
  PROVE  total(p) = Len(Reply(m)) /\ Len(Reply(m)) \in Nat
<1> DEFINE size == Len(AddressOf(m))
<1>1. /\ m.atype = 1 => size = 4
      /\ m.atype = 3 => size = 1 + m.name /\ AddressOf(m)[1] = m.name
      /\ m.atype = 4 => size = 16
      /\ Len(Reply(m)) = 6 + size
  BY AddressTyped, ReplyTyped
<1>2. m.name \in Nat
  BY BytesAreNumbers DEF ProxyAnswer
<1> HIDE DEF size
<1>3. CASE m.atype = 1
  <2>1. total(p) = 4 + 2 + 4
    BY <1>3 DEF total
  <2> QED
    BY <1>1, <1>3, <2>1
<1>4. CASE m.atype = 3
  <2>1. total(p) = 4 + 2 + (1 + Signed(m.name))
    BY <1>1, <1>4 DEF total
  <2>2. Signed(m.name) = m.name
    BY <1>2, <1>4 DEF Signed, ShortName
  <2> QED
    BY <1>1, <1>2, <1>4, <2>1, <2>2
<1>5. CASE m.atype = 4
  <2>1. total(p) = 4 + 2 + 16
    BY <1>5 DEF total
  <2> QED
    BY <1>1, <1>5, <2>1
<1> QED
  BY <1>3, <1>4, <1>5

LEMMA ConnectParsed ==
  ASSUME NEW m \in ProxyAnswer, ShortName(m),
         NEW b \in Seq(Byte), NEW w \in Seq(Byte), NEW x \in Seq(Byte), b \o w = Reply(m) \o x
  PROVE  LET err == socks5_parse_connect_response(b)
         IN \/ err = "again" /\ Len(b) < Len(Reply(m))
            \/ /\ err = "ok" /\ discard(b, total(readpeek(b, 5))) \in Seq(Byte)
               /\ discard(b, total(readpeek(b, 5))) \o w = x
            \/ /\ err \in {"BadSocksVersion", "Socks", "BadSocksReservedField", "BadSocksAtypeValue"}
               /\ \/ m.version # 5 \/ m.reply # 0 \/ m.reserved # 0
                  \/ m.atype \notin {1, 3, 4}
<1> DEFINE err == socks5_parse_connect_response(b)
           r == Reply(m)
           p == readpeek(b, 5)
<1>1. /\ r \in Seq(Byte) /\ Len(r) = 6 + Len(AddressOf(m)) /\ Len(AddressOf(m)) >= 1
      /\ r[1] = m.version /\ r[2] = m.reply /\ r[3] = m.reserved /\ r[4] = m.atype
      /\ r[5] = AddressOf(m)[1]
  BY ReplyTyped, AddressTyped
<1>2. Len(b) \in Nat /\ Len(r) \in Nat /\ Len(r) >= 7
  BY <1>1, AddressTyped
<1>3. b \o w = r \o x
  OBVIOUS
<1> HIDE DEF r
<1>4. CASE Len(b) < 5
  <2>1. err = "again"
    BY <1>2, <1>4 DEF socks5_parse_connect_response, length
  <2>2. Len(b) < Len(r)
    BY <1>2, <1>4
  <2> QED
    BY <2>1, <2>2 DEF r
<1>5. CASE Len(b) >= 5
  <2>1. p[1] = m.version /\ p[2] = m.reply /\ p[3] = m.reserved /\ p[4] = m.atype /\ p[5] = AddressOf(m)[1]
    <3>1. \A i \in 1 .. 5 : p[i] = b[i]
      <4>1. (IF 5 < Len(b) THEN 5 ELSE Len(b)) = 5
        <5> DEFINE size == Len(b)
        <5>1. size \in Nat /\ size >= 5
          BY <1>2, <1>5
        <5> HIDE DEF size
        <5>2. (IF 5 < size THEN 5 ELSE size) = 5
          BY <5>1
        <5> QED
          BY <5>2 DEF size
      <4>2. p = SubSeq(b, 1, 5)
        BY <4>1, Zenon DEF readpeek, length
      <4>3. \A i \in 1 .. 5 : SubSeq(b, 1, 5)[i] = b[i]
        BY <1>5
      <4> HIDE DEF p
      <4> QED
        BY <4>2, <4>3
    <3> HIDE DEF p
    <3>2. \A i \in 1 .. 5 : b[i] = r[i]
      <4> TAKE i \in 1 .. 5
      <4>1. Pair(Byte, b, w) /\ Pair(Byte, r, x)
        BY <1>1 DEF Pair
      <4>2. \A j \in 1 .. Len(b) + Len(w) : (b \o w)[j] = IF j <= Len(b) THEN b[j] ELSE w[j - Len(b)]
        BY <4>1, Both
      <4>3. \A j \in 1 .. Len(r) + Len(x) : (r \o x)[j] = IF j <= Len(r) THEN r[j] ELSE x[j - Len(r)]
        BY <4>1, Both
      <4>4. i \in 1 .. Len(b) + Len(w) /\ i <= Len(b) /\ i \in 1 .. Len(r) + Len(x) /\ i <= Len(r)
        BY <1>2, <1>5
      <4>5. (b \o w)[i] = b[i] /\ (r \o x)[i] = r[i]
        BY <4>2, <4>3, <4>4
      <4> QED
        BY <1>3, <4>5
    <3> QED
      BY <1>1, <3>1, <3>2
  <2> HIDE DEF p
  <2>2. \/ /\ err \in {"BadSocksVersion", "Socks", "BadSocksReservedField", "BadSocksAtypeValue"}
           /\ (m.version # 5 \/ m.reply # 0 \/ m.reserved # 0 \/ m.atype \notin {1, 3, 4})
        \/ /\ m.atype \in {1, 3, 4}
           /\ err = IF total(p) < 0 \/ Len(b) < total(p) THEN "again" ELSE "ok"
    <3>1. Len(b) >= 5 /\ ~(Len(b) < 5)
      BY <1>2, <1>5
    <3> QED
      BY <2>1, <3>1 DEF socks5_parse_connect_response, length, p
  <2>3. ASSUME m.atype \in {1, 3, 4}, err = IF total(p) < 0 \/ Len(b) < total(p) THEN "again" ELSE "ok"
        PROVE  \/ err = "again" /\ Len(b) < Len(r)
               \/ err = "ok" /\ discard(b, total(p)) \in Seq(Byte) /\ discard(b, total(p)) \o w = x
    <3>1. total(p) = Len(r)
      BY <2>1, <2>3, TotalIs DEF r
    <3>2. ~(total(p) < 0)
      BY <1>2, <3>1
    <3>3. CASE Len(b) < Len(r)
      BY <2>3, <3>1, <3>3
    <3>4. CASE Len(b) >= Len(r)
      <4>1. HasArrived(Byte, b, w, r, x)
        BY <1>1, <1>3, <3>4 DEF HasArrived
      <4>2. discard(b, Len(r)) \in Seq(Byte) /\ discard(b, Len(r)) \o w = x
        BY <4>1, Taken
      <4>3. err = "ok"
        BY <1>2, <2>3, <3>1, <3>2, <3>4
      <4> QED
        BY <3>1, <4>2, <4>3
    <3> QED
      BY <1>2, <3>3, <3>4
  <2> HIDE DEF err
  <2> QED
    BY <2>2, <2>3 DEF p, r, err
<1> QED
  BY <1>2, <1>4, <1>5

LEMMA AnswerLeads ==
  ASSUME reading \in [at : {"auth", "connect", "up"} \cup Refusals, type : Nat, length : Nat],
         NEW err \in Refusals \cup {"again", "ok"}, NEW b, NEW next \in {"connect", "up"}, NEW count,
         Answered(err, b, next, count)
  PROVE  /\ reading' \in [at : {"auth", "connect", "up"} \cup Refusals, type : Nat, length : Nat]
         /\ err = "again" => buffer' = b /\ reading' = reading /\ got' = got
         /\ err = "ok" /\ next = "connect" =>
              reading'.at = "connect" /\ buffer' = discard(b, count) /\ got' = got
         /\ err = "ok" /\ next = "up" =>
              reading'.at = "up" /\ buffer' = <<>> /\ got' = discard(b, count)
         /\ err \in Refusals => reading'.at = err /\ buffer' = b
<1>1. CASE err = "again"
  BY <1>1 DEF Answered, Refusals
<1>2. CASE err = "ok"
  BY <1>2 DEF Answered, Refusals
<1>3. CASE err \in Refusals
  <2>1. reading' = [reading EXCEPT !.at = err] /\ buffer' = b
    BY <1>3 DEF Answered, Refusals
  <2> QED
    BY <1>3, <2>1 DEF Refusals
<1> QED
  BY <1>1, <1>2, <1>3

\* What the invariant says of what a peer said changes with nothing.
LEMMA SaidSame ==
  ASSUME said' = said
  PROVE  /\ Reply(said.answer)' = Reply(said.answer) /\ said.auth' = said.auth
         /\ said.data' = said.data /\ Refuses' = Refuses
BY DEF Refuses, Reply

LEMMA AuthPiece ==
  ASSUME said.protocol = "socks5", Peer(said), ShortName(said.answer), SocksRead, PieceArrives,
         reading.at = "auth"
  PROVE  SocksRead'
<1> DEFINE auth == said.auth
           x == Reply(said.answer) \o said.data
           err(b) == socks5_parse_auth_response(b)
<1>1. /\ reading \in [at : {"auth", "connect", "up"} \cup Refusals, type : Nat, length : Nat]
      /\ buffer \in Seq(Byte) /\ wire \in Seq(Byte) /\ got = <<>>
      /\ buffer \o wire = auth \o x
  BY DEF SocksRead
<1>2. /\ auth \in Seq(Byte) /\ Len(auth) = 2 /\ x \in Seq(Byte)
      /\ said.pieces \subseteq Nat /\ Len(x) \in Nat /\ Len(Reply(said.answer)) >= 6
  <2>1. /\ Reply(said.answer) \in Seq(Byte) /\ said.data \in Seq(Byte)
        /\ Len(Reply(said.answer)) = 6 + Len(AddressOf(said.answer))
        /\ Len(AddressOf(said.answer)) >= 1 /\ AddressOf(said.answer) \in Seq(Byte)
    BY SocksPeer, ReplyTyped, AddressTyped
  <2>2. x \in Seq(Byte)
    BY <2>1, Joined
  <2>3. auth \in Seq(Byte) /\ Len(auth) = 2 /\ said.pieces \subseteq Nat
    BY SocksPeer
  <2> DEFINE r == Reply(said.answer)
             size == Len(AddressOf(said.answer))
  <2>4. Len(r) = 6 + size /\ size >= 1 /\ size \in Nat
    BY <2>1, LengthIsNat
  <2> HIDE DEF auth, x, r, size
  <2>5. Len(x) \in Nat
    BY <2>2, LengthIsNat
  <2>6. Len(r) >= 6
    BY <2>4
  <2> QED
    BY <2>2, <2>3, <2>5, <2>6 DEF r
<1>3. PICK n \in Nat :
        /\ n <= Len(wire) - Len(x) /\ wire' = SubSeq(wire, n + 1, Len(wire))
        /\ socks5_connect_reads(SubSeq(wire, 1, n)) /\ said' = said
  <2>1. Available = Len(wire) - Len(x) /\ Len(wire) \in Nat
    BY <1>1, LengthIsNat DEF Available
  <2> HIDE DEF x
  <2>2. Available > 0 /\ said' = said
    BY DEF PieceArrives
  <2>3. Available \in Nat
    BY <1>2, <2>1, <2>2
  <2>4. PICK n \in said.pieces \cup {Available} :
        /\ n <= Available
        /\ wire' = SubSeq(wire, n + 1, Len(wire))
        /\ CASE reading.at \in {"auth", "connect", "up"} -> socks5_connect_reads(SubSeq(wire, 1, n))
             [] reading.at = "feed" -> feed_chunk(SubSeq(wire, 1, n))
             [] OTHER -> Keep(SubSeq(wire, 1, n))
    BY DEF PieceArrives
  <2>5. socks5_connect_reads(SubSeq(wire, 1, n))
    BY <2>4
  <2>6. n \in Nat
    BY <1>2, <2>3, <2>4
  <2> QED
    BY <2>1, <2>2, <2>4, <2>5, <2>6
<1> HIDE DEF auth, x
<1> DEFINE b == buffer \o SubSeq(wire, 1, n)
<1>4. n \in 0 .. Len(wire)
  BY <1>1, <1>2, <1>3
<1>5. /\ b \in Seq(Byte) /\ wire' \in Seq(Byte) /\ b \o wire' = buffer \o wire
      /\ Len(wire') = Len(wire) - n /\ Len(wire) \in Nat
  <2>1. /\ b \in Seq(Byte) /\ SubSeq(wire, n + 1, Len(wire)) \in Seq(Byte)
        /\ b \o SubSeq(wire, n + 1, Len(wire)) = buffer \o wire
    <3>1. buffer \in Seq(Byte) /\ wire \in Seq(Byte) /\ n \in 0 .. Len(wire)
      BY <1>1, <1>4
    <3> QED
      BY <3>1, PieceKept
  <2>2. Len(SubSeq(wire, n + 1, Len(wire))) = Len(wire) - n
    BY <1>1, <1>4, Parted
  <2>3. Len(wire) \in Nat
    BY <1>1, LengthIsNat
  <2> HIDE DEF b
  <2> QED
    BY <1>3, <2>1, <2>2, <2>3
<1>6. Answered(err(b), b, "connect", 2)
  BY <1>3 DEF socks5_connect_reads
<1> HIDE DEF b
<1>7. b \o wire' = auth \o x
  BY <1>1, <1>5
<1>8. Len(b) <= 2
  <2>1. Pair(Byte, b, wire') /\ Pair(Byte, auth, x)
    BY <1>2, <1>5 DEF Pair
  <2>2. Len(b \o wire') = Len(b) + Len(wire')
    BY <2>1, Both
  <2>4. Len(auth \o x) = Len(auth) + Len(x)
    BY <2>1, Both
  <2>5. Len(b) \in Nat
    BY <1>5, LengthIsNat
  <2>3. Len(b) \in Nat /\ Len(b) + Len(wire') = 2 + Len(x)
    BY <1>2, <1>7, <2>2, <2>4, <2>5
  <2> QED
    BY <1>2, <1>3, <1>5, <2>3
<1>9. \/ err(b) = "again" /\ Len(b) < 2
      \/ err(b) = "ok" /\ discard(b, 2) = <<>> /\ discard(b, 2) \o wire' = x
      \/ err(b) \in {"BadSocksVersion", "NoAvailableSocksAuthentication"} /\ auth # <<5, 0>>
  BY <1>2, <1>5, <1>7, <1>8, AuthParsed
<1> HIDE DEF err
<1>10. /\ reading' \in [at : {"auth", "connect", "up"} \cup Refusals, type : Nat, length : Nat]
       /\ err(b) = "again" => buffer' = b /\ reading' = reading /\ got' = got
       /\ err(b) = "ok" => reading'.at = "connect" /\ buffer' = discard(b, 2) /\ got' = got
       /\ err(b) \in Refusals => reading'.at = err(b) /\ buffer' = b
  <2>1. err(b) \in Refusals \cup {"again", "ok"}
    BY <1>9 DEF Refusals
  <2> QED
    BY <1>1, <1>6, <2>1, AnswerLeads
<1>11. /\ Reply(said.answer)' = Reply(said.answer) /\ said.auth' = auth
       /\ said.data' = said.data /\ Refuses' = Refuses /\ x = Reply(said.answer) \o said.data
  BY <1>3, SaidSame DEF auth, x
<1>12. CASE err(b) = "again" /\ Len(b) < 2
  BY <1>1, <1>5, <1>7, <1>10, <1>11, <1>12 DEF SocksRead, Refusals
<1>13. CASE err(b) = "ok" /\ discard(b, 2) = <<>> /\ discard(b, 2) \o wire' = x
  <2>1. reading'.at = "connect" /\ buffer' = discard(b, 2) /\ got' = <<>>
    BY <1>1, <1>10, <1>13
  <2>2. buffer' \o wire' = x /\ buffer' = <<>>
    BY <1>13, <2>1
  <2>3. buffer' \in Seq(Byte) /\ Len(buffer') < Len(Reply(said.answer))
    <3>1. Len(<<>>) = 0 /\ <<>> \in Seq(Byte)
      BY EmptySeq
    <3> QED
      BY <1>2, <2>2, <3>1
  <2> QED
    BY <1>5, <1>10, <1>11, <2>1, <2>2, <2>3 DEF SocksRead, Refusals
<1>14. CASE err(b) \in {"BadSocksVersion", "NoAvailableSocksAuthentication"} /\ auth # <<5, 0>>
  <2>1. Refuses
    BY <1>14 DEF Refuses, auth
  <2>2. reading'.at \in {"BadSocksVersion", "NoAvailableSocksAuthentication"} /\ buffer' \in Seq(Byte)
    BY <1>5, <1>10, <1>14 DEF Refusals
  <2> QED
    BY <1>5, <1>10, <1>11, <2>1, <2>2 DEF SocksRead, Refusals
<1> QED
  BY <1>9, <1>12, <1>13, <1>14

LEMMA ConnectPiece ==
  ASSUME said.protocol = "socks5", Peer(said), ShortName(said.answer), SocksRead, PieceArrives,
         reading.at = "connect"
  PROVE  SocksRead'
<1> DEFINE r == Reply(said.answer)
           err(b) == socks5_parse_connect_response(b)
           count(b) == total(readpeek(b, 5))
<1>1. /\ reading \in [at : {"auth", "connect", "up"} \cup Refusals, type : Nat, length : Nat]
      /\ buffer \in Seq(Byte) /\ wire \in Seq(Byte) /\ got = <<>>
      /\ buffer \o wire = r \o said.data
  BY DEF SocksRead
<1>2. /\ said.answer \in ProxyAnswer /\ said.data \in Seq(Byte) /\ said.pieces \subseteq Nat
  BY SocksPeer
<1>3. PICK n \in 0 .. Len(wire) :
        /\ wire' = SubSeq(wire, n + 1, Len(wire))
        /\ socks5_connect_reads(SubSeq(wire, 1, n)) /\ said' = said
  BY <1>1, <1>2, PieceOf
<1> DEFINE b == buffer \o SubSeq(wire, 1, n)
<1>4. /\ b \in Seq(Byte) /\ wire' \in Seq(Byte) /\ b \o wire' = r \o said.data
  <2>1. buffer \in Seq(Byte) /\ wire \in Seq(Byte) /\ n \in 0 .. Len(wire)
    BY <1>1, <1>3
  <2>2. /\ b \in Seq(Byte) /\ SubSeq(wire, n + 1, Len(wire)) \in Seq(Byte)
        /\ b \o SubSeq(wire, n + 1, Len(wire)) = buffer \o wire
    BY <2>1, PieceKept
  <2> HIDE DEF b, r
  <2> QED
    BY <1>1, <1>3, <2>2
<1>5. Answered(err(b), b, "up", IF err(b) = "ok" THEN count(b) ELSE 0)
  BY <1>3 DEF socks5_connect_reads
<1> HIDE DEF b
<1>6. \/ err(b) = "again" /\ Len(b) < Len(r)
      \/ /\ err(b) = "ok" /\ discard(b, count(b)) \in Seq(Byte) /\ discard(b, count(b)) \o wire' = said.data
      \/ /\ err(b) \in {"BadSocksVersion", "Socks", "BadSocksReservedField", "BadSocksAtypeValue"}
         /\ \/ said.answer.version # 5 \/ said.answer.reply # 0 \/ said.answer.reserved # 0
            \/ said.answer.atype \notin {1, 3, 4}
  BY <1>2, <1>4, ConnectParsed
<1> HIDE DEF err, count, r
<1>7. /\ reading' \in [at : {"auth", "connect", "up"} \cup Refusals, type : Nat, length : Nat]
      /\ err(b) = "again" => buffer' = b /\ reading' = reading /\ got' = got
      /\ err(b) = "ok" => reading'.at = "up" /\ buffer' = <<>> /\ got' = discard(b, count(b))
      /\ err(b) \in Refusals => reading'.at = err(b) /\ buffer' = b
  <2>1. err(b) \in Refusals \cup {"again", "ok"}
    BY <1>6 DEF Refusals
  <2>2. err(b) = "ok" => Answered(err(b), b, "up", count(b))
    BY <1>5
  <2>3. err(b) \in Refusals \cup {"again"} => Answered(err(b), b, "up", 0)
    BY <1>5 DEF Refusals
  <2> QED
    BY <1>1, <2>1, <2>2, <2>3, AnswerLeads
<1>8. /\ Reply(said.answer)' = r /\ said.data' = said.data /\ Refuses' = Refuses
  BY <1>3, SaidSame DEF r
<1>9. CASE err(b) = "again" /\ Len(b) < Len(r)
  BY <1>1, <1>4, <1>7, <1>8, <1>9 DEF SocksRead, Refusals
<1>10. CASE err(b) = "ok" /\ discard(b, count(b)) \in Seq(Byte) /\ discard(b, count(b)) \o wire' = said.data
  <2>1. reading'.at = "up" /\ buffer' = <<>> /\ got' = discard(b, count(b))
    BY <1>7, <1>10
  <2>2. got' \in Seq(Byte) /\ got' \o wire' = said.data
    BY <1>10, <2>1
  <2>3. <<>> \in Seq(Byte)
    BY EmptySeq
  <2> QED
    BY <1>4, <1>7, <1>8, <2>1, <2>2, <2>3 DEF SocksRead, Refusals
<1>11. CASE /\ err(b) \in {"BadSocksVersion", "Socks", "BadSocksReservedField", "BadSocksAtypeValue"}
            /\ \/ said.answer.version # 5 \/ said.answer.reply # 0 \/ said.answer.reserved # 0
               \/ said.answer.atype \notin {1, 3, 4}
  <2>1. Refuses
    BY <1>11 DEF Refuses
  <2>2. reading'.at = err(b) /\ buffer' = b
    BY <1>7, <1>11 DEF Refusals
  <2> QED
    BY <1>4, <1>7, <1>8, <1>11, <2>1, <2>2 DEF SocksRead, Refusals
<1> QED
  BY <1>6, <1>9, <1>10, <1>11

LEMMA UpPiece ==
  ASSUME said.protocol = "socks5", Peer(said), SocksRead, PieceArrives, reading.at = "up"
  PROVE  SocksRead'
<1>1. /\ reading \in [at : {"auth", "connect", "up"} \cup Refusals, type : Nat, length : Nat]
      /\ buffer = <<>> /\ wire \in Seq(Byte) /\ got \in Seq(Byte) /\ got \o wire = said.data
  BY DEF SocksRead
<1>2. said.pieces \subseteq Nat
  BY SocksPeer
<1>3. PICK n \in 0 .. Len(wire) :
        /\ wire' = SubSeq(wire, n + 1, Len(wire))
        /\ socks5_connect_reads(SubSeq(wire, 1, n)) /\ said' = said
  BY <1>1, <1>2, PieceOf
<1>4. got' = got \o SubSeq(wire, 1, n) /\ reading' = reading /\ buffer' = buffer
  BY <1>3 DEF socks5_connect_reads
<1>5. /\ got \o SubSeq(wire, 1, n) \in Seq(Byte) /\ SubSeq(wire, n + 1, Len(wire)) \in Seq(Byte)
      /\ (got \o SubSeq(wire, 1, n)) \o SubSeq(wire, n + 1, Len(wire)) = got \o wire
  <2>1. got \in Seq(Byte) /\ wire \in Seq(Byte) /\ n \in 0 .. Len(wire)
    BY <1>1, <1>3
  <2> QED
    BY <2>1, PieceKept
<1>6. got' \in Seq(Byte) /\ wire' \in Seq(Byte) /\ got' \o wire' = said.data
  BY <1>1, <1>3, <1>4, <1>5
<1>7. <<>> \in Seq(Byte)
  BY EmptySeq
<1> QED
  BY <1>1, <1>3, <1>4, <1>6, <1>7 DEF SocksRead, Refusals

LEMMA SocksStep ==
  ASSUME said.protocol = "socks5", Peer(said), ShortName(said.answer), SocksRead, WireNext
  PROVE  SocksRead'
<1>1. reading.at \in {"auth", "connect", "up"} \cup Refusals
  BY DEF SocksRead
<1>2. PieceArrives
  BY <1>1 DEF WireNext, read_ll, TakeLine, Refusals
<1>3. reading.at \in {"auth", "connect", "up"}
  BY <1>1, <1>2 DEF PieceArrives, Waits, Refusals
<1> QED
  BY <1>2, <1>3, AuthPiece, ConnectPiece, UpPiece

LEMMA AnswersWhole ==
  ASSUME said.protocol = "socks5", Peer(said), ShortName(said.answer), SocksRead
  PROVE  MessagesWhole
<1> DEFINE r == Reply(said.answer)
           x == r \o said.data
<1>1. reading.at \in {"auth", "connect", "up"} \cup Refusals /\ buffer \in Seq(Byte) /\ wire \in Seq(Byte)
  BY DEF SocksRead
<1>2. said.data \in Seq(Byte) /\ said.auth \in Seq(Byte) /\ Len(said.auth) = 2 /\ r \in Seq(Byte)
  BY SocksPeer, ReplyTyped
<1>3. ASSUME reading.at = "up" PROVE IsPrefix(got, said.data)
  <2>1. got \in Seq(Byte) /\ said.data = got \o wire
    BY <1>3 DEF SocksRead
  <2> QED
    BY <1>1, <2>1, Begins
<1>4. ASSUME WireOver PROVE (reading.at = "up" /\ got = said.data) \/ Refuses
  <2>1. CASE reading.at = "auth"
    <3>1. buffer \o wire = said.auth \o x /\ Len(buffer) < 2
      BY <2>1 DEF SocksRead
    <3>2. x \in Seq(Byte)
      BY <1>2, Joined
    <3>3. Len(wire) - Len(x) = 0
      BY <1>4, <2>1 DEF WireOver, Available
    <3> HIDE DEF x
    <3>4. Pair(Byte, buffer, wire) /\ Pair(Byte, said.auth, x)
      BY <1>1, <1>2, <3>2 DEF Pair
    <3>5. Len(buffer \o wire) = Len(buffer) + Len(wire)
      BY <3>4, Both
    <3>6. Len(said.auth \o x) = Len(said.auth) + Len(x)
      BY <3>4, Both
    <3>7. Len(buffer) \in Nat /\ Len(wire) \in Nat /\ Len(x) \in Nat
      BY <1>1, <3>2, LengthIsNat
    <3> QED
      BY <1>2, <3>1, <3>3, <3>5, <3>6, <3>7
  <2>2. CASE reading.at = "connect"
    <3>1. buffer \o wire = r \o said.data /\ Len(buffer) < Len(r) /\ Len(wire) = 0
      BY <1>4, <2>2 DEF SocksRead, WireOver, Available
    <3> HIDE DEF r
    <3>2. Pair(Byte, buffer, wire) /\ Pair(Byte, r, said.data)
      BY <1>1, <1>2 DEF Pair
    <3>3. Len(buffer \o wire) = Len(buffer) + Len(wire)
      BY <3>2, Both
    <3>4. Len(r \o said.data) = Len(r) + Len(said.data)
      BY <3>2, Both
    <3>5. Len(buffer) \in Nat /\ Len(r) \in Nat /\ Len(said.data) \in Nat
      BY <1>1, <1>2, LengthIsNat
    <3> QED
      BY <3>1, <3>3, <3>4, <3>5
  <2>3. CASE reading.at = "up"
    <3>1. got \in Seq(Byte) /\ said.data = got \o wire /\ Len(wire) = 0
      BY <1>4, <2>3 DEF SocksRead, WireOver, Available
    <3>2. wire = <<>>
      BY <1>1, <3>1, EmptySeq
    <3>3. got \o <<>> = got
      BY <3>1, ConcatEmptySeq
    <3> QED
      BY <2>3, <3>1, <3>2, <3>3
  <2>4. CASE reading.at \in Refusals
    BY <2>4 DEF SocksRead
  <2> QED
    BY <1>1, <2>1, <2>2, <2>3, <2>4
<1> QED
  BY <1>3, <1>4 DEF MessagesWhole, Refuses, ShortName

-----------------------------------------------------------------------------
(* HTTP: the callbacks of http_parser, symbol by symbol.                   *)

Letter == Character \cup {""}
Kinds == {"status", "field", "value", "body", "colon", "crlf", "eol", "blank"}
Symbol == [kind : Kinds, char : Letter]
Headers == Seq([key : Seq(Letter), value : Seq(Letter)])
Responses == [reason : Seq(Letter), body : Seq(Letter), headers : Headers]
Parser == [prev : {"nothing", "field", "value"}, field : Seq(Letter), value : Seq(Letter),
           headers : Headers, reason : Seq(Letter), body : Seq(Letter), complete : BOOLEAN]

\* A response whose headers have names.
Answers(m) == m \in Responses /\ \A i \in 1 .. Len(m.headers) : m.headers[i].key # <<>>

\* What a response says from a header on.
HeaderLines(m, i) == [j \in 1 .. Len(m.headers) - (i - 1) |-> HeaderLine(m.headers[(i - 1) + j])]
LinesFrom(m, i) == FlattenSeq(HeaderLines(m, i)) \o (End("blank") \o Chars("body", m.body))

\* Of the characters of an item some were passed up, and the others are next.
Reads(kind, known, whole, w, x) ==
  \E r \in Seq(Letter) : known \o r = whole /\ w = Chars(kind, r) \o x

\* Which callback is the next, and what the parser has kept.
InStatus(m, p, w) ==
  /\ p.prev = "nothing" /\ p.field = <<>> /\ p.headers = <<>>
  /\ Reads("status", p.reason, m.reason, w, End("eol") \o LinesFrom(m, 1))

HeadersRead(m, p, k) ==
  IF k = 0 THEN p.prev = "nothing" /\ p.field = <<>> /\ p.headers = <<>>
  ELSE /\ p.prev = "value" /\ p.field = m.headers[k].key /\ p.value = m.headers[k].value
       /\ p.headers = SubSeq(m.headers, 1, k - 1)

BeforeHeader(m, p, w, i) == HeadersRead(m, p, i - 1) /\ w = LinesFrom(m, i)

AfterValue(m, i) == End("crlf") \o LinesFrom(m, i + 1)
AfterField(m, i) == End("colon") \o (Chars("value", m.headers[i].value) \o AfterValue(m, i))

InField(m, p, w, i) ==
  /\ p.prev = "field" /\ p.headers = SubSeq(m.headers, 1, i - 1)
  /\ Reads("field", p.field, m.headers[i].key, w, AfterField(m, i))

BeforeValue(m, p, w, i) ==
  /\ p.prev = "field" /\ p.headers = SubSeq(m.headers, 1, i - 1) /\ p.field = m.headers[i].key
  /\ Reads("value", <<>>, m.headers[i].value, w, AfterValue(m, i))

InValue(m, p, w, i) ==
  /\ p.prev = "value" /\ p.headers = SubSeq(m.headers, 1, i - 1) /\ p.field = m.headers[i].key
  /\ Reads("value", p.value, m.headers[i].value, w, AfterValue(m, i))

InHeader(m, p, w, i) == InField(m, p, w, i) \/ BeforeValue(m, p, w, i) \/ InValue(m, p, w, i)

InHeaders(m, p, w) ==
  /\ p.reason = m.reason
  /\ \/ \E i \in 1 .. Len(m.headers) + 1 : BeforeHeader(m, p, w, i)
     \/ \E i \in 1 .. Len(m.headers) : InHeader(m, p, w, i)

InBody(m, p, w) ==
  /\ p.headers = m.headers /\ p.reason = m.reason
  /\ Reads("body", p.body, m.body, w, <<>>)

HttpRead(m, p, w) ==
  IF p.complete THEN InBody(m, p, w)
  ELSE p.body = <<>> /\ (InStatus(m, p, w) \/ InHeaders(m, p, w))

LEMMA CharsTyped ==
  ASSUME NEW kind \in Kinds, NEW text \in Seq(Letter)
  PROVE  Chars(kind, text) \in Seq(Symbol) /\ Len(Chars(kind, text)) = Len(text)
<1>1. \A i \in 1 .. Len(text) : [kind |-> kind, char |-> text[i]] \in Symbol
  BY DEF Symbol
<1>2. Chars(kind, text) = [i \in 1 .. Len(text) |-> [kind |-> kind, char |-> text[i]]]
  BY DEF Chars
<1>3. Len(text) \in Nat
  OBVIOUS
<1> HIDE DEF Symbol
<1> QED
  BY <1>1, <1>2, <1>3, IsASeq

LEMMA EndTyped ==
  ASSUME NEW kind \in Kinds
  PROVE  /\ End(kind) = <<[kind |-> kind, char |-> ""]>> /\ [kind |-> kind, char |-> ""] \in Symbol
         /\ End(kind) \in Seq(Symbol) /\ Len(End(kind)) = 1
BY DEF End, Symbol, Letter

LEMMA NoChars == \A kind : Chars(kind, <<>>) = <<>>
BY DEF Chars

LEMMA CharsFirst ==
  ASSUME NEW kind \in Kinds, NEW c \in Letter, NEW r \in Seq(Letter)
  PROVE  Chars(kind, <<c>> \o r) = <<[kind |-> kind, char |-> c]>> \o Chars(kind, r)
<1> DEFINE e == [kind |-> kind, char |-> c]
           text == <<c>> \o r
           a == Chars(kind, text)
           b == Chars(kind, r)
           d == <<e>> \o b
           n == Len(r)
<1>1. /\ text \in Seq(Letter) /\ n \in Nat /\ Len(text) = 1 + n
      /\ \A i \in 1 .. 1 + n : text[i] = IF i = 1 THEN c ELSE r[i - 1]
  <2> DEFINE one == <<c>>
  <2>1. Len(one) = 1 /\ one[1] = c /\ n \in Nat /\ text = one \o r
    OBVIOUS
  <2>3. Pair(Letter, one, r)
    BY DEF Pair
  <2> HIDE DEF one, text, n
  <2>2. /\ one \o r \in Seq(Letter) /\ Len(one \o r) = Len(one) + Len(r)
        /\ \A i \in 1 .. Len(one) + Len(r) :
             (one \o r)[i] = IF i <= Len(one) THEN one[i] ELSE r[i - Len(one)]
    BY <2>3, Both
  <2> QED
    BY <2>1, <2>2 DEF n
<1>2. e \in Symbol
  BY DEF Symbol
<1> HIDE DEF text
<1>3. a \in Seq(Symbol) /\ Len(a) = 1 + n /\ \A i \in 1 .. 1 + n : a[i] = [kind |-> kind, char |-> text[i]]
  <2>1. DOMAIN text = 1 .. 1 + n
    BY <1>1
  <2> QED
    BY <1>1, <2>1, CharsTyped DEF Chars
<1>4. b \in Seq(Symbol) /\ Len(b) = n /\ \A i \in 1 .. n : b[i] = [kind |-> kind, char |-> r[i]]
  BY <1>1, CharsTyped DEF Chars
<1> HIDE DEF a, b, n, Symbol
<1>5. /\ d \in Seq(Symbol) /\ Len(d) = 1 + n
      /\ \A i \in 1 .. 1 + n : d[i] = IF i = 1 THEN e ELSE b[i - 1]
  <2> DEFINE one == <<e>>
  <2>1. Len(one) = 1 /\ one[1] = e
    OBVIOUS
  <2>4. Pair(Symbol, one, b)
    BY <1>2, <1>4 DEF Pair
  <2> HIDE DEF one, e
  <2>2. /\ one \o b \in Seq(Symbol) /\ Len(one \o b) = Len(one) + Len(b)
        /\ \A i \in 1 .. Len(one) + Len(b) :
             (one \o b)[i] = IF i <= Len(one) THEN one[i] ELSE b[i - Len(one)]
    BY <2>4, Both
  <2>3. d = one \o b
    BY DEF one
  <2> HIDE DEF d
  <2> QED
    BY <1>1, <1>4, <2>1, <2>2, <2>3
<1>6. \A i \in 1 .. 1 + n : a[i] = d[i]
  <2> TAKE i \in 1 .. 1 + n
  <2> HIDE DEF d
  <2>1. CASE i = 1
    BY <1>1, <1>3, <1>5, <2>1
  <2>2. CASE i # 1
    <3>1. i - 1 \in 1 .. n
      BY <1>1, <2>2
    <3> HIDE DEF e
    <3>2. a[i] = [kind |-> kind, char |-> text[i]] /\ text[i] = r[i - 1]
      BY <1>1, <1>3, <2>2
    <3>3. d[i] = b[i - 1] /\ b[i - 1] = [kind |-> kind, char |-> r[i - 1]]
      BY <1>4, <1>5, <2>2, <3>1
    <3> QED
      BY <3>2, <3>3, Zenon
  <2> QED
    BY <2>1, <2>2
<1> HIDE DEF d
<1>7. a = d
  BY <1>3, <1>5, <1>6, SeqEqual
<1> QED
  BY <1>7 DEF a, b, d, e, text

\* The next symbol is a character of the item, or what follows it.
LEMMA ReadsNext ==
  ASSUME NEW kind \in Kinds, NEW known \in Seq(Letter), NEW whole, NEW x \in Seq(Symbol),
         NEW s \in Symbol, NEW v \in Seq(Symbol), Reads(kind, known, whole, <<s>> \o v, x)
  PROVE  \/ known = whole /\ <<s>> \o v = x
         \/ /\ s.kind = kind /\ s.char \in Letter
            /\ Reads(kind, known \o <<s.char>>, whole, v, x)
<1>1. PICK r \in Seq(Letter) : known \o r = whole /\ <<s>> \o v = Chars(kind, r) \o x
  BY DEF Reads
<1>2. CASE r = <<>>
  <2>1. known \o r = known
    BY <1>2, ConcatEmptySeq
  <2>2. Chars(kind, r) \o x = x
    BY <1>2, NoChars, ConcatEmptySeq
  <2> QED
    BY <1>1, <2>1, <2>2
<1>3. CASE r # <<>>
  <2>1. PICK c \in Letter, q \in Seq(Letter) : r = <<c>> \o q
    BY <1>3, Headed
  <2> DEFINE e == [kind |-> kind, char |-> c]
             y == Chars(kind, q) \o x
  <2>2. e \in Symbol /\ y \in Seq(Symbol)
    <3>1. Chars(kind, q) \in Seq(Symbol)
      BY CharsTyped
    <3>2. e \in Symbol
      BY DEF Symbol
    <3> HIDE DEF e, Symbol
    <3> QED
      BY <3>1, <3>2, Joined
  <2>3. Chars(kind, r) \o x = <<e>> \o y
    <3> DEFINE a == <<e>>
               b == Chars(kind, q)
    <3>1. Chars(kind, r) = a \o b
      BY <2>1, CharsFirst
    <3>2. a \in Seq(Symbol) /\ b \in Seq(Symbol)
      BY <2>2, CharsTyped
    <3> HIDE DEF a, b, Symbol
    <3>3. a \o (b \o x) = (a \o b) \o x
      BY <3>2, Associative, SMTT(30)
    <3> QED
      BY <3>1, <3>3 DEF a, b
  <2>4. s = e /\ v = y
    <3>1. <<s>> \o v = <<e>> \o y
      BY <1>1, <2>3
    <3> HIDE DEF e, y, Symbol
    <3>2. SameHeads(Symbol, s, e, v, y)
      BY <2>2, <3>1 DEF SameHeads
    <3> QED
      BY <3>2, HeadsSame
  <2>5. s.kind = kind /\ s.char = c
    BY <2>4
  <2>6. known \o r = (known \o <<c>>) \o q
    <3> DEFINE one == <<c>>
    <3>1. one \in Seq(Letter) /\ r = one \o q
      BY <2>1
    <3> HIDE DEF one
    <3>2. known \o (one \o q) = (known \o one) \o q
      BY <3>1, Associative, SMTT(20)
    <3> QED
      BY <3>1, <3>2 DEF one
  <2>7. Reads(kind, known \o <<c>>, whole, v, x)
    BY <1>1, <2>4, <2>6 DEF Reads
  <2> QED
    BY <2>5, <2>7
<1> QED
  BY <1>2, <1>3

\* When nothing is left.
LEMMA ReadsOver ==
  ASSUME NEW kind \in Kinds, NEW known \in Seq(Letter), NEW whole, NEW x \in Seq(Symbol),
         Reads(kind, known, whole, <<>>, x)
  PROVE  known = whole /\ x = <<>>
<1>1. PICK r \in Seq(Letter) : known \o r = whole /\ <<>> = Chars(kind, r) \o x
  BY DEF Reads
<1> DEFINE a == Chars(kind, r)
<1>2. a \in Seq(Symbol) /\ Len(a) = Len(r) /\ a \o x = <<>>
  BY <1>1, CharsTyped
<1> HIDE DEF a
<1>3. Len(a) = 0 /\ Len(x) = 0
  <2>1. Len(a \o x) = Len(a) + Len(x) /\ Len(a) \in Nat /\ Len(x) \in Nat
    <3> HIDE DEF Symbol
    <3> QED
      BY <1>2, Lengths
  <2>2. Len(a \o x) = 0
    BY <1>2
  <2> QED
    BY <2>1, <2>2
<1>4. r = <<>> /\ x = <<>>
  BY <1>2, <1>3, EmptySeq
<1>5. known \o r = known
  BY <1>4, ConcatEmptySeq
<1> QED
  BY <1>1, <1>4, <1>5

\* The next symbol is the end of an item.
LEMMA EndFirst ==
  ASSUME NEW kind \in Kinds, NEW s \in Symbol, NEW v \in Seq(Symbol), NEW x \in Seq(Symbol),
         <<s>> \o v = End(kind) \o x
  PROVE  s = [kind |-> kind, char |-> ""] /\ v = x
<1> DEFINE e == [kind |-> kind, char |-> ""]
<1>1. e \in Symbol /\ <<s>> \o v = <<e>> \o x
  BY EndTyped
<1> HIDE DEF e, Symbol
<1>2. s = e /\ v = x
  BY <1>1, HeadsEqual, SMTT(20)
<1> QED
  BY <1>2 DEF e

Five(T, a, b, c, d, e) == a \in Seq(T) /\ b \in Seq(T) /\ c \in Seq(T) /\ d \in Seq(T) /\ e \in Seq(T)

LEMMA FiveRegrouped ==
  ASSUME NEW T, NEW a, NEW b, NEW c, NEW d, NEW e, Five(T, a, b, c, d, e)
  PROVE  /\ (((a \o b) \o c) \o d) \o e = a \o (b \o (c \o (d \o e)))
         /\ b \o (c \o (d \o e)) \in Seq(T) /\ c \o (d \o e) \in Seq(T) /\ d \o e \in Seq(T)
<1> DEFINE Q == Seq(T)
<1>1. Q = Seq(T) /\ a \in Q /\ b \in Q /\ c \in Q /\ d \in Q /\ e \in Q
  BY DEF Five
<1> SUFFICES /\ (((a \o b) \o c) \o d) \o e = a \o (b \o (c \o (d \o e)))
             /\ b \o (c \o (d \o e)) \in Q /\ c \o (d \o e) \in Q /\ d \o e \in Q
  OBVIOUS
<1> HIDE DEF Q
<1>2. /\ \A x, y \in Q : Cat(x, y) \in Q
      /\ \A x, y, z \in Q : Cat(x, Cat(y, z)) = Cat(Cat(x, y), z)
  <2>1. Q = Seq(T)
    BY <1>1
  <2>2. \A x, y \in Q : Cat(x, y) \in Q
    BY <2>1, CatIn
  <2>3. \A x, y, z \in Q : Cat(x, Cat(y, z)) = Cat(Cat(x, y), z)
    BY <2>1, CatAssociative
  <2> QED
    BY <2>2, <2>3
<1>3. Cat(d, e) \in Q /\ Cat(c, Cat(d, e)) \in Q /\ Cat(b, Cat(c, Cat(d, e))) \in Q
  BY <1>1, <1>2
<1>4. Cat(a, b) \in Q /\ Cat(Cat(a, b), c) \in Q
  BY <1>1, <1>2
<1>5. Cat(Cat(Cat(Cat(a, b), c), d), e) = Cat(Cat(Cat(a, b), c), Cat(d, e))
  BY <1>1, <1>2, <1>4
<1>6. Cat(Cat(Cat(a, b), c), Cat(d, e)) = Cat(Cat(a, b), Cat(c, Cat(d, e)))
  BY <1>1, <1>2, <1>3, <1>4
<1>7. Cat(Cat(a, b), Cat(c, Cat(d, e))) = Cat(a, Cat(b, Cat(c, Cat(d, e))))
  BY <1>1, <1>2, <1>3
<1>8. Cat(Cat(Cat(Cat(a, b), c), d), e) = Cat(a, Cat(b, Cat(c, Cat(d, e))))
  BY <1>5, <1>6, <1>7
<1> QED
  BY <1>3, <1>8, Zenon DEF Cat

LEMMA HttpPeer ==
  ASSUME said.protocol = "http", Peer(said)
  PROVE  Answers(said.response) /\ said.pieces \subseteq Nat
<1> DEFINE m == said.response
<1>1. /\ m \in [reason : Seq(Character), body : Seq(Character),
                headers : Seq([key : Seq(Character), value : Seq(Character)])]
      /\ \A i \in DOMAIN m.headers : m.headers[i].key # <<>>
      /\ said.pieces \subseteq Nat
  BY DEF Peer
<1>2. Seq(Character) \subseteq Seq(Letter)
  <2> DEFINE A == Character
             B == Letter
  <2>1. A \subseteq B
    BY DEF Letter
  <2> HIDE DEF A, B
  <2>2. Seq(A) \subseteq Seq(B)
    BY <2>1
  <2> QED
    BY <2>2 DEF A, B
<1> DEFINE H == [key : Seq(Character), value : Seq(Character)]
           G == [key : Seq(Letter), value : Seq(Letter)]
<1>3. H \subseteq G
  BY <1>2
<1>4. Seq(H) \subseteq Seq(G)
  <2> HIDE DEF H, G
  <2> QED
    BY <1>3
<1>5. m.headers \in Seq(H) /\ DOMAIN m.headers = 1 .. Len(m.headers)
  BY <1>1
<1>6. m \in [reason : Seq(Letter), body : Seq(Letter), headers : Seq(G)]
  <2> DEFINE C == Seq(Character)
             M == Seq(Letter)
             K == Seq(H)
             J == Seq(G)
  <2>1. m \in [reason : C, body : C, headers : K] /\ C \subseteq M /\ K \subseteq J
    BY <1>1, <1>2, <1>4
  <2> HIDE DEF C, M, K, J, m
  <2>2. m \in [reason : M, body : M, headers : J]
    BY <2>1
  <2> QED
    BY <2>2 DEF M, J
<1> QED
  BY <1>1, <1>5, <1>6 DEF Answers, Responses, Headers

LEMMA HeadersTyped ==
  ASSUME NEW m, Answers(m)
  PROVE  /\ Len(m.headers) \in Nat /\ m.headers \in Headers
         /\ \A i \in 1 .. Len(m.headers) : /\ m.headers[i] \in [key : Seq(Letter), value : Seq(Letter)]
                                           /\ m.headers[i].key \in Seq(Letter)
                                           /\ m.headers[i].value \in Seq(Letter)
                                           /\ m.headers[i].key # <<>>
         /\ m.reason \in Seq(Letter) /\ m.body \in Seq(Letter)
<1> DEFINE G == [key : Seq(Letter), value : Seq(Letter)]
<1>1. /\ m.headers \in Seq(G) /\ m.reason \in Seq(Letter) /\ m.body \in Seq(Letter)
      /\ \A i \in 1 .. Len(m.headers) : m.headers[i].key # <<>>
  BY DEF Answers, Responses, Headers
<1>2. Len(m.headers) \in Nat /\ \A i \in 1 .. Len(m.headers) : m.headers[i] \in G
  <2> HIDE DEF G
  <2> QED
    BY <1>1, ElementOfSeq, LengthIsNat
<1> QED
  BY <1>1, <1>2 DEF Headers

LEMMA LineTyped ==
  ASSUME NEW h, h.key \in Seq(Letter), h.value \in Seq(Letter)
  PROVE  HeaderLine(h) \in Seq(Symbol)
<1> DEFINE a == Chars("field", h.key)
           b == End("colon")
           c == Chars("value", h.value)
           d == End("crlf")
<1>1. a \in Seq(Symbol) /\ c \in Seq(Symbol)
  BY CharsTyped DEF Kinds
<1>2. b \in Seq(Symbol) /\ d \in Seq(Symbol)
  BY EndTyped DEF Kinds
<1>3. HeaderLine(h) = ((a \o b) \o c) \o d
  BY DEF HeaderLine
<1> HIDE DEF a, b, c, d, Symbol
<1>4. a \o b \in Seq(Symbol)
  BY <1>1, <1>2, Joined
<1>5. (a \o b) \o c \in Seq(Symbol)
  BY <1>1, <1>4, Joined
<1>6. ((a \o b) \o c) \o d \in Seq(Symbol)
  BY <1>2, <1>5, Joined
<1> QED
  BY <1>3, <1>6

LEMMA LinesTyped ==
  ASSUME NEW m, Answers(m), NEW i \in 1 .. Len(m.headers) + 1
  PROVE  /\ HeaderLines(m, i) \in Seq(Seq(Symbol)) /\ Len(HeaderLines(m, i)) = Len(m.headers) - (i - 1)
         /\ FlattenSeq(HeaderLines(m, i)) \in Seq(Symbol) /\ LinesFrom(m, i) \in Seq(Symbol)
         /\ End("blank") \o Chars("body", m.body) \in Seq(Symbol)
<1> DEFINE n == Len(m.headers)
           k == n - (i - 1)
           S == Seq(Symbol)
<1>1. n \in Nat /\ k \in Nat
  BY HeadersTyped
<1>2. \A j \in 1 .. k : HeaderLine(m.headers[(i - 1) + j]) \in S
  <2> TAKE j \in 1 .. k
  <2> DEFINE q == (i - 1) + j
  <2>1. q \in 1 .. n
    BY <1>1
  <2> HIDE DEF q, n
  <2>2. m.headers[q].key \in Seq(Letter) /\ m.headers[q].value \in Seq(Letter)
    BY <2>1, HeadersTyped DEF n
  <2>3. HeaderLine(m.headers[q]) \in S
    BY <2>2, LineTyped
  <2> QED
    BY <2>3 DEF q
<1>3. HeaderLines(m, i) = [j \in 1 .. k |-> HeaderLine(m.headers[(i - 1) + j])]
  BY DEF HeaderLines
<1> HIDE DEF k, n, Symbol
<1>4. HeaderLines(m, i) \in Seq(S) /\ Len(HeaderLines(m, i)) = k
  <2> HIDE DEF S
  <2> QED
    BY <1>1, <1>2, <1>3, IsASeq
<1>5. FlattenSeq(HeaderLines(m, i)) \in S
  BY <1>4, FlattenIn
<1>6. End("blank") \in S /\ Chars("body", m.body) \in S
  BY EndTyped, CharsTyped, HeadersTyped DEF Kinds
<1>7. End("blank") \o Chars("body", m.body) \in S
  BY <1>6, Joined
<1>8. LinesFrom(m, i) \in S
  BY <1>5, <1>7, Joined DEF LinesFrom
<1> QED
  BY <1>4, <1>5, <1>7, <1>8 DEF k, n

\* The first of the headers that are left.
LEMMA LinesNext ==
  ASSUME NEW m, Answers(m), NEW i \in 1 .. Len(m.headers)
  PROVE  /\ LinesFrom(m, i) = Chars("field", m.headers[i].key) \o AfterField(m, i)
         /\ AfterField(m, i) \in Seq(Symbol) /\ AfterValue(m, i) \in Seq(Symbol)
         /\ Chars("value", m.headers[i].value) \o AfterValue(m, i) \in Seq(Symbol)
         /\ LinesFrom(m, i + 1) \in Seq(Symbol)
<1> DEFINE n == Len(m.headers)
           S == Seq(Symbol)
           all == HeaderLines(m, i)
           later == HeaderLines(m, i + 1)
           behind == End("blank") \o Chars("body", m.body)
           h == m.headers[i]
<1>1. n \in Nat /\ i \in 1 .. n + 1 /\ i + 1 \in 1 .. n + 1 /\ h.key \in Seq(Letter) /\ h.value \in Seq(Letter)
  BY HeadersTyped
<1>2. /\ all \in Seq(S) /\ Len(all) = n - (i - 1) /\ FlattenSeq(all) \in S
      /\ later \in Seq(S) /\ Len(later) = n - i /\ FlattenSeq(later) \in S
      /\ behind \in S /\ LinesFrom(m, i + 1) \in S
  <2>1. all \in Seq(S) /\ Len(all) = n - (i - 1) /\ FlattenSeq(all) \in S /\ behind \in S
    BY <1>1, LinesTyped
  <2>2. later \in Seq(S) /\ Len(later) = n - ((i + 1) - 1) /\ FlattenSeq(later) \in S /\ LinesFrom(m, i + 1) \in S
    BY <1>1, LinesTyped
  <2>3. n - ((i + 1) - 1) = n - i
    BY <1>1
  <2> HIDE DEF S, all, later, behind, n
  <2> QED
    BY <2>1, <2>2, <2>3
<1>3. all[1] = HeaderLine(h) /\ \A j \in 1 .. n - i : later[j] = all[j + 1]
  <2>1. 1 \in 1 .. n - (i - 1) /\ (i - 1) + 1 = i
    BY <1>1
  <2>2. all[1] = HeaderLine(h)
    BY <2>1 DEF HeaderLines
  <2>3. ASSUME NEW j \in 1 .. n - i PROVE later[j] = all[j + 1]
    <3>1. /\ j + 1 \in 1 .. n - (i - 1) /\ j \in 1 .. n - ((i + 1) - 1)
          /\ ((i + 1) - 1) + j = (i - 1) + (j + 1)
      BY <1>1
    <3> QED
      BY <3>1 DEF HeaderLines
  <2> QED
    BY <2>2, <2>3
<1>4. LinesFrom(m, i) = FlattenSeq(all) \o behind /\ LinesFrom(m, i + 1) = FlattenSeq(later) \o behind
  BY DEF LinesFrom
<1> HIDE DEF all, later, behind, S, n
<1>5. Tail(all) = later /\ all # <<>>
  <2> DEFINE t == Tail(all)
  <2>1. all # <<>>
    BY <1>1, <1>2
  <2>2. t \in Seq(S) /\ Len(t) = n - i /\ \A j \in 1 .. n - i : t[j] = all[j + 1]
    <3>1. Len(all) - 1 = n - i
      BY <1>1, <1>2
    <3> QED
      BY <1>2, <2>1, <3>1, HeadTailProperties
  <2> HIDE DEF t
  <2>3. t = later
    BY <1>2, <1>3, <2>2, SeqEqual
  <2> QED
    BY <2>1, <2>3 DEF t
<1>6. FlattenSeq(all) = HeaderLine(h) \o FlattenSeq(later)
  <2>1. all \in Seq(Seq(Symbol))
    BY <1>2 DEF S
  <2>2. FlattenSeq(all) = all[1] \o FlattenSeq(Tail(all))
    BY <1>5, <2>1, FlattenFirst
  <2> QED
    BY <1>3, <1>5, <2>2
<1> DEFINE a == Chars("field", h.key)
           b == End("colon")
           c == Chars("value", h.value)
           d == End("crlf")
           e == LinesFrom(m, i + 1)
           line == HeaderLine(h)
<1>7. line = ((a \o b) \o c) \o d
  BY DEF HeaderLine
<1>8. a \in S /\ b \in S /\ c \in S /\ d \in S /\ e \in S
  <2>1. a \in S /\ c \in S
    BY <1>1, CharsTyped DEF Kinds, S
  <2>2. b \in S /\ d \in S
    BY EndTyped DEF Kinds, S
  <2> QED
    BY <1>2, <2>1, <2>2
<1>9. line \in S
  BY <1>1, LineTyped DEF S
<1>10. AfterValue(m, i) = d \o e /\ AfterField(m, i) = b \o (c \o (d \o e))
  BY DEF AfterValue, AfterField
<1> HIDE DEF a, b, c, d, e, line, h
<1>11. LinesFrom(m, i) = line \o e
  <2> DEFINE f == FlattenSeq(later)
  <2>1. f \in S /\ behind \in S /\ line \in S /\ S = Seq(Symbol)
    BY <1>2, <1>9 DEF S
  <2>2. LinesFrom(m, i) = (line \o f) \o behind /\ e = f \o behind
    BY <1>4, <1>6 DEF line, e
  <2> HIDE DEF f
  <2>3. line \o (f \o behind) = (line \o f) \o behind
    BY <2>1, AssociativeIn
  <2> QED
    BY <2>2, <2>3
<1>12. Five(Symbol, a, b, c, d, e)
  BY <1>8 DEF Five, S
<1>13. /\ (((a \o b) \o c) \o d) \o e = a \o (b \o (c \o (d \o e)))
       /\ b \o (c \o (d \o e)) \in Seq(Symbol) /\ c \o (d \o e) \in Seq(Symbol) /\ d \o e \in Seq(Symbol)
  BY <1>12, FiveRegrouped
<1>14. /\ LinesFrom(m, i) = a \o AfterField(m, i)
       /\ AfterField(m, i) \in Seq(Symbol) /\ AfterValue(m, i) \in Seq(Symbol)
       /\ c \o AfterValue(m, i) \in Seq(Symbol) /\ e \in Seq(Symbol)
  BY <1>7, <1>8, <1>10, <1>11, <1>13, Zenon DEF S
<1> QED
  BY <1>14, Zenon DEF a, c, e, h

\* What is behind the last one.
LEMMA LinesLast ==
  ASSUME NEW m, Answers(m)
  PROVE  LinesFrom(m, Len(m.headers) + 1) = End("blank") \o Chars("body", m.body)
<1> DEFINE n == Len(m.headers)
           behind == End("blank") \o Chars("body", m.body)
<1>1. n \in Nat /\ n + 1 \in 1 .. n + 1 /\ n - ((n + 1) - 1) = 0
  BY HeadersTyped
<1>2. HeaderLines(m, n + 1) \in Seq(Seq(Symbol)) /\ Len(HeaderLines(m, n + 1)) = n - ((n + 1) - 1)
      /\ behind \in Seq(Symbol)
  BY <1>1, LinesTyped
<1>3. HeaderLines(m, n + 1) = <<>>
  <2> HIDE DEF n
  <2> QED
    BY <1>1, <1>2, EmptySeq
<1> HIDE DEF behind
<1>4. <<>> \o behind = behind
  BY <1>2, ConcatEmptySeq
<1> QED
  BY <1>3, <1>4, FlattenNone DEF LinesFrom, behind

LEMMA ResponseIs ==
  ASSUME NEW m, Answers(m)
  PROVE  /\ Response(m) = Chars("status", m.reason) \o (End("eol") \o LinesFrom(m, 1))
         /\ Response(m) \in Seq(Symbol) /\ End("eol") \o LinesFrom(m, 1) \in Seq(Symbol)
<1> DEFINE a == Chars("status", m.reason)
           b == End("eol")
           lines == [i \in DOMAIN m.headers |-> HeaderLine(m.headers[i])]
           c == FlattenSeq(lines)
           d == End("blank")
           e == Chars("body", m.body)
<1>1. Response(m) = (((a \o b) \o c) \o d) \o e
  BY DEF Response
<1>2. Len(m.headers) \in Nat /\ DOMAIN m.headers = 1 .. Len(m.headers) /\ 1 \in 1 .. Len(m.headers) + 1
  BY HeadersTyped DEF Headers
<1>3. lines = HeaderLines(m, 1)
  <2>1. Len(m.headers) - (1 - 1) = Len(m.headers) /\ \A j \in 1 .. Len(m.headers) : (1 - 1) + j = j
    BY <1>2
  <2> QED
    BY <1>2, <2>1 DEF HeaderLines
<1>4. LinesFrom(m, 1) = c \o (d \o e) /\ c \in Seq(Symbol)
  BY <1>2, <1>3, LinesTyped DEF LinesFrom
<1>5. a \in Seq(Symbol) /\ e \in Seq(Symbol)
  BY CharsTyped, HeadersTyped DEF Kinds
<1>6. b \in Seq(Symbol) /\ d \in Seq(Symbol)
  BY EndTyped DEF Kinds
<1> HIDE DEF a, b, c, d, e, Symbol
<1>7. Five(Symbol, a, b, c, d, e)
  BY <1>4, <1>5, <1>6 DEF Five
<1>8. /\ (((a \o b) \o c) \o d) \o e = a \o (b \o (c \o (d \o e)))
      /\ b \o (c \o (d \o e)) \in Seq(Symbol) /\ c \o (d \o e) \in Seq(Symbol) /\ d \o e \in Seq(Symbol)
  BY <1>7, FiveRegrouped
<1>9. a \o (b \o (c \o (d \o e))) \in Seq(Symbol)
  BY <1>5, <1>8, Joined
<1> QED
  BY <1>1, <1>4, <1>8, <1>9, Zenon DEF a, b

\* What a parser keeps, and a callback with a text.
ParserOf(prev, field, val, headers, reason, body, complete) ==
  [prev |-> prev, field |-> field, value |-> val, headers |-> headers,
   reason |-> reason, body |-> body, complete |-> complete]
Of(kind, text) == [kind |-> kind, text |-> text]

LEMMA KeptTyped ==
  ASSUME NEW prev \in {"nothing", "field", "value"}, NEW field \in Seq(Letter), NEW val \in Seq(Letter),
         NEW headers \in Headers, NEW reason \in Seq(Letter), NEW body \in Seq(Letter), NEW complete \in BOOLEAN
  PROVE  LET q == ParserOf(prev, field, val, headers, reason, body, complete)
         IN /\ q \in Parser /\ q.prev = prev /\ q.field = field /\ q.value = val /\ q.headers = headers
            /\ q.reason = reason /\ q.body = body /\ q.complete = complete
<1> DEFINE L == Seq(Letter)
<1>1. field \in L /\ val \in L /\ reason \in L /\ body \in L
  OBVIOUS
<1>2. Parser = [prev : {"nothing", "field", "value"}, field : L, value : L,
                headers : Headers, reason : L, body : L, complete : BOOLEAN]
  BY DEF Parser
<1> HIDE DEF L
<1>3. ParserOf(prev, field, val, headers, reason, body, complete) \in Parser
  BY <1>1, <1>2 DEF ParserOf
<1> QED
  BY <1>3 DEF ParserOf

LEMMA ParserTyped ==
  ASSUME NEW p \in Parser
  PROVE  /\ p.prev \in {"nothing", "field", "value"} /\ p.field \in Seq(Letter) /\ p.value \in Seq(Letter)
         /\ p.headers \in Headers /\ p.reason \in Seq(Letter) /\ p.body \in Seq(Letter) /\ p.complete \in BOOLEAN
         /\ p = ParserOf(p.prev, p.field, p.value, p.headers, p.reason, p.body, p.complete)
<1> DEFINE L == Seq(Letter)
<1>2. Parser = [prev : {"nothing", "field", "value"}, field : L, value : L,
                headers : Headers, reason : L, body : L, complete : BOOLEAN]
  BY DEF Parser
<1> SUFFICES
         /\ p.prev \in {"nothing", "field", "value"} /\ p.field \in L /\ p.value \in L
         /\ p.headers \in Headers /\ p.reason \in L /\ p.body \in L /\ p.complete \in BOOLEAN
         /\ p = ParserOf(p.prev, p.field, p.value, p.headers, p.reason, p.body, p.complete)
  OBVIOUS
<1> HIDE DEF L
<1>3. /\ p.prev \in {"nothing", "field", "value"} /\ p.field \in L /\ p.value \in L
      /\ p.headers \in Headers /\ p.reason \in L /\ p.body \in L /\ p.complete \in BOOLEAN
  BY <1>2
<1>4. p = ParserOf(p.prev, p.field, p.value, p.headers, p.reason, p.body, p.complete)
  BY <1>2 DEF ParserOf
<1> QED
  BY <1>3, <1>4

LEMMA HeaderKept ==
  ASSUME NEW p \in Parser
  PROVE  Append(p.headers, Header(p)) \in Headers
<1> DEFINE L == Seq(Letter)
<1>1. p.field \in L /\ p.value \in L /\ p.headers \in Headers
  BY ParserTyped
<1>2. Headers = Seq([key : L, value : L])
  BY DEF Headers
<1> HIDE DEF L
<1> DEFINE G == [key : L, value : L]
<1>3. Header(p) \in G
  BY <1>1 DEF Header
<1> HIDE DEF G
<1>4. p.headers \in Seq(G)
  BY <1>1, <1>2 DEF G
<1>5. Append(p.headers, Header(p)) \in Seq(G)
  BY <1>3, <1>4
<1> QED
  BY <1>2, <1>5 DEF G

Keeps(p, prev, field, val, headers, reason, body, complete) ==
  p = ParserOf(prev, field, val, headers, reason, body, complete)

\* What every callback makes of a parser that keeps these.
CallsOf(p, prev, field, val, headers, reason, body, complete, t) ==
  /\ Callback(p, Of("status", t)) = ParserOf(prev, field, val, headers, reason \o t, body, complete)
  /\ Callback(p, Of("body", t)) = ParserOf(prev, field, val, headers, reason, body \o t, complete)
  /\ Callback(p, Of("headers", t))
       = ParserOf(prev, field, val, IF field # <<>> THEN Append(headers, Header(p)) ELSE headers,
              reason, body, TRUE)
  /\ prev = "nothing" =>
       Callback(p, Of("field", t)) = ParserOf("field", t, val, headers, reason, body, complete)
  /\ prev = "field" =>
       Callback(p, Of("field", t)) = ParserOf("field", field \o t, val, headers, reason, body, complete)
  /\ prev = "value" =>
       Callback(p, Of("field", t))
         = ParserOf("field", t, val, Append(headers, Header(p)), reason, body, complete)
  /\ prev = "field" =>
       Callback(p, Of("value", t)) = ParserOf("value", field, t, headers, reason, body, complete)
  /\ prev = "value" =>
       Callback(p, Of("value", t)) = ParserOf("value", field, val \o t, headers, reason, body, complete)

LEMMA KeptCalled ==
  ASSUME NEW prev, NEW field, NEW val, NEW headers, NEW reason, NEW body, NEW complete, NEW t, NEW p,
         Keeps(p, prev, field, val, headers, reason, body, complete)
  PROVE  CallsOf(p, prev, field, val, headers, reason, body, complete, t)
<1> USE DEF Keeps
<1>1. /\ p.prev = prev /\ p.field = field /\ p.value = val /\ p.headers = headers
      /\ p.reason = reason /\ p.body = body /\ p.complete = complete
  BY DEF ParserOf
<1> DEFINE longer == reason \o t
           more == body \o t
           hs == IF field # <<>> THEN Append(headers, Header(p)) ELSE headers
           later == Append(headers, Header(p))
           key == field \o t
           done == TRUE
           words == val \o t
<1>2. Callback(p, Of("status", t)) = [p EXCEPT !.reason = longer]
  BY <1>1 DEF Callback, Of
<1>3. Callback(p, Of("body", t)) = [p EXCEPT !.body = more]
  BY <1>1 DEF Callback, Of
<1>4. Callback(p, Of("headers", t)) = [[p EXCEPT !.complete = done] EXCEPT !.headers = hs]
  BY <1>1 DEF Callback, Of, do_headers_complete_
<1>5. prev = "nothing" => Callback(p, Of("field", t)) = [[p EXCEPT !.field = t] EXCEPT !.prev = "field"]
  BY <1>1 DEF Callback, Of, do_header_internal
<1>6. prev = "field" => Callback(p, Of("field", t)) = [[p EXCEPT !.field = key] EXCEPT !.prev = "field"]
  BY <1>1 DEF Callback, Of, do_header_internal
<1>7. prev = "value" =>
        Callback(p, Of("field", t)) = [[[p EXCEPT !.headers = later] EXCEPT !.field = t] EXCEPT !.prev = "field"]
  BY <1>1 DEF Callback, Of, do_header_internal
<1>8. prev = "field" => Callback(p, Of("value", t)) = [[p EXCEPT !.value = t] EXCEPT !.prev = "value"]
  BY <1>1 DEF Callback, Of, do_header_internal
<1>9. prev = "value" => Callback(p, Of("value", t)) = [[p EXCEPT !.value = words] EXCEPT !.prev = "value"]
  BY <1>1 DEF Callback, Of, do_header_internal
<1> SUFFICES
         /\ Callback(p, Of("status", t)) = ParserOf(prev, field, val, headers, longer, body, complete)
         /\ Callback(p, Of("body", t)) = ParserOf(prev, field, val, headers, reason, more, complete)
         /\ Callback(p, Of("headers", t)) = ParserOf(prev, field, val, hs, reason, body, done)
         /\ prev = "nothing" =>
              Callback(p, Of("field", t)) = ParserOf("field", t, val, headers, reason, body, complete)
         /\ prev = "field" =>
              Callback(p, Of("field", t)) = ParserOf("field", key, val, headers, reason, body, complete)
         /\ prev = "value" =>
              Callback(p, Of("field", t)) = ParserOf("field", t, val, later, reason, body, complete)
         /\ prev = "field" =>
              Callback(p, Of("value", t)) = ParserOf("value", field, t, headers, reason, body, complete)
         /\ prev = "value" =>
              Callback(p, Of("value", t)) = ParserOf("value", field, words, headers, reason, body, complete)
  BY Zenon DEF CallsOf
<1> HIDE DEF longer, more, hs, later, key, words, done
<1>10. [p EXCEPT !.reason = longer] = ParserOf(prev, field, val, headers, longer, body, complete)
  BY DEF ParserOf
<1>11. [p EXCEPT !.body = more] = ParserOf(prev, field, val, headers, reason, more, complete)
  BY DEF ParserOf
<1>12. [[p EXCEPT !.complete = done] EXCEPT !.headers = hs] = ParserOf(prev, field, val, hs, reason, body, done)
  <2> DEFINE q == [p EXCEPT !.complete = done]
  <2>1. q = ParserOf(prev, field, val, headers, reason, body, done)
    BY DEF ParserOf
  <2> HIDE DEF q
  <2>2. [q EXCEPT !.headers = hs] = ParserOf(prev, field, val, hs, reason, body, done)
    BY <2>1 DEF ParserOf
  <2> QED
    BY <2>2 DEF q
<1>13. [[p EXCEPT !.field = t] EXCEPT !.prev = "field"] = ParserOf("field", t, val, headers, reason, body, complete)
  <2> DEFINE q == [p EXCEPT !.field = t]
  <2>1. q = ParserOf(prev, t, val, headers, reason, body, complete)
    BY DEF ParserOf
  <2> HIDE DEF q
  <2>2. [q EXCEPT !.prev = "field"] = ParserOf("field", t, val, headers, reason, body, complete)
    BY <2>1 DEF ParserOf
  <2> QED
    BY <2>2 DEF q
<1>14. [[p EXCEPT !.field = key] EXCEPT !.prev = "field"] = ParserOf("field", key, val, headers, reason, body, complete)
  <2> DEFINE q == [p EXCEPT !.field = key]
  <2>1. q = ParserOf(prev, key, val, headers, reason, body, complete)
    BY DEF ParserOf
  <2> HIDE DEF q
  <2>2. [q EXCEPT !.prev = "field"] = ParserOf("field", key, val, headers, reason, body, complete)
    BY <2>1 DEF ParserOf
  <2> QED
    BY <2>2 DEF q
<1>15. [[[p EXCEPT !.headers = later] EXCEPT !.field = t] EXCEPT !.prev = "field"]
         = ParserOf("field", t, val, later, reason, body, complete)
  <2> DEFINE q == [p EXCEPT !.headers = later]
             u == [q EXCEPT !.field = t]
  <2>1. q = ParserOf(prev, field, val, later, reason, body, complete)
    BY DEF ParserOf
  <2> HIDE DEF q
  <2>2. u = ParserOf(prev, t, val, later, reason, body, complete)
    BY <2>1 DEF ParserOf
  <2> HIDE DEF u
  <2>3. [u EXCEPT !.prev = "field"] = ParserOf("field", t, val, later, reason, body, complete)
    BY <2>2 DEF ParserOf
  <2> QED
    BY <2>3 DEF q, u
<1>16. [[p EXCEPT !.value = t] EXCEPT !.prev = "value"] = ParserOf("value", field, t, headers, reason, body, complete)
  <2> DEFINE q == [p EXCEPT !.value = t]
  <2>1. q = ParserOf(prev, field, t, headers, reason, body, complete)
    BY DEF ParserOf
  <2> HIDE DEF q
  <2>2. [q EXCEPT !.prev = "value"] = ParserOf("value", field, t, headers, reason, body, complete)
    BY <2>1 DEF ParserOf
  <2> QED
    BY <2>2 DEF q
<1>17. [[p EXCEPT !.value = words] EXCEPT !.prev = "value"]
         = ParserOf("value", field, words, headers, reason, body, complete)
  <2> DEFINE q == [p EXCEPT !.value = words]
  <2>1. q = ParserOf(prev, field, words, headers, reason, body, complete)
    BY DEF ParserOf
  <2> HIDE DEF q
  <2>2. [q EXCEPT !.prev = "value"] = ParserOf("value", field, words, headers, reason, body, complete)
    BY <2>1 DEF ParserOf
  <2> QED
    BY <2>2 DEF q
<1>18. /\ Callback(p, Of("status", t)) = ParserOf(prev, field, val, headers, longer, body, complete)
       /\ Callback(p, Of("body", t)) = ParserOf(prev, field, val, headers, reason, more, complete)
       /\ Callback(p, Of("headers", t)) = ParserOf(prev, field, val, hs, reason, body, done)
  BY <1>2, <1>3, <1>4, <1>10, <1>11, <1>12, Zenon
<1>19. /\ prev = "nothing" =>
            Callback(p, Of("field", t)) = ParserOf("field", t, val, headers, reason, body, complete)
       /\ prev = "field" =>
            Callback(p, Of("field", t)) = ParserOf("field", key, val, headers, reason, body, complete)
  BY <1>5, <1>6, <1>13, <1>14, Zenon
<1>20. prev = "value" =>
         Callback(p, Of("field", t)) = ParserOf("field", t, val, later, reason, body, complete)
  BY <1>7, <1>15, Zenon
<1>21. /\ prev = "field" =>
            Callback(p, Of("value", t)) = ParserOf("value", field, t, headers, reason, body, complete)
       /\ prev = "value" =>
            Callback(p, Of("value", t)) = ParserOf("value", field, words, headers, reason, body, complete)
  BY <1>8, <1>9, <1>16, <1>17, Zenon
<1> QED
  BY <1>18, <1>19, <1>20, <1>21

LEMMA CalledBack ==
  ASSUME NEW p \in Parser, NEW t
  PROVE  CallsOf(p, p.prev, p.field, p.value, p.headers, p.reason, p.body, p.complete, t)
<1>1. p = ParserOf(p.prev, p.field, p.value, p.headers, p.reason, p.body, p.complete)
  BY ParserTyped
<1>2. Keeps(p, p.prev, p.field, p.value, p.headers, p.reason, p.body, p.complete)
  BY <1>1 DEF Keeps
<1> QED
  BY <1>2, KeptCalled, Zenon

Holds(q, prev, field, val, headers, reason, body, complete) ==
  /\ q \in Parser /\ q = ParserOf(prev, field, val, headers, reason, body, complete)
  /\ q.prev = prev /\ q.field = field /\ q.value = val /\ q.headers = headers
  /\ q.reason = reason /\ q.body = body /\ q.complete = complete

CanKeep(prev, field, val, headers, reason, body, complete) ==
  /\ prev \in {"nothing", "field", "value"} /\ field \in Seq(Letter) /\ val \in Seq(Letter)
  /\ headers \in Headers /\ reason \in Seq(Letter) /\ body \in Seq(Letter) /\ complete \in BOOLEAN

LEMMA KeptHolds ==
  ASSUME NEW prev, NEW field, NEW val, NEW headers, NEW reason, NEW body, NEW complete,
         CanKeep(prev, field, val, headers, reason, body, complete)
  PROVE  Holds(ParserOf(prev, field, val, headers, reason, body, complete),
               prev, field, val, headers, reason, body, complete)
<1> DEFINE q == ParserOf(prev, field, val, headers, reason, body, complete)
<1>1. q \in Parser
  BY KeptTyped, Zenon DEF CanKeep
<1>2. /\ q.prev = prev /\ q.field = field /\ q.value = val /\ q.headers = headers
      /\ q.reason = reason /\ q.body = body /\ q.complete = complete
  BY DEF ParserOf
<1> QED
  BY <1>1, <1>2, Zenon DEF Holds

LEMMA CallbackHolds ==
  ASSUME NEW p \in Parser, NEW t \in Seq(Letter)
  PROVE  /\ Holds(Callback(p, Of("status", t)),
                  p.prev, p.field, p.value, p.headers, p.reason \o t, p.body, p.complete)
         /\ Holds(Callback(p, Of("body", t)),
                  p.prev, p.field, p.value, p.headers, p.reason, p.body \o t, p.complete)
         /\ Holds(Callback(p, Of("headers", t)),
                  p.prev, p.field, p.value,
                  IF p.field # <<>> THEN Append(p.headers, Header(p)) ELSE p.headers, p.reason, p.body, TRUE)
         /\ p.prev = "nothing" =>
              Holds(Callback(p, Of("field", t)),
                    "field", t, p.value, p.headers, p.reason, p.body, p.complete)
         /\ p.prev = "field" =>
              Holds(Callback(p, Of("field", t)),
                    "field", p.field \o t, p.value, p.headers, p.reason, p.body, p.complete)
         /\ p.prev = "value" =>
              Holds(Callback(p, Of("field", t)),
                    "field", t, p.value, Append(p.headers, Header(p)), p.reason, p.body, p.complete)
         /\ p.prev = "field" =>
              Holds(Callback(p, Of("value", t)),
                    "value", p.field, t, p.headers, p.reason, p.body, p.complete)
         /\ p.prev = "value" =>
              Holds(Callback(p, Of("value", t)),
                    "value", p.field, p.value \o t, p.headers, p.reason, p.body, p.complete)
<1>1. CallsOf(p, p.prev, p.field, p.value, p.headers, p.reason, p.body, p.complete, t)
  BY CalledBack
<1> DEFINE L == Seq(Letter)
           prev == p.prev
           field == p.field
           val == p.value
           headers == p.headers
           reason == p.reason
           body == p.body
           complete == p.complete
           more == Append(headers, Header(p))
<1>2. /\ prev \in {"nothing", "field", "value"} /\ field \in L /\ val \in L /\ headers \in Headers
      /\ reason \in L /\ body \in L /\ complete \in BOOLEAN /\ more \in Headers
  BY ParserTyped, HeaderKept
<1>3. reason \o t \in L /\ body \o t \in L /\ field \o t \in L /\ val \o t \in L
  <2>1. reason \in Seq(Letter) /\ body \in Seq(Letter) /\ field \in Seq(Letter) /\ val \in Seq(Letter)
    BY <1>2
  <2> HIDE DEF reason, body, field, val
  <2> QED
    BY <2>1, Joined
<1> DEFINE hs == IF field # <<>> THEN more ELSE headers
<1>4. hs \in Headers
  BY <1>2
<1>5. /\ Callback(p, Of("status", t)) = ParserOf(prev, field, val, headers, reason \o t, body, complete)
      /\ Callback(p, Of("body", t)) = ParserOf(prev, field, val, headers, reason, body \o t, complete)
      /\ Callback(p, Of("headers", t)) = ParserOf(prev, field, val, hs, reason, body, TRUE)
      /\ prev = "nothing" =>
           Callback(p, Of("field", t)) = ParserOf("field", t, val, headers, reason, body, complete)
      /\ prev = "field" =>
           Callback(p, Of("field", t)) = ParserOf("field", field \o t, val, headers, reason, body, complete)
      /\ prev = "value" =>
           Callback(p, Of("field", t)) = ParserOf("field", t, val, more, reason, body, complete)
      /\ prev = "field" =>
           Callback(p, Of("value", t)) = ParserOf("value", field, t, headers, reason, body, complete)
      /\ prev = "value" =>
           Callback(p, Of("value", t)) = ParserOf("value", field, val \o t, headers, reason, body, complete)
  BY <1>1, Zenon DEF CallsOf
<1> SUFFICES
      /\ Holds(Callback(p, Of("status", t)), prev, field, val, headers, reason \o t, body, complete)
      /\ Holds(Callback(p, Of("body", t)), prev, field, val, headers, reason, body \o t, complete)
      /\ Holds(Callback(p, Of("headers", t)), prev, field, val, hs, reason, body, TRUE)
      /\ prev = "nothing" =>
           Holds(Callback(p, Of("field", t)), "field", t, val, headers, reason, body, complete)
      /\ prev = "field" =>
           Holds(Callback(p, Of("field", t)), "field", field \o t, val, headers, reason, body, complete)
      /\ prev = "value" =>
           Holds(Callback(p, Of("field", t)), "field", t, val, more, reason, body, complete)
      /\ prev = "field" =>
           Holds(Callback(p, Of("value", t)), "value", field, t, headers, reason, body, complete)
      /\ prev = "value" =>
           Holds(Callback(p, Of("value", t)), "value", field, val \o t, headers, reason, body, complete)
  BY Zenon
<1> HIDE DEF prev, field, val, headers, reason, body, complete, more, hs
<1>6. /\ "field" \in {"nothing", "field", "value"} /\ "value" \in {"nothing", "field", "value"}
      /\ TRUE \in BOOLEAN /\ t \in L
  OBVIOUS
<1>7. /\ field \in Seq(Letter) /\ val \in Seq(Letter) /\ reason \in Seq(Letter) /\ body \in Seq(Letter)
      /\ reason \o t \in Seq(Letter) /\ body \o t \in Seq(Letter) /\ field \o t \in Seq(Letter)
      /\ val \o t \in Seq(Letter) /\ t \in Seq(Letter)
  BY <1>2, <1>3, <1>6
<1>8. Holds(Callback(p, Of("status", t)), prev, field, val, headers, reason \o t, body, complete)
  <2>1. CanKeep(prev, field, val, headers, reason \o t, body, complete)
    BY <1>2, <1>4, <1>6, <1>7, Zenon DEF CanKeep
  <2> QED
    BY <1>5, <2>1, KeptHolds, Zenon
<1>9. Holds(Callback(p, Of("body", t)), prev, field, val, headers, reason, body \o t, complete)
  <2>1. CanKeep(prev, field, val, headers, reason, body \o t, complete)
    BY <1>2, <1>4, <1>6, <1>7, Zenon DEF CanKeep
  <2> QED
    BY <1>5, <2>1, KeptHolds, Zenon
<1>10. Holds(Callback(p, Of("headers", t)), prev, field, val, hs, reason, body, TRUE)
  <2>1. CanKeep(prev, field, val, hs, reason, body, TRUE)
    BY <1>2, <1>4, <1>6, <1>7, Zenon DEF CanKeep
  <2> QED
    BY <1>5, <2>1, KeptHolds, Zenon
<1>11. prev = "nothing" =>
         Holds(Callback(p, Of("field", t)), "field", t, val, headers, reason, body, complete)
  <2>1. CanKeep("field", t, val, headers, reason, body, complete)
    BY <1>2, <1>4, <1>6, <1>7, Zenon DEF CanKeep
  <2> QED
    BY <1>5, <2>1, KeptHolds, Zenon
<1>12. prev = "field" =>
         Holds(Callback(p, Of("field", t)), "field", field \o t, val, headers, reason, body, complete)
  <2>1. CanKeep("field", field \o t, val, headers, reason, body, complete)
    BY <1>2, <1>4, <1>6, <1>7, Zenon DEF CanKeep
  <2> QED
    BY <1>5, <2>1, KeptHolds, Zenon
<1>13. prev = "value" =>
         Holds(Callback(p, Of("field", t)), "field", t, val, more, reason, body, complete)
  <2>1. CanKeep("field", t, val, more, reason, body, complete)
    BY <1>2, <1>4, <1>6, <1>7, Zenon DEF CanKeep
  <2> QED
    BY <1>5, <2>1, KeptHolds, Zenon
<1>14. prev = "field" =>
         Holds(Callback(p, Of("value", t)), "value", field, t, headers, reason, body, complete)
  <2>1. CanKeep("value", field, t, headers, reason, body, complete)
    BY <1>2, <1>4, <1>6, <1>7, Zenon DEF CanKeep
  <2> QED
    BY <1>5, <2>1, KeptHolds, Zenon
<1>15. prev = "value" =>
         Holds(Callback(p, Of("value", t)), "value", field, val \o t, headers, reason, body, complete)
  <2>1. CanKeep("value", field, val \o t, headers, reason, body, complete)
    BY <1>2, <1>4, <1>6, <1>7, Zenon DEF CanKeep
  <2> QED
    BY <1>5, <2>1, KeptHolds, Zenon
<1> QED
  BY <1>8, <1>9, <1>10, <1>11, <1>12, <1>13, <1>14, <1>15, Zenon

\* What can be called back.
Callable(p, kind) == kind \in {"status", "field", "headers", "body"} \/ (kind = "value" /\ p.prev # "nothing")

LEMMA CallbackTyped ==
  ASSUME NEW p \in Parser, NEW t \in Seq(Letter), NEW kind, Callable(p, kind)
  PROVE  Callback(p, Of(kind, t)) \in Parser /\ (kind = "value" => Callback(p, Of(kind, t)).prev = "value")
<1>1. p.prev \in {"nothing", "field", "value"}
  BY ParserTyped
<1>2. CASE kind = "status"
  <2>1. Callback(p, Of("status", t)) \in Parser
    BY CallbackHolds, Zenon DEF Holds
  <2> QED
    BY <1>2, <2>1
<1>3. CASE kind = "body"
  <2>1. Callback(p, Of("body", t)) \in Parser
    BY CallbackHolds, Zenon DEF Holds
  <2> QED
    BY <1>3, <2>1
<1>4. CASE kind = "headers"
  <2>1. Callback(p, Of("headers", t)) \in Parser
    BY CallbackHolds, Zenon DEF Holds
  <2> QED
    BY <1>4, <2>1
<1>5. CASE kind = "field"
  <2>1. Callback(p, Of("field", t)) \in Parser
    BY <1>1, CallbackHolds, Zenon DEF Holds
  <2> QED
    BY <1>5, <2>1
<1>6. CASE kind = "value"
  <2>0. p.prev = "field" \/ p.prev = "value"
    BY <1>1, <1>6 DEF Callable
  <2>1. Callback(p, Of("value", t)) \in Parser /\ Callback(p, Of("value", t)).prev = "value"
    BY <2>0, CallbackHolds, Zenon DEF Holds
  <2> QED
    BY <1>6, <2>1
<1> QED
  BY <1>2, <1>3, <1>4, <1>5, <1>6 DEF Callable

\* Two callbacks of one kind are as good as one.
LEMMA CallsJoin ==
  ASSUME NEW p \in Parser, NEW t \in Seq(Letter), NEW u \in Seq(Letter),
         NEW kind \in {"status", "field", "value", "body"}, Callable(p, kind)
  PROVE  Callback(Callback(p, Of(kind, t)), Of(kind, u)) = Callback(p, Of(kind, t \o u))
<1> DEFINE q == Callback(p, Of(kind, t))
           both == t \o u
<1>1. q \in Parser
  BY CallbackTyped
<1>2. both \in Seq(Letter)
  BY Joined
<1>3. /\ p.prev \in {"nothing", "field", "value"} /\ p.field \in Seq(Letter) /\ p.value \in Seq(Letter)
      /\ p.reason \in Seq(Letter) /\ p.body \in Seq(Letter)
  BY ParserTyped
<1>4. \A x \in Seq(Letter) : (x \o t) \o u = x \o both
  <2>1. \A x \in Seq(Letter) : x \o (t \o u) = (x \o t) \o u
    BY Associative
  <2> QED
    BY <2>1
<1> HIDE DEF both
<1>5. CASE kind = "status"
  <2>1. Holds(q, p.prev, p.field, p.value, p.headers, p.reason \o t, p.body, p.complete)
    BY <1>5, CallbackHolds, Zenon
  <2> HIDE DEF q
  <2>2. Holds(Callback(q, Of("status", u)), q.prev, q.field, q.value, q.headers, q.reason \o u, q.body, q.complete)
    BY <1>1, CallbackHolds, Zenon
  <2>3. Callback(q, Of("status", u))
          = ParserOf(p.prev, p.field, p.value, p.headers, (p.reason \o t) \o u, p.body, p.complete)
    BY <2>1, <2>2, Zenon DEF Holds
  <2>6. Holds(Callback(p, Of("status", both)), p.prev, p.field, p.value, p.headers, p.reason \o both, p.body, p.complete)
    BY <1>2, CallbackHolds
  <2>4. Callback(p, Of("status", both))
          = ParserOf(p.prev, p.field, p.value, p.headers, p.reason \o both, p.body, p.complete)
    BY <2>6, Zenon DEF Holds
  <2>5. (p.reason \o t) \o u = p.reason \o both
    BY <1>3, <1>4
  <2> QED
    BY <1>5, <2>3, <2>4, <2>5, Zenon DEF both, q
<1>6. CASE kind = "body"
  <2>1. Holds(q, p.prev, p.field, p.value, p.headers, p.reason, p.body \o t, p.complete)
    BY <1>6, CallbackHolds, Zenon
  <2> HIDE DEF q
  <2>2. Holds(Callback(q, Of("body", u)), q.prev, q.field, q.value, q.headers, q.reason, q.body \o u, q.complete)
    BY <1>1, CallbackHolds, Zenon
  <2>3. Callback(q, Of("body", u))
          = ParserOf(p.prev, p.field, p.value, p.headers, p.reason, (p.body \o t) \o u, p.complete)
    BY <2>1, <2>2, Zenon DEF Holds
  <2>6. Holds(Callback(p, Of("body", both)), p.prev, p.field, p.value, p.headers, p.reason, p.body \o both, p.complete)
    BY <1>2, CallbackHolds
  <2>4. Callback(p, Of("body", both))
          = ParserOf(p.prev, p.field, p.value, p.headers, p.reason, p.body \o both, p.complete)
    BY <2>6, Zenon DEF Holds
  <2>5. (p.body \o t) \o u = p.body \o both
    BY <1>3, <1>4
  <2> QED
    BY <1>6, <2>3, <2>4, <2>5, Zenon DEF both, q
<1>7. CASE kind = "field"
  <2> DEFINE first == IF p.prev = "field" THEN p.field \o t ELSE t
             all == IF p.prev = "field" THEN p.field \o both ELSE both
             hs == IF p.prev = "value" THEN Append(p.headers, Header(p)) ELSE p.headers
  <2>1. Holds(q, "field", first, p.value, hs, p.reason, p.body, p.complete)
    <3>1. CASE p.prev = "nothing"
      BY <1>7, <3>1, CallbackHolds
    <3>2. CASE p.prev = "field"
      BY <1>7, <3>2, CallbackHolds
    <3>3. CASE p.prev = "value"
      BY <1>7, <3>3, CallbackHolds
    <3> QED
      BY <1>3, <3>1, <3>2, <3>3
  <2>2. Holds(Callback(p, Of("field", both)), "field", all, p.value, hs, p.reason, p.body, p.complete)
    <3>1. CASE p.prev = "nothing"
      BY <1>2, <3>1, CallbackHolds
    <3>2. CASE p.prev = "field"
      BY <1>2, <3>2, CallbackHolds
    <3>3. CASE p.prev = "value"
      BY <1>2, <3>3, CallbackHolds
    <3> QED
      BY <1>3, <3>1, <3>2, <3>3
  <2>3. first \o u = all
    <3>1. (p.field \o t) \o u = p.field \o both
      BY <1>3, <1>4
    <3> QED
      BY <3>1 DEF both
  <2> HIDE DEF q, first, all, hs
  <2>4. q.prev = "field"
    BY <2>1 DEF Holds
  <2>5. Holds(Callback(q, Of("field", u)), "field", q.field \o u, q.value, q.headers, q.reason, q.body, q.complete)
    BY <1>1, <2>4, CallbackHolds, Zenon
  <2>6. Callback(q, Of("field", u)) = ParserOf("field", first \o u, p.value, hs, p.reason, p.body, p.complete)
    BY <2>1, <2>5, Zenon DEF Holds
  <2>7. Callback(p, Of("field", both)) = ParserOf("field", all, p.value, hs, p.reason, p.body, p.complete)
    BY <2>2, Zenon DEF Holds
  <2> QED
    BY <1>7, <2>3, <2>6, <2>7, Zenon DEF both, q
<1>8. CASE kind = "value"
  <2> DEFINE first == IF p.prev = "value" THEN p.value \o t ELSE t
             all == IF p.prev = "value" THEN p.value \o both ELSE both
  <2>0. p.prev = "field" \/ p.prev = "value"
    BY <1>3, <1>8 DEF Callable
  <2>1. Holds(q, "value", p.field, first, p.headers, p.reason, p.body, p.complete)
    <3>2. CASE p.prev = "field"
      BY <1>8, <3>2, CallbackHolds
    <3>3. CASE p.prev = "value"
      BY <1>8, <3>3, CallbackHolds
    <3> QED
      BY <2>0, <3>2, <3>3
  <2>2. Holds(Callback(p, Of("value", both)), "value", p.field, all, p.headers, p.reason, p.body, p.complete)
    <3>2. CASE p.prev = "field"
      BY <1>2, <3>2, CallbackHolds
    <3>3. CASE p.prev = "value"
      BY <1>2, <3>3, CallbackHolds
    <3> QED
      BY <2>0, <3>2, <3>3
  <2>3. first \o u = all
    <3>1. (p.value \o t) \o u = p.value \o both
      BY <1>3, <1>4
    <3> QED
      BY <3>1 DEF both
  <2> HIDE DEF q, first, all
  <2>4. q.prev = "value"
    BY <2>1 DEF Holds
  <2>5. Holds(Callback(q, Of("value", u)), "value", q.field, q.value \o u, q.headers, q.reason, q.body, q.complete)
    BY <1>1, <2>4, CallbackHolds, Zenon
  <2>6. Callback(q, Of("value", u)) = ParserOf("value", p.field, first \o u, p.headers, p.reason, p.body, p.complete)
    BY <2>1, <2>5, Zenon DEF Holds
  <2>7. Callback(p, Of("value", both)) = ParserOf("value", p.field, all, p.headers, p.reason, p.body, p.complete)
    BY <2>2, Zenon DEF Holds
  <2> QED
    BY <1>8, <2>3, <2>6, <2>7, Zenon DEF both, q
<1> QED
  BY <1>5, <1>6, <1>7, <1>8

\* The callback that a symbol amounts to.
KindOf(s) == IF s.kind \in DOMAIN ItemEnded THEN ItemEnded[s.kind] ELSE s.kind
TextOf(s) == IF s.kind \in DOMAIN ItemEnded THEN <<>> ELSE <<s.char>>
Stepped(p, s) == Callback(p, Of(KindOf(s), TextOf(s)))

LEMMA KindsOf ==
  ASSUME NEW s
  PROVE  /\ s.kind \in DOMAIN ItemEnded <=> s.kind \in {"colon", "crlf", "eol", "blank"}
         /\ s.kind = "colon" => KindOf(s) = "field" /\ TextOf(s) = <<>>
         /\ s.kind = "crlf" => KindOf(s) = "value" /\ TextOf(s) = <<>>
         /\ s.kind = "eol" => KindOf(s) = "status" /\ TextOf(s) = <<>>
         /\ s.kind = "blank" => KindOf(s) = "headers" /\ TextOf(s) = <<>>
         /\ s.kind \in {"status", "field", "value", "body"} => KindOf(s) = s.kind /\ TextOf(s) = <<s.char>>
<1>1. DOMAIN ItemEnded = {"colon", "crlf", "eol", "blank"}
  BY DEF ItemEnded
<1>2. /\ ItemEnded["colon"] = "field" /\ ItemEnded["crlf"] = "value"
      /\ ItemEnded["eol"] = "status" /\ ItemEnded["blank"] = "headers"
  BY DEF ItemEnded
<1> QED
  BY <1>1, <1>2 DEF KindOf, TextOf

LEMMA TextsOf ==
  ASSUME NEW s \in Symbol
  PROVE  TextOf(s) \in Seq(Letter) /\ s.kind \in Kinds /\ s.char \in Letter
<1>1. s.char \in Letter /\ s.kind \in Kinds
  BY DEF Symbol
<1>2. <<>> \in Seq(Letter) /\ <<s.char>> \in Seq(Letter)
  BY <1>1
<1> QED
  BY <1>1, <1>2 DEF TextOf

\* One more.
LEMMA OneMore ==
  ASSUME NEW T, NEW hs \in Seq(T), NEW k \in 1 .. Len(hs)
  PROVE  Append(SubSeq(hs, 1, k - 1), hs[k]) = SubSeq(hs, 1, k)
<1> DEFINE a == SubSeq(hs, 1, k - 1)
           b == Append(a, hs[k])
           c == SubSeq(hs, 1, k)
<1>1. k \in Nat /\ k - 1 \in Nat /\ hs[k] \in T /\ Len(hs) \in Nat /\ k <= Len(hs)
  OBVIOUS
<1>2. a \in Seq(T) /\ Len(a) = k - 1 /\ \A i \in 1 .. k - 1 : a[i] = hs[i]
  BY <1>1
<1>3. c \in Seq(T) /\ Len(c) = k /\ \A i \in 1 .. k : c[i] = hs[i]
  BY <1>1
<1> HIDE DEF a, c
<1>4. b \in Seq(T) /\ Len(b) = k /\ b[k] = hs[k] /\ \A i \in 1 .. k - 1 : b[i] = a[i]
  BY <1>1, <1>2, AppendProperties
<1> HIDE DEF b
<1>5. \A i \in 1 .. k : b[i] = c[i]
  BY <1>1, <1>2, <1>3, <1>4
<1>6. b = c
  BY <1>3, <1>4, <1>5, SeqEqual
<1> QED
  BY <1>6 DEF a, b, c

LEMMA Nothing == \A T : \A s \in Seq(T) : s \o <<>> = s /\ <<>> \o s = s
BY ConcatEmptySeq

NextOf(kind, known, whole, x, s, v) ==
  /\ kind \in Kinds /\ known \in Seq(Letter) /\ x \in Seq(Symbol) /\ s \in Symbol /\ v \in Seq(Symbol)
  /\ Reads(kind, known, whole, <<s>> \o v, x)

LEMMA GoesOnReading ==
  ASSUME NEW kind, NEW known, NEW whole, NEW x, NEW s, NEW v, NextOf(kind, known, whole, x, s, v)
  PROVE  \/ known = whole /\ <<s>> \o v = x
         \/ s.kind = kind /\ Reads(kind, known \o <<s.char>>, whole, v, x)
BY ReadsNext DEF NextOf

LEMMA StatusStep ==
  ASSUME NEW m, Answers(m), NEW p \in Parser, NEW s \in Symbol, NEW v \in Seq(Symbol),
         p.complete = FALSE, p.body = <<>>, InStatus(m, p, <<s>> \o v)
  PROVE  Callable(p, KindOf(s)) /\ HttpRead(m, Stepped(p, s), v)
<1> DEFINE q == Stepped(p, s)
           t == TextOf(s)
           x == End("eol") \o LinesFrom(m, 1)
<1>1. /\ p.prev = "nothing" /\ p.field = <<>> /\ p.headers = <<>> /\ p.reason \in Seq(Letter)
      /\ Reads("status", p.reason, m.reason, <<s>> \o v, x)
  BY ParserTyped DEF InStatus
<1>2. x \in Seq(Symbol) /\ LinesFrom(m, 1) \in Seq(Symbol)
  <2>1. 1 \in 1 .. Len(m.headers) + 1
    BY HeadersTyped
  <2> QED
    BY <2>1, ResponseIs, LinesTyped
<1>3. /\ t \in Seq(Letter)
      /\ Holds(Callback(p, Of("status", t)),
               p.prev, p.field, p.value, p.headers, p.reason \o t, p.body, p.complete)
  BY TextsOf, CallbackHolds
<1> HIDE DEF t, x
<1>4. CASE p.reason = m.reason /\ <<s>> \o v = x
  <2>1. s = [kind |-> "eol", char |-> ""] /\ v = LinesFrom(m, 1)
    BY <1>2, <1>4, EndFirst DEF x, Kinds
  <2>9. s.kind = "eol"
    BY <2>1
  <2>2. KindOf(s) = "status" /\ t = <<>>
    BY <2>9, KindsOf DEF t
  <2>3. p.reason \o t = m.reason
    BY <1>1, <1>4, <2>2, Nothing
  <2>4. q = Callback(p, Of("status", t))
    BY <2>2 DEF t, Stepped
  <2> HIDE DEF q
  <2>5. /\ q.prev = "nothing" /\ q.field = <<>> /\ q.headers = <<>> /\ q.reason = m.reason
        /\ q.complete = FALSE /\ q.body = <<>>
    BY <1>1, <1>3, <2>3, <2>4 DEF Holds
  <2>6. BeforeHeader(m, q, v, 1)
    <3>1. HeadersRead(m, q, 0)
      BY <2>5 DEF HeadersRead
    <3>2. 1 - 1 = 0
      OBVIOUS
    <3> QED
      BY <2>1, <3>1, <3>2 DEF BeforeHeader
  <2>7. 1 \in 1 .. Len(m.headers) + 1
    BY HeadersTyped
  <2>8. InHeaders(m, q, v)
    BY <2>5, <2>6, <2>7 DEF InHeaders
  <2> QED
    BY <2>2, <2>5, <2>8 DEF HttpRead, Callable, q
<1>5. CASE s.kind = "status" /\ Reads("status", p.reason \o <<s.char>>, m.reason, v, x)
  <2>2. KindOf(s) = "status" /\ t = <<s.char>>
    BY <1>5, KindsOf DEF t
  <2>4. q = Callback(p, Of("status", t))
    BY <2>2 DEF t, Stepped
  <2> HIDE DEF q
  <2>5. /\ q.prev = "nothing" /\ q.field = <<>> /\ q.headers = <<>> /\ q.reason = p.reason \o <<s.char>>
        /\ q.complete = FALSE /\ q.body = <<>>
    BY <1>1, <1>3, <2>2, <2>4 DEF Holds
  <2>8. InStatus(m, q, v)
    BY <1>5, <2>5 DEF InStatus, x
  <2> QED
    BY <2>2, <2>5, <2>8 DEF HttpRead, Callable, q
<1>7. NextOf("status", p.reason, m.reason, x, s, v)
  BY <1>1, <1>2 DEF NextOf, Kinds
<1>8. \/ p.reason = m.reason /\ <<s>> \o v = x
      \/ s.kind = "status" /\ Reads("status", p.reason \o <<s.char>>, m.reason, v, x)
  BY <1>7, GoesOnReading
<1> QED
  BY <1>4, <1>5, <1>8

LEMMA FieldStep ==
  ASSUME NEW m, Answers(m), NEW p \in Parser, NEW s \in Symbol, NEW v \in Seq(Symbol),
         p.complete = FALSE, p.body = <<>>, p.reason = m.reason,
         NEW i \in 1 .. Len(m.headers), InField(m, p, <<s>> \o v, i)
  PROVE  Callable(p, KindOf(s)) /\ HttpRead(m, Stepped(p, s), v)
<1> DEFINE q == Stepped(p, s)
           t == TextOf(s)
           x == AfterField(m, i)
           y == Chars("value", m.headers[i].value) \o AfterValue(m, i)
           key == m.headers[i].key
<1>1. /\ p.prev = "field" /\ p.headers = SubSeq(m.headers, 1, i - 1) /\ p.field \in Seq(Letter)
      /\ Reads("field", p.field, key, <<s>> \o v, x)
  BY ParserTyped DEF InField
<1>2. x \in Seq(Symbol) /\ y \in Seq(Symbol)
  BY LinesNext
<1>3. /\ t \in Seq(Letter)
      /\ Holds(Callback(p, Of("field", t)),
               "field", p.field \o t, p.value, p.headers, p.reason, p.body, p.complete)
  BY <1>1, TextsOf, CallbackHolds
<1> HIDE DEF t, x, y, key
<1>4. CASE p.field = key /\ <<s>> \o v = x
  <2>0. x = End("colon") \o y
    BY DEF AfterField, x, y
  <2>1. s = [kind |-> "colon", char |-> ""] /\ v = y
    <3>1. "colon" \in Kinds
      BY DEF Kinds
    <3>2. <<s>> \o v = End("colon") \o y
      BY <1>4, <2>0
    <3> QED
      BY <1>2, <3>1, <3>2, EndFirst
  <2>9. s.kind = "colon"
    BY <2>1
  <2>2. KindOf(s) = "field" /\ t = <<>>
    BY <2>9, KindsOf DEF t
  <2>3. p.field \o t = key
    BY <1>1, <1>4, <2>2, Nothing
  <2>4. q = Callback(p, Of("field", t))
    BY <2>2 DEF t, Stepped
  <2> HIDE DEF q
  <2>5. /\ q.prev = "field" /\ q.field = key /\ q.headers = SubSeq(m.headers, 1, i - 1) /\ q.reason = m.reason
        /\ q.complete = FALSE /\ q.body = <<>>
    BY <1>1, <1>3, <2>3, <2>4 DEF Holds
  <2>6. Reads("value", <<>>, m.headers[i].value, v, AfterValue(m, i))
    <3>1. m.headers[i].value \in Seq(Letter)
      BY HeadersTyped
    <3>2. <<>> \o m.headers[i].value = m.headers[i].value
      BY <3>1, Nothing
    <3> QED
      BY <2>1, <3>1, <3>2 DEF Reads, y
  <2>7. BeforeValue(m, q, v, i)
    BY <2>5, <2>6 DEF BeforeValue, key
  <2>8. InHeaders(m, q, v)
    BY <2>5, <2>7 DEF InHeaders, InHeader
  <2> QED
    BY <2>2, <2>5, <2>8 DEF HttpRead, Callable, q
<1>5. CASE s.kind = "field" /\ Reads("field", p.field \o <<s.char>>, key, v, x)
  <2>2. KindOf(s) = "field" /\ t = <<s.char>>
    BY <1>5, KindsOf DEF t
  <2>4. q = Callback(p, Of("field", t))
    BY <2>2 DEF t, Stepped
  <2> HIDE DEF q
  <2>5. /\ q.prev = "field" /\ q.field = p.field \o <<s.char>> /\ q.headers = SubSeq(m.headers, 1, i - 1)
        /\ q.reason = m.reason /\ q.complete = FALSE /\ q.body = <<>>
    BY <1>1, <1>3, <2>2, <2>4 DEF Holds
  <2>7. InField(m, q, v, i)
    BY <1>5, <2>5 DEF InField, x, key
  <2>8. InHeaders(m, q, v)
    BY <2>5, <2>7 DEF InHeaders, InHeader
  <2> QED
    BY <2>2, <2>5, <2>8 DEF HttpRead, Callable, q
<1>7. NextOf("field", p.field, key, x, s, v)
  BY <1>1, <1>2 DEF NextOf, Kinds
<1>8. \/ p.field = key /\ <<s>> \o v = x
      \/ s.kind = "field" /\ Reads("field", p.field \o <<s.char>>, key, v, x)
  BY <1>7, GoesOnReading
<1> QED
  BY <1>4, <1>5, <1>8

LEMMA ValueStep ==
  ASSUME NEW m, Answers(m), NEW p \in Parser, NEW s \in Symbol, NEW v \in Seq(Symbol),
         p.complete = FALSE, p.body = <<>>, p.reason = m.reason,
         NEW i \in 1 .. Len(m.headers),
         BeforeValue(m, p, <<s>> \o v, i) \/ InValue(m, p, <<s>> \o v, i)
  PROVE  Callable(p, KindOf(s)) /\ HttpRead(m, Stepped(p, s), v)
<1> DEFINE q == Stepped(p, s)
           t == TextOf(s)
           x == AfterValue(m, i)
           y == LinesFrom(m, i + 1)
           val == m.headers[i].value
           known == IF p.prev = "field" THEN <<>> ELSE p.value
<1>1. /\ p.prev \in {"field", "value"} /\ p.headers = SubSeq(m.headers, 1, i - 1)
      /\ p.field = m.headers[i].key /\ known \in Seq(Letter)
      /\ Reads("value", known, val, <<s>> \o v, x)
  <2>1. <<>> \in Seq(Letter) /\ p.value \in Seq(Letter)
    BY ParserTyped
  <2>2. CASE BeforeValue(m, p, <<s>> \o v, i)
    BY <2>1, <2>2 DEF BeforeValue
  <2>3. CASE InValue(m, p, <<s>> \o v, i)
    BY <2>1, <2>3 DEF InValue
  <2> QED
    BY <2>2, <2>3
<1>2. x \in Seq(Symbol) /\ y \in Seq(Symbol)
  BY LinesNext
<1>3. t \in Seq(Letter)
  BY TextsOf
<1>6. Holds(Callback(p, Of("value", t)),
            "value", p.field, known \o t, p.headers, p.reason, p.body, p.complete)
  <2>1. CASE p.prev = "field"
    <3>1. known \o t = t
      BY <1>3, <2>1, Nothing
    <3>2. Holds(Callback(p, Of("value", t)),
                "value", p.field, t, p.headers, p.reason, p.body, p.complete)
      BY <1>3, <2>1, CallbackHolds
    <3> QED
      BY <3>1, <3>2
  <2>2. CASE p.prev = "value"
    <3>1. known = p.value
      BY <2>2
    <3>2. Holds(Callback(p, Of("value", t)),
                "value", p.field, p.value \o t, p.headers, p.reason, p.body, p.complete)
      BY <1>3, <2>2, CallbackHolds
    <3> QED
      BY <3>1, <3>2
  <2> QED
    BY <1>1, <2>1, <2>2
<1> HIDE DEF t, x, y, val, known
<1>4. CASE known = val /\ <<s>> \o v = x
  <2>0. x = End("crlf") \o y
    BY DEF AfterValue, x, y
  <2>1. s = [kind |-> "crlf", char |-> ""] /\ v = y
    BY <1>2, <1>4, <2>0, EndFirst DEF Kinds
  <2>9. s.kind = "crlf"
    BY <2>1
  <2>2. KindOf(s) = "value" /\ t = <<>>
    BY <2>9, KindsOf DEF t
  <2>3. known \o t = val
    BY <1>1, <1>4, <2>2, Nothing
  <2>4. q = Callback(p, Of("value", t))
    BY <2>2 DEF t, Stepped
  <2> HIDE DEF q
  <2>5. /\ q.prev = "value" /\ q.field = m.headers[i].key /\ q.value = val
        /\ q.headers = SubSeq(m.headers, 1, i - 1) /\ q.reason = m.reason
        /\ q.complete = FALSE /\ q.body = <<>>
    BY <1>1, <1>6, <2>3, <2>4 DEF Holds
  <2>6. i # 0 /\ (i + 1) - 1 = i /\ i + 1 \in 1 .. Len(m.headers) + 1
    BY HeadersTyped
  <2>7. BeforeHeader(m, q, v, i + 1)
    <3>1. HeadersRead(m, q, i)
      BY <2>5, <2>6 DEF HeadersRead, val
    <3> QED
      BY <2>1, <2>6, <3>1 DEF BeforeHeader, y
  <2>8. InHeaders(m, q, v)
    BY <2>5, <2>6, <2>7 DEF InHeaders
  <2> QED
    BY <1>1, <2>2, <2>5, <2>8 DEF HttpRead, Callable, q
<1>5. CASE s.kind = "value" /\ Reads("value", known \o <<s.char>>, val, v, x)
  <2>2. KindOf(s) = "value" /\ t = <<s.char>>
    BY <1>5, KindsOf DEF t
  <2>4. q = Callback(p, Of("value", t))
    BY <2>2 DEF t, Stepped
  <2> HIDE DEF q
  <2>5. /\ q.prev = "value" /\ q.field = m.headers[i].key /\ q.value = known \o <<s.char>>
        /\ q.headers = SubSeq(m.headers, 1, i - 1) /\ q.reason = m.reason
        /\ q.complete = FALSE /\ q.body = <<>>
    BY <1>1, <1>6, <2>2, <2>4 DEF Holds
  <2>7. InValue(m, q, v, i)
    BY <1>5, <2>5 DEF InValue, x, val
  <2>8. InHeaders(m, q, v)
    BY <2>5, <2>7 DEF InHeaders, InHeader
  <2> QED
    BY <1>1, <2>2, <2>5, <2>8 DEF HttpRead, Callable, q
<1>7. NextOf("value", known, val, x, s, v)
  BY <1>1, <1>2 DEF NextOf, Kinds
<1>8. \/ known = val /\ <<s>> \o v = x
      \/ s.kind = "value" /\ Reads("value", known \o <<s.char>>, val, v, x)
  BY <1>7, GoesOnReading
<1> QED
  BY <1>4, <1>5, <1>8

LEMMA BodyStep ==
  ASSUME NEW m, Answers(m), NEW p \in Parser, NEW s \in Symbol, NEW v \in Seq(Symbol),
         p.complete = TRUE, InBody(m, p, <<s>> \o v)
  PROVE  Callable(p, KindOf(s)) /\ HttpRead(m, Stepped(p, s), v)
<1> DEFINE q == Stepped(p, s)
           t == TextOf(s)
<1>1. /\ p.headers = m.headers /\ p.reason = m.reason /\ p.body \in Seq(Letter)
      /\ Reads("body", p.body, m.body, <<s>> \o v, <<>>)
  BY ParserTyped DEF InBody
<1>2. <<s>> \o v # <<>>
  <2>1. Len(<<s>>) = 1 /\ <<s>> \in Seq(Symbol)
    OBVIOUS
  <2>2. Len(<<s>> \o v) = 1 + Len(v) /\ Len(v) \in Nat
    BY <2>1, Lengths
  <2>3. Len(<<s>> \o v) # 0
    BY <2>2
  <2> QED
    BY <2>3
<1>3. /\ t \in Seq(Letter)
      /\ Holds(Callback(p, Of("body", t)),
               p.prev, p.field, p.value, p.headers, p.reason, p.body \o t, p.complete)
  BY TextsOf, CallbackHolds
<1> HIDE DEF t
<1>4. <<>> \in Seq(Symbol)
  OBVIOUS
<1>5. s.kind = "body" /\ Reads("body", p.body \o <<s.char>>, m.body, v, <<>>)
  <2> DEFINE x == <<>>
  <2>1. x \in Seq(Symbol) /\ Reads("body", p.body, m.body, <<s>> \o v, x) /\ <<s>> \o v # x
    BY <1>1, <1>2, <1>4
  <2> HIDE DEF x
  <2>3. NextOf("body", p.body, m.body, x, s, v)
    BY <1>1, <2>1 DEF NextOf, Kinds
  <2>2. s.kind = "body" /\ Reads("body", p.body \o <<s.char>>, m.body, v, x)
    BY <2>1, <2>3, GoesOnReading
  <2> QED
    BY <2>2 DEF x
<1>6. KindOf(s) = "body" /\ t = <<s.char>>
  BY <1>5, KindsOf DEF t
<1>7. q = Callback(p, Of("body", t))
  BY <1>6 DEF t, Stepped
<1> HIDE DEF q
<1>8. q.headers = m.headers /\ q.reason = m.reason /\ q.body = p.body \o <<s.char>> /\ q.complete = TRUE
  BY <1>1, <1>3, <1>6, <1>7 DEF Holds
<1>9. InBody(m, q, v)
  BY <1>5, <1>8 DEF InBody
<1> QED
  BY <1>6, <1>8, <1>9 DEF HttpRead, Callable, q

LEMMA HeaderStep ==
  ASSUME NEW m, Answers(m), NEW p \in Parser, NEW s \in Symbol, NEW v \in Seq(Symbol),
         p.complete = FALSE, p.body = <<>>, p.reason = m.reason,
         NEW i \in 1 .. Len(m.headers), BeforeHeader(m, p, <<s>> \o v, i)
  PROVE  Callable(p, KindOf(s)) /\ HttpRead(m, Stepped(p, s), v)
<1> DEFINE q == Stepped(p, s)
           t == TextOf(s)
           x == AfterField(m, i)
           key == m.headers[i].key
           none == <<>>
<1>1. HeadersRead(m, p, i - 1) /\ <<s>> \o v = Chars("field", key) \o x
  BY LinesNext DEF BeforeHeader
<1>2. x \in Seq(Symbol) /\ key \in Seq(Letter) /\ key # none /\ none \in Seq(Letter) /\ none \o key = key
  <2>1. x \in Seq(Symbol)
    BY LinesNext
  <2>2. key \in Seq(Letter) /\ key # none /\ none \in Seq(Letter)
    BY HeadersTyped
  <2> HIDE DEF key
  <2>3. <<>> \o key = key
    BY <2>2, Nothing
  <2> QED
    BY <2>1, <2>2, <2>3
<1>3. t \in Seq(Letter)
  BY TextsOf
<1>4. Reads("field", none, key, <<s>> \o v, x)
  BY <1>1, <1>2, Zenon DEF Reads
<1> HIDE DEF t, x, key, none
<1>5. NextOf("field", none, key, x, s, v)
  BY <1>2, <1>4 DEF NextOf, Kinds
<1>6. s.kind = "field" /\ Reads("field", none \o <<s.char>>, key, v, x)
  BY <1>2, <1>5, GoesOnReading
<1>7. KindOf(s) = "field" /\ t = <<s.char>>
  BY <1>6, KindsOf DEF t
<1>8. none \o <<s.char>> = t
  BY <1>3, <1>7, Nothing DEF none
<1>9. q = Callback(p, Of("field", t))
  BY <1>7 DEF t, Stepped
<1> HIDE DEF q
<1>10. /\ q.prev = "field" /\ q.field = t /\ q.headers = SubSeq(m.headers, 1, i - 1)
       /\ q.reason = m.reason /\ q.complete = FALSE /\ q.body = <<>>
  <2>1. CASE i = 1
    <3>1. i - 1 = 0
      BY <2>1
    <3>2. p.prev = "nothing" /\ p.headers = <<>>
      BY <1>1, <3>1 DEF HeadersRead
    <3>3. Holds(q, "field", t, p.value, p.headers, p.reason, p.body, p.complete)
      BY <1>3, <1>9, <3>2, CallbackHolds
    <3>4. SubSeq(m.headers, 1, 0) = <<>>
      BY HeadersTyped DEF Headers
    <3> QED
      BY <3>1, <3>2, <3>3, <3>4 DEF Holds
  <2>2. CASE i # 1
    <3> DEFINE k == i - 1
               hs == m.headers
    <3>1. k # 0 /\ k \in 1 .. Len(hs)
      BY <2>2
    <3>2. /\ p.prev = "value" /\ p.field = hs[k].key /\ p.value = hs[k].value
          /\ p.headers = SubSeq(hs, 1, k - 1)
      BY <1>1, <3>1 DEF HeadersRead
    <3>3. Holds(q, "field", t, p.value, Append(p.headers, Header(p)), p.reason, p.body, p.complete)
      BY <1>3, <1>9, <3>2, CallbackHolds
    <3>4. hs \in Headers /\ hs[k] \in [key : Seq(Letter), value : Seq(Letter)]
      BY <3>1, HeadersTyped
    <3> HIDE DEF k, hs
    <3>5. Header(p) = hs[k]
      <4> DEFINE L == Seq(Letter)
      <4>1. hs[k] \in [key : L, value : L]
        BY <3>4
      <4> HIDE DEF L
      <4>2. hs[k] = [key |-> hs[k].key, value |-> hs[k].value]
        BY <4>1
      <4> QED
        BY <3>2, <4>2 DEF Header
    <3>6. Append(SubSeq(hs, 1, k - 1), hs[k]) = SubSeq(hs, 1, k)
      BY <3>1, <3>4, OneMore DEF Headers
    <3>7. q.headers = SubSeq(hs, 1, k)
      BY <3>2, <3>3, <3>5, <3>6 DEF Holds
    <3> QED
      BY <3>3, <3>7 DEF Holds, k, hs
  <2> QED
    BY <2>1, <2>2
<1>11. InField(m, q, v, i)
  BY <1>6, <1>8, <1>10 DEF InField, x, key
<1>12. InHeaders(m, q, v)
  BY <1>10, <1>11 DEF InHeaders, InHeader
<1> QED
  BY <1>7, <1>10, <1>12 DEF HttpRead, Callable, q

LEMMA BlankStep ==
  ASSUME NEW m, Answers(m), NEW p \in Parser, NEW s \in Symbol, NEW v \in Seq(Symbol),
         p.complete = FALSE, p.body = <<>>, p.reason = m.reason,
         BeforeHeader(m, p, <<s>> \o v, Len(m.headers) + 1)
  PROVE  Callable(p, KindOf(s)) /\ HttpRead(m, Stepped(p, s), v)
<1> DEFINE q == Stepped(p, s)
           t == TextOf(s)
           n == Len(m.headers)
           y == Chars("body", m.body)
           hs == m.headers
<1>1. n \in Nat /\ (n + 1) - 1 = n /\ hs \in Headers /\ m.body \in Seq(Letter)
  BY HeadersTyped
<1>2. HeadersRead(m, p, n) /\ <<s>> \o v = End("blank") \o y
  BY <1>1, LinesLast DEF BeforeHeader
<1>3. y \in Seq(Symbol) /\ y \o <<>> = y /\ <<>> \o m.body = m.body
  <2>1. y \in Seq(Symbol)
    BY <1>1, CharsTyped DEF Kinds
  <2> HIDE DEF y
  <2> QED
    BY <1>1, <2>1, Nothing
<1>4. s = [kind |-> "blank", char |-> ""] /\ v = y
  <2>1. "blank" \in Kinds
    BY DEF Kinds
  <2>2. y \in Seq(Symbol) /\ <<s>> \o v = End("blank") \o y
    BY <1>2, <1>3
  <2> HIDE DEF y
  <2> QED
    BY <2>1, <2>2, EndFirst
<1>5. s.kind = "blank"
  BY <1>4
<1>6. KindOf(s) = "headers" /\ t = <<>> /\ t \in Seq(Letter)
  BY <1>5, KindsOf, TextsOf
<1> DEFINE all == IF p.field # <<>> THEN Append(p.headers, Header(p)) ELSE p.headers
<1>7. q = Callback(p, Of("headers", t))
  BY <1>6 DEF Stepped
<1> HIDE DEF t, q
<1>8. Holds(q, p.prev, p.field, p.value, all, p.reason, p.body, TRUE)
  BY <1>6, <1>7, CallbackHolds
<1>9. all = m.headers
  <2>1. CASE n = 0
    <3>1. p.field = <<>> /\ p.headers = <<>>
      BY <1>2, <2>1 DEF HeadersRead
    <3>2. hs = <<>>
      BY <1>1, <2>1, EmptySeq DEF Headers
    <3> QED
      BY <3>1, <3>2
  <2>2. CASE n # 0
    <3>1. n \in 1 .. n
      BY <1>1, <2>2
    <3>2. /\ p.field = hs[n].key /\ p.value = hs[n].value /\ p.headers = SubSeq(hs, 1, n - 1)
      BY <1>2, <2>2 DEF HeadersRead
    <3>3. hs[n] \in [key : Seq(Letter), value : Seq(Letter)] /\ hs[n].key # <<>>
      BY <3>1, HeadersTyped
    <3>5. Header(p) = hs[n]
      <4> DEFINE L == Seq(Letter)
                 h == hs[n]
      <4>1. h \in [key : L, value : L] /\ p.field = h.key /\ p.value = h.value
        BY <3>2, <3>3
      <4> HIDE DEF L, h
      <4>2. h = [key |-> h.key, value |-> h.value]
        BY <4>1
      <4> QED
        BY <4>1, <4>2 DEF Header, h
    <3>6. Append(SubSeq(hs, 1, n - 1), hs[n]) = SubSeq(hs, 1, n)
      <4>1. n \in 1 .. Len(hs)
        BY <3>1
      <4> HIDE DEF hs, n
      <4> QED
        BY <1>1, <4>1, OneMore DEF Headers
    <3>7. SubSeq(hs, 1, n) = hs
      BY <1>1, SubSeqFull DEF Headers
    <3> QED
      BY <3>2, <3>3, <3>5, <3>6, <3>7
  <2> QED
    BY <2>1, <2>2
<1> HIDE DEF all
<1>10. q.headers = m.headers /\ q.reason = m.reason /\ q.body = <<>> /\ q.complete = TRUE
  BY <1>8, <1>9 DEF Holds
<1>11. Reads("body", <<>>, m.body, v, <<>>)
  BY <1>1, <1>3, <1>4, Zenon DEF Reads, y
<1>12. InBody(m, q, v)
  BY <1>10, <1>11 DEF InBody
<1> QED
  BY <1>6, <1>10, <1>12 DEF HttpRead, Callable, q

\* One symbol.
LEMMA SymbolStep ==
  ASSUME NEW m, Answers(m), NEW p \in Parser, NEW s \in Symbol, NEW v \in Seq(Symbol),
         HttpRead(m, p, <<s>> \o v)
  PROVE  Callable(p, KindOf(s)) /\ HttpRead(m, Stepped(p, s), v)
<1>1. p.complete \in BOOLEAN
  BY ParserTyped
<1>2. CASE p.complete = TRUE
  BY <1>2, BodyStep DEF HttpRead
<1>3. CASE p.complete = FALSE
  <2>1. p.body = <<>> /\ (InStatus(m, p, <<s>> \o v) \/ InHeaders(m, p, <<s>> \o v))
    BY <1>3 DEF HttpRead
  <2>2. CASE InStatus(m, p, <<s>> \o v)
    BY <1>3, <2>1, <2>2, StatusStep
  <2>3. CASE InHeaders(m, p, <<s>> \o v)
    <3>1. p.reason = m.reason
      BY <2>3 DEF InHeaders
    <3>2. CASE \E i \in 1 .. Len(m.headers) + 1 : BeforeHeader(m, p, <<s>> \o v, i)
      <4>1. PICK i \in 1 .. Len(m.headers) + 1 : BeforeHeader(m, p, <<s>> \o v, i)
        BY <3>2
      <4>2. i \in 1 .. Len(m.headers) \/ i = Len(m.headers) + 1
        BY HeadersTyped
      <4>3. CASE i \in 1 .. Len(m.headers)
        BY <1>3, <2>1, <3>1, <4>1, <4>3, HeaderStep
      <4>4. CASE i = Len(m.headers) + 1
        BY <1>3, <2>1, <3>1, <4>1, <4>4, BlankStep
      <4> QED
        BY <4>2, <4>3, <4>4
    <3>3. CASE \E i \in 1 .. Len(m.headers) : InHeader(m, p, <<s>> \o v, i)
      <4>1. PICK i \in 1 .. Len(m.headers) : InHeader(m, p, <<s>> \o v, i)
        BY <3>3
      <4>2. CASE InField(m, p, <<s>> \o v, i)
        BY <1>3, <2>1, <3>1, <4>2, FieldStep
      <4>3. CASE BeforeValue(m, p, <<s>> \o v, i) \/ InValue(m, p, <<s>> \o v, i)
        BY <1>3, <2>1, <3>1, <4>3, ValueStep
      <4> QED
        BY <4>1, <4>2, <4>3 DEF InHeader
    <3> QED
      BY <2>3, <3>2, <3>3 DEF InHeaders
  <2> QED
    BY <2>1, <2>2, <2>3
<1> QED
  BY <1>1, <1>2, <1>3

\* Where the execution of a chunk is.
Runs == [kind : {"status", "field", "value", "body"}, text : Seq(Letter)]
Executing(m, e, w) ==
  /\ e.parser \in Parser
  /\ e.run = NoRun \/ (e.run \in Runs /\ Callable(e.parser, e.run.kind))
  /\ HttpRead(m, Called(e), w)

LEMMA RunOf ==
  ASSUME NEW r \in Runs
  PROVE  /\ r = Of(r.kind, r.text) /\ r.kind \in {"status", "field", "value", "body"} /\ r.text \in Seq(Letter)
         /\ r # NoRun
<1> DEFINE L == Seq(Letter)
<1>1. r \in [kind : {"status", "field", "value", "body"}, text : L]
  BY DEF Runs
<1> SUFFICES /\ r = Of(r.kind, r.text) /\ r.kind \in {"status", "field", "value", "body"} /\ r.text \in L
             /\ r # NoRun
  OBVIOUS
<1> HIDE DEF L
<1>2. r = [kind |-> r.kind, text |-> r.text] /\ r.kind \in {"status", "field", "value", "body"} /\ r.text \in L
  BY <1>1
<1>3. NoRun.kind = "none"
  BY DEF NoRun
<1> QED
  BY <1>2, <1>3 DEF Of

LEMMA MakesRun ==
  ASSUME NEW kind \in {"status", "field", "value", "body"}, NEW text \in Seq(Letter)
  PROVE  Of(kind, text) \in Runs /\ Of(kind, text).kind = kind
BY DEF Of, Runs

LEMMA CalledTyped ==
  ASSUME NEW e, e.parser \in Parser, e.run = NoRun \/ (e.run \in Runs /\ Callable(e.parser, e.run.kind))
  PROVE  Called(e) \in Parser
<1>1. CASE e.run = NoRun
  BY <1>1 DEF Called
<1>2. CASE e.run # NoRun
  <2> DEFINE p == e.parser
             r == e.run
  <2>1. p \in Parser /\ r \in Runs /\ Callable(p, r.kind) /\ Called(e) = Callback(p, r)
    BY <1>2 DEF Called
  <2> HIDE DEF p, r
  <2>2. r = Of(r.kind, r.text) /\ r.text \in Seq(Letter)
    BY <2>1, RunOf
  <2>3. Callback(p, Of(r.kind, r.text)) \in Parser
    BY <2>1, <2>2, CallbackTyped
  <2> QED
    BY <2>1, <2>2, <2>3
<1> QED
  BY <1>1, <1>2

LEMMA SymbolExecuted ==
  ASSUME NEW m, Answers(m), NEW e, NEW s \in Symbol, NEW v \in Seq(Symbol), Executing(m, e, <<s>> \o v)
  PROVE  Executing(m, Execute(e, s), v)
<1> DEFINE p == Called(e)
           k == KindOf(s)
           u == TextOf(s)
           ends == s.kind \in DOMAIN ItemEnded
           base == IF e.run.kind = k THEN e.parser ELSE p
           text == IF e.run.kind = k THEN e.run.text ELSE <<>>
           f == Execute(e, s)
           q == Stepped(p, s)
<1>1. p \in Parser
  BY CalledTyped DEF Executing
<1>2. Callable(p, k) /\ HttpRead(m, q, v)
  <2>1. HttpRead(m, p, <<s>> \o v)
    BY DEF Executing
  <2> HIDE DEF p
  <2> QED
    BY <1>1, <2>1, SymbolStep
<1>3. u \in Seq(Letter) /\ s.kind \in Kinds /\ s.char \in Letter
  BY TextsOf
<1>4. q = Callback(p, Of(k, u)) /\ q \in Parser
  <2>1. q = Callback(p, Of(k, u))
    BY DEF Stepped
  <2> HIDE DEF p, q, k, u
  <2> QED
    BY <1>1, <1>2, <1>3, <2>1, CallbackTyped
<1>5. k \in {"status", "field", "value", "body", "headers"}
  BY <1>2 DEF Callable
<1>6. f = IF ends THEN [parser |-> Callback(base, Of(k, text)), run |-> NoRun]
          ELSE [parser |-> base, run |-> Of(k, Append(text, s.char))]
  BY Zenon DEF Execute, KindOf, Of
<1>7. ends => u = <<>>
  BY DEF TextOf
<1>8. ~ends => u = <<s.char>> /\ k \in {"status", "field", "value", "body"}
  <2>1. k # "headers" \/ ends
    BY <1>3, KindsOf DEF Kinds
  <2> QED
    BY <1>5, <2>1 DEF TextOf
\* Whether the run goes on or not, it is the same callback.
<1>9. /\ base \in Parser /\ text \in Seq(Letter) /\ Callable(base, k)
      /\ Callback(base, Of(k, text \o u)) = q
  <2>1. CASE e.run.kind = k
    <3> DEFINE r == e.run
               o == e.parser
    <3>0. NoRun.kind = "none"
      BY DEF NoRun
    <3>1. r # NoRun
      BY <1>5, <2>1, <3>0
    <3>2. o \in Parser /\ r \in Runs /\ Callable(o, r.kind)
      BY <3>1 DEF Executing
    <3>3. p = Callback(o, r)
      BY <3>1 DEF Called
    <3>4. base = o /\ text = r.text /\ r.kind = k
      BY <2>1
    <3> HIDE DEF r, o, p, k, q, u, base, text
    <3>5. r = Of(k, text) /\ k \in {"status", "field", "value", "body"} /\ text \in Seq(Letter)
      BY <3>2, <3>4, RunOf
    <3>6. Callback(Callback(o, Of(k, text)), Of(k, u)) = Callback(o, Of(k, text \o u))
      BY <1>3, <3>2, <3>4, <3>5, CallsJoin
    <3> QED
      BY <1>4, <3>2, <3>3, <3>4, <3>5, <3>6
  <2>2. CASE e.run.kind # k
    <3>1. base = p /\ text = <<>> /\ text \in Seq(Letter)
      BY <2>2
    <3> HIDE DEF p, k, q, u, base, text
    <3>2. text \o u = u
      BY <1>3, <3>1, Nothing
    <3> QED
      BY <1>1, <1>2, <1>4, <3>1, <3>2
  <2> QED
    BY <2>1, <2>2
<1> HIDE DEF p, k, u, q, base, text, f
<1>10. CASE ends
  <2>1. text \o u = text
    BY <1>7, <1>9, <1>10, Nothing
  <2>2. f = [parser |-> q, run |-> NoRun]
    BY <1>6, <1>9, <1>10, <2>1
  <2>3. f.parser = q /\ f.run = NoRun
    BY <2>2
  <2>4. Called(f) = q
    BY <2>3 DEF Called
  <2> QED
    BY <1>2, <1>4, <2>3, <2>4 DEF Executing, f
<1>11. CASE ~ends
  <2>1. Append(text, s.char) = text \o u
    <3>1. u = <<s.char>>
      BY <1>8, <1>11
    <3>2. Append(text, s.char) = text \o <<s.char>>
      BY <1>3, <1>9, AppendIsConcat
    <3> QED
      BY <3>1, <3>2
  <2> DEFINE both == text \o u
  <2>2. both \in Seq(Letter)
    BY <1>3, <1>9, Joined
  <2> HIDE DEF both
  <2>3. f = [parser |-> base, run |-> Of(k, both)]
    BY <1>6, <1>11, <2>1 DEF both
  <2>4. f.parser = base /\ f.run = Of(k, both)
    BY <2>3
  <2>5. Of(k, both) \in Runs /\ Of(k, both).kind = k
    BY <1>8, <1>11, <2>2, MakesRun
  <2>6. Of(k, both) # NoRun
    BY <2>5, RunOf
  <2>7. Called(f) = q
    BY <1>9, <2>4, <2>6 DEF Called, both
  <2> QED
    BY <1>2, <1>9, <2>4, <2>5, <2>7 DEF Executing, f
<1> QED
  BY <1>10, <1>11

\* A chunk, symbol by symbol.
Execution(g, a, chunk, n) == g = [i \in 0 .. n |-> IF i = 0 THEN a ELSE Execute(g[i - 1], chunk[i])]

LEMMA ExecutionIs ==
  ASSUME NEW g, NEW a, NEW chunk, NEW n \in Nat, Execution(g, a, chunk, n)
  PROVE  g[0] = a /\ \A i \in 1 .. n : g[i] = Execute(g[i - 1], chunk[i])
<1>1. \A i \in 0 .. n : g[i] = IF i = 0 THEN a ELSE Execute(g[i - 1], chunk[i])
  <2> DEFINE h == [i \in 0 .. n |-> IF i = 0 THEN a ELSE Execute(g[i - 1], chunk[i])]
  <2>1. \A i \in 0 .. n : h[i] = IF i = 0 THEN a ELSE Execute(g[i - 1], chunk[i])
    OBVIOUS
  <2>2. g = h
    BY DEF Execution
  <2> HIDE DEF h
  <2> QED
    BY <2>1, <2>2
<1>2. 0 \in 0 .. n /\ \A i \in 1 .. n : i \in 0 .. n /\ i # 0
  OBVIOUS
<1> QED
  BY <1>1, <1>2

LEMMA ExecutionExists ==
  ASSUME NEW a, NEW chunk, NEW n \in Nat
  PROVE  \E g : Execution(g, a, chunk, n)
<1> DEFINE good == {m \in 0 .. n : \E g : Execution(g, a, chunk, m)}
<1>1. 0 \in good
  <2> DEFINE g == [i \in 0 .. 0 |-> a]
  <2>1. g = [i \in 0 .. 0 |-> IF i = 0 THEN a ELSE Execute(g[i - 1], chunk[i])]
    OBVIOUS
  <2>2. Execution(g, a, chunk, 0)
    BY <2>1 DEF Execution
  <2> HIDE DEF g
  <2> QED
    BY <2>2
<1>2. ASSUME NEW m \in 1 .. n, m - 1 \in good PROVE m \in good
  <2>1. PICK g : Execution(g, a, chunk, m - 1)
    BY <1>2
  <2>2. g[0] = a /\ \A i \in 1 .. m - 1 : g[i] = Execute(g[i - 1], chunk[i])
    BY <2>1, ExecutionIs
  <2> DEFINE last == Execute(g[m - 1], chunk[m])
             h == [i \in 0 .. m |-> IF i < m THEN g[i] ELSE last]
             k == [i \in 0 .. m |-> IF i = 0 THEN a ELSE Execute(h[i - 1], chunk[i])]
  <2>3. \A i \in 0 .. m : h[i] = IF i < m THEN g[i] ELSE last
    OBVIOUS
  <2>4. \A i \in 0 .. m : k[i] = IF i = 0 THEN a ELSE Execute(h[i - 1], chunk[i])
    OBVIOUS
  <2>5. h = [i \in 0 .. m |-> h[i]] /\ k = [i \in 0 .. m |-> k[i]]
    OBVIOUS
  <2>7. last = Execute(g[m - 1], chunk[m])
    OBVIOUS
  <2> HIDE DEF h, k, last
  <2>6. ASSUME NEW i \in 0 .. m PROVE h[i] = k[i]
    <3>1. CASE i = 0
      <4>1. h[0] = g[0] /\ k[0] = a
        BY <2>3, <2>4, <3>1
      <4> QED
        BY <2>2, <3>1, <4>1
    <3>2. CASE i # 0
      <4>1. i - 1 \in 0 .. m /\ i - 1 < m
        BY <3>2
      <4>2. h[i - 1] = g[i - 1]
        BY <2>3, <4>1
      <4>3. k[i] = Execute(g[i - 1], chunk[i])
        BY <2>4, <3>2, <4>2
      <4>4. CASE i < m
        <5>1. i \in 1 .. m - 1
          BY <3>2, <4>4
        <5> QED
          BY <2>2, <2>3, <4>3, <4>4, <5>1
      <4>5. CASE i = m
        <5>1. h[i] = last
          BY <2>3, <4>5
        <5> QED
          BY <2>7, <4>3, <4>5, <5>1
      <4> QED
        BY <4>4, <4>5
    <3> QED
      BY <3>1, <3>2
  <2>8. h = k
    BY <2>5, <2>6, Zenon
  <2>9. Execution(h, a, chunk, m)
    BY <2>8, Zenon DEF Execution, k
  <2> QED
    BY <2>9
<1> HIDE DEF good
<1>3. 0 .. n \subseteq good
  BY <1>1, <1>2, Reached
<1>4. n \in good
  BY <1>3
<1> QED
  BY <1>4 DEF good

LEMMA ChunkExecuted ==
  ASSUME NEW m, Answers(m), NEW p \in Parser, NEW w \in Seq(Symbol), NEW n \in 0 .. Len(w), HttpRead(m, p, w)
  PROVE  LET q == http_parser_execute(p, SubSeq(w, 1, n))
         IN q \in Parser /\ HttpRead(m, q, SubSeq(w, n + 1, Len(w)))
<1> DEFINE chunk == SubSeq(w, 1, n)
           a == [parser |-> p, run |-> NoRun]
           after[i \in 0 .. Len(chunk)] == IF i = 0 THEN a ELSE Execute(after[i - 1], chunk[i])
           left(i) == SubSeq(w, i + 1, Len(w))
           z == Len(w)
<1>1. http_parser_execute(p, chunk) = Called(after[Len(chunk)])
  BY Zenon DEF http_parser_execute
<1>2. n \in Nat /\ z \in Nat /\ n <= z /\ Len(chunk) = n /\ \A i \in 1 .. n : chunk[i] = w[i]
  OBVIOUS
<1>3. after = CHOOSE g : Execution(g, a, chunk, Len(chunk))
  BY Zenon DEF Execution
<1> HIDE DEF chunk, after
<1>4. Execution(after, a, chunk, n)
  <2>1. \E g : Execution(g, a, chunk, n)
    BY <1>2, ExecutionExists
  <2>2. after = CHOOSE g : Execution(g, a, chunk, n)
    BY <1>2, <1>3
  <2> HIDE DEF a
  <2> QED
    BY <2>1, <2>2
<1>5. after[0] = a /\ \A i \in 1 .. n : after[i] = Execute(after[i - 1], chunk[i])
  <2> HIDE DEF a
  <2> QED
    BY <1>2, <1>4, ExecutionIs
<1>6. \A i \in 1 .. n : /\ left(i - 1) = <<w[i]>> \o left(i) /\ w[i] \in Symbol /\ left(i) \in Seq(Symbol)
  <2> TAKE i \in 1 .. n
  <2>1. i \in 1 .. z /\ z \in 1 .. z /\ i \in Nat
    BY <1>2
  <2>2. w[i] \in Symbol /\ left(i) \in Seq(Symbol)
    <3>1. w[i] \in Symbol
      BY <2>1, ElementOfSeq
    <3>2. SubSeq(w, i + 1, z) \in Seq(Symbol)
      <4> HIDE DEF Symbol
      <4> QED
        BY <1>2, <2>1
    <3> QED
      BY <3>1, <3>2
  <2>3. SubSeq(w, i, z) = <<w[i]>> \o SubSeq(w, i + 1, z)
    <3> HIDE DEF Symbol
    <3> QED
      BY <2>1, SubSeqRecursiveFirst
  <2>4. (i - 1) + 1 = i
    BY <2>1
  <2> QED
    BY <2>2, <2>3, <2>4
<1>7. Executing(m, after[0], w)
  <2>1. after[0].parser = p /\ after[0].run = NoRun
    BY <1>5
  <2>2. Called(after[0]) = p
    BY <2>1 DEF Called
  <2> QED
    BY <2>1, <2>2 DEF Executing
<1>8. left(0) = w
  BY SubSeqFull
<1> DEFINE good == {i \in 0 .. n : Executing(m, after[i], left(i))}
<1>9. 0 \in good
  <2>1. Executing(m, after[0], left(0))
    BY <1>7, <1>8
  <2>2. 0 \in 0 .. n
    BY <1>2
  <2> HIDE DEF left
  <2> QED
    BY <2>1, <2>2
<1>10. ASSUME NEW i \in 1 .. n, i - 1 \in good PROVE i \in good
  <2> DEFINE e == after[i - 1]
             s == w[i]
             v == left(i)
  <2>1. after[i] = Execute(e, s)
    BY <1>2, <1>5
  <2>2. s \in Symbol /\ v \in Seq(Symbol) /\ Executing(m, e, <<s>> \o v)
    BY <1>6, <1>10
  <2> HIDE DEF e, s, v
  <2>3. Executing(m, Execute(e, s), v)
    BY <2>2, SymbolExecuted
  <2>4. i \in 0 .. n
    BY <1>2
  <2> QED
    BY <2>1, <2>3, <2>4 DEF v
<1> HIDE DEF good
<1>11. 0 .. n \subseteq good
  BY <1>2, <1>9, <1>10, Reached
<1>12. Executing(m, after[n], left(n))
  BY <1>2, <1>11 DEF good
<1>13. Called(after[n]) \in Parser /\ HttpRead(m, Called(after[n]), left(n))
  BY <1>12, CalledTyped DEF Executing
<1>14. http_parser_execute(p, chunk) = Called(after[n])
  BY <1>1, <1>2
<1> QED
  BY <1>13, <1>14 DEF chunk

HttpReads ==
  /\ reading.at = "feed" /\ got \in Parser /\ wire \in Seq(Symbol)
  /\ HttpRead(said.response, got, wire)

LEMMA HttpStep ==
  ASSUME said.protocol = "http", Peer(said), HttpReads, WireNext
  PROVE  HttpReads' /\ said' = said
<1>1. Answers(said.response) /\ said.pieces \subseteq Nat
  BY HttpPeer
<1>2. /\ reading.at = "feed" /\ got \in Parser /\ wire \in Seq(Symbol)
      /\ HttpRead(said.response, got, wire)
  BY DEF HttpReads
<1>3. PieceArrives
  BY <1>2 DEF WireNext, read_ll, TakeLine
<1>4. /\ said' = said
      /\ \E n \in 0 .. Len(wire) :
           wire' = SubSeq(wire, n + 1, Len(wire)) /\ feed_chunk(SubSeq(wire, 1, n))
  <2>1. reading.at # "auth" /\ reading.at = "feed"
    BY <1>2
  <2> HIDE DEF Symbol
  <2> QED
    BY <1>1, <1>2, <1>3, <2>1, PieceOf
<1>5. PICK n \in 0 .. Len(wire) :
        wire' = SubSeq(wire, n + 1, Len(wire)) /\ feed_chunk(SubSeq(wire, 1, n))
  BY <1>4
<1>6. got' = http_parser_execute(got, SubSeq(wire, 1, n)) /\ reading' = reading
  BY <1>5 DEF feed_chunk
<1>7. got' \in Parser /\ HttpRead(said.response, got', wire')
  BY <1>1, <1>2, <1>5, <1>6, ChunkExecuted
<1>8. wire' \in Seq(Symbol)
  BY <1>2, <1>5, Parted
<1> QED
  BY <1>2, <1>4, <1>6, <1>7, <1>8 DEF HttpReads

\* What is not yet complete has not been read to the end.
LEMMA MoreToRead ==
  ASSUME NEW m, Answers(m), NEW p \in Parser, HttpRead(m, p, <<>>)
  PROVE  p.complete = TRUE /\ p.body = m.body
<1>0. \A kind \in Kinds : \A x \in Seq(Symbol) : End(kind) \o x \in Seq(Symbol) /\ End(kind) \o x # <<>>
  <2> TAKE kind \in Kinds
  <2> TAKE x \in Seq(Symbol)
  <2> DEFINE e == End(kind)
  <2>1. e \in Seq(Symbol) /\ Len(e) = 1
    BY EndTyped
  <2> HIDE DEF e, Symbol
  <2>2. e \o x \in Seq(Symbol)
    BY <2>1, Joined
  <2>3. Len(e \o x) = Len(e) + Len(x) /\ Len(x) \in Nat
    BY <2>1, Lengths
  <2>4. Len(e \o x) # 0
    BY <2>1, <2>3
  <2> QED
    BY <2>2, <2>4, NotEmpty DEF e
<1>1. p.complete \in BOOLEAN /\ p.reason \in Seq(Letter) /\ p.field \in Seq(Letter) /\ p.value \in Seq(Letter)
      /\ p.body \in Seq(Letter) /\ <<>> \in Seq(Letter)
  BY ParserTyped
<1>2. CASE p.complete = TRUE
  <2>1. Reads("body", p.body, m.body, <<>>, <<>>)
    BY <1>2 DEF HttpRead, InBody
  <2>2. p.body = m.body
    <3>1. PICK r \in Seq(Letter) : p.body \o r = m.body /\ <<>> = Chars("body", r) \o <<>>
      BY <2>1 DEF Reads
    <3> DEFINE a == Chars("body", r)
    <3>2. a \in Seq(Symbol) /\ Len(a) = Len(r)
      BY CharsTyped DEF Kinds
    <3> HIDE DEF a, Symbol
    <3>3. a \o <<>> = a
      BY <3>2, Nothing
    <3>4. a = <<>>
      BY <3>1, <3>3 DEF a
    <3>5. r = <<>>
      BY <3>2, <3>4, EmptySeq
    <3>6. p.body \o <<>> = p.body
      BY <1>1, Nothing
    <3> QED
      BY <3>1, <3>5, <3>6
  <2> QED
    BY <1>2, <2>2
<1>3. CASE p.complete = FALSE
  <2> SUFFICES FALSE
    OBVIOUS
  <2>1. InStatus(m, p, <<>>) \/ InHeaders(m, p, <<>>)
    BY <1>3 DEF HttpRead
  <2>2. CASE InStatus(m, p, <<>>)
    <3> DEFINE l == LinesFrom(m, 1)
               x == End("eol") \o l
    <3>1. Reads("status", p.reason, m.reason, <<>>, x)
      BY <2>2 DEF InStatus
    <3>2. 1 \in 1 .. Len(m.headers) + 1
      BY HeadersTyped
    <3>3. l \in Seq(Symbol) /\ "eol" \in Kinds /\ "status" \in Kinds
      BY <3>2, LinesTyped DEF Kinds
    <3> HIDE DEF l
    <3>4. x \in Seq(Symbol) /\ x # <<>>
      BY <1>0, <3>3
    <3> HIDE DEF x
    <3> QED
      BY <1>1, <3>1, <3>3, <3>4, ReadsOver
  <2>3. CASE \E i \in 1 .. Len(m.headers) + 1 : BeforeHeader(m, p, <<>>, i)
    <3>1. PICK i \in 1 .. Len(m.headers) + 1 : LinesFrom(m, i) = <<>>
      BY <2>3 DEF BeforeHeader
    <3>2. i \in 1 .. Len(m.headers) \/ i = Len(m.headers) + 1
      BY HeadersTyped
    <3>3. CASE i \in 1 .. Len(m.headers)
      <4> DEFINE a == Chars("field", m.headers[i].key)
                 y == Chars("value", m.headers[i].value) \o AfterValue(m, i)
                 x == AfterField(m, i)
      <4>1. a \o x = <<>> /\ x = End("colon") \o y /\ x \in Seq(Symbol) /\ y \in Seq(Symbol)
        BY <3>1, <3>3, LinesNext DEF AfterField
      <4>2. a \in Seq(Symbol) /\ "colon" \in Kinds
        BY <3>3, HeadersTyped, CharsTyped DEF Kinds
      <4> HIDE DEF a, x, y, Symbol
      <4>3. x # <<>>
        BY <1>0, <4>1, <4>2
      <4>4. Len(a \o x) = Len(a) + Len(x) /\ Len(a) \in Nat /\ Len(x) \in Nat
        BY <4>1, <4>2, Lengths
      <4>5. Len(x) # 0
        BY <4>1, <4>3, EmptySeq
      <4>6. Len(a \o x) = 0
        BY <4>1
      <4> QED
        BY <4>4, <4>5, <4>6
    <3>4. CASE i = Len(m.headers) + 1
      <4> DEFINE y == Chars("body", m.body)
      <4>1. End("blank") \o y = <<>>
        BY <3>1, <3>4, LinesLast
      <4>2. y \in Seq(Symbol) /\ "blank" \in Kinds
        BY HeadersTyped, CharsTyped DEF Kinds
      <4> HIDE DEF y
      <4> QED
        BY <1>0, <4>1, <4>2
    <3> QED
      BY <3>2, <3>3, <3>4
  <2>4. CASE \E i \in 1 .. Len(m.headers) : InHeader(m, p, <<>>, i)
    <3>1. PICK i \in 1 .. Len(m.headers) : InHeader(m, p, <<>>, i)
      BY <2>4
    <3> DEFINE x == AfterField(m, i)
               y == Chars("value", m.headers[i].value) \o AfterValue(m, i)
               z == AfterValue(m, i)
               l == LinesFrom(m, i + 1)
               key == m.headers[i].key
               val == m.headers[i].value
    <3>2. /\ x = End("colon") \o y /\ x \in Seq(Symbol) /\ y \in Seq(Symbol)
          /\ z = End("crlf") \o l /\ z \in Seq(Symbol) /\ l \in Seq(Symbol)
      BY LinesNext DEF AfterField, AfterValue
    <3>3. "colon" \in Kinds /\ "crlf" \in Kinds /\ "field" \in Kinds /\ "value" \in Kinds
      BY DEF Kinds
    <3>5. \/ Reads("field", p.field, key, <<>>, x)
          \/ Reads("value", <<>>, val, <<>>, z)
          \/ Reads("value", p.value, val, <<>>, z)
      BY <3>1 DEF InHeader, InField, BeforeValue, InValue
    <3> HIDE DEF x, y, z, l, key, val
    <3>4. x # <<>> /\ z # <<>>
      BY <1>0, <3>2, <3>3
    <3>6. ~Reads("field", p.field, key, <<>>, x)
      BY <1>1, <3>2, <3>3, <3>4, ReadsOver
    <3>7. ~Reads("value", p.value, val, <<>>, z)
      BY <1>1, <3>2, <3>3, <3>4, ReadsOver
    <3>8. ~Reads("value", <<>>, val, <<>>, z)
      <4> DEFINE none == <<>>
      <4>1. none \in Seq(Letter)
        BY <1>1
      <4>2. z # <<>> /\ z \in Seq(Symbol) /\ "value" \in Kinds
        BY <3>2, <3>3, <3>4
      <4> HIDE DEF none
      <4>3. ~Reads("value", none, val, <<>>, z)
        BY <4>1, <4>2, ReadsOver
      <4> QED
        BY <4>3 DEF none
    <3> QED
      BY <3>5, <3>6, <3>7, <3>8
  <2> QED
    BY <2>1, <2>2, <2>3, <2>4 DEF InHeaders
<1> QED
  BY <1>1, <1>2, <1>3

LEMMA CallbacksWhole ==
  ASSUME said.protocol = "http", Peer(said), HttpReads
  PROVE  MessagesWhole
<1> DEFINE m == said.response
<1>1. /\ reading.at = "feed" /\ got \in Parser /\ wire \in Seq(Symbol) /\ HttpRead(m, got, wire)
  BY DEF HttpReads
<1>2. Answers(m)
  BY HttpPeer
<1>3. got.complete => got.headers = m.headers /\ got.reason = m.reason
  BY <1>1 DEF HttpRead, InBody
<1>4. WireOver => got.complete /\ got.body = m.body
  <2> SUFFICES ASSUME WireOver PROVE got.complete = TRUE /\ got.body = m.body
    OBVIOUS
  <2>1. Available = 0 /\ Available = Len(wire)
    BY <1>1 DEF WireOver, Available
  <2>2. wire = <<>>
    BY <1>1, <2>1, EmptySeq
  <2>3. HttpRead(m, got, <<>>)
    BY <1>1, <2>2
  <2> HIDE DEF m
  <2> QED
    BY <1>1, <1>2, <2>3, MoreToRead
<1>5. MessagesWhole <=> /\ got.complete => got.headers = said.response.headers /\ got.reason = said.response.reason
                        /\ WireOver => got.complete /\ got.body = said.response.body
  BY DEF MessagesWhole
<1> QED
  BY <1>3, <1>4, <1>5, Zenon

-----------------------------------------------------------------------------
(* Wire: what a reader keeps and what it has passed up are what has arrived. *)

WireInv ==
  \/ said = [protocol |-> "idle"] /\ reading = [at |-> "idle"]
  \/ /\ said \in Peers
     /\ said.protocol = "ndt" => NdtRead
     /\ said.protocol = "socks5" /\ ShortName(said.answer) => SocksRead
     /\ said.protocol = "http" => HttpReads
     /\ said.protocol = "lines" => LinesRead

LEMMA NdtBegins ==
  ASSUME said.protocol = "ndt", Peer(said), WireInit
  PROVE  NdtRead
<1>1. /\ wire = FormatsFrom(0) /\ buffer = <<>> /\ got = <<>>
      /\ reading = [at |-> "header", type |-> 0, length |-> 0]
  BY FormatsOver DEF WireInit
<1>2. Len(said.messages) \in Nat
  BY NdtPeer
<1>3. wire \in Seq(Byte)
  <2>1. CASE Len(said.messages) = 0
    <3>1. FormatsFrom(Len(said.messages)) = <<>>
      BY FormatsOver
    <3>2. FormatsFrom(0) = <<>>
      BY <2>1, <3>1
    <3>3. wire = <<>>
      BY <1>1, <3>2
    <3> QED
      BY <3>3
  <2>2. CASE Len(said.messages) # 0
    <3> DEFINE m == said.messages[0 + 1]
    <3>1. /\ FormatsFrom(0) = format_any(m) \o FormatsFrom(0 + 1)
          /\ FormatsFrom(0 + 1) \in Seq(Byte) /\ m \in Message /\ Len(m.text) < 65536
      BY <1>2, <2>2, FormatsNext
    <3> HIDE DEF m
    <3>2. format_any(m) \in Seq(Byte)
      BY <3>1, HeadTyped
    <3> DEFINE later == FormatsFrom(0 + 1)
    <3>3. wire = format_any(m) \o later /\ later \in Seq(Byte)
      BY <1>1, <3>1
    <3> HIDE DEF later
    <3> QED
      BY <3>2, <3>3, Joined
  <2> QED
    BY <2>1, <2>2
<1>4. buffer \o wire = FormatsFrom(0)
  BY <1>1, <1>3, Nothing
<1>5. /\ Len(got) = 0 /\ got \in Seq(Message) /\ buffer \in Seq(Byte)
      /\ reading \in [at : {"header", "payload"}, type : Byte, length : Nat] /\ reading.at = "header"
  BY <1>1 DEF Byte
<1> QED
  BY <1>2, <1>3, <1>4, <1>5 DEF NdtRead

LEMMA SocksBegins ==
  ASSUME said.protocol = "socks5", Peer(said), WireInit
  PROVE  SocksRead
<1> DEFINE auth == said.auth
           reply == Reply(said.answer)
           data == said.data
<1>1. /\ wire = (auth \o reply) \o data /\ buffer = <<>> /\ got = <<>>
      /\ reading = [at |-> "auth", type |-> 0, length |-> 0]
  BY DEF WireInit, Encoded
<1>2. auth \in Seq(Byte) /\ reply \in Seq(Byte) /\ data \in Seq(Byte)
  BY SocksPeer, ReplyTyped
<1> HIDE DEF auth, reply, data
<1>3. wire = auth \o (reply \o data) /\ reply \o data \in Seq(Byte)
  BY <1>1, <1>2, Regrouped
<1>4. wire \in Seq(Byte)
  BY <1>2, <1>3, Joined
<1>5. buffer \o wire = auth \o (reply \o data)
  BY <1>1, <1>3, <1>4, Nothing
<1>6. /\ reading \in [at : {"auth", "connect", "up"} \cup Refusals, type : Nat, length : Nat]
      /\ reading.at = "auth" /\ "auth" \notin Refusals /\ Len(buffer) < 2 /\ buffer \in Seq(Byte)
  BY <1>1 DEF Refusals
<1> QED
  BY <1>1, <1>4, <1>5, <1>6 DEF SocksRead, auth, reply, data

LEMMA LinesBegin ==
  ASSUME said.protocol = "lines", Peer(said), WireInit
  PROVE  LinesRead
<1>1. /\ wire = said.data /\ buffer = <<>> /\ got = <<>> /\ said.data \in Seq(Byte)
      /\ reading = [at |-> "line", type |-> 0, length |-> 0]
  BY DEF WireInit, Encoded, Peer
<1>2. FlattenSeq(got) = <<>>
  BY <1>1, FlattenNone
<1>3. buffer \o wire = said.data
  BY <1>1, Nothing
<1>4. FlattenSeq(got) \o (buffer \o wire) = said.data
  BY <1>1, <1>2, <1>3, Nothing
<1>5. got \in Seq(Seq(Byte)) /\ DOMAIN got = {} /\ buffer \in Seq(Byte)
  BY <1>1
<1>6. reading \in [at : {"line", "LineTooLong", "EOLNotFound"}, type : Nat, length : Nat]
  BY <1>1
<1> QED
  BY <1>1, <1>4, <1>5, <1>6 DEF LinesRead

LEMMA HttpBegins ==
  ASSUME said.protocol = "http", Peer(said), WireInit
  PROVE  HttpReads
<1> DEFINE m == said.response
<1>1. Answers(m)
  BY HttpPeer
<1>2. /\ wire = Response(m) /\ got = NoHeaders
      /\ reading = [at |-> "feed", type |-> 0, length |-> 0]
  BY DEF WireInit, Encoded
<1> HIDE DEF m
<1>3. wire \in Seq(Symbol) /\ wire = Chars("status", m.reason) \o (End("eol") \o LinesFrom(m, 1))
  BY <1>1, <1>2, ResponseIs
<1>4. got = ParserOf("nothing", <<>>, <<>>, <<>>, <<>>, <<>>, FALSE)
  BY <1>2 DEF NoHeaders, ParserOf
<1>5. /\ got \in Parser /\ got.prev = "nothing" /\ got.field = <<>> /\ got.headers = <<>>
      /\ got.reason = <<>> /\ got.body = <<>> /\ got.complete = FALSE
  <2> DEFINE no == <<>>
             not == FALSE
  <2>1. no \in Seq(Letter) /\ no \in Headers /\ not \in BOOLEAN
    BY DEF Headers
  <2>2. got = ParserOf("nothing", no, no, no, no, no, not)
    BY <1>4
  <2> HIDE DEF no, not
  <2>3. Holds(got, "nothing", no, no, no, no, no, not)
    <3>1. CanKeep("nothing", no, no, no, no, no, not)
      BY <2>1 DEF CanKeep
    <3> QED
      BY <2>2, <3>1, KeptHolds
  <2>4. /\ got \in Parser /\ got.prev = "nothing" /\ got.field = no /\ got.headers = no
        /\ got.reason = no /\ got.body = no /\ got.complete = not
    BY <2>3, Zenon DEF Holds
  <2> QED
    BY <2>4 DEF no, not
<1>6. Reads("status", got.reason, m.reason, wire, End("eol") \o LinesFrom(m, 1))
  <2>1. m.reason \in Seq(Letter)
    BY <1>1, HeadersTyped
  <2>2. <<>> \o m.reason = m.reason
    BY <2>1, Nothing
  <2> QED
    BY <1>3, <1>5, <2>1, <2>2 DEF Reads
<1>7. HttpRead(m, got, wire)
  BY <1>5, <1>6 DEF HttpRead, InStatus
<1> QED
  BY <1>2, <1>3, <1>5, <1>7 DEF HttpReads, m

LEMMA PeerIs ==
  ASSUME said \in Peers
  PROVE  Peer(said) /\ said.protocol \in {"ndt", "socks5", "http", "lines"}
<1>1. Peer(said)
  BY WireConstants
<1> QED
  BY <1>1 DEF Peer

LEMMA WireBegins == Init => WireInv
<1> SUFFICES ASSUME Init PROVE WireInv
  OBVIOUS
<1>1. CASE WireIdle
  BY <1>1 DEF WireIdle, WireInv
<1>2. CASE WireInit
  <2>1. said \in Peers
    BY <1>2 DEF WireInit
  <2>2. Peer(said)
    BY <2>1, PeerIs
  <2> QED
    BY <1>2, <2>1, <2>2, NdtBegins, SocksBegins, LinesBegin, HttpBegins DEF WireInv
<1> QED
  BY <1>1, <1>2 DEF Init

LEMMA WireStep == WireInv /\ WireNext => WireInv'
<1> SUFFICES ASSUME WireInv, WireNext PROVE WireInv'
  OBVIOUS
<1>1. said' = said
  BY DEF WireNext, PieceArrives, read_ll, TakeLine
<1>2. CASE said = [protocol |-> "idle"] /\ reading = [at |-> "idle"]
  <2>1. reading.at = "idle"
    BY <1>2
  <2> QED
    BY <2>1 DEF WireNext, PieceArrives, Waits, read_ll, TakeLine
<1>3. CASE /\ said \in Peers
           /\ said.protocol = "ndt" => NdtRead
           /\ said.protocol = "socks5" /\ ShortName(said.answer) => SocksRead
           /\ said.protocol = "http" => HttpReads
           /\ said.protocol = "lines" => LinesRead
  <2>1. Peer(said)
    BY <1>3, PeerIs
  <2>2. said.protocol = "ndt" => NdtRead'
    BY <1>3, <2>1, NdtStep
  <2>3. said.protocol = "socks5" /\ ShortName(said.answer) => SocksRead'
    BY <1>3, <2>1, SocksStep
  <2>4. said.protocol = "http" => HttpReads'
    BY <1>3, <2>1, HttpStep
  <2>5. said.protocol = "lines" => LinesRead'
    BY <1>3, <2>1, LinesStep
  <2>6. ShortName(said.answer)' <=> ShortName(said.answer)
    BY <1>1 DEF ShortName
  <2> QED
    BY <1>1, <1>3, <2>2, <2>3, <2>4, <2>5, <2>6 DEF WireInv
<1> QED
  BY <1>2, <1>3 DEF WireInv

LEMMA WireKept == WireInv /\ UNCHANGED byteVars => WireInv'
<1> SUFFICES ASSUME WireInv, UNCHANGED byteVars PROVE WireInv'
  OBVIOUS
<1>1. said' = said /\ wire' = wire /\ buffer' = buffer /\ reading' = reading /\ got' = got
  BY Zenon DEF byteVars
<1>2. NdtRead => NdtRead'
  BY <1>1, Zenon DEF NdtRead, FormatsFrom
<1>3. SocksRead => SocksRead'
  BY <1>1 DEF SocksRead, Refuses
<1>4. HttpReads => HttpReads'
  BY <1>1 DEF HttpReads
<1>5. LinesRead => LinesRead'
  BY <1>1 DEF LinesRead
<1>6. ShortName(said.answer)' <=> ShortName(said.answer)
  BY <1>1
<1> QED
  BY <1>1, <1>2, <1>3, <1>4, <1>5, <1>6 DEF WireInv

\* Whatever the protocol and the sizes of the pieces, what was passed up, what
\* is kept and what has not arrived are what the peer has said.
THEOREM WireInvariant == Spec => []WireInv
<1>1. WireInv /\ [Next]_vars => WireInv'
  <2> SUFFICES ASSUME WireInv, [Next]_vars PROVE WireInv'
    OBVIOUS
  <2>1. WireNext \/ UNCHANGED byteVars
    BY DEF Next, RequestSteps, Over, vars
  <2> QED
    BY <2>1, WireStep, WireKept
<1> QED
  BY <1>1, WireBegins, PTL DEF Spec

LEMMA InvMessages == WireInv => MessagesWhole
<1> SUFFICES ASSUME WireInv PROVE MessagesWhole
  OBVIOUS
<1>1. CASE said = [protocol |-> "idle"]
  <2>1. said.protocol = "idle"
    BY <1>1
  <2> QED
    BY <2>1 DEF MessagesWhole
<1>2. CASE said \in Peers
  <2>1. Peer(said) /\ said.protocol \in {"ndt", "socks5", "http", "lines"}
    BY <1>2, PeerIs
  <2>2. said # [protocol |-> "idle"]
    BY <2>1
  <2>3. /\ said.protocol = "ndt" => NdtRead
        /\ said.protocol = "socks5" /\ ShortName(said.answer) => SocksRead
        /\ said.protocol = "http" => HttpReads
        /\ said.protocol = "lines" => LinesRead
    BY <2>2 DEF WireInv
  <2>4. said.protocol = "socks5" /\ ~ShortName(said.answer) => MessagesWhole
    BY DEF MessagesWhole, ShortName
  <2> QED
    BY <2>1, <2>3, <2>4, NdtWhole, AnswersWhole, CallbacksWhole, LinesWhole
<1> QED
  BY <1>1, <1>2 DEF WireInv

\* However the bytes of a connection arrive, the readers of NDT, of SOCKS5, of
\* HTTP and of lines pass up what the peer has said, whole and in order, and
\* keep nothing back once all has arrived.
THEOREM MessagesAreWhole == Spec => []MessagesWhole
<1>1. WireInv => MessagesWhole
  BY InvMessages
<1> QED
  BY <1>1, WireInvariant, PTL

=============================================================================
