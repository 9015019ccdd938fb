-------------------------------- MODULE Http --------------------------------
(***************************************************************************)
(* http::request() (http/request.cpp): connect, send, receive, close, and  *)
(* start again where the response redirects.  The parser is http_parser    *)
(* behind http/response_parser.hpp, and a response a sequence of parts:    *)
(* its head (what it announces), and what follows.                         *)
(***************************************************************************)
EXTENDS Connect, FiniteSets

VARIABLES
  http,    \* where the request is: the control, redirections, pending error
  parser,  \* what http_parser expects next
  response,\* the parts given to the parser since the request was sent
  outcome  \* the error the caller was called back with, or "none"

\* A number, if the setting is one at all (see request).
ASSUME RedirectsAreNumbers == \A s \in Settings : s.max_redirects \in Int

httpVars == <<http, parser, response, outcome>>
requestVars == <<settings, call, arg, dnsVars, ioVars, live, connectVars, httpVars>>
below == <<settings, dnsVars, ioVars, live, connectVars>>

RequestStart(place, end) ==
  /\ DnsInit /\ TransportInit /\ ConnectInit
  /\ http = [at |-> place, redirs |-> 0, err |-> "ok"]
  /\ parser = "start" /\ response = <<>> /\ outcome = end

RequestInit == RequestStart("again", "none")
RequestIdle == RequestStart("idle", "idle") /\ settings = CHOOSE s \in Settings : TRUE

At(place) == http' = [http EXCEPT !.at = place]

-----------------------------------------------------------------------------
(* The parser.                                                             *)

Heads == {"counted", "untilEof", "empty", "moved", "movedNowhere", "movedBadly"}
Redirects == {"moved", "movedNowhere", "movedBadly"}

\* The answers of a proxy, the parts of a response, and what is none of them.
Part == {"auth", "granted", "bad"} \cup Heads \cup {"body", "chunk", "extra", "junk"}

\* One response at most: one head, with the body that it announces.
OneResponse(parts) ==
  /\ \A i \in DOMAIN parts : i > 1 => parts[i] \notin Heads
  /\ Len(parts) > 1 => parts[1] \notin {"empty"} \cup Redirects
  /\ Len(parts) > 2 => parts[1] # "counted"

\* A peer sends parts in turns.  A proxy answers each of its two requests with
\* one part, and then passes on the answer of a server to one request.
ASSUME PeersTakeTurns ==
  /\ Servers \cup Proxies \subseteq
       [sent : {<<>>}, wire : Seq(Part), later : Seq(Seq(Part)), end : EndKinds \cup {"silent"}]
  /\ \A p \in Proxies :
       /\ p.wire = <<>>
       /\ \A i \in DOMAIN p.later :
            \/ i < 3 /\ Len(p.later[i]) = 1
            \/ i = 3 /\ OneResponse(p.later[i])

\* http_parser pauses at the end of the message: more data is an error.
execute(state, part) ==
  CASE state = "start" /\ part \in {"counted", "untilEof"} -> part
    [] state = "start" /\ part \in {"empty"} \cup Redirects -> "end"
    [] state = "counted" /\ part = "body" -> "end"
    [] state = "untilEof" /\ part = "chunk" -> "untilEof"
    [] OTHER -> "error"

feed(parts) ==
  LET state[n \in 0 .. Len(parts)] ==
        IF n = 0 THEN parser ELSE execute(state[n - 1], parts[n])
  IN state[Len(parts)]

\* on_response() was called: the head was parsed.
valid_response == parser \in {"counted", "untilEof", "end"}

eof == IF parser \in {"start", "untilEof"} THEN "ok" ELSE "ParserInvalidEofState"

-----------------------------------------------------------------------------
(* request().                                                              *)

CallBack(err) == outcome' = err /\ At("done") /\ call' = "none" /\ arg' = "ok"

\* The URL of the caller may be bad; that of a redirection was parsed before.
parse_url_outcomes == IF http.redirs = 0 THEN {"ok", "Url"} ELSE {"ok"}

\* The URL, and what its schema adds to the settings, decide on the connection.
request_connect_impl(s) ==
  \E err \in parse_url_outcomes :
    IF err = "ok"
    THEN connect(s) /\ At("connecting") /\ UNCHANGED outcome
    ELSE CallBack(err) /\ UNCHANGED <<dnsVars, ioVars, live, connectVars>>

\* The first call, and those that follow a redirection to other settings.
request ==
  /\ InLoop /\ http.at = "again"
  /\ settings' \in {s \in Settings : s.max_redirects = settings.max_redirects}
  /\ http.redirs = 0 => settings' = settings
  /\ parser' = "start" /\ response' = <<>>
  /\ \/ /\ settings'.max_redirects = -1      \* not a number
        /\ CallBack("InvalidMaxRedirects")
        /\ UNCHANGED <<dnsVars, ioVars, live, connectVars>>
     \/ settings'.max_redirects >= 0 /\ request_connect_impl(settings')

\* The request is serialized as a whole, and written.
request_maybe_send == write /\ At("sending") /\ Enter("none", "ok")

\* A Socks5 that fails is dropped, not closed.
OnConnected ==
  /\ call = "connected"
  /\ IF arg = "ok"
     THEN /\ request_maybe_send
          /\ UNCHANGED <<outcome, peer, buff, tail, leaked>>
     ELSE /\ CallBack(arg)
          /\ emitter' = NoEmitter /\ bev' = NoBev /\ peer' = NoPeer
          /\ buff' = <<>> /\ tail' = FALSE /\ UNCHANGED usage
          /\ leaked' = leaked \cup (IF emitter.kind = "socks5" THEN {"Socks"} ELSE {})
  /\ UNCHANGED <<settings, dnsVars, live, attempt, errors, parser, response>>

\* Close the transport with the error of the exchange.
CloseWith(err) ==
  /\ http' = [http EXCEPT !.at = "closing", !.err = err]
  /\ close

\* The setting "http/ignore_body" is only looked at now.
request_recv_response ==
  IF settings.ignore_body = "bad" THEN CloseWith("Value")
  ELSE read /\ At("receiving") /\ Enter("none", "ok")

\* The callback of request_maybe_send().
OnWritten ==
  /\ call = "written"
  /\ IF arg = "ok" THEN request_recv_response ELSE CloseWith(arg)
  /\ UNCHANGED <<settings, dnsVars, peer, buff, tail, usage, live, connectVars,
                 parser, response, outcome>>

\* The callback of net::read(): feed the parser, and read on unless the
\* message is complete or something failed.
ReadEnds(err) ==
  /\ http' = [http EXCEPT !.at = "ended", !.err = err]
  /\ Enter("none", "ok")
  /\ UNCHANGED <<emitter, bev>>

OnData ==
  /\ call = "read" /\ arg = "ok"
  /\ parser' = feed(buff)
  /\ response' = response \o buff
  /\ buff' = <<>>
  /\ CASE parser' = "error" -> ReadEnds("Parser")
       [] parser' = "end" -> ReadEnds("ok")
       [] OTHER -> read /\ Enter("none", "ok") /\ UNCHANGED http
  /\ UNCHANGED <<settings, dnsVars, peer, tail, usage, live, connectVars, outcome>>

OnReadError ==
  /\ call = "read" /\ arg # "ok"
  /\ ReadEnds(IF arg = "Eof" /\ valid_response THEN eof ELSE arg)
  /\ UNCHANGED <<settings, dnsVars, peer, buff, tail, usage, live, connectVars,
                 parser, response, outcome>>

\* Mutant of EndOfClosure: the transport is dropped without close().
EndOfClosureOpen ==
  /\ InLoop /\ http.at = "ended"
  /\ At("closing")
  /\ Enter("closed", "ok")
  /\ UNCHANGED <<below, parser, response, outcome>>

\* The call_soon() of request_recv_response_loop(), and its callback.
EndOfClosure ==
  /\ InLoop /\ http.at = "ended"
  /\ CloseWith(http.err)
  /\ UNCHANGED <<settings, dnsVars, peer, buff, tail, usage, live, connectVars,
                 parser, response, outcome>>

Head1 == response[1]

\* The URL of a redirection, absolute or not, may be bad.
redirect_valid(head) == head # "movedBadly"

\* The checks around redirect(), in the order of the code.
FollowRedirect ==
  CASE Head1 = "movedNowhere" -> CallBack("EmptyLocation")
    [] Head1 # "movedNowhere" /\ ~redirect_valid(Head1) -> CallBack("InvalidRedirectUrl")
    [] Head1 = "moved" /\ http.redirs >= settings.max_redirects ->
         CallBack("TooManyRedirects")
    [] OTHER -> /\ http' = [http EXCEPT !.at = "again", !.redirs = @ + 1]
                /\ Enter("none", "ok") /\ UNCHANGED outcome

OnClosed ==
  /\ call = "closed"
  /\ IF http.err # "ok" THEN CallBack(http.err)
     ELSE IF Head1 \in Redirects /\ settings.max_redirects > 0 THEN FollowRedirect
     ELSE CallBack("ok")
  /\ UNCHANGED <<below, parser, response>>

HttpNext ==
  \/ request \/ OnConnected \/ OnWritten \/ OnData \/ OnReadError
  \/ EndOfClosure \/ OnClosed

\* The connection through a Socks5 has ended, and nobody above was told.
ProxyLost == emitter.kind = "socks5" /\ ~bev.reading /\ ~emitter.closing

RequestOver == outcome # "none" \/ ProxyLost

RequestNext ==
  \/ DnsNext /\ UNCHANGED <<ioVars, live, connectVars, httpVars>>
  \/ TransportNext /\ UNCHANGED <<connectVars, httpVars>>
  \/ ConnectNext /\ UNCHANGED httpVars
  \/ HttpNext

-----------------------------------------------------------------------------

\* Without its first two parts, which come from the proxy, if there is one.
Content(parts) == IF emitter.kind = "socks5" THEN SubSeq(parts, 3, Len(parts)) ELSE parts

\* A response that is passed up as valid holds all that came from the server,
\* in order: no data is dropped or overtaken by the end of file that libevent
\* may report first, and a message that was cut short is an error.  The data
\* usage grows by the request and by the response, once for each transport
\* they pass through, and by the dialogue with the proxy.
ResponseWhole ==
  http.at = "ended" /\ http.err = "ok" =>
    /\ response = Content(peer.sent)
    /\ parser \in {"end", "untilEof"}
    /\ parser = "untilEof" => peer.wire = <<>> /\ peer.end = "Eof"
    /\ LET dialogue == Len(peer.sent) - Len(response)
       IN /\ usage.now.down = usage.before.down + dialogue + Layers * Len(response)
          /\ usage.now.up = usage.before.up + dialogue + Layers

\* One connection at a time, also across redirections, which stop at the
\* limit; when the caller is called back none is left, but those of the three
\* failures that leave one behind (see OnTcp and OnConnected).
ConnectionsClosed ==
  /\ live <= 1
  /\ http.redirs <= (IF settings.max_redirects > 0 THEN settings.max_redirects ELSE 0)
  /\ outcome # "none" => live = Cardinality(leaked) /\ contexts = 0

\* The caller of request() is called back, unless a proxy let it down.
RequestEnds == <>(outcome # "none" \/ ProxyLost)

\* README.md: "net/timeout" is the "number of seconds after which network I/O
\* operations will timeout"; so a request ends, with a proxy too.
IOTimesOut == <>(outcome # "none")

=============================================================================
