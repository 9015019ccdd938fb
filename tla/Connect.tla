------------------------------ MODULE Connect ------------------------------
(***************************************************************************)
(* net::connect() (net/connect.cpp, net/connect_impl.hpp): a name is       *)
(* resolved, its addresses are tried one after the other, and the          *)
(* bufferevent that connects gets a TLS filter, a Socks5 or a bare         *)
(* LibeventEmitter.  A step of the handshake, or of a connection attempt,  *)
(* is one event of libevent, handled by mk_bufferevent_on_event().         *)
(***************************************************************************)
EXTENDS Transport

CONSTANTS
  Servers, \* what the servers do: the initial values of peer
  Proxies  \* what the proxies do, with the servers behind them

VARIABLES
  attempt, \* the address that is tried, and "connecting" or "handshake"
  errors,  \* ConnectResult::connect_result
  leaked   \* why a bufferevent was left that nobody can free

connectVars == <<attempt, errors, leaked>>

NoAttempt == [index |-> 0, at |-> "nowhere"]

ConnectInit == attempt = NoAttempt /\ errors = <<>> /\ leaked = {}

\* connect(): to the address of the proxy (a literal, as the settings give
\* it), or to the one that was asked for.
connect(s) ==
  /\ resolve_hostname(s.proxy \/ s.literal)
  /\ attempt' = NoAttempt /\ errors' = <<>>
  /\ UNCHANGED <<ioVars, live, leaked>>

\* The callback of resolve_hostname() in connect_logic().
OnResolved ==
  /\ call = "resolved"
  /\ IF result.addresses = <<>>
     THEN Enter("connected", "Dns") /\ UNCHANGED attempt
     ELSE Enter("connect_first_of", "ok") /\ attempt' = [NoAttempt EXCEPT !.index = 1]
  /\ UNCHANGED <<settings, dnsVars, ioVars, live, errors, leaked>>

NextAddress == attempt' = [index |-> attempt.index + 1, at |-> "nowhere"]

\* connect_base(): the address is bad, connect() fails, or it is in progress.
connect_base ==
  \/ /\ errors' = Append(errors, "Sys")
     /\ NextAddress
     /\ UNCHANGED <<call, arg, live>>
  \/ /\ attempt' = [attempt EXCEPT !.at = "connecting"]
     /\ live' = live + 1
     /\ Enter("none", "ok")
     /\ UNCHANGED errors

\* A single error is told as it is.
AllFailed == IF Len(errors) = 1 THEN errors[1] ELSE "ConnectFailed"

connect_first_of ==
  /\ call = "connect_first_of"
  /\ IF attempt.index > Len(result.addresses)
     THEN Enter("connected", AllFailed) /\ UNCHANGED <<connectVars, live>>
     ELSE connect_base /\ UNCHANGED leaked
  /\ UNCHANGED <<settings, dnsVars, ioVars>>

\* The bufferevent of an attempt that failed is freed.
FreeAttempt == live' = live - 1

\* The callback of connect_base().
AttemptEnds(err) ==
  /\ InLoop /\ attempt.at = "connecting"
  /\ errors' = Append(errors, err)
  /\ IF err = "ok"
     THEN /\ Enter("tcp", "ok")
          /\ attempt' = [attempt EXCEPT !.at = "nowhere"]
          /\ UNCHANGED live
     ELSE FreeAttempt /\ NextAddress /\ Enter("connect_first_of", "ok")
  /\ UNCHANGED <<settings, dnsVars, ioVars, leaked>>

linkVars == <<emitter, bev, peer, usage>>

\* A new transport, on the bufferevent of the attempt, and some peer.
MakeTransport(new, b, peers, sent) ==
  /\ emitter' = new /\ bev' = b /\ peer' \in peers
  /\ usage' = [before |-> usage.now, now |-> [usage.now EXCEPT !.up = @ + sent]]

\* The Socks5 on the connection to the proxy at once sends its first request
\* and reads, and will say when it is connected.
socks5_connect ==
  /\ MakeTransport(Socks5, start_writing(start_reading(NoBev)), Proxies, 1)
  /\ Enter("none", "ok")
  /\ UNCHANGED <<attempt, live, leaked>>

\* The transport is there, and the caller of connect() gets it.
Connected ==
  MakeTransport(LibeventEmitter, NoBev, Servers, 0) /\ Enter("connected", "ok")

\* Mutant of FailedAndFreed: the bufferevent is forgotten.
FailedAndForgotten(err) == Enter("connected", err) /\ UNCHANGED <<live, leaked>>

\* A callback with an error, after the bufferevent was freed or not.
FailedAndFreed(err) == Enter("connected", err) /\ live' = live - 1 /\ UNCHANGED leaked
FailedAndLeaked(err) ==
  Enter("connected", err) /\ leaked' = leaked \cup {err} /\ UNCHANGED live

\* A context for the CA bundle, cached or new, an SSL made from it, and the
\* name that it will check: each may fail.
Context_make == {"ok", "SslCtx"}
Context_get_client_ssl == {"ok", "SslNew"}
get_client_ssl == Context_make \cup Context_get_client_ssl
enable_hostname_validation == {"ok", "Generic"}
SslErrors ==
  IF settings.ssl = "badSsl23" THEN (get_client_ssl \ {"ok"}) \cup {"Value"}
  ELSE get_client_ssl \cup enable_hostname_validation

\* The callbacks of connect_logic() in socks5_connect() and in connect(): an
\* error of disable_nagle() is passed up without the bufferevent.
OnTcp ==
  /\ call = "tcp"
  /\ \/ FailedAndLeaked("Nagle") /\ UNCHANGED <<attempt, linkVars>>
     \/ settings.proxy /\ socks5_connect
     \/ /\ ~settings.proxy /\ settings.ssl = "no"
        /\ Connected /\ UNCHANGED <<attempt, live, leaked>>
     \/ /\ ~settings.proxy /\ settings.ssl = "noBundle"
        /\ FailedAndLeaked("MissingCaBundle") /\ UNCHANGED <<attempt, linkVars>>
     \/ /\ ~settings.proxy /\ settings.ssl \notin {"no", "noBundle"}
        /\ \E err \in SslErrors :
             IF err = "ok"
             THEN /\ attempt' = [attempt EXCEPT !.at = "handshake"]
                  /\ Enter("none", "ok")
                  /\ UNCHANGED <<live, leaked>>
             ELSE FailedAndFreed(err) /\ UNCHANGED attempt
        /\ UNCHANGED linkVars
  /\ UNCHANGED <<settings, dnsVars, buff, tail, errors>>

\* connect_ssl(): the handshake ends; a bad setting for the shutdown is only
\* found then.
HandshakeEnds(err) ==
  /\ InLoop /\ attempt.at = "handshake"
  /\ attempt' = [attempt EXCEPT !.at = "nowhere"]
  /\ IF err = "ok" /\ settings.ssl # "badShutdown"
     THEN Connected /\ UNCHANGED <<live, leaked>>
     ELSE /\ FailedAndFreed(IF err = "ok" THEN "Value" ELSE err)
          /\ UNCHANGED linkVars
  /\ UNCHANGED <<settings, dnsVars, buff, tail, errors>>

ConnectNext ==
  \/ OnResolved \/ connect_first_of \/ OnTcp
  \/ \E err \in {"ok", "Sys", "Timeout"} : AttemptEnds(err)
  \/ \E err \in {"ok", "Ssl", "Timeout"} : HandshakeEnds(err)

=============================================================================
