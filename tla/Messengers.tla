----------------------------- MODULE Messengers -----------------------------
(***************************************************************************)
(* The tests of the instant messengers: ooni/whatsapp.cpp, telegram.cpp    *)
(* and facebook_messenger.cpp.                                             *)
(***************************************************************************)
EXTENDS Probes

CONSTANTS
  Hostnames,         \* the WhatsApp endpoints that are measured
  WhatsappIPs,       \* the addresses that they may have
  IPs, FacebookIPs,  \* those of Facebook's services; the ones of FB_ASN
  TelegramEndpoints, \* TELEGRAM_TCP_ENDPOINTS, a sequence
  Services           \* FB_SERVICE_HOSTNAMES in the order of the map

ASSUME MessengersConstants ==
  /\ FacebookIPs \subseteq IPs
  /\ "stun" \in Elements(Services) /\ "dns" \notin Elements(Services)

Queries(names) == {<<"dns", n>> : n \in names}

\* The addresses that dns_many() passes on, and those it did.
Found(names, last, found) ==
  [n \in names |-> IF last = <<"dns", n>> THEN found ELSE results[<<"dns", n>>]]
Addresses(names) == [n \in names |-> results[<<"dns", n>>]]

-----------------------------------------------------------------------------
(* WhatsApp.                                                               *)

\* One URL for the registration server, and two for WhatsApp Web.
WhatsappUrls(resource) ==
  IF resource = "registration_server" THEN {<<resource, "https">>}
  ELSE {<<resource, "http">>, <<resource, "https">>}

WhatsappInit ==
  TestInit([name |-> "whatsapp"], "registration_server",
           WhatsappUrls("registration_server"),
           [registration_server |-> "ok", whatsapp_web |-> "unset",
            endpoints_status |-> "unset", blocked_hostnames |-> {},
            endpoints_blocked |-> {}])

IsWhatsapp == test.name = "whatsapp"

\* http_many() of the registration server, then of WhatsApp Web, then the DNS.
WhatsappHttpCallback ==
  /\ IsWhatsapp /\ stage \in {"registration_server", "whatsapp_web"}
  /\ \E url \in waiting, r \in http_request :
       LET told == IF r = "ok" THEN entry ELSE [entry EXCEPT ![stage] = "blocked"] IN
       /\ Record(url, r)
       /\ CASE ~IsLast(url) -> StillWaiting(url) /\ entry' = told
            [] IsLast(url) /\ stage = "registration_server" ->
                 /\ Begin("whatsapp_web", WhatsappUrls("whatsapp_web"))
                 /\ entry' = [told EXCEPT !.whatsapp_web = "ok"]
            [] OTHER -> Begin("dns", Queries(Hostnames)) /\ entry' = told
  /\ UNCHANGED <<test, open>>

\* Two ports for each address.
WhatsappSockets(host_to_ips) ==
  UNION {{h} \X host_to_ips[h] \X {443, 5222} : h \in DOMAIN host_to_ips}

BeginTcp(sockets) == IF sockets = {} THEN Begin("done", {}) ELSE Begin("tcp", sockets)

\* The start of tcp_many(), where the host_to_ips of a name without an address
\* does not exist.  Every address is taken for one of WhatsApp's (BUG_341).
StartWhatsappTcp(host_to_ips) ==
  /\ entry' = [entry EXCEPT !.endpoints_status = "blocked",
                            !.blocked_hostnames = {h \in Hostnames : host_to_ips[h] # {}}]
  /\ BeginTcp(WhatsappSockets(host_to_ips))

WhatsappDnsCallback ==
  /\ IsWhatsapp /\ stage = "dns"
  /\ \E q \in waiting, found \in SUBSET WhatsappIPs :
       /\ Record(q, found)
       /\ IF IsLast(q) THEN StartWhatsappTcp(Found(Hostnames, q, found))
          ELSE StillWaiting(q) /\ UNCHANGED entry
  /\ UNCHANGED <<test, open>>

\* Mutant of Unblock: a failure blocks the name again.
UnblockOnLast(e, hostname, r) ==
  IF r = "ok"
  THEN [e EXCEPT !.endpoints_status = "ok", !.blocked_hostnames = @ \ {hostname}]
  ELSE [e EXCEPT !.blocked_hostnames = @ \cup {hostname}]

Unblock(e, hostname, r) ==
  IF r = "ok"
  THEN [e EXCEPT !.endpoints_status = "ok", !.blocked_hostnames = @ \ {hostname}]
  ELSE e

WhatsappTcpCallback ==
  /\ IsWhatsapp /\ stage = "tcp"
  /\ \E socket \in waiting, r \in tcp_connect :
       LET told == Unblock(entry, socket[1], r) IN
       /\ Record(socket, r) /\ Keep(socket, r)
       /\ IF IsLast(socket)
          THEN /\ Begin("done", {})
               /\ entry' = [told EXCEPT !.endpoints_blocked = told.blocked_hostnames]
          ELSE StillWaiting(socket) /\ entry' = told
  /\ UNCHANGED test

-----------------------------------------------------------------------------
(* Telegram.                                                               *)

TelegramUrls(type) ==
  IF type = "web" THEN <<<<type, "http">>, <<type, "https">>>>
  ELSE [i \in DOMAIN TelegramEndpoints |-> <<type, TelegramEndpoints[i]>>]

TelegramInit ==
  TestInit([name |-> "telegram"], "web", Elements(TelegramUrls("web")),
           [web_status |-> "ok", tcp_blocking |-> "unset", http_blocking |-> "unset"])

IsTelegram == test.name = "telegram"

\* A page with another title comes from somebody else.
telegram_result ==
  CASE stage = "web" -> http_request \cup {"other title"}
    [] stage = "tcp" -> tcp_connect
    [] stage = "endpoints" -> http_request
    [] OTHER -> {}

\* One that fails is enough for the web, one that works for the endpoints.
TelegramTells(e, r) ==
  CASE stage = "web" /\ r # "ok" -> [e EXCEPT !.web_status = "blocked"]
    [] stage = "tcp" /\ r = "ok" -> [e EXCEPT !.tcp_blocking = "no"]
    [] stage = "endpoints" /\ r = "ok" -> [e EXCEPT !.http_blocking = "no"]
    [] OTHER -> e

TelegramNext ==
  CASE stage = "web" -> "tcp" [] stage = "tcp" -> "endpoints" [] OTHER -> "done"

TelegramStarts(e) ==
  CASE stage = "web" -> [e EXCEPT !.tcp_blocking = "yes"]
    [] stage = "tcp" -> [e EXCEPT !.http_blocking = "yes"]
    [] OTHER -> e

\* The callbacks of http_many(), of tcp_many(), and of http_many() again.
TelegramCallback ==
  /\ IsTelegram
  /\ \E m \in Running(TelegramUrls(stage)), r \in telegram_result :
       LET told == TelegramTells(entry, r) IN
       /\ Record(m, r)
       /\ IF stage = "tcp" THEN Keep(m, r) ELSE UNCHANGED open
       /\ IF IsLast(m)
          THEN /\ entry' = TelegramStarts(told)
               /\ Begin(TelegramNext,
                        IF stage = "endpoints" THEN {} ELSE Elements(TelegramUrls(TelegramNext)))
          ELSE StillWaiting(m) /\ entry' = told
  /\ UNCHANGED test

-----------------------------------------------------------------------------
(* Facebook Messenger.                                                     *)

ServiceSet == Elements(Services)
Place(service) == CHOOSE i \in DOMAIN Services : Services[i] = service

FacebookInit ==
  TestInit([name |-> "facebook"], "dns", Queries(ServiceSet),
           [reachable |-> [s \in ServiceSet |-> "unset"],
            dns_consistent |-> [s \in ServiceSet |-> "unset"],
            dns_blocking |-> "unset", tcp_blocking |-> "unset"])

IsFacebook == test.name = "facebook"

YesIf(condition) == IF condition THEN "yes" ELSE "no"

\* STUN is not measured over TCP.
FacebookSockets(ips) == UNION {{s} \X ips[s] : s \in ServiceSet \ {"stun"}}

\* Computed when the last connection calls back.
FacebookTcpBlocking(e) ==
  YesIf(\E s \in ServiceSet \ {"stun"} : e.dns_consistent[s] = "yes" /\ e.reachable[s] # "yes")

\* Mutant of Unset: the key of STUN is read as well.
UnsetOrStun(sockets) ==
  {s \in ServiceSet : \A socket \in sockets : Place(s) > Place(socket[1])}

\* connect() may fail on the spot, and its callback comes in the loop that
\* starts the connections.  If the last of all does, the keys of the services
\* after it do not exist yet, and to read one of them as a bool throws.
Unset(sockets) ==
  {s \in ServiceSet \ {"stun"} : \A socket \in sockets : Place(s) > Place(socket[1])}

StartedEntry(ips) ==
  LET consistent == [s \in ServiceSet |-> YesIf(ips[s] \cap FacebookIPs # {})] IN
  [reachable |-> [s \in ServiceSet |-> IF s = "stun" THEN "null" ELSE "no"],
   dns_consistent |-> consistent,
   dns_blocking |-> YesIf(\E s \in ServiceSet : consistent[s] = "no"),
   tcp_blocking |-> "unset"]

StartFacebookTcp(last, found) ==
  LET ips == Found(ServiceSet, last, found)
      sockets == FacebookSockets(ips)
      started == StartedEntry(ips)
  IN \E atOnce \in SUBSET sockets :
       /\ CASE sockets = {} -> Begin("done", {}) /\ UNCHANGED entry
            [] sockets # {} /\ atOnce # sockets ->
                 Begin("tcp", sockets \ atOnce) /\ entry' = started
            [] sockets # {} /\ atOnce = sockets /\ Unset(sockets) # {} ->
                 Begin("thrown", {}) /\ UNCHANGED entry
            [] OTHER ->
                 /\ Begin("closing", {})
                 /\ entry' = [started EXCEPT !.tcp_blocking = FacebookTcpBlocking(started)]
       /\ results' = [m \in atOnce \cup {last} \cup DOMAIN results |->
                        CASE m \in atOnce -> "failed"
                          [] m = last -> found
                          [] OTHER -> results[m]]

FacebookDnsCallback ==
  /\ IsFacebook /\ stage = "dns"
  /\ \E q \in waiting, found \in SUBSET IPs :
       IF IsLast(q) THEN StartFacebookTcp(q, found)
       ELSE Record(q, found) /\ StillWaiting(q) /\ UNCHANGED entry
  /\ UNCHANGED <<test, open>>

\* this_ip_consistent
Reach(e, socket, r) ==
  IF r = "ok" /\ socket[2] \in FacebookIPs
  THEN [e EXCEPT !.reachable[socket[1]] = "yes"] ELSE e

FacebookTcpCallback ==
  /\ IsFacebook /\ stage = "tcp"
  /\ \E socket \in waiting, r \in tcp_connect :
       LET told == Reach(entry, socket, r) IN
       /\ Record(socket, r)
       /\ Keep(socket, r)
       /\ IF IsLast(socket)
          THEN /\ Begin("closing", {socket})
               /\ entry' = [told EXCEPT !.tcp_blocking = FacebookTcpBlocking(told)]
          ELSE StillWaiting(socket) /\ entry' = told
  /\ UNCHANGED test

\* The callback of the last close().
FacebookClosed ==
  /\ IsFacebook /\ stage = "closing"
  /\ open' = open \ waiting
  /\ Begin("done", {})
  /\ UNCHANGED <<test, results, entry>>

MessengersInit == WhatsappInit \/ TelegramInit \/ FacebookInit

MessengersNext ==
  \/ WhatsappHttpCallback \/ WhatsappDnsCallback \/ WhatsappTcpCallback
  \/ TelegramCallback
  \/ FacebookDnsCallback \/ FacebookTcpCallback \/ FacebookClosed

-----------------------------------------------------------------------------
(* What the entries say in the end.                                        *)

\* "whatsapp_endpoints_blocked means there were one or more consistent IPs,
\* but we couldn't connect to any of the consistent IPs"; the status is that
\* of all the endpoints together, and a resource is blocked if any URL is.
WhatsappVerdict ==
  /\ \A resource \in {"registration_server", "whatsapp_web"} :
       entry[resource] = "blocked" <=> Seen(WhatsappUrls(resource), "failed") # {}
  /\ LET sockets == WhatsappSockets(Addresses(Hostnames)) IN
     /\ entry.endpoints_status = "ok" <=> Seen(sockets, "ok") # {}
     /\ entry.endpoints_blocked =
          {h \in Hostnames : results[<<"dns", h>>] # {}
             /\ \A socket \in sockets : socket[1] = h => results[socket] = "failed"}

\* "If all the connections to ports 80 and 443 to Telegram's access point IPs
\* fail we consider Telegram to be blocked"
TelegramVerdict ==
  /\ entry.web_status = "ok" <=>
       Seen(Elements(TelegramUrls("web")), "ok") = Elements(TelegramUrls("web"))
  /\ entry.tcp_blocking = YesIf(Seen(Elements(TelegramUrls("tcp")), "ok") = {})
  /\ entry.http_blocking = YesIf(Seen(Elements(TelegramUrls("endpoints")), "ok") = {})

\* "if ANY services were TCP unreachable on all consistent IPs, switch this to
\* true", and likewise for the DNS; but when no service at all has an address
\* the entry says nothing of either.
FacebookVerdict ==
  LET ips == Addresses(ServiceSet)
      sockets == FacebookSockets(ips)
      Ours(s) == {socket \in sockets : socket[1] = s /\ socket[2] \in FacebookIPs}
  IN IF sockets = {} THEN entry.dns_blocking = "unset" /\ entry.tcp_blocking = "unset"
     ELSE /\ entry.dns_blocking = YesIf(\E s \in ServiceSet : ips[s] \cap FacebookIPs = {})
          /\ entry.tcp_blocking =
               YesIf(\E s \in ServiceSet : Ours(s) # {} /\ Seen(Ours(s), "ok") = {})

MessengersVerdict ==
  stage = "done" =>
    /\ IsWhatsapp => WhatsappVerdict
    /\ IsTelegram => TelegramVerdict
    /\ IsFacebook => FacebookVerdict
=============================================================================
