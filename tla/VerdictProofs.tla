---------------------------- MODULE VerdictProofs ----------------------------
(***************************************************************************)
(* What the entry of a test says agrees with all that was measured, in     *)
(* whatever order the callbacks come (VerdictsFollow), for any names,      *)
(* addresses, endpoints, pages and headers.  The invariants, one for each  *)
(* test, say which measurements have called back in each stage, and what   *)
(* the entry says of them so far.                                          *)
(***************************************************************************)
EXTENDS Ooni, FiniteSetTheorems, TLAPS

\* Some of these measurements has called back with r.
Some(measurements, r) == \E m \in measurements : m \in DOMAIN results /\ results[m] = r

\* The measurements that have called back, of those of the stage.
CalledBack(before, measurements) ==
  waiting \subseteq measurements /\ DOMAIN results = before \cup (measurements \ waiting)

Shape(fields) == entry = [field \in fields |-> entry[field]]

-----------------------------------------------------------------------------
(* WhatsApp.                                                               *)

Resources == {"registration_server", "whatsapp_web"}
PageUrls == WhatsappUrls("registration_server") \cup WhatsappUrls("whatsapp_web")
HostQueries == Queries(Hostnames)
HostSockets == WhatsappSockets(Addresses(Hostnames))

WhatsappStages ==
  CASE stage = "registration_server" -> CalledBack({}, WhatsappUrls("registration_server"))
    [] stage = "whatsapp_web" ->
         CalledBack(WhatsappUrls("registration_server"), WhatsappUrls("whatsapp_web"))
    [] stage = "dns" -> CalledBack(PageUrls, HostQueries)
    [] stage = "tcp" -> CalledBack(PageUrls \cup HostQueries, HostSockets)
    [] stage = "done" -> waiting = {} /\ DOMAIN results = PageUrls \cup HostQueries \cup HostSockets
    [] OTHER -> FALSE

\* A name is blocked as long as none of its endpoints was reached.
Unreached(h) ==
  /\ results[<<"dns", h>>] # {}
  /\ \A socket \in HostSockets : socket[1] = h => socket \in waiting \/ results[socket] = "failed"

WhatsappInv ==
  /\ Shape(Resources \cup {"endpoints_status", "blocked_hostnames", "endpoints_blocked"})
  /\ WhatsappStages
  /\ \A resource \in Resources :
       entry[resource] = "blocked" <=> Some(WhatsappUrls(resource), "failed")
  /\ stage \in {"tcp", "done"} =>
       /\ entry.endpoints_status = IF Some(HostSockets, "ok") THEN "ok" ELSE "blocked"
       /\ entry.blocked_hostnames = {h \in Hostnames : Unreached(h)}
       /\ \A socket \in HostSockets \ waiting : results[socket] \in tcp_connect
  /\ entry.endpoints_blocked = IF stage = "done" THEN entry.blocked_hostnames ELSE {}

-----------------------------------------------------------------------------
(* Telegram.                                                               *)

WebUrls == Elements(TelegramUrls("web"))
TcpUrls == Elements(TelegramUrls("tcp"))
EndpointUrls == Elements(TelegramUrls("endpoints"))

TelegramStages ==
  CASE stage = "web" -> CalledBack({}, WebUrls)
    [] stage = "tcp" -> CalledBack(WebUrls, TcpUrls)
    [] stage = "endpoints" -> CalledBack(WebUrls \cup TcpUrls, EndpointUrls)
    [] stage = "done" -> waiting = {} /\ DOMAIN results = WebUrls \cup TcpUrls \cup EndpointUrls
    [] OTHER -> FALSE

TelegramInv ==
  /\ Shape({"web_status", "tcp_blocking", "http_blocking"})
  /\ TelegramStages
  /\ entry.web_status \in {"ok", "blocked"}
  /\ entry.web_status = "ok" <=> \A m \in WebUrls : m \in DOMAIN results => results[m] = "ok"
  /\ stage # "web" => entry.tcp_blocking = YesIf(~Some(TcpUrls, "ok"))
  /\ stage \in {"endpoints", "done"} => entry.http_blocking = YesIf(~Some(EndpointUrls, "ok"))

-----------------------------------------------------------------------------
(* Facebook.                                                               *)

Ips == Addresses(ServiceSet)
ServiceSockets == FacebookSockets(Ips)
Ours(s) == {socket \in ServiceSockets : socket[1] = s /\ socket[2] \in FacebookIPs}

FacebookStages ==
  CASE stage = "dns" -> CalledBack({}, Queries(ServiceSet))
    [] stage = "tcp" -> CalledBack(Queries(ServiceSet), ServiceSockets)
    [] stage \in {"closing", "done"} -> DOMAIN results = Queries(ServiceSet) \cup ServiceSockets
    [] stage = "thrown" -> TRUE
    [] OTHER -> FALSE

\* The entry has begun to say something once there is an address.
FacebookSays ==
  /\ entry.reachable = [s \in ServiceSet |-> entry.reachable[s]]
  /\ \A s \in ServiceSet \ {"stun"} : entry.reachable[s] = "yes" <=> Some(Ours(s), "ok")
  /\ entry.dns_consistent = [s \in ServiceSet |-> YesIf(Ips[s] \cap FacebookIPs # {})]
  /\ entry.dns_blocking = YesIf(\E s \in ServiceSet : Ips[s] \cap FacebookIPs = {})
  /\ stage # "tcp" => entry.tcp_blocking = FacebookTcpBlocking(entry)

FacebookInv ==
  /\ Shape({"reachable", "dns_consistent", "dns_blocking", "tcp_blocking"})
  /\ FacebookStages
  /\ stage = "dns" \/ (stage = "done" /\ ServiceSockets = {}) =>
       entry.dns_blocking = "unset" /\ entry.tcp_blocking = "unset"
  /\ stage \in {"tcp", "closing"} => ServiceSockets # {}
  /\ stage \in {"tcp", "closing", "done"} /\ ServiceSockets # {} => FacebookSays

-----------------------------------------------------------------------------
(* Captive portals, invalid request lines, and header fields.              *)

Vended == Elements(VendorTests)
Randoms == {<<"random", name>> : name \in RandomNames}

CaptiveStages ==
  CASE stage = "vendors" -> CalledBack({}, Vended)
    [] stage = "ncsi" -> waiting = {<<"ncsi">>} /\ DOMAIN results = Vended
    [] stage = "random" -> CalledBack(Vended \cup {<<"ncsi">>}, Randoms)
    [] stage = "done" -> waiting = {} /\ DOMAIN results = Vended \cup {<<"ncsi">>} \cup Randoms
    [] OTHER -> FALSE

CaptiveInv ==
  /\ Shape({"vendor_tests", "ms_dns", "google_dns"})
  /\ CaptiveStages
  /\ DOMAIN entry.vendor_tests = {v \in Elements(Vendors) : <<"vendor", v>> \in DOMAIN results}
  /\ \A v \in DOMAIN entry.vendor_tests :
       entry.vendor_tests[v] = "true" <=> results[<<"vendor", v>>] = "expected"
  /\ stage \in {"random", "done"} => entry.google_dns = TrueIf(~Some(Randoms, "address"))

Ended == Subtests \ waiting

LinesSay ==
  /\ \A m \in Ended : m \in DOMAIN results /\ results[m] \in {"same", "different", "failed"}
  /\ \A m \in waiting : m \in DOMAIN results => results[m] \in {"sent", "same", "different"}
  /\ "true" \in Elements(entry.tampering_list) <=> \E m \in Ended : results[m] = "different"
  /\ "false" \in Elements(entry.tampering_list) <=> \E m \in Ended : results[m] = "same"
  /\ "failed" \in Elements(entry.failure_list) <=> \E m \in Ended : results[m] = "failed"

LinesInv ==
  /\ Shape({"failure", "tampering", "tampering_list", "failure_list"})
  /\ stage \in {"lines", "done"} /\ waiting \subseteq Subtests
  /\ test.backend # "ok" => waiting = {}
  /\ test.backend = "ok" =>
       /\ LinesSay
       /\ entry.tampering_list \in Seq({"true", "false", "null"})
       /\ entry.failure_list \in Seq({"failed", "null"})
       /\ Len(entry.tampering_list) = Cardinality(Ended)
       /\ stage = "lines" => entry.tampering = "null" /\ entry.failure = "none"
       /\ stage = "done" => waiting = {} /\ LinesVerdict

HeadersInv ==
  /\ stage \in {"request", "done"}
  /\ stage = "request" =>
       entry = [failure |-> "none", total |-> "null", request_line |-> "null",
                diff |-> {}, field_name |-> "null"]
  /\ stage = "done" => HeadersVerdict

-----------------------------------------------------------------------------
(* Web connectivity.                                                       *)

WebFields ==
  {"failure", "dns_consistency", "match", "accessible", "blocking", "control_failure",
   "http_experiment_failure", "tcp_connect"}

WebStages ==
  CASE stage = "dns" -> entry.tcp_connect = <<>> /\ results = << >>
    [] stage = "tcp" -> CalledBack({<<"dns">>}, Sockets(Measured))
    [] stage \in {"closing", "http"} -> DOMAIN results = {<<"dns">>} \cup Sockets(Measured)
    [] stage = "control" -> DOMAIN results = {<<"dns">>, <<"http">>} \cup Sockets(Measured)
    [] OTHER -> stage \in {"done", "thrown"}

\* The record of each connection that was made, and of no other.
WebRecords ==
  /\ entry.tcp_connect \in Seq([ip : Measured, success : BOOLEAN, blocked : {"no", "null"}])
  /\ \A i \in DOMAIN entry.tcp_connect :
       LET socket == <<"tcp", entry.tcp_connect[i].ip>> IN
       /\ socket \in DOMAIN results
       /\ results[socket] = IF entry.tcp_connect[i].success THEN "ok" ELSE "failed"
  /\ \A ip \in Measured :
       \/ <<"tcp", ip>> \notin DOMAIN results
       \/ \E i \in DOMAIN entry.tcp_connect : entry.tcp_connect[i].ip = ip

WebInv ==
  /\ Shape(WebFields)
  /\ WebStages
  /\ stage \in {"tcp", "closing", "http", "control"} => WebRecords
  /\ stage \in {"dns", "tcp", "closing", "http"} => entry.http_experiment_failure = "none"
  /\ stage = "control" => entry.http_experiment_failure = results[<<"http">>].failure
  /\ stage # "done" => entry.blocking = "null"
  /\ WebVerdict

-----------------------------------------------------------------------------

VerdictInv ==
  /\ IsWhatsapp => WhatsappInv
  /\ IsTelegram => TelegramInv
  /\ IsFacebook => FacebookInv
  /\ IsCaptive => CaptiveInv
  /\ IsLines => LinesInv
  /\ IsHeaders => HeadersInv
  /\ IsWeb => WebInv

-----------------------------------------------------------------------------
(* What a callback adds to the results.                                    *)

LEMMA Recorded ==
  ASSUME NEW m, NEW r, Record(m, r)
  PROVE  /\ DOMAIN results' = DOMAIN results \cup {m} /\ results'[m] = r
         /\ \A k \in DOMAIN results : k # m => results'[k] = results[k]
  BY DEF Record

LEMMA SomeRecorded ==
  ASSUME NEW measurements, NEW m, NEW r, NEW v, Record(m, r), m \notin DOMAIN results
  PROVE  Some(measurements, v)' <=> Some(measurements, v) \/ (m \in measurements /\ r = v)
  BY DEF Record, Some

-----------------------------------------------------------------------------
(* WhatsApp.                                                               *)

LEMMA HostSocket ==
  ASSUME NEW ips, NEW socket \in WhatsappSockets(ips)
  PROVE  \E h \in DOMAIN ips : \E ip \in ips[h] : \E port \in {443, 5222} : socket = <<h, ip, port>>
<1>1. PICK h \in DOMAIN ips : socket \in {h} \X ips[h] \X {443, 5222}
  BY DEF WhatsappSockets
<1> QED
  BY <1>1

LEMMA HostHasSocket ==
  ASSUME NEW ips, NEW h \in DOMAIN ips, ips[h] # {}
  PROVE  \E socket \in WhatsappSockets(ips) : socket[1] = h
<1>1. PICK ip \in ips[h] : TRUE
  OBVIOUS
<1>2. <<h, ip, 443>> \in {h} \X ips[h] \X {443, 5222}
  OBVIOUS
<1>3. <<h, ip, 443>> \in WhatsappSockets(ips)
  BY <1>2 DEF WhatsappSockets
<1> QED
  BY <1>3

LEMMA WhatsappHttpKeeps ==
  ASSUME WhatsappInv, WhatsappHttpCallback
  PROVE  WhatsappInv'
<1> USE DEF Resources
<1> DEFINE fields == Resources \cup {"endpoints_status", "blocked_hostnames", "endpoints_blocked"}
           heard(r) == IF r = "ok" THEN entry ELSE [entry EXCEPT ![stage] = "blocked"]
<1>1. PICK url \in waiting, r \in http_request :
        /\ Record(url, r)
        /\ CASE ~IsLast(url) -> StillWaiting(url) /\ entry' = heard(r)
             [] IsLast(url) /\ stage = "registration_server" ->
                  /\ Begin("whatsapp_web", WhatsappUrls("whatsapp_web"))
                  /\ entry' = [heard(r) EXCEPT !.whatsapp_web = "ok"]
             [] OTHER -> Begin("dns", Queries(Hostnames)) /\ entry' = heard(r)
  BY DEF WhatsappHttpCallback
<1>2. /\ stage \in Resources /\ url \in WhatsappUrls(stage) /\ url \notin DOMAIN results
      /\ \A resource \in Resources : url \in WhatsappUrls(resource) => resource = stage
      /\ DOMAIN results' = DOMAIN results \cup {url}
      /\ stage = "registration_server" => ~Some(WhatsappUrls("whatsapp_web"), "failed")'
  <2>1. stage \in Resources
    BY DEF WhatsappHttpCallback
  <2>2. url \in WhatsappUrls(stage) /\ url \notin DOMAIN results
    BY <2>1 DEF WhatsappInv, WhatsappStages, CalledBack, WhatsappUrls
  <2>3. \A resource \in Resources : url \in WhatsappUrls(resource) => resource = stage
    BY <2>1, <2>2 DEF WhatsappUrls
  <2>4. DOMAIN results' = DOMAIN results \cup {url}
    BY <1>1, Recorded
  <2>5. ASSUME stage = "registration_server", NEW u \in WhatsappUrls("whatsapp_web")
        PROVE  u \notin DOMAIN results'
    <3>1. u[1] = "whatsapp_web"
      BY <2>5 DEF WhatsappUrls
    <3>2. \A w \in WhatsappUrls("registration_server") : w[1] = "registration_server"
      BY DEF WhatsappUrls
    <3> QED
      BY <2>2, <2>4, <2>5, <3>1, <3>2 DEF WhatsappInv, WhatsappStages, CalledBack
  <2> QED
    BY <2>1, <2>2, <2>3, <2>4, <2>5 DEF Some
<1>3. /\ heard(r) = [field \in fields |-> heard(r)[field]]
      /\ \A resource \in Resources :
           heard(r)[resource] = "blocked" <=>
             entry[resource] = "blocked" \/ (r = "failed" /\ resource = stage)
      /\ heard(r).endpoints_blocked = entry.endpoints_blocked
  BY <1>2 DEF WhatsappInv, Shape, http_request
<1>4. /\ entry' = [field \in fields |-> entry'[field]]
      /\ entry'.endpoints_blocked = entry.endpoints_blocked
      /\ entry'.registration_server = heard(r).registration_server
      /\ entry'.whatsapp_web = heard(r).whatsapp_web
         \/ (stage = "registration_server" /\ entry'.whatsapp_web = "ok")
  <2> HIDE DEF heard
  <2> QED
    BY <1>1, <1>3
<1>5. ASSUME NEW resource \in Resources
      PROVE  entry'[resource] = "blocked" <=> Some(WhatsappUrls(resource), "failed")'
  <2>1. Some(WhatsappUrls(resource), "failed")' <=>
          Some(WhatsappUrls(resource), "failed") \/ (url \in WhatsappUrls(resource) /\ r = "failed")
    BY <1>1, <1>2, SomeRecorded
  <2>2. Some(WhatsappUrls(resource), "failed")' <=> heard(r)[resource] = "blocked"
    BY <1>2, <1>3, <2>1 DEF WhatsappInv
  <2> HIDE DEF heard
  <2> QED
    BY <1>2, <1>4, <2>2
<1>6. WhatsappStages' /\ stage' \in Resources \cup {"dns"}
  <2> HIDE DEF heard
  <2> QED
    BY <1>1, <1>2
    DEF WhatsappInv, WhatsappStages, CalledBack, IsLast, StillWaiting, Begin, PageUrls, HostQueries
<1> QED
  BY <1>2, <1>4, <1>5, <1>6 DEF WhatsappInv, Shape

LEMMA SocketIsFresh ==
  ASSUME NEW ips, NEW socket \in WhatsappSockets(ips)
  PROVE  socket \notin PageUrls \cup HostQueries
<1>1. PICK h \in DOMAIN ips : \E ip \in ips[h] : \E port \in {443, 5222} : socket = <<h, ip, port>>
  BY HostSocket
<1>2. PICK ip, port : socket = <<h, ip, port>>
  BY <1>1
<1> QED
  BY <1>2 DEF PageUrls, WhatsappUrls, HostQueries, Queries

LEMMA QueriesAreFresh == PageUrls \cap HostQueries = {}
  BY DEF PageUrls, WhatsappUrls, HostQueries, Queries

LEMMA WhatsappDnsKeeps ==
  ASSUME WhatsappInv, WhatsappDnsCallback
  PROVE  WhatsappInv'
<1>1. PICK q \in waiting, addresses \in SUBSET WhatsappIPs :
        /\ Record(q, addresses)
        /\ IF IsLast(q) THEN StartWhatsappTcp(Found(Hostnames, q, addresses))
           ELSE StillWaiting(q) /\ UNCHANGED entry
  BY DEF WhatsappDnsCallback
<1>2. /\ stage = "dns" /\ CalledBack(PageUrls, HostQueries)
      /\ q \in HostQueries /\ q \notin PageUrls /\ q \notin DOMAIN results
      /\ DOMAIN results' = DOMAIN results \cup {q}
  BY <1>1, Recorded, QueriesAreFresh DEF WhatsappDnsCallback, WhatsappInv, WhatsappStages, CalledBack
<1>3. ASSUME NEW resource \in Resources
      PROVE  Some(WhatsappUrls(resource), "failed")' <=> Some(WhatsappUrls(resource), "failed")
  <2>1. q \notin WhatsappUrls(resource)
    BY <1>2 DEF PageUrls, Resources
  <2> QED
    BY <1>1, <1>2, <2>1, SomeRecorded
<1>4. CASE ~IsLast(q)
  <2>1. stage' = "dns" /\ entry' = entry /\ waiting' = waiting \ {q}
    BY <1>1, <1>2, <1>4 DEF StillWaiting
  <2> QED
    BY <1>2, <1>3, <2>1 DEF WhatsappInv, WhatsappStages, CalledBack, Shape
<1>5. CASE IsLast(q)
  <2> PICK ips : ips = Found(Hostnames, q, addresses)
    OBVIOUS
  <2> DEFINE sockets == WhatsappSockets(ips)
             names == {h \in Hostnames : ips[h] # {}}
  <2>1. /\ entry' = [entry EXCEPT !.endpoints_status = "blocked", !.blocked_hostnames = names]
        /\ BeginTcp(sockets)
    BY <1>1, <1>5 DEF StartWhatsappTcp
  <2>2. DOMAIN results' = PageUrls \cup HostQueries
    BY <1>2, <1>5 DEF CalledBack, IsLast
  <2>3. Addresses(Hostnames)' = ips
    <3>1. ASSUME NEW h \in Hostnames PROVE ips[h] = results'[<<"dns", h>>]
      <4>1. <<"dns", h>> \in HostQueries
        BY DEF HostQueries, Queries
      <4>2. CASE q = <<"dns", h>>
        BY <1>1, <4>2, Recorded DEF Found
      <4>3. CASE q # <<"dns", h>>
        <5>1. <<"dns", h>> \in DOMAIN results
          BY <1>2, <1>5, <4>1, <4>3 DEF CalledBack, IsLast
        <5> QED
          BY <1>1, <4>3, <5>1, Recorded DEF Found
      <4> QED
        BY <4>2, <4>3
    <3>2. ips = [h \in Hostnames |-> ips[h]]
      BY DEF Found
    <3> QED
      BY <3>1, <3>2 DEF Addresses
  <2>4. HostSockets' = sockets /\ \A h \in Hostnames : results'[<<"dns", h>>] = ips[h]
    BY <2>3 DEF HostSockets, Addresses
  <2>5. DOMAIN ips = Hostnames
    BY DEF Found
  <2>6. ~Some(HostSockets, "ok")'
    BY <2>2, <2>4, SocketIsFresh DEF Some
  <2>7. CASE sockets # {}
    <3>1. stage' = "tcp" /\ waiting' = sockets
      BY <2>1, <2>7 DEF BeginTcp, Begin
    <3>2. names = {h \in Hostnames : Unreached(h)'}
      BY <2>4, <3>1 DEF Unreached
    <3>3. {h \in Hostnames : Unreached(h)}' = names
      BY <3>2
    <3> HIDE DEF sockets, names
    <3>4. WhatsappStages'
      BY <2>2, <2>4, <3>1 DEF WhatsappStages, CalledBack
    <3> QED
      BY <1>2, <1>3, <2>1, <2>4, <2>6, <3>1, <3>3, <3>4 DEF WhatsappInv, Shape, Resources
  <2>8. CASE sockets = {}
    <3>1. stage' = "done" /\ waiting' = {}
      BY <2>1, <2>8 DEF BeginTcp, Begin
    <3>2. names = {}
      BY <2>5, <2>8, HostHasSocket
    <3>3. {h \in Hostnames : Unreached(h)}' = {}
      BY <2>4, <3>2 DEF Unreached
    <3> HIDE DEF sockets, names
    <3>4. WhatsappStages'
      BY <2>2, <2>4, <2>8, <3>1 DEF WhatsappStages
    <3> QED
      BY <1>2, <1>3, <2>1, <2>4, <2>6, <2>8, <3>1, <3>2, <3>3, <3>4 DEF WhatsappInv, Shape, Resources
  <2> QED
    BY <2>7, <2>8
<1> QED
  BY <1>4, <1>5

LEMMA WhatsappTcpKeeps ==
  ASSUME WhatsappInv, WhatsappTcpCallback
  PROVE  WhatsappInv'
<1>1. PICK socket \in waiting, r \in tcp_connect :
        /\ Record(socket, r)
        /\ IF IsLast(socket)
           THEN /\ Begin("done", {})
                /\ entry' = [Unblock(entry, socket[1], r) EXCEPT
                               !.endpoints_blocked = Unblock(entry, socket[1], r).blocked_hostnames]
           ELSE StillWaiting(socket) /\ entry' = Unblock(entry, socket[1], r)
  BY DEF WhatsappTcpCallback
<1> PICK sockets : sockets = HostSockets
  OBVIOUS
<1>2. /\ stage = "tcp" /\ CalledBack(PageUrls \cup HostQueries, sockets)
      /\ socket \in sockets /\ socket \notin PageUrls \cup HostQueries /\ socket \notin DOMAIN results
      /\ DOMAIN results' = DOMAIN results \cup {socket}
  <2>1. stage = "tcp" /\ CalledBack(PageUrls \cup HostQueries, sockets)
    BY DEF WhatsappTcpCallback, WhatsappInv, WhatsappStages
  <2>2. socket \in sockets /\ socket \notin PageUrls \cup HostQueries
    BY <2>1, SocketIsFresh DEF CalledBack, HostSockets
  <2> QED
    BY <1>1, <2>1, <2>2, Recorded DEF CalledBack
<1>3. \A resource \in Resources :
        Some(WhatsappUrls(resource), "failed")' <=> Some(WhatsappUrls(resource), "failed")
  <2> TAKE resource \in Resources
  <2>1. socket \notin WhatsappUrls(resource)
    BY <1>2 DEF PageUrls, Resources
  <2> QED
    BY <1>1, <1>2, <2>1, SomeRecorded
<1>4. /\ HostSockets' = sockets
      /\ \A h \in Hostnames : results'[<<"dns", h>>] = results[<<"dns", h>>]
  <2>1. ASSUME NEW h \in Hostnames PROVE results'[<<"dns", h>>] = results[<<"dns", h>>]
    <3>1. <<"dns", h>> \in HostQueries
      BY DEF HostQueries, Queries
    <3> QED
      BY <1>1, <1>2, <3>1, Recorded DEF CalledBack
  <2> QED
    BY <2>1 DEF HostSockets, Addresses
<1>5. /\ waiting' = waiting \ {socket}
      /\ stage' = (IF waiting' = {} THEN "done" ELSE "tcp")
  BY <1>1, <1>2 DEF IsLast, Begin, StillWaiting
<1>6. WhatsappStages'
  BY <1>2, <1>4, <1>5 DEF WhatsappStages, CalledBack
<1>7. Some(HostSockets, "ok")' <=> Some(sockets, "ok") \/ r = "ok"
  <2>1. Some(sockets, "ok")' <=> Some(sockets, "ok") \/ r = "ok"
    BY <1>1, <1>2, SomeRecorded
  <2> QED
    BY <1>4, <2>1 DEF Some
<1>8. \A s \in sockets \ {socket} : results'[s] = results[s] \/ s \in waiting'
  BY <1>1, <1>2, <1>5, Recorded DEF CalledBack
<1>9. ASSUME NEW h \in Hostnames
      PROVE  Unreached(h)' <=> Unreached(h) /\ (r = "ok" => h # socket[1])
  <2>1. results'[socket] = r /\ r \in {"ok", "failed"}
    BY <1>1, Recorded DEF tcp_connect
  <2>2. ASSUME NEW s \in sockets \ {socket}
        PROVE  (s \in waiting' \/ results'[s] = "failed") <=> (s \in waiting \/ results[s] = "failed")
    BY <1>1, <1>2, <1>5, <2>2, Recorded DEF CalledBack
  <2>3. socket \in waiting /\ socket \notin waiting'
    BY <1>5
  <2> QED
    BY <1>2, <1>4, <2>1, <2>2, <2>3 DEF Unreached
<1>10. PICK unreached : unreached = {h \in Hostnames : Unreached(h)}
  OBVIOUS
<1>11. {h \in Hostnames : Unreached(h)}' =
         (IF r = "ok" THEN unreached \ {socket[1]} ELSE unreached)
  BY <1>9, <1>10
<1>12. \A s \in sockets \ waiting' : results'[s] \in tcp_connect
  BY <1>1, <1>2, <1>5, Recorded DEF WhatsappInv, CalledBack
<1>13. /\ entry' = [field \in Resources \cup {"endpoints_status", "blocked_hostnames", "endpoints_blocked"}
                      |-> entry'[field]]
       /\ \A resource \in Resources : entry'[resource] = entry[resource]
       /\ entry'.endpoints_status = (IF r = "ok" THEN "ok" ELSE entry.endpoints_status)
       /\ entry'.blocked_hostnames =
            (IF r = "ok" THEN entry.blocked_hostnames \ {socket[1]} ELSE entry.blocked_hostnames)
       /\ entry'.endpoints_blocked =
            (IF stage' = "done" THEN entry'.blocked_hostnames ELSE entry.endpoints_blocked)
  <2>1. CASE IsLast(socket)
    BY <1>1, <1>2, <2>1 DEF WhatsappInv, Shape, Resources, Unblock, Begin
  <2>2. CASE ~IsLast(socket)
    BY <1>1, <1>2, <2>2 DEF WhatsappInv, Shape, Resources, Unblock, StillWaiting
  <2> QED
    BY <2>1, <2>2
<1>14. /\ entry'.endpoints_status = (IF Some(HostSockets, "ok")' THEN "ok" ELSE "blocked")
       /\ entry'.blocked_hostnames = {h \in Hostnames : Unreached(h)}'
       /\ entry.endpoints_blocked = {}
  <2>1. /\ entry.endpoints_status = (IF Some(sockets, "ok") THEN "ok" ELSE "blocked")
        /\ entry.blocked_hostnames = unreached
        /\ entry.endpoints_blocked = {}
    BY <1>2, <1>10 DEF WhatsappInv
  <2> QED
    BY <1>7, <1>11, <1>13, <2>1
<1> QED
  BY <1>2, <1>3, <1>4, <1>5, <1>6, <1>12, <1>13, <1>14 DEF WhatsappInv, Shape

LEMMA WhatsappStarts == WhatsappInit => WhatsappInv
  BY DEF WhatsappInit, TestInit, WhatsappInv, Shape, Resources, WhatsappStages, CalledBack, WhatsappUrls,
         Some

LEMMA WhatsappFollows ==
  ASSUME WhatsappInv, stage = "done"
  PROVE  WhatsappVerdict
<1>1. \A measurements, r : Seen(measurements, r) # {} <=> Some(measurements, r)
  BY DEF Seen, Some
<1>2. /\ waiting = {}
      /\ entry.endpoints_blocked = {h \in Hostnames : Unreached(h)}
      /\ entry.endpoints_status = IF Some(HostSockets, "ok") THEN "ok" ELSE "blocked"
  BY DEF WhatsappInv, WhatsappStages
<1>3. entry.endpoints_blocked =
        {h \in Hostnames : results[<<"dns", h>>] # {}
           /\ \A socket \in HostSockets : socket[1] = h => results[socket] = "failed"}
  BY <1>2 DEF Unreached
<1>4. \A resource \in Resources :
        entry[resource] = "blocked" <=> Seen(WhatsappUrls(resource), "failed") # {}
  BY <1>1 DEF WhatsappInv
<1> QED
  BY <1>1, <1>2, <1>3, <1>4 DEF WhatsappVerdict, HostSockets, Resources

-----------------------------------------------------------------------------
(* Telegram.                                                               *)

LEMMA TelegramUrlIsOf ==
  ASSUME NEW type, NEW m \in Elements(TelegramUrls(type))
  PROVE  m[1] = type
<1>1. CASE type = "web"
  <2>1. TelegramUrls(type) = <<<<type, "http">>, <<type, "https">>>>
    BY <1>1 DEF TelegramUrls
  <2>2. PICK i \in {1, 2} : m = TelegramUrls(type)[i]
    BY <2>1 DEF Elements
  <2> QED
    BY <2>1, <2>2
<1>2. CASE type # "web"
  <2>1. PICK i \in DOMAIN TelegramEndpoints : m = <<type, TelegramEndpoints[i]>>
    BY <1>2 DEF Elements, TelegramUrls
  <2> QED
    BY <2>1
<1> QED
  BY <1>1, <1>2

LEMMA TelegramKeeps ==
  ASSUME TelegramInv, TelegramCallback
  PROVE  TelegramInv'
<1> DEFINE fields == {"web_status", "tcp_blocking", "http_blocking"}
<1>1. PICK m \in Running(TelegramUrls(stage)), r \in telegram_result :
        /\ Record(m, r)
        /\ IF IsLast(m)
           THEN /\ entry' = TelegramStarts(TelegramTells(entry, r))
                /\ Begin(TelegramNext,
                         IF stage = "endpoints" THEN {} ELSE Elements(TelegramUrls(TelegramNext)))
           ELSE StillWaiting(m) /\ entry' = TelegramTells(entry, r)
  BY DEF TelegramCallback
<1>2. PICK of : of = Elements(TelegramUrls(stage))
  OBVIOUS
<1>3. stage \in {"web", "tcp", "endpoints"} /\ m \in waiting
  BY <1>1 DEF telegram_result, TelegramInv, TelegramStages, Running
<1>4. waiting \subseteq of /\ (\A u \in of : u \in DOMAIN results <=> u \notin waiting)
  BY <1>2, <1>3, TelegramUrlIsOf
  DEF TelegramInv, TelegramStages, CalledBack, WebUrls, TcpUrls, EndpointUrls
<1>5. /\ m \in of /\ m \notin DOMAIN results
      /\ DOMAIN results' = DOMAIN results \cup {m}
      /\ m \in WebUrls <=> stage = "web"
      /\ m \in TcpUrls <=> stage = "tcp"
      /\ m \in EndpointUrls <=> stage = "endpoints"
  BY <1>1, <1>2, <1>3, <1>4, Recorded, TelegramUrlIsOf DEF WebUrls, TcpUrls, EndpointUrls
<1>6. /\ waiting' = waiting \ {m} /\ stage' = stage /\ entry' = TelegramTells(entry, r)
      \/ /\ waiting = {m} /\ entry' = TelegramStarts(TelegramTells(entry, r))
         /\ stage = "web" => stage' = "tcp" /\ waiting' = TcpUrls
         /\ stage = "tcp" => stage' = "endpoints" /\ waiting' = EndpointUrls
         /\ stage = "endpoints" => stage' = "done" /\ waiting' = {}
  BY <1>1, <1>3 DEF IsLast, StillWaiting, Begin, TelegramNext, TcpUrls, EndpointUrls
<1>7. TelegramStages'
  BY <1>2, <1>3, <1>4, <1>5, <1>6
  DEF TelegramInv, TelegramStages, CalledBack, WebUrls, TcpUrls, EndpointUrls
<1>8. /\ Some(TcpUrls, "ok")' <=> Some(TcpUrls, "ok") \/ (stage = "tcp" /\ r = "ok")
      /\ Some(EndpointUrls, "ok")' <=> Some(EndpointUrls, "ok") \/ (stage = "endpoints" /\ r = "ok")
  <2> PICK tcps, ends : tcps = TcpUrls /\ ends = EndpointUrls
    OBVIOUS
  <2>1. /\ Some(tcps, "ok")' <=> Some(tcps, "ok") \/ (m \in tcps /\ r = "ok")
        /\ Some(ends, "ok")' <=> Some(ends, "ok") \/ (m \in ends /\ r = "ok")
    BY <1>1, <1>5, SomeRecorded
  <2> QED
    BY <1>5, <2>1 DEF TcpUrls, EndpointUrls, TelegramUrls
<1>9. (\A u \in WebUrls : u \in DOMAIN results' => results'[u] = "ok") <=>
        /\ \A u \in WebUrls : u \in DOMAIN results => results[u] = "ok"
        /\ stage = "web" => r = "ok"
  BY <1>1, <1>5, Recorded
<1>10. /\ stage = "web" => ~Some(TcpUrls, "ok") /\ ~Some(EndpointUrls, "ok")
       /\ stage = "tcp" => ~Some(EndpointUrls, "ok")
  BY TelegramUrlIsOf DEF TelegramInv, TelegramStages, CalledBack, WebUrls, TcpUrls, EndpointUrls, Some
<1>11. /\ entry' = [field \in fields |-> entry'[field]]
       /\ entry'.web_status = (IF stage = "web" /\ r # "ok" THEN "blocked" ELSE entry.web_status)
       /\ entry'.tcp_blocking =
            (IF stage = "web" /\ stage' = "tcp" THEN "yes"
             ELSE IF stage = "tcp" /\ r = "ok" THEN "no" ELSE entry.tcp_blocking)
       /\ entry'.http_blocking =
            (IF stage = "tcp" /\ stage' = "endpoints" THEN "yes"
             ELSE IF stage = "endpoints" /\ r = "ok" THEN "no" ELSE entry.http_blocking)
  <2>1. /\ TelegramTells(entry, r) = [field \in fields |-> TelegramTells(entry, r)[field]]
        /\ TelegramTells(entry, r).web_status =
             (IF stage = "web" /\ r # "ok" THEN "blocked" ELSE entry.web_status)
        /\ TelegramTells(entry, r).tcp_blocking =
             (IF stage = "tcp" /\ r = "ok" THEN "no" ELSE entry.tcp_blocking)
        /\ TelegramTells(entry, r).http_blocking =
             (IF stage = "endpoints" /\ r = "ok" THEN "no" ELSE entry.http_blocking)
    BY <1>3 DEF TelegramTells, TelegramInv, Shape
  <2> HIDE DEF fields
  <2>2. CASE entry' = TelegramTells(entry, r) /\ stage' = stage
    BY <1>3, <2>1, <2>2
  <2>3. CASE /\ entry' = TelegramStarts(TelegramTells(entry, r))
             /\ stage = "web" => stage' = "tcp"
             /\ stage = "tcp" => stage' = "endpoints"
             /\ stage = "endpoints" => stage' = "done"
    BY <1>3, <2>1, <2>3 DEF TelegramStarts, fields
  <2> QED
    BY <1>6, <2>2, <2>3
<1>12. /\ entry'.web_status \in {"ok", "blocked"}
       /\ entry'.web_status = "ok" <=>
            \A u \in WebUrls' : u \in DOMAIN results' => results'[u] = "ok"
  BY <1>9, <1>11 DEF TelegramInv, WebUrls, TelegramUrls
<1>13. /\ stage' # "web" => entry'.tcp_blocking = YesIf(~Some(TcpUrls, "ok"))'
       /\ stage' \in {"endpoints", "done"} => entry'.http_blocking = YesIf(~Some(EndpointUrls, "ok"))'
  BY <1>3, <1>6, <1>8, <1>10, <1>11 DEF TelegramInv, YesIf
<1> QED
  BY <1>7, <1>11, <1>12, <1>13 DEF TelegramInv, Shape

LEMMA TelegramBegins == TelegramInit => TelegramInv
  BY DEF TelegramInit, TestInit, TelegramInv, Shape, TelegramStages, CalledBack, WebUrls, TcpUrls,
         EndpointUrls

LEMMA TelegramFollows ==
  ASSUME TelegramInv, stage = "done"
  PROVE  TelegramVerdict
<1>1. /\ Seen(TcpUrls, "ok") = {} <=> ~Some(TcpUrls, "ok")
      /\ Seen(EndpointUrls, "ok") = {} <=> ~Some(EndpointUrls, "ok")
  BY DEF Seen, Some
<1>2. Seen(WebUrls, "ok") = WebUrls <=> \A m \in WebUrls : m \in DOMAIN results => results[m] = "ok"
  BY DEF Seen, TelegramInv, TelegramStages
<1> QED
  BY <1>1, <1>2 DEF TelegramInv, TelegramVerdict, WebUrls, TcpUrls, EndpointUrls, YesIf

-----------------------------------------------------------------------------
(* Facebook.                                                               *)

LEMMA ServiceSocket ==
  ASSUME NEW ips, NEW socket \in FacebookSockets(ips)
  PROVE  /\ \E s \in ServiceSet \ {"stun"} : \E ip \in ips[s] : socket = <<s, ip>>
         /\ socket \notin Queries(ServiceSet)
<1>1. PICK s \in ServiceSet \ {"stun"} : socket \in {s} \X ips[s]
  BY DEF FacebookSockets
<1>2. PICK ip \in ips[s] : socket = <<s, ip>>
  BY <1>1
<1>3. s # "dns"
  BY <1>1, MessengersConstants DEF ServiceSet
<1> QED
  BY <1>1, <1>2, <1>3 DEF Queries

LEMMA SocketOfService ==
  ASSUME NEW ips, NEW s \in ServiceSet \ {"stun"}, NEW ip \in ips[s]
  PROVE  <<s, ip>> \in FacebookSockets(ips)
<1>1. <<s, ip>> \in {s} \X ips[s]
  OBVIOUS
<1> QED
  BY <1>1 DEF FacebookSockets

LEMMA FacebookDnsKeeps ==
  ASSUME FacebookInv, FacebookDnsCallback
  PROVE  FacebookInv'
<1> DEFINE fields == {"reachable", "dns_consistent", "dns_blocking", "tcp_blocking"}
<1>1. PICK q \in waiting, addresses \in SUBSET IPs :
        IF IsLast(q) THEN StartFacebookTcp(q, addresses)
        ELSE Record(q, addresses) /\ StillWaiting(q) /\ UNCHANGED entry
  BY DEF FacebookDnsCallback
<1>2. /\ stage = "dns" /\ CalledBack({}, Queries(ServiceSet)) /\ q \in Queries(ServiceSet)
      /\ q \notin DOMAIN results
  BY <1>1 DEF FacebookDnsCallback, FacebookInv, FacebookStages, CalledBack
<1>3. CASE ~IsLast(q)
  <2>1. stage' = "dns" /\ entry' = entry /\ waiting' = waiting \ {q} /\ DOMAIN results' = DOMAIN results \cup {q}
    BY <1>1, <1>2, <1>3, Recorded DEF StillWaiting
  <2> QED
    BY <1>2, <2>1 DEF FacebookInv, FacebookStages, CalledBack, Shape
<1>4. CASE IsLast(q)
  <2> PICK ips : ips = Found(ServiceSet, q, addresses)
    OBVIOUS
  <2> DEFINE sockets == FacebookSockets(ips)
             started == StartedEntry(ips)
  <2>1. PICK atOnce \in SUBSET sockets :
          /\ CASE sockets = {} -> Begin("done", {}) /\ UNCHANGED entry
               [] sockets # {} /\ atOnce # sockets ->
                    Begin("tcp", sockets \ atOnce) /\ entry' = started
               [] sockets # {} /\ atOnce = sockets /\ Unset(sockets) # {} ->
                    Begin("thrown", {}) /\ UNCHANGED entry
               [] OTHER ->
                    /\ Begin("closing", {})
                    /\ entry' = [started EXCEPT !.tcp_blocking = FacebookTcpBlocking(started)]
          /\ results' = [m \in atOnce \cup {q} \cup DOMAIN results |->
                           CASE m \in atOnce -> "failed"
                             [] m = q -> addresses
                             [] OTHER -> results[m]]
    BY <1>1, <1>4 DEF StartFacebookTcp
  <2> HIDE DEF sockets, started
  <2>2. \A socket \in sockets : socket \notin Queries(ServiceSet)
    BY ServiceSocket DEF sockets
  <2>3. DOMAIN results' = Queries(ServiceSet) \cup atOnce
    BY <1>2, <1>4, <2>1 DEF CalledBack, IsLast
  <2>4. ASSUME NEW socket \in atOnce PROVE results'[socket] = "failed"
    <3>1. results' = [m \in atOnce \cup {q} \cup DOMAIN results |->
                        CASE m \in atOnce -> "failed"
                          [] m = q -> addresses
                          [] OTHER -> results[m]]
      BY <2>1
    <3>2. socket # q
      BY <1>2, <2>2
    <3> QED
      BY <3>1, <3>2
  <2>5. ips = [s \in ServiceSet |-> ips[s]] /\ \A s \in ServiceSet : results'[<<"dns", s>>] = ips[s]
    <3>1. ASSUME NEW s \in ServiceSet PROVE results'[<<"dns", s>>] = ips[s]
      <4>1. <<"dns", s>> \in Queries(ServiceSet) /\ <<"dns", s>> \notin atOnce
        BY <2>2 DEF Queries
      <4>2. CASE q = <<"dns", s>>
        BY <2>1, <4>1, <4>2 DEF Found
      <4>3. CASE q # <<"dns", s>>
        BY <1>2, <1>4, <2>1, <4>1, <4>3 DEF Found, CalledBack, IsLast
      <4> QED
        BY <4>2, <4>3
    <3> QED
      BY <3>1 DEF Found
  <2>6. Ips' = ips /\ ServiceSockets' = sockets
    BY <2>5 DEF Ips, ServiceSockets, Addresses, sockets
  <2>7. CASE sockets = {}
    BY <1>2, <2>1, <2>3, <2>6, <2>7 DEF Begin, FacebookInv, FacebookStages, Shape
  <2>8. /\ started = [field \in fields |-> started[field]]
        /\ started.reachable = [s \in ServiceSet |-> started.reachable[s]]
        /\ \A s \in ServiceSet \ {"stun"} : started.reachable[s] # "yes"
        /\ started.dns_consistent = [s \in ServiceSet |-> YesIf(ips[s] \cap FacebookIPs # {})]
        /\ started.dns_blocking = YesIf(\E s \in ServiceSet : ips[s] \cap FacebookIPs = {})
    BY DEF started, StartedEntry, YesIf
  <2>9. \A s : ~Some(Ours(s), "ok")'
    BY <2>2, <2>3, <2>4, <2>6 DEF Some, Ours
  <2>10. CASE sockets # {} /\ atOnce # sockets
    <3>1. stage' = "tcp" /\ waiting' = sockets \ atOnce /\ entry' = started
      BY <2>1, <2>10 DEF Begin
    <3>2. FacebookStages'
      BY <2>3, <2>6, <3>1 DEF FacebookStages, CalledBack
    <3>3. FacebookSays'
      BY <2>6, <2>8, <2>9, <3>1 DEF FacebookSays
    <3> QED
      BY <2>6, <2>8, <2>10, <3>1, <3>2, <3>3 DEF FacebookInv, Shape
  <2>11. CASE sockets # {} /\ atOnce = sockets /\ Unset(sockets) # {}
    <3>1. stage' = "thrown" /\ entry' = entry
      BY <2>1, <2>11 DEF Begin
    <3> QED
      BY <3>1 DEF FacebookInv, FacebookStages, Shape
  <2>12. CASE sockets # {} /\ atOnce = sockets /\ Unset(sockets) = {}
    <3>1. /\ stage' = "closing"
          /\ entry' = [started EXCEPT !.tcp_blocking = FacebookTcpBlocking(started)]
      BY <2>1, <2>12 DEF Begin
    <3>2. FacebookStages'
      BY <2>3, <2>6, <2>12, <3>1 DEF FacebookStages
    <3>3. /\ entry' = [field \in fields |-> entry'[field]]
          /\ entry'.reachable = started.reachable /\ entry'.dns_consistent = started.dns_consistent
          /\ entry'.dns_blocking = started.dns_blocking
          /\ entry'.tcp_blocking = FacebookTcpBlocking(started)
      BY <2>8, <3>1
    <3>4. FacebookTcpBlocking(entry') = FacebookTcpBlocking(started)
      BY <3>3 DEF FacebookTcpBlocking
    <3>5. FacebookSays'
      BY <2>6, <2>8, <2>9, <3>3, <3>4 DEF FacebookSays
    <3> QED
      BY <2>6, <2>12, <3>1, <3>2, <3>3, <3>5 DEF FacebookInv, Shape
  <2> QED
    BY <2>7, <2>10, <2>11, <2>12
<1> QED
  BY <1>3, <1>4

LEMMA FacebookTcpKeeps ==
  ASSUME FacebookInv, FacebookTcpCallback
  PROVE  FacebookInv'
<1> DEFINE fields == {"reachable", "dns_consistent", "dns_blocking", "tcp_blocking"}
<1>1. PICK socket \in waiting, r \in tcp_connect :
        /\ Record(socket, r)
        /\ IF IsLast(socket)
           THEN /\ Begin("closing", {socket})
                /\ entry' = [Reach(entry, socket, r) EXCEPT
                               !.tcp_blocking = FacebookTcpBlocking(Reach(entry, socket, r))]
           ELSE StillWaiting(socket) /\ entry' = Reach(entry, socket, r)
  BY DEF FacebookTcpCallback
<1> PICK ips : ips = Ips
  OBVIOUS
<1> PICK sockets : sockets = FacebookSockets(ips)
  OBVIOUS
<1> DEFINE reached == Reach(entry, socket, r)
<1>2. /\ stage = "tcp" /\ CalledBack(Queries(ServiceSet), sockets) /\ FacebookSays /\ sockets # {}
      /\ socket \in sockets /\ socket \notin Queries(ServiceSet) /\ socket \notin DOMAIN results
      /\ DOMAIN results' = DOMAIN results \cup {socket}
  <2>1. stage = "tcp" /\ CalledBack(Queries(ServiceSet), sockets) /\ FacebookSays /\ sockets # {}
    BY DEF FacebookTcpCallback, FacebookInv, FacebookStages, ServiceSockets
  <2>2. socket \in sockets /\ socket \notin Queries(ServiceSet)
    BY <2>1, ServiceSocket DEF CalledBack
  <2> QED
    BY <1>1, <2>1, <2>2, Recorded DEF CalledBack
<1>3. Ips' = ips /\ ServiceSockets' = sockets
  <2>1. ASSUME NEW s \in ServiceSet PROVE results'[<<"dns", s>>] = results[<<"dns", s>>]
    <3>1. <<"dns", s>> \in Queries(ServiceSet)
      BY DEF Queries
    <3> QED
      BY <1>1, <1>2, <3>1, Recorded DEF CalledBack
  <2> QED
    BY <2>1 DEF Ips, Addresses, ServiceSockets
<1>4. ASSUME NEW s
      PROVE  Some(Ours(s), "ok")' <=>
               Some(Ours(s), "ok") \/ (s = socket[1] /\ socket[2] \in FacebookIPs /\ r = "ok")
  <2> PICK ours : ours = Ours(s)
    OBVIOUS
  <2>1. Some(ours, "ok")' <=> Some(ours, "ok") \/ (socket \in ours /\ r = "ok")
    BY <1>1, <1>2, SomeRecorded
  <2>2. Ours(s)' = ours
    BY <1>3 DEF Ours, ServiceSockets
  <2>3. socket \in ours <=> s = socket[1] /\ socket[2] \in FacebookIPs
    BY <1>2 DEF Ours, ServiceSockets
  <2> QED
    BY <2>1, <2>2, <2>3 DEF Some
<1>5. /\ waiting' = waiting \ {socket} /\ stage' = "tcp" /\ entry' = reached
      \/ /\ waiting = {socket} /\ stage' = "closing"
         /\ entry' = [reached EXCEPT !.tcp_blocking = FacebookTcpBlocking(reached)]
  BY <1>1, <1>2 DEF IsLast, Begin, StillWaiting
<1>6. FacebookStages'
  BY <1>2, <1>3, <1>5 DEF FacebookStages, CalledBack
<1>7. /\ reached = [field \in fields |-> reached[field]]
      /\ reached.reachable = [s \in ServiceSet |-> reached.reachable[s]]
      /\ \A s \in ServiceSet :
           reached.reachable[s] = "yes" <=>
             entry.reachable[s] = "yes"
               \/ (s = socket[1] /\ socket[2] \in FacebookIPs /\ r = "ok")
      /\ reached.dns_consistent = entry.dns_consistent
      /\ reached.dns_blocking = entry.dns_blocking
  BY <1>2 DEF Reach, FacebookInv, Shape, FacebookSays
<1> HIDE DEF reached
<1>8. /\ entry' = [field \in fields |-> entry'[field]]
      /\ entry'.reachable = reached.reachable /\ entry'.dns_consistent = reached.dns_consistent
      /\ entry'.dns_blocking = reached.dns_blocking
      /\ stage' # "tcp" => entry'.tcp_blocking = FacebookTcpBlocking(reached)
  BY <1>5, <1>7
<1>9. FacebookTcpBlocking(entry') = FacebookTcpBlocking(reached)
  BY <1>8 DEF FacebookTcpBlocking
<1>10. FacebookSays'
  BY <1>2, <1>3, <1>4, <1>7, <1>8, <1>9 DEF FacebookSays
<1> QED
  BY <1>2, <1>3, <1>5, <1>6, <1>8, <1>10 DEF FacebookInv, Shape

LEMMA FacebookClosedKeeps ==
  ASSUME FacebookInv, FacebookClosed
  PROVE  FacebookInv'
<1>1. stage = "closing" /\ stage' = "done" /\ UNCHANGED <<results, entry>>
  BY DEF FacebookClosed, Begin
<1>2. Ips' = Ips /\ ServiceSockets' = ServiceSockets
  BY <1>1 DEF Ips, Addresses, ServiceSockets
<1>3. FacebookTcpBlocking(entry)' = FacebookTcpBlocking(entry)
  BY <1>1
<1>4. \A s : Some(Ours(s), "ok")' <=> Some(Ours(s), "ok")
  BY <1>1, <1>2 DEF Some, Ours
<1> QED
  BY <1>1, <1>2, <1>3, <1>4 DEF FacebookInv, Shape, FacebookStages, FacebookSays

LEMMA FacebookBegins == FacebookInit => FacebookInv
  BY DEF FacebookInit, TestInit, FacebookInv, Shape, FacebookStages, CalledBack

LEMMA FacebookFollows ==
  ASSUME FacebookInv, stage = "done"
  PROVE  FacebookVerdict
<1>1. CASE ServiceSockets = {}
  BY <1>1 DEF FacebookInv, FacebookVerdict, Ips, ServiceSockets
<1>2. CASE ServiceSockets # {}
  <2>1. FacebookSays
    BY <1>2 DEF FacebookInv
  <2>2. ASSUME NEW s \in ServiceSet
        PROVE  /\ Ours(s) # {} <=> s # "stun" /\ Ips[s] \cap FacebookIPs # {}
               /\ Seen(Ours(s), "ok") = {} <=> ~Some(Ours(s), "ok")
    <3>1. ASSUME NEW socket \in Ours(s) PROVE s # "stun" /\ Ips[s] \cap FacebookIPs # {}
      <4>1. socket \in FacebookSockets(Ips) /\ socket[1] = s /\ socket[2] \in FacebookIPs
        BY DEF Ours, ServiceSockets
      <4>2. PICK t \in ServiceSet \ {"stun"} : \E ip \in Ips[t] : socket = <<t, ip>>
        BY <4>1, ServiceSocket
      <4> QED
        BY <4>1, <4>2
    <3>2. ASSUME s # "stun", NEW ip \in Ips[s] \cap FacebookIPs PROVE Ours(s) # {}
      <4>1. <<s, ip>> \in FacebookSockets(Ips)
        BY <3>2, SocketOfService
      <4> QED
        BY <4>1 DEF Ours, ServiceSockets
    <3>3. Seen(Ours(s), "ok") = {} <=> ~Some(Ours(s), "ok")
      BY DEF Seen, Some
    <3> QED
      BY <3>1, <3>2, <3>3
  <2>3. (\E s \in ServiceSet \ {"stun"} : entry.dns_consistent[s] = "yes" /\ entry.reachable[s] # "yes")
          <=> \E s \in ServiceSet : Ours(s) # {} /\ Seen(Ours(s), "ok") = {}
    BY <2>1, <2>2 DEF FacebookSays, YesIf
  <2>4. entry.tcp_blocking = YesIf(\E s \in ServiceSet : Ours(s) # {} /\ Seen(Ours(s), "ok") = {})
    BY <2>1, <2>3 DEF FacebookSays, FacebookTcpBlocking, YesIf
  <2> QED
    BY <1>2, <2>1, <2>4 DEF FacebookVerdict, FacebookSays, Ours, Ips, ServiceSockets
<1> QED
  BY <1>1, <1>2

-----------------------------------------------------------------------------
(* Captive portals.                                                        *)

LEMMA VendedIs ==
  /\ \A m \in Vended : m = <<"vendor", m[2]>> /\ m[2] \in Elements(Vendors)
  /\ \A v \in Elements(Vendors) : <<"vendor", v>> \in Vended
  /\ \A m \in Randoms \cup {<<"ncsi">>} : m \notin Vended
  /\ <<"ncsi">> \notin Randoms
<1>1. ASSUME NEW m \in Vended PROVE m = <<"vendor", m[2]>> /\ m[2] \in Elements(Vendors)
  <2>1. PICK i \in DOMAIN Vendors : m = <<"vendor", Vendors[i]>>
    BY DEF Vended, VendorTests, Elements
  <2> QED
    BY <2>1 DEF Elements
<1>2. ASSUME NEW v \in Elements(Vendors) PROVE <<"vendor", v>> \in Vended
  <2>1. PICK i \in DOMAIN Vendors : v = Vendors[i]
    BY DEF Elements
  <2>2. i \in DOMAIN VendorTests /\ VendorTests[i] = <<"vendor", v>>
    BY <2>1 DEF VendorTests
  <2> QED
    BY <2>2 DEF Vended, Elements
<1>3. ASSUME NEW m \in Randoms \cup {<<"ncsi">>} PROVE m \notin Vended
  BY <1>1 DEF Randoms
<1>4. <<"ncsi">> \notin Randoms
  BY DEF Randoms
<1> QED
  BY <1>1, <1>2, <1>3, <1>4

LEMMA VendorKeeps ==
  ASSUME CaptiveInv, VendorCallback
  PROVE  CaptiveInv'
<1>1. PICK m \in Running(VendorTests), r \in {"expected", "other", "failed"} :
        /\ Record(m, r)
        /\ entry' = [entry EXCEPT !.vendor_tests =
             [v \in DOMAIN @ \cup {m[2]} |->
                IF v # m[2] THEN @[v]
                ELSE IF r = "failed" THEN "failure" ELSE TrueIf(r = "expected")]]
        /\ IF IsLast(m) THEN Begin("ncsi", {<<"ncsi">>}) ELSE StillWaiting(m)
  BY DEF VendorCallback
<1>2. /\ stage = "vendors" /\ CalledBack({}, Vended)
      /\ m \in waiting /\ m \in Vended /\ m \notin DOMAIN results
      /\ DOMAIN results' = DOMAIN results \cup {m}
  BY <1>1, Recorded DEF VendorCallback, CaptiveInv, CaptiveStages, CalledBack, Running
<1>3. CaptiveStages' /\ stage' \in {"vendors", "ncsi"}
  BY <1>1, <1>2 DEF CaptiveStages, CalledBack, IsLast, Begin, StillWaiting, Vended, VendorTests
<1>4. /\ entry' = [field \in {"vendor_tests", "ms_dns", "google_dns"} |-> entry'[field]]
      /\ DOMAIN entry'.vendor_tests = DOMAIN entry.vendor_tests \cup {m[2]}
      /\ \A v \in DOMAIN entry.vendor_tests :
           v # m[2] => entry'.vendor_tests[v] = entry.vendor_tests[v]
      /\ entry'.vendor_tests[m[2]] = "true" <=> r = "expected"
  BY <1>1 DEF CaptiveInv, Shape, TrueIf
<1>5. DOMAIN entry'.vendor_tests = {v \in Elements(Vendors) : <<"vendor", v>> \in DOMAIN results'}
  BY <1>2, <1>4, VendedIs DEF CaptiveInv
<1>6. ASSUME NEW v \in DOMAIN entry'.vendor_tests
      PROVE  entry'.vendor_tests[v] = "true" <=> results'[<<"vendor", v>>] = "expected"
  <2>1. CASE v = m[2]
    BY <1>1, <1>2, <1>4, <2>1, VendedIs, Recorded
  <2>2. CASE v # m[2]
    <3>1. <<"vendor", v>> \in DOMAIN results /\ <<"vendor", v>> # m
      BY <1>4, <2>2 DEF CaptiveInv
    <3>2. results'[<<"vendor", v>>] = results[<<"vendor", v>>]
      BY <1>1, <3>1, Recorded
    <3>3. v \in DOMAIN entry.vendor_tests /\ entry'.vendor_tests[v] = entry.vendor_tests[v]
      BY <1>4, <2>2
    <3> QED
      BY <3>2, <3>3 DEF CaptiveInv
  <2> QED
    BY <2>1, <2>2
<1> QED
  BY <1>3, <1>4, <1>5, <1>6 DEF CaptiveInv, Shape

\* What the other callbacks record leaves the verdicts on the vendors alone.
LEMMA VendorsUnchanged ==
  ASSUME CaptiveInv, NEW m, NEW r, Record(m, r), m \notin Vended,
         entry'.vendor_tests = entry.vendor_tests
  PROVE  /\ DOMAIN entry'.vendor_tests = {v \in Elements(Vendors) : <<"vendor", v>> \in DOMAIN results'}
         /\ \A v \in DOMAIN entry'.vendor_tests :
              entry'.vendor_tests[v] = "true" <=> results'[<<"vendor", v>>] = "expected"
<1>1. ASSUME NEW v \in Elements(Vendors) PROVE <<"vendor", v>> # m
  BY VendedIs
<1>2. /\ DOMAIN entry.vendor_tests = {v \in Elements(Vendors) : <<"vendor", v>> \in DOMAIN results}
      /\ \A v \in DOMAIN entry.vendor_tests :
           entry.vendor_tests[v] = "true" <=> results[<<"vendor", v>>] = "expected"
  BY DEF CaptiveInv
<1>3. /\ DOMAIN results' = DOMAIN results \cup {m}
      /\ \A k \in DOMAIN results : k # m => results'[k] = results[k]
  BY Recorded
<1>4. DOMAIN entry'.vendor_tests = {v \in Elements(Vendors) : <<"vendor", v>> \in DOMAIN results'}
  BY <1>1, <1>2, <1>3
<1>5. ASSUME NEW v \in DOMAIN entry'.vendor_tests
      PROVE  entry'.vendor_tests[v] = "true" <=> results'[<<"vendor", v>>] = "expected"
  <2>1. results'[<<"vendor", v>>] = results[<<"vendor", v>>]
    BY <1>1, <1>2, <1>3
  <2> QED
    BY <1>2, <2>1
<1> QED
  BY <1>4, <1>5

LEMMA NcsiKeeps ==
  ASSUME CaptiveInv, NcsiCallback
  PROVE  CaptiveInv'
<1>1. PICK r : /\ Record(<<"ncsi">>, r)
               /\ entry' = [entry EXCEPT !.ms_dns = r, !.google_dns = "true"]
               /\ Begin("random", Randoms)
  BY DEF NcsiCallback, Randoms
<1>2. stage = "ncsi" /\ DOMAIN results' = Vended \cup {<<"ncsi">>}
  BY <1>1, Recorded DEF NcsiCallback, CaptiveInv, CaptiveStages
<1>3. CaptiveStages' /\ stage' = "random"
  BY <1>1, <1>2 DEF CaptiveStages, CalledBack, Begin, Vended, VendorTests, Randoms
<1>4. /\ entry' = [field \in {"vendor_tests", "ms_dns", "google_dns"} |-> entry'[field]]
      /\ entry'.vendor_tests = entry.vendor_tests /\ entry'.google_dns = "true"
  BY <1>1 DEF CaptiveInv, Shape
<1>5. ~Some(Randoms, "address")'
  BY <1>2, VendedIs DEF Some, Randoms
<1>6. <<"ncsi">> \notin Vended
  BY VendedIs
<1> QED
  BY <1>1, <1>3, <1>4, <1>5, <1>6, VendorsUnchanged DEF CaptiveInv, Shape, TrueIf

LEMMA RandomKeeps ==
  ASSUME CaptiveInv, RandomCallback
  PROVE  CaptiveInv'
<1>1. PICK m \in waiting, r \in {"address", "none"} :
        /\ Record(m, r) /\ entry' = Resolved(entry, r)
        /\ IF IsLast(m) THEN Begin("done", {}) ELSE StillWaiting(m)
  BY DEF RandomCallback
<1>2. /\ stage = "random" /\ CalledBack(Vended \cup {<<"ncsi">>}, Randoms)
      /\ m \in Randoms /\ m \notin Vended /\ m \notin DOMAIN results
      /\ DOMAIN results' = DOMAIN results \cup {m}
  BY <1>1, VendedIs, Recorded DEF RandomCallback, CaptiveInv, CaptiveStages, CalledBack
<1>3. CaptiveStages' /\ stage' \in {"random", "done"}
  BY <1>1, <1>2 DEF CaptiveStages, CalledBack, IsLast, Begin, StillWaiting, Vended, VendorTests, Randoms
<1>4. /\ entry' = [field \in {"vendor_tests", "ms_dns", "google_dns"} |-> entry'[field]]
      /\ entry'.vendor_tests = entry.vendor_tests
      /\ entry'.google_dns = IF r = "address" THEN "false" ELSE entry.google_dns
  BY <1>1 DEF CaptiveInv, Shape, Resolved
<1>5. Some(Randoms, "address")' <=> Some(Randoms, "address") \/ r = "address"
  <2> PICK randoms : randoms = Randoms
    OBVIOUS
  <2>1. Some(randoms, "address")' <=> Some(randoms, "address") \/ (m \in randoms /\ r = "address")
    BY <1>1, <1>2, SomeRecorded
  <2> QED
    BY <1>2, <2>1 DEF Randoms
<1>6. entry'.google_dns = TrueIf(~Some(Randoms, "address"))'
  BY <1>2, <1>4, <1>5 DEF CaptiveInv, TrueIf
<1> QED
  BY <1>1, <1>2, <1>3, <1>4, <1>6, VendorsUnchanged DEF CaptiveInv, Shape

LEMMA CaptiveBegins == CaptiveInit => CaptiveInv
  BY DEF CaptiveInit, TestInit, CaptiveInv, Shape, CaptiveStages, CalledBack, Vended

LEMMA CaptiveFollows ==
  ASSUME CaptiveInv, stage = "done"
  PROVE  CaptiveVerdict
<1>1. DOMAIN entry.vendor_tests = Elements(Vendors)
  BY VendedIs DEF CaptiveInv, CaptiveStages
<1>2. Seen(Randoms, "address") = {} <=> ~Some(Randoms, "address")
  BY DEF Seen, Some
<1> QED
  BY <1>1, <1>2 DEF CaptiveInv, CaptiveVerdict, Randoms, TrueIf

-----------------------------------------------------------------------------
(* Invalid request lines.                                                  *)

LEMMA ElementsAppended ==
  ASSUME NEW S, NEW sequence \in Seq(S), NEW element
  PROVE  Elements(Append(sequence, element)) = Elements(sequence) \cup {element}
<1> DEFINE longer == Append(sequence, element)
<1>1. /\ DOMAIN longer = 1..Len(sequence) + 1 /\ DOMAIN sequence = 1..Len(sequence)
      /\ Len(sequence) \in Nat
      /\ longer[Len(sequence) + 1] = element
      /\ \A i \in 1..Len(sequence) : longer[i] = sequence[i]
  OBVIOUS
<1>2. ASSUME NEW i \in DOMAIN longer PROVE longer[i] \in Elements(sequence) \cup {element}
  BY <1>1 DEF Elements
<1>3. ASSUME NEW i \in DOMAIN sequence PROVE i \in DOMAIN longer /\ longer[i] = sequence[i]
  BY <1>1
<1>4. Len(sequence) + 1 \in DOMAIN longer
  BY <1>1
<1> HIDE DEF longer
<1> QED
  BY <1>1, <1>2, <1>3, <1>4 DEF Elements, longer

LEMMA SubtestsCounted ==
  IsFiniteSet(Subtests) /\ Cardinality(Subtests) = Cardinality(RequestLines)
<1> DEFINE line(i) == <<"line", i>>
<1>1. IsFiniteSet(RequestLines)
  BY MiddleboxConstants
<1>2. [i \in RequestLines |-> line(i)] \in Bijection(RequestLines, Subtests)
  <2> DEFINE lines == [i \in RequestLines |-> line(i)]
  <2>1. lines \in [RequestLines -> Subtests]
    BY DEF Subtests
  <2>2. \A i, j \in RequestLines : lines[i] = lines[j] => i = j
    OBVIOUS
  <2>3. \A k \in Subtests : \E i \in RequestLines : lines[i] = k
    BY DEF Subtests
  <2> HIDE DEF lines
  <2>4. lines \in Bijection(RequestLines, Subtests)
    BY <2>1, <2>2, <2>3 DEF Bijection, Injection, Surjection, IsInjective
  <2> QED
    BY <2>4 DEF lines
<1> QED
  BY <1>1, <1>2, FS_Bijection DEF ExistsBijection

\* A subtest that ends adds to the lists what it found.
LEMMA SubtestEnds ==
  ASSUME LinesInv, test.backend = "ok", UNCHANGED test,
         NEW m \in waiting, m \in DOMAIN results', DOMAIN results' = DOMAIN results \cup {m},
         \A k \in DOMAIN results : k # m => results'[k] = results[k],
         NEW tampering, NEW failure, handle_response(m, tampering, failure),
         \/ results'[m] = "failed" /\ tampering = "null" /\ failure = "failed"
         \/ results'[m] = "different" /\ tampering = "true" /\ failure = "null"
         \/ results'[m] = "same" /\ tampering = "false" /\ failure = "null"
  PROVE  LinesInv'
<1> DEFINE fields == {"failure", "tampering", "tampering_list", "failure_list"}
           heard == [entry EXCEPT !.tampering_list = Append(@, tampering),
                                 !.failure_list = Append(@, failure)]
           tamperings == Elements(entry.tampering_list)
           failures == Elements(entry.failure_list)
<1>1. /\ stage = "lines" /\ waiting \subseteq Subtests /\ m \in Subtests
      /\ entry.tampering = "null" /\ entry.failure = "none" /\ LinesSay
      /\ entry = [field \in fields |-> entry[field]]
      /\ entry.tampering_list \in Seq({"true", "false", "null"})
      /\ entry.failure_list \in Seq({"failed", "null"})
      /\ Len(entry.tampering_list) = Cardinality(Ended)
  BY DEF LinesInv, Shape
<1>2. /\ heard = [field \in fields |-> heard[field]]
      /\ heard.tampering_list = Append(entry.tampering_list, tampering)
      /\ heard.failure_list = Append(entry.failure_list, failure)
      /\ heard.tampering = "null" /\ heard.failure = "none"
  BY <1>1
<1>3. /\ Elements(heard.tampering_list) = tamperings \cup {tampering}
      /\ Elements(heard.failure_list) = failures \cup {failure}
      /\ heard.tampering_list \in Seq({"true", "false", "null"})
      /\ heard.failure_list \in Seq({"failed", "null"})
  <2>1. tampering \in {"true", "false", "null"} /\ failure \in {"failed", "null"}
    OBVIOUS
  <2> QED
    BY <1>1, <1>2, <2>1, ElementsAppended
<1> HIDE DEF heard, tamperings, failures
<1>4. /\ handle_response(m, tampering, failure) <=>
           IF IsLast(m) THEN Begin("done", {}) /\ entry' = Merge(heard)
           ELSE StillWaiting(m) /\ entry' = heard
  BY DEF handle_response, heard
<1>5. waiting' = waiting \ {m} /\ Ended' = Ended \cup {m} /\ m \notin Ended
  BY <1>1, <1>4 DEF IsLast, Begin, StillWaiting, Ended
<1>6. Len(heard.tampering_list) = Cardinality(Ended')
  <2>1. IsFiniteSet(Ended)
    BY SubtestsCounted, FS_Subset DEF Ended
  <2>2. Cardinality(Ended') = Cardinality(Ended) + 1
    BY <1>5, <2>1, FS_AddElement
  <2> QED
    BY <1>1, <1>2, <2>2
<1>7. /\ \A k \in Ended : k \in DOMAIN results' /\ results'[k] = results[k]
      /\ \A k \in Ended' : k \in DOMAIN results' /\ results'[k] \in {"same", "different", "failed"}
      /\ \A k \in waiting' : k \in DOMAIN results' => results'[k] \in {"sent", "same", "different"}
  BY <1>1, <1>5 DEF LinesSay
<1>8. /\ "true" \in Elements(heard.tampering_list) <=> \E k \in Ended' : results'[k] = "different"
      /\ "false" \in Elements(heard.tampering_list) <=> \E k \in Ended' : results'[k] = "same"
      /\ "failed" \in Elements(heard.failure_list) <=> \E k \in Ended' : results'[k] = "failed"
  BY <1>1, <1>3, <1>5, <1>7 DEF LinesSay, tamperings, failures
<1>9. CASE waiting # {m}
  <2>1. stage' = "lines" /\ entry' = heard
    BY <1>1, <1>4, <1>9 DEF IsLast, StillWaiting
  <2>2. LinesSay'
    BY <1>7, <1>8, <2>1 DEF LinesSay
  <2> QED
    BY <1>1, <1>2, <1>3, <1>5, <1>6, <2>1, <2>2 DEF LinesInv, Shape
<1>10. CASE waiting = {m}
  <2>1. stage' = "done" /\ waiting' = {} /\ entry' = Merge(heard) /\ Ended' = Subtests
    BY <1>4, <1>5, <1>10 DEF IsLast, Begin, Ended
  <2>2. /\ entry' = [field \in fields |-> entry'[field]]
        /\ entry'.tampering_list = heard.tampering_list /\ entry'.failure_list = heard.failure_list
        /\ entry'.failure = IF "failed" \in Elements(heard.failure_list) THEN "ParallelOperation"
                            ELSE "none"
        /\ entry'.tampering = IF "true" \in Elements(heard.tampering_list) THEN "true"
                              ELSE IF "false" \in Elements(heard.tampering_list) THEN "false"
                              ELSE "null"
    BY <1>2, <2>1 DEF Merge
  <2>3. LinesSay'
    BY <1>7, <1>8, <2>2 DEF LinesSay
  <2>4. Cardinality(Ended') = Cardinality(RequestLines)
    BY <2>1, SubtestsCounted
  <2>5. \A r : Seen(Subtests, r)' = {k \in Subtests : results'[k] = r}
    BY <1>7, <2>1 DEF Seen
  <2>6. Len(entry.tampering_list)' = Cardinality(RequestLines)
    BY <1>6, <2>2, <2>4
  <2>7. (entry.tampering = "true" <=> Seen(Subtests, "different") # {})'
    BY <1>8, <2>1, <2>2, <2>5
  <2>8. (entry.tampering = "null" <=> Seen(Subtests, "failed") = Subtests)'
    <3>1. entry'.tampering = "null" <=> \A k \in Subtests : results'[k] = "failed"
      BY <1>7, <1>8, <2>1, <2>2
    <3> QED
      BY <2>5, <3>1
  <2>9. (entry.failure = "none" <=> Seen(Subtests, "failed") = {})'
    BY <1>8, <2>1, <2>2, <2>5
  <2>10. LinesVerdict'
    BY <2>6, <2>7, <2>8, <2>9 DEF LinesVerdict
  <2> QED
    BY <1>1, <1>3, <1>6, <2>1, <2>2, <2>3, <2>10 DEF LinesInv, Shape
<1> QED
  BY <1>9, <1>10

LEMMA SubtestGoesOn ==
  ASSUME LinesInv, test.backend = "ok", UNCHANGED <<test, stage, waiting, entry>>,
         NEW m \in waiting, NEW r \in {"sent", "same", "different"}, Record(m, r)
  PROVE  LinesInv'
<1>1. stage = "lines" /\ LinesSay
  BY DEF LinesInv
<1>2. Ended' = Ended /\ m \notin Ended /\ m \in waiting'
  BY DEF Ended
<1>3. DOMAIN results' = DOMAIN results \cup {m} /\ results'[m] = r
      /\ \A k \in DOMAIN results : k # m => results'[k] = results[k]
  BY Recorded
<1>4. /\ \A k \in Ended : k \in DOMAIN results' /\ results'[k] = results[k]
      /\ \A k \in waiting' : k \in DOMAIN results' => results'[k] \in {"sent", "same", "different"}
  BY <1>1, <1>2, <1>3 DEF LinesSay
<1>5. LinesSay'
  BY <1>1, <1>2, <1>4 DEF LinesSay
<1> QED
  BY <1>1, <1>2, <1>5 DEF LinesInv, Shape

LEMMA LinesKeep ==
  ASSUME LinesInv, LineConnected \/ LineTimer \/ LineClosed
  PROVE  LinesInv'
<1>1. test.backend = "ok" /\ UNCHANGED test
  BY DEF LinesInv, LineConnected, LineTimer, LineClosed
<1>2. CASE LineConnected
  <2>1. PICK m \in waiting :
          \/ Record(m, "sent") /\ UNCHANGED <<stage, waiting, entry>>
          \/ Record(m, "failed") /\ handle_response(m, "null", "failed")
    BY <1>2 DEF LineConnected
  <2> QED
    BY <1>1, <2>1, SubtestGoesOn, SubtestEnds, Recorded
<1>3. CASE LineTimer
  <2>1. PICK m \in waiting, r \in {"same", "different"} : Record(m, r)
    BY <1>3 DEF LineTimer
  <2> QED
    BY <1>1, <1>3, <2>1, SubtestGoesOn DEF LineTimer
<1>4. CASE LineClosed
  <2>1. PICK m \in waiting :
          /\ Subtest(m) \in {"same", "different"}
          /\ handle_response(m, TrueIf(Subtest(m) = "different"), "null")
          /\ results' = results
    BY <1>4 DEF LineClosed
  <2>2. m \in DOMAIN results /\ Subtest(m) = results[m]
    BY <2>1 DEF Subtest
  <2>3. CASE results[m] = "same"
    <3>1. handle_response(m, "false", "null")
      BY <2>1, <2>2, <2>3 DEF TrueIf
    <3> QED
      BY <1>1, <2>1, <2>2, <2>3, <3>1, SubtestEnds
  <2>4. CASE results[m] = "different"
    <3>1. handle_response(m, "true", "null")
      BY <2>1, <2>2, <2>4 DEF TrueIf
    <3> QED
      BY <1>1, <2>1, <2>2, <2>4, <3>1, SubtestEnds
  <2> QED
    BY <2>1, <2>2, <2>3, <2>4
<1> QED
  BY <1>2, <1>3, <1>4

LEMMA LinesBegin == LinesInit => LinesInv
<1> SUFFICES ASSUME LinesInit PROVE LinesInv
  OBVIOUS
<1>1. Cardinality({}) = 0
  BY FS_EmptySet
<1>2. waiting = Subtests => Ended = {}
  BY DEF Ended
<1>3. /\ Shape({"failure", "tampering", "tampering_list", "failure_list"})
      /\ stage \in {"lines", "done"} /\ waiting \subseteq Subtests
      /\ test.backend # "ok" => waiting = {}
      /\ test.backend = "ok" => stage = "lines" /\ waiting = Subtests
      /\ results = << >> /\ entry.tampering_list = <<>> /\ entry.failure_list = <<>>
      /\ test.backend = "ok" => entry.tampering = "null" /\ entry.failure = "none"
  BY DEF LinesInit, TestInit, Shape
<1>4. /\ entry.tampering_list \in Seq({"true", "false", "null"})
      /\ entry.failure_list \in Seq({"failed", "null"})
      /\ Len(entry.tampering_list) = 0
      /\ Elements(entry.tampering_list) = {} /\ Elements(entry.failure_list) = {}
  BY <1>3 DEF Elements
<1>5. test.backend = "ok" => LinesSay
  BY <1>2, <1>3, <1>4 DEF LinesSay
<1> QED
  BY <1>1, <1>2, <1>3, <1>4, <1>5 DEF LinesInv

-----------------------------------------------------------------------------
(* Header fields.                                                          *)

LEMMA HeadersKeep ==
  ASSUME HeadersInv, HeadersCallback
  PROVE  HeadersInv'
<1>1. /\ stage = "request" /\ stage' = "done"
      /\ entry = [failure |-> "none", total |-> "null", request_line |-> "null",
                  diff |-> {}, field_name |-> "null"]
  BY DEF HeadersCallback, HeadersInv, Begin
<1>2. ASSUME NEW r \in http_request, NEW body \in Bodies,
             Record(<<"request">>, [result |-> r, body |-> body]),
             entry' = WithFailure(compare_headers_response(body), r)
      PROVE  HeadersVerdict'
  <2>1. results'[<<"request">>] = [result |-> r, body |-> body]
    BY <1>2, Recorded
  <2> DEFINE compared == compare_headers_response(body)
  <2>2. \/ body.kind \in {"empty", "not JSON", "not an object"}
        \/ body.kind = "object"
    <3>1. CASE body \in [kind : {"object"}, line : {"same", "other", "missing"}, keys : SUBSET HeaderNames]
      <4>1. body.kind \in {"object"}
        BY <3>1
      <4> QED
        BY <4>1
    <3>2. CASE body = [kind |-> "empty"]
      BY <3>2
    <3>3. CASE body = [kind |-> "not JSON"]
      BY <3>3
    <3>4. CASE body = [kind |-> "not an object"]
      BY <3>4
    <3> QED
      BY <3>1, <3>2, <3>3, <3>4 DEF Bodies
  <2>3. /\ compared = [field \in {"failure", "total", "request_line", "diff", "field_name"} |->
                         compared[field]]
        /\ compared.field_name # "null" => body.kind = "object"
        /\ compared.field_name = "false" => body.keys = SentHeaders
        /\ body.kind = "object" => compared.total = "false"
    <3>1. CASE body.kind = "object"
      BY <1>1, <2>2, <3>1 DEF compare_headers_response, TrueIf
    <3>2. CASE body.kind # "object"
      BY <1>1, <2>2, <3>2 DEF compare_headers_response
    <3> QED
      BY <3>1, <3>2
  <2>4. r = "failed" => entry'.failure # "none"
    BY <1>2, <2>3 DEF WithFailure
  <2>5. entry'.field_name = compared.field_name /\ entry'.total = compared.total
    BY <1>2, <2>3 DEF WithFailure
  <2> HIDE DEF compared
  <2> QED
    BY <2>1, <2>3, <2>4, <2>5 DEF HeadersVerdict
<1>3. ASSUME Record(<<"request">>, [result |-> "failed", body |-> [kind |-> "none"]]),
             entry' = WithFailure(entry, "failed")
      PROVE  HeadersVerdict'
  <2>1. results'[<<"request">>] = [result |-> "failed", body |-> [kind |-> "none"]]
    BY <1>3, Recorded
  <2> QED
    BY <1>1, <1>3, <2>1 DEF HeadersVerdict, WithFailure
<1>4. HeadersVerdict'
  BY <1>2, <1>3 DEF HeadersCallback
<1> QED
  BY <1>1, <1>4 DEF HeadersInv

LEMMA HeadersBegin == HeadersInit => HeadersInv
  BY DEF HeadersInit, TestInit, HeadersInv

-----------------------------------------------------------------------------
(* Web connectivity.                                                       *)

LEMMA ElementIn ==
  ASSUME NEW S, NEW sequence \in Seq(S), NEW i \in DOMAIN sequence
  PROVE  sequence[i] \in S
  OBVIOUS

LEMMA SocketsAre ==
  ASSUME NEW addresses
  PROVE  /\ \A socket \in Sockets(addresses) : socket = <<"tcp", socket[2]>> /\ socket[2] \in addresses
         /\ \A ip \in addresses : <<"tcp", ip>> \in Sockets(addresses)
         /\ \A m \in {<<"dns">>, <<"http">>, <<"control">>} : m \notin Sockets(addresses)
  BY DEF Sockets

\* What is recorded after the addresses says nothing else of the connections.
LEMMA RecordsKept ==
  ASSUME WebRecords, DOMAIN results' \cap Sockets(Measured) = DOMAIN results \cap Sockets(Measured),
         Measured' = Measured, entry'.tcp_connect = entry.tcp_connect,
         \A socket \in DOMAIN results \cap Sockets(Measured) : results'[socket] = results[socket]
  PROVE  WebRecords'
<1>1. /\ entry.tcp_connect \in Seq([ip : Measured, success : BOOLEAN, blocked : {"no", "null"}])
      /\ \A i \in DOMAIN entry.tcp_connect :
           /\ <<"tcp", entry.tcp_connect[i].ip>> \in DOMAIN results
           /\ results[<<"tcp", entry.tcp_connect[i].ip>>] =
                IF entry.tcp_connect[i].success THEN "ok" ELSE "failed"
      /\ \A ip \in Measured :
           \/ <<"tcp", ip>> \notin DOMAIN results
           \/ \E i \in DOMAIN entry.tcp_connect : entry.tcp_connect[i].ip = ip
  BY DEF WebRecords
<1>2. \A i \in DOMAIN entry.tcp_connect : entry.tcp_connect[i].ip \in Measured
  <2> DEFINE records == [ip : Measured, success : BOOLEAN, blocked : {"no", "null"}]
  <2>1. ASSUME NEW i \in DOMAIN entry.tcp_connect PROVE entry.tcp_connect[i] \in records
    <3> HIDE DEF records
    <3> QED
      BY <1>1, ElementIn DEF records
  <2> QED
    BY <2>1
<1>3. \A ip \in Measured : <<"tcp", ip>> \in Sockets(Measured)
  BY DEF Sockets
<1>4. \A ip \in Measured :
        /\ <<"tcp", ip>> \in DOMAIN results' <=> <<"tcp", ip>> \in DOMAIN results
        /\ <<"tcp", ip>> \in DOMAIN results => results'[<<"tcp", ip>>] = results[<<"tcp", ip>>]
  BY <1>3
<1>5. \A i \in DOMAIN entry'.tcp_connect :
        /\ <<"tcp", entry'.tcp_connect[i].ip>> \in DOMAIN results'
        /\ results'[<<"tcp", entry'.tcp_connect[i].ip>>] =
             IF entry'.tcp_connect[i].success THEN "ok" ELSE "failed"
  BY <1>1, <1>2, <1>4
<1>6. \A ip \in Measured :
        \/ <<"tcp", ip>> \notin DOMAIN results'
        \/ \E i \in DOMAIN entry'.tcp_connect : entry'.tcp_connect[i].ip = ip
  BY <1>1, <1>4
<1> QED
  BY <1>1, <1>5, <1>6 DEF WebRecords

LEMMA WebDnsKeeps ==
  ASSUME WebInv, WebDns
  PROVE  WebInv'
<1>1. /\ stage = "dns" /\ results = << >> /\ entry.tcp_connect = <<>> /\ entry.blocking = "null"
      /\ entry.http_experiment_failure = "none"
      /\ entry = [field \in WebFields |-> entry[field]]
  BY DEF WebDns, WebInv, WebStages, Shape, WebFields
<1>2. ASSUME entry' = [entry EXCEPT !.failure = "ParsingUrl"], Begin("done", {})
      PROVE  WebInv'
  <2>1. entry' = [field \in WebFields |-> entry'[field]] /\ entry'.blocking = "null" /\ stage' = "done"
    BY <1>1, <1>2 DEF WebFields, Begin
  <2> QED
    BY <2>1 DEF WebInv, WebStages, WebVerdict, Shape, WebFields
<1>3. ASSUME NEW addresses \in SUBSET WebAddresses, Record(<<"dns">>, addresses),
             WebStarts(addresses), UNCHANGED entry
      PROVE  WebInv'
  <2>1. DOMAIN results' = {<<"dns">>} /\ Measured' = addresses
    <3>1. DOMAIN results = {}
      BY <1>1
    <3> QED
      BY <1>3, <3>1, Recorded DEF Measured
  <2>2. \/ stage' = "http" /\ Sockets(addresses) = {}
        \/ stage' = "tcp" /\ waiting' = Sockets(addresses)
    BY <1>3 DEF WebStarts, Begin, Sockets
  <2>3. WebStages'
    BY <2>1, <2>2 DEF WebStages, CalledBack
  <2>4. WebRecords'
    <3>1. entry'.tcp_connect = <<>> /\ DOMAIN <<>> = {}
      BY <1>1, <1>3
    <3>2. <<>> \in Seq([ip : addresses, success : BOOLEAN, blocked : {"no", "null"}])
      OBVIOUS
    <3>3. \A ip : <<"tcp", ip>> \notin DOMAIN results'
      BY <2>1
    <3> QED
      BY <2>1, <3>1, <3>2, <3>3 DEF WebRecords
  <2> QED
    BY <1>1, <1>3, <2>2, <2>3, <2>4 DEF WebInv, WebVerdict, Shape, WebFields
<1> QED
  BY <1>2, <1>3 DEF WebDns

LEMMA WebConnectedKeeps ==
  ASSUME WebInv, WebConnected
  PROVE  WebInv'
<1>1. PICK socket \in waiting, r \in tcp_connect :
        /\ Record(socket, r)
        /\ entry' = [entry EXCEPT !.tcp_connect = Append(@,
             [ip |-> socket[2], success |-> r = "ok",
              blocked |-> IF r = "ok" THEN "no" ELSE "null"])]
        /\ CASE ~IsLast(socket) -> StillWaiting(socket)
             [] IsLast(socket) /\ r = "ok" -> Begin("closing", {socket})
             [] OTHER -> Begin("http", {<<"http">>})
  BY DEF WebConnected
<1> DEFINE sequence == entry.tcp_connect
           record == [ip |-> socket[2], success |-> r = "ok",
                      blocked |-> IF r = "ok" THEN "no" ELSE "null"]
<1> PICK measured : measured = Measured
  OBVIOUS
<1>2. /\ stage = "tcp" /\ WebRecords /\ entry.blocking = "null"
      /\ CalledBack({<<"dns">>}, Sockets(measured))
      /\ entry.http_experiment_failure = "none"
      /\ entry = [field \in WebFields |-> entry[field]]
  BY DEF WebConnected, WebInv, WebStages, Shape, WebFields
<1>3. socket = <<"tcp", socket[2]>> /\ socket[2] \in measured /\ socket \notin DOMAIN results
  BY <1>2, SocketsAre DEF CalledBack
<1>4. /\ DOMAIN results' = DOMAIN results \cup {socket} /\ results'[socket] = r
      /\ \A k \in DOMAIN results : results'[k] = results[k]
  BY <1>1, <1>3, Recorded
<1>5. Measured' = measured
  BY <1>2, <1>4 DEF Measured, CalledBack
<1>6. \/ waiting' = waiting \ {socket} /\ stage' = "tcp"
      \/ waiting = {socket} /\ stage' \in {"closing", "http"}
  BY <1>1, <1>2 DEF IsLast, StillWaiting, Begin
<1>7. WebStages'
  BY <1>2, <1>4, <1>5, <1>6 DEF WebStages, CalledBack
<1>8. /\ entry' = [field \in WebFields |-> entry'[field]]
      /\ entry'.tcp_connect = Append(sequence, record)
      /\ entry'.blocking = entry.blocking
      /\ entry'.http_experiment_failure = entry.http_experiment_failure
  BY <1>1, <1>2 DEF WebFields
<1>9. /\ sequence \in Seq([ip : measured, success : BOOLEAN, blocked : {"no", "null"}])
      /\ record \in [ip : measured, success : BOOLEAN, blocked : {"no", "null"}]
  BY <1>2, <1>3 DEF WebRecords
<1> HIDE DEF sequence
<1>10. /\ DOMAIN entry'.tcp_connect = 1..Len(sequence) + 1 /\ DOMAIN sequence = 1..Len(sequence)
       /\ Len(sequence) \in Nat
       /\ entry'.tcp_connect[Len(sequence) + 1] = record
       /\ \A i \in DOMAIN sequence : entry'.tcp_connect[i] = sequence[i]
       /\ entry'.tcp_connect \in Seq([ip : measured, success : BOOLEAN, blocked : {"no", "null"}])
  BY <1>8, <1>9
<1>11. record.ip = socket[2] /\ record.success = (r = "ok") /\ r \in {"ok", "failed"}
  BY DEF tcp_connect
<1> HIDE DEF record
<1>12. ASSUME NEW i \in DOMAIN entry'.tcp_connect
       PROVE  /\ <<"tcp", entry'.tcp_connect[i].ip>> \in DOMAIN results'
              /\ results'[<<"tcp", entry'.tcp_connect[i].ip>>] =
                   IF entry'.tcp_connect[i].success THEN "ok" ELSE "failed"
  <2>1. CASE i \in DOMAIN sequence
    <3>1. /\ <<"tcp", sequence[i].ip>> \in DOMAIN results
          /\ results[<<"tcp", sequence[i].ip>>] = IF sequence[i].success THEN "ok" ELSE "failed"
      BY <1>2, <2>1 DEF WebRecords, sequence
    <3> QED
      BY <1>4, <1>10, <2>1, <3>1
  <2>2. CASE i = Len(sequence) + 1
    BY <1>3, <1>4, <1>10, <1>11, <2>2
  <2> QED
    BY <1>10, <2>1, <2>2
<1>13. ASSUME NEW ip \in measured
       PROVE  \/ <<"tcp", ip>> \notin DOMAIN results'
              \/ \E i \in DOMAIN entry'.tcp_connect : entry'.tcp_connect[i].ip = ip
  <2>1. CASE ip = socket[2]
    BY <1>10, <1>11, <2>1
  <2>2. CASE ip # socket[2]
    <3>1. <<"tcp", ip>> # socket
      BY <1>3, <2>2
    <3>2. \/ <<"tcp", ip>> \notin DOMAIN results
          \/ \E i \in DOMAIN sequence : sequence[i].ip = ip
      BY <1>2 DEF WebRecords, sequence
    <3> QED
      BY <1>4, <1>10, <3>1, <3>2
  <2> QED
    BY <2>1, <2>2
<1>14. WebRecords'
  BY <1>5, <1>10, <1>12, <1>13 DEF WebRecords
<1> QED
  BY <1>2, <1>6, <1>7, <1>8, <1>14 DEF WebInv, WebVerdict, Shape, WebFields

LEMMA WebClosedKeeps ==
  ASSUME WebInv, WebClosed
  PROVE  WebInv'
<1>1. stage = "closing" /\ stage' = "http" /\ UNCHANGED <<results, entry>>
  BY DEF WebClosed, Begin
<1>2. WebRecords'
  <2>1. WebRecords /\ Measured' = Measured
    BY <1>1 DEF WebInv, Measured
  <2> QED
    BY <1>1, <2>1, RecordsKept
<1> QED
  BY <1>1, <1>2 DEF WebInv, WebStages, WebVerdict, Shape, Measured

LEMMA WebFetchedKeeps ==
  ASSUME WebInv, WebFetched
  PROVE  WebInv'
<1>1. PICK r : /\ Record(<<"http">>, r)
               /\ \/ r.failure = "none" /\ UNCHANGED entry
                  \/ entry' = [entry EXCEPT !.http_experiment_failure = r.failure]
  <2>1. CASE \E page \in Pages : Record(<<"http">>, [failure |-> "none", page |-> page]) /\ UNCHANGED entry
    BY <2>1
  <2>2. CASE \E err \in {"dns_lookup_error", "other"} :
               /\ Record(<<"http">>, [failure |-> err])
               /\ entry' = [entry EXCEPT !.http_experiment_failure = err]
    BY <2>2
  <2> QED
    BY <2>1, <2>2 DEF WebFetched
<1> PICK measured : measured = Measured
  OBVIOUS
<1>2. /\ stage = "http" /\ stage' = "control" /\ WebRecords /\ entry.blocking = "null"
      /\ DOMAIN results = {<<"dns">>} \cup Sockets(measured)
      /\ entry.http_experiment_failure = "none"
      /\ entry = [field \in WebFields |-> entry[field]]
  BY DEF WebFetched, WebInv, WebStages, Shape, WebFields, Begin
<1>3. <<"http">> \notin DOMAIN results
  BY <1>2, SocketsAre
<1>4. /\ DOMAIN results' = DOMAIN results \cup {<<"http">>} /\ results'[<<"http">>] = r
      /\ \A k \in DOMAIN results : results'[k] = results[k]
  BY <1>1, <1>3, Recorded
<1>5. Measured' = measured
  BY <1>2, <1>4 DEF Measured
<1>6. /\ entry' = [field \in WebFields |-> entry'[field]]
      /\ entry'.tcp_connect = entry.tcp_connect /\ entry'.blocking = "null"
      /\ entry'.http_experiment_failure = r.failure
  BY <1>1, <1>2 DEF WebFields
<1>7. WebRecords'
  BY <1>2, <1>3, <1>4, <1>5, <1>6, SocketsAre, RecordsKept
<1>8. WebStages'
  BY <1>2, <1>4, <1>5 DEF WebStages
<1> QED
  BY <1>2, <1>4, <1>6, <1>7, <1>8 DEF WebInv, WebVerdict, Shape, WebFields

LEMMA BlockingReasons ==
  ASSUME NEW consistent \in BOOLEAN, NEW reached \in BOOLEAN, NEW ours, NEW theirs,
         NEW expected \in BOOLEAN, NEW dnsFailure \in BOOLEAN,
         NEW blocking, blocking = Blocking(consistent, reached, ours, theirs, expected, dnsFailure)
  PROVE  /\ blocking = "tcp_ip" => ~reached /\ ours # "none"
         /\ blocking \in {"http-diff", "http-failure"} => reached
         /\ blocking = "dns" /\ consistent => ours = "dns_lookup_error" \/ dnsFailure
         /\ blocking = "no" /\ ours # "none" /\ consistent => theirs # "none"
<1>1. CASE consistent /\ ~reached /\ ours # "none"
  BY <1>1 DEF Blocking
<1>2. CASE consistent /\ reached /\ ours = "none"
  BY <1>2 DEF Blocking
<1>3. CASE consistent /\ reached /\ ours # "none"
  BY <1>3 DEF Blocking
<1>4. CASE ~consistent
  BY <1>4 DEF Blocking
<1>5. CASE consistent /\ ~reached /\ ours = "none"
  BY <1>5 DEF Blocking
<1> QED
  BY <1>1, <1>2, <1>3, <1>4, <1>5

\* How many of K come up to k: the members of K are counted in their order.
UpTo(K, k) == {j \in K : j <= k}

LEMMA CountedInOrder ==
  ASSUME NEW n \in Nat, NEW K \in SUBSET (1..n)
  PROVE  /\ \A k \in K : Cardinality(UpTo(K, k)) \in 1..k
         /\ \A k, l \in K : Cardinality(UpTo(K, k)) = Cardinality(UpTo(K, l)) => k = l
         /\ \A k \in K : 1..k \subseteq K => Cardinality(UpTo(K, k)) = k
<1>0. \A k \in K : k \in Nat /\ 1 <= k
  OBVIOUS
<1>1. ASSUME NEW k \in K
      PROVE  /\ IsFiniteSet(UpTo(K, k)) /\ IsFiniteSet(1..k) /\ Cardinality(1..k) = k
             /\ Cardinality(UpTo(K, k)) \in 1..k
  <2>1. UpTo(K, k) \subseteq 1..k /\ k \in UpTo(K, k) /\ k \in Nat /\ 1 <= k
    <3>1. k \in Nat /\ 1 <= k
      BY <1>0
    <3>2. ASSUME NEW j \in UpTo(K, k) PROVE j \in 1..k
      BY <1>0, <3>1 DEF UpTo
    <3>3. k \in UpTo(K, k)
      BY <3>1 DEF UpTo
    <3> QED
      BY <3>1, <3>2, <3>3
  <2>2. IsFiniteSet(1..k) /\ Cardinality(1..k) = k
    <3>1. 1 \in Int /\ k \in Int
      BY <2>1
    <3>2. IsFiniteSet(1..k) /\ Cardinality(1..k) = IF 1 > k THEN 0 ELSE k - 1 + 1
      BY <3>1, FS_Interval
    <3> QED
      BY <2>1, <3>2
  <2>3. IsFiniteSet(UpTo(K, k)) /\ Cardinality(UpTo(K, k)) <= k
    BY <2>1, <2>2, FS_Subset
  <2>4. Cardinality(UpTo(K, k)) \in Nat /\ Cardinality(UpTo(K, k)) # 0
    BY <2>1, <2>3, FS_CardinalityType, FS_EmptySet
  <2> QED
    BY <2>1, <2>2, <2>3, <2>4
<1>2. ASSUME NEW k \in K, NEW l \in K, k < l
      PROVE  Cardinality(UpTo(K, k)) # Cardinality(UpTo(K, l))
  <2>1. UpTo(K, k) \cup {l} \subseteq UpTo(K, l) /\ l \notin UpTo(K, k)
    <3>1. k \in Nat /\ l \in Nat
      BY <1>0
    <3>2. ASSUME NEW j \in UpTo(K, k) PROVE j \in UpTo(K, l) /\ j # l
      BY <1>0, <1>2, <3>1 DEF UpTo
    <3>3. l \in UpTo(K, l)
      BY <3>1 DEF UpTo
    <3> QED
      BY <3>2, <3>3
  <2>2. Cardinality(UpTo(K, k) \cup {l}) = Cardinality(UpTo(K, k)) + 1
    BY <1>1, <2>1, FS_AddElement
  <2>3. Cardinality(UpTo(K, k) \cup {l}) <= Cardinality(UpTo(K, l))
    BY <1>1, <2>1, FS_Subset
  <2>4. Cardinality(UpTo(K, k)) \in Nat /\ Cardinality(UpTo(K, l)) \in Nat
    BY <1>1, FS_CardinalityType
  <2> QED
    BY <2>2, <2>3, <2>4
<1>3. ASSUME NEW k \in K, NEW l \in K, Cardinality(UpTo(K, k)) = Cardinality(UpTo(K, l))
      PROVE  k = l
  BY <1>2, <1>3
<1>4. ASSUME NEW k \in K, 1..k \subseteq K
      PROVE  Cardinality(UpTo(K, k)) = k
  <2>1. UpTo(K, k) = 1..k
    <3>1. ASSUME NEW j \in UpTo(K, k) PROVE j \in 1..k
      BY <1>0 DEF UpTo
    <3>2. ASSUME NEW j \in 1..k PROVE j \in UpTo(K, k)
      BY <1>0, <1>4 DEF UpTo
    <3> QED
      BY <3>1, <3>2
  <2> QED
    BY <1>1, <2>1
<1> QED
  BY <1>1, <1>3, <1>4

\* The mark of a record that the control knows is that of its place among those.
LEMMA MarksAre ==
  ASSUME NEW control, NEW S, entry.tcp_connect \in Seq(S),
         \A i \in DOMAIN entry.tcp_connect :
           entry.tcp_connect[i] = [ip |-> entry.tcp_connect[i].ip,
                                   success |-> entry.tcp_connect[i].success,
                                   blocked |-> entry.tcp_connect[i].blocked]
  PROVE  LET known == Known(control)
             idx(k) == Cardinality(UpTo(known, k))
             marked == MarkBlocked(control)
         IN /\ DOMAIN marked = DOMAIN entry.tcp_connect
            /\ \A n \in DOMAIN marked : marked[n].ip = entry.tcp_connect[n].ip
            /\ \A k \in known : marked[idx(k)].blocked = YesNo(IsBlocked(entry.tcp_connect[k], control))
            /\ \A n \in DOMAIN marked :
                 \/ \E k \in known : n = idx(k)
                 \/ marked[n] = entry.tcp_connect[n]
<1> DEFINE known == Known(control)
           idx(k) == Cardinality(UpTo(known, k))
           written == {idx(k) : k \in known}
           source(n) == CHOOSE k \in known : idx(k) = n
           marked == MarkBlocked(control)
           len == Len(entry.tcp_connect)
<1>1. len \in Nat /\ DOMAIN entry.tcp_connect = 1..len /\ known \in SUBSET (1..len)
  BY DEF Known
<1>2. marked = [n \in DOMAIN entry.tcp_connect |->
                  IF n \notin written THEN entry.tcp_connect[n]
                  ELSE [entry.tcp_connect[n] EXCEPT
                          !.blocked = YesNo(IsBlocked(entry.tcp_connect[source(n)], control))]]
  BY DEF MarkBlocked, UpTo
<1> HIDE DEF known, marked, len
<1>3. /\ \A k \in known : idx(k) \in 1..k
      /\ \A k, l \in known : idx(k) = idx(l) => k = l
  BY <1>1, CountedInOrder
<1> HIDE DEF idx
<1>4. ASSUME NEW k \in known
      PROVE  idx(k) \in written /\ idx(k) \in DOMAIN entry.tcp_connect /\ source(idx(k)) = k
  <2>1. idx(k) \in DOMAIN entry.tcp_connect
    BY <1>1, <1>3
  <2>2. source(idx(k)) = k
    BY <1>3
  <2> QED
    BY <2>1, <2>2
<1> HIDE DEF source
<1>5. ASSUME NEW n \in DOMAIN marked
      PROVE  /\ marked[n].ip = entry.tcp_connect[n].ip
             /\ n \notin written => marked[n] = entry.tcp_connect[n]
             /\ n \in written =>
                  marked[n].blocked = YesNo(IsBlocked(entry.tcp_connect[source(n)], control))
  <2> DEFINE e == entry.tcp_connect[n]
  <2>1. n \in DOMAIN entry.tcp_connect
    BY <1>2
  <2>2. e = [ip |-> e.ip, success |-> e.success, blocked |-> e.blocked]
    BY <2>1
  <2>3. marked[n] = IF n \notin written THEN e
                    ELSE [e EXCEPT !.blocked = YesNo(IsBlocked(entry.tcp_connect[source(n)], control))]
    BY <1>2, <2>1
  <2> HIDE DEF e, written
  <2>4. (n \notin written => marked[n] = e) /\ marked[n].ip = e.ip
    BY <2>2, <2>3
  <2>5. n \in written => marked[n].blocked = YesNo(IsBlocked(entry.tcp_connect[source(n)], control))
    BY <2>2, <2>3
  <2> QED
    BY <2>4, <2>5 DEF e
<1>6. DOMAIN marked = DOMAIN entry.tcp_connect
  BY <1>2
<1>7. \A k \in known : marked[idx(k)].blocked = YesNo(IsBlocked(entry.tcp_connect[k], control))
  BY <1>4, <1>5, <1>6
<1>8. \A n \in DOMAIN marked : (\E k \in known : n = idx(k)) \/ marked[n] = entry.tcp_connect[n]
  BY <1>5
<1> QED
  BY <1>5, <1>6, <1>7, <1>8 DEF known, idx, marked

\* Hence as many are marked as are blocked, and up to any of them not fewer.
LEMMA MarksCounted ==
  ASSUME NEW n \in Nat, NEW K \in SUBSET (1..n), NEW B \in SUBSET K, NEW M \in SUBSET (1..n),
         \A k \in K : Cardinality(UpTo(K, k)) \in M <=> k \in B,
         \A m \in M : \E k \in K : m = Cardinality(UpTo(K, k)),
         NEW i \in 1..n
  PROVE  /\ Cardinality(UpTo(B, i)) <= Cardinality(UpTo(M, i))
         /\ i = n => Cardinality(UpTo(B, i)) = Cardinality(UpTo(M, i))
<1> DEFINE idx(k) == Cardinality(UpTo(K, k))
           f == [k \in UpTo(B, i) |-> idx(k)]
           image == {idx(k) : k \in UpTo(B, i)}
<1>1. /\ \A k \in K : idx(k) \in 1..k
      /\ \A k, l \in K : idx(k) = idx(l) => k = l
  BY CountedInOrder
<1>2. \A k \in K : idx(k) \in M <=> k \in B
  OBVIOUS
<1>3. \A m \in M : \E k \in K : m = idx(k)
  OBVIOUS
<1> HIDE DEF idx
<1>4. UpTo(B, i) \subseteq 1..n /\ UpTo(M, i) \subseteq 1..n /\ UpTo(B, i) \subseteq K
  BY DEF UpTo
<1>5. IsFiniteSet(UpTo(B, i)) /\ IsFiniteSet(UpTo(M, i))
  <2>1. IsFiniteSet(1..n)
    BY FS_Interval
  <2> QED
    BY <1>4, <2>1, FS_Subset
<1>6. image \subseteq UpTo(M, i)
  <2> SUFFICES ASSUME NEW k \in UpTo(B, i) PROVE idx(k) \in UpTo(M, i)
    OBVIOUS
  <2>1. k \in B /\ k \in K /\ k <= i /\ k \in Int
    BY DEF UpTo
  <2>2. idx(k) \in M /\ idx(k) \in 1..k
    BY <1>1, <1>2, <2>1
  <2> QED
    BY <2>1, <2>2 DEF UpTo
<1>7. Cardinality(UpTo(B, i)) = Cardinality(image)
  <2>1. f \in [UpTo(B, i) -> image] /\ \A x, y \in UpTo(B, i) : f[x] = f[y] => x = y
    BY <1>1, <1>4
  <2>2. \A z \in image : \E x \in UpTo(B, i) : f[x] = z
    OBVIOUS
  <2>3. f \in Bijection(UpTo(B, i), image)
    BY <2>1, <2>2 DEF Bijection, Injection, IsInjective, Surjection
  <2> HIDE DEF f, image
  <2> QED
    BY <1>5, <2>3, FS_Bijection DEF ExistsBijection
<1>8. i = n => UpTo(M, i) \subseteq image
  <2> SUFFICES ASSUME i = n, NEW m \in UpTo(M, i) PROVE m \in image
    OBVIOUS
  <2>1. m \in M
    BY DEF UpTo
  <2>2. PICK k \in K : m = idx(k)
    BY <1>3, <2>1
  <2>3. k \in B /\ k \in 1..n
    BY <1>2, <2>1, <2>2
  <2>4. k \in UpTo(B, i)
    BY <2>3 DEF UpTo
  <2> QED
    BY <2>2, <2>4
<1> HIDE DEF image
<1>9. Cardinality(UpTo(B, i)) <= Cardinality(UpTo(M, i))
  <2>1. Cardinality(image) <= Cardinality(UpTo(M, i))
    BY <1>5, <1>6, FS_Subset
  <2> QED
    BY <1>7, <2>1
<1>10. i = n => Cardinality(UpTo(B, i)) = Cardinality(UpTo(M, i))
  <2> SUFFICES ASSUME i = n PROVE Cardinality(UpTo(B, i)) = Cardinality(UpTo(M, i))
    OBVIOUS
  <2>1. image \subseteq UpTo(M, i) /\ UpTo(M, i) \subseteq image
    BY <1>6, <1>8
  <2>2. image = UpTo(M, i)
    BY <2>1, Zenon
  <2> QED
    BY <1>7, <2>2, Zenon
<1> QED
  BY <1>9, <1>10

LEMMA WebControlKeeps ==
  ASSUME WebInv, WebControl
  PROVE  WebInv'
<1>1. /\ stage = "control" /\ WebRecords /\ entry.blocking = "null"
      /\ DOMAIN results = {<<"dns">>, <<"http">>} \cup Sockets(Measured)
      /\ entry.http_experiment_failure = results[<<"http">>].failure
      /\ entry = [field \in WebFields |-> entry[field]]
  BY DEF WebControl, WebInv, WebStages, Shape, WebFields
<1>2. ASSUME NEW err, entry' = [entry EXCEPT !.control_failure = err], Begin("done", {})
      PROVE  WebInv'
  <2>1. /\ entry' = [field \in WebFields |-> entry'[field]] /\ entry'.blocking = "null"
        /\ stage' = "done"
    BY <1>1, <1>2 DEF WebFields, Begin
  <2> QED
    BY <2>1 DEF WebInv, WebStages, WebVerdict, Shape
<1>3. ASSUME Begin("thrown", {}), UNCHANGED entry
      PROVE  WebInv'
  BY <1>1, <1>3 DEF WebInv, WebStages, WebVerdict, Shape, Begin
<1>4. ASSUME NEW control \in Controls, Record(<<"control">>, control), Begin("done", {}),
             entry' = Compared(control)
      PROVE  WebInv'
  <2> DEFINE ours == entry.http_experiment_failure
             theirs == control.http.failure
             both == ours = "none" /\ theirs = "none"
             match == IF both THEN compare_http_requests(results[<<"http">>].page, control.http.page)
                      ELSE Unmatched
             expected == /\ both /\ match.status = "yes"
                         /\ "yes" \in {match.body, match.headers, match.title}
             consistent == compare_dns_queries(control)
             reached == AllReached(control)
             blocking == Blocking(consistent, reached, ours, theirs, expected, control.dnsFailure)
             marked == MarkBlocked(control)
             compared == [entry EXCEPT !.match = match,
                            !.dns_consistency = IF consistent THEN "consistent" ELSE "inconsistent",
                            !.tcp_connect = marked,
                            !.blocking = blocking, !.accessible = YesNo(blocking = "no")]
  <2> PICK measured : measured = Measured
    OBVIOUS
  <2>1. entry' = compared /\ stage' = "done"
    BY <1>4 DEF Compared, Begin
  <2> HIDE DEF match, expected, consistent, reached, blocking, marked
  <2>2. /\ entry' = [field \in WebFields |-> entry'[field]]
        /\ entry'.blocking = blocking /\ entry'.tcp_connect = marked
        /\ entry'.dns_consistency = IF consistent THEN "consistent" ELSE "inconsistent"
    BY <1>1, <2>1 DEF WebFields
  <2> HIDE DEF compared
  <2>3. /\ <<"control">> \notin DOMAIN results
        /\ results'[<<"control">>] = control
        /\ \A k \in DOMAIN results : results'[k] = results[k]
    <3>1. <<"control">> \notin DOMAIN results
      BY <1>1, SocketsAre
    <3> QED
      BY <1>4, <3>1, Recorded
  <2>4. /\ Measured' = measured /\ results'[<<"http">>] = results[<<"http">>]
        /\ \A ip \in measured : results'[<<"tcp", ip>>] = results[<<"tcp", ip>>]
    BY <1>1, <2>3, SocketsAre DEF Measured
  <2>5. DOMAIN control.tcp \subseteq measured /\ control.dnsFailure \in BOOLEAN
    <3>1. /\ control.tcp \in UNION {[tried -> tcp_connect] : tried \in SUBSET (measured \ PrivateAddresses)}
          /\ control.dnsFailure \in BOOLEAN
      BY DEF Controls
    <3> QED
      BY <3>1
  <2>6. /\ \A i \in DOMAIN entry.tcp_connect :
             /\ entry.tcp_connect[i].ip \in measured
             /\ entry.tcp_connect[i].success \in BOOLEAN
             /\ results'[<<"tcp", entry.tcp_connect[i].ip>>] =
                  IF entry.tcp_connect[i].success THEN "ok" ELSE "failed"
        /\ \A ip \in measured : \E i \in DOMAIN entry.tcp_connect : entry.tcp_connect[i].ip = ip
    <3> DEFINE records == [ip : measured, success : BOOLEAN, blocked : {"no", "null"}]
    <3>1. entry.tcp_connect \in Seq(records)
      BY <1>1 DEF WebRecords
    <3>2. ASSUME NEW i \in DOMAIN entry.tcp_connect PROVE entry.tcp_connect[i] \in records
      <4> HIDE DEF records
      <4> QED
        BY <3>1, ElementIn
    <3>3. \A i \in DOMAIN entry.tcp_connect :
            results[<<"tcp", entry.tcp_connect[i].ip>>] =
              IF entry.tcp_connect[i].success THEN "ok" ELSE "failed"
      BY <1>1 DEF WebRecords
    <3>4. \A ip \in measured : <<"tcp", ip>> \in DOMAIN results
      BY <1>1, SocketsAre
    <3>5. \A ip \in measured : \E i \in DOMAIN entry.tcp_connect : entry.tcp_connect[i].ip = ip
      BY <1>1, <3>4 DEF WebRecords
    <3> QED
      BY <2>4, <3>2, <3>3, <3>5
  <2> DEFINE cut == Cut(results[<<"control">>])'
             after == entry'.tcp_connect
  <2>7. cut = {ip \in DOMAIN control.tcp : control.tcp[ip] = "ok" /\ results'[<<"tcp", ip>>] = "failed"}
    BY <2>3 DEF Cut
  <2> HIDE DEF cut, after
  <2>8. reached <=> cut = {}
    <3>1. reached <=> \A i \in DOMAIN entry.tcp_connect :
                        entry.tcp_connect[i].ip \in DOMAIN control.tcp =>
                          ~(control.tcp[entry.tcp_connect[i].ip] = "ok" /\ ~entry.tcp_connect[i].success)
      BY DEF reached, AllReached, Known, IsBlocked
    <3>2. ASSUME NEW i \in DOMAIN entry.tcp_connect
          PROVE  ~entry.tcp_connect[i].success <=>
                   results'[<<"tcp", entry.tcp_connect[i].ip>>] = "failed"
      BY <2>6
    <3>3. ASSUME NEW ip \in cut PROVE ~reached
      <4>1. PICK i \in DOMAIN entry.tcp_connect : entry.tcp_connect[i].ip = ip
        BY <2>5, <2>6, <2>7
      <4> QED
        BY <2>7, <3>1, <3>2, <4>1
    <3>4. ASSUME ~reached PROVE cut # {}
      BY <2>7, <3>1, <3>2, <3>4
    <3> QED
      BY <3>3, <3>4
  <2>9. /\ blocking = "tcp_ip" => ~reached /\ ours # "none"
        /\ blocking \in {"http-diff", "http-failure"} => reached
        /\ blocking = "dns" /\ consistent => ours = "dns_lookup_error" \/ control.dnsFailure
        /\ blocking = "no" /\ ours # "none" /\ consistent => theirs # "none"
    <3>1. consistent \in BOOLEAN /\ reached \in BOOLEAN /\ expected \in BOOLEAN
      BY DEF consistent, compare_dns_queries, reached, AllReached, expected
    <3> QED
      BY <2>5, <3>1, BlockingReasons DEF blocking
  <2>10. measured \cap control.addrs # {} /\ measured \cap PrivateAddresses = {} => consistent
    BY DEF consistent, compare_dns_queries
  <2> DEFINE records == entry.tcp_connect
             known == Known(control)
             idx(k) == Cardinality(UpTo(known, k))
             blocked == {k \in known : IsBlocked(records[k], control)}
             yes == {n \in DOMAIN after : after[n].blocked = "yes"}
             Marked(i) == {j \in 1..i : after[j].blocked = "yes"}
             WereCut(i) == {j \in 1..i : after[j].ip \in cut}
  <2>20. /\ Len(records) \in Nat /\ DOMAIN records = 1..Len(records)
         /\ known \in SUBSET (1..Len(records)) /\ blocked \in SUBSET known
         /\ \A i \in DOMAIN records :
              /\ records[i] = [ip |-> records[i].ip, success |-> records[i].success,
                               blocked |-> records[i].blocked]
              /\ records[i].blocked # "yes"
    <3> DEFINE record == [ip : measured, success : BOOLEAN, blocked : {"no", "null"}]
    <3>1. records \in Seq(record)
      BY <1>1 DEF WebRecords
    <3>2. ASSUME NEW i \in DOMAIN records PROVE records[i] \in record
      <4> HIDE DEF record
      <4> QED
        BY <3>1, ElementIn
    <3>3. Len(records) \in Nat /\ DOMAIN records = 1..Len(records)
      BY <3>1
    <3>4. known \subseteq DOMAIN records
      BY DEF Known
    <3> QED
      BY <3>2, <3>3, <3>4
  <2>21. /\ DOMAIN after = DOMAIN records
         /\ \A n \in DOMAIN after : after[n].ip = records[n].ip
         /\ \A k \in known : after[idx(k)].blocked = YesNo(IsBlocked(records[k], control))
         /\ \A n \in DOMAIN after : (\E k \in known : n = idx(k)) \/ after[n] = records[n]
    <3>1. records \in Seq([ip : measured, success : BOOLEAN, blocked : {"no", "null"}])
      BY <1>1 DEF WebRecords
    <3> QED
      BY <2>2, <2>20, <3>1, MarksAre DEF marked, after
  <2>22. ASSUME NEW k \in DOMAIN records
         PROVE  k \in blocked <=> records[k].ip \in cut
    BY <2>6, <2>7 DEF IsBlocked, Known
  <2> HIDE DEF records, known
  <2>23. \A k \in known : idx(k) \in 1..k /\ (1..k \subseteq known => idx(k) = k)
    BY <2>20, CountedInOrder
  <2>24. /\ yes \in SUBSET (1..Len(records))
         /\ \A k \in known : idx(k) \in yes <=> k \in blocked
         /\ \A m \in yes : \E k \in known : m = idx(k)
    <3>1. ASSUME NEW k \in known PROVE idx(k) \in DOMAIN after
      BY <2>20, <2>21, <2>23
    <3> HIDE DEF idx
    <3>2. \A k \in known : idx(k) \in yes <=> k \in blocked
      BY <2>21, <3>1 DEF YesNo
    <3>3. \A m \in yes : \E k \in known : m = idx(k)
      BY <2>20, <2>21
    <3> QED
      BY <2>20, <2>21, <3>2, <3>3
  <2>11. ASSUME NEW i \in DOMAIN after
         PROVE  /\ Cardinality(WereCut(i)) <= Cardinality(Marked(i))
                /\ i = Len(after) => Cardinality(WereCut(i)) = Cardinality(Marked(i))
                /\ (\A j \in 1..i : after[j].ip \in DOMAIN control.tcp) =>
                     after[i].blocked = YesNo(after[i].ip \in cut)
    <3>1. i \in 1..Len(records) /\ Len(after) = Len(records)
      BY <2>20, <2>21
    <3>2. WereCut(i) = UpTo(blocked, i)
      <4> HIDE DEF blocked
      <4>1. \A j \in 1..i : j \in DOMAIN records /\ j <= i /\ after[j].ip = records[j].ip
        BY <2>20, <2>21, <3>1
      <4>2. \A j \in 1..i : after[j].ip \in cut <=> j \in blocked
        BY <2>22, <4>1
      <4>3. ASSUME NEW j \in UpTo(blocked, i) PROVE j \in 1..i
        BY <2>20, <3>1 DEF UpTo
      <4> QED
        BY <4>1, <4>2, <4>3 DEF UpTo
    <3>3. Marked(i) = UpTo(yes, i)
      BY <2>20, <2>21, <3>1 DEF UpTo
    <3> HIDE DEF yes, blocked, Marked, WereCut
    <3>4. /\ Cardinality(UpTo(blocked, i)) <= Cardinality(UpTo(yes, i))
          /\ i = Len(records) => Cardinality(UpTo(blocked, i)) = Cardinality(UpTo(yes, i))
      BY <2>20, <2>24, <3>1, MarksCounted
    <3>5. ASSUME \A j \in 1..i : after[j].ip \in DOMAIN control.tcp
          PROVE  after[i].blocked = YesNo(after[i].ip \in cut)
      <4>1. 1..i \subseteq known
        BY <2>20, <2>21, <3>1, <3>5 DEF known, records, Known
      <4>2. i \in known /\ idx(i) = i
        BY <2>23, <3>1, <4>1
      <4>3. IsBlocked(records[i], control) <=> records[i].ip \in cut
        BY <2>20, <2>22, <3>1, <4>2 DEF blocked
      <4> HIDE DEF idx
      <4> QED
        BY <2>21, <4>2, <4>3 DEF YesNo
    <3> QED
      BY <3>1, <3>2, <3>3, <3>4, <3>5
  <2>12. WebVerdict'
    BY <1>1, <2>2, <2>3, <2>4, <2>8, <2>9, <2>10, <2>11 DEF WebVerdict, cut, after
  <2> QED
    BY <2>1, <2>2, <2>12 DEF WebInv, WebStages, Shape
<1> QED
  BY <1>2, <1>3, <1>4 DEF WebControl

LEMMA WebBegins == WebInit => WebInv
  BY DEF WebInit, TestInit, WebInv, WebFields, Shape, WebStages, WebVerdict

LEMMA WebKeeps ==
  ASSUME WebInv, WebNext
  PROVE  WebInv'
  BY WebDnsKeeps, WebConnectedKeeps, WebClosedKeeps, WebFetchedKeeps, WebControlKeeps DEF WebNext

-----------------------------------------------------------------------------
(* All of them.                                                            *)

LEMMA VerdictsBegin == Init => VerdictInv
<1> SUFFICES ASSUME Init PROVE VerdictInv
  OBVIOUS
<1> USE DEF VerdictInv, IsWhatsapp, IsTelegram, IsFacebook, IsCaptive, IsLines, IsHeaders, IsWeb
<1>1. CASE WhatsappInit
  BY <1>1, WhatsappStarts DEF WhatsappInit, TestInit
<1>2. CASE TelegramInit
  BY <1>2, TelegramBegins DEF TelegramInit, TestInit
<1>3. CASE FacebookInit
  BY <1>3, FacebookBegins DEF FacebookInit, TestInit
<1>4. CASE CaptiveInit
  BY <1>4, CaptiveBegins DEF CaptiveInit, TestInit
<1>5. CASE LinesInit
  <2>1. IsLines
    BY <1>5 DEF LinesInit, TestInit, IsLines
  <2> QED
    BY <1>5, <2>1, LinesBegin
<1>6. CASE HeadersInit
  BY <1>6, HeadersBegin DEF HeadersInit, TestInit
<1>7. CASE WebInit
  <2>1. IsWeb
    BY <1>7 DEF WebInit, TestInit, IsWeb
  <2> QED
    BY <1>7, <2>1, WebBegins
<1>8. CASE SingleInit
  <2>1. test.name \in {"meek_fronted_requests", "dns_injection", "tcp_connect"}
    BY <1>8 DEF SingleInit, TestInit
  <2> QED
    BY <2>1
<1>9. CASE Client("submit_report") \/ Client("orchestra") \/ Client("mkapi") \/ Client("traceroute")
  <2>1. test.name \in {"submit_report", "orchestra", "mkapi", "traceroute"}
    BY <1>9 DEF Client, TestInit
  <2> QED
    BY <2>1
<1> QED
  BY <1>1, <1>2, <1>3, <1>4, <1>5, <1>6, <1>7, <1>8, <1>9
  DEF Init, TestInits, MessengersInit, MiddleboxesInit

\* A callback is of its test only.
LEMMA MessengersKeep ==
  ASSUME VerdictInv, MessengersNext
  PROVE  VerdictInv'
<1> USE DEF VerdictInv, IsWhatsapp, IsTelegram, IsFacebook, IsCaptive, IsLines, IsHeaders, IsWeb
<1>1. CASE WhatsappHttpCallback
  BY <1>1, WhatsappHttpKeeps DEF WhatsappHttpCallback
<1>2. CASE WhatsappDnsCallback
  BY <1>2, WhatsappDnsKeeps DEF WhatsappDnsCallback
<1>3. CASE WhatsappTcpCallback
  BY <1>3, WhatsappTcpKeeps DEF WhatsappTcpCallback
<1>4. CASE TelegramCallback
  BY <1>4, TelegramKeeps DEF TelegramCallback
<1>5. CASE FacebookDnsCallback
  BY <1>5, FacebookDnsKeeps DEF FacebookDnsCallback
<1>6. CASE FacebookTcpCallback
  BY <1>6, FacebookTcpKeeps DEF FacebookTcpCallback
<1>7. CASE FacebookClosed
  BY <1>7, FacebookClosedKeeps DEF FacebookClosed
<1> QED
  BY <1>1, <1>2, <1>3, <1>4, <1>5, <1>6, <1>7 DEF MessengersNext

LEMMA MiddleboxesKeep ==
  ASSUME VerdictInv, MiddleboxesNext
  PROVE  VerdictInv'
<1> USE DEF VerdictInv, IsWhatsapp, IsTelegram, IsFacebook, IsCaptive, IsLines, IsHeaders, IsWeb
<1>1. CASE VendorCallback
  BY <1>1, VendorKeeps DEF VendorCallback
<1>2. CASE NcsiCallback
  BY <1>2, NcsiKeeps DEF NcsiCallback
<1>3. CASE RandomCallback
  BY <1>3, RandomKeeps DEF RandomCallback
<1>4. CASE LineConnected \/ LineTimer \/ LineClosed
  <2>1. IsLines /\ UNCHANGED test
    BY <1>4 DEF LineConnected, LineTimer, LineClosed
  <2> QED
    BY <1>4, <2>1, LinesKeep
<1>5. CASE HeadersCallback
  BY <1>5, HeadersKeep DEF HeadersCallback
<1>6. CASE SingleCallback
  <2>1. test.name \in {"meek_fronted_requests", "dns_injection", "tcp_connect"} /\ UNCHANGED test
    BY <1>6 DEF SingleCallback, meek_fronted_requests, dns_injection, TcpConnects, TcpClosed
  <2> QED
    BY <2>1
<1> QED
  BY <1>1, <1>2, <1>3, <1>4, <1>5, <1>6 DEF MiddleboxesNext

LEMMA VerdictsKept ==
  ASSUME VerdictInv, UNCHANGED <<test, stage, waiting, results, entry>>
  PROVE  VerdictInv'
<1>1. WhatsappInv => WhatsappInv'
  BY DEF WhatsappInv, Shape, WhatsappStages, CalledBack, Some, Unreached, HostSockets, HostQueries, Addresses
<1>2. TelegramInv => TelegramInv'
  BY DEF TelegramInv, Shape, TelegramStages, CalledBack, Some
<1>3. FacebookInv => FacebookInv'
  <2>1. Ips' = Ips /\ ServiceSockets' = ServiceSockets
    BY DEF Ips, Addresses, ServiceSockets
  <2>2. \A s : Some(Ours(s), "ok")' <=> Some(Ours(s), "ok")
    BY <2>1 DEF Some, Ours
  <2> QED
    BY <2>1, <2>2 DEF FacebookInv, Shape, FacebookStages, FacebookSays, CalledBack, FacebookTcpBlocking
<1>4. CaptiveInv => CaptiveInv'
  BY DEF CaptiveInv, Shape, CaptiveStages, CalledBack, Some
<1>5. LinesInv => LinesInv'
  BY DEF LinesInv, Shape, LinesSay, Ended, LinesVerdict, Seen
<1>6. HeadersInv => HeadersInv'
  BY DEF HeadersInv, HeadersVerdict
<1>7. WebInv => WebInv'
  <2> DEFINE marked(i) == {j \in 1 .. i : entry.tcp_connect[j].blocked = "yes"}
             cutOff(i) == {j \in 1 .. i : entry.tcp_connect[j].ip \in Cut(results[<<"control">>])}
  <2>1. Cut(results[<<"control">>])' = Cut(results[<<"control">>])
    BY DEF Cut
  <2>2. \A i : marked(i)' = marked(i) /\ cutOff(i)' = cutOff(i)
    BY <2>1
  <2>3. \A i : Cardinality(marked(i))' = Cardinality(marked(i)) /\ Cardinality(cutOff(i))' = Cardinality(cutOff(i))
    BY <2>2
  <2>4. WebVerdict' <=> WebVerdict
    BY <2>1, <2>3 DEF WebVerdict, Measured, IsWeb
  <2> QED
    BY <2>4 DEF WebInv, Shape, WebStages, WebRecords, CalledBack, Measured, Cut, IsWeb
<1> QED
  BY <1>1, <1>2, <1>3, <1>4, <1>5, <1>6, <1>7
  DEF VerdictInv, IsWhatsapp, IsTelegram, IsFacebook, IsCaptive, IsLines, IsHeaders, IsWeb

LEMMA VerdictsGoOn == VerdictInv /\ [Next]_ooniVars => VerdictInv'
<1> SUFFICES ASSUME VerdictInv, [Next]_ooniVars PROVE VerdictInv'
  OBVIOUS
<1>1. CASE WebNext
  <2>1. IsWeb /\ UNCHANGED test
    BY <1>1 DEF WebNext, WebDns, WebConnected, WebClosed, WebFetched, WebControl
  <2> QED
    BY <1>1, <2>1, WebKeeps
    DEF VerdictInv, IsWhatsapp, IsTelegram, IsFacebook, IsCaptive, IsLines, IsHeaders, IsWeb
<1>2. MessengersNext \/ MiddleboxesNext \/ WebNext \/ UNCHANGED <<test, stage, waiting, results, entry>>
  BY DEF Next, Callback, TransportClosed, Closed, Resubmission, Synchronization, Configuration,
         Tracing, Over, ooniVars, probeVars
<1> QED
  BY <1>1, <1>2, MessengersKeep, MiddleboxesKeep, VerdictsKept

\* In every reachable state of a test the measurements that have called back are
\* those of the stages before, and of its own stage those not waited for; and
\* its entry says of them what it should, in whatever order they came.
THEOREM VerdictInvariant == Spec => []VerdictInv
  BY VerdictsBegin, VerdictsGoOn, PTL DEF Spec

\* When a test is done its entry agrees with all that was measured: what is said
\* to be blocked, consistent, tampered with or matched is backed by the results,
\* and no failure among them is passed over.
THEOREM OoniVerdictsFollow == Spec => []VerdictsFollow
<1>1. ASSUME VerdictInv PROVE VerdictsFollow
  <2>1. MessengersVerdict
    BY <1>1, WhatsappFollows, TelegramFollows, FacebookFollows DEF VerdictInv, MessengersVerdict
  <2>2. MiddleboxesVerdict
    <3>1. ASSUME LinesInv, stage = "done" PROVE LinesVerdict
      BY <3>1 DEF LinesInv, LinesVerdict
    <3>2. ASSUME HeadersInv, stage = "done" PROVE HeadersVerdict
      BY <3>2 DEF HeadersInv
    <3> QED
      BY <1>1, <3>1, <3>2, CaptiveFollows DEF VerdictInv, MiddleboxesVerdict
  <2>3. WebVerdict
    BY <1>1 DEF VerdictInv, WebInv, WebVerdict
  <2> QED
    BY <2>1, <2>2, <2>3 DEF VerdictsFollow
<1> QED
  BY VerdictInvariant, <1>1, PTL
=============================================================================
