-------------------------------- MODULE Dns --------------------------------
(***************************************************************************)
(* dns::resolve_hostname() and dns::query() with the two engines: evdns    *)
(* (dns/libevent_query.hpp) and getaddrinfo() in a thread of the worker    *)
(* (dns/system_resolver.hpp, dns/getaddrinfo_async.hpp).                   *)
(*                                                                         *)
(* The I/O thread runs one callback at a time.  `call` names the callback  *)
(* that is being entered, with its error in `arg`; libevent calls the next *)
(* one when it is "none".  An address stands for the kind of record it     *)
(* came from, and records without an address (a CNAME) are not counted.    *)
(***************************************************************************)
EXTENDS Integers, Sequences

CONSTANTS
  Settings,  \* the settings of a request (see MCHttp)
  MaxRecords \* bound: the addresses in one reply

VARIABLES
  settings, \* those of the request
  call,     \* the callback that is being entered
  arg,      \* its Error, "ok" for NoError()
  query,    \* the query in progress: its type, and where it is
  found,    \* the number of addresses it found
  contexts, \* the QueryContext objects that evdns may call back
  result    \* ResolveHostnameResult

dnsVars == <<query, found, contexts, result>>

NoQuery == [type |-> "none", at |-> "nowhere"]
NoResult == [ipv4_err |-> "ok", ipv6_err |-> "ok", addresses |-> <<>>]

DnsInit ==
  /\ settings \in Settings
  /\ call = "none"
  /\ arg = "ok"
  /\ query = NoQuery
  /\ found = 0
  /\ contexts = 0
  /\ result = NoResult

\* Enter the callback c with an error.
Enter(c, err) == call' = c /\ arg' = err

\* query(): deferred to the next turn of the I/O loop.
Ask(type) == query' = [type |-> type, at |-> "soon"]

\* The callback of query().
Answer(err, n) ==
  /\ Enter("answer", err)
  /\ found' = n
  /\ query' = [query EXCEPT !.at = "answered"]

\* A literal address needs no query.
resolve_hostname(literal) ==
  IF literal
  THEN /\ result' = [NoResult EXCEPT !.addresses = <<"literal">>]
       /\ Enter("resolved", "ok")
       /\ UNCHANGED <<query, found, contexts>>
  ELSE /\ result' = NoResult
       /\ Ask("A")
       /\ Enter("none", "ok")
       /\ UNCHANGED <<found, contexts>>

\* A nameserver or an option that evdns refuses: there is no base.
create_evdns_base == settings.nameserver

\* It holds the evdns base and the callback until evdns calls back.
QueryContext == contexts' = contexts + 1

\* The checks before the request, the request that evdns refuses, and the
\* context that waits for its reply.
libevent_query ==
  \/ /\ settings.also_cname # "no"
     /\ Answer(IF settings.also_cname = "yes" THEN "NotImplemented" ELSE "Value", 0)
     /\ UNCHANGED contexts
  \/ /\ settings.also_cname = "no"
     /\ Answer(IF create_evdns_base THEN "Resolver" ELSE "Generic", 0)
     /\ UNCHANGED contexts
  \/ /\ settings.also_cname = "no" /\ create_evdns_base
     /\ query' = [query EXCEPT !.at = "evdns"]
     /\ QueryContext
     /\ UNCHANGED <<call, arg, found>>

system_resolver ==
  /\ IF settings.also_cname = "bad"
     THEN Answer("Value", 0)
     ELSE query' = [query EXCEPT !.at = "worker"] /\ UNCHANGED <<call, arg, found>>
  /\ UNCHANGED contexts

StartQuery ==
  /\ call = "none" /\ query.at = "soon"
  /\ CASE settings.engine = "libevent" -> libevent_query
       [] settings.engine = "system" -> system_resolver
       [] OTHER -> Answer("InvalidDnsEngine", 0) /\ UNCHANGED contexts
  /\ UNCHANGED <<settings, result>>

\* The errors of evdns, its own timeout among them, and of getaddrinfo().
dns_error == {"ok", "NotExist", "DnsTimeout"}
getaddrinfo_async_map_error == {"ok", "Resolver"}

\* The numbers of addresses that an answer may hold.
build_answers_evdns(err) == IF err = "ok" THEN 0 .. MaxRecords ELSE {0}
getaddrinfo_async_parse_response(err) == IF err = "ok" THEN 0 .. MaxRecords ELSE {0}

\* evdns calls back once; the context goes when the callback has returned.
dns_callback ==
  /\ call = "none" /\ query.at = "evdns"
  /\ \E err \in dns_error : \E n \in build_answers_evdns(err) : Answer(err, n)
  /\ contexts' = contexts - 1
  /\ UNCHANGED <<settings, result>>

\* getaddrinfo() returns in the thread of the worker, at any time.
getaddrinfo_async ==
  /\ query.at = "worker"
  /\ \E err \in getaddrinfo_async_map_error :
       /\ found' \in getaddrinfo_async_parse_response(err)
       /\ query' = [query EXCEPT !.at = err]
  /\ UNCHANGED <<settings, call, arg, contexts, result>>

\* Its result comes back to the I/O thread through call_soon().
ResultPosted ==
  /\ call = "none" /\ query.at \in {"ok", "Resolver"}
  /\ Answer(query.at, found)
  /\ UNCHANGED <<settings, contexts, result>>

\* The addresses of a reply, after those that are known.
Appended(type) == result.addresses \o [i \in 1 .. found |-> type]

OnIpv4 ==
  /\ call = "answer" /\ query.type = "A"
  /\ result' = [result EXCEPT !.ipv4_err = arg, !.addresses = Appended("A")]
  /\ Ask("AAAA")
  /\ Enter("none", "ok")
  /\ UNCHANGED <<settings, found, contexts>>

OnIpv6 ==
  /\ call = "answer" /\ query.type = "AAAA"
  /\ result' = [result EXCEPT !.ipv6_err = arg, !.addresses = Appended("AAAA")]
  /\ query' = NoQuery
  /\ Enter("resolved", "ok")
  /\ UNCHANGED <<settings, found, contexts>>

DnsNext ==
  \/ StartQuery \/ dns_callback \/ getaddrinfo_async \/ ResultPosted
  \/ OnIpv4 \/ OnIpv6

=============================================================================
