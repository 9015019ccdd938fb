-------------------------- MODULE WebConnectivity --------------------------
(***************************************************************************)
(* ooni/web_connectivity.cpp: resolve the name of a URL, connect to its    *)
(* addresses, fetch it, ask the backend to do the same (the control), and  *)
(* compare what both have seen.                                            *)
(***************************************************************************)
EXTENDS Probes

CONSTANTS
  WebAddresses, PrivateAddresses,
  Asn,           \* the addresses with a known ASN, and which it is
  Pages,         \* [length, status, headers, title] of an HTTP response
  CommonHeaders, \* COMMON_SERVER_HEADERS
  LongWords      \* the words of titles that have five letters or more

ASSUME WebConstants ==
  /\ PrivateAddresses \subseteq WebAddresses /\ DOMAIN Asn \subseteq WebAddresses
  /\ \A page \in Pages : page.length \in Nat /\ page.status \in Nat

Unmatched == [body |-> "null", status |-> "null", headers |-> "null", title |-> "null"]

\* The URL may be no URL, or have an address in the place of a name.
WebInit ==
  \E url \in {"bad", "name", "address"} :
    TestInit([name |-> "web_connectivity", url |-> url], "dns", {<<"dns">>},
             [failure |-> "none", dns_consistency |-> "null", match |-> Unmatched,
              accessible |-> "null", blocking |-> "null", control_failure |-> "none",
              http_experiment_failure |-> "none", tcp_connect |-> <<>>])

IsWeb == test.name = "web_connectivity"

-----------------------------------------------------------------------------
(* The measurements.                                                       *)

Sockets(addresses) == {<<"tcp", ip>> : ip \in addresses}

WebStarts(addresses) ==
  IF addresses = {} THEN Begin("http", {<<"http">>}) ELSE Begin("tcp", Sockets(addresses))

\* web_connectivity() and the callback of experiment_dns_query(), which goes
\* on with no address if there was an error.
WebDns ==
  /\ IsWeb /\ stage = "dns"
  /\ \/ /\ test.url = "bad"
        /\ entry' = [entry EXCEPT !.failure = "ParsingUrl"]
        /\ Begin("done", {}) /\ Record(<<"dns">>, {})
     \/ \E found \in SUBSET WebAddresses :
          /\ test.url # "bad"
          /\ test.url = "address" => Cardinality(found) = 1
          /\ Record(<<"dns">>, found)
          /\ WebStarts(found) /\ UNCHANGED entry
  /\ UNCHANGED <<test, open>>

Measured == results[<<"dns">>]

\* handle_connect(): the last one goes on after its transport is closed.
WebConnected ==
  /\ IsWeb /\ stage = "tcp"
  /\ \E socket \in waiting, r \in tcp_connect :
       /\ Record(socket, r) /\ Keep(socket, r)
       /\ entry' = [entry EXCEPT !.tcp_connect = Append(@,
            [ip |-> socket[2], success |-> r = "ok",
             blocked |-> IF r = "ok" THEN "no" ELSE "null"])]
       /\ CASE ~IsLast(socket) -> StillWaiting(socket)
            [] IsLast(socket) /\ r = "ok" -> Begin("closing", {socket})
            [] OTHER -> Begin("http", {<<"http">>})
  /\ UNCHANGED test

WebClosed ==
  /\ IsWeb /\ stage = "closing"
  /\ open' = open \ waiting
  /\ Begin("http", {<<"http">>})
  /\ UNCHANGED <<test, results, entry>>

\* experiment_http_request(), with the response in results.
WebFetched ==
  /\ IsWeb /\ stage = "http"
  /\ \/ \E page \in Pages :
          Record(<<"http">>, [failure |-> "none", page |-> page]) /\ UNCHANGED entry
     \/ \E err \in {"dns_lookup_error", "other"} :
          /\ Record(<<"http">>, [failure |-> err])
          /\ entry' = [entry EXCEPT !.http_experiment_failure = err]
  /\ Begin("control", {<<"control">>})
  /\ UNCHANGED <<test, open>>

-----------------------------------------------------------------------------
(* The comparisons.  Here `ours` is the page and `control` the document.    *)

\* In the proportion 7 : 10, without what floating point rounds.
body_length_match(ours, theirs) ==
  \/ ours.length = theirs.length
  \/ /\ 10 * ours.length > 7 * theirs.length
     /\ 10 * theirs.length > 7 * ours.length

\* An error of the server in the control matches any status.
status_code_match(ours, theirs) == theirs.status \div 100 # 5 => ours.status = theirs.status

headers_match(ours, theirs) ==
  \/ ours.headers = theirs.headers
  \/ (ours.headers \cap theirs.headers) \ CommonHeaders # {}

\* The first long word decides, if the other title has a word in its place.
title_match(ours, theirs) ==
  LET long == {i \in DOMAIN ours.title : ours.title[i] \in LongWords}
      first == CHOOSE i \in long : \A j \in long : i <= j
  IN IF long = {} \/ first > Len(theirs.title) THEN ours.title = theirs.title
     ELSE ours.title[first] = theirs.title[first]

YesNo(condition) == IF condition THEN "yes" ELSE "no"

compare_http_requests(ours, theirs) ==
  [body |-> YesNo(body_length_match(ours, theirs)),
   status |-> YesNo(status_code_match(ours, theirs)),
   headers |-> YesNo(headers_match(ours, theirs)),
   title |-> YesNo(title_match(ours, theirs))]

\* dns_experiment_failure is always null: an error looks like no address.
compare_dns_queries(control) ==
  LET asns(addresses) == {Asn[ip] : ip \in addresses \cap DOMAIN Asn} IN
  \/ test.url = "address"
  \/ Measured = control.addrs
  \/ /\ Measured \cap PrivateAddresses = {}
     /\ \/ Measured \cap control.addrs # {}
        \/ asns(Measured) \cap asns(control.addrs) # {}

Known(control) == {i \in DOMAIN entry.tcp_connect : entry.tcp_connect[i].ip \in DOMAIN control.tcp}

IsBlocked(record, control) == control.tcp[record.ip] = "ok" /\ ~record.success

\* compare_tcp_connect(): idx only counts the records that the control knows,
\* so that what is found for the n-th of those is written into the n-th of all.
MarkBlocked(control) ==
  LET idx(i) == Cardinality({j \in Known(control) : j <= i})
      written == {idx(i) : i \in Known(control)}
      source(n) == CHOOSE i \in Known(control) : idx(i) = n
  IN [n \in DOMAIN entry.tcp_connect |->
        IF n \notin written THEN entry.tcp_connect[n]
        ELSE [entry.tcp_connect[n] EXCEPT
                !.blocked = YesNo(IsBlocked(entry.tcp_connect[source(n)], control))]]

AllReached(control) == \A i \in Known(control) : ~IsBlocked(entry.tcp_connect[i], control)

\* The reason, from the failures here and there.
Blocking(consistent, reached, ours, theirs, expected, dnsFailure) ==
  CASE consistent /\ ~reached /\ ours # "none" -> "tcp_ip"
    [] consistent /\ reached /\ ours = "none" /\ theirs = "none" /\ ~expected -> "http-diff"
    [] consistent /\ reached /\ ours # "none" /\ theirs = "none" ->
         IF ours = "dns_lookup_error" THEN "dns" ELSE "http-failure"
    [] ~consistent /\ ~expected -> "dns"
    [] consistent /\ ~reached /\ ours = "none" /\ theirs = "none" /\ ~expected /\ dnsFailure -> "dns"
    [] OTHER -> "no"

\* compare_control_experiment(), when the control did not fail.
Compared(control) ==
  LET ours == entry.http_experiment_failure
      both == ours = "none" /\ control.http.failure = "none"
      match == IF both THEN compare_http_requests(results[<<"http">>].page, control.http.page)
               ELSE Unmatched
      expected == /\ both /\ match.status = "yes"
                  /\ "yes" \in {match.body, match.headers, match.title}
      consistent == compare_dns_queries(control)
      blocking == Blocking(consistent, AllReached(control), ours, control.http.failure,
                           expected, control.dnsFailure)
  IN [entry EXCEPT !.match = match,
        !.dns_consistency = IF consistent THEN "consistent" ELSE "inconsistent",
        !.tcp_connect = MarkBlocked(control),
        !.blocking = blocking, !.accessible = YesNo(blocking = "no")]

\* The control is only asked for the public addresses, and may not have tried
\* them all; no answer leaves out a failure, but one may lack the page.
ControlHttp ==
  {[failure |-> "none", page |-> page] : page \in Pages}
    \cup {[failure |-> "other"], [failure |-> "none", missing |-> TRUE]}

Controls ==
  [http : ControlHttp, addrs : SUBSET (WebAddresses \ PrivateAddresses), dnsFailure : BOOLEAN,
   tcp : UNION {[tried -> tcp_connect] : tried \in SUBSET (Measured \ PrivateAddresses)}]

\* To convert a page that is missing throws, out of the callback.
Throws(control) ==
  /\ entry.http_experiment_failure = "none"
  /\ control.http.failure = "none" /\ "page" \notin DOMAIN control.http

\* The callback of control_request().
WebControl ==
  /\ IsWeb /\ stage = "control"
  /\ \/ \E err \in {"json_parse_error", "request"} :
          /\ Record(<<"control">>, [failed |-> TRUE])
          /\ entry' = [entry EXCEPT !.control_failure = err]
          /\ Begin("done", {})
     \/ \E control \in Controls :
          /\ Record(<<"control">>, control)
          /\ IF Throws(control) THEN Begin("thrown", {}) /\ UNCHANGED entry
             ELSE Begin("done", {}) /\ entry' = Compared(control)
  /\ UNCHANGED <<test, open>>

WebNext == WebDns \/ WebConnected \/ WebClosed \/ WebFetched \/ WebControl

-----------------------------------------------------------------------------

\* The addresses that the control reached and that we did not.
Cut(control) ==
  {ip \in DOMAIN control.tcp : control.tcp[ip] = "ok" /\ results[<<"tcp", ip>>] = "failed"}

\* What the entry accuses is backed by what was measured here and there.  A
\* connection is blamed only with an address that the control reached, and the
\* pages only without one; the name is blamed if no address of it is private
\* and the control saw one of them, only for an error of the lookup, or for the
\* failure of the control itself.  As many connections are marked as blocked as
\* were cut; and a connection has its own mark as long as the control tried it
\* and all those before it.  Behind an address that it did not try, a mark may
\* be on a connection before its own, never on one after it.
WebVerdict ==
  IsWeb /\ stage = "done" /\ entry.blocking # "null" =>
    LET control == results[<<"control">>]
        failed == results[<<"http">>].failure
        records == entry.tcp_connect
        Marked(i) == {j \in 1 .. i : records[j].blocked = "yes"}
        WereCut(i) == {j \in 1 .. i : records[j].ip \in Cut(control)}
    IN /\ entry.blocking = "tcp_ip" => Cut(control) # {} /\ failed # "none"
       /\ entry.blocking \in {"http-diff", "http-failure"} => Cut(control) = {}
       /\ entry.blocking = "dns" /\ Measured \cap control.addrs # {}
            /\ Measured \cap PrivateAddresses = {} =>
            failed = "dns_lookup_error" \/ control.dnsFailure
       /\ entry.blocking = "no" /\ failed # "none" /\ entry.dns_consistency = "consistent" =>
            control.http.failure # "none"
       /\ \A i \in DOMAIN records :
            /\ Cardinality(WereCut(i)) <= Cardinality(Marked(i))
            /\ i = Len(records) => Cardinality(WereCut(i)) = Cardinality(Marked(i))
            /\ (\A j \in 1 .. i : records[j].ip \in DOMAIN control.tcp) =>
                 records[i].blocked = YesNo(records[i].ip \in Cut(control))
=============================================================================
