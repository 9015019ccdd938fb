----------------------------- MODULE Middleboxes -----------------------------
(***************************************************************************)
(* The tests of what stands between us and the network: captive_portal,    *)
(* http_invalid_request_line, http_header_field_manipulation, and the      *)
(* tests of one measurement (meek_fronted_requests, dns_injection,         *)
(* tcp_connect).                                                           *)
(***************************************************************************)
EXTENDS Probes

CONSTANTS
  Vendors,      \* gen_http_inputs(), a sequence
  RandomNames,  \* the random hostnames
  RequestLines, \* the subtests with invalid request lines: five in the code
  HeaderNames,  \* header names; those of the request
  SentHeaders

ASSUME MiddleboxConstants ==
  /\ Vendors # <<>> /\ RandomNames # {} /\ IsFiniteSet(RequestLines)
  /\ SentHeaders \subseteq HeaderNames

TrueIf(condition) == IF condition THEN "true" ELSE "false"

-----------------------------------------------------------------------------
(* Captive portals.                                                        *)

VendorTests == [i \in DOMAIN Vendors |-> <<"vendor", Vendors[i]>>]

CaptiveInit ==
  TestInit([name |-> "captive_portal"], "vendors", Elements(VendorTests),
           [vendor_tests |-> << >>, ms_dns |-> {}, google_dns |-> "unset"])

IsCaptive == test.name = "captive_portal"

\* The page, or its status, is the one that the vendor serves, or is not.
VendorCallback ==
  /\ IsCaptive /\ stage = "vendors"
  /\ \E m \in Running(VendorTests), r \in {"expected", "other", "failed"} :
       /\ Record(m, r)
       /\ entry' = [entry EXCEPT !.vendor_tests =
            [v \in DOMAIN @ \cup {m[2]} |->
               IF v # m[2] THEN @[v]
               ELSE IF r = "failed" THEN "failure" ELSE TrueIf(r = "expected")]]
       /\ IF IsLast(m) THEN Begin("ncsi", {<<"ncsi">>}) ELSE StillWaiting(m)
  /\ UNCHANGED <<test, open>>

\* dns_msft_ncsi(), and the beginning of dns_random_hostnames().
NcsiCallback ==
  /\ IsCaptive /\ stage = "ncsi"
  /\ \E r \in {{}, {"131.107.255.255"}, {"other"}} :
       /\ Record(<<"ncsi">>, r)
       /\ entry' = [entry EXCEPT !.ms_dns = r, !.google_dns = "true"]
  /\ Begin("random", {<<"random", name>> : name \in RandomNames})
  /\ UNCHANGED <<test, open>>

\* "if any random domains resolve, change to false"
Resolved(e, r) == IF r = "address" THEN [e EXCEPT !.google_dns = "false"] ELSE e

RandomCallback ==
  /\ IsCaptive /\ stage = "random"
  /\ \E m \in waiting, r \in {"address", "none"} :
       /\ Record(m, r) /\ entry' = Resolved(entry, r)
       /\ IF IsLast(m) THEN Begin("done", {}) ELSE StillWaiting(m)
  /\ UNCHANGED <<test, open>>

-----------------------------------------------------------------------------
(* Invalid request lines.                                                  *)

Subtests == {<<"line", i>> : i \in RequestLines}

\* The test helper may have no endpoint that can be parsed.
LinesInit ==
  \E backend \in {"ok", "bad"} :
    TestInit([name |-> "http_invalid_request_line", backend |-> backend],
             IF backend = "ok" THEN "lines" ELSE "done",
             IF backend = "ok" THEN Subtests ELSE {},
             [failure |-> IF backend = "ok" THEN "none" ELSE "Value", tampering |-> "null",
              tampering_list |-> <<>>, failure_list |-> <<>>])

IsLines == test.name = "http_invalid_request_line"

\* The last subtest looks at the lists of all of them.
Merge(e) ==
  LET tampering == Elements(e.tampering_list) IN
  [e EXCEPT
     !.failure = IF "failed" \in Elements(e.failure_list) THEN "ParallelOperation" ELSE @,
     !.tampering = CASE "true" \in tampering -> "true"
                     [] "false" \in tampering /\ "true" \notin tampering -> "false"
                     [] OTHER -> @]

handle_response(m, tampering, failure) ==
  LET told == [entry EXCEPT !.tampering_list = Append(@, tampering),
                            !.failure_list = Append(@, failure)]
  IN IF IsLast(m) THEN Begin("done", {}) /\ entry' = Merge(told)
     ELSE StillWaiting(m) /\ entry' = told

Subtest(m) == IF m \in DOMAIN results THEN results[m] ELSE "connecting"

\* Connected, a subtest sends its line and waits for 5 seconds.
LineConnected ==
  /\ IsLines
  /\ \E m \in waiting :
       /\ Subtest(m) = "connecting"
       /\ \/ /\ Record(m, "sent") /\ Keep(m, "ok")
             /\ UNCHANGED <<stage, waiting, entry>>
          \/ Record(m, "failed") /\ handle_response(m, "null", "failed") /\ UNCHANGED open
  /\ UNCHANGED test

\* The line comes back as it was, or does not; an error on the connection has
\* no handler, and looks like an answer that was cut short.
LineTimer ==
  /\ IsLines
  /\ \E m \in waiting, received \in {"same", "different"} :
       Subtest(m) = "sent" /\ Record(m, received)
  /\ UNCHANGED <<test, stage, waiting, entry, open>>

LineClosed ==
  /\ IsLines
  /\ \E m \in waiting :
       /\ Subtest(m) \in {"same", "different"}
       /\ open' = open \ {m}
       /\ handle_response(m, TrueIf(Subtest(m) = "different"), "null")
  /\ UNCHANGED <<test, results>>

-----------------------------------------------------------------------------
(* The manipulation of header fields.                                      *)

HeadersInit ==
  TestInit([name |-> "http_header_field_manipulation"], "request", {<<"request">>},
           [failure |-> "none", total |-> "null", request_line |-> "null",
            diff |-> {}, field_name |-> "null"])

IsHeaders == test.name = "http_header_field_manipulation"

\* What the helper has seen, as the body of its response.
Bodies ==
  {[kind |-> "empty"], [kind |-> "not JSON"], [kind |-> "not an object"]}
    \cup [kind : {"object"}, line : {"same", "other", "missing"}, keys : SUBSET HeaderNames]

\* Without a response nothing is compared.  When we cannot connect there is an
\* empty one, unless not even the request could be made.
compare_headers_response(body) ==
  CASE body.kind \in {"empty", "not JSON"} ->
         [entry EXCEPT !.total = "true", !.request_line = "true"]
    [] body.kind = "not an object" -> \* an exception, caught by the caller
         [entry EXCEPT !.total = "false", !.request_line = "true", !.failure = "exception"]
    [] OTHER ->
         LET diff == (SentHeaders \ body.keys) \cup (body.keys \ SentHeaders) IN
         [entry EXCEPT !.total = "false", !.request_line = TrueIf(body.line # "same"),
                       !.diff = diff, !.field_name = TrueIf(diff # {})]

WithFailure(e, r) == IF r = "failed" /\ e.failure = "none" THEN [e EXCEPT !.failure = "request"] ELSE e

HeadersCallback ==
  /\ IsHeaders /\ stage = "request"
  /\ \/ \E r \in http_request, body \in Bodies :
          /\ Record(<<"request">>, [result |-> r, body |-> body])
          /\ entry' = WithFailure(compare_headers_response(body), r)
     \/ /\ Record(<<"request">>, [result |-> "failed", body |-> [kind |-> "none"]])
        /\ entry' = WithFailure(entry, "failed")
  /\ Begin("done", {})
  /\ UNCHANGED <<test, open>>

-----------------------------------------------------------------------------
(* The tests of one measurement.                                           *)

SingleInit ==
  \E name \in {"meek_fronted_requests", "dns_injection", "tcp_connect"}, input \in {"ok", "bad"} :
    TestInit([name |-> name, input |-> input], "single", {<<name>>},
             [failure |-> "none", says |-> "null"])

\* An error of the request is told beside whether the body is the expected one,
\* when there is a response.
meek_fronted_requests ==
  /\ test.name = "meek_fronted_requests"
  /\ IF test.input = "bad"
     THEN entry' = [entry EXCEPT !.failure = "Value"]
     ELSE \E r \in http_request, says \in {"true", "false", "null"} :
            /\ r = "ok" => says # "null"
            /\ entry' = [failure |-> IF r = "ok" THEN "none" ELSE "request", says |-> says]
  /\ Begin("done", {}) /\ UNCHANGED open

\* Any answer to a query that nobody should answer is injected.  A bad
\* nameserver calls back with an error, later.
dns_injection ==
  /\ test.name = "dns_injection"
  /\ \E answer \in (IF test.input = "bad" THEN {"false"} ELSE {"true", "false"}) :
       entry' = [entry EXCEPT !.says = answer]
  /\ Begin("done", {}) /\ UNCHANGED open

\* Said to be a success once the transport is closed.
TcpConnects ==
  /\ test.name = "tcp_connect" /\ stage = "single"
  /\ \/ /\ test.input = "ok"
        /\ Begin("closing", {<<"tcp">>}) /\ open' = {<<"tcp">>} /\ UNCHANGED entry
     \/ entry' = [entry EXCEPT !.says = "failed"] /\ Begin("done", {}) /\ UNCHANGED open

TcpClosed ==
  /\ test.name = "tcp_connect" /\ stage = "closing"
  /\ Begin("done", {}) /\ open' = {}
  /\ entry' = [entry EXCEPT !.says = "success"]

SingleCallback ==
  /\ \/ stage = "single" /\ (meek_fronted_requests \/ dns_injection)
     \/ TcpConnects \/ TcpClosed
  /\ UNCHANGED <<test, results>>

MiddleboxesInit == CaptiveInit \/ LinesInit \/ HeadersInit \/ SingleInit

MiddleboxesNext ==
  \/ VendorCallback \/ NcsiCallback \/ RandomCallback
  \/ LineConnected \/ LineTimer \/ LineClosed
  \/ HeadersCallback \/ SingleCallback

-----------------------------------------------------------------------------

\* Each vendor has its verdict, and the random names are clean if none of them
\* resolved.
CaptiveVerdict ==
  /\ DOMAIN entry.vendor_tests = Elements(Vendors)
  /\ \A v \in Elements(Vendors) :
       entry.vendor_tests[v] = "true" <=> results[<<"vendor", v>>] = "expected"
  /\ entry.google_dns =
       TrueIf(Seen({<<"random", name>> : name \in RandomNames}, "address") = {})

\* Tampering is told if any line came back different, and denied if at least
\* one came back, and all that did the same; a failure, if any did not connect.
LinesVerdict ==
  test.backend = "ok" =>
    /\ Len(entry.tampering_list) = Cardinality(RequestLines)
    /\ entry.tampering = "true" <=> Seen(Subtests, "different") # {}
    /\ entry.tampering = "null" <=> Seen(Subtests, "failed") = Subtests
    /\ entry.failure = "none" <=> Seen(Subtests, "failed") = {}

\* The names of the headers are judged only from an answer of the helper, and a
\* request that failed is never passed over.
HeadersVerdict ==
  LET r == results[<<"request">>] IN
  /\ r.result = "failed" => entry.failure # "none"
  /\ entry.field_name # "null" => r.body.kind = "object"
  /\ entry.field_name = "false" => r.body.keys = SentHeaders
  /\ r.body.kind = "object" => entry.total = "false"

MiddleboxesVerdict ==
  stage = "done" =>
    /\ IsCaptive => CaptiveVerdict
    /\ IsLines => LinesVerdict
    /\ IsHeaders => HeadersVerdict
=============================================================================
