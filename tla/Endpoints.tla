------------------------------ MODULE Endpoints ------------------------------
(***************************************************************************)
(* How the name of a peer travels.  An endpoint that the user writes       *)
(* becomes an address to connect to, and comes back as peername()          *)
(* (net/utils.cpp); a URL becomes the Host and the target of a request,    *)
(* and another URL after a redirection (http/parse_url.cpp,                *)
(* http/request.cpp); the name of a PTR query becomes an address           *)
(* (dns/libevent_query.hpp); traceroute fills in its own addresses.        *)
(*                                                                         *)
(* A text is a record of the fields that http_parser tells apart: the      *)
(* `ports` are the numbers that follow the host after a colon, and `rest`  *)
(* the symbols of the path and of the query.                               *)
(***************************************************************************)
EXTENDS Integers, Sequences, SequencesExt

CONSTANTS
  Journeys,  \* what the user asks for: a behaviour follows one of them
  Locations, \* the Locations of the redirections
  MaxHops    \* bound: the redirections

VARIABLES
  asked,  \* history: one of Journeys
  stage,  \* how far the name has come
  value,  \* what it is there, or an error
  came    \* history: the URLs before the redirections, and the Locations

endpointVars == <<asked, stage, value, came>>

Fails(err) == [err |-> err]
Known(v) == "err" \notin DOMAIN v

-----------------------------------------------------------------------------
(* net/utils.cpp.  A host is of a kind, "ipv4", "ipv6" or "name".          *)

Families == [ipv4 |-> "AF_INET", ipv6 |-> "AF_INET6"]

\* Two bytes change places.
htons(p) == (p % 256) * 256 + p \div 256
ntohs(p) == htons(p)

sockaddr(kind, host, p) ==
  IF host.kind # kind THEN Fails("Value")
  ELSE [family |-> Families[kind], addr |-> host.addr, port |-> htons(p)]

make_sockaddr_ipv4(host, p) == sockaddr("ipv4", host, p)
make_sockaddr_ipv6(host, p) == sockaddr("ipv6", host, p)
make_sockaddr(host, p) ==
  IF Known(make_sockaddr_ipv4(host, p)) THEN make_sockaddr_ipv4(host, p)
  ELSE make_sockaddr_ipv6(host, p)

is_ipv6_addr(host) == Known(make_sockaddr_ipv6(host, 80))

\* What traceroute uses: no address stands for any.
storage_init(family, host, p) ==
  IF p \notin 0 .. 65535 THEN Fails("invalid port")
  ELSE IF host.kind = "none" THEN [family |-> family, addr |-> "any", port |-> htons(p)]
  ELSE IF family = "AF_INET6" THEN make_sockaddr_ipv6(host, p) ELSE make_sockaddr_ipv4(host, p)

endpoint_from_sockaddr_storage(ss) ==
  [hostname |-> [kind |-> CHOOSE k \in DOMAIN Families : Families[k] = ss.family,
                 addr |-> ss.addr],
   port |-> ntohs(ss.port)]

\* http_parser, as for CONNECT: a host, in brackets if of IPv6, and a port.
Port(ports) == Len(ports) = 1 /\ ports[1] <= 65535
parse_endpoint_internal(text) ==
  IF Port(text.ports) /\ text.brackets = (text.host.kind = "ipv6")
  THEN [hostname |-> text.host, port |-> text.ports[1]]
  ELSE Fails("Value")

Bare(text) == text.ports = <<>> /\ ~text.brackets

\* Mutant of serialize_address_port: no brackets.
serialize_address_portPlain(text, p) == [text EXCEPT !.ports = Append(@, p)]

\* Only what is an address of IPv6 as it stands is put in brackets.
serialize_address_port(text, p) ==
  [text EXCEPT !.brackets = @ \/ (Bare(text) /\ is_ipv6_addr(text.host)),
               !.ports = Append(@, p)]

serialize_endpoint(e) ==
  serialize_address_port([host |-> e.hostname, brackets |-> FALSE, ports |-> <<>>], e.port)

parse_endpoint(text, default_port) ==
  IF Known(parse_endpoint_internal(text)) THEN parse_endpoint_internal(text)
  ELSE parse_endpoint_internal(serialize_address_port(text, default_port))

-----------------------------------------------------------------------------
(* URLs.                                                                   *)

Lower == [HTTP |-> "http", HTTPS |-> "https"]
tolower(schema) == IF schema \in DOMAIN Lower THEN Lower[schema] ELSE schema
DefaultPort(schema) == IF schema = "https" THEN 443 ELSE 80

\* What http_parser takes for a URL.
http_parser_parse_url(text) ==
  /\ text.schema = "" <=> text.host.kind = "none"
  /\ text.ports = <<>> \/ Port(text.ports)
  /\ text.brackets = (text.host.kind = "ipv6")
  /\ text.rest # <<>> => text.rest[1] \in {"/", "?"}

\* Before the question mark, and after it.
PathOf(rest) == SubSeq(rest, 1, SelectInSeq(Append(rest, "?"), LAMBDA c : c = "?") - 1)
QueryOf(rest) == SubSeq(rest, Len(PathOf(rest)) + 2, Len(rest))

parse_url(text) ==
  IF ~http_parser_parse_url(text) THEN Fails("UrlParser")
  ELSE IF text.schema = "" THEN Fails("MissingUrlSchema")
  ELSE LET schema == tolower(text.schema)
           path == IF PathOf(text.rest) = <<>> THEN <<"/">> ELSE PathOf(text.rest)
           query == QueryOf(text.rest)
       IN [schema |-> schema, address |-> text.host,
           port |-> IF text.ports # <<>> THEN text.ports[1] ELSE DefaultPort(schema),
           path |-> path,
           pathquery |-> path \o (IF query = <<>> THEN <<>> ELSE <<"?">> \o query)]

\* The port is left out where the schema implies it.
OtherPort(url) ==
  IF url.schema \in {"http", "https"} /\ url.port # DefaultPort(url.schema)
  THEN <<url.port>> ELSE <<>>

Url_str(url) ==
  [schema |-> url.schema, host |-> url.address, brackets |-> is_ipv6_addr(url.address),
   ports |-> OtherPort(url), rest |-> IF url.pathquery # <<>> THEN url.pathquery ELSE <<"/">>]

\* A Location begins with "//", with "/", with a schema in small letters, or
\* with anything else: then it is added to the path.
redirect(url, location) ==
  LET path == IF Last(url.path) = "/" THEN url.path ELSE Append(url.path, "/")
  IN parse_url(CASE location.form = "//" -> [location.text EXCEPT !.schema = url.schema]
                 [] location.form = "/" -> Url_str([url EXCEPT !.pathquery = location.text.rest])
                 [] location.form = "http" -> location.text
                 [] OTHER -> Url_str([url EXCEPT !.pathquery = path \o location.text.rest]))

\* The Host and the target that the request is serialized with.
Host(url) == [host |-> url.address, brackets |-> FALSE, ports |-> OtherPort(url)]
Target(url_path, url) ==
  IF url_path = <<>> THEN url.pathquery
  ELSE IF url_path[1] = "/" THEN url_path ELSE <<"/">> \o url_path

-----------------------------------------------------------------------------
(* The names of PTR queries: a digit is its value, and the suffix, with or *)
(* without its dot at the end, is one symbol.                              *)

Dot == 16
Colon == 17
InAddrArpa == {18, 19}
Ip6Arpa == {20, 21}

LeadingRun(s, set) ==
  SubSeq(s, 1, SelectInSeq(Append(s, -1), LAMBDA c : c \notin set) - 1)
HasSuffix(s, run, suffixes) == Len(s) = Len(run) + 1 /\ Last(s) \in suffixes

\* Each label goes before those that came; what follows the last dot is lost.
unreverse_ipv4(s) ==
  LET run == LeadingRun(s, 0 .. 9 \cup {Dot})
      Symbol(acc, c) ==
        IF c # Dot THEN [acc EXCEPT !.t = Append(@, c), !.cur = @ * 10 + c]
        ELSE [r |-> acc.t \o (IF acc.seen = 0 THEN <<>> ELSE <<Dot>>) \o acc.r, t |-> <<>>,
              cur |-> 0, seen |-> acc.seen + 1, bad |-> acc.bad \/ acc.cur > 255]
      all == FoldLeft(Symbol, [r |-> <<>>, t |-> <<>>, cur |-> 0, seen |-> 0, bad |-> FALSE], run)
  IN IF all.bad \/ ~HasSuffix(s, run, InAddrArpa) THEN <<>> ELSE all.r

\* One digit, one dot, and so on; a colon after every four.
unreverse_ipv6(s) ==
  LET run == LeadingRun(s, 0 .. 15 \cup {Dot})
      digits == SelectSeq(run, LAMBDA c : c # Dot)
      Digit(r, i) == (IF i % 4 = 0 /\ i <= 28 THEN <<Colon>> ELSE <<>>) \o <<digits[i]>> \o r
  IN IF /\ \A i \in DOMAIN run : run[i] = Dot <=> i % 2 = 0
        /\ Len(run) % 2 = 0
        /\ HasSuffix(s, run, Ip6Arpa)
     THEN FoldLeft(Digit, <<>>, [i \in DOMAIN digits |-> i]) ELSE <<>>

\* inet_pton() of the C library, for an address with all of its parts.
Parts(s, dot) ==
  FoldLeft(LAMBDA parts, c : IF c = dot THEN Append(parts, <<>>)
                             ELSE [parts EXCEPT ![Len(parts)] = Append(@, c)], <<<<>>>>, s)
Number(part) == FoldLeft(LAMBDA n, c : n * 10 + c, 0, part)
inet_pton(family, s) ==
  IF family = "AF_INET"
  THEN LET parts == Parts(s, Dot)
       IN Len(parts) = 4 /\ \A i \in 1 .. 4 :
            /\ Len(parts[i]) \in 1 .. 3 /\ Number(parts[i]) <= 255
            /\ Len(parts[i]) > 1 => parts[i][1] # 0
  ELSE LET parts == Parts(s, Colon)
       IN Len(parts) = 8 /\ \A i \in 1 .. 8 : Len(parts[i]) \in 1 .. 4

\* The parts of libevent_query() that PTR queries have of their own.
resolve_reverse(type, name) ==
  CASE type = "REVERSE_A" /\ ~inet_pton("AF_INET", name) -> Fails("InvalidIPv4Address")
    [] type = "REVERSE_AAAA" /\ ~inet_pton("AF_INET6", name) -> Fails("InvalidIPv6Address")
    [] OTHER -> [type |-> type, name |-> name]

query_ptr(name) ==
  LET v4 == unreverse_ipv4(name)
      v6 == unreverse_ipv6(name)
  IN CASE v4 # <<>> -> resolve_reverse("REVERSE_A", v4)
       [] v4 = <<>> /\ v6 # <<>> -> resolve_reverse("REVERSE_AAAA", v6)
       [] OTHER -> Fails("InvalidNameForPTR")

-----------------------------------------------------------------------------
(* ooni/whatsapp.cpp: is an address in one of these networks?  Only tests  *)
(* ask this, as long as BUG_341_FIXED_ is not defined.                     *)

\* The bytes of the sockaddr, in their order in memory.
ip_to_bytes(host) ==
  LET ss == make_sockaddr(host, 0) IN IF Known(ss) THEN ss.addr ELSE <<>>

same_pre(ip1, ip2, pre_bits) ==
  LET full == pre_bits \div 8
      rem_bits == pre_bits % 8
      High(byte) == byte \div 2 ^ (8 - rem_bits)
  IN IF Len(ip1) # Len(ip2) THEN Fails("Generic")
     ELSE [same |-> /\ SubSeq(ip1, 1, full) = SubSeq(ip2, 1, full)
                    /\ rem_bits # 0 => High(ip1[full + 1]) = High(ip2[full + 1])]

ip_in_net(host, net) == same_pre(ip_to_bytes(host), ip_to_bytes(net.host), net.bits)

ip_in_nets(host, nets) ==
  \E i \in DOMAIN nets :
    LET res == ip_in_net(host, nets[i]) IN Known(res) /\ res.same

-----------------------------------------------------------------------------

EndpointsIdle == asked = [trip |-> "none"] /\ stage = "over" /\ value = <<>> /\ came = <<>>
EndpointsInit == asked \in Journeys /\ stage = "asked" /\ value = <<>> /\ came = <<>>

Becomes(v, next) == value' = v /\ stage' = IF Known(v) THEN next ELSE "over"

\* tcp_connect(), and the others that are given an endpoint.
ParseEndpoint ==
  /\ asked.trip = "tcp" /\ stage = "asked"
  /\ Becomes(parse_endpoint(asked.text, asked.default_port), "parsed")
  /\ UNCHANGED <<asked, came>>

\* connect_base(): a name has been resolved before.
ConnectBase ==
  /\ asked.trip = "tcp" /\ stage = "parsed" /\ value.hostname.kind # "name"
  /\ Becomes(make_sockaddr(value.hostname, value.port), "connected")
  /\ UNCHANGED <<asked, came>>

InitStorage ==
  /\ asked.trip = "storage" /\ stage = "asked"
  /\ Becomes(storage_init(asked.family, asked.host, asked.port), "connected")
  /\ UNCHANGED <<asked, came>>

\* peername(), of a socket that is connected.
sockname_peername_ ==
  /\ stage = "connected" /\ value.addr # "any"
  /\ Becomes(endpoint_from_sockaddr_storage(value), "over")
  /\ UNCHANGED <<asked, came>>

ParseUrl ==
  /\ asked.trip = "url" /\ stage = "asked"
  /\ Becomes(parse_url(asked.text), "requested")
  /\ UNCHANGED <<asked, came>>

Redirected ==
  /\ stage = "requested" /\ Len(came) < MaxHops
  /\ \E location \in Locations :
       /\ came' = Append(came, [url |-> value, location |-> location])
       /\ Becomes(redirect(value, location), "requested")
  /\ UNCHANGED asked

QueryPtr ==
  /\ asked.trip = "ptr" /\ stage = "asked"
  /\ Becomes(query_ptr(asked.name), "over")
  /\ UNCHANGED <<asked, came>>

IpInNets ==
  /\ asked.trip = "nets" /\ stage = "asked"
  /\ Becomes([inside |-> ip_in_nets(asked.host, asked.nets)], "over")
  /\ UNCHANGED <<asked, came>>

EndpointsNext ==
  \/ ParseEndpoint \/ ConnectBase \/ InitStorage \/ sockname_peername_
  \/ ParseUrl \/ Redirected \/ QueryPtr \/ IpInNets

\* Nothing follows: a peer of any address has no name.
EndpointsOver ==
  \/ stage = "over" \/ (stage = "requested" /\ Len(came) = MaxHops)
  \/ (stage = "parsed" /\ value.hostname.kind = "name")
  \/ (stage = "connected" /\ value.addr = "any")

-----------------------------------------------------------------------------

\* What a user may write: a port is optional, but for an address of IPv6
\* without brackets.
Sound(text) ==
  /\ text.ports = <<>> \/ Port(text.ports)
  /\ IF text.host.kind = "ipv6" THEN text.brackets \/ text.ports = <<>> ELSE ~text.brackets

Given(text, default) == IF text.ports = <<>> THEN default ELSE text.ports[1]

EndpointKept(e) ==
  /\ e = [hostname |-> asked.text.host, port |-> Given(asked.text, asked.default_port)]
  /\ parse_endpoint_internal(serialize_endpoint(e)) = e

\* In the order of a PTR name, dots after all of the digits.
Reversed(s) ==
  LET all == SelectSeq(s, LAMBDA c : c # Colon)
  IN FlattenSeq([i \in DOMAIN all |-> <<all[Len(all) + 1 - i], Dot>>])
ReversedParts(s) ==
  LET parts == Parts(s, Dot)
  IN FlattenSeq([i \in DOMAIN parts |-> Append(parts[Len(parts) + 1 - i], Dot)])

\* The bits of an address, the highest of each byte first.
Bits(bytes) ==
  FlattenSeq([i \in DOMAIN bytes |-> [b \in 1 .. 8 |-> (bytes[i] \div 2 ^ (8 - b)) % 2]])
InNet(host, net) ==
  /\ host.kind = net.host.kind
  /\ SubSeq(Bits(host.addr), 1, net.bits) = SubSeq(Bits(net.host.addr), 1, net.bits)

\* An endpoint that is sound comes back from the socket as it was written,
\* with the default port where it had none, and no other is accepted.  A URL of
\* HTTP is read back as it is written, its Host says where it leads (but for an
\* address of IPv6, which gets no brackets), its target begins with a slash, and
\* a redirection leaves the peer only if the Location names another.  A PTR
\* query asks about the address whose name was given (but digits right before
\* the suffix of IPv4 are overlooked).  An address is in a network if its first
\* bits are those of the network, as many as the mask says.
NamesKept ==
  CASE asked.trip = "tcp" ->
         /\ stage # "asked" => (Known(value) <=> Sound(asked.text))
         /\ stage = "parsed" \/ (stage = "over" /\ Known(value)) => EndpointKept(value)
    [] asked.trip = "storage" /\ stage # "asked" /\ asked.host.kind # "none" ->
         /\ Known(value) <=> /\ asked.host.kind \in DOMAIN Families
                            /\ Families[asked.host.kind] = asked.family
                            /\ asked.port \in 0 .. 65535
         /\ stage = "connected" => value = make_sockaddr(asked.host, asked.port)
         /\ stage = "over" /\ Known(value) => value = [hostname |-> asked.host, port |-> asked.port]
    [] asked.trip = "url" /\ stage # "asked" /\ Known(value) /\ value.schema \in {"http", "https"} ->
         /\ parse_url(Url_str(value)) = value
         /\ Target(asked.url_path, value)[1] = "/"
         /\ ~is_ipv6_addr(value.address) =>
              parse_endpoint(Host(value), DefaultPort(value.schema))
                = [hostname |-> value.address, port |-> value.port]
         /\ came # <<>> =>
              LET old == Last(came).url
                  location == Last(came).location
              IN /\ value.schema # old.schema => location.form = "http"
                 /\ value.address # old.address \/ value.port # old.port =>
                      location.form \in {"http", "//"} /\ value.address = location.text.host
    [] asked.trip = "ptr" /\ stage = "over" /\ Known(value) ->
         LET digits == IF value.type = "REVERSE_A" THEN ReversedParts(value.name)
                       ELSE Reversed(value.name)
         IN IsPrefix(digits, asked.name)
            /\ (asked.name[Len(asked.name) - 1] = Dot => Len(asked.name) = Len(digits) + 1)
    [] asked.trip = "nets" /\ stage = "over" ->
         value.inside <=> \E i \in DOMAIN asked.nets : InNet(asked.host, asked.nets[i])
    [] OTHER -> TRUE

=============================================================================
