------------------------------- MODULE MCHttp -------------------------------
(* The settings differ from a base case in what each branch looks at; the  *)
(* servers answer in full, cut the answer short, say too much, or nothing, *)
(* and the proxies accept, refuse, or go away half way.                    *)
EXTENDS Net

Base == [literal |-> TRUE, engine |-> "system", also_cname |-> "no",
         nameserver |-> TRUE, proxy |-> FALSE, ssl |-> "no",
         ignore_body |-> "no", max_redirects |-> 0]
Named == [Base EXCEPT !.literal = FALSE]
Evdns == [Named EXCEPT !.engine = "libevent"]

MCSettings ==
  {Base, Named, Evdns,
   [Named EXCEPT !.engine = "other"], [Named EXCEPT !.also_cname = "bad"],
   [Evdns EXCEPT !.also_cname = "yes"], [Evdns EXCEPT !.also_cname = "bad"],
   [Evdns EXCEPT !.nameserver = FALSE],
   [Base EXCEPT !.proxy = TRUE], [Base EXCEPT !.ssl = "noBundle"],
   [Base EXCEPT !.ignore_body = "bad"], [Base EXCEPT !.max_redirects = -1],
   [Base EXCEPT !.max_redirects = 2], [Base EXCEPT !.max_redirects = 2, !.ssl = "yes"],
   [Base EXCEPT !.ssl = "badSsl23"], [Base EXCEPT !.ssl = "badShutdown"]}

MCProxied == {[Base EXCEPT !.proxy = TRUE]}

Turns(turns, end) == [sent |-> <<>>, wire |-> <<>>, later |-> turns, end |-> end]

Replies == {<<"counted", "body">>, <<"counted">>, <<"untilEof", "chunk", "chunk">>,
            <<"empty">>, <<"empty", "extra">>, <<"moved">>, <<"movedNowhere">>,
            <<"movedBadly">>, <<"junk">>, <<>>}

MCServers == {Turns(<<r>>, end) : r \in Replies, end \in {"Eof", "Sys", "silent"}}
MCProxies == {Turns(<<<<"auth">>, <<"granted">>, r>>, end) :
              r \in {<<"counted", "body">>, <<"untilEof">>}, end \in {"Eof", "silent"}}
           \cup {Turns(<<<<"auth">>>>, "Eof"), Turns(<<<<"bad">>>>, "silent"),
                 Turns(<<<<"auth">>, <<"bad">>>>, "Eof")}

-----------------------------------------------------------------------------
(* The bytes of a connection: short messages in pieces of a few bytes, long *)
(* ones in larger ones.                                                    *)

Text(n) == [i \in 1 .. n |-> i % 5]
NdtTexts(texts, pieces) ==
  [protocol |-> "ndt", pieces |-> pieces,
   messages |-> [i \in DOMAIN texts |-> [type |-> i, text |-> texts[i]]]]
Granted == [version |-> 5, reply |-> 0, reserved |-> 0, atype |-> 3, name |-> 2]
Socks(auth, answer, pieces) ==
  [protocol |-> "socks5", pieces |-> pieces, auth |-> auth, answer |-> answer, data |-> <<72, 10>>]
Yes == <<5, 0>>
Resp(headers) == [protocol |-> "http", pieces |-> {1, 2, 3},
  response |-> [reason |-> <<"O", "K">>, headers |-> headers, body |-> <<"b", "c">>]]
H(k, v) == [key |-> k, value |-> v]
MCPeers ==
  {NdtTexts(<<Text(2), <<>>, Text(3)>>, {1, 2, 3, 5}), NdtTexts(<<Text(300), Text(1)>>, {3, 100})}
  \cup {Socks(Yes, a, {1, 2, 3}) :
          a \in {[Granted EXCEPT !.atype = t] : t \in 1 .. 4}
                \cup {[Granted EXCEPT !.version = 4], [Granted EXCEPT !.reply = 1],
                      [Granted EXCEPT !.reserved = 1]}}
  \cup {Socks(Yes, [Granted EXCEPT !.name = n], {5, 100}) : n \in {127, 250}}
  \cup {Socks(auth, Granted, {1}) : auth \in {<<4, 0>>, <<5, 255>>}}
  \cup {Resp(<<>>), Resp(<<H(<<"k">>, <<"v", "w">>), H(<<"l", "m">>, <<>>), H(<<"n">>, <<"v">>)>>)}
  \cup {[protocol |-> "lines", pieces |-> {1, 2, 3}, data |-> d] :
          d \in {<<1, 13, 10, 2, 10, 10, 3>>, <<1, 2, 3, 4, 5, 6, 10>>, <<1, 2, 3, 4, 5, 6>>}}

-----------------------------------------------------------------------------
(* Endpoints, URLs with two redirections, and names of PTR queries.        *)

Example == [kind |-> "name", addr |-> "example"]
V4 == [kind |-> "ipv4", addr |-> "v4"]
V6 == [kind |-> "ipv6", addr |-> "v6"]
NoHost == [kind |-> "none", addr |-> ""]
Hosts == {Example, V4, V6}
Ports == {<<>>, <<80>>, <<443>>, <<53>>, <<65535>>, <<65536>>, <<80, 81>>}
Texts == [host : Hosts, brackets : BOOLEAN, ports : Ports]
UrlTexts == [host : Hosts \cup {NoHost}, brackets : BOOLEAN, ports : {<<>>, <<443>>, <<65536>>},
             schema : {"", "http", "https", "HTTP", "ftp"},
             rest : {<<>>, <<"/">>, <<"/", "a", "?", "q">>, <<"?", "q">>, <<"a">>}]
Rest(form, symbols) == [form |-> form, text |-> [rest |-> symbols]]
Away(form, schema, host, ports) ==
  [form |-> form, text |-> [schema |-> schema, host |-> host, brackets |-> host = V6,
                            ports |-> ports, rest |-> <<"/", "b">>]]
MCLocations ==
  {Away("http", "https", h, p) : h \in Hosts, p \in {<<>>, <<8>>}}
  \cup {Away("//", "", V6, <<>>)}
  \cup {Rest("/", <<"/">>), Rest("/", <<"/", "c", "?", "r">>)}
  \cup {Rest("other", <<"d">>), Rest("other", <<"d", "?", "s">>),
        Rest("other", <<"HTTP:", "/", "/", "example">>)}

Labels(digits) == FlattenSeq([i \in DOMAIN digits |-> Append(digits[i], Dot)])
Nibbles(n) == FlattenSeq([i \in 1 .. n |-> <<(i * 7) % 16, Dot>>])
PtrNames ==
  {Labels(<<<<1>>, <<0>>, <<2, 0>>, d>>) \o <<e>> :
     d \in {<<1, 2, 7>>, <<2, 5, 6>>, <<>>, <<0, 1>>}, e \in {18, 19, 20}}
  \cup {Labels(<<<<1>>, <<0>>, <<0>>, <<1, 2, 7>>>>) \o <<9, 18>>, <<1, Dot, 18>>, <<18>>, <<>>}
  \cup {Nibbles(n) \o <<e>> : n \in {4, 31, 32, 33}, e \in {18, 20, 21}}
  \cup {Nibbles(32) \o <<5, 20>>, <<5, 5>> \o Nibbles(31) \o <<20>>}

\* Addresses that differ in no bit or in one, and every mask of IPv4.
Address(kind, bytes) == [kind |-> kind, addr |-> bytes]
Flip(byte, k) ==
  LET bit == 2 ^ (8 - k) IN IF (byte \div bit) % 2 = 1 THEN byte - bit ELSE byte + bit
Flipped(bytes, k) ==
  [i \in DOMAIN bytes |-> IF (k + 7) \div 8 = i THEN Flip(bytes[i], ((k - 1) % 8) + 1)
                         ELSE bytes[i]]
Bytes4 == <<31, 13, 64, 51>>
Bytes6 == [i \in 1 .. 16 |-> 17 * (i % 15)]
Net4(bits) == [host |-> Address("ipv4", Bytes4), bits |-> bits]
Net6(bits) == [host |-> Address("ipv6", Bytes6), bits |-> bits]
NetTrips ==
  [trip : {"nets"}, host : {Address("ipv4", Flipped(Bytes4, k)) : k \in 0 .. 32},
   nets : {<<Net6(64), Net4(bits)>> : bits \in 0 .. 32}]
  \cup [trip : {"nets"}, host : {Address("ipv6", Flipped(Bytes6, k)) : k \in {0, 61, 62, 64, 65, 128}},
         nets : {<<Net4(8), Net6(bits)>> : bits \in {61, 64, 128}}]

MCJourneys ==
  [trip : {"tcp"}, text : Texts, default_port : {80, 53}]
  \cup [trip : {"storage"}, family : {"AF_INET", "AF_INET6"}, host : Hosts \cup {NoHost},
        port : {-1, 0, 53, 65535, 65536}]
  \cup [trip : {"url"}, text : UrlTexts, url_path : {<<>>, <<"x">>}]
  \cup [trip : {"ptr"}, name : PtrNames]
  \cup NetTrips
=============================================================================
