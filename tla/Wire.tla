-------------------------------- MODULE Wire --------------------------------
(***************************************************************************)
(* What the protocols read from a connection, byte by byte: net::Buffer    *)
(* (net/buffer.cpp) fed by data that arrives in pieces of any size, with   *)
(* the messages of NDT (ndt/messages_impl.hpp), the answers of a SOCKS5    *)
(* proxy (net/socks5.cpp), the callbacks of http_parser                    *)
(* (http/response_parser.hpp) and readline() on top of it.  The modules    *)
(* Transport, Http and Ndt take whole messages for granted.                *)
(*                                                                         *)
(* A byte is a number, but for HTTP, where a symbol stands for the         *)
(* characters that http_parser tells apart.                                *)
(***************************************************************************)
EXTENDS Integers, Sequences, SequencesExt

CONSTANTS
  Peers,     \* what a peer says: the protocol, its messages, and the sizes of
             \* the pieces that arrive (the last one is what is left)
  MaxLine    \* the argument of readline()

Byte == 0 .. 255
\* What http_parser passes on.
Character == STRING

\* A message of NDT has its length in 16 bits, an answer to the first request of
\* SOCKS5 has two bytes, and a header of HTTP has a name.
Peer(p) ==
  /\ p.pieces \subseteq Nat
  /\ CASE p.protocol = "ndt" ->
            /\ p.messages \in Seq([type : Byte, text : Seq(Byte)])
            /\ \A i \in DOMAIN p.messages : Len(p.messages[i].text) < 65536
       [] p.protocol = "socks5" ->
            /\ p.auth \in Seq(Byte) /\ Len(p.auth) = 2 /\ p.data \in Seq(Byte)
            /\ p.answer \in [version : Byte, reply : Byte, reserved : Byte, atype : Byte, name : Byte]
       [] p.protocol = "http" ->
            /\ p.response \in [reason : Seq(Character), body : Seq(Character),
                               headers : Seq([key : Seq(Character), value : Seq(Character)])]
            /\ \A i \in DOMAIN p.response.headers : p.response.headers[i].key # <<>>
       [] p.protocol = "lines" -> p.data \in Seq(Byte)
       [] OTHER -> FALSE

ASSUME WireConstants == MaxLine \in Nat /\ \A p \in Peers : Peer(p)

VARIABLES
  said,      \* history: one of Peers
  wire,      \* what has not arrived yet
  buffer,    \* the bytes of the Buffer
  reading,   \* where the reader is, and what it keeps
  got        \* what the reader has passed up

wireVars == <<said, wire, buffer, reading, got>>

-----------------------------------------------------------------------------
(* Buffer.  Only for_each() tells chunks apart, and what reads with it takes  *)
(* all of them.                                                            *)

length(b) == Len(b)
readpeek(b, upto) == SubSeq(b, 1, IF upto < length(b) THEN upto ELSE length(b))
discard(b, count) == SubSeq(b, count + 1, length(b))
readn(b, n) == IF n > length(b) THEN <<>> ELSE readpeek(b, n)

\* memcpy() and ntohs(), or ntohl(): big endian.
read_uint(b, size) ==
  LET v[i \in 0 .. size] == IF i = 0 THEN 0 ELSE v[i - 1] * 256 + b[i]
  IN IF length(b) < size THEN [err |-> "NotEnoughData", value |-> 0]
     ELSE [err |-> "ok", value |-> v[size]]
write_uint8(n) == <<n % 256>>
write_uint16(n) == <<(n \div 256) % 256, n % 256>>

\* evbuffer_search_eol() with EVBUFFER_EOL_CRLF: a line feed, and what is before.
readline(b, maxline) ==
  LET ends == {i \in DOMAIN b : b[i] = 10}
      len == CHOOSE i \in ends : \A j \in ends : i <= j
  IN CASE ends = {} /\ length(b) > maxline -> [err |-> "EOLNotFound", line |-> <<>>]
       [] ends = {} /\ length(b) <= maxline -> [err |-> "ok", line |-> <<>>]
       [] OTHER -> IF len > maxline THEN [err |-> "LineTooLong", line |-> <<>>]
                   ELSE [err |-> "ok", line |-> readpeek(b, len)]

-----------------------------------------------------------------------------
(* What the peers send.                                                    *)

\* A message of NDT, in both directions.
format_any(m) == write_uint8(m.type) \o write_uint16(Len(m.text)) \o m.text

\* What a proxy answers: an address is four bytes, a name, or sixteen bytes.
Reply(m) ==
  <<m.version, m.reply, m.reserved, m.atype>>
  \o (CASE m.atype = 1 -> [i \in 1 .. 4 |-> 0]
        [] m.atype = 3 -> <<m.name>> \o [i \in 1 .. m.name |-> 0]
        [] OTHER -> [i \in 1 .. 16 |-> 0])
  \o write_uint16(80)

\* The symbols of a response: status, field and value characters, body, ends.
Chars(kind, text) == [i \in DOMAIN text |-> [kind |-> kind, char |-> text[i]]]
End(kind) == <<[kind |-> kind, char |-> ""]>>
HeaderLine(h) == Chars("field", h.key) \o End("colon") \o Chars("value", h.value) \o End("crlf")
Response(m) ==
  Chars("status", m.reason) \o End("eol")
  \o FlattenSeq([i \in DOMAIN m.headers |-> HeaderLine(m.headers[i])])
  \o End("blank") \o Chars("body", m.body)

Encoded(p) ==
  CASE p.protocol = "ndt" -> FlattenSeq([i \in DOMAIN p.messages |-> format_any(p.messages[i])])
    [] p.protocol = "socks5" -> p.auth \o Reply(p.answer) \o p.data
    [] p.protocol = "http" -> Response(p.response)
    [] p.protocol = "lines" -> p.data

NoHeaders == [prev |-> "nothing", field |-> <<>>, value |-> <<>>, headers |-> <<>>,
              reason |-> <<>>, body |-> <<>>, complete |-> FALSE]

WireIdle ==
  /\ said = [protocol |-> "idle"] /\ wire = <<>> /\ buffer = <<>> /\ got = <<>>
  /\ reading = [at |-> "idle"]

WireInit ==
  /\ said \in Peers
  /\ wire = Encoded(said)
  /\ buffer = <<>>
  /\ reading = [at |-> CASE said.protocol = "ndt" -> "header"
                         [] said.protocol = "socks5" -> "auth"
                         [] said.protocol = "http" -> "feed"
                         [] said.protocol = "lines" -> "line",
                type |-> 0, length |-> 0]
  /\ got = IF said.protocol = "http" THEN NoHeaders ELSE <<>>

-----------------------------------------------------------------------------
(* NDT: read_ll() upon readn() of net/transport.cpp.                       *)

needed ==
  CASE reading.at = "header" -> 3
    [] reading.at = "payload" -> reading.length
    [] OTHER -> 0

\* Mutant of Ready: the callback comes with the first byte.
ReadyAtOnce == length(buffer) >= 1

\* readn() calls back when the buffer holds what was asked for.
Ready == length(buffer) >= needed

read_ll ==
  /\ reading.at \in {"header", "payload"} /\ Ready
  /\ IF reading.at = "header"
     THEN /\ reading' = [reading EXCEPT !.at = "payload", !.type = read_uint(buffer, 1).value,
                                        !.length = read_uint(discard(buffer, 1), 2).value]
          /\ buffer' = discard(buffer, 3)
          /\ UNCHANGED got
     ELSE /\ got' = Append(got, [type |-> reading.type, text |-> readn(buffer, reading.length)])
          /\ buffer' = discard(buffer, Len(readn(buffer, reading.length)))
          /\ reading' = [reading EXCEPT !.at = "header"]
  /\ UNCHANGED <<said, wire>>

-----------------------------------------------------------------------------
(* SOCKS5.                                                                 *)

socks5_parse_auth_response(b) ==
  LET readbuf == readn(b, 2)
  IN CASE readbuf = <<>> -> "again"
       [] readbuf # <<>> /\ readbuf[1] # 5 -> "BadSocksVersion"
       [] readbuf # <<>> /\ readbuf[1] = 5 /\ readbuf[2] # 0 -> "NoAvailableSocksAuthentication"
       [] OTHER -> "ok"

\* A char is signed here: a name of 128 bytes or more has a negative length.
Signed(byte) == IF byte > 127 THEN byte - 256 ELSE byte

\* A negative number is a very large size_t.
total(peekbuf) ==
  4 + 2 + (CASE peekbuf[4] = 1 -> 4
             [] peekbuf[4] = 3 -> 1 + Signed(peekbuf[5])
             [] peekbuf[4] = 4 -> 16)

socks5_parse_connect_response(b) ==
  LET p == readpeek(b, 5)
  IN CASE length(b) < 5 -> "again"
       [] length(b) >= 5 /\ p[1] # 5 -> "BadSocksVersion"
       [] length(b) >= 5 /\ p[1] = 5 /\ p[2] # 0 -> "Socks"
       [] length(b) >= 5 /\ p[1] = 5 /\ p[2] = 0 /\ p[3] # 0 -> "BadSocksReservedField"
       [] OTHER -> IF p[4] \notin {1, 3, 4} THEN "BadSocksAtypeValue"
                   ELSE IF total(p) < 0 \/ length(b) < total(p) THEN "again" ELSE "ok"

Answered(err, b, next, count) ==
  CASE err = "again" -> buffer' = b /\ UNCHANGED <<reading, got>>
    [] err = "ok" -> /\ reading' = [reading EXCEPT !.at = next]
                     /\ IF next = "up" THEN got' = discard(b, count) /\ buffer' = <<>>
                        ELSE buffer' = discard(b, count) /\ UNCHANGED got
    [] OTHER -> reading' = [reading EXCEPT !.at = err] /\ buffer' = b /\ UNCHANGED got

\* The handlers of the data from the proxy; then it goes up as it comes.
socks5_connect_reads(d) ==
  LET b == buffer \o d
  IN CASE reading.at = "auth" -> Answered(socks5_parse_auth_response(b), b, "connect", 2)
       [] reading.at = "connect" ->
            LET err == socks5_parse_connect_response(b)
            IN Answered(err, b, "up", IF err = "ok" THEN total(readpeek(b, 5)) ELSE 0)
       [] reading.at = "up" -> got' = got \o d /\ UNCHANGED <<reading, buffer>>

-----------------------------------------------------------------------------
(* HTTP.                                                                   *)

Header(p) == [key |-> p.field, value |-> p.value]

\* A field that follows a value completes a header.
do_header_internal(p, cur, text) ==
  [(CASE p.prev = "nothing" /\ cur = "field" -> [p EXCEPT !.field = text]
      [] p.prev = "value" /\ cur = "field" ->
           [p EXCEPT !.headers = Append(@, Header(p)), !.field = text]
      [] p.prev = "field" /\ cur = "field" -> [p EXCEPT !.field = @ \o text]
      [] p.prev = "field" /\ cur = "value" -> [p EXCEPT !.value = text]
      [] p.prev = "value" /\ cur = "value" -> [p EXCEPT !.value = @ \o text])
   EXCEPT !.prev = cur]

do_headers_complete_(p) ==
  [p EXCEPT !.complete = TRUE,
            !.headers = IF p.field # <<>> THEN Append(@, Header(p)) ELSE @]

Callback(p, c) ==
  CASE c.kind = "status" -> [p EXCEPT !.reason = @ \o c.text]
    [] c.kind \in {"field", "value"} -> do_header_internal(p, c.kind, c.text)
    [] c.kind = "headers" -> do_headers_complete_(p)
    [] c.kind = "body" -> [p EXCEPT !.body = @ \o c.text]

\* http_parser calls back for the characters of one kind that come together, at
\* their end or at that of the chunk; and for the end of a field or of a value
\* that has no character in this chunk, with none.
ItemEnded == [colon |-> "field", crlf |-> "value", eol |-> "status", blank |-> "headers"]
NoRun == [kind |-> "none", text |-> <<>>]
Called(e) == IF e.run = NoRun THEN e.parser ELSE Callback(e.parser, e.run)
Execute(e, s) ==
  LET ends == s.kind \in DOMAIN ItemEnded
      kind == IF ends THEN ItemEnded[s.kind] ELSE s.kind
      parser == IF e.run.kind = kind THEN e.parser ELSE Called(e)
      text == IF e.run.kind = kind THEN e.run.text ELSE <<>>
  IN IF ends THEN [parser |-> Callback(parser, [kind |-> kind, text |-> text]), run |-> NoRun]
     ELSE [parser |-> parser, run |-> [kind |-> kind, text |-> Append(text, s.char)]]

http_parser_execute(parser, chunk) ==
  LET after[i \in 0 .. Len(chunk)] ==
        IF i = 0 THEN [parser |-> parser, run |-> NoRun] ELSE Execute(after[i - 1], chunk[i])
  IN Called(after[Len(chunk)])

\* feed() and parse(): each chunk is executed, and all is discarded.
feed_chunk(d) == got' = http_parser_execute(got, d) /\ UNCHANGED <<reading, buffer>>

-----------------------------------------------------------------------------
(* Lines.                                                                  *)

Line == readline(buffer, MaxLine)
LineReady == buffer # <<>> /\ (Line.err # "ok" \/ Line.line # <<>>)

TakeLine ==
  /\ reading.at = "line" /\ LineReady
  /\ IF Line.err = "ok"
     THEN /\ got' = Append(got, Line.line) /\ buffer' = discard(buffer, Len(Line.line))
          /\ UNCHANGED reading
     ELSE reading' = [reading EXCEPT !.at = Line.err] /\ UNCHANGED <<got, buffer>>
  /\ UNCHANGED <<said, wire>>

-----------------------------------------------------------------------------

Waits ==
  CASE reading.at \in {"header", "payload"} -> ~Ready
    [] reading.at = "line" -> ~LineReady
    [] reading.at \in {"auth", "connect", "up", "feed"} -> TRUE
    [] OTHER -> FALSE

\* A proxy answers one request, and then the other.
Available ==
  IF reading.at = "auth" THEN Len(wire) - Len(Reply(said.answer) \o said.data) ELSE Len(wire)

Keep(d) == buffer' = buffer \o d /\ UNCHANGED <<reading, got>>

\* emit_data(): the reader, which waits for data, is given what arrived.
PieceArrives ==
  /\ Waits /\ Available > 0
  /\ \E n \in said.pieces \cup {Available} :
       /\ n <= Available
       /\ wire' = SubSeq(wire, n + 1, Len(wire))
       /\ LET d == SubSeq(wire, 1, n)
          IN CASE reading.at \in {"auth", "connect", "up"} -> socks5_connect_reads(d)
               [] reading.at = "feed" -> feed_chunk(d)
               [] OTHER -> Keep(d)
  /\ UNCHANGED said

WireNext == PieceArrives \/ read_ll \/ TakeLine

\* An error has ended the reading, or there is nothing more to read.
WireOver ==
  CASE reading.at \in {"header", "payload", "auth", "connect", "up", "feed", "line"} ->
         Waits /\ Available = 0
    [] OTHER -> TRUE

-----------------------------------------------------------------------------

Sent(messages) == [i \in DOMAIN messages |-> [type |-> messages[i].type, text |-> messages[i].text]]

\* However the bytes arrive, what is passed up is what the peer said, in whole
\* messages and in order, nothing is kept back once all has arrived, and what
\* follows the answer of a proxy belongs to the one who asked for it.  (But a
\* proxy that tells a name of 128 bytes or more is misread.)
MessagesWhole ==
  CASE said.protocol = "ndt" ->
         /\ IsPrefix(got, Sent(said.messages))
         /\ WireOver => got = Sent(said.messages)
    [] said.protocol = "socks5" /\ (said.answer.atype = 3 => said.answer.name < 128) ->
         /\ reading.at = "up" => IsPrefix(got, said.data)
         /\ WireOver => \/ reading.at = "up" /\ got = said.data
                        \/ said.auth # <<5, 0>>
                        \/ said.answer.version # 5 \/ said.answer.reply # 0
                        \/ said.answer.reserved # 0 \/ said.answer.atype \notin {1, 3, 4}
    [] said.protocol = "http" ->
         /\ got.complete => got.headers = said.response.headers /\ got.reason = said.response.reason
         /\ WireOver => got.complete /\ got.body = said.response.body
    [] said.protocol = "lines" ->
         /\ IsPrefix(FlattenSeq(got), said.data)
         /\ \A i \in DOMAIN got : Len(got[i]) <= MaxLine /\ Last(got[i]) = 10
                                  /\ \A j \in 1 .. Len(got[i]) - 1 : got[i][j] # 10
         /\ WireOver /\ reading.at = "line" =>
              10 \notin Range(buffer)
    [] OTHER -> TRUE

=============================================================================
