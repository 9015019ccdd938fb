---------------------------- MODULE CommandLine ----------------------------
(***************************************************************************)
(* The program measurement_kit (src/measurement_kit/): getopt() hands over *)
(* the options of the program, then those of the nettest that was named;   *)
(* each one configures an object of include/measurement_kit/nettests.hpp,  *)
(* at once or, if it belongs to the program, by an initializer that is     *)
(* kept until the defaults are set.  What run() gets are settings like     *)
(* those of any other application (see Settings).                          *)
(*                                                                         *)
(* Arguments are classes of texts: "huge" is an integer that does not fit  *)
(* an int, and "word" is no number.                                        *)
(***************************************************************************)
EXTENDS Integers, Sequences, SequencesExt, FiniteSets, TLC

CONSTANT MaxOptions   \* bound: the options on the command line

ASSUME CommandLineConstants == MaxOptions \in Nat

S == INSTANCE Settings

VARIABLES
  cli,           \* which options are read: "global", "own", "ready", "exited", "moved"
  taken,         \* how many options were read
  initializers,  \* what the options of the program will do to the object
  test,          \* the object: its settings and log_level
  locals,        \* the local variables of the nettest's main()
  given          \* history: what the user asked of the object, in order

commandLineVars == <<cli, taken, initializers, test, locals, given>>

Texts == {"huge", "word", ""}

-----------------------------------------------------------------------------
(* The setters of BaseTest.                                                *)

LevelNames == <<"ERR", "WARNING", "INFO", "DEBUG", "DEBUG2">>

Untouched == "untouched"
NewTest(name) ==
  [name |-> name, options |-> << >>, annotations |-> << >>, inputs |-> <<>>,
   filepaths |-> <<>>, log |-> Untouched, output |-> Untouched, level |-> 2]

set_option(key, value) == [setter |-> "option", key |-> key, value |-> value]
add_annotation(key, value) == [setter |-> "annotation", key |-> key, value |-> value]
Setter(name, text) == [setter |-> name, text |-> text]

Apply(t, s) ==
  CASE s.setter = "option" -> [t EXCEPT !.options = (s.key :> s.value) @@ @]
    [] s.setter = "annotation" -> [t EXCEPT !.annotations = (s.key :> s.value) @@ @]
    [] s.setter = "input" -> [t EXCEPT !.inputs = Append(@, S!Str(s.text))]
    [] s.setter = "filepath" -> [t EXCEPT !.filepaths = Append(@, S!Str(s.text))]
    [] s.setter = "error_filepath" -> [t EXCEPT !.log = s.text]
    [] s.setter = "output_filepath" -> [t EXCEPT !.output = s.text]
    [] s.setter = "verbosity" -> [t EXCEPT !.level = s.text]
    [] s.setter = "verbose" -> [t EXCEPT !.level = IF @ < Len(LevelNames) THEN @ + 1 ELSE @]

ApplyAll(t, setters) == FoldLeft(Apply, t, setters)

\* What run_static() hands to mk_task_start(): a section is there when a setter
\* has touched it, and "log_level" always is.
MembersOf(f) == SetToSeq({S!Member(k, f[k]) : k \in DOMAIN f})

SettingsOf(t) ==
  LET sections ==
        [name |-> S!Str(t.name), options |-> S!Object(MembersOf(t.options)),
         annotations |-> S!Object(MembersOf(t.annotations)),
         inputs |-> S!Array(t.inputs), input_filepaths |-> S!Array(t.filepaths),
         log_filepath |-> S!Str(t.log), output_filepath |-> S!Str(t.output),
         log_level |-> S!Str(LevelNames[t.level])]
      untouched ==
        {k \in {"annotations"} : DOMAIN t.annotations = {}} \cup
        {k \in {"inputs"} : t.inputs = <<>>} \cup {k \in {"input_filepaths"} : t.filepaths = <<>>}
        \cup {k \in {"log_filepath"} : t.log = Untouched} \cup {k \in {"output_filepath"} : t.output = Untouched}
  IN S!TopLevel([k \in DOMAIN sections \ untouched |-> sections[k]])

-----------------------------------------------------------------------------
(* The options of the program.                                             *)

\* Those that take an argument, with what their initializer does.
WithArgument(o, text) ==
  CASE o = "-A" -> add_annotation("key", S!Str("value"))
    [] o = "-b" -> set_option("bouncer_base_url", S!Str(text))
    [] o = "-c" -> set_option("collector_base_url", S!Str(text))
    [] o = "-l" -> Setter("error_filepath", text)
    [] o = "-o" -> Setter("output_filepath", text)
    [] o = "--ca-bundle-path" -> set_option("net/ca_bundle_path", S!Str(text))
    [] o = "--geoip-country-path" -> set_option("geoip_country_path", S!Str(text))
    [] o = "--geoip-asn-path" -> set_option("geoip_asn_path", S!Str(text))

TakeArgument ==
  {"-A", "-b", "-c", "-l", "-o", "--ca-bundle-path", "--geoip-country-path", "--geoip-asn-path"}

TakeNone ==
  ("-g" :> set_option("no_geoip", S!Bool("true"))) @@
  ("-N" :> set_option("no_file_report", S!Bool("true"))) @@
  ("-n" :> set_option("no_collector", S!Bool("true"))) @@
  ("--no-bouncer" :> set_option("no_bouncer", S!Bool("true"))) @@
  ("--no-resolver-lookup" :> set_option("no_resolver_lookup", S!Bool("true"))) @@
  ("-v" :> Setter("verbose", ""))

-----------------------------------------------------------------------------
(* The nettests and their options.                                         *)

\* The class that each word of the command line stands for, and the name that
\* its constructor sets.
kv_modules ==
  [dash |-> "DashTest", captiveportal |-> "CaptivePortalTest",
   dns_injection |-> "DnsInjectionTest", facebook_messenger |-> "FacebookMessengerTest",
   http_header_field_manipulation |-> "HttpHeaderFieldManipulationTest",
   http_invalid_request_line |-> "HttpInvalidRequestLineTest",
   meek_fronted_requests |-> "MeekFrontedRequestsTest", ndt |-> "NdtTest",
   tcp_connect |-> "TcpConnectTest", telegram |-> "TelegramTest",
   web_connectivity |-> "WebConnectivityTest", whatsapp |-> "WhatsappTest"]

NameOf ==
  [CaptivePortalTest |-> "CaptivePortal", DashTest |-> "Dash", DnsInjectionTest |-> "DnsInjection",
   FacebookMessengerTest |-> "FacebookMessenger",
   HttpHeaderFieldManipulationTest |-> "HttpHeaderFieldManipulation",
   HttpInvalidRequestLineTest |-> "HttpInvalidRequestLine",
   MeekFrontedRequestsTest |-> "MeekFrontedRequests", NdtTest |-> "Ndt",
   TcpConnectTest |-> "TcpConnect", TelegramTest |-> "Telegram",
   WebConnectivityTest |-> "WebConnectivity", WhatsappTest |-> "Whatsapp"]

NoLocals == [phases |-> {}, chosen |-> FALSE, backend |-> "8.8.8.1", hostname |-> "", port |-> ""]

\* What an option does at once to the object, and to the local variables.
Does(setters) == [setters |-> setters, locals |-> locals]
Keeps(new) == [setters |-> <<>>, locals |-> new]
Refused == [setters |-> <<>>, locals |-> NoLocals, exit |-> TRUE]

\* must_convert_to_int() exits.
Numeric(key, text) ==
  IF text = "huge" THEN Does(<<set_option(key, S!Int64(text))>>) ELSE Refused

ndt_main(o, text) ==
  CASE o = "-C" -> Does(<<set_option("mlabns/policy", S!Str("country")),
                          set_option("mlabns/country", S!Str(text))>>)
    [] o = "-m" -> Does(<<set_option("mlabns/policy", S!Str("metro")),
                          set_option("mlabns/metro", S!Str(text))>>)
    [] o = "-N" -> Does(<<set_option("mlabns_tool_name", S!Str(text))>>)
    [] o = "-p" -> Numeric("port", text)
    [] o \in {"-T download", "-T download-ext", "-T upload"} ->
         Keeps([locals EXCEPT !.phases = @ \cup {o}, !.chosen = TRUE])
    [] o = "-T none" -> Keeps([locals EXCEPT !.phases = {}, !.chosen = TRUE])
    [] OTHER -> Refused

dash_main(o, text) ==
  CASE o = "-b" -> Numeric("constant_bitrate", text)
    [] o = "-U" -> Does(<<set_option("uuid", S!Str(text))>>)
    [] OTHER -> Refused

web_connectivity_main(o, text) ==
  CASE o = "-b" -> Does(<<set_option("backend", S!Str(text))>>)
    [] o = "-f" -> Does(<<Setter("filepath", text)>>)
    [] o = "-t" -> Numeric("max_runtime", text)
    [] o = "-u" -> Does(<<Setter("input", text)>>)
    [] OTHER -> Refused

dns_injection_main(o, text) ==
  CASE o = "-f" -> Does(<<Setter("filepath", text)>>)
    [] o = "-r" -> Keeps([locals EXCEPT !.backend = text])
    [] OTHER -> Refused

http_invalid_request_line_main(o, text) ==
  CASE o = "-b" -> Keeps([locals EXCEPT !.hostname = text])
    [] o = "-p" -> Keeps([locals EXCEPT !.port = text])
    [] OTHER -> Refused

http_header_field_manipulation_main(o, text) ==
  IF o = "-b" THEN Does(<<set_option("backend", S!Str(text))>>) ELSE Refused

meek_fronted_requests_main(o, text) ==
  CASE o = "-B" -> Does(<<set_option("expected_body", S!Str(text))>>)
    [] o = "-f" -> Does(<<Setter("filepath", text)>>)
    [] OTHER -> Refused

tcp_connect_main(o, text) == IF o = "-f" THEN Does(<<Setter("filepath", text)>>) ELSE Refused
whatsapp_main(o, text) ==
  IF o = "-e" THEN Does(<<set_option("all_endpoints", S!Bool("true"))>>) ELSE Refused

Main(o, text) ==
  CASE test.name = "Ndt" -> ndt_main(o, text)
    [] test.name = "Dash" -> dash_main(o, text)
    [] test.name = "WebConnectivity" -> web_connectivity_main(o, text)
    [] test.name = "DnsInjection" -> dns_injection_main(o, text)
    [] test.name = "HttpInvalidRequestLine" -> http_invalid_request_line_main(o, text)
    [] test.name = "HttpHeaderFieldManipulation" -> http_header_field_manipulation_main(o, text)
    [] test.name = "MeekFrontedRequests" -> meek_fronted_requests_main(o, text)
    [] test.name = "TcpConnect" -> tcp_connect_main(o, text)
    [] test.name = "Whatsapp" -> whatsapp_main(o, text)
    [] OTHER -> Refused

OwnOptions ==
  {"-b", "-B", "-C", "-e", "-f", "-m", "-N", "-p", "-r", "-t", "-u", "-U",
   "-T none", "-T download", "-T download-ext", "-T upload", "-T word"}

\* After its options, each nettest does this to the object; ndt and dash take
\* one more argument.
Positional == ("Ndt" :> "address") @@ ("Dash" :> "hostname")

Finally(rest) ==
  (IF test.name = "Ndt" /\ locals.chosen
   THEN <<set_option("test_suite", S!Int64(IF locals.phases = {} THEN "0" ELSE "2"))>> ELSE <<>>)
  \o (IF rest = "" THEN <<>> ELSE <<set_option(Positional[test.name], S!Str(rest))>>)
  \o (CASE test.name = "DnsInjection" ->
             <<set_option("backend", S!Str(locals.backend))>>
        [] test.name = "HttpInvalidRequestLine" /\ locals.hostname # "" ->
             <<set_option("backend", S!Str(IF locals.port = "" THEN locals.hostname ELSE "word:2"))>>
        [] OTHER -> <<>>)

Defaults ==
  <<Setter("verbosity", 3), set_option("net/ca_bundle_path", S!Str("")),
    set_option("geoip_country_path", S!Str("country.mmdb")),
    set_option("geoip_asn_path", S!Str("asn.mmdb"))>>

\* Mutant of common_init: the initializers run first, and lose to the defaults.
common_initDefaultsLast(il, t) == ApplyAll(t, il \o Defaults)

common_init(il, t) == ApplyAll(t, Defaults \o il)

-----------------------------------------------------------------------------
CommandLineInit ==
  /\ cli = "global" /\ taken = 0 /\ initializers = <<>>
  /\ test = NewTest("") /\ locals = NoLocals /\ given = <<>>

Exits == cli' = "exited" /\ UNCHANGED <<taken, initializers, test, locals, given>>

GlobalOption ==
  /\ cli = "global" /\ taken < MaxOptions
  /\ \E s \in {WithArgument(o, text) : o \in TakeArgument \ {"-A"}, text \in {"word", ""}} \cup
              {WithArgument("-A", "key=value")} \cup Range(TakeNone) :
       initializers' = Append(initializers, s) /\ given' = Append(given, s)
  /\ taken' = taken + 1
  /\ UNCHANGED <<cli, test, locals>>

\* --help, --version, --list, an annotation that is no pair, an option that is
\* unknown, no nettest, or one that does not exist.
GlobalExit == cli = "global" /\ Exits

NameNettest ==
  /\ cli = "global"
  /\ \E n \in DOMAIN kv_modules : test' = NewTest(NameOf[kv_modules[n]])
  /\ cli' = "own"
  /\ UNCHANGED <<taken, initializers, locals, given>>

OwnOption ==
  /\ cli = "own" /\ taken < MaxOptions
  /\ \E o \in OwnOptions, text \in Texts :
       LET effect == Main(o, text) IN
       IF effect = Refused THEN Exits
       ELSE /\ test' = ApplyAll(test, effect.setters) /\ locals' = effect.locals
            /\ given' = given \o effect.setters
            /\ taken' = taken + 1
            /\ UNCHANGED <<cli, initializers>>

\* Too many arguments are left over.
OwnExit == cli = "own" /\ Exits

\* The last of main(), before run().
Ready ==
  /\ cli = "own"
  /\ \E rest \in {""} \cup IF test.name \in DOMAIN Positional THEN {"word"} ELSE {} :
       /\ test' = common_init(initializers, ApplyAll(test, Finally(rest)))
       /\ given' = given \o Finally(rest)
  /\ cli' = "ready"
  /\ UNCHANGED <<taken, initializers, locals>>

CommandLineNext ==
  GlobalOption \/ GlobalExit \/ NameNettest \/ OwnOption \/ OwnExit \/ Ready

-----------------------------------------------------------------------------
\* Of several values for one option, the last one counts.
LastValue(key) ==
  LET i == CHOOSE n \in DOMAIN given :
             /\ given[n].setter = "option" /\ given[n].key = key
             /\ \A m \in n + 1 .. Len(given) : given[m].setter = "option" => given[m].key # key
  IN given[i].value

GivenOptions == {given[i].key : i \in {n \in DOMAIN given : given[n].setter = "option"}}
GivenTexts(setter) ==
  SelectSeq(given, LAMBDA s : s.setter = setter)

\* A command line that is accepted gives settings in which the engine finds
\* nothing to refuse, nor to warn about: the options exist there, with those
\* types.  And they say what the user said last, whatever the defaults are; an
\* empty text takes the option away, also its default.
CommandLineHonoured ==
  cli = "ready" =>
    LET r == S!Prepared(SettingsOf(test))
        verbose == Len(GivenTexts("verbose"))
    IN /\ ~r.refused /\ r.warned = {}
       /\ \A key \in GivenOptions :
            IF LastValue(key) = S!Str("") THEN key \notin DOMAIN r.options
            ELSE key \in DOMAIN r.options /\ r.options[key] = S!Scalar(LastValue(key))
       /\ r.verbosity = LevelNames[IF verbose > 2 THEN 5 ELSE 3 + verbose]
       /\ r.inputs = [i \in DOMAIN GivenTexts("input") |-> GivenTexts("input")[i].text]
       /\ S!Unreadable(r.options) = {}
=============================================================================
