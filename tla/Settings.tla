------------------------------ MODULE Settings ------------------------------
(***************************************************************************)
(* The settings of a task, as task_run_legacy() (engine/autoapi.cpp) looks *)
(* at them before it starts anything: sections with the wrong type refuse  *)
(* the task, unknown keys and options of the wrong type only make it warn, *)
(* and what is left is copied into the nettest as options, annotations,    *)
(* inputs and disabled events.  Options become text (common/scalar.hpp),   *)
(* and are converted again by whoever reads them.                          *)
(*                                                                         *)
(* A JSON value has a type, and the text, the members or the items that go *)
(* with it.  Texts are classes: "0", "1" and "2" are numbers, "huge" is an *)
(* integer that does not fit an int, "frac" is not an integer, "" is the   *)
(* empty string, and every other text is no number.                        *)
(***************************************************************************)
EXTENDS Naturals, Sequences, Functions

Str(text) == [type |-> "string", text |-> text]
Int64(text) == [type |-> "integer", text |-> text]
Float(text) == [type |-> "float", text |-> text]
Bool(text) == [type |-> "boolean", text |-> text]
Null == [type |-> "null", text |-> "null"]
Array(items) == [type |-> "array", items |-> items]
Member(key, value) == [key |-> key, value |-> value]
Object(members) == [type |-> "object", members |-> members]
\* At the top level, the keys are what matters: `at` is a function.
TopLevel(at) == [type |-> "object", at |-> at]

IsSequence(s) == Len(s) \in Nat /\ DOMAIN s = 1 .. Len(s)

\* The values of the library that parses JSON: no two members of an object have
\* the same key, and an integer is one.
IsJson(settings) ==
  settings.type = "object" =>
    \A section \in DOMAIN settings.at :
      LET value == settings.at[section] IN
      /\ value.type = "array" => IsSequence(value.items)
      /\ value.type = "object" =>
           /\ IsSequence(value.members)
           /\ \A i, j \in DOMAIN value.members :
                value.members[i].key = value.members[j].key => i = j
           /\ \A m \in Range(value.members) :
                m.value.type = "integer" => m.value.text \in {"0", "1", "2", "huge"}

-----------------------------------------------------------------------------
(* The tables.                                                             *)

KnownTasks ==
  {"CaptivePortal", "Dash", "DnsInjection", "FacebookMessenger",
   "HttpHeaderFieldManipulation", "HttpInvalidRequestLine", "MeekFrontedRequests",
   "Ndt", "TcpConnect", "Telegram", "WebConnectivity", "Whatsapp"}

NeedsInput(task) ==
  task \in {"WebConnectivity", "DnsInjection", "MeekFrontedRequests", "TcpConnect"}

KnownEvents ==
  {"bug.json_dump", "failure.asn_lookup", "failure.cc_lookup", "failure.ip_lookup",
   "failure.measurement", "failure.measurement_submission",
   "failure.network_name_lookup", "failure.report_create", "failure.report_close",
   "failure.resolver_lookup", "failure.startup", "log", "measurement", "status.end",
   "status.geoip_lookup", "status.progress", "status.queued",
   "status.measurement_start", "status.measurement_submission",
   "status.measurement_done", "status.report_close", "status.report_create",
   "status.resolver_lookup", "status.started", "status.update.performance",
   "status.update.websites", "task_terminated"}

LogLevels == {"ERR", "WARNING", "INFO", "DEBUG", "DEBUG2"}

SectionType ==
  [name |-> "string", annotations |-> "object", disabled_events |-> "array",
   inputs |-> "array", input_filepaths |-> "array", log_filepath |-> "string",
   log_level |-> "string", options |-> "object", output_filepath |-> "string"]

BooleanOptions ==
  {"all_endpoints", "ignore_bouncer_error", "ignore_open_report_error", "no_bouncer",
   "no_collector", "no_file_report", "no_geoip", "no_resolver_lookup",
   "randomize_input", "save_real_probe_asn", "save_real_probe_cc",
   "save_real_probe_ip", "save_real_probe_network_name", "save_real_resolver_ip"}
IntegerOptions == {"constant_bitrate", "max_runtime", "port", "test_suite"}
FloatOptions == {"net/timeout"}
StringOptions ==
  {"address", "backend", "bouncer_base_url", "collector_base_url", "dns/nameserver",
   "dns/engine", "expected_body", "geoip_asn_path", "geoip_country_path", "hostname",
   "mlabns/address_family", "mlabns/base_url", "mlabns/country", "mlabns/metro",
   "mlabns/policy", "mlabns_tool_name", "net/ca_bundle_path", "probe_ip", "probe_asn",
   "probe_cc", "probe_network_name", "server", "software_name", "software_version",
   "uuid"}

\* The option is mapped, and the value has the type of the map.
HasMappedType(key, value) ==
  \/ key \in BooleanOptions /\ value.type = "boolean"
  \/ key \in IntegerOptions /\ value.type = "integer"
  \/ key \in FloatOptions /\ value.type = "float"
  \/ key \in StringOptions /\ value.type = "string"

-----------------------------------------------------------------------------
(* From the settings to the nettest.  A failure returns: `refused` stays.  *)

NewRunnable ==
  [refused |-> FALSE, warned |-> {}, options |-> << >>, annotations |-> << >>,
   inputs |-> <<>>, verbosity |-> "WARNING", disabled |-> {}]

Refuse(r) == [r EXCEPT !.refused = TRUE]
Warn(r, keys) == [r EXCEPT !.warned = @ \cup keys]

\* A warning for each section that is wrong, and then one failure.
MistypedSections(at) ==
  {k \in DOMAIN SectionType \cap DOMAIN at : at[k].type # SectionType[k]} \cup
  ({"name"} \ DOMAIN at)

validate_known_settings_shallow(r, at) ==
  LET wrong == MistypedSections(at)
      warned == Warn(r, wrong)
  IN IF wrong = {} THEN warned ELSE Refuse(warned)

remove_unknown_settings_and_warn(r, at) == Warn(r, DOMAIN at \ DOMAIN SectionType)

make_runnable(r, at) == IF at.name.text \in KnownTasks THEN r ELSE Refuse(r)

Members(at, section) == IF section \in DOMAIN at THEN at[section].members ELSE <<>>
Items(at, section) == IF section \in DOMAIN at THEN at[section].items ELSE <<>>

\* The map with one more key, or with another value for it.
With(f, key, value) ==
  [k \in DOMAIN f \cup {key} |-> IF k = key THEN value ELSE f[k]]

\* The text of an option.  A boolean is stored as an integer.
Scalar(value) ==
  IF value.type = "boolean" THEN (IF value.text = "true" THEN "1" ELSE "0")
  ELSE value.text

\* Mutant of SetOption: the empty string is stored like the others.
SetOptionEvenEmpty(r, m) ==
  LET warned == IF HasMappedType(m.key, m.value) THEN r ELSE Warn(r, {m.key}) IN
  IF m.value.type \notin {"string", "integer", "float", "boolean"} THEN Refuse(warned)
  ELSE [warned EXCEPT !.options = With(@, m.key, Scalar(m.value))]

\* Unknown options and those of another type are stored all the same; the
\* empty string is not stored.
SetOption(r, m) ==
  LET warned == IF HasMappedType(m.key, m.value) THEN r ELSE Warn(r, {m.key}) IN
  IF m.value.type \notin {"string", "integer", "float", "boolean"} THEN Refuse(warned)
  ELSE IF m.value = Str("") THEN warned
  ELSE [warned EXCEPT !.options = With(@, m.key, Scalar(m.value))]

Annotate(r, m) ==
  IF m.value.type \notin {"string", "integer", "float"} THEN Refuse(r)
  ELSE [r EXCEPT !.annotations = With(@, m.key, m.value.text)]

AddInput(r, v) ==
  IF v.type # "string" THEN Refuse(r) ELSE [r EXCEPT !.inputs = Append(@, v.text)]

AddFilepath(r, v) == IF v.type # "string" THEN Refuse(r) ELSE r

SetLogLevel(r, at) ==
  IF "log_level" \notin DOMAIN at THEN r
  ELSE IF at.log_level.text \notin LogLevels THEN Refuse(r)
  ELSE [r EXCEPT !.verbosity = at.log_level.text]

\* An event that is unknown is ignored, with a warning.
Disable(r, v) ==
  IF v.type # "string" THEN Refuse(r)
  ELSE IF v.text \notin KnownEvents THEN Warn(r, {v.text})
  ELSE [r EXCEPT !.disabled = @ \cup {v.text}]

\* What is done with one element of a section.
Process(section, r, x) ==
  CASE section = "options" -> SetOption(r, x)
    [] section = "annotations" -> Annotate(r, x)
    [] section = "inputs" -> AddInput(r, x)
    [] section = "input_filepaths" -> AddFilepath(r, x)
    [] section = "disabled_events" -> Disable(r, x)

\* One element after the other, until one is refused.
ForEach(section, r, elements) ==
  LET after[n \in 0 .. Len(elements)] ==
        IF n = 0 THEN r
        ELSE LET last == after[n - 1] IN
             IF last.refused THEN last ELSE Process(section, last, elements[n])
  IN after[Len(elements)]

\* task_run_legacy() as far as "status.started".
Prepared(settings) ==
  IF settings.type # "object" THEN Refuse(NewRunnable) ELSE
  LET at == settings.at
      shallow == validate_known_settings_shallow(NewRunnable, at)
      known == make_runnable(remove_unknown_settings_and_warn(shallow, at), at)
      options == ForEach("options", known, Members(at, "options"))
      annotations == ForEach("annotations", options, Members(at, "annotations"))
      inputs == ForEach("inputs", annotations, Items(at, "inputs"))
      paths == ForEach("input_filepaths", inputs, Items(at, "input_filepaths"))
      level == IF paths.refused THEN paths ELSE SetLogLevel(paths, at)
  IN IF shallow.refused THEN shallow
     ELSE ForEach("disabled_events", level, Items(at, "disabled_events"))

-----------------------------------------------------------------------------
(* Reading the options.                                                    *)

\* Scalar::as(): the texts that a stream converts, up to their end.
Convertible ==
  [bool |-> {"0", "1"}, int |-> {"0", "1", "2"},
   double |-> {"0", "1", "2", "huge", "frac"}]

\* How nettests/ reads the options that decide what it does.
ReadAs ==
  [k \in {"no_bouncer", "save_real_probe_ip", "save_real_probe_asn",
          "save_real_probe_cc", "save_real_probe_network_name", "no_geoip",
          "no_resolver_lookup", "no_file_report", "no_collector",
          "ignore_open_report_error", "ignore_write_entry_error",
          "randomize_input", "max_runtime", "parallelism"} |->
     CASE k = "max_runtime" -> "double"
       [] k = "parallelism" -> "int"
       [] OTHER -> "bool"]

\* Settings::get() throws for these, and get_noexcept() returns an error.
Unreadable(options) ==
  {k \in DOMAIN options \cap DOMAIN ReadAs : options[k] \notin Convertible[ReadAs[k]]}

Flag(options, key, default) ==
  IF key \in DOMAIN options \ Unreadable(options) THEN options[key] = "1" ELSE default

Number(options, key, default) ==
  IF key \in DOMAIN options \ Unreadable(options)
  THEN CASE options[key] = "0" -> 0 [] options[key] = "1" -> 1 [] OTHER -> 2
  ELSE default

-----------------------------------------------------------------------------
(* What is asked, whatever the order in which it is looked at.             *)

Acceptable(settings) ==
  settings.type = "object" /\ LET at == settings.at IN
  /\ MistypedSections(at) = {}
  /\ at.name.text \in KnownTasks
  /\ "log_level" \in DOMAIN at => at.log_level.text \in LogLevels
  /\ \A m \in Range(Members(at, "options")) :
       m.value.type \in {"string", "integer", "float", "boolean"}
  /\ \A m \in Range(Members(at, "annotations")) :
       m.value.type \in {"string", "integer", "float"}
  /\ \A s \in {"inputs", "input_filepaths", "disabled_events"} :
       \A v \in Range(Items(at, s)) : v.type = "string"

\* The user has switched the option on, in one of the forms that are read.
SwitchedOn(settings, key) ==
  \E m \in Range(Members(settings.at, "options")) :
    m.key = key /\ m.value \in {Bool("true"), Int64("1"), Str("1"), Float("1")}

\* The options that are given, but for those that are empty.
Asked(settings) ==
  {m.key : m \in {n \in Range(Members(settings.at, "options")) : n.value # Str("")}}
=============================================================================
