----------------------------- MODULE MCNettest -----------------------------
(* Two chains and three inputs: a chain that waits for the collector while *)
(* the other one goes on, and one input more than there are chains.  The   *)
(* settings are all those that differ in what the nettest does; some that  *)
(* write the same in other types; some with an option that cannot be read; *)
(* and some that are refused, each for another reason.                     *)
EXTENDS Nettest

WithOptions(task, members) ==
  TopLevel([name |-> Str(task), options |-> Object(members)])

Flags == <<"no_file_report", "no_collector", "no_bouncer",
           "ignore_open_report_error", "ignore_write_entry_error">>

\* Every flag is given as a boolean, and the chains as a number.
Booleans(on) ==
  [i \in DOMAIN Flags |->
     Member(Flags[i], Bool(IF Flags[i] \in on THEN "true" ELSE "false"))]
Chains(n) == <<Member("parallelism", Int64(n))>>
Limited == <<Member("max_runtime", Int64("1"))>>

Usual ==
  {WithOptions(task, Booleans(on) \o limit \o Chains(n)) :
     task \in {"WebConnectivity", "Telegram"}, on \in SUBSET Range(Flags),
     limit \in {<<>>, Limited}, n \in {"0", "1", "2"}}

\* Other types, which the documentation allows or the code only warns about.
Variants ==
  {WithOptions("WebConnectivity", <<Member("server", Str("")), Member("no_collector", v)>>
                                  \o Chains("1")) :
     v \in {Str("1"), Int64("1"), Float("1"), Str(""), Bool("true"), Bool("false")}}

Unread ==
  {WithOptions("WebConnectivity", <<Member(k, v)>> \o Chains("1")) :
     k \in DOMAIN ReadAs \ {"parallelism"}, v \in {Str("true"), Float("frac"), Int64("2")}}
  \cup {WithOptions("Telegram", <<Member("collector_base_url", Str("url"))>> \o Chains("1"))}
  \cup {WithOptions("WebConnectivity",
                    <<Member("ignore_open_report_error", Str("yes")),
                      Member("parallelism", v)>>) :
         v \in {Float("frac"), Int64("huge")}}

Plain(k, v) ==
  TopLevel([x \in {"name", "options", k} |->
              IF x = k THEN v ELSE IF x = "name" THEN Str("Telegram")
              ELSE Object(Chains("1"))])

Odd ==
  {Null, TopLevel([options |-> Object(<<>>)])}
  \cup {Plain(k, Null) : k \in DOMAIN SectionType}
  \cup {Plain("name", Str("telegram")), Plain("other", Null),
        Plain("log_level", Str("INFO")), Plain("log_level", Str("info")),
        Plain("options", Object(<<Member("server", Null)>> \o Chains("1"))),
        Plain("annotations", Object(<<Member("a", Float("1")), Member("b", Str("x"))>>)),
        Plain("annotations", Object(<<Member("a", Bool("true"))>>))}
  \cup {Plain(k, Array(<<v, Str("log")>>)) :
         k \in {"inputs", "input_filepaths", "disabled_events"},
         v \in {Str("measurement"), Int64("1")}}

MCSettings == Usual \cup Variants \cup Unread \cup Odd
=============================================================================
