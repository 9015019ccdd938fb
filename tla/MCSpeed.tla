------------------------------ MODULE MCSpeed ------------------------------
(* The servers grant each test alone, two of them, or the three that a     *)
(* client asks for; the options of mlab-ns and of DASH differ from their   *)
(* defaults in what each branch looks at.                                  *)
EXTENDS Speed

NoQuery == [policy |-> "", country |-> "", metro |-> "", address_family |-> ""]
Geo == [NoQuery EXCEPT !.policy = "good"]
Given == [port |-> "ok", address |-> TRUE, tool |-> "ok", mlabns |-> NoQuery, longName |-> FALSE]
Asked == [Given EXCEPT !.address = FALSE]

MCNdtOptions ==
  {Given, Asked, [Given EXCEPT !.port = "bad"], [Given EXCEPT !.longName = TRUE],
   [Asked EXCEPT !.tool = "bad"], [Asked EXCEPT !.mlabns.policy = "bad"],
   [Asked EXCEPT !.mlabns.country = "bad"],
   [Asked EXCEPT !.mlabns = [Geo EXCEPT !.country = "bad"]],
   [Asked EXCEPT !.mlabns.metro = "bad"], [Asked EXCEPT !.mlabns.address_family = "bad"]}

MCSuites ==
  {<<>>, <<"upload">>, <<"download">>, <<"meta">>, <<"upload", "download", "meta">>,
   <<"download_ext", "upload">>, <<"download", "download_ext">>, <<"download", "number">>, <<"word">>}

MCRates == <<100, 150, 200>>
MCSpeeds == {0, 80, 100, 120, 200, 250, 500}

Plain == [hostname |-> TRUE, option |-> "ok", use_fixed_rates |-> FALSE, initial_rate |-> 120,
          constant_bitrate |-> 0, fast_scale_down |-> FALSE, elapsed_target |-> 2,
          max_iterations |-> 3]
Fixed == [Plain EXCEPT !.use_fixed_rates = TRUE]

MCDashOptions ==
  {Plain, Fixed, [Plain EXCEPT !.hostname = FALSE], [Plain EXCEPT !.option = "bad"],
   [Plain EXCEPT !.max_iterations = 0], [Plain EXCEPT !.constant_bitrate = 90],
   [Plain EXCEPT !.initial_rate = 0], [Plain EXCEPT !.fast_scale_down = TRUE],
   [Fixed EXCEPT !.fast_scale_down = TRUE],
   [Plain EXCEPT !.fast_scale_down = TRUE, !.elapsed_target = 0],
   [Fixed EXCEPT !.fast_scale_down = TRUE, !.elapsed_target = 0]}

\* A file that cannot be opened, one that becomes full, and one that does not.
MCLogSettings ==
  {s \in [log_filepath : BOOLEAN, room : {0, 2, 99}, log_level : {MK_LOG_WARNING, MK_LOG_INFO},
          no_geoip : BOOLEAN, disabled_events : {{}, {"log"}, {"status.progress"}}, warnings : 0 .. 1] :
     (s.log_filepath \/ s.room = 0) /\ (s.no_geoip => s.warnings = 0)}

Client0(kind) == [kind |-> kind, entries |-> 1, max_runtime |-> FALSE, granted |-> <<>>,
                  tests |-> <<>>, max_iterations |-> 15]
NdtTests(tests) == [Client0("ndt") EXCEPT !.granted = tests, !.tests = tests]
MCLogClients ==
  {Client0("dash"), [Client0("entries") EXCEPT !.entries = 3],
   [Client0("entries") EXCEPT !.max_runtime = TRUE],
   NdtTests(<<"upload", "download", "meta">>), NdtTests(<<"download">>)}
=============================================================================
