------------------------------ MODULE SpeedProofs ------------------------------
(***************************************************************************)
(* Proofs about Speed: for any options, rates and speeds, any number of    *)
(* iterations and of negotiations.  The invariant of DASH says at which    *)
(* step which transport is open and what the records hold; that of NDT, in *)
(* which phases there is a control connection and a test, which connections*)
(* each place of a test has, and what the entry holds by then; that of the *)
(* logger, how high the progress may have come, and how much of it what is *)
(* left of the nettest may still tell.                                     *)
(***************************************************************************)
EXTENDS Speed, FiniteSetTheorems, WellFoundedInduction, TLAPS

\* With the first transport; and with both.
Negotiated == {"negotiating", "testConnect", "collect", "closing"}
Testing == {"loop", "download", "testClosing"}

Transports ==
  /\ step \in {"idle", "negotiate", "connect", "done"} => transports = {}
  /\ step \in Negotiated => transports = {"negotiate"}
  /\ step \in Testing => transports = {"negotiate", "test"}

\* A record of an iteration, with the address of the user or without it.
Address == {"ours", "127.0.0.1"}
Record == [iteration : Nat, internal_address : Address, real_address : Address]

Sanitized ==
  \A i \in DOMAIN data : data[i].internal_address # "ours" /\ data[i].real_address # "ours"

\* What the records hold, and how many of them there are.
Records ==
  /\ data \in Seq(Record)
  /\ loop = [field \in DOMAIN NewLoop |-> loop[field]]
  /\ loop.iteration \in Nat \ {0} /\ Len(data) = loop.iteration - 1
  /\ step \in {"negotiate", "connect", "negotiating", "testConnect", "closing", "done"} => Sanitized

Iterations ==
  /\ step # "idle" => conf \in DashOptions /\ loop.iteration <= conf.max_iterations + 1
  /\ step = "download" => loop.iteration <= conf.max_iterations
  /\ testError = "ok" =>
       step \in {"testClosing", "collect", "closing", "done"} /\ Len(data) = conf.max_iterations

DashInv ==
  /\ step \in {"idle", "done", "negotiate", "connect"} \cup Negotiated \cup Testing
  /\ Transports /\ Records /\ Iterations

LEMMA InitDash == Init => DashInv
<1> SUFFICES ASSUME Init PROVE DashInv
  OBVIOUS
<1>1. /\ step \in {"idle", "negotiate"} /\ transports = {} /\ loop = NewLoop /\ data = <<>>
      /\ testError = "none" /\ (step = "negotiate" => conf \in DashOptions)
  BY DEF Init, DashIdle, DashInit, DashStart
<1>2. Records
  BY <1>1 DEF Records, NewLoop, Sanitized
<1>3. Iterations
  BY <1>1, DashBounds DEF Iterations, NewLoop
<1> QED
  BY <1>1, <1>2, <1>3 DEF DashInv, Transports, Negotiated, Testing

\* The steps that leave the records as they are.
Unrecorded ==
  \/ negotiate \/ OnNegotiateConnect \/ negotiate_loop_ \/ NegotiationClosed \/ OnTestConnect
  \/ run_loop_ \/ DownloadFails \/ TestClosed

LEMMA UnrecordedKeeps == DashInv /\ Unrecorded => DashInv'
<1> SUFFICES ASSUME DashInv, Unrecorded PROVE DashInv'
  OBVIOUS
<1> USE DEF DashInv
<1>1. data' = data /\ loop'.iteration = loop.iteration /\ conf' = conf
  <2>1. CASE run_loop_
    <3>1. "iteration" \in DOMAIN NewLoop
      BY DEF NewLoop
    <3>2. loop' = loop \/ \E s, r, c : loop' = [loop EXCEPT !.speed_kbit = s, !.rate_kbit = r, !.count = c]
      BY <2>1 DEF run_loop_
    <3> QED
      BY <2>1, <3>1, <3>2 DEF run_loop_, Records
  <2> QED
    BY <2>1 DEF Unrecorded, negotiate, OnNegotiateConnect, negotiate_loop_, NegotiationClosed,
                OnTestConnect, DownloadFails, TestClosed
<1>2. step' \in {"idle", "done", "negotiate", "connect"} \cup Negotiated \cup Testing
  BY DEF Unrecorded, negotiate, OnNegotiateConnect, negotiate_loop_, NegotiationClosed,
         OnTestConnect, run_loop_, DownloadFails, TestClosed, CallBack, CloseNegotiation,
         TestFails, ctx_cb, Negotiated, Testing
<1>3. Transports'
  BY DEF Unrecorded, negotiate, OnNegotiateConnect, negotiate_loop_, NegotiationClosed,
         OnTestConnect, run_loop_, DownloadFails, TestClosed, CallBack, CloseNegotiation,
         TestFails, ctx_cb, Transports, Negotiated, Testing
<1>4. Records'
  <2>1. loop' = [field \in DOMAIN NewLoop |-> loop'[field]]
    BY DEF Unrecorded, negotiate, OnNegotiateConnect, negotiate_loop_, NegotiationClosed,
           OnTestConnect, run_loop_, DownloadFails, TestClosed, Records
  <2>2. Sanitized' = Sanitized
    BY <1>1 DEF Sanitized
  <2>3. step' \in {"negotiate", "connect", "negotiating", "testConnect", "closing", "done"} =>
          step \in {"negotiate", "connect", "negotiating", "testConnect", "closing"}
    BY DEF Unrecorded, negotiate, OnNegotiateConnect, negotiate_loop_, NegotiationClosed,
           OnTestConnect, run_loop_, DownloadFails, TestClosed, CallBack, CloseNegotiation,
           TestFails, ctx_cb
  <2> QED
    BY <1>1, <2>1, <2>2, <2>3 DEF Records
<1>5. Iterations'
  <2>1. CASE run_loop_
    <3>1. /\ step = "loop" /\ conf \in DashOptions /\ conf.max_iterations \in Nat
          /\ testError # "ok"
      BY <2>1, DashBounds DEF run_loop_, Iterations
    <3>2. Len(data) = loop.iteration - 1 /\ loop.iteration \in Nat
      BY DEF Records
    <3>3. \/ step' = "testClosing" /\ testError' = "Value"
          \/ step' = "testClosing" /\ testError' = "ok" /\ loop.iteration > conf.max_iterations
          \/ step' = "download" /\ testError' = testError /\ ~(loop.iteration > conf.max_iterations)
      BY <2>1 DEF run_loop_, ctx_cb, Finished, invalid_option
    <3> QED
      BY <1>1, <3>1, <3>2, <3>3 DEF Iterations
  <2>2. CASE DownloadFails
    BY <1>1, <2>2 DEF DownloadFails, http_errors, ctx_cb, Iterations
  <2>3. CASE TestClosed
    BY <1>1, <2>3 DEF TestClosed, TestFails, Iterations
  <2>4. CASE OnTestConnect
    BY <1>1, <2>4 DEF OnTestConnect, TestFails, Iterations
  <2>5. CASE negotiate \/ OnNegotiateConnect \/ negotiate_loop_ \/ NegotiationClosed
    BY <1>1, <2>5 DEF negotiate, OnNegotiateConnect, negotiate_loop_, NegotiationClosed,
                      CallBack, CloseNegotiation, Iterations
  <2> QED
    BY <2>1, <2>2, <2>3, <2>4, <2>5 DEF Unrecorded
<1> QED
  BY <1>2, <1>3, <1>4, <1>5

LEMMA DownloadedKeeps == DashInv /\ Downloaded => DashInv'
<1> SUFFICES ASSUME DashInv, Downloaded PROVE DashInv'
  OBVIOUS
<1> USE DEF DashInv
<1>1. /\ step = "download" /\ step' = "loop" /\ testError' = testError /\ conf' = conf
      /\ transports' = transports /\ data' = Append(data, NewRecord)
  BY DEF Downloaded
<1>2. loop'.iteration = loop.iteration + 1 /\ loop' = [field \in DOMAIN NewLoop |-> loop'[field]]
  BY DEF Downloaded, Records, NewLoop
<1>3. /\ NewRecord \in Record
      /\ loop.iteration \in Nat \ {0} /\ Len(data) = loop.iteration - 1
      /\ data \in Seq(Record)
  BY DEF NewRecord, Records, Record, Address
<1>4. /\ data' \in Seq(Record)
      /\ Len(data') = Len(data) + 1
  BY <1>1, <1>3
<1>5. Records'
  BY <1>1, <1>2, <1>3, <1>4 DEF Records
<1>6. Iterations'
  <2>1. conf \in DashOptions /\ conf.max_iterations \in Nat /\ testError # "ok"
        /\ loop.iteration <= conf.max_iterations
    BY <1>1, DashBounds DEF Iterations
  <2> QED
    BY <1>1, <1>2, <1>3, <2>1 DEF Iterations
<1> QED
  BY <1>1, <1>5, <1>6 DEF Transports, Negotiated, Testing

LEMMA CollectKeeps == DashInv /\ collect_ => DashInv'
<1> SUFFICES ASSUME DashInv, collect_ PROVE DashInv'
  OBVIOUS
<1> USE DEF DashInv
<1>1. /\ step = "collect" /\ step' = "closing" /\ testError' = testError /\ conf' = conf
      /\ transports' = transports /\ loop' = loop /\ data' = sanitize_entry_(data)
  BY DEF collect_, CloseNegotiation
<1>2. data \in Seq(Record)
  BY DEF Records
<1>3. /\ data' \in Seq(Record) /\ Len(data') = Len(data)
      /\ \A i \in DOMAIN data' : data'[i].internal_address = "127.0.0.1"
                                /\ data'[i].real_address = "127.0.0.1"
  <2>1. DOMAIN data = 1 .. Len(data) /\ Len(data) \in Nat
    BY <1>2
  <2>2. \A i \in DOMAIN data : data[i] \in Record
    BY <1>2
  <2>3. DOMAIN data' = 1 .. Len(data)
    BY <1>1, <2>1 DEF sanitize_entry_
  <2>4. ASSUME NEW i \in DOMAIN data
        PROVE  /\ data'[i] \in Record /\ data'[i].internal_address = "127.0.0.1"
               /\ data'[i].real_address = "127.0.0.1"
    <3>1. data'[i] = [data[i] EXCEPT !.internal_address = "127.0.0.1", !.real_address = "127.0.0.1"]
      BY <1>1, <2>4 DEF sanitize_entry_
    <3> QED
      BY <2>2, <2>4, <3>1 DEF Record, Address
  <2>5. data' = [i \in 1 .. Len(data) |-> data'[i]]
    BY <1>1, <2>1 DEF sanitize_entry_
  <2> QED
    BY <2>1, <2>3, <2>4, <2>5
<1>4. Sanitized'
  BY <1>3 DEF Sanitized
<1>5. Records' /\ Iterations' /\ Transports'
  BY <1>1, <1>3, <1>4 DEF Records, Iterations, Transports, Negotiated, Testing
<1> QED
  BY <1>1, <1>5 DEF Negotiated

\* The invariant of DASH holds in every reachable state.
THEOREM DashInvariant == Spec => []DashInv
<1>1. DashInv /\ UNCHANGED dashVars => DashInv'
  BY DEF dashVars, DashInv, Transports, Records, Iterations, Sanitized
<1>2. DashInv /\ DashNext => DashInv'
  BY UnrecordedKeeps, DownloadedKeeps, CollectKeeps DEF DashNext, Unrecorded
<1>3. DashInv /\ [Next]_vars => DashInv'
  BY <1>1, <1>2 DEF Next, Over, vars
<1> QED
  BY InitDash, <1>3, PTL DEF Spec

\* However the client comes to its end, no record that it leaves in the report
\* holds an address of the user.
THEOREM DashRemovesAddresses == Spec => []AddressesRemoved
<1>1. DashInv => AddressesRemoved
  BY DEF DashInv, Records, Sanitized, AddressesRemoved
<1> QED
  BY <1>1, DashInvariant, PTL

\* A test that ends well has made all its iterations, and no transport is left,
\* nor an address of the user.
THEOREM DashCompletes == Spec => []DashComplete
<1>1. DashInv => AddressesRemoved
  BY DEF DashInv, Records, Sanitized, AddressesRemoved
<1>2. DashInv => DashComplete
  BY <1>1 DEF DashInv, Iterations, Transports, Negotiated, DashComplete
<1> QED
  BY <1>2, DashInvariant, PTL

\* The first rate that is not lower than a speed, if there is one.
FirstRate(speed, i) == Rates[i] >= speed /\ \A j \in 1 .. i - 1 : Rates[j] < speed

LEMMA FirstRateExists ==
  ASSUME NEW speed \in Int, ~ \A i \in DOMAIN Rates : Rates[i] < speed
  PROVE  \E i \in DOMAIN Rates : FirstRate(speed, i)
<1> DEFINE reached == {i \in DOMAIN Rates : Rates[i] >= speed}
<1>1. Len(Rates) \in Nat /\ DOMAIN Rates = 1 .. Len(Rates) /\ \A i \in DOMAIN Rates : Rates[i] \in Nat
  BY DashBounds
<1>2. reached \subseteq Nat /\ reached # {}
  BY <1>1
<1> HIDE DEF reached
<1>3. PICK first \in reached : \A i \in reached : ~ (<<i, first>> \in OpToRel(<, Nat))
  BY <1>2, NatLessThanWellFounded, WFMin
<1>4. \A i \in reached : ~ (i < first)
  BY <1>2, <1>3 DEF OpToRel
<1> QED
  BY <1>1, <1>4 DEF reached, FirstRate

\* select_lower_rate_index() finds the highest rate that is lower than the
\* speed, or else the lowest of all.
LEMMA LowerRate ==
  ASSUME NEW speed \in Int
  PROVE  LET i == select_lower_rate_index(speed) IN
         /\ i \in DOMAIN Rates
         /\ \A j \in DOMAIN Rates : Rates[j] < speed => Rates[j] <= Rates[i]
         /\ Rates[i] < speed \/ (i = 1 /\ \A j \in DOMAIN Rates : ~ (Rates[j] < speed))
<1>1. /\ Len(Rates) \in Nat \ {0} /\ DOMAIN Rates = 1 .. Len(Rates)
      /\ \A i \in DOMAIN Rates : Rates[i] \in Nat
      /\ \A i, j \in DOMAIN Rates : i < j => Rates[i] < Rates[j]
  BY DashBounds
<1>2. CASE \A i \in DOMAIN Rates : Rates[i] < speed
  <2>1. select_lower_rate_index(speed) = Len(Rates)
    <3>1. select_lower_rate_index(speed) =
            IF Len(Rates) + 1 > 1 THEN (Len(Rates) + 1) - 1 ELSE Len(Rates) + 1
      BY <1>2, Zenon DEF select_lower_rate_index
    <3>2. Len(Rates) + 1 > 1 /\ (Len(Rates) + 1) - 1 = Len(Rates)
      BY <1>1
    <3> QED
      BY <3>1, <3>2, Zenon
  <2> QED
    BY <1>1, <1>2, <2>1
<1>3. CASE ~ \A i \in DOMAIN Rates : Rates[i] < speed
  <2> DEFINE first == CHOOSE i \in DOMAIN Rates :
                        Rates[i] >= speed /\ \A j \in 1 .. i - 1 : Rates[j] < speed
  <2>1. first \in DOMAIN Rates /\ FirstRate(speed, first)
    BY <1>3, FirstRateExists DEF FirstRate
  <2>2. select_lower_rate_index(speed) = IF first > 1 THEN first - 1 ELSE first
    BY <1>3 DEF select_lower_rate_index
  <2> HIDE DEF first
  <2>3. \A j \in DOMAIN Rates : Rates[j] < speed => j < first
    BY <1>1, <2>1 DEF FirstRate
  <2> QED
    BY <1>1, <2>1, <2>2, <2>3 DEF FirstRate
<1> QED
  BY <1>2, <1>3

\* With the fixed rates the speeds are numbers, and the rate of a download is
\* the one that was selected.
SpeedKnown ==
  step # "idle" /\ conf.use_fixed_rates =>
    /\ loop.speed_kbit \in Int
    /\ step = "download" => loop.rate_kbit = Rates[select_lower_rate_index(loop.speed_kbit)]

LEMMA SpeedKept == DashInv /\ SpeedKnown /\ [DashNext]_dashVars => SpeedKnown'
<1> SUFFICES ASSUME DashInv, SpeedKnown, [DashNext]_dashVars PROVE SpeedKnown'
  OBVIOUS
<1>1. Rates[1] \in Nat
  BY DashBounds
<1>2. CASE run_loop_
  <2>1. step = "loop" /\ conf' = conf
    BY <1>2 DEF run_loop_
  <2>2. CASE loop' = loop /\ step' = "testClosing"
    BY <2>1, <2>2 DEF SpeedKnown
  <2>3. ASSUME NEW c,
               loop' = [loop EXCEPT !.speed_kbit = initial_speed,
                                    !.rate_kbit = rate(initial_speed), !.count = c]
        PROVE  SpeedKnown'
    <3> SUFFICES ASSUME conf.use_fixed_rates PROVE SpeedKnown'
      BY <2>1 DEF SpeedKnown
    <3>1. loop = [field \in DOMAIN NewLoop |-> loop[field]]
      BY DEF DashInv, Records
    <3>2. loop'.speed_kbit = initial_speed /\ loop'.rate_kbit = rate(initial_speed)
      BY <2>3, <3>1 DEF NewLoop
    <3>3. initial_speed \in Int
      BY <1>1, <2>1 DEF SpeedKnown, initial_speed
    <3> QED
      BY <3>2, <3>3 DEF SpeedKnown, rate
  <2> QED
    BY <1>2, <2>2, <2>3 DEF run_loop_, ctx_cb
<1>3. CASE Downloaded
  <2>1. step = "download" /\ step' = "loop" /\ conf' = conf
    BY <1>3 DEF Downloaded
  <2>2. PICK speed \in Speeds, slow \in BOOLEAN : \E next \in next_speed(speed, slow) :
          loop' = [loop EXCEPT !.speed_kbit = next, !.iteration = @ + 1]
    BY <1>3 DEF Downloaded
  <2>3. \A next \in next_speed(speed, slow) : next \in Int
    BY <1>1, DashBounds DEF next_speed
  <2>4. loop'.speed_kbit \in Int
    BY <2>2, <2>3 DEF DashInv, Records, NewLoop
  <2> QED
    BY <2>1, <2>4 DEF SpeedKnown
<1>4. CASE \/ negotiate \/ OnNegotiateConnect \/ negotiate_loop_ \/ NegotiationClosed
           \/ OnTestConnect \/ DownloadFails \/ TestClosed \/ collect_ \/ UNCHANGED dashVars
  <2>1. loop' = loop /\ conf' = conf /\ (step' = "download" => step = "download")
        /\ (step' # "idle" => step # "idle")
    BY <1>4 DEF negotiate, OnNegotiateConnect, negotiate_loop_, NegotiationClosed, OnTestConnect,
                DownloadFails, TestClosed, collect_, CallBack, CloseNegotiation, TestFails, ctx_cb,
                dashVars
  <2> QED
    BY <2>1 DEF SpeedKnown
<1> QED
  BY <1>2, <1>3, <1>4 DEF DashNext

\* With the fixed rates, DASH downloads at the highest rate that is lower than
\* the speed it knows, or at the lowest of all.
THEOREM DashRateFollowsSpeed == Spec => []RateFollowsSpeed
<1>1. Init => SpeedKnown
  BY DEF Init, DashInit, DashIdle, DashStart, NewLoop, SpeedKnown
<1>2. DashInv /\ SpeedKnown /\ [Next]_vars => SpeedKnown'
  BY SpeedKept DEF Next, Over, vars
<1>3. SpeedKnown => RateFollowsSpeed
  <2> SUFFICES ASSUME SpeedKnown, step = "download", conf.use_fixed_rates
               PROVE  LET lower == {i \in DOMAIN Rates : Rates[i] < loop.speed_kbit} IN
                      /\ \E i \in DOMAIN Rates : Rates[i] = loop.rate_kbit
                      /\ \A i \in lower : Rates[i] <= loop.rate_kbit
                      /\ IF lower = {} THEN loop.rate_kbit = Rates[1]
                         ELSE loop.rate_kbit < loop.speed_kbit
    BY DEF RateFollowsSpeed
  <2> DEFINE i == select_lower_rate_index(loop.speed_kbit)
  <2>1. loop.speed_kbit \in Int /\ loop.rate_kbit = Rates[i]
    BY DEF SpeedKnown
  <2>2. /\ i \in DOMAIN Rates
        /\ \A j \in DOMAIN Rates : Rates[j] < loop.speed_kbit => Rates[j] <= Rates[i]
        /\ Rates[i] < loop.speed_kbit
           \/ (i = 1 /\ \A j \in DOMAIN Rates : ~ (Rates[j] < loop.speed_kbit))
    BY <2>1, LowerRate
  <2> HIDE DEF i
  <2> QED
    BY <2>1, <2>2
<1> QED
  BY <1>1, <1>2, <1>3, DashInvariant, PTL DEF Spec

-----------------------------------------------------------------------------
(* NDT.                                                                    *)

\* The phases in which there is a control connection.
Talking == {"login", "kickoff", "queue", "version", "tests_id", "run_tests", "results", "wait_close"}

\* The control connection is there when a phase needs it and is gone when the
\* caller is called back, which is told an error, or that there was none; and
\* a test runs only in its phase.
Phased ==
  /\ phase \in {"idle", "run", "connect", "closing", "called", "done", "undefined"} \cup Talking
  /\ phase # "undefined" => (control <=> phase \in Talking \cup {"closing"})
  /\ test = NoTest \/ phase \in {"run_tests", "undefined"}
  /\ phase \in {"closing", "called"} => error # "none"

\* Where a test may be: an upload is the one that must be told of, and those that
\* go through the finalization of a download are downloads.
Places(id) ==
  {"prepare"} \cup
  CASE id = "upload" -> {"connect", "start", "transfer", "msg", "finalize", "end"}
    [] id = "meta" -> {"start", "send", "finalize", "end"}
    [] OTHER -> {"connect", "start", "transfer", "msg", "send", "finalizing"}

Placed == test = NoTest \/ test \in UNION {[id : {name}, at : Places(name)] : name \in Names}

\* The connections of a test are opened, are all open when it starts, and none
\* is left when its transfer is over.
Streams == [left : Nat, open : Nat, closing : Nat, flows : Nat, err : {"ok", "Net", "broken_pipe"},
            dropped : Nat]

Streamed ==
  /\ streams \in Streams
  /\ test.at = "connect" => streams.left > 0
  /\ test.at # "transfer" => streams.closing = 0
  /\ test.at \notin {"connect", "start", "transfer"} \/ test.id = "meta" => streams.open = 0

\* The entry: what was measured is in it when its phase ended well.
Measured == [samples : Samples, web100 : BOOLEAN, connect_times : Nat]

Noted ==
  /\ entry = [field \in DOMAIN NewEntry |-> entry[field]]
  /\ entry.phase_result = [name \in Names |-> entry.phase_result[name]]
  /\ entry.test_c2s \in Seq(Samples)
  /\ \/ phase = "done" /\ entry.test_s2c = <<Null>>
     \/ entry.test_s2c \in Seq(Measured)
  /\ \A d \in Downloads : entry.phase_result[d] = "ok" =>
       entry.test_s2c \in Seq(Measured) /\ entry.test_s2c # <<>>
  /\ entry.phase_result["upload"] = "ok" \/ (test.id = "upload" /\ test.at \in {"finalize", "end"})
       => entry.test_c2s # <<>>
  /\ phase = "done" /\ entry.failure = "none" =>
       error = "ok" /\ entry.test_c2s # <<>> /\ entry.test_s2c # <<>>

NdtInv == Phased /\ Placed /\ Streamed /\ Noted

LEMMA InitNdt == Init => NdtInv
<1> SUFFICES ASSUME Init PROVE NdtInv
  OBVIOUS
<1>1. /\ phase \in {"idle", "run"} /\ error = "none" /\ control = FALSE /\ test = NoTest
      /\ streams = NoStreams /\ entry = NewEntry
  BY DEF Init, NdtInit, NdtIdle
<1>2. Phased /\ Placed
  BY <1>1 DEF Phased, Placed, Talking
<1>3. Streamed
  BY <1>1 DEF Streamed, Streams, NoStreams, NoTest
<1>4. Noted
  BY <1>1 DEF Noted, NewEntry, NoTest, Downloads, Names
<1> QED
  BY <1>2, <1>3, <1>4 DEF NdtInv

\* A test that runs, and what is known of its place.
LEMMA TestPlaced ==
  ASSUME Placed, test # NoTest
  PROVE  /\ test.id \in Names /\ test.at \in Places(test.id)
         /\ \A to : [test EXCEPT !.at = to] = [id |-> test.id, at |-> to]
<1>1. PICK name \in Names : test \in [id : {name}, at : Places(name)]
  BY DEF Placed
<1> QED
  BY <1>1

\* The end of a test, well or not, keeps the invariant.
LEMMA EndsKeeps ==
  ASSUME NdtInv, test # NoTest, NEW err, TestEnds(err), Unmoved,
         err = "ok" => test.id \notin Downloads /\ (test.id = "upload" => test.at = "end")
  PROVE  NdtInv'
<1>1. /\ test.id \in Names /\ phase \in {"run_tests", "undefined"}
      /\ test' = NoTest /\ phase' = phase /\ error' = error /\ control' = control
      /\ streams' = [NoStreams EXCEPT !.dropped = streams.dropped + streams.open]
      /\ entry' = [entry EXCEPT !.phase_result[test.id] = err]
  BY TestPlaced DEF NdtInv, Phased, TestEnds, Unmoved
<1>2. Phased' /\ Placed'
  BY <1>1 DEF NdtInv, Phased, Placed
<1>3. Streamed'
  <2>1. streams.dropped \in Nat /\ streams.open \in Nat
    BY DEF NdtInv, Streamed, Streams
  <2> QED
    BY <1>1, <2>1 DEF Streamed, Streams, NoStreams, NoTest
<1>4. Noted'
  <2>1. Noted
    BY DEF NdtInv
  <2>2. /\ entry' = [field \in DOMAIN NewEntry |-> entry'[field]]
        /\ entry'.failure = entry.failure /\ entry'.test_c2s = entry.test_c2s
        /\ entry'.test_s2c = entry.test_s2c
        /\ entry'.phase_result = [entry.phase_result EXCEPT ![test.id] = err]
    BY <1>1, <2>1 DEF Noted, NewEntry
  <2>3. /\ entry'.phase_result = [name \in Names |-> entry'.phase_result[name]]
        /\ \A name \in Names :
             entry'.phase_result[name] = IF name = test.id THEN err ELSE entry.phase_result[name]
    BY <1>1, <2>1, <2>2 DEF Noted
  <2>4. \A d \in Downloads : entry'.phase_result[d] = "ok" => entry.phase_result[d] = "ok"
    BY <1>1, <2>3 DEF Downloads, Names
  <2>5. entry'.phase_result["upload"] = "ok" => entry'.test_c2s # <<>>
    BY <1>1, <2>1, <2>2, <2>3 DEF Noted, Names
  <2> QED
    BY <1>1, <2>1, <2>2, <2>3, <2>4, <2>5 DEF Noted, NoTest
<1> QED
  BY <1>2, <1>3, <1>4 DEF NdtInv

\* So does a step of a test that goes on.
LEMMA MovesKeep ==
  ASSUME NdtInv, test # NoTest, NEW to \in Places(test.id), At(to), Unmoved, UNCHANGED entry,
         test.id = "upload" /\ to \in {"finalize", "end"} => test.at \in {"finalize", "end"},
         Streamed'
  PROVE  NdtInv'
<1>1. /\ test.id \in Names /\ test' = [id |-> test.id, at |-> to]
      /\ phase' = phase /\ error' = error /\ control' = control /\ entry' = entry
  BY TestPlaced DEF NdtInv, At, Unmoved
<1>2. Phased' /\ Placed'
  <2>1. test' \in [id : {test.id}, at : Places(test.id)]
    BY <1>1
  <2> QED
    BY <1>1, <2>1 DEF NdtInv, Phased, Placed
<1>3. Noted'
  BY <1>1 DEF NdtInv, Noted
<1> QED
  BY <1>2, <1>3 DEF NdtInv

\* And one that leaves the connections alone.
LEMMA MovesOn ==
  ASSUME NdtInv, test # NoTest, NEW to \in Places(test.id), At(to), Unmoved,
         UNCHANGED <<entry, streams>>,
         test.id = "upload" /\ to \in {"finalize", "end"} => test.at \in {"finalize", "end"},
         test.at # "transfer", to # "connect",
         streams.open = 0 \/ (to = "transfer" /\ test.id # "meta")
  PROVE  NdtInv'
<1>1. test' = [id |-> test.id, at |-> to] /\ streams' = streams /\ Streamed
  BY TestPlaced DEF NdtInv, At
<1>2. Streamed'
  BY <1>1 DEF Streamed
<1> QED
  BY <1>2, MovesKeep

\* The answers of the server that are not what is expected are errors.
LEMMA StepKeeps ==
  ASSUME NdtInv, NEW from, NEW errors, NEW to, Step(from, errors, to), test # NoTest,
         to \in Places(test.id),
         test.id = "upload" /\ to \in {"finalize", "end"} => from \in {"finalize", "end"},
         from # "transfer", to # "connect",
         streams.open = 0 \/ (to = "transfer" /\ test.id # "meta")
  PROVE  NdtInv'
<1>1. test.at = from /\ Unmoved
  BY DEF Step
<1>2. PICK err \in errors :
        IF err = "ok" THEN At(to) /\ UNCHANGED <<streams, entry>> ELSE TestEnds(err)
  BY DEF Step
<1>3. CASE err = "ok"
  BY <1>1, <1>2, <1>3, MovesOn
<1>4. CASE err # "ok"
  BY <1>1, <1>2, <1>4, EndsKeeps
<1> QED
  BY <1>3, <1>4

LEMMA PrepareKeeps ==
  ASSUME NdtInv, PrepareMeta \/ PrepareUpload \/ PrepareDownload
  PROVE  NdtInv'
<1>1. test.at = "prepare" /\ test # NoTest
  BY DEF PrepareMeta, PrepareUpload, PrepareDownload, NoTest
<1>2. ASSUME NEW params, NotPrepared(params), "ok" \notin params
      PROVE  NdtInv'
  <2>1. PICK err : err # "ok" /\ TestEnds(err) /\ Unmoved
    BY <1>2 DEF NotPrepared
  <2> QED
    BY <1>1, <2>1, EndsKeeps
<1>3. ASSUME NEW flows \in Nat \ {0}, Prepared(flows), test.id # "meta"
      PROVE  NdtInv'
  <2>1. /\ "connect" \in Places(test.id)
        /\ test' = [id |-> test.id, at |-> "connect"] /\ At("connect") /\ Unmoved /\ entry' = entry
        /\ streams' = [streams EXCEPT !.left = flows, !.flows = flows]
    BY <1>1, <1>3, TestPlaced DEF NdtInv, Prepared, Places, Names, At
  <2>2. Streamed /\ streams \in Streams /\ flows \in Nat /\ flows > 0
    BY <1>3 DEF NdtInv, Streamed
  <2>3. [streams EXCEPT !.left = flows, !.flows = flows] \in Streams
    BY <2>2 DEF Streams
  <2>4. streams'.left = flows /\ streams'.open = streams.open /\ streams'.closing = streams.closing
    BY <2>1, <2>2 DEF Streams
  <2>5. Streamed'
    BY <1>1, <1>3, <2>1, <2>2, <2>3, <2>4 DEF Streamed
  <2> QED
    BY <1>1, <2>1, <2>5, MovesKeep
<1>4. CASE PrepareMeta
  <2>1. CASE NotPrepared({})
    BY <1>2, <2>1
  <2>2. CASE At("start") /\ UNCHANGED <<streams, entry, again>> /\ Unmoved
    <3>1. streams.open = 0 /\ "start" \in Places(test.id)
      BY <1>1, <1>4 DEF NdtInv, Streamed, PrepareMeta, Places
    <3> QED
      BY <1>1, <2>2, <3>1, MovesOn
  <2> QED
    BY <1>4, <2>1, <2>2 DEF PrepareMeta
<1>5. CASE PrepareUpload
  <2>1. test.id = "upload" /\ (NotPrepared({"InvalidPort"}) \/ Prepared(1))
    BY <1>5 DEF PrepareUpload
  <2> QED
    BY <1>2, <1>3, <2>1
<1>6. CASE PrepareDownload
  <2>1. CASE NotPrepared({"InvalidPort", "InvalidDuration", "InvalidSnapsDelay", "InvalidNumStreams"})
    BY <1>2, <2>1
  <2>2. CASE \E flows \in 1 .. MaxStreams : Prepared(flows)
    <3>1. PICK flows \in 1 .. MaxStreams : Prepared(flows)
      BY <2>2
    <3>2. flows \in Nat \ {0} /\ test.id # "meta"
      BY <1>6, NdtBounds DEF PrepareDownload, Downloads
    <3> QED
      BY <1>3, <3>1, <3>2
  <2> QED
    BY <1>6, <2>1, <2>2 DEF PrepareDownload
<1> QED
  BY <1>4, <1>5, <1>6

LEMMA ConnectKeeps == NdtInv /\ connect_many => NdtInv'
<1> SUFFICES ASSUME NdtInv, connect_many PROVE NdtInv'
  OBVIOUS
<1>1. test.at = "connect" /\ test # NoTest /\ Unmoved
  BY DEF connect_many, NoTest
<1>2. test.id # "meta" /\ {"connect", "start"} \subseteq Places(test.id) /\ test.id \in Names
  BY <1>1, TestPlaced DEF NdtInv, Places, Names
<1>3. CASE TestEnds("ConnectTestConnection")
  BY <1>1, <1>3, EndsKeeps
<1>4. CASE /\ streams' = [streams EXCEPT !.left = @ - 1, !.open = @ + 1]
           /\ IF streams.left = 1 THEN At("start") ELSE UNCHANGED test
           /\ UNCHANGED entry
  <2> DEFINE to == IF streams.left = 1 THEN "start" ELSE "connect"
  <2>1. /\ streams' \in Streams /\ streams'.left = streams.left - 1 /\ streams'.closing = 0
        /\ streams.left \in Nat \ {0}
    <3>1. streams \in Streams /\ streams.left > 0 /\ streams.closing = 0
      BY <1>1 DEF NdtInv, Streamed
    <3>2. streams.left \in Nat /\ streams.left - 1 \in Nat /\ streams.open + 1 \in Nat
      BY <3>1 DEF Streams
    <3>3. [streams EXCEPT !.left = @ - 1, !.open = @ + 1] \in Streams
      BY <3>1, <3>2 DEF Streams
    <3> QED
      BY <1>4, <3>1, <3>2, <3>3 DEF Streams
  <2>3. test' = [id |-> test.id, at |-> to] /\ At(to) /\ to \in Places(test.id)
    <3>1. test = [id |-> test.id, at |-> "connect"]
      BY <1>1, <1>2, TestPlaced DEF NdtInv, Placed
    <3>2. At(to)
      BY <1>4, <3>1 DEF At
    <3> QED
      BY <1>1, <1>2, <3>2, TestPlaced DEF NdtInv, At
  <2>4. Streamed'
    BY <1>2, <2>1, <2>3 DEF Streamed
  <2> HIDE DEF to
  <2>5. to \notin {"finalize", "end"}
    BY DEF to
  <2> QED
    BY <1>1, <1>4, <2>3, <2>4, <2>5, MovesKeep
<1> QED
  BY <1>3, <1>4 DEF connect_many

LEMMA TransferKeeps == NdtInv /\ (UploadEnds \/ DownloadEnds \/ StreamClosed) => NdtInv'
<1> SUFFICES ASSUME NdtInv, UploadEnds \/ DownloadEnds \/ StreamClosed PROVE NdtInv'
  OBVIOUS
<1>1. test.at = "transfer" /\ test # NoTest /\ Unmoved
  BY DEF UploadEnds, DownloadEnds, StreamEnds, StreamClosed, NoTest
<1>2. /\ test.id # "meta" /\ test.id \in Names /\ {"transfer", "msg"} \subseteq Places(test.id)
      /\ test = [id |-> test.id, at |-> "transfer"]
  BY <1>1, TestPlaced DEF NdtInv, Placed, Places, Names
<1>3. streams \in Streams
  BY DEF NdtInv, Streamed
<1>4. CASE UploadEnds \/ DownloadEnds
  <2>1. PICK err \in {"ok", "Net", "broken_pipe"} :
          /\ streams' = [streams EXCEPT !.open = @ - 1, !.closing = @ + 1, !.err = err]
          /\ streams.open > 0
    BY <1>4 DEF UploadEnds, DownloadEnds, StreamEnds
  <2>2. test' = test /\ entry' = entry /\ At("transfer")
    BY <1>2, <1>4 DEF UploadEnds, DownloadEnds, StreamEnds, At
  <2>3. streams' \in Streams
    <3>1. streams.open - 1 \in Nat /\ streams.closing + 1 \in Nat
      BY <1>3, <2>1 DEF Streams
    <3>2. [streams EXCEPT !.open = @ - 1, !.closing = @ + 1, !.err = err] \in Streams
      BY <1>3, <3>1 DEF Streams
    <3> QED
      BY <2>1, <3>2
  <2>4. Streamed'
    BY <1>1, <1>2, <2>2, <2>3 DEF Streamed
  <2> QED
    BY <1>1, <1>2, <2>2, <2>4, MovesKeep
<1>5. CASE StreamClosed
  <2>1. CASE Completes /\ coroutine_error # "ok"
    <3>1. TestEnds(coroutine_error)
      BY <1>5, <2>1 DEF StreamClosed
    <3> QED
      BY <1>1, <2>1, <3>1, EndsKeeps
  <2>2. CASE ~(Completes /\ coroutine_error # "ok")
    <3>1. /\ streams' = [streams EXCEPT !.closing = @ - 1] /\ streams.closing > 0
          /\ IF Completes THEN At("msg") ELSE UNCHANGED test
          /\ entry' = entry
      BY <1>5, <2>2 DEF StreamClosed
    <3>2. /\ streams' \in Streams
          /\ streams'.open = streams.open /\ streams'.closing = streams.closing - 1
      BY <1>3, <3>1 DEF Streams
    <3>3. CASE Completes
      <4>1. streams'.open = 0 /\ streams'.closing = 0
        BY <1>3, <3>1, <3>2, <3>3 DEF Completes, Streams
      <4>2. At("msg") /\ test' = [id |-> test.id, at |-> "msg"]
        BY <1>1, <3>1, <3>3, TestPlaced DEF NdtInv, At
      <4>3. Streamed'
        BY <3>2, <4>1, <4>2 DEF Streamed
      <4> QED
        BY <1>1, <1>2, <3>1, <4>2, <4>3, MovesKeep
    <3>4. CASE ~Completes
      <4>1. test' = test /\ At("transfer")
        BY <1>2, <3>1, <3>4 DEF At
      <4>2. Streamed'
        BY <1>2, <3>2, <4>1, <1>1 DEF Streamed
      <4> QED
        BY <1>1, <1>2, <3>1, <4>1, <4>2, MovesKeep
    <3> QED
      BY <3>3, <3>4
  <2> QED
    BY <2>1, <2>2
<1> QED
  BY <1>4, <1>5

LEMMA MsgKeeps == NdtInv /\ (UploadMsg \/ DownloadMsg) => NdtInv'
<1> SUFFICES ASSUME NdtInv, UploadMsg \/ DownloadMsg PROVE NdtInv'
  OBVIOUS
<1>1. test.at = "msg" /\ test # NoTest /\ Unmoved /\ streams.open = 0 /\ test.id \in Names
  BY TestPlaced DEF UploadMsg, DownloadMsg, NoTest, NdtInv, Streamed
<1>2. ASSUME NEW read, NoMsg(read)
      PROVE  NdtInv'
  <2>1. PICK err : err # "ok" /\ TestEnds(err)
    BY <1>2 DEF NoMsg
  <2> QED
    BY <1>1, <2>1, EndsKeeps
<1>3. CASE DownloadMsg
  <2>1. NoMsg(read_json) \/ (At("send") /\ UNCHANGED <<streams, entry>>)
    BY <1>3 DEF DownloadMsg
  <2>2. "send" \in Places(test.id)
    BY <1>3 DEF DownloadMsg, Downloads, Places
  <2> QED
    BY <1>1, <1>2, <2>1, <2>2, MovesOn
<1>4. CASE UploadMsg
  <2>1. CASE NoMsg(read_msg)
    BY <1>2, <2>1
  <2>2. CASE /\ \E n \in Samples : entry' = [entry EXCEPT !.test_c2s = Append(@, n)]
             /\ At("finalize") /\ UNCHANGED streams
    <3>1. PICK n \in Samples : entry' = [entry EXCEPT !.test_c2s = Append(@, n)]
      BY <2>2
    <3>2. /\ test.id = "upload" /\ test' = [id |-> "upload", at |-> "finalize"]
          /\ phase' = phase /\ error' = error /\ control' = control /\ streams' = streams
      BY <1>1, <1>4, <2>2, TestPlaced DEF UploadMsg, NdtInv, At, Unmoved
    <3>3. test' \in [id : {"upload"}, at : Places("upload")]
      BY <3>2 DEF Places
    <3>4. Phased' /\ Placed' /\ Streamed'
      BY <1>1, <3>2, <3>3 DEF NdtInv, Phased, Placed, Streamed, Names
    <3>5. Noted
      BY DEF NdtInv
    <3>6. /\ entry' = [field \in DOMAIN NewEntry |-> entry'[field]]
          /\ entry'.failure = entry.failure /\ entry'.phase_result = entry.phase_result
          /\ entry'.test_s2c = entry.test_s2c /\ entry'.test_c2s = Append(entry.test_c2s, n)
      BY <3>1, <3>5 DEF Noted, NewEntry
    <3>7. entry'.test_c2s \in Seq(Samples) /\ entry'.test_c2s # <<>>
      <4>1. entry.test_c2s \in Seq(Samples)
        BY <3>5 DEF Noted
      <4> QED
        BY <3>6, <4>1
    <3>8. phase # "done"
      BY <1>1 DEF NdtInv, Phased
    <3>9. Noted'
      BY <3>2, <3>5, <3>6, <3>7, <3>8 DEF Noted
    <3> QED
      BY <3>4, <3>9 DEF NdtInv
  <2> QED
    BY <1>4, <2>1, <2>2 DEF UploadMsg
<1> QED
  BY <1>3, <1>4

LEMMA StepsKeep == NdtInv /\ (Start \/ SendSpeed \/ SendMeta \/ Finalize \/ TestOk) => NdtInv'
<1> SUFFICES ASSUME NdtInv, Start \/ SendSpeed \/ SendMeta \/ Finalize \/ TestOk PROVE NdtInv'
  OBVIOUS
<1>1. test # NoTest
  BY DEF Start, SendSpeed, SendMeta, Finalize, TestOk, Step, NoTest
<1>2. test.id \in Names /\ test.at \in Places(test.id) /\ Streamed
  BY <1>1, TestPlaced DEF NdtInv
<1>3. CASE Start
  <2>1. DEFINE to == IF test.id = "meta" THEN "send" ELSE "transfer"
  <2>2. /\ to \in Places(test.id) /\ to \notin {"finalize", "end", "connect"}
        /\ streams.open = 0 \/ (to = "transfer" /\ test.id # "meta")
    BY <1>2 DEF Places, Names, Streamed
  <2>3. Step("start", Expect(read_msg, "ReadingTestStart", "NotTestStart"), to)
    BY <1>3 DEF Start
  <2> HIDE DEF to
  <2> QED
    BY <1>1, <2>2, <2>3, StepKeeps
<1>4. CASE SendSpeed
  <2>1. PICK errors : Step("send", errors, "finalizing")
    BY <1>4 DEF SendSpeed
  <2>2. test.at = "send" /\ streams.open = 0 /\ "finalizing" \in Places(test.id)
    BY <1>2, <1>4, <2>1 DEF SendSpeed, Downloads, Step, Streamed, Places
  <2> QED
    BY <1>1, <2>1, <2>2, StepKeeps
<1>5. CASE SendMeta
  <2>1. PICK errors : Step("send", errors, "finalize")
    BY <1>5 DEF SendMeta
  <2>2. /\ test.at = "send" /\ streams.open = 0 /\ "finalize" \in Places(test.id)
        /\ test.id = "meta"
    BY <1>2, <1>5, <2>1 DEF SendMeta, Step, Streamed, Places
  <2> QED
    BY <1>1, <2>1, <2>2, StepKeeps
<1>6. CASE Finalize
  <2>1. PICK errors : Step("finalize", errors, "end")
    BY <1>6 DEF Finalize
  <2>2. test.at = "finalize" /\ streams.open = 0 /\ "end" \in Places(test.id)
    BY <1>2, <2>1 DEF Step, Streamed, Places, Names
  <2> QED
    BY <1>1, <2>1, <2>2, StepKeeps
<1>7. CASE TestOk
  <2>1. test.at = "end" /\ TestEnds("ok") /\ Unmoved
    BY <1>7 DEF TestOk
  <2>2. test.id \notin Downloads
    BY <1>2, <2>1 DEF Places, Downloads
  <2> QED
    BY <1>1, <2>1, <2>2, EndsKeeps
<1> QED
  BY <1>3, <1>4, <1>5, <1>6, <1>7

LEMMA FinalizingKeeps == NdtInv /\ finalizing_test => NdtInv'
<1> SUFFICES ASSUME NdtInv, finalizing_test PROVE NdtInv'
  OBVIOUS
<1>1. test.at = "finalizing" /\ test # NoTest /\ Unmoved
  <2>1. test.at = "finalizing" /\ Unmoved
    BY Zenon DEF finalizing_test
  <2> QED
    BY <2>1 DEF NoTest
<1>2. test.id \in Downloads /\ test.id # "upload" /\ streams.open = 0 /\ Streamed
  BY <1>1, TestPlaced DEF NdtInv, Places, Names, Downloads, Streamed
<1>3. CASE NoMsg(read_msg)
  <2>1. PICK err : err # "ok" /\ TestEnds(err)
    BY <1>3 DEF NoMsg
  <2> QED
    BY <1>1, <2>1, EndsKeeps
<1>4. CASE again > 0 /\ again' = again - 1 /\ UNCHANGED <<test, streams, entry>>
  BY <1>1, <1>4 DEF NdtInv, Phased, Placed, Streamed, Noted, Unmoved
<1>5. ASSUME NEW n \in Samples, NEW web100 \in Web100,
             /\ test' = NoTest
             /\ entry' = [entry EXCEPT
                    !.test_s2c = Append(@, [samples |-> n, web100 |-> web100,
                                            connect_times |-> streams.flows]),
                    !.phase_result[test.id] = "ok"]
             /\ UNCHANGED <<streams, again>>
      PROVE  NdtInv'
  <2>1. /\ test' = NoTest /\ streams' = streams /\ phase' = phase /\ error' = error
        /\ control' = control /\ phase # "done"
    BY <1>1, <1>5 DEF Unmoved, NdtInv, Phased
  <2>2. Phased' /\ Placed' /\ Streamed'
    BY <1>1, <1>2, <2>1 DEF NdtInv, Phased, Placed, Streamed, NoTest
  <2> DEFINE new == [samples |-> n, web100 |-> web100, connect_times |-> streams.flows]
  <2>3. Noted
    BY DEF NdtInv
  <2>4. /\ entry' = [field \in DOMAIN NewEntry |-> entry'[field]]
        /\ entry'.failure = entry.failure /\ entry'.test_c2s = entry.test_c2s
        /\ entry'.test_s2c = Append(entry.test_s2c, new)
        /\ entry'.phase_result = [entry.phase_result EXCEPT ![test.id] = "ok"]
    BY <1>5, <2>3 DEF Noted, NewEntry
  <2>5. new \in Measured
    BY <1>2 DEF Measured, Streamed, Streams, Web100
  <2> HIDE DEF new
  <2>6. entry'.test_s2c \in Seq(Measured) /\ entry'.test_s2c # <<>>
    <3>1. entry.test_s2c \in Seq(Measured)
      BY <2>1, <2>3 DEF Noted
    <3> QED
      BY <2>4, <2>5, <3>1
  <2>7. /\ entry'.phase_result = [name \in Names |-> entry'.phase_result[name]]
        /\ entry'.phase_result["upload"] = entry.phase_result["upload"]
    BY <1>2, <2>3, <2>4 DEF Noted, Names
  <2>8. Noted'
    BY <2>1, <2>3, <2>4, <2>6, <2>7 DEF Noted, NoTest
  <2> QED
    BY <2>2, <2>8 DEF NdtInv
<1> QED
  BY <1>3, <1>4, <1>5 DEF finalizing_test

\* The phases, whose outcomes are never "none".
LEMMA OutcomesKnown ==
  ASSUME NEW p \in {"connect", "login", "kickoff", "queue", "version", "tests_id", "results", "wait_close"}
  PROVE  "none" \notin Outcomes(p)
<1>1. /\ "none" \notin connect /\ "none" \notin send_extended_login
      /\ "none" \notin recv_and_ignore_kickoff /\ "none" \notin wait_close
  BY DEF connect, send_extended_login, format_msg_extended_login, write, recv_and_ignore_kickoff,
         wait_close
<1>2. /\ "none" \notin wait_in_queue /\ "none" \notin recv_version /\ "none" \notin recv_tests_id
      /\ "none" \notin recv_results_and_logout
  BY DEF wait_in_queue, recv_version, recv_tests_id, recv_results_and_logout, Expect
<1> QED
  BY <1>1, <1>2 DEF Outcomes

LEMMA PhaseKeeps ==
  NdtInv /\ (run_impl \/ PhaseEnds \/ Disconnected \/ run_tests \/ PrepareOfNoWords) => NdtInv'
<1> SUFFICES ASSUME NdtInv, run_impl \/ PhaseEnds \/ Disconnected \/ run_tests \/ PrepareOfNoWords
             PROVE  NdtInv'
  OBVIOUS
<1>1. streams' = streams /\ entry' = entry /\ phase # "done"
  BY DEF run_impl, PhaseEnds, Disconnected, run_tests, PrepareOfNoWords, NdtInv, Phased, NoTest
<1>2. ASSUME test' = test, phase' # "done", Phased'
      PROVE  NdtInv'
  BY <1>1, <1>2 DEF NdtInv, Placed, Streamed, Noted
<1>3. CASE run_impl
  <2>1. test = NoTest /\ test' = test /\ phase = "run" /\ control' = control
    BY <1>3 DEF run_impl, NdtInv, Phased
  <2>2. \/ phase' = "connect"
        \/ phase' = "called" /\ error' \in {"InvalidPort", "MlabnsQuery"}
    BY <1>3 DEF run_impl
  <2> QED
    BY <1>2, <2>1, <2>2 DEF NdtInv, Phased, Talking
<1>4. CASE PhaseEnds
  <2>1. /\ phase \in {"connect", "login", "kickoff", "queue", "version", "tests_id", "results", "wait_close"}
        /\ test = NoTest /\ test' = test
    BY <1>4 DEF PhaseEnds, NdtInv, Phased
  <2>2. PICK err \in Outcomes(phase) :
       \/ phase' = phase /\ error' = error /\ control' = control
       \/ disconnect_and_callback(err) /\ control' = control
       \/ /\ phase # "wait_close" /\ phase' = After(phase)
          /\ control' = (control \/ phase = "connect") /\ error' = error
    BY <1>4 DEF PhaseEnds
  <2>3. err # "none"
    BY <2>1, <2>2, OutcomesKnown
  <2>4. CASE phase' = phase /\ error' = error /\ control' = control
    BY <1>2, <2>1, <2>4 DEF NdtInv, Phased
  <2>5. CASE disconnect_and_callback(err) /\ control' = control
    BY <1>2, <2>1, <2>3, <2>5 DEF NdtInv, Phased, Talking, disconnect_and_callback
  <2>6. CASE /\ phase # "wait_close" /\ phase' = After(phase)
             /\ control' = (control \/ phase = "connect") /\ error' = error
    <3>1. phase' \in Talking
      BY <2>1, <2>6 DEF After, Talking
    <3>2. control'
      BY <2>1, <2>6 DEF NdtInv, Phased, Talking
    <3> QED
      BY <1>2, <2>1, <3>1, <3>2 DEF Phased, Talking
  <2> QED
    BY <2>2, <2>4, <2>5, <2>6
<1>5. CASE Disconnected
  BY <1>2, <1>5 DEF Disconnected, NdtInv, Phased, Talking
<1>6. CASE run_tests
  <2>1. phase = "run_tests" /\ test = NoTest /\ control' = control /\ control
    BY <1>6 DEF run_tests, NdtInv, Phased, Talking
  <2>2. \/ phase' = "results" /\ test' = test /\ error' = error
        \/ /\ test' = [id |-> Head(granted), at |-> "prepare"] /\ Head(granted) \in Names
           /\ phase' = phase /\ error' = error
        \/ \E err \in {"UnknownTestId", "InvalidTestId"} : disconnect_and_callback(err) /\ test' = test
    BY <1>6, <2>1 DEF run_tests, After
  <2>3. CASE phase' = "results" /\ test' = test /\ error' = error
    BY <1>2, <2>1, <2>3 DEF NdtInv, Phased, Talking
  <2>4. CASE \E err \in {"UnknownTestId", "InvalidTestId"} : disconnect_and_callback(err) /\ test' = test
    BY <1>2, <2>1, <2>4 DEF NdtInv, Phased, Talking, disconnect_and_callback
  <2>5. CASE /\ test' = [id |-> Head(granted), at |-> "prepare"] /\ Head(granted) \in Names
             /\ phase' = phase /\ error' = error
    <3>1. test' \in [id : {Head(granted)}, at : Places(Head(granted))]
      BY <2>5 DEF Places
    <3>2. Phased' /\ Placed'
      BY <2>1, <2>5, <3>1 DEF NdtInv, Phased, Placed, Talking
    <3>3. Streamed'
      BY <1>1, <2>1, <2>5 DEF NdtInv, Streamed, NoTest
    <3>4. Noted'
      BY <1>1, <2>1, <2>5 DEF NdtInv, Noted, NoTest
    <3> QED
      BY <3>2, <3>3, <3>4 DEF NdtInv
  <2> QED
    BY <2>2, <2>3, <2>4, <2>5
<1>7. CASE PrepareOfNoWords
  BY <1>2, <1>7 DEF PrepareOfNoWords, NdtInv, Phased
<1> QED
  BY <1>3, <1>4, <1>5, <1>6, <1>7

LEMMA MainKeeps == NdtInv /\ main => NdtInv'
<1> SUFFICES ASSUME NdtInv, main PROVE NdtInv'
  OBVIOUS
<1>1. /\ phase = "called" /\ phase' = "done" /\ error # "none" /\ ~control /\ test = NoTest
      /\ test' = test /\ error' = error /\ control' = control /\ streams' = streams
  BY DEF main, NdtInv, Phased, Talking
<1>2. Phased' /\ Placed' /\ Streamed'
  BY <1>1 DEF NdtInv, Phased, Placed, Streamed, Talking
<1>3. Noted
  BY DEF NdtInv
<1>4. /\ entry' = [field \in DOMAIN NewEntry |-> entry'[field]]
      /\ entry'.phase_result = entry.phase_result /\ entry'.test_c2s = entry.test_c2s
      /\ entry'.failure = FailureOf(entry)
      /\ entry'.test_s2c = IF entry.test_s2c = <<>> THEN <<Null>> ELSE entry.test_s2c
  BY <1>3 DEF Noted, NewEntry, main
<1>5. ASSUME FailureOf(entry) = "none"
      PROVE  error = "ok" /\ entry.test_c2s # <<>> /\ entry.test_s2c # <<>>
  BY <1>1, <1>5 DEF FailureOf, compute_advanced_stats_throws, compute_simple_stats_throws
<1>6. <<Null>> # <<>> /\ entry.test_s2c \in Seq(Measured)
  BY <1>1, <1>3 DEF Noted
<1>7. Noted'
  BY <1>1, <1>3, <1>4, <1>5, <1>6 DEF Noted, NoTest
<1> QED
  BY <1>2, <1>7 DEF NdtInv

\* The invariant of NDT holds in every reachable state.
THEOREM NdtInvariant == Spec => []NdtInv
<1>1. NdtInv /\ UNCHANGED ndtVars => NdtInv'
  BY DEF ndtVars, NdtInv, Phased, Placed, Streamed, Noted
<1>2. NdtInv /\ NdtNext => NdtInv'
  BY PhaseKeeps, PrepareKeeps, ConnectKeeps, StepsKeep, TransferKeeps, MsgKeeps, FinalizingKeeps,
     MainKeeps DEF NdtNext
<1>3. NdtInv /\ [Next]_vars => NdtInv'
  BY <1>1, <1>2 DEF Next, Over, vars
<1> QED
  BY InitNdt, <1>3, PTL DEF Spec

\* A transfer is over when the last of its connections is closed, and nothing
\* of a test nor of the session is left when the caller is called back.
THEOREM NdtClosesStreams == Spec => []StreamsClosed
<1>1. NdtInv => StreamsClosed
  <2> SUFFICES ASSUME NdtInv PROVE StreamsClosed
    OBVIOUS
  <2>1. test.at \notin {"connect", "start", "transfer"} => streams.open = 0 /\ streams.closing = 0
    BY DEF NdtInv, Streamed
  <2>2. phase \in {"called", "done"} => ~control /\ test = NoTest
    BY DEF NdtInv, Phased, Talking
  <2> QED
    BY <2>1, <2>2 DEF StreamsClosed
<1> QED
  BY <1>1, NdtInvariant, PTL

\* The entry has no failure only if the session ended well and what its
\* phases measured is in it.
THEOREM NdtTellsTruly == Spec => []NdtTruthful
<1>1. ASSUME NEW s \in Seq(Measured), s # <<>>
      PROVE  s # <<Null>>
  <2>1. s[1] \in Measured
    BY <1>1
  <2> QED
    BY <2>1 DEF Measured, Null, Samples
<1>2. NdtInv => NdtTruthful
  BY <1>1 DEF NdtInv, Noted, NdtTruthful
<1> QED
  BY <1>2, NdtInvariant, PTL

-----------------------------------------------------------------------------
(* The logger: where the nettest is, and how much it may still tell.  NDT  *)
(* adds up what it tells, hence the invariant says how much the tests that *)
(* are left may add; the others compute it from what is done.              *)

NdtPlaces == {"ndt", "tests", "transfer", "results"}
Measuring == NdtPlaces \cup {"entries", "dash"}
Unscaled == {"configure", "geoip", "open_report", "started", "close", "over"}
TestName == {"upload", "download", "download_ext", "meta"}
ClientFields ==
  [kind : {"entries", "ndt", "dash"}, entries : Nat, max_runtime : BOOLEAN,
   granted : Seq(TestName), tests : Seq(TestName), max_iterations : Nat]

LoggerTyped ==
  /\ at \in Measuring \cup Unscaled \cup {"end"}
  /\ logging = [settings |-> logging.settings, client |-> Client]
  /\ logging.settings.warnings \in Nat /\ logging.settings.room \in Nat
  /\ Client \in ClientFields
  /\ done \in Nat
  /\ DOMAIN logger = DOMAIN DefaultLogger
  /\ logger.offset \in Nat /\ logger.scale \in {8, 10} /\ logger.relative \in Nat
  /\ at \in NdtPlaces => Client.kind = "ndt"

\* Where the scale of the measurements holds, and how far they may count.
Scales ==
  /\ at \in Unscaled => logger.offset = 0 /\ logger.scale = 10
  /\ at \in Measuring => logger.offset = 1000 /\ logger.scale = 8
  /\ at = "entries" => done <= IF Client.max_runtime THEN 10 ELSE Client.entries
  /\ at = "dash" => done <= Client.max_iterations

\* What the tests that are left may add to the progress of NDT.
Left(tests) == 3800 * Cardinality(Transfers(tests)) + 80 * Cardinality(Metas(tests))

Spent ==
  /\ at = "ndt" => done <= 5 /\ logger.relative = 80 * done
  /\ at \in {"configure", "geoip", "open_report", "started", "ndt"} => Left(Client.tests) <= 7680
  /\ at = "tests" => logger.relative + Left(Client.tests) <= 8160
  /\ at = "transfer" => /\ done <= MaxSamples
                        /\ logger.relative + Left(Client.tests) + 200 * (MaxSamples - done) <= 8160
  /\ at = "results" => done <= 1 /\ logger.relative <= 8160 + 80 * done

\* In thousandths.
Share(d, n) == (1000 * d) \div n
Quotient == IF at = "dash" THEN Share(done, Client.max_iterations) ELSE Share(done - 1, Client.entries)

\* No percentage that was told is higher.
Ceiling ==
  CASE at \in {"configure", "geoip"} -> 0
    [] at = "open_report" -> 500
    [] at = "started" -> 1000
    [] at \in {"entries", "dash"} ->
         IF done = 0 THEN 1000
         ELSE IF at = "entries" /\ Client.max_runtime THEN 200 + 800 * done
         ELSE 1000 + 8 * Quotient
    [] at \in NdtPlaces -> 1000 + logger.relative
    [] at \in {"end", "close"} -> 9500
    [] at = "over" -> One

Rising(s, ceiling) ==
  /\ s \in Seq(Int)
  /\ \A i \in DOMAIN s : 0 <= s[i] /\ s[i] <= ceiling
  /\ \A i, j \in DOMAIN s : i < j => s[i] <= s[j]

Tells ==
  /\ at = "configure" \/ "status.progress" \notin logger.handlers => told = <<>>
  /\ Rising(told, Ceiling)
  /\ at = "over" => \A i \in DOMAIN told : told[i] = One <=> i = Len(told)

FewTransfers ==
  Client.kind = "ndt" =>
    Cardinality(Transfers(Client.granted)) <= 2 /\ Cardinality(Metas(Client.granted)) <= 1

\* The lines of the log file that the user is told, and the place of each among
\* those that he is told after the first ones, which are w.
Kept(file) == {i \in DOMAIN file : ~file[i][2]}
Below(K, i) == {j \in K : j <= i}
SameLines(queue, file, w, room) ==
  /\ w + Cardinality(Kept(file)) <= Len(queue)
  /\ Len(file) < room => Len(queue) = w + Cardinality(Kept(file))
  /\ \A i \in Kept(file) :
       LET place == w + Cardinality(Below(Kept(file), i))
       IN place \in DOMAIN queue /\ queue[place] = file[i][1]

LinesKept ==
  /\ lines = [queue |-> lines.queue, file |-> lines.file]
  /\ lines.queue \in Seq(Nat) /\ lines.file \in Seq(Nat \X BOOLEAN)
  /\ at = "configure" => lines.queue = <<>> /\ lines.file = <<>> /\ logger.consumer = "stderr"
  /\ logger.ofile /\ logger.consumer = "engine" =>
       SameLines(lines.queue, lines.file, logging.settings.warnings, logging.settings.room)

LoggerInv ==
  /\ at = "idle" => ~logger.ofile
  /\ at # "idle" =>
       /\ LoggerTyped /\ Scales /\ LinesKept
       /\ FewTransfers => (Client.kind = "ndt" => Spent) /\ Tells

-----------------------------------------------------------------------------
(* Quotients, counts of tests and of lines, and sequences that rise.       *)

LEMMA Quotients ==
  ASSUME NEW n \in Nat \ {0}, NEW d \in Nat
  PROVE  /\ d \div n \in Nat /\ (d \div n) * n <= d /\ d < (d \div n + 1) * n
  BY SMT

\* A share of n in thousandths, which grows with d.
LEMMA Shares ==
  ASSUME NEW n \in Nat \ {0}, NEW d \in Nat, NEW e \in Nat, d <= e, e <= n
  PROVE  Share(d, n) <= Share(e, n) /\ Share(d, n) \in 0 .. 1000 /\ Share(e, n) \in 0 .. 1000
<1> USE DEF Share
<1> DEFINE p == Share(d, n)
           q == Share(e, n)
<1>1. /\ p \in Nat /\ p * n <= 1000 * d
      /\ q \in Nat /\ 1000 * e < (q + 1) * n /\ q * n <= 1000 * e
  BY Quotients
<1> HIDE DEF p, q
<1>2. q <= 1000
  <2>1. SUFFICES ASSUME q >= 1001 PROVE FALSE
    BY <1>1
  <2>2. q * n >= 1001 * n
    BY <1>1, <2>1
  <2> QED
    BY <1>1, <2>2
<1>3. p <= q
  <2>1. SUFFICES ASSUME p >= q + 1 PROVE FALSE
    BY <1>1
  <2>2. p * n >= (q + 1) * n
    BY <1>1, <2>1
  <2> QED
    BY <1>1, <2>2
<1> QED
  BY <1>1, <1>2, <1>3 DEF p, q

\* The same, for one of them.
LEMMA ShareOf == \A n \in Nat \ {0}, d \in Nat : d <= n => Share(d, n) \in 0 .. 1000
<1> SUFFICES ASSUME NEW n \in Nat \ {0}, NEW d \in Nat, d <= n PROVE Share(d, n) \in 0 .. 1000
  OBVIOUS
<1>1. d <= d
  OBVIOUS
<1> QED
  BY <1>1, Shares, ZenonT(30)

LEMMA SharesGrow == \A n \in Nat \ {0}, d, e \in Nat : d <= e /\ e <= n => Share(d, n) <= Share(e, n)
  BY Shares

\* Without its first place, a set of places of s is one of Tail(s), moved by one.
LEMMA MovedByOne ==
  ASSUME NEW n \in Nat \ {0}, NEW D \in SUBSET (1 .. n)
  PROVE  Cardinality({i \in 1 .. n - 1 : i + 1 \in D}) = Cardinality(D \ {1})
<1> DEFINE E == {i \in 1 .. n - 1 : i + 1 \in D}
           f == [i \in E |-> i + 1]
<1>1. IsFiniteSet(E)
  <2>1. IsFiniteSet(1 .. n - 1) /\ E \in SUBSET (1 .. n - 1)
    BY FS_Interval
  <2> QED
    BY <2>1, FS_Subset
<1>2. f \in [E -> D \ {1}]
  OBVIOUS
<1>3. \A x, y \in E : f[x] = f[y] => x = y
  OBVIOUS
<1>4. \A z \in D \ {1} : \E x \in E : f[x] = z
  <2> TAKE z \in D \ {1}
  <2>1. z - 1 \in E /\ f[z - 1] = z
    OBVIOUS
  <2> QED
    BY <2>1
<1>5. f \in Bijection(E, D \ {1})
  BY <1>2, <1>3, <1>4 DEF Bijection, Injection, IsInjective, Surjection
<1> QED
  BY <1>1, <1>5, FS_Bijection DEF ExistsBijection

LEMMA FiniteTests ==
  ASSUME NEW tests \in Seq(TestName)
  PROVE  /\ IsFiniteSet(Transfers(tests)) /\ Cardinality(Transfers(tests)) \in Nat
         /\ IsFiniteSet(Metas(tests)) /\ Cardinality(Metas(tests)) \in Nat
<1>1. IsFiniteSet(1 .. Len(tests)) /\ DOMAIN tests = 1 .. Len(tests)
  BY FS_Interval
<1>2. Transfers(tests) \subseteq 1 .. Len(tests) /\ Metas(tests) \subseteq 1 .. Len(tests)
  BY <1>1 DEF Transfers, Metas
<1> QED
  BY <1>1, <1>2, FS_Subset, FS_CardinalityType

\* Each test that is run takes its share of what was left.
LEMMA LeftAfter ==
  ASSUME NEW tests \in Seq(TestName), tests # <<>>
  PROVE  /\ Tail(tests) \in Seq(TestName) /\ Left(Tail(tests)) \in Nat
         /\ Left(tests) = Left(Tail(tests)) + IF Head(tests) = "meta" THEN 80 ELSE 3800
<1> DEFINE n == Len(tests)
           t == Tail(tests)
<1>1. /\ n \in Nat \ {0} /\ DOMAIN tests = 1 .. n
      /\ t \in Seq(TestName) /\ DOMAIN t = 1 .. n - 1
      /\ \A i \in 1 .. n - 1 : t[i] = tests[i + 1]
      /\ Head(tests) = tests[1]
  OBVIOUS
<1> HIDE DEF n, t
<1>2. Transfers(t) = {i \in 1 .. n - 1 : i + 1 \in Transfers(tests)}
  BY <1>1 DEF Transfers
<1>3. Metas(t) = {i \in 1 .. n - 1 : i + 1 \in Metas(tests)}
  BY <1>1 DEF Transfers, Metas
<1>4. Transfers(tests) \in SUBSET (1 .. n) /\ Metas(tests) \in SUBSET (1 .. n)
  BY <1>1 DEF Transfers, Metas
<1>5. /\ Cardinality(Transfers(t)) = Cardinality(Transfers(tests) \ {1})
      /\ Cardinality(Metas(t)) = Cardinality(Metas(tests) \ {1})
  BY <1>1, <1>2, <1>3, <1>4, MovedByOne
<1>6. /\ 1 \in Transfers(tests) <=> Head(tests) # "meta"
      /\ 1 \in Metas(tests) <=> Head(tests) = "meta"
  BY <1>1 DEF Transfers, Metas
<1>7. /\ Cardinality(Transfers(tests) \ {1}) =
           IF Head(tests) # "meta" THEN Cardinality(Transfers(tests)) - 1 ELSE Cardinality(Transfers(tests))
      /\ Cardinality(Metas(tests) \ {1}) =
           IF Head(tests) = "meta" THEN Cardinality(Metas(tests)) - 1 ELSE Cardinality(Metas(tests))
  BY <1>6, FiniteTests, FS_RemoveElement
<1>8. /\ Cardinality(Transfers(tests)) \in Nat /\ Cardinality(Metas(tests)) \in Nat
      /\ Cardinality(Transfers(t)) \in Nat /\ Cardinality(Metas(t)) \in Nat
  BY <1>1, FiniteTests
<1> QED
  BY <1>1, <1>5, <1>7, <1>8 DEF Left, t

\* One more percentage, which is not lower than those before.
LEMMA RisesOn ==
  ASSUME NEW s, NEW c \in Nat, NEW p \in Nat, Rising(s, c), c <= p
  PROVE  /\ Rising(s, p) /\ Rising(Append(s, p), p)
         /\ c < One /\ p = One => \A i \in DOMAIN Append(s, p) :
              Append(s, p)[i] = One <=> i = Len(Append(s, p))
<1>1. Rising(s, p)
  BY DEF Rising
<1> DEFINE t == Append(s, p)
<1>2. /\ s \in Seq(Int) /\ t \in Seq(Int) /\ DOMAIN s = 1 .. Len(s) /\ DOMAIN t = 1 .. Len(s) + 1
      /\ Len(t) = Len(s) + 1 /\ Len(s) \in Nat /\ t[Len(s) + 1] = p
      /\ \A i \in 1 .. Len(s) : t[i] = s[i]
  BY DEF Rising
<1> HIDE DEF t
<1>3. \A i \in DOMAIN t : 0 <= t[i] /\ t[i] <= p
  BY <1>1, <1>2 DEF Rising
<1>4. \A i, j \in DOMAIN t : i < j => t[i] <= t[j]
  <2> SUFFICES ASSUME NEW i \in DOMAIN t, NEW j \in DOMAIN t, i < j PROVE t[i] <= t[j]
    OBVIOUS
  <2>1. i \in 1 .. Len(s) /\ t[i] = s[i] /\ s[i] \in Int /\ s[i] <= p
    BY <1>1, <1>2 DEF Rising
  <2>2. CASE j \in 1 .. Len(s)
    BY <1>2, <2>1, <2>2 DEF Rising
  <2>3. CASE j = Len(s) + 1
    BY <1>2, <2>1, <2>3
  <2> QED
    BY <1>2, <2>2, <2>3
<1>5. c < One /\ p = One => \A i \in DOMAIN t : t[i] = One <=> i = Len(t)
  BY <1>2 DEF Rising
<1> QED
  BY <1>1, <1>2, <1>3, <1>4, <1>5 DEF Rising, t

\* A line that is written to the file, and to the queue unless it is an event.
LEMMA LineAdded ==
  ASSUME NEW queue \in Seq(Nat), NEW file \in Seq(Nat \X BOOLEAN), NEW w \in Nat, NEW room \in Nat,
         SameLines(queue, file, w, room), Len(file) < room,
         NEW level \in Nat, NEW event \in BOOLEAN
  PROVE  SameLines(IF ~event THEN Append(queue, level) ELSE queue, Append(file, <<level, event>>), w, room)
<1> DEFINE n == Len(file)
           f == Append(file, <<level, event>>)
           q == Append(queue, level)
<1>1. /\ n \in Nat /\ DOMAIN file = 1 .. n /\ DOMAIN f = 1 .. n + 1 /\ f[n + 1] = <<level, event>>
      /\ \A i \in 1 .. n : f[i] = file[i]
      /\ DOMAIN queue = 1 .. Len(queue) /\ Len(queue) \in Nat /\ Len(q) = Len(queue) + 1
      /\ DOMAIN q = 1 .. Len(q) /\ q[Len(queue) + 1] = level
      /\ \A i \in 1 .. Len(queue) : q[i] = queue[i]
  OBVIOUS
<1>2. IsFiniteSet(Kept(file)) /\ Cardinality(Kept(file)) \in Nat /\ Kept(file) \subseteq 1 .. n
  <2>1. Kept(file) \subseteq 1 .. n
    BY <1>1 DEF Kept
  <2>2. IsFiniteSet(1 .. n)
    BY <1>1, FS_Interval
  <2> QED
    BY <2>1, <2>2, FS_Subset, FS_CardinalityType
<1>3. Len(queue) = w + Cardinality(Kept(file))
  BY DEF SameLines
<1> HIDE DEF n, f, q
<1>4. Kept(f) = IF event THEN Kept(file) ELSE Kept(file) \cup {n + 1}
  BY <1>1 DEF Kept
<1>5. \A i \in Kept(file) :
        LET place == w + Cardinality(Below(Kept(file), i))
        IN place \in 1 .. Len(queue) /\ queue[place] = file[i][1] /\ f[i] = file[i]
  BY <1>1, <1>2 DEF SameLines
<1>6. CASE event
  BY <1>1, <1>2, <1>3, <1>4, <1>5, <1>6 DEF SameLines, f
<1>7. CASE ~event
  <2>1. Kept(f) = Kept(file) \cup {n + 1} /\ n + 1 \notin Kept(file)
    BY <1>1, <1>2, <1>4, <1>7
  <2>2. w + Cardinality(Kept(f)) = Len(q)
    <3>1. Cardinality(Kept(f)) = Cardinality(Kept(file)) + 1
      BY <1>2, <2>1, FS_AddElement
    <3> QED
      BY <1>1, <1>2, <1>3, <3>1
  <2>3. \A i \in Kept(file) : Below(Kept(f), i) = Below(Kept(file), i)
    BY <1>1, <1>2, <2>1 DEF Below
  <2>4. Below(Kept(f), n + 1) = Kept(f)
    BY <1>1, <1>2, <2>1 DEF Below
  <2>5. ASSUME NEW i \in Kept(f)
        PROVE  LET place == w + Cardinality(Below(Kept(f), i)) IN place \in DOMAIN q /\ q[place] = f[i][1]
    <3>1. CASE i \in Kept(file)
      BY <1>1, <1>5, <2>3, <3>1
    <3>2. CASE i = n + 1
      BY <1>1, <2>2, <2>4, <3>2
    <3> QED
      BY <2>1, <3>1, <3>2
  <2>6. Len(q) \in Nat
    BY <1>1
  <2>7. SameLines(q, f, w, room)
    BY <2>2, <2>5, <2>6 DEF SameLines
  <2> QED
    BY <1>7, <2>7 DEF q, f
<1> QED
  BY <1>6, <1>7

\* A line that the file has no room for.
LEMMA LineLost ==
  ASSUME NEW queue \in Seq(Nat), NEW file \in Seq(Nat \X BOOLEAN), NEW w \in Nat, NEW room \in Nat,
         SameLines(queue, file, w, room), ~(Len(file) < room), NEW level \in Nat
  PROVE  SameLines(Append(queue, level), file, w, room)
<1> DEFINE q == Append(queue, level)
<1>1. /\ DOMAIN queue = 1 .. Len(queue) /\ Len(queue) \in Nat /\ Len(q) = Len(queue) + 1
      /\ DOMAIN q = 1 .. Len(queue) + 1 /\ \A i \in 1 .. Len(queue) : q[i] = queue[i]
  OBVIOUS
<1>2. Cardinality(Kept(file)) \in Nat
  <2>1. DOMAIN file = 1 .. Len(file) /\ Len(file) \in Nat
    OBVIOUS
  <2>2. IsFiniteSet(1 .. Len(file)) /\ Kept(file) \subseteq 1 .. Len(file)
    BY <2>1, FS_Interval DEF Kept
  <2> QED
    BY <2>2, FS_Subset, FS_CardinalityType
<1> HIDE DEF q
<1>3. w + Cardinality(Kept(file)) <= Len(q)
  BY <1>1, <1>2 DEF SameLines
<1>4. \A i \in Kept(file) :
        LET place == w + Cardinality(Below(Kept(file), i)) IN place \in DOMAIN q /\ q[place] = file[i][1]
  BY <1>1 DEF SameLines
<1> QED
  BY <1>3, <1>4 DEF SameLines, q

-----------------------------------------------------------------------------
(* The steps.                                                              *)

LEMMA InitLogger == Init => LoggerInv
<1>0. Init /\ at = "idle" => ~logger.ofile
  BY DEF Init, LoggerIdle, LoggerInit, DefaultLogger
<1> SUFFICES ASSUME Init, at # "idle" PROVE LoggerInv
  BY <1>0 DEF LoggerInv
<1>1. LoggerInit
  BY DEF Init, LoggerIdle
<1>2. PICK s \in LogSettings, c \in LogClients : logging = [settings |-> s, client |-> c]
  BY <1>1 DEF LoggerInit
<1>3. /\ Client = c /\ Client \in ClientFields
      /\ Client.tests = Client.granted
  BY <1>2, LoggerAssumption DEF Client, ClientFields, TestName
<1>4. /\ at = "configure" /\ done = 0 /\ logger = DefaultLogger /\ told = <<>>
      /\ lines = [queue |-> <<>>, file |-> <<>>]
  BY <1>1 DEF LoggerInit
<1>5. LoggerTyped /\ Scales
  BY <1>2, <1>3, <1>4, LoggerAssumption DEF LoggerTyped, Scales, DefaultLogger, Measuring, NdtPlaces, Unscaled, Client
<1>6. LinesKept
  BY <1>4 DEF LinesKept, DefaultLogger
<1>7. FewTransfers /\ Client.kind = "ndt" => Spent
  <2>1. Client.tests \in Seq(TestName)
    BY <1>3 DEF ClientFields
  <2>2. Cardinality(Transfers(Client.tests)) \in Nat /\ Cardinality(Metas(Client.tests)) \in Nat
    BY <2>1, FiniteTests
  <2> QED
    BY <1>3, <1>4, <2>2 DEF Spent, FewTransfers, Left
<1>8. Tells
  BY <1>4 DEF Tells, Rising, DefaultLogger
<1> QED
  BY <1>5, <1>6, <1>7, <1>8 DEF LoggerInv

\* What no step changes, once the logger is set up.
Lasting(c) == <<c.kind, c.entries, c.max_runtime, c.granted, c.max_iterations>>
Setting(l) == <<l.ofile, l.consumer, l.handlers>>
Settings == logging.settings

LEMMA CountedStep ==
  ASSUME LoggerTyped, Scales, LoggerNext
  PROVE  /\ LoggerTyped' /\ Scales' /\ Lasting(Client)' = Lasting(Client) /\ Settings' = Settings
         /\ at' # "configure" /\ (at = "configure" \/ Setting(logger)' = Setting(logger))
<1> USE DEF LoggerTyped, Scales, Goto, Silent, Quiet, Measuring, NdtPlaces, Unscaled, Client, Lasting,
            Setting, Settings, DefaultLogger
<1>1. CASE Configure
  <2>1. /\ DOMAIN logger' = DOMAIN logger /\ logger'.offset = logger.offset
        /\ logger'.scale = logger.scale /\ logger'.relative = logger.relative
    BY <1>1 DEF Configure, SetUp
  <2>2. at = "configure" /\ at' = "geoip" /\ done' = 0 /\ logging' = logging
    BY <1>1 DEF Configure
  <2>3. LoggerTyped'
    BY <2>1, <2>2
  <2>4. Scales' /\ at' # "configure"
    BY <2>1, <2>2
  <2> QED
    BY <2>2, <2>3, <2>4
<1>16. CASE Refuse
  BY <1>16 DEF Refuse
<1>2. CASE geoip_lookup
  <2>1. logger' = logger
    BY <1>2 DEF geoip_lookup, progress
  <2>2. at = "geoip" /\ at' = "open_report" /\ done' = 0 /\ logging' = logging
    BY <1>2 DEF geoip_lookup
  <2> QED
    BY <2>1, <2>2
<1>3. CASE BeginFails
  BY <1>3 DEF BeginFails
<1>4. CASE StartingTheTest
  BY <1>4 DEF StartingTheTest, progress
<1>5. CASE Scale
  <2>1. PICK label \in {Client.kind, "end"} : Goto(label)
    BY <1>5 DEF Scale
  <2>2. /\ logger'.offset = 1000 /\ logger'.scale = 8 /\ logger'.relative = 0
        /\ DOMAIN logger' = DOMAIN logger /\ Setting(logger)' = Setting(logger)
    BY <1>5 DEF Scale, Rescaled
  <2>3. Client.kind \in {"entries", "ndt", "dash"} /\ Client.entries \in Nat /\ Client.max_iterations \in Nat
    BY DEF ClientFields
  <2>4. UNCHANGED logging /\ at' = label /\ done' = 0
    BY <2>1
  <2> QED
    BY <2>1, <2>2, <2>3, <2>4
<1>6. CASE run_next_measurement
  <2>1. /\ at = "entries" /\ UNCHANGED <<at, logging, logger>> /\ done' \in Nat
        /\ done' <= IF Client.max_runtime THEN 10 ELSE Client.entries
    BY <1>6 DEF run_next_measurement, progress, ClientFields
  <2> QED
    BY <2>1
<1>7. CASE EntriesEnd
  BY <1>7 DEF EntriesEnd
<1>8. CASE ndt_Step
  <2>1. /\ UNCHANGED logging /\ at \in {"ndt", "results"} /\ at' \in {at, "tests", "end"} /\ done' \in Nat
    <3>1. CASE at = "ndt" /\ done = 5
      BY <1>8, <3>1 DEF ndt_Step
    <3>2. CASE at = "results" /\ done = 1
      BY <1>8, <3>2 DEF ndt_Step
    <3>3. CASE ~(at = "ndt" /\ done = 5) /\ ~(at = "results" /\ done = 1)
      BY <1>8, <3>3 DEF ndt_Step, Count
    <3> QED
      BY <3>1, <3>2, <3>3
  <2>2. logger' = [logger EXCEPT !.relative = Relative(10)] /\ Relative(10) \in Nat
    BY <1>8 DEF ndt_Step, progress_relative, Relative
  <2> QED
    BY <2>1, <2>2
<1>9. CASE ndt_Test
  <2>1. /\ Client' \in ClientFields /\ logging' = [settings |-> logging.settings, client |-> Client']
        /\ logging'.settings = logging.settings
        /\ Lasting(Client)' = Lasting(Client)
    <3>1. CASE Client.tests = <<>>
      <4>1. logging' = logging
        BY <1>9, <3>1 DEF ndt_Test
      <4> QED
        BY <4>1
    <3>2. CASE Client.tests # <<>>
      <4>1. Tail(Client.tests) \in Seq(TestName)
        BY <3>2 DEF ClientFields
      <4>2. logging' = [logging EXCEPT !.client.tests = Tail(@)]
        BY <1>9, <3>2 DEF ndt_Test
      <4>3. logging'.client = [logging.client EXCEPT !.tests = Tail(logging.client.tests)]
            /\ logging' = [settings |-> logging.settings, client |-> logging'.client]
        BY <4>2
      <4>4. logging.client \in ClientFields
        OBVIOUS
      <4>5. ASSUME NEW c \in ClientFields, NEW tests \in Seq(TestName)
            PROVE  [c EXCEPT !.tests = tests] \in ClientFields
        BY DEF ClientFields
      <4>6. logging'.client \in ClientFields
        <5> DEFINE tests == Tail(logging.client.tests)
        <5>1. tests \in Seq(TestName) /\ logging'.client = [logging.client EXCEPT !.tests = tests]
          BY <4>1, <4>3
        <5> HIDE DEF tests
        <5>2. [logging.client EXCEPT !.tests = tests] \in ClientFields
          BY <4>4, <4>5, <5>1
        <5> QED
          BY <5>1, <5>2
      <4>7. Lasting(Client)' = Lasting(Client)
        BY <4>3, <4>4 DEF ClientFields
      <4> QED
        BY <4>3, <4>6, <4>7
    <3> QED
      BY <3>1, <3>2
  <2>2. at = "tests" /\ at' \in {"tests", "transfer", "results"} /\ done' = 0
    BY <1>9 DEF ndt_Test
  <2>3. logger' = logger \/ (logger' = [logger EXCEPT !.relative = Relative(10)] /\ Relative(10) \in Nat)
    BY <1>9 DEF ndt_Test, progress_relative, Relative
  <2> QED
    BY <2>1, <2>2, <2>3
<1>10. CASE log_speed
  <2>1. logger' = logger \/ (logger' = [logger EXCEPT !.relative = Relative(25)] /\ Relative(25) \in Nat)
    BY <1>10 DEF log_speed, progress_relative, Relative
  <2> QED
    BY <1>10, <2>1 DEF log_speed, Count
<1>11. CASE TransferEnds
  BY <1>11 DEF TransferEnds
<1>12. CASE dash_Downloaded
  <2>1. Client.max_iterations \in Nat
    BY DEF ClientFields
  <2>2. CASE done < Client.max_iterations
    BY <1>12, <2>1, <2>2 DEF dash_Downloaded, progress, Count
  <2>3. CASE ~(done < Client.max_iterations)
    BY <1>12, <2>3 DEF dash_Downloaded
  <2> QED
    BY <2>2, <2>3
<1>13. CASE ClientFails
  BY <1>13 DEF ClientFails
<1>14. CASE end
  BY <1>14 DEF end, Rescaled
<1>15. CASE Closed
  BY <1>15 DEF Closed, progress
<1> QED
  BY <1>1, <1>2, <1>3, <1>4, <1>5, <1>6, <1>7, <1>8, <1>9, <1>10, <1>11, <1>12, <1>13, <1>14, <1>15, <1>16
     DEF LoggerNext

\* Only the first step sets the logger up, or refuses to, and what a later step
\* writes is one line.
LEMMA WritesALine ==
  ASSUME LoggerNext, ~Configure, ~Refuse
  PROVE  /\ at # "configure"
         /\ Quiet \/ \E level \in Nat, event \in BOOLEAN : log(level, event)
<1> USE DEF Quiet
<1> DEFINE Writes == \E level \in Nat, event \in BOOLEAN : log(level, event)
<1>2. CASE geoip_lookup
  <2>1. CASE logging.settings.no_geoip
    BY <1>2, <2>1 DEF geoip_lookup
  <2>2. CASE ~logging.settings.no_geoip
    <3>1. PICK level \in {2, 3, 4} : log(level, FALSE)
      BY <1>2, <2>2 DEF geoip_lookup, MK_LOG_WARNING, MK_LOG_INFO, MK_LOG_DEBUG
    <3> QED
      BY <1>2, <3>1 DEF geoip_lookup
  <2> QED
    BY <2>1, <2>2
<1>3. CASE BeginFails
  <2>1. Quiet \/ log(2, FALSE)
    BY <1>3 DEF BeginFails, MK_LOG_WARNING, MK_LOG_INFO
  <2> QED
    BY <1>3, <2>1 DEF BeginFails
<1>4. CASE StartingTheTest
  BY <1>4 DEF StartingTheTest
<1>5. CASE Scale
  BY <1>5 DEF Scale
<1>6. CASE run_next_measurement
  BY <1>6 DEF run_next_measurement
<1>7. CASE EntriesEnd
  <2>1. Quiet \/ log(3, FALSE)
    BY <1>7 DEF EntriesEnd, MK_LOG_WARNING, MK_LOG_INFO
  <2> QED
    BY <1>7, <2>1 DEF EntriesEnd
<1>8. CASE ndt_Step
  BY <1>8 DEF ndt_Step
<1>9. CASE ndt_Test
  BY <1>9 DEF ndt_Test
<1>10. CASE log_speed
  <2>1. Quiet \/ log(3, TRUE)
    BY <1>10 DEF log_speed, MK_LOG_WARNING, MK_LOG_INFO
  <2> QED
    BY <1>10, <2>1 DEF log_speed
<1>11. CASE TransferEnds
  BY <1>11 DEF TransferEnds
<1>12. CASE dash_Downloaded
  BY <1>12 DEF dash_Downloaded
<1>13. CASE ClientFails
  BY <1>13 DEF ClientFails
<1>14. CASE end
  BY <1>14 DEF end
<1>15. CASE Closed
  BY <1>15 DEF Closed
<1> QED
  BY <1>2, <1>3, <1>4, <1>5, <1>6, <1>7, <1>8, <1>9, <1>10, <1>11, <1>12, <1>13, <1>14, <1>15 DEF LoggerNext

\* The first step writes the warnings of the settings, a later one no line, or one.
LEMMA LinesStep ==
  ASSUME LoggerTyped, Scales, LinesKept, LoggerNext
  PROVE  LinesKept'
<1>1. /\ at' # "configure" /\ (at = "configure" \/ Setting(logger)' = Setting(logger))
      /\ logging'.settings = logging.settings
  BY CountedStep DEF Settings
<1> DEFINE w == logging.settings.warnings
           room == logging.settings.room
           first == [i \in 1 .. w |-> MK_LOG_WARNING]
<1>2. w \in Nat /\ room \in Nat
  BY DEF LoggerTyped
<1>3. CASE Configure \/ Refuse
  <2>1. at = "configure" /\ lines = [queue |-> <<>>, file |-> <<>>] /\ logger.consumer = "stderr"
    BY <1>3 DEF Configure, Refuse, LinesKept
  <2>2. first \in Seq(Nat) /\ Len(first) = w
    BY <1>2 DEF MK_LOG_WARNING
  <2> HIDE DEF first
  <2>3. Warned = first
    <3>1. Warned = <<>> \o first
      BY <2>1 DEF Warned, first
    <3> QED
      BY <2>2, <3>1
  <2>4. <<>> \in Seq(Nat \X BOOLEAN) /\ Kept(<<>>) = {} /\ Cardinality({}) = 0
    BY FS_EmptySet DEF Kept
  <2>5. CASE Configure
    <3>1. lines' = [queue |-> first, file |-> <<>>]
      BY <2>1, <2>3, <2>5 DEF Configure
    <3>2. lines'.queue = first /\ lines'.file = <<>>
      BY <3>1
    <3>3. w + 0 = Len(first)
      BY <1>2, <2>2
    <3>4. SameLines(first, <<>>, w, room)
      <4>1. Cardinality(Kept(<<>>)) = 0 /\ w + Cardinality(Kept(<<>>)) = Len(first)
        BY <2>4, <3>3
      <4>2. w + Cardinality(Kept(<<>>)) <= Len(first)
        BY <1>2, <4>1
      <4>3. ASSUME NEW i \in Kept(<<>>)
            PROVE  LET place == w + Cardinality(Below(Kept(<<>>), i))
                   IN place \in DOMAIN first /\ first[place] = <<>>[i][1]
        BY <2>4
      <4> QED
        BY <4>1, <4>2, <4>3 DEF SameLines
    <3>5. SameLines(lines'.queue, lines'.file, w, room)
      BY <3>2, <3>4
    <3>6. lines' = [queue |-> lines'.queue, file |-> lines'.file]
      BY <3>1, <3>2
    <3>7. lines'.queue \in Seq(Nat) /\ lines'.file \in Seq(Nat \X BOOLEAN)
      BY <2>2, <2>4, <3>2
    <3> QED
      BY <1>1, <3>5, <3>6, <3>7 DEF LinesKept
  <2>6. CASE Refuse
    <3> DEFINE queue == Append(first, MK_LOG_ERR)
    <3>1. lines' = [queue |-> queue, file |-> <<>>]
      BY <2>1, <2>3, <2>6 DEF Refuse
    <3>2. queue \in Seq(Nat)
      BY <2>2 DEF MK_LOG_ERR
    <3> HIDE DEF queue
    <3>3. lines'.queue = queue /\ lines'.file = <<>>
      BY <3>1
    <3>4. logger'.consumer # "engine"
      BY <2>1, <2>6 DEF Refuse, Silent
    <3> QED
      BY <1>1, <2>4, <3>1, <3>2, <3>3, <3>4 DEF LinesKept
  <2> QED
    BY <1>3, <2>5, <2>6
<1>4. CASE ~Configure /\ ~Refuse
  <2>1. at # "configure" /\ Setting(logger)' = Setting(logger)
    BY <1>1, <1>4, WritesALine
  <2>2. Quiet \/ \E level \in Nat, event \in BOOLEAN : log(level, event)
    BY <1>4, WritesALine
  <2>3. CASE lines' = lines
    BY <1>1, <2>1, <2>3 DEF LinesKept, Setting
  <2>4. ASSUME NEW level \in Nat, NEW event \in BOOLEAN, lines' = logs_unlocked_(level, event)
        PROVE  LinesKept'
    <3>1. /\ lines' = [queue |-> lines'.queue, file |-> lines'.file]
          /\ lines'.queue = IF logger.consumer = "engine" /\ ~event THEN Append(lines.queue, level)
                           ELSE lines.queue
          /\ lines'.file = IF logger.ofile /\ Len(lines.file) < room THEN Append(lines.file, <<level, event>>)
                          ELSE lines.file
      BY <2>4 DEF logs_unlocked_
    <3>2. lines'.queue \in Seq(Nat) /\ lines'.file \in Seq(Nat \X BOOLEAN)
      BY <3>1 DEF LinesKept
    <3>3. ASSUME logger.ofile, logger.consumer = "engine"
          PROVE  SameLines(lines'.queue, lines'.file, w, room)
      <4>1. /\ SameLines(lines.queue, lines.file, w, room)
            /\ lines.queue \in Seq(Nat) /\ lines.file \in Seq(Nat \X BOOLEAN)
        BY <3>3 DEF LinesKept
      <4> HIDE DEF w, room
      <4>2. CASE Len(lines.file) < room
        BY <1>2, <3>1, <3>3, <4>1, <4>2, LineAdded
      <4>3. CASE ~(Len(lines.file) < room)
        BY <1>2, <3>1, <3>3, <4>1, <4>3, LineLost
      <4> QED
        BY <4>2, <4>3
    <3> QED
      BY <1>1, <2>1, <3>1, <3>2, <3>3 DEF LinesKept, Setting
  <2> QED
    BY <2>2, <2>3, <2>4 DEF log, logv, Quiet
<1> QED
  BY <1>3, <1>4

\* What a step of NDT adds was left to it.
LEMMA SpentStep ==
  ASSUME LoggerTyped, Scales, Client.kind = "ndt" => Spent, LoggerNext, Client.kind = "ndt"
  PROVE  Spent'
<1>1. /\ Spent /\ Client.tests \in Seq(TestName) /\ done \in Nat /\ logger.relative \in Nat
      /\ DOMAIN logger = DOMAIN DefaultLogger /\ MaxSamples \in 0 .. 19
  BY LoggerAssumption DEF LoggerTyped, ClientFields
<1>2. Left(Client.tests) \in Nat
  BY <1>1, FiniteTests DEF Left
<1> USE DEF Goto, Silent, Client
<1>11. CASE Refuse
  BY <1>11 DEF Refuse, Spent
<1>3. CASE Configure \/ geoip_lookup \/ StartingTheTest
  <2>1. /\ at' \in {"geoip", "open_report", "started"} /\ logging' = logging
        /\ at \in {"configure", "geoip", "open_report"}
    BY <1>3 DEF Configure, geoip_lookup, StartingTheTest
  <2> QED
    BY <1>1, <2>1 DEF Spent
<1>4. CASE Scale
  <2>1. at' \in {"ndt", "end"} /\ done' = 0 /\ logging' = logging /\ at = "started" /\ logger'.relative = 0
    BY <1>1, <1>4 DEF Scale, Rescaled, DefaultLogger
  <2> QED
    BY <1>1, <2>1 DEF Spent
<1>5. CASE BeginFails \/ EntriesEnd \/ ClientFails \/ end \/ Closed
  <2>1. BeginFails \/ EntriesEnd \/ ClientFails => at' = "end"
    BY DEF BeginFails, EntriesEnd, ClientFails
  <2>2. end \/ Closed => at' \in {"close", "over"}
    BY DEF end, Closed
  <2> QED
    BY <1>5, <2>1, <2>2 DEF Spent
<1>6. CASE run_next_measurement \/ dash_Downloaded
  <2>1. at' \in {"entries", "dash", "end"}
    BY <1>6 DEF run_next_measurement, dash_Downloaded, Count
  <2> QED
    BY <2>1 DEF Spent
<1>7. CASE ndt_Step
  <2>1. logger'.relative = logger.relative + 80 /\ logging' = logging
    <3>1. logger.scale = 8 /\ logger' = [logger EXCEPT !.relative = logger.relative + 10 * logger.scale]
      BY <1>7 DEF ndt_Step, progress_relative, Relative, Scales, Measuring, NdtPlaces
    <3>2. UNCHANGED logging
      BY <1>7 DEF ndt_Step, Count
    <3> QED
      BY <1>1, <3>1, <3>2 DEF DefaultLogger
  <2>2. CASE at = "ndt" /\ done = 5
    BY <1>1, <1>2, <1>7, <2>1, <2>2 DEF ndt_Step, Spent
  <2>3. CASE at = "results" /\ done = 1
    BY <1>7, <2>3 DEF ndt_Step, Spent
  <2>4. CASE ~(at = "ndt" /\ done = 5) /\ ~(at = "results" /\ done = 1)
    <3>1. at' = at /\ done' = done + 1 /\ at \in {"ndt", "results"}
      BY <1>7, <2>4 DEF ndt_Step, Count
    <3> QED
      BY <1>1, <1>2, <2>1, <2>4, <3>1 DEF Spent
  <2> QED
    BY <2>2, <2>3, <2>4
<1>8. CASE ndt_Test
  <2>1. CASE Client.tests = <<>>
    <3>1. at = "tests" /\ at' = "results" /\ done' = 0 /\ logging' = logging /\ logger' = logger
      BY <1>8, <2>1 DEF ndt_Test
    <3> QED
      BY <1>1, <1>2, <3>1 DEF Spent
  <2>2. CASE Client.tests # <<>>
    <3>1. /\ Left(Tail(Client.tests)) \in Nat
          /\ Left(Client.tests) = Left(Tail(Client.tests)) + IF Head(Client.tests) = "meta" THEN 80 ELSE 3800
      BY <1>1, <2>2, LeftAfter
    <3>2. at = "tests" /\ done' = 0 /\ logging'.client.tests = Tail(Client.tests)
      <4>1. at = "tests" /\ done' = 0 /\ logging' = [logging EXCEPT !.client.tests = Tail(@)]
        BY <1>8, <2>2 DEF ndt_Test
      <4>2. logging'.client = [logging.client EXCEPT !.tests = Tail(logging.client.tests)]
        BY <4>1 DEF LoggerTyped
      <4>3. logging.client \in ClientFields
        BY DEF LoggerTyped
      <4> QED
        BY <4>1, <4>2, <4>3 DEF ClientFields
    <3>3. CASE Head(Client.tests) = "meta"
      <4>1. at' = at /\ logger'.relative = logger.relative + 80
        <5>1. logger.scale = 8
          BY <3>2 DEF Scales, Measuring, NdtPlaces
        <5> QED
          BY <1>1, <1>8, <2>2, <3>3, <5>1 DEF ndt_Test, progress_relative, Relative, DefaultLogger
      <4> QED
        BY <1>1, <3>1, <3>2, <3>3, <4>1 DEF Spent
    <3>4. CASE Head(Client.tests) # "meta"
      <4>1. at' = "transfer" /\ logger' = logger
        BY <1>8, <2>2, <3>4 DEF ndt_Test
      <4> QED
        BY <1>1, <3>1, <3>2, <3>4, <4>1 DEF Spent
    <3> QED
      BY <3>3, <3>4
  <2> QED
    BY <2>1, <2>2
<1>9. CASE log_speed
  <2>1. at = "transfer" /\ at' = at /\ done < MaxSamples /\ done' = done + 1 /\ logging' = logging
    BY <1>9 DEF log_speed, Count
  <2>2. logger'.relative = logger.relative + 200 \/ logger'.relative = logger.relative
    <3>1. logger.scale = 8
      BY <2>1 DEF Scales, Measuring, NdtPlaces
    <3> QED
      BY <1>1, <1>9, <3>1 DEF log_speed, progress_relative, Relative, DefaultLogger
  <2> QED
    BY <1>1, <1>2, <2>1, <2>2 DEF Spent
<1>10. CASE TransferEnds
  <2>1. at = "transfer" /\ at' = "tests" /\ logging' = logging /\ logger' = logger
    BY <1>10 DEF TransferEnds
  <2> QED
    BY <1>1, <1>2, <2>1 DEF Spent
<1> QED
  BY <1>3, <1>4, <1>5, <1>6, <1>7, <1>8, <1>9, <1>10, <1>11 DEF LoggerNext

LEMMA RisesHigher ==
  ASSUME NEW s, NEW c \in Nat, NEW d \in Nat, Rising(s, c), c <= d
  PROVE  Rising(s, d)
  BY DEF Rising

\* A percentage that is not lower than what was told, nor higher than what may
\* be told now.
LEMMA TellsOn ==
  ASSUME Tells, at # "configure", at' # "configure", logger'.handlers = logger.handlers,
         Ceiling \in Nat, Ceiling' \in Nat, NEW p \in Nat, Ceiling <= p, p <= Ceiling',
         at' = "over" => p = One /\ Ceiling < One,
         emit_event_ex("status.progress", p)
  PROVE  Tells'
<1>1. CASE "status.progress" \notin logger.handlers
  <2>1. told' = <<>>
    BY <1>1 DEF emit_event_ex, Tells
  <2> QED
    BY <2>1 DEF Tells, Rising
<1>2. CASE "status.progress" \in logger.handlers
  <2>1. told' = Append(told, p) /\ Rising(told, Ceiling)
    BY <1>2 DEF emit_event_ex, Tells
  <2>2. Rising(told', p) /\ (at' = "over" => \A i \in DOMAIN told' : told'[i] = One <=> i = Len(told'))
    BY <2>1, RisesOn
  <2>3. Rising(told', Ceiling')
    BY <2>2, RisesHigher
  <2> QED
    BY <1>2, <2>2, <2>3 DEF Tells
<1> QED
  BY <1>1, <1>2

LEMMA TellsNothing ==
  ASSUME Tells, at # "configure", at' \notin {"configure", "over"}, logger'.handlers = logger.handlers,
         Ceiling \in Nat, Ceiling' \in Nat, Ceiling <= Ceiling', told' = told
  PROVE  Tells'
<1>1. Rising(told', Ceiling')
  BY RisesHigher DEF Tells
<1> QED
  BY <1>1 DEF Tells

\* How high the progress of the measurements may come.
LEMMA CeilingMeasuring ==
  LoggerTyped /\ Scales /\ (Client.kind = "ndt" => Spent) /\ at \in Measuring =>
    Ceiling \in Nat /\ Ceiling <= 9320
<1> SUFFICES ASSUME LoggerTyped, Scales, Client.kind = "ndt" => Spent, at \in Measuring
             PROVE  Ceiling \in Nat /\ Ceiling <= 9320
  OBVIOUS
<1> USE DEF Measuring, NdtPlaces
<1>1. Client \in ClientFields /\ done \in Nat /\ logger.relative \in Nat /\ MaxSamples \in 0 .. 19
      /\ Client.entries \in Nat /\ Client.max_iterations \in Nat /\ Client.tests \in Seq(TestName)
  BY LoggerAssumption DEF LoggerTyped, ClientFields
<1>2. CASE at \in NdtPlaces
  <2>1. Left(Client.tests) \in Nat
    BY <1>1, FiniteTests DEF Left
  <2>2. logger.relative <= 8320
    <3>1. Spent
      BY <1>2 DEF LoggerTyped
    <3>2. CASE at = "ndt"
      BY <1>1, <3>1, <3>2 DEF Spent
    <3>3. CASE at = "tests"
      BY <1>1, <2>1, <3>1, <3>3 DEF Spent
    <3>4. CASE at = "transfer"
      <4>1. done <= MaxSamples /\ logger.relative + Left(Client.tests) + 200 * (MaxSamples - done) <= 8160
        BY <3>1, <3>4 DEF Spent
      <4> QED
        BY <1>1, <2>1, <4>1
    <3>5. CASE at = "results"
      BY <1>1, <3>1, <3>5 DEF Spent
    <3> QED
      BY <1>2, <3>2, <3>3, <3>4, <3>5
  <2>3. Ceiling = 1000 + logger.relative
    BY <1>2 DEF Ceiling
  <2> QED
    BY <1>1, <2>2, <2>3
<1>3. CASE at \in {"entries", "dash"} /\ done = 0
  BY <1>3 DEF Ceiling
<1>4. CASE at = "entries" /\ done # 0 /\ Client.max_runtime
  <2>1. Ceiling = 200 + 800 * done /\ done <= 10
    BY <1>4 DEF Ceiling, Scales
  <2> QED
    BY <1>1, <2>1
<1>5. CASE at \in {"entries", "dash"} /\ done # 0 /\ ~(at = "entries" /\ Client.max_runtime)
  <2> DEFINE n == IF at = "dash" THEN Client.max_iterations ELSE Client.entries
             d == IF at = "dash" THEN done ELSE done - 1
  <2>1. n \in Nat \ {0} /\ d \in Nat /\ d <= n
    BY <1>1, <1>5 DEF Scales
  <2>2. Quotient = Share(d, n)
    BY DEF Quotient
  <2> HIDE DEF n, d
  <2>3. Quotient \in 0 .. 1000
    BY <2>1, <2>2, ShareOf
  <2>4. Ceiling = 1000 + 8 * Quotient
    BY <1>5 DEF Ceiling
  <2> QED
    BY <2>3, <2>4
<1> QED
  BY <1>2, <1>3, <1>4, <1>5

LEMMA TellsStep ==
  ASSUME LoggerTyped, Scales, Client.kind = "ndt" => Spent, Tells, LoggerNext
  PROVE  Tells'
<1>1. /\ LoggerTyped' /\ Scales' /\ Lasting(Client)' = Lasting(Client)
      /\ at' # "configure" /\ (at = "configure" \/ logger'.handlers = logger.handlers)
  BY CountedStep DEF Setting
<1>2. (Client.kind = "ndt" => Spent)'
  BY <1>1, SpentStep DEF Lasting
<1>3. /\ Client \in ClientFields /\ done \in Nat /\ logger.relative \in Nat /\ logger.offset \in Nat
      /\ Client.entries \in Nat /\ Client.max_iterations \in Nat /\ DOMAIN logger = DOMAIN DefaultLogger
  BY DEF LoggerTyped, ClientFields
<1>4. /\ at \in {"configure", "geoip"} => Ceiling = 0
      /\ at = "open_report" => Ceiling = 500
      /\ at = "started" => Ceiling = 1000
      /\ at \in {"end", "close"} => Ceiling = 9500
      /\ at \in NdtPlaces => Ceiling = 1000 + logger.relative
  BY DEF Ceiling, NdtPlaces
<1>5. /\ at' = "open_report" => Ceiling' = 500
      /\ at' = "started" => Ceiling' = 1000
      /\ at' \in {"end", "close"} => Ceiling' = 9500
      /\ at' \in NdtPlaces => Ceiling' = 1000 + logger'.relative
      /\ at' \in {"entries", "dash"} /\ done' = 0 => Ceiling' = 1000
      /\ at' = "over" => Ceiling' = One
  BY DEF Ceiling, NdtPlaces
<1>6. at \in Measuring => Ceiling \in Nat /\ Ceiling <= 9320
  BY CeilingMeasuring
<1>7. at' \in Measuring => Ceiling' \in Nat /\ Ceiling' <= 9320
  <2>1. (LoggerTyped /\ Scales /\ (Client.kind = "ndt" => Spent) /\ at \in Measuring =>
           Ceiling \in Nat /\ Ceiling <= 9320)'
    BY CeilingMeasuring, PTL
  <2> QED
    BY <1>1, <1>2, <2>1
<1> USE DEF Goto, Silent, Client, Measuring, NdtPlaces, One
<1>8. CASE Configure
  <2>1. told' = <<>> /\ at' = "geoip"
    BY <1>8 DEF Configure, Tells
  <2> QED
    BY <1>1, <2>1 DEF Tells, Rising
<1>19. CASE Refuse
  <2>1. told' = <<>> /\ at' = "over"
    BY <1>19 DEF Refuse, Tells
  <2> QED
    BY <1>1, <1>5, <2>1 DEF Tells, Rising
<1>9. CASE geoip_lookup
  <2>1. at = "geoip" /\ at' = "open_report" /\ logger.offset = 0 /\ logger.scale = 10
    BY <1>9 DEF geoip_lookup, Scales, Unscaled
  <2>2. CASE told' = told
    BY <1>1, <1>4, <1>5, <2>1, <2>2, TellsNothing
  <2>3. CASE progress(50)
    <3>1. emit_event_ex("status.progress", 500)
      BY <2>1, <2>3 DEF progress
    <3> QED
      BY <1>1, <1>4, <1>5, <2>1, <3>1, TellsOn
  <2> QED
    BY <1>9, <2>2, <2>3 DEF geoip_lookup
<1>10. CASE BeginFails
  <2>1. at \in {"geoip", "open_report"} /\ at' = "end" /\ told' = told
    BY <1>10 DEF BeginFails
  <2> QED
    BY <1>1, <1>4, <1>5, <2>1, TellsNothing
<1>11. CASE StartingTheTest
  <2>1. at = "open_report" /\ at' = "started" /\ logger.offset = 0 /\ logger.scale = 10
    BY <1>11 DEF StartingTheTest, Scales, Unscaled
  <2>2. emit_event_ex("status.progress", 1000)
    BY <1>11, <2>1 DEF StartingTheTest, progress
  <2> QED
    BY <1>1, <1>4, <1>5, <2>1, <2>2, TellsOn
<1>12. CASE Scale
  <2>1. /\ at = "started" /\ at' \in {"entries", "ndt", "dash", "end"} /\ done' = 0 /\ told' = told
        /\ logger'.relative = 0
    BY <1>3, <1>12 DEF Scale, Rescaled, DefaultLogger, ClientFields
  <2>2. Ceiling' \in {1000, 9500}
    BY <1>5, <2>1
  <2> QED
    BY <1>1, <1>4, <2>1, <2>2, TellsNothing
<1>13. CASE run_next_measurement
  <2>1. at = "entries" /\ at' = "entries" /\ logging' = logging
        /\ logger' = logger /\ logger.offset = 1000 /\ logger.scale = 8
    BY <1>13 DEF run_next_measurement, Scales, progress
  <2>2. CASE Client.max_runtime
    <3>1. PICK tenths \in done .. 9 : progress(100 * tenths) /\ done' = tenths + 1
      BY <1>13, <2>2 DEF run_next_measurement
    <3>2. Ceiling = IF done = 0 THEN 1000 ELSE 200 + 800 * done
      BY <2>1, <2>2 DEF Ceiling
    <3>3. Ceiling' = 200 + 800 * (tenths + 1)
      BY <1>3, <2>1, <2>2, <3>1 DEF Ceiling
    <3>4. emit_event_ex("status.progress", 1000 + 800 * tenths)
      BY <1>3, <2>1, <3>1 DEF progress
    <3> QED
      BY <1>1, <1>3, <2>1, <3>1, <3>2, <3>3, <3>4, TellsOn
  <2>3. CASE ~Client.max_runtime
    <3> DEFINE q == Share(done, Client.entries)
    <3>1. progress(q) /\ done < Client.entries /\ done' = done + 1
      BY <1>13, <2>3 DEF run_next_measurement, Share
    <3>2. Client.entries \in Nat \ {0} /\ done <= Client.entries /\ q \in 0 .. 1000
      <4>1. Client.entries \in Nat \ {0} /\ done <= Client.entries
        BY <1>3, <3>1
      <4> QED
        BY <1>3, <4>1, ShareOf
    <3>3. Ceiling' = 1000 + 8 * q
      <4>1. done' # 0 /\ done' - 1 = done
        BY <1>3, <3>1
      <4> QED
        BY <2>1, <2>3, <4>1 DEF Ceiling, Quotient
    <3>4. Ceiling \in Nat /\ Ceiling <= 1000 + 8 * q
      <4>1. CASE done = 0
        BY <2>1, <3>2, <4>1 DEF Ceiling
      <4>2. CASE done # 0
        <5>1. done - 1 \in Nat /\ done - 1 <= done
          BY <1>3, <4>2
        <5>2. Quotient <= q /\ Quotient \in 0 .. 1000
          <6> DEFINE d == done - 1
          <6>1. d \in Nat /\ d <= done /\ d <= Client.entries
            BY <1>3, <3>1, <5>1
          <6>2. Quotient = Share(d, Client.entries)
            BY <2>1 DEF Quotient
          <6> HIDE DEF d
          <6>3. Share(d, Client.entries) \in 0 .. 1000 /\ Share(d, Client.entries) <= q
            BY <1>3, <3>2, <6>1, ShareOf, SharesGrow
          <6> QED
            BY <6>2, <6>3
        <5>3. Ceiling = 1000 + 8 * Quotient
          BY <2>1, <2>3, <4>2 DEF Ceiling
        <5> QED
          BY <3>2, <5>2, <5>3
      <4> QED
        BY <4>1, <4>2
    <3>5. emit_event_ex("status.progress", 1000 + 8 * q)
      <4>1. q * 8 + 1000 = 1000 + 8 * q
        BY <3>2
      <4> QED
        BY <2>1, <3>1, <4>1 DEF progress
    <3> HIDE DEF q
    <3> QED
      BY <1>1, <2>1, <3>2, <3>3, <3>4, <3>5, TellsOn
  <2> QED
    BY <2>2, <2>3
<1>14. CASE EntriesEnd \/ ClientFails \/ TransferEnds
  <2>1. /\ at \in Measuring /\ told' = told
        /\ at' = "end" \/ (at = "transfer" /\ at' = "tests" /\ logger' = logger)
    BY <1>14 DEF EntriesEnd, ClientFails, TransferEnds
  <2>2. Ceiling' \in Nat /\ Ceiling <= Ceiling'
    BY <1>4, <1>5, <1>6, <2>1
  <2> QED
    BY <1>1, <1>6, <2>1, <2>2, TellsNothing
<1>15. CASE dash_Downloaded
  <2>1. at = "dash" /\ logging' = logging /\ logger' = logger /\ logger.offset = 1000 /\ logger.scale = 8
    BY <1>15 DEF dash_Downloaded, Scales, progress, Count
  <2>2. CASE ~(done < Client.max_iterations)
    <3>1. told' = told /\ at' = "end"
      BY <1>15, <2>2 DEF dash_Downloaded
    <3> QED
      BY <1>1, <1>5, <1>6, <2>1, <3>1, TellsNothing
  <2>3. CASE done < Client.max_iterations
    <3> DEFINE n == Client.max_iterations
               e == done + 1
               q == Share(e, n)
    <3>1. progress(q) /\ done' = e /\ at' = "dash"
      BY <1>15, <2>1, <2>3 DEF dash_Downloaded, Count, Share
    <3>2. n \in Nat \ {0} /\ e \in Nat \ {0} /\ done <= e /\ e <= n
      BY <1>3, <2>3
    <3>3. Ceiling' = 1000 + 8 * q
      <4>1. done' # 0 /\ Client'.max_iterations = n
        BY <2>1, <3>1, <3>2
      <4> QED
        BY <2>1, <3>1, <4>1 DEF Ceiling, Quotient
    <3>4. done # 0 => Quotient = Share(done, n) /\ Ceiling = 1000 + 8 * Quotient
      BY <2>1 DEF Quotient, Ceiling
    <3>5. done = 0 => Ceiling = 1000
      BY <2>1 DEF Ceiling
    <3> HIDE DEF n, e
    <3>6. q \in 0 .. 1000 /\ Share(done, n) \in 0 .. 1000 /\ Share(done, n) <= q
      <4>1. done \in Nat /\ done <= n
        BY <1>3, <3>2
      <4>2. Share(e, n) \in 0 .. 1000 /\ Share(done, n) \in 0 .. 1000
        BY <3>2, <4>1, ShareOf
      <4>3. Share(done, n) <= Share(e, n)
        BY <3>2, <4>1, SharesGrow
      <4> QED
        BY <4>2, <4>3
    <3> HIDE DEF q
    <3>7. Ceiling \in Nat /\ Ceiling <= 1000 + 8 * q
      BY <1>3, <3>4, <3>5, <3>6
    <3>8. emit_event_ex("status.progress", 1000 + 8 * q)
      <4>1. q * 8 + 1000 = 1000 + 8 * q
        BY <3>6
      <4> QED
        BY <2>1, <3>1, <4>1 DEF progress
    <3> QED
      BY <1>1, <2>1, <3>1, <3>3, <3>6, <3>7, <3>8, TellsOn
  <2> QED
    BY <2>2, <2>3
<1>16. CASE ndt_Step \/ ndt_Test \/ log_speed
  <2>1. /\ at \in NdtPlaces /\ at' \in NdtPlaces \cup {"end"} /\ logger.offset = 1000 /\ logger.scale = 8
    BY <1>16 DEF ndt_Step, ndt_Test, log_speed, Count, Scales
  <2>2. \/ told' = told /\ logger' = logger
        \/ progress_relative(10) \/ progress_relative(25)
    BY <1>16 DEF ndt_Step, ndt_Test, log_speed
  <2>3. CASE told' = told /\ logger' = logger
    BY <1>1, <1>4, <1>5, <1>6, <1>7, <2>1, <2>3, TellsNothing
  <2>4. ASSUME NEW n \in {10, 25}, progress_relative(n)
        PROVE  Tells'
    <3>1. /\ logger'.relative = logger.relative + 8 * n
          /\ emit_event_ex("status.progress", 1000 + logger'.relative)
      BY <1>3, <2>1, <2>4 DEF progress_relative, Relative, DefaultLogger
    <3>2. /\ 1000 + logger'.relative \in Nat /\ Ceiling \in Nat
          /\ Ceiling <= 1000 + logger'.relative /\ 1000 + logger'.relative <= 9520
      BY <1>3, <1>4, <1>6, <2>1, <3>1
    <3>3. Ceiling' \in Nat /\ 1000 + logger'.relative <= Ceiling'
      <4>1. CASE at' \in NdtPlaces
        <5>1. Ceiling' = 1000 + logger'.relative
          BY <1>5, <4>1
        <5> QED
          BY <3>2, <5>1
      <4>2. CASE at' = "end"
        <5>1. at = "results" /\ done = 1
          BY <1>16, <2>1, <4>2 DEF ndt_Step, ndt_Test, log_speed, Count
        <5>2. Spent /\ Client.kind = "ndt"
          BY <5>1 DEF LoggerTyped
        <5>3. logger.relative <= 8240
          BY <5>1, <5>2 DEF Spent
        <5>4. logger'.relative = logger.relative + 80
          BY <1>16, <2>1, <5>1, <1>3 DEF ndt_Step, ndt_Test, log_speed, progress_relative, Relative, DefaultLogger
        <5> QED
          BY <1>3, <1>5, <4>2, <5>3, <5>4
      <4> QED
        BY <2>1, <4>1, <4>2
    <3> QED
      BY <1>1, <2>1, <3>1, <3>2, <3>3, TellsOn
  <2> QED
    BY <2>2, <2>3, <2>4
<1>17. CASE end
  <2>1. at = "end" /\ at' = "close" /\ emit_event_ex("status.progress", 9500)
    BY <1>17 DEF end
  <2> QED
    BY <1>1, <1>4, <1>5, <2>1, TellsOn
<1>18. CASE Closed
  <2>1. at = "close" /\ at' = "over" /\ logger.offset = 0 /\ logger.scale = 10
    BY <1>18 DEF Closed, Scales, Unscaled
  <2>2. emit_event_ex("status.progress", 10000)
    BY <1>18, <2>1 DEF Closed, progress
  <2> QED
    BY <1>1, <1>4, <1>5, <2>1, <2>2, TellsOn
<1> QED
  BY <1>8, <1>9, <1>10, <1>11, <1>12, <1>13, <1>14, <1>15, <1>16, <1>17, <1>18, <1>19 DEF LoggerNext

LEMMA LoggerStep ==
  ASSUME LoggerInv, [Next]_vars
  PROVE  LoggerInv'
<1>1. CASE UNCHANGED loggerVars
  <2> USE <1>1 DEF loggerVars, Client
  <2>1. LoggerTyped' = LoggerTyped
    BY DEF LoggerTyped
  <2>2. Scales' = Scales
    BY DEF Scales
  <2>3. LinesKept' = LinesKept
    BY DEF LinesKept
  <2>4. Spent' = Spent
    BY DEF Spent
  <2>5. Tells' = Tells
    <3>1. Quotient' = Quotient
      BY DEF Quotient
    <3>2. Ceiling' = Ceiling
      BY <3>1 DEF Ceiling
    <3> QED
      BY <3>2 DEF Tells
  <2>6. FewTransfers' = FewTransfers
    BY DEF FewTransfers
  <2> QED
    BY <2>1, <2>2, <2>3, <2>4, <2>5, <2>6 DEF LoggerInv
<1>2. CASE LoggerNext
  <2>1. at # "idle"
    <3>1. Configure \/ Refuse \/ geoip_lookup \/ BeginFails \/ StartingTheTest \/ Scale => at # "idle"
      BY DEF Configure, Refuse, geoip_lookup, BeginFails, StartingTheTest, Scale
    <3>2. run_next_measurement => at # "idle"
      BY DEF run_next_measurement
    <3>5. EntriesEnd \/ dash_Downloaded \/ Closed => at # "idle"
      BY DEF EntriesEnd, dash_Downloaded, Closed
    <3>6. end => at # "idle"
      BY DEF end
    <3>3. ndt_Test \/ log_speed \/ TransferEnds \/ ClientFails => at # "idle"
      BY DEF ndt_Test, log_speed, TransferEnds, ClientFails
    <3>4. ndt_Step => at # "idle"
      BY DEF ndt_Step
    <3> QED
      BY <1>2, <3>1, <3>2, <3>3, <3>4, <3>5, <3>6 DEF LoggerNext
  <2>2. LoggerTyped /\ Scales /\ LinesKept
    BY <2>1 DEF LoggerInv
  <2>3. LoggerTyped' /\ Scales' /\ LinesKept' /\ Lasting(Client)' = Lasting(Client)
    BY <1>2, <2>2, CountedStep, LinesStep
  <2>4. FewTransfers' => (Client.kind = "ndt" => Spent)' /\ Tells'
    <3> SUFFICES ASSUME FewTransfers' PROVE (Client.kind = "ndt" => Spent)' /\ Tells'
      OBVIOUS
    <3>1. FewTransfers /\ Client.kind' = Client.kind
      BY <2>3 DEF FewTransfers, Lasting
    <3>2. (Client.kind = "ndt" => Spent) /\ Tells
      BY <2>1, <3>1 DEF LoggerInv
    <3> QED
      BY <1>2, <2>2, <3>1, <3>2, SpentStep, TellsStep
  <2>5. at' # "idle"
    BY <2>3 DEF LoggerTyped, Measuring, NdtPlaces, Unscaled
  <2> QED
    BY <2>3, <2>4, <2>5 DEF LoggerInv
<1> QED
  BY <1>1, <1>2 DEF Next, Over, vars, loggerVars

\* What the logger has told is below what it may still tell, and the log file
\* has, as long as there is room, the lines that are told: the invariant that
\* the logger, and the nettest that uses it, keep.
THEOREM LoggerInvariant == Spec => []LoggerInv
  BY InitLogger, LoggerStep, PTL DEF Spec

\* With at most two transfers, and one test of metadata, no nettest tells a
\* percentage that is lower than the one before or beyond 1, whatever it runs
\* and wherever it fails, 1 is told last and when it is over; and a log file
\* has, in their order, the lines of the queue that follow the warnings of the
\* settings, all of them while it has room.
THEOREM LoggerTellsProgress == Spec => []ProgressTold
<1>1. LoggerInv => ProgressTold
  <2> SUFFICES ASSUME LoggerInv PROVE ProgressTold
    OBVIOUS
  <2>1. CASE at = "idle"
    BY <2>1 DEF LoggerInv, ProgressTold
  <2>2. CASE at # "idle"
    <3>1. LoggerTyped /\ Scales /\ LinesKept
      BY <2>2 DEF LoggerInv
    <3>2. ASSUME FewTransfers
          PROVE  /\ \A i \in DOMAIN told : told[i] \in 0 .. One
                 /\ \A i, j \in DOMAIN told : i < j => told[i] <= told[j]
                 /\ \A i \in DOMAIN told : told[i] = One <=> (i = Len(told) /\ at = "over")
      <4>1. (Client.kind = "ndt" => Spent) /\ Tells
        BY <2>2, <3>2 DEF LoggerInv
      <4>2. Ceiling \in Nat /\ (at = "over" => Ceiling = One) /\ (at # "over" => Ceiling < One)
        <5>1. CASE at \in Measuring
          BY <3>1, <4>1, <5>1, CeilingMeasuring DEF One, Measuring, NdtPlaces
        <5>2. CASE at \in Unscaled \cup {"end"}
          BY <5>2 DEF Ceiling, Unscaled, One, NdtPlaces
        <5> QED
          BY <3>1, <5>1, <5>2 DEF LoggerTyped
      <4>3. Rising(told, Ceiling)
        BY <4>1 DEF Tells
      <4>4. \A i \in DOMAIN told : told[i] \in 0 .. One
        <5> TAKE i \in DOMAIN told
        <5>1. 0 <= told[i] /\ told[i] <= Ceiling
          BY <4>3 DEF Rising
        <5>2. told \in Seq(Int)
          BY <4>3 DEF Rising
        <5>3. told[i] \in Int
          BY <5>2
        <5>4. Ceiling \in Nat /\ Ceiling <= One /\ One \in Nat
          BY <4>2 DEF One
        <5> QED
          BY <5>1, <5>3, <5>4
      <4>5. \A i \in DOMAIN told : told[i] = One <=> (i = Len(told) /\ at = "over")
        <5>1. CASE at = "over"
          BY <4>1, <5>1 DEF Tells
        <5>2. CASE at # "over"
          BY <4>2, <4>3, <5>2 DEF Rising, One
        <5> QED
          BY <5>1, <5>2
      <4> QED
        BY <4>3, <4>4, <4>5 DEF Rising
    <3>3. logger.ofile /\ logger.consumer = "engine" =>
            SameLines(lines.queue, lines.file, logging.settings.warnings, logging.settings.room)
      BY <3>1 DEF LinesKept
    <3> QED
      BY <3>2, <3>3 DEF ProgressTold, FewTransfers, SameLines, Kept, Below
  <2> QED
    BY <2>1, <2>2
<1> QED
  BY <1>1, LoggerInvariant, PTL

=============================================================================
