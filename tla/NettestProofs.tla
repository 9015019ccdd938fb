--------------------------- MODULE NettestProofs ---------------------------
(***************************************************************************)
(* What a nettest promises about its measurements and their submission,    *)
(* for any number of chains and of inputs and any settings; and that it    *)
(* does what the settings ask.                                             *)
(***************************************************************************)
EXTENDS Nettest, FiniteSetTheorems, SequenceTheorems, WellFoundedInduction, TLAPS

-----------------------------------------------------------------------------
(* The invariant, in parts.                                                *)

Before == {"validating", "refused", "initial", "bouncer", "resolver", "opening"}
After == {"closing", "over", "ended"}
Stage == Before \cup After \cup {"measuring", "thrown"}

MaybeEntry == Entry \cup {None}
Progress == [size : Nat, completed : Nat, failed : BOOLEAN]
Operation ==
  [op : {"none", "open", "write", "close"}, entry : MaybeEntry, next : Nat,
   waiting : BOOLEAN, par : Progress]

Types ==
  /\ settings \in GivenSettings
  /\ options.parallelism \in Nat
  /\ call \in [Client -> Operation]
  /\ reporters \in Seq(Kind)
  /\ prevEntry \in [Kind -> MaybeEntry]
  /\ collected \in Seq(Entry)
  /\ stage \in Stage
  /\ inputs \in Seq(Nat)
  /\ currentEntry \in Nat
  /\ chain \in [Chain -> {"unborn", "main", "writing", "scheduled", "finished"}]
  /\ entry \in [Chain -> MaybeEntry]
  /\ toStart \in Nat \ {0}
  /\ par \in Progress
  /\ done \subseteq Entry
  /\ submission \in [Entry -> {"none", "status", "failure"}]

InProgress(c) == chain[c] \in {"main", "writing"}

\* The inputs that are left are numbered from currentEntry on, and the numbers
\* of the measurements in progress are below it, and different.
Numbered ==
  /\ \A i \in 1 .. Len(inputs) : inputs[i] = currentEntry + i - 1
  /\ currentEntry + Len(inputs) <= MaxInputs
  /\ \A c \in Chain : /\ InProgress(c) <=> (entry[c] # None)
                      /\ InProgress(c) => entry[c] < currentEntry
  /\ \A c, d \in Chain : InProgress(c) /\ entry[c] = entry[d] => c = d

Born == 1 .. toStart - 1
Finished == {c \in Chain : chain[c] = "finished"}

\* There is a client for each chain, or the nettest does not come that far.
Enough ==
  \/ runnable.refused \/ "parallelism" \in options.unreadable
  \/ 1 .. options.parallelism \subseteq Client

\* What each stage knows of the chains: none was born, those that are were
\* started in order and some is not finished, or all are.
Stages ==
  /\ stage \notin {"validating", "refused"} => ~runnable.refused /\ Enough
  /\ stage \in Before =>
       /\ inputs = <<>> /\ currentEntry = 0 /\ toStart = 1 /\ done = {}
       /\ \A c \in Chain : chain[c] = "unborn"
  /\ stage = "measuring" =>
       /\ 1 .. options.parallelism \subseteq Client
       /\ toStart <= options.parallelism + 1
       /\ \A c \in Chain : (chain[c] = "unborn") <=> (c \notin Born)
       /\ par.size = options.parallelism
       /\ par.completed = Cardinality(Finished) /\ par.completed < par.size
  /\ stage \in After => \A c \in Chain : chain[c] \in {"unborn", "finished"}

\* The collector is the last reporter that is asked, if it is one of them.
Collects == Len(reporters) > 0 /\ reporters[Len(reporters)] = "ooni"

Reporters ==
  /\ \A i \in 1 .. Len(reporters) : (reporters[i] = "ooni") => (i = Len(reporters))
  /\ stage \in {"opening", "measuring"} /\ ~options.no_collector => Collects

\* An operation has gone through the reporters up to the next one, but for the
\* collector that it waits for.
OperationOK(o) ==
  IF o.op = "none" THEN o = NoCall ELSE
  /\ o.next \in 1 .. Len(reporters) + 1
  /\ o.par.size = Len(reporters)
  /\ o.par.completed = o.next - 1 - (IF o.waiting THEN 1 ELSE 0)
  /\ o.waiting => o.next = Len(reporters) + 1 /\ Collects

\* The operation of a chain is to write its entry.
OwnOperation(c) ==
  IF chain[c] = "writing" THEN call[c].op = "write" /\ call[c].entry = entry[c]
  ELSE call[c].op = "none"

Calls ==
  /\ \A c \in Client : OperationOK(call[c])
  /\ call[Main].op # "write"
  /\ \A c \in Chain : OwnOperation(c)

\* The collector has answered the operation of c.
HasAnswer(c) == Collects /\ call[c].next = Len(reporters) + 1 /\ ~call[c].waiting

\* An entry has been collected when its operation has the answer, and not
\* before; what the reporter remembers has been collected.
Told ==
  /\ \A c \in Chain :
       /\ chain[c] = "writing" /\ HasAnswer(c) /\ ~call[c].par.failed =>
            entry[c] \in Range(collected)
       /\ InProgress(c) /\ entry[c] \in Range(collected) =>
            chain[c] = "writing" /\ HasAnswer(c)
  /\ \A e \in Range(collected) : e < currentEntry
  /\ prevEntry["ooni"] \in Range(collected) \cup {None}

\* begin() is the first to set the error, and has done so when it has ended.
ErrorSet ==
  /\ stage \in Before => error = "generic"
  /\ stage = "closing" => error # "generic"

IInv ==
  /\ Types /\ Numbered /\ Stages /\ Reporters /\ Calls /\ Told /\ ErrorSet
  /\ SubmittedMeansCollected /\ CompleteUnlessStopped

-----------------------------------------------------------------------------
(* Every step is one of these.                                             *)

BeginFails == BadBouncerOption \/ BouncerReplies \/ BouncerFails \/ OpenFails \/ NoInputs

LEMMA NextCases ==
  ASSUME [Next]_vars
  PROVE  \/ Validate \/ Begin \/ InterruptedEarly \/ BeginFails \/ ResolverReplies
         \/ LoadInputs \/ StartChain \/ EndReturns \/ EmitEnd \/ Throw \/ TimePasses
         \/ /\ stage # "thrown"
            /\ \E c \in Chain :
                 \/ Resume(c) \/ MainReturns(c)
                 \/ WriteSucceeds(c) \/ WriteFails(c)
         \/ ReportStep
         \/ UNCHANGED vars
BY DEF Next, Steps, BeginFails, Ended

LEMMA EntryFacts ==
  /\ MaxInputs \in Nat \ {0} /\ Entry = 0 .. MaxInputs - 1 /\ Entry \subseteq Nat
  /\ None \notin Entry /\ None \in MaybeEntry /\ Entry \subseteq MaybeEntry
  /\ Main \in Client /\ Chain \subseteq Client /\ Main \notin Chain
BY NettestAssumption DEF Chain, MaybeEntry

\* A new operation.
LEMMA NewOperation ==
  ASSUME NEW calls \in [Client -> Operation], NEW c \in Client,
         NEW op \in {"open", "write", "close"}, NEW e \in MaybeEntry,
         NEW users \in Seq(Kind)
  PROVE  /\ Calling(calls, c, op, e, users) \in [Client -> Operation]
         /\ LET new == Calling(calls, c, op, e, users)[c] IN
              /\ new.op = op /\ new.entry = e /\ new.next = 1 /\ ~new.waiting
              /\ new.par.size = Len(users) /\ new.par.completed = 0
         /\ \A d \in Client \ {c} : Calling(calls, c, op, e, users)[d] = calls[d]
<1>1. Len(users) \in Nat
  BY LenProperties
<1> QED BY <1>1 DEF Calling, ParallelCall, Operation, Progress

LEMMA NoOperation ==
  ASSUME NEW calls \in [Client -> Operation], NEW c \in Client
  PROVE  /\ Answered(calls, c) \in [Client -> Operation]
         /\ Answered(calls, c)[c] = NoCall
         /\ \A d \in Client \ {c} : Answered(calls, c)[d] = calls[d]
BY EntryFacts DEF Answered, NoCall, ParallelCall, Operation, Progress

LEMMA OneDoneType ==
  ASSUME NEW p \in Progress, NEW failed \in BOOLEAN
  PROVE  /\ OneDone(p, failed) \in Progress
         /\ OneDone(p, failed).size = p.size
         /\ OneDone(p, failed).completed = p.completed + 1
         /\ OneDone(p, failed).failed = (p.failed \/ failed)
<1>1. p.completed + 1 \in Nat /\ (p.failed \/ failed) \in BOOLEAN
  BY DEF Progress
<1>2. OneDone(p, failed) =
        [p EXCEPT !.completed = p.completed + 1, !.failed = p.failed \/ failed]
  BY DEF OneDone
<1> QED BY <1>1, <1>2 DEF Progress

\* The reporters that the options ask for.
LEMMA Wanted ==
  /\ WantedReporters \in Seq(Kind)
  /\ \A i \in 1 .. Len(WantedReporters) :
       (WantedReporters[i] = "ooni") => (i = Len(WantedReporters))
  /\ ~options.no_collector =>
       Len(WantedReporters) > 0 /\ WantedReporters[Len(WantedReporters)] = "ooni"
<1> DEFINE file == IF options.no_file_report THEN <<>> ELSE <<"file">>
           ooni == IF options.no_collector THEN <<>> ELSE <<"ooni">>
<1>1. /\ file \in Seq(Kind) /\ Len(file) \in 0 .. 1 /\ (Len(file) = 1 => file[1] = "file")
      /\ ooni \in Seq(Kind) /\ Len(ooni) \in 0 .. 1
      /\ ~options.no_collector => Len(ooni) = 1 /\ ooni[1] = "ooni"
  <2>1. <<>> \in Seq(Kind) /\ Len(<<>>) = 0
    BY EmptySeq
  <2>2. /\ <<"file">> \in Seq(Kind) /\ Len(<<"file">>) = 1 /\ <<"file">>[1] = "file"
        /\ <<"ooni">> \in Seq(Kind) /\ Len(<<"ooni">>) = 1 /\ <<"ooni">>[1] = "ooni"
    BY DEF Kind
  <2>4. file \in Seq(Kind) /\ Len(file) \in 0 .. 1 /\ (Len(file) = 1 => file[1] = "file")
    <3>1. CASE file = <<>>
      <4> HIDE DEF file
      <4> QED BY <2>1, <3>1
    <3>2. CASE file = <<"file">>
      <4> HIDE DEF file
      <4> QED BY <2>2, <3>2
    <3> QED BY <3>1, <3>2
  <2>5. ooni \in Seq(Kind) /\ Len(ooni) \in 0 .. 1
    <3>1. CASE ooni = <<>>
      <4> HIDE DEF ooni
      <4> QED BY <2>1, <3>1
    <3>2. CASE ooni = <<"ooni">>
      <4> HIDE DEF ooni
      <4> QED BY <2>2, <3>2
    <3> QED BY <3>1, <3>2
  <2>6. ~options.no_collector => Len(ooni) = 1 /\ ooni[1] = "ooni"
    BY <2>2
  <2> QED BY <2>4, <2>5, <2>6
<1>2. WantedReporters = file \o ooni
  BY DEF WantedReporters
<1> HIDE DEF file, ooni
<1>3. /\ file \o ooni \in Seq(Kind) /\ Len(file \o ooni) = Len(file) + Len(ooni)
      /\ \A i \in 1 .. Len(file) + Len(ooni) :
           (file \o ooni)[i] = IF i <= Len(file) THEN file[i] ELSE ooni[i - Len(file)]
  BY <1>1, ConcatProperties
<1> QED BY <1>1, <1>2, <1>3

-----------------------------------------------------------------------------
(* The types.                                                              *)

LEMMA NumberType ==
  ASSUME NEW given, NEW key
  PROVE  Number(given, key, 3) \in Nat
BY DEF Number

LEMMA TypesInit == Init => Types
<1> SUFFICES ASSUME Init PROVE Types
  OBVIOUS
<1>1. options.parallelism \in Nat
  BY NumberType DEF Init, OptionsOf
<1>2. NoCall \in Operation
  BY EntryFacts DEF NoCall, ParallelCall, Operation, Progress
<1>3. <<>> \in Seq(Kind) /\ <<>> \in Seq(Entry) /\ <<>> \in Seq(Nat)
  BY EmptySeq
<1>4. ParallelCall(0) \in Progress
  BY DEF ParallelCall, Progress
<1>5. /\ settings \in GivenSettings /\ stage \in Stage /\ currentEntry \in Nat
      /\ toStart \in Nat \ {0} /\ done \subseteq Entry
  <2>1. /\ settings \in GivenSettings /\ stage = "validating" /\ currentEntry = 0
        /\ toStart = 1 /\ done = {}
    BY DEF Init
  <2> QED BY <2>1 DEF Stage, Before
<1>6. /\ call \in [Client -> Operation] /\ prevEntry \in [Kind -> MaybeEntry]
      /\ entry \in [Chain -> MaybeEntry]
      /\ submission \in [Entry -> {"none", "status", "failure"}]
      /\ chain \in [Chain -> {"unborn", "main", "writing", "scheduled", "finished"}]
  BY <1>2, EntryFacts DEF Init, ReportInit
<1>7. /\ reporters \in Seq(Kind) /\ collected \in Seq(Entry) /\ inputs \in Seq(Nat)
      /\ par \in Progress
  BY <1>3, <1>4 DEF Init, ReportInit
<1> QED BY <1>1, <1>5, <1>6, <1>7 DEF Types

\* The callback of begin(), which asks for the report to be closed.
LEMMA BeginReturnsType ==
  ASSUME Types, NEW calls \in [Client -> Operation], NEW failed, BeginReturns(calls, failed)
  PROVE  /\ call' \in [Client -> Operation] /\ stage' \in Stage
         /\ call'[Main].op = "close"
         /\ \A c \in Client \ {Main} : call'[c] = calls[c]
<1> DEFINE new == Calling(calls, Main, "close", None, reporters)
<1>1. call' = new /\ stage' = "closing"
  BY DEF BeginReturns
<1>2. Main \in Client /\ None \in MaybeEntry /\ reporters \in Seq(Kind)
  BY EntryFacts DEF Types
<1>3. /\ new \in [Client -> Operation] /\ new[Main].op = "close"
      /\ \A d \in Client \ {Main} : new[d] = calls[d]
  BY <1>2, NewOperation
<1> QED BY <1>1, <1>3 DEF Stage, After

\* What run_next_measurement() does to the types, when it ends a chain and when
\* it takes an input.
LEMMA ChainEndsType ==
  ASSUME Types, NEW calls \in [Client -> Operation], NEW c \in Chain,
         NEW failed \in BOOLEAN, ChainEnds(calls, c, failed)
  PROVE  /\ call' \in [Client -> Operation] /\ stage' \in Stage
         /\ chain' = [chain EXCEPT ![c] = "finished"]
         /\ par' \in Progress
         /\ \A d \in Client \ {Main} : call'[d] = calls[d]
<1>1. par' \in Progress
  BY OneDoneType DEF ChainEnds, Types
<1>2. CASE AllDone(par')
  BY <1>1, <1>2, BeginReturnsType DEF ChainEnds, Become
<1>3. CASE ~AllDone(par')
  BY <1>1, <1>3 DEF ChainEnds, Become, Types
<1> QED BY <1>2, <1>3

\* What the steps of the reporters do to the operation of a client.
LEMMA AnswerEffect ==
  ASSUME call \in [Client -> Operation], NEW c \in Client, NEW next \in Nat,
         NEW failed \in BOOLEAN, Answer(c, next, failed)
  PROVE  /\ call' \in [Client -> Operation]
         /\ \A d \in Client \ {c} : call'[d] = call[d]
         /\ call'[c].op = call[c].op /\ call'[c].entry = call[c].entry
         /\ call'[c].next = next /\ ~call'[c].waiting
         /\ call'[c].par.size = call[c].par.size
         /\ call'[c].par.completed = call[c].par.completed + 1
         /\ call'[c].par.failed = (call[c].par.failed \/ failed)
<1> DEFINE new == [call[c] EXCEPT !.next = next, !.waiting = FALSE,
                                  !.par = OneDone(call[c].par, failed)]
<1>1. call[c] \in Operation /\ call[c].par \in Progress
  BY DEF Operation
<1>2. OneDone(call[c].par, failed) \in Progress
  BY <1>1, OneDoneType
<1>3. /\ new \in Operation /\ new.op = call[c].op /\ new.entry = call[c].entry
      /\ new.next = next /\ new.waiting = FALSE
      /\ new.par = OneDone(call[c].par, failed)
  BY <1>1, <1>2 DEF Operation
<1>4. call' = [call EXCEPT ![c] = new]
  BY DEF Answer
<1> HIDE DEF new
<1> QED BY <1>1, <1>3, <1>4, OneDoneType

LEMMA AskedEffect ==
  ASSUME call \in [Client -> Operation], NEW c \in Client, CollectorAsked(c)
  PROVE  /\ call' \in [Client -> Operation]
         /\ \A d \in Client \ {c} : call'[d] = call[d]
         /\ call'[c].op = call[c].op /\ call'[c].entry = call[c].entry
         /\ call'[c].next = call[c].next + 1 /\ call'[c].waiting
         /\ call'[c].par = call[c].par
<1> DEFINE new == [call[c] EXCEPT !.next = call[c].next + 1, !.waiting = TRUE]
<1>1. call[c] \in Operation /\ call[c].next + 1 \in Nat
  BY DEF Operation
<1>2. /\ new \in Operation /\ new.op = call[c].op /\ new.entry = call[c].entry
      /\ new.next = call[c].next + 1 /\ new.waiting = TRUE /\ new.par = call[c].par
  BY <1>1 DEF Operation
<1>3. call' = [call EXCEPT ![c] = new]
  BY DEF CollectorAsked
<1> HIDE DEF new
<1> QED BY <1>1, <1>2, <1>3

\* A chain that is writing has a measurement.
LEMMA WriterHasEntry ==
  ASSUME Types, Numbered, Calls, NEW c \in Client, call[c].op = "write"
  PROVE  c \in Chain /\ chain[c] = "writing" /\ entry[c] \in Entry /\ call[c].entry = entry[c]
<1>1. c \in Chain
  BY DEF Calls, Chain
<1>2. chain[c] = "writing" /\ call[c].entry = entry[c]
  BY <1>1 DEF Calls, OwnOperation
<1>3. entry[c] # None
  BY <1>1, <1>2 DEF Numbered, InProgress
<1> QED BY <1>1, <1>2, <1>3 DEF Types, MaybeEntry

LEMMA ReportKeeps ==
  ASSUME ReportStep
  PROVE  UNCHANGED <<reporters, settings, runnable, options, stage, inputs,
                     currentEntry, expired, chain, entry, toStart, par, error,
                     beginFailed, done, submission>>
BY DEF ReportStep, AtOnce, AnsweredAtOnce, FileWorks, CollectorAsked,
       CollectorReplies, config, runVars

LEMMA ReportTypes == Types /\ Numbered /\ Calls /\ ReportStep => Types'
<1> SUFFICES ASSUME Types, Numbered, Calls, ReportStep PROVE Types'
  OBVIOUS
<1>1. PICK c \in Client : AtOnce(c) \/ CollectorReplies(c)
  BY DEF ReportStep
<1>2. /\ call \in [Client -> Operation] /\ call[c] \in Operation
      /\ call[c].next \in Nat /\ call[c].next + 1 \in Nat
      /\ prevEntry \in [Kind -> MaybeEntry] /\ collected \in Seq(Entry)
  BY DEF Types, Operation
<1>3. /\ call' \in [Client -> Operation]
      /\ prevEntry' \in [Kind -> MaybeEntry]
      /\ collected' \in Seq(Entry)
  <2>1. CASE AnsweredAtOnce(c)
    <3>1. PICK failed \in BOOLEAN : Answer(c, call[c].next + 1, failed)
      BY <2>1 DEF AnsweredAtOnce, DoneAlready
    <3> QED BY <1>2, <2>1, <3>1, AnswerEffect DEF AnsweredAtOnce, store
  <2>2. CASE FileWorks(c)
    <3>1. PICK failed \in BOOLEAN :
            /\ Answer(c, call[c].next + 1, failed)
            /\ Remember("file", call[c].op, call[c].entry, failed)
      BY <2>2 DEF FileWorks
    <3>2. prevEntry' \in [Kind -> MaybeEntry]
      BY <1>2, <3>1 DEF Remember, Operation
    <3> QED BY <1>2, <2>2, <3>1, <3>2, AnswerEffect DEF FileWorks
  <2>3. CASE CollectorAsked(c)
    BY <1>2, <2>3, AskedEffect DEF CollectorAsked, store
  <2>4. CASE CollectorReplies(c)
    <3>1. PICK failed \in BOOLEAN :
            /\ collected' = IF call[c].op = "write" /\ ~failed
                              THEN Append(collected, call[c].entry) ELSE collected
            /\ Answer(c, call[c].next, failed)
            /\ Remember("ooni", call[c].op, call[c].entry, failed)
      BY <2>4 DEF CollectorReplies
    <3>2. prevEntry' \in [Kind -> MaybeEntry]
      BY <1>2, <3>1 DEF Remember, Operation
    <3>3. collected' \in Seq(Entry)
      <4>1. CASE call[c].op = "write"
        BY <1>2, <3>1, <4>1, WriterHasEntry, AppendProperties
      <4> QED BY <1>2, <3>1, <4>1
    <3> QED BY <1>2, <3>1, <3>2, <3>3, AnswerEffect
  <2> QED BY <1>1, <2>1, <2>2, <2>3, <2>4 DEF AtOnce
<1> QED BY <1>3, ReportKeeps DEF Types

\* The step that begins with the failure of begin().
LEMMA BeginFailsEffect ==
  ASSUME BeginFails
  PROVE  /\ UNCHANGED <<reporters, store, config, runVars, done, submission>>
         /\ \/ stage = "bouncer" /\ stage' = "resolver"
               /\ UNCHANGED <<call, error, beginFailed>>
            \/ /\ stage \in {"initial", "bouncer", "opening"}
               /\ \E calls \in {call, Answered(call, Main)} : BeginReturns(calls, TRUE)
BY DEF BeginFails, BadBouncerOption, BouncerReplies, BouncerFails, OpenFails,
       NoInputs, MayGoOn, ReportOpened, Goto

\* run_next_measurement() of a chain that exists.
LEMMA RunNextEffect ==
  ASSUME Types, Stages, StartChain \/ \E c \in Chain : Resume(c)
  PROVE  \E c \in Chain :
           /\ RunNext(c)
           /\ \/ /\ stage = "measuring" /\ c = toStart /\ toStart' = toStart + 1
                 /\ toStart <= options.parallelism
              \/ chain[c] = "scheduled" /\ UNCHANGED toStart
<1>1. CASE StartChain
  <2>1. /\ stage = "measuring" /\ toStart <= options.parallelism
        /\ toStart' = toStart + 1 /\ RunNext(toStart)
    BY <1>1 DEF StartChain
  <2>2. toStart \in 1 .. options.parallelism
    BY <2>1 DEF Types
  <2>3. toStart \in Chain
    BY <2>1, <2>2 DEF Stages, Chain, Main
  <2> QED BY <2>1, <2>3
<1>2. CASE \E c \in Chain : Resume(c)
  BY <1>2 DEF Resume
<1> QED BY <1>1, <1>2

LEMMA TypesNext == Types /\ Numbered /\ Stages /\ Calls /\ [Next]_vars => Types'
<1> SUFFICES ASSUME Types, Numbered, Stages, Calls, [Next]_vars
             PROVE  Types'
  OBVIOUS
<1>1. CASE Validate
  <2>1. options'.parallelism \in Nat
    <3>1. \/ UNCHANGED options
          \/ options' = OptionsOf(settings.at.name.text, runnable'.options)
      BY <1>1 DEF Validate
    <3>2. OptionsOf(settings.at.name.text, runnable'.options).parallelism =
            Number(runnable'.options, "parallelism", 3)
      BY DEF OptionsOf
    <3> QED BY <3>1, <3>2, NumberType DEF Types
  <2>2. stage' \in Stage
    BY <1>1 DEF Validate, Stage, Before
  <2> QED BY <1>1, <2>1, <2>2 DEF Validate, Types, reportVars, store, runVars
<1>2. CASE Begin \/ InterruptedEarly \/ EmitEnd \/ Throw \/ TimePasses
  <2>1. stage' \in Stage
    BY <1>2 DEF Begin, InterruptedEarly, EmitEnd, Throw, TimePasses, Goto, Stage,
                Before, After, Types
  <2> QED BY <1>2, <2>1 DEF Begin, InterruptedEarly, EmitEnd, Throw, TimePasses,
                            Types, reportVars, store, config, runVars
<1>3. CASE BeginFails
  <2>1. call' \in [Client -> Operation] /\ stage' \in Stage
    <3>1. CASE stage' = "resolver" /\ UNCHANGED call
      BY <3>1 DEF Types, Stage, Before
    <3>2. CASE \E calls \in {call, Answered(call, Main)} : BeginReturns(calls, TRUE)
      <4>1. {call, Answered(call, Main)} \subseteq [Client -> Operation]
        BY EntryFacts, NoOperation DEF Types
      <4> QED BY <3>2, <4>1, BeginReturnsType
    <3> QED BY <1>3, <3>1, <3>2, BeginFailsEffect
  <2> QED BY <1>3, <2>1, BeginFailsEffect DEF Types, store, config, runVars
<1>4. CASE ResolverReplies
  <2>1. call' \in [Client -> Operation]
    BY <1>4, EntryFacts, Wanted, NewOperation DEF ResolverReplies, Types
  <2>2. reporters' \in Seq(Kind) /\ stage' \in Stage
    BY <1>4, Wanted DEF ResolverReplies, AddReporters, Goto, Stage, Before
  <2> QED BY <1>4, <2>1, <2>2 DEF ResolverReplies, Types, store, config, runVars
<1>5. CASE LoadInputs
  <2>1. inputs' \in Seq(Nat)
    <3>1. PICK n \in Nat : inputs' = [i \in 1 .. n |-> i - 1]
      BY <1>5, EntryFacts DEF LoadInputs
    <3> QED BY <3>1
  <2>2. par' \in Progress
    BY <1>5 DEF LoadInputs, ParallelCall, Progress, Types
  <2>3. call' \in [Client -> Operation] /\ stage' \in Stage
    <3>1. Answered(call, Main) \in [Client -> Operation]
      BY EntryFacts, NoOperation DEF Types
    <3>2. \/ BeginReturns(Answered(call, Main), FALSE)
          \/ stage' = "measuring" /\ call' = Answered(call, Main)
      BY <1>5 DEF LoadInputs, Goto
    <3> QED BY <3>1, <3>2, BeginReturnsType DEF Stage
  <2> QED BY <1>5, <2>1, <2>2, <2>3 DEF LoadInputs, Types, store, config
<1>6. CASE StartChain \/ \E c \in Chain : Resume(c)
  <2>1. PICK c \in Chain : RunNext(c) /\ toStart' \in {toStart, toStart + 1}
    BY <1>6, RunNextEffect
  <2>2. CASE MustStop
    <3>1. ChainEnds(call, c, FALSE) /\ UNCHANGED <<inputs, entry, currentEntry>>
      BY <2>1, <2>2 DEF RunNext
    <3>2. call' \in [Client -> Operation] /\ stage' \in Stage /\ par' \in Progress
          /\ chain' = [chain EXCEPT ![c] = "finished"]
      BY <3>1, ChainEndsType DEF Types
    <3> QED BY <2>1, <3>1, <3>2 DEF RunNext, Types, store, config
  <2>3. CASE ~MustStop
    <3>1. TakeInput(c)
      BY <2>1, <2>3 DEF RunNext
    <3>2. inputs # <<>>
      BY <2>3 DEF MustStop
    <3>3. Tail(inputs) \in Seq(Nat) /\ Len(inputs) \in Nat \ {0}
      BY <3>2, EmptySeq, HeadTailProperties DEF Types
    <3>4. currentEntry \in Entry
      BY <3>3, EntryFacts DEF Numbered, Types
    <3> QED BY <2>1, <3>1, <3>3, <3>4, EntryFacts
            DEF RunNext, TakeInput, Become, Types, store, config
  <2> QED BY <2>2, <2>3
<1>7. ASSUME NEW c \in Chain, MainReturns(c)
      PROVE  Types'
  <2>1. call' \in [Client -> Operation]
    BY <1>7, EntryFacts, NewOperation DEF MainReturns, Types
  <2> QED BY <1>7, <2>1 DEF MainReturns, Become, Types, store, config
<1>8. ASSUME NEW c \in Chain, WriteSucceeds(c) \/ WriteFails(c)
      PROVE  Types'
  <2>1. entry[c] \in Entry
    <3>1. InProgress(c)
      BY <1>8 DEF WriteSucceeds, WriteFails, EntryWritten, EntryNotWritten, InProgress
    <3> QED BY <3>1 DEF Numbered, Types, MaybeEntry
  <2>2. PICK event \in {"status", "failure"} : EmitSubmission(c, event)
    BY <1>8 DEF WriteSucceeds, WriteFails
  <2>3. submission' \in [Entry -> {"none", "status", "failure"}]
    BY <2>2 DEF EmitSubmission, Types
  <2>4. done' \subseteq Entry /\ entry' \in [Chain -> MaybeEntry]
    BY <1>8, <2>1, EntryFacts DEF WriteSucceeds, WriteFails, MeasurementDone, Types
  <2>5. Answered(call, c) \in [Client -> Operation]
    BY EntryFacts, NoOperation DEF Types
  <2>6. \/ Reschedule(Answered(call, c), c)
        \/ ChainEnds(Answered(call, c), c, TRUE)
    BY <1>8 DEF WriteSucceeds, WriteFails, GoOn
  <2>7. /\ call' \in [Client -> Operation] /\ stage' \in Stage /\ par' \in Progress
        /\ \E label \in {"scheduled", "finished"} : chain' = [chain EXCEPT ![c] = label]
    BY <2>5, <2>6, ChainEndsType DEF Reschedule, Become, Types
  <2>8. UNCHANGED <<reporters, store, config, inputs, currentEntry, expired, toStart>>
    BY <1>8 DEF WriteSucceeds, WriteFails
  <2> QED BY <2>3, <2>4, <2>7, <2>8 DEF Types, store, config
<1>9. CASE EndReturns
  <2>1. call' \in [Client -> Operation]
    BY <1>9, EntryFacts, NoOperation DEF EndReturns, Types
  <2> QED BY <1>9, <2>1 DEF EndReturns, Types, Stage, After, store, config, runVars
<1>10. CASE ReportStep
  BY <1>10, ReportTypes
<1>11. CASE UNCHANGED vars
  BY <1>11 DEF vars, reportVars, store, config, runVars, Types
<1> QED BY <1>1, <1>2, <1>3, <1>4, <1>5, <1>6, <1>7, <1>8, <1>9, <1>10, <1>11,
           NextCases

-----------------------------------------------------------------------------
(* The numbers of the measurements.                                        *)

LEMMA NumberedInit == Init => Numbered
<1> SUFFICES ASSUME Init PROVE Numbered
  OBVIOUS
<1>1. inputs = <<>> /\ currentEntry = 0 /\ Len(inputs) = 0
  BY EmptySeq DEF Init
<1>2. \A c \in Chain : chain[c] = "unborn" /\ entry[c] = None
  BY DEF Init
<1> QED BY <1>1, <1>2, EntryFacts DEF Numbered, InProgress

\* A step that takes no input and leaves the measurements where they are.
LEMMA NumberedKept ==
  ASSUME Numbered, UNCHANGED <<inputs, currentEntry, entry>>,
         \A c \in Chain : InProgress(c)' = InProgress(c)
  PROVE  Numbered'
BY DEF Numbered

\* One that puts an end to the measurement of c, if there was one.
LEMMA NumberedEnd ==
  ASSUME Types, Numbered, UNCHANGED <<inputs, currentEntry>>, NEW c \in Chain,
         ~InProgress(c)', entry' = [entry EXCEPT ![c] = None],
         \A d \in Chain \ {c} : chain'[d] = chain[d]
  PROVE  Numbered'
<1>1. /\ entry'[c] = None
      /\ \A d \in Chain \ {c} : entry'[d] = entry[d] /\ InProgress(d)' = InProgress(d)
  BY DEF Types, InProgress
<1> QED BY <1>1 DEF Numbered

LEMMA TakeInputNumbers ==
  ASSUME Types, Numbered, NEW c \in Chain, TakeInput(c), inputs # <<>>, ~InProgress(c)
  PROVE  Numbered'
<1>1. /\ Tail(inputs) \in Seq(Nat) /\ Len(Tail(inputs)) = Len(inputs) - 1
      /\ \A i \in 1 .. Len(Tail(inputs)) : Tail(inputs)[i] = inputs[i + 1]
      /\ Len(inputs) \in Nat \ {0}
  BY HeadTailProperties, EmptySeq DEF Types
<1>2. /\ inputs' = Tail(inputs) /\ currentEntry' = currentEntry + 1
      /\ currentEntry \in Nat
  BY DEF TakeInput, Types
<1>3. /\ chain'[c] = "main" /\ entry'[c] = currentEntry
      /\ \A d \in Chain \ {c} : chain'[d] = chain[d] /\ entry'[d] = entry[d]
  BY DEF TakeInput, Become, Types
<1>4. \A i \in 1 .. Len(inputs') : inputs'[i] = currentEntry' + i - 1
  BY <1>1, <1>2 DEF Numbered
<1>5. currentEntry' + Len(inputs') <= MaxInputs
  BY <1>1, <1>2, EntryFacts DEF Numbered
<1>6. currentEntry \in Entry
  BY <1>1, <1>2, EntryFacts DEF Numbered
<1>7. \A d \in Chain : InProgress(d) => entry[d] \in Nat /\ entry[d] < currentEntry
  BY EntryFacts DEF Numbered, Types, MaybeEntry
<1>8. ASSUME NEW d \in Chain
      PROVE  (InProgress(d)' <=> (entry'[d] # None)) /\ (InProgress(d)' => entry'[d] < currentEntry')
  <2>1. CASE d = c
    BY <1>2, <1>3, <1>6, <2>1, EntryFacts DEF InProgress
  <2>2. CASE d # c
    BY <1>2, <1>3, <1>7, <2>2 DEF InProgress, Numbered
  <2> QED BY <2>1, <2>2
<1>9. ASSUME NEW d \in Chain, NEW e \in Chain, InProgress(d)', entry'[d] = entry'[e]
      PROVE  d = e
  <2>1. CASE d = c /\ e # c
    <3>1. entry[e] = currentEntry
      BY <1>3, <1>9, <2>1
    <3>2. InProgress(e)
      BY <3>1, <1>6, EntryFacts DEF Numbered
    <3> QED BY <3>1, <3>2, <1>2, <1>7
  <2>2. CASE d # c /\ e = c
    <3>1. entry[d] = currentEntry /\ InProgress(d)
      BY <1>3, <1>9, <2>2 DEF InProgress
    <3> QED BY <3>1, <1>2, <1>7
  <2>3. CASE d # c /\ e # c
    BY <1>3, <1>9, <2>3 DEF Numbered, InProgress
  <2> QED BY <2>1, <2>2, <2>3
<1> QED BY <1>4, <1>5, <1>8, <1>9 DEF Numbered

LEMMA NumberedNext == Types /\ Numbered /\ Stages /\ [Next]_vars => Numbered'
<1> SUFFICES ASSUME Types, Numbered, Stages, [Next]_vars
             PROVE  Numbered'
  OBVIOUS
<1>1. ASSUME UNCHANGED <<inputs, currentEntry, entry, chain>>
      PROVE  Numbered'
  BY <1>1, NumberedKept DEF InProgress
<1>2. CASE \/ Validate \/ Begin \/ InterruptedEarly \/ EmitEnd \/ Throw \/ TimePasses
           \/ ResolverReplies \/ EndReturns \/ UNCHANGED vars
  BY <1>1, <1>2 DEF Validate, Begin, InterruptedEarly, EmitEnd, Throw, TimePasses,
       ResolverReplies, EndReturns, vars, runVars
<1>3. CASE BeginFails \/ ReportStep
  BY <1>1, <1>3, BeginFailsEffect, ReportKeeps DEF runVars
<1>4. CASE LoadInputs
  <2>1. PICK n \in 1 .. MaxInputs : inputs' = [i \in 1 .. n |-> i - 1]
    BY <1>4, EntryFacts DEF LoadInputs
  <2>2. stage = "opening"
    BY <1>4 DEF LoadInputs, InputsLoaded, MayGoOn, ReportOpened
  <2>3. /\ currentEntry' = 0 /\ UNCHANGED <<entry, chain>>
        /\ \A c \in Chain : chain[c] = "unborn"
    BY <1>4, <2>2 DEF LoadInputs, Stages, Before
  <2>4. Len(inputs') = n
    BY <2>1
  <2> QED BY <2>1, <2>3, <2>4, EntryFacts DEF Numbered, InProgress
<1>5. CASE StartChain \/ \E c \in Chain : Resume(c)
  <2>1. PICK c \in Chain :
          RunNext(c) /\ (chain[c] = "scheduled" \/ (stage = "measuring" /\ c = toStart))
    BY <1>5, RunNextEffect
  <2>2. ~InProgress(c)
    <3>1. CASE chain[c] = "scheduled"
      BY <3>1 DEF InProgress
    <3>2. CASE stage = "measuring" /\ c = toStart
      BY <3>2 DEF Stages, Born, InProgress, Types
    <3> QED BY <2>1, <3>1, <3>2
  <2>3. CASE MustStop
    <3>1. ChainEnds(call, c, FALSE) /\ UNCHANGED <<inputs, entry, currentEntry>>
      BY <2>1, <2>3 DEF RunNext
    <3>2. chain' = [chain EXCEPT ![c] = "finished"]
      BY <3>1 DEF ChainEnds, Become
    <3>3. \A d \in Chain : InProgress(d)' = InProgress(d)
      BY <2>2, <3>2 DEF InProgress, Types
    <3> QED BY <3>1, <3>3, NumberedKept
  <2>4. CASE ~MustStop
    BY <2>1, <2>2, <2>4, TakeInputNumbers DEF RunNext, MustStop
  <2> QED BY <2>3, <2>4
<1>6. ASSUME NEW c \in Chain, MainReturns(c)
      PROVE  Numbered'
  <2>1. \A d \in Chain : InProgress(d)' = InProgress(d)
    BY <1>6 DEF MainReturns, Become, InProgress, Types
  <2> QED BY <1>6, <2>1, NumberedKept DEF MainReturns
<1>7. ASSUME NEW c \in Chain, WriteSucceeds(c) \/ WriteFails(c)
      PROVE  Numbered'
  <2>1. PICK label \in {"scheduled", "finished"} : chain' = [chain EXCEPT ![c] = label]
    BY <1>7 DEF WriteSucceeds, WriteFails, GoOn, Reschedule, ChainEnds, Become
  <2>2. ~InProgress(c)' /\ \A d \in Chain \ {c} : chain'[d] = chain[d]
    BY <2>1 DEF InProgress, Types
  <2>3. UNCHANGED <<inputs, currentEntry>> /\ entry' = [entry EXCEPT ![c] = None]
    BY <1>7 DEF WriteSucceeds, WriteFails, MeasurementDone
  <2> QED BY <2>2, <2>3, NumberedEnd
<1> QED BY <1>2, <1>3, <1>4, <1>5, <1>6, <1>7, NextCases

-----------------------------------------------------------------------------
(* The stages and the chains.                                              *)

LEMMA StagesInit == Init => Stages
<1> SUFFICES ASSUME Init PROVE Stages
  OBVIOUS
<1>1. \A c \in Chain : chain[c] = "unborn"
  BY DEF Init
<1> QED BY <1>1 DEF Init, Stages, Before, After

\* The chains that have ended, while some have not.
LEMMA FinishedIsFinite ==
  ASSUME Types, Stages, stage = "measuring"
  PROVE  /\ Finished \subseteq 1 .. options.parallelism
         /\ IsFiniteSet(Finished) /\ Cardinality(Finished) \in Nat
<1>1. Finished \subseteq Born
  BY DEF Finished, Stages
<1>2. Born \subseteq 1 .. options.parallelism
  BY DEF Born, Stages, Types
<1>3. IsFiniteSet(1 .. options.parallelism)
  BY FS_Interval DEF Types
<1> QED BY <1>1, <1>2, <1>3, FS_Subset, FS_CardinalityType

\* The stage of begin() is over when, and only when, all its chains have ended.
LEMMA ChainEndsStages ==
  ASSUME Types, Stages, stage = "measuring", NEW c \in Chain, c \in Born',
         NEW calls \in [Client -> Operation], NEW failed \in BOOLEAN,
         ChainEnds(calls, c, failed), chain[c] # "finished", UNCHANGED config,
         Born' = Born \cup {c}, toStart' <= options.parallelism + 1,
         toStart' \in Nat \ {0}
  PROVE  Stages'
<1> DEFINE p == options.parallelism
<1>1. /\ p \in Nat /\ 1 .. p \subseteq Client /\ par \in Progress /\ par.size = p
      /\ par.completed = Cardinality(Finished) /\ par.completed < par.size
  BY DEF Types, Stages
<1>2. /\ chain'[c] = "finished"
      /\ \A d \in Chain \ {c} : chain'[d] = chain[d]
      /\ par'.size = p /\ par'.completed = par.completed + 1 /\ par' \in Progress
  <2>1. chain' = [chain EXCEPT ![c] = "finished"] /\ par' = OneDone(par, failed)
    BY DEF ChainEnds, Become
  <2>2. /\ chain'[c] = "finished"
        /\ \A d \in Chain \ {c} : chain'[d] = chain[d]
    BY <2>1 DEF Types
  <2> QED BY <1>1, <2>1, <2>2, OneDoneType
<1>3. Finished' = Finished \cup {c} /\ c \notin Finished
  BY <1>2 DEF Finished
<1>4. Cardinality(Finished') = Cardinality(Finished) + 1 /\ IsFiniteSet(Finished')
  BY <1>3, FinishedIsFinite, FS_AddElement
<1>5. \A d \in Chain : (chain'[d] = "unborn") <=> (d \notin Born')
  BY <1>2 DEF Stages
<1>6. /\ UNCHANGED <<options, runnable>> /\ ~runnable.refused /\ Enough
      /\ Enough' = Enough
  BY DEF Stages, config, Enough
<1>7. CASE AllDone(par')
  <2>1. stage' = "closing"
    BY <1>7 DEF ChainEnds, BeginReturns
  <2>2. Cardinality(Finished') = p
    BY <1>1, <1>2, <1>4, <1>7 DEF AllDone
  <2>3. Born' \subseteq 1 .. p
    <3>1. Born' = 1 .. toStart' - 1
      BY DEF Born
    <3> QED BY <1>1, <3>1
  <2>4. Finished' \subseteq 1 .. p
    BY <1>5, <2>3 DEF Finished
  <2>5. Finished' = 1 .. p
    <3> HIDE DEF p
    <3>1. IsFiniteSet(1 .. p) /\ Cardinality(1 .. p) = p
      <4>1. 1 \in Int /\ p \in Int
        BY <1>1
      <4>2. IsFiniteSet(1 .. p) /\ Cardinality(1 .. p) = IF 1 > p THEN 0 ELSE p - 1 + 1
        BY <4>1, FS_Interval
      <4> QED BY <1>1, <4>2
    <3> QED BY <2>2, <2>4, <3>1, FS_Subset
  <2>6. \A d \in Chain : chain'[d] \in {"unborn", "finished"}
    BY <1>5, <2>3, <2>5 DEF Finished
  <2> QED BY <1>6, <2>1, <2>6 DEF Stages, Before, After
<1>8. CASE ~AllDone(par')
  <2>1. stage' = "measuring"
    BY <1>8 DEF ChainEnds
  <2>2. par'.completed = Cardinality(Finished') /\ par'.completed < par'.size
    BY <1>1, <1>2, <1>4, <1>8, FinishedIsFinite DEF AllDone, Progress
  <2> QED BY <1>1, <1>2, <1>5, <1>6, <2>1, <2>2 DEF Stages, Before, After
<1> QED BY <1>7, <1>8

\* A chain that was born before becomes something else.
LEMMA ChainGoesOnStages ==
  ASSUME Types, Stages, stage = "measuring", UNCHANGED <<stage, par, config>>,
         NEW c \in Chain, c \in Born', Born' = Born \cup {c},
         toStart' <= options.parallelism + 1, chain[c] # "finished",
         NEW label, label \notin {"unborn", "finished"},
         chain' = [chain EXCEPT ![c] = label]
  PROVE  Stages'
<1>1. chain'[c] = label /\ \A d \in Chain \ {c} : chain'[d] = chain[d]
  BY DEF Types
<1>2. Finished' = Finished
  BY <1>1 DEF Finished
<1> QED BY <1>1, <1>2 DEF Stages, config, Enough, Before, After

LEMMA StagesNext == Types /\ Numbered /\ Stages /\ [Next]_vars => Stages'
<1> SUFFICES ASSUME Types, Numbered, Stages, [Next]_vars
             PROVE  Stages'
  OBVIOUS
<1>1. CASE Validate
  <2>1. /\ runnable' = Prepared(settings)
        /\ UNCHANGED <<inputs, currentEntry, toStart, done, chain>>
        /\ stage = "validating"
    BY <1>1 DEF Validate, runVars
  <2>2. CASE runnable'.refused
    BY <1>1, <2>1, <2>2 DEF Validate, Stages, Before, After
  <2>3. CASE ~runnable'.refused
    <3> DEFINE given == runnable'.options
    <3>1. stage' = "initial" /\ options' = OptionsOf(settings.at.name.text, given)
      BY <1>1, <2>3 DEF Validate
    <3>2. /\ options'.unreadable = Unreadable(given)
          /\ options'.parallelism = Number(given, "parallelism", 3)
      BY <3>1 DEF OptionsOf
    <3>3. EnoughClients(settings)
      BY NettestAssumption DEF Types
    <3>4. Enough'
      BY <2>1, <2>3, <3>2, <3>3 DEF EnoughClients, Enough
    <3> QED BY <2>1, <2>3, <3>1, <3>4 DEF Stages, Before, After
  <2> QED BY <2>2, <2>3
<1>2. ASSUME UNCHANGED <<config, inputs, currentEntry, toStart, done, chain, par>>
      PROVE  /\ Enough' = Enough /\ UNCHANGED <<options, runnable>>
             /\ Born' = Born /\ Finished' = Finished
  BY <1>2 DEF config, Enough, Born, Finished
<1>3. CASE \/ Begin \/ InterruptedEarly \/ EmitEnd \/ Throw \/ TimePasses
           \/ ResolverReplies \/ EndReturns \/ ReportStep \/ UNCHANGED vars
  <2>1. UNCHANGED <<config, inputs, currentEntry, toStart, done, chain, par>>
    BY <1>3, ReportKeeps
       DEF Begin, InterruptedEarly, EmitEnd, Throw, TimePasses, ResolverReplies,
           EndReturns, vars, runVars, config
  <2>2. \/ UNCHANGED stage
        \/ stage \notin {"validating", "refused"} /\ stage' = "thrown"
        \/ /\ stage \in Before \ {"validating", "refused"}
           /\ stage' \in (Before \ {"validating", "refused"}) \cup {"over"}
        \/ stage \in After /\ stage' \in After
    BY <1>3, ReportKeeps
       DEF Begin, InterruptedEarly, EmitEnd, Throw, TimePasses, ResolverReplies,
           EndReturns, vars, Goto, Before, After, ReportOpened, InputsLoaded,
           MayGoOn, Stages, EntryNotWritten, Types, Stage
  <2> QED BY <1>2, <2>1, <2>2 DEF Stages, Before, After
<1>4. CASE BeginFails
  <2>1. UNCHANGED <<config, inputs, currentEntry, toStart, done, chain, par>>
    BY <1>4, BeginFailsEffect DEF runVars
  <2>2. /\ stage \in Before \ {"validating", "refused"}
        /\ stage' \in {"resolver", "closing"}
    BY <1>4, BeginFailsEffect DEF BeginReturns, Before
  <2> QED BY <1>2, <2>1, <2>2 DEF Stages, Before, After
<1>5. CASE LoadInputs
  <2>1. /\ stage = "opening" /\ "parallelism" \notin options.unreadable
        /\ UNCHANGED <<config, currentEntry, chain, toStart, done>>
        /\ par' = ParallelCall(options.parallelism)
    BY <1>5 DEF LoadInputs, InputsLoaded, MayGoOn, ReportOpened, CanRead
  <2>2. /\ ~runnable.refused /\ 1 .. options.parallelism \subseteq Client
        /\ toStart = 1 /\ \A c \in Chain : chain[c] = "unborn"
    BY <2>1 DEF Stages, Enough, Before
  <2>3. /\ par'.size = options.parallelism /\ par'.completed = 0
        /\ options.parallelism \in Nat /\ UNCHANGED <<options, runnable>> /\ Enough'
    BY <2>1, <2>2 DEF ParallelCall, Types, config, Enough
  <2>4. CASE AllDone(par')
    <3>1. stage' = "closing"
      BY <1>5, <2>4 DEF LoadInputs, BeginReturns
    <3> QED BY <2>1, <2>2, <2>3, <3>1 DEF Stages, Before, After
  <2>5. CASE ~AllDone(par')
    <3>1. stage' = "measuring"
      BY <1>5, <2>5 DEF LoadInputs, Goto
    <3>2. 0 < options.parallelism
      BY <2>3, <2>5 DEF AllDone
    <3>3. Finished' = {} /\ Cardinality(Finished') = 0
      BY <2>1, <2>2, FS_EmptySet DEF Finished
    <3>4. \A c \in Chain : (chain'[c] = "unborn") <=> (c \notin Born')
      BY <2>1, <2>2 DEF Born
    <3> QED BY <2>1, <2>2, <2>3, <3>1, <3>2, <3>3, <3>4 DEF Stages, Before, After
  <2> QED BY <2>4, <2>5
<1>6. ASSUME NEW c \in Chain, chain[c] \in {"main", "writing", "scheduled"},
             stage # "thrown"
      PROVE  stage = "measuring" /\ c \in Born /\ Born = Born \cup {c}
  BY <1>6 DEF Stages, Types, Stage
<1>7. CASE StartChain \/ (stage # "thrown" /\ \E c \in Chain : Resume(c))
  <2>1. PICK c \in Chain :
          /\ RunNext(c)
          /\ \/ /\ stage = "measuring" /\ c = toStart /\ toStart' = toStart + 1
                /\ toStart <= options.parallelism
             \/ chain[c] = "scheduled" /\ UNCHANGED toStart
    BY <1>7, RunNextEffect
  <2>2. /\ stage = "measuring" /\ c \in Born' /\ Born' = Born \cup {c}
        /\ toStart' <= options.parallelism + 1 /\ chain[c] # "finished"
        /\ toStart' \in Nat \ {0}
    <3>1. CASE stage = "measuring" /\ c = toStart /\ toStart' = toStart + 1
               /\ toStart <= options.parallelism
      <4>1. toStart \in Nat \ {0} /\ c \notin Born /\ options.parallelism \in Nat
        BY <3>1 DEF Types, Born
      <4>2. chain[c] = "unborn"
        BY <3>1, <4>1 DEF Stages
      <4> QED BY <3>1, <4>1, <4>2 DEF Born
    <3>2. CASE chain[c] = "scheduled" /\ UNCHANGED toStart
      <4>1. stage # "thrown"
        BY <1>7 DEF StartChain
      <4> QED BY <1>6, <3>2, <4>1 DEF Born, Stages, Types
    <3> QED BY <2>1, <3>1, <3>2
  <2>3. UNCHANGED config
    BY <2>1 DEF RunNext
  <2>4. CASE MustStop
    BY <2>1, <2>2, <2>3, <2>4, ChainEndsStages DEF RunNext, Types
  <2>5. CASE ~MustStop
    <3>1. UNCHANGED <<stage, par>> /\ chain' = [chain EXCEPT ![c] = "main"]
      BY <2>1, <2>5 DEF RunNext, TakeInput, Become
    <3> QED BY <2>2, <2>3, <3>1, ChainGoesOnStages
  <2> QED BY <2>4, <2>5
<1>8. ASSUME NEW c \in Chain, MainReturns(c), stage # "thrown"
      PROVE  Stages'
  <2>1. /\ chain[c] = "main" /\ chain' = [chain EXCEPT ![c] = "writing"]
        /\ UNCHANGED <<stage, par, config, toStart>>
    BY <1>8 DEF MainReturns, Become
  <2> QED BY <1>6, <1>8, <2>1, ChainGoesOnStages DEF Born, Stages
<1>9. ASSUME NEW c \in Chain, WriteSucceeds(c) \/ WriteFails(c), stage # "thrown"
      PROVE  Stages'
  <2>1. /\ chain[c] = "writing" /\ UNCHANGED <<config, toStart>>
        /\ Reschedule(Answered(call, c), c) \/ ChainEnds(Answered(call, c), c, TRUE)
    BY <1>9 DEF WriteSucceeds, WriteFails, EntryWritten, EntryNotWritten, GoOn
  <2>2. /\ stage = "measuring" /\ c \in Born' /\ Born' = Born \cup {c}
        /\ toStart' <= options.parallelism + 1 /\ toStart' \in Nat \ {0}
    BY <1>6, <1>9, <2>1 DEF Born, Stages, Types
  <2>3. CASE Reschedule(Answered(call, c), c)
    BY <2>1, <2>2, <2>3, ChainGoesOnStages DEF Reschedule, Become
  <2>4. CASE ChainEnds(Answered(call, c), c, TRUE)
    <3>1. Answered(call, c) \in [Client -> Operation]
      BY EntryFacts, NoOperation DEF Types
    <3>2. chain[c] # "finished" /\ UNCHANGED config /\ TRUE \in BOOLEAN
      BY <2>1
    <3>3. PICK failed \in BOOLEAN : ChainEnds(Answered(call, c), c, failed)
      BY <2>4
    <3> QED BY <2>2, <3>1, <3>2, <3>3, ChainEndsStages
  <2> QED BY <2>1, <2>3, <2>4
<1> QED BY <1>1, <1>3, <1>4, <1>5, <1>7, <1>8, <1>9, NextCases

-----------------------------------------------------------------------------
(* The reporters, and the operations of the clients.                       *)

LEMMA ReportersInit == Init => Reporters
<1> SUFFICES ASSUME Init PROVE Reporters
  OBVIOUS
<1>1. reporters = <<>> /\ stage = "validating" /\ Len(reporters) = 0
  BY EmptySeq DEF Init, ReportInit
<1> QED BY <1>1 DEF Reporters

LEMMA ReportersNext == Types /\ Stages /\ Reporters /\ [Next]_vars => Reporters'
<1> SUFFICES ASSUME Types, Stages, Reporters, [Next]_vars
             PROVE  Reporters'
  OBVIOUS
<1>1. ASSUME UNCHANGED <<reporters, options>>,
             stage' \in {"opening", "measuring"} => stage \in {"opening", "measuring"}
      PROVE  Reporters'
  BY <1>1 DEF Reporters, Collects
<1>2. CASE Validate
  <2>1. UNCHANGED reporters /\ stage' \in {"refused", "initial"}
    BY <1>2 DEF Validate, reportVars
  <2> QED BY <2>1 DEF Reporters
<1>3. CASE ResolverReplies
  <2>1. reporters' = WantedReporters /\ UNCHANGED options
    BY <1>3 DEF ResolverReplies, AddReporters, config
  <2> QED BY <2>1, Wanted DEF Reporters, Collects
<1>4. CASE \/ Begin \/ InterruptedEarly \/ EmitEnd \/ Throw \/ TimePasses
           \/ EndReturns \/ ReportStep \/ BeginFails \/ UNCHANGED vars
  <2>1. UNCHANGED <<reporters, options>>
    BY <1>4, ReportKeeps, BeginFailsEffect
       DEF Begin, InterruptedEarly, EmitEnd, Throw, TimePasses, EndReturns, vars,
           reportVars, config
  <2>2. UNCHANGED stage \/ stage' \notin {"opening", "measuring"}
    BY <1>4, ReportKeeps, BeginFailsEffect
       DEF Begin, InterruptedEarly, EmitEnd, Throw, TimePasses, EndReturns, vars,
           Goto, BeginReturns
  <2> QED BY <1>1, <2>1, <2>2
<1>5. CASE LoadInputs
  BY <1>1, <1>5 DEF LoadInputs, InputsLoaded, MayGoOn, ReportOpened, config
<1>6. CASE StartChain \/ \E c \in Chain : Resume(c)
  <2>1. PICK c \in Chain : RunNext(c)
    BY <1>6, RunNextEffect
  <2>2. UNCHANGED <<reporters, options>>
    BY <2>1 DEF RunNext, config
  <2>3. UNCHANGED stage \/ stage' = "closing"
    BY <2>1 DEF RunNext, ChainEnds, TakeInput, BeginReturns
  <2> QED BY <1>1, <2>2, <2>3
<1>7. ASSUME NEW c \in Chain, MainReturns(c) \/ WriteSucceeds(c) \/ WriteFails(c)
      PROVE  Reporters'
  <2>1. UNCHANGED <<reporters, options>>
    BY <1>7 DEF MainReturns, WriteSucceeds, WriteFails, config
  <2>2. UNCHANGED stage \/ stage' = "closing"
    BY <1>7 DEF MainReturns, WriteSucceeds, WriteFails, GoOn, Reschedule, ChainEnds,
                BeginReturns
  <2> QED BY <1>1, <2>1, <2>2
<1> QED BY <1>2, <1>3, <1>4, <1>5, <1>6, <1>7, NextCases

LEMMA CallsInit == Init => Calls
<1> SUFFICES ASSUME Init PROVE Calls
  OBVIOUS
<1>1. \A c \in Client : call[c] = NoCall
  BY DEF Init, ReportInit
<1>2. NoCall.op = "none"
  BY DEF NoCall
<1>3. \A c \in Chain : chain[c] # "writing"
  BY DEF Init
<1> QED BY <1>1, <1>2, <1>3, EntryFacts DEF Calls, OperationOK, OwnOperation

LEMMA NoCallIsOK ==
  ASSUME NEW o, o = NoCall
  PROVE  OperationOK(o) /\ OperationOK(o)' /\ o.op = "none"
BY DEF OperationOK, NoCall

\* A new operation is well formed.
LEMMA NewIsOK ==
  ASSUME NEW calls \in [Client -> Operation], NEW c \in Client,
         NEW op \in {"open", "write", "close"}, NEW e \in MaybeEntry,
         reporters' \in Seq(Kind), call' = Calling(calls, c, op, e, reporters')
  PROVE  /\ OperationOK(call[c])'
         /\ call'[c].op = op /\ call'[c].entry = e
         /\ \A d \in Client \ {c} : call'[d] = calls[d]
<1>1. /\ LET new == call'[c] IN
           /\ new.op = op /\ new.entry = e /\ new.next = 1 /\ ~new.waiting
           /\ new.par.size = Len(reporters') /\ new.par.completed = 0
      /\ \A d \in Client \ {c} : call'[d] = calls[d]
  BY NewOperation
<1>2. Len(reporters') \in Nat
  BY LenProperties
<1>3. op # "none"
  OBVIOUS
<1>4. OperationOK(call[c])'
  <2>1. (IF call'[c].waiting THEN 1 ELSE 0) = 0
    BY <1>1
  <2>2. /\ call'[c].op # "none" /\ call'[c].next \in 1 .. Len(reporters') + 1
        /\ call'[c].par.size = Len(reporters')
        /\ call'[c].par.completed = call'[c].next - 1 - 0
    BY <1>1, <1>2, <1>3
  <2> QED BY <1>1, <2>1, <2>2 DEF OperationOK
<1> QED BY <1>1, <1>4

\* The operations that neither begin nor end are as good as before.
LEMMA CallsKept ==
  ASSUME Types, Calls, UNCHANGED reporters, NEW c \in Chain,
         \A d \in Chain \ {c} : chain'[d] = chain[d] /\ entry'[d] = entry[d],
         \A d \in Client \ {c, Main} : call'[d] = call[d],
         OperationOK(call[c])', OwnOperation(c)',
         OperationOK(call[Main])', call'[Main].op # "write"
  PROVE  Calls'
<1>1. ASSUME NEW d \in Client PROVE OperationOK(call[d])'
  <2>1. CASE d \in {c, Main}
    BY <2>1
  <2>2. CASE d \notin {c, Main}
    <3>1. call'[d] = call[d] /\ OperationOK(call[d])
      BY <2>2 DEF Calls
    <3> QED BY <3>1 DEF OperationOK, Collects
  <2> QED BY <2>1, <2>2
<1>2. ASSUME NEW d \in Chain, d # c PROVE OwnOperation(d)'
  <2>1. d \in Client \ {c, Main}
    BY <1>2 DEF Chain
  <2> QED BY <1>2, <2>1 DEF Calls, OwnOperation
<1> QED BY <1>1, <1>2 DEF Calls

LEMMA OperationKept ==
  ASSUME UNCHANGED reporters, NEW c, call'[c] = call[c], OperationOK(call[c])
  PROVE  OperationOK(call[c])'
BY DEF OperationOK, Collects

\* Only what begin() and end() do changes.
LEMMA MainCallKept ==
  ASSUME Types, Calls, UNCHANGED <<reporters, chain, entry>>,
         \A d \in Client \ {Main} : call'[d] = call[d],
         OperationOK(call[Main])', call'[Main].op # "write"
  PROVE  Calls'
<1>1. ASSUME NEW d \in Client PROVE OperationOK(call[d])'
  BY <1>1, OperationKept DEF Calls
<1>2. ASSUME NEW d \in Chain PROVE OwnOperation(d)'
  BY <1>2 DEF Calls, OwnOperation, Chain
<1> QED BY <1>1, <1>2 DEF Calls

\* The callback of begin().
LEMMA BeginReturnsCall ==
  ASSUME Types, UNCHANGED reporters, NEW calls \in [Client -> Operation], NEW failed,
         BeginReturns(calls, failed)
  PROVE  /\ OperationOK(call[Main])' /\ call'[Main].op = "close"
         /\ \A d \in Client \ {Main} : call'[d] = calls[d]
<1>1. call' = Calling(calls, Main, "close", None, reporters')
  BY DEF BeginReturns
<1> QED BY <1>1, EntryFacts, NewIsOK DEF Types

\* What the steps of the reporters make of an operation.
LEMMA ReportOperation ==
  ASSUME Types, Reporters, Calls, NEW c \in Client, AtOnce(c) \/ CollectorReplies(c)
  PROVE  /\ OperationOK(call[c])'
         /\ call'[c].op = call[c].op /\ call'[c].entry = call[c].entry
         /\ \A d \in Client \ {c} : call'[d] = call[d]
<1> DEFINE n == call[c].next
<1>1. /\ call \in [Client -> Operation] /\ call[c] \in Operation
      /\ n \in Nat /\ n + 1 \in Nat /\ Len(reporters) \in Nat /\ OperationOK(call[c])
  BY LenProperties DEF Types, Operation, Calls
<1>2. NoCall.next = 0 /\ NoCall.waiting = FALSE
  BY DEF NoCall
<1>3. ASSUME Starting(c) \/ call[c].waiting
      PROVE  /\ call[c].op # "none" /\ n \in 1 .. Len(reporters) + 1
             /\ call[c].par.size = Len(reporters)
             /\ call[c].par.completed = n - 1 - (IF call[c].waiting THEN 1 ELSE 0)
             /\ call[c].waiting => n = Len(reporters) + 1 /\ Collects
             /\ call[c].waiting <=> ~Starting(c)
  <2>1. call[c].op # "none"
    BY <1>1, <1>2, <1>3 DEF OperationOK, Starting
  <2>2. /\ n \in 1 .. Len(reporters) + 1 /\ call[c].par.size = Len(reporters)
        /\ call[c].par.completed = n - 1 - (IF call[c].waiting THEN 1 ELSE 0)
        /\ call[c].waiting => n = Len(reporters) + 1 /\ Collects
    BY <1>1, <2>1 DEF OperationOK
  <2> QED BY <1>1, <1>3, <2>1, <2>2 DEF Starting
<1>4. UNCHANGED reporters /\ Collects' = Collects
  BY DEF AtOnce, AnsweredAtOnce, FileWorks, CollectorAsked, CollectorReplies, Collects
<1>5. CASE AnsweredAtOnce(c) \/ FileWorks(c)
  <2>1. /\ Starting(c)
        /\ \E failed \in BOOLEAN : Answer(c, n + 1, failed)
    BY <1>5 DEF AnsweredAtOnce, FileWorks, Permitted, DoneAlready
  <2>2. /\ \A d \in Client \ {c} : call'[d] = call[d]
        /\ call'[c].op = call[c].op /\ call'[c].entry = call[c].entry
        /\ call'[c].next = n + 1 /\ ~call'[c].waiting
        /\ call'[c].par.size = call[c].par.size
        /\ call'[c].par.completed = call[c].par.completed + 1
    BY <1>1, <2>1, AnswerEffect
  <2>3. n \in 1 .. Len(reporters) /\ call[c].par.completed = n - 1
    BY <1>1, <1>3, <2>1 DEF Starting
  <2>4. OperationOK(call[c])'
    BY <1>1, <1>3, <1>4, <2>1, <2>2, <2>3 DEF OperationOK
  <2> QED BY <2>2, <2>4
<1>6. CASE CollectorAsked(c)
  <2>1. /\ \A d \in Client \ {c} : call'[d] = call[d]
        /\ call'[c].op = call[c].op /\ call'[c].entry = call[c].entry
        /\ call'[c].next = n + 1 /\ call'[c].waiting
        /\ call'[c].par = call[c].par
    BY <1>1, <1>6, AskedEffect
  <2>2. Starting(c) /\ reporters[n] = "ooni"
    BY <1>6 DEF CollectorAsked, Permitted
  <2>3. n = Len(reporters) /\ n > 0 /\ Collects
    BY <1>1, <2>2 DEF Starting, Reporters, Collects
  <2>4. OperationOK(call[c])'
    BY <1>1, <1>3, <1>4, <2>1, <2>2, <2>3 DEF OperationOK
  <2> QED BY <2>1, <2>4
<1>7. CASE CollectorReplies(c)
  <2>1. call[c].waiting /\ \E failed \in BOOLEAN : Answer(c, n, failed)
    BY <1>7 DEF CollectorReplies
  <2>2. /\ \A d \in Client \ {c} : call'[d] = call[d]
        /\ call'[c].op = call[c].op /\ call'[c].entry = call[c].entry
        /\ call'[c].next = n /\ ~call'[c].waiting
        /\ call'[c].par.size = call[c].par.size
        /\ call'[c].par.completed = call[c].par.completed + 1
    BY <1>1, <2>1, AnswerEffect
  <2>4. OperationOK(call[c])'
    BY <1>1, <1>3, <1>4, <2>1, <2>2 DEF OperationOK
  <2> QED BY <2>2, <2>4
<1> QED BY <1>5, <1>6, <1>7 DEF AtOnce

LEMMA CallsNext == Types /\ Stages /\ Reporters /\ Calls /\ [Next]_vars => Calls'
<1> SUFFICES ASSUME Types, Stages, Reporters, Calls, [Next]_vars
             PROVE  Calls'
  OBVIOUS
<1>1. ASSUME UNCHANGED <<reporters, call, chain, entry>>
      PROVE  Calls'
  BY <1>1 DEF Calls, OperationOK, Collects, OwnOperation
<1>2. CASE Validate \/ Begin \/ InterruptedEarly \/ EmitEnd \/ Throw \/ TimePasses
           \/ UNCHANGED vars
  BY <1>1, <1>2 DEF Validate, Begin, InterruptedEarly, EmitEnd, Throw, TimePasses,
       vars, runVars, reportVars
<1>3. /\ call \in [Client -> Operation] /\ OperationOK(call[Main])
      /\ Answered(call, Main) \in [Client -> Operation]
      /\ Answered(call, Main)[Main] = NoCall
      /\ \A d \in Client \ {Main} : Answered(call, Main)[d] = call[d]
  BY EntryFacts, NoOperation DEF Types, Calls
<1>4. CASE BeginFails
  <2>1. UNCHANGED <<reporters, chain, entry>>
    BY <1>4, BeginFailsEffect DEF runVars
  <2>2. CASE UNCHANGED call
    BY <1>1, <2>1, <2>2
  <2>3. CASE \E calls \in {call, Answered(call, Main)} : BeginReturns(calls, TRUE)
    <3>1. PICK calls \in [Client -> Operation] :
            /\ BeginReturns(calls, TRUE)
            /\ \A d \in Client \ {Main} : calls[d] = call[d]
      BY <1>3, <2>3
    <3> QED BY <2>1, <3>1, BeginReturnsCall, MainCallKept
  <2> QED BY <1>4, <2>2, <2>3, BeginFailsEffect
<1>5. CASE ResolverReplies
  <2>1. /\ reporters' = WantedReporters /\ UNCHANGED <<chain, entry>>
        /\ call' = Calling(call, Main, "open", None, reporters')
        /\ stage = "resolver"
    BY <1>5 DEF ResolverReplies, AddReporters, runVars
  <2>2. /\ OperationOK(call[Main])' /\ call'[Main].op = "open"
        /\ \A d \in Client \ {Main} : call'[d] = call[d]
    BY <1>3, <2>1, EntryFacts, Wanted, NewIsOK
  <2>3. ASSUME NEW d \in Chain PROVE OperationOK(call[d])' /\ OwnOperation(d)'
    <3>1. chain[d] = "unborn" /\ d \in Client \ {Main}
      BY <2>1 DEF Stages, Before, Chain
    <3>2. call[d].op = "none" /\ call'[d] = call[d]
      BY <2>2, <3>1 DEF Calls, OwnOperation
    <3>3. call'[d] = NoCall /\ NoCall.op = "none"
      BY <3>1, <3>2 DEF Calls, OperationOK
    <3> QED BY <2>1, <3>1, <3>3 DEF OperationOK, OwnOperation
  <2> QED BY <2>2, <2>3 DEF Calls, Chain
<1>6. CASE LoadInputs
  <2>1. /\ UNCHANGED <<reporters, chain, entry>>
        /\ \/ BeginReturns(Answered(call, Main), FALSE)
           \/ call' = Answered(call, Main)
    BY <1>6 DEF LoadInputs
  <2>2. CASE BeginReturns(Answered(call, Main), FALSE)
    <3>1. PICK failed : BeginReturns(Answered(call, Main), failed)
      BY <2>2
    <3> QED BY <1>3, <2>1, <3>1, BeginReturnsCall, MainCallKept
  <2>3. CASE call' = Answered(call, Main)
    <3>1. OperationOK(call[Main])' /\ call'[Main].op # "write"
      BY <1>3, <2>3 DEF OperationOK, NoCall
    <3> QED BY <1>3, <2>1, <2>3, <3>1, MainCallKept
  <2> QED BY <2>1, <2>2, <2>3
<1>7. CASE EndReturns
  <2>1. UNCHANGED <<reporters, chain, entry>> /\ call' = Answered(call, Main)
    BY <1>7 DEF EndReturns, runVars
  <2>2. OperationOK(call[Main])' /\ call'[Main].op # "write"
    BY <1>3, <2>1 DEF OperationOK, NoCall
  <2> QED BY <1>3, <2>1, <2>2, MainCallKept
\* The chain c ends its operation, or had none, and becomes something else.
<1>8. ASSUME NEW c \in Chain, NEW calls \in [Client -> Operation],
             UNCHANGED reporters, chain'[c] # "writing",
             \A d \in Chain \ {c} : chain'[d] = chain[d] /\ entry'[d] = entry[d],
             \A d \in Client \ {c} : calls[d] = call[d],
             calls[c] = NoCall,
             call' = calls \/ \E failed \in BOOLEAN : BeginReturns(calls, failed)
      PROVE  Calls'
  <2>1. c \in Client \ {Main} /\ Main \in Client
    BY EntryFacts
  <2>2. \A d \in Client \ {Main} : call'[d] = calls[d]
    BY <1>8, BeginReturnsCall
  <2>3. OperationOK(call[Main])' /\ call'[Main].op # "write"
    <3>1. CASE call' = calls
      <4>1. call'[Main] = call[Main]
        BY <1>8, <2>1, <3>1
      <4> QED BY <1>3, <1>8, <4>1, OperationKept DEF Calls
    <3>2. CASE \E failed \in BOOLEAN : BeginReturns(calls, failed)
      BY <1>8, <3>2, BeginReturnsCall
    <3> QED BY <1>8, <3>1, <3>2
  <2>4. OperationOK(call[c])' /\ OwnOperation(c)'
    <3>1. call'[c] = NoCall /\ NoCall.op = "none"
      BY <1>8, <2>1, <2>2 DEF NoCall
    <3> QED BY <1>8, <3>1 DEF OperationOK, OwnOperation
  <2> QED BY <1>8, <2>1, <2>2, <2>3, <2>4, CallsKept
<1>9. CASE StartChain \/ \E c \in Chain : Resume(c)
  <2>1. PICK c \in Chain :
          RunNext(c) /\ (chain[c] = "scheduled" \/ (stage = "measuring" /\ c = toStart))
    BY <1>9, RunNextEffect
  <2>2. chain[c] # "writing"
    <3>1. CASE stage = "measuring" /\ c = toStart
      BY <3>1 DEF Stages, Born, Types
    <3> QED BY <2>1, <3>1
  <2>3. call[c] = NoCall
    BY <2>2, EntryFacts DEF Calls, OwnOperation, OperationOK
  <2>4. UNCHANGED reporters
    BY <2>1 DEF RunNext
  <2>5. /\ chain'[c] # "writing"
        /\ \A d \in Chain \ {c} : chain'[d] = chain[d] /\ entry'[d] = entry[d]
    BY <2>1 DEF RunNext, ChainEnds, TakeInput, Become, Types
  <2>6. call' = call \/ \E failed \in BOOLEAN : BeginReturns(call, failed)
    <3>1. par'.failed \in BOOLEAN \/ UNCHANGED call
      BY <2>1, OneDoneType DEF RunNext, ChainEnds, TakeInput, Types, Progress
    <3> QED BY <2>1, <3>1 DEF RunNext, ChainEnds, TakeInput
  <2> QED BY <1>3, <1>8, <2>3, <2>4, <2>5, <2>6
<1>10. ASSUME NEW c \in Chain, MainReturns(c)
       PROVE  Calls'
  <2>1. /\ UNCHANGED <<reporters, entry>> /\ chain' = [chain EXCEPT ![c] = "writing"]
        /\ call' = Calling(call, c, "write", entry[c], reporters')
    BY <1>10 DEF MainReturns, Become
  <2>2. /\ OperationOK(call[c])' /\ call'[c].op = "write" /\ call'[c].entry = entry[c]
        /\ \A d \in Client \ {c} : call'[d] = call[d]
    <3>1. entry[c] \in MaybeEntry /\ reporters' \in Seq(Kind) /\ c \in Client
      BY <2>1, EntryFacts DEF Types
    <3> QED BY <1>3, <2>1, <3>1, NewIsOK
  <2>3. OperationOK(call[Main])' /\ call'[Main].op # "write"
    <3>1. call'[Main] = call[Main]
      BY <2>2, EntryFacts
    <3> QED BY <1>3, <2>1, <3>1, OperationKept DEF Calls
  <2>4. OwnOperation(c)'
    BY <2>1, <2>2 DEF OwnOperation, Types
  <2>5. \A d \in Chain \ {c} : chain'[d] = chain[d] /\ entry'[d] = entry[d]
    BY <2>1 DEF Types
  <2> QED BY <2>1, <2>2, <2>3, <2>4, <2>5, CallsKept
<1>11. ASSUME NEW c \in Chain, WriteSucceeds(c) \/ WriteFails(c)
       PROVE  Calls'
  <2> DEFINE calls == Answered(call, c)
  <2>1. /\ calls \in [Client -> Operation] /\ calls[c] = NoCall
        /\ \A d \in Client \ {c} : calls[d] = call[d]
    BY <1>3, EntryFacts, NoOperation
  <2>2. UNCHANGED reporters /\ (Reschedule(calls, c) \/ ChainEnds(calls, c, TRUE))
    BY <1>11 DEF WriteSucceeds, WriteFails, GoOn
  <2>3. entry' = [entry EXCEPT ![c] = None]
    BY <1>11 DEF WriteSucceeds, WriteFails, MeasurementDone
  <2> HIDE DEF calls
  <2>4. /\ chain'[c] # "writing"
        /\ \A d \in Chain \ {c} : chain'[d] = chain[d] /\ entry'[d] = entry[d]
    BY <2>2, <2>3 DEF ChainEnds, Reschedule, Become, Types
  <2>5. call' = calls \/ \E failed \in BOOLEAN : BeginReturns(calls, failed)
    <3>1. par'.failed \in BOOLEAN \/ call' = calls
      BY <2>2, OneDoneType DEF ChainEnds, Reschedule, Types, Progress
    <3> QED BY <2>2, <3>1 DEF ChainEnds, Reschedule
  <2> QED BY <1>8, <2>1, <2>2, <2>4, <2>5
<1>12. CASE ReportStep
  <2>1. PICK c \in Client : AtOnce(c) \/ CollectorReplies(c)
    BY <1>12 DEF ReportStep
  <2>2. UNCHANGED <<reporters, chain, entry>>
    BY <1>12, ReportKeeps
  <2>3. /\ OperationOK(call[c])'
        /\ call'[c].op = call[c].op /\ call'[c].entry = call[c].entry
        /\ \A d \in Client \ {c} : call'[d] = call[d]
    BY <2>1, ReportOperation
  <2>4. \A d \in Client : call'[d].op = call[d].op /\ call'[d].entry = call[d].entry
    BY <2>3
  <2>5. ASSUME NEW d \in Client PROVE OperationOK(call[d])'
    BY <2>2, <2>3, OperationKept DEF Calls
  <2>6. ASSUME NEW d \in Chain PROVE OwnOperation(d)'
    BY <2>2, <2>4 DEF Calls, OwnOperation, Chain
  <2> QED BY <2>4, <2>5, <2>6, EntryFacts DEF Calls
<1> QED BY <1>2, <1>4, <1>5, <1>6, <1>7, <1>9, <1>10, <1>11, <1>12, NextCases

-----------------------------------------------------------------------------
(* What has been collected.                                                *)

LEMMA RangeAppend ==
  ASSUME NEW S, NEW s \in Seq(S), NEW e \in S
  PROVE  Range(Append(s, e)) = Range(s) \cup {e}
<1>1. /\ Append(s, e) \in Seq(S) /\ Len(Append(s, e)) = Len(s) + 1
      /\ \A i \in 1 .. Len(s) : Append(s, e)[i] = s[i]
      /\ Append(s, e)[Len(s) + 1] = e
  BY AppendProperties
<1>2. /\ Range(Append(s, e)) = {Append(s, e)[i] : i \in 1 .. Len(s) + 1}
      /\ Range(s) = {s[i] : i \in 1 .. Len(s)}
  BY <1>1, RangeEquality
<1>3. Len(s) \in Nat
  BY LenProperties
<1> QED BY <1>1, <1>2, <1>3

LEMMA CollectedFacts ==
  ASSUME Types
  PROVE  Range(collected) \subseteq Entry /\ IsFiniteSet(Range(collected))
<1>1. Range(collected) \subseteq Entry
  BY RangeOfSeq DEF Types
<1>2. IsFiniteSet(Entry)
  <2>1. 0 \in Int /\ MaxInputs - 1 \in Int
    BY EntryFacts
  <2>2. IsFiniteSet(0 .. MaxInputs - 1)
    BY <2>1, FS_Interval
  <2> QED BY <2>2, EntryFacts
<1> QED BY <1>1, <1>2, FS_Subset

LEMMA ToldInit == Init => Told /\ SubmittedMeansCollected
<1> SUFFICES ASSUME Init PROVE Told /\ SubmittedMeansCollected
  OBVIOUS
<1>1. /\ collected = <<>> /\ prevEntry["ooni"] = None
      /\ \A c \in Chain : chain[c] = "unborn"
      /\ \A i \in Entry : submission[i] = "none"
  BY DEF Init, ReportInit, Kind
<1>2. Range(collected) = {} /\ Len(collected) = 0 /\ Cardinality({}) = 0
  BY <1>1, EmptySeq, RangeEquality, FS_EmptySet DEF Range
<1> QED BY <1>1, <1>2 DEF Told, SubmittedMeansCollected, InProgress

\* What Told says of one chain.
ToldOf(c) ==
  /\ chain[c] = "writing" /\ HasAnswer(c) /\ ~call[c].par.failed =>
       entry[c] \in Range(collected)
  /\ InProgress(c) /\ entry[c] \in Range(collected) =>
       chain[c] = "writing" /\ HasAnswer(c)

\* A step that collects nothing, and does not go back in the inputs.
LEMMA ToldKept ==
  ASSUME Told, UNCHANGED <<reporters, collected>>,
         prevEntry'["ooni"] = prevEntry["ooni"],
         \A e \in Range(collected) : e < currentEntry => e < currentEntry',
         NEW c \in Client,
         \A d \in Chain \ {c} : /\ chain'[d] = chain[d] /\ entry'[d] = entry[d]
                                /\ call'[d] = call[d],
         c \in Chain => ToldOf(c)'
  PROVE  Told'
<1>1. ASSUME NEW d \in Chain PROVE ToldOf(d)'
  <2>1. CASE d = c
    BY <2>1
  <2>2. CASE d # c
    <3>1. chain'[d] = chain[d] /\ entry'[d] = entry[d] /\ call'[d] = call[d]
      BY <2>2
    <3>2. ToldOf(d)
      BY DEF Told, ToldOf
    <3> QED BY <3>1, <3>2 DEF ToldOf, HasAnswer, Collects, InProgress
  <2> QED BY <2>1, <2>2
<1> QED BY <1>1 DEF Told, ToldOf

\* The end of begin() changes no operation of a chain.
LEMMA ChainCallsKept ==
  ASSUME Types, NEW failed, \/ BeginReturns(call, failed)
                            \/ BeginReturns(Answered(call, Main), failed)
  PROVE  \A c \in Chain : call'[c] = call[c]
<1>1. PICK calls \in {call, Answered(call, Main)} : BeginReturns(calls, failed)
  OBVIOUS
<1>2. /\ calls \in [Client -> Operation]
      /\ \A c \in Client \ {Main} : calls[c] = call[c]
  <2>1. Main \in Client /\ call \in [Client -> Operation]
    BY EntryFacts DEF Types
  <2>2. CASE calls = Answered(call, Main)
    BY <2>1, <2>2, NoOperation
  <2> QED BY <1>1, <2>1, <2>2
<1> QED BY <1>1, <1>2, BeginReturnsType DEF Chain

\* The answers of the reporters.
LEMMA ToldReport ==
  ASSUME Types, Numbered, Reporters, Calls, Told, SubmittedMeansCollected, ReportStep
  PROVE  Told' /\ SubmittedMeansCollected'
<1>1. PICK c \in Client : AtOnce(c) \/ CollectorReplies(c)
  BY DEF ReportStep
<1>2. UNCHANGED <<reporters, currentEntry, chain, entry, submission>>
  BY ReportKeeps
<1>3. /\ OperationOK(call[c]) /\ call[c] \in Operation /\ call \in [Client -> Operation]
      /\ call[c].next \in Nat /\ call[c].next + 1 \in Nat /\ Len(reporters) \in Nat
      /\ \A d \in Client \ {c} : call'[d] = call[d]
  BY <1>1, LenProperties, ReportOperation DEF Calls, Types, Operation
<1>4. Collects' = Collects
  BY <1>2 DEF Collects
<1>5. CASE AnsweredAtOnce(c)
  <2> DEFINE k == reporters[call[c].next]
             yes == DoneAlready(k, call[c].op, call[c].entry)
  <2>1. /\ Starting(c) /\ Answer(c, call[c].next + 1, ~yes)
        /\ UNCHANGED <<collected, prevEntry>>
    BY <1>5 DEF AnsweredAtOnce, store
  <2>2. /\ call'[c].next = call[c].next + 1 /\ ~call'[c].waiting
        /\ ~call'[c].par.failed => yes
    <3>1. PICK failed \in BOOLEAN :
            Answer(c, call[c].next + 1, failed) /\ (failed <=> ~yes)
      BY <2>1 DEF DoneAlready
    <3> HIDE DEF yes
    <3>2. /\ call'[c].next = call[c].next + 1 /\ ~call'[c].waiting
          /\ call'[c].par.failed = (call[c].par.failed \/ failed)
      BY <1>3, <3>1, AnswerEffect
    <3> QED BY <3>1, <3>2
  <2>3. ASSUME c \in Chain PROVE ToldOf(c)'
    <3>1. ~HasAnswer(c)
      BY <1>3, <2>1 DEF HasAnswer, Starting
    <3>2. ~(InProgress(c) /\ entry[c] \in Range(collected))
      BY <2>3, <3>1 DEF Told
    <3>3. ASSUME chain[c] = "writing", HasAnswer(c)', ~call'[c].par.failed
          PROVE  entry[c] \in Range(collected)
      <4>1. k = "ooni"
        BY <1>2, <1>3, <1>4, <2>2, <3>3 DEF HasAnswer, Collects
      <4>2. yes /\ call[c].op = "write" /\ call[c].entry = entry[c]
        BY <2>2, <2>3, <3>3 DEF Calls, OwnOperation
      <4>3. prevEntry["ooni"] = entry[c]
        BY <4>1, <4>2 DEF DoneAlready
      <4>4. entry[c] # None
        BY <2>3, <3>3 DEF Numbered, InProgress
      <4> QED BY <4>3, <4>4 DEF Told
    <3> QED BY <1>2, <2>1, <3>2, <3>3 DEF ToldOf, InProgress
  <2>4. Told'
    BY <1>2, <1>3, <2>1, <2>3, ToldKept, EntryFacts DEF Chain
  <2> QED BY <1>2, <2>1, <2>4 DEF SubmittedMeansCollected
<1>6. CASE FileWorks(c) \/ CollectorAsked(c)
  <2>1. /\ Starting(c) /\ UNCHANGED collected
        /\ prevEntry'["ooni"] = prevEntry["ooni"]
    BY <1>6 DEF FileWorks, CollectorAsked, Permitted, store, Remember, Types, Kind
  <2>2. ~HasAnswer(c)'
    <3>1. CASE FileWorks(c)
      <4>1. /\ reporters[call[c].next] = "file"
            /\ \E failed \in BOOLEAN : Answer(c, call[c].next + 1, failed)
        BY <3>1 DEF FileWorks, Permitted
      <4>2. call'[c].next = call[c].next + 1
        BY <1>3, <4>1, AnswerEffect
      <4> QED BY <1>2, <1>3, <1>4, <4>1, <4>2 DEF HasAnswer, Collects
    <3>2. CASE CollectorAsked(c)
      BY <1>3, <3>2, AskedEffect DEF HasAnswer
    <3> QED BY <1>6, <3>1, <3>2
  <2>3. ASSUME c \in Chain PROVE ToldOf(c)'
    <3>1. ~HasAnswer(c)
      BY <1>3, <2>1 DEF HasAnswer, Starting
    <3>2. ~(InProgress(c) /\ entry[c] \in Range(collected))
      BY <2>3, <3>1 DEF Told
    <3> QED BY <1>2, <2>1, <2>2, <3>2 DEF ToldOf, InProgress
  <2>4. Told'
    BY <1>2, <1>3, <2>1, <2>3, ToldKept, EntryFacts DEF Chain
  <2> QED BY <1>2, <2>1, <2>4 DEF SubmittedMeansCollected
<1>7. CASE CollectorReplies(c)
  <2>1. PICK failed \in BOOLEAN :
          /\ collected' = IF call[c].op = "write" /\ ~failed
                            THEN Append(collected, call[c].entry) ELSE collected
          /\ Answer(c, call[c].next, failed)
          /\ Remember("ooni", call[c].op, call[c].entry, failed)
    BY <1>7 DEF CollectorReplies
  <2>2. call[c].waiting /\ NoCall.waiting = FALSE
    BY <1>7 DEF CollectorReplies, NoCall
  <2>3. call[c].op # "none" /\ call[c].next = Len(reporters) + 1 /\ Collects
    BY <1>3, <2>2 DEF OperationOK
  <2>4. /\ call'[c].next = call[c].next /\ ~call'[c].waiting
        /\ call'[c].par.failed = (call[c].par.failed \/ failed)
    BY <1>3, <2>1, AnswerEffect
  <2>5. /\ HasAnswer(c)' /\ ~HasAnswer(c)
    BY <1>2, <1>4, <2>2, <2>3, <2>4 DEF HasAnswer
  <2>6. prevEntry'["ooni"] = IF call[c].op = "write" /\ ~failed THEN call[c].entry
                                                              ELSE prevEntry["ooni"]
    BY <2>1 DEF Remember, Types, Kind
  <2>7. CASE call[c].op = "write" /\ ~failed
    <3>1. /\ c \in Chain /\ chain[c] = "writing" /\ entry[c] \in Entry
          /\ call[c].entry = entry[c]
      BY <2>7, WriterHasEntry
    <3>2. entry[c] \notin Range(collected)
      BY <2>5, <3>1 DEF Told, InProgress
    <3>3. /\ Range(collected') = Range(collected) \cup {entry[c]}
          /\ Len(collected') = Len(collected) + 1
      BY <2>1, <2>7, <3>1, RangeAppend, AppendProperties DEF Types
    <3>4. Len(collected') = Cardinality(Range(collected'))
      BY <3>2, <3>3, CollectedFacts, FS_AddElement DEF SubmittedMeansCollected
    <3>5. SubmittedMeansCollected'
      BY <1>2, <3>3, <3>4 DEF SubmittedMeansCollected
    <3>6. ASSUME NEW d \in Chain PROVE ToldOf(d)'
      <4>1. CASE d = c
        BY <1>2, <2>5, <3>1, <3>3, <4>1 DEF ToldOf
      <4>2. CASE d # c
        <5>1. InProgress(d) => entry[d] # entry[c]
          BY <3>1, <4>2 DEF Numbered
        <5>2. call'[d] = call[d] /\ ToldOf(d)
          BY <1>3, <4>2, EntryFacts DEF Told, ToldOf
        <5> QED BY <1>2, <1>4, <3>3, <5>1, <5>2 DEF ToldOf, HasAnswer, InProgress
      <4> QED BY <4>1, <4>2
    <3>7. entry[c] < currentEntry
      BY <3>1 DEF Numbered, InProgress
    <3>8. prevEntry'["ooni"] \in Range(collected')
      BY <2>6, <2>7, <3>1, <3>3
    <3> QED BY <1>2, <3>3, <3>5, <3>6, <3>7, <3>8 DEF Told, ToldOf
  <2>8. CASE ~(call[c].op = "write" /\ ~failed)
    <3>1. UNCHANGED collected /\ prevEntry'["ooni"] = prevEntry["ooni"]
      BY <2>1, <2>6, <2>8
    <3>2. ASSUME c \in Chain PROVE ToldOf(c)'
      <4>1. call[c].op = "write" /\ failed
        BY <2>3, <2>8, <3>2 DEF Calls, OwnOperation
      <4>2. ~(InProgress(c) /\ entry[c] \in Range(collected))
        BY <2>5, <3>2 DEF Told
      <4> QED BY <1>2, <2>4, <3>1, <4>1, <4>2 DEF ToldOf, InProgress
    <3>3. Told'
      BY <1>2, <1>3, <3>1, <3>2, ToldKept, EntryFacts DEF Chain
    <3> QED BY <1>2, <3>1, <3>3 DEF SubmittedMeansCollected
  <2> QED BY <2>7, <2>8
<1> QED BY <1>1, <1>5, <1>6, <1>7 DEF AtOnce

LEMMA ToldNext ==
  Types /\ Numbered /\ Stages /\ Reporters /\ Calls /\ Told /\ [Next]_vars
  /\ SubmittedMeansCollected => Told'
<1> SUFFICES ASSUME Types, Numbered, Stages, Reporters, Calls, Told, [Next]_vars,
                    SubmittedMeansCollected
             PROVE  Told'
  OBVIOUS
<1>1. ASSUME UNCHANGED <<reporters, collected, prevEntry, currentEntry, chain, entry>>,
             \A c \in Chain : call'[c] = call[c]
      PROVE  Told'
  <2>1. Main \in Client /\ Main \notin Chain
    BY EntryFacts
  <2> QED BY <1>1, <2>1, ToldKept
<1>2. CASE Validate \/ Begin \/ InterruptedEarly \/ EmitEnd \/ Throw \/ TimePasses
           \/ UNCHANGED vars
  BY <1>1, <1>2 DEF Validate, Begin, InterruptedEarly, EmitEnd, Throw, TimePasses,
       vars, runVars, reportVars, store
<1>3. CASE BeginFails
  <2>1. UNCHANGED <<reporters, collected, prevEntry, currentEntry, chain, entry>>
    BY <1>3, BeginFailsEffect DEF runVars, store
  <2>2. \A c \in Chain : call'[c] = call[c]
    BY <1>3, BeginFailsEffect, ChainCallsKept
  <2> QED BY <1>1, <2>1, <2>2
<1>4. CASE ResolverReplies
  <2>1. stage = "resolver" /\ UNCHANGED <<collected, prevEntry, currentEntry, chain>>
    BY <1>4 DEF ResolverReplies, runVars, store
  <2>2. \A c \in Chain : chain[c] = "unborn"
    BY <2>1 DEF Stages, Before
  <2> QED BY <2>1, <2>2 DEF Told, InProgress
<1>5. CASE LoadInputs \/ EndReturns
  <2>1. UNCHANGED <<reporters, collected, prevEntry, currentEntry, chain, entry>>
    BY <1>5 DEF LoadInputs, EndReturns, runVars, store
  <2>2. \A c \in Chain : call'[c] = call[c]
    <3>1. CASE call' = Answered(call, Main)
      BY <3>1, EntryFacts, NoOperation DEF Types, Chain
    <3> QED BY <1>5, <3>1, ChainCallsKept DEF LoadInputs, EndReturns
  <2> QED BY <1>1, <2>1, <2>2
<1>6. ASSUME NEW c \in Chain, ~InProgress(c)',
             UNCHANGED <<reporters, collected, prevEntry, currentEntry>>,
             \A d \in Chain \ {c} : /\ chain'[d] = chain[d] /\ entry'[d] = entry[d]
                                    /\ call'[d] = call[d]
      PROVE  Told'
  <2>1. ToldOf(c)'
    BY <1>6 DEF ToldOf, InProgress
  <2> QED BY <1>6, <2>1, ToldKept DEF Chain
<1>7. CASE StartChain \/ \E c \in Chain : Resume(c)
  <2>1. PICK c \in Chain : RunNext(c)
    BY <1>7, RunNextEffect
  <2>2. UNCHANGED <<reporters, collected, prevEntry>>
    BY <2>1 DEF RunNext, store
  <2>3. CASE MustStop
    <3>1. ChainEnds(call, c, FALSE) /\ UNCHANGED <<entry, currentEntry>>
      BY <2>1, <2>3 DEF RunNext
    <3>2. chain' = [chain EXCEPT ![c] = "finished"] /\ \A d \in Chain : call'[d] = call[d]
      BY <3>1, ChainEndsType DEF Types, Chain
    <3> QED BY <1>6, <2>2, <3>1, <3>2 DEF InProgress, Types
  <2>4. CASE ~MustStop
    <3>1. /\ chain' = [chain EXCEPT ![c] = "main"] /\ UNCHANGED call
          /\ entry' = [entry EXCEPT ![c] = currentEntry]
          /\ currentEntry' = currentEntry + 1
      BY <2>1, <2>4 DEF RunNext, TakeInput, Become
    <3>2. \A d \in Chain \ {c} : chain'[d] = chain[d] /\ entry'[d] = entry[d]
      BY <3>1 DEF Types
    <3>3. chain'[c] = "main" /\ entry'[c] = currentEntry
      BY <3>1 DEF Types
    <3>4. currentEntry \notin Range(collected)
      BY DEF Told, Types
    <3>5. ToldOf(c)'
      BY <2>2, <3>3, <3>4 DEF ToldOf
    <3>6. \A e \in Range(collected) : e < currentEntry => e < currentEntry'
      BY <3>1, CollectedFacts, EntryFacts DEF Types
    <3> QED BY <2>2, <3>1, <3>2, <3>5, <3>6, ToldKept DEF Chain
  <2> QED BY <2>3, <2>4
<1>8. ASSUME NEW c \in Chain, MainReturns(c)
      PROVE  Told'
  <2>1. /\ chain[c] = "main" /\ chain' = [chain EXCEPT ![c] = "writing"]
        /\ UNCHANGED <<reporters, collected, prevEntry, currentEntry, entry>>
        /\ call' = Calling(call, c, "write", entry[c], reporters)
    BY <1>8 DEF MainReturns, Become, store
  <2>2. call'[c].next = 1 /\ \A d \in Client \ {c} : call'[d] = call[d]
    <3>1. entry[c] \in MaybeEntry /\ reporters \in Seq(Kind) /\ c \in Client
          /\ call \in [Client -> Operation]
      BY EntryFacts DEF Types
    <3> QED BY <2>1, <3>1, NewOperation
  <2>3. ~HasAnswer(c)'
    BY <2>1, <2>2, LenProperties DEF HasAnswer, Collects, Types
  <2>4. entry[c] \notin Range(collected)
    BY <2>1 DEF Told, InProgress
  <2>5. ToldOf(c)'
    BY <2>1, <2>3, <2>4 DEF ToldOf
  <2>6. \A d \in Chain \ {c} : /\ chain'[d] = chain[d] /\ entry'[d] = entry[d]
                               /\ call'[d] = call[d]
    BY <2>1, <2>2 DEF Types, Chain
  <2> QED BY <2>1, <2>5, <2>6, ToldKept DEF Chain
<1>9. ASSUME NEW c \in Chain, WriteSucceeds(c) \/ WriteFails(c)
      PROVE  Told'
  <2> DEFINE calls == Answered(call, c)
  <2>1. /\ calls \in [Client -> Operation]
        /\ \A d \in Client \ {c} : calls[d] = call[d]
    BY EntryFacts, NoOperation DEF Types
  <2>2. /\ UNCHANGED <<reporters, collected, prevEntry, currentEntry>>
        /\ Reschedule(calls, c) \/ ChainEnds(calls, c, TRUE)
        /\ entry' = [entry EXCEPT ![c] = None]
    BY <1>9 DEF WriteSucceeds, WriteFails, GoOn, MeasurementDone, store
  <2> HIDE DEF calls
  <2>3. \A d \in Chain \ {c} : call'[d] = call[d]
    BY <2>1, <2>2, ChainEndsType DEF Reschedule, Chain
  <2>4. /\ chain'[c] \in {"scheduled", "finished"}
        /\ \A d \in Chain \ {c} : chain'[d] = chain[d] /\ entry'[d] = entry[d]
    BY <2>2 DEF ChainEnds, Reschedule, Become, Types
  <2> QED BY <1>6, <2>2, <2>3, <2>4 DEF InProgress
<1>10. CASE ReportStep
  BY <1>10, ToldReport
<1> QED BY <1>2, <1>3, <1>4, <1>5, <1>7, <1>8, <1>9, <1>10, NextCases

LEMMA SubmittedNext ==
  Types /\ Numbered /\ Stages /\ Reporters /\ Calls /\ Told /\ [Next]_vars
  /\ SubmittedMeansCollected => SubmittedMeansCollected'
<1> SUFFICES ASSUME Types, Numbered, Stages, Reporters, Calls, Told, [Next]_vars,
                    SubmittedMeansCollected
             PROVE  SubmittedMeansCollected'
  OBVIOUS
<1>1. CASE UNCHANGED <<collected, submission>>
  BY <1>1 DEF SubmittedMeansCollected
<1>2. CASE \/ Validate \/ Begin \/ InterruptedEarly \/ BeginFails \/ ResolverReplies
           \/ LoadInputs \/ EndReturns \/ EmitEnd \/ Throw \/ TimePasses
           \/ UNCHANGED vars
  BY <1>1, <1>2, BeginFailsEffect
     DEF Validate, Begin, InterruptedEarly, ResolverReplies, LoadInputs, EndReturns,
         EmitEnd, Throw, TimePasses, vars, reportVars, store
<1>3. CASE StartChain \/ \E c \in Chain : Resume(c)
  BY <1>1, <1>3, RunNextEffect DEF RunNext, store
<1>4. ASSUME NEW c \in Chain, MainReturns(c)
      PROVE  SubmittedMeansCollected'
  BY <1>1, <1>4 DEF MainReturns, store
<1>5. ASSUME NEW c \in Chain, WriteFails(c)
      PROVE  SubmittedMeansCollected'
  <2>1. UNCHANGED collected /\ EmitSubmission(c, "failure")
    BY <1>5 DEF WriteFails, store
  <2> QED BY <2>1 DEF EmitSubmission, SubmittedMeansCollected, Types
<1>6. ASSUME NEW c \in Chain, WriteSucceeds(c), stage # "thrown"
      PROVE  SubmittedMeansCollected'
  <2>1. /\ UNCHANGED collected /\ EmitSubmission(c, "status")
        /\ chain[c] = "writing" /\ Completed(c) /\ ~call[c].par.failed
    BY <1>6 DEF WriteSucceeds, EntryWritten, store
  <2>2. CASE ~options.no_collector
    <3>1. stage = "measuring"
      BY <1>6, <2>1 DEF Types, Stage, Stages
    <3>2. Collects
      BY <2>2, <3>1 DEF Reporters
    <3>3. HasAnswer(c)
      <4>1. /\ OperationOK(call[c]) /\ call[c].op = "write" /\ c \in Client
            /\ call[c].next \in Nat /\ Len(reporters) \in Nat
        BY <2>1, EntryFacts, LenProperties DEF Calls, OwnOperation, Types, Operation
      <4>2. /\ call[c].next \in 1 .. Len(reporters) + 1
            /\ call[c].par.size = Len(reporters)
            /\ call[c].par.completed = call[c].next - 1 - (IF call[c].waiting THEN 1 ELSE 0)
        BY <4>1 DEF OperationOK
      <4>3. call[c].par.completed = Len(reporters)
        BY <2>1, <4>2 DEF Completed, AllDone
      <4> QED BY <3>2, <4>1, <4>2, <4>3 DEF HasAnswer
    <3>4. entry[c] \in Range(collected)
      BY <2>1, <3>3 DEF Told
    <3> QED BY <2>1, <3>4 DEF EmitSubmission, SubmittedMeansCollected, Types
  <2>3. CASE options.no_collector
    BY <1>1, <2>1, <2>3 DEF EmitSubmission
  <2> QED BY <2>2, <2>3
<1>7. CASE ReportStep
  BY <1>7, ToldReport
<1> QED BY <1>2, <1>3, <1>4, <1>5, <1>6, <1>7, NextCases

-----------------------------------------------------------------------------
(* How a nettest ends.                                                     *)

LEMMA CompleteInit == Init => ErrorSet /\ CompleteUnlessStopped
BY DEF Init, ErrorSet, CompleteUnlessStopped, Before

LEMMA CompleteNext ==
  Types /\ Stages /\ ErrorSet /\ CompleteUnlessStopped /\ [Next]_vars
    => ErrorSet' /\ CompleteUnlessStopped'
<1> SUFFICES ASSUME Types, Stages, ErrorSet, CompleteUnlessStopped, [Next]_vars
             PROVE  ErrorSet' /\ CompleteUnlessStopped'
  OBVIOUS
<1>1. ASSUME UNCHANGED <<stage, error, inputs, beginFailed, options>>,
             expired => expired'
      PROVE  ErrorSet' /\ CompleteUnlessStopped'
  BY <1>1 DEF ErrorSet, CompleteUnlessStopped
<1>2. CASE TimePasses \/ ReportStep \/ UNCHANGED vars
  BY <1>1, <1>2, ReportKeeps DEF TimePasses, vars, runVars, config
<1>3. CASE Validate \/ Begin \/ InterruptedEarly \/ ResolverReplies \/ Throw
  <2>1. /\ UNCHANGED error /\ stage \in Before \cup {"measuring", "thrown"}
        /\ stage' \in Before \cup {"over", "thrown"}
        /\ stage \in {"measuring", "thrown"} => stage' = "thrown"
    BY <1>3 DEF Validate, Begin, InterruptedEarly, ResolverReplies, Throw, Goto, Before,
                ReportOpened, InputsLoaded, MayGoOn, EntryNotWritten, Stages, Types,
                Stage, After
  <2> QED BY <2>1 DEF ErrorSet, CompleteUnlessStopped, Before
<1>4. CASE EmitEnd
  BY <1>4 DEF EmitEnd, ErrorSet, CompleteUnlessStopped, Before, config, runVars
<1>5. CASE EndReturns
  BY <1>5 DEF EndReturns, ErrorSet, CompleteUnlessStopped, Before, config, runVars
\* begin() calls back with an error, or has no reason to go on.
<1>6. ASSUME NEW calls, NEW failed, BeginReturns(calls, failed),
             failed \/ inputs' = <<>> \/ expired' \/ options'.parallelism = 0
      PROVE  ErrorSet' /\ CompleteUnlessStopped'
  BY <1>6 DEF BeginReturns, ErrorSet, CompleteUnlessStopped, Before
<1>7. CASE BeginFails
  <2>1. CASE stage = "bouncer" /\ stage' = "resolver" /\ UNCHANGED error
    BY <2>1 DEF ErrorSet, CompleteUnlessStopped, Before
  <2>2. CASE \E calls \in {call, Answered(call, Main)} : BeginReturns(calls, TRUE)
    BY <1>6, <2>2
  <2> QED BY <1>7, <2>1, <2>2, BeginFailsEffect
<1>8. CASE LoadInputs
  <2>1. CASE AllDone(par')
    <3>1. options'.parallelism = 0
      BY <1>8, <2>1 DEF LoadInputs, AllDone, ParallelCall, config
    <3>2. BeginReturns(Answered(call, Main), FALSE)
      BY <1>8, <2>1 DEF LoadInputs
    <3> QED BY <1>6, <3>1, <3>2
  <2>2. CASE ~AllDone(par')
    BY <1>8, <2>2 DEF LoadInputs, Goto, ErrorSet, CompleteUnlessStopped, Before
  <2> QED BY <2>1, <2>2
\* A chain ends: the last one, maybe.
<1>9. ASSUME stage = "measuring", NEW calls, NEW c, NEW failed \in BOOLEAN,
             ChainEnds(calls, c, failed), failed \/ inputs' = <<>> \/ expired'
      PROVE  ErrorSet' /\ CompleteUnlessStopped'
  <2>1. failed => par'.failed
    BY <1>9, OneDoneType DEF ChainEnds, Types
  <2>2. CASE AllDone(par')
    <3>1. BeginReturns(calls, par'.failed)
      BY <1>9, <2>2 DEF ChainEnds
    <3> QED BY <1>6, <1>9, <2>1, <3>1
  <2>3. CASE ~AllDone(par')
    BY <1>9, <2>3 DEF ChainEnds, ErrorSet, CompleteUnlessStopped, Before
  <2> QED BY <2>2, <2>3
<1>10. ASSUME stage = "measuring", UNCHANGED stage
       PROVE  ErrorSet' /\ CompleteUnlessStopped'
  BY <1>10 DEF ErrorSet, CompleteUnlessStopped, Before
<1>11. ASSUME NEW c \in Chain, chain[c] \in {"main", "writing", "scheduled"},
              stage # "thrown"
       PROVE  stage = "measuring"
  BY <1>11 DEF Stages, Types, Stage
<1>12. CASE StartChain \/ (stage # "thrown" /\ \E c \in Chain : Resume(c))
  <2>1. PICK c \in Chain : RunNext(c) /\ (stage = "measuring" \/ chain[c] = "scheduled")
    BY <1>12, RunNextEffect
  <2>2. stage = "measuring"
    BY <1>11, <1>12, <2>1 DEF StartChain
  <2>3. CASE MustStop
    <3>1. ChainEnds(call, c, FALSE) /\ (inputs' = <<>> \/ expired')
      BY <2>1, <2>3 DEF RunNext, MustStop
    <3> QED BY <1>9, <2>2, <3>1
  <2>4. CASE ~MustStop
    BY <1>10, <2>1, <2>2, <2>4 DEF RunNext, TakeInput
  <2> QED BY <2>3, <2>4
<1>13. ASSUME NEW c \in Chain, stage # "thrown",
              MainReturns(c) \/ WriteSucceeds(c) \/ WriteFails(c)
       PROVE  ErrorSet' /\ CompleteUnlessStopped'
  <2>1. stage = "measuring"
    BY <1>11, <1>13 DEF MainReturns, WriteSucceeds, WriteFails, EntryWritten,
                        EntryNotWritten
  <2>2. UNCHANGED stage \/ ChainEnds(Answered(call, c), c, TRUE)
    BY <1>13 DEF MainReturns, WriteSucceeds, WriteFails, GoOn, Reschedule
  <2> QED BY <1>9, <1>10, <2>1, <2>2
<1> QED BY <1>2, <1>3, <1>4, <1>5, <1>7, <1>8, <1>12, <1>13, NextCases

-----------------------------------------------------------------------------
(* The theorems.                                                           *)

THEOREM NettestInvariant == Spec => []IInv
<1>1. Init => IInv
  BY TypesInit, NumberedInit, StagesInit, ReportersInit, CallsInit, ToldInit,
     CompleteInit DEF IInv
<1>2. IInv /\ [Next]_vars => IInv'
  BY TypesNext, NumberedNext, StagesNext, ReportersNext, CallsNext, ToldNext,
     SubmittedNext, CompleteNext DEF IInv
<1> QED BY <1>1, <1>2, PTL DEF Spec

\* "status.measurement_submission" says the truth about every entry, and the
\* collector gets no entry twice, for any settings, inputs and number of chains.
THEOREM SubmissionsAreCollected == Spec => []SubmittedMeansCollected
<1>1. IInv => SubmittedMeansCollected
  BY DEF IInv
<1> QED BY <1>1, NettestInvariant, PTL

\* A nettest that stops before the last input had a reason to.
THEOREM NettestCompletes == Spec => []CompleteUnlessStopped
<1>1. IInv => CompleteUnlessStopped
  BY DEF IInv
<1> QED BY <1>1, NettestInvariant, PTL

-----------------------------------------------------------------------------
(* What the nettest promises to whoever reads the measurements.            *)

LEMMA CampaignBegins == Init => Camp!CampaignInit
<1> SUFFICES ASSUME Init PROVE Camp!CampaignInit
  OBVIOUS
<1>1. options.parallelism \in Nat
  BY TypesInit DEF Types
<1>2. inputs = <<>> /\ done = {} /\ stage = "validating" /\ InFlight = {}
  BY DEF Init, InFlight
<1> QED BY <1>1, <1>2 DEF Camp!CampaignInit

\* What is seen of a step that leaves the chains in progress where they are.
LEMMA InFlightKept ==
  ASSUME Types, UNCHANGED entry, \A c \in Chain : InProgress(c)' = InProgress(c)
  PROVE  InFlight' = InFlight
BY DEF InFlight, InProgress

LEMMA InFlightEmpty ==
  ASSUME \A c \in Chain : ~InProgress(c)
  PROVE  InFlight = {}
BY DEF InFlight, InProgress

\* A chain that takes an input is one of `parallelism`, and was not measuring.
LEMMA RoomForOne ==
  ASSUME Types, Stages, stage = "measuring", NEW c \in Chain, c \in 1 .. options.parallelism,
         ~InProgress(c)
  PROVE  Cardinality(InFlight) < options.parallelism
<1> DEFINE p == options.parallelism
           S == {d \in Chain : InProgress(d)}
           f == [d \in S |-> entry[d]]
<1>1. p \in Nat
  BY DEF Types
<1>2. S \subseteq (1 .. p) \ {c}
  <2>1. ASSUME NEW d \in S PROVE d \in 1 .. p /\ d # c
    <3>1. d \in Chain /\ d # c /\ chain[d] # "unborn"
      BY <2>1 DEF InProgress
    <3>2. d \in 1 .. toStart - 1 /\ toStart <= p + 1 /\ toStart \in Nat
      BY <3>1 DEF Stages, Born, Types
    <3> QED BY <1>1, <3>1, <3>2
  <2> QED BY <2>1
<1>3. /\ IsFiniteSet((1 .. p) \ {c}) /\ Cardinality((1 .. p) \ {c}) = p - 1
  <2> HIDE DEF p
  <2>1. 1 \in Int /\ p \in Int
    BY <1>1
  <2>2. IsFiniteSet(1 .. p) /\ Cardinality(1 .. p) = IF 1 > p THEN 0 ELSE p - 1 + 1
    BY <2>1, FS_Interval
  <2>3. c \in 1 .. p
    BY DEF p
  <2>4. /\ IsFiniteSet((1 .. p) \ {c})
        /\ Cardinality((1 .. p) \ {c}) = Cardinality(1 .. p) - 1
    BY <2>2, <2>3, FS_RemoveElement
  <2>5. Cardinality(1 .. p) = p
    BY <1>1, <2>2
  <2> QED BY <2>4, <2>5
<1>4. IsFiniteSet(S) /\ Cardinality(S) <= p - 1
  <2> DEFINE rest == (1 .. p) \ {c}
  <2>1. S \in SUBSET rest /\ IsFiniteSet(rest) /\ Cardinality(rest) = p - 1
    BY <1>2, <1>3
  <2> HIDE DEF p, S, rest
  <2>2. IsFiniteSet(S) /\ Cardinality(S) <= Cardinality(rest)
    BY <2>1, FS_Subset
  <2> QED BY <2>1, <2>2
<1>5. f \in Surjection(S, InFlight)
  BY DEF Surjection, InFlight, InProgress
<1>6. IsFiniteSet(InFlight) /\ Cardinality(InFlight) <= Cardinality(S)
  <2> HIDE DEF S, f
  <2> QED BY <1>4, <1>5, FS_Surjection
<1>7. Cardinality(InFlight) \in Nat /\ Cardinality(S) \in Nat
  <2> HIDE DEF S
  <2> QED BY <1>4, <1>6, FS_CardinalityType
<1> QED BY <1>1, <1>4, <1>6, <1>7

LEMMA SameCardinality ==
  ASSUME NEW S
  PROVE  Camp!Cardinality(S) = Cardinality(S)
BY DEF Camp!Cardinality, Cardinality

LEMMA CampaignGoesOn ==
  ASSUME IInv, IInv', [Next]_vars
  PROVE  [Camp!CampaignNext]_Camp!campaignVars
<1> USE DEF IInv
<1> DEFINE over == stage \in {"closing", "over", "ended"}
           limit == options.parallelism
<1>1. ASSUME UNCHANGED <<inputs, done, options, entry>>, over' = over,
             \A c \in Chain : InProgress(c)' = InProgress(c)
      PROVE  UNCHANGED Camp!campaignVars
  BY <1>1, InFlightKept DEF Camp!campaignVars
<1>2. CASE \/ Begin \/ ResolverReplies \/ EndReturns \/ EmitEnd \/ Throw \/ TimePasses
           \/ ReportStep \/ UNCHANGED vars
  <2>1. UNCHANGED <<inputs, done, options, entry, chain>>
    BY <1>2, ReportKeeps
       DEF Begin, ResolverReplies, EndReturns, EmitEnd, Throw, TimePasses, vars,
           runVars, config
  <2>2. over' = over
    <3>1. CASE Throw
      <4>1. stage' = "thrown" /\ stage \notin After
        BY <3>1 DEF Throw, Goto, ReportOpened, InputsLoaded, MayGoOn, EntryNotWritten,
                    Stages, After
      <4> QED BY <4>1 DEF After
    <3>2. CASE Begin \/ ResolverReplies
      BY <3>2 DEF Begin, ResolverReplies, Goto
    <3>3. CASE EndReturns \/ EmitEnd
      BY <3>3 DEF EndReturns, EmitEnd
    <3>4. CASE TimePasses \/ ReportStep \/ UNCHANGED vars
      BY <3>4, ReportKeeps DEF TimePasses, vars
    <3> QED BY <1>2, <3>1, <3>2, <3>3, <3>4
  <2> QED BY <1>1, <2>1, <2>2 DEF InProgress
<1>3. ASSUME stage \in Before
      PROVE  inputs = <<>> /\ InFlight = {} /\ done = {} /\ ~over
  BY <1>3, InFlightEmpty DEF Stages, Before, InProgress
<1>4. ASSUME UNCHANGED <<entry, chain>>
      PROVE  InFlight' = InFlight
  BY <1>4 DEF InFlight
<1>5. CASE Validate
  <2>1. /\ stage \in Before /\ UNCHANGED <<inputs, done>>
        /\ InFlight' = InFlight /\ ~over' /\ limit' \in Nat
    BY <1>4, <1>5 DEF Validate, Before, runVars, Types
  <2>2. Camp!Configure
    BY <1>3, <2>1 DEF Camp!Configure
  <2> QED BY <2>2 DEF Camp!CampaignNext
<1>6. CASE InterruptedEarly \/ (BeginFails /\ stage' # "resolver")
  <2>1. /\ stage \in Before /\ UNCHANGED <<inputs, done, options>>
        /\ InFlight' = InFlight /\ over'
    BY <1>4, <1>6, BeginFailsEffect
       DEF InterruptedEarly, Goto, BeginReturns, Before, runVars, config
  <2>2. Camp!End
    BY <1>3, <2>1 DEF Camp!End
  <2> QED BY <2>2 DEF Camp!CampaignNext
<1>7. CASE BeginFails /\ stage' = "resolver"
  <2>1. /\ stage \in Before /\ UNCHANGED <<inputs, done, options, entry, chain>>
    BY <1>7, BeginFailsEffect DEF Before, runVars, config, BeginReturns
  <2>2. over' = over
    BY <1>7, <2>1 DEF Before
  <2> QED BY <1>1, <2>1, <2>2 DEF InProgress
<1>8. CASE LoadInputs
  <2>1. /\ stage \in Before /\ UNCHANGED <<done, options>> /\ InFlight' = InFlight
        /\ \E n \in 1 .. MaxInputs : inputs' = [i \in 1 .. n |-> i - 1]
    BY <1>4, <1>8, EntryFacts
       DEF LoadInputs, InputsLoaded, MayGoOn, ReportOpened, Before, config
  <2>2. over' = (limit = 0)
    BY <1>8 DEF LoadInputs, AllDone, ParallelCall, BeginReturns, Goto
  <2>3. Cardinality(Entry) = MaxInputs
    <3>1. 0 \in Int /\ MaxInputs - 1 \in Int
      BY EntryFacts
    <3>2. Cardinality(0 .. MaxInputs - 1)
            = IF 0 > MaxInputs - 1 THEN 0 ELSE (MaxInputs - 1) - 0 + 1
      BY <3>1, FS_Interval
    <3> QED BY <3>2, EntryFacts
  <2>4. Camp!Load
    <3>1. \E n \in 1 .. Cardinality(Entry) : inputs' = [i \in 1 .. n |-> i - 1]
      BY <2>1, <2>3
    <3>2. /\ inputs = <<>> /\ InFlight = {} /\ done = {} /\ ~over
          /\ UNCHANGED <<InFlight, done, options.parallelism>>
      BY <1>3, <2>1
    <3> QED BY <2>2, <3>1, <3>2, SameCardinality DEF Camp!Load
  <2> QED BY <2>4 DEF Camp!CampaignNext
<1>9. ASSUME NEW c \in Chain, chain[c] \in {"main", "writing", "scheduled"},
             stage # "thrown"
      PROVE  stage = "measuring" /\ c \in 1 .. options.parallelism
  BY <1>9 DEF Stages, Types, Stage, Born
<1>10. CASE StartChain \/ (stage # "thrown" /\ \E c \in Chain : Resume(c))
  <2>1. PICK c \in Chain :
          /\ RunNext(c)
          /\ \/ /\ stage = "measuring" /\ c = toStart /\ toStart' = toStart + 1
                /\ toStart <= options.parallelism
             \/ chain[c] = "scheduled" /\ UNCHANGED toStart
    BY <1>10, RunNextEffect
  <2>2. stage = "measuring" /\ c \in 1 .. options.parallelism
    <3>1. CASE stage = "measuring" /\ c = toStart /\ toStart <= options.parallelism
      BY <3>1 DEF Types
    <3>2. CASE chain[c] = "scheduled"
      BY <1>9, <1>10, <3>2 DEF StartChain
    <3> QED BY <2>1, <3>1, <3>2
  <2>3. ~InProgress(c)
    <3>1. CASE stage = "measuring" /\ c = toStart
      BY <3>1 DEF Stages, Born, Types, InProgress
    <3> QED BY <2>1, <3>1 DEF InProgress
  <2>4. UNCHANGED <<done, options>> /\ ~over
    BY <2>1, <2>2 DEF RunNext, config
  <2>5. CASE MustStop
    <3>1. ChainEnds(call, c, FALSE) /\ UNCHANGED <<inputs, entry>>
      BY <2>1, <2>5 DEF RunNext
    <3>2. \A d \in Chain : InProgress(d)' = InProgress(d)
      BY <2>3, <3>1 DEF ChainEnds, Become, InProgress, Types
    <3>3. CASE stage' = "closing"
      <4>1. \A d \in Chain : ~InProgress(d)
        BY <3>2, <3>3 DEF Stages, After, InProgress
      <4>2. InFlight = {} /\ InFlight' = {}
        BY <3>1, <3>2, <4>1, InFlightEmpty, InFlightKept
      <4>3. Camp!End
        BY <2>4, <3>1, <3>3, <4>2 DEF Camp!End
      <4> QED BY <4>3 DEF Camp!CampaignNext
    <3>4. CASE UNCHANGED stage
      BY <1>1, <2>4, <3>1, <3>2, <3>4
    <3> QED BY <3>1, <3>3, <3>4 DEF ChainEnds, BeginReturns
  <2>6. CASE ~MustStop
    <3>1. /\ inputs' = Tail(inputs) /\ UNCHANGED stage /\ inputs # <<>>
          /\ entry' = [entry EXCEPT ![c] = currentEntry]
          /\ chain' = [chain EXCEPT ![c] = "main"]
      BY <2>1, <2>6 DEF RunNext, TakeInput, Become, MustStop
    <3>2. Head(inputs) = currentEntry
      <4>1. Len(inputs) \in Nat \ {0} /\ Head(inputs) = inputs[1]
        BY <3>1, EmptySeq, HeadTailProperties DEF Types
      <4>2. 1 \in 1 .. Len(inputs) /\ currentEntry \in Nat
        BY <4>1 DEF Types
      <4>3. inputs[1] = currentEntry + 1 - 1
        BY <4>2 DEF Numbered
      <4> QED BY <4>1, <4>2, <4>3
    <3>3. InFlight' = InFlight \cup {currentEntry}
      <4>1. /\ chain'[c] = "main" /\ entry'[c] = currentEntry
            /\ \A d \in Chain \ {c} : chain'[d] = chain[d] /\ entry'[d] = entry[d]
        BY <3>1 DEF Types
      <4>2. chain[c] \notin {"main", "writing"}
        BY <2>3 DEF InProgress
      <4> QED BY <4>1, <4>2 DEF InFlight
    <3>4. Cardinality(InFlight) < options.parallelism
      BY <2>2, <2>3, RoomForOne
    <3>5. Camp!Begin
      <4>1. UNCHANGED <<done, over, options.parallelism>>
        BY <2>4, <3>1
      <4>2. ~over /\ inputs # <<>> /\ inputs' = Tail(inputs)
            /\ InFlight' = InFlight \cup {Head(inputs)}
        BY <2>4, <3>1, <3>2, <3>3
      <4> QED BY <3>4, <4>1, <4>2, SameCardinality DEF Camp!Begin
    <3> QED BY <3>5 DEF Camp!CampaignNext
  <2> QED BY <2>5, <2>6
<1>11. ASSUME NEW c \in Chain, MainReturns(c)
       PROVE  UNCHANGED Camp!campaignVars
  <2>1. /\ UNCHANGED <<inputs, done, options, entry, stage>>
        /\ chain[c] = "main" /\ chain' = [chain EXCEPT ![c] = "writing"]
    BY <1>11 DEF MainReturns, Become, config
  <2>2. \A d \in Chain : InProgress(d)' = InProgress(d)
    BY <2>1 DEF InProgress, Types
  <2> QED BY <1>1, <2>1, <2>2
<1>12. ASSUME NEW c \in Chain, stage # "thrown", WriteSucceeds(c) \/ WriteFails(c)
       PROVE  Camp!CampaignNext
  <2>1. /\ chain[c] = "writing" /\ UNCHANGED <<inputs, options>>
        /\ done' = done \cup {entry[c]} /\ entry' = [entry EXCEPT ![c] = None]
        /\ Reschedule(Answered(call, c), c) \/ ChainEnds(Answered(call, c), c, TRUE)
    BY <1>12 DEF WriteSucceeds, WriteFails, EntryWritten, EntryNotWritten, GoOn,
                 MeasurementDone, config
  <2>2. stage = "measuring" /\ ~over
    BY <1>9, <1>12, <2>1
  <2>3. entry[c] \in Entry /\ InProgress(c)
    BY <2>1 DEF Numbered, InProgress, Types, MaybeEntry
  <2>4. /\ chain'[c] \in {"scheduled", "finished"}
        /\ \A d \in Chain \ {c} : chain'[d] = chain[d] /\ entry'[d] = entry[d]
        /\ stage' \in {"measuring", "closing"}
    BY <2>1, <2>2 DEF Reschedule, ChainEnds, BeginReturns, Become, Types
  <2>5. \A d \in Chain \ {c} : InProgress(d) => entry[d] # entry[c]
    BY <2>3 DEF Numbered
  <2>6. InFlight' = InFlight \ {entry[c]} /\ entry[c] \in InFlight
    BY <2>3, <2>4, <2>5 DEF InFlight, InProgress
  <2>7. CASE stage' = "measuring"
    <3>1. Camp!Complete(entry[c])
      BY <2>1, <2>2, <2>6, <2>7 DEF Camp!Complete
    <3> QED BY <2>3, <3>1 DEF Camp!CampaignNext
  <2>8. CASE stage' = "closing"
    <3>1. \A d \in Chain : ~InProgress(d)'
      BY <2>8 DEF Stages, After, InProgress
    <3>2. InFlight' = {}
      BY <3>1, InFlightEmpty DEF InFlight, InProgress
    <3>3. Camp!CompleteAndEnd(entry[c])
      BY <2>1, <2>6, <2>8, <3>2 DEF Camp!CompleteAndEnd
    <3> QED BY <2>3, <3>3 DEF Camp!CampaignNext
  <2> QED BY <2>4, <2>7, <2>8
<1> QED BY <1>2, <1>5, <1>6, <1>7, <1>8, <1>10, <1>11, <1>12, NextCases

\* Measurements are numbered by the position of their input, no more of them
\* run at a time than allowed, each is done once, and none is in progress when
\* the report is closed.
THEOREM NettestIsACampaign == Spec => ImplementsCampaign
<1>1. Spec => []IInv
  BY NettestInvariant
<1>2. Init => Camp!CampaignInit
  BY CampaignBegins
<1>3. IInv /\ IInv' /\ [Next]_vars => [Camp!CampaignNext]_Camp!campaignVars
  BY CampaignGoesOn
<1> QED BY <1>1, <1>2, <1>3, PTL DEF Spec, ImplementsCampaign, Camp!CampaignSpec

-----------------------------------------------------------------------------
(* What the settings make of a nettest.                                    *)

\* A nettest that is being prepared, with all its fields.
Fields(r) ==
  /\ r = [refused |-> r.refused, warned |-> r.warned, options |-> r.options,
          annotations |-> r.annotations, inputs |-> r.inputs,
          verbosity |-> r.verbosity, disabled |-> r.disabled]
  /\ r.refused \in BOOLEAN

\* The sections that are gone through.
Listed == {"options", "annotations", "inputs", "input_filepaths", "disabled_events"}

\* What ends the preparation, wherever it is in its section.
Refuses(section, x) ==
  CASE section = "options" -> x.value.type \notin {"string", "integer", "float", "boolean"}
    [] section = "annotations" -> x.value.type \notin {"string", "integer", "float"}
    [] OTHER -> x.type # "string"

\* Induction over an interval.
LEMMA Reached ==
  ASSUME NEW max \in Nat, NEW S, 0 \in S, \A n \in 1 .. max : n - 1 \in S => n \in S
  PROVE  0 .. max \subseteq S
<1> DEFINE missed == (0 .. max) \ S
<1>1. SUFFICES ASSUME missed # {} PROVE FALSE
  OBVIOUS
<1>2. missed \subseteq Nat
  OBVIOUS
<1> HIDE DEF missed
<1>3. PICK n \in missed : \A m \in missed : ~ (<<m, n>> \in OpToRel(<, Nat))
  BY <1>1, <1>2, NatLessThanWellFounded, WFMin
<1>4. \A m \in Nat : m < n => m \notin missed
  BY <1>2, <1>3 DEF OpToRel
<1>5. n \in 1 .. max /\ n \notin S
  <2>1. n \in (0 .. max) \ S
    BY DEF missed
  <2> QED
    BY <2>1
<1>6. n - 1 \notin missed /\ n - 1 \in 0 .. max
  BY <1>4, <1>5
<1> QED
  BY <1>5, <1>6 DEF missed

\* The record with one field changed.
LEMMA OtherField ==
  ASSUME NEW F, NEW W, NEW O, NEW A, NEW I, NEW V, NEW D, NEW v, NEW r,
         r = [refused |-> F, warned |-> W, options |-> O, annotations |-> A,
              inputs |-> I, verbosity |-> V, disabled |-> D]
  PROVE  /\ [r EXCEPT !.refused = v] =
              [refused |-> v, warned |-> W, options |-> O, annotations |-> A,
               inputs |-> I, verbosity |-> V, disabled |-> D]
         /\ [r EXCEPT !.warned = v] =
              [refused |-> F, warned |-> v, options |-> O, annotations |-> A,
               inputs |-> I, verbosity |-> V, disabled |-> D]
         /\ [r EXCEPT !.options = v] =
              [refused |-> F, warned |-> W, options |-> v, annotations |-> A,
               inputs |-> I, verbosity |-> V, disabled |-> D]
<1>1. r.refused = F /\ r.warned = W /\ r.options = O
  OBVIOUS
<1>2. [r EXCEPT !.refused = v] =
              [refused |-> v, warned |-> W, options |-> O, annotations |-> A,
               inputs |-> I, verbosity |-> V, disabled |-> D]
  OBVIOUS
<1>3. [r EXCEPT !.warned = v] =
              [refused |-> F, warned |-> v, options |-> O, annotations |-> A,
               inputs |-> I, verbosity |-> V, disabled |-> D]
  OBVIOUS
<1>4. [r EXCEPT !.options = v] =
              [refused |-> F, warned |-> W, options |-> v, annotations |-> A,
               inputs |-> I, verbosity |-> V, disabled |-> D]
  OBVIOUS
<1> QED
  BY <1>2, <1>3, <1>4

\* One element.
LEMMA ProcessEffect ==
  ASSUME NEW section \in Listed, NEW r, Fields(r), ~r.refused, NEW x
  PROVE  LET q == Process(section, r, x) IN
         /\ Fields(q) /\ (q.refused <=> Refuses(section, x)) /\ r.warned \subseteq q.warned
         /\ section # "options" => q.options = r.options
         /\ section = "options" /\ ~q.refused =>
              /\ HasMappedType(x.key, x.value) \/ x.key \in q.warned
              /\ q.options = IF x.value = Str("") THEN r.options
                             ELSE With(r.options, x.key, Scalar(x.value))
<1> DEFINE W == r.warned
           O == r.options
           A == r.annotations
           I == r.inputs
           V == r.verbosity
           D == r.disabled
<1>0. r = [refused |-> FALSE, warned |-> W, options |-> O, annotations |-> A,
           inputs |-> I, verbosity |-> V, disabled |-> D]
  BY DEF Fields
<1> HIDE DEF W, O, A, I, V, D
<1>1. CASE section = "options"
  <2> DEFINE base == IF HasMappedType(x.key, x.value) THEN r ELSE Warn(r, {x.key})
             warned == IF HasMappedType(x.key, x.value) THEN W ELSE W \cup {x.key}
             more == With(O, x.key, Scalar(x.value))
             out == SetOption(r, x)
  <2>1. base = [refused |-> FALSE, warned |-> warned, options |-> O, annotations |-> A,
                inputs |-> I, verbosity |-> V, disabled |-> D]
    <3>1. CASE HasMappedType(x.key, x.value)
      BY <1>0, <3>1
    <3>2. CASE ~HasMappedType(x.key, x.value)
      <4>1. Warn(r, {x.key}) = [refused |-> FALSE, warned |-> W \cup {x.key}, options |-> O,
                                annotations |-> A, inputs |-> I, verbosity |-> V, disabled |-> D]
        <5>1. Warn(r, {x.key}) = [r EXCEPT !.warned = W \cup {x.key}]
          BY <1>0 DEF Warn
        <5> QED
          BY <1>0, <5>1, OtherField
      <4> QED
        BY <3>2, <4>1
    <3> QED
      BY <3>1, <3>2
  <2>2. W \subseteq warned /\ (HasMappedType(x.key, x.value) \/ x.key \in warned)
    OBVIOUS
  <2>7. Process(section, r, x) = out
    BY <1>1 DEF Process
  <2>8. out = IF Refuses(section, x) THEN [base EXCEPT !.refused = TRUE]
              ELSE IF x.value = Str("") THEN base
              ELSE [base EXCEPT !.options = With(@, x.key, Scalar(x.value))]
    BY <1>1 DEF SetOption, Refuses, Refuse
  <2> HIDE DEF base, warned, out
  <2>3. out =
          IF Refuses(section, x)
          THEN [refused |-> TRUE, warned |-> warned, options |-> O, annotations |-> A,
                inputs |-> I, verbosity |-> V, disabled |-> D]
          ELSE [refused |-> FALSE, warned |-> warned,
                options |-> IF x.value = Str("") THEN O ELSE more, annotations |-> A,
                inputs |-> I, verbosity |-> V, disabled |-> D]
    <3>1. CASE Refuses(section, x)
      <4>1. out = [base EXCEPT !.refused = TRUE]
        BY <2>8, <3>1
      <4>2. out = [refused |-> TRUE, warned |-> warned, options |-> O, annotations |-> A,
                   inputs |-> I, verbosity |-> V, disabled |-> D]
        BY <2>1, <4>1, OtherField
      <4> QED
        BY <3>1, <4>2
    <3>2. CASE ~Refuses(section, x) /\ x.value = Str("")
      BY <2>1, <2>8, <3>2
    <3>3. CASE ~Refuses(section, x) /\ x.value # Str("")
      <4>1. out = [base EXCEPT !.options = With(base.options, x.key, Scalar(x.value))]
        BY <2>8, <3>3
      <4>2. base.options = O
        BY <2>1
      <4>3. out = [base EXCEPT !.options = more]
        BY <4>1, <4>2
      <4> HIDE DEF more
      <4>4. out = [refused |-> FALSE, warned |-> warned, options |-> more, annotations |-> A,
                   inputs |-> I, verbosity |-> V, disabled |-> D]
        BY <2>1, <4>3, OtherField
      <4> QED
        BY <3>3, <4>4
    <3> QED
      BY <3>1, <3>2, <3>3
  <2>4. Refuses(section, x) \in BOOLEAN
    BY <1>1 DEF Refuses
  <2>5. /\ Fields(out) /\ out.refused = Refuses(section, x) /\ out.warned = warned
        /\ ~out.refused => out.options = IF x.value = Str("") THEN O ELSE more
    <3> HIDE DEF more
    <3> QED
      BY <2>3, <2>4 DEF Fields
  <2>6. r.warned = W /\ r.options = O
    BY <1>0
  <2> QED
    BY <1>1, <2>2, <2>5, <2>6, <2>7
<1>2. CASE section = "annotations"
  <2>1. Process(section, r, x) =
          IF Refuses(section, x) THEN [r EXCEPT !.refused = TRUE]
          ELSE [r EXCEPT !.annotations = With(r.annotations, x.key, x.value.text)]
    BY <1>2 DEF Process, Annotate, Refuses, Refuse
  <2>2. Refuses(section, x) \in BOOLEAN
    BY <1>2 DEF Refuses
  <2> QED
    BY <1>0, <1>2, <2>1, <2>2 DEF Fields
<1>3. CASE section \in {"inputs", "input_filepaths", "disabled_events"}
  <2>1. Process(section, r, x) = IF x.type # "string" THEN [r EXCEPT !.refused = TRUE]
          ELSE CASE section = "inputs" -> [r EXCEPT !.inputs = Append(r.inputs, x.text)]
                 [] section = "input_filepaths" -> r
                 [] section = "disabled_events" ->
                      IF x.text \notin KnownEvents THEN [r EXCEPT !.warned = r.warned \cup {x.text}]
                      ELSE [r EXCEPT !.disabled = r.disabled \cup {x.text}]
    BY <1>3 DEF Process, AddInput, AddFilepath, Disable, Refuse, Warn
  <2>2. Refuses(section, x) = (x.type # "string")
    BY <1>3 DEF Refuses
  <2> QED
    BY <1>0, <1>3, <2>1, <2>2 DEF Fields
<1> QED
  BY <1>1, <1>2, <1>3 DEF Listed

\* What is prepared after each element.
LEMMA ForEachGoesOn ==
  ASSUME NEW section, NEW r, NEW elements, Len(elements) \in Nat
  PROVE  \E after :
           /\ after[0] = r /\ ForEach(section, r, elements) = after[Len(elements)]
           /\ \A n \in 1 .. Len(elements) :
                after[n] = IF after[n - 1].refused THEN after[n - 1]
                           ELSE Process(section, after[n - 1], elements[n])
<1> DEFINE step(last, n) == IF last.refused THEN last ELSE Process(section, last, elements[n])
           goes(g, n) ==
             g = [i \in 0 .. n |-> IF i = 0 THEN r ELSE step(g[i - 1], i)]
           good == {n \in 0 .. Len(elements) : \E g : goes(g, n)}
           after == CHOOSE f : f = [n \in 0 .. Len(elements) |->
                                      IF n = 0 THEN r ELSE
                                      LET last == f[n - 1] IN
                                      IF last.refused THEN last
                                      ELSE Process(section, last, elements[n])]
<1>1. 0 \in good
  <2>1. goes([i \in 0 .. 0 |-> r], 0)
    OBVIOUS
  <2> HIDE DEF goes
  <2> QED
    BY <2>1
<1> HIDE DEF step
<1>2. \A n \in 1 .. Len(elements) : n - 1 \in good => n \in good
  <2> SUFFICES ASSUME NEW n \in 1 .. Len(elements), n - 1 \in good
               PROVE  \E g : goes(g, n)
    OBVIOUS
  <2>1. PICK g : goes(g, n - 1)
    OBVIOUS
  <2> DEFINE h == [i \in 0 .. n |-> IF i < n THEN g[i] ELSE step(g[n - 1], n)]
  <2>2. ASSUME NEW i \in 0 .. n
        PROVE  h[i] = IF i = 0 THEN r ELSE step(h[i - 1], i)
    <3>1. CASE i < n
      BY <3>1, <2>1
    <3>2. CASE i = n
      <4>1. h[n] = step(g[n - 1], n) /\ h[n - 1] = g[n - 1]
        OBVIOUS
      <4> HIDE DEF h
      <4> QED
        BY <3>2, <4>1
    <3> QED
      BY <3>1, <3>2
  <2>3. h = [i \in 0 .. n |-> h[i]]
    OBVIOUS
  <2> HIDE DEF h
  <2>4. goes(h, n)
    BY <2>2, <2>3
  <2> QED
    BY <2>4
<1>3. PICK g : goes(g, Len(elements))
  <2>1. 0 .. Len(elements) \subseteq good
    <3> HIDE DEF good
    <3> QED
      BY <1>1, <1>2, Reached
  <2> QED
    BY <2>1
<1>5. after = [n \in 0 .. Len(elements) |-> IF n = 0 THEN r ELSE step(after[n - 1], n)]
  BY <1>3 DEF step
<1>6. ForEach(section, r, elements) = after[Len(elements)]
  BY DEF ForEach
<1> HIDE DEF after
<1>7. after[0] = r /\ \A n \in 1 .. Len(elements) : after[n] = step(after[n - 1], n)
  BY <1>5
<1> QED
  BY <1>6, <1>7 DEF step

\* What a section does, whatever is in it.
LEMMA ForEachEffect ==
  ASSUME NEW section \in Listed, NEW r, Fields(r), NEW elements, IsSequence(elements)
  PROVE  LET q == ForEach(section, r, elements) IN
         /\ Fields(q) /\ r.warned \subseteq q.warned
         /\ q.refused <=> r.refused \/ \E x \in Range(elements) : Refuses(section, x)
         /\ section # "options" => q.options = r.options
<1>1. Len(elements) \in Nat /\ Range(elements) = {elements[i] : i \in 1 .. Len(elements)}
  BY DEF IsSequence, Range
<1>2. PICK after :
        /\ after[0] = r /\ ForEach(section, r, elements) = after[Len(elements)]
        /\ \A n \in 1 .. Len(elements) :
             after[n] = IF after[n - 1].refused THEN after[n - 1]
                        ELSE Process(section, after[n - 1], elements[n])
  BY <1>1, ForEachGoesOn
<1> DEFINE true(n) == /\ Fields(after[n]) /\ r.warned \subseteq after[n].warned
                      /\ after[n].refused <=>
                           r.refused \/ \E i \in 1 .. n : Refuses(section, elements[i])
                      /\ section # "options" => after[n].options = r.options
           good == {n \in 0 .. Len(elements) : true(n)}
<1>3. 0 \in good
  BY <1>1, <1>2
<1>4. ASSUME NEW n \in 1 .. Len(elements), true(n - 1)
      PROVE  true(n)
  <2> DEFINE last == after[n - 1]
             x == elements[n]
  <2>1. (\E i \in 1 .. n : Refuses(section, elements[i])) <=>
          (\E i \in 1 .. n - 1 : Refuses(section, elements[i])) \/ Refuses(section, x)
    BY <1>1
  <2>2. CASE last.refused
    BY <1>2, <1>4, <2>1, <2>2
  <2>3. CASE ~last.refused
    <3>1. after[n] = Process(section, last, x) /\ Fields(last)
      BY <1>2, <1>4, <2>3
    <3> DEFINE q == after[n]
    <3>2. /\ Fields(q) /\ (q.refused <=> Refuses(section, x)) /\ last.warned \subseteq q.warned
          /\ section # "options" => q.options = last.options
      <4> HIDE DEF last, x, q
      <4>1. q = Process(section, last, x)
        BY <3>1 DEF q
      <4> QED
        BY <2>3, <3>1, <4>1, ProcessEffect
    <3>3. ~r.refused /\ ~ \E i \in 1 .. n - 1 : Refuses(section, elements[i])
      BY <1>4, <2>3
    <3>4. /\ r.warned \subseteq last.warned
          /\ section # "options" => last.options = r.options
      BY <1>4
    <3> HIDE DEF q, last
    <3>5. /\ Fields(q) /\ r.warned \subseteq q.warned
          /\ q.refused <=> r.refused \/ \E i \in 1 .. n : Refuses(section, elements[i])
          /\ section # "options" => q.options = r.options
      BY <2>1, <3>2, <3>3, <3>4
    <3> QED
      BY <3>5 DEF q
  <2> QED
    BY <2>2, <2>3
<1> HIDE DEF true
<1>5. Len(elements) \in good
  <2>1. \A n \in 1 .. Len(elements) : n - 1 \in good => n \in good
    BY <1>1, <1>4
  <2> HIDE DEF good
  <2>2. 0 .. Len(elements) \subseteq good
    BY <1>1, <1>3, <2>1, Reached
  <2> QED
    BY <1>1, <2>2
<1>6. true(Len(elements))
  BY <1>5
<1> QED
  BY <1>1, <1>2, <1>6 DEF true

\* All the options that are not empty are there, and a warning about each one
\* that is not of the type that its map says.
LEMMA OptionsEffect ==
  ASSUME NEW r, Fields(r), ~r.refused, DOMAIN r.options = {},
         NEW elements, IsSequence(elements),
         \A x \in Range(elements) : ~Refuses("options", x),
         \A i, j \in DOMAIN elements : elements[i].key = elements[j].key => i = j
  PROVE  LET q == ForEach("options", r, elements) IN
         /\ DOMAIN q.options = {x.key : x \in {y \in Range(elements) : y.value # Str("")}}
         /\ \A x \in Range(elements) :
              /\ x.value # Str("") => q.options[x.key] = Scalar(x.value)
              /\ HasMappedType(x.key, x.value) \/ x.key \in q.warned
<1>1. /\ Len(elements) \in Nat /\ Range(elements) = {elements[i] : i \in 1 .. Len(elements)}
      /\ DOMAIN elements = 1 .. Len(elements)
  BY DEF IsSequence, Range
<1>2. PICK after :
        /\ after[0] = r /\ ForEach("options", r, elements) = after[Len(elements)]
        /\ \A n \in 1 .. Len(elements) :
             after[n] = IF after[n - 1].refused THEN after[n - 1]
                        ELSE Process("options", after[n - 1], elements[n])
  BY <1>1, ForEachGoesOn
<1> DEFINE kept(n) == {i \in 1 .. n : elements[i].value # Str("")}
           true(n) == /\ Fields(after[n]) /\ ~after[n].refused
                      /\ DOMAIN after[n].options = {elements[i].key : i \in kept(n)}
                      /\ \A i \in kept(n) :
                           after[n].options[elements[i].key] = Scalar(elements[i].value)
                      /\ \A i \in 1 .. n : \/ HasMappedType(elements[i].key, elements[i].value)
                                           \/ elements[i].key \in after[n].warned
           good == {n \in 0 .. Len(elements) : true(n)}
<1>3. 0 \in good
  <2>1. 1 .. 0 = {} /\ kept(0) = {} /\ 0 \in 0 .. Len(elements)
    BY <1>1
  <2> HIDE DEF kept
  <2> QED
    BY <1>2, <2>1
<1>4. ASSUME NEW n \in 1 .. Len(elements), true(n - 1)
      PROVE  true(n)
  <2> DEFINE last == after[n - 1]
             x == elements[n]
             q == after[n]
  <2>1. q = Process("options", last, x) /\ Fields(last) /\ ~last.refused
    BY <1>2, <1>4
  <2>2. /\ Fields(q) /\ (q.refused <=> Refuses("options", x)) /\ last.warned \subseteq q.warned
        /\ ~q.refused =>
             /\ HasMappedType(x.key, x.value) \/ x.key \in q.warned
             /\ q.options = IF x.value = Str("") THEN last.options
                            ELSE With(last.options, x.key, Scalar(x.value))
    <3> HIDE DEF last, x, q
    <3>1. "options" \in Listed
      BY DEF Listed
    <3> QED
      BY <2>1, <3>1, ProcessEffect
  <2>3. ~q.refused
    BY <1>1, <2>2
  <2>4. /\ DOMAIN last.options = {elements[i].key : i \in kept(n - 1)}
        /\ \A i \in kept(n - 1) :
             last.options[elements[i].key] = Scalar(elements[i].value)
        /\ \A i \in 1 .. n - 1 : \/ HasMappedType(elements[i].key, elements[i].value)
                                 \/ elements[i].key \in last.warned
    BY <1>4
  <2>5. 1 .. n = (1 .. n - 1) \cup {n} /\ n \notin 1 .. n - 1
    BY <1>1
  <2>6. \A i \in 1 .. n - 1 : i \in DOMAIN elements /\ n \in DOMAIN elements /\ i # n
    BY <1>1
  <2>7. \A i \in 1 .. n - 1 : elements[i].key # x.key
    BY <2>6
  <2>8. \A i \in 1 .. n : \/ HasMappedType(elements[i].key, elements[i].value)
                         \/ elements[i].key \in q.warned
    BY <2>2, <2>3, <2>4, <2>5
  <2> HIDE DEF last, q
  <2>9. /\ DOMAIN q.options = {elements[i].key : i \in kept(n)}
        /\ \A i \in kept(n) : q.options[elements[i].key] = Scalar(elements[i].value)
    <3>1. CASE x.value = Str("")
      <4>1. kept(n) = kept(n - 1) /\ q.options = last.options
        BY <2>2, <2>3, <2>5, <3>1
      <4> QED
        BY <2>4, <4>1
    <3>2. CASE x.value # Str("")
      <4>1. kept(n) = kept(n - 1) \cup {n}
        BY <2>5, <3>2
      <4>2. /\ DOMAIN q.options = {x.key} \cup DOMAIN last.options
            /\ q.options[x.key] = Scalar(x.value)
            /\ \A k \in DOMAIN last.options \ {x.key} : q.options[k] = last.options[k]
        <5>1. q.options = With(last.options, x.key, Scalar(x.value))
          BY <2>2, <2>3, <3>2
        <5> DEFINE more == With(last.options, x.key, Scalar(x.value))
        <5>2. /\ DOMAIN more = {x.key} \cup DOMAIN last.options /\ more[x.key] = Scalar(x.value)
              /\ \A k \in DOMAIN last.options \ {x.key} : more[k] = last.options[k]
          BY DEF With
        <5> HIDE DEF x, more
        <5> QED
          BY <5>1, <5>2 DEF more
      <4>3. \A i \in kept(n - 1) :
              elements[i].key \in DOMAIN last.options \ {x.key}
        BY <2>4, <2>7
      <4> HIDE DEF kept
      <4> QED
        BY <2>4, <4>1, <4>2, <4>3
    <3> QED
      BY <3>1, <3>2
  <2> QED
    BY <2>2, <2>3, <2>8, <2>9 DEF q
<1> HIDE DEF true
<1>5. Len(elements) \in good
  <2>1. \A n \in 1 .. Len(elements) : n - 1 \in good => n \in good
    BY <1>1, <1>4
  <2> HIDE DEF good
  <2>2. 0 .. Len(elements) \subseteq good
    BY <1>1, <1>3, <2>1, Reached
  <2> QED
    BY <1>1, <2>2
<1>6. true(Len(elements))
  BY <1>5
<1>7. {elements[i].key : i \in kept(Len(elements))}
        = {x.key : x \in {y \in Range(elements) : y.value # Str("")}}
  <2>1. Range(elements) = {elements[i] : i \in 1 .. Len(elements)}
    BY <1>1
  <2> QED
    BY <2>1
<1> QED
  BY <1>1, <1>2, <1>6, <1>7 DEF true

\* The sections of settings in which each has the type that it should.
LEMMA SectionsAreLists ==
  ASSUME NEW given, IsJson(given), given.type = "object", MistypedSections(given.at) = {}
  PROVE  /\ IsSequence(Members(given.at, "options")) /\ IsSequence(Members(given.at, "annotations"))
         /\ \A s \in {"inputs", "input_filepaths", "disabled_events"} :
              IsSequence(Items(given.at, s))
         /\ LET members == Members(given.at, "options") IN
            /\ \A i, j \in DOMAIN members : members[i].key = members[j].key => i = j
            /\ \A m \in Range(members) :
                 m.value.type = "integer" => m.value.text \in {"0", "1", "2", "huge"}
<1>1. IsSequence(<<>>) /\ DOMAIN <<>> = {} /\ Range(<<>>) = {}
  <2>1. Len(<<>>) = 0 /\ DOMAIN <<>> = {}
    OBVIOUS
  <2> QED
    BY <2>1 DEF IsSequence, Range
<1>2. \A s \in DOMAIN SectionType \cap DOMAIN given.at : given.at[s].type = SectionType[s]
  BY DEF MistypedSections
<1>3. /\ {"options", "annotations", "inputs", "input_filepaths", "disabled_events"} \subseteq DOMAIN SectionType
      /\ \A s \in {"options", "annotations"} : SectionType[s] = "object"
      /\ \A s \in {"inputs", "input_filepaths", "disabled_events"} : SectionType[s] = "array"
  BY DEF SectionType
<1>4. \A section \in DOMAIN given.at :
        LET value == given.at[section] IN
        /\ value.type = "array" => IsSequence(value.items)
        /\ value.type = "object" =>
             /\ IsSequence(value.members)
             /\ \A i, j \in DOMAIN value.members :
                  value.members[i].key = value.members[j].key => i = j
             /\ \A m \in Range(value.members) :
                  m.value.type = "integer" => m.value.text \in {"0", "1", "2", "huge"}
  BY DEF IsJson
<1>5. ASSUME NEW s \in {"options", "annotations"}
      PROVE  LET members == Members(given.at, s) IN
             /\ IsSequence(members)
             /\ \A i, j \in DOMAIN members : members[i].key = members[j].key => i = j
             /\ \A m \in Range(members) :
                  m.value.type = "integer" => m.value.text \in {"0", "1", "2", "huge"}
  <2>1. CASE s \in DOMAIN given.at
    <3>1. given.at[s].type = "object" /\ Members(given.at, s) = given.at[s].members
      BY <1>2, <1>3, <2>1 DEF Members
    <3> QED
      BY <1>4, <2>1, <3>1
  <2>2. CASE s \notin DOMAIN given.at
    <3>1. Members(given.at, s) = <<>>
      BY <2>2 DEF Members
    <3> QED
      BY <1>1, <3>1
  <2> QED
    BY <2>1, <2>2
<1>6. ASSUME NEW s \in {"inputs", "input_filepaths", "disabled_events"}
      PROVE  IsSequence(Items(given.at, s))
  <2>1. CASE s \in DOMAIN given.at
    BY <1>2, <1>3, <1>4, <2>1 DEF Items
  <2>2. CASE s \notin DOMAIN given.at
    BY <1>1, <2>2 DEF Items
  <2> QED
    BY <2>1, <2>2
<1> QED
  BY <1>5, <1>6

\* The level of the log is refused, or changes nothing else.
LEMMA LogLevelEffect ==
  ASSUME NEW r, Fields(r), ~r.refused, NEW at
  PROVE  LET q == SetLogLevel(r, at) IN
         /\ Fields(q) /\ q.warned = r.warned /\ q.options = r.options
         /\ q.refused <=> "log_level" \in DOMAIN at /\ at.log_level.text \notin LogLevels
<1> DEFINE q == SetLogLevel(r, at)
<1>1. CASE "log_level" \notin DOMAIN at
  BY <1>1 DEF SetLogLevel
<1>2. CASE "log_level" \in DOMAIN at /\ at.log_level.text \notin LogLevels
  <2>1. q = [r EXCEPT !.refused = TRUE]
    BY <1>2 DEF SetLogLevel, Refuse
  <2> HIDE DEF q
  <2> QED
    BY <1>2, <2>1 DEF Fields, q
<1>3. CASE "log_level" \in DOMAIN at /\ at.log_level.text \in LogLevels
  <2>1. q = [r EXCEPT !.verbosity = at.log_level.text]
    BY <1>3 DEF SetLogLevel
  <2> HIDE DEF q
  <2> QED
    BY <1>3, <2>1 DEF Fields, q
<1> QED
  BY <1>1, <1>2, <1>3

\* What is asked is prepared, and refused if anything of it must be.
LEMMA PreparedAsAsked ==
  ASSUME NEW given, IsJson(given)
  PROVE  LET r == Prepared(given) IN
         /\ r.refused <=> ~Acceptable(given)
         /\ ~r.refused =>
              /\ given.type = "object" /\ MistypedSections(given.at) = {}
              /\ DOMAIN r.options = Asked(given)
              /\ \A x \in Range(Members(given.at, "options")) :
                   /\ x.value # Str("") => r.options[x.key] = Scalar(x.value)
                   /\ HasMappedType(x.key, x.value) \/ x.key \in r.warned
<1>1. Fields(NewRunnable) /\ ~NewRunnable.refused /\ NewRunnable.options = <<>>
  BY DEF NewRunnable, Fields
<1>2. CASE given.type # "object"
  <2>1. Prepared(given) = [NewRunnable EXCEPT !.refused = TRUE]
    BY <1>2 DEF Prepared, Refuse
  <2>2. Prepared(given).refused
    BY <2>1 DEF NewRunnable
  <2> QED
    BY <1>2, <2>2 DEF Acceptable
<1>3. CASE given.type = "object"
  <2> DEFINE at == given.at
             shallow == validate_known_settings_shallow(NewRunnable, at)
             known == make_runnable(remove_unknown_settings_and_warn(shallow, at), at)
             first == ForEach("options", known, Members(at, "options"))
             second == ForEach("annotations", first, Members(at, "annotations"))
             third == ForEach("inputs", second, Items(at, "inputs"))
             paths == ForEach("input_filepaths", third, Items(at, "input_filepaths"))
             level == IF paths.refused THEN paths ELSE SetLogLevel(paths, at)
             all == ForEach("disabled_events", level, Items(at, "disabled_events"))
  <2>1. Prepared(given) = IF shallow.refused THEN shallow ELSE all
    BY <1>3 DEF Prepared
  <2>2. /\ Fields(shallow) /\ shallow.options = <<>>
        /\ shallow.refused <=> MistypedSections(at) # {}
    <3> DEFINE wrong == MistypedSections(at)
               warned == Warn(NewRunnable, wrong)
    <3>1. warned = [NewRunnable EXCEPT !.warned = {} \cup wrong]
      BY DEF Warn, NewRunnable
    <3>2. Fields(warned) /\ ~warned.refused /\ warned.options = <<>>
      <4> HIDE DEF wrong, warned
      <4> QED
        BY <3>1 DEF NewRunnable, Fields
    <3>3. shallow = IF wrong = {} THEN warned ELSE [warned EXCEPT !.refused = TRUE]
      BY DEF validate_known_settings_shallow, Refuse
    <3> HIDE DEF shallow, warned
    <3>4. CASE wrong = {}
      BY <3>2, <3>3, <3>4
    <3>5. CASE wrong # {}
      <4>1. shallow = [warned EXCEPT !.refused = TRUE]
        BY <3>3, <3>5
      <4>2. Fields(shallow) /\ shallow.refused /\ shallow.options = <<>>
        BY <3>2, <4>1 DEF Fields
      <4> QED
        BY <3>5, <4>2
    <3> QED
      BY <3>4, <3>5
  <2>3. CASE shallow.refused
    BY <2>1, <2>2, <2>3 DEF Acceptable
  <2>4. CASE ~shallow.refused
    <3>1. /\ Fields(known) /\ known.options = <<>>
          /\ known.refused <=> at.name.text \notin KnownTasks
      <4> DEFINE warned == remove_unknown_settings_and_warn(shallow, at)
      <4>1. warned = [shallow EXCEPT !.warned = shallow.warned \cup (DOMAIN at \ DOMAIN SectionType)]
        BY DEF remove_unknown_settings_and_warn, Warn
      <4>2. Fields(warned) /\ ~warned.refused /\ warned.options = <<>>
        <5> HIDE DEF warned, shallow
        <5> QED
          BY <2>2, <2>4, <4>1 DEF Fields
      <4>3. known = IF at.name.text \in KnownTasks THEN warned ELSE [warned EXCEPT !.refused = TRUE]
        BY DEF make_runnable, Refuse
      <4> HIDE DEF known, warned
      <4>4. CASE at.name.text \in KnownTasks
        BY <4>2, <4>3, <4>4
      <4>5. CASE at.name.text \notin KnownTasks
        <5>1. known = [warned EXCEPT !.refused = TRUE]
          BY <4>3, <4>5
        <5>2. Fields(known) /\ known.refused /\ known.options = <<>>
          BY <4>2, <5>1 DEF Fields
        <5> QED
          BY <4>5, <5>2
      <4> QED
        BY <4>4, <4>5
    <3>2. /\ IsSequence(Members(at, "options")) /\ IsSequence(Members(at, "annotations"))
          /\ \A s \in {"inputs", "input_filepaths", "disabled_events"} : IsSequence(Items(at, s))
          /\ \A i, j \in DOMAIN Members(at, "options") :
               Members(at, "options")[i].key = Members(at, "options")[j].key => i = j
      <4>1. MistypedSections(given.at) = {}
        BY <2>2, <2>4
      <4> QED
        BY <1>3, <4>1, SectionsAreLists
    <3> HIDE DEF shallow, known, first, second, third, paths, level, all
    <3> DEFINE ending(section, elements) == \E x \in Range(elements) : Refuses(section, x)
    <3> HIDE DEF ending
    <3>3. /\ Fields(first)
          /\ first.refused <=> known.refused \/ ending("options", Members(at, "options"))
      BY <3>1, <3>2, ForEachEffect DEF Listed, first, ending
    <3>4. /\ Fields(second) /\ first.warned \subseteq second.warned
          /\ second.refused <=> first.refused \/ ending("annotations", Members(at, "annotations"))
          /\ second.options = first.options
      BY <3>2, <3>3, ForEachEffect DEF Listed, second, ending
    <3>5. /\ Fields(third) /\ second.warned \subseteq third.warned
          /\ third.refused <=> second.refused \/ ending("inputs", Items(at, "inputs"))
          /\ third.options = second.options
      BY <3>2, <3>4, ForEachEffect DEF Listed, third, ending
    <3>6. /\ Fields(paths) /\ third.warned \subseteq paths.warned
          /\ paths.refused <=> third.refused \/ ending("input_filepaths", Items(at, "input_filepaths"))
          /\ paths.options = third.options
      BY <3>2, <3>5, ForEachEffect DEF Listed, paths, ending
    <3>7. /\ Fields(level) /\ level.warned = paths.warned /\ level.options = paths.options
          /\ level.refused <=>
               paths.refused \/ ("log_level" \in DOMAIN at /\ at.log_level.text \notin LogLevels)
      <4>1. CASE paths.refused
        BY <3>6, <4>1 DEF level
      <4>2. CASE ~paths.refused
        BY <3>6, <4>2, LogLevelEffect DEF level
      <4> QED
        BY <4>1, <4>2
    <3>8. /\ Fields(all) /\ level.warned \subseteq all.warned
          /\ all.refused <=> level.refused \/ ending("disabled_events", Items(at, "disabled_events"))
          /\ all.options = level.options
      BY <3>2, <3>7, ForEachEffect DEF Listed, all, ending
    <3>9. Prepared(given) = all
      BY <2>1, <2>4
    <3>10. all.refused <=> ~Acceptable(given)
      <4>1. /\ ending("options", Members(at, "options")) <=>
                 ~ \A m \in Range(Members(at, "options")) :
                     m.value.type \in {"string", "integer", "float", "boolean"}
            /\ ending("annotations", Members(at, "annotations")) <=>
                 ~ \A m \in Range(Members(at, "annotations")) :
                     m.value.type \in {"string", "integer", "float"}
            /\ \A s \in {"inputs", "input_filepaths", "disabled_events"} :
                 ending(s, Items(at, s)) <=> ~ \A v \in Range(Items(at, s)) : v.type = "string"
        BY DEF ending, Refuses
      <4>2. MistypedSections(at) = {}
        BY <2>2, <2>4
      <4>3. Acceptable(given) <=>
              /\ at.name.text \in KnownTasks
              /\ "log_level" \in DOMAIN at => at.log_level.text \in LogLevels
              /\ ~ending("options", Members(at, "options"))
              /\ ~ending("annotations", Members(at, "annotations"))
              /\ \A s \in {"inputs", "input_filepaths", "disabled_events"} : ~ending(s, Items(at, s))
        BY <1>3, <4>1, <4>2 DEF Acceptable
      <4> QED
        BY <3>1, <3>3, <3>4, <3>5, <3>6, <3>7, <3>8, <4>3
    <3>11. ASSUME ~all.refused
           PROVE  /\ DOMAIN first.options = Asked(given)
                  /\ \A x \in Range(Members(at, "options")) :
                       /\ x.value # Str("") => first.options[x.key] = Scalar(x.value)
                       /\ HasMappedType(x.key, x.value) \/ x.key \in first.warned
      <4>1. ~known.refused /\ ~first.refused
        BY <3>3, <3>4, <3>5, <3>6, <3>7, <3>8, <3>11
      <4>2. \A x \in Range(Members(at, "options")) : ~Refuses("options", x)
        BY <3>3, <4>1 DEF ending
      <4>3. DOMAIN known.options = {}
        BY <3>1
      <4>4. LET q == ForEach("options", known, Members(at, "options")) IN
            /\ DOMAIN q.options = {x.key : x \in {y \in Range(Members(at, "options")) : y.value # Str("")}}
            /\ \A x \in Range(Members(at, "options")) :
                 /\ x.value # Str("") => q.options[x.key] = Scalar(x.value)
                 /\ HasMappedType(x.key, x.value) \/ x.key \in q.warned
        BY <3>1, <3>2, <4>1, <4>2, <4>3, OptionsEffect
      <4> QED
        BY <4>4 DEF first, Asked
    <3>12. first.warned \subseteq all.warned /\ all.options = first.options
      BY <3>4, <3>5, <3>6, <3>7, <3>8
    <3>13. MistypedSections(at) = {}
      BY <2>2, <2>4
    <3> QED
      BY <1>3, <3>9, <3>10, <3>11, <3>12, <3>13
  <2> QED
    BY <2>3, <2>4
<1> QED
  BY <1>2, <1>3

\* An option that cannot be converted was warned about, or is out of range.
LEMMA UnreadableIsWarned ==
  ASSUME NEW given, IsJson(given), ~Prepared(given).refused,
         NEW k \in Unreadable(Prepared(given).options)
  PROVE  k \in Prepared(given).warned \/ Prepared(given).options[k] = "huge"
<1> DEFINE r == Prepared(given)
<1>1. /\ given.type = "object" /\ MistypedSections(given.at) = {}
      /\ DOMAIN r.options = Asked(given)
      /\ \A x \in Range(Members(given.at, "options")) :
           /\ x.value # Str("") => r.options[x.key] = Scalar(x.value)
           /\ HasMappedType(x.key, x.value) \/ x.key \in r.warned
  BY PreparedAsAsked
<1>2. k \in DOMAIN r.options /\ k \in DOMAIN ReadAs /\ r.options[k] \notin Convertible[ReadAs[k]]
  BY DEF Unreadable
<1>3. PICK x \in Range(Members(given.at, "options")) : x.key = k /\ x.value # Str("")
  BY <1>1, <1>2 DEF Asked
<1>4. r.options[k] = Scalar(x.value) /\ (HasMappedType(k, x.value) \/ k \in r.warned)
  BY <1>1, <1>3
<1>5. x.value.type = "integer" => x.value.text \in {"0", "1", "2", "huge"}
  BY <1>1, SectionsAreLists
<1> HIDE DEF r
<1>6. SUFFICES ASSUME HasMappedType(k, x.value) PROVE FALSE
  BY <1>4 DEF r
<1>7. CASE x.value.type = "boolean" /\ k \in BooleanOptions
  <2>1. Scalar(x.value) \in {"0", "1"}
    BY <1>7 DEF Scalar
  <2>2. ReadAs[k] = "bool"
    BY <1>2, <1>7 DEF ReadAs, BooleanOptions
  <2>3. Convertible["bool"] = {"0", "1"}
    BY DEF Convertible
  <2> QED
    BY <1>2, <1>4, <2>1, <2>2, <2>3
<1>8. CASE x.value.type = "integer" /\ k \in IntegerOptions
  <2>1. Scalar(x.value) \in {"0", "1", "2", "huge"}
    BY <1>5, <1>8 DEF Scalar
  <2>2. ReadAs[k] = "double"
    BY <1>2, <1>8 DEF ReadAs, IntegerOptions
  <2>3. {"0", "1", "2", "huge"} \subseteq Convertible["double"]
    BY DEF Convertible
  <2> QED
    BY <1>2, <1>4, <2>1, <2>2, <2>3
<1>9. CASE k \in FloatOptions \cup StringOptions
  BY <1>2, <1>9 DEF FloatOptions, StringOptions, ReadAs
<1> QED
  BY <1>6, <1>7, <1>8, <1>9 DEF HasMappedType

\* "no_collector" is read in all the forms of it that are true.
LEMMA NoCollectorIsRead ==
  ASSUME NEW given, IsJson(given), ~Prepared(given).refused, SwitchedOn(given, "no_collector"),
         NEW task
  PROVE  OptionsOf(task, Prepared(given).options).no_collector = TRUE
<1> DEFINE r == Prepared(given)
<1>1. /\ DOMAIN r.options = Asked(given)
      /\ \A x \in Range(Members(given.at, "options")) :
           x.value # Str("") => r.options[x.key] = Scalar(x.value)
  BY PreparedAsAsked
<1>2. PICK x \in Range(Members(given.at, "options")) :
        x.key = "no_collector" /\ x.value \in {Bool("true"), Int64("1"), Str("1"), Float("1")}
  BY DEF SwitchedOn
<1>3. x.value # Str("") /\ Scalar(x.value) = "1"
  <2>1. x.value.type \in {"boolean", "integer", "string", "float"} /\ x.value.text \in {"true", "1"}
        /\ (x.value.type = "boolean" => x.value.text = "true")
        /\ (x.value.type # "boolean" => x.value.text = "1")
    BY <1>2 DEF Bool, Int64, Str, Float
  <2>2. Str("").text = ""
    BY DEF Str
  <2> QED
    BY <2>1, <2>2 DEF Scalar
<1>4. "no_collector" \in DOMAIN r.options /\ r.options["no_collector"] = "1"
  BY <1>1, <1>2, <1>3 DEF Asked
<1> HIDE DEF r
<1>5. "no_collector" \in DOMAIN ReadAs /\ ReadAs["no_collector"] = "bool"
  BY DEF ReadAs
<1>6. "1" \in Convertible["bool"]
  BY DEF Convertible
<1>7. Flag(r.options, "no_collector", FALSE) = TRUE
  BY <1>4, <1>5, <1>6 DEF Flag, Unreadable
<1> QED
  BY <1>7 DEF OptionsOf, r

-----------------------------------------------------------------------------
(* That it is what it was asked to be, until the end.                      *)

Early == {"validating", "refused", "initial", "bouncer", "resolver"}
NoneTold == collected = <<>> /\ \A i \in Entry : submission[i] = "none"

\* The nettest is what its settings make of it, and one without a collector has
\* no reporter for it.
Prepares ==
  /\ stage # "validating" => runnable = Prepared(settings)
  /\ stage = "refused" => runnable.refused
  /\ stage \notin {"validating", "refused"} =>
       ~runnable.refused /\ options = OptionsOf(settings.at.name.text, runnable.options)
  /\ stage \in Early => reporters = <<>> /\ NoneTold
  /\ options.no_collector => ~Collects /\ NoneTold

LEMMA PreparesInit == Init => Prepares
<1> SUFFICES ASSUME Init PROVE Prepares
  OBVIOUS
<1>1. /\ stage = "validating" /\ reporters = <<>> /\ collected = <<>>
      /\ \A i \in Entry : submission[i] = "none"
  BY DEF Init, ReportInit
<1>2. ~Collects
  BY <1>1 DEF Collects
<1> QED
  BY <1>1, <1>2 DEF Prepares, NoneTold

LEMMA PreparesNext ==
  Types /\ Stages /\ Calls /\ Prepares /\ [Next]_vars => Prepares'
<1> SUFFICES ASSUME Types, Stages, Calls, Prepares, [Next]_vars
             PROVE  Prepares'
  OBVIOUS
<1>1. ASSUME UNCHANGED <<config, reporters>>, stage # "validating",
             stage = "refused" <=> stage' = "refused", stage' # "validating",
             stage' \in Early => stage \in Early,
             stage \in Early \/ options.no_collector => UNCHANGED <<collected, submission>>
      PROVE  Prepares'
  <2>1. UNCHANGED <<settings, runnable, options, reporters>> /\ (Collects' <=> Collects)
    BY <1>1 DEF config, Collects
  <2>2. stage \in Early \/ options.no_collector => NoneTold /\ NoneTold'
    BY <1>1 DEF Prepares, NoneTold
  <2>3. /\ runnable = Prepared(settings)
        /\ stage' \in {"validating", "refused"} => stage' = stage
    BY <1>1 DEF Prepares
  <2>4. stage # "refused" =>
          ~runnable.refused /\ options = OptionsOf(settings.at.name.text, runnable.options)
    BY <1>1 DEF Prepares
  <2>5. stage' = "refused" => runnable.refused
    BY <1>1 DEF Prepares
  <2>6. stage = "refused" => stage' = "refused"
    BY <1>1
  <2>7. /\ stage' \in Early => reporters' = <<>> /\ NoneTold'
        /\ options.no_collector => ~Collects' /\ NoneTold'
    BY <1>1, <2>1, <2>2 DEF Prepares
  <2> QED
    BY <1>1, <2>1, <2>3, <2>4, <2>5, <2>6, <2>7 DEF Prepares
<1>2. CASE Validate
  <2>1. /\ runnable' = Prepared(settings) /\ stage = "validating"
        /\ UNCHANGED <<settings, reporters, collected, submission>>
        /\ \/ runnable'.refused /\ stage' = "refused" /\ UNCHANGED options
           \/ /\ ~runnable'.refused /\ stage' = "initial"
              /\ options' = OptionsOf(settings.at.name.text, runnable'.options)
    BY <1>2 DEF Validate, reportVars, store
  <2>2. reporters = <<>> /\ NoneTold
    BY <2>1 DEF Prepares, Early
  <2>3. ~Collects' /\ NoneTold' /\ reporters' = <<>>
    BY <2>1, <2>2 DEF Collects, NoneTold
  <2> QED
    BY <2>1, <2>3 DEF Prepares
<1>3. CASE ResolverReplies
  <2>1. /\ stage = "resolver" /\ stage' = "opening" /\ reporters' = WantedReporters
        /\ UNCHANGED <<config, collected, submission>>
    BY <1>3 DEF ResolverReplies, Goto, AddReporters, store
  <2>2. NoneTold' /\ UNCHANGED <<settings, runnable, options>>
    BY <2>1 DEF Prepares, Early, NoneTold, config
  <2>3. options.no_collector => ~Collects'
    <3>1. SUFFICES ASSUME options.no_collector, Collects' PROVE FALSE
      OBVIOUS
    <3>2. WantedReporters = IF options.no_file_report THEN <<>> ELSE <<"file">>
      BY <3>1 DEF WantedReporters
    <3> QED
      BY <2>1, <3>1, <3>2 DEF Collects
  <2> QED
    BY <2>1, <2>2, <2>3 DEF Prepares, Early
<1>4. CASE \/ Begin \/ InterruptedEarly \/ EmitEnd \/ Throw \/ EndReturns \/ BeginFails
  <2>1. UNCHANGED <<config, reporters, collected, submission>>
    BY <1>4, BeginFailsEffect
       DEF Begin, InterruptedEarly, EmitEnd, Throw, EndReturns, reportVars, store
  <2>2. /\ stage \notin {"validating", "refused"} /\ stage' \notin {"validating", "refused"}
        /\ stage' \in Early => stage \in Early
    BY <1>4, BeginFailsEffect
       DEF Begin, InterruptedEarly, EmitEnd, Throw, EndReturns, Goto, BeginReturns, Early,
           ReportOpened, InputsLoaded, MayGoOn, EntryNotWritten, Stages, Before
  <2> QED
    BY <1>1, <2>1, <2>2
<1>5. CASE TimePasses \/ UNCHANGED vars
  <2>1. UNCHANGED <<config, reporters, stage, collected, submission>>
    BY <1>5 DEF TimePasses, vars, reportVars, store
  <2> QED
    BY <2>1 DEF Prepares, NoneTold, Collects, config
<1>6. CASE LoadInputs
  <2>1. UNCHANGED <<config, reporters, collected, submission>> /\ stage = "opening"
    BY <1>6 DEF LoadInputs, InputsLoaded, MayGoOn, ReportOpened, store
  <2>2. stage' \in {"closing", "measuring"}
    BY <1>6 DEF LoadInputs, BeginReturns, Goto
  <2> QED
    BY <1>1, <2>1, <2>2 DEF Early
<1>7. CASE StartChain \/ \E c \in Chain : Resume(c)
  <2>1. PICK c \in Chain : RunNext(c)
    BY <1>7, RunNextEffect
  <2>2. UNCHANGED <<config, reporters, collected, submission>>
    BY <2>1 DEF RunNext, store
  <2>3. UNCHANGED stage \/ stage' = "closing"
    BY <2>1 DEF RunNext, ChainEnds, TakeInput, BeginReturns
  <2>4. stage \notin Before
    BY <1>7 DEF StartChain, Resume, Stages, Before
  <2> QED
    BY <1>1, <2>2, <2>3, <2>4 DEF Early, Before
<1>8. ASSUME NEW c \in Chain, MainReturns(c) \/ WriteSucceeds(c) \/ WriteFails(c)
      PROVE  Prepares'
  <2>1. UNCHANGED <<config, reporters, collected>>
    BY <1>8 DEF MainReturns, WriteSucceeds, WriteFails, store
  <2>2. UNCHANGED stage \/ stage' = "closing"
    BY <1>8 DEF MainReturns, WriteSucceeds, WriteFails, GoOn, Reschedule, ChainEnds,
                BeginReturns
  <2>3. stage \notin Before
    BY <1>8 DEF MainReturns, WriteSucceeds, WriteFails, EntryWritten, EntryNotWritten, Stages
  <2>4. options.no_collector => UNCHANGED submission
    BY <1>8 DEF MainReturns, WriteSucceeds, WriteFails, EmitSubmission
  <2> QED
    BY <1>1, <2>1, <2>2, <2>3, <2>4 DEF Early, Before
<1>9. CASE ReportStep
  <2>1. UNCHANGED <<config, reporters, stage, submission>>
    BY <1>9, ReportKeeps DEF config
  <2>2. ~Collects => UNCHANGED collected
    <3>1. SUFFICES ASSUME ~Collects, NEW c \in Client, AtOnce(c) \/ CollectorReplies(c)
                   PROVE  UNCHANGED collected
      BY <1>9 DEF ReportStep
    <3>2. ~call[c].waiting
      BY <3>1 DEF Calls, OperationOK, NoCall
    <3> QED
      BY <3>1, <3>2 DEF AtOnce, AnsweredAtOnce, FileWorks, CollectorAsked, CollectorReplies, store
  <2>3. stage \in Early \/ options.no_collector => ~Collects
    BY DEF Prepares, Collects
  <2> QED
    BY <2>1, <2>2, <2>3 DEF Prepares, NoneTold, Collects, config
<1> QED
  BY <1>2, <1>3, <1>4, <1>5, <1>6, <1>7, <1>8, <1>9, NextCases

LEMMA PreparedIsHonoured == Types /\ Prepares => SettingsHonoured
<1> SUFFICES ASSUME Types, Prepares PROVE SettingsHonoured
  OBVIOUS
<1>1. IsJson(settings)
  BY SettingsAreJson DEF Types
<1>2. stage = "refused" => ~Acceptable(settings)
  BY <1>1, PreparedAsAsked DEF Prepares
<1>3. ASSUME stage \notin {"validating", "refused"}
      PROVE  /\ Acceptable(settings) /\ DOMAIN runnable.options = Asked(settings)
             /\ SwitchedOn(settings, "no_collector") => NoneTold
             /\ \A k \in options.unreadable : k \in runnable.warned \/ runnable.options[k] = "huge"
  <2>1. /\ runnable = Prepared(settings) /\ ~runnable.refused
        /\ options = OptionsOf(settings.at.name.text, runnable.options)
        /\ options.no_collector => NoneTold
    BY <1>3 DEF Prepares
  <2>2. options.unreadable = Unreadable(runnable.options)
    BY <2>1 DEF OptionsOf
  <2>3. SwitchedOn(settings, "no_collector") => options.no_collector
    BY <1>1, <2>1, NoCollectorIsRead
  <2>4. Acceptable(settings) /\ DOMAIN runnable.options = Asked(settings)
    BY <1>1, <2>1, PreparedAsAsked
  <2>5. \A k \in options.unreadable : k \in runnable.warned \/ runnable.options[k] = "huge"
    BY <1>1, <2>1, <2>2, UnreadableIsWarned
  <2> QED
    BY <2>1, <2>3, <2>4, <2>5
<1> QED
  BY <1>2, <1>3 DEF SettingsHonoured, NoneTold

\* From the moment that the settings are accepted the nettest is what they make
\* of it, and without a collector nothing is asked of one.
THEOREM SettingsInvariant == Spec => []Prepares
<1>1. IInv /\ Prepares /\ [Next]_vars => Prepares'
  BY PreparesNext DEF IInv
<1> QED
  BY <1>1, PreparesInit, NettestInvariant, PTL DEF Spec

\* The task starts if and only if nothing in the settings must be refused; then
\* all the options that are not empty are there, "no_collector" does what it
\* says in all its forms, and an option that cannot be read was warned about.
THEOREM SettingsAreHonoured == Spec => []SettingsHonoured
<1>1. IInv /\ Prepares => SettingsHonoured
  BY PreparedIsHonoured DEF IInv
<1> QED
  BY <1>1, NettestInvariant, SettingsInvariant, PTL
=============================================================================
