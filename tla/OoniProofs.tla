------------------------------ MODULE OoniProofs ------------------------------
(***************************************************************************)
(* Proofs about the clients of the backend in Ooni, and about traceroute:  *)
(* what is stored of a file that is submitted, for any file and number of  *)
(* attempts; the identity of the probe in the registry, for any number of  *)
(* syncs and tokens; what the client of mkapi/ tells the registry, for any *)
(* settings, locations and calls of the setters; and the probes of a       *)
(* traceroute, for any number of hops and whatever the network answers.    *)
(***************************************************************************)
EXTENDS Ooni, FiniteSetTheorems, SequenceTheorems, WellFoundedInduction, TLAPS

-----------------------------------------------------------------------------
(* The submission of a file.  The invariant ties the position in the file  *)
(* to what the report in progress holds, which is not closed before the    *)
(* file is over.                                                           *)

\* The steps after the report was created, and before it is closed.
Storing == {"update", "read", "close"}

\* How many entries the report in progress holds.
Progress ==
  /\ at \in {"connect", "create"} \cup Storing => position \in 1 .. Readable
  /\ at \in {"connect", "create"} => position = 1
  /\ at \in Storing => report \in DOMAIN stored \ closed
  /\ at = "update" => Len(stored[report]) = position - 1
  /\ at \in {"read", "close"} => Len(stored[report]) = position
  /\ at = "close" => position = Readable

\* What is about to be told, and what was.
Telling ==
  /\ at \in {"out", "connect"} => connection = "none"
  /\ at = "closing" => error # "none"
  /\ at = "closing" /\ error = "ok" =>
       report \in closed \cap DOMAIN stored /\ Len(stored[report]) = Readable
  /\ told = "ok" => at = "out"

SubmissionInv ==
  /\ SubmissionTypeOK /\ Len(stored) <= MaxSubmissions
  /\ StoredInOrder /\ ClosedIsComplete
  /\ Progress /\ Telling /\ OkMeansStored

LEMMA ReadableIsInt ==
  ASSUME SubmissionTypeOK
  PROVE  Readable \in Int /\ Readable <= Len(file.lines) /\ Len(file.lines) \in Nat
BY DEF SubmissionTypeOK, Readable

LEMMA InitSubmission == SubmissionInit => SubmissionInv
<1> SUFFICES ASSUME SubmissionInit PROVE SubmissionInv
  OBVIOUS
<1>1. file \in [lines : Seq(Line), terminated : BOOLEAN]
  BY SubmissionConstants DEF SubmissionInit
<1>2. stored = << >> /\ Len(stored) = 0 /\ DOMAIN stored = {}
  BY DEF SubmissionInit
<1>3. SubmissionTypeOK
  BY <1>1, <1>2 DEF SubmissionInit, SubmissionTypeOK
<1>4. StoredInOrder /\ ClosedIsComplete /\ OkMeansStored /\ Progress /\ Telling
  BY <1>2 DEF SubmissionInit, StoredInOrder, ClosedIsComplete, OkMeansStored, Progress, Telling,
              Storing
<1> QED
  BY <1>2, <1>3, <1>4, SubmissionConstants DEF SubmissionInv

LEMMA SubmitKeeps == SubmissionInv /\ submit_report => SubmissionInv'
<1> SUFFICES ASSUME SubmissionInv, submit_report PROVE SubmissionInv'
  OBVIOUS
<1> USE DEF SubmissionInv
<1>0. Readable \in Int /\ Readable <= Len(file.lines) /\ Len(file.lines) \in Nat
  BY ReadableIsInt
<1>1. Readable' = Readable /\ file' = file /\ stored' = stored /\ closed' = closed
      /\ connection' = connection
  BY DEF submit_report, collectorVars, Readable
<1>2. SubmissionTypeOK'
  BY <1>0, <1>1 DEF submit_report, SubmissionTypeOK, Tell
<1>3. StoredInOrder' /\ ClosedIsComplete'
  BY <1>1 DEF StoredInOrder, ClosedIsComplete
<1>4. Progress'
  BY <1>0, <1>1 DEF submit_report, Progress, Storing, Tell
<1>5. Telling' /\ OkMeansStored'
  BY <1>1 DEF submit_report, Telling, OkMeansStored, Tell
<1> QED
  BY <1>1, <1>2, <1>3, <1>4, <1>5

\* The steps of a submission in which the collector stores nothing.
LEMMA AskKeeps ==
  SubmissionInv /\ (connect \/ PostFails \/ update_reportThrows \/ get_next_entry) => SubmissionInv'
<1> SUFFICES ASSUME SubmissionInv, connect \/ PostFails \/ update_reportThrows \/ get_next_entry
             PROVE  SubmissionInv'
  OBVIOUS
<1> USE DEF SubmissionInv
<1>0. Readable \in Int /\ Readable <= Len(file.lines) /\ Len(file.lines) \in Nat
  BY ReadableIsInt
<1>1. Readable' = Readable /\ file' = file /\ stored' = stored /\ closed' = closed
      /\ report' = report
  BY DEF connect, PostFails, update_reportThrows, get_next_entry, collectorVars, Readable
<1>2. SubmissionTypeOK'
  BY <1>0, <1>1 DEF connect, PostFails, update_reportThrows, get_next_entry, CloseWith, Tell,
                    SubmissionTypeOK, EndOfFile
<1>3. StoredInOrder' /\ ClosedIsComplete'
  BY <1>1 DEF StoredInOrder, ClosedIsComplete
<1>4. Progress'
  <2>1. CASE connect
    BY <1>1, <2>1 DEF connect, Progress, Storing, Tell, Telling, SubmissionTypeOK
  <2>2. CASE PostFails \/ update_reportThrows
    BY <2>2 DEF PostFails, update_reportThrows, CloseWith, Progress, Storing
  <2>3. CASE get_next_entry
    BY <1>0, <1>1, <2>3 DEF get_next_entry, CloseWith, Progress, Storing, EndOfFile
  <2> QED
    BY <2>1, <2>2, <2>3
<1>5. Telling' /\ OkMeansStored'
  BY <1>1 DEF connect, PostFails, update_reportThrows, get_next_entry, CloseWith, Tell,
              Telling, OkMeansStored, SubmissionTypeOK
<1> QED
  BY <1>1, <1>2, <1>3, <1>4, <1>5

LEMMA CreateKeeps == SubmissionInv /\ create_report => SubmissionInv'
<1> SUFFICES ASSUME SubmissionInv, create_report PROVE SubmissionInv'
  OBVIOUS
<1> USE DEF SubmissionInv
<1>0. Readable \in Int /\ Readable <= Len(file.lines) /\ Len(file.lines) \in Nat
  BY ReadableIsInt
<1>1. Readable' = Readable /\ file' = file /\ closed' = closed /\ position' = position
      /\ connection' = connection /\ told' = told /\ position = 1 /\ told # "ok"
  BY DEF create_report, Readable, Progress, Telling
<1>2. /\ stored' \in Seq(Seq(Line)) /\ Len(stored') = Len(stored) + 1
      /\ Len(stored') \in 1 .. MaxSubmissions
      /\ stored'[Len(stored) + 1] = << >> /\ DOMAIN stored' = 1 .. Len(stored) + 1
      /\ \A r \in DOMAIN stored : r \in DOMAIN stored' /\ stored'[r] = stored[r]
  BY SubmissionConstants DEF create_report, SubmissionTypeOK
<1>3. SubmissionTypeOK'
  BY <1>1, <1>2 DEF create_report, SubmissionTypeOK, CloseWith, Report
<1>4. StoredInOrder'
  <2> SUFFICES ASSUME NEW r \in DOMAIN stored'
               PROVE  /\ Len(stored'[r]) <= Readable
                      /\ \A i \in DOMAIN stored'[r] : stored'[r][i] = file.lines[i]
    BY <1>1 DEF StoredInOrder
  <2>1. CASE r \in DOMAIN stored
    BY <1>2, <2>1 DEF StoredInOrder
  <2>2. CASE r = Len(stored) + 1
    BY <1>0, <1>2, <2>2 DEF create_report, Progress
  <2> QED
    BY <1>2, <2>1, <2>2 DEF SubmissionTypeOK
<1>5. ClosedIsComplete'
  BY <1>1, <1>2 DEF ClosedIsComplete
<1>6. Len(stored) + 1 \notin closed
  BY DEF ClosedIsComplete, SubmissionTypeOK
<1>7. Progress'
  BY <1>0, <1>1, <1>2, <1>6 DEF create_report, Progress, Storing, CloseWith
<1>8. Telling' /\ OkMeansStored'
  BY <1>1 DEF create_report, Telling, OkMeansStored, CloseWith
<1> QED
  BY <1>2, <1>3, <1>4, <1>5, <1>7, <1>8

LEMMA UpdateKeeps == SubmissionInv /\ update_report => SubmissionInv'
<1> SUFFICES ASSUME SubmissionInv, update_report PROVE SubmissionInv'
  OBVIOUS
<1> USE DEF SubmissionInv
<1>0. Readable \in Int /\ Readable <= Len(file.lines) /\ Len(file.lines) \in Nat
  BY ReadableIsInt
<1>1. Readable' = Readable /\ file' = file /\ closed' = closed /\ position' = position
      /\ connection' = connection /\ told' = told /\ report' = report /\ told # "ok"
  BY DEF update_report, Readable, Telling
<1>2. /\ position \in 1 .. Readable /\ report \in DOMAIN stored /\ report \notin closed
      /\ Len(stored[report]) = position - 1 /\ stored[report] \in Seq(Line)
      /\ CurrentLine = file.lines[position] /\ CurrentLine \in Line
  BY <1>0 DEF update_report, Progress, Storing, SubmissionTypeOK, CurrentLine
<1>3. /\ stored' \in Seq(Seq(Line)) /\ Len(stored') = Len(stored) /\ DOMAIN stored' = DOMAIN stored
      /\ stored'[report] = Append(stored[report], CurrentLine)
      /\ \A r \in DOMAIN stored : r # report => stored'[r] = stored[r]
  <2>1. Append(stored[report], CurrentLine) \in Seq(Line)
    BY <1>2
  <2> QED
    BY <1>2, <2>1 DEF update_report, SubmissionTypeOK
<1>4. Len(stored'[report]) = position
  BY <1>2, <1>3
<1>5. SubmissionTypeOK'
  BY <1>1, <1>3 DEF update_report, SubmissionTypeOK, CloseWith
<1>6. StoredInOrder'
  <2> SUFFICES ASSUME NEW r \in DOMAIN stored
               PROVE  /\ Len(stored'[r]) <= Readable
                      /\ \A i \in DOMAIN stored'[r] : stored'[r][i] = file.lines[i]
    BY <1>1, <1>3 DEF StoredInOrder
  <2>1. CASE r # report
    BY <1>3, <2>1 DEF StoredInOrder
  <2>2. CASE r = report
    <3>1. Len(stored'[r]) <= Readable
      BY <1>0, <1>2, <1>4, <2>2
    <3>2. ASSUME NEW i \in DOMAIN stored'[r] PROVE stored'[r][i] = file.lines[i]
      BY <1>2, <1>3, <2>2, <3>2 DEF StoredInOrder
    <3> QED
      BY <3>1, <3>2
  <2> QED
    BY <2>1, <2>2
<1>7. ClosedIsComplete'
  BY <1>1, <1>2, <1>3 DEF ClosedIsComplete
<1>8. Progress'
  BY <1>1, <1>2, <1>3, <1>4 DEF update_report, Progress, Storing, CloseWith
<1>9. Telling' /\ OkMeansStored'
  BY <1>1 DEF update_report, Telling, OkMeansStored, CloseWith
<1> QED
  BY <1>3, <1>5, <1>6, <1>7, <1>8, <1>9

LEMMA CloseKeeps == SubmissionInv /\ (close_report \/ TransportCloses) => SubmissionInv'
<1> SUFFICES ASSUME SubmissionInv, close_report \/ TransportCloses PROVE SubmissionInv'
  OBVIOUS
<1> USE DEF SubmissionInv
<1>1. Readable' = Readable /\ file' = file /\ stored' = stored /\ position' = position
      /\ report' = report
  BY DEF close_report, TransportCloses, collectorVars, Readable
<1>2. SubmissionTypeOK'
  <2>1. CASE close_report
    <3>1. report \in Report
      BY <2>1, SubmissionConstants DEF close_report, Progress, Storing, SubmissionTypeOK, Report
    <3> QED
      BY <1>1, <2>1, <3>1 DEF close_report, SubmissionTypeOK, CloseWith
  <2>2. CASE TransportCloses
    BY <1>1, <2>2 DEF TransportCloses, SubmissionTypeOK, Tell, Telling, collectorVars
  <2> QED
    BY <2>1, <2>2
<1>3. StoredInOrder'
  BY <1>1 DEF StoredInOrder
<1>4. ClosedIsComplete' /\ Telling' /\ OkMeansStored'
  <2>1. CASE close_report
    <3>1. report \in DOMAIN stored /\ Len(stored[report]) = Readable /\ report \in closed'
          /\ closed' = closed \cup {report}
      BY <2>1 DEF close_report, Progress, Storing
    <3> QED
      BY <1>1, <2>1, <3>1 DEF close_report, CloseWith, ClosedIsComplete, Telling, OkMeansStored
  <2>2. CASE TransportCloses
    BY <1>1, <2>2 DEF TransportCloses, Tell, collectorVars, ClosedIsComplete, Telling,
                      OkMeansStored
  <2> QED
    BY <2>1, <2>2
<1>5. Progress'
  BY DEF close_report, TransportCloses, CloseWith, Tell, Progress, Storing, SubmissionTypeOK
<1> QED
  BY <1>1, <1>2, <1>3, <1>4, <1>5

\* The invariant holds in every reachable state.
THEOREM SubmissionInvariant == Spec => []SubmissionInv
<1>1. SubmissionInv /\ UNCHANGED submissionVars => SubmissionInv'
  BY DEF SubmissionInv, submissionVars, SubmissionTypeOK, StoredInOrder, ClosedIsComplete, Progress,
         Storing, Telling, OkMeansStored, Readable
<1>2. SubmissionInv /\ [SubmissionNext]_submissionVars => SubmissionInv'
  BY <1>1, SubmitKeeps, AskKeeps, CreateKeeps, UpdateKeeps, CloseKeeps
     DEF SubmissionNext, Respond
<1>3. Init => SubmissionInit
  BY DEF Init
<1>4. [Next]_ooniVars => [SubmissionNext]_submissionVars
  BY DEF Next, Callback, TransportClosed, Resubmission, Synchronization, Configuration, Tracing,
         Over, ooniVars, backendVars
<1> QED
  BY InitSubmission, <1>2, <1>3, <1>4, PTL DEF Spec

\* A submission that succeeds has stored the file, in order and without
\* repetition, in a report that is closed and not touched again.
THEOREM SubmissionStoresTheFile == Spec => []SubmittedWhole
<1>1. SubmissionInv => SubmittedWhole
  BY DEF SubmissionInv, SubmittedWhole
<1> QED
  BY <1>1, SubmissionInvariant, PTL

-----------------------------------------------------------------------------
(* The identity of the probe.  The invariant says what the steps between   *)
(* the requests hold: an update works for an account of the file, a write  *)
(* for an account that exists; and each account but one was lost to a      *)
(* fault.                                                                  *)

\* The requests that are made for an account that the registry has.
ForAccount == {"update", "login", "put", "dump", "write"}

\* A registration begins without an account, that of a file that was not read
\* included.
HasAccount == request \in ForAccount \/ (request = "none" /\ Loadable)

IdentityInv ==
  /\ OrchestraTypeOK
  /\ LoadableMeansRegistered
  /\ good => synced /\ Loadable /\ secrets = auth /\ request = "none"
  /\ request \in ForAccount => auth.username \in accounts
  /\ request \in {"update", "login", "put"} => Loadable
  /\ request \in {"dump", "write"} => synced
  /\ request # "none" => syncs \in Account
  /\ Cardinality(accounts) <= faults + (IF HasAccount THEN 1 ELSE 0)

LEMMA AccountsFinite ==
  ASSUME NEW S \in SUBSET Account
  PROVE  IsFiniteSet(S) /\ Cardinality(S) \in Nat
<1>1. IsFiniteSet(Account)
  BY OrchestraConstants, FS_Interval DEF Account
<1> QED
  BY <1>1, FS_Subset, FS_CardinalityType

\* A new account is one more.
LEMMA OneMore ==
  ASSUME NEW S \in SUBSET Account, NEW a
  PROVE  Cardinality(S \cup {a}) <= Cardinality(S) + 1
<1>1. IsFiniteSet(S) /\ Cardinality(S) \in Nat
  BY AccountsFinite
<1>2. Cardinality(S \cup {a}) = (IF a \in S THEN Cardinality(S) ELSE Cardinality(S) + 1)
  BY <1>1, FS_AddElement
<1> QED
  BY <1>1, <1>2

LEMMA InitIdentity == OrchestraInit => IdentityInv
<1> SUFFICES ASSUME OrchestraInit PROVE IdentityInv
  OBVIOUS
<1>1. OrchestraTypeOK
  <2>1. auth \in Auth /\ secrets \in Auth
    BY DEF OrchestraInit, Auth, NewAuth, Unreadable
  <2>2. issued \in 0 .. MaxTokens /\ syncs \in 0 .. MaxSyncs /\ faults \in Nat
    BY OrchestraConstants DEF OrchestraInit
  <2> QED
    BY <2>1, <2>2 DEF OrchestraInit, OrchestraTypeOK
<1>2. Cardinality(accounts) = 0
  BY FS_EmptySet DEF OrchestraInit
<1> QED
  BY <1>1, <1>2 DEF OrchestraInit, IdentityInv, LoadableMeansRegistered, Loadable, ForAccount, HasAccount

LEMMA SyncKeeps == IdentityInv /\ Sync => IdentityInv'
<1> SUFFICES ASSUME IdentityInv, Sync PROVE IdentityInv'
  OBVIOUS
<1> USE DEF IdentityInv
<1>1. OrchestraTypeOK'
  <2>1. auth' \in Auth /\ secrets' \in Auth
    BY DEF OrchestraTypeOK, Sync, NewAuth, Auth
  <2>2. syncs' \in 0 .. MaxSyncs /\ faults' \in Nat
    BY OrchestraConstants DEF OrchestraTypeOK, Sync, LoadFaults
  <2> QED
    BY <2>1, <2>2 DEF OrchestraTypeOK, Sync, registryVars
<1>2. LoadableMeansRegistered'
  BY DEF Sync, LoadableMeansRegistered, Loadable, Unreadable, registryVars
<1>3. request' \in ForAccount => auth'.username \in accounts' /\ Loadable'
  BY DEF Sync, LoadableMeansRegistered, Loadable, Unreadable, registryVars, ForAccount
<1>4. syncs' \in Account
  BY OrchestraConstants DEF OrchestraTypeOK, Sync, Account
<1>5. Cardinality(accounts') <= faults' + (IF HasAccount' THEN 1 ELSE 0)
  BY AccountsFinite DEF OrchestraTypeOK, Sync, HasAccount, LoadFaults, Loadable, Unreadable,
                        registryVars, ForAccount
<1> QED
  BY <1>1, <1>2, <1>3, <1>4, <1>5 DEF Sync, ForAccount

LEMMA RegisterKeeps == IdentityInv /\ register_probe_ => IdentityInv'
<1> SUFFICES ASSUME IdentityInv, register_probe_ PROVE IdentityInv'
  OBVIOUS
<1> USE DEF IdentityInv
<1>1. accounts' = accounts \cup {syncs} /\ syncs' = syncs /\ syncs \in Account
  BY DEF register_probe_, Registered
<1>2. OrchestraTypeOK'
  <2>1. auth' \in Auth /\ secrets' \in Auth
    BY <1>1 DEF OrchestraTypeOK, register_probe_, SyncFails, Auth
  <2> QED
    BY <1>1, <2>1 DEF OrchestraTypeOK, register_probe_, Registered, SyncFails
<1>3. LoadableMeansRegistered'
  BY <1>1 DEF register_probe_, SyncFails, LoadableMeansRegistered, Loadable, Unreadable
<1>4. Cardinality(accounts') <= Cardinality(accounts) + 1
  BY <1>1, OneMore DEF OrchestraTypeOK
<1>5. Cardinality(accounts) <= faults
  BY AccountsFinite DEF OrchestraTypeOK, register_probe_, HasAccount, ForAccount
<1>6. Cardinality(accounts') \in Nat
  BY <1>2, AccountsFinite DEF OrchestraTypeOK
<1>7. Cardinality(accounts') <= faults' + (IF HasAccount' THEN 1 ELSE 0)
  BY <1>4, <1>5, <1>6, AccountsFinite
     DEF OrchestraTypeOK, register_probe_, SyncFails, HasAccount, ForAccount
<1> QED
  BY <1>1, <1>2, <1>3, <1>7 DEF register_probe_, Registered, SyncFails, ForAccount

\* The requests that change no account, and the errors.
LEMMA RequestKeeps == IdentityInv /\ (maybe_login \/ login \/ update_ \/ Refused) => IdentityInv'
<1> SUFFICES ASSUME IdentityInv, maybe_login \/ login \/ update_ \/ Refused PROVE IdentityInv'
  OBVIOUS
<1> USE DEF IdentityInv
<1>1. /\ accounts' = accounts /\ secrets' = secrets /\ good' = good
      /\ syncs' = syncs /\ faults' = faults /\ auth'.username = auth.username
      /\ good = FALSE
  BY DEF OrchestraTypeOK, Auth, maybe_login, login, update_, Refused, SyncFails, registryVars
<1>2. OrchestraTypeOK'
  <2>1. CASE maybe_login
    BY <2>1 DEF OrchestraTypeOK, maybe_login, registryVars
  <2>2. CASE login
    <3>1. issued + 1 \in Token /\ issued + 1 \in 0 .. MaxTokens
      BY <2>2, OrchestraConstants DEF OrchestraTypeOK, login, Token
    <3>2. auth.username \in Account
      BY <2>2 DEF login, ForAccount, OrchestraTypeOK
    <3>3. auth' \in Auth
      BY <2>2, <3>1 DEF OrchestraTypeOK, Auth, login, SyncFails
    <3> QED
      BY <2>2, <3>1, <3>2, <3>3 DEF OrchestraTypeOK, login, SyncFails
  <2>3. CASE update_
    BY <2>3 DEF OrchestraTypeOK, update_, SyncFails, registryVars
  <2>4. CASE Refused
    BY <2>4 DEF OrchestraTypeOK, Refused, SyncFails, registryVars
  <2> QED
    BY <2>1, <2>2, <2>3, <2>4
<1>3. LoadableMeansRegistered'
  BY <1>1 DEF LoadableMeansRegistered, Loadable, Unreadable
<1>4. /\ request' \in ForAccount => request \in ForAccount /\ Loadable
      /\ request' \in {"dump", "write"} => synced'
  BY DEF maybe_login, login, update_, Refused, SyncFails, registryVars, ForAccount
<1>5. Cardinality(accounts') <= faults' + (IF HasAccount' THEN 1 ELSE 0)
  BY <1>1, AccountsFinite
     DEF OrchestraTypeOK, maybe_login, login, update_, Refused, SyncFails, HasAccount, ForAccount,
         Loadable, Unreadable
<1>6. request # "none"
  BY DEF maybe_login, login, update_, Refused
<1> QED
  BY <1>1, <1>2, <1>3, <1>4, <1>5, <1>6 DEF Loadable, Unreadable, ForAccount

LEMMA DumpKeeps == IdentityInv /\ (Truncate \/ Write) => IdentityInv'
<1> SUFFICES ASSUME IdentityInv, Truncate \/ Write PROVE IdentityInv'
  OBVIOUS
<1> USE DEF IdentityInv
<1>1. /\ accounts' = accounts /\ auth' = auth /\ synced' = synced /\ syncs' = syncs
      /\ synced /\ good = FALSE /\ auth.username \in accounts /\ request # "none"
  BY DEF OrchestraTypeOK, Truncate, Write, SyncFails, registryVars, ForAccount
<1>2. OrchestraTypeOK'
  <2>1. Unreadable \in Auth
    BY DEF Unreadable, Auth
  <2>2. CASE Truncate
    BY <2>1, <2>2 DEF OrchestraTypeOK, Truncate, SyncFails, registryVars
  <2>3. CASE Write
    <3>1. faults' \in Nat /\ secrets' \in Auth
      BY <2>3 DEF OrchestraTypeOK, Write
    <3>2. good' \in BOOLEAN
      BY <2>3 DEF OrchestraTypeOK, Write
    <3> QED
      BY <2>3, <3>1, <3>2 DEF OrchestraTypeOK, Write, registryVars
  <2> QED
    BY <2>2, <2>3
<1>3. auth # Unreadable
  BY <1>1 DEF OrchestraTypeOK, Unreadable, Account
<1>4. LoadableMeansRegistered'
  BY <1>1 DEF LoadableMeansRegistered, Loadable, Truncate, Write, SyncFails
<1>5. good' => secrets' = auth /\ request' = "none"
  BY <1>1 DEF Truncate, Write, SyncFails
<1>6. Cardinality(accounts') <= faults' + (IF HasAccount' THEN 1 ELSE 0)
  BY <1>1, <1>3, AccountsFinite
     DEF OrchestraTypeOK, Truncate, Write, SyncFails, HasAccount, ForAccount, Loadable
<1> QED
  BY <1>1, <1>2, <1>3, <1>4, <1>5, <1>6 DEF Truncate, Write, SyncFails, Loadable

LEMMA KilledKeeps == IdentityInv /\ Killed => IdentityInv'
<1> SUFFICES ASSUME IdentityInv, Killed PROVE IdentityInv'
  OBVIOUS
<1> USE DEF IdentityInv
<1>1. OrchestraTypeOK'
  <2>1. NewAuth \in Auth
    BY DEF NewAuth, Auth
  <2> QED
    BY <2>1 DEF OrchestraTypeOK, Killed, registryVars
<1>2. LoadableMeansRegistered' /\ good = FALSE
  BY DEF Killed, LoadableMeansRegistered, Loadable, registryVars, OrchestraTypeOK
<1>3. Cardinality(accounts') <= faults' + (IF HasAccount' THEN 1 ELSE 0)
  BY AccountsFinite
     DEF OrchestraTypeOK, Killed, registryVars, HasAccount, ForAccount, Loadable
<1> QED
  BY <1>1, <1>2, <1>3 DEF Killed, ForAccount

LEMMA TokenEndsKeeps == IdentityInv /\ (TokenEnds \/ UNCHANGED orchestraVars) => IdentityInv'
<1> SUFFICES ASSUME IdentityInv, TokenEnds \/ UNCHANGED orchestraVars PROVE IdentityInv'
  OBVIOUS
<1>1. /\ tokens' \subseteq Token \X Account /\ expired' \subseteq Token
  BY DEF IdentityInv, OrchestraTypeOK, TokenEnds, orchestraVars
<1>2. UNCHANGED <<request, auth, secrets, good, accounts, synced, issued, syncs, faults>>
  BY DEF TokenEnds, orchestraVars
<1> QED
  BY <1>1, <1>2 DEF IdentityInv, OrchestraTypeOK, LoadableMeansRegistered, Loadable, HasAccount

\* The invariant holds in every reachable state.
THEOREM OrchestraInvariant == Spec => []IdentityInv
<1>1. IdentityInv /\ [OrchestraNext]_orchestraVars => IdentityInv'
  BY SyncKeeps, RegisterKeeps, RequestKeeps, DumpKeeps, KilledKeeps, TokenEndsKeeps
     DEF OrchestraNext, Reply
<1>2. Init => OrchestraInit
  BY DEF Init
<1>3. [Next]_ooniVars => [OrchestraNext]_orchestraVars
  BY DEF Next, Callback, TransportClosed, Resubmission, Synchronization, Configuration, Tracing,
         Over, ooniVars, backendVars
<1> QED
  BY InitIdentity, <1>1, <1>2, <1>3, PTL DEF Spec

\* sync() keeps the identity of the probe: a readable file names an account that
\* exists, a good result is true, and each further account stands for a fault.
THEOREM OrchestraKeepsIdentity == Spec => []IdentityKept
<1>1. IdentityInv => IdentityKept
  <2>1. IdentityInv => Cardinality(accounts) \in Nat /\ faults \in Nat
    BY AccountsFinite DEF IdentityInv, OrchestraTypeOK
  <2> QED
    BY <2>1 DEF IdentityInv, IdentityKept, GoodMeansSynced, KeepsIdentity
<1> QED
  BY <1>1, OrchestraInvariant, PTL

-----------------------------------------------------------------------------
(* The metadata of mkapi.                                                  *)

Fields == Local \cup Optional \cup Required
Whole(m) == m = [f \in Fields |-> m[f]]

\* The copy that sync() works on is the client at the call; when the registry
\* is asked, what was missing is there, and what was told keeps the promise.
MetadataKept ==
  /\ \A m \in {client, meta, atCall} : Whole(m)
  /\ step \in {"idle", "meta", "ask", "dump"}
  /\ step = "meta" => meta = atCall
  /\ step \in {"meta", "ask"} => reported = Nothing
  /\ step = "ask" =>
       LET known == WithDefaults(atCall, "linux") IN
       IF LocationKnown(atCall) THEN meta = known
       ELSE found \in Locations /\ meta = Located(known, found)

MetadataInv == MetadataKept /\ MetadataTold

\* What completes the metadata leaves the fields alone that were set.
LEMMA Completed ==
  ASSUME NEW m, Whole(m), NEW place
  PROVE  LET known == WithDefaults(m, "linux") located == Located(known, place) IN
         /\ Whole(known) /\ Whole(located)
         /\ \A f \in Fields \ {"platform", "supported_tests"} : known[f] = m[f]
         /\ \A f \in Fields \ {"probe_asn", "probe_cc"} : located[f] = known[f]
         /\ m.platform # "" => known.platform = m.platform
         /\ m.supported_tests # << >> => known.supported_tests = m.supported_tests
         /\ located.probe_asn = place.asn /\ located.probe_cc = place.cc
<1>1. {"platform", "supported_tests", "probe_asn", "probe_cc"} \subseteq Fields
  BY DEF Fields, Local, Optional, Required
<1> QED
  BY <1>1 DEF WithDefaults, Located, Whole

\* What the registry is told of such metadata is what was set, and the place.
LEMMA JsonTells ==
  ASSUME NEW m, Whole(m), NEW c, Whole(c),
         \A f \in Fields \ {"platform", "supported_tests", "probe_asn", "probe_cc"} : m[f] = c[f],
         c.platform # "" => m.platform = c.platform,
         c.supported_tests # << >> => m.supported_tests = c.supported_tests
  PROVE  LET sent == as_json(m) given == DOMAIN c \ Empty(c) IN
         /\ \A f \in (given \ Local) \ {"probe_asn", "probe_cc"} :
              f \in DOMAIN sent /\ sent[f] = c[f]
         /\ DOMAIN sent \ given \subseteq Required \cup {"supported_tests"}
         /\ sent.probe_asn = m.probe_asn /\ sent.probe_cc = m.probe_cc
         /\ sent.platform = m.platform
         /\ m.device_token # "" => "device_token" \in DOMAIN sent
<1> DEFINE sent == as_json(m)
           given == DOMAIN c \ Empty(c)
<1>1. /\ DOMAIN sent = Required \cup (Optional \ Empty(m))
      /\ \A f \in DOMAIN sent : sent[f] = m[f]
  BY DEF as_json
<1>2. DOMAIN m = Fields /\ DOMAIN c = Fields /\ "supported_tests" \in Optional
  BY DEF Optional, Whole
<1>3. /\ \A f \in Fields \ {"supported_tests"} : (f \in Empty(m) <=> m[f] = "") /\ (f \in Empty(c) <=> c[f] = "")
      /\ "supported_tests" \in Empty(m) <=> m.supported_tests = << >>
      /\ "supported_tests" \in Empty(c) <=> c.supported_tests = << >>
  BY <1>2 DEF Empty
<1>4. {"platform", "probe_asn", "probe_cc"} \cap Optional = {} /\ {"platform", "probe_asn", "probe_cc"} \subseteq Required
  BY DEF Optional, Required
<1> HIDE DEF sent
<1>5. ASSUME NEW f \in (given \ Local) \ {"probe_asn", "probe_cc"}
      PROVE  f \in DOMAIN sent /\ sent[f] = c[f]
  <2>1. f \in Fields /\ f \notin Empty(c) /\ f \in Optional \cup Required
    BY <1>2 DEF Fields
  <2>2. m[f] = c[f] /\ f \notin Empty(m)
    BY <1>3, <2>1
  <2> QED
    BY <1>1, <2>1, <2>2
<1>6. ASSUME NEW f \in DOMAIN sent, f \notin given
      PROVE  f \in Required \cup {"supported_tests"}
  <2> SUFFICES ASSUME f \in Optional \ Empty(m), f # "supported_tests" PROVE FALSE
    BY <1>1
  <2>1. f \in Fields /\ m[f] = c[f]
    BY <1>4 DEF Fields
  <2> QED
    BY <1>2, <1>3, <1>6, <2>1
<1>7. "device_token" \in Fields /\ "device_token" \in Optional /\ "device_token" # "supported_tests"
  BY DEF Fields, Optional
<1>8. /\ sent.probe_asn = m.probe_asn /\ sent.probe_cc = m.probe_cc /\ sent.platform = m.platform
      /\ m.device_token # "" => "device_token" \in DOMAIN sent
  BY <1>1, <1>3, <1>4, <1>7
<1> QED
  BY <1>5, <1>6, <1>8 DEF sent

LEMMA InitMetadata == Init => MetadataInv
<1> SUFFICES ASSUME Init PROVE MetadataInv
  OBVIOUS
<1>1. /\ client = NewClient /\ meta = NewClient /\ atCall = NewClient /\ step = "idle"
      /\ reported = Nothing
  BY DEF Init, MkapiInit
<1>2. Whole(NewClient)
  BY DEF NewClient, Fields, Whole
<1> QED
  BY <1>1, <1>2 DEF MetadataInv, MetadataKept, MetadataTold

LEMMA SetterKeeps == MetadataInv /\ Setter => MetadataInv'
<1> SUFFICES ASSUME MetadataInv, Setter PROVE MetadataInv'
  OBVIOUS
<1>1. UNCHANGED syncVars
  BY DEF Setter
<1>2. Whole(client)
  BY DEF MetadataInv, MetadataKept
<1>3. \E f, text : client' = [client EXCEPT ![f] = text]
  BY DEF Setter, Set, add_supported_test
<1>4. Whole(client')
  BY <1>2, <1>3 DEF Whole
<1>5. MetadataKept'
  BY <1>1, <1>4 DEF MetadataInv, MetadataKept, syncVars
<1>6. MetadataTold'
  BY <1>1 DEF MetadataInv, MetadataTold, syncVars
<1> QED
  BY <1>5, <1>6 DEF MetadataInv

LEMMA RetrieveKeeps == MetadataInv /\ ctx_retrieve_missing_meta_ => MetadataInv'
<1> SUFFICES ASSUME MetadataInv, ctx_retrieve_missing_meta_ PROVE MetadataInv'
  OBVIOUS
<1> DEFINE known == WithDefaults(atCall, "linux")
<1>1. /\ step = "meta" /\ meta = atCall /\ Whole(atCall)
      /\ Whole(client) /\ reported = Nothing
      /\ UNCHANGED <<client, sets, asks, atCall, reported>>
  BY DEF MetadataInv, MetadataKept, ctx_retrieve_missing_meta_
<1>2. LocationKnown(known) <=> LocationKnown(atCall)
  <2>1. {"probe_asn", "probe_cc"} \subseteq Fields \ {"platform", "supported_tests"}
    BY DEF Fields, Required
  <2> QED
    BY <1>1, <2>1, Completed DEF LocationKnown
<1>3. \/ LocationKnown(known) /\ meta' = known /\ step' = "ask"
      \/ /\ ~LocationKnown(known) /\ step' = "ask"
         /\ found' \in Locations /\ meta' = Located(known, found')
      \/ meta' = Located(known, Nowhere) /\ step' = "idle"
  BY <1>1 DEF ctx_retrieve_missing_meta_, SyncFailed
<1>4. Whole(meta')
  <2>1. \A place : Whole(Located(known, place))
    BY <1>1, Completed
  <2>2. Whole(known)
    BY <1>1, Completed
  <2> HIDE DEF known
  <2> QED
    BY <1>3, <2>1, <2>2
<1>5. MetadataKept'
  BY <1>1, <1>2, <1>3, <1>4 DEF MetadataKept
<1>6. MetadataTold'
  BY <1>1 DEF MetadataTold
<1> QED
  BY <1>5, <1>6 DEF MetadataInv

LEMMA TellKeeps == MetadataInv /\ TellRegistry => MetadataInv'
<1> SUFFICES ASSUME MetadataInv, TellRegistry PROVE MetadataInv'
  OBVIOUS
<1> DEFINE known == WithDefaults(atCall, "linux")
<1>1. /\ step = "ask" /\ step' \in {"dump", "idle"} /\ reported' = as_json(meta)
      /\ asks = "register" => ~MissingRequired(meta)
      /\ UNCHANGED <<client, meta, asks, found, atCall>>
  BY DEF TellRegistry, SyncFailed
<1>2. /\ \A m \in {client, meta, atCall} : Whole(m)
      /\ IF LocationKnown(atCall) THEN meta = known
         ELSE found \in Locations /\ meta = Located(known, found)
  BY <1>1 DEF MetadataInv, MetadataKept
<1>3. /\ Whole(atCall) /\ Whole(meta)
      /\ {"platform", "supported_tests", "probe_asn", "probe_cc"} \subseteq Fields
  BY <1>2 DEF Fields, Required, Optional
<1>4. /\ \A f \in Fields \ {"platform", "supported_tests", "probe_asn", "probe_cc"} : meta[f] = atCall[f]
      /\ atCall.platform # "" => meta.platform = atCall.platform
      /\ atCall.supported_tests # << >> => meta.supported_tests = atCall.supported_tests
      /\ IF LocationKnown(atCall)
         THEN meta.probe_asn = atCall.probe_asn /\ meta.probe_cc = atCall.probe_cc
         ELSE found \in Locations /\ meta.probe_asn = found.asn /\ meta.probe_cc = found.cc
  <2> DEFINE located == Located(known, found)
  <2>1. /\ \A f \in Fields \ {"platform", "supported_tests"} : known[f] = atCall[f]
        /\ \A f \in Fields \ {"probe_asn", "probe_cc"} : located[f] = known[f]
        /\ atCall.platform # "" => known.platform = atCall.platform
        /\ atCall.supported_tests # << >> => known.supported_tests = atCall.supported_tests
        /\ located.probe_asn = found.asn /\ located.probe_cc = found.cc
    BY <1>3, Completed
  <2>2. IF LocationKnown(atCall) THEN meta = known ELSE found \in Locations /\ meta = located
    BY <1>2
  <2> HIDE DEF known, located
  <2> QED
    BY <1>3, <2>1, <2>2
<1>5. asks = "register" /\ meta.platform = "android" => meta.device_token # ""
  BY <1>1 DEF MissingRequired
<1>6. MetadataKept'
  BY <1>1, <1>2 DEF MetadataKept
<1>7. MetadataTold'
  <2> DEFINE given == DOMAIN atCall \ Empty(atCall)
  <2>1. /\ \A f \in (given \ Local) \ {"probe_asn", "probe_cc"} :
             f \in DOMAIN reported' /\ reported'[f] = atCall[f]
        /\ DOMAIN reported' \ given \subseteq Required \cup {"supported_tests"}
        /\ reported'.probe_asn = meta.probe_asn /\ reported'.probe_cc = meta.probe_cc
        /\ reported'.platform = meta.platform
        /\ meta.device_token # "" => "device_token" \in DOMAIN reported'
    <3> DEFINE sent == as_json(meta)
    <3>1. /\ \A f \in Fields \ {"platform", "supported_tests", "probe_asn", "probe_cc"} : meta[f] = atCall[f]
          /\ atCall.platform # "" => meta.platform = atCall.platform
          /\ atCall.supported_tests # << >> => meta.supported_tests = atCall.supported_tests
          /\ Whole(meta) /\ Whole(atCall)
      BY <1>3, <1>4
    <3>2. /\ \A f \in (given \ Local) \ {"probe_asn", "probe_cc"} :
               f \in DOMAIN sent /\ sent[f] = atCall[f]
          /\ DOMAIN sent \ given \subseteq Required \cup {"supported_tests"}
          /\ sent.probe_asn = meta.probe_asn /\ sent.probe_cc = meta.probe_cc
          /\ sent.platform = meta.platform
          /\ meta.device_token # "" => "device_token" \in DOMAIN sent
      BY <3>1, JsonTells
    <3> QED
      BY <1>1, <3>2
  <2> HIDE DEF given
  <2>2. LET place == [asn |-> reported'.probe_asn, cc |-> reported'.probe_cc] IN
        IF LocationKnown(atCall) THEN place = [asn |-> atCall.probe_asn, cc |-> atCall.probe_cc]
        ELSE place \in Locations /\ place = found
    BY <1>4, <2>1, MkapiConstants
  <2> USE DEF given
  <2> QED
    BY <1>1, <1>5, <2>1, <2>2 DEF MetadataTold
<1> QED
  BY <1>6, <1>7 DEF MetadataInv

LEMMA OtherStepsKeep == MetadataInv /\ (SyncCalled \/ NotTold \/ Dump) => MetadataInv'
<1> SUFFICES ASSUME MetadataInv, SyncCalled \/ NotTold \/ Dump PROVE MetadataInv'
  OBVIOUS
<1>1. CASE SyncCalled
  BY <1>1 DEF SyncCalled, MetadataInv, MetadataKept, MetadataTold
<1>2. CASE NotTold \/ Dump
  BY <1>2 DEF NotTold, Dump, SyncFailed, MetadataInv, MetadataKept, MetadataTold
<1> QED
  BY <1>1, <1>2

\* The registry is told what was set when sync() was called, of one network,
\* and nothing else, whatever is set meanwhile.
THEOREM MkapiTellsMetadata == Spec => []MetadataTold
<1>1. ASSUME MetadataInv, UNCHANGED mkapiVars
      PROVE  MetadataInv'
  BY <1>1 DEF mkapiVars, MetadataInv, MetadataKept, MetadataTold
<1>2. MetadataInv /\ MkapiNext => MetadataInv'
  BY SetterKeeps, RetrieveKeeps, TellKeeps, OtherStepsKeep DEF MkapiNext, MkapiSteps
<1>3. [Next]_ooniVars => MkapiNext \/ UNCHANGED mkapiVars
  BY DEF Next, Callback, TransportClosed, Resubmission, Synchronization, Configuration, Tracing,
         Over, ooniVars, backendVars
<1>4. MetadataInv => MetadataTold
  BY DEF MetadataInv
<1> QED
  BY InitMetadata, <1>1, <1>2, <1>3, <1>4, PTL DEF Spec

-----------------------------------------------------------------------------
(* The probes of a traceroute.                                             *)

Call == [probe : Probe, point : {"init", "send"}]
Answer == [probe : Probe, kind : Answers]

\* The probes that a stack of calls is about, each of them once.
In(k, stack) == \E i \in DOMAIN stack : stack[i].probe = k
Stack(stack) ==
  /\ stack \in Seq(Call)
  /\ \A i, j \in DOMAIN stack : stack[i].probe = stack[j].probe => i = j

\* They were asked for, and nobody waits for them; init() did not fail before.
Fits(stack, asked, waited, failed) ==
  \A i \in DOMAIN stack :
    /\ stack[i].probe <= asked /\ stack[i].probe # waited
    /\ stack[i].point = "init" => stack[i].probe \notin failed

Traced ==
  /\ probe_pending \in BOOLEAN /\ aborted \in BOOLEAN /\ use_ipv4 \in BOOLEAN
  /\ ttl \in 0 .. MaxTtl /\ polled \in 0 .. ttl /\ unopened \subseteq 1 .. ttl
  /\ Stack(calls) /\ Fits(calls, ttl, polled, unopened)
  /\ aborted => calls = << >> /\ polled = 0 /\ ttl > 0
  /\ OneOutstanding

\* A callback for init(), if it failed, and one unless it is still to come.
Owed(k) == In(k, calls) \/ polled = k
Counted ==
  /\ callbacks \in [Probe -> Nat]
  /\ ~aborted =>
       \A k \in Probe :
         callbacks[k] = IF k > ttl THEN 0
                        ELSE (IF k \in unopened THEN 1 ELSE 0) + (IF Owed(k) THEN 0 ELSE 1)

\* What the network holds of an answer is of the probe that is waited for,
\* unless a probe was given up; and a result has the meaning of its answer.
Result(r) ==
  /\ r.meaning \in {r.kind, "OTHER"}
  /\ r.meaning = "OTHER" => r.kind # "TTL_EXCEEDED"
Answered ==
  /\ flying \subseteq Probe /\ arrived \in Seq(Answer)
  /\ \A k \in Probe : Result(result[k])
  /\ result = [k \in Probe |-> result[k]]
  /\ given_up = {} =>
       /\ \A k \in Probe : result[k].probe \in {0, k}
       /\ ~aborted =>
            \/ flying = {} /\ arrived = << >>
            \/ polled # 0 /\ flying = {polled} /\ arrived = << >>
            \/ polled # 0 /\ flying = {} /\ Len(arrived) = 1 /\ arrived[1].probe = polled

TracerouteInv == Traced /\ Counted /\ Answered


-----------------------------------------------------------------------------
(* The stack of calls, and what an answer means.                           *)

\* The innermost call leaves the stack.
LEMMA TailStack ==
  ASSUME NEW s, Stack(s), s # << >>
  PROVE  /\ s[1] \in Call /\ Stack(Tail(s))
         /\ In(s[1].probe, s) /\ ~In(s[1].probe, Tail(s))
         /\ \A k : k # s[1].probe => (In(k, Tail(s)) <=> In(k, s))
         /\ \A t, w, u : Fits(s, t, w, u) => Fits(Tail(s), t, w, u)
<1>1. s \in Seq(Call) /\ \A i, j \in DOMAIN s : s[i].probe = s[j].probe => i = j
  BY DEF Stack
<1>2. /\ Len(s) \in Nat \ {0} /\ DOMAIN s = 1 .. Len(s) /\ 1 \in DOMAIN s
      /\ Tail(s) \in Seq(Call) /\ DOMAIN Tail(s) = 1 .. Len(s) - 1
      /\ \A i \in DOMAIN Tail(s) : Tail(s)[i] = s[i + 1] /\ i + 1 \in DOMAIN s
      /\ \A i \in DOMAIN s : i = 1 \/ (i - 1 \in DOMAIN Tail(s) /\ Tail(s)[i - 1] = s[i])
  BY <1>1
<1>3. s[1] \in Call
  BY <1>1, <1>2
<1>4. Stack(Tail(s))
  BY <1>1, <1>2 DEF Stack
<1>5. ~In(s[1].probe, Tail(s))
  BY <1>1, <1>2 DEF In
<1>6. ASSUME NEW k, k # s[1].probe
      PROVE  In(k, Tail(s)) <=> In(k, s)
  <2>1. In(k, Tail(s)) => In(k, s)
    BY <1>2 DEF In
  <2>2. In(k, s) => In(k, Tail(s))
    BY <1>2, <1>6 DEF In
  <2> QED
    BY <2>1, <2>2
<1>7. \A t, w, u : Fits(s, t, w, u) => Fits(Tail(s), t, w, u)
  BY <1>2 DEF Fits
<1>8. In(s[1].probe, s)
  BY <1>2 DEF In
<1> QED
  BY <1>3, <1>4, <1>5, <1>6, <1>7, <1>8

\* A call about another probe is put on top of it.
LEMMA PushStack ==
  ASSUME NEW c \in Call, NEW s, Stack(s), ~In(c.probe, s)
  PROVE  /\ Stack(<<c>> \o s) /\ <<c>> \o s # << >>
         /\ \A k : In(k, <<c>> \o s) <=> (k = c.probe \/ In(k, s))
<1> DEFINE p == <<c>> \o s
<1>1. s \in Seq(Call) /\ \A i, j \in DOMAIN s : s[i].probe = s[j].probe => i = j
  BY DEF Stack
<1>2. /\ Len(s) \in Nat /\ DOMAIN s = 1 .. Len(s)
      /\ p \in Seq(Call) /\ Len(p) = Len(s) + 1 /\ DOMAIN p = 1 .. Len(s) + 1 /\ p[1] = c
      /\ \A i \in DOMAIN p : i # 1 => i - 1 \in DOMAIN s /\ p[i] = s[i - 1]
      /\ \A i \in DOMAIN s : i + 1 \in DOMAIN p /\ p[i + 1] = s[i]
  BY <1>1
<1> HIDE DEF p
<1>3. \A i \in DOMAIN s : s[i].probe # c.probe
  BY DEF In
<1>4. Stack(p)
  <2> SUFFICES ASSUME NEW i \in DOMAIN p, NEW j \in DOMAIN p, p[i].probe = p[j].probe
               PROVE  i = j
    BY <1>2 DEF Stack
  <2>1. CASE i = 1 \/ j = 1
    BY <1>2, <1>3, <2>1
  <2>2. CASE i # 1 /\ j # 1
    <3>1. i - 1 = j - 1
      BY <1>1, <1>2, <2>2
    <3> QED
      BY <1>2, <3>1
  <2> QED
    BY <2>1, <2>2
<1>5. ASSUME NEW k
      PROVE  In(k, p) <=> (k = c.probe \/ In(k, s))
  <2>1. In(k, p) => k = c.probe \/ In(k, s)
    BY <1>2 DEF In
  <2>2. 1 \in DOMAIN p
    BY <1>2
  <2>3. k = c.probe \/ In(k, s) => In(k, p)
    BY <1>2, <2>2 DEF In
  <2> QED
    BY <2>1, <2>3
<1>6. p # << >>
  BY <1>2
<1> QED
  BY <1>4, <1>5, <1>6 DEF p

LEMMA PushFits ==
  ASSUME NEW c \in Call, NEW s, Stack(s), NEW t, NEW w, NEW u, Fits(s, t, w, u),
         c.probe <= t, c.probe # w, c.point = "init" => c.probe \notin u
  PROVE  Fits(<<c>> \o s, t, w, u)
<1> DEFINE p == <<c>> \o s
<1>1. s \in Seq(Call)
  BY DEF Stack
<1>2. \A i \in DOMAIN p : (i = 1 /\ p[i] = c) \/ (i - 1 \in DOMAIN s /\ p[i] = s[i - 1])
  BY <1>1
<1> HIDE DEF p
<1>3. Fits(p, t, w, u)
  BY <1>2 DEF Fits
<1> QED
  BY <1>3 DEF p

\* The application is told: it asks for the next probe, or does not.
Told(k, stack) ==
  /\ callbacks' = [callbacks EXCEPT ![k] = @ + 1]
  /\ \/ calls' = stack /\ ttl' = ttl
     \/ /\ ttl # MaxTtl /\ ttl' = ttl + 1
        /\ calls' = <<[probe |-> ttl + 1, point |-> "init"]>> \o stack

LEMMA ToldKeeps ==
  ASSUME Traced, NEW k, NEW stack, NEW waited \in 0 .. ttl, NEW failed \in SUBSET (1 .. ttl),
         Stack(stack), Fits(stack, ttl, waited, failed), Told(k, stack)
  PROVE  /\ callbacks' = [callbacks EXCEPT ![k] = @ + 1]
         /\ ttl' \in 0 .. MaxTtl /\ (ttl' = ttl \/ ttl' = ttl + 1)
         /\ Stack(calls') /\ Fits(calls', ttl', waited, failed)
         /\ \A j \in Probe : In(j, calls') <=> (In(j, stack) \/ (ttl' # ttl /\ j = ttl'))
<1>1. ttl \in 0 .. MaxTtl /\ MaxTtl \in Nat \ {0}
  BY TracerouteConstants DEF Traced
<1>2. CASE calls' = stack /\ ttl' = ttl
  BY <1>1, <1>2 DEF Told
<1>3. CASE ~(calls' = stack /\ ttl' = ttl)
  <2> DEFINE c == [probe |-> ttl + 1, point |-> "init"]
  <2>1. /\ callbacks' = [callbacks EXCEPT ![k] = @ + 1] /\ ttl # MaxTtl
        /\ ttl' = ttl + 1 /\ calls' = <<c>> \o stack
    BY <1>3 DEF Told
  <2>2. c \in Call /\ c.probe = ttl + 1 /\ c.point = "init" /\ c.probe # waited /\ c.probe \notin failed
    BY <1>1, <2>1 DEF Call, Probe
  <2>3. \A i \in DOMAIN stack : stack[i].probe \in Nat /\ stack[i].probe <= ttl
    <3>1. \A i \in DOMAIN stack : stack[i] \in Call /\ stack[i].probe <= ttl
      BY DEF Fits, Stack
    <3> QED
      BY <3>1 DEF Call, Probe
  <2>4. ~In(ttl + 1, stack) /\ Fits(stack, ttl + 1, waited, failed)
    BY <1>1, <2>3 DEF In, Fits
  <2> HIDE DEF c
  <2>5. /\ Stack(calls') /\ \A j : In(j, calls') <=> (j = c.probe \/ In(j, stack))
    BY <2>1, <2>2, <2>4, PushStack
  <2>6. c.probe <= ttl + 1
    BY <1>1, <2>2
  <2>7. Fits(calls', ttl', waited, failed)
    BY <2>1, <2>2, <2>4, <2>6, PushFits
  <2> QED
    BY <1>1, <2>1, <2>2, <2>5, <2>7
<1> QED
  BY <1>2, <1>3

\* What is told is what the router meant, or "OTHER", in both families.
LEMMA Meanings ==
  ASSUME NEW kind \in Answers, use_ipv4 \in BOOLEAN
  PROVE  /\ get_meaning(kind) \in {kind, "OTHER"}
         /\ get_meaning(kind) = "OTHER" => kind # "TTL_EXCEEDED"
<1>1. kind \in {"TTL_EXCEEDED", "PORT_IS_CLOSED", "ADMIN_FILTER", "GOT_REPLY_PACKET", "LOCAL"}
  BY TracerouteConstants
<1>2. CASE kind = "GOT_REPLY_PACKET"
  BY <1>2 DEF get_meaning
<1>3. CASE use_ipv4 /\ kind # "GOT_REPLY_PACKET"
  BY <1>1, <1>3 DEF get_meaning, Encoded, MAPPINGv4
<1>4. CASE ~use_ipv4 /\ kind # "GOT_REPLY_PACKET"
  BY <1>1, <1>4 DEF get_meaning, Encoded, MAPPINGv6
<1> QED
  BY <1>2, <1>3, <1>4

\* The answer that is read is one of those that arrived; the others stay.
LEMMA NextAnswerArrived ==
  ASSUME arrived \in Seq(Answer), arrived # << >>
  PROVE  /\ NextAnswer \in DOMAIN arrived
         /\ RemoveAt(arrived, NextAnswer) \in Seq(Answer)
         /\ Len(arrived) = 1 => RemoveAt(arrived, NextAnswer) = << >>
<1>1. Len(arrived) \in Nat \ {0} /\ DOMAIN arrived = 1 .. Len(arrived)
  BY EmptySeq
<1>2. NextAnswer \in DOMAIN arrived
  <2> DEFINE errors == {i \in 1 .. Len(arrived) : IsError(arrived[i])}
  <2>1. CASE errors = {}
    BY <1>1, <2>1 DEF NextAnswer, SelectInSeq
  <2>2. CASE errors # {}
    <3>1. NextAnswer = Min(errors)
      BY <1>1, <2>2 DEF NextAnswer, SelectInSeq
    <3>2. errors \subseteq 1 .. Len(arrived) /\ errors \subseteq Nat
      BY <1>1
    <3> HIDE DEF errors
    <3>3. PICK first \in errors : \A i \in errors : ~ (<<i, first>> \in OpToRel(<, Nat))
      BY <2>2, <3>2, NatLessThanWellFounded, WFMin
    <3>4. \A i \in errors : ~ (i < first)
      BY <3>2, <3>3 DEF OpToRel
    <3>5. \A i \in errors : first <= i
      BY <3>2, <3>4
    <3>6. Min(errors) \in errors
      BY <3>5 DEF Min
    <3> QED
      BY <1>1, <3>1, <3>2, <3>6
  <2> QED
    BY <2>1, <2>2
<1> DEFINE n == NextAnswer
           before == SubSeq(arrived, 1, n - 1)
           after == SubSeq(arrived, n + 1, Len(arrived))
<1>3. RemoveAt(arrived, n) = before \o after
  BY DEF RemoveAt
<1>4. n \in 1 .. Len(arrived)
  BY <1>1, <1>2
<1> HIDE DEF n
<1>5. before \in Seq(Answer) /\ after \in Seq(Answer)
  <2>1. \A i \in 1 .. Len(arrived) : arrived[i] \in Answer
    BY <1>1
  <2>2. \A i \in 1 .. n - 1 : arrived[i] \in Answer
    BY <1>1, <1>4, <2>1
  <2>3. \A i \in n + 1 .. Len(arrived) : arrived[i] \in Answer
    BY <1>1, <1>4, <2>1
  <2>4. 1 \in Int /\ n - 1 \in Int /\ n + 1 \in Int /\ Len(arrived) \in Int
    BY <1>1, <1>4
  <2> QED
    BY <2>2, <2>3, <2>4, SubSeqProperties
<1>6. ASSUME Len(arrived) = 1
      PROVE  before = << >> /\ after = << >>
  <2>1. n = 1 /\ n - 1 < 1 /\ Len(arrived) < n + 1
    BY <1>1, <1>4, <1>6
  <2>2. 1 \in Int /\ n - 1 \in Int /\ n + 1 \in Int /\ Len(arrived) \in Int
    BY <1>1, <1>4
  <2> QED
    BY <2>1, <2>2, SubSeqEmpty
<1> HIDE DEF before, after
<1>7. before \o after \in Seq(Answer)
  BY <1>5, ConcatProperties
<1>8. Len(arrived) = 1 => before \o after = << >>
  BY <1>5, <1>6, ConcatEmptySeq
<1> QED
  BY <1>2, <1>3, <1>7, <1>8 DEF n

-----------------------------------------------------------------------------
(* The invariant of a traceroute.                                          *)

LEMMA InitTraceroute == Init => TracerouteInv
<1> SUFFICES ASSUME Init PROVE TracerouteInv
  OBVIOUS
<1>1. /\ use_ipv4 \in BOOLEAN /\ probe_pending = FALSE /\ calls = << >> /\ ttl = 0 /\ polled = 0
      /\ flying = {} /\ arrived = << >> /\ callbacks = [k \in Probe |-> 0]
      /\ unopened = {} /\ given_up = {} /\ result = [k \in Probe |-> NoAnswer] /\ aborted = FALSE
  BY DEF Init, TracerouteInit
<1>2. Traced
  <2>1. Stack(<< >>) /\ Fits(<< >>, 0, 0, {})
    BY DEF Stack, Fits
  <2>2. Stack(calls) /\ Fits(calls, ttl, polled, unopened)
    BY <1>1, <2>1
  <2>3. ttl \in 0 .. MaxTtl /\ polled \in 0 .. ttl /\ unopened \subseteq 1 .. ttl
    BY <1>1, TracerouteConstants
  <2> QED
    BY <1>1, <2>2, <2>3 DEF Traced, OneOutstanding
<1>3. Counted
  BY <1>1, TracerouteConstants DEF Counted, Probe
<1>4. Answered
  BY <1>1 DEF Answered, Result, NoAnswer
<1> QED
  BY <1>2, <1>3, <1>4 DEF TracerouteInv

\* A callback for a probe is counted: for init(), or for the probe.
LEMMA Counts ==
  ASSUME Traced, Counted, ~aborted, NEW k \in 1 .. ttl, Owed(k),
         callbacks' = [callbacks EXCEPT ![k] = @ + 1],
         ttl' \in 0 .. MaxTtl, ttl' = ttl \/ ttl' = ttl + 1,
         \/ k \notin unopened /\ unopened' = unopened \cup {k} /\ Owed(k)'
         \/ unopened' = unopened /\ ~Owed(k)',
         \A j \in Probe : j # k => (Owed(j)' <=> (Owed(j) \/ (ttl' # ttl /\ j = ttl')))
  PROVE  Counted'
<1>1. ttl \in Nat /\ MaxTtl \in Nat /\ unopened \subseteq 1 .. ttl /\ k \in Probe
  BY TracerouteConstants DEF Traced, Probe
<1>2. /\ callbacks \in [Probe -> Nat]
      /\ \A j \in Probe :
           callbacks[j] = IF j > ttl THEN 0
                          ELSE (IF j \in unopened THEN 1 ELSE 0) + (IF Owed(j) THEN 0 ELSE 1)
  BY DEF Counted
<1>3. callbacks' \in [Probe -> Nat]
  BY <1>1, <1>2
<1>4. ASSUME NEW j \in Probe
      PROVE  callbacks'[j] = IF j > ttl' THEN 0
                             ELSE (IF j \in unopened' THEN 1 ELSE 0) + (IF Owed(j)' THEN 0 ELSE 1)
  <2>1. j \in Nat
    BY DEF Probe
  <2>2. CASE j = k
    <3>1. callbacks'[k] = callbacks[k] + 1 /\ ~(k > ttl) /\ ~(k > ttl')
      BY <1>1, <1>2
    <3>2. callbacks[k] = IF k \in unopened THEN 1 ELSE 0
      BY <1>1, <1>2, <3>1
    <3> QED
      BY <2>2, <3>1, <3>2
  <2>3. CASE j # k
    <3>1. callbacks'[j] = callbacks[j] /\ (j \in unopened' <=> j \in unopened)
      BY <1>2, <2>3
    <3>2. CASE j > ttl
      <4>1. callbacks[j] = 0 /\ j \notin unopened
        BY <1>1, <1>2, <2>1, <3>2
      <4> QED
        BY <1>1, <2>1, <2>3, <3>1, <3>2, <4>1
    <3>3. CASE ~(j > ttl)
      <4>1. ~(j > ttl') /\ (Owed(j)' <=> Owed(j))
        BY <1>1, <2>1, <2>3, <3>3
      <4> QED
        BY <1>2, <3>1, <3>3, <4>1
    <3> QED
      BY <3>2, <3>3
  <2> QED
    BY <2>2, <2>3
<1> QED
  BY <1>3, <1>4 DEF Counted

\* The innermost call.
LEMMA InnerCall ==
  ASSUME Traced, NEW point, AtPoint(point)
  PROVE  /\ calls # << >> /\ Inner \in Call /\ Inner.point = point /\ Inner = calls[1]
         /\ Inner.probe \in 1 .. ttl /\ Inner.probe # polled /\ Owed(Inner.probe) /\ ~aborted
         /\ point = "init" => Inner.probe \notin unopened
<1>1. Stack(calls) /\ calls # << >> /\ Inner.point = point
  BY DEF Traced, AtPoint
<1>2. Inner \in Call /\ 1 \in DOMAIN calls
  BY <1>1, TailStack, EmptySeq DEF Inner, Stack
<1>3. /\ Inner.probe <= ttl /\ Inner.probe # polled
      /\ point = "init" => Inner.probe \notin unopened
  BY <1>1, <1>2 DEF Traced, Fits, Inner
<1>4. Inner.probe \in 1 .. ttl
  BY <1>2, <1>3 DEF Call, Probe
<1> QED
  BY <1>1, <1>2, <1>3, <1>4 DEF Traced, Inner, Owed, In

\* send_probe(), after init() has the socket or has failed.
LEMMA InitedStack ==
  ASSUME Traced, AtPoint("init")
  PROVE  /\ Stack(Inited) /\ \A k : In(k, Inited) <=> In(k, calls)
         /\ Fits(Inited, ttl, polled, unopened)
         /\ Fits(Inited, ttl, polled, unopened \cup {Inner.probe})
<1> DEFINE c == [Inner EXCEPT !.point = "send"]
<1>1. /\ calls # << >> /\ Stack(calls) /\ Fits(calls, ttl, polled, unopened)
      /\ Inner \in Call /\ Inner = calls[1]
      /\ Inner.probe \in 1 .. ttl /\ Inner.probe # polled
  BY InnerCall DEF Traced
<1>2. c \in Call /\ c.probe = Inner.probe /\ c.point = "send" /\ c.probe <= ttl
  BY <1>1 DEF Call
<1>3. /\ Stack(Tail(calls)) /\ ~In(c.probe, Tail(calls)) /\ In(c.probe, calls)
      /\ \A k : k # c.probe => (In(k, Tail(calls)) <=> In(k, calls))
      /\ Fits(Tail(calls), ttl, polled, unopened)
  BY <1>1, <1>2, TailStack
<1>4. Fits(Tail(calls), ttl, polled, unopened \cup {c.probe})
  BY <1>3 DEF Fits, In
<1>5. Inited = <<c>> \o Tail(calls)
  BY DEF Inited
<1> HIDE DEF c
<1>6. /\ Stack(<<c>> \o Tail(calls))
      /\ \A k : In(k, <<c>> \o Tail(calls)) <=> (k = c.probe \/ In(k, Tail(calls)))
  BY <1>2, <1>3, PushStack
<1>7. /\ Fits(<<c>> \o Tail(calls), ttl, polled, unopened)
      /\ Fits(<<c>> \o Tail(calls), ttl, polled, unopened \cup {c.probe})
  <2>1. c.probe # polled /\ c.point # "init"
    BY <1>1, <1>2
  <2> QED
    BY <1>2, <1>3, <1>4, <2>1, PushFits
<1> QED
  BY <1>2, <1>3, <1>5, <1>6, <1>7

\* What of the answers does not change.
LEMMA AnswersKept ==
  ASSUME Answered, UNCHANGED <<wireVars, given_up, result, polled, aborted>>
  PROVE  Answered'
BY DEF Answered, wireVars

LEMMA FirstKeeps == TracerouteInv /\ FirstProbe => TracerouteInv'
<1> SUFFICES ASSUME TracerouteInv, FirstProbe PROVE TracerouteInv'
  OBVIOUS
<1>1. /\ Traced /\ Counted /\ Answered /\ MaxTtl \in Nat \ {0}
  BY TracerouteConstants DEF TracerouteInv
<1>2. /\ ttl = 0 /\ polled = 0 /\ unopened = {} /\ ~aborted /\ ~probe_pending
      /\ ttl' = 1 /\ calls' = <<[probe |-> 1, point |-> "init"]>> /\ unopened' = unopened
      /\ UNCHANGED <<use_ipv4, probe_pending, polled, wireVars, callbacks, given_up, result, aborted>>
  BY <1>1 DEF FirstProbe, Traced, OneOutstanding, toldVars
<1> DEFINE c == [probe |-> 1, point |-> "init"]
<1>3. c \in Call /\ c.probe = 1
  BY <1>1 DEF Call, Probe
<1>4. /\ calls' = <<c>> /\ Len(calls') = 1 /\ DOMAIN calls' = {1} /\ calls'[1] = c
  BY <1>2
<1>5. calls' \in Seq(Call)
  BY <1>3, <1>4
<1> HIDE DEF c
<1>6. Traced'
  BY <1>1, <1>2, <1>3, <1>4, <1>5 DEF Traced, Stack, Fits, OneOutstanding
<1>7. \A k \in Probe : callbacks[k] = 0
  BY <1>1, <1>2 DEF Counted, Probe
<1>8. \A k \in Probe : Owed(k)' <=> k = 1
  BY <1>2, <1>3, <1>4 DEF Owed, In, Probe
<1>9. Counted'
  BY <1>1, <1>2, <1>7, <1>8 DEF Counted, Probe
<1> QED
  BY <1>1, <1>2, <1>6, <1>9, AnswersKept DEF TracerouteInv

LEMMA InitKeeps == TracerouteInv /\ (InitOpens \/ InitFails) => TracerouteInv'
<1> SUFFICES ASSUME TracerouteInv, InitOpens \/ InitFails PROVE TracerouteInv'
  OBVIOUS
<1>1. Traced /\ Counted /\ Answered /\ AtPoint("init")
  BY DEF TracerouteInv, InitOpens, InitFails
<1>p. PICK k : k = Inner.probe
  OBVIOUS
<1>2. /\ k \in 1 .. ttl /\ k # polled /\ Owed(k) /\ ~aborted /\ k \notin unopened
      /\ Stack(Inited) /\ \A j : In(j, Inited) <=> In(j, calls)
      /\ Fits(Inited, ttl, polled, unopened) /\ Fits(Inited, ttl, polled, unopened \cup {k})
  BY <1>1, <1>p, InnerCall, InitedStack
<1>3. /\ UNCHANGED <<use_ipv4, probe_pending, polled, wireVars, given_up, result, aborted>>
  BY DEF InitOpens, InitFails, toldVars
<1>4. Answered'
  BY <1>1, <1>3, AnswersKept
<1>5. CASE InitOpens
  <2>1. calls' = Inited /\ UNCHANGED <<ttl, callbacks, unopened>>
    BY <1>5 DEF InitOpens, toldVars
  <2>2. Traced'
    BY <1>1, <1>2, <1>3, <2>1 DEF Traced, OneOutstanding
  <2>3. \A j : Owed(j)' <=> Owed(j)
    BY <1>2, <1>3, <2>1 DEF Owed
  <2>4. Counted'
    BY <1>1, <1>3, <2>1, <2>3 DEF Counted
  <2> QED
    BY <1>4, <2>2, <2>4 DEF TracerouteInv
<1>6. CASE InitFails
  <2>1. Told(k, Inited) /\ unopened' = unopened \cup {k}
    BY <1>6, <1>p DEF InitFails, TellApplication, Told
  <2>2. unopened' \in SUBSET (1 .. ttl) /\ polled \in 0 .. ttl
    BY <1>1, <1>2, <2>1 DEF Traced
  <2>3. /\ callbacks' = [callbacks EXCEPT ![k] = @ + 1]
        /\ ttl' \in 0 .. MaxTtl /\ (ttl' = ttl \/ ttl' = ttl + 1)
        /\ Stack(calls') /\ Fits(calls', ttl', polled, unopened')
        /\ \A j \in Probe : In(j, calls') <=> (In(j, Inited) \/ (ttl' # ttl /\ j = ttl'))
    BY <1>1, <1>2, <2>1, <2>2, ToldKeeps
  <2>4. Traced'
    BY <1>1, <1>2, <1>3, <2>2, <2>3 DEF Traced, OneOutstanding
  <2>5. \A j \in Probe : Owed(j)' <=> (Owed(j) \/ (ttl' # ttl /\ j = ttl'))
    BY <1>2, <1>3, <2>3 DEF Owed
  <2>6. k \in Probe
    BY <1>1, <1>2, TracerouteConstants DEF Traced, Probe
  <2>7. Counted'
    BY <1>1, <1>2, <2>1, <2>3, <2>5, <2>6, Counts
  <2> QED
    BY <1>4, <2>4, <2>7 DEF TracerouteInv
<1> QED
  BY <1>5, <1>6

LEMMA SendKeeps == TracerouteInv /\ (SendFails \/ Sends) => TracerouteInv'
<1> SUFFICES ASSUME TracerouteInv, SendFails \/ Sends PROVE TracerouteInv'
  OBVIOUS
<1>1. Traced /\ Counted /\ Answered /\ AtPoint("send")
  BY DEF TracerouteInv, SendFails, Sends
<1>p. PICK k : k = Inner.probe
  OBVIOUS
<1>2. /\ k \in 1 .. ttl /\ k # polled /\ Owed(k) /\ ~aborted /\ calls # << >> /\ k = calls[1].probe
      /\ Stack(calls) /\ Fits(calls, ttl, polled, unopened)
  BY <1>1, <1>p, InnerCall DEF Traced
<1>3. /\ Stack(Tail(calls)) /\ ~In(k, Tail(calls))
      /\ \A j : j # k => (In(j, Tail(calls)) <=> In(j, calls))
      /\ Fits(Tail(calls), ttl, polled, unopened)
  BY <1>2, TailStack
<1>4. CASE SendFails
  <2>1. /\ Told(k, Tail(calls))
        /\ UNCHANGED <<use_ipv4, probe_pending, polled, wireVars, unopened, given_up, result, aborted>>
    BY <1>4, <1>p DEF SendFails, toldVars, TellApplication, Told
  <2>2. unopened \in SUBSET (1 .. ttl) /\ polled \in 0 .. ttl
    BY <1>1 DEF Traced
  <2>3. /\ callbacks' = [callbacks EXCEPT ![k] = @ + 1]
        /\ ttl' \in 0 .. MaxTtl /\ (ttl' = ttl \/ ttl' = ttl + 1)
        /\ Stack(calls') /\ Fits(calls', ttl', polled, unopened)
        /\ \A j \in Probe : In(j, calls') <=> (In(j, Tail(calls)) \/ (ttl' # ttl /\ j = ttl'))
    BY <1>1, <1>3, <2>1, <2>2, ToldKeeps
  <2>4. Traced'
    BY <1>1, <1>2, <2>1, <2>2, <2>3 DEF Traced, OneOutstanding
  <2>5. /\ \A j \in Probe : j # k => (Owed(j)' <=> (Owed(j) \/ (ttl' # ttl /\ j = ttl')))
        /\ k \in Probe
    BY <1>1, <1>3, <2>1, <2>3, <1>2, TracerouteConstants DEF Owed, Probe, Traced
  <2>6. ~Owed(k)'
    <3>1. k # polled' /\ ~(ttl' # ttl /\ k = ttl')
      BY <1>1, <1>2, <2>1, <2>3 DEF Traced
    <3>2. ~In(k, calls')
      BY <1>3, <2>3, <2>5, <3>1
    <3> QED
      BY <3>1, <3>2 DEF Owed
  <2>7. Counted'
    BY <1>1, <1>2, <2>1, <2>3, <2>5, <2>6, Counts
  <2>8. Answered'
    BY <1>1, <2>1, AnswersKept
  <2> QED
    BY <2>4, <2>7, <2>8 DEF TracerouteInv
<1>5. CASE Sends
  <2>1. /\ polled = 0 /\ probe_pending' = TRUE /\ polled' = k
        /\ flying' = flying \cup {k} /\ calls' = Tail(calls)
        /\ UNCHANGED <<use_ipv4, ttl, arrived, callbacks, unopened, given_up, result, aborted>>
    BY <1>1, <1>5, <1>p DEF Sends, Traced, OneOutstanding, toldVars
  <2>2. Fits(calls', ttl', polled', unopened')
    BY <1>3, <2>1 DEF Fits, In
  <2>3. Traced'
    BY <1>1, <1>2, <1>3, <2>1, <2>2 DEF Traced, OneOutstanding
  <2>4. \A j : j # 0 => (Owed(j)' <=> Owed(j))
    BY <1>2, <1>3, <2>1 DEF Owed
  <2>5. Counted'
    BY <1>1, <1>2, <2>1, <2>4 DEF Counted, Probe
  <2>6. k \in Probe
    BY <1>1, <1>2, TracerouteConstants DEF Probe, Traced
  <2>7. Answered'
    BY <1>1, <1>2, <2>1, <2>6 DEF Answered
  <2> QED
    BY <2>3, <2>5, <2>7 DEF TracerouteInv
<1> QED
  BY <1>4, <1>5

LEMMA ArrivesKeeps == TracerouteInv /\ (\E k \in Probe : Arrives(k)) => TracerouteInv'
<1> SUFFICES ASSUME TracerouteInv, NEW k \in Probe, Arrives(k) PROVE TracerouteInv'
  OBVIOUS
<1>1. Traced /\ Counted /\ Answered
  BY DEF TracerouteInv
<1>2. PICK kind \in Answers : arrived' = Append(arrived, [probe |-> k, kind |-> kind])
  BY DEF Arrives
<1>3. /\ k \in flying /\ flying' = flying \ {k}
      /\ UNCHANGED <<use_ipv4, probe_pending, calls, ttl, polled, callbacks, unopened, given_up,
                     result, aborted>>
  BY DEF Arrives, toldVars
<1> DEFINE a == [probe |-> k, kind |-> kind]
<1>4. a \in Answer /\ a.probe = k
  BY DEF Answer
<1>5. arrived \in Seq(Answer) /\ arrived' = Append(arrived, a)
  BY <1>1, <1>2 DEF Answered
<1> HIDE DEF a
<1>6. /\ arrived' \in Seq(Answer)
      /\ arrived = << >> => Len(arrived') = 1 /\ arrived'[1] = a
  BY <1>4, <1>5
<1>7. Traced' /\ Counted'
  BY <1>1, <1>3 DEF Traced, Counted, Owed, OneOutstanding
<1>8. Answered'
  BY <1>1, <1>3, <1>4, <1>6 DEF Answered
<1> QED
  BY <1>7, <1>8 DEF TracerouteInv

LEMMA EventKeeps == TracerouteInv /\ event_callback => TracerouteInv'
<1> SUFFICES ASSUME TracerouteInv, event_callback PROVE TracerouteInv'
  OBVIOUS
<1>1. /\ Traced /\ Counted /\ Answered
      /\ calls = << >> /\ polled # 0 /\ polled' = 0
  BY DEF TracerouteInv, event_callback, OnTimeout, OnResult, OnError, OnSystemError, EventCalled
<1>p. PICK k : k = polled
  OBVIOUS
<1>2. /\ k = polled /\ k \in 1 .. ttl /\ k \in Probe /\ Owed(k) /\ ~aborted /\ ttl > 0
      /\ MaxTtl \in Nat
  BY <1>1, <1>p, TracerouteConstants DEF Traced, Owed, Probe
<1>3. /\ probe_pending' = FALSE /\ UNCHANGED <<use_ipv4, unopened>>
  BY DEF event_callback, OnTimeout, OnResult, OnError, OnSystemError, toldVars
<1>4. Stack(<< >>) /\ Fits(<< >>, ttl, 0, unopened) /\ \A j : ~In(j, << >>)
  BY DEF Stack, Fits, In
<1>5. ASSUME Told(k, << >>), aborted' = aborted
      PROVE  Traced' /\ Counted'
  <2>1. unopened \in SUBSET (1 .. ttl) /\ 0 \in 0 .. ttl
    BY <1>1 DEF Traced
  <2>2. /\ callbacks' = [callbacks EXCEPT ![k] = @ + 1]
        /\ ttl' \in 0 .. MaxTtl /\ (ttl' = ttl \/ ttl' = ttl + 1)
        /\ Stack(calls') /\ Fits(calls', ttl', 0, unopened)
        /\ \A j \in Probe : In(j, calls') <=> (In(j, << >>) \/ (ttl' # ttl /\ j = ttl'))
    BY <1>1, <1>4, <1>5, <2>1, ToldKeeps
  <2>3. Traced'
    <3>1. /\ polled' \in 0 .. ttl' /\ unopened' \subseteq 1 .. ttl' /\ ttl \in Nat
          /\ Stack(calls)' /\ Fits(calls, ttl, polled, unopened)'
      BY <1>1, <1>3, <2>1, <2>2 DEF Traced
    <3> QED
      BY <1>1, <1>2, <1>3, <1>5, <2>2, <3>1 DEF Traced, OneOutstanding
  <2>4. ASSUME NEW j \in Probe
        PROVE  Owed(j)' <=> (ttl' # ttl /\ j = ttl')
    <3>1. In(j, calls') <=> (ttl' # ttl /\ j = ttl')
      BY <1>4, <2>2
    <3>2. j # 0
      BY DEF Probe
    <3> QED
      BY <1>1, <3>1, <3>2 DEF Owed
  <2>5. \A j \in Probe : j # k => (Owed(j)' <=> (Owed(j) \/ (ttl' # ttl /\ j = ttl')))
    BY <1>1, <1>2, <1>4, <2>4 DEF Owed
  <2>6. ~Owed(k)'
    <3>1. ~(ttl' # ttl /\ k = ttl')
      BY <1>1, <1>2, <2>2 DEF Traced
    <3> QED
      BY <1>2, <2>4, <3>1
  <2>7. Counted'
    BY <1>1, <1>2, <1>3, <2>2, <2>5, <2>6, Counts
  <2> QED
    BY <2>3, <2>7
<1>6. CASE OnTimeout \/ OnError
  <2>1. /\ Told(k, << >>) /\ aborted' = aborted
        /\ given_up' = given_up \cup {polled}
        /\ UNCHANGED <<flying, arrived, result>>
    BY <1>2, <1>6 DEF OnTimeout, OnError, wireVars, TellApplication, Told
  <2>2. Answered'
    BY <1>1, <2>1 DEF Answered
  <2> QED
    BY <1>5, <2>1, <2>2 DEF TracerouteInv
<1>7. CASE OnSystemError
  <2>1. aborted' = TRUE /\ UNCHANGED <<calls, ttl, callbacks, unopened, given_up, result, flying, arrived>>
    BY <1>7 DEF OnSystemError, wireVars, toldVars
  <2>2. Traced'
    <3>1. /\ Stack(calls)' /\ Fits(calls, ttl, polled, unopened)'
          /\ polled' \in 0 .. ttl'
      BY <1>1, <1>2, <1>3, <1>4, <2>1 DEF Traced
    <3> QED
      BY <1>1, <1>2, <1>3, <2>1, <3>1 DEF Traced, OneOutstanding
  <2>3. Counted' /\ Answered'
    BY <1>1, <2>1 DEF Counted, Answered
  <2> QED
    BY <2>2, <2>3 DEF TracerouteInv
<1>8. CASE OnResult
  <2> DEFINE answer == arrived[NextAnswer]
             meaning == get_meaning(answer.kind)
             new == [probe |-> answer.probe, meaning |-> meaning, kind |-> answer.kind]
  <2>1. /\ arrived # << >> /\ arrived' = RemoveAt(arrived, NextAnswer)
        /\ result' = [result EXCEPT ![k] = new]
        /\ Told(k, << >>)
        /\ UNCHANGED <<flying, given_up, aborted>>
    BY <1>2, <1>8 DEF OnResult, TellApplication, Told
  <2>2. /\ arrived \in Seq(Answer) /\ NextAnswer \in DOMAIN arrived /\ arrived' \in Seq(Answer)
        /\ Len(arrived) = 1 => arrived' = << >> /\ NextAnswer = 1
    <3>1. arrived \in Seq(Answer)
      BY <1>1 DEF Answered
    <3>2. /\ NextAnswer \in DOMAIN arrived /\ arrived' \in Seq(Answer)
          /\ Len(arrived) = 1 => arrived' = << >>
      BY <2>1, <3>1, NextAnswerArrived
    <3>3. Len(arrived) = 1 => NextAnswer = 1
      <4>1. DOMAIN arrived = 1 .. Len(arrived)
        BY <3>1
      <4> QED
        BY <3>2, <4>1
    <3> QED
      BY <3>1, <3>2, <3>3
  <2>3. answer \in Answer
    BY <2>2
  <2>4. answer.kind \in Answers /\ answer.probe \in Probe
    BY <2>3 DEF Answer
  <2>5. Result(new) /\ new.probe = answer.probe
    BY <1>1, <2>4, Meanings DEF Result, Traced
  <2>6. given_up = {} => Len(arrived) = 1 /\ arrived[1].probe = polled /\ flying = {}
    BY <1>1, <1>2, <2>1 DEF Answered
  <2>7. given_up = {} => new.probe = polled /\ arrived' = << >>
    BY <2>2, <2>5, <2>6
  <2> HIDE DEF new
  <2>8. /\ \A j \in Probe : result'[j] = IF j = k THEN new ELSE result[j]
        /\ result' = [j \in Probe |-> result'[j]]
    BY <1>1, <1>2, <2>1 DEF Answered
  <2>9. Answered'
    BY <1>1, <1>2, <2>1, <2>2, <2>5, <2>6, <2>7, <2>8 DEF Answered
  <2>10. Traced' /\ Counted'
    BY <1>5, <2>1
  <2> QED
    BY <2>9, <2>10 DEF TracerouteInv
<1> QED
  BY <1>6, <1>7, <1>8 DEF event_callback

\* In every reachable state a traceroute waits for one probe at most; when it is
\* over each probe was answered by one callback, or two if init() failed; its
\* results are of the probes they are told for, unless one was given up before,
\* and mean what the routers meant.
THEOREM TracerouteAnswersProbes == Spec => []ProbesAnswered
<1>1. ASSUME TracerouteInv, UNCHANGED tracerouteVars
      PROVE  TracerouteInv'
  BY <1>1 DEF tracerouteVars, wireVars, toldVars, TracerouteInv, Traced, Counted, Answered, Owed,
              OneOutstanding
<1>2. TracerouteInv /\ TracerouteNext => TracerouteInv'
  BY FirstKeeps, InitKeeps, SendKeeps, ArrivesKeeps, EventKeeps
     DEF TracerouteNext, TracerouteSteps, send_probe
<1>3. [Next]_ooniVars => TracerouteNext \/ UNCHANGED tracerouteVars
  BY DEF Next, Callback, TransportClosed, Resubmission, Synchronization, Configuration, Tracing,
         Over, ooniVars, backendVars
<1>4. TracerouteInv => ProbesAnswered
  <2> SUFFICES ASSUME TracerouteInv PROVE ProbesAnswered
    OBVIOUS
  <2>1. Traced /\ Counted /\ Answered /\ MaxTtl \in Nat
    BY TracerouteConstants DEF TracerouteInv
  <2>2. AnsweredOnce
    <3> SUFFICES ASSUME TracerouteOver, ~aborted, NEW k \in 1 .. ttl
                 PROVE  callbacks[k] = IF k \in unopened THEN 2 ELSE 1
      BY DEF AnsweredOnce
    <3>1. k \in Probe /\ ~(k > ttl) /\ ~Owed(k)
      BY <2>1 DEF TracerouteOver, Traced, Probe, Owed, In
    <3> QED
      BY <2>1, <3>1 DEF Counted
  <2>3. ResultsInStep
    BY <2>1 DEF Answered, ResultsInStep
  <2>4. MeaningsKept
    BY <2>1 DEF Answered, Result, MeaningsKept
  <2> QED
    BY <2>1, <2>2, <2>3, <2>4 DEF Traced, ProbesAnswered
<1> QED
  BY InitTraceroute, <1>1, <1>2, <1>3, <1>4, PTL DEF Spec
=============================================================================
