------------------------------- MODULE Report -------------------------------
(***************************************************************************)
(* report::ReportLegacy and its reporters (report/).  open, write_entry    *)
(* and close run the same operation on every reporter through mk::parallel *)
(* (see Parallel) and call back with the overall error.  BaseReporter      *)
(* guards each operation with openned_, closed_ and prev_entry_; then the  *)
(* FileReporter works at once, and the OoniReporter exchanges messages     *)
(* with the collector, and may have several of them in flight.             *)
(*                                                                         *)
(* Everything runs in the thread of the reactor: a caller that has to wait *)
(* for nobody goes on at once.  Busy says that such a step is pending, and *)
(* whoever uses this module does nothing else meanwhile.                   *)
(***************************************************************************)
EXTENDS Integers, Sequences, FiniteSets, Parallel

CONSTANTS
  Client,   \* who may have an operation in progress
  Entry,    \* the entries, which are all different: each one has a UUID
  None      \* no entry

VARIABLES
  reporters,  \* ReportLegacy::reporters_
  openned,    \* BaseReporter::openned_, per kind of reporter
  closed,     \* BaseReporter::closed_
  prevEntry,  \* BaseReporter::prev_entry_
  toStdout,   \* FileReporter::filename is "-"
  badFile,    \* an error bit of FileReporter::file is set
  reportId,   \* the OoniReporter knows its report_id
  call,       \* the operation each client has in progress
  \* History, read by the properties only.
  collected   \* the entries that the collector acknowledged, in order

store == <<openned, closed, prevEntry, toStdout, badFile, reportId, collected>>
reportVars == <<reporters, call, store>>

Kind == {"file", "ooni"}
NoCall == [op |-> "none", entry |-> None, next |-> 0, waiting |-> FALSE,
           par |-> ParallelCall(0)]

ReportInit ==
  /\ reporters = <<>>
  /\ openned = [k \in Kind |-> FALSE]
  /\ closed = [k \in Kind |-> FALSE]
  /\ prevEntry = [k \in Kind |-> None]
  /\ toStdout \in BOOLEAN
  /\ badFile = FALSE
  /\ reportId = FALSE
  /\ call = [c \in Client |-> NoCall]
  /\ collected = <<>>

-----------------------------------------------------------------------------
(* ReportLegacy                                                            *)

Idle(c) == call[c].op = "none"
Starting(c) == call[c].next \in 1 .. Len(reporters)
Completed(c) == ~Idle(c) /\ AllDone(call[c].par)
Busy == \E c \in Client : Starting(c) \/ Completed(c)

\* add_reporter(), for those that the options ask for.
AddReporters(users) == reporters' = users

\* open(), write_entry() and close(): `calls` with a new call of c.
Calling(calls, c, op, e, users) ==
  [calls EXCEPT ![c] = [op |-> op, entry |-> e, next |-> 1, waiting |-> FALSE,
                        par |-> ParallelCall(Len(users))]]

\* The callback of the operation of c runs, and the call is over.
Answered(calls, c) == [calls EXCEPT ![c] = NoCall]

-----------------------------------------------------------------------------
(* BaseReporter.  An operation is answered at once if what it asks for is  *)
(* done already (no error), or cannot be done.                             *)

DoneAlready(k, op, entry) ==
  \/ op = "open" /\ openned[k]
  \/ op = "write" /\ openned[k] /\ ~closed[k] /\ prevEntry[k] = entry
  \/ op = "close" /\ closed[k]

\* OoniReporter asks for a report_id, after BaseReporter has agreed.
Refused(k, op) ==
  \/ op = "write" /\ (~openned[k] \/ closed[k])
  \/ k = "ooni" /\ op \in {"write", "close"} /\ ~reportId

\* The state changes on success only, so that the operation may be retried.
Remember(k, op, entry, error) ==
  /\ openned' = [openned EXCEPT ![k] = @ \/ (op = "open" /\ ~error)]
  /\ closed' = [closed EXCEPT ![k] = @ \/ (op = "close" /\ ~error)]
  /\ prevEntry' = [prevEntry EXCEPT ![k] = IF op = "write" /\ ~error THEN entry
                                                                    ELSE @]

\* What parallel() does when the operation of one reporter completes.
Answer(c, next, error) ==
  call' = [call EXCEPT ![c].next = next, ![c].waiting = FALSE,
                       ![c].par = OneDone(@, error)]

AnsweredAtOnce(c) ==
  LET k == reporters[call[c].next]
      op == call[c].op
      done == DoneAlready(k, op, call[c].entry)
  IN /\ Starting(c)
     /\ done \/ Refused(k, op)
     /\ Answer(c, call[c].next + 1, ~done)
     /\ UNCHANGED <<reporters, store>>

Permitted(c, k) ==
  /\ Starting(c)
  /\ reporters[call[c].next] = k
  /\ ~DoneAlready(k, call[c].op, call[c].entry)
  /\ ~Refused(k, call[c].op)

\* FileReporter: with "-" there is nothing to open or to close.  The error bits
\* of a stream stay set, unless open() succeeds.
FileWorks(c) ==
  LET op == call[c].op
      nothing == toStdout /\ op \in {"open", "close"}
  IN /\ Permitted(c, "file")
     /\ \E error \in BOOLEAN :
          /\ nothing => ~error
          /\ badFile /\ op # "open" /\ ~nothing => error
          /\ badFile' = (error \/ (badFile /\ (op # "open" \/ nothing)))
          /\ Remember("file", op, call[c].entry, error)
          /\ Answer(c, call[c].next + 1, error)
     /\ UNCHANGED <<reporters, toStdout, reportId, collected>>

\* OoniReporter connects to the collector and sends its request.
CollectorAsked(c) ==
  /\ Permitted(c, "ooni")
  /\ call' = [call EXCEPT ![c].next = @ + 1, ![c].waiting = TRUE]
  /\ UNCHANGED <<reporters, store>>

\* The reply comes, or connecting, sending or receiving fails, or a timeout
\* expires.
CollectorReplies(c) ==
  LET op == call[c].op
      e == call[c].entry
  IN /\ call[c].waiting
     /\ \E error \in BOOLEAN :
          /\ collected' = IF op = "write" /\ ~error THEN Append(collected, e)
                                                    ELSE collected
          /\ reportId' = (reportId \/ (op = "open" /\ ~error))
          /\ Remember("ooni", op, e, error)
          /\ Answer(c, call[c].next, error)
     /\ UNCHANGED <<reporters, toStdout, badFile>>

AtOnce(c) == AnsweredAtOnce(c) \/ FileWorks(c) \/ CollectorAsked(c)

=============================================================================
