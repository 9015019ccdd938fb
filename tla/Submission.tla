------------------------------ MODULE Submission ------------------------------
(***************************************************************************)
(* The resubmission of a report's file: submit_report_impl() of            *)
(* ooni/collector_client_impl.hpp, and get_next_entry().  One transport    *)
(* carries all the requests; an entry is read once the one before it was   *)
(* accepted.  The application may submit a file again when it failed.  An  *)
(* answer of the collector may be lost after it has done what was asked.   *)
(***************************************************************************)
EXTENDS Integers, Sequences

CONSTANTS
  Line,            \* what a line of the file may hold
  Malformed,       \* the lines that are not JSON
  Invalid,         \* the entries that valid_entry() refuses
  NotObjects,      \* the lines that are JSON, but no object
  Files,           \* the files that are submitted
  MaxSubmissions   \* how many times the application submits its file

ASSUME SubmissionConstants ==
  /\ Malformed \subseteq Line /\ Invalid \subseteq Line /\ NotObjects \subseteq Line
  /\ Files \subseteq [lines : Seq(Line), terminated : BOOLEAN]
  /\ MaxSubmissions \in Nat

VARIABLES
  file,         \* its lines, and whether a newline ends the last one
  at,           \* what the submission is at
  position,     \* the lines that were read
  report,       \* report_id
  connection,   \* the transport: "none" or "open"
  error,        \* what close() of the transport is to hand on
  told,         \* what the callback was told
  stored,       \* the entries of each report of the collector
  closed        \* the reports that are closed

submissionVars == <<file, at, position, report, connection, error, told, stored, closed>>

Report == 1 .. MaxSubmissions

SubmissionInit ==
  /\ file \in Files
  /\ at = "out" /\ position = 0 /\ report = 0 /\ connection = "none"
  /\ error = "none" /\ told = "nothing"
  /\ stored = << >> /\ closed = {}

collectorVars == <<stored, closed>>

\* std::getline() meets the end of the file in a last line without newline, and
\* get_next_entry() then gives it up.
Readable == IF file.terminated THEN Len(file.lines) ELSE Len(file.lines) - 1

\* get_next_entry(): FileEofError, JsonProcessingError or FileIoError, or a line.
EndOfFile == position >= Readable
CurrentLine == file.lines[position]
NextLineIsJson == file.lines[position + 1] \notin Malformed

\* txp->close([=]() { callback(err); })
CloseWith(e) == at' = "closing" /\ error' = e

Tell(e) == at' = "out" /\ told' = e

\* submit_report_impl(): the file is opened, and its first line read, before
\* anything is asked of the collector.
submit_report ==
  /\ at = "out" /\ told # "ok" /\ Len(stored) < MaxSubmissions
  /\ report' = 0 /\ error' = "none"
  /\ \/ /\ Readable > 0 /\ file.lines[1] \notin Malformed
        /\ position' = 1 /\ at' = "connect" /\ told' = "nothing"
     \/ /\ position' = 0 /\ Tell("failed")     \* CannotOpenReportError and the others
  /\ UNCHANGED <<file, connection, collectorVars>>

connect ==
  /\ at = "connect"
  /\ \/ at' = "create" /\ connection' = "open" /\ UNCHANGED told
     \/ Tell("failed") /\ UNCHANGED connection
  /\ UNCHANGED <<file, position, report, error, collectorVars>>

\* The mandatory keys are there, and their values match.
valid_entry(line) == line \notin Invalid \cup NotObjects

\* valid_entry() refuses the entry, or post() has no answer of status 2xx.
PostFails ==
  /\ at \in {"create", "update", "close"}
  /\ at = "update" => CurrentLine \notin NotObjects
  /\ CloseWith("failed")
  /\ UNCHANGED <<file, position, report, connection, told, collectorVars>>

create_report ==
  /\ at = "create" /\ valid_entry(CurrentLine) /\ Len(stored) < MaxSubmissions
  /\ stored' = Append(stored, << >>)
  /\ \/ at' = "update" /\ report' = Len(stored) + 1 /\ UNCHANGED error
     \/ CloseWith("failed") /\ UNCHANGED report    \* the answer is lost, or has no report_id
  /\ UNCHANGED <<file, position, connection, told, closed>>

\* Mutant of update_report: an error of the collector is not looked at.
update_reportRegardless ==
  /\ at = "update" /\ valid_entry(CurrentLine)
  /\ \/ stored' = [stored EXCEPT ![report] = Append(@, CurrentLine)]
     \/ UNCHANGED stored
  /\ at' = "read" /\ UNCHANGED error
  /\ UNCHANGED <<file, position, report, connection, told, closed>>

update_report ==
  /\ at = "update" /\ valid_entry(CurrentLine)
  /\ stored' = [stored EXCEPT ![report] = Append(@, CurrentLine)]
  /\ \/ at' = "read" /\ UNCHANGED error
     \/ CloseWith("failed")                        \* the answer is lost
  /\ UNCHANGED <<file, position, report, connection, told, closed>>

\* entry["report_id"] throws, out of the callback and of the reactor.
update_reportThrows ==
  /\ at = "update" /\ CurrentLine \in NotObjects
  /\ at' = "thrown"
  /\ UNCHANGED <<file, position, report, connection, error, told, collectorVars>>

\* What call_soon() scheduled.
get_next_entry ==
  /\ at = "read"
  /\ \/ EndOfFile /\ at' = "close" /\ UNCHANGED <<position, error>>
     \/ ~EndOfFile /\ NextLineIsJson /\ at' = "update" /\ position' = position + 1
          /\ UNCHANGED error
     \/ CloseWith("failed") /\ UNCHANGED position  \* JsonProcessingError, FileIoError
  /\ UNCHANGED <<file, report, connection, told, collectorVars>>

close_report ==
  /\ at = "close"
  /\ closed' = closed \cup {report}
  /\ CloseWith("ok") \/ CloseWith("failed")
  /\ UNCHANGED <<file, position, report, connection, told, stored>>

TransportCloses ==
  /\ at = "closing"
  /\ connection' = "none" /\ Tell(error)
  /\ UNCHANGED <<file, position, report, error, collectorVars>>

Respond ==
  \/ connect \/ create_report \/ update_report \/ update_reportThrows \/ PostFails
  \/ get_next_entry \/ close_report \/ TransportCloses

SubmissionNext == submit_report \/ Respond

-----------------------------------------------------------------------------

SubmissionTypeOK ==
  /\ file \in [lines : Seq(Line), terminated : BOOLEAN]
  /\ at \in {"out", "connect", "create", "update", "read", "close", "closing", "thrown"}
  /\ position \in 0 .. Len(file.lines)
  /\ report \in Report \cup {0}
  /\ connection \in {"none", "open"}
  /\ error \in {"none", "ok", "failed"} /\ told \in {"nothing", "ok", "failed"}
  /\ stored \in Seq(Seq(Line)) /\ closed \subseteq Report

\* Whatever answers are lost and however often a file is submitted, what a
\* report of the collector holds is the beginning of the file: no entry is
\* missing before another one, or there twice.
StoredInOrder ==
  \A r \in DOMAIN stored :
    /\ Len(stored[r]) <= Readable
    /\ \A i \in DOMAIN stored[r] : stored[r][i] = file.lines[i]

\* A submission that succeeds has stored every line of the file but a last one
\* that was cut short, in a report that it closed, and closed its connection.
OkMeansStored ==
  told = "ok" =>
    /\ report \in closed \cap DOMAIN stored /\ Len(stored[report]) = Readable
    /\ connection = "none"

\* A report is closed only once it holds the file.
ClosedIsComplete == \A r \in closed : r \in DOMAIN stored /\ Len(stored[r]) = Readable

SubmittedWhole == StoredInOrder /\ OkMeansStored /\ ClosedIsComplete
=============================================================================
