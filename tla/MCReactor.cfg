\* A few events, jobs, threads and calls to stop(): two jobs overlap, three events
\* are enough for a job to post one while run() is about to leave, and one of them
\* may never be ready: then run() never returns, and the others must be called back
\* all the same.
CONSTANTS
  Job = {j1, j2}
  Thread = {t1, t2}
  NoJob = NoJob
  Event = {e0, e1, e2}
  Initial = e0
  Silent = {e2}
  MaxStops = 2
SPECIFICATION FairSpec
INVARIANTS
  RunLeavesNothing
PROPERTIES
  RunReturns
  EventDelivered
