\* Four jobs, one of which throws, three threads, parallelism lowered to 0, 1 and
\* raised again.
CONSTANTS
  Job = {j1, j2, j3, j4}
  Throwing = {j4}
  Thread = {t1, t2, t3}
  NoJob = NoJob
  P0 = 2
  Parallelisms = {0, 1, 2}
SPECIFICATION FairSpec
INVARIANTS
  ActiveCountsThreads
  NoStrandedJob
  WaitEmptyMeansDone
PROPERTIES
  QueuedJobRuns
  ImplementsPool
\* An exception that leaves a job ends the process.
CHECK_DEADLOCK FALSE
