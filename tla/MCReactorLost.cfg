CONSTANTS
  Job = {j1}
  Thread = {t1}
  NoJob = NoJob
  Event = {e0, e1}
  Initial = e0
  Silent = {}
  MaxStops = 0
SPECIFICATION FairSpec
INVARIANT
  ReturnMeansNothingPending
