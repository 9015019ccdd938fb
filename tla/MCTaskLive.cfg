CONSTANTS
  Task = {a, b}
  Consumer = {c}
  Nobody = Nobody
  Disablings = {{"status.queued", "status.started", "log", "measurement", "failure.startup"}}
  MaxWarnings = 0
  MaxExtra = 1
SPECIFICATION FairSpec
PROPERTIES
  TaskEnds
  WaitReturnsOrMissed
