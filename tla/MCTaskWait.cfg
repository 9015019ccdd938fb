CONSTANTS
  Task = {a}
  Consumer = {c}
  Nobody = Nobody
  Disablings = {{}}
  MaxWarnings = 0
  MaxExtra = 0
SPECIFICATION FairSpec
PROPERTY
  WaitReturns
