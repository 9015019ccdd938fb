CONSTANTS
  NdtOptions <- MCNdtOptions
  Suites <- MCSuites
  MaxStreams = 2
  MaxAgain = 1
  DashOptions <- MCDashOptions
  Rates <- MCRates
  Speeds <- MCSpeeds
  MaxRate = 400
  MaxNegotiations = 2
  MaxSamples = 19
  LogSettings <- MCLogSettings
  LogClients <- MCLogClients
SPECIFICATION FairSpec
INVARIANTS
  ProgressTold
  StreamsClosed
  NdtTruthful
  RateFollowsSpeed
  DashComplete
PROPERTIES
  ClientEnds
