CONSTANTS
  Settings <- MCSettings
  MaxRecords = 1
  Peers <- MCPeers
  MaxLine = 5
  Journeys <- MCJourneys
  Locations <- MCLocations
  MaxHops = 2
  Servers <- MCServers
  Proxies <- MCProxies
SPECIFICATION FairSpec
INVARIANTS
  ResponseWhole
  ConnectionsClosed
  MessagesWhole
  NamesKept
PROPERTIES
  RequestEnds
