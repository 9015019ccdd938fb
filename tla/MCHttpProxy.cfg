CONSTANTS
  Settings <- MCProxied
  MaxRecords = 1
  Peers = {}
  MaxLine = 5
  Journeys = {}
  Locations = {}
  MaxHops = 2
  Servers <- MCServers
  Proxies <- MCProxies
SPECIFICATION FairSpec
PROPERTIES
  IOTimesOut
