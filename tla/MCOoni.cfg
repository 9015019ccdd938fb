CONSTANTS
  a = a
  b = b
  p = p
  Hostnames = {h1, h2}
  WhatsappIPs = {i1}
  IPs = {i1, i2}
  FacebookIPs = {i1}
  TelegramEndpoints <- MCTelegram
  Services <- MCServices
  WebAddresses = {a, b, p}
  PrivateAddresses = {p}
  Asn <- MCAsn
  Pages <- MCPages
  CommonHeaders = {"Date"}
  LongWords = {"Welcome", "Forbidden"}
  Vendors <- MCVendors
  RandomNames = {r1, r2}
  RequestLines = {1, 2, 3}
  HeaderNames = {"Host", "hOST", "aCCept"}
  SentHeaders = {"hOST", "aCCept"}
  Line = {"x", "y", "cut", "refused", "number"}
  Malformed = {"cut"}
  Invalid = {"refused"}
  NotObjects = {"number"}
  Files <- MCFiles
  MaxSubmissions = 2
  MaxSyncs = 3
  MaxTokens = 2
  Settable = {"platform", "device_token", "probe_asn", "probe_cc", "secrets_file", "supported_tests"}
  Texts = {"one", "two"}
  Platforms = {"", "android"}
  Locations <- MCLocations
  MaxSets = 3
  MaxTtl = 3
  Answers = {"TTL_EXCEEDED", "PORT_IS_CLOSED", "ADMIN_FILTER", "GOT_REPLY_PACKET", "LOCAL"}
SPECIFICATION FairSpec
INVARIANTS
  VerdictsFollow
  SubmittedWhole
  IdentityKept
  MetadataTold
  ProbesAnswered
PROPERTIES
  CallsEnd
