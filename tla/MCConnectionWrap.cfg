SPECIFICATION Spec
CONSTANTS
  client = client
  server = server
  Endpoint <- MCEndpoint
  Peer <- MCPeer
  SEQ_MOD = 6
  UINT16_HALF = 3
  BITFIELD_SIZE = 2
  MAX_RTT = 0
  MaxSends <- Sends71
  MaxFailures = 0
  Duplication = FALSE
  PathCapacity = 2
  MaxOut = 2
  MAX_PACKET_FLOW_RATE = 0
  DEFAULT_PACKET_STABILIZATION_DELTA = 1
  MAX_PACKET_STABILZATION_DELTA = 1
  MIN_PACKET_STABILZATION_DELTA = 1
  MINIMUM_REQUIRED_PACKET_STABILIZATION_TIME = 0
  RTT_SMOOTH_DIVISOR = 2
  TICKS_PER_SECOND = 1
  MAX_AGE = 1
INVARIANTS
  AckNamesReceivedId
  AckCompleteWhilePrompt
  RemoteIsNewest
