SPECIFICATION FairSessionSpec
CONSTANTS
  c1 = c1
  c2 = c2
  s1 = s1
  s2 = s2
  Client <- Clients1
  AddressOf <- Hosts1
  Endpoint <- Ends1
  Peer <- Peers1
  Blocking = {}
  Unbound = {}
  ServerBlocks = FALSE
  Lines <- Lines1
  MaxRestarts = 1
  SEQ_MOD = 8
  UINT16_HALF = 4
  BITFIELD_SIZE = 2
  MAX_RTT = 0
  MaxSends <- Sends23
  MaxFailures = 0
  Duplication = TRUE
  PathCapacity = 5
  MaxOut = 3
  MAX_PACKET_FLOW_RATE = 0
  DEFAULT_PACKET_STABILIZATION_DELTA = 1
  MAX_PACKET_STABILZATION_DELTA = 1
  MIN_PACKET_STABILZATION_DELTA = 1
  MINIMUM_REQUIRED_PACKET_STABILIZATION_TIME = 0
  RTT_SMOOTH_DIVISOR = 2
  TICKS_PER_SECOND = 1
  MAX_AGE = 1
INVARIANTS
  AckSoundInFirstRun
  AckCompleteInFirstRun
PROPERTIES
  ProgramsImplementService
  RepliesSettle
  RequestsSettle
