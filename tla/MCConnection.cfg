SPECIFICATION Spec
CONSTANTS
  client = client
  server = server
  Endpoint <- MCEndpoint
  Peer <- MCPeer
  SEQ_MOD = 8
  UINT16_HALF = 4
  BITFIELD_SIZE = 2
  MAX_RTT = 0
  MaxSends <- Sends32
  MaxFailures = 6
  Duplication = TRUE
  PathCapacity = 6
  MaxOut = 6
  MAX_PACKET_FLOW_RATE = 0
  DEFAULT_PACKET_STABILIZATION_DELTA = 1
  MAX_PACKET_STABILZATION_DELTA = 1
  MIN_PACKET_STABILZATION_DELTA = 1
  MINIMUM_REQUIRED_PACKET_STABILIZATION_TIME = 0
  RTT_SMOOTH_DIVISOR = 2
  TICKS_PER_SECOND = 1
  MAX_AGE = 1
INVARIANTS
  TypeOK
  OneFateEach
  AckSoundUntilWrap
  ExactBeforeHalf
  RttMeasured
PROPERTY ImplementsService
