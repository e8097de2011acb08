SPECIFICATION SessionSpec
CONSTANTS
  c1 = c1
  c2 = c2
  s1 = s1
  s2 = s2
  Client <- Clients2
  AddressOf <- Hosts2
  Endpoint <- Ends2
  Peer <- Peers2
  Blocking <- Blocking2
  Unbound <- Unbound2
  ServerBlocks = FALSE
  Lines <- Lines21
  MaxRestarts = 0
  SEQ_MOD = 8
  UINT16_HALF = 4
  BITFIELD_SIZE = 2
  MAX_RTT = 0
  MaxSends <- Sends21
  MaxFailures = 0
  Duplication = FALSE
  PathCapacity = 6
  MaxOut = 2
  MAX_PACKET_FLOW_RATE = 0
  DEFAULT_PACKET_STABILIZATION_DELTA = 1
  MAX_PACKET_STABILZATION_DELTA = 1
  MIN_PACKET_STABILZATION_DELTA = 1
  MINIMUM_REQUIRED_PACKET_STABILIZATION_TIME = 0
  RTT_SMOOTH_DIVISOR = 2
  TICKS_PER_SECOND = 1
  MAX_AGE = 1
INVARIANT SessionTypeOK
PROPERTIES
  ImplementsConnection
  RepliesAcknowledge
