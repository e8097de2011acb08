SPECIFICATION Spec
CONSTANTS
  MAX_PACKET_FLOW_RATE = 1
  DEFAULT_PACKET_STABILIZATION_DELTA = 2
  MAX_PACKET_STABILZATION_DELTA = 5
  MIN_PACKET_STABILZATION_DELTA = 1
  MINIMUM_REQUIRED_PACKET_STABILIZATION_TIME = 3
  RTT_SMOOTH_DIVISOR = 2
  TICKS_PER_SECOND = 2
  MAX_AGE = 11
  Samples = {0, 2, 4}
PROPERTY ShortGoodIsPunished
