SPECIFICATION Spec
CONSTANTS
  SEQ_MOD = 8
  UINT16_HALF = 4
  Sizes = {1, 3, 4}
  Entry = {a, b}
  EMPTY_SEQUENCE_ENTRY = 99
INVARIANT TypeOK
PROPERTIES
  ImplementsWindow
  AvailableIsSafe
