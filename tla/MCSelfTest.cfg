SPECIFICATION SelfTestSpec
CONSTANTS
  BITS_PER_BYTE = 1
  WORD_SIZE_IN_BYTES = 4
  WORD_SIZE_IN_BITS = 4
  BufferWords = 4
  Garbage <- Uniform
  Field <- FieldsSent
  MaxFields = 2
  SIMPLE_MESSAGE = 0
  LENGTH = 2
INVARIANT EveryIntPasses
PROPERTY NoLastInt
CHECK_DEADLOCK FALSE
