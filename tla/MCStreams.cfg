SPECIFICATION StreamSpec
CONSTANTS
  BITS_PER_BYTE = 2
  WORD_SIZE_IN_BYTES = 2
  WORD_SIZE_IN_BITS = 4
  BufferWords = 2
  Garbage <- Uniform
  Field <- Fields4
  MaxFields = 3
INVARIANTS
  BufferNotOverrun
  TrapsExactlyTheOversized
  StreamTypeOK
  RoundTrip
  ShortIntegersAreRefused
PROPERTIES
  ImplementsPacker
  ReadsWhatWasWritten
CHECK_DEADLOCK FALSE
