SPECIFICATION Spec
CONSTANTS
  Streams <- OddStreams
  SIGNATURE = 2
  EOCD32_CONSTANT_SIZE = 2
  EOCD64_LOCATOR_CONSTANT_SIZE = 2
  EOCD64_CONSTANT_SIZE = 2
  CDFH_CONSTANT_SIZE = 2
  U16_MAX = 3
  U32_MAX = 1000
  MaxFaults = 1
INVARIANT
  Guarantee
