SPECIFICATION FairSpec
CONSTANTS
  Transports <- Both
  RING_BUF_SIZE = 3
  BufferSize = 2
  FifoSize = 2
  Windows <- AtAndBeyond
  ReadLength = 2
  WriteLengths = {3}
  Timeout = 1
  Attempts = 2
INVARIANT
  SentIsReceived
PROPERTIES
  WritesReturnIfPaced
  BytesArrive
  ComesRoundIfPaced
