SPECIFICATION FairSpec
CONSTANTS
  Transports = {"serial"}
  RING_BUF_SIZE = 3
  BufferSize = 2
  FifoSize = 2
  Windows <- Beyond
  ReadLength = 2
  WriteLengths = {3}
  Timeout = 1
  Attempts = 2
PROPERTY MainComesRound
