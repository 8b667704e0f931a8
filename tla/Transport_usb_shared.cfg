SPECIFICATION Spec
CONSTANTS
  Transports = {"usb"}
  RING_BUF_SIZE = 3
  BufferSize = 2
  FifoSize = 2
  Windows = {2}
  ReadLength = 2
  WriteLengths = {3}
  Timeout = 1
  Attempts = 2
INVARIANT BytesAreWhole
