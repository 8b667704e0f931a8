SPECIFICATION FairSpec
CONSTANTS
  Transports <- AllTransports
  Troubles <- AllTroubles
  MaxSockets = 2
INVARIANT SocketsAccounted
PROPERTY ServedIfEndured
