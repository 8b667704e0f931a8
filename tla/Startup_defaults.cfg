SPECIFICATION Spec
CONSTANTS
  Transports <- AllTransports
  Troubles <- AllTroubles
  MaxSockets = 2
INVARIANT DefaultsApplied
