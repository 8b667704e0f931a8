SPECIFICATION FairSpec
CONSTANTS
  Transports = {"udp"}
  Troubles = {"no_address", "no_route"}
  MaxSockets = 2
PROPERTY AgentIsServed
