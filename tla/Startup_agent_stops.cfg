SPECIFICATION FairSpec
CONSTANTS
  Transports = {"serial"}
  Troubles = {"agent_stops"}
  MaxSockets = 2
PROPERTY AgentIsServed
