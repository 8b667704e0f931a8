SPECIFICATION FairSpec
CONSTANTS
  Transports = {"usb"}
  Troubles = {"attempt_fails"}
  MaxSockets = 2
PROPERTY AgentIsServed
