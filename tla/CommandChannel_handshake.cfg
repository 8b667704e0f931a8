SPECIFICATION FairSpec
CONSTANTS
  setup = setup
  target = target
  homing = homing
  soft = soft
  other = other
  none = none
  NoCommand = none
  Commands <- KnownCommands
  TypeOf <- MCTypeOf
  SetupReads = 2
  CopyReads = 2
  MasterMode = "handshake"
  Freezing = {}
  MaxFeedback = 2
INVARIANTS
  NoTornCommand
  NoAcceptedLost
PROPERTY
  ImplementsService
