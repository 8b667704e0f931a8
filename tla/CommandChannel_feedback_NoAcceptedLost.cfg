SPECIFICATION Spec
CONSTANTS
  setup = setup
  target = target
  homing = homing
  soft = soft
  other = other
  none = none
  NoCommand = none
  Commands <- KnownCommands
  TypeOf <- MCTypeOf
  SetupReads = 2
  CopyReads = 2
  MasterMode = "feedback"
  Freezing = {}
  MaxFeedback = 1
INVARIANT
  NoAcceptedLost
