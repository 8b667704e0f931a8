SPECIFICATION Spec
CONSTANTS
  setup = setup
  target = target
  homing = homing
  soft = soft
  other = other
  none = none
  NoCommand = none
  Commands <- NoSetup
  TypeOf <- MCTypeOf
  SetupReads = 2
  CopyReads = 2
  MasterMode = "free"
  Freezing = {}
  MaxFeedback = 1
INVARIANT
  IgnoredHasNoEffect
