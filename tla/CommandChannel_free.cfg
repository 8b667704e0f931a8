SPECIFICATION FairSpec
CONSTANTS
  setup = setup
  target = target
  homing = homing
  soft = soft
  other = other
  none = none
  NoCommand = none
  Commands <- AllCommands
  TypeOf <- MCTypeOf
  SetupReads = 2
  CopyReads = 2
  MasterMode = "free"
  Freezing = {setup, none}
  MaxFeedback = 1
INVARIANTS
  TypeOK
  StateShowsRoutine
  DoorClosed
  AtMostOncePerAcceptance
PROPERTY
  FlagServed
