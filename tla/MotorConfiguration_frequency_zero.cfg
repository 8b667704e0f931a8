SPECIFICATION Spec
CONSTANTS
  ReadyDevices <- AllReady
  Resolutions <- Valid
  Frequencies = {0, 200}
  Goals <- Near
  HandTurns = {}
  MaxError = 2
INVARIANT
  FeedbackIsTrue
