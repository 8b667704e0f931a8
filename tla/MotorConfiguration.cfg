SPECIFICATION Spec
CONSTANTS
  ReadyDevices <- AllOrNotYaw
  Resolutions <- Valid
  Frequencies = {200}
  Goals <- Near
  HandTurns = {2}
  MaxError = 2
INVARIANT
  FeedbackIsTrue
PROPERTIES
  MicrostepsAtRest
  MovesAreDegrees
