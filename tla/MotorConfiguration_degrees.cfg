SPECIFICATION Spec
CONSTANTS
  ReadyDevices <- AllReady
  Resolutions <- Valid
  Frequencies = {200}
  Goals <- Near
  HandTurns = {}
  MaxError = 2
INVARIANT
  StepsAreDegrees
