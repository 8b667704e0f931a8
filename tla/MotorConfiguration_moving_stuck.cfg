SPECIFICATION FairSpec
CONSTANTS
  ReadyDevices <- AllReady
  Resolutions = {16}
  Frequencies = {0, 200}
  Goals <- Near
  HandTurns = {}
  MaxError = 2
PROPERTY
  MovingIsReset
