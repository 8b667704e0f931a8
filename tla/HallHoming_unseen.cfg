SPECIFICATION Spec
CONSTANTS
  Revolution = 9
  Field = 4
  Latency = 1
  Goals <- Both
  Modulus = 64
  HallsReady = {FALSE}
INVARIANT
  HomeFound
