SPECIFICATION Spec
CONSTANTS
  Hooks = {h1}
  MaxQueue = 2
  MaxEvents = 4
  MaxBoxes = 1
INVARIANTS
  NeverSilentlyLost
