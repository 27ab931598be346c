SPECIFICATION FairSpec
CONSTANTS
  Conns = {a}
  v1 = v1
  Values = {v1}
  None = None
  MaxDrops = 1
  MaxInFlight = 1
  Hooks = {h1}
  MaxQueue = 2
  MaxEvents = 5
  MaxBoxes = 2
  MaxOthers = 1
  MaxBoots = 2
CHECK_DEADLOCK FALSE
INVARIANTS
  CreatedBeforeDeleted
PROPERTIES
  EndToEnd
