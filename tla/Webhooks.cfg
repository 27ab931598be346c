SPECIFICATION FairSpec
CONSTANTS
  Hooks = {h1}
  MaxQueue = 2
  MaxEvents = 5
  MaxBoxes = 2
INVARIANTS
  TypeOK
  NeverStalls
PROPERTIES
  ImplementsMailbox
  Drains
