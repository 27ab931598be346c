CONSTANTS
  Conns = {a, b}
  v1 = v1
  v2 = v2
  Values = {v1, v2}
  None = None
  MaxDrops = 1
  MaxInFlight = 2
SPECIFICATION FairSpec
CHECK_DEADLOCK FALSE
INVARIANTS TypeOK NoneMissed PrevMirrorsCache CreatedOnce
PROPERTIES DeletedMeansGone EventuallyTold
