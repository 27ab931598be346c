CONSTANTS
  a = a
  b = b
  x = x
  y = y
  s = s
  t = t
  Names = {a, b}
  Hosts = {x, y}
  Tokens = {s}
  Configs <- AnyConfig
  None = None
  Detached = Detached
  MaxBuilt = 4
  MaxFaults = 1
SPECIFICATION Spec
CHECK_DEADLOCK FALSE
INVARIANTS TypeOK NoStrayConnection Durable TreeFollowsRealm OneHandlePerHost
