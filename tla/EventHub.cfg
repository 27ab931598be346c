CONSTANTS
  p = p
  q = q
  t = t
  u = u
  Subs = {p, q}
  Types = {t, u}
  Filter <- MCFilter
  MaxRing = 2
  MaxEvents = 3
  MaxBoots = 2
SPECIFICATION Spec
CHECK_DEADLOCK FALSE
INVARIANTS TypeOK ResumesExactly
