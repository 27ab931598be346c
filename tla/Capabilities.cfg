SPECIFICATION Spec
CONSTANTS
  p = p
  q = q
  Props = {p, q}
  Revisions <- MCRevisions
  Callers = {r1, r2}
  CapIds = {k1}
  Conns = {a, b}
  Directions = {"read", "write", "readwrite"}
  Role = "provider"
  MaxBoots = 2
SYMMETRY Symmetry
INVARIANTS
  TypeOK
  WithinGrant
  Attenuated
  FreshSinceStart
  RevokedStaysRevoked
  TokensLast
PROPERTIES
  OfflineRestart
