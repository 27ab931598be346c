SPECIFICATION Spec
CONSTANTS
  n = n
  c = c
  Nodes <- MCNodes
  Contexts <- MCContexts
  Parent <- MCParent
  Decls = {d}
  Handlers = {h1, h2}
  Replay = replay
  MaxFaults = 2
  DeltaFirst = FALSE
SYMMETRY HandlerSymmetry
INVARIANTS
  TypeOK
  ReplayNeverWipes
  ReplayFollowsTree
  NothingForgotten
  OrphansWereOvertaken
