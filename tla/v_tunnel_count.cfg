\* The tunnel is closed and opened again while it has connections.
SPECIFICATION Spec
CONSTANTS
  Remotes = {r1}
  NoRemote = NoRemote
  Keys = {k1}
  NoKey = NoKey
  Conns = {c1, c2}
  Removable = {}
  RemoteSets <- AllRemotes
  Options <- NeverDead
  MaxOpens = 2
  MaxChecks = 0
  WordSize = 3
  ErrorCap = 1
  OverflowChecks = FALSE
SYMMETRY Symmetry
INVARIANT
  NoConnectionHidden
CHECK_DEADLOCK FALSE
