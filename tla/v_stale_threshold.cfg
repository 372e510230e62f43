\* A tunnel opened again with another threshold.
SPECIFICATION Spec
CONSTANTS
  Remotes = {r1}
  NoRemote = NoRemote
  Keys = {k1}
  NoKey = NoKey
  Conns = {c1, c2}
  Removable = {}
  RemoteSets <- AllRemotes
  Options <- OneOrTwoErrors
  MaxOpens = 2
  MaxChecks = 2
  WordSize = 3
  ErrorCap = 2
  OverflowChecks = FALSE
SYMMETRY Symmetry
INVARIANT
  ErrorsMatchPlace
CHECK_DEADLOCK FALSE
