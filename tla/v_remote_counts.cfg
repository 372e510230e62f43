\* Remotes die and return: their counters are not updated meanwhile.
SPECIFICATION Spec
CONSTANTS
  Remotes = {r1}
  NoRemote = NoRemote
  Keys = {k1}
  NoKey = NoKey
  Conns = {c1, c2}
  Removable = {}
  RemoteSets <- AllRemotes
  Options <- OneError
  MaxOpens = 1
  MaxChecks = 2
  WordSize = 3
  ErrorCap = 1
  OverflowChecks = FALSE
SYMMETRY Symmetry
INVARIANT
  RemoteCountsExact
CHECK_DEADLOCK FALSE
