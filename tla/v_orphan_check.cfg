\* Dead remotes may be removed: their checks go on.
SPECIFICATION Spec
CONSTANTS
  Remotes = {r1}
  NoRemote = NoRemote
  Keys = {k1}
  NoKey = NoKey
  Conns = {c1}
  Removable = {r1}
  RemoteSets <- AllRemotes
  Options <- OneError
  MaxOpens = 1
  MaxChecks = 2
  WordSize = 2
  ErrorCap = 1
  OverflowChecks = FALSE
SYMMETRY Symmetry
INVARIANT
  WaitingChecksTargetDead
CHECK_DEADLOCK FALSE
