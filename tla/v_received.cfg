\* One client whose connection moves a byte in each direction.
SPECIFICATION MeteredSpec
CONSTANTS
  Remotes = {r1}
  NoRemote = NoRemote
  Keys = {k1}
  NoKey = NoKey
  Conns = {c1}
  Removable = {}
  RemoteSets <- AllRemotes
  Options <- OneError
  MaxOpens = 1
  MaxChecks = 1
  WordSize = 3
  ErrorCap = 1
  OverflowChecks = FALSE
  MaxMoved = 2
INVARIANT
  ReceivedExported
CHECK_DEADLOCK FALSE
