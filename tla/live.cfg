\* What must happen in the end (dev profile).
SPECIFICATION FairSpec
CONSTANTS
  Remotes = {r1, r2}
  NoRemote = NoRemote
  Keys = {k1}
  NoKey = NoKey
  Conns = {c1}
  Removable = {r1}
  RemoteSets <- AllRemotes
  Options <- OneErrorOrPanic
  MaxOpens = 2
  MaxChecks = 2
  WordSize = 3
  ErrorCap = 1
  OverflowChecks = TRUE
PROPERTIES
  ClosedTunnelDrains
  ConnectingEnds
  DeadRemoteReturns
CHECK_DEADLOCK FALSE
