\* Remotes die, return, are removed and added while the strategies pick; the least
\* loaded one is picked, by the counters and in fact, until one leaves.
SPECIFICATION Spec
CONSTANTS
  Remotes = {r1, r2, r3}
  NoRemote = NoRemote
  Options = {}
  MaxOpens = 1
  MaxChecks = 0
  WordSize = 3
  ErrorCap = 2
  OverflowChecks = FALSE
  Strategies = {"Random", "RoundRobin", "MinimumOpenConnections"}
  First <- AnyTwo
  Removable = {r1, r2, r3}
  Threshold = 1
  MaxSteady = 4
  MaxStreams = 2
SYMMETRY Symmetry
INVARIANTS
  TypeOK
  SelectionInRange
PROPERTIES
  OncePerRound
  PicksLeastBusy
CHECK_DEADLOCK FALSE
