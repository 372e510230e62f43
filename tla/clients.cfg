\* Two clients and two remotes, which die and return or never die; one opening,
\* no removal; the exported instruments.
SPECIFICATION MeteredSpec
CONSTANTS
  Remotes = {r1, r2}
  NoRemote = NoRemote
  Keys = {k1}
  NoKey = NoKey
  Conns = {c1, c2}
  Removable = {}
  RemoteSets <- AllRemotes
  Options <- OneErrorOrNever
  MaxOpens = 1
  MaxChecks = 2
  WordSize = 3
  ErrorCap = 1
  OverflowChecks = FALSE
  MaxMoved = 1
SYMMETRY Symmetry
INVARIANTS
  WaitingChecksTargetDead
  TunnelCountExact
  SteadyCountsExact
  GaugesFollowStats
CHECK_DEADLOCK FALSE
