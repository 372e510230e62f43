\* Two clients of one remote that dies of two errors in a row; everything may be
\* removed and made again; overflow wraps (release profile).
SPECIFICATION Spec
CONSTANTS
  Remotes = {r1}
  NoRemote = NoRemote
  Keys = {k1}
  NoKey = NoKey
  Conns = {c1, c2}
  Removable = {r1}
  RemoteSets <- AllRemotes
  Options <- TwoErrorsOrPanic
  MaxOpens = 2
  MaxChecks = 2
  WordSize = 3
  ErrorCap = 2
  OverflowChecks = FALSE
SYMMETRY Symmetry
INVARIANTS
  TypeOK
  LiveDeadDisjoint
  DeadIsChecked
  ErrorsMatchPlace
PROPERTY
  OnlyAdminChangesMembers
CHECK_DEADLOCK FALSE
