\* Both directions to a remote over TLS that takes what arrives; nothing is
\* assumed of the client, either end may fail.
SPECIFICATION FairSpec
CONSTANTS
  BufSize = 2
  Loads <- Cases
  Window = 1
  Hold <- TlsRemote
  Failures = {"a", "b"}
  Takers = {"b"}
INVARIANTS
  TypeOK
  NothingLost
  NoLostWakeup
PROPERTIES
  ImplementsPipe
  Delivered
  EofPassedOn
  FinishEnds
CHECK_DEADLOCK FALSE
