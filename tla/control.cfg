\* A session, an RPC call and the start, on two names of one address.
SPECIFICATION FairSpec
CONSTANTS
  Hosts = {"127.0.0.1", "localhost"}
  NoHost = ""
  LoopbackHost = "127.0.0.1"
  Ports = {3000, 3001}
  DefaultOptions <- MCDefault
  Sessions = {s1}
  RpcCalls = {p1}
  NoRequest = NoRequest
  NoOptions = NoOptions
  Addrs = {"lo4"}
  NoAddr = NoAddr
  Addresses <- OneAddress
  LineInputs <- Lines
  RpcInputs <- Calls
  Launch <- FirstTunnel
INVARIANTS
  TypeOK
  LoopsOwned
  GaugeIsCount
PROPERTIES
  ImplementsRegistry
  AddressFreed
CHECK_DEADLOCK FALSE
