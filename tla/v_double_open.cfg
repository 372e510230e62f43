\* Two callers open a tunnel on a name of two addresses.
SPECIFICATION Spec
CONSTANTS
  Hosts = {"127.0.0.1", "localhost"}
  NoHost = ""
  LoopbackHost = "127.0.0.1"
  Ports = {3000, 3001}
  DefaultOptions <- MCDefault
  Sessions = {s1}
  RpcCalls = {p1}
  NoRequest = NoRequest
  NoOptions = NoOptions
  Addrs = {"lo4", "lo6"}
  NoAddr = NoAddr
  Addresses <- TwoAddresses
  LineInputs <- Lines
  RpcInputs <- Calls
  Launch <- FirstTunnel
INVARIANT
  GaugeIsCount
CHECK_DEADLOCK FALSE
