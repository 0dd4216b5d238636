SPECIFICATION Spec
CONSTANTS
  SessionId = {s1, s2}
  User = {u1}
  Channel = {c1}
  IdleTimeout = 1
  Minter = {m1, m2}
  UserCap = 1
  ChannelCap = 0
  Handler = {}
  StreamCap = 1
  UpstreamCap = 1
  FlushInterval = 1
  WriteLatency = 0
  ObservesDisconnect = FALSE
  WritesMayFail = FALSE
SYMMETRY MintSymmetry
INVARIANTS
  UserCapHolds
