SPECIFICATION WarmSpec
CONSTANTS
  SessionId = {s1}
  User = {u1}
  Channel = {c1}
  IdleTimeout = 2
  Minter = {}
  UserCap = 1
  ChannelCap = 0
  Handler = {h1}
  StreamCap = 1
  UpstreamCap = 1
  FlushInterval = 1
  WriteLatency = 1
  ObservesDisconnect = TRUE
  WritesMayFail = FALSE
PROPERTIES
  DisconnectEndsSession
