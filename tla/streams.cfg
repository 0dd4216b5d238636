SPECIFICATION HalvesSpec
CONSTANTS
  SessionId = {s1, s2}
  User = {u1, u2}
  Channel = {c1}
  IdleTimeout = 3
  Minter = {m1, m2}
  UserCap = 1
  ChannelCap = 1
  Handler = {h1, h2}
  StreamCap = 1
  UpstreamCap = 1
  FlushInterval = 1
  WriteLatency = 1
  ObservesDisconnect = TRUE
  WritesMayFail = FALSE
SYMMETRY Symmetry
INVARIANTS
  CapOvershootBounded
  NoOrphanedRows
  SlotsAccounted
  HoldsWhatItUses
PROPERTIES
  ReaperSparesFlowing
  PumpEndsItsSession
  EndIsFinal
