SPECIFICATION Spec
CONSTANTS
  User = {u1}
  Cost = 2
  Burst = 2
  IdleAfter = 3
  MaxSkew = 1
  MaxCalls = 1
  Horizon = 1
  CacheHorizon = 1
  Admin = {a1, a2}
  Cap = {1, 2}
  Client = {c1}
  Length = {3}
  TTL = 1
  SweepAbove = 1
  MaxRead = 1
  MaxVersion = 1
  Id = {1}
  Rank = {1}
  Limit = {1}
  Channel = {1}
  Requester = {r1}
  MaxAdds = 0
  Viewer = {v1}
  Upstream = {p1}
  PlaylistTTL = 1
  MaxFetch = 1
  TvgId = {t1}
  NoId = noid
  StreamUrl = {l1}
  Stump = stump
  MaxLines = 1
  Editor = {e1}
  Override = {"number"}
  Value = {0}
  Null = null
  Show <- Shows
INVARIANTS
  SettingsReachAnswers
