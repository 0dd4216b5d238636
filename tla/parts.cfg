SPECIFICATION Spec
CONSTANTS
  User = {u1, u2}
  Cost = 2
  Burst = 2
  IdleAfter = 3
  MaxSkew = 1
  MaxCalls = 2
  Horizon = 5
  CacheHorizon = 3
  Admin = {a1}
  Cap = {1, 2}
  Client = {u1, u2}
  Length = {3}
  TTL = 1
  SweepAbove = 1
  MaxRead = 1
  MaxVersion = 1
  Id = {1, 2, 3}
  Rank = {1, 2}
  Limit = {1, 2}
  Channel = {1, 2}
  Requester = {r1, r2}
  MaxAdds = 1
  Viewer = {u1, u2}
  Upstream = {p1, p2}
  PlaylistTTL = 1
  MaxFetch = 1
  TvgId = {t1}
  NoId = noid
  StreamUrl = {l1, l2}
  Stump = stump
  MaxLines = 6
  Editor = {u1, u2}
  Override = {"number"}
  Value = {0, 1}
  Null = null
  Show <- Shows
SYMMETRY Interchangeable
INVARIANTS
  TypeOK
  RateBounded
  TokensKept
  SettingsReachAnswers
  AnswersFresh
  SteadyListedOnce
  ReorderStands
  QuietPageShowsStored
  EntriesAsListed
  CutSpoilsOneKey
  NextComesAfter
PROPERTIES
  MixedOnlyBriefly
  NeverFarBack
  DecisionsStand
