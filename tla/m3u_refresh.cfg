SPECIFICATION FormsFairSpec
CONSTANTS
  a = a
  b = b
  secret = secret
  redacted = redacted
  Worker = {w1}
  Url = {secret, redacted}
  Masked <- Mask
  Admin = {a1}
  Key = {a, b}
  Playlist <- Playlists
  Offers = "date"
  MaxFaults = 3
INVARIANTS
  TypeOK
  FormsTypeOK
  TagIsEarned
PROPERTIES
  WritersKeepApart
  RefusalKeepsChannels
  Converges
CHECK_DEADLOCK FALSE
