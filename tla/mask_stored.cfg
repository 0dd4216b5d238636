SPECIFICATION FormsSpec
CONSTANTS
  a = a
  b = b
  secret = secret
  redacted = redacted
  Worker = {w1}
  Url = {secret, redacted}
  Masked <- Mask
  Admin = {a1}
  Key = {a, b}
  Playlist <- Playlists
  Offers = "date"
  MaxFaults = 1
INVARIANTS
  SecretBehindMask
CHECK_DEADLOCK FALSE
