SPECIFICATION Spec
CONSTANTS
  a = a
  b = b
  Worker = {w1, w2}
  Url = {u1}
  Key = {a, b}
  Playlist <- TwoPlaylists
  Offers = "etag"
  MaxFaults = 0
INVARIANTS
  TagIsEarned
