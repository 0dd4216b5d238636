SPECIFICATION FairSpec
CONSTANTS
  one = one
  two = two
  Worker = {w1}
  Url = {u1}
  GuideId = {one, two}
  NoTime = NoTime
  BadTime = BadTime
  Guide <- Guides
  Channel = {c1}
  SourceId <- OwnId
  PruneAge = 1
  Horizon = 4
  MaxFaults = 2
INVARIANTS
  TypeOK
  FutureListedOnce
  TagIsEarned
PROPERTIES
  OnAirStays
  ManualLinksKept
  Converges
