--------------------------- MODULE MCServerParts ----------------------------
(***************************************************************************)
(* The small parts of the system for one run: the rate limiter, the        *)
(* settings snapshot with the guide cache, the pages of the channel list,  *)
(* the favorites with their page, the playlist cache, the playlist parser, *)
(* the overrides of a channel, and its current and next programme.  They   *)
(* share no variable but the clock and no property speaks of two of them,  *)
(* so a behaviour moves one part and leaves the others as they started.    *)
(***************************************************************************)
EXTENDS RateLimiter, GuideCache, ChannelPages, FavoritesPage, PlaylistCache,
        M3UParser, ChannelOverrides, NowAndNext, TLC

CONSTANT CacheHorizon          \* bound: the last tick of the parts with a cache

VARIABLE part

stars == <<favorites, page>>

vars == <<now, limiter, settings, guide, pages, stars, hls, parse, overrides, tiles, part>>

Part == {"limiter", "guide", "pages", "stars", "hls", "parser", "overrides", "tiles"}

\* Where a part with several initial states starts when another one moves.
GuideAtRest == \A v \in Cap : row <= v
PagesAtRest == shown = {} /\ \A c, d \in Id : rank[c] = rank[d]
StarsAtRest == Rows = {}
HlsAtRest == upstreamUrl = CHOOSE u \in Upstream : TRUE
OverridesAtRest == \A c \in Override : src[c] = 0

Init ==
  /\ LimiterInit /\ GuideInit /\ PagesInit /\ PageInit
  /\ HlsInit /\ ParserInit /\ OverridesInit /\ TilesInit
  /\ part \in Part
  /\ part # "guide" => GuideAtRest
  /\ part # "pages" => PagesAtRest
  /\ part # "stars" => StarsAtRest
  /\ part # "hls" => HlsAtRest
  /\ part # "overrides" => OverridesAtRest

\* The clock runs for the parts that read it.
Next ==
  /\ \/ part = "limiter" /\ LimiterNext
     \/ part = "guide" /\ GuideNext /\ now' <= CacheHorizon
     \/ part = "pages" /\ PagesNext
     \/ part = "stars" /\ PageNext
     \/ part = "hls" /\ HlsNext /\ now' <= CacheHorizon
     \/ part = "parser" /\ ParserNext
     \/ part = "overrides" /\ OverridesNext
     \/ part = "tiles" /\ TilesNext
  /\ part # "limiter" => UNCHANGED limiter
  /\ part # "guide" => UNCHANGED <<settings, guide>>
  /\ part # "pages" => UNCHANGED pages
  /\ part # "stars" => UNCHANGED stars
  /\ part # "hls" => UNCHANGED hls
  /\ part # "parser" => UNCHANGED parse
  /\ part # "overrides" => UNCHANGED overrides
  /\ part # "tiles" => UNCHANGED tiles
  /\ part \notin {"limiter", "guide", "hls", "tiles"} => UNCHANGED now
  /\ UNCHANGED part

Spec == Init /\ [][Next]_vars

\* The parts have their users, requests, sessions and drawers from one set: as
\* one part moves, one permutation serves them all.
Interchangeable == Permutations(User)

Shows == {[start |-> 0, stop |-> 2], [start |-> 1, stop |-> 3],
          [start |-> 2, stop |-> 3], [start |-> 1, stop |-> 2]}

TypeOK == LimiterTypeOK /\ GuideTypeOK /\ PagesTypeOK /\ PageTypeOK
            /\ HlsTypeOK /\ ParserTypeOK /\ OverridesTypeOK /\ TilesTypeOK

=============================================================================
