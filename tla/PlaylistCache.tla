---------------------------- MODULE PlaylistCache ----------------------------
(***************************************************************************)
(* The playlist of one HLS channel as its viewers poll it.  A handler      *)
(* reads the channel row, then the cache, which is keyed by the channel    *)
(* alone and holds raw upstream bodies, and on a miss the upstream that    *)
(* the row named; the lines of the body are resolved against the row's     *)
(* URL.  Nothing joins two handlers that miss at the same time, and the    *)
(* last one to be done stores its body.                                    *)
(*                                                                         *)
(* The upstream's live playlist advances with each tick, so a body is      *)
(* known by its URL and the tick it was read at.                           *)
(***************************************************************************)
EXTENDS ServerClock

CONSTANTS
  Viewer,        \* the sessions that watch the channel
  Upstream,      \* the URLs that the channel row may name
  PlaylistTTL,   \* Limits.PlaylistCacheTTL, 0 when there is no cache
  MaxFetch       \* ticks from GetChannel to the answer, at most

ASSUME PlaylistCacheAssumption == PlaylistTTL \in Nat /\ MaxFetch \in Nat

VARIABLES
  upstreamUrl,   \* channels.upstream_url
  moved,         \* history: when it last changed
  playlistCache, \* the cached body and its expiry
  viewer,        \* per session: where ProxyHLSPlaylist is and its locals
  screen         \* per session: the playlist it has got last

hls == <<upstreamUrl, moved, playlistCache, viewer, screen>>
hlsVars == <<now, hls>>

Playlist == [url: Upstream, at: Time]
NoPlaylist == [expiry |-> 0]
CachedPlaylist == [expiry: 0 .. Horizon + PlaylistTTL, body: Playlist]

Watching == [pc |-> "watching"]
Polling == [pc: {"get", "fetch"}, base: Upstream, since: Time]
Filling == [pc: {"set"}, base: Upstream, since: Time, body: Playlist]

HlsTypeOK ==
  /\ now \in Time
  /\ upstreamUrl \in Upstream
  /\ moved \in Time
  /\ playlistCache \in CachedPlaylist \cup {NoPlaylist}
  /\ viewer \in [Viewer -> Polling \cup Filling \cup {Watching}]
  /\ screen \in [Viewer -> [base: Upstream, body: Playlist]]

\* Every player begins with a playlist of its own session.
HlsInit ==
  /\ now = 0
  /\ upstreamUrl \in Upstream
  /\ moved = 0
  /\ playlistCache = NoPlaylist
  /\ viewer = [v \in Viewer |-> Watching]
  /\ screen = [v \in Viewer |->
       [base |-> upstreamUrl, body |-> [url |-> upstreamUrl, at |-> 0]]]

-----------------------------------------------------------------------------
(***************************************************************************)
(* ProxyHLSPlaylist and fetchPlaylistBody.                                 *)
(***************************************************************************)

\* GetChannel; the session was found active and the row there.
Poll(v) ==
  /\ viewer[v] = Watching
  /\ viewer' = [viewer EXCEPT ![v] = [pc |-> "get", base |-> upstreamUrl, since |-> now]]
  /\ UNCHANGED <<now, upstreamUrl, moved, playlistCache, screen>>

FreshPlaylist == playlistCache # NoPlaylist /\ now <= playlistCache.expiry

\* RewritePlaylist resolves the body against the URL of the row as it was read;
\* a line may be too long for it, or the client gone.
Rewrite(v, body) ==
  /\ \/ screen' = [screen EXCEPT ![v] = [base |-> viewer[v].base, body |-> body]]
     \/ UNCHANGED screen
  /\ viewer' = [viewer EXCEPT ![v] = Watching]

\* Slip: an entry that has expired is served.
ServeAnyCached(v) ==
  /\ viewer[v].pc = "get"
  /\ playlistCache # NoPlaylist
  /\ Rewrite(v, playlistCache.body)
  /\ UNCHANGED <<now, upstreamUrl, moved, playlistCache>>

\* ttlCache.Get finds a body that is fresh.
ServeCached(v) ==
  /\ viewer[v].pc = "get"
  /\ FreshPlaylist
  /\ Rewrite(v, playlistCache.body)
  /\ UNCHANGED <<now, upstreamUrl, moved, playlistCache>>

\* ttlCache.Get finds none, or drops one that has expired.
MissPlaylist(v) ==
  /\ viewer[v].pc = "get"
  /\ ~FreshPlaylist
  /\ playlistCache' = NoPlaylist
  /\ viewer' = [viewer EXCEPT ![v].pc = "fetch"]
  /\ UNCHANGED <<now, upstreamUrl, moved, screen>>

\* The upstream that the row named answers.
FetchBody(v) ==
  /\ viewer[v].pc = "fetch"
  /\ viewer' = [viewer EXCEPT ![v] =
       [pc |-> "set", base |-> viewer[v].base, since |-> viewer[v].since,
        body |-> [url |-> viewer[v].base, at |-> now]]]
  /\ UNCHANGED <<now, upstreamUrl, moved, playlistCache, screen>>

\* Every upstream slot is taken, the upstream refuses, or the body breaks off:
\* 502, and the player polls again.
FetchBodyFails(v) ==
  /\ viewer[v].pc \in {"fetch", "set"}
  /\ viewer' = [viewer EXCEPT ![v] = Watching]
  /\ UNCHANGED <<now, upstreamUrl, moved, playlistCache, screen>>

\* Slip: a body that another handler has stored meanwhile stays.
StoreBodyIfAbsent(v) ==
  /\ viewer[v].pc = "set"
  /\ playlistCache' = IF PlaylistTTL = 0 \/ playlistCache # NoPlaylist THEN playlistCache
                      ELSE [expiry |-> now + PlaylistTTL, body |-> viewer[v].body]
  /\ Rewrite(v, viewer[v].body)
  /\ UNCHANGED <<now, upstreamUrl, moved>>

\* The body is read to its end; ttlCache.Set replaces whatever is there.
StoreBody(v) ==
  /\ viewer[v].pc = "set"
  /\ playlistCache' = IF PlaylistTTL = 0 THEN playlistCache
                      ELSE [expiry |-> now + PlaylistTTL, body |-> viewer[v].body]
  /\ Rewrite(v, viewer[v].body)
  /\ UNCHANGED <<now, upstreamUrl, moved>>

-----------------------------------------------------------------------------
(***************************************************************************)
(* Around it.                                                              *)
(***************************************************************************)

\* A refresh upserts the channel with another URL.
MoveChannel(u) ==
  /\ u # upstreamUrl
  /\ upstreamUrl' = u
  /\ moved' = now
  /\ UNCHANGED <<now, playlistCache, viewer, screen>>

\* A handler that takes longer than MaxFetch is not modelled.
HlsTick ==
  /\ now < Horizon
  /\ \A v \in Viewer : viewer[v] # Watching => now < viewer[v].since + MaxFetch
  /\ now' = now + 1
  /\ UNCHANGED hls

HlsRestart ==
  /\ playlistCache' = NoPlaylist
  /\ viewer' = [v \in Viewer |-> Watching]
  /\ UNCHANGED <<now, upstreamUrl, moved, screen>>

HlsNext ==
  \/ \E v \in Viewer :
       \/ Poll(v)
       \/ ServeCached(v) \/ MissPlaylist(v)
       \/ FetchBody(v) \/ FetchBodyFails(v) \/ StoreBody(v)
  \/ \E u \in Upstream : MoveChannel(u)
  \/ HlsTick
  \/ HlsRestart

HlsSpec == HlsInit /\ [][HlsNext]_hlsVars

-----------------------------------------------------------------------------
\* A playlist whose lines are resolved against another URL than they came
\* from sends a player to segments that do not exist.  That a viewer gets one
\* is over a lifetime of the cache and one request after the channel moved.
MixedOnlyBriefly ==
  [][\A v \in Viewer :
       screen'[v] # screen[v] /\ screen'[v].base # screen'[v].body.url
         => now <= moved + PlaylistTTL + MaxFetch]_hlsVars

\* A player takes a live playlist that goes back for a discontinuity.  A slow
\* handler may store an older body over a newer one, and another viewer then
\* goes back by what that handler took, but never further: not by a lifetime
\* of the cache, not with each poll, and not across a restart.
NeverFarBack ==
  [][\A v \in Viewer : screen'[v].body.at + MaxFetch >= screen[v].body.at]_hlsVars

=============================================================================
