# The Live TV plugin in TLA+

The plugin is one Go process that a Silo host starts. It keeps its state in a
Postgres schema, answers REST requests (through chi, behind the host's gRPC
bridge), proxies streams from upstream providers to clients, and is woken by
the host's cron for three background tasks. This directory models the parts of
it in which requests, background tasks, the administrator and failures meet.

## The system

| Component | State | Operations | Meets |
|---|---|---|---|
| Stream session store (`internal/store/sessions.go`) | table `stream_sessions`: owner, channel, `last_byte_at`, `ended_at`, `end_reason` | insert, stamp activity, end, count active, reap idle; rows cascade from `channels` | minting, proxy, reaper, administrator |
| Session minting (`internal/streamproxy/session.go`) | locals of a request; `channels.upstream_kind`, `user_recent` | `CreateSession`: look up, two cap checks, probe, insert, read back, answer | other mints, the reaper, deletion of the channel |
| Byte-serving proxy (`mpegts.go`, `hls.go`, `proxy.go`, `limits.go`, `cache.go`) | two semaphores, a token-bucket rate limiter, a playlist cache, locals of each handler | `ProxyMPEGTS`, `ProxyHLSPlaylist`, `ProxyHLSSegment`, token and segment checks | each other on the semaphores and on one session's row |
| Reaper and scheduler (`internal/refresh/reaper.go`, `internal/scheduler`) | none of its own | `ReapIdle`, task dispatch | sessions |
| M3U refresh (`internal/refresh/m3u.go`) | `m3u_sources` (URL, validators, status), `channels` | conditional fetch, upsert, mark missing, save status | other refreshes of the source, edits and deletion of it |
| XMLTV refresh and guide (`refresh/xmltv.go`, `store/programs.go`, `server/guide.go`, `server/cache.go`) | `programs`, `channel_epg_keys`, a guide cache with a time to live | conditional fetch, replace the future, auto-link, prune, guide window | other refreshes, admin links, cached readers |
| Settings (`settings/snapshot.go`, `server/admin_settings.go`, `store/settings.go`) | one row, and an atomic snapshot of it in memory | get, update, reload | every limit in the proxy |
| Favorites and recents (`store/favorites.go`) | `favorites` with positions, `user_recent` | add, remove, reorder, list, mark tuned | concurrent requests of one user |
| Channel listing and admin channels (`store/channels.go`, `server/*channels.go`) | `channels` with admin overrides | keyset paging, patch, EPG keys | refreshes between two pages |
| Admin sources (`server/admin_sources.go`) | source rows | create, update, delete, mask secrets, start a refresh | refreshes |
| Parsers (`internal/m3u`, `internal/xmltv`), body limits (`httpclient/limit.go`) | locals of a scan | playlist and guide parsing | what the refreshes apply |
| Web interface: favorites (`web/src/pages/Favorites.tsx`, `components/ChannelCard.tsx`), drawers of sources and channels (`pages/admin/Sources.tsx`, `Channels.tsx`) | cached lists, the fields of an open drawer | drag, star, fetch, restore after an error; open, edit, save | the favorites API, the admin APIs, refreshes |
| HTTP client guard, migrations, bridge, wiring, the rest of the web interface | | | |

What is hard here, and where:

* A handler is a sequence of SQL statements without a transaction or a lock.
  Two cap checks count rows that a later statement of another request inserts.
* A session outlives every party that works on it: several byte-serving
  requests can use one token, the administrator and the reaper can end its row
  under a running pump, its channel can be deleted with its source, and the
  process can restart and forget the requests while the rows stay.
* Cleaning up depends on contexts. After a disconnect the request's context is
  cancelled, and the statements issued under it do nothing.
* The semaphores are taken and released across many early returns.
* Activity is written to the row only every so often, while the reaper compares
  the row with a timeout.
* A refresh is one statement per channel; it can fail, time out, or die
  anywhere in between, and nothing keeps two refreshes of one source apart.
* A drawer of the web interface is filled once and saved much later, over rows
  that refreshes and other administrators have written meanwhile; the drawer of
  a source is filled with masked credentials at that.
* What a cache is keyed by is less than what its content depends on: a playlist
  is cached per channel and resolved against a URL that may have changed.
* A download is cut silently at a limit, and a guide is read as a whole.

What makes each part correct:

* Sessions: opened once, ended once, for one reason, and never written
  afterwards; none is active for ever without activity; no row outlives its
  channel; caps are exceeded at most by what overlapping requests allow.
* Proxy: every slot is released exactly once, on every path; no upstream
  connection is open without a slot; a flowing stream is not reaped.
* M3U refresh: the saved validator never hides a playlist that was not applied;
  once failures end, the channels are those of the upstream.
* XMLTV refresh and guide: one programme per slot, manual links win, a cached
  guide is at most one lifetime old.
* Sources: a save touches what the administrator sees and nothing of the
  refresh; a source that lost its credentials loses no channels.
* Channels: what an administrator has set stands until an administrator who
  touched that very column says otherwise.
* Parsing: an entry has its own URL, whatever lines stand between; a cut spoils
  at most the last entry.
* HLS playlists: a player does not go back by more than a slow handler takes,
  and playlists of a URL that was replaced end with the cache's lifetime.
* Settings: after the last update, the snapshot is the row.
* Favorites: positions are a total order that a concurrent add or remove does
  not break, and the page that changes them ends up with what is stored.
* Paging: each channel that stays put is listed exactly once.

## Modules

| Module | Models |
|---|---|
| `SessionStore` | `stream_sessions` and `channels` as their SQL statements see them; the reaper, the kill, the deletion of a channel |
| `SessionMinting` (extends it) | `CreateSession`, one action per statement |
| `StreamProxy` (extends it) | the three proxy handlers and the two semaphores |
| `StreamService` | both over one table, with restarts, and the properties of the whole |
| `SessionLifecycle` | the abstract specification: what an owner sees of a session |
| `MCStreamService`, `MCStreams` | instances of `StreamService`: warm starts and symmetries; its two halves in one run |
| `StreamServiceProofs`, `StreamSlotsProofs`, `SessionCapsProofs`, `SessionLifecycleProofs` | proofs about `StreamService`, each extending the one before: types, semaphores, caps, the life of a row and the refinement |
| `M3URefresh`, `MCM3URefresh` | one M3U source, its channels and the refreshes of it; an instance |
| `SourceForms` (extends `M3URefresh`), `MCSourceForms` | the administrators' page of M3U sources, the masks of the API's answers and `PUT`; an instance |
| `M3URefreshProofs` | proofs about `M3URefresh` and `SourceForms` |
| `M3UParser` | `m3u.Parse` over a body that is cut or breaks off anywhere |
| `XMLTVRefresh`, `MCXMLTVRefresh`, `XMLTVRefreshProofs` | one XMLTV source, the programmes, the links from channels to guide ids and the refreshes of them; an instance; proofs |
| `ServerClock` | the clock that caches and limiters read |
| `RateLimiter` | the token buckets in front of minting and the segment endpoint |
| `SettingsSnapshot` | the settings row, the snapshot in memory, `PUT /admin/settings` |
| `GuideCache` (extends `SettingsSnapshot`) | `GET /guide` with its cache, and the settings that cut its window |
| `PlaylistCache` | the playlist cache and its rewriting, under viewers that poll |
| `ChannelOverrides` | the row of a channel under PATCH from drawers and under refreshes |
| `NowAndNext` | the current and next programme of a channel |
| `ChannelPages` | the pages of `GET /channels` while channels change |
| `Favorites` | the favorites of a user: rows, positions, the requests on them |
| `FavoritesPage` (extends it) | the page of the web interface that shows and reorders them |
| `MCServerParts` | an instance of the eight small parts for one run |
| `ServerPartsProofs`, `GuideCacheProofs` | proofs about the small parts, one section each; about the guide cache and the settings, and about the parts together |

### How state and actions correspond to the code

**`SessionStore`.** A row of `sessions` is `Free` until its ULID is used,
`Deleted` once the cascade took it, and otherwise holds the user, the channel,
the end reason and an *age*. The code compares `last_byte_at` only with "now
minus the idle timeout", so a timestamp is kept as the number of ticks since,
saturating one tick past the timeout. A handler takes `time.Now()` before its
statement runs, so the stamp it writes has an age of its own and may be older
than the one in the row. `granted` is the set of sessions whose token has
reached a client; it is what a client can present. Operators named after the
methods of `store` (`InsertSession`, `EndSession`, ...) are one statement each,
with its `WHERE`.

**`SessionMinting`.** `mint[m]` is a request: where it is and its locals.
`MintLookup`, `MintUserCap`, `MintChannelCap`, `MintProbe`, `MintPersistKind`,
`MintInsert`, `MintReadBack` and `MintRespond` are the statements of
`CreateSession` in order; `MintFails` is any of its error returns, which leave
what earlier statements did. The probe's answer is nondeterministic. The answer
to the client can be lost.

**`StreamProxy`.** `handler[h]` is a request, `deferred[h]` the set of slots its
deferred calls will release, `streamSem` and `upstreamSem` the counters of the
semaphores. `live` says that the request's context is not cancelled.
`ObservesDisconnect` distinguishes the two ways the handlers are run: with a
context that a disconnect cancels, and behind the bridge
(`internal/httproutes/server.go`), where it never is. `silent` and `flushed`
are history, for `ReaperSparesFlowing`. Time is `Tick`; `FlushInterval` is the
debounce of the pump.

**`M3URefresh`.** `source` is the row of `m3u_sources`, `channel` its channels,
`work[w]` a run of `RefreshOne`. A publication is a playlist some URL served;
its number stands for its ETag or its date, and every publication changes what
it says of a channel. One action per statement: read, fetch (with 304, 200 and
failure apart), each upsert, mark missing, save the status. `StatementFails`,
the failing alternatives and `Restart` put a failure, a timeout or a crash
between any two of them.

**`SourceForms`.** A `Url` of `M3URefresh` stands for everything a refresh sends
upstream, credentials included, and `Masked` is what `maskURL` and `maskHeaders`
make of it; `Placeholder(u)` says that `u` has the placeholder where a secret
belongs. `listed[a]` is the row in a browser's cached list, `drawer[a]` the
fields of an open drawer. `Update` is `EditSource` of `M3URefresh` with what the
drawer holds, `Reload` the handler's second read, after which the drawer closes.
The list may be older than the row, and the row change under an open drawer;
the row that `Update` writes has been read by a refresh, or is about to be
written by one. `WritersKeepApart` is about the two: they write different columns,
each from what it read long before.

**`M3UParser`.** One action per kind of line, as the branches of `Parse` have
them. `EndOfBody` is the end of the body or a cut between two lines, `CutInUrl`
one inside a URL, of which the scanner returns what is left (`Stump`); a cut
inside any other line gives no entry, which is `EndOfBody` as well. The
reference `Entries` says from the lines alone which entries a body lists.
`SourceChannelId` is the key `RefreshOne` files an entry under.

**`XMLTVRefresh`.** `programs` holds rows; since the table has no key but a
fresh ULID, a row is a programme and the number of its copy. `link` is
`channel_epg_keys` with `auto_linked`. `work[w]` is a run of `RefreshOne`. A
call of `ReplaceFutureForChannel` is two actions: `DeleteFuture` chooses what
the transaction deletes, as its snapshot and `now()` have it, and
`CommitReplace` makes the deletion and the insertion visible at once; time and
other refreshes go on in between. `AutoLink` is the insert with `ON CONFLICT DO
NOTHING`, `AddEPGKey` the one with `DO UPDATE`. `StatementFails` and `Restart`
roll an open transaction back. A guide lists programmes whose times may be
absent (`NoTime`) or not a time at all (`BadTime`). `ToProgramme` turns an absent
one into the zero time, before everything that is kept; a bad one makes the
guide unreadable (`Readable`), which `FetchFails` reports. What a guide lists is
a *set* of programmes (`Lists`): a document that lists one programme twice, which
`xmltv.go:126-129` would store twice, is outside the model.

**`RateLimiter`.** `Allow` reads the clock before it takes the lock, so a call
is two actions, `ReadClock` and `Decide`, and calls can reach the buckets in
another order than that of their clocks. Tokens are counted in what a tick
refills: the rate is one per tick, a call takes `Cost`, a full bucket holds
`Burst`. `known`, `last` and `tokens` are the map of buckets; `Stale` is
`reapLocked`. `since` and `spent` are history: what a user's calls cost since
some moment.

**`SettingsSnapshot`.** Every statement reads or writes the whole row, so one
column stands for all. `put[a]` is a `PUT /admin/settings`: `UpdateSettings`
writes the row, `ReloadRead` and `Apply` are `Reload`, `ReloadFails` its error,
after which the update has been written and is answered with an error.

**`GuideCache`.** `client[c]` is a `GET /guide`: `Ask` cuts the window at the
snapshot's cap, `Hit` and `Miss` are the cache's `Get`, `Query` the reads of the
tables, `Set` the store and the answer. `version` numbers what the tables say;
a body has the version its first statement saw, which is the oldest of what it
says. `promised` and `age` are history: the window that the row says, and for
how long the answer has been out of date.

**`PlaylistCache`.** A body is known by the URL it came from and the tick it was
read at. `viewer[v]` is a `ProxyHLSPlaylist`: `Poll` reads the channel row,
`ServeCached` and `MissPlaylist` are `ttlCache.Get`, `FetchBody` the upstream
that the row named, `StoreBody` `ttlCache.Set`. `Rewrite` resolves the body
against the URL of the row as this handler read it. `screen[v]` is what the
player has, `moved` when the row last changed. Semaphores and sessions are left
to `StreamProxy`, where the cache's answer is nondeterministic in turn.

**`ChannelOverrides`.** `src` and `admin` are the columns of the row with and
without the suffix `_admin`; `position` has no value of the source. `editor[e]`
is a drawer: what it shows and which columns were touched. `SendPatch` names
those, `PatchChannel` is the `UPDATE` built from them, `Reread` the second
statement of the handler. When a channel's guide ids have been shown, the
browser's `onMutate` throws on their cache entries (`Channels.tsx:420` maps over
`data.data`, which they do not have): the PATCH is never sent and the drawer
stays, which is `Editing` going on.

**`NowAndNext`.** `badge` is one answer of `decorateWithGuide` for one channel:
`ReadCurrent` and `ReadNext` are its two queries, each with the time and the rows
of its own moment.

**`ChannelPages`.** A page is one statement, so `ListPage` and `ListLastPage`
are atomic and differ in whether the statement found a row beyond the limit.
`rank` stands for position and lower-cased name together, which the order uses
only as a pair; ids break ties. `cursor` is what the client sends back; it is a
copy of the last row's rank and id, not a reference, and the row may have moved
or gone since. `ChangeChannel` is any statement of a refresh or an administrator
that changes a rank or whether a channel is shown. `listed`, `again` and
`steady` are history.

**`Favorites`, `FavoritesPage`.** `favorite` is the user's rows of
`user_favorites`; `adds` stands for `now()`, since only the order of
`created_at` matters. `request[r]` is a request: an add takes its position from
the snapshot of its statement (`AddSnapshot`) and inserts later (`AddInsert`), a
reorder is checked by one statement and applied by another. In the page,
`cached` is the list under the key `favorites`; `Drag` is `onMutate`, which
cancels a running fetch, `OnSuccess` invalidates the list, `OnError` restores
`restore[r]` and fetches nothing. How a fetch is cancelled, replaced and answered
is the query library's, taken from how the page uses it. The list itself is the
rows, each at the place that `ORDER BY` gives it (`Place`). `order`, the pairs of
channels that the last reorder put one before the other, and `doubt` are history.
`doubt` marks a page whose last reorder failed, which shows the restored list
until something else fetches; `QuietPageShowsStored` leaves that page out, as
the code does (`Favorites.tsx:25-28` has `onError` restore, not fetch). A request
that has failed for the page is over for the server too.

`MCServerParts` runs eight small parts as one specification: the limiter, the
guide, the pages, the favorites, the playlist cache, the parser, the overrides
and the current and next programmes. They share no variable but the clock and
no property speaks of two of them, so a behaviour moves one, named by `part`, and
leaves the others as they started. `MCStreams` does the same with the two halves
of `StreamService`: in one the requests only mint, in the other they only serve.

Definitions marked "Slip" are plausible bugs in the definition that follows
them. They belong to no specification and are there to show that the properties
notice.

## Runs

| Run | Checks | Shows |
|---|---|---|
| `streams` | `CapOvershootBounded`, `NoOrphanedRows`, `SlotsAccounted`, `HoldsWhatItUses`, `ReaperSparesFlowing`, `PumpEndsItsSession`, `EndIsFinal` | two overlapping mints of two users on one channel: caps are exceeded by less than the requests in flight, no row of a deleted channel is left; two requests of any kind on one session compete for one slot of each kind |
| `service` | `TypeOK`, `SilentSessionsEnd`, `ImplementsLifecycle` | minting and serving together, over the sessions an earlier process left open and with failing writes: no session stays active and silent, however it was orphaned, and the whole implements `SessionLifecycle` |
| `cap_race` | `UserCapHolds` violated | the cap of `docs/operations.md` is passed by two overlapping requests |
| `kill_stops_pump` | `KillStopsPump` violated | a pump goes on after the kill of its session |
| `disconnect_ends` | `DisconnectEndsSession` violated | after a disconnect the session is not ended, because the context that would end it is cancelled |
| `m3u_refresh` | `TypeOK`, `FormsTypeOK`, `TagIsEarned`, `WritersKeepApart`, `RefusalKeepsChannels`, `Converges` | one refresh at a time behind the page of sources, with up to three failures, crashes or saves: a saved validator stands for a playlist that was applied, saves and refreshes do not undo each other, a source that stored its mask keeps its channels, and the channels come to match the upstream |
| `m3u_overlap` | `TagIsEarned` violated | two overlapping refreshes leave a mixture under the newer validator |
| `mask_stored` | `SecretBehindMask` violated | a drawer saved without its credentials entered again stores the placeholder |
| `xmltv_refresh` | `TypeOK`, `FutureListedOnce`, `TagIsEarned`, `OnAirStays`, `ManualLinksKept`, `Converges` | one refresh at a time over three guides, one of them broken, while programmes begin and end and with up to two failures or edits; `Converges` includes that no programme without a stop stays behind (`StopsKnown`) |
| `xmltv_again` | `ListedOnce` violated | a second refresh inserts what is on the air once more |
| `parts` | `TypeOK`, `RateBounded`, `TokensKept`, `SettingsReachAnswers`, `AnswersFresh`, `SteadyListedOnce`, `ReorderStands`, `QuietPageShowsStored`, `EntriesAsListed`, `CutSpoilsOneKey`, `NextComesAfter`, `MixedOnlyBriefly`, `NeverFarBack`, `DecisionsStand` | the rate limiter with calls that overtake each other and buckets that are dropped; the guide cache under changing settings and tables, with one administrator; a walk through the channel list while channels change; drags, stars and fetches of favorites that overlap, with failures and lost answers; two viewers of a channel that moves; every playlist of up to six lines, cut anywhere; two drawers on a channel that is refreshed; a guide replaced between two queries |
| `settings_race` | `SettingsReachAnswers` violated | two updates whose reads and applies cross leave the snapshot behind the row, with both answered OK |

The violated properties say what the repository's documents say; PROJECT.json
quotes the lines.

### Bounds

* Sessions: one or two ids. Two are needed for a cap to be passed, for a mint
  to meet a session of an earlier one, and for the reaper to end several rows
  in one statement; ids are never reused, so a run ends when they are used up
  and what is then checked is everything that can still happen to them.
* Requests: two mints for the caps, two handlers for the semaphores. With a
  capacity of one, two handlers reach both the full semaphore and its release;
  a leak or a double release already shows with one.
* Timeout 1 to 3, flush interval 1, write latency 0 or 1. `ReaperSparesFlowing`
  needs a timeout larger than the interval and the latency together, or it
  would hold for want of a case: 3 > 1 + 1.
* `WriteLatency` bounds the ticks between taking a stamp and writing it, for the
  stamp of a new session as for those of a pump.
* M3U: two keys, up to three publications (a channel appears, both are listed,
  none is), `MaxFaults` failures, edits and restarts. Every failure point is
  reached with one; three let a failure be followed by another and by an edit.
* `Url` in `m3u_refresh` is one URL with its secret and the same with the
  placeholder, to which upstreams serve nothing. An edit of the URL keeps the
  validators of the old one, and with two URLs that serve something the
  properties do not hold: switching there and back around a failed refresh
  restores a validator for channels that are a mixture. `xmltv_refresh` has one
  URL for the same reason; its edits turn the source off and on.
* Sources: one browser, whose drawer may stand open across a refresh. The run
  does not reach a row that a second browser edits meanwhile; edits at any time
  of a refresh, whoever makes them, are those of `m3u_refresh`.
* XMLTV: two guide ids, three guides (the first has a programme without a stop,
  the second a time that does not parse, the third moves a programme, drops one
  and has none for one id), five ticks, so that each programme is met before it
  begins, on the air, over and pruned; `PruneAge` 1. Two failures let a refresh
  fail, and the one that repairs it fail as well.
* Rate limiter: two users, so that the call of one drops the bucket of the
  other; a bucket that one call empties (`Burst = Cost = 2`), a lag of one tick,
  and five ticks, in which a bucket is emptied, filled, idle (`IdleAfter` 3) and
  made anew. `IdleAfter >= Burst + MaxSkew` is the assumption of the comment on
  `reapLocked` ("chosen to exceed a full refill"). The constructor fixes the idle
  time at one minute while burst and rate come from the environment, so a
  configuration whose refill takes longer than that is outside the model.
* Guide: two requests, two caps, a length above them, three ticks
  with a lifetime of one and reads of at most one, one change of the tables.
  `SweepAbove` 1 lets the sweep happen, which the code does above 256 entries.
  `MaxRead` bounds the ticks from the first query to the store; the answer's age
  is bounded by the two together.
* Settings: one administrator in `parts`, two in `settings_race`.
* Pages: three channels, two ranks (so that ids decide between some), pages of
  one or two, any number of changes and of walks. Three channels are needed for
  one to be passed on each side of the cursor's row.
* Playlist cache: two viewers, two URLs, a lifetime of one tick, handlers of at
  most one (`MaxFetch`), three ticks: the least in which an answer can be later
  than both together.
* Parser: one tvg-id and none, two URLs, bodies of up to six lines
  (`MaxLines`): two entries, with a stray line of any kind in between.
* Overrides: one column with an override beside `position`, two values, two
  drawers, any number of patches and refreshes.
* Now and next: four programmes that meet, overlap and follow each other.
* Favorites: two channels, which can be in two orders; two requests at once, any
  number of drags, removals, fetches and failures, and one add (`MaxAdds`), which
  a reorder or a removal overtakes.

The parts take their users, requests, viewers and drawers from one set of two
model values; as one part moves at a time, one permutation serves them all. The
symmetries are over the requests, users, channels and ids, none of which a
definition tells apart; the liveness runs use none.

Runs of `M3URefresh` and `SourceForms` do not check for deadlock: once the source is deleted and
the bounds are used up the system really stops. All others do.

### Fairness

`SilentSessionsEnd` assumes that the reaper runs again and again (the host's
cron, every minute), that time passes, and that a handler at a statement gets
to it (Postgres answers or the statement fails). Nothing is assumed of clients,
of upstreams, of a mint, or of the pump: a pump may hang on its upstream for
ever, and so may the slots it holds. `Converges` (of both refreshes) assumes that the scheduler
comes back to the source and that a refresh goes on; that the last publication
and the last failure are behind us follows from the bounds.

## Proofs

| Theorem | Says |
|---|---|
| **`StreamService`** | |
| `TypeCorrect` | `Spec => []TypeOK` |
| `SlotsAccountedAlways`, `HoldsWhatItUsesAlways` | each semaphore counts the handlers that will release it, and no handler is where it needs a slot it lacks |
| `CapOvershootBoundedAlways` | a cap is exceeded by less than the requests in flight |
| `EndIsFinalAlways` | no step writes to a row that has ended; it goes only with its channel |
| `NoOrphanedRowsAlways` | no row without its channel |
| `PumpEndsItsSessionAlways` | a pump does not return with its session active |
| `ReaperSparesFlowingAlways` | the reaper ends no session whose bytes flow, while writes succeed |
| `ImplementsLifecycleAlways` | `Spec => ImplementsLifecycle`: the service implements `SessionLifecycle` |
| **`M3URefresh`, `SourceForms`** | |
| `RefreshTypeCorrect`, `FormsTypeCorrect` | types, for any number of refreshes, URLs and drawers |
| `TagIsEarnedAlone` | `Spec => []TagIsEarned`, under `Alone` and `OneUrl` |
| `FormsTagIsEarned` | the same behind the page of sources, under `Alone` and `OneSecret` |
| `WritersKeepApartAlone` | `FormsSpec => WritersKeepApart`, under `Alone`, whatever URLs are saved |
| `RefusalKeepsChannelsAlways` | only a step of a refresh whose own URL is no mask, or the deletion of the source, changes a channel; for any number of refreshes |
| **`XMLTVRefresh`** | |
| `XMLTVTypeCorrect` | `Spec => []TypeOK` |
| `OnAirStaysAlways`, `ManualLinksKeptAlways` | what any number of overlapping refreshes leave alone |
| `FutureListedOnceAlone` | `Spec => []FutureListedOnce`, under `Alone` |
| `GuideTagIsEarned` | `Spec => []TagIsEarned`, under `Alone` and `OneUrl` |
| **The small parts** | |
| `RateBoundedAlways`, `TokensKeptAlways` | a user gets at most a burst and the rate, and no less |
| `AnswersFreshAlways` | a guide is out of date by at most one lifetime and one read |
| `SettingsReachAnswersAlone` | `GuideSpec => []SettingsReachAnswers`, with one update at a time |
| `SteadyListedOnceAlways` | a walk lists what stays put exactly once |
| `DecisionsStandAlways` | only a PATCH that touched a column changes what was set there |
| `NextComesAfterAlways` | the next programme begins after the current one |
| `MixedOnlyBrieflyAlways`, `NeverFarBackAlways` | a replaced URL is over with the cache's lifetime; no player goes far back |
| `ReorderStandsAlways`, `QuietPageShowsStoredAlways` | the order asked for stands; the page comes to show what is stored |
| `EntriesAsListedAlways`, `CutSpoilsOneKeyAlways` | what the parser has read, for bodies of any length |
| `PartsTypeCorrect` | `Spec => []TypeOK` of `MCServerParts`: all parts at once, on the clock they share |

Each small part also has its type theorem on its own specification
(`LimiterTypeCorrect`, `GuideTypeCorrect`, `OverridesTypeCorrect`,
`TilesTypeCorrect`, `HlsTypeCorrect`, `PageTypeCorrect`, `ParserTypeCorrect`).

They hold for any sets of users, channels, ids and requests, any caps and
timeouts, playlists and guides of any number and size, under the assumptions of
the modules: the sets that are counted are finite, the bounds are natural
numbers, a guide that parses has times in it. The bounds that TLC needs
(`MaxLines`, `MaxAdds`, `Horizon`, ...) are constants like the others, so a
theorem holds however large they are.

Four hypotheses are stated in the theorems themselves. `Alone` is one refresh of
the source at a time; `OneUrl`, that the source keeps its URL; `OneSecret`, that
all its URLs that are not masks are one; the last is one update of the settings
at a time. They are what the runs `m3u_refresh`, `xmltv_refresh` and `parts`
instantiate. The first and the last are not vacuous cautions: `m3u_overlap` and
`settings_race` break the same properties with two. The code has no lock that
makes a refresh alone: the theorems are about a scheduler without a "refresh
now" beside it.

### The inductive invariants

* `SlotsAccounted` is inductive once it is known which slots a handler can
  hold at all: `HoldsWhatItUses` is its companion, since a handler that takes
  a slot must not hold it already, or the set would not grow with the counter.
  The two are proved together, one lemma per action.
* `CapOvershootBounded` counts, beside the active sessions, the requests that
  have passed the check and not inserted yet: the insert moves a request from
  one set to the other, the check admits one while there is room, and at most
  all requests are cleared at once. That sum is inductive; the number of
  active sessions is not.
* The life of a row: `DulyInv` says that a handler ends its session for one of
  two reasons of its own, which the abstract `Close` has, and that what it writes
  is no older than `WriteLatency`. Every step is one of a few things to a row
  (`TableStep`): insert, touch, end, cascade, the clock. From that `EndIsFinal`
  and `NoOrphanedRows` follow by the statements' `WHERE` clauses.
* `ReaperSparesFlowing` relates two clocks. `FreshInv` says of each handler that
  has flushed how old its row can be by how long it has been silent; it holds
  while writes succeed, also of a row that an older write of another handler
  touches, as no write is older than the latency.
* `ImplementsLifecycle` maps each step: `BookStates` relates the entry of a
  session to its row, and each action is shown to open, close or delete entries
  as one abstract action does, or to leave all of them. `Open` has a guard on the
  number of a user's open sessions; that is `CapOvershootBounded`, and the step
  is proved under it in the state before.
* `WritersKeepApart` and `TagIsEarned` (M3U) need to know what a refresh in
  flight is about to do. `IInv`, which is inductive for one refresh and any URLs,
  says that it holds the saved validator, that the entries before `next` are
  applied, and that what it is about to save is either the validator that is
  saved or one whose playlist has been applied, though the URL may be another by
  then. That is `WritersKeepApart`. `EarnedInv` adds, for one URL, that what the
  upstream serves is the latest publication and that a refresh applies one newer
  than the saved validator: so while channels are a mixture the upstream does not
  answer 304. That is `TagIsEarned`. With a second refresh the first part of
  `IInv` fails, which is what `m3u_overlap` shows; with a second URL, `EarnedInv`.
* A step of `SourceForms` is one of `M3URefresh` by construction, a save being an
  edit, so the step lemmas carry over; this is a lemma (`FormsStepIsStep`) and no
  result. What is added is `Refused`: a URL that is a mask serves nothing, so a
  refresh that goes on past its fetch has another one. With it,
  `RefusalKeepsChannels` follows for the very worker that steps, and `EarnedInv`
  needs one *secret* rather than one URL.
* `FutureListedOnce` rests on `OnceInv`: any two rows of a programme to come are
  one, and an open transaction has deleted all that is to come of the ids it has
  yet to insert for. The clock may move between the two; then fewer programmes
  are to come. `TagIsEarned` (XMLTV) adds to it, as for M3U, what a refresh
  holds, and, id by id, that the future of what it has replaced is that of the
  guide it applies.
* `OnAirStays` and `ManualLinksKept` need types only, as they are about one
  statement each, whoever runs it.
* The rate limiter's `BucketsInv` says of each user who has spent something where
  the rest of the bound is: in the bucket, while there is one, and in the time
  passed since it was dropped, which `IdleAfter` makes worth a whole burst. A call
  may make a new bucket with a clock that is `MaxSkew` old, hence the `MaxSkew` in
  the bound.
* `AnswersFresh` rests on `Dated`: a cached or read body that is no longer what
  the tables say was so when its read began, so its expiry is at most one read
  and one lifetime after it was replaced.
* `SettingsReachAnswers` rests on `Followed`: the update under way knows the row
  it wrote. That needs one update at a time.
* `SteadyListedOnce` rests on what a walk knows of the channels that have not
  changed: those up to the cursor are the listed ones, those after it are not
  listed yet. A change takes its channel out of this set and leaves the cursor
  alone, so the fact survives the change of the very row the cursor copies. Ranks
  and ids order the channels strictly, so whatever precedes a member of a page is
  on the page or before it.
* `DecisionsStand` needs only types and the three statements that write the row;
  `NextComesAfter` needs that a current programme has begun (`BegunByNow`), which
  the clock keeps true until the second query is made.
* The playlists: `HlsInv` dates the cached body and the ones being fetched. A
  handler that took the old URL began before the move and ends within
  `MaxFetch`, so what it stores expires within `PlaylistTTL` of that; and no
  player has a playlist more than `MaxFetch` newer than the cached one.
* `ReorderStands` needs that the lists of the page name no channel twice
  (`StarsInv`): the statement could give a channel that is named twice either
  place. Positions are bounded by the adds, which is their type. `QuietInv` says
  what a fetch that has been read holds once nothing is under way.
* The parser: `Filed` relates the entries to the lines, the n-th entry to the
  n-th URL that an EXTINF line waits for, and `ScanInv` says that the pending
  EXTINF is the one that waits. A line more adds at most one to both
  (`FileNone`, `FileOne`); a cut is a line whose entry is a stump (`ReadInv`).
* `PartsTypeCorrect` puts these together: a part that moves keeps its own
  invariant, and one at rest needs of the clock only that it is a time.

Model-checked only: the liveness properties `SilentSessionsEnd` and `Converges`
(of both refreshes), whose fairness rests on ENABLED, which is beyond the prover.
Every invariant and every action property of a passing run, and the refinement
`ImplementsLifecycle`, are theorems; the runs show in addition that the cases they speak of occur.

## Plan

Done: the session half (store, minting, proxy, reaper) with its abstract
specification; the two refreshes with edits of their sources; the page of
sources and its masks; the playlist parser; the rate limiter; the settings and
the guide cache; the playlist cache; pages, overrides and the guide of the
channel list; favorites with their page. Left to model, in this order: the
player as a client of `StreamService`, which keeps the answer of a mint for ever;
the creation of sources, whose read-back may fail after the row is there; the
stars on the channel lists; `parseXMLTVNS` as a function.

Proved: every invariant, every action property and the refinement that a passing run checks. Worth
proving next: what remains of `TagIsEarned` when a source gets another URL, as a
save keeps the validator of the old one; a bound on
the copies of a programme on the air, one for each refresh that began since it
started, which `xmltv_again` shows to be more than one; and, with the player
modelled, that a session it holds is active or its next request is refused.

## Where the code and its documents part

Seven runs show one disagreement each; PROJECT.json quotes the lines. Others were
met while modelling, and the actions have them as the code does them:

* `docs/spec/2026-05-21-livetv-plugin-design.md:264` has refreshes "safe to run
  concurrently with themselves". `m3u_overlap` shows otherwise for playlists; for
  guides, two refreshes that replace one id at once both keep their batch, since
  the `DELETE` of one (`store/programs.go:56`) does not see what the other has not
  committed. `xmltv_refresh` is about one refresh at a time; with two workers
  `FutureListedOnce` fails in it.
* `docs/spec/2026-05-21-livetv-plugin-design.md:244` has a refresh that fails
  leave "Channel rows unchanged"; one that fails at a later upsert or at the
  marking leaves the channels upserted before it as they are
  (`refresh/m3u.go:159-166`). What holds is `TagIsEarned` and `Converges`.
* `docs/spec/2026-05-21-livetv-plugin-design.md:257` auto-links a channel "which
  has no manual override row"; the code links every channel whose
  `source_channel_id` matches and skips only the very pair that is there
  (`refresh/xmltv.go:176-180`), so a channel with a manual link to another id
  gets an automatic one beside it, as `docs/architecture.md:107` has it. No
  property asserts either; that the manual link stays is `ManualLinksKept`.
* `docs/spec/2026-05-21-livetv-plugin-design.md:255` has a refresh "Insert new
  programs and their credits"; nothing calls `InsertCredits`
  (`store/programs.go:197`), so `GET /programs/{id}` never has any.
* `docs/operations.md:49` has an auto-link stay away for good with "a `tvg_id`
  override on the channel"; there is no such override, and the auto-link goes by
  `source_channel_id` (`refresh/xmltv.go:176-180`).
* `docs/operations.md:33` has a partial fetch blank the future of a channel that
  is missing from it; a guide is used whole or not at all, and an id that it does
  not schedule is not visited.
* `hls.go:146-148` has "N concurrent viewers of one channel collapse onto a
  single upstream poll"; those that miss together each poll.
* `refresh/m3u.go:181-183` calls the fallback key "stable across refreshes"; it
  hashes the URL, so a token that changes in it makes a new channel and disables
  the old one, with its overrides and favorites.
* `web/src/pages/admin/Channels.tsx:415`: saving a channel throws before the
  PATCH is sent once the guide ids of any channel have been shown.

## Not modelled

* What a statement does to columns no property is about: `bytes_streamed`, the
  remote address, names and logos.
* The content of tokens and segment signatures; a check of one that fails is an
  early answer (`Refuse`). Playlists are their entries, or their URL and age.
* The attributes of an EXTINF line other than its tvg-id, episode numbers,
  ratings and credits of programmes.
* The creation of sources: a model begins with a source that has just been
  created.
* The probe itself (`headProbe`, `getSniff`): its answer is arbitrary.
* The HTTP client's address guard: a predicate on addresses, without state.
* Migrations, the plugin's runtime and manifest, wiring, logging, and the web
  interface other than its favorites and the two drawers.
