----------------------------- MODULE M3URefresh -----------------------------
(***************************************************************************)
(* One M3U source, its channels, and the workers that refresh it: the      *)
(* scheduler's RefreshAll and the goroutines of POST .../refresh, which    *)
(* run RefreshOne side by side (nothing serialises them).  RefreshOne      *)
(* reads the source, asks the upstream with the saved validator, upserts   *)
(* every entry of the answer, soft-disables the channels it did not see    *)
(* and saves the new validator, each in a statement of its own.            *)
(*                                                                         *)
(* A publication is a playlist some URL served at some time; its number    *)
(* stands for its ETag and for its Last-Modified date.  Every publication  *)
(* changes what it says of each channel it lists.                          *)
(***************************************************************************)
EXTENDS Naturals, Sequences, FiniteSets

CONSTANTS
  Worker,        \* the refreshes that can be in flight at once
  Url,
  Key,           \* source_channel_id: the tvg-id or the name-and-url fallback
  Playlist,      \* the keys that each publication lists, in order
  Offers,        \* do the upstreams send an "etag" or only a "date"
  MaxFaults      \* bound: failures, crashes and edits of the source

Publication == 1 .. Len(Playlist)
Tag == 0 .. Len(Playlist)      \* a saved validator; 0 when there is none

ASSUME M3URefreshAssumption ==
  /\ IsFiniteSet(Worker)
  /\ Playlist \in Seq(Seq(Key))
  /\ Offers \in {"etag", "date"}
  /\ MaxFaults \in Nat

VARIABLES
  source,        \* the m3u_sources row
  channel,       \* the channels rows of the source, by source_channel_id
  published,     \* what each URL serves, 0 when it serves an error
  latest,        \* the number of the last publication anywhere
  work,          \* per refresh: where RefreshOne is and its local variables
  faults         \* how much of MaxFaults is used up

vars == <<source, channel, published, latest, work, faults>>

Gone == [status |-> "deleted"]
SourceRow == [status: {"", "ok", "error"}, url: Url, enabled: BOOLEAN, tag: Tag]

\* A row is absent (0) or comes from the publication that last upserted it.
Absent == [from |-> 0, enabled |-> FALSE]
ChannelRow == [from: Tag, enabled: BOOLEAN]

Idle == [pc |-> "idle"]
Listed == [pc |-> "read"]
Refresh == [pc: {"fetch", "upsert", "missing", "save", "error"},
            url: Url, tag: Tag,      \* the source as it was read
            new: Tag,                \* the validator to save, or publication read
            next: Nat]               \* the entry to upsert

TypeOK ==
  /\ source \in SourceRow \cup {Gone}
  /\ channel \in [Key -> ChannelRow]
  /\ published \in [Url -> Tag]
  /\ latest \in Tag
  /\ work \in [Worker -> Refresh \cup {Idle, Listed}]
  /\ faults \in 0 .. MaxFaults

Init ==
  /\ source \in [status: {""}, url: Url, enabled: {TRUE}, tag: {0}]
  /\ channel = [k \in Key |-> Absent]
  /\ published = [u \in Url |-> 0]
  /\ latest = 0
  /\ work = [w \in Worker |-> Idle]
  /\ faults = 0

At(w, pc) == work[w].pc = pc
Goto(w, pc) == work' = [work EXCEPT ![w].pc = pc]
Finish(w) == work' = [work EXCEPT ![w] = Idle]
Entries(n) == {Playlist[n][i] : i \in DOMAIN Playlist[n]}

Fault == faults < MaxFaults /\ faults' = faults + 1

-----------------------------------------------------------------------------
(***************************************************************************)
(* RefreshOne.                                                             *)
(***************************************************************************)

\* RefreshAll lists the sources and takes the enabled ones.
BeginScheduled(w) ==
  /\ At(w, "idle")
  /\ source # Gone /\ source.enabled
  /\ work' = [work EXCEPT ![w] = Listed]
  /\ UNCHANGED <<source, channel, published, latest, faults>>

\* adminRefreshM3USource sees that the source is there and forks a goroutine.
BeginByAdmin(w) ==
  /\ At(w, "idle")
  /\ source # Gone
  /\ work' = [work EXCEPT ![w] = Listed]
  /\ UNCHANGED <<source, channel, published, latest, faults>>

ReadSource(w) ==
  /\ At(w, "read")
  /\ source # Gone
  /\ work' = [work EXCEPT ![w] =
       [pc |-> "fetch", url |-> source.url, tag |-> source.tag,
        new |-> source.tag, next |-> 1]]
  /\ UNCHANGED <<source, channel, published, latest, faults>>

\* No such source, or the SELECT fails: RefreshOne returns and marks nothing.
ReadFails(w) ==
  /\ At(w, "read")
  /\ \/ source = Gone /\ UNCHANGED faults
     \/ Fault
  /\ Finish(w)
  /\ UNCHANGED <<source, channel, published, latest>>

\* What the upstream makes of If-None-Match, or of If-Modified-Since.
NotModified(tag, n) ==
  tag # 0 /\ IF Offers = "etag" THEN tag = n ELSE tag >= n

\* 304: the channels are left alone and the validator is saved again.
FetchNotModified(w) ==
  /\ At(w, "fetch")
  /\ published[work[w].url] # 0
  /\ NotModified(work[w].tag, published[work[w].url])
  /\ Goto(w, "save")
  /\ UNCHANGED <<source, channel, published, latest, faults>>

\* 200: the body is parsed whole before the first upsert.
FetchPlaylist(w) ==
  /\ At(w, "fetch")
  /\ LET n == published[work[w].url]
     IN  /\ n # 0
         /\ ~NotModified(work[w].tag, n)
         /\ work' = [work EXCEPT ![w].new = n,
                       ![w].pc = IF Playlist[n] = <<>> THEN "missing" ELSE "upsert"]
  /\ UNCHANGED <<source, channel, published, latest, faults>>

\* Slip: the channels of a source that fails are disabled.
FetchFailsDisabling(w) ==
  /\ At(w, "fetch")
  /\ published[work[w].url] = 0
  /\ channel' = [k \in Key |-> [channel[k] EXCEPT !.enabled = FALSE]]
  /\ Goto(w, "error")
  /\ UNCHANGED <<source, published, latest, faults>>

\* No answer, an answer outside 2xx, or a body that does not parse.
FetchFails(w) ==
  /\ At(w, "fetch")
  /\ \/ published[work[w].url] = 0 /\ UNCHANGED faults
     \/ Fault
  /\ Goto(w, "error")
  /\ UNCHANGED <<source, channel, published, latest>>

\* UpsertChannelFromM3U of the next entry; the foreign key needs the source.
UpsertChannel(w) ==
  /\ At(w, "upsert")
  /\ LET list == Playlist[work[w].new]
         i == work[w].next
     IN  IF source = Gone
         THEN Goto(w, "error") /\ UNCHANGED channel
         ELSE /\ channel' = [channel EXCEPT ![list[i]] =
                               [from |-> work[w].new, enabled |-> TRUE]]
              /\ work' = [work EXCEPT ![w].next = i + 1,
                            ![w].pc = IF i = Len(list) THEN "missing" ELSE "upsert"]
  /\ UNCHANGED <<source, published, latest, faults>>

\* Slip: nothing seen, nothing to do.
MarkChannelsMissingUnlessEmpty(w) ==
  /\ At(w, "missing")
  /\ channel' = [k \in Key |->
       IF k \in Entries(work[w].new) \/ Entries(work[w].new) = {} THEN channel[k]
       ELSE [channel[k] EXCEPT !.enabled = FALSE]]
  /\ Goto(w, "save")
  /\ UNCHANGED <<source, published, latest, faults>>

\* enabled_src = false for every channel of the source that was not seen.
MarkChannelsMissing(w) ==
  /\ At(w, "missing")
  /\ channel' = [k \in Key |->
       IF k \in Entries(work[w].new) THEN channel[k]
       ELSE [channel[k] EXCEPT !.enabled = FALSE]]
  /\ Goto(w, "save")
  /\ UNCHANGED <<source, published, latest, faults>>

\* An upsert or the marking fails, or the refresh has run out of time.
StatementFails(w) ==
  /\ work[w].pc \in {"upsert", "missing"}
  /\ Fault
  /\ Goto(w, "error")
  /\ UNCHANGED <<source, channel, published, latest>>

\* Slip: the row is written back as it was read.
SaveStatusAsRead(w) ==
  /\ At(w, "save")
  /\ Finish(w)
  /\ source' = IF source = Gone THEN source
               ELSE [source EXCEPT !.status = "ok", !.tag = work[w].new, !.url = work[w].url]
  /\ UNCHANGED <<channel, published, latest, faults>>

\* MarkM3UStatus "ok"; on failure the source keeps what it had.
SaveStatus(w) ==
  /\ At(w, "save")
  /\ Finish(w)
  /\ \/ /\ source' = IF source = Gone THEN source
                     ELSE [source EXCEPT !.status = "ok", !.tag = work[w].new]
        /\ UNCHANGED faults
     \/ Fault /\ UNCHANGED source
  /\ UNCHANGED <<channel, published, latest>>

\* Slip: the error path saves the validator of the answer.
MarkErrorAsNew(w) ==
  /\ At(w, "error")
  /\ Finish(w)
  /\ source' = IF source = Gone THEN source
               ELSE [source EXCEPT !.status = "error", !.tag = work[w].new]
  /\ UNCHANGED <<channel, published, latest, faults>>

\* Slip: an upsert, which brings a part of a deleted row back.
MarkErrorUpserting(w) ==
  /\ At(w, "error")
  /\ Finish(w)
  /\ source' = IF source = Gone THEN [status |-> "error", tag |-> work[w].tag]
               ELSE [source EXCEPT !.status = "error", !.tag = work[w].tag]
  /\ UNCHANGED <<channel, published, latest, faults>>

\* MarkM3UStatus "error: ...", with the validators as they were read; its own
\* failure is ignored.
MarkError(w) ==
  /\ At(w, "error")
  /\ Finish(w)
  /\ \/ /\ source' = IF source = Gone THEN source
                     ELSE [source EXCEPT !.status = "error", !.tag = work[w].tag]
        /\ UNCHANGED faults
     \/ Fault /\ UNCHANGED source
  /\ UNCHANGED <<channel, published, latest>>

-----------------------------------------------------------------------------
(***************************************************************************)
(* Everything else.                                                        *)
(***************************************************************************)

\* The upstream replaces its playlist.
Publish(u) ==
  /\ latest < Len(Playlist)
  /\ latest' = latest + 1
  /\ published' = [published EXCEPT ![u] = latest + 1]
  /\ UNCHANGED <<source, channel, work, faults>>

\* UpdateM3USource: the validators stay, even when the URL does not.
EditSource(u, on) ==
  /\ source # Gone
  /\ source' = [source EXCEPT !.url = u, !.enabled = on]
  /\ Fault
  /\ UNCHANGED <<channel, published, latest, work>>

\* DeleteM3USource, which cascades to the channels.
DeleteSource ==
  /\ source # Gone
  /\ source' = Gone
  /\ channel' = [k \in Key |-> Absent]
  /\ Fault
  /\ UNCHANGED <<published, latest, work>>

\* The plugin restarts: the refreshes are gone, the tables stay.
Restart ==
  /\ work' = [w \in Worker |-> Idle]
  /\ Fault
  /\ UNCHANGED <<source, channel, published, latest>>

\* What a refresh does when nothing goes wrong.
Proceed(w) ==
  \/ ReadSource(w)
  \/ ReadFails(w)
  \/ FetchNotModified(w)
  \/ FetchPlaylist(w)
  \/ FetchFails(w)
  \/ UpsertChannel(w)
  \/ MarkChannelsMissing(w)
  \/ SaveStatus(w)
  \/ MarkError(w)

Next ==
  \/ \E w \in Worker :
       \/ BeginScheduled(w)
       \/ BeginByAdmin(w)
       \/ Proceed(w)
       \/ StatementFails(w)
  \/ \E u \in Url : Publish(u)
  \/ \E u \in Url, on \in BOOLEAN : EditSource(u, on)
  \/ DeleteSource
  \/ Restart

Spec == Init /\ [][Next]_vars

-----------------------------------------------------------------------------
\* The channels are what publication n says: those it lists are enabled and
\* carry what it says of them, the others are absent or disabled.
Agrees(n) ==
  \A k \in Key :
    IF k \in Entries(n) THEN channel[k] = [from |-> n, enabled |-> TRUE]
                        ELSE ~channel[k].enabled

\* Is the saved validator that of what the upstream serves?
UpToDate ==
  source # Gone /\ source.tag # 0 /\ source.tag = published[source.url]

\* A validator that makes the upstream answer 304 stands for channels that are
\* what the upstream says, so that skipping the body loses nothing.  After
\* failures, timeouts and restarts between any two statements this still holds
\* with one refresh at a time and one URL; "safe to run concurrently with
\* themselves", the design says of the refreshes.
TagIsEarned == UpToDate => Agrees(source.tag)

\* The scheduler comes again and again, and a refresh goes on.  Failures and
\* edits are bounded by MaxFaults, so that there is a time after them.
Fairness ==
  \A w \in Worker : WF_vars(BeginScheduled(w)) /\ WF_vars(Proceed(w))

FairSpec == Spec /\ Fairness

\* When failures, edits and publications have ended, the enabled channels of
\* an enabled source become and stay those that its upstream lists, and those
\* of a deleted source are gone.
Converges ==
  <>[](/\ source # Gone /\ source.enabled /\ published[source.url] # 0
            => Agrees(published[source.url])
       /\ source = Gone => channel = [k \in Key |-> Absent])

=============================================================================
