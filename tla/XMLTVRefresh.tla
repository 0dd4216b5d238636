---------------------------- MODULE XMLTVRefresh ----------------------------
(***************************************************************************)
(* One XMLTV source, the programmes and the links from channels to guide   *)
(* ids, and the workers that refresh them.  RefreshOne reads the whole     *)
(* guide, replaces the future of every guide id that has programmes (one   *)
(* transaction each), links the channels whose own id matches, prunes what *)
(* is long over and saves the validator.                                   *)
(*                                                                         *)
(* Programmes carry no reference to a source and no key but their ULID, so *)
(* the table can hold any number of copies of one; copies are numbered.    *)
(* A guide is a document: it is used whole or, when one time in it cannot  *)
(* be parsed, not at all.  Its <programme>s are a set: a document that has *)
(* one of them twice, and whose rows the code then inserts twice, is left  *)
(* out, so that every second copy is the doing of refreshes.               *)
(* A publication's number stands for its ETag, as in M3URefresh.           *)
(***************************************************************************)
EXTENDS Integers, Sequences, FiniteSets

CONSTANTS
  Worker,        \* the refreshes that can be in flight at once
  Url,
  GuideId,       \* xmltv_channel_id
  Guide,         \* per publication: the ids it names and its <programme>s
  NoTime, BadTime, \* a start or stop that is absent, or cannot be parsed
  Channel,
  SourceId,      \* channels.source_channel_id
  PruneAge,      \* pruneAge, in ticks
  Horizon,       \* bound: the last tick
  MaxFaults      \* bound: failures, crashes and edits of the source

Publication == 1 .. Len(Guide)
Tag == 0 .. Len(Guide)         \* a saved validator; 0 when there is none
Time == 0 .. Horizon

Stamp == Nat \cup {NoTime, BadTime}

ASSUME XMLTVRefreshAssumption ==
  /\ IsFiniteSet(Worker)
  /\ Len(Guide) \in Nat
  /\ NoTime \notin Nat /\ BadTime \notin Nat /\ NoTime # BadTime
  /\ \A n \in Publication :
       /\ Guide[n].names \subseteq GuideId
       /\ IsFiniteSet(Guide[n].lists)
       /\ \A e \in Guide[n].lists :
            e.id \in GuideId /\ e.start \in Stamp /\ e.stop \in Stamp
  /\ SourceId \in [Channel -> GuideId]
  /\ PruneAge \in Nat /\ Horizon \in Nat /\ MaxFaults \in Nat

VARIABLES
  source,        \* the xmltv_sources row
  programs,      \* the rows of programs: pairs of a programme and a copy
  link,          \* channel_epg_keys: none, auto_linked or manual
  published,     \* what each URL serves, 0 when it serves an error
  latest,        \* the number of the last publication anywhere
  work,          \* per refresh: where RefreshOne is and its local variables
  now,
  faults         \* how much of MaxFaults is used up

vars == <<source, programs, link, published, latest, work, now, faults>>

\* ParseAuto gives all programmes, or an error at the first bad time.
Readable(n) == \A e \in Guide[n].lists : e.start # BadTime /\ e.stop # BadTime

\* toProgramme: a time that is absent stays the zero time, the year 1.
ZeroTime == -(PruneAge + 1)
Parsed(stamp) == IF stamp = NoTime THEN ZeroTime ELSE stamp
ToProgramme(e) == [id |-> e.id, start |-> Parsed(e.start), stop |-> Parsed(e.stop)]
Lists(n) == {ToProgramme(e) : e \in Guide[n].lists}
Programme == UNION {Lists(n) : n \in {m \in Publication : Readable(m)}}

Gone == [status |-> "deleted"]
SourceRow == [status: {"", "ok", "error"}, url: Url, enabled: BOOLEAN, tag: Tag]
Row == Programme \X (Nat \ {0})

Idle == [pc |-> "idle"]
Listed == [pc |-> "read"]
\* A transaction is open between the two steps of ReplaceFutureForChannel.
Refresh ==
  [pc: {"fetch", "replace", "link", "prune", "save", "error"},
   url: Url, tag: Tag,         \* the source as it was read
   new: Tag,                   \* the validator to save, or publication read
   left: SUBSET GuideId,       \* the guide ids still to replace, or to link
   open: {{}}, deleted: {{}}]
Replace ==
  [pc: {"insert"}, url: Url, tag: Tag, new: Tag, left: SUBSET GuideId,
   open: {{x} : x \in GuideId},   \* the id that the transaction replaces
   deleted: SUBSET Row]            \* by that transaction

TypeOK ==
  /\ source \in SourceRow \cup {Gone}
  /\ programs \in SUBSET Row
  /\ link \in [Channel \X GuideId -> {"none", "auto", "manual"}]
  /\ published \in [Url -> Tag]
  /\ latest \in Tag
  /\ work \in [Worker -> Refresh \cup Replace \cup {Idle, Listed}]
  /\ now \in Time
  /\ faults \in 0 .. MaxFaults

Init ==
  /\ source \in [status: {""}, url: Url, enabled: {TRUE}, tag: {0}]
  /\ programs = {}
  /\ link = [l \in Channel \X GuideId |-> "none"]
  /\ published = [u \in Url |-> 0]
  /\ latest = 0
  /\ work = [w \in Worker |-> Idle]
  /\ now = 0
  /\ faults = 0

At(w, pc) == work[w].pc = pc
Goto(w, pc) == work' = [work EXCEPT ![w].pc = pc]
Finish(w) == work' = [work EXCEPT ![w] = Idle]

\* The keys of programsByCh.
Scheduled(n) == {p.id : p \in Lists(n)}

Copies(p) == {row \in programs : row[1] = p}

Fault == faults < MaxFaults /\ faults' = faults + 1
tables == <<source, programs, link>>
upstream == <<published, latest>>

-----------------------------------------------------------------------------
(***************************************************************************)
(* RefreshOne.                                                             *)
(***************************************************************************)

\* RefreshAll lists the sources and takes the enabled ones.
BeginScheduled(w) ==
  /\ At(w, "idle")
  /\ source # Gone /\ source.enabled
  /\ work' = [work EXCEPT ![w] = Listed]
  /\ UNCHANGED <<tables, upstream, now, faults>>

\* adminRefreshXMLTVSource sees that the source is there and forks a goroutine.
BeginByAdmin(w) ==
  /\ At(w, "idle")
  /\ source # Gone
  /\ work' = [work EXCEPT ![w] = Listed]
  /\ UNCHANGED <<tables, upstream, now, faults>>

ReadSource(w) ==
  /\ At(w, "read")
  /\ source # Gone
  /\ work' = [work EXCEPT ![w] =
       [pc |-> "fetch", url |-> source.url, tag |-> source.tag,
        new |-> source.tag, left |-> {}, open |-> {}, deleted |-> {}]]
  /\ UNCHANGED <<tables, upstream, now, faults>>

ReadFails(w) ==
  /\ At(w, "read")
  /\ \/ source = Gone /\ UNCHANGED faults
     \/ Fault
  /\ Finish(w)
  /\ UNCHANGED <<tables, upstream, now>>

\* What the URL serves that the source had when it was read.
Served(w) == published[work[w].url]
Serves(n) == n # 0 /\ Readable(n)

\* 304: the guide is left alone and the validator is saved again.
FetchNotModified(w) ==
  /\ At(w, "fetch")
  /\ Served(w) # 0 /\ work[w].tag = Served(w)
  /\ Goto(w, "save")
  /\ UNCHANGED <<tables, upstream, now, faults>>

\* 200: the body is parsed whole before the first statement.
FetchGuide(w) ==
  /\ At(w, "fetch")
  /\ Serves(Served(w)) /\ work[w].tag # Served(w)
  /\ work' = [work EXCEPT ![w].pc = "replace", ![w].new = Served(w),
                          ![w].left = Scheduled(Served(w))]
  /\ UNCHANGED <<tables, upstream, now, faults>>

\* No answer, an answer outside 2xx, or a body that does not parse.
FetchFails(w) ==
  /\ At(w, "fetch")
  /\ \/ ~Serves(Served(w)) /\ UNCHANGED faults
     \/ Fault
  /\ Goto(w, "error")
  /\ UNCHANGED <<tables, upstream, now>>

\* Slip: > in place of >= against now().
DeleteFutureAfterNow(w, x) ==
  /\ At(w, "replace")
  /\ x \in work[w].left
  /\ work' = [work EXCEPT ![w].pc = "insert", ![w].open = {x},
       ![w].deleted = {row \in programs : row[1].id = x /\ row[1].start > now}]
  /\ UNCHANGED <<tables, upstream, now, faults>>

\* ReplaceFutureForChannel begins: the DELETE sees the rows committed so far.
\* Others see its effect when it commits.
DeleteFuture(w, x) ==
  /\ At(w, "replace")
  /\ x \in work[w].left
  /\ work' = [work EXCEPT ![w].pc = "insert", ![w].open = {x},
       ![w].deleted = {row \in programs : row[1].id = x /\ row[1].start >= now}]
  /\ UNCHANGED <<tables, upstream, now, faults>>

\* Every programme of the id is inserted, over or not, and the transaction
\* commits.
CommitReplace(w) ==
  /\ At(w, "insert")
  /\ LET added == {p \in Lists(work[w].new) : p.id \in work[w].open}
         Fresh(p) == CHOOSE n \in 1 .. Cardinality(Copies(p)) + 1 :
                       <<p, n>> \notin programs
     IN  programs' = (programs \ work[w].deleted) \cup {<<p, Fresh(p)>> : p \in added}
  /\ work' = [work EXCEPT ![w].pc = "replace", ![w].left = @ \ work[w].open,
                          ![w].open = {}, ![w].deleted = {}]
  /\ UNCHANGED <<source, link, upstream, now, faults>>

\* All ids are replaced; the ids that the guide names come next.
TurnToLinks(w) ==
  /\ At(w, "replace")
  /\ work[w].left = {}
  /\ work' = [work EXCEPT ![w].pc = "link", ![w].left = Guide[work[w].new].names]
  /\ UNCHANGED <<tables, upstream, now, faults>>

\* Slip: ON CONFLICT DO UPDATE, as AddEPGKey has it.
AutoLinkOver(w, x) ==
  /\ At(w, "link")
  /\ x \in work[w].left
  /\ link' = [l \in Channel \X GuideId |->
       IF SourceId[l[1]] = x /\ l[2] = x THEN "auto" ELSE link[l]]
  /\ work' = [work EXCEPT ![w].left = @ \ {x}]
  /\ UNCHANGED <<source, programs, upstream, now, faults>>

\* autoLinkEPG: every channel whose own id is x, ON CONFLICT DO NOTHING.
AutoLink(w, x) ==
  /\ At(w, "link")
  /\ x \in work[w].left
  /\ link' = [l \in Channel \X GuideId |->
       IF SourceId[l[1]] = x /\ l[2] = x /\ link[l] = "none" THEN "auto" ELSE link[l]]
  /\ work' = [work EXCEPT ![w].left = @ \ {x}]
  /\ UNCHANGED <<source, programs, upstream, now, faults>>

TurnToPruning(w) ==
  /\ At(w, "link")
  /\ work[w].left = {}
  /\ Goto(w, "prune")
  /\ UNCHANGED <<tables, upstream, now, faults>>

\* Slip: the age of a programme counted from its start.
PruneStarted(w) ==
  /\ At(w, "prune")
  /\ programs' = {row \in programs : row[1].start + PruneAge >= now}
  /\ Goto(w, "save")
  /\ UNCHANGED <<source, link, upstream, now, faults>>

\* Slip: a programme without a stop is not taken for over.
PruneKnownStops(w) ==
  /\ At(w, "prune")
  /\ programs' = {row \in programs : row[1].stop = ZeroTime \/ row[1].stop + PruneAge >= now}
  /\ Goto(w, "save")
  /\ UNCHANGED <<source, link, upstream, now, faults>>

\* PruneOldPrograms: whatever was over longer than PruneAge ago.
Prune(w) ==
  /\ At(w, "prune")
  /\ programs' = {row \in programs : row[1].stop + PruneAge >= now}
  /\ Goto(w, "save")
  /\ UNCHANGED <<source, link, upstream, now, faults>>

\* Slip: no ROLLBACK.
StatementFailsOpen(w) ==
  /\ work[w].pc \in {"replace", "insert", "link", "prune"}
  /\ Fault
  /\ Goto(w, "error")
  /\ UNCHANGED <<tables, upstream, now>>

\* A transaction rolls back, a link or the pruning fails, or time is up.
StatementFails(w) ==
  /\ work[w].pc \in {"replace", "insert", "link", "prune"}
  /\ Fault
  /\ work' = [work EXCEPT ![w].pc = "error", ![w].left = {}, ![w].open = {},
                          ![w].deleted = {}]
  /\ UNCHANGED <<tables, upstream, now>>

MarkStatus(status, tag) ==
  source' = IF source = Gone THEN source
            ELSE [source EXCEPT !.status = status, !.tag = tag]

\* MarkXMLTVStatus "ok"; on failure the source keeps what it had.
SaveStatus(w) ==
  /\ At(w, "save")
  /\ Finish(w)
  /\ \/ MarkStatus("ok", work[w].new) /\ UNCHANGED faults
     \/ Fault /\ UNCHANGED source
  /\ UNCHANGED <<programs, link, upstream, now>>

\* Slip: the error path saves the validator of the answer.
MarkErrorAsNew(w) ==
  /\ At(w, "error")
  /\ Finish(w)
  /\ MarkStatus("error", work[w].new)
  /\ UNCHANGED <<programs, link, upstream, now, faults>>

\* MarkXMLTVStatus "error: ...", with the validator as it was read; its own
\* failure is ignored.
MarkError(w) ==
  /\ At(w, "error")
  /\ Finish(w)
  /\ \/ MarkStatus("error", work[w].tag) /\ UNCHANGED faults
     \/ Fault /\ UNCHANGED source
  /\ UNCHANGED <<programs, link, upstream, now>>

-----------------------------------------------------------------------------
(***************************************************************************)
(* Everything else.                                                        *)
(***************************************************************************)

Tick ==
  /\ now < Horizon
  /\ now' = now + 1
  /\ UNCHANGED <<tables, upstream, work, faults>>

\* The upstream replaces its guide.
Publish(u) ==
  /\ latest < Len(Guide)
  /\ latest' = latest + 1
  /\ published' = [published EXCEPT ![u] = latest + 1]
  /\ UNCHANGED <<tables, work, now, faults>>

\* adminAddEPGKey, adminRemoveEPGKey.
AddEPGKey(c, x) ==
  /\ link' = [link EXCEPT ![<<c, x>>] = "manual"]
  /\ UNCHANGED <<source, programs, upstream, work, now, faults>>

RemoveEPGKey(c, x) ==
  /\ link' = [link EXCEPT ![<<c, x>>] = "none"]
  /\ UNCHANGED <<source, programs, upstream, work, now, faults>>

\* UpdateXMLTVSource: the validator stays, even when the URL does not.
EditSource(u, on) ==
  /\ source # Gone
  /\ source' = [source EXCEPT !.url = u, !.enabled = on]
  /\ Fault
  /\ UNCHANGED <<programs, link, upstream, work, now>>

\* DeleteXMLTVSource: the programmes stay, nothing ties them to the source.
DeleteSource ==
  /\ source # Gone
  /\ source' = Gone
  /\ Fault
  /\ UNCHANGED <<programs, link, upstream, work, now>>

\* The plugin restarts: the refreshes are gone, their open transactions are
\* rolled back, the tables stay.
Restart ==
  /\ work' = [w \in Worker |-> Idle]
  /\ Fault
  /\ UNCHANGED <<tables, upstream, now>>

\* What a refresh does once it has begun.
Proceed(w) ==
  \/ ReadSource(w)
  \/ ReadFails(w)
  \/ FetchNotModified(w)
  \/ FetchGuide(w)
  \/ FetchFails(w)
  \/ \E x \in GuideId : DeleteFuture(w, x) \/ AutoLink(w, x)
  \/ CommitReplace(w)
  \/ TurnToLinks(w)
  \/ TurnToPruning(w)
  \/ Prune(w)
  \/ SaveStatus(w)
  \/ MarkError(w)

Next ==
  \/ \E w \in Worker :
       \/ BeginScheduled(w)
       \/ BeginByAdmin(w)
       \/ Proceed(w)
       \/ StatementFails(w)
  \/ \E c \in Channel, x \in GuideId : AddEPGKey(c, x) \/ RemoveEPGKey(c, x)
  \/ Tick
  \/ \E u \in Url : Publish(u)
  \/ \E u \in Url, on \in BOOLEAN : EditSource(u, on)
  \/ DeleteSource
  \/ Restart

Spec == Init /\ [][Next]_vars

-----------------------------------------------------------------------------
\* No programme that has yet to start, and that its document lists once, is in
\* the guide twice, whatever fails in between and however time passes between a
\* DELETE, its INSERT and the next refresh.  This holds with one refresh at a
\* time: the DELETE of a second one does not see what the first has not
\* committed.  "Safe to run concurrently with themselves", the design says.
FutureListedOnce ==
  \A p \in Programme : p.start >= now => Cardinality(Copies(p)) <= 1

\* "All three workers are idempotent", the design says: a programme is in the
\* guide once, however often it was read.
ListedOnce == \A p \in Programme : Cardinality(Copies(p)) <= 1

\* The future of every id that publication n schedules is what n says, but for
\* programmes that stop before they start: those the pruning may take early.
FutureStored(n) ==
  \A p \in Programme :
    p.start >= now /\ p.stop > p.start /\ p.id \in Scheduled(n)
      => (Copies(p) # {} <=> p \in Lists(n))

\* A programme without a stop has its stop in the year 1.  It is inserted with
\* the rest of its id and is there until a pruning comes, which takes it for
\* long over: no guide that was refreshed to the end shows one.
StopsKnown == \A p \in Programme : p.stop = ZeroTime => Copies(p) = {}

FutureAgrees(n) == FutureStored(n) /\ StopsKnown

\* A saved validator that makes the upstream answer 304 stands for a guide
\* whose future is the upstream's.  (With one URL: an edit keeps the validator,
\* so one that leads away and back while a refresh is halfway undoes this.)
TagIsEarned ==
  source # Gone /\ source.tag # 0 /\ source.tag = published[source.url]
    => FutureAgrees(source.tag)

\* A programme that is on the air stays in the guide until it is over and
\* PruneAge has passed, whatever later guides say: replacing the future does
\* not touch the present.  Only a transaction that deleted the row before the
\* programme began may still take it away.
OnAirStays ==
  [][\A row \in programs :
       row[1].start < now /\ row[1].stop + PruneAge >= now =>
         row \in programs' \/ \E w \in Worker : At(w, "insert") /\ row \in work[w].deleted]_vars

\* A manual link is the administrator's: no step of a refresh removes it or
\* makes it automatic ("so subsequent XMLTV refreshes don't clobber them").
ManualLinksKept ==
  [][\A l \in DOMAIN link :
       link[l] = "manual" /\ link'[l] # "manual" =>
         work' = work /\ link'[l] = "none"]_vars

\* The scheduler comes again and again, and a refresh goes on.
Fairness ==
  \A w \in Worker : WF_vars(BeginScheduled(w)) /\ WF_vars(Proceed(w))

FairSpec == Spec /\ Fairness

\* When publications, edits and failures have ended, the future becomes and
\* stays that of the upstream, unless its source was disabled or deleted.
Converges ==
  <>[](source # Gone /\ source.enabled /\ Serves(published[source.url])
         => FutureAgrees(published[source.url]))

=============================================================================
