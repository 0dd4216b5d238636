---------------------------- MODULE SourceForms -----------------------------
(***************************************************************************)
(* The administrators' page of M3U sources over M3URefresh: a list that    *)
(* each browser keeps, a drawer filled from a row of that list, and PUT,   *)
(* which stores the drawer's whole content.  Every answer of the API masks *)
(* the credentials of a source.                                            *)
(*                                                                         *)
(* A Url stands for all that a refresh sends upstream, headers included,   *)
(* and so for the credentials too.  Masked[u] is u with its credentials    *)
(* replaced by the placeholder; upstreams refuse the placeholder.          *)
(***************************************************************************)
EXTENDS M3URefresh

CONSTANTS
  Admin,         \* browsers with the page open
  Masked         \* maskURL and maskHeaders

ASSUME SourceFormsAssumption ==
  /\ Masked \in [Url -> Url]
  /\ \A u \in Url : Masked[Masked[u]] = Masked[u]

VARIABLES
  listed,        \* per browser: the row of the source in its cached list
  drawer         \* per browser: the drawer, and the PUT it has sent

forms == <<listed, drawer>>
formsVars == <<vars, forms>>

\* Does u hold the placeholder where v holds a secret?
Placeholder(u) == \E v \in Url : v # u /\ Masked[v] = u

Shown == [url: Url, enabled: BOOLEAN]
NotListed == [url |-> "none"]
Closed == [pc |-> "closed"]
Open == [pc: {"open", "saving", "reload"}, url: Url, enabled: BOOLEAN]

FormsTypeOK ==
  /\ listed \in [Admin -> Shown \cup {NotListed}]
  /\ drawer \in [Admin -> Open \cup {Closed}]

FormsInit ==
  /\ Init
  /\ ~Placeholder(source.url)
  /\ listed = [a \in Admin |-> NotListed]
  /\ drawer = [a \in Admin |-> Closed]

-----------------------------------------------------------------------------
(***************************************************************************)
(* The page.                                                               *)
(***************************************************************************)

\* The wire shape of the row.
Answer == [url |-> Masked[source.url], enabled |-> source.enabled]

\* GET /admin/sources/m3u: first, after a save, or when the page is visited.
ListSources(a) ==
  /\ listed' = [listed EXCEPT ![a] = IF source = Gone THEN NotListed ELSE Answer]
  /\ UNCHANGED <<vars, drawer>>

\* Slip: a drawer for a source that is no longer listed.
OpenDrawerAnyway(a) ==
  /\ drawer[a] = Closed
  /\ drawer' = [drawer EXCEPT ![a] =
       [pc |-> "open", url |-> listed[a].url, enabled |-> TRUE]]
  /\ UNCHANGED <<vars, listed>>

\* Edit: the drawer's fields begin as the listed row, however old it is.
OpenDrawer(a) ==
  /\ drawer[a] = Closed
  /\ listed[a] # NotListed
  /\ drawer' = [drawer EXCEPT ![a] =
       [pc |-> "open", url |-> listed[a].url, enabled |-> listed[a].enabled]]
  /\ UNCHANGED <<vars, listed>>

\* The administrator enters a URL with its credentials, or turns the switch.
EnterUrl(a, u) ==
  /\ drawer[a].pc = "open"
  /\ ~Placeholder(u)
  /\ drawer' = [drawer EXCEPT ![a].url = u]
  /\ UNCHANGED <<vars, listed>>

TurnSwitch(a) ==
  /\ drawer[a].pc = "open"
  /\ drawer' = [drawer EXCEPT ![a].enabled = ~@]
  /\ UNCHANGED <<vars, listed>>

Submit(a) ==
  /\ drawer[a].pc = "open"
  /\ drawer' = [drawer EXCEPT ![a].pc = "saving"]
  /\ UNCHANGED <<vars, listed>>

\* PUT: the UPDATE stores the fields as they came.
Update(a) ==
  /\ drawer[a].pc = "saving"
  /\ EditSource(drawer[a].url, drawer[a].enabled)
  /\ drawer' = [drawer EXCEPT ![a].pc = "reload"]
  /\ UNCHANGED listed

\* PUT reads the row back and answers; the drawer closes.
Reload(a) ==
  /\ drawer[a].pc = "reload"
  /\ source # Gone
  /\ drawer' = [drawer EXCEPT ![a] = Closed]
  /\ UNCHANGED <<vars, listed>>

\* 404, or a statement fails: a message, and the drawer stays.  What the
\* UPDATE wrote stays as well.
PutFails(a) ==
  /\ drawer[a].pc \in {"saving", "reload"}
  /\ drawer' = [drawer EXCEPT ![a].pc = "open"]
  /\ UNCHANGED <<vars, listed>>

CloseDrawer(a) ==
  /\ drawer[a].pc = "open"
  /\ drawer' = [drawer EXCEPT ![a] = Closed]
  /\ UNCHANGED <<vars, listed>>

PageNext(a) ==
  \/ ListSources(a)
  \/ OpenDrawer(a)
  \/ \E u \in Url : EnterUrl(a, u)
  \/ TurnSwitch(a)
  \/ Submit(a)
  \/ Update(a) \/ Reload(a) \/ PutFails(a)
  \/ CloseDrawer(a)

\* What M3URefresh does beside edits; upstreams serve nothing to a placeholder.
RefreshNext ==
  \/ \E w \in Worker :
       \/ BeginScheduled(w)
       \/ BeginByAdmin(w)
       \/ Proceed(w)
       \/ StatementFails(w)
  \/ \E u \in Url : ~Placeholder(u) /\ Publish(u)
  \/ DeleteSource
  \/ Restart

FormsNext ==
  \/ RefreshNext /\ UNCHANGED forms
  \/ \E a \in Admin : PageNext(a)

FormsSpec == FormsInit /\ [][FormsNext]_formsVars
FormsFairSpec == FormsSpec /\ Fairness

-----------------------------------------------------------------------------
\* A drawer and a refresh both write a row that they read long before: a save
\* leaves the status and the validators to the refresh, which leaves the rest
\* to the save.  So the URL and the switch become only what a drawer holds
\* that is being saved, and no refresh brings older ones back; and a validator
\* gives way only to one whose playlist the channels agree with, whatever the
\* URL was when that was fetched.
WritersKeepApart ==
  [][source # Gone /\ source' # Gone =>
       /\ <<source'.url, source'.enabled>> # <<source.url, source.enabled>> =>
            \E a \in Admin : /\ drawer[a].pc = "saving" /\ drawer'[a].pc = "reload"
                             /\ source'.url = drawer[a].url
                             /\ source'.enabled = drawer[a].enabled
       /\ source'.tag # source.tag => source'.tag # 0 /\ Agrees(source'.tag)]_formsVars

\* While the upstream refuses what the source has stored, its channels stay as
\* they are: beside a deletion, a channel changes only by the step of a refresh
\* that applies the answer to a URL whose credentials are there.
RefusalKeepsChannels ==
  [][channel' # channel =>
       \/ source' = Gone
       \/ \E w \in Worker : /\ work[w].pc \in {"upsert", "missing"}
                            /\ work'[w] # work[w]
                            /\ ~Placeholder(work[w].url)]_formsVars

\* "Non-empty so the operator can see a secret IS set": where an answer shows
\* the placeholder, a secret is stored.
SecretBehindMask ==
  source # Gone /\ Placeholder(Masked[source.url]) => ~Placeholder(source.url)

=============================================================================
