---------------------------- MODULE ChannelPages ----------------------------
(***************************************************************************)
(* A client walks through the channel list, one GET /channels per page,    *)
(* while refreshes and administrators rename, move, hide and show          *)
(* channels.  Each page is a statement of its own; the cursor that a page  *)
(* returns is all that the next one knows of it.                           *)
(***************************************************************************)
EXTENDS Naturals, FiniteSets

CONSTANTS
  Id,            \* channel ids, which are ordered
  Rank,          \* what a channel is sorted by before its id: position, name
  Limit          \* page sizes that clients ask for

ASSUME ChannelPagesAssumption ==
  /\ Id \subseteq Nat /\ IsFiniteSet(Id)
  /\ Rank \subseteq Nat /\ Rank # {}
  /\ Limit \subseteq Nat \ {0}

VARIABLES
  rank,          \* per channel: (position, lower(display_name))
  shown,         \* the channels that are enabled and match the filter
  cursor,        \* what the next page has to come after
  walking,       \* is there a next page
  listed, again, \* history: what the walk has listed, and what more than once
  steady         \* history: what was shown all the time, where it is

pages == <<rank, shown, cursor, walking, listed, again, steady>>

NoCursor == [rank |-> 0]
Cursor == [rank: Rank, id: Id]

PagesTypeOK ==
  /\ rank \in [Id -> Rank]
  /\ shown \in SUBSET Id
  /\ cursor \in Cursor \cup {NoCursor}
  /\ walking \in BOOLEAN
  /\ {listed, again, steady} \subseteq SUBSET Id

PagesInit ==
  /\ rank \in [Id -> Rank]
  /\ shown \in SUBSET Id
  /\ cursor = NoCursor
  /\ walking = FALSE
  /\ listed = {} /\ again = {} /\ steady = {}

-----------------------------------------------------------------------------
\* ORDER BY position, lower(display_name), id.
Precedes(c, d) == rank[c] < rank[d] \/ (rank[c] = rank[d] /\ c < d)

\* Slip: the cursor without the id.
AfterRank(c) == cursor = NoCursor \/ rank[c] > cursor.rank

\* The comparison of the row with the cursor.
After(c) ==
  \/ cursor = NoCursor
  \/ rank[c] > cursor.rank
  \/ rank[c] = cursor.rank /\ c > cursor.id

Rest == {c \in shown : After(c)}

\* The first n of S.
First(S, n) == {c \in S : Cardinality({d \in S : Precedes(d, c)}) < n}

\* The client begins, or begins anew.
BeginWalk ==
  /\ cursor' = NoCursor
  /\ walking' = TRUE
  /\ listed' = {} /\ again' = {}
  /\ steady' = shown
  /\ UNCHANGED <<rank, shown>>

List(page) ==
  /\ listed' = listed \cup page
  /\ again' = again \cup (listed \cap page)
  /\ UNCHANGED <<rank, shown, steady>>

\* There is a row beyond the limit: the cursor is the last one of the page.
ListPage(limit) ==
  /\ walking
  /\ Cardinality(Rest) > limit
  /\ \E last \in First(Rest, limit) :
       /\ \A c \in First(Rest, limit) : ~Precedes(last, c)
       /\ cursor' = [rank |-> rank[last], id |-> last]
  /\ List(First(Rest, limit))
  /\ UNCHANGED walking

\* There is none: no cursor is returned.
ListLastPage(limit) ==
  /\ walking
  /\ Cardinality(Rest) <= limit
  /\ walking' = FALSE
  /\ List(Rest)
  /\ UNCHANGED cursor

\* UpsertChannelFromM3U renames, AdminPatchChannel moves, hides and shows,
\* MarkChannelsMissing hides; a new channel appears, a deleted one is gone.
ChangeChannel(c, r, on) ==
  /\ rank' = [rank EXCEPT ![c] = r]
  /\ shown' = IF on THEN shown \cup {c} ELSE shown \ {c}
  /\ steady' = steady \ {c}
  /\ UNCHANGED <<cursor, walking, listed, again>>

PagesNext ==
  \/ BeginWalk
  \/ \E limit \in Limit : ListPage(limit) \/ ListLastPage(limit)
  \/ \E c \in Id, r \in Rank, on \in BOOLEAN : ChangeChannel(c, r, on)

PagesSpec == PagesInit /\ [][PagesNext]_pages

-----------------------------------------------------------------------------
\* Whatever happens to other channels between two pages, also to the one that
\* the cursor was made from: a channel that is shown throughout and stays where
\* it is is listed by a walk that comes to its end, and no walk lists it twice.
SteadyListedOnce ==
  /\ steady \cap again = {}
  /\ ~walking => steady \subseteq listed

=============================================================================
