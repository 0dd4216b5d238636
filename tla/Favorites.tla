----------------------------- MODULE Favorites ------------------------------
(***************************************************************************)
(* The favorites of one user: rows with positions, and the requests that   *)
(* add, remove and reorder them.  A reorder checks its list against one    *)
(* statement and applies it in another; an add finds its position in a     *)
(* snapshot and inserts later.                                             *)
(***************************************************************************)
EXTENDS Naturals, FiniteSets

CONSTANTS
  Channel,       \* channel ids, which are ordered
  Requester,     \* requests that can be under way at once
  MaxAdds        \* bound: how many adds begin

ASSUME FavoritesAssumption ==
  /\ Channel \subseteq Nat /\ IsFiniteSet(Channel)
  /\ MaxAdds \in Nat

VARIABLES
  favorite,      \* user_favorites: per channel its position and created_at
  adds,          \* now(), as far as created_at tells rows apart
  request,       \* the requests under way
  order          \* history: which channel the last reorder put before which,
                 \* of those that are still there

favorites == <<favorite, adds, request, order>>

NoRow == [position |-> 0]
AtRest == [pc |-> "idle"]
Done(ok) == [pc |-> "answered", ok |-> ok]
Lists == UNION {[1 .. n -> Channel] : n \in 0 .. Cardinality(Channel)}

FavoritesTypeOK ==
  /\ favorite \in [Channel -> {NoRow} \cup
                     [position: 0 .. MaxAdds + Cardinality(Channel), created: 0 .. MaxAdds]]
  /\ adds \in 0 .. MaxAdds
  /\ request \in [Requester ->
       {AtRest} \cup {Done(ok) : ok \in BOOLEAN}
       \cup [pc: {"add", "remove"}, channel: Channel]
       \cup [pc: {"insert"}, channel: Channel, created: 0 .. MaxAdds,
             position: 0 .. MaxAdds + Cardinality(Channel)]
       \cup [pc: {"check", "update"}, ids: Lists]]
  /\ order \subseteq Channel \X Channel

Rows == {c \in Channel : favorite[c] # NoRow}

\* ORDER BY position, created_at, channel_id.
ListedBefore(c, d) ==
  LET a == favorite[c]  b == favorite[d] IN
  \/ a.position < b.position
  \/ a.position = b.position /\ a.created < b.created
  \/ a.position = b.position /\ a.created = b.created /\ c < d

Place(c) == 1 + Cardinality({d \in Rows : ListedBefore(d, c)})

ListFavorites == [i \in 1 .. Cardinality(Rows) |-> CHOOSE c \in Rows : Place(c) = i]

\* Channels that were starred one after the other, and nothing since.
FavoritesInit ==
  /\ \E n \in 0 .. Cardinality(Channel), S \in SUBSET Channel :
       /\ Cardinality(S) = n
       /\ favorite = [c \in Channel |->
            IF c \in S THEN [position |-> Cardinality({d \in S : d < c}), created |-> 0]
                       ELSE NoRow]
  /\ adds = 0
  /\ request = [r \in Requester |-> AtRest]
  /\ order = {}

-----------------------------------------------------------------------------
Goto(r, next) == request' = [request EXCEPT ![r] = next]

\* max(position) + 1, or 0.
NextPosition ==
  IF Rows = {} THEN 0
  ELSE 1 + CHOOSE p \in {favorite[c].position : c \in Rows} :
             \A c \in Rows : favorite[c].position <= p

\* The statement of an add begins: its snapshot gives the position.
AddSnapshot(r) ==
  /\ request[r].pc = "add"
  /\ adds < MaxAdds
  /\ adds' = adds + 1
  /\ Goto(r, [pc |-> "insert", channel |-> request[r].channel,
              position |-> NextPosition, created |-> adds + 1])
  /\ UNCHANGED <<favorite, order>>

\* Slip: ON CONFLICT DO UPDATE SET position.
AddInsertOver(r) ==
  /\ request[r].pc = "insert"
  /\ favorite' = [favorite EXCEPT ![request[r].channel] =
       [position |-> request[r].position, created |-> request[r].created]]
  /\ Goto(r, Done(TRUE))
  /\ UNCHANGED <<adds, order>>

\* It inserts the row, or does nothing where there is one.
AddInsert(r) ==
  /\ request[r].pc = "insert"
  /\ favorite' = [favorite EXCEPT ![request[r].channel] =
       IF @ # NoRow THEN @
       ELSE [position |-> request[r].position, created |-> request[r].created]]
  /\ Goto(r, Done(TRUE))
  /\ UNCHANGED <<adds, order>>

RemoveFavorite(r) ==
  /\ request[r].pc = "remove"
  /\ favorite' = [favorite EXCEPT ![request[r].channel] = NoRow]
  /\ order' = {p \in order : request[r].channel \notin {p[1], p[2]}}
  /\ Goto(r, Done(TRUE))
  /\ UNCHANGED adds

Members(ids) == {ids[i] : i \in DOMAIN ids}
IndexIn(ids, c) == CHOOSE i \in DOMAIN ids : ids[i] = c

\* Every channel of the list has to be a favorite, or the answer is 400.
ReorderCheck(r) ==
  /\ request[r].pc = "check"
  /\ IF Members(request[r].ids) \subseteq Rows
     THEN Goto(r, [request[r] EXCEPT !.pc = "update"])
     ELSE Goto(r, Done(FALSE))
  /\ UNCHANGED <<favorite, adds, order>>

\* One statement; a channel that was removed since the check is passed over.
ReorderFavorites(r) ==
  /\ request[r].pc = "update"
  /\ LET ids == request[r].ids IN
     /\ favorite' = [c \in Channel |->
          IF c \in Rows \cap Members(ids)
          THEN [favorite[c] EXCEPT !.position = IndexIn(ids, c) - 1]
          ELSE favorite[c]]
     /\ order' = {p \in Rows \X Rows :
          \E i, j \in DOMAIN ids : i < j /\ p = <<ids[i], ids[j]>>}
  /\ Goto(r, Done(TRUE))
  /\ UNCHANGED adds

\* A statement fails, on a channel that is gone or with the context of the request.
RequestFails(r) ==
  /\ request[r].pc \in {"add", "insert", "remove", "check", "update"}
  /\ Goto(r, Done(FALSE))
  /\ UNCHANGED <<favorite, adds, order>>

\* The request is done and the client does not hear of it.
AnswerLost(r) ==
  /\ request[r] = Done(TRUE)
  /\ Goto(r, Done(FALSE))
  /\ UNCHANGED <<favorite, adds, order>>

Serve(r) ==
  \/ AddSnapshot(r) \/ AddInsert(r) \/ RemoveFavorite(r)
  \/ ReorderCheck(r) \/ ReorderFavorites(r)
  \/ RequestFails(r) \/ AnswerLost(r)

-----------------------------------------------------------------------------
\* The order that the last applied reorder asked for is the order in which its
\* channels are listed, as long as they have not been removed: not disturbed by
\* adds that read positions before it, by adding what is there, or by removals.
ReorderStands ==
  \A p \in order : {p[1], p[2]} \subseteq Rows /\ ListedBefore(p[1], p[2])

=============================================================================
