--------------------------- MODULE FavoritesPage ----------------------------
(***************************************************************************)
(* The page that shows a user's favorites, and the stars on the cards of   *)
(* channels.  The page keeps the list it fetched, changes it on a drag     *)
(* before the request is answered, and restores the one before if the      *)
(* request fails.  Fetches, cancelled fetches and answers come in any      *)
(* order.                                                                  *)
(***************************************************************************)
EXTENDS Favorites, Functions

VARIABLES
  cached,        \* the list under ['favorites'] in the query cache
  fetch,         \* a fetch of it: none, asked for, or read by the server
  restore,       \* per drag under way, the list before it (never empty)
  doubt          \* history: an error came, and no fetch was read since

page == <<cached, fetch, restore, doubt>>

NoFetch == [pc |-> "none"]
FetchAsked == [pc |-> "asked"]

PageTypeOK ==
  /\ FavoritesTypeOK
  /\ cached \in Lists
  /\ fetch \in {NoFetch, FetchAsked} \cup [pc: {"read"}, list: Lists]
  /\ restore \in [Requester -> Lists]
  /\ doubt \in BOOLEAN

PageInit ==
  /\ FavoritesInit
  /\ cached = << >> /\ fetch = FetchAsked
  /\ restore = [r \in Requester |-> << >>]
  /\ doubt = FALSE

-----------------------------------------------------------------------------
\* onMutate: a running fetch is cancelled and the list changed at once.
Drag(r) ==
  /\ request[r] = AtRest
  /\ \E p \in Bijection(DOMAIN cached, DOMAIN cached) :
       LET ids == [i \in DOMAIN cached |-> cached[p[i]]] IN
       /\ ids # cached
       /\ cached' = ids
       /\ Goto(r, [pc |-> "check", ids |-> ids])
  /\ restore' = [restore EXCEPT ![r] = cached]
  /\ fetch' = NoFetch
  /\ UNCHANGED <<favorite, adds, order, doubt>>

\* A star on a card; the list of favorites is left to the next fetch.
Star(r, c, next) ==
  /\ request[r] = AtRest
  /\ Goto(r, [pc |-> IF next THEN "add" ELSE "remove", channel |-> c])
  /\ UNCHANGED <<favorite, adds, order, page>>

\* Slip: no fetch after a success.
OnSuccessQuietly(r) ==
  /\ request[r] = Done(TRUE)
  /\ Goto(r, AtRest)
  /\ restore' = [restore EXCEPT ![r] = << >>]
  /\ UNCHANGED <<favorite, adds, order, cached, fetch, doubt>>

\* The list is invalidated: a fetch under way is dropped for a new one.
OnSuccess(r) ==
  /\ request[r] = Done(TRUE)
  /\ Goto(r, AtRest)
  /\ restore' = [restore EXCEPT ![r] = << >>]
  /\ fetch' = FetchAsked
  /\ UNCHANGED <<favorite, adds, order, cached, doubt>>

\* A drag restores the list before it, a star only the stars; no fetch.
OnError(r) ==
  /\ request[r] = Done(FALSE)
  /\ Goto(r, AtRest)
  /\ cached' = IF restore[r] = << >> THEN cached ELSE restore[r]
  /\ restore' = [restore EXCEPT ![r] = << >>]
  /\ doubt' = TRUE
  /\ UNCHANGED <<favorite, adds, order, fetch>>

FetchRead ==
  /\ fetch = FetchAsked
  /\ fetch' = [pc |-> "read", list |-> ListFavorites]
  /\ doubt' = FALSE
  /\ UNCHANGED <<favorites, cached, restore>>

FetchAnswer ==
  /\ fetch.pc = "read"
  /\ cached' = fetch.list
  /\ fetch' = NoFetch
  /\ UNCHANGED <<favorites, restore, doubt>>

PageNext ==
  \/ \E r \in Requester :
       \/ Serve(r) /\ UNCHANGED page
       \/ Drag(r) \/ OnSuccess(r) \/ OnError(r)
       \/ \E c \in Channel, next \in BOOLEAN : Star(r, c, next)
  \/ FetchRead \/ FetchAnswer

PageSpec == PageInit /\ [][PageNext]_<<favorites, page>>

-----------------------------------------------------------------------------
\* When nothing is under way the page shows what is stored, however drags,
\* stars and fetches overlapped; after an error, from the next fetch on
\* that the server reads.
QuietPageShowsStored ==
  (\A r \in Requester : request[r] = AtRest) /\ fetch = NoFetch /\ ~doubt
    => cached = ListFavorites

=============================================================================
