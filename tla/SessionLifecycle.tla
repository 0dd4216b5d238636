-------------------------- MODULE SessionLifecycle --------------------------
(***************************************************************************)
(* What the streaming half promises of a session, without requests,        *)
(* channels, clocks or semaphores: it opens once, for one user and only    *)
(* while that user has room; it closes once, for one reason; and it is     *)
(* forgotten only with its channel.  Sessions that close together close    *)
(* for being idle.                                                         *)
(***************************************************************************)
EXTENDS Naturals, FiniteSets

CONSTANTS
  SessionId,
  User,
  Bounded,       \* is the number of a user's open sessions bounded
  Bound          \* and by what

VARIABLE book    \* what is known of every session

Unborn == [state |-> "unborn"]
Gone == [state |-> "gone"]

OpenFor(u) == {s \in SessionId : book[s].state = "open" /\ book[s].user = u}

\* An earlier life of the process may have left sessions open.
Init ==
  book \in [SessionId -> {Unborn} \cup
             [state: {"open"}, user: User, why: {""}]]

Open(s, u) ==
  /\ book[s].state = "unborn"
  /\ Bounded => Cardinality(OpenFor(u)) < Bound
  /\ book' = [book EXCEPT ![s] = [state |-> "open", user |-> u, why |-> ""]]

Closed(s, why) == [state |-> "closed", user |-> book[s].user, why |-> why]

Close(s, why) ==
  /\ book[s].state = "open"
  /\ book' = [book EXCEPT ![s] = Closed(s, why)]

CloseIdle(S) ==
  /\ \A s \in S : book[s].state = "open"
  /\ book' = [s \in SessionId |-> IF s \in S THEN Closed(s, "idle") ELSE book[s]]

Forget(S) ==
  /\ \A s \in S : book[s].state \in {"open", "closed"}
  /\ book' = [s \in SessionId |-> IF s \in S THEN Gone ELSE book[s]]

Next ==
  \/ \E s \in SessionId, u \in User : Open(s, u)
  \/ \E s \in SessionId :
       \E why \in {"client_disconnect", "upstream_error", "admin_kill"} :
         Close(s, why)
  \/ \E S \in SUBSET SessionId : CloseIdle(S) \/ Forget(S)

Spec == Init /\ [][Next]_book

=============================================================================
