----------------------------- MODULE NowAndNext -----------------------------
(***************************************************************************)
(* What the list says of a channel: what is on, and what comes next.       *)
(* decorateWithGuide asks for the two in queries of their own, each with a *)
(* now() of its own, while refreshes replace the future and prune the past *)
(* in between.                                                             *)
(***************************************************************************)
EXTENDS ServerClock

CONSTANT Show                  \* programmes of the channel: [start, stop]

ASSUME NowAndNextAssumption ==
  \A p \in Show : p.start \in Nat /\ p.stop \in Nat

VARIABLES
  schedule,      \* the rows that the channel's keys lead to
  badge          \* of one answer: where decorateWithGuide is, and what it has

tiles == <<schedule, badge>>
tilesVars == <<now, tiles>>

Nothing == [start |-> "none"]
TilesTypeOK ==
  /\ now \in Time
  /\ schedule \subseteq Show
  /\ badge \in [pc: {"current", "next", "shown"},
                current: Show \cup {Nothing}, next: Show \cup {Nothing}]

Asking == [pc |-> "current", current |-> Nothing, next |-> Nothing]

TilesInit ==
  /\ now = 0
  /\ schedule = {}
  /\ badge = Asking

-----------------------------------------------------------------------------
OnAir == {p \in schedule : p.start <= now /\ now < p.stop}

\* Slip: what has a start of now still counts as to come.
ToComeOrStarting == {p \in schedule : p.start >= now}

\* What has not begun yet.
ToCome == {p \in schedule : p.start > now}

\* DISTINCT ON the channel: the last that has begun of those on the air, ...
ReadCurrent ==
  /\ badge.pc = "current"
  /\ \/ OnAir = {} /\ badge' = [badge EXCEPT !.pc = "next"]
     \/ \E p \in OnAir :
          /\ \A q \in OnAir : q.start <= p.start
          /\ badge' = [badge EXCEPT !.pc = "next", !.current = p]
  /\ UNCHANGED <<now, schedule>>

\* ... and the first of those to come.
ReadNext ==
  /\ badge.pc = "next"
  /\ \/ ToCome = {} /\ badge' = [badge EXCEPT !.pc = "shown"]
     \/ \E p \in ToCome :
          /\ \A q \in ToCome : q.start >= p.start
          /\ badge' = [badge EXCEPT !.pc = "shown", !.next = p]
  /\ UNCHANGED <<now, schedule>>

\* The list is asked for again.
AskAgain ==
  /\ badge.pc = "shown"
  /\ badge' = Asking
  /\ UNCHANGED <<now, schedule>>

\* ReplaceFutureForChannel: what had begun when the transaction did stays, and
\* the guide, which may list the past as well, is added.
ReplaceFuture(listed) ==
  /\ \E began \in 0 .. now : schedule' = {p \in schedule : p.start < began} \cup listed
  /\ UNCHANGED <<now, badge>>

\* PruneOldPrograms, some time after they were over.
PruneOver ==
  /\ \E gone \in SUBSET {p \in schedule : p.stop < now} : schedule' = schedule \ gone
  /\ UNCHANGED <<now, badge>>

TilesTick ==
  /\ now < Horizon
  /\ now' = now + 1
  /\ UNCHANGED tiles

TilesNext ==
  \/ ReadCurrent \/ ReadNext \/ AskAgain
  \/ \E listed \in SUBSET Show : ReplaceFuture(listed)
  \/ PruneOver
  \/ TilesTick

TilesSpec == TilesInit /\ [][TilesNext]_tilesVars

-----------------------------------------------------------------------------
\* Whatever refreshes commit between the two queries, and however much time
\* passes, a channel never announces as next what it shows as current, nor
\* anything that began before it.
NextComesAfter ==
  badge.pc = "shown" /\ badge.current # Nothing /\ badge.next # Nothing
    => badge.current.start < badge.next.start

=============================================================================
