---------------------------- MODULE SessionStore ----------------------------
(***************************************************************************)
(* The stream_sessions table and the part of the channels table it hangs   *)
(* from, as the SQL statements of internal/store see them.  Each operator  *)
(* below is one statement: Postgres runs it atomically, and everything     *)
(* between two statements of a handler is a place where another handler,   *)
(* the reaper or an administrator can run.                                 *)
(*                                                                         *)
(* Timestamps are kept as ages.  The only comparison the code makes with   *)
(* last_byte_at is "older than now minus the idle timeout", so an age is   *)
(* counted in ticks and saturates one tick past the timeout.               *)
(***************************************************************************)
EXTENDS Naturals, FiniteSets

CONSTANTS
  SessionId,     \* the ULIDs a behaviour can use; none is ever used twice
  User,
  Channel,
  IdleTimeout,   \* settings.session_idle_timeout, in ticks
  WriteLatency   \* bound: ticks between taking a stamp and writing it

ASSUME SessionStoreAssumption ==
  /\ IsFiniteSet(SessionId)
  /\ IdleTimeout \in Nat \ {0}
  /\ WriteLatency \in Nat

VARIABLES
  sessions,      \* stream_sessions: one row or blank per id
  channels,      \* channels: is the row there, and is it effectively enabled
  granted        \* sessions whose token reached a client

storeVars == <<sessions, channels, granted>>

Stale == IdleTimeout + 1          \* the age at which ages stop growing
Age == 0 .. Stale

EndReason == {"client_disconnect", "idle", "admin_kill", "upstream_error"}

SessionRow == [status: {"active", "ended"}, user: User, channel: Channel,
               idle: Age, reason: EndReason \cup {""}]

Free    == [status |-> "free"]     \* no row has had this id yet
Deleted == [status |-> "deleted"]  \* the row went with its channel

Active(s) == sessions[s].status = "active"
Ended(s) == sessions[s].status = "ended"

\* The WHERE clauses of the two cap checks; the code counts these sets.
ActiveOfUser(u) == {s \in SessionId : Active(s) /\ sessions[s].user = u}
ActiveOfChannel(c) == {s \in SessionId : Active(s) /\ sessions[s].channel = c}

StoreTypeOK ==
  /\ sessions \in [SessionId -> SessionRow \cup {Free, Deleted}]
  /\ channels \in [Channel -> {"enabled", "disabled", "deleted"}]
  /\ granted \in SUBSET SessionId

StoreInit ==
  /\ sessions = [s \in SessionId |-> Free]
  /\ channels = [c \in Channel |-> "enabled"]
  /\ granted = {}

-----------------------------------------------------------------------------
(***************************************************************************)
(* Statements.  Each gives sessions its next value and nothing else.       *)
(***************************************************************************)

\* INSERT INTO stream_sessions: started_at and last_byte_at are the time at
\* which CreateSession was called, which the statement runs some time after.
InsertSession(s, u, c, age) ==
  sessions' = [sessions EXCEPT ![s] =
                 [status |-> "active", user |-> u, channel |-> c,
                  idle |-> age, reason |-> ""]]

\* A time that a statement sets is taken before the statement runs.
StampAge == {age \in Age : age <= WriteLatency}

\* Slip: the statement without its WHERE ended_at IS NULL.
UpdateAnySessionLastByte(s, age) ==
  sessions' = IF Active(s) \/ Ended(s)
              THEN [sessions EXCEPT ![s].idle = age] ELSE sessions

\* SET last_byte_at = stamp WHERE ended_at IS NULL.  The stamp was taken by
\* the handler before the statement ran, so it has an age of its own.
UpdateSessionLastByte(s, age) ==
  sessions' = IF Active(s) THEN [sessions EXCEPT ![s].idle = age] ELSE sessions

\* Slip: the statement without its WHERE ended_at IS NULL.
EndAnySession(s, why) ==
  sessions' = IF Active(s) \/ Ended(s)
              THEN [sessions EXCEPT ![s].status = "ended", ![s].reason = why]
              ELSE sessions

\* SET ended_at = now(), end_reason = why WHERE ended_at IS NULL.
EndSession(s, why) ==
  sessions' = IF Active(s)
              THEN [sessions EXCEPT ![s].status = "ended", ![s].reason = why]
              ELSE sessions

\* Slip: <= in place of < against the cutoff.
ReapIdleSessionsEarly ==
  sessions' = [s \in SessionId |->
                 IF Active(s) /\ sessions[s].idle >= IdleTimeout
                 THEN [sessions[s] EXCEPT !.status = "ended", !.reason = "idle"]
                 ELSE sessions[s]]

\* Slip: a join that leaves out the sessions of disabled channels.
ReapIdleSessionsJoined ==
  sessions' = [s \in SessionId |->
                 IF /\ Active(s) /\ sessions[s].idle > IdleTimeout
                    /\ channels[sessions[s].channel] = "enabled"
                 THEN [sessions[s] EXCEPT !.status = "ended", !.reason = "idle"]
                 ELSE sessions[s]]

\* Every active row whose last_byte_at predates the cutoff, in one UPDATE.
ReapIdleSessions ==
  sessions' = [s \in SessionId |->
                 IF Active(s) /\ sessions[s].idle > IdleTimeout
                 THEN [sessions[s] EXCEPT !.status = "ended", !.reason = "idle"]
                 ELSE sessions[s]]

\* ON DELETE CASCADE from channels.
CascadeToSessions(c) ==
  sessions' = [s \in SessionId |->
                 IF (Active(s) \/ Ended(s)) /\ sessions[s].channel = c
                 THEN Deleted ELSE sessions[s]]

\* Slip: ages that do not saturate.
OlderForever(age) == age + 1

Older(age) == IF age < Stale THEN age + 1 ELSE age

\* One tick of the clock, as the ages of the rows see it.
AgeSessions ==
  sessions' = [s \in SessionId |->
                 IF Active(s)
                 THEN [sessions[s] EXCEPT !.idle = Older(@)]
                 ELSE sessions[s]]

-----------------------------------------------------------------------------
(***************************************************************************)
(* What happens to the tables from outside the two request paths.          *)
(***************************************************************************)

\* POST /admin/sessions/{id}/kill.
AdminKillSession(s) ==
  /\ EndSession(s, "admin_kill")
  /\ UNCHANGED <<channels, granted>>

\* The scheduler's reap_idle_sessions task.
ReapIdle ==
  /\ ReapIdleSessions
  /\ UNCHANGED <<channels, granted>>

\* A refresh that misses or finds the channel, or an admin patch of it.
SetChannelEnabled(c, on) ==
  /\ channels[c] # "deleted"
  /\ channels' = [channels EXCEPT ![c] = IF on THEN "enabled" ELSE "disabled"]
  /\ UNCHANGED <<sessions, granted>>

\* Deleting the M3U source deletes its channels, and they their sessions.
DeleteChannel(c) ==
  /\ channels[c] # "deleted"
  /\ channels' = [channels EXCEPT ![c] = "deleted"]
  /\ CascadeToSessions(c)
  /\ UNCHANGED granted

=============================================================================
