---------------------------- MODULE RateLimiter -----------------------------
(***************************************************************************)
(* The token buckets in front of CreateSession and the segment endpoint.   *)
(* Tokens are counted in what a tick refills, so that the rate is one per  *)
(* tick: a call costs Cost and a full bucket holds Burst.                  *)
(*                                                                         *)
(* Allow reads the clock before it takes the lock, so that calls can reach *)
(* the buckets in another order than that of their clocks.                 *)
(***************************************************************************)
EXTENDS ServerClock, FiniteSets

CONSTANTS
  User,
  Cost,          \* of one call: ticks per token
  Burst,         \* ticks that fill an empty bucket
  IdleAfter,     \* rateLimiter.idle
  MaxSkew,       \* ticks between a call's clock and its lock, at most
  MaxCalls       \* bound: the calls of Allow in flight at once

\* "l.idle is chosen to exceed a full refill"; it has to exceed the skew too.
ASSUME RateLimiterAssumption ==
  /\ Cost \in Nat \ {0} /\ Burst \in Nat
  /\ MaxSkew \in Nat /\ MaxCalls \in Nat
  /\ IdleAfter \in Nat /\ IdleAfter >= Burst + MaxSkew

VARIABLES
  known,         \* the users in the map
  last, tokens,  \* their buckets; 0 for the others
  calls,         \* the calls in flight: a user and the clock it read
  since,         \* history: when the counting of a user's calls began
  spent          \* history: what the calls allowed since then cost

limiter == <<known, last, tokens, calls, since, spent>>

LimiterTypeOK ==
  /\ now \in Time
  /\ known \in SUBSET User
  /\ last \in [User -> Time] /\ tokens \in [User -> 0 .. Burst]
  /\ calls \in SUBSET (User \X Time)
  /\ since \in [User -> Time] /\ spent \in [User -> Nat]

LimiterInit ==
  /\ now = 0
  /\ known = {}
  /\ last = [u \in User |-> 0] /\ tokens = [u \in User |-> 0]
  /\ calls = {}
  /\ since = [u \in User |-> 0] /\ spent = [u \in User |-> 0]

-----------------------------------------------------------------------------
\* Allow: now := nowFunc().  Two calls of a user in one tick are the same.
ReadClock(u) ==
  /\ Cardinality(calls) < MaxCalls
  /\ calls' = calls \cup {<<u, now>>}
  /\ UNCHANGED <<now, known, last, tokens, since, spent>>

\* Slip: the clock of a bucket follows every call, also one that is late.
LastOfAny(u, t) == t

\* The bucket that Allow finds or makes, and allow's refill of it.
LastOf(u, t) == IF u \in known /\ t < last[u] THEN last[u] ELSE t

\* Slip: the refill is not capped.
RefilledOver(u, t) ==
  IF u \notin known THEN Burst ELSE tokens[u] + (LastOf(u, t) - last[u])

Refilled(u, t) ==
  IF u \notin known THEN Burst
  ELSE Smaller(Burst, tokens[u] + (LastOf(u, t) - last[u]))

\* Slip: a bucket is dropped while it may still be filling.
StaleEarly(u, t) == {v \in known \ {u} : t > last[v]}

\* reapLocked, after the bucket of u was used at t.
Stale(u, t) == {v \in known \ {u} : t > last[v] + IdleAfter}

\* Allow under its lock: find or make the bucket, take a token or refuse,
\* drop the idle buckets.
Decide(u, t) ==
  /\ <<u, t>> \in calls
  /\ LET filled == Refilled(u, t)
         cost == IF filled >= Cost THEN Cost ELSE 0
         gone == Stale(u, t)
     IN  /\ known' = (known \cup {u}) \ gone
         /\ last' = [v \in User |-> IF v = u THEN LastOf(u, t)
                                    ELSE IF v \in gone THEN 0 ELSE last[v]]
         /\ tokens' = [v \in User |-> IF v = u THEN filled - cost
                                      ELSE IF v \in gone THEN 0 ELSE tokens[v]]
         /\ spent' = [spent EXCEPT ![u] = @ + cost]
  /\ calls' = calls \ {<<u, t>>}
  /\ UNCHANGED <<now, since>>

\* History: the calls of u are counted from now on.
CountFromNow(u) ==
  /\ since' = [since EXCEPT ![u] = now]
  /\ spent' = [spent EXCEPT ![u] = 0]
  /\ UNCHANGED <<now, known, last, tokens, calls>>

\* Time goes on; no call falls behind by more than MaxSkew.
LimiterTick ==
  /\ now < Horizon
  /\ \A p \in calls : now < p[2] + MaxSkew
  /\ now' = now + 1
  /\ UNCHANGED limiter

LimiterNext ==
  \/ \E u \in User : ReadClock(u) \/ CountFromNow(u)
  \/ \E u \in User, t \in Time : Decide(u, t)
  \/ LimiterTick

LimiterSpec == LimiterInit /\ [][LimiterNext]_<<now, limiter>>

-----------------------------------------------------------------------------
\* From any moment on, a user gets at most a burst and what the rate gives for
\* the time passed (MaxSkew more, since a call may act on an old clock): "the
\* token bucket throttles that to a sustainable rate".  Dropping an idle bucket
\* gives nothing away: "a fresh bucket created on the next request for that key
\* is identical".
RateBounded == \A u \in User : spent[u] <= Burst + MaxSkew + (now - since[u])

\* The limiter owes a user what it refilled and did not let it spend: nobody is
\* refused who stayed within the rate, whatever order the calls came in.
TokensKept ==
  \A u \in known :
    tokens[u] + spent[u] >=
      Smaller(Burst, IF since[u] < last[u] THEN last[u] - since[u] ELSE 0)

=============================================================================
