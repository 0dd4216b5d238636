------------------------- MODULE ServerPartsProofs --------------------------
(***************************************************************************)
(* The smaller parts of the server, one section each: what a run of        *)
(* MCServerParts finds on a few users, channels and ticks holds for any    *)
(* number of them.                                                         *)
(***************************************************************************)
EXTENDS FiniteSetTheorems, RateLimiter, ChannelPages, PlaylistCache, ChannelOverrides,
        NowAndNext, FavoritesPage, M3UParser, TLAPS

-----------------------------------------------------------------------------
(***************************************************************************)
(* The token buckets.                                                      *)
(***************************************************************************)

USE RateLimiterAssumption, HorizonAssumption

\* No clock is ahead of now, and that of a call is not far behind.
Clocks ==
  /\ \A p \in calls : p[2] <= now /\ now <= p[2] + MaxSkew
  /\ \A u \in User : last[u] <= now /\ since[u] <= now

\* What a user may still spend is part of the bound while it has a bucket, and
\* the bound has grown by a whole burst once the bucket was dropped.
Budget(u) ==
  \/ spent[u] = 0
  \/ /\ u \in known
     /\ spent[u] + tokens[u] + since[u] <= Burst + last[u] + MaxSkew
  \/ /\ u \notin known
     /\ spent[u] + since[u] <= now

BucketsInv ==
  /\ LimiterTypeOK
  /\ Clocks
  /\ \A u \in User : Budget(u)
  /\ TokensKept

\* Initially there is no bucket and nothing was spent.
LEMMA InitBuckets == LimiterInit => BucketsInv
  BY DEF LimiterInit, BucketsInv, LimiterTypeOK, Clocks, Budget, TokensKept, Time

LEMMA ReadClockKeeps ==
  ASSUME BucketsInv, NEW u \in User, ReadClock(u)
  PROVE  BucketsInv'
  <1>1. LimiterTypeOK'
    BY DEF BucketsInv, LimiterTypeOK, ReadClock
  <1>2. Clocks'
    <2>1. \A p \in calls' : p \in calls \/ p = <<u, now>>
      BY DEF ReadClock
    <2>2. now \in Nat
      BY DEF BucketsInv, LimiterTypeOK, Time
    <2> QED
      BY <2>1, <2>2 DEF BucketsInv, Clocks, ReadClock
  <1>3. (\A v \in User : Budget(v))' /\ TokensKept'
    BY DEF BucketsInv, Budget, TokensKept, ReadClock
  <1> QED
    BY <1>1, <1>2, <1>3 DEF BucketsInv

LEMMA CountFromNowKeeps ==
  ASSUME BucketsInv, NEW u \in User, CountFromNow(u)
  PROVE  BucketsInv'
  <1> USE DEF BucketsInv, CountFromNow
  <1>1. LimiterTypeOK'
    BY DEF LimiterTypeOK
  <1>2. Clocks'
    BY DEF Clocks, LimiterTypeOK, Time
  <1>3. ASSUME NEW v \in User PROVE Budget(v)'
    <2>1. CASE v = u
      BY <2>1 DEF Budget, LimiterTypeOK
    <2>2. CASE v # u
      BY <2>2 DEF Budget, LimiterTypeOK
    <2> QED BY <2>1, <2>2
  <1>4. TokensKept'
    <2> SUFFICES ASSUME NEW v \in known'
                 PROVE  (tokens[v] + spent[v] >=
                          Smaller(Burst, IF since[v] < last[v] THEN last[v] - since[v] ELSE 0))'
      BY DEF TokensKept
    <2>1. CASE v = u
      BY <2>1 DEF LimiterTypeOK, Clocks, Smaller, Time
    <2>2. CASE v # u
      BY <2>2 DEF LimiterTypeOK, TokensKept
    <2> QED BY <2>1, <2>2
  <1> QED
    BY <1>1, <1>2, <1>3, <1>4

LEMMA TickKeeps ==
  ASSUME BucketsInv, LimiterTick
  PROVE  BucketsInv'
  <1> USE DEF BucketsInv, LimiterTick, limiter
  <1>1. LimiterTypeOK'
    BY DEF LimiterTypeOK, Time
  <1>2. Clocks'
    <2>1. \A p \in calls : p[2] \in Nat
      BY DEF LimiterTypeOK, Time
    <2> QED
      BY <2>1 DEF Clocks, LimiterTypeOK, Time
  <1>3. (\A v \in User : Budget(v))' /\ TokensKept'
    BY DEF Budget, TokensKept, LimiterTypeOK, Time
  <1> QED
    BY <1>1, <1>2, <1>3

\* The bucket after a call: its clock is no older than the call's, and what
\* was refilled is no more than the time between them and fits.
LEMMA Refill ==
  ASSUME BucketsInv, NEW u \in User, NEW t \in Time, <<u, t>> \in calls
  PROVE  /\ t <= now /\ now <= t + MaxSkew
         /\ LastOf(u, t) \in Time /\ t <= LastOf(u, t) /\ LastOf(u, t) <= now
         /\ Refilled(u, t) \in 0 .. Burst
         /\ u \notin known => Refilled(u, t) = Burst /\ LastOf(u, t) = t
         /\ u \in known =>
              /\ last[u] <= LastOf(u, t)
              /\ Refilled(u, t) <= tokens[u] + (LastOf(u, t) - last[u])
              /\ Refilled(u, t) = Burst
                   \/ Refilled(u, t) = tokens[u] + (LastOf(u, t) - last[u])
  <1>1. t <= now /\ now <= t + MaxSkew
    BY DEF BucketsInv, Clocks
  <1>2. /\ now \in Nat /\ t \in Nat /\ now <= Horizon
        /\ last[u] \in Nat /\ last[u] <= now
        /\ tokens[u] \in Nat /\ tokens[u] <= Burst
    BY DEF BucketsInv, LimiterTypeOK, Clocks, Time
  <1> QED
    BY <1>1, <1>2 DEF LastOf, Refilled, Smaller, Time

LEMMA DecideKeeps ==
  ASSUME BucketsInv, NEW u \in User, NEW t \in Time, Decide(u, t)
  PROVE  BucketsInv'
  <1> DEFINE filled == Refilled(u, t)
             cost == IF filled >= Cost THEN Cost ELSE 0
             gone == Stale(u, t)
             at == LastOf(u, t)
  <1>0. /\ LimiterTypeOK /\ Clocks /\ (\A v \in User : Budget(v)) /\ TokensKept
        /\ <<u, t>> \in calls
    BY DEF BucketsInv, Decide
  <1>1. /\ t <= now /\ now <= t + MaxSkew
        /\ at \in Time /\ t <= at /\ at <= now
        /\ filled \in 0 .. Burst
        /\ u \notin known => filled = Burst /\ at = t
        /\ u \in known =>
             /\ last[u] <= at
             /\ filled <= tokens[u] + (at - last[u])
             /\ filled = Burst \/ filled = tokens[u] + (at - last[u])
    BY <1>0, Refill
  <1>2. cost \in Nat /\ cost <= filled
    BY <1>1
  <1>3. gone \subseteq known \ {u} /\ \A v \in gone : t > last[v] + IdleAfter
    BY DEF Stale
  <1>4. /\ known' = (known \cup {u}) \ gone
        /\ calls' = calls \ {<<u, t>>}
        /\ now' = now /\ since' = since
        /\ last' = [v \in User |-> IF v = u THEN at ELSE IF v \in gone THEN 0 ELSE last[v]]
        /\ tokens' = [v \in User |-> IF v = u THEN filled - cost
                                     ELSE IF v \in gone THEN 0 ELSE tokens[v]]
        /\ spent' = [spent EXCEPT ![u] = @ + cost]
    BY DEF Decide
  <1>5. /\ now \in Nat /\ t \in Nat /\ at \in Nat /\ at <= Horizon
        /\ \A v \in User : /\ last[v] \in Nat /\ last[v] <= now
                           /\ tokens[v] \in Nat /\ tokens[v] <= Burst
                           /\ spent[v] \in Nat
                           /\ since[v] \in Nat /\ since[v] <= now
    BY <1>0, <1>1 DEF LimiterTypeOK, Clocks, Time
  <1> HIDE DEF filled, cost, gone, at
  <1>u. /\ u \in known' /\ last'[u] = at /\ tokens'[u] = filled - cost
        /\ spent'[u] = spent[u] + cost /\ since'[u] = since[u]
    BY <1>0, <1>3, <1>4 DEF LimiterTypeOK
  <1>v. ASSUME NEW v \in User, v # u
        PROVE  /\ spent'[v] = spent[v] /\ since'[v] = since[v]
               /\ v \in gone => v \in known /\ v \notin known' /\ last'[v] = 0 /\ tokens'[v] = 0
               /\ v \notin gone => /\ v \in known' <=> v \in known
                                   /\ last'[v] = last[v] /\ tokens'[v] = tokens[v]
    BY <1>0, <1>3, <1>4, <1>v DEF LimiterTypeOK
  <1>6. LimiterTypeOK'
    <2>1. now' \in Time /\ known' \in SUBSET User /\ calls' \in SUBSET (User \X Time)
          /\ since' \in [User -> Time]
      BY <1>0, <1>4 DEF LimiterTypeOK
    <2>2. \A v \in User : (IF v = u THEN at ELSE IF v \in gone THEN 0 ELSE last[v]) \in Time
      BY <1>0, <1>1 DEF LimiterTypeOK, Time
    <2>3. \A v \in User : (IF v = u THEN filled - cost
                            ELSE IF v \in gone THEN 0 ELSE tokens[v]) \in 0 .. Burst
      BY <1>1, <1>2, <1>5
    <2>4. spent' \in [User -> Nat]
      BY <1>0, <1>2, <1>4 DEF LimiterTypeOK
    <2> QED
      BY <2>1, <2>2, <2>3, <2>4, <1>4 DEF LimiterTypeOK
  <1>7. Clocks'
    <2>1. \A p \in calls' : p[2] <= now' /\ now' <= p[2] + MaxSkew
      BY <1>0, <1>4 DEF Clocks
    <2>2. ASSUME NEW v \in User PROVE last'[v] <= now' /\ since'[v] <= now'
      BY <1>1, <1>4, <1>5, <1>u, <1>v
    <2> QED
      BY <2>1, <2>2 DEF Clocks
  <1>8. ASSUME NEW v \in User PROVE Budget(v)'
    <2>0. Budget(v)
      BY <1>0
    <2>1. CASE v = u
      <3>1. CASE spent[u] = 0
        BY <3>1, <2>1, <1>u, <1>1, <1>2, <1>5 DEF Budget
      <3>2. CASE u \in known /\ spent[u] + tokens[u] + since[u] <= Burst + last[u] + MaxSkew
        BY <3>2, <2>1, <1>u, <1>1, <1>2, <1>5 DEF Budget
      <3>3. CASE u \notin known /\ spent[u] + since[u] <= now
        BY <3>3, <2>1, <1>u, <1>1, <1>2, <1>5 DEF Budget
      <3> QED
        BY <2>0, <2>1, <3>1, <3>2, <3>3 DEF Budget
    <2>2. CASE v # u /\ v \in gone
      <3>1. t > last[v] + IdleAfter /\ v \in known
        BY <2>2, <1>3
      <3> QED
        BY <2>0, <2>2, <3>1, <1>v, <1>1, <1>4, <1>5 DEF Budget
    <2>3. CASE v # u /\ v \notin gone
      BY <2>0, <2>3, <1>v, <1>4 DEF Budget
    <2> QED
      BY <2>1, <2>2, <2>3
  <1>9. TokensKept'
    <2> SUFFICES ASSUME NEW v \in known'
                 PROVE  tokens'[v] + spent'[v] >=
                          Smaller(Burst, IF since'[v] < last'[v] THEN last'[v] - since'[v] ELSE 0)
      BY DEF TokensKept, Smaller
    <2>0. v \in User
      BY <1>6 DEF LimiterTypeOK
    <2>1. CASE v = u /\ u \in known
      <3>1. tokens[u] + spent[u] >=
              Smaller(Burst, IF since[u] < last[u] THEN last[u] - since[u] ELSE 0)
        BY <1>0, <2>1 DEF TokensKept
      <3> QED
        BY <3>1, <2>1, <1>u, <1>1, <1>2, <1>5 DEF Smaller
    <2>2. CASE v = u /\ u \notin known
      BY <2>2, <1>u, <1>1, <1>2, <1>5 DEF Smaller
    <2>3. CASE v # u
      <3>1. v \notin gone /\ v \in known
        BY <2>0, <2>3, <1>v
      <3> QED
        BY <2>0, <2>3, <3>1, <1>v, <1>0 DEF TokensKept
    <2> QED
      BY <2>1, <2>2, <2>3
  <1> QED
    BY <1>6, <1>7, <1>8, <1>9 DEF BucketsInv

\* Every step of the limiter keeps the invariant.
LEMMA NextBuckets == BucketsInv /\ [LimiterNext]_<<now, limiter>> => BucketsInv'
  <1> SUFFICES ASSUME BucketsInv, [LimiterNext]_<<now, limiter>>
               PROVE  BucketsInv'
    OBVIOUS
  <1>1. ASSUME NEW u \in User, ReadClock(u) PROVE BucketsInv'
    BY <1>1, ReadClockKeeps
  <1>2. ASSUME NEW u \in User, CountFromNow(u) PROVE BucketsInv'
    BY <1>2, CountFromNowKeeps
  <1>3. ASSUME NEW u \in User, NEW t \in Time, Decide(u, t) PROVE BucketsInv'
    BY <1>3, DecideKeeps
  <1>4. CASE LimiterTick
    BY <1>4, TickKeeps
  <1>5. CASE UNCHANGED <<now, limiter>>
    BY <1>5 DEF BucketsInv, LimiterTypeOK, Clocks, Budget, TokensKept, limiter
  <1> QED
    BY <1>1, <1>2, <1>3, <1>4, <1>5 DEF LimiterNext

\* From any moment on a user gets no more than a burst and the rate.
LEMMA BucketsBounded == BucketsInv => RateBounded
  <1> SUFFICES ASSUME BucketsInv, NEW u \in User
               PROVE  spent[u] <= Burst + MaxSkew + (now - since[u])
    BY DEF RateBounded
  <1>1. /\ now \in Nat /\ last[u] \in Nat /\ last[u] <= now /\ since[u] \in Nat
        /\ since[u] <= now /\ spent[u] \in Nat /\ tokens[u] \in Nat
    BY DEF BucketsInv, LimiterTypeOK, Clocks, Time
  <1> QED
    BY <1>1 DEF BucketsInv, Budget

THEOREM LimiterInvariant == LimiterSpec => []BucketsInv
  BY InitBuckets, NextBuckets, PTL DEF LimiterSpec

\* The buckets, the calls in flight and the clocks are well typed.
THEOREM LimiterTypeCorrect == LimiterSpec => []LimiterTypeOK
  <1>1. BucketsInv => LimiterTypeOK
    BY DEF BucketsInv
  <1> QED
    BY <1>1, LimiterInvariant, PTL

\* Dropping idle buckets, calls that reach the lock late and any number of
\* users notwithstanding, the rate holds from any moment on.
THEOREM RateBoundedAlways == LimiterSpec => []RateBounded
  BY BucketsBounded, LimiterInvariant, PTL

\* No user who stayed within the rate is refused.
THEOREM TokensKeptAlways == LimiterSpec => []TokensKept
  <1>1. BucketsInv => TokensKept
    BY DEF BucketsInv
  <1> QED
    BY <1>1, LimiterInvariant, PTL

-----------------------------------------------------------------------------
(***************************************************************************)
(* The pages of the channel list.                                          *)
(***************************************************************************)

USE ChannelPagesAssumption

\* While it goes on, a walk has listed the steady channels up to its cursor.
ListedToCursor ==
  walking => \A c \in steady : c \in listed <=> ~After(c)

WalkInv == PagesTypeOK /\ steady \subseteq shown /\ SteadyListedOnce /\ ListedToCursor

\* The order of the list is a strict total order of the channels.
LEMMA ListOrder ==
  ASSUME PagesTypeOK, NEW c \in Id, NEW d \in Id
  PROVE  /\ Precedes(c, d) \/ Precedes(d, c) \/ c = d
         /\ ~(Precedes(c, d) /\ Precedes(d, c))
         /\ \A e \in Id : Precedes(c, d) /\ Precedes(d, e) => Precedes(c, e)
  <1>1. /\ c \in Nat /\ d \in Nat /\ rank[c] \in Nat /\ rank[d] \in Nat
        /\ \A e \in Id : e \in Nat /\ rank[e] \in Nat
    BY DEF PagesTypeOK
  <1> QED
    BY <1>1 DEF Precedes

\* What precedes a member of the first n is one of them.
LEMMA FirstAreFirst ==
  ASSUME PagesTypeOK, NEW S, S \subseteq Id, NEW n \in Nat,
         NEW c \in First(S, n), NEW d \in S, Precedes(d, c)
  PROVE  d \in First(S, n)
  <1> DEFINE Below(e) == {f \in S : Precedes(f, e)}
  <1>1. c \in S /\ Cardinality(Below(c)) < n
    BY DEF First
  <1>2. Below(d) \subseteq Below(c)
    BY <1>1, ListOrder
  <1>3. IsFiniteSet(Below(c)) /\ IsFiniteSet(Below(d))
    BY FS_Subset
  <1>4. Cardinality(Below(d)) <= Cardinality(Below(c))
    BY <1>2, <1>3, FS_Subset
  <1>5. Cardinality(Below(d)) \in Nat /\ Cardinality(Below(c)) \in Nat
    BY <1>3, FS_CardinalityType
  <1>6. Cardinality(Below(d)) < n
    BY <1>1, <1>4, <1>5
  <1> QED
    BY <1>6 DEF First

LEMMA InitWalk == PagesInit => WalkInv
  BY DEF PagesInit, WalkInv, PagesTypeOK, SteadyListedOnce, ListedToCursor

LEMMA BeginWalkKeeps ==
  ASSUME WalkInv, BeginWalk
  PROVE  WalkInv'
  BY DEF WalkInv, BeginWalk, PagesTypeOK, SteadyListedOnce, ListedToCursor, After

\* A page moves the cursor past what it lists, and past nothing else.
LEMMA ListPageKeeps ==
  ASSUME WalkInv, NEW limit \in Limit, ListPage(limit)
  PROVE  WalkInv'
  <1> DEFINE listing == First(Rest, limit)
  <1>1. /\ walking /\ PagesTypeOK /\ steady \subseteq shown /\ SteadyListedOnce
        /\ \A c \in steady : c \in listed <=> ~After(c)
    BY DEF WalkInv, ListPage, ListedToCursor
  <1>2. PICK bottom \in listing :
          /\ \A c \in listing : ~Precedes(bottom, c)
          /\ cursor' = [rank |-> rank[bottom], id |-> bottom]
    BY DEF ListPage
  <1>3. /\ listed' = listed \cup listing /\ again' = again \cup (listed \cap listing)
        /\ UNCHANGED <<rank, shown, steady, walking>>
    BY DEF ListPage, List
  <1>4. Rest \subseteq Id /\ listing \subseteq Rest /\ limit \in Nat
    BY <1>1 DEF Rest, First, PagesTypeOK
  <1>5. bottom \in Id /\ bottom \in Nat /\ rank[bottom] \in Nat /\ After(bottom)
    BY <1>1, <1>2, <1>4 DEF Rest, PagesTypeOK
  <1>6. PagesTypeOK'
    BY <1>1, <1>2, <1>3, <1>4, <1>5 DEF PagesTypeOK, Cursor
  <1>7. cursor' # NoCursor /\ cursor'.rank = rank[bottom] /\ cursor'.id = bottom
    <2>1. DOMAIN cursor' = {"rank", "id"} /\ DOMAIN NoCursor = {"rank"}
      BY <1>2 DEF NoCursor
    <2> QED
      BY <1>2, <2>1
  <1>8. ASSUME NEW c \in steady
        PROVE  After(c)' <=> Precedes(bottom, c)
    <2>1. c \in Id /\ c \in Nat /\ rank[c] \in Nat /\ rank' = rank
      BY <1>1, <1>3 DEF PagesTypeOK
    <2> QED
      BY <1>5, <1>7, <2>1 DEF After, Precedes
  <1>9. ASSUME NEW c \in steady
        PROVE  (c \in listed' <=> ~After(c)') /\ c \notin again'
    <2>1. c \in Id /\ c \in shown /\ c \notin again
      BY <1>1 DEF PagesTypeOK, SteadyListedOnce
    <2>2. CASE c \in listing
      <3>1. After(c) /\ c \notin listed
        BY <1>1, <1>4, <2>2 DEF Rest
      <3> QED
        BY <1>2, <1>3, <1>8, <2>1, <2>2, <3>1
    <2>3. CASE c \in Rest /\ c \notin listing
      <3>1. After(c) /\ c \notin listed
        BY <1>1, <2>3 DEF Rest
      <3>2. ~Precedes(c, bottom)
        BY <1>1, <1>2, <1>4, <2>3, FirstAreFirst
      <3>3. Precedes(bottom, c)
        BY <1>1, <1>2, <1>5, <2>1, <2>3, <3>2, ListOrder
      <3> QED
        BY <1>3, <1>8, <2>1, <2>3, <3>1, <3>3
    <2>4. CASE c \notin Rest
      <3>1. ~After(c) /\ c \in listed /\ c \notin listing
        BY <1>1, <1>4, <2>1, <2>4 DEF Rest
      <3>2. ~Precedes(bottom, c)
        <4>1. /\ cursor # NoCursor /\ cursor \in Cursor
              /\ cursor.rank \in Nat /\ cursor.id \in Nat
          BY <1>1, <3>1 DEF After, PagesTypeOK, Cursor
        <4>2. c \in Nat /\ rank[c] \in Nat
          BY <1>1, <2>1 DEF PagesTypeOK
        <4> QED
          BY <1>5, <3>1, <4>1, <4>2 DEF After, Precedes
      <3> QED
        BY <1>3, <1>8, <2>1, <3>1, <3>2
    <2> QED
      BY <2>2, <2>3, <2>4
  <1> QED
    BY <1>1, <1>3, <1>6, <1>9 DEF WalkInv, SteadyListedOnce, ListedToCursor

\* The last page lists whatever is left.
LEMMA ListLastPageKeeps ==
  ASSUME WalkInv, NEW limit \in Limit, ListLastPage(limit)
  PROVE  WalkInv'
  <1>1. /\ PagesTypeOK /\ steady \subseteq shown /\ SteadyListedOnce
        /\ \A c \in steady : c \in listed <=> ~After(c)
    BY DEF WalkInv, ListLastPage, ListedToCursor
  <1>2. /\ listed' = listed \cup Rest /\ again' = again \cup (listed \cap Rest)
        /\ walking' = FALSE
        /\ UNCHANGED <<rank, shown, steady, cursor>>
    BY DEF ListLastPage, List
  <1>3. steady \cap again' = {} /\ steady \subseteq listed'
    BY <1>1, <1>2 DEF Rest, SteadyListedOnce
  <1>4. PagesTypeOK'
    BY <1>1, <1>2 DEF PagesTypeOK, Rest
  <1> QED
    BY <1>1, <1>2, <1>3, <1>4 DEF WalkInv, SteadyListedOnce, ListedToCursor

\* A channel that changes is steady no more, and the others compare as before.
LEMMA ChangeChannelKeeps ==
  ASSUME WalkInv, NEW c \in Id, NEW r \in Rank, NEW on \in BOOLEAN, ChangeChannel(c, r, on)
  PROVE  WalkInv'
  <1>1. /\ PagesTypeOK /\ steady \subseteq shown /\ SteadyListedOnce /\ ListedToCursor
        /\ rank' = [rank EXCEPT ![c] = r]
        /\ shown' = IF on THEN shown \cup {c} ELSE shown \ {c}
        /\ steady' = steady \ {c}
        /\ UNCHANGED <<cursor, walking, listed, again>>
    BY DEF WalkInv, ChangeChannel
  <1>2. PagesTypeOK'
    BY <1>1 DEF PagesTypeOK
  <1>3. \A d \in steady' : d \in steady /\ (After(d)' <=> After(d))
    BY <1>1 DEF PagesTypeOK, After
  <1> QED
    BY <1>1, <1>2, <1>3 DEF WalkInv, SteadyListedOnce, ListedToCursor

LEMMA NextWalk == WalkInv /\ [PagesNext]_pages => WalkInv'
  <1> SUFFICES ASSUME WalkInv, [PagesNext]_pages PROVE WalkInv'
    OBVIOUS
  <1>1. CASE UNCHANGED pages
    BY <1>1 DEF pages, WalkInv, PagesTypeOK, SteadyListedOnce, ListedToCursor, After
  <1> QED
    BY <1>1, BeginWalkKeeps, ListPageKeeps, ListLastPageKeeps, ChangeChannelKeeps
    DEF PagesNext

\* SteadyListedOnce for every list: paging by cursor neither skips nor repeats
\* a channel that stays where it is, whatever refreshes do to the others.
THEOREM SteadyListedOnceAlways == PagesSpec => []SteadyListedOnce
  <1>1. PagesSpec => []WalkInv
    BY InitWalk, NextWalk, PTL DEF PagesSpec
  <1>2. WalkInv => SteadyListedOnce
    BY DEF WalkInv
  <1> QED
    BY <1>1, <1>2, PTL

-----------------------------------------------------------------------------
(***************************************************************************)
(* The overrides of a channel.                                             *)
(***************************************************************************)

LEMMA InitOverrides == OverridesInit => OverridesTypeOK
  <1>1. NewRow \in Stored
    <2>1. NewRow \in [Column -> Value \cup {Null}] /\ NewRow["position"] = 0
      BY ChannelOverridesAssumption DEF NewRow, Column
    <2> QED
      BY <2>1, ChannelOverridesAssumption DEF Stored
  <1> QED
    BY <1>1 DEF OverridesInit, OverridesTypeOK

\* The drawer holds a whole row, and the row keeps a position.
LEMMA EditorTypes ==
  ASSUME OverridesTypeOK, NEW e \in Editor
  PROVE  /\ OpenEditor(e) => OverridesTypeOK'
         /\ \A c \in Column, v \in Value \cup {Null} : Touch(e, c, v) => OverridesTypeOK'
         /\ SendPatch(e) \/ CloseEditor(e) \/ Reread(e) \/ PatchFails(e) => OverridesTypeOK'
  <1>1. editor[e].pc \in {"open", "patch", "reread"} => editor[e] \in Editing
    BY DEF OverridesTypeOK, Shut
  <1>2. OpenEditor(e) => OverridesTypeOK'
    <2> SUFFICES ASSUME OpenEditor(e) PROVE OverridesTypeOK'
      OBVIOUS
    <2>1. admin \in [Column -> Value \cup {Null}]
      BY DEF OverridesTypeOK, OpenEditor, Stored
    <2>2. [pc |-> "open", touched |-> {}, set |-> admin] \in Editing
      BY <2>1 DEF Editing
    <2> QED
      BY <2>2 DEF OverridesTypeOK, OpenEditor
  <1>3. ASSUME NEW c \in Column, NEW v \in Value \cup {Null}, Touch(e, c, v)
        PROVE  OverridesTypeOK'
    <2>1. editor[e] \in Editing
      BY <1>1, <1>3 DEF Touch
    <2>2. [editor[e] EXCEPT !.touched = @ \cup {c}, !.set[c] = v] \in Editing
      BY <2>1 DEF Editing
    <2> QED
      BY <1>3, <2>2 DEF OverridesTypeOK, Touch
  <1>4. ASSUME SendPatch(e) \/ PatchFails(e)
        PROVE  OverridesTypeOK'
    <2>1. editor[e] \in Editing
      BY <1>1, <1>4 DEF SendPatch, PatchFails
    <2>2. /\ [editor[e] EXCEPT !.pc = "patch"] \in Editing
          /\ [editor[e] EXCEPT !.pc = "open"] \in Editing
      BY <2>1 DEF Editing
    <2> QED
      BY <1>4, <2>2 DEF OverridesTypeOK, SendPatch, PatchFails
  <1>5. CloseEditor(e) \/ Reread(e) => OverridesTypeOK'
    BY DEF OverridesTypeOK, CloseEditor, Reread
  <1> QED
    BY <1>2, <1>3, <1>4, <1>5

LEMMA PatchTypes ==
  ASSUME OverridesTypeOK, NEW e \in Editor, PatchChannel(e)
  PROVE  OverridesTypeOK'
  <1>1. editor[e] \in Editing
    BY DEF OverridesTypeOK, Shut, PatchChannel
  <1>2. /\ editor[e].set \in [Column -> Value \cup {Null}]
        /\ [editor[e] EXCEPT !.pc = "reread"] \in Editing
    BY <1>1 DEF Editing
  <1>3. admin \in Stored
    BY DEF OverridesTypeOK, PatchChannel
  <1>4. admin' \in [Column -> Value \cup {Null}]
    BY <1>2, <1>3, ChannelOverridesAssumption DEF PatchChannel, Stored
  <1>5. admin'["position"] # Null
    BY <1>2, <1>3, ChannelOverridesAssumption DEF PatchChannel, Stored, Column
  <1>6. admin' \in Stored
    BY <1>4, <1>5 DEF Stored
  <1> QED
    BY <1>2, <1>6 DEF OverridesTypeOK, PatchChannel

LEMMA NextOverrides == OverridesTypeOK /\ [OverridesNext]_overrides => OverridesTypeOK'
  <1> SUFFICES ASSUME OverridesTypeOK, [OverridesNext]_overrides PROVE OverridesTypeOK'
    OBVIOUS
  <1>1. ASSUME NEW values \in [Override -> Value], WriteSourceColumns(values)
        PROVE  OverridesTypeOK'
    BY <1>1 DEF OverridesTypeOK, WriteSourceColumns
  <1>2. ASSUME NEW values \in [Override -> Value], InsertRow(values)
        PROVE  OverridesTypeOK'
    <2>1. NewRow \in [Column -> Value \cup {Null}] /\ NewRow["position"] = 0
      BY ChannelOverridesAssumption DEF NewRow, Column
    <2>2. NewRow \in Stored
      BY <2>1, ChannelOverridesAssumption DEF Stored
    <2> QED
      BY <1>2, <2>2 DEF OverridesTypeOK, InsertRow
  <1>3. CASE DropRow
    BY <1>3 DEF OverridesTypeOK, DropRow
  <1>4. CASE UNCHANGED overrides
    BY <1>4 DEF OverridesTypeOK, overrides
  <1> QED
    BY <1>1, <1>2, <1>3, <1>4, EditorTypes, PatchTypes DEF OverridesNext

\* The rows and the drawers are well typed; in particular no row is left
\* without a position.
THEOREM OverridesTypeCorrect == OverridesSpec => []OverridesTypeOK
  BY InitOverrides, NextOverrides, PTL DEF OverridesSpec

\* DecisionsStand for any number of drawers, columns and values: a refresh and
\* the PATCH of other columns leave what an administrator set.
THEOREM DecisionsStandAlways == OverridesSpec => DecisionsStand
  <1> DEFINE Step == \A c \in Override :
               admin # Dropped /\ admin' # Dropped /\ Effective(c)' # Effective(c)
                 => \/ admin[c] = Null /\ src' # src
                    \/ \E e \in Editor :
                         /\ editor[e].pc = "patch" /\ c \in editor[e].touched
                         /\ admin'[c] = editor[e].set[c]
  <1>1. [OverridesNext]_overrides => Step
    <2> SUFFICES ASSUME [OverridesNext]_overrides, NEW c \in Override,
                        admin # Dropped, admin' # Dropped, Effective(c)' # Effective(c)
                 PROVE  \/ admin[c] = Null /\ src' # src
                        \/ \E e \in Editor :
                             /\ editor[e].pc = "patch" /\ c \in editor[e].touched
                             /\ admin'[c] = editor[e].set[c]
      OBVIOUS
    <2>1. CASE admin' = admin
      BY <2>1 DEF Effective
    <2>2. ASSUME NEW e \in Editor, PatchChannel(e)
          PROVE  /\ editor[e].pc = "patch" /\ c \in editor[e].touched
                 /\ admin'[c] = editor[e].set[c]
      <3>1. c \in Column /\ c # "position"
        BY ChannelOverridesAssumption DEF Column
      <3>2. admin'[c] = IF c \notin editor[e].touched THEN admin[c] ELSE editor[e].set[c]
        BY <2>2, <3>1 DEF PatchChannel
      <3> QED
        BY <2>2, <3>2 DEF PatchChannel, Effective
    <2> QED
      BY <2>1, <2>2
      DEF OverridesNext, OpenEditor, Touch, SendPatch, CloseEditor, Reread, PatchFails,
          WriteSourceColumns, InsertRow, DropRow, overrides
  <1> QED
    BY <1>1, PTL DEF OverridesSpec, DecisionsStand

-----------------------------------------------------------------------------
(***************************************************************************)
(* The current and the next programme.                                     *)
(***************************************************************************)

\* Between the two queries the answer holds what had begun by then, and
\* nothing that is to come.
BegunByNow ==
  /\ badge.pc = "current" => badge.current = Nothing
  /\ badge.pc # "shown" => badge.next = Nothing
  /\ badge.pc = "next" /\ badge.current # Nothing => badge.current.start <= now

TilesInv == TilesTypeOK /\ BegunByNow /\ NextComesAfter

LEMMA InitTiles == TilesInit => TilesInv
  BY HorizonAssumption
  DEF TilesInit, TilesInv, TilesTypeOK, BegunByNow, NextComesAfter, Asking, Time

LEMMA ReadCurrentKeeps ==
  ASSUME TilesInv, ReadCurrent
  PROVE  TilesInv'
  <1> DEFINE Badges == [pc: {"current", "next", "shown"},
                        current: Show \cup {Nothing}, next: Show \cup {Nothing}]
  <1>1. /\ badge \in Badges /\ badge.pc = "current" /\ badge.next = Nothing
        /\ badge.current = Nothing
    BY DEF TilesInv, TilesTypeOK, BegunByNow, ReadCurrent
  <1>2. CASE badge' = [badge EXCEPT !.pc = "next"] /\ OnAir = {}
    <2>1. /\ badge' \in Badges /\ badge'.pc = "next" /\ badge'.next = Nothing
          /\ badge'.current = badge.current
      BY <1>1, <1>2
    <2> QED
      BY <1>1, <2>1 DEF TilesInv, TilesTypeOK, BegunByNow, NextComesAfter, ReadCurrent
  <1>3. ASSUME NEW p \in OnAir, badge' = [badge EXCEPT !.pc = "next", !.current = p]
        PROVE  TilesInv'
    <2>1. p \in Show /\ p.start <= now
      BY DEF OnAir, TilesInv, TilesTypeOK
    <2>2. /\ badge' \in Badges /\ badge'.pc = "next" /\ badge'.next = Nothing
          /\ badge'.current = p
      BY <1>1, <1>3, <2>1
    <2> QED
      BY <2>1, <2>2 DEF TilesInv, TilesTypeOK, BegunByNow, NextComesAfter, ReadCurrent
  <1> QED
    BY <1>2, <1>3 DEF ReadCurrent

LEMMA ReadNextKeeps ==
  ASSUME TilesInv, ReadNext
  PROVE  TilesInv'
  <1> DEFINE Badges == [pc: {"current", "next", "shown"},
                        current: Show \cup {Nothing}, next: Show \cup {Nothing}]
  <1>1. badge \in Badges /\ badge.pc = "next" /\ badge.next = Nothing
    BY DEF TilesInv, TilesTypeOK, BegunByNow, ReadNext
  <1>2. CASE badge' = [badge EXCEPT !.pc = "shown"] /\ ToCome = {}
    <2>1. /\ badge' \in Badges /\ badge'.pc = "shown" /\ badge'.next = Nothing
      BY <1>1, <1>2
    <2> QED
      BY <2>1 DEF TilesInv, TilesTypeOK, BegunByNow, NextComesAfter, ReadNext
  <1>3. ASSUME NEW p \in ToCome, badge' = [badge EXCEPT !.pc = "shown", !.next = p]
        PROVE  TilesInv'
    <2>1. p \in Show /\ p.start > now
      BY DEF ToCome, TilesInv, TilesTypeOK
    <2>2. /\ badge' \in Badges /\ badge'.pc = "shown" /\ badge'.next = p
          /\ badge'.current = badge.current
      BY <1>1, <1>3, <2>1
    <2>3. badge.current # Nothing => badge.current.start < p.start
      <3>1. badge.current # Nothing => badge.current \in Show /\ badge.current.start <= now
        BY <1>1 DEF TilesInv, BegunByNow
      <3>2. now \in Nat
        BY DEF TilesInv, TilesTypeOK, Time
      <3> QED
        BY <2>1, <3>1, <3>2, NowAndNextAssumption
    <2> QED
      BY <2>2, <2>3 DEF TilesInv, TilesTypeOK, BegunByNow, NextComesAfter, ReadNext
  <1> QED
    BY <1>2, <1>3 DEF ReadNext

LEMMA NextTiles == TilesInv /\ [TilesNext]_tilesVars => TilesInv'
  <1> SUFFICES ASSUME TilesInv, [TilesNext]_tilesVars PROVE TilesInv'
    OBVIOUS
  <1>1. CASE AskAgain
    BY <1>1 DEF TilesInv, TilesTypeOK, BegunByNow, NextComesAfter, AskAgain, Asking
  <1>2. ASSUME NEW coming \in SUBSET Show, ReplaceFuture(coming)
        PROVE  TilesInv'
    BY <1>2 DEF TilesInv, TilesTypeOK, BegunByNow, NextComesAfter, ReplaceFuture
  <1>3. CASE PruneOver
    BY <1>3 DEF TilesInv, TilesTypeOK, BegunByNow, NextComesAfter, PruneOver
  <1>4. CASE TilesTick
    <2>1. now \in Nat /\ now' = now + 1 /\ now' \in Time /\ badge' = badge
      BY <1>4, HorizonAssumption DEF TilesTick, TilesInv, TilesTypeOK, tiles, Time
    <2>2. badge.pc = "next" /\ badge.current # Nothing =>
            badge.current.start \in Nat /\ badge.current.start <= now
      BY NowAndNextAssumption DEF TilesInv, TilesTypeOK, BegunByNow
    <2> QED
      BY <1>4, <2>1, <2>2
      DEF TilesInv, TilesTypeOK, BegunByNow, NextComesAfter, TilesTick, tiles
  <1>5. CASE UNCHANGED tilesVars
    BY <1>5 DEF TilesInv, TilesTypeOK, BegunByNow, NextComesAfter, tilesVars, tiles
  <1> QED
    BY <1>1, <1>2, <1>3, <1>4, <1>5, ReadCurrentKeeps, ReadNextKeeps DEF TilesNext

THEOREM TilesTypeCorrect == TilesSpec => []TilesTypeOK
  <1>1. TilesInv => TilesTypeOK
    BY DEF TilesInv
  <1> QED
    BY <1>1, InitTiles, NextTiles, PTL DEF TilesSpec

\* NextComesAfter for any programmes: the second query never answers with
\* something that began before what the first one found.
THEOREM NextComesAfterAlways == TilesSpec => []NextComesAfter
  <1>1. TilesInv => NextComesAfter
    BY DEF TilesInv
  <1> QED
    BY <1>1, InitTiles, NextTiles, PTL DEF TilesSpec

-----------------------------------------------------------------------------
(***************************************************************************)
(* The playlist cache.                                                     *)
(***************************************************************************)

\* A handler that is under way began not long ago, and the row had the URL that
\* it read until then at least.
PollInv(v) ==
  viewer[v].pc \in {"get", "fetch", "set"} =>
    /\ viewer[v].since <= now /\ now <= viewer[v].since + MaxFetch
    /\ viewer[v].base = upstreamUrl \/ viewer[v].since <= moved
    /\ viewer[v].pc = "set" => /\ viewer[v].body.url = viewer[v].base
                               /\ viewer[v].since <= viewer[v].body.at
                               /\ viewer[v].body.at <= now

\* What is cached expires before long after the channel has moved, and no
\* player has a playlist that is much newer.
CacheInv ==
  playlistCache # NoPlaylist =>
    /\ PlaylistTTL # 0
    /\ playlistCache.expiry <= now + PlaylistTTL
    /\ playlistCache.body.at <= now
    /\ \/ playlistCache.body.url = upstreamUrl
       \/ playlistCache.expiry <= moved + PlaylistTTL + MaxFetch
    /\ \A v \in Viewer : screen[v].body.at <= playlistCache.body.at + MaxFetch

HlsInv ==
  /\ HlsTypeOK
  /\ moved <= now /\ \A v \in Viewer : screen[v].body.at <= now
  /\ \A v \in Viewer : PollInv(v)
  /\ CacheInv

\* The locals of a handler.
LEMMA PollLocals ==
  ASSUME HlsTypeOK, NEW v \in Viewer
  PROVE  /\ viewer[v].pc \in {"get", "fetch"} => viewer[v] \in Polling
         /\ viewer[v].pc = "set" => viewer[v] \in Filling
         /\ viewer[v] # Watching => viewer[v].pc \in {"get", "fetch", "set"}
         /\ viewer[v].pc \in {"get", "fetch", "set"} =>
              viewer[v].base \in Upstream /\ viewer[v].since \in Time
  BY DEF HlsTypeOK, Polling, Filling, Watching

\* The numbers of the cache and the screens.
LEMMA HlsNumbers ==
  ASSUME HlsTypeOK
  PROVE  /\ now \in Nat /\ now <= Horizon /\ moved \in Nat
         /\ playlistCache # NoPlaylist =>
              /\ playlistCache \in CachedPlaylist
              /\ playlistCache.expiry \in Nat /\ playlistCache.body.at \in Nat
         /\ \A v \in Viewer : screen[v].body.at \in Nat
         /\ \A v \in Viewer : viewer[v].pc \in {"get", "fetch", "set"} =>
              viewer[v].since \in Nat
         /\ \A v \in Viewer : viewer[v].pc = "set" => viewer[v].body.at \in Nat
  <1>1. now \in Time /\ moved \in Time
    BY DEF HlsTypeOK
  <1>2. playlistCache # NoPlaylist =>
          /\ playlistCache \in CachedPlaylist
          /\ playlistCache.expiry \in 0 .. Horizon + PlaylistTTL
          /\ playlistCache.body.at \in Time
    BY DEF HlsTypeOK, CachedPlaylist, Playlist
  <1>3. \A v \in Viewer : screen[v].body.at \in Time
    BY DEF HlsTypeOK, Playlist
  <1>4. \A v \in Viewer : /\ viewer[v].pc \in {"get", "fetch", "set"} => viewer[v].since \in Time
                          /\ viewer[v].pc = "set" => viewer[v].body.at \in Time
    BY PollLocals DEF Filling, Playlist
  <1> QED
    BY <1>1, <1>2, <1>3, <1>4 DEF Time

LEMMA InitHls == HlsInit => HlsInv
  <1> SUFFICES ASSUME HlsInit PROVE HlsInv
    OBVIOUS
  <1>1. 0 \in Time
    BY HorizonAssumption DEF Time
  <1>2. HlsTypeOK
    <2>1. [base |-> upstreamUrl, body |-> [url |-> upstreamUrl, at |-> 0]]
            \in [base: Upstream, body: Playlist]
      BY <1>1 DEF HlsInit, Playlist
    <2> QED
      BY <1>1, <2>1 DEF HlsInit, HlsTypeOK
  <1>3. \A v \in Viewer : screen[v].body.at = 0
    BY DEF HlsInit
  <1>4. \A v \in Viewer : viewer[v].pc \notin {"get", "fetch", "set"}
    BY DEF HlsInit, Watching
  <1> QED
    BY <1>1, <1>2, <1>3, <1>4 DEF HlsInit, HlsInv, PollInv, CacheInv

\* One handler moves, the others stay.
LEMMA OneHandler ==
  ASSUME HlsInv, NEW v \in Viewer, NEW w,
         viewer' = [viewer EXCEPT ![v] = w],
         UNCHANGED <<now, upstreamUrl, moved>>,
         PollInv(v)'
  PROVE  \A u \in Viewer : PollInv(u)'
  <1>1. \A u \in Viewer \ {v} : viewer'[u] = viewer[u]
    BY DEF HlsInv, HlsTypeOK
  <1> QED
    BY <1>1 DEF HlsInv, PollInv

LEMMA PollKeeps ==
  ASSUME HlsInv, NEW v \in Viewer, Poll(v)
  PROVE  HlsInv'
  <1> DEFINE w == [pc |-> "get", base |-> upstreamUrl, since |-> now]
  <1>1. w \in Polling /\ w.pc = "get" /\ w.base = upstreamUrl /\ w.since = now
    BY DEF HlsInv, HlsTypeOK, Polling
  <1>2. viewer' = [viewer EXCEPT ![v] = w]
    BY DEF Poll
  <1> HIDE DEF w
  <1>3. HlsTypeOK'
    BY <1>1, <1>2 DEF HlsInv, HlsTypeOK, Poll
  <1>4. viewer'[v] = w
    BY <1>2 DEF HlsInv, HlsTypeOK
  <1>5. PollInv(v)'
    <2>1. now \in Nat
      BY HlsNumbers DEF HlsInv
    <2> QED
      BY <1>1, <1>4, <2>1, PlaylistCacheAssumption DEF PollInv, Poll
  <1>6. \A u \in Viewer : PollInv(u)'
    BY <1>2, <1>5, OneHandler DEF Poll
  <1> QED
    BY <1>3, <1>6 DEF HlsInv, CacheInv, Poll

\* What a handler that rewrites does to the screens.
LEMMA RewriteSteps ==
  ASSUME HlsTypeOK, NEW v \in Viewer, NEW body \in Playlist, Rewrite(v, body),
         viewer[v].base \in Upstream
  PROVE  /\ screen' \in [Viewer -> [base: Upstream, body: Playlist]]
         /\ \A u \in Viewer :
              \/ screen'[u] = screen[u]
              \/ u = v /\ screen'[v].base = viewer[v].base /\ screen'[v].body = body
         /\ viewer' \in [Viewer -> Polling \cup Filling \cup {Watching}]
         /\ viewer'[v] = Watching
  <1> DEFINE new == [base |-> viewer[v].base, body |-> body]
  <1>1. /\ new \in [base: Upstream, body: Playlist]
        /\ new.base = viewer[v].base /\ new.body = body
    OBVIOUS
  <1>2. screen' = [screen EXCEPT ![v] = new] \/ screen' = screen
    BY DEF Rewrite
  <1> HIDE DEF new
  <1>3. \A u \in Viewer : screen'[u] = screen[u] \/ (u = v /\ screen'[v] = new)
    BY <1>2 DEF HlsTypeOK
  <1>4. screen' \in [Viewer -> [base: Upstream, body: Playlist]]
    BY <1>1, <1>2 DEF HlsTypeOK
  <1>5. /\ viewer' \in [Viewer -> Polling \cup Filling \cup {Watching}]
        /\ viewer'[v] = Watching
    BY DEF HlsTypeOK, Rewrite
  <1> QED
    BY <1>1, <1>3, <1>4, <1>5

LEMMA ServeCachedKeeps ==
  ASSUME HlsInv, NEW v \in Viewer, ServeCached(v)
  PROVE  HlsInv'
  <1> DEFINE body == playlistCache.body
  <1>1. /\ HlsTypeOK /\ viewer[v].base \in Upstream /\ playlistCache # NoPlaylist
        /\ Rewrite(v, body) /\ UNCHANGED <<now, upstreamUrl, moved, playlistCache>>
    BY PollLocals DEF HlsInv, ServeCached, FreshPlaylist
  <1>2. body \in Playlist /\ body.at \in Nat /\ body.at <= now
    BY <1>1, HlsNumbers DEF CachedPlaylist, HlsInv, CacheInv
  <1>3. /\ screen' \in [Viewer -> [base: Upstream, body: Playlist]]
        /\ \A u \in Viewer : screen'[u] = screen[u] \/ screen'[u].body = body
        /\ viewer' \in [Viewer -> Polling \cup Filling \cup {Watching}]
        /\ viewer'[v] = Watching
    BY <1>1, <1>2, RewriteSteps
  <1>4. HlsTypeOK'
    BY <1>1, <1>3 DEF HlsTypeOK
  <1>5. \A u \in Viewer : PollInv(u)'
    BY <1>1, <1>3, OneHandler DEF PollInv, Watching, Rewrite
  <1>6. \A u \in Viewer : screen'[u].body.at <= now'
    BY <1>1, <1>2, <1>3 DEF HlsInv
  <1>7. CacheInv'
    <2>1. \A u \in Viewer : screen'[u].body.at <= body.at + MaxFetch
      BY <1>1, <1>2, <1>3, PlaylistCacheAssumption DEF HlsInv, CacheInv
    <2> QED
      BY <1>1, <2>1 DEF HlsInv, CacheInv
  <1> QED
    BY <1>1, <1>4, <1>5, <1>6, <1>7 DEF HlsInv

LEMMA MissPlaylistKeeps ==
  ASSUME HlsInv, NEW v \in Viewer, MissPlaylist(v)
  PROVE  HlsInv'
  <1>1. HlsTypeOK /\ viewer[v] \in Polling
    BY PollLocals DEF HlsInv, MissPlaylist
  <1> DEFINE w == [viewer[v] EXCEPT !.pc = "fetch"]
  <1>2. /\ w \in Polling /\ w.pc = "fetch" /\ w.base = viewer[v].base
        /\ w.since = viewer[v].since
    BY <1>1 DEF Polling
  <1>3. viewer' = [viewer EXCEPT ![v] = w]
    BY DEF MissPlaylist
  <1> HIDE DEF w
  <1>4. HlsTypeOK'
    BY <1>1, <1>2, <1>3 DEF HlsTypeOK, MissPlaylist
  <1>5. viewer'[v] = w
    BY <1>1, <1>3 DEF HlsTypeOK
  <1>6. \A u \in Viewer : PollInv(u)'
    <2>1. PollInv(v)'
      BY <1>2, <1>5 DEF HlsInv, PollInv, MissPlaylist
    <2> QED
      BY <1>3, <2>1, OneHandler DEF MissPlaylist
  <1> QED
    BY <1>4, <1>6 DEF HlsInv, CacheInv, MissPlaylist

LEMMA FetchBodyKeeps ==
  ASSUME HlsInv, NEW v \in Viewer, FetchBody(v)
  PROVE  HlsInv'
  <1>1. HlsTypeOK /\ viewer[v] \in Polling
    BY PollLocals DEF HlsInv, FetchBody
  <1> DEFINE body == [url |-> viewer[v].base, at |-> now]
             w == [pc |-> "set", base |-> viewer[v].base, since |-> viewer[v].since,
                   body |-> body]
  <1>2. /\ w \in Filling /\ w.pc = "set" /\ w.base = viewer[v].base
        /\ w.since = viewer[v].since /\ w.body.url = viewer[v].base /\ w.body.at = now
    BY <1>1 DEF Filling, Polling, Playlist, HlsTypeOK
  <1>3. viewer' = [viewer EXCEPT ![v] = w]
    BY DEF FetchBody
  <1> HIDE DEF w
  <1>4. HlsTypeOK'
    BY <1>1, <1>2, <1>3 DEF HlsTypeOK, FetchBody
  <1>5. viewer'[v] = w
    BY <1>1, <1>3 DEF HlsTypeOK
  <1>6. \A u \in Viewer : PollInv(u)'
    <2>1. now \in Nat
      BY <1>1, HlsNumbers
    <2>2. PollInv(v)'
      BY <1>2, <1>5, <2>1 DEF HlsInv, PollInv, FetchBody
    <2> QED
      BY <1>3, <2>2, OneHandler DEF FetchBody
  <1> QED
    BY <1>4, <1>6 DEF HlsInv, CacheInv, FetchBody

LEMMA FetchBodyFailsKeeps ==
  ASSUME HlsInv, NEW v \in Viewer, FetchBodyFails(v)
  PROVE  HlsInv'
  <1>1. HlsTypeOK'
    BY DEF HlsInv, HlsTypeOK, FetchBodyFails
  <1>2. viewer'[v] = Watching
    BY DEF HlsInv, HlsTypeOK, FetchBodyFails
  <1>3. PollInv(v)'
    BY <1>2 DEF PollInv, Watching
  <1>4. \A u \in Viewer : PollInv(u)'
    BY <1>3, OneHandler DEF FetchBodyFails
  <1> QED
    BY <1>1, <1>4 DEF HlsInv, CacheInv, FetchBodyFails

\* What a handler stores was read after it began, so no player has anything
\* that is newer by more than MaxFetch, and the row has had another URL only
\* since it began.
LEMMA StoreBodyKeeps ==
  ASSUME HlsInv, NEW v \in Viewer, StoreBody(v)
  PROVE  HlsInv'
  <1> DEFINE body == viewer[v].body
             entry == [expiry |-> now + PlaylistTTL, body |-> body]
  <1>1. /\ HlsTypeOK /\ viewer[v] \in Filling /\ viewer[v].pc = "set"
        /\ viewer[v].base \in Upstream /\ PollInv(v)
        /\ Rewrite(v, body) /\ UNCHANGED <<now, upstreamUrl, moved>>
        /\ playlistCache' = IF PlaylistTTL = 0 THEN playlistCache ELSE entry
    BY PollLocals DEF HlsInv, StoreBody
  <1>2. /\ body \in Playlist /\ body.at \in Nat /\ body.at <= now
        /\ now <= body.at + MaxFetch /\ body.url = viewer[v].base
        /\ now <= viewer[v].since + MaxFetch
        /\ viewer[v].base = upstreamUrl \/ viewer[v].since <= moved
        /\ now \in Nat /\ now <= Horizon /\ moved \in Nat /\ viewer[v].since \in Nat
    <2>1. body \in Playlist
      BY <1>1 DEF Filling
    <2> QED
      BY <1>1, <2>1, HlsNumbers, PlaylistCacheAssumption DEF PollInv
  <1>3. /\ screen' \in [Viewer -> [base: Upstream, body: Playlist]]
        /\ \A u \in Viewer : screen'[u] = screen[u] \/ screen'[u].body = body
        /\ viewer' \in [Viewer -> Polling \cup Filling \cup {Watching}]
        /\ viewer'[v] = Watching
    BY <1>1, <1>2, RewriteSteps
  <1>4. /\ entry \in CachedPlaylist /\ entry.expiry = now + PlaylistTTL
        /\ entry.body = body
    BY <1>2, HorizonAssumption, PlaylistCacheAssumption DEF CachedPlaylist
  <1> HIDE DEF entry
  <1>5. HlsTypeOK'
    BY <1>1, <1>3, <1>4 DEF HlsTypeOK
  <1>6. \A u \in Viewer : PollInv(u)'
    BY <1>1, <1>3, OneHandler DEF PollInv, Watching, Rewrite
  <1>7. \A u \in Viewer : screen'[u].body.at \in Nat /\ screen'[u].body.at <= now
    BY <1>1, <1>2, <1>3, HlsNumbers DEF HlsInv
  <1>8. CacheInv'
    <2>1. CASE PlaylistTTL = 0
      BY <1>1, <2>1 DEF HlsInv, CacheInv
    <2>2. CASE PlaylistTTL # 0
      <3>1. /\ playlistCache' = entry /\ entry.body.at <= now
            /\ entry.body.url = viewer[v].base
        BY <1>1, <1>2, <1>4, <2>2
      <3>2. viewer[v].base # upstreamUrl =>
              entry.expiry <= moved + PlaylistTTL + MaxFetch
        BY <1>2, <1>4, PlaylistCacheAssumption
      <3>3. \A u \in Viewer : screen'[u].body.at <= entry.body.at + MaxFetch
        BY <1>2, <1>4, <1>7, PlaylistCacheAssumption
      <3> QED
        BY <1>1, <1>2, <1>4, <2>2, <3>1, <3>2, <3>3, PlaylistCacheAssumption DEF CacheInv
    <2> QED
      BY <2>1, <2>2
  <1> QED
    BY <1>1, <1>5, <1>6, <1>7, <1>8 DEF HlsInv

LEMMA MoveChannelKeeps ==
  ASSUME HlsInv, NEW u \in Upstream, MoveChannel(u)
  PROVE  HlsInv'
  <1>1. HlsTypeOK /\ UNCHANGED <<now, playlistCache, viewer, screen>> /\ moved' = now
    BY DEF HlsInv, MoveChannel
  <1>2. HlsTypeOK'
    BY <1>1 DEF HlsTypeOK, MoveChannel
  <1>3. now \in Nat
    BY <1>1, HlsNumbers
  <1>4. \A v \in Viewer : PollInv(v)'
    BY <1>1 DEF HlsInv, PollInv
  <1>5. CacheInv'
    BY <1>1, <1>3, HlsNumbers, PlaylistCacheAssumption DEF HlsInv, CacheInv
  <1> QED
    BY <1>1, <1>2, <1>3, <1>4, <1>5 DEF HlsInv

LEMMA HlsTickKeeps ==
  ASSUME HlsInv, HlsTick
  PROVE  HlsInv'
  <1>1. /\ HlsTypeOK /\ now' = now + 1 /\ now < Horizon
        /\ UNCHANGED <<upstreamUrl, moved, playlistCache, viewer, screen>>
    BY DEF HlsInv, HlsTick, hls
  <1>2. HlsTypeOK'
    BY <1>1, HorizonAssumption DEF HlsTypeOK, Time
  <1>3. \A v \in Viewer : PollInv(v)'
    <2> SUFFICES ASSUME NEW v \in Viewer, viewer[v].pc \in {"get", "fetch", "set"}
                 PROVE  PollInv(v)'
      BY <1>1 DEF PollInv
    <2>1. now < viewer[v].since + MaxFetch
      BY DEF HlsTick, Watching
    <2>2. /\ now \in Nat /\ viewer[v].since \in Nat
          /\ viewer[v].pc = "set" => viewer[v].body.at \in Nat
      BY <1>1, HlsNumbers
    <2> QED
      BY <1>1, <2>1, <2>2, PlaylistCacheAssumption DEF HlsInv, PollInv
  <1>4. CacheInv'
    BY <1>1, HlsNumbers, PlaylistCacheAssumption DEF HlsInv, CacheInv
  <1>5. moved' <= now' /\ \A v \in Viewer : screen'[v].body.at <= now'
    BY <1>1, HlsNumbers DEF HlsInv
  <1> QED
    BY <1>2, <1>3, <1>4, <1>5 DEF HlsInv

LEMMA NextHls == HlsInv /\ [HlsNext]_hlsVars => HlsInv'
  <1> SUFFICES ASSUME HlsInv, [HlsNext]_hlsVars PROVE HlsInv'
    OBVIOUS
  <1>1. CASE HlsRestart
    <2>1. HlsTypeOK'
      BY <1>1 DEF HlsInv, HlsTypeOK, HlsRestart
    <2> QED
      BY <1>1, <2>1 DEF HlsInv, HlsRestart, PollInv, CacheInv, Watching
  <1>2. CASE UNCHANGED hlsVars
    BY <1>2 DEF hlsVars, hls, HlsInv, HlsTypeOK, PollInv, CacheInv
  <1> QED
    BY <1>1, <1>2, PollKeeps, ServeCachedKeeps, MissPlaylistKeeps, FetchBodyKeeps,
       FetchBodyFailsKeeps, StoreBodyKeeps, MoveChannelKeeps, HlsTickKeeps DEF HlsNext

LEMMA HlsHolds == HlsSpec => []HlsInv
  BY InitHls, NextHls, PTL DEF HlsSpec

THEOREM HlsTypeCorrect == HlsSpec => []HlsTypeOK
  <1>1. HlsInv => HlsTypeOK
    BY DEF HlsInv
  <1> QED
    BY <1>1, HlsHolds, PTL

\* Only a handler that serves what is cached, or what it fetched, changes a
\* screen.
LEMMA ScreenSteps ==
  ASSUME HlsInv, [HlsNext]_hlsVars, NEW v \in Viewer, screen'[v] # screen[v]
  PROVE  \/ /\ ServeCached(v)
            /\ screen'[v].base = viewer[v].base /\ screen'[v].body = playlistCache.body
         \/ /\ StoreBody(v)
            /\ screen'[v].base = viewer[v].base /\ screen'[v].body = viewer[v].body
  <1>1. HlsTypeOK
    BY DEF HlsInv
  <1>2. PICK u \in Viewer : ServeCached(u) \/ StoreBody(u)
    BY DEF HlsNext, Poll, MissPlaylist, FetchBody, FetchBodyFails, MoveChannel, HlsTick,
       HlsRestart, hlsVars, hls
  <1>3. ASSUME ServeCached(u)
        PROVE  u = v /\ screen'[v].base = viewer[v].base
                 /\ screen'[v].body = playlistCache.body
    <2>1. playlistCache.body \in Playlist /\ viewer[u].base \in Upstream
      BY <1>1, <1>3, HlsNumbers, PollLocals DEF ServeCached, FreshPlaylist, CachedPlaylist
    <2> QED
      BY <1>1, <1>3, <2>1, RewriteSteps DEF ServeCached
  <1>4. ASSUME StoreBody(u)
        PROVE  u = v /\ screen'[v].base = viewer[v].base /\ screen'[v].body = viewer[v].body
    <2>1. viewer[u].body \in Playlist /\ viewer[u].base \in Upstream
      BY <1>1, <1>4, PollLocals DEF StoreBody, Filling
    <2> QED
      BY <1>1, <1>4, <2>1, RewriteSteps DEF StoreBody
  <1> QED
    BY <1>2, <1>3, <1>4

\* MixedOnlyBriefly for any number of players and any lifetime of the cache.
THEOREM MixedOnlyBrieflyAlways == HlsSpec => MixedOnlyBriefly
  <1> DEFINE Step == \A v \in Viewer :
               screen'[v] # screen[v] /\ screen'[v].base # screen'[v].body.url
                 => now <= moved + PlaylistTTL + MaxFetch
  <1>1. HlsInv /\ [HlsNext]_hlsVars => Step
    <2> SUFFICES ASSUME HlsInv, [HlsNext]_hlsVars, NEW v \in Viewer,
                        screen'[v] # screen[v], screen'[v].base # screen'[v].body.url
                 PROVE  now <= moved + PlaylistTTL + MaxFetch
      OBVIOUS
    <2>1. ~StoreBody(v)
      BY ScreenSteps DEF HlsInv, PollInv, StoreBody, ServeCached
    <2>2. ServeCached(v) /\ viewer[v].base # playlistCache.body.url
      BY <2>1, ScreenSteps
    <2>3. /\ now <= playlistCache.expiry /\ playlistCache # NoPlaylist
          /\ now <= viewer[v].since + MaxFetch
          /\ viewer[v].base = upstreamUrl \/ viewer[v].since <= moved
          /\ \/ playlistCache.body.url = upstreamUrl
             \/ playlistCache.expiry <= moved + PlaylistTTL + MaxFetch
      BY <2>2 DEF ServeCached, FreshPlaylist, HlsInv, PollInv, CacheInv
    <2>4. now \in Nat /\ moved \in Nat /\ viewer[v].since \in Nat
          /\ playlistCache.expiry \in Nat
      BY <2>2, <2>3, HlsNumbers DEF HlsInv, ServeCached
    <2> QED
      BY <2>2, <2>3, <2>4, PlaylistCacheAssumption
  <1> QED
    BY <1>1, HlsHolds, PTL DEF HlsSpec, MixedOnlyBriefly

\* NeverFarBack for any number of players and any lifetime of the cache.
THEOREM NeverFarBackAlways == HlsSpec => NeverFarBack
  <1> DEFINE Step == \A v \in Viewer :
               screen'[v].body.at + MaxFetch >= screen[v].body.at
  <1>1. HlsInv /\ [HlsNext]_hlsVars => Step
    <2> SUFFICES ASSUME HlsInv, [HlsNext]_hlsVars, NEW v \in Viewer
                 PROVE  screen'[v].body.at + MaxFetch >= screen[v].body.at
      OBVIOUS
    <2>1. HlsTypeOK /\ screen[v].body.at \in Nat /\ now \in Nat
      BY HlsNumbers DEF HlsInv
    <2>2. CASE screen'[v] = screen[v]
      BY <2>1, <2>2, PlaylistCacheAssumption
    <2>3. CASE ServeCached(v) /\ screen'[v].body = playlistCache.body
      BY <2>3 DEF ServeCached, FreshPlaylist, HlsInv, CacheInv
    <2>4. CASE StoreBody(v) /\ screen'[v].body = viewer[v].body
      <3>1. /\ screen[v].body.at <= now /\ now <= viewer[v].since + MaxFetch
            /\ viewer[v].since <= viewer[v].body.at
        BY <2>4 DEF StoreBody, HlsInv, PollInv
      <3>2. viewer[v].since \in Nat /\ viewer[v].body.at \in Nat
        BY <2>1, <2>4, HlsNumbers DEF StoreBody
      <3> QED
        BY <2>1, <2>4, <3>1, <3>2, PlaylistCacheAssumption
    <2> QED
      BY <2>2, <2>3, <2>4, ScreenSteps
  <1> QED
    BY <1>1, HlsHolds, PTL DEF HlsSpec, NeverFarBack

-----------------------------------------------------------------------------
(***************************************************************************)
(* The favorites and their page.                                           *)
(***************************************************************************)

\* What the places of the list rest on.
RowsTyped ==
  \A c \in Rows : favorite[c].position \in Nat /\ favorite[c].created \in Nat

NRows == Cardinality(Rows)

LEMMA RowsFinite ==
  /\ IsFiniteSet(Rows) /\ Cardinality(Rows) \in Nat
  /\ Cardinality(Channel) \in Nat /\ Cardinality(Rows) <= Cardinality(Channel)
  <1>1. Rows \subseteq Channel
    BY DEF Rows
  <1> QED
    BY <1>1, FavoritesAssumption, FS_Subset, FS_CardinalityType

\* The order of the list is a strict total order of the rows.
LEMMA RowOrder ==
  ASSUME RowsTyped, NEW c \in Rows, NEW d \in Rows
  PROVE  /\ ListedBefore(c, d) \/ ListedBefore(d, c) \/ c = d
         /\ ~(ListedBefore(c, d) /\ ListedBefore(d, c))
         /\ \A e \in Rows : ListedBefore(c, d) /\ ListedBefore(d, e) => ListedBefore(c, e)
  <1>1. \A e \in Rows : /\ e \in Nat
                        /\ favorite[e].position \in Nat /\ favorite[e].created \in Nat
    BY FavoritesAssumption DEF RowsTyped, Rows
  <1> QED
    BY <1>1 DEF ListedBefore

\* A row that is listed before another has a smaller place.
LEMMA PlaceGrows ==
  ASSUME RowsTyped, NEW c \in Rows, NEW d \in Rows, ListedBefore(c, d)
  PROVE  Place(c) < Place(d)
  <1> DEFINE Above(e) == {f \in Rows : ListedBefore(f, e)}
  <1>1. Above(c) \subseteq Above(d)
    BY RowOrder
  <1>2. c \in Above(d) /\ c \notin Above(c)
    BY RowOrder
  <1>3. IsFiniteSet(Above(d)) /\ IsFiniteSet(Above(c))
    BY RowsFinite, FS_Subset
  <1>4. Cardinality(Above(c)) \in Nat /\ Cardinality(Above(d)) \in Nat
    BY <1>3, FS_CardinalityType
  <1>5. Cardinality(Above(c)) <= Cardinality(Above(d))
        /\ Cardinality(Above(c)) # Cardinality(Above(d))
    BY <1>1, <1>2, <1>3, FS_Subset
  <1> QED
    BY <1>4, <1>5 DEF Place

LEMMA PlaceBounded ==
  ASSUME RowsTyped, NEW c \in Rows
  PROVE  Place(c) \in 1 .. Cardinality(Rows)
  <1> DEFINE above == {f \in Rows : ListedBefore(f, c)}
  <1>1. above \subseteq Rows \ {c}
    BY RowOrder
  <1>2. /\ IsFiniteSet(Rows \ {c})
        /\ Cardinality(Rows \ {c}) = Cardinality(Rows) - 1
    BY RowsFinite, FS_RemoveElement
  <1>3. IsFiniteSet(above) /\ Cardinality(above) <= Cardinality(Rows \ {c})
    BY <1>1, <1>2, FS_Subset
  <1>4. Cardinality(above) \in Nat
    BY <1>3, FS_CardinalityType
  <1> QED
    BY <1>2, <1>3, <1>4, RowsFinite DEF Place

\* So every place is taken by one row.
LEMMA PlacesTaken ==
  ASSUME RowsTyped, NEW i \in 1 .. Cardinality(Rows)
  PROVE  \E c \in Rows : Place(c) = i
  <1> DEFINE place == [c \in Rows |-> Place(c)]
             n == Cardinality(Rows)
  <1>1. place \in [Rows -> 1 .. n]
    BY PlaceBounded
  <1>2. \A c, d \in Rows : place[c] = place[d] => c = d
    <2>1. SUFFICES ASSUME NEW c \in Rows, NEW d \in Rows, Place(c) = Place(d), c # d
                   PROVE  FALSE
      OBVIOUS
    <2>2. Place(c) \in Nat /\ Place(d) \in Nat
      BY PlaceBounded
    <2>3. ListedBefore(c, d) \/ ListedBefore(d, c)
      BY <2>1, RowOrder
    <2> QED
      BY <2>1, <2>2, <2>3, PlaceGrows
  <1>3. place \in Injection(Rows, 1 .. n)
    BY <1>1, <1>2 DEF Injection, IsInjective
  <1>4. IsFiniteSet(1 .. n) /\ Cardinality(1 .. n) = n
    BY RowsFinite, FS_Interval
  <1>5. place \in Surjection(Rows, 1 .. n)
    <2> HIDE DEF place
    <2> QED
      BY <1>3, <1>4, FS_Injection
  <1> QED
    BY <1>5 DEF Surjection

\* Lists that name no channel twice.
Listings == {list \in Lists : \A i, j \in DOMAIN list : list[i] = list[j] => i = j}

\* What a read of the favorites returns.
LEMMA ListIsList ==
  ASSUME RowsTyped
  PROVE  /\ ListFavorites \in [1 .. Cardinality(Rows) -> Rows]
         /\ \A i \in 1 .. Cardinality(Rows) : Place(ListFavorites[i]) = i
         /\ ListFavorites \in Listings
  <1>1. \A i \in 1 .. Cardinality(Rows) :
          /\ (CHOOSE c \in Rows : Place(c) = i) \in Rows
          /\ Place(CHOOSE c \in Rows : Place(c) = i) = i
    BY PlacesTaken
  <1>2. /\ ListFavorites \in [1 .. Cardinality(Rows) -> Rows]
        /\ \A i \in 1 .. Cardinality(Rows) : Place(ListFavorites[i]) = i
    BY <1>1 DEF ListFavorites
  <1>3. ListFavorites \in Lists
    <2>1. Rows \subseteq Channel /\ Cardinality(Rows) \in 0 .. Cardinality(Channel)
      BY RowsFinite DEF Rows
    <2>2. ListFavorites \in [1 .. Cardinality(Rows) -> Channel]
      BY <1>2, <2>1
    <2> QED
      BY <2>1, <2>2 DEF Lists
  <1>4. \A i, j \in DOMAIN ListFavorites : ListFavorites[i] = ListFavorites[j] => i = j
    BY <1>2
  <1> QED
    BY <1>2, <1>3, <1>4 DEF Listings

\* The position of an add is above those of the rows.
LEMMA NextAbove ==
  ASSUME RowsTyped, NEW b \in Nat, \A c \in Rows : favorite[c].position < b
  PROVE  NextPosition \in 0 .. b
  <1>1. CASE Rows = {}
    BY <1>1 DEF NextPosition
  <1>2. CASE Rows # {}
    <2> DEFINE n == Cardinality(Rows)
    <2>1. n \in Nat /\ n # 0
      BY <1>2, RowsFinite, FS_EmptySet
    <2>2. PICK m \in Rows : Place(m) = n
      BY <2>1, PlacesTaken
    <2>3. \A c \in Rows : favorite[c].position <= favorite[m].position
      <3>1. SUFFICES ASSUME NEW c \in Rows, ~(favorite[c].position <= favorite[m].position)
                     PROVE  FALSE
        OBVIOUS
      <3>2. ListedBefore(m, c)
        BY <3>1 DEF ListedBefore, RowsTyped
      <3>3. Place(m) < Place(c) /\ Place(c) \in 1 .. n
        BY <3>2, PlaceGrows, PlaceBounded
      <3> QED
        BY <2>1, <2>2, <3>3
    <2> DEFINE P == {favorite[c].position : c \in Rows}
               Top(p) == p \in P /\ \A c \in Rows : favorite[c].position <= p
    <2>4. \E p \in P : \A c \in Rows : favorite[c].position <= p
      BY <2>3
    <2>5. (CHOOSE p \in P : \A c \in Rows : favorite[c].position <= p) \in P
      BY <2>4
    <2>6. PICK c \in Rows : NextPosition = 1 + favorite[c].position
      BY <1>2, <2>5 DEF NextPosition
    <2> QED
      BY <2>6 DEF RowsTyped
  <1> QED
    BY <1>1, <1>2

\* The positions given out so far: they grow by one with each add at most.
Positions == {p \in Nat : p < Cardinality(Channel) + adds}
FullRows == [position: Positions, created: 0 .. MaxAdds]
Requests ==
  {AtRest} \cup {Done(ok) : ok \in BOOLEAN}
  \cup [pc: {"add", "remove"}, channel: Channel]
  \cup [pc: {"insert"}, channel: Channel, created: 0 .. MaxAdds, position: Positions]
  \cup [pc: {"check", "update"}, ids: Listings]

StoredInv ==
  /\ favorite \in [Channel -> {NoRow} \cup FullRows]
  /\ adds \in 0 .. MaxAdds
  /\ request \in [Requester -> Requests]
  /\ order \subseteq Channel \X Channel
  /\ ReorderStands

ShownInv ==
  /\ cached \in Listings
  /\ fetch \in {NoFetch, FetchAsked} \cup [pc: {"read"}, list: Listings]
  /\ restore \in [Requester -> Listings]
  /\ doubt \in BOOLEAN

StarsInv == StoredInv /\ ShownInv

LEMMA PositionsInType ==
  ASSUME adds \in 0 .. MaxAdds
  PROVE  /\ adds \in Nat /\ MaxAdds \in Nat /\ Cardinality(Channel) \in Nat
         /\ Positions \subseteq 0 .. MaxAdds + Cardinality(Channel)
         /\ Positions \subseteq Nat /\ 0 .. MaxAdds \subseteq Nat
  BY FavoritesAssumption, RowsFinite DEF Positions

LEMMA StarsTyped == StarsInv => PageTypeOK
  <1> SUFFICES ASSUME StarsInv PROVE PageTypeOK
    OBVIOUS
  <1>1. Positions \subseteq 0 .. MaxAdds + Cardinality(Channel)
    BY PositionsInType DEF StarsInv, StoredInv
  <1>2. Listings \subseteq Lists
    BY DEF Listings
  <1>3. favorite \in [Channel -> {NoRow} \cup
                     [position: 0 .. MaxAdds + Cardinality(Channel), created: 0 .. MaxAdds]]
    BY <1>1 DEF StarsInv, StoredInv, FullRows
  <1>4. Requests \subseteq {AtRest} \cup {Done(ok) : ok \in BOOLEAN}
         \cup [pc: {"add", "remove"}, channel: Channel]
         \cup [pc: {"insert"}, channel: Channel, created: 0 .. MaxAdds,
               position: 0 .. MaxAdds + Cardinality(Channel)]
         \cup [pc: {"check", "update"}, ids: Lists]
    <2> HIDE DEF Positions, Listings, Lists, AtRest, Done
    <2> QED
      BY <1>1, <1>2 DEF Requests
  <1>5. FavoritesTypeOK
    BY <1>3, <1>4 DEF FavoritesTypeOK, StarsInv, StoredInv
  <1> QED
    BY <1>2, <1>5 DEF PageTypeOK, StarsInv, ShownInv

LEMMA RowsAreTyped ==
  ASSUME StoredInv
  PROVE  /\ RowsTyped
         /\ \A c \in Rows : favorite[c] \in FullRows
  <1>1. \A c \in Rows : favorite[c] \in FullRows
    BY DEF Rows, StoredInv
  <1> QED
    BY <1>1, PositionsInType DEF RowsTyped, FullRows, StoredInv

LEMMA FullRowIsRow ==
  ASSUME NEW p, NEW t
  PROVE  [position |-> p, created |-> t] # NoRow
  <1> DEFINE e == [position |-> p, created |-> t]
  <1>1. DOMAIN e = {"position", "created"}
    OBVIOUS
  <1>2. DOMAIN NoRow = {"position"}
    BY DEF NoRow
  <1> QED
    BY <1>1, <1>2

LEMMA InitStars == PageInit => StarsInv
  <1> SUFFICES ASSUME PageInit PROVE StarsInv
    OBVIOUS
  <1>1. PICK S \in SUBSET Channel :
          favorite = [c \in Channel |->
            IF c \in S THEN [position |-> Cardinality({d \in S : d < c}), created |-> 0]
                       ELSE NoRow]
    BY DEF PageInit, FavoritesInit
  <1>2. adds = 0 /\ Cardinality(Channel) + adds = Cardinality(Channel)
    <2>1. adds = 0
      BY DEF PageInit, FavoritesInit
    <2> QED
      BY <2>1, RowsFinite
  <1> DEFINE before(c) == {d \in S : d < c}
  <1>3. \A c \in S : Cardinality(before(c)) \in Positions
    <2> SUFFICES ASSUME NEW c \in S
                 PROVE  Cardinality(before(c)) \in Positions
      OBVIOUS
    <2>1. before(c) \subseteq Channel \ {c}
      <3>1. c \in Nat /\ ~(c < c)
        BY FavoritesAssumption
      <3> QED
        BY <3>1
    <2>2. /\ IsFiniteSet(Channel \ {c})
          /\ Cardinality(Channel \ {c}) = Cardinality(Channel) - 1
      BY FavoritesAssumption, FS_RemoveElement
    <2>3. /\ IsFiniteSet(before(c))
          /\ Cardinality(before(c)) <= Cardinality(Channel \ {c})
      BY <2>1, <2>2, FS_Subset
    <2>4. Cardinality(before(c)) \in Nat
      BY <2>3, FS_CardinalityType
    <2> HIDE DEF before
    <2> QED
      BY <1>2, <2>2, <2>3, <2>4, RowsFinite DEF Positions
  <1>4. \A c \in S : favorite[c] = [position |-> Cardinality(before(c)), created |-> 0]
    BY <1>1
  <1>5. favorite \in [Channel -> {NoRow} \cup FullRows]
    <2>1. \A c \in S : favorite[c] \in FullRows
      <3>1. 0 \in 0 .. MaxAdds
        BY FavoritesAssumption
      <3> SUFFICES ASSUME NEW c \in S PROVE favorite[c] \in FullRows
        OBVIOUS
      <3> DEFINE p == Cardinality(before(c))
      <3>2. p \in Positions /\ favorite[c] = [position |-> p, created |-> 0]
        BY <1>3, <1>4
      <3> HIDE DEF p
      <3> QED
        BY <3>1, <3>2 DEF FullRows
    <2>2. \A c \in Channel : favorite[c] \in {NoRow} \cup FullRows
      BY <1>1, <2>1
    <2>3. favorite = [c \in Channel |-> favorite[c]]
      BY <1>1
    <2> QED
      BY <2>2, <2>3
  <1>6. << >> \in Listings
    <2>1. << >> \in [1 .. 0 -> Channel]
      OBVIOUS
    <2>2. 0 \in 0 .. Cardinality(Channel)
      BY RowsFinite
    <2> QED
      BY <2>1, <2>2 DEF Lists, Listings
  <1>7. request \in [Requester -> Requests] /\ order = {}
    BY DEF PageInit, FavoritesInit, Requests
  <1>8. StoredInv
    BY <1>2, <1>5, <1>7, FavoritesAssumption DEF StoredInv, ReorderStands
  <1>9. ShownInv
    BY <1>6 DEF ShownInv, PageInit
  <1> QED
    BY <1>8, <1>9 DEF StarsInv

\* While no row changes, neither does the list.
LEMMA SameRows ==
  ASSUME UNCHANGED favorite
  PROVE  /\ Rows' = Rows
         /\ ListFavorites' = ListFavorites
         /\ \A c, d : ListedBefore(c, d)' <=> ListedBefore(c, d)
  BY DEF ListFavorites, Place, ListedBefore, Rows

\* A later add leaves the types larger, any other step as they are.
LEMMA TypesGrow ==
  ASSUME adds \in 0 .. MaxAdds, adds' = adds \/ adds' = adds + 1
  PROVE  /\ Positions \subseteq Positions'
         /\ FullRows \subseteq FullRows'
         /\ Requests \subseteq Requests'
         /\ Listings' = Listings
  <1>1. Positions \subseteq Positions'
    BY PositionsInType DEF Positions
  <1>2. FullRows \subseteq FullRows'
    BY <1>1 DEF FullRows
  <1>3. Listings' = Listings
    BY DEF Listings, Lists
  <1>4. Requests \subseteq Requests'
    <2> HIDE DEF Positions, Listings
    <2> QED
      BY <1>1, <1>3 DEF Requests, AtRest, Done
  <1> QED
    BY <1>1, <1>2, <1>3, <1>4

\* The steps of a request that leave the rows alone.
LEMMA RequestMoves ==
  ASSUME StoredInv, NEW r \in Requester, NEW next, next \in Requests',
         Goto(r, next), adds' \in 0 .. MaxAdds, adds' = adds \/ adds' = adds + 1,
         UNCHANGED <<favorite, order>>
  PROVE  StoredInv'
  <1>1. /\ FullRows \subseteq FullRows' /\ Requests \subseteq Requests'
    BY TypesGrow DEF StoredInv
  <1>2. favorite' \in [Channel -> {NoRow} \cup FullRows']
    BY <1>1 DEF StoredInv
  <1>3. request' \in [Requester -> Requests']
    BY <1>1 DEF StoredInv, Goto
  <1>4. ReorderStands'
    BY SameRows DEF StoredInv, ReorderStands
  <1> QED
    BY <1>2, <1>3, <1>4 DEF StoredInv

LEMMA AnswersAreRequests ==
  ASSUME NEW ok \in BOOLEAN
  PROVE  Done(ok) \in Requests /\ Done(ok) \in Requests' /\ AtRest \in Requests'
  BY DEF Requests

\* What a request holds at its place.
LEMMA RequestFields ==
  ASSUME StoredInv, NEW r \in Requester
  PROVE  /\ request[r].pc \in {"add", "remove"} => request[r].channel \in Channel
         /\ request[r].pc = "insert" =>
              /\ request[r].channel \in Channel
              /\ [position |-> request[r].position, created |-> request[r].created] \in FullRows
         /\ request[r].pc \in {"check", "update"} => request[r].ids \in Listings
  <1>1. request[r] \in Requests
    BY DEF StoredInv
  <1> HIDE DEF Positions, Listings
  <1> QED
    BY <1>1 DEF Requests, AtRest, Done, FullRows

LEMMA AddSnapshotKeeps ==
  ASSUME StoredInv, NEW r \in Requester, AddSnapshot(r)
  PROVE  StoredInv'
  <1>1. /\ adds < MaxAdds /\ adds' = adds + 1 /\ UNCHANGED <<favorite, order>>
        /\ request[r].channel \in Channel
    BY RequestFields DEF AddSnapshot
  <1>2. /\ adds \in Nat /\ adds' \in 0 .. MaxAdds /\ adds + 1 \in 0 .. MaxAdds
        /\ adds \in 0 .. MaxAdds
    BY <1>1, FavoritesAssumption DEF StoredInv
  <1>3. Cardinality(Channel) + adds \in Nat
    BY <1>2, RowsFinite
  <1>4. \A c \in Rows : favorite[c].position < Cardinality(Channel) + adds
    BY RowsAreTyped DEF FullRows, Positions
  <1>5. NextPosition \in 0 .. (Cardinality(Channel) + adds)
    BY <1>3, <1>4, RowsAreTyped, NextAbove
  <1>6. NextPosition \in Positions'
    BY <1>1, <1>2, <1>5, RowsFinite DEF Positions
  <1> DEFINE next == [pc |-> "insert", channel |-> request[r].channel,
                      position |-> NextPosition, created |-> adds + 1]
  <1>7. next \in Requests'
    <2> HIDE DEF Positions
    <2> QED
      BY <1>1, <1>2, <1>6 DEF Requests
  <1>8. Goto(r, next)
    BY DEF AddSnapshot
  <1> HIDE DEF next
  <1> QED
    BY <1>1, <1>2, <1>7, <1>8, RequestMoves

LEMMA AddInsertKeeps ==
  ASSUME StoredInv, NEW r \in Requester, AddInsert(r)
  PROVE  StoredInv'
  <1> DEFINE c == request[r].channel
             new == [position |-> request[r].position, created |-> request[r].created]
  <1>1. c \in Channel /\ new \in FullRows /\ UNCHANGED <<adds, order>>
    BY RequestFields DEF AddInsert
  <1>2. FullRows' = FullRows /\ Requests' = Requests
    BY <1>1 DEF FullRows, Requests, Positions, Listings, Lists
  <1>3. favorite' = [favorite EXCEPT ![c] = IF @ # NoRow THEN @ ELSE new]
    BY DEF AddInsert
  <1> HIDE DEF c, new
  <1>4. favorite' \in [Channel -> {NoRow} \cup FullRows]
    BY <1>1, <1>3 DEF StoredInv
  <1>5. \A d \in Rows : favorite'[d] = favorite[d] /\ d \in Rows'
    BY <1>3, <1>1 DEF StoredInv, Rows
  <1>6. request' \in [Requester -> Requests]
    BY AnswersAreRequests DEF StoredInv, AddInsert, Goto
  <1>7. ReorderStands'
    BY <1>1, <1>5 DEF StoredInv, ReorderStands, ListedBefore
  <1> QED
    BY <1>1, <1>2, <1>4, <1>6, <1>7 DEF StoredInv

LEMMA RemoveFavoriteKeeps ==
  ASSUME StoredInv, NEW r \in Requester, RemoveFavorite(r)
  PROVE  StoredInv'
  <1> DEFINE c == request[r].channel
  <1>1. c \in Channel /\ UNCHANGED adds
    BY RequestFields DEF RemoveFavorite
  <1>2. FullRows' = FullRows /\ Requests' = Requests
    BY <1>1 DEF FullRows, Requests, Positions, Listings, Lists
  <1>3. /\ favorite' = [favorite EXCEPT ![c] = NoRow]
        /\ order' = {p \in order : c \notin {p[1], p[2]}}
    BY DEF RemoveFavorite
  <1> HIDE DEF c
  <1>4. favorite' \in [Channel -> {NoRow} \cup FullRows]
    BY <1>1, <1>3 DEF StoredInv
  <1>5. \A d \in Rows : d # c => favorite'[d] = favorite[d] /\ d \in Rows'
    BY <1>3 DEF StoredInv, Rows
  <1>6. request' \in [Requester -> Requests]
    BY AnswersAreRequests DEF StoredInv, RemoveFavorite, Goto
  <1>7. ReorderStands'
    BY <1>3, <1>5 DEF StoredInv, ReorderStands, ListedBefore
  <1>8. order' \subseteq Channel \X Channel
    BY <1>3 DEF StoredInv
  <1> QED
    BY <1>1, <1>2, <1>4, <1>6, <1>7, <1>8 DEF StoredInv

LEMMA ReorderCheckKeeps ==
  ASSUME StoredInv, NEW r \in Requester, ReorderCheck(r)
  PROVE  StoredInv'
  <1>1. request[r] \in Requests /\ request[r].pc = "check" /\ UNCHANGED <<favorite, adds, order>>
    BY DEF StoredInv, ReorderCheck
  <1>2. Requests' = Requests
    BY <1>1 DEF Requests, Positions, Listings, Lists
  <1>3. request[r] \in [pc: {"check", "update"}, ids: Listings]
    <2> HIDE DEF Positions, Listings
    <2> QED
      BY <1>1 DEF Requests, AtRest, Done
  <1>4. [request[r] EXCEPT !.pc = "update"] \in Requests
    BY <1>3 DEF Requests
  <1>5. adds' \in 0 .. MaxAdds
    BY <1>1 DEF StoredInv
  <1>6. CASE Goto(r, [request[r] EXCEPT !.pc = "update"])
    BY <1>1, <1>2, <1>4, <1>5, <1>6, RequestMoves
  <1>7. CASE Goto(r, Done(FALSE))
    BY <1>1, <1>5, <1>7, AnswersAreRequests, RequestMoves
  <1> QED
    BY <1>6, <1>7 DEF ReorderCheck

LEMMA IndexOfMember ==
  ASSUME adds \in 0 .. MaxAdds, NEW ids \in Listings, NEW i \in DOMAIN ids
  PROVE  /\ IndexIn(ids, ids[i]) = i
         /\ i \in Nat /\ i - 1 \in Positions
  <1>1. IndexIn(ids, ids[i]) = i
    BY DEF IndexIn, Listings
  <1>2. PICK n \in 0 .. Cardinality(Channel) : ids \in [1 .. n -> Channel]
    BY DEF Listings, Lists
  <1>3. adds \in Nat /\ i \in Nat /\ i - 1 \in Nat /\ i - 1 < Cardinality(Channel)
    BY <1>2, RowsFinite, PositionsInType
  <1> QED
    BY <1>1, <1>3, RowsFinite DEF Positions

LEMMA ReorderFavoritesKeeps ==
  ASSUME StoredInv, NEW r \in Requester, ReorderFavorites(r)
  PROVE  StoredInv'
  <1> DEFINE ids == request[r].ids
  <1>1. ids \in Listings /\ UNCHANGED adds
    BY RequestFields DEF ReorderFavorites
  <1>2. FullRows' = FullRows /\ Requests' = Requests
    BY <1>1 DEF FullRows, Requests, Positions, Listings, Lists
  <1>3. /\ favorite' = [c \in Channel |->
             IF c \in Rows \cap Members(ids)
             THEN [favorite[c] EXCEPT !.position = IndexIn(ids, c) - 1]
             ELSE favorite[c]]
        /\ order' = {p \in Rows \X Rows :
             \E i, j \in DOMAIN ids : i < j /\ p = <<ids[i], ids[j]>>}
    BY DEF ReorderFavorites
  <1> HIDE DEF ids
  <1>4. \A c \in Rows \cap Members(ids) :
          /\ IndexIn(ids, c) - 1 \in Positions
          /\ favorite[c] \in FullRows
          /\ favorite'[c] = [position |-> IndexIn(ids, c) - 1, created |-> favorite[c].created]
    <2> SUFFICES ASSUME NEW c \in Rows \cap Members(ids)
                 PROVE  /\ IndexIn(ids, c) - 1 \in Positions
                        /\ favorite[c] \in FullRows
                        /\ favorite'[c] = [position |-> IndexIn(ids, c) - 1,
                                           created |-> favorite[c].created]
      OBVIOUS
    <2>1. IndexIn(ids, c) - 1 \in Positions
      BY <1>1, IndexOfMember DEF Members, StoredInv
    <2>2. favorite[c] \in FullRows /\ c \in Channel
      BY RowsAreTyped DEF Rows
    <2>3. favorite'[c] = [favorite[c] EXCEPT !.position = IndexIn(ids, c) - 1]
      BY <1>3, <2>2
    <2> HIDE DEF Positions
    <2> QED
      BY <2>1, <2>2, <2>3 DEF FullRows
  <1>5. favorite' \in [Channel -> {NoRow} \cup FullRows]
    <2>1. \A c \in Channel : favorite'[c] \in {NoRow} \cup FullRows
      <3> SUFFICES ASSUME NEW c \in Channel PROVE favorite'[c] \in {NoRow} \cup FullRows
        OBVIOUS
      <3>1. CASE c \in Rows \cap Members(ids)
        <4> DEFINE p == IndexIn(ids, c) - 1
        <4>1. p \in Positions /\ favorite[c] \in FullRows
          BY <1>4, <3>1
        <4>2. favorite'[c] = [position |-> p, created |-> favorite[c].created]
          BY <1>4, <3>1
        <4> HIDE DEF p
        <4> QED
          BY <4>1, <4>2 DEF FullRows
      <3>2. CASE c \notin Rows \cap Members(ids)
        BY <1>3, <3>2 DEF StoredInv
      <3> QED
        BY <3>1, <3>2
    <2>2. favorite' = [c \in Channel |-> favorite'[c]]
      BY <1>3
    <2> QED
      BY <2>1, <2>2
  <1>6. request' \in [Requester -> Requests]
    BY AnswersAreRequests DEF StoredInv, ReorderFavorites, Goto
  <1>7. order' \subseteq Channel \X Channel
    BY <1>3 DEF Rows
  <1>8. ReorderStands'
    <2> SUFFICES ASSUME NEW p \in order'
                 PROVE  {p[1], p[2]} \subseteq Rows' /\ ListedBefore(p[1], p[2])'
      BY DEF ReorderStands
    <2>1. PICK i \in DOMAIN ids, j \in DOMAIN ids : i < j /\ p = <<ids[i], ids[j]>>
      BY <1>3
    <2>2. p[1] = ids[i] /\ p[2] = ids[j] /\ ids[i] \in Rows /\ ids[j] \in Rows
      BY <1>3, <2>1
    <2>3. /\ IndexIn(ids, ids[i]) = i /\ IndexIn(ids, ids[j]) = j
          /\ i \in Nat /\ j \in Nat
      BY <1>1, IndexOfMember DEF StoredInv
    <2>4. ids[i] \in Rows \cap Members(ids) /\ ids[j] \in Rows \cap Members(ids)
      BY <2>2 DEF Members
    <2>5. /\ favorite'[ids[i]] = [position |-> i - 1, created |-> favorite[ids[i]].created]
          /\ favorite'[ids[j]] = [position |-> j - 1, created |-> favorite[ids[j]].created]
      BY <1>4, <2>3, <2>4
    <2>6. favorite'[ids[i]] # NoRow /\ favorite'[ids[j]] # NoRow
      BY <2>5, FullRowIsRow
    <2>7. ids[i] \in Rows' /\ ids[j] \in Rows'
      BY <2>2, <2>6 DEF Rows
    <2>8. favorite'[ids[i]].position < favorite'[ids[j]].position
      BY <2>1, <2>3, <2>5
    <2> QED
      BY <2>2, <2>7, <2>8 DEF ListedBefore
  <1> QED
    BY <1>1, <1>2, <1>5, <1>6, <1>7, <1>8 DEF StoredInv

LEMMA EndingsKeep ==
  ASSUME StoredInv, NEW r \in Requester,
         RequestFails(r) \/ AnswerLost(r)
  PROVE  StoredInv'
  <1>1. Goto(r, Done(FALSE)) /\ UNCHANGED <<favorite, adds, order>>
    BY DEF RequestFails, AnswerLost
  <1>2. adds' \in 0 .. MaxAdds
    BY <1>1 DEF StoredInv
  <1> QED
    BY <1>1, <1>2, AnswersAreRequests, RequestMoves

LEMMA ServeKeeps ==
  ASSUME StoredInv, NEW r \in Requester, Serve(r)
  PROVE  StoredInv'
  BY AddSnapshotKeeps, AddInsertKeeps, RemoveFavoriteKeeps, ReorderCheckKeeps,
     ReorderFavoritesKeeps, EndingsKeep DEF Serve

LEMMA SameLists == Listings' = Listings
  BY DEF Listings, Lists

LEMMA StoredStutters ==
  ASSUME StoredInv, UNCHANGED favorites
  PROVE  StoredInv'
  <1>1. UNCHANGED <<favorite, adds, request, order>>
    BY DEF favorites
  <1>2. FullRows' = FullRows /\ Requests' = Requests
    BY <1>1 DEF FullRows, Requests, Positions, Listings, Lists
  <1> QED
    BY <1>1, <1>2 DEF StoredInv, ReorderStands, ListedBefore, Rows

\* A drag is a permutation of what is shown.
LEMMA DragKeeps ==
  ASSUME StarsInv, NEW r \in Requester, Drag(r)
  PROVE  StarsInv'
  <1>1. PICK p \in Bijection(DOMAIN cached, DOMAIN cached) :
          LET ids == [i \in DOMAIN cached |-> cached[p[i]]] IN
          cached' = ids /\ Goto(r, [pc |-> "check", ids |-> ids])
    BY DEF Drag
  <1> DEFINE ids == [i \in DOMAIN cached |-> cached[p[i]]]
             D == DOMAIN cached
  <1>2. PICK n \in 0 .. Cardinality(Channel) : cached \in [1 .. n -> Channel]
    BY DEF StarsInv, ShownInv, Listings, Lists
  <1>3. D = 1 .. n
    BY <1>2
  <1>4. p \in [D -> D] /\ \A i, j \in D : p[i] = p[j] => i = j
    BY DEF Bijection, Injection, IsInjective
  <1>6. \A i, j \in D : ids[i] = ids[j] => i = j
    BY <1>4 DEF StarsInv, ShownInv, Listings
  <1>7. ids \in Listings
    <2>1. ids \in [1 .. n -> Channel]
      BY <1>2, <1>3, <1>4
    <2>2. ids \in Lists
      BY <2>1 DEF Lists
    <2> QED
      BY <1>6, <2>2 DEF Listings
  <1>8. cached' = ids /\ Goto(r, [pc |-> "check", ids |-> ids])
    BY <1>1
  <1> HIDE DEF ids
  <1>9. /\ UNCHANGED <<favorite, adds, order, doubt>>
        /\ restore' = [restore EXCEPT ![r] = cached] /\ fetch' = NoFetch
    BY DEF Drag
  <1>10. [pc |-> "check", ids |-> ids] \in Requests'
    BY <1>7, SameLists DEF Requests
  <1>11. StoredInv'
    <2>1. adds' \in 0 .. MaxAdds
      BY <1>9 DEF StarsInv, StoredInv
    <2> QED
      BY <1>8, <1>9, <1>10, <2>1, RequestMoves DEF StarsInv
  <1>12. ShownInv'
    BY <1>7, <1>8, <1>9, SameLists DEF StarsInv, ShownInv
  <1> QED
    BY <1>11, <1>12 DEF StarsInv

LEMMA StarKeeps ==
  ASSUME StarsInv, NEW r \in Requester, NEW c \in Channel, NEW next \in BOOLEAN,
         Star(r, c, next)
  PROVE  StarsInv'
  <1> DEFINE q == [pc |-> IF next THEN "add" ELSE "remove", channel |-> c]
  <1>1. /\ Goto(r, q) /\ UNCHANGED <<favorite, adds, order>>
        /\ UNCHANGED <<cached, fetch, restore, doubt>>
    BY DEF Star, page
  <1>2. q \in Requests'
    BY DEF Requests
  <1>3. adds' \in 0 .. MaxAdds
    BY <1>1 DEF StarsInv, StoredInv
  <1> HIDE DEF q
  <1>4. StoredInv'
    BY <1>1, <1>2, <1>3, RequestMoves DEF StarsInv
  <1>5. ShownInv'
    BY <1>1, SameLists DEF StarsInv, ShownInv
  <1> QED
    BY <1>4, <1>5 DEF StarsInv

LEMMA EmptyListing == << >> \in Listings
  <1>1. << >> \in [1 .. 0 -> Channel]
    OBVIOUS
  <1>2. 0 \in 0 .. Cardinality(Channel)
    BY RowsFinite
  <1> QED
    BY <1>1, <1>2 DEF Lists, Listings

LEMMA AnswerKeeps ==
  ASSUME StarsInv, NEW r \in Requester, OnSuccess(r) \/ OnError(r)
  PROVE  StarsInv'
  <1>1. /\ Goto(r, AtRest) /\ UNCHANGED <<favorite, adds, order>>
        /\ restore' = [restore EXCEPT ![r] = << >>]
        /\ fetch' \in {fetch, FetchAsked} /\ doubt' \in {doubt, TRUE}
        /\ cached' \in {cached, restore[r]}
    BY DEF OnSuccess, OnError
  <1>2. adds' \in 0 .. MaxAdds
    BY <1>1 DEF StarsInv, StoredInv
  <1>3. AtRest \in Requests'
    BY DEF Requests
  <1>4. StoredInv'
    BY <1>1, <1>2, <1>3, RequestMoves DEF StarsInv
  <1>5. ShownInv'
    <2>1. cached' \in Listings
      BY <1>1 DEF StarsInv, ShownInv
    <2>2. restore' \in [Requester -> Listings]
      BY <1>1, EmptyListing DEF StarsInv, ShownInv
    <2>3. /\ fetch' \in {NoFetch, FetchAsked} \cup [pc: {"read"}, list: Listings]
          /\ doubt' \in BOOLEAN
      BY <1>1 DEF StarsInv, ShownInv
    <2> QED
      BY <2>1, <2>2, <2>3, SameLists DEF ShownInv
  <1> QED
    BY <1>4, <1>5 DEF StarsInv

LEMMA FetchKeeps ==
  ASSUME StarsInv, FetchRead \/ FetchAnswer
  PROVE  StarsInv'
  <1>1. StoredInv'
    BY StoredStutters DEF StarsInv, FetchRead, FetchAnswer
  <1>2. CASE FetchRead
    <2>1. ListFavorites \in Listings
      BY RowsAreTyped, ListIsList DEF StarsInv
    <2>2. fetch' \in [pc: {"read"}, list: Listings]
      BY <1>2, <2>1 DEF FetchRead
    <2>3. ShownInv'
      BY <1>2, <2>2, SameLists DEF StarsInv, ShownInv, FetchRead
    <2> QED
      BY <1>1, <2>3 DEF StarsInv
  <1>3. CASE FetchAnswer
    <2>1. fetch.list \in Listings
      BY <1>3 DEF FetchAnswer, StarsInv, ShownInv, NoFetch, FetchAsked
    <2>2. ShownInv'
      BY <1>3, <2>1, SameLists DEF StarsInv, ShownInv, FetchAnswer
    <2> QED
      BY <1>1, <2>2 DEF StarsInv
  <1> QED
    BY <1>2, <1>3

LEMMA ShownStutters ==
  ASSUME ShownInv, UNCHANGED page
  PROVE  ShownInv'
  BY SameLists DEF ShownInv, page

LEMMA NextStars == StarsInv /\ [PageNext]_<<favorites, page>> => StarsInv'
  <1> SUFFICES ASSUME StarsInv, [PageNext]_<<favorites, page>> PROVE StarsInv'
    OBVIOUS
  <1>1. ASSUME NEW r \in Requester, Serve(r), UNCHANGED page
        PROVE  StarsInv'
    BY <1>1, ServeKeeps, ShownStutters DEF StarsInv
  <1>2. CASE UNCHANGED <<favorites, page>>
    BY <1>2, StoredStutters, ShownStutters DEF StarsInv
  <1> QED
    BY <1>1, <1>2, DragKeeps, StarKeeps, AnswerKeeps, FetchKeeps DEF PageNext

\* The rows, the requests and what the page holds are well typed in every
\* reachable state; in particular positions grow by one with each add at most.
THEOREM PageTypeCorrect == PageSpec => []PageTypeOK
  <1>1. PageSpec => []StarsInv
    BY InitStars, NextStars, PTL DEF PageSpec
  <1> QED
    BY <1>1, StarsTyped, PTL

\* For any number of channels and of requests that overlap, what the last
\* applied reorder put before another channel is listed before it, as long as
\* both are there.  It rests on reorders naming no channel twice.
THEOREM ReorderStandsAlways == PageSpec => []ReorderStands
  <1>1. PageSpec => []StarsInv
    BY InitStars, NextStars, PTL DEF PageSpec
  <1>2. StarsInv => ReorderStands
    BY DEF StarsInv, StoredInv
  <1> QED
    BY <1>1, <1>2, PTL

\* With nothing under way and no error since the last read, what was read, or
\* is shown, is what is stored; a fetch that is only asked for will read it.
QuietInv ==
  (\A r \in Requester : request[r] = AtRest) /\ ~doubt =>
    /\ fetch.pc = "read" => fetch.list = ListFavorites
    /\ fetch = NoFetch => cached = ListFavorites

LEMMA FetchPlaces == FetchAsked # NoFetch /\ FetchAsked.pc # "read" /\ NoFetch.pc # "read"
  <1>1. FetchAsked.pc = "asked" /\ NoFetch.pc = "none"
    BY DEF FetchAsked, NoFetch
  <1> QED
    BY <1>1

LEMMA InitQuiet == PageInit => QuietInv
  BY FetchPlaces DEF PageInit, QuietInv

\* A request that takes a step before it is answered, or begins, is not at rest after it.
LEMMA BusyRequests ==
  ASSUME StarsInv, NEW r \in Requester,
         Serve(r) \/ Drag(r) \/ \E c \in Channel, next \in BOOLEAN : Star(r, c, next)
  PROVE  ~ \A q \in Requester : request'[q] = AtRest
  <1>1. request \in [Requester -> Requests]
    BY DEF StarsInv, StoredInv
  <1>2. \E next : Goto(r, next) /\ next # AtRest
    <2> USE DEF AtRest, Done
    <2>1. CASE AddSnapshot(r)
      BY <2>1 DEF AddSnapshot
    <2>2. CASE AddInsert(r) \/ RemoveFavorite(r) \/ RequestFails(r) \/ AnswerLost(r)
      BY <2>2 DEF AddInsert, RemoveFavorite, RequestFails, AnswerLost
    <2>3. CASE ReorderCheck(r)
      <3>1. request[r] \in [pc: {"check", "update"}, ids: Listings]
        <4> HIDE DEF Positions, Listings
        <4> QED
          BY <1>1, <2>3 DEF ReorderCheck, Requests
      <3>2. [request[r] EXCEPT !.pc = "update"].pc = "update"
        BY <3>1
      <3> QED
        BY <2>3, <3>2 DEF ReorderCheck
    <2>4. CASE ReorderFavorites(r)
      BY <2>4 DEF ReorderFavorites
    <2>5. CASE Drag(r)
      BY <2>5 DEF Drag
    <2>6. CASE \E c \in Channel, next \in BOOLEAN : Star(r, c, next)
      BY <2>6 DEF Star
    <2> QED
      BY <2>1, <2>2, <2>3, <2>4, <2>5, <2>6 DEF Serve
  <1> QED
    BY <1>1, <1>2 DEF Goto

LEMMA NextQuiet ==
  StarsInv /\ QuietInv /\ [PageNext]_<<favorites, page>> => QuietInv'
  <1> SUFFICES ASSUME StarsInv, QuietInv, [PageNext]_<<favorites, page>>,
                      \A r \in Requester : request'[r] = AtRest, ~doubt'
               PROVE  /\ fetch'.pc = "read" => fetch'.list = ListFavorites'
                      /\ fetch' = NoFetch => cached' = ListFavorites'
    BY DEF QuietInv
  <1>1. CASE \E r \in Requester : OnSuccess(r) \/ OnError(r)
    BY <1>1, FetchPlaces DEF OnSuccess, OnError
  <1>2. CASE FetchRead
    <2>1. ListFavorites' = ListFavorites
      BY <1>2, SameRows DEF FetchRead, favorites
    <2>2. fetch'.pc = "read" /\ fetch'.list = ListFavorites
      BY <1>2 DEF FetchRead
    <2> QED
      BY <2>1, <2>2, FetchPlaces
  <1>3. CASE FetchAnswer
    <2>1. ListFavorites' = ListFavorites
      BY <1>3, SameRows DEF FetchAnswer, favorites
    <2>2. fetch.list = ListFavorites
      BY <1>3 DEF FetchAnswer, favorites, QuietInv
    <2> QED
      BY <1>3, <2>1, <2>2, FetchPlaces DEF FetchAnswer
  <1>4. CASE UNCHANGED <<favorites, page>>
    <2>1. ListFavorites' = ListFavorites
      BY <1>4, SameRows DEF favorites
    <2> QED
      BY <1>4, <2>1 DEF favorites, page, QuietInv
  <1> QED
    BY <1>1, <1>2, <1>3, <1>4, BusyRequests DEF PageNext

\* For any number of channels and of requests that overlap, a page with nothing
\* under way shows the stored list, unless an error came after its last read.
THEOREM QuietPageShowsStoredAlways == PageSpec => []QuietPageShowsStored
  <1>1. PageSpec => [](StarsInv /\ QuietInv)
    BY InitStars, NextStars, InitQuiet, NextQuiet, PTL DEF PageSpec
  <1>2. QuietInv => QuietPageShowsStored
    BY DEF QuietInv, QuietPageShowsStored
  <1> QED
    BY <1>1, <1>2, PTL

-----------------------------------------------------------------------------
(***************************************************************************)
(* The playlist parser.                                                    *)
(***************************************************************************)

\* The EXTINF line that waits for its URL.
Waiting(body) == ExtinfOf(body, Len(body) + 1)

LEMMA EntryLinesFinite ==
  ASSUME NEW body \in Seq(Line)
  PROVE  /\ EntryLines(body) \subseteq 1 .. Len(body)
         /\ IsFiniteSet(EntryLines(body)) /\ Cardinality(EntryLines(body)) \in Nat
  <1>1. EntryLines(body) \subseteq 1 .. Len(body) /\ Len(body) \in Nat
    BY DEF EntryLines
  <1>2. IsFiniteSet(1 .. Len(body))
    BY <1>1, FS_Interval
  <1>3. IsFiniteSet(EntryLines(body))
    BY <1>1, <1>2, FS_Subset
  <1> QED
    BY <1>1, <1>3, FS_CardinalityType

LEMMA WaitingBounded ==
  ASSUME NEW body \in Seq(Line)
  PROVE  Waiting(body) \subseteq 1 .. Len(body)
  <1>1. Len(body) \in Nat
    OBVIOUS
  <1> QED
    BY <1>1 DEF Waiting, ExtinfOf

\* A line more does not change what the lines before it give.
LEMMA OneLineMore ==
  ASSUME NEW body \in Seq(Line), NEW line \in Line
  PROVE  LET more == Append(body, line) IN
         /\ more \in Seq(Line) /\ Len(more) = Len(body) + 1 /\ Len(body) \in Nat
         /\ more[Len(body) + 1] = line
         /\ \A i \in 1 .. Len(body) : more[i] = body[i]
         /\ \A i \in 1 .. Len(body) + 1 : ExtinfOf(more, i) = ExtinfOf(body, i)
         /\ \A i \in EntryLines(body) :
              i \in EntryLines(more) /\ EntryAt(more, i) = EntryAt(body, i)
         /\ EntryLines(more) =
              IF line.kind = "url" /\ Waiting(body) # {}
              THEN EntryLines(body) \cup {Len(body) + 1} ELSE EntryLines(body)
  <1> DEFINE more == Append(body, line)
             L == Len(body)
  <1>1. more \in Seq(Line) /\ Len(more) = L + 1 /\ L \in Nat /\ more[L + 1] = line
    OBVIOUS
  <1>2. \A i \in 1 .. L : more[i] = body[i]
    OBVIOUS
  <1>3. DOMAIN more = 1 .. L + 1 /\ DOMAIN body = 1 .. L
    BY <1>1
  <1> HIDE DEF more
  <1>4. ASSUME NEW i \in 1 .. L + 1 PROVE ExtinfOf(more, i) = ExtinfOf(body, i)
    <2>1. \A j \in 1 .. i - 1 : more[j] = body[j]
      BY <1>1, <1>2, <1>4
    <2>2. \A j \in 1 .. i - 1 : \A k \in j + 1 .. i - 1 : more[k] = body[k]
      BY <1>1, <2>1
    <2> QED
      BY <2>1, <2>2 DEF ExtinfOf
  <1>5. \A i \in 1 .. L : (i \in EntryLines(more)) <=> (i \in EntryLines(body))
    BY <1>1, <1>2, <1>3, <1>4 DEF EntryLines
  <1>6. (L + 1 \in EntryLines(more)) <=> (line.kind = "url" /\ Waiting(body) # {})
    BY <1>1, <1>3, <1>4 DEF EntryLines, Waiting
  <1>7. EntryLines(more) \subseteq 1 .. L + 1 /\ EntryLines(body) \subseteq 1 .. L
    BY <1>3 DEF EntryLines
  <1>8. EntryLines(more) =
          IF line.kind = "url" /\ Waiting(body) # {}
          THEN EntryLines(body) \cup {L + 1} ELSE EntryLines(body)
    <2>1. \A i \in EntryLines(more) : i \in 1 .. L \/ i = L + 1
      BY <1>1, <1>7
    <2>2. \A i \in EntryLines(body) : i \in 1 .. L
      BY <1>7
    <2> HIDE DEF L
    <2>3. CASE line.kind = "url" /\ Waiting(body) # {}
      BY <1>5, <1>6, <2>1, <2>2, <2>3
    <2>4. CASE ~(line.kind = "url" /\ Waiting(body) # {})
      <3>1. \A i \in EntryLines(more) : i \in EntryLines(body)
        BY <1>5, <1>6, <2>1, <2>4
      <3>2. \A i \in EntryLines(body) : i \in EntryLines(more)
        BY <1>5, <2>2
      <3> QED
        BY <2>4, <3>1, <3>2
    <2> QED
      BY <2>3, <2>4
  <1>9. ASSUME NEW i \in EntryLines(body) PROVE EntryAt(more, i) = EntryAt(body, i)
    <2> DEFINE j == CHOOSE j \in ExtinfOf(body, i) : TRUE
    <2>1. i \in 1 .. L /\ ExtinfOf(more, i) = ExtinfOf(body, i) /\ ExtinfOf(body, i) # {}
      BY <1>1, <1>4, <1>7 DEF EntryLines
    <2>2. j \in ExtinfOf(body, i)
      BY <2>1
    <2>3. j \in 1 .. L
      BY <1>1, <2>1, <2>2 DEF ExtinfOf
    <2>4. more[j] = body[j] /\ more[i] = body[i]
      BY <1>2, <2>1, <2>3
    <2> QED
      BY <2>1, <2>4 DEF EntryAt
  <1> QED
    BY <1>1, <1>2, <1>4, <1>5, <1>7, <1>8, <1>9 DEF more

\* Which EXTINF line waits after one more line.
LEMMA WaitingAfter ==
  ASSUME NEW body \in Seq(Line), NEW line \in Line
  PROVE  LET more == Append(body, line) IN
         Waiting(more) = IF line.kind = "extinf" THEN {Len(body) + 1}
                         ELSE IF line.kind = "url" THEN {} ELSE Waiting(body)
  <1> DEFINE more == Append(body, line)
             L == Len(body)
  <1>1. /\ Len(more) = L + 1 /\ L \in Nat /\ more[L + 1] = line
        /\ \A i \in 1 .. L : more[i] = body[i]
    BY OneLineMore
  <1> HIDE DEF more
  <1>2. (L + 1 \in Waiting(more)) <=> line.kind = "extinf"
    BY <1>1 DEF Waiting, ExtinfOf
  <1>3. Waiting(more) \subseteq 1 .. L + 1 /\ Waiting(body) \subseteq 1 .. L
    BY <1>1 DEF Waiting, ExtinfOf
  <1>4. ASSUME NEW j \in 1 .. L
        PROVE  (j \in Waiting(more)) <=> /\ j \in Waiting(body)
                                         /\ line.kind \notin {"extinf", "url"}
    <2>1. j \in Waiting(more) <=>
            more[j].kind = "extinf" /\ \A k \in j + 1 .. L + 1 : more[k].kind \notin {"extinf", "url"}
      BY <1>1 DEF Waiting, ExtinfOf
    <2>2. j \in Waiting(body) <=>
            body[j].kind = "extinf" /\ \A k \in j + 1 .. L : body[k].kind \notin {"extinf", "url"}
      BY <1>1 DEF Waiting, ExtinfOf
    <2>3. /\ \A k \in j + 1 .. L : more[k] = body[k] /\ k \in j + 1 .. L + 1
          /\ L + 1 \in j + 1 .. L + 1
          /\ \A k \in j + 1 .. L + 1 : k = L + 1 \/ k \in j + 1 .. L
      BY <1>1
    <2> QED
      BY <1>1, <2>1, <2>2, <2>3
  <1>5. \A j \in 1 .. L + 1 : j \in 1 .. L \/ j = L + 1
    BY <1>1
  <1>6. \A j \in 1 .. L : j # L + 1
    BY <1>1
  <1>7. Waiting(more) = IF line.kind = "extinf" THEN {L + 1}
                        ELSE IF line.kind = "url" THEN {} ELSE Waiting(body)
    <2> HIDE DEF L
    <2>1. CASE line.kind = "extinf"
      BY <1>2, <1>3, <1>4, <1>5, <2>1
    <2>2. CASE line.kind = "url"
      BY <1>2, <1>3, <1>4, <1>5, <2>2
    <2>3. CASE line.kind \notin {"extinf", "url"}
      <3>1. \A j \in Waiting(more) : j \in Waiting(body)
        BY <1>2, <1>3, <1>4, <1>5, <2>3
      <3>2. \A j \in Waiting(body) : j \in Waiting(more)
        BY <1>3, <1>4, <2>3
      <3> QED
        BY <2>3, <3>1, <3>2
    <2> QED
      BY <2>1, <2>2, <2>3
  <1> QED
    BY <1>7 DEF more

\* The entry of line i, when the lines of stumps were cut.
Meant(body, stumps, i) ==
  IF i \in stumps THEN [EntryAt(body, i) EXCEPT !.url = Stump] ELSE EntryAt(body, i)

Filed(list, body, stumps) ==
  /\ Len(list) = Cardinality(EntryLines(body))
  /\ \A i \in EntryLines(body) : /\ Nth(body, i) \in 1 .. Len(list)
                                 /\ list[Nth(body, i)] = Meant(body, stumps, i)
  /\ \A n \in 1 .. Len(list) : \E i \in EntryLines(body) : Nth(body, i) = n

\* A line that gives no entry leaves all as it is.
LEMMA FileNone ==
  ASSUME NEW body \in Seq(Line), NEW line \in Line, NEW list, Filed(list, body, {}),
         ~(line.kind = "url" /\ Waiting(body) # {})
  PROVE  Filed(list, Append(body, line), {})
  <1> DEFINE more == Append(body, line)
  <1>1. /\ EntryLines(more) = EntryLines(body)
        /\ \A i \in EntryLines(body) : EntryAt(more, i) = EntryAt(body, i)
    BY OneLineMore
  <1> HIDE DEF more
  <1>2. \A i : Nth(more, i) = Nth(body, i)
    BY <1>1 DEF Nth
  <1>3. \A i \in EntryLines(more) : Meant(more, {}, i) = Meant(body, {}, i)
    BY <1>1 DEF Meant
  <1>4. Filed(list, more, {})
    BY <1>1, <1>2, <1>3 DEF Filed
  <1> QED
    BY <1>4 DEF more

\* No line was cut, or line i was; the URL that is filed.
Cuts(i) == {{}, {i}}
FiledUrl(line, stumps) == IF stumps = {} THEN line.url ELSE Stump

\* A URL files one entry more, with its EXTINF line.
LEMMA FileOne ==
  ASSUME NEW body \in Seq(Line), NEW line \in UrlLine, NEW list \in Seq(Listing),
         Filed(list, body, {}), Waiting(body) # {},
         NEW extinf \in Extinf, \A j \in Waiting(body) : extinf = body[j],
         NEW stumps \in Cuts(Len(body) + 1)
  PROVE  Filed(Append(list, [id |-> extinf.id, url |-> FiledUrl(line, stumps)]),
               Append(body, line), stumps)
  <1> DEFINE more == Append(body, line)
             url == FiledUrl(line, stumps)
             L == Len(body)
             N == Len(list)
             entry == [id |-> extinf.id, url |-> url]
             longer == Append(list, entry)
  <1>0. line \in Line /\ line.kind = "url"
    BY DEF UrlLine, Line
  <1>1. /\ L \in Nat /\ more[L + 1] = line
        /\ \A i \in 1 .. L : more[i] = body[i]
        /\ ExtinfOf(more, L + 1) = Waiting(body)
        /\ EntryLines(more) = EntryLines(body) \cup {L + 1}
        /\ \A i \in EntryLines(body) : EntryAt(more, i) = EntryAt(body, i)
    <2>1. L \in Nat /\ L + 1 \in 1 .. L + 1
      OBVIOUS
    <2> QED
      BY <1>0, <2>1, OneLineMore DEF Waiting
  <1>2. /\ N \in Nat /\ Len(longer) = N + 1 /\ longer[N + 1] = entry
        /\ \A n \in 1 .. N : longer[n] = list[n]
    OBVIOUS
  <1>3. /\ EntryLines(body) \subseteq 1 .. L /\ IsFiniteSet(EntryLines(body))
        /\ Cardinality(EntryLines(body)) = N
    BY EntryLinesFinite DEF Filed
  <1>4. Cardinality(EntryLines(more)) = N + 1
    <2>1. L + 1 \notin EntryLines(body)
      BY <1>1, <1>3
    <2> QED
      BY <1>1, <1>3, <2>1, FS_AddElement
  <1> HIDE DEF more, longer, entry
  <1>5. \A i \in EntryLines(body) : Nth(more, i) = Nth(body, i)
    <2> SUFFICES ASSUME NEW i \in EntryLines(body) PROVE Nth(more, i) = Nth(body, i)
      OBVIOUS
    <2>1. ~(L + 1 <= i)
      BY <1>1, <1>3
    <2>2. {k \in EntryLines(more) : k <= i} = {k \in EntryLines(body) : k <= i}
      BY <1>1, <2>1
    <2> QED
      BY <2>2 DEF Nth
  <1>6. Nth(more, L + 1) = N + 1
    <2>1. \A k \in EntryLines(more) : k <= L + 1
      BY <1>1, <1>3
    <2>2. {k \in EntryLines(more) : k <= L + 1} = EntryLines(more)
      BY <2>1
    <2> QED
      BY <1>4, <2>2 DEF Nth
  <1>7. Meant(more, stumps, L + 1) = entry
    <2> DEFINE j == CHOOSE j \in Waiting(body) : TRUE
    <2>1. j \in Waiting(body)
      OBVIOUS
    <2>2. j \in 1 .. L
      BY <1>1, <2>1 DEF Waiting, ExtinfOf
    <2>3. more[j] = extinf
      BY <1>1, <2>1, <2>2
    <2>4. EntryAt(more, L + 1) = [id |-> extinf.id, url |-> line.url]
      BY <1>1, <2>3 DEF EntryAt
    <2>5. CASE stumps = {}
      BY <2>4, <2>5 DEF Meant, entry, FiledUrl
    <2>6. CASE stumps = {L + 1}
      BY <2>4, <2>6 DEF Meant, entry, FiledUrl
    <2> QED
      BY <2>5, <2>6 DEF Cuts
  <1>8. \A i \in EntryLines(body) : Meant(more, stumps, i) = Meant(body, {}, i)
    <2> SUFFICES ASSUME NEW i \in EntryLines(body)
                 PROVE  Meant(more, stumps, i) = Meant(body, {}, i)
      OBVIOUS
    <2>1. i # L + 1
      BY <1>1, <1>3
    <2> QED
      BY <1>1, <2>1 DEF Meant, Cuts
  <1>9. \A i \in EntryLines(more) :
          Nth(more, i) \in 1 .. N + 1 /\ longer[Nth(more, i)] = Meant(more, stumps, i)
    <2> SUFFICES ASSUME NEW i \in EntryLines(more)
                 PROVE  Nth(more, i) \in 1 .. N + 1 /\ longer[Nth(more, i)] = Meant(more, stumps, i)
      OBVIOUS
    <2>1. CASE i = L + 1
      <3>1. N + 1 \in 1 .. N + 1
        BY <1>2
      <3> QED
        BY <1>2, <1>6, <1>7, <2>1, <3>1
    <2>2. CASE i \in EntryLines(body)
      <3>1. Nth(body, i) \in 1 .. N /\ list[Nth(body, i)] = Meant(body, {}, i)
        BY <2>2 DEF Filed
      <3>2. Nth(body, i) \in 1 .. N + 1
        BY <1>2, <3>1
      <3> QED
        BY <1>2, <1>5, <1>8, <2>2, <3>1, <3>2
    <2> QED
      BY <1>1, <2>1, <2>2
  <1>10. \A n \in 1 .. N + 1 : \E i \in EntryLines(more) : Nth(more, i) = n
    <2> SUFFICES ASSUME NEW n \in 1 .. N + 1
                 PROVE  \E i \in EntryLines(more) : Nth(more, i) = n
      OBVIOUS
    <2>1. CASE n = N + 1
      BY <1>1, <1>6, <2>1
    <2>2. CASE n \in 1 .. N
      BY <1>1, <1>5, <2>2 DEF Filed
    <2> QED
      BY <1>2, <2>1, <2>2
  <1>11. Filed(longer, more, stumps)
    BY <1>2, <1>4, <1>9, <1>10 DEF Filed
  <1> QED
    BY <1>11 DEF longer, more, entry

ScanInv ==
  parser.end = "" =>
    /\ Filed(parser.entries, lines, {})
    /\ parser.pending = None <=> Waiting(lines) = {}
    /\ \A j \in Waiting(lines) : parser.pending = lines[j]

ReadInv ==
  parser.end = "done" =>
    \E stumps \in {{}, {Len(lines)}} : Filed(parser.entries, lines, stumps)

ParserInv == ParserTypeOK /\ ScanInv /\ ReadInv

\* The parser with no line read.
LEMMA ParserStarts == ParserInit => ParserInv
  <1> SUFFICES ASSUME ParserInit PROVE ParserInv
    OBVIOUS
  <1>0. lines = << >>
    BY DEF ParserInit
  <1>1. parser.end = "" /\ parser.entries = << >> /\ parser.pending = None
    BY DEF ParserInit
  <1>2. << >> \in Seq(Line) /\ << >> \in Seq(Listing) /\ Len(<< >>) = 0
    OBVIOUS
  <1>3. ParserTypeOK
    BY <1>0, <1>2 DEF ParserTypeOK, ParserInit
  <1>4. EntryLines(lines) = {} /\ Waiting(lines) = {}
    <2>1. DOMAIN lines = {} /\ 1 .. (Len(lines) + 1) - 1 = {}
      BY <1>0, <1>2
    <2> QED
      BY <2>1 DEF EntryLines, Waiting, ExtinfOf
  <1>5. Filed(parser.entries, lines, {})
    <2>1. Len(parser.entries) = 0 /\ Cardinality({}) = 0
      BY <1>1, <1>2, FS_EmptySet
    <2>2. \A n \in 1 .. 0 : FALSE
      OBVIOUS
    <2> QED
      BY <1>4, <2>1, <2>2 DEF Filed
  <1> QED
    BY <1>1, <1>3, <1>4, <1>5 DEF ParserInv, ScanInv, ReadInv

\* What the parser holds while it scans.
LEMMA Scanning ==
  ASSUME ParserInv, NEW line \in Line, Reads(line)
  PROVE  /\ lines \in Seq(Line) /\ lines' = Append(lines, line) /\ lines' \in Seq(Line)
         /\ Len(lines') = Len(lines) + 1
         /\ parser.end = "" /\ parser.entries \in Seq(Listing)
         /\ parser.pending \in Extinf \cup {None}
         /\ Filed(parser.entries, lines, {})
         /\ parser.pending = None <=> Waiting(lines) = {}
         /\ \A j \in Waiting(lines) : parser.pending = lines[j]
  <1>1. lines' = Append(lines, line) /\ parser.end = ""
    BY DEF Reads
  <1>2. /\ lines \in Seq(Line) /\ parser.entries \in Seq(Listing)
        /\ parser.pending \in Extinf \cup {None}
    BY DEF ParserInv, ParserTypeOK
  <1>3. lines' \in Seq(Line) /\ Len(lines') = Len(lines) + 1
    <2>1. lines \in Seq(Line)
      BY <1>2
    <2> QED
      BY <1>1, <2>1, OneLineMore
  <1>4. /\ Filed(parser.entries, lines, {})
        /\ parser.pending = None <=> Waiting(lines) = {}
        /\ \A j \in Waiting(lines) : parser.pending = lines[j]
    BY <1>1 DEF ParserInv, ScanInv
  <1> QED
    BY <1>1, <1>2, <1>3, <1>4

\* A line that is neither an EXTINF line nor a URL, or a URL that no EXTINF
\* line waits for.
LEMMA PassKeeps ==
  ASSUME ParserInv, NEW line \in Line, Reads(line),
         line.kind # "extinf", line.kind = "url" => parser.pending = None,
         parser'.end = "", parser'.pending = parser.pending, parser'.entries = parser.entries,
         ParserTypeOK'
  PROVE  ParserInv'
  <1>1. Filed(parser.entries, lines', {})
    BY Scanning, FileNone
  <1>2. Waiting(lines') = Waiting(lines)
    <2>1. lines \in Seq(Line) /\ lines' = Append(lines, line)
      BY Scanning
    <2>2. Waiting(lines') = IF line.kind = "extinf" THEN {Len(lines) + 1}
                            ELSE IF line.kind = "url" THEN {} ELSE Waiting(lines)
      BY <2>1, WaitingAfter
    <2>3. parser.pending = None => Waiting(lines) = {}
      BY Scanning
    <2> QED
      BY <2>2, <2>3
  <1>3. \A j \in Waiting(lines) : lines'[j] = lines[j]
    <2>1. lines \in Seq(Line) /\ lines' = Append(lines, line)
      BY Scanning
    <2>2. Waiting(lines) \subseteq 1 .. Len(lines)
      BY <2>1, WaitingBounded
    <2>3. \A j \in 1 .. Len(lines) : lines'[j] = lines[j]
      BY <2>1, OneLineMore
    <2> QED
      BY <2>2, <2>3
  <1>4. ScanInv'
    BY <1>1, <1>2, <1>3, Scanning DEF ScanInv
  <1> QED
    BY <1>4 DEF ParserInv, ReadInv

LEMMA SkipLineKeeps ==
  ASSUME ParserInv, NEW line \in Line, SkipLine(line)
  PROVE  ParserInv'
  <1>1. Reads(line) /\ parser' = parser /\ line.kind \notin {"extinf", "url"}
    BY DEF SkipLine
  <1>2. ParserTypeOK'
    BY <1>1, Scanning DEF ParserInv, ParserTypeOK
  <1> QED
    <2>1. parser'.end = ""
      BY <1>1, Scanning
    <2> QED
      BY <1>1, <1>2, <2>1, PassKeeps

\* A parse that has failed.
LEMMA FailureKeeps ==
  ASSUME ParserInv, lines' \in Seq(Line), parser' = [parser EXCEPT !.end = "failed"]
  PROVE  ParserInv'
  <1>1. parser'.end = "failed"
    BY DEF ParserInv, ParserTypeOK
  <1>2. ParserTypeOK'
    BY DEF ParserInv, ParserTypeOK
  <1> QED
    BY <1>1, <1>2 DEF ParserInv, ScanInv, ReadInv

LEMMA ReadHeaderKeeps ==
  ASSUME ParserInv, NEW line \in Line, ReadHeader(line)
  PROVE  ParserInv'
  <1>1. Reads(line)
    BY DEF ReadHeader
  <1>2. CASE line.kind = "header"
    <2>1. parser' = [parser EXCEPT !.headerSeen = TRUE]
      BY <1>2 DEF ReadHeader
    <2>2. /\ parser'.end = "" /\ parser'.pending = parser.pending
          /\ parser'.entries = parser.entries
      <3>1. parser.end = ""
        BY <1>1, Scanning
      <3> QED
        BY <2>1, <3>1 DEF ParserInv, ParserTypeOK
    <2>3. ParserTypeOK'
      BY <1>1, <2>1, Scanning DEF ParserInv, ParserTypeOK
    <2> QED
      <3>1. line.kind \notin {"extinf", "url"}
        BY <1>2
      <3> QED
        BY <1>1, <2>2, <2>3, <3>1, PassKeeps
  <1>3. CASE line.kind # "header"
    BY <1>1, <1>3, Scanning, FailureKeeps DEF ReadHeader
  <1> QED
    BY <1>2, <1>3

LEMMA ReadExtinfKeeps ==
  ASSUME ParserInv, NEW line \in Line, ReadExtinf(line)
  PROVE  ParserInv'
  <1>1. Reads(line) /\ line.kind = "extinf" /\ parser' = [parser EXCEPT !.pending = line]
    BY DEF ReadExtinf
  <1>2. line \in Extinf
    BY <1>1 DEF Line, UrlLine, Extinf
  <1>3. /\ parser'.end = "" /\ parser'.pending = line /\ parser'.entries = parser.entries
    <2>1. parser.end = ""
      BY <1>1, Scanning
    <2> QED
      BY <1>1, <2>1 DEF ParserInv, ParserTypeOK
  <1>4. ParserTypeOK'
    BY <1>1, <1>2, Scanning DEF ParserInv, ParserTypeOK
  <1>5. Filed(parser.entries, lines', {})
    BY <1>1, Scanning, FileNone
  <1>6. Waiting(lines') = {Len(lines) + 1} /\ lines'[Len(lines) + 1] = line
    <2>1. lines \in Seq(Line) /\ lines' = Append(lines, line)
      BY <1>1, Scanning
    <2> QED
      BY <1>1, <2>1, WaitingAfter, OneLineMore
  <1>7. line # None
    BY <1>1 DEF None
  <1>8. ScanInv'
    BY <1>3, <1>5, <1>6, <1>7 DEF ScanInv
  <1> QED
    BY <1>3, <1>4, <1>8 DEF ParserInv, ReadInv

\* A URL behind an EXTINF line, whole or cut.
LEMMA UrlFiled ==
  ASSUME ParserInv, NEW line \in Line, Reads(line), line.kind = "url",
         parser.pending # None, NEW stumps \in Cuts(Len(lines) + 1)
  PROVE  LET longer == Append(parser.entries,
                              [id |-> parser.pending.id, url |-> FiledUrl(line, stumps)]) IN
         Filed(longer, lines', stumps) /\ longer \in Seq(Listing)
  <1>1. line \in UrlLine
    BY DEF Line, Extinf, UrlLine
  <1>2. Filed(Append(parser.entries, [id |-> parser.pending.id, url |-> FiledUrl(line, stumps)]), lines', stumps)
    <2>1. /\ lines \in Seq(Line) /\ lines' = Append(lines, line)
          /\ parser.entries \in Seq(Listing) /\ Filed(parser.entries, lines, {})
          /\ Waiting(lines) # {} /\ \A j \in Waiting(lines) : parser.pending = lines[j]
          /\ parser.pending \in Extinf
      BY Scanning
    <2> DEFINE list == parser.entries
               extinf == parser.pending
    <2>2. /\ lines \in Seq(Line) /\ list \in Seq(Listing) /\ Filed(list, lines, {})
          /\ Waiting(lines) # {} /\ extinf \in Extinf
          /\ \A j \in Waiting(lines) : extinf = lines[j]
      BY <2>1
    <2> HIDE DEF list, extinf
    <2>3. Filed(Append(list, [id |-> extinf.id, url |-> FiledUrl(line, stumps)]), Append(lines, line), stumps)
      BY <1>1, <2>2, FileOne
    <2> QED
      BY <2>1, <2>3 DEF list, extinf
  <1>3. [id |-> parser.pending.id, url |-> FiledUrl(line, stumps)] \in Listing
    <2>1. parser.pending \in Extinf
      BY Scanning
    <2>2. parser.pending.id \in TvgId \cup {NoId}
      BY <2>1 DEF Extinf
    <2>3. FiledUrl(line, stumps) \in StreamUrl \cup {Stump}
      BY <1>1 DEF UrlLine, FiledUrl
    <2> QED
      BY <2>2, <2>3 DEF Listing
  <1> QED
    <2>1. parser.entries \in Seq(Listing)
      BY Scanning
    <2> QED
      BY <1>2, <1>3, <2>1

LEMMA ReadUrlKeeps ==
  ASSUME ParserInv, NEW line \in Line, ReadUrl(line)
  PROVE  ParserInv'
  <1>1. Reads(line) /\ line.kind = "url" /\ Complete(line.url)
    BY DEF ReadUrl
  <1>2. CASE parser.pending = None
    <2>1. parser' = parser
      BY <1>1, <1>2 DEF Complete
    <2>2. ParserTypeOK'
      BY <1>1, <2>1, Scanning DEF ParserInv, ParserTypeOK
    <2> QED
      BY <1>1, <1>2, <2>1, <2>2, Scanning, PassKeeps
  <1>3. CASE parser.pending # None
    <2> DEFINE longer == Append(parser.entries, [id |-> parser.pending.id, url |-> line.url])
    <2>1. Filed(longer, lines', {}) /\ longer \in Seq(Listing)
      <3>1. {} \in Cuts(Len(lines) + 1) /\ FiledUrl(line, {}) = line.url
        BY DEF Cuts, FiledUrl
      <3> QED
        BY <1>1, <1>3, <3>1, UrlFiled
    <2>2. parser' = [parser EXCEPT !.pending = None, !.entries = longer]
      BY <1>1, <1>3 DEF Complete
    <2> HIDE DEF longer
    <2>3. parser'.end = "" /\ parser'.pending = None /\ parser'.entries = longer
      <3>1. parser.end = ""
        BY <1>1, Scanning
      <3> QED
        BY <2>2, <3>1 DEF ParserInv, ParserTypeOK
    <2>4. ParserTypeOK'
      BY <1>1, <2>1, <2>2, Scanning DEF ParserInv, ParserTypeOK
    <2>5. Waiting(lines') = {}
      BY <1>1, Scanning, WaitingAfter
    <2>6. ScanInv'
      BY <2>1, <2>3, <2>5 DEF ScanInv
    <2> QED
      BY <2>3, <2>4, <2>6 DEF ParserInv, ReadInv
  <1> QED
    BY <1>2, <1>3

LEMMA CutInUrlKeeps ==
  ASSUME ParserInv, NEW line \in Line, CutInUrl(line)
  PROVE  ParserInv'
  <1> DEFINE longer == Append(parser.entries, [id |-> parser.pending.id, url |-> Stump])
             list == IF parser.pending = None THEN parser.entries ELSE longer
  <1>1. /\ Reads(line) /\ line.kind = "url"
        /\ parser' = [parser EXCEPT !.end = "done", !.pending = None, !.entries = list]
    BY DEF CutInUrl
  <1>2. /\ list \in Seq(Listing)
        /\ \E stumps \in {{}, {Len(lines')}} : Filed(list, lines', stumps)
    <2>1. CASE parser.pending = None
      <3>1. Filed(parser.entries, lines', {})
        BY <1>1, <2>1, Scanning, FileNone
      <3> QED
        BY <1>1, <2>1, <3>1, Scanning
    <2>2. CASE parser.pending # None
      <3> DEFINE stumps == {Len(lines) + 1}
      <3>1. /\ stumps = {Len(lines')} /\ stumps \in Cuts(Len(lines) + 1)
            /\ FiledUrl(line, stumps) = Stump
        BY <1>1, Scanning DEF Cuts, FiledUrl
      <3>2. Filed(longer, lines', stumps) /\ longer \in Seq(Listing)
        BY <1>1, <2>2, <3>1, UrlFiled
      <3> QED
        BY <2>2, <3>1, <3>2
    <2> QED
      BY <2>1, <2>2
  <1> HIDE DEF list
  <1>3. parser'.end = "done" /\ parser'.entries = list
    BY <1>1 DEF ParserInv, ParserTypeOK
  <1>4. ParserTypeOK'
    BY <1>1, <1>2, Scanning DEF ParserInv, ParserTypeOK
  <1> QED
    BY <1>2, <1>3, <1>4 DEF ParserInv, ScanInv, ReadInv

LEMMA EndKeeps ==
  ASSUME ParserInv, EndOfBody \/ ReadBreaks
  PROVE  ParserInv'
  <1>1. UNCHANGED lines /\ parser.end = ""
    BY DEF EndOfBody, ReadBreaks
  <1>2. CASE parser' = [parser EXCEPT !.end = "failed"]
    BY <1>1, <1>2, FailureKeeps DEF ParserInv, ParserTypeOK
  <1>3. CASE parser' = [parser EXCEPT !.end = "done"]
    <2>1. parser'.end = "done" /\ parser'.entries = parser.entries
      BY <1>3 DEF ParserInv, ParserTypeOK
    <2>2. ParserTypeOK'
      BY <1>1, <1>3 DEF ParserInv, ParserTypeOK
    <2>3. Filed(parser.entries, lines, {})
      BY <1>1 DEF ParserInv, ScanInv
    <2>4. ReadInv'
      BY <1>1, <2>1, <2>3 DEF ReadInv
    <2> QED
      BY <2>1, <2>2, <2>4 DEF ParserInv, ScanInv
  <1> QED
    BY <1>2, <1>3 DEF EndOfBody, ReadBreaks, Ended

LEMMA NextParser == ParserInv /\ [ParserNext]_parse => ParserInv'
  <1> SUFFICES ASSUME ParserInv, [ParserNext]_parse PROVE ParserInv'
    OBVIOUS
  <1>1. CASE NextBody
    <2>1. ParserInit'
      BY <1>1 DEF NextBody, ParserInit
    <2>2. ParserInit' => ParserInv'
      BY ParserStarts, PTL
    <2> QED
      BY <2>1, <2>2
  <1>2. CASE UNCHANGED parse
    BY <1>2 DEF parse, ParserInv, ParserTypeOK, ScanInv, ReadInv
  <1> QED
    BY <1>1, <1>2, SkipLineKeeps, ReadHeaderKeeps, ReadExtinfKeeps, ReadUrlKeeps,
       CutInUrlKeeps, EndKeeps DEF ParserNext

LEMMA ParserHolds == ParserSpec => []ParserInv
  BY ParserStarts, NextParser, PTL DEF ParserSpec, ParserInit

LEMMA FiledAsListed == ParserInv => EntriesAsListed
  <1> SUFFICES ASSUME ParserInv, parser.end = "done",
                      NEW i \in EntryLines(lines)
               PROVE  LET entry == parser.entries[Nth(lines, i)] IN
                      \/ entry = EntryAt(lines, i)
                      \/ /\ entry = [EntryAt(lines, i) EXCEPT !.url = Stump]
                         /\ \A k \in EntryLines(lines) : k <= i
    BY DEF EntriesAsListed, ParserInv, ReadInv, Filed
  <1>1. PICK stumps \in {{}, {Len(lines)}} : Filed(parser.entries, lines, stumps)
    BY DEF ParserInv, ReadInv
  <1>2. parser.entries[Nth(lines, i)] = Meant(lines, stumps, i)
    BY <1>1 DEF Filed
  <1>3. EntryLines(lines) \subseteq 1 .. Len(lines)
    BY EntryLinesFinite DEF ParserInv, ParserTypeOK
  <1>4. CASE i \in stumps
    <2>1. i = Len(lines)
      BY <1>4
    <2>2. \A k \in EntryLines(lines) : k <= i
      BY <1>3, <2>1
    <2> QED
      BY <1>2, <1>4, <2>2 DEF Meant
  <1>5. CASE i \notin stumps
    BY <1>2, <1>5 DEF Meant
  <1> QED
    BY <1>4, <1>5

LEMMA FiledSpoilsOne == ParserInv => CutSpoilsOneKey
  <1> SUFFICES ASSUME ParserInv, parser.end = "done" PROVE CutSpoilsOneKey
    BY DEF CutSpoilsOneKey
  <1> DEFINE at == EntryLines(lines)
             key(i) == SourceChannelId(EntryAt(lines, i))
             meant == {key(i) : i \in at}
             filed == {SourceChannelId(parser.entries[n]) : n \in DOMAIN parser.entries}
             final == Len(lines)
  <1>1. PICK stumps \in {{}, {final}} : Filed(parser.entries, lines, stumps)
    BY DEF ParserInv, ReadInv
  <1>2. DOMAIN parser.entries = 1 .. Len(parser.entries)
    <2>1. parser.entries \in Seq(Listing)
      BY DEF ParserInv, ParserTypeOK
    <2> QED
      BY <2>1
  <1>3. ASSUME NEW i \in at
        PROVE  /\ SourceChannelId(Meant(lines, stumps, i)) \in {key(i), Stump}
               /\ i # final => SourceChannelId(Meant(lines, stumps, i)) = key(i)
    <2> DEFINE e == EntryAt(lines, i)
    <2>1. /\ [e EXCEPT !.url = Stump].id = e.id
          /\ [e EXCEPT !.url = Stump].url = Stump
      BY DEF EntryAt
    <2> HIDE DEF e
    <2>2. SourceChannelId([e EXCEPT !.url = Stump]) \in {SourceChannelId(e), Stump}
      BY <2>1 DEF SourceChannelId
    <2> QED
      BY <2>2 DEF Meant, e
  <1> HIDE DEF key, final
  <1>4. filed \ meant \subseteq {Stump}
    <2> SUFFICES ASSUME NEW n \in 1 .. Len(parser.entries),
                        SourceChannelId(parser.entries[n]) \notin meant
                 PROVE  SourceChannelId(parser.entries[n]) = Stump
      BY <1>2
    <2>1. PICK i \in at : Nth(lines, i) = n
      BY <1>1 DEF Filed
    <2>2. parser.entries[n] = Meant(lines, stumps, i)
      BY <1>1, <2>1 DEF Filed
    <2> QED
      BY <1>3, <2>1, <2>2
  <1>5. meant \ filed \subseteq {key(final)}
    <2> SUFFICES ASSUME NEW i \in at, key(i) \notin filed PROVE i = final
      OBVIOUS
    <2>1. /\ Nth(lines, i) \in DOMAIN parser.entries
          /\ parser.entries[Nth(lines, i)] = Meant(lines, stumps, i)
      BY <1>1, <1>2 DEF Filed
    <2>2. SourceChannelId(Meant(lines, stumps, i)) \in filed
      BY <2>1
    <2> QED
      BY <1>3, <2>2
  <1>6. Cardinality(meant \ filed) <= 1
    <2> HIDE DEF meant, filed
    <2>1. IsFiniteSet({key(final)}) /\ Cardinality({key(final)}) = 1
      BY FS_Singleton
    <2> QED
      BY <1>5, <2>1, FS_Subset
  <1> QED
    BY <1>4, <1>6 DEF CutSpoilsOneKey, key

\* Bodies of any length: what the parser holds is well typed.
THEOREM ParserTypeCorrect == ParserSpec => []ParserTypeOK
  <1>1. ParserInv => ParserTypeOK
    BY DEF ParserInv
  <1> QED
    BY <1>1, ParserHolds, PTL

\* For bodies of any length, cut anywhere: a playlist that counts as read has
\* one entry for every EXTINF line with a URL, in order and with that URL,
\* but that of the last one may be cut.
THEOREM EntriesAsListedAlways == ParserSpec => []EntriesAsListed
  <1> QED
    BY FiledAsListed, ParserHolds, PTL

\* So a cut files at most one key that is not meant, and loses at most one.
THEOREM CutSpoilsOneKeyAlways == ParserSpec => []CutSpoilsOneKey
  <1> QED
    BY FiledSpoilsOne, ParserHolds, PTL

=============================================================================
