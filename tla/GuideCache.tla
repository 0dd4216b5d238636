----------------------------- MODULE GuideCache -----------------------------
(***************************************************************************)
(* GET /guide of one user for one start time: the window is cut at the cap *)
(* of the settings snapshot, an answer is cached under the window it is    *)
(* for, and on a miss the tables are read.  A number stands for what the   *)
(* tables say of programmes and channels; it grows with each change.       *)
(***************************************************************************)
EXTENDS SettingsSnapshot, ServerClock, FiniteSets

CONSTANTS
  Client,        \* the requests in flight at once
  Length,        \* window lengths that clients ask for
  TTL,           \* GuideCacheTTL
  SweepAbove,    \* the size above which Set sweeps
  MaxRead,       \* ticks from the first query to Set, at most
  MaxVersion     \* bound: changes of the tables

ASSUME GuideCacheAssumption ==
  /\ Length \subseteq Nat \ {0}
  /\ TTL \in Nat \ {0} /\ MaxRead \in Nat /\ MaxVersion \in Nat
  /\ SweepAbove \in Nat

VARIABLES
  version,       \* what the tables say
  replaced,      \* history: when they ceased to say a version
  cache,         \* per window: the cached body and its expiry
  client         \* per request: where guideWindow is and its locals

guide == <<version, replaced, cache, client>>
guideVars == <<now, settings, guide>>

Version == 0 .. MaxVersion
Window == Cap \cup Length
Body == [window: Window, version: Version]

NoEntry == [expiry |-> 0]
Entry == [expiry: Time \cup Horizon .. Horizon + TTL, body: Body]

\* promised (history) is the window that the settings say, or 0 while they are
\* being changed; age (history) is for how long an answer was out of date when
\* it was given.
Idle == [pc |-> "idle"]
Asked == [pc: {"get", "query"}, window: Window, promised: Window \cup {0}]
Read == [pc: {"set"}, window: Window, promised: Window \cup {0}, at: Time, read: Version]
Answered == [pc: {"answered"}, promised: Window \cup {0}, window: Window, age: Time]

GuideTypeOK ==
  /\ SettingsTypeOK
  /\ now \in Time
  /\ version \in Version
  /\ replaced \in [Version -> Time]
  /\ cache \in [Window -> Entry \cup {NoEntry}]
  /\ client \in [Client -> {Idle} \cup Asked \cup Read \cup Answered]

EmptyCache == cache' = [w \in Window |-> NoEntry]

GuideInit ==
  /\ SettingsInit
  /\ now = 0
  /\ version = 0
  /\ replaced = [v \in Version |-> 0]
  /\ cache = [w \in Window |-> NoEntry]
  /\ client = [c \in Client |-> Idle]

-----------------------------------------------------------------------------
(***************************************************************************)
(* The handler.                                                            *)
(***************************************************************************)

Fresh(w) == cache[w] # NoEntry /\ now <= cache[w].expiry

\* The window asked for, cut at guideCap.
Ask(c, length) ==
  /\ client[c].pc \in {"idle", "answered"}
  /\ client' = [client EXCEPT ![c] =
       [pc |-> "get", window |-> Smaller(length, snapshot),
        promised |-> IF Settled THEN Smaller(length, row) ELSE 0]]
  /\ UNCHANGED <<now, settings, version, replaced, cache>>

Answer(c, body) ==
  client' = [client EXCEPT ![c] =
    [pc |-> "answered", promised |-> client[c].promised, window |-> body.window,
     age |-> IF body.version = version THEN 0 ELSE now - replaced[body.version]]]

\* Slip: an entry that has expired is served.
HitAny(c) ==
  /\ client[c].pc = "get"
  /\ cache[client[c].window] # NoEntry
  /\ Answer(c, cache[client[c].window].body)
  /\ UNCHANGED <<now, settings, version, replaced, cache>>

\* guideCache.Get finds a fresh body.
Hit(c) ==
  /\ client[c].pc = "get"
  /\ Fresh(client[c].window)
  /\ Answer(c, cache[client[c].window].body)
  /\ UNCHANGED <<now, settings, version, replaced, cache>>

\* guideCache.Get finds none, or drops one that has expired.
Miss(c) ==
  /\ client[c].pc = "get"
  /\ ~Fresh(client[c].window)
  /\ cache' = [cache EXCEPT ![client[c].window] = NoEntry]
  /\ client' = [client EXCEPT ![c].pc = "query"]
  /\ UNCHANGED <<now, settings, version, replaced>>

\* VisibleChannelIDsForUser; GuideWindow comes after it, and sees the same or a
\* later version.
Query(c) ==
  /\ client[c].pc = "query"
  /\ client' = [client EXCEPT ![c] =
       [pc |-> "set", window |-> client[c].window, promised |-> client[c].promised,
        at |-> now, read |-> version]]
  /\ UNCHANGED <<now, settings, version, replaced, cache>>

\* One of the two fails, or the client leaves.
QueryFails(c) ==
  /\ client[c].pc \in {"query", "set"}
  /\ client' = [client EXCEPT ![c] = Idle]
  /\ UNCHANGED <<now, settings, version, replaced, cache>>

\* guideCache.Set, and the answer.
Set(c) ==
  /\ client[c].pc = "set"
  /\ LET body == [window |-> client[c].window, version |-> client[c].read]
         full == Cardinality({w \in Window : cache[w] # NoEntry}) > SweepAbove
     IN  /\ cache' = [w \in Window |->
              IF w = client[c].window THEN [expiry |-> now + TTL, body |-> body]
              ELSE IF full /\ ~Fresh(w) THEN NoEntry ELSE cache[w]]
         /\ Answer(c, body)
  /\ UNCHANGED <<now, settings, version, replaced>>

-----------------------------------------------------------------------------
(***************************************************************************)
(* Around it.                                                              *)
(***************************************************************************)

\* A refresh or an administrator changes what the tables say.
ChangeTables ==
  /\ version < MaxVersion
  /\ version' = version + 1
  /\ replaced' = [replaced EXCEPT ![version] = now]
  /\ UNCHANGED <<now, settings, cache, client>>

\* A request whose queries take longer than MaxRead is not modelled.
GuideTick ==
  /\ now < Horizon
  /\ \A c \in Client : client[c].pc = "set" => now < client[c].at + MaxRead
  /\ now' = now + 1
  /\ UNCHANGED <<settings, guide>>

GuideRestart ==
  /\ ReloadAtStart
  /\ EmptyCache
  /\ client' = [c \in Client |-> Idle]
  /\ UNCHANGED <<now, version, replaced>>

GuideNext ==
  \/ SettingsNext /\ UNCHANGED <<now, guide>>
  \/ \E c \in Client :
       \/ \E length \in Length : Ask(c, length)
       \/ Hit(c) \/ Miss(c)
       \/ Query(c) \/ QueryFails(c) \/ Set(c)
  \/ ChangeTables
  \/ GuideTick
  \/ GuideRestart

GuideSpec == GuideInit /\ [][GuideNext]_guideVars

-----------------------------------------------------------------------------
\* After a PUT /admin/settings has answered, "the next stream/guide/reap
\* observes the new values": a guide asked for while no update is under way
\* spans exactly the window asked for, cut at the cap in the row, whether it
\* comes from the tables or from a cache filled under earlier settings.
SettingsReachAnswers ==
  \A c \in Client :
    client[c].pc = "answered" /\ client[c].promised # 0 =>
      client[c].window = client[c].promised

\* A guide says what the tables said at most a lifetime of the cache and one
\* read ago, also when a slow read stores its older body over a newer one.
AnswersFresh ==
  \A c \in Client : client[c].pc = "answered" => client[c].age <= TTL + MaxRead

=============================================================================
