-------------------------- MODULE GuideCacheProofs --------------------------
(***************************************************************************)
(* A guide is never older than the cache and one read allow, and, with one *)
(* update of the settings at a time, it spans what the settings say.  At   *)
(* the end, the types of all the small parts together.                     *)
(***************************************************************************)
EXTENDS MCServerParts, ServerPartsProofs

USE GuideCacheAssumption, CapAssumption, HorizonAssumption

\* When the tables were read and what they said decides until when a body may
\* be served: a version that is no longer theirs was so when the read began.
Dated ==
  /\ \A v \in Version : replaced[v] <= now
  /\ \A c \in Client : client[c].pc = "set" =>
       /\ client[c].at <= now /\ now <= client[c].at + MaxRead
       /\ client[c].read <= version
       /\ client[c].read < version => client[c].at <= replaced[client[c].read]
  /\ \A w \in Window : cache[w] # NoEntry =>
       /\ cache[w].body.version <= version
       /\ cache[w].body.version = version => cache[w].expiry <= now + TTL
       /\ cache[w].body.version < version =>
            cache[w].expiry <= replaced[cache[w].body.version] + MaxRead + TTL

FreshInv == GuideTypeOK /\ Dated /\ AnswersFresh

\* What the settings promise a request while no update is under way, it asks
\* the cache and the tables for; a cached body is for the window it is under.
Promised ==
  /\ \A c \in Client :
       client[c].pc \in {"get", "query", "set", "answered"} /\ client[c].promised # 0 =>
         client[c].window = client[c].promised
  /\ \A w \in Window : cache[w] # NoEntry => cache[w].body.window = w

\* The only update under way knows the row it wrote.
Followed ==
  \A a \in Admin :
    /\ put[a].pc \in {"idle", "answer"} => snapshot = row
    /\ put[a].pc = "apply" => put[a].read = row

SettingsInv == FreshInv /\ Promised /\ Followed

-----------------------------------------------------------------------------
\* Types.

LEMMA SmallerWindow ==
  ASSUME NEW a \in Window, NEW b \in Window
  PROVE  Smaller(a, b) \in Window
  BY DEF Smaller

LEMMA InitTypes == GuideInit => GuideTypeOK
  <1> SUFFICES ASSUME GuideInit PROVE GuideTypeOK
    OBVIOUS
  <1>1. SettingsTypeOK
    BY DEF GuideInit, SettingsInit, SettingsTypeOK, Put
  <1>2. now \in Time /\ version \in Version /\ replaced \in [Version -> Time]
    BY DEF GuideInit, Time, Version
  <1>3. cache \in [Window -> Entry \cup {NoEntry}]
        /\ client \in [Client -> {Idle} \cup Asked \cup Read \cup Answered]
    BY DEF GuideInit
  <1> QED
    BY <1>1, <1>2, <1>3 DEF GuideTypeOK

LEMMA SettingsTypes ==
  ASSUME SettingsTypeOK, SettingsNext \/ ReloadAtStart
  PROVE  SettingsTypeOK'
  <1>1. ASSUME NEW a \in Admin, NEW v \in Cap, UpdateSettings(a, v) PROVE SettingsTypeOK'
    BY <1>1 DEF UpdateSettings, GotoPut, SettingsTypeOK, Put
  <1>2. ASSUME NEW a \in Admin, ReloadRead(a) PROVE SettingsTypeOK'
    BY <1>2 DEF ReloadRead, SettingsTypeOK, Put
  <1>3. ASSUME NEW a \in Admin, ReloadFails(a) PROVE SettingsTypeOK'
    BY <1>3 DEF ReloadFails, GotoPut, SettingsTypeOK, Put
  <1>4. ASSUME NEW a \in Admin, Apply(a) PROVE SettingsTypeOK'
    BY <1>4 DEF Apply, GotoPut, SettingsTypeOK, Put
  <1>5. ASSUME NEW a \in Admin, AnswerPut(a) PROVE SettingsTypeOK'
    BY <1>5 DEF AnswerPut, GotoPut, SettingsTypeOK, Put
  <1>6. CASE ReloadAtStart
    BY <1>6 DEF ReloadAtStart, SettingsTypeOK, Put
  <1> QED
    BY <1>1, <1>2, <1>3, <1>4, <1>5, <1>6 DEF SettingsNext

\* What a request at each stage is.
LEMMA Stages ==
  ASSUME GuideTypeOK, NEW c \in Client
  PROVE  /\ client[c].pc = "idle" => client[c] = Idle
         /\ client[c].pc \in {"get", "query"} =>
              client[c] \in Asked /\ client[c].window \in Window
              /\ client[c].promised \in Window \cup {0}
         /\ client[c].pc = "set" =>
              client[c] \in Read /\ client[c].window \in Window
              /\ client[c].promised \in Window \cup {0}
              /\ client[c].at \in Time /\ client[c].read \in Version
         /\ client[c].pc = "answered" => client[c] \in Answered
         /\ client[c].pc \in {"idle", "get", "query", "set", "answered"}
  <1>1. client[c] \in {Idle} \cup Asked \cup Read \cup Answered
    BY DEF GuideTypeOK
  <1> QED
    BY <1>1 DEF Idle, Asked, Read, Answered

\* What the cache holds.
LEMMA Entries ==
  ASSUME GuideTypeOK, NEW w \in Window, cache[w] # NoEntry
  PROVE  /\ cache[w] \in Entry /\ cache[w].body \in Body
         /\ cache[w].body.window \in Window /\ cache[w].body.version \in Version
         /\ cache[w].expiry \in Nat
  BY DEF GuideTypeOK, Entry, Body, Time

\* An answer is well typed.
LEMMA AnswerTyped ==
  ASSUME GuideTypeOK, Dated, NEW c \in Client, NEW body \in Body,
         client[c].promised \in Window \cup {0}, Answer(c, body)
  PROVE  client' \in [Client -> {Idle} \cup Asked \cup Read \cup Answered]
  <1>1. body.window \in Window /\ body.version \in Version
    BY DEF Body
  <1>2. now - replaced[body.version] \in Time /\ 0 \in Time
    BY <1>1 DEF GuideTypeOK, Dated, Time
  <1>3. [pc |-> "answered", promised |-> client[c].promised, window |-> body.window,
         age |-> IF body.version = version THEN 0 ELSE now - replaced[body.version]]
          \in Answered
    BY <1>1, <1>2 DEF Answered
  <1> QED
    BY <1>3 DEF Answer, GuideTypeOK

-----------------------------------------------------------------------------
\* The age of an answer.

LEMMA InitFresh == GuideInit => FreshInv
  <1> SUFFICES ASSUME GuideInit PROVE FreshInv
    OBVIOUS
  <1>1. GuideTypeOK
    BY InitTypes
  <1>2. Dated
    BY DEF GuideInit, Dated, Idle
  <1>3. AnswersFresh
    BY DEF GuideInit, AnswersFresh, Idle
  <1> QED
    BY <1>1, <1>2, <1>3 DEF FreshInv

LEMMA AskFresh ==
  ASSUME FreshInv, NEW c \in Client, NEW length \in Length, Ask(c, length)
  PROVE  FreshInv'
  <1> DEFINE asked == [pc |-> "get", window |-> Smaller(length, snapshot),
                       promised |-> IF Settled THEN Smaller(length, row) ELSE 0]
  <1>1. asked \in Asked /\ asked.pc = "get"
    <2>1. snapshot \in Window /\ row \in Window /\ length \in Window
      BY DEF FreshInv, GuideTypeOK, SettingsTypeOK, Window
    <2>2. Smaller(length, snapshot) \in Window /\ Smaller(length, row) \in Window
      BY <2>1, SmallerWindow
    <2> QED
      BY <2>2 DEF Asked
  <1>2. client' = [client EXCEPT ![c] = asked]
        /\ UNCHANGED <<now, settings, version, replaced, cache>>
    BY DEF Ask
  <1> HIDE DEF asked
  <1>3. GuideTypeOK'
    BY <1>1, <1>2 DEF FreshInv, GuideTypeOK, SettingsTypeOK, settings
  <1>4. \A d \in Client : client'[d] = client[d] \/ client'[d].pc = "get"
    BY <1>1, <1>2 DEF FreshInv, GuideTypeOK
  <1>5. Dated' /\ AnswersFresh'
    BY <1>2, <1>4 DEF FreshInv, Dated, AnswersFresh
  <1> QED
    BY <1>3, <1>5 DEF FreshInv

\* The body that an answer carries is of the tables now, or was replaced no
\* longer ago than a lifetime and a read.
LEMMA AnswerFresh ==
  ASSUME FreshInv, NEW c \in Client, NEW body \in Body,
         client[c].promised \in Window \cup {0}, Answer(c, body),
         body.version = version \/ now <= replaced[body.version] + MaxRead + TTL,
         UNCHANGED version
  PROVE  /\ client' \in [Client -> {Idle} \cup Asked \cup Read \cup Answered]
         /\ \A d \in Client : client'[d] = client[d] \/ client'[d].pc = "answered"
         /\ AnswersFresh'
  <1> DEFINE answer == [pc |-> "answered", promised |-> client[c].promised,
                        window |-> body.window,
                        age |-> IF body.version = version THEN 0
                                ELSE now - replaced[body.version]]
  <1>1. client' = [client EXCEPT ![c] = answer]
    BY DEF Answer
  <1>2. answer.age <= TTL + MaxRead
    <2>1. now \in Nat /\ replaced[body.version] \in Nat
      BY DEF FreshInv, GuideTypeOK, Body, Time
    <2> QED
      BY <2>1
  <1>3. answer.pc = "answered"
    OBVIOUS
  <1> HIDE DEF answer
  <1>4. client' \in [Client -> {Idle} \cup Asked \cup Read \cup Answered]
    BY AnswerTyped DEF FreshInv
  <1>5. \A d \in Client : client'[d] = IF d = c THEN answer ELSE client[d]
    BY <1>1 DEF FreshInv, GuideTypeOK
  <1> QED
    BY <1>2, <1>3, <1>4, <1>5 DEF FreshInv, AnswersFresh

LEMMA HitFresh ==
  ASSUME FreshInv, NEW c \in Client, Hit(c)
  PROVE  FreshInv'
  <1> DEFINE entry == cache[client[c].window]
  <1>1. /\ client[c].window \in Window /\ client[c].promised \in Window \cup {0}
        /\ entry # NoEntry /\ now <= entry.expiry
        /\ Answer(c, entry.body)
        /\ UNCHANGED <<now, settings, version, replaced, cache>>
    BY Stages DEF Hit, Fresh, FreshInv
  <1>2. entry.body \in Body /\ entry.expiry \in Nat /\ entry.body.version \in Version
    BY <1>1, Entries DEF FreshInv
  <1>3. entry.body.version = version \/ now <= replaced[entry.body.version] + MaxRead + TTL
    <2>1. /\ entry.body.version <= version
          /\ entry.body.version < version =>
               entry.expiry <= replaced[entry.body.version] + MaxRead + TTL
      BY <1>1 DEF FreshInv, Dated
    <2>2. /\ now \in Nat /\ version \in Nat /\ entry.body.version \in Nat
          /\ replaced[entry.body.version] \in Nat
      BY <1>2 DEF FreshInv, GuideTypeOK, Time, Version
    <2> QED
      BY <1>1, <1>2, <2>1, <2>2
  <1> HIDE DEF entry
  <1>4. /\ client' \in [Client -> {Idle} \cup Asked \cup Read \cup Answered]
        /\ \A d \in Client : client'[d] = client[d] \/ client'[d].pc = "answered"
        /\ AnswersFresh'
    BY <1>1, <1>2, <1>3, AnswerFresh
  <1>5. GuideTypeOK'
    BY <1>1, <1>4 DEF FreshInv, GuideTypeOK, SettingsTypeOK, settings
  <1>6. Dated'
    BY <1>1, <1>4 DEF FreshInv, Dated
  <1> QED
    BY <1>4, <1>5, <1>6 DEF FreshInv

LEMMA MissFresh ==
  ASSUME FreshInv, NEW c \in Client, Miss(c)
  PROVE  FreshInv'
  <1>1. client[c] \in Asked /\ client[c].window \in Window
    BY Stages DEF Miss, FreshInv
  <1>2. \A w \in Window : cache'[w] = cache[w] \/ cache'[w] = NoEntry
    BY <1>1 DEF Miss, FreshInv, GuideTypeOK
  <1>3. [client[c] EXCEPT !.pc = "query"] \in Asked
        /\ [client[c] EXCEPT !.pc = "query"].pc = "query"
    BY <1>1 DEF Asked
  <1>4. \A d \in Client : client'[d] = client[d] \/ client'[d].pc = "query"
    BY <1>3 DEF Miss, FreshInv, GuideTypeOK
  <1>5. GuideTypeOK'
    BY <1>1, <1>3 DEF Miss, FreshInv, GuideTypeOK, SettingsTypeOK, settings
  <1>6. Dated' /\ AnswersFresh'
    BY <1>2, <1>4 DEF Miss, FreshInv, Dated, AnswersFresh
  <1> QED
    BY <1>5, <1>6 DEF FreshInv

LEMMA QueryFresh ==
  ASSUME FreshInv, NEW c \in Client, Query(c)
  PROVE  FreshInv'
  <1> DEFINE read == [pc |-> "set", window |-> client[c].window,
                      promised |-> client[c].promised, at |-> now, read |-> version]
  <1>1. client[c].window \in Window /\ client[c].promised \in Window \cup {0}
    BY Stages DEF Query, FreshInv
  <1>2. client' = [client EXCEPT ![c] = read]
        /\ UNCHANGED <<now, settings, version, replaced, cache>>
    BY DEF Query
  <1>3. read \in Read /\ read.pc = "set" /\ read.at = now /\ read.read = version
    BY <1>1 DEF Read, FreshInv, GuideTypeOK
  <1> HIDE DEF read
  <1>4. \A d \in Client : client'[d] = IF d = c THEN read ELSE client[d]
    BY <1>2 DEF FreshInv, GuideTypeOK
  <1>5. GuideTypeOK'
    BY <1>2, <1>3 DEF FreshInv, GuideTypeOK, SettingsTypeOK, settings
  <1>6. Dated'
    <2>1. now \in Nat /\ version \in Nat
      BY DEF FreshInv, GuideTypeOK, Time, Version
    <2> QED
      BY <1>2, <1>3, <1>4, <2>1 DEF FreshInv, Dated
  <1>7. AnswersFresh'
    BY <1>2, <1>3, <1>4 DEF FreshInv, AnswersFresh
  <1> QED
    BY <1>5, <1>6, <1>7 DEF FreshInv

LEMMA QueryFailsFresh ==
  ASSUME FreshInv, NEW c \in Client, QueryFails(c)
  PROVE  FreshInv'
  <1>1. \A d \in Client : client'[d] = client[d] \/ client'[d].pc = "idle"
    BY DEF QueryFails, FreshInv, GuideTypeOK, Idle
  <1>2. GuideTypeOK'
    BY DEF QueryFails, FreshInv, GuideTypeOK, SettingsTypeOK, settings
  <1>3. Dated' /\ AnswersFresh'
    BY <1>1 DEF QueryFails, FreshInv, Dated, AnswersFresh
  <1> QED
    BY <1>2, <1>3 DEF FreshInv

LEMMA SetFresh ==
  ASSUME FreshInv, NEW c \in Client, Set(c)
  PROVE  FreshInv'
  <1> DEFINE body == [window |-> client[c].window, version |-> client[c].read]
             entry == [expiry |-> now + TTL, body |-> body]
  <1>1. /\ client[c].window \in Window /\ client[c].promised \in Window \cup {0}
        /\ client[c].at \in Time /\ client[c].read \in Version
    BY Stages DEF Set, FreshInv
  <1>2. /\ \A w \in Window : cache'[w] = cache[w] \/ cache'[w] = NoEntry \/ cache'[w] = entry
        /\ cache' = [w \in Window |-> cache'[w]]
        /\ Answer(c, body)
        /\ UNCHANGED <<now, settings, version, replaced>>
    BY DEF Set
  <1>3. /\ client[c].at <= now /\ now <= client[c].at + MaxRead
        /\ client[c].read <= version
        /\ client[c].read < version => client[c].at <= replaced[client[c].read]
    BY DEF Set, FreshInv, Dated
  <1>4. /\ now \in Nat /\ now <= Horizon /\ version \in Nat
        /\ client[c].at \in Nat /\ client[c].read \in Nat
        /\ replaced[client[c].read] \in Nat
    BY <1>1 DEF FreshInv, GuideTypeOK, Time, Version
  <1>5. body \in Body /\ body.version = client[c].read /\ entry.body = body
        /\ entry.expiry = now + TTL
    BY <1>1 DEF Body
  <1>6. entry \in Entry
    <2>1. now + TTL \in Time \cup Horizon .. Horizon + TTL
      BY <1>4 DEF Time
    <2> QED
      BY <1>5, <2>1 DEF Entry
  <1> HIDE DEF body, entry
  <1>7. body.version = version \/ now <= replaced[body.version] + MaxRead + TTL
    BY <1>3, <1>4, <1>5
  <1>8. /\ client' \in [Client -> {Idle} \cup Asked \cup Read \cup Answered]
        /\ \A d \in Client : client'[d] = client[d] \/ client'[d].pc = "answered"
        /\ AnswersFresh'
    BY <1>1, <1>2, <1>5, <1>7, AnswerFresh
  <1>9. GuideTypeOK'
    <2>1. \A w \in Window : cache'[w] \in Entry \cup {NoEntry}
      BY <1>2, <1>6 DEF FreshInv, GuideTypeOK
    <2>2. cache' \in [Window -> Entry \cup {NoEntry}]
      BY <1>2, <2>1
    <2> QED
      BY <1>2, <1>8, <2>2 DEF FreshInv, GuideTypeOK, SettingsTypeOK, settings
  <1>10. Dated'
    <2>1. \A d \in Client : client'[d].pc = "set" => client'[d] = client[d]
      BY <1>8
    <2>2. ASSUME NEW w \in Window, cache'[w] # NoEntry
          PROVE  /\ cache'[w].body.version <= version
                 /\ cache'[w].body.version = version => cache'[w].expiry <= now + TTL
                 /\ cache'[w].body.version < version =>
                      cache'[w].expiry <= replaced[cache'[w].body.version] + MaxRead + TTL
      <3>1. CASE cache'[w] = entry
        BY <3>1, <1>3, <1>4, <1>5
      <3>2. CASE cache'[w] = cache[w]
        BY <2>2, <3>2 DEF FreshInv, Dated
      <3> QED
        BY <2>2, <1>2, <3>1, <3>2
    <2> QED
      BY <1>2, <2>1, <2>2 DEF FreshInv, Dated
  <1> QED
    BY <1>8, <1>9, <1>10 DEF FreshInv

LEMMA ChangeTablesFresh ==
  ASSUME FreshInv, ChangeTables
  PROVE  FreshInv'
  <1>1. /\ now \in Nat /\ version \in Nat /\ version < MaxVersion /\ version' = version + 1
        /\ replaced' = [replaced EXCEPT ![version] = now]
        /\ UNCHANGED <<now, settings, cache, client>>
    BY DEF ChangeTables, FreshInv, GuideTypeOK, Time, Version
  <1>2. version \in Version /\ \A v \in Version :
          v \in Nat /\ replaced[v] \in Nat /\ replaced'[v] = IF v = version THEN now ELSE replaced[v]
    BY <1>1 DEF FreshInv, GuideTypeOK, Version, Time
  <1>3. GuideTypeOK'
    <2>1. version' \in Version /\ replaced' \in [Version -> Time]
      BY <1>1 DEF FreshInv, GuideTypeOK, Version
    <2> QED
      BY <1>1, <2>1 DEF FreshInv, GuideTypeOK, SettingsTypeOK, settings
  <1>4. Dated'
    <2>1. \A v \in Version : replaced'[v] <= now'
      BY <1>1, <1>2 DEF FreshInv, Dated
    <2>2. ASSUME NEW c \in Client, client[c].pc = "set"
          PROVE  /\ client[c].at <= now /\ now <= client[c].at + MaxRead
                 /\ client[c].read <= version'
                 /\ client[c].read < version' => client[c].at <= replaced'[client[c].read]
      <3>1. client[c].read \in Version /\ client[c].at \in Nat
        BY <2>2, Stages DEF FreshInv, Time
      <3>2. /\ client[c].at <= now /\ now <= client[c].at + MaxRead
            /\ client[c].read <= version
            /\ client[c].read < version => client[c].at <= replaced[client[c].read]
        BY <2>2 DEF FreshInv, Dated
      <3>3. /\ client[c].read \in Nat /\ replaced[client[c].read] \in Nat
            /\ replaced'[client[c].read] = IF client[c].read = version THEN now
                                           ELSE replaced[client[c].read]
        BY <1>2, <3>1
      <3> QED
        BY <1>1, <3>1, <3>2, <3>3
    <2>3. ASSUME NEW w \in Window, cache[w] # NoEntry
          PROVE  /\ cache[w].body.version <= version'
                 /\ cache[w].body.version # version'
                 /\ cache[w].expiry <= replaced'[cache[w].body.version] + MaxRead + TTL
      <3>1. cache[w].body.version \in Version /\ cache[w].expiry \in Nat
        BY <2>3, Entries DEF FreshInv
      <3>2. /\ cache[w].body.version <= version
            /\ cache[w].body.version = version => cache[w].expiry <= now + TTL
            /\ cache[w].body.version < version =>
                 cache[w].expiry <= replaced[cache[w].body.version] + MaxRead + TTL
        BY <2>3 DEF FreshInv, Dated
      <3> DEFINE v == cache[w].body.version
      <3>3. /\ v \in Nat /\ replaced[v] \in Nat
            /\ replaced'[v] = IF v = version THEN now ELSE replaced[v]
        BY <1>2, <3>1
      <3>4. version \in Nat /\ version' = version + 1 /\ now \in Nat
        BY <1>1
      <3>5. v <= version' /\ v # version'
        <4>1. v <= version
          BY <3>2
        <4> QED
          BY <4>1, <3>3, <3>4
      <3>6. cache[w].expiry <= replaced'[v] + MaxRead + TTL
        <4>1. CASE v = version
          <5>1. replaced'[v] = now /\ cache[w].expiry <= now + TTL
            BY <4>1, <3>2, <3>3
          <5> QED
            BY <5>1, <3>1, <3>4
        <4>2. CASE v # version
          <5>1. v < version
            BY <4>2, <3>2, <3>3, <3>4
          <5>2. replaced'[v] = replaced[v]
            BY <4>2, <3>3
          <5> QED
            BY <5>1, <5>2, <3>2
        <4> QED
          BY <4>1, <4>2
      <3> QED
        BY <3>5, <3>6
    <2> QED
      BY <1>1, <2>1, <2>2, <2>3 DEF Dated
  <1>5. AnswersFresh'
    BY <1>1 DEF FreshInv, AnswersFresh
  <1> QED
    BY <1>3, <1>4, <1>5 DEF FreshInv

LEMMA GuideTickFresh ==
  ASSUME FreshInv, GuideTick
  PROVE  FreshInv'
  <1>1. /\ now \in Nat /\ now < Horizon /\ now' = now + 1 /\ now' \in Nat
        /\ \A c \in Client : client[c].pc = "set" => now < client[c].at + MaxRead
        /\ UNCHANGED <<settings, guide>>
    BY DEF GuideTick, FreshInv, GuideTypeOK, Time
  <1>2. GuideTypeOK'
    BY <1>1 DEF FreshInv, GuideTypeOK, SettingsTypeOK, settings, guide, Time
  <1>3. Dated'
    <2>1. \A v \in Version : replaced[v] \in Nat /\ replaced[v] <= now
      BY DEF FreshInv, GuideTypeOK, Dated, Time
    <2>2. ASSUME NEW c \in Client, client[c].pc = "set"
          PROVE  client[c].at <= now' /\ now' <= client[c].at + MaxRead
      <3>1. client[c].at \in Nat
        BY <2>2, Stages DEF FreshInv, Time
      <3> QED
        BY <1>1, <2>2, <3>1 DEF FreshInv, Dated
    <2>3. ASSUME NEW w \in Window, cache[w] # NoEntry, cache[w].body.version = version
          PROVE  cache[w].expiry <= now' + TTL
      <3>1. cache[w].expiry \in Nat /\ cache[w].expiry <= now + TTL
        BY <2>3, Entries DEF FreshInv, Dated
      <3> QED
        BY <1>1, <3>1
    <2> QED
      BY <1>1, <2>1, <2>2, <2>3 DEF FreshInv, Dated, guide
  <1>4. AnswersFresh'
    BY <1>1 DEF FreshInv, AnswersFresh, guide
  <1> QED
    BY <1>2, <1>3, <1>4 DEF FreshInv

LEMMA RestartFresh ==
  ASSUME FreshInv, GuideRestart
  PROVE  FreshInv'
  <1>1. SettingsTypeOK'
    BY SettingsTypes DEF GuideRestart, FreshInv, GuideTypeOK
  <1>2. GuideTypeOK'
    BY <1>1 DEF GuideRestart, EmptyCache, FreshInv, GuideTypeOK
  <1>3. Dated' /\ AnswersFresh'
    BY DEF GuideRestart, EmptyCache, FreshInv, Dated, AnswersFresh, Idle
  <1> QED
    BY <1>2, <1>3 DEF FreshInv

LEMMA NextFresh == FreshInv /\ [GuideNext]_guideVars => FreshInv'
  <1> SUFFICES ASSUME FreshInv, [GuideNext]_guideVars
               PROVE  FreshInv'
    OBVIOUS
  <1>1. CASE SettingsNext /\ UNCHANGED <<now, guide>>
    <2>1. SettingsTypeOK'
      BY <1>1, SettingsTypes DEF FreshInv, GuideTypeOK
    <2> QED
      BY <1>1, <2>1 DEF FreshInv, GuideTypeOK, Dated, AnswersFresh, guide
  <1>2. ASSUME NEW c \in Client, NEW length \in Length, Ask(c, length) PROVE FreshInv'
    BY <1>2, AskFresh
  <1>3. ASSUME NEW c \in Client, Hit(c) PROVE FreshInv'
    BY <1>3, HitFresh
  <1>4. ASSUME NEW c \in Client, Miss(c) PROVE FreshInv'
    BY <1>4, MissFresh
  <1>5. ASSUME NEW c \in Client, Query(c) PROVE FreshInv'
    BY <1>5, QueryFresh
  <1>6. ASSUME NEW c \in Client, QueryFails(c) PROVE FreshInv'
    BY <1>6, QueryFailsFresh
  <1>7. ASSUME NEW c \in Client, Set(c) PROVE FreshInv'
    BY <1>7, SetFresh
  <1>8. CASE ChangeTables
    BY <1>8, ChangeTablesFresh
  <1>9. CASE GuideTick
    BY <1>9, GuideTickFresh
  <1>10. CASE GuideRestart
    BY <1>10, RestartFresh
  <1>11. CASE UNCHANGED guideVars
    BY <1>11 DEF guideVars, guide, settings, FreshInv, GuideTypeOK, SettingsTypeOK,
                 Dated, AnswersFresh
  <1> QED
    BY <1>1, <1>2, <1>3, <1>4, <1>5, <1>6, <1>7, <1>8, <1>9, <1>10, <1>11 DEF GuideNext

THEOREM FreshInvariant == GuideSpec => []FreshInv
  BY InitFresh, NextFresh, PTL DEF GuideSpec

\* Requests, cache and settings are well typed.
THEOREM GuideTypeCorrect == GuideSpec => []GuideTypeOK
  <1>1. FreshInv => GuideTypeOK
    BY DEF FreshInv
  <1> QED
    BY <1>1, FreshInvariant, PTL

\* Whatever the order in which requests miss, read and fill the cache, a guide
\* is out of date by at most the lifetime of an entry and one read.
THEOREM AnswersFreshAlways == GuideSpec => []AnswersFresh
  <1>1. FreshInv => AnswersFresh
    BY DEF FreshInv
  <1> QED
    BY <1>1, FreshInvariant, PTL

-----------------------------------------------------------------------------
\* The settings, with one update at a time.

LEMMA InitSettings == GuideInit => SettingsInv
  <1> SUFFICES ASSUME GuideInit PROVE SettingsInv
    OBVIOUS
  <1>1. FreshInv
    BY InitFresh
  <1>2. Promised /\ Followed
    BY DEF GuideInit, SettingsInit, Promised, Followed, Idle
  <1> QED
    BY <1>1, <1>2 DEF SettingsInv

LEMMA UpdateFollowed ==
  ASSUME SettingsTypeOK, Followed, \A a, b \in Admin : a = b, SettingsNext
  PROVE  Followed'
  <1>1. ASSUME NEW a \in Admin, NEW v \in Cap, UpdateSettings(a, v) PROVE Followed'
    BY <1>1 DEF UpdateSettings, GotoPut, SettingsTypeOK, Put, Followed
  <1>2. ASSUME NEW a \in Admin, ReloadRead(a) PROVE Followed'
    BY <1>2 DEF ReloadRead, SettingsTypeOK, Put, Followed
  <1>3. ASSUME NEW a \in Admin, ReloadFails(a) PROVE Followed'
    BY <1>3 DEF ReloadFails, GotoPut, SettingsTypeOK, Put, Followed
  <1>4. ASSUME NEW a \in Admin, Apply(a) PROVE Followed'
    BY <1>4 DEF Apply, GotoPut, SettingsTypeOK, Put, Followed
  <1>5. ASSUME NEW a \in Admin, AnswerPut(a) PROVE Followed'
    BY <1>5 DEF AnswerPut, GotoPut, SettingsTypeOK, Put, Followed
  <1> QED
    BY <1>1, <1>2, <1>3, <1>4, <1>5 DEF SettingsNext

\* The snapshot is the row while no update is under way.
LEMMA SettledSnapshot ==
  ASSUME Followed, Settled, Admin # {}
  PROVE  snapshot = row
  BY DEF Followed, Settled

LEMMA RequestPromised ==
  ASSUME SettingsInv, Admin # {}, NEW c \in Client,
         \/ \E length \in Length : Ask(c, length)
         \/ Hit(c) \/ Miss(c) \/ Query(c) \/ QueryFails(c) \/ Set(c)
  PROVE  Promised'
  <1>1. GuideTypeOK /\ Promised
    BY DEF SettingsInv, FreshInv
  <1>2. ASSUME NEW length \in Length, Ask(c, length) PROVE Promised'
    <2>1. client' = [client EXCEPT ![c] =
            [pc |-> "get", window |-> Smaller(length, snapshot),
             promised |-> IF Settled THEN Smaller(length, row) ELSE 0]]
          /\ cache' = cache
      BY <1>2 DEF Ask
    <2>2. Settled => snapshot = row
      BY SettledSnapshot DEF SettingsInv
    <2> QED
      BY <1>1, <2>1, <2>2 DEF GuideTypeOK, Promised
  <1>3. CASE Hit(c)
    <2>1. client[c].window \in Window /\ cache[client[c].window] # NoEntry
          /\ Answer(c, cache[client[c].window].body) /\ cache' = cache
          /\ client[c].pc = "get"
      BY <1>1, <1>3, Stages DEF Hit, Fresh
    <2>2. cache[client[c].window].body.window = client[c].window
      BY <1>1, <2>1 DEF Promised
    <2> QED
      BY <1>1, <2>1, <2>2 DEF Answer, GuideTypeOK, Promised
  <1>4. CASE Miss(c)
    <2>1. client[c] \in Asked /\ client[c].pc = "get" /\ client[c].window \in Window
      BY <1>1, <1>4, Stages DEF Miss
    <2>2. \A w \in Window : cache'[w] = cache[w] \/ cache'[w] = NoEntry
      BY <1>1, <1>4, <2>1 DEF Miss, GuideTypeOK
    <2>3. \A d \in Client :
            client'[d] = IF d = c THEN [client[c] EXCEPT !.pc = "query"] ELSE client[d]
      BY <1>1, <1>4 DEF Miss, GuideTypeOK
    <2>4. [client[c] EXCEPT !.pc = "query"].window = client[c].window
          /\ [client[c] EXCEPT !.pc = "query"].promised = client[c].promised
      BY <2>1 DEF Asked
    <2> QED
      BY <1>1, <2>1, <2>2, <2>3, <2>4 DEF Promised
  <1>5. CASE Query(c)
    BY <1>1, <1>5 DEF Query, GuideTypeOK, Promised
  <1>6. CASE QueryFails(c)
    BY <1>1, <1>6 DEF QueryFails, GuideTypeOK, Promised, Idle
  <1>7. CASE Set(c)
    <2> DEFINE body == [window |-> client[c].window, version |-> client[c].read]
    <2>1. /\ client[c].pc = "set" /\ Answer(c, body)
          /\ \A w \in Window :
               \/ cache'[w] = cache[w] \/ cache'[w] = NoEntry
               \/ w = client[c].window /\ cache'[w] = [expiry |-> now + TTL, body |-> body]
      BY <1>7 DEF Set
    <2>2. body.window = client[c].window
      OBVIOUS
    <2> HIDE DEF body
    <2> QED
      BY <1>1, <2>1, <2>2 DEF Answer, GuideTypeOK, Promised
  <1> QED
    BY <1>2, <1>3, <1>4, <1>5, <1>6, <1>7

LEMMA NextSettings ==
  ASSUME Admin # {}, \A a, b \in Admin : a = b
  PROVE  SettingsInv /\ [GuideNext]_guideVars => SettingsInv'
  <1> SUFFICES ASSUME SettingsInv, [GuideNext]_guideVars
               PROVE  SettingsInv'
    OBVIOUS
  <1>1. FreshInv'
    BY NextFresh DEF SettingsInv
  <1>2. CASE SettingsNext /\ UNCHANGED <<now, guide>>
    <2>1. Followed'
      BY <1>2, UpdateFollowed DEF SettingsInv, FreshInv, GuideTypeOK
    <2>2. Promised'
      BY <1>2 DEF SettingsInv, Promised, guide
    <2> QED
      BY <1>1, <2>1, <2>2 DEF SettingsInv
  <1>3. ASSUME NEW c \in Client,
               \/ \E length \in Length : Ask(c, length)
               \/ Hit(c) \/ Miss(c) \/ Query(c) \/ QueryFails(c) \/ Set(c)
        PROVE  SettingsInv'
    <2>1. UNCHANGED settings
      BY <1>3 DEF Ask, Hit, Miss, Query, QueryFails, Set
    <2>2. Followed'
      BY <2>1 DEF SettingsInv, Followed, settings
    <2>3. Promised'
      BY <1>3, RequestPromised
    <2> QED
      BY <1>1, <2>2, <2>3 DEF SettingsInv
  <1>4. CASE ChangeTables \/ GuideTick \/ UNCHANGED guideVars
    BY <1>1, <1>4 DEF ChangeTables, GuideTick, guideVars, guide, settings,
                      SettingsInv, Promised, Followed
  <1>5. CASE GuideRestart
    <2>1. Followed'
      BY <1>5 DEF GuideRestart, ReloadAtStart, Followed
    <2>2. Promised'
      BY <1>5 DEF GuideRestart, EmptyCache, Promised, Idle
    <2> QED
      BY <1>1, <2>1, <2>2 DEF SettingsInv
  <1> QED
    BY <1>2, <1>3, <1>4, <1>5 DEF GuideNext

\* With one PUT at a time, what a PUT has answered reaches every later guide,
\* through a cache that was filled under other settings and after restarts.
THEOREM SettingsReachAnswersAlone ==
  ASSUME Admin # {}, \A a, b \in Admin : a = b
  PROVE  GuideSpec => []SettingsReachAnswers
  <1>1. GuideInit => SettingsInv
    BY InitSettings
  <1>2. SettingsInv /\ [GuideNext]_guideVars => SettingsInv'
    BY NextSettings
  <1>3. SettingsInv => SettingsReachAnswers
    BY DEF SettingsInv, Promised, SettingsReachAnswers
  <1> QED
    BY <1>1, <1>2, <1>3, PTL DEF GuideSpec

-----------------------------------------------------------------------------
(***************************************************************************)
(* The parts together, as MCServerParts has them: one moves, with its own  *)
(* invariant; the clock that it moves is a time, which is all that the     *)
(* types of the others need to know.                                       *)
(***************************************************************************)

\* The parts that read no clock keep their invariants whoever moves.
Untimed == WalkInv /\ StarsInv /\ ParserInv /\ OverridesTypeOK

Moving ==
  /\ part = "limiter" => BucketsInv
  /\ part = "guide" => FreshInv
  /\ part = "hls" => HlsInv
  /\ part = "tiles" => TilesInv

PartsInv == TypeOK /\ part \in Part /\ Untimed /\ Moving

LEMMA InitParts == Init => PartsInv
  <1> SUFFICES ASSUME Init PROVE PartsInv
    OBVIOUS
  <1>1. BucketsInv /\ FreshInv /\ HlsInv /\ TilesInv
    BY InitBuckets, InitFresh, InitHls, InitTiles DEF Init
  <1>2. Untimed
    BY InitWalk, InitStars, ParserStarts, InitOverrides DEF Init, Untimed
  <1>3. TypeOK
    BY <1>1, <1>2, StarsTyped
    DEF TypeOK, BucketsInv, FreshInv, HlsInv, TilesInv, Untimed, WalkInv, ParserInv
  <1> QED
    BY <1>1, <1>2, <1>3 DEF Init, PartsInv, Moving

LEMMA UntimedKept ==
  ASSUME Untimed, [Next]_vars
  PROVE  Untimed'
  <1>1. [PagesNext]_pages
    BY DEF Next, vars
  <1>2. [PageNext]_<<favorites, page>>
    BY DEF Next, vars, stars
  <1>3. [ParserNext]_parse
    BY DEF Next, vars
  <1>4. [OverridesNext]_overrides
    BY DEF Next, vars
  <1> QED
    BY <1>1, <1>2, <1>3, <1>4, NextWalk, NextStars, NextParser, NextOverrides DEF Untimed

\* A part that does not move is as it was, whatever time it is.
LEMMA RestTyped ==
  ASSUME now' \in Time
  PROVE  /\ LimiterTypeOK /\ UNCHANGED limiter => LimiterTypeOK'
         /\ GuideTypeOK /\ UNCHANGED <<settings, guide>> => GuideTypeOK'
         /\ HlsTypeOK /\ UNCHANGED hls => HlsTypeOK'
         /\ TilesTypeOK /\ UNCHANGED tiles => TilesTypeOK'
  <1>1. LimiterTypeOK /\ UNCHANGED limiter => LimiterTypeOK'
    BY DEF LimiterTypeOK, limiter
  <1>2. GuideTypeOK /\ UNCHANGED <<settings, guide>> => GuideTypeOK'
    BY DEF GuideTypeOK, SettingsTypeOK, settings, guide
  <1>3. HlsTypeOK /\ UNCHANGED hls => HlsTypeOK'
    BY DEF HlsTypeOK, hls
  <1>4. TilesTypeOK /\ UNCHANGED tiles => TilesTypeOK'
    BY DEF TilesTypeOK, tiles
  <1> QED
    BY <1>1, <1>2, <1>3, <1>4

LEMMA NextParts == PartsInv /\ [Next]_vars => PartsInv'
  <1> SUFFICES ASSUME PartsInv, [Next]_vars PROVE PartsInv'
    OBVIOUS
  <1>1. Untimed'
    BY UntimedKept DEF PartsInv
  <1>2. part' = part /\ part \in Part
    BY DEF Next, vars, PartsInv
  <1>3. /\ part = "limiter" => BucketsInv'
        /\ part = "guide" => FreshInv'
        /\ part = "hls" => HlsInv'
        /\ part = "tiles" => TilesInv'
    <2>1. part = "limiter" => [LimiterNext]_<<now, limiter>>
      BY DEF Next, vars
    <2>2. part = "guide" => [GuideNext]_guideVars
      BY DEF Next, vars, guideVars
    <2>3. part = "hls" => [HlsNext]_hlsVars
      BY DEF Next, vars, hlsVars
    <2>4. part = "tiles" => [TilesNext]_tilesVars
      BY DEF Next, vars, tilesVars
    <2> QED
      BY <2>1, <2>2, <2>3, <2>4, NextBuckets, NextFresh, NextHls, NextTiles
      DEF PartsInv, Moving
  <1>4. now' \in Time
    <2>1. CASE part \in {"limiter", "guide", "hls", "tiles"}
      BY <1>3, <2>1
      DEF BucketsInv, FreshInv, HlsInv, TilesInv,
          LimiterTypeOK, GuideTypeOK, HlsTypeOK, TilesTypeOK
    <2>2. CASE part \notin {"limiter", "guide", "hls", "tiles"}
      BY <2>2 DEF Next, vars, PartsInv, TypeOK, LimiterTypeOK
    <2> QED
      BY <2>1, <2>2
  <1>5. /\ part # "limiter" => UNCHANGED limiter
        /\ part # "guide" => UNCHANGED <<settings, guide>>
        /\ part # "hls" => UNCHANGED hls
        /\ part # "tiles" => UNCHANGED tiles
    BY DEF Next, vars
  <1>6. LimiterTypeOK' /\ GuideTypeOK' /\ HlsTypeOK' /\ TilesTypeOK'
    BY <1>3, <1>4, <1>5, RestTyped
    DEF PartsInv, TypeOK, BucketsInv, FreshInv, HlsInv, TilesInv
  <1>7. PagesTypeOK' /\ PageTypeOK' /\ ParserTypeOK' /\ OverridesTypeOK'
    <2>1. PageTypeOK'
      BY <1>1, StarsTyped, PTL DEF Untimed
    <2> QED
      BY <1>1, <2>1 DEF Untimed, WalkInv, ParserInv
  <1>8. TypeOK'
    BY <1>6, <1>7 DEF TypeOK
  <1> QED
    BY <1>1, <1>2, <1>3, <1>8 DEF PartsInv, Moving

\* Whichever part moves, for any users, channels, caps and lifetimes, all of
\* them are well typed, and those at rest stay so under the clock of the others.
THEOREM PartsTypeCorrect == Spec => []TypeOK
  <1>1. PartsInv => TypeOK
    BY DEF PartsInv
  <1> QED
    BY <1>1, InitParts, NextParts, PTL DEF Spec

=============================================================================
