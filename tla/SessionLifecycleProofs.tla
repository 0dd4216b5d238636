----------------------- MODULE SessionLifecycleProofs ------------------------
(***************************************************************************)
(* The life of a session, for any number of sessions, users, channels and  *)
(* requests: what a step can do to a row, and that the service implements  *)
(* SessionLifecycle.                                                       *)
(***************************************************************************)
EXTENDS SessionCapsProofs

(***************************************************************************)
(* A handler ends its session for one of two reasons of its own, and what  *)
(* it writes is not older than the latency of a write.                     *)
(***************************************************************************)

OwnReason == {"client_disconnect", "upstream_error"}

Duly(h) ==
  /\ handler[h].pc \in HandlerPC => handler[h].reason \in OwnReason
  /\ Writing(h) => handler[h].stamp <= WriteLatency

DulyInv == TypeOK /\ \A h \in Handler : Duly(h)

\* The other handlers are where they were.
OnlyMoves(h) == \A g \in Handler \ {h} : handler'[g] = handler[g]

LEMMA OnlyOneMoves ==
  ASSUME TypeOK, NEW h \in Handler,
         \/ HandlerStep(h) \/ ClientLeaves(h)
         \/ \E k \in {"mpegts", "playlist", "segment"}, s \in SessionId : Accept(h, k, s)
  PROVE  OnlyMoves(h)
  BY DEF OnlyMoves, TypeOK, ProxyTypeOK, ClientLeaves, Accept, HandlerStep, VerifyToken, Refuse,
     AcquireStream, LookupChannel, ServeCachedPlaylist, AcquireUpstream, ConnectFails,
     ConnectMPEGTS, FetchPlaylist, CopySegment, PumpChunk, PumpFlush, PumpStops, FinalFlush,
     Account, EndOwnSession, Return, Goto, Leave, Stamp

LEMMA StepIsDuly ==
  ASSUME DulyInv, NEW h \in Handler, HandlerStep(h)
  PROVE  Duly(h)'
<1>1. /\ TypeOK /\ Duly(h)
      /\ handler[h].pc \in HandlerPC => handler[h] \in HandlerState
  BY HandlerLocals DEF DulyInv, TypeOK
<1>2. handler \in [Handler -> HandlerState \cup {NoRequest, Returning}]
  BY <1>1 DEF TypeOK, ProxyTypeOK
<1>3. WriteLatency \in Nat
  BY SessionStoreAssumption
<1>4. CASE handler'[h].pc \notin HandlerPC
  BY <1>4 DEF Duly, Writing, HandlerPC
<1>5. CASE handler'[h].pc \in HandlerPC
  <2>1. handler[h].pc \in HandlerPC
    BY <1>2, <1>5
    DEF HandlerStep, VerifyToken, Refuse, AcquireStream, LookupChannel, ServeCachedPlaylist,
        AcquireUpstream, ConnectFails, ConnectMPEGTS, FetchPlaylist, CopySegment, PumpChunk,
        PumpFlush, PumpStops, FinalFlush, Account, EndOwnSession, Return, Leave, Returning,
        NoRequest, HandlerPC, At
  <2>2. handler[h] \in HandlerState
    BY <1>1, <2>1
  <2>3. \/ /\ handler'[h].reason \in {handler[h].reason} \cup OwnReason
           /\ Writing(h)' => handler'[h].stamp = 0
        \/ handler'[h].pc \notin HandlerPC
    BY <1>2, <2>2
    DEF HandlerStep, VerifyToken, Refuse, AcquireStream, LookupChannel, ServeCachedPlaylist,
        AcquireUpstream, ConnectFails, ConnectMPEGTS, FetchPlaylist, CopySegment, PumpChunk,
        PumpFlush, PumpStops, FinalFlush, Account, EndOwnSession, Return, Leave, Returning,
        NoRequest, HandlerPC, At, Goto, Stamp, HandlerState, OwnReason, Writing
  <2>4. QED
    BY <1>1, <1>3, <1>5, <2>1, <2>3 DEF Duly
<1>6. QED
  BY <1>4, <1>5

LEMMA InitDuly == Init => DulyInv
  BY InitType DEF Init, ProxyInit, NoRequest, DulyInv, Duly, Writing, HandlerPC

LEMMA NextDuly == DulyInv /\ [Next]_vars => DulyInv'
<1> SUFFICES ASSUME DulyInv, [Next]_vars PROVE DulyInv'
  OBVIOUS
<1>1. TypeOK /\ TypeOK'
  BY NextType DEF DulyInv
<1>2. ASSUME NEW h \in Handler, OnlyMoves(h), Duly(h)' PROVE DulyInv'
  BY <1>1, <1>2 DEF DulyInv, OnlyMoves, Duly, Writing
<1>3. CASE UNCHANGED handler
  BY <1>1, <1>3 DEF DulyInv, Duly, Writing
<1>4. CASE Streaming
  <2>1. PICK h \in Handler :
          \/ \E k \in {"mpegts", "playlist", "segment"}, s \in SessionId : Accept(h, k, s)
          \/ HandlerStep(h)
          \/ ClientLeaves(h)
    BY <1>4 DEF Streaming
  <2>2. OnlyMoves(h)
    BY <1>1, <2>1, OnlyOneMoves
  <2>3. CASE \E k \in {"mpegts", "playlist", "segment"}, s \in SessionId : Accept(h, k, s)
    <3>1. handler'[h].pc = "verify" /\ handler'[h].reason = "client_disconnect"
      BY <1>1, <2>3 DEF Accept, TypeOK, ProxyTypeOK
    <3>2. QED
      BY <1>2, <2>2, <3>1 DEF Duly, Writing, OwnReason
  <2>4. CASE ClientLeaves(h)
    <3>1. handler[h] \in HandlerState
      BY <1>1, <2>4 DEF ClientLeaves, TypeOK, ProxyTypeOK, NoRequest, Returning
    <3>2. handler'[h] = [handler[h] EXCEPT !.live = FALSE]
      BY <1>1, <2>4 DEF ClientLeaves, TypeOK, ProxyTypeOK
    <3>3. Duly(h)'
      BY <3>1, <3>2 DEF DulyInv, Duly, Writing, HandlerState
    <3>4. QED
      BY <1>2, <2>2, <3>3
  <2>5. QED
    BY <1>2, <2>1, <2>2, <2>3, <2>4, StepIsDuly
<1>5. CASE Clock
  <2>1. ASSUME NEW h \in Handler PROVE Duly(h)'
    <3>1. CASE At(h, "idle") \/ At(h, "return")
      BY <1>5, <3>1 DEF Clock, Tick, DulyInv, Duly, Writing, At
    <3>2. CASE ~(At(h, "idle") \/ At(h, "return"))
      <4>1. handler[h] \in HandlerState
        BY <1>1, <3>2 DEF At, TypeOK, ProxyTypeOK, NoRequest, Returning
      <4>2. /\ handler'[h].pc = handler[h].pc /\ handler'[h].reason = handler[h].reason
            /\ Writing(h) => handler'[h].stamp = Older(handler[h].stamp)
        BY <1>5, <3>2, <4>1 DEF Clock, Tick, HandlerState
      <4>3. handler[h].stamp \in Nat /\ (Writing(h) => handler[h].stamp < WriteLatency)
        <5>1. handler[h].stamp \in Age
          BY <4>1 DEF HandlerState
        <5>2. handler[h].stamp \in Nat
          BY <5>1, SessionStoreAssumption DEF Age, Stale
        <5>3. QED
          BY <1>5, <5>2 DEF Clock, Tick
      <4>4. Writing(h) => Older(handler[h].stamp) <= WriteLatency
        BY <4>3, StreamProxyAssumption, SessionStoreAssumption DEF Older
      <4>5. QED
        BY <4>2, <4>4 DEF DulyInv, Duly, Writing
    <3>3. QED
      BY <3>1, <3>2
  <2>2. QED
    BY <1>1, <2>1 DEF DulyInv
<1>6. CASE Restart
  BY <1>1, <1>6 DEF Restart, NoRequest, DulyInv, Duly, Writing, HandlerPC
<1>7. QED
  BY <1>3, <1>4, <1>5, <1>6
  DEF Next, Minting, Reaping, Killing, Enabling, Deleting, vars, proxyVars

LEMMA DulyHolds == Spec => []DulyInv
  BY InitDuly, NextDuly, PTL DEF Spec

-----------------------------------------------------------------------------
(***************************************************************************)
(* What a step can do to the tables, and what that is to one row.          *)
(***************************************************************************)

\* CreateSession's INSERT, by a request that was cleared for its user.
Inserts(s, u, c) ==
  /\ sessions[s].status = "free" /\ channels[c] # "deleted" /\ channels' = channels
  /\ ClearedForUser(u) # {}
  /\ \E age \in StampAge : InsertSession(s, u, c, age)

TableStep ==
  \/ UNCHANGED sessions
  \/ Clock
  \/ \E s \in SessionId, age \in Age :
       age <= WriteLatency /\ UpdateSessionLastByte(s, age)
  \/ \E s \in SessionId, why \in OwnReason \cup {"admin_kill"} : EndSession(s, why)
  \/ ReapIdleSessions
  \/ \E s \in SessionId, u \in User, c \in Channel : Inserts(s, u, c)
  \/ \E c \in Channel : CascadeToSessions(c) /\ channels'[c] = "deleted"

\* A channel is not deleted without its sessions, and never comes back.
ChannelStep ==
  \A c \in Channel :
    /\ channels[c] = "deleted" => channels'[c] = "deleted"
    /\ channels'[c] = "deleted" => channels[c] = "deleted" \/ CascadeToSessions(c)

LEMMA MintTableStep ==
  ASSUME TypeOK, NEW m \in Minter, MintStep(m)
  PROVE  TableStep /\ ChannelStep
<1>1. CASE MintInsert(m) /\ channels[mint[m].channel] # "deleted"
  <2>1. /\ mint[m].pc = "insert" /\ channels' = channels
        /\ mint[m].user \in User /\ mint[m].channel \in Channel
    BY <1>1, MintLocals DEF MintInsert, MintAt, Asking, TypeOK
  <2>2. PICK s \in SessionId, age \in StampAge :
          /\ sessions[s].status = "free"
          /\ InsertSession(s, mint[m].user, mint[m].channel, age)
    BY <1>1 DEF MintInsert
  <2>3. m \in ClearedForUser(mint[m].user)
    BY <2>1 DEF ClearedForUser
  <2>4. Inserts(s, mint[m].user, mint[m].channel)
    BY <1>1, <2>1, <2>2, <2>3 DEF Inserts
  <2>5. QED
    BY <2>1, <2>4 DEF TableStep, ChannelStep
<1>2. CASE ~(MintInsert(m) /\ channels[mint[m].channel] # "deleted")
  <2>1. sessions' = sessions /\ channels' = channels
    BY <1>2 DEF MintStep, MintLookup, MintUserCap, MintChannelCap, MintProbe, MintPersistKind,
       MintInsert, MintReadBack, MintRespond, MintFails, storeVars
  <2>2. QED
    BY <2>1 DEF TableStep, ChannelStep
<1>3. QED
  BY <1>1, <1>2

LEMMA HandlerTableStep ==
  ASSUME DulyInv, NEW h \in Handler, HandlerStep(h)
  PROVE  TableStep /\ ChannelStep
<1>1. TypeOK /\ Duly(h) /\ channels' = channels
  BY DEF DulyInv, HandlerStep, VerifyToken, Refuse, AcquireStream, LookupChannel,
     ServeCachedPlaylist, AcquireUpstream, ConnectFails, ConnectMPEGTS, FetchPlaylist,
     CopySegment, PumpChunk, PumpFlush, PumpStops, FinalFlush, Account, EndOwnSession, Return,
     storeVars
<1>2. CASE UNCHANGED sessions
  BY <1>1, <1>2 DEF TableStep, ChannelStep
<1>3. CASE ~UNCHANGED sessions
  <2>1. \/ At(h, "flush") /\ PumpFlush(h)
        \/ At(h, "finalFlush") /\ FinalFlush(h)
        \/ At(h, "account") /\ Account(h)
        \/ At(h, "end") /\ EndOwnSession(h)
    BY <1>3
    DEF HandlerStep, VerifyToken, Refuse, AcquireStream, LookupChannel, ServeCachedPlaylist,
        AcquireUpstream, ConnectFails, ConnectMPEGTS, FetchPlaylist, CopySegment, PumpChunk,
        PumpFlush, PumpStops, FinalFlush, Account, EndOwnSession, Return, storeVars
  <2>2. handler[h] \in HandlerState /\ handler[h].pc \in HandlerPC
    BY <1>1, <2>1, HandlerLocals DEF TypeOK, HandlerPC, At
  <2>3. Sid(h) \in SessionId /\ handler[h].stamp \in Age /\ handler[h].reason \in OwnReason
    BY <1>1, <2>2 DEF HandlerState, Sid, Duly
  <2>4. CASE EndOwnSession(h)
    BY <1>1, <1>3, <2>3, <2>4 DEF EndOwnSession, TableStep, ChannelStep
  <2>5. CASE PumpFlush(h) \/ FinalFlush(h) \/ Account(h)
    <3>1. UpdateSessionLastByte(Sid(h), handler[h].stamp)
      BY <1>3, <2>5 DEF PumpFlush, FinalFlush, Account
    <3>2. handler[h].stamp <= WriteLatency
      BY <1>1, <2>5 DEF Duly, Writing, PumpFlush, FinalFlush, Account, At
    <3>3. QED
      BY <1>1, <2>3, <3>1, <3>2 DEF TableStep, ChannelStep
  <2>6. QED
    BY <2>1, <2>4, <2>5
<1>4. QED
  BY <1>2, <1>3

LEMMA TableSteps ==
  ASSUME DulyInv, [Next]_vars
  PROVE  TableStep /\ ChannelStep
<1>1. TypeOK /\ channels \in [Channel -> {"enabled", "disabled", "deleted"}]
  BY DEF DulyInv, TypeOK, StoreTypeOK
<1>2. CASE Minting
  BY <1>1, <1>2, MintTableStep DEF Minting, MintBegin, storeVars, TableStep, ChannelStep
<1>3. CASE Streaming
  BY <1>3, HandlerTableStep
  DEF Streaming, Accept, ClientLeaves, storeVars, TableStep, ChannelStep
<1>4. CASE Reaping
  BY <1>4 DEF Reaping, ReapIdle, TableStep, ChannelStep
<1>5. CASE Killing
  BY <1>5 DEF Killing, AdminKillSession, TableStep, ChannelStep
<1>6. CASE Enabling
  BY <1>1, <1>6 DEF Enabling, SetChannelEnabled, TableStep, ChannelStep
<1>7. CASE Deleting
  BY <1>1, <1>7 DEF Deleting, DeleteChannel, TableStep, ChannelStep
<1>8. CASE Clock
  BY <1>8 DEF Clock, Tick, TableStep, ChannelStep
<1>9. CASE Restart \/ UNCHANGED vars
  BY <1>9 DEF Restart, vars, storeVars, TableStep, ChannelStep
<1>10. QED
  BY <1>2, <1>3, <1>4, <1>5, <1>6, <1>7, <1>8, <1>9 DEF Next

\* The five things that can happen to a row.
Touched(s) ==
  /\ Active(s)
  /\ \E age \in Age :
       /\ sessions'[s] = [sessions[s] EXCEPT !.idle = age]
       /\ \/ age <= WriteLatency
          \/ Clock /\ age = Older(sessions[s].idle)

Closed(s, why) ==
  /\ Active(s)
  /\ sessions'[s] = [sessions[s] EXCEPT !.status = "ended", !.reason = why]

Opened(s) ==
  /\ sessions[s].status = "free"
  /\ \E u \in User, c \in Channel, age \in StampAge :
       /\ channels[c] # "deleted" /\ channels' = channels
       /\ sessions'[s] = [status |-> "active", user |-> u, channel |-> c,
                          idle |-> age, reason |-> ""]

Forgotten(s) ==
  /\ Active(s) \/ Ended(s)
  /\ sessions'[s] = Deleted /\ channels'[sessions[s].channel] = "deleted"

LEMMA AgingTouches ==
  ASSUME StoreTypeOK, Clock, NEW s \in SessionId
  PROVE  sessions'[s] = sessions[s] \/ Touched(s)
<1>1. CASE Active(s)
  <2>1. Older(sessions[s].idle) \in Age
    BY <1>1, RowOfStatus, OlderAge DEF SessionRow
  <2>2. sessions'[s] = [sessions[s] EXCEPT !.idle = Older(sessions[s].idle)]
    BY <1>1 DEF Clock, Tick, AgeSessions
  <2>3. QED
    BY <1>1, <2>1, <2>2 DEF Touched
<1>2. CASE ~Active(s)
  BY <1>2 DEF Clock, Tick, AgeSessions
<1>3. QED
  BY <1>1, <1>2

LEMMA WritingTouches ==
  ASSUME StoreTypeOK, NEW t \in SessionId, NEW age \in Age, age <= WriteLatency,
         UpdateSessionLastByte(t, age), NEW s \in SessionId
  PROVE  sessions'[s] = sessions[s] \/ Touched(s)
<1>0. sessions \in [SessionId -> Rows]
  BY DEF StoreTypeOK, Rows
<1>1. CASE s = t /\ Active(s)
  <2>1. sessions'[s] = [sessions[s] EXCEPT !.idle = age]
    BY <1>0, <1>1 DEF UpdateSessionLastByte
  <2>2. QED
    BY <1>1, <2>1 DEF Touched
<1>2. CASE ~(s = t /\ Active(s))
  BY <1>0, <1>2 DEF UpdateSessionLastByte
<1>3. QED
  BY <1>1, <1>2

LEMMA RowSteps ==
  ASSUME StoreTypeOK, TableStep, NEW s \in SessionId
  PROVE  \/ sessions'[s] = sessions[s]
         \/ Touched(s)
         \/ \E why \in OwnReason \cup {"admin_kill"} : Closed(s, why)
         \/ Closed(s, "idle") /\ sessions[s].idle > IdleTimeout
         \/ Opened(s)
         \/ Forgotten(s)
<1>1. sessions \in [SessionId -> Rows]
  BY DEF StoreTypeOK, Rows
<1>4. ASSUME NEW t \in SessionId, NEW why, EndSession(t, why)
      PROVE  sessions'[s] = sessions[s] \/ Closed(s, why)
  <2>1. CASE s = t /\ Active(s)
    <3>1. sessions'[s] = [sessions[s] EXCEPT !.status = "ended", !.reason = why]
      BY <1>1, <1>4, <2>1 DEF EndSession
    <3>2. QED
      BY <2>1, <3>1 DEF Closed
  <2>2. CASE ~(s = t /\ Active(s))
    BY <1>1, <1>4, <2>2 DEF EndSession
  <2>3. QED
    BY <2>1, <2>2
<1>5. CASE ReapIdleSessions
  BY <1>5 DEF ReapIdleSessions, Closed
<1>6. ASSUME NEW t \in SessionId, NEW u \in User, NEW c \in Channel, Inserts(t, u, c)
      PROVE  sessions'[s] = sessions[s] \/ Opened(s)
  <2>1. CASE s = t
    <3>1. PICK age \in StampAge :
            sessions'[s] = [status |-> "active", user |-> u, channel |-> c,
                            idle |-> age, reason |-> ""]
      BY <1>1, <1>6, <2>1 DEF Inserts, InsertSession
    <3>2. QED
      BY <1>6, <2>1, <3>1 DEF Inserts, Opened
  <2>2. CASE s # t
    BY <1>1, <1>6, <2>2 DEF Inserts, InsertSession
  <2>3. QED
    BY <2>1, <2>2
<1>7. ASSUME NEW c \in Channel, CascadeToSessions(c), channels'[c] = "deleted"
      PROVE  sessions'[s] = sessions[s] \/ Forgotten(s)
  BY <1>7 DEF CascadeToSessions, Forgotten
<1>8. QED
  BY <1>4, <1>5, <1>6, <1>7, AgingTouches, WritingTouches DEF TableStep

-----------------------------------------------------------------------------
\* EndIsFinal for any number of handlers, sessions and channels: nothing comes
\* after the end of a session but the end of its channel.
THEOREM EndIsFinalAlways == Spec => EndIsFinal
<1> DEFINE Step == \A s \in SessionId :
             Ended(s) => \/ sessions'[s] = sessions[s]
                         \/ channels'[sessions[s].channel] = "deleted"
<1>1. DulyInv /\ [Next]_vars => Step
  <2> SUFFICES ASSUME DulyInv, [Next]_vars, NEW s \in SessionId, Ended(s)
               PROVE  \/ sessions'[s] = sessions[s]
                      \/ channels'[sessions[s].channel] = "deleted"
    OBVIOUS
  <2>1. StoreTypeOK /\ TableStep
    BY TableSteps DEF DulyInv, TypeOK
  <2>2. QED
    BY <2>1, RowSteps DEF Touched, Closed, Opened, Forgotten, Active, Ended
<1>2. QED
  BY <1>1, DulyHolds, PTL DEF Spec, EndIsFinal

LEMMA NextNoOrphans == DulyInv /\ NoOrphanedRows /\ [Next]_vars => NoOrphanedRows'
<1> SUFFICES ASSUME DulyInv, NoOrphanedRows, [Next]_vars,
                    NEW s \in SessionId, (Active(s) \/ Ended(s))'
             PROVE  channels'[sessions'[s].channel] # "deleted"
  BY DEF NoOrphanedRows
<1>1. StoreTypeOK /\ TableStep /\ ChannelStep
  BY TableSteps DEF DulyInv, TypeOK
<1>2. CASE Opened(s)
  <2>1. PICK u \in User, c \in Channel, age \in StampAge :
          /\ channels[c] # "deleted" /\ channels' = channels
          /\ sessions'[s] = [status |-> "active", user |-> u, channel |-> c,
                             idle |-> age, reason |-> ""]
    BY <1>2 DEF Opened
  <2>2. sessions'[s].channel = c
    <3> DEFINE new == [status |-> "active", user |-> u, channel |-> c, idle |-> age,
                       reason |-> ""]
    <3>1. new.channel = c
      OBVIOUS
    <3>2. sessions'[s] = new
      BY <2>1
    <3> HIDE DEF new
    <3>3. QED
      BY <3>1, <3>2
  <2>3. QED
    BY <2>1, <2>2
<1>3. CASE Forgotten(s)
  BY <1>3 DEF Forgotten, Deleted, Active, Ended
<1>4. CASE ~Opened(s) /\ ~Forgotten(s)
  <2>1. (Active(s) \/ Ended(s)) /\ sessions'[s].channel = sessions[s].channel
    <3>1. Active(s) => sessions[s] \in SessionRow
      BY <1>1, RowOfStatus
    <3>2. CASE sessions'[s] = sessions[s]
      BY <3>2 DEF Active, Ended
    <3>3. CASE Touched(s)
      BY <3>1, <3>3 DEF Touched, SessionRow
    <3>4. ASSUME NEW why, Closed(s, why)
          PROVE  Active(s) /\ sessions'[s].channel = sessions[s].channel
      BY <3>1, <3>4 DEF Closed, SessionRow
    <3>5. QED
      BY <1>1, <1>4, <3>2, <3>3, <3>4, RowSteps
  <2>2. sessions[s].channel \in Channel /\ channels[sessions[s].channel] # "deleted"
    BY <1>1, <2>1, RowOfStatus DEF SessionRow, NoOrphanedRows
  <2>3. ~CascadeToSessions(sessions[s].channel)
    BY <2>1 DEF CascadeToSessions, Deleted, Active, Ended
  <2>4. QED
    BY <1>1, <2>1, <2>2, <2>3 DEF ChannelStep
<1>5. QED
  BY <1>2, <1>3, <1>4

\* NoOrphanedRows for any number of requests and channels: no INSERT slips in
\* behind the deletion of its channel.
THEOREM NoOrphanedRowsAlways == Spec => []NoOrphanedRows
<1>1. Init => NoOrphanedRows
  BY DEF Init, StoreInit, NoOrphanedRows, Active, Ended, Free
<1>2. QED
  BY <1>1, NextNoOrphans, DulyHolds, PTL DEF Spec

-----------------------------------------------------------------------------
(***************************************************************************)
(* The reaper and the handlers that still work.                            *)
(***************************************************************************)

\* PumpEndsItsSession for any number of handlers: every path from the upstream
\* request to the return leads through EndSession.
THEOREM PumpEndsItsSessionAlways == Spec => PumpEndsItsSession
<1> DEFINE Step == \A h \in Handler :
             LeavesPump(h) /\ handler[h].live /\ ~WritesMayFail =>
               sessions'[Sid(h)].status # "active"
<1>1. TypeOK /\ [Next]_vars => Step
  <2> SUFFICES ASSUME TypeOK, [Next]_vars,
                      NEW h \in Handler, LeavesPump(h), handler[h].live, ~WritesMayFail
               PROVE  sessions'[Sid(h)].status # "active"
    OBVIOUS
  <2>1. handler[h].pc \in HandlerPC /\ handler[h] \in HandlerState
    BY HandlerLocals DEF LeavesPump, HandlerPC, TypeOK
  <2>2. handler \in [Handler -> HandlerState \cup {NoRequest, Returning}]
    BY DEF TypeOK, ProxyTypeOK
  <2>3. CASE EndOwnSession(h)
    <3>1. EndSession(Sid(h), handler[h].reason)
      BY <2>3 DEF EndOwnSession
    <3>2. Sid(h) \in SessionId /\ sessions \in [SessionId -> Rows]
      BY <2>1 DEF Sid, HandlerState, TypeOK, StoreTypeOK, Rows
    <3>3. CASE Active(Sid(h))
      <4>1. sessions[Sid(h)] \in SessionRow
        BY <3>2, <3>3, RowOfStatus DEF TypeOK
      <4>2. QED
        BY <3>1, <3>2, <3>3, <4>1 DEF EndSession, SessionRow
    <3>4. CASE ~Active(Sid(h))
      BY <3>1, <3>4 DEF EndSession, Active
    <3>5. QED
      BY <3>3, <3>4
  <2>4. CASE HandlerStep(h) /\ ~EndOwnSession(h)
    BY <2>1, <2>2, <2>4
    DEF HandlerStep, VerifyToken, Refuse, AcquireStream, LookupChannel, ServeCachedPlaylist,
        AcquireUpstream, ConnectFails, ConnectMPEGTS, FetchPlaylist, CopySegment, PumpChunk,
        PumpFlush, PumpStops, FinalFlush, Account, Return, At, Goto, Stamp, HandlerState,
        LeavesPump
  <2>5. CASE \/ ClientLeaves(h)
             \/ \E k \in {"mpegts", "playlist", "segment"}, s \in SessionId : Accept(h, k, s)
    BY <2>1, <2>2, <2>5 DEF ClientLeaves, Accept, At, LeavesPump, HandlerState
  <2>6. CASE handler'[h] = handler[h]
    BY <2>6 DEF LeavesPump
  <2>7. CASE Clock
    <3>1. handler'[h].pc = handler[h].pc
      BY <2>1, <2>7 DEF Clock, Tick, HandlerState
    <3>2. QED
      BY <3>1 DEF LeavesPump
  <2>8. CASE Restart
    BY <2>8 DEF Restart, NoRequest, LeavesPump
  <2>9. CASE Streaming
    <3>1. ASSUME NEW g \in Handler, OnlyMoves(g), g # h
          PROVE  handler'[h] = handler[h]
      BY <3>1 DEF OnlyMoves
    <3>2. QED
      BY <2>3, <2>4, <2>5, <2>6, <2>9, <3>1, OnlyOneMoves DEF Streaming
  <2>10. QED
    BY <2>6, <2>7, <2>8, <2>9
    DEF Next, Minting, Reaping, Killing, Enabling, Deleting, vars, proxyVars
<1>2. QED
  BY <1>1, TypeCorrect, PTL DEF Spec, PumpEndsItsSession

\* What the reaper sees of a session whose pump has flushed: the row is not
\* older than the pump's silence and what may come before its next flush.
Flowing(h) ==
  /\ handler[h].pc = "pump" /\ handler[h].flushed /\ handler[h].live
  /\ Active(Sid(h))

Fresh(h) ==
  /\ handler[h].pc \in HandlerPC /\ handler[h].flushed => Pumping(h)
  /\ Flowing(h) =>
       /\ sessions[Sid(h)].idle
            <= handler[h].silent + (FlushInterval - 1) + WriteLatency
       /\ handler[h].sinceFlush < FlushInterval =>
            sessions[Sid(h)].idle <= handler[h].sinceFlush + WriteLatency

FreshInv == ~WritesMayFail => \A h \in Handler : Fresh(h)

\* Apart from the clock, what happens to a row that stays active makes it at
\* most as old as the latency of a write.
LEMMA RowStaysFresh ==
  ASSUME StoreTypeOK, StoreTypeOK', TableStep, ~Clock,
         NEW s \in SessionId, Active(s)'
  PROVE  \/ sessions'[s] = sessions[s]
         \/ sessions'[s].idle <= WriteLatency
<1>1. CASE Touched(s)
  <2>1. PICK age \in Age : /\ sessions'[s] = [sessions[s] EXCEPT !.idle = age]
                           /\ age <= WriteLatency
    BY <1>1 DEF Touched
  <2>2. sessions[s] \in SessionRow
    BY <1>1, RowOfStatus DEF Touched
  <2>3. QED
    BY <2>1, <2>2 DEF SessionRow
<1>2. CASE Opened(s)
  <2>1. PICK u \in User, c \in Channel, age \in StampAge :
          sessions'[s] = [status |-> "active", user |-> u, channel |-> c,
                          idle |-> age, reason |-> ""]
    BY <1>2 DEF Opened
  <2> DEFINE new == [status |-> "active", user |-> u, channel |-> c, idle |-> age,
                     reason |-> ""]
  <2>2. new.idle <= WriteLatency
    BY DEF StampAge
  <2>3. sessions'[s] = new
    BY <2>1
  <2> HIDE DEF new
  <2>4. QED
    BY <2>2, <2>3, StreamProxyAssumption
<1>3. ASSUME NEW why, Closed(s, why)
      PROVE  FALSE
  <2>1. sessions[s] \in SessionRow
    BY <1>3, RowOfStatus DEF Closed
  <2>2. QED
    BY <1>3, <2>1 DEF Closed, Active, SessionRow
<1>4. ~Forgotten(s)
  BY DEF Forgotten, Deleted, Active
<1>5. QED
  BY <1>1, <1>2, <1>3, <1>4, RowSteps

\* The numbers of a handler in the pump.
LEMMA PumpNumbers ==
  ASSUME NEW r \in HandlerState
  PROVE  r.silent \in Nat /\ r.sinceFlush \in Nat /\ r.stamp \in Nat
<1>1. r.silent \in Age /\ r.sinceFlush \in 0 .. FlushInterval /\ r.stamp \in Age
  BY DEF HandlerState
<1>2. QED
  BY <1>1, SessionStoreAssumption, StreamProxyAssumption DEF Age, Stale

LEMMA RowNumbers ==
  ASSUME NEW row \in SessionRow
  PROVE  row.idle \in Nat /\ row.idle <= Stale
<1>1. row.idle \in Age
  BY DEF SessionRow
<1>2. QED
  BY <1>1, SessionStoreAssumption DEF Age, Stale

\* Only the pump keeps a handler that has flushed in the pump.
LEMMA PumpSteps ==
  ASSUME TypeOK, NEW h \in Handler, HandlerStep(h),
         handler[h].pc \in HandlerPC /\ handler[h].flushed => Pumping(h),
         handler'[h].pc \in HandlerPC, handler'[h].flushed
  PROVE  PumpChunk(h) \/ PumpFlush(h)
<1>1. handler \in [Handler -> HandlerState \cup {NoRequest, Returning}]
  BY DEF TypeOK, ProxyTypeOK
<1>2. handler[h].pc \in HandlerPC
  BY <1>1
  DEF HandlerStep, VerifyToken, Refuse, AcquireStream, LookupChannel, ServeCachedPlaylist,
      AcquireUpstream, ConnectFails, ConnectMPEGTS, FetchPlaylist, CopySegment, PumpChunk,
      PumpFlush, PumpStops, FinalFlush, Account, EndOwnSession, Return, Leave, Returning,
      NoRequest, HandlerPC, At
<1>3. handler[h] \in HandlerState
  BY <1>2, HandlerLocals DEF TypeOK
<1>4. QED
  BY <1>1, <1>2, <1>3
  DEF HandlerStep, VerifyToken, Refuse, AcquireStream, LookupChannel, ServeCachedPlaylist,
      AcquireUpstream, ConnectFails, ConnectMPEGTS, FetchPlaylist, CopySegment, PumpStops,
      FinalFlush, Account, EndOwnSession, Return, Leave, Returning, NoRequest, HandlerPC, At,
      Goto, Stamp, Pumping, HandlerState

LEMMA StepIsFresh ==
  ASSUME DulyInv, DulyInv', ~WritesMayFail, TableStep, ~Clock,
         NEW h \in Handler, Fresh(h), HandlerStep(h)
  PROVE  Fresh(h)'
<1>1. TypeOK /\ StoreTypeOK /\ StoreTypeOK'
  BY DEF DulyInv, TypeOK
<1>2. handler \in [Handler -> HandlerState \cup {NoRequest, Returning}]
  BY <1>1 DEF TypeOK, ProxyTypeOK
<1>3. CASE ~(handler'[h].pc \in HandlerPC /\ handler'[h].flushed)
  BY <1>3 DEF Fresh, Flowing, HandlerPC
<1>4. CASE handler'[h].pc \in HandlerPC /\ handler'[h].flushed
  <2>1. PumpChunk(h) \/ PumpFlush(h)
    BY <1>1, <1>4, PumpSteps DEF Fresh
  <2>2. handler[h] \in HandlerState
    BY <1>1, <2>1, HandlerLocals DEF PumpChunk, PumpFlush, At, HandlerPC, TypeOK
  <2>3. /\ handler'[h].sid = handler[h].sid /\ handler'[h].live = handler[h].live
        /\ handler'[h].pc \in {"pump", "flush"} /\ handler[h].sid \in SessionId
    BY <1>2, <2>1, <2>2 DEF PumpChunk, PumpFlush, HandlerState
  <2> DEFINE s == handler[h].sid
  <2>4. ASSUME Flowing(h)'
        PROVE  /\ sessions'[s].idle
                    <= handler'[h].silent + (FlushInterval - 1) + WriteLatency
               /\ handler'[h].sinceFlush < FlushInterval =>
                    sessions'[s].idle <= handler'[h].sinceFlush + WriteLatency
    <3>1. sessions'[s].status = "active" /\ handler[h].live /\ handler'[h].pc = "pump"
      BY <2>3, <2>4 DEF Flowing, Sid, Active
    <3>2. sessions'[s].idle \in Nat
      <4>1. sessions'[s] \in SessionRow
        BY <1>1, <2>3, <3>1 DEF StoreTypeOK, Free, Deleted
      <4>2. QED
        BY <4>1, RowNumbers
    <3>3. CASE PumpChunk(h)
      <4>1. /\ handler[h].pc = "pump" /\ handler[h].sinceFlush < FlushInterval
            /\ handler'[h].silent = 0 /\ handler'[h].flushed = handler[h].flushed
            /\ handler'[h].sinceFlush = handler[h].sinceFlush
            /\ UNCHANGED sessions
        <5>1. handler[h].sinceFlush \in Nat
          BY <2>2, PumpNumbers
        <5>2. QED
          BY <1>2, <2>2, <3>1, <3>3, <5>1, StreamProxyAssumption
          DEF PumpChunk, At, HandlerState, storeVars
      <4>2. Flowing(h)
        BY <1>4, <3>1, <4>1 DEF Flowing, Active, Sid
      <4>3. sessions'[s].idle <= handler[h].sinceFlush + WriteLatency
        BY <4>1, <4>2 DEF Fresh, Sid
      <4>4. QED
        BY <2>2, <3>2, <4>1, <4>3, PumpNumbers, StreamProxyAssumption, SessionStoreAssumption
    <3>4. CASE PumpFlush(h)
      <4>1. /\ UpdateSessionLastByte(s, handler[h].stamp)
            /\ handler'[h].sinceFlush = 0 /\ handler'[h].silent = handler[h].silent
        <5>1. UpdateSessionLastByte(s, handler[h].stamp)
          BY <3>1, <3>4 DEF PumpFlush, Sid
        <5>2. PICK ok \in BOOLEAN :
                handler' = [handler EXCEPT ![h].pc = "pump", ![h].sinceFlush = 0,
                                           ![h].stamp = 0, ![h].flushed = @ \/ ok]
          BY <2>2, <3>4 DEF PumpFlush, HandlerState
        <5>3. QED
          BY <1>2, <2>2, <5>1, <5>2 DEF HandlerState
      <4>2. handler[h].stamp <= WriteLatency
        BY <3>4 DEF DulyInv, Duly, Writing, PumpFlush, At
      <4>3. sessions'[s].idle = handler[h].stamp
        <5>1. Active(s)
          BY <3>1, <4>1 DEF UpdateSessionLastByte, Active
        <5>2. sessions[s] \in SessionRow /\ sessions \in [SessionId -> Rows]
          BY <1>1, <2>3, <5>1, RowOfStatus DEF StoreTypeOK, Rows
        <5>3. sessions'[s] = [sessions[s] EXCEPT !.idle = handler[h].stamp]
          BY <2>3, <4>1, <5>1, <5>2 DEF UpdateSessionLastByte
        <5>4. QED
          BY <5>2, <5>3 DEF SessionRow
      <4>4. QED
        BY <2>2, <3>2, <4>1, <4>2, <4>3, PumpNumbers, StreamProxyAssumption, SessionStoreAssumption
    <3>5. QED
      BY <2>1, <3>3, <3>4
  <2>5. QED
    BY <2>3, <2>4 DEF Fresh, Pumping, Sid
<1>5. QED
  BY <1>3, <1>4

\* The handler stands still while the others and the tables move.
LEMMA StillIsFresh ==
  ASSUME DulyInv, DulyInv', TableStep, ~Clock,
         NEW h \in Handler, Fresh(h), handler'[h] = handler[h]
  PROVE  Fresh(h)'
<1>1. TypeOK /\ StoreTypeOK /\ StoreTypeOK'
  BY DEF DulyInv, TypeOK
<1> DEFINE s == handler[h].sid
<1>2. ASSUME Flowing(h)'
      PROVE  /\ sessions'[s].idle
                  <= handler[h].silent + (FlushInterval - 1) + WriteLatency
             /\ handler[h].sinceFlush < FlushInterval =>
                  sessions'[s].idle <= handler[h].sinceFlush + WriteLatency
  <2>1. handler[h] \in HandlerState
    BY <1>1, <1>2, HandlerLocals DEF Flowing, HandlerPC, TypeOK
  <2>2. s \in SessionId /\ Active(s)'
    BY <1>2, <2>1 DEF Flowing, Sid, HandlerState
  <2>3. CASE sessions'[s] = sessions[s]
    <3>1. Flowing(h)
      BY <1>2, <2>3 DEF Flowing, Active, Sid
    <3>2. QED
      BY <2>3, <3>1 DEF Fresh, Sid
  <2>4. CASE sessions'[s].idle <= WriteLatency
    <3>1. sessions'[s] \in SessionRow
      BY <1>1, <2>2 DEF StoreTypeOK, Active, Free, Deleted
    <3>2. QED
      BY <2>1, <2>4, <3>1, PumpNumbers, RowNumbers, StreamProxyAssumption, SessionStoreAssumption
  <2>5. QED
    BY <1>1, <2>2, <2>3, <2>4, RowStaysFresh
<1>3. QED
  BY <1>2 DEF Fresh, Pumping, Sid

\* The clock makes rows and silences older alike.
LEMMA ClockIsFresh ==
  ASSUME DulyInv, Clock, NEW h \in Handler, Fresh(h)
  PROVE  Fresh(h)'
<1>1. TypeOK /\ StoreTypeOK
  BY DEF DulyInv, TypeOK
<1>2. CASE At(h, "idle") \/ At(h, "return")
  BY <1>2 DEF Clock, Tick, At, Fresh, Flowing, HandlerPC
<1>3. CASE ~(At(h, "idle") \/ At(h, "return"))
  <2>1. handler[h] \in HandlerState
    BY <1>1, <1>3 DEF At, TypeOK, ProxyTypeOK, NoRequest, Returning
  <2>2. /\ handler'[h].pc = handler[h].pc /\ handler'[h].flushed = handler[h].flushed
        /\ handler'[h].live = handler[h].live /\ handler'[h].sid = handler[h].sid
        /\ Pumping(h) => handler'[h].silent = Older(handler[h].silent)
        /\ handler'[h].sinceFlush = IF Pumping(h) /\ handler[h].sinceFlush < FlushInterval
                                    THEN handler[h].sinceFlush + 1
                                    ELSE handler[h].sinceFlush
    BY <1>3, <2>1 DEF Clock, Tick, HandlerState
  <2> DEFINE s == handler[h].sid
  <2>3. ASSUME Flowing(h)'
        PROVE  /\ sessions'[s].idle
                    <= handler'[h].silent + (FlushInterval - 1) + WriteLatency
               /\ handler'[h].sinceFlush < FlushInterval =>
                    sessions'[s].idle <= handler'[h].sinceFlush + WriteLatency
    <3>1. Active(s) /\ s \in SessionId /\ Flowing(h)
      BY <2>1, <2>2, <2>3
      DEF Flowing, Sid, Active, HandlerState, Clock, Tick, AgeSessions
    <3>2. sessions[s] \in SessionRow
      BY <1>1, <3>1, RowOfStatus
    <3>3. sessions'[s].idle = Older(sessions[s].idle)
      BY <3>1, <3>2 DEF Clock, Tick, AgeSessions, SessionRow
    <3>4. /\ sessions[s].idle <= handler[h].silent + (FlushInterval - 1) + WriteLatency
          /\ handler[h].sinceFlush < FlushInterval =>
               sessions[s].idle <= handler[h].sinceFlush + WriteLatency
      BY <3>1 DEF Fresh, Sid
    <3>5. /\ handler'[h].silent = Older(handler[h].silent)
          /\ handler'[h].sinceFlush = IF handler[h].sinceFlush < FlushInterval
                                      THEN handler[h].sinceFlush + 1
                                      ELSE handler[h].sinceFlush
      BY <2>2, <3>1 DEF Flowing, Pumping
    <3>6. /\ sessions[s].idle \in Nat /\ sessions[s].idle <= Stale
          /\ handler[h].silent \in Nat /\ handler[h].sinceFlush \in Nat
      BY <2>1, <3>2, PumpNumbers, RowNumbers
    <3> DEFINE idle == sessions[s].idle
               silent == handler[h].silent
               since == handler[h].sinceFlush
    <3>7. Older(idle) <= Older(silent) + (FlushInterval - 1) + WriteLatency
      BY <3>4, <3>6, SessionStoreAssumption, StreamProxyAssumption DEF Older, Stale
    <3>8. since < FlushInterval => Older(idle) <= since + 1 + WriteLatency
      BY <3>4, <3>6, SessionStoreAssumption, StreamProxyAssumption DEF Older, Stale
    <3>9. QED
      BY <3>3, <3>5, <3>6, <3>7, <3>8, StreamProxyAssumption
  <2>4. QED
    BY <2>2, <2>3 DEF Fresh, Pumping, Sid
<1>4. QED
  BY <1>2, <1>3

LEMMA InitFresh == Init => FreshInv
  BY DEF Init, ProxyInit, NoRequest, FreshInv, Fresh, Flowing, HandlerPC

LEMMA NextFresh == DulyInv /\ DulyInv' /\ FreshInv /\ [Next]_vars => FreshInv'
<1> SUFFICES ASSUME DulyInv, DulyInv', FreshInv, [Next]_vars, ~WritesMayFail,
                    NEW h \in Handler
             PROVE  Fresh(h)'
  BY DEF FreshInv
<1>1. TypeOK /\ TableStep /\ Fresh(h)
  BY TableSteps DEF DulyInv, FreshInv
<1>2. handler \in [Handler -> HandlerState \cup {NoRequest, Returning}]
  BY <1>1 DEF TypeOK, ProxyTypeOK
<1>3. CASE Clock
  BY <1>1, <1>3, ClockIsFresh
<1>4. CASE ~Clock /\ handler'[h] = handler[h]
  BY <1>1, <1>4, StillIsFresh
<1>5. CASE Restart
  BY <1>5 DEF Restart, NoRequest, Fresh, Flowing, HandlerPC
<1>6. CASE ~Clock /\ Streaming
  <2>1. PICK g \in Handler :
          \/ \E k \in {"mpegts", "playlist", "segment"}, s \in SessionId : Accept(g, k, s)
          \/ HandlerStep(g)
          \/ ClientLeaves(g)
    BY <1>6 DEF Streaming
  <2>2. CASE g # h
    BY <1>1, <1>4, <1>6, <2>1, <2>2, OnlyOneMoves DEF OnlyMoves
  <2>3. CASE g = h /\ HandlerStep(h)
    BY <1>1, <1>6, <2>3, StepIsFresh
  <2>4. CASE g = h /\ ClientLeaves(h)
    <3>1. handler[h] \in HandlerState
      BY <1>2, <2>4 DEF ClientLeaves, NoRequest, Returning
    <3>2. handler'[h] = [handler[h] EXCEPT !.live = FALSE]
      BY <1>2, <2>4 DEF ClientLeaves
    <3>3. QED
      BY <1>1, <3>1, <3>2 DEF Fresh, Flowing, Pumping, HandlerState
  <2>5. CASE g = h /\ \E k \in {"mpegts", "playlist", "segment"}, s \in SessionId :
                        Accept(h, k, s)
    <3>1. handler'[h].pc = "verify" /\ handler'[h].flushed = FALSE
      BY <1>2, <2>5 DEF Accept
    <3>2. QED
      BY <3>1 DEF Fresh, Flowing
  <2>6. QED
    BY <2>1, <2>2, <2>3, <2>4, <2>5
<1>7. QED
  BY <1>3, <1>4, <1>5, <1>6
  DEF Next, Minting, Reaping, Killing, Enabling, Deleting, vars, proxyVars

\* ReaperSparesFlowing for any number of handlers and any intervals: a flush is
\* never so late that the reaper takes a session whose bytes flow.
THEOREM ReaperSparesFlowingAlways == Spec => ReaperSparesFlowing
<1> DEFINE Step == \A s \in SessionId, h \in Handler :
             /\ ~WritesMayFail
             /\ Active(s) /\ sessions'[s].status = "ended"
             /\ sessions'[s].reason = "idle"
             /\ handler[h].pc = "pump" /\ handler[h].flushed
             /\ Sid(h) = s /\ handler[h].live
             => handler[h].silent + (FlushInterval - 1) + WriteLatency > IdleTimeout
<1>1. DulyInv /\ FreshInv /\ [Next]_vars => Step
  <2> SUFFICES ASSUME DulyInv, FreshInv, [Next]_vars, NEW s \in SessionId, NEW h \in Handler,
                      ~WritesMayFail, Active(s), sessions'[s].status = "ended",
                      sessions'[s].reason = "idle",
                      handler[h].pc = "pump", handler[h].flushed, Sid(h) = s, handler[h].live
               PROVE  handler[h].silent + (FlushInterval - 1) + WriteLatency > IdleTimeout
    OBVIOUS
  <2>1. StoreTypeOK /\ TableStep /\ sessions[s] \in SessionRow
    BY TableSteps, RowOfStatus DEF DulyInv, TypeOK
  <2>2. sessions[s].idle > IdleTimeout
    <3>1. sessions'[s] # sessions[s] /\ ~Touched(s) /\ ~Opened(s) /\ ~Forgotten(s)
      <4>1. sessions'[s] # sessions[s] /\ ~Opened(s)
        BY DEF Active, Opened
      <4>2. ~Touched(s)
        BY <2>1 DEF Active, Touched, SessionRow
      <4>3. ~Forgotten(s)
        BY DEF Forgotten, Deleted
      <4>4. QED
        BY <4>1, <4>2, <4>3
    <3>2. \A why \in OwnReason \cup {"admin_kill"} : ~Closed(s, why)
      BY <2>1 DEF Closed, OwnReason, SessionRow
    <3>3. QED
      BY <2>1, <3>1, <3>2, RowSteps
  <2>3. sessions[s].idle <= handler[h].silent + (FlushInterval - 1) + WriteLatency
    BY DEF FreshInv, Fresh, Flowing
  <2>4. handler[h] \in HandlerState
    BY HandlerLocals DEF HandlerPC, DulyInv, TypeOK
  <2>5. QED
    BY <2>1, <2>2, <2>3, <2>4, PumpNumbers, RowNumbers, SessionStoreAssumption,
       StreamProxyAssumption
<1>2. QED
  BY <1>1, InitFresh, NextFresh, DulyHolds, PTL DEF Spec, ReaperSparesFlowing

-----------------------------------------------------------------------------
(***************************************************************************)
(* The service implements SessionLifecycle: each thing that happens to the *)
(* table is one of its steps, or none.                                     *)
(***************************************************************************)

LEMMA BookStates ==
  ASSUME StoreTypeOK, NEW s \in SessionId
  PROVE  /\ Book[s].state = "open" <=> Active(s)
         /\ Book[s].state \in {"open", "closed"} <=> Active(s) \/ Ended(s)
         /\ Book[s].state = "unborn" <=> sessions[s].status = "free"
         /\ Active(s) => Book[s].user = sessions[s].user
<1>1. sessions[s].status \in {"free", "deleted", "active", "ended"}
  <2>1. sessions[s] \in SessionRow \/ sessions[s] = Free \/ sessions[s] = Deleted
    BY DEF StoreTypeOK
  <2>2. CASE sessions[s] \in SessionRow
    BY <2>2 DEF SessionRow
  <2>3. CASE sessions[s] = Free
    BY <2>3 DEF Free
  <2>4. CASE sessions[s] = Deleted
    BY <2>4 DEF Deleted
  <2>5. QED
    BY <2>1, <2>2, <2>3, <2>4
<1>2. Book[s] = BookEntry(sessions[s])
  BY DEF Book
<1>3. CASE sessions[s].status = "free"
  <2>1. Book[s] = [state |-> "unborn"]
    BY <1>2, <1>3 DEF BookEntry
  <2>2. QED
    BY <1>3, <2>1 DEF Active, Ended
<1>4. CASE sessions[s].status = "deleted"
  <2>1. Book[s] = [state |-> "gone"]
    BY <1>2, <1>4 DEF BookEntry
  <2>2. QED
    BY <1>4, <2>1 DEF Active, Ended
<1>5. CASE sessions[s].status = "active"
  <2> DEFINE entry == [state |-> "open", user |-> sessions[s].user, why |-> ""]
  <2>1. entry.state = "open" /\ entry.user = sessions[s].user
    OBVIOUS
  <2>2. Book[s] = entry
    BY <1>2, <1>5 DEF BookEntry
  <2> HIDE DEF entry
  <2>3. Book[s].state = "open" /\ Book[s].user = sessions[s].user
    BY <2>1, <2>2
  <2>4. QED
    BY <1>5, <2>3 DEF Active, Ended
<1>6. CASE sessions[s].status = "ended"
  <2>1. Book[s] = [state |-> "closed", user |-> sessions[s].user, why |-> sessions[s].reason]
    BY <1>2, <1>6 DEF BookEntry
  <2>2. Book[s].state = "closed"
    BY <2>1
  <2>3. QED
    BY <1>6, <2>2 DEF Active, Ended
<1>7. QED
  BY <1>1, <1>3, <1>4, <1>5, <1>6

LEMMA InitLifecycle == Init => Lifecycle!Init
<1> SUFFICES ASSUME Init PROVE Lifecycle!Init
  OBVIOUS
<1>1. \A s \in SessionId : BookEntry(sessions[s]) = [state |-> "unborn"]
  BY DEF Init, StoreInit, Free, BookEntry
<1>2. QED
  BY <1>1 DEF Lifecycle!Init, Lifecycle!Unborn, Book

\* Nothing that the owner sees.
LEMMA SameBook ==
  ASSUME StoreTypeOK, StoreTypeOK',
         \A s \in SessionId : sessions'[s] = sessions[s] \/ Touched(s)
  PROVE  Book' = Book
<1>1. ASSUME NEW s \in SessionId, Touched(s)
      PROVE  BookEntry(sessions'[s]) = BookEntry(sessions[s])
  <2>1. sessions[s] \in SessionRow /\ sessions[s].status = "active"
    BY <1>1, RowOfStatus DEF Touched, Active
  <2>2. sessions'[s].status = "active" /\ sessions'[s].user = sessions[s].user
    BY <1>1, <2>1 DEF Touched, SessionRow
  <2>3. QED
    BY <2>1, <2>2 DEF BookEntry
<1>2. QED
  BY <1>1 DEF Book

\* One session ends.
LEMMA CloseStep ==
  ASSUME StoreTypeOK, StoreTypeOK', NEW t \in SessionId,
         NEW why \in OwnReason \cup {"admin_kill"}, EndSession(t, why)
  PROVE  Lifecycle!Close(t, why) \/ Book' = Book
<1>0. sessions \in [SessionId -> Rows]
  BY DEF StoreTypeOK, Rows
<1>1. CASE ~Active(t)
  BY <1>1 DEF EndSession, Book
<1>2. CASE Active(t)
  <2>1. sessions[t] \in SessionRow
    BY <1>2, RowOfStatus
  <2>2. sessions'[t] = [sessions[t] EXCEPT !.status = "ended", !.reason = why]
    BY <1>0, <1>2 DEF EndSession
  <2>3. /\ sessions'[t].status = "ended" /\ sessions'[t].reason = why
        /\ sessions'[t].user = sessions[t].user
    BY <2>1, <2>2 DEF SessionRow
  <2>4. Book'[t] = [state |-> "closed", user |-> sessions[t].user, why |-> why]
    BY <2>3 DEF Book, BookEntry
  <2>5. /\ Book[t].state = "open" /\ Book[t].user = sessions[t].user
    BY <1>2, BookStates
  <2>6. \A s \in SessionId \ {t} : Book'[s] = Book[s]
    BY <1>0, <1>2 DEF EndSession, Book
  <2>7. Book' = [Book EXCEPT ![t] = [state |-> "closed", user |-> Book[t].user, why |-> why]]
    BY <2>4, <2>5, <2>6 DEF Book
  <2>8. QED
    BY <2>5, <2>7 DEF Lifecycle!Close, Lifecycle!Closed
<1>3. QED
  BY <1>1, <1>2

\* The sessions that are idle too long end together.
LEMMA CloseIdleStep ==
  ASSUME StoreTypeOK, StoreTypeOK', ReapIdleSessions
  PROVE  \E S \in SUBSET SessionId : Lifecycle!CloseIdle(S)
<1> DEFINE S == {s \in SessionId : Active(s) /\ sessions[s].idle > IdleTimeout}
<1>1. \A s \in S : Book[s].state = "open"
  BY BookStates
<1>2. ASSUME NEW s \in SessionId
      PROVE  Book'[s] = IF s \in S
                        THEN [state |-> "closed", user |-> Book[s].user, why |-> "idle"]
                        ELSE Book[s]
  <2>1. CASE s \in S
    <3>1. sessions[s] \in SessionRow
      BY <2>1, RowOfStatus
    <3>2. sessions'[s] = [sessions[s] EXCEPT !.status = "ended", !.reason = "idle"]
      BY <2>1 DEF ReapIdleSessions
    <3>3. /\ sessions'[s].status = "ended" /\ sessions'[s].reason = "idle"
          /\ sessions'[s].user = sessions[s].user
      BY <3>1, <3>2 DEF SessionRow
    <3>4. Book'[s] = [state |-> "closed", user |-> sessions[s].user, why |-> "idle"]
      BY <3>3 DEF Book, BookEntry
    <3>5. Book[s].user = sessions[s].user
      BY <2>1, BookStates
    <3>6. QED
      BY <2>1, <3>4, <3>5
  <2>2. CASE s \notin S
    BY <2>2 DEF ReapIdleSessions, Book
  <2>3. QED
    BY <2>1, <2>2
<1>3. S \in SUBSET SessionId
  OBVIOUS
<1> HIDE DEF S
<1>4. Book' = [s \in SessionId |-> IF s \in S
                 THEN [state |-> "closed", user |-> Book[s].user, why |-> "idle"]
                 ELSE Book[s]]
  BY <1>2 DEF Book
<1>5. Lifecycle!CloseIdle(S)
  BY <1>1, <1>4 DEF Lifecycle!CloseIdle, Lifecycle!Closed
<1>6. QED
  BY <1>3, <1>5

\* A channel goes, and its sessions with it.
LEMMA ForgetStep ==
  ASSUME StoreTypeOK, StoreTypeOK', NEW c \in Channel, CascadeToSessions(c)
  PROVE  \E S \in SUBSET SessionId : Lifecycle!Forget(S)
<1> DEFINE S == {s \in SessionId : (Active(s) \/ Ended(s)) /\ sessions[s].channel = c}
<1>1. \A s \in S : Book[s].state \in {"open", "closed"}
  BY BookStates
<1>2. ASSUME NEW s \in SessionId
      PROVE  Book'[s] = IF s \in S THEN [state |-> "gone"] ELSE Book[s]
  <2>1. CASE s \in S
    <3>1. sessions'[s].status = "deleted"
      BY <2>1 DEF CascadeToSessions, Deleted
    <3>2. QED
      BY <2>1, <3>1 DEF Book, BookEntry
  <2>2. CASE s \notin S
    BY <2>2 DEF CascadeToSessions, Book
  <2>3. QED
    BY <2>1, <2>2
<1>3. S \in SUBSET SessionId
  OBVIOUS
<1> HIDE DEF S
<1>4. Book' = [s \in SessionId |-> IF s \in S THEN [state |-> "gone"] ELSE Book[s]]
  BY <1>2 DEF Book
<1>5. Lifecycle!Forget(S)
  BY <1>1, <1>4 DEF Lifecycle!Forget, Lifecycle!Gone
<1>6. QED
  BY <1>3, <1>5

\* A session opens: the request that opens it was cleared, and is counted with
\* the user's sessions until now, so the widened cap is not reached yet.
LEMMA OpenStep ==
  ASSUME StoreTypeOK, StoreTypeOK', CapOvershootBounded,
         NEW t \in SessionId, NEW u \in User, NEW c \in Channel, Inserts(t, u, c)
  PROVE  Lifecycle!Open(t, u)
<1>1. Book[t].state = "unborn"
  BY BookStates DEF Inserts
<1>2. UserCap > 0 => Cardinality(Lifecycle!OpenFor(u)) < UserCap + Cardinality(Minter) - 1
  <2>1. Lifecycle!OpenFor(u) = ActiveOfUser(u)
    <3>1. \A s \in SessionId : Active(s) => Book[s].user = sessions[s].user
      BY BookStates
    <3>2. QED
      BY <3>1, BookStates DEF Lifecycle!OpenFor, ActiveOfUser
  <2>2. /\ Cardinality(ActiveOfUser(u)) \in Nat /\ Cardinality(ClearedForUser(u)) \in Nat
        /\ Cardinality(ClearedForUser(u)) # 0 /\ Cardinality(Minter) \in Nat
    BY CountedFinite, FS_CardinalityType, FS_EmptySet DEF Inserts
  <2>3. UserCap > 0 =>
          Cardinality(ActiveOfUser(u)) + Cardinality(ClearedForUser(u))
            < UserCap + Cardinality(Minter)
    BY DEF CapOvershootBounded
  <2>4. QED
    BY <2>1, <2>2, <2>3, SessionMintingAssumption
<1>3. Book' = [Book EXCEPT ![t] = [state |-> "open", user |-> u, why |-> ""]]
  <2>1. sessions'[t].status = "active" /\ sessions'[t].user = u
    <3>0. PICK age \in StampAge : InsertSession(t, u, c, age)
      BY DEF Inserts
    <3> DEFINE new == [status |-> "active", user |-> u, channel |-> c, idle |-> age,
                       reason |-> ""]
    <3>1. new.status = "active" /\ new.user = u
      OBVIOUS
    <3>2. sessions'[t] = new
      BY <3>0 DEF InsertSession, StoreTypeOK
    <3> HIDE DEF new
    <3>3. QED
      BY <3>1, <3>2
  <2>2. Book'[t] = [state |-> "open", user |-> u, why |-> ""]
    BY <2>1 DEF Book, BookEntry
  <2>3. \A s \in SessionId \ {t} : Book'[s] = Book[s]
    BY DEF Inserts, InsertSession, StoreTypeOK, Book
  <2>4. QED
    BY <2>2, <2>3 DEF Book
<1>4. Lifecycle!Cardinality(Lifecycle!OpenFor(u)) = Cardinality(Lifecycle!OpenFor(u))
  BY DEF Lifecycle!Cardinality, Cardinality
<1>5. QED
  BY <1>1, <1>2, <1>3, <1>4 DEF Lifecycle!Open

LEMMA NextLifecycle ==
  DulyInv /\ CapOvershootBounded /\ [Next]_vars => [Lifecycle!Next]_Book
<1> SUFFICES ASSUME DulyInv, CapOvershootBounded, [Next]_vars
             PROVE  Lifecycle!Next \/ Book' = Book
  OBVIOUS
<1>1. StoreTypeOK /\ StoreTypeOK' /\ TableStep
  BY TableSteps, NextType DEF DulyInv, TypeOK
<1>2. CASE UNCHANGED sessions
  BY <1>2 DEF Book
<1>3. ASSUME Clock \/ \E s \in SessionId, age \in Age :
               age <= WriteLatency /\ UpdateSessionLastByte(s, age)
      PROVE  Book' = Book
  <2>1. \A s \in SessionId : sessions'[s] = sessions[s] \/ Touched(s)
    BY <1>1, <1>3, AgingTouches, WritingTouches
  <2>2. QED
    BY <1>1, <2>1, SameBook
<1>4. ASSUME NEW s \in SessionId, NEW why \in OwnReason \cup {"admin_kill"}, EndSession(s, why)
      PROVE  Lifecycle!Next \/ Book' = Book
  BY <1>1, <1>4, CloseStep DEF OwnReason, Lifecycle!Next
<1>5. CASE ReapIdleSessions
  BY <1>1, <1>5, CloseIdleStep DEF Lifecycle!Next
<1>6. ASSUME NEW s \in SessionId, NEW u \in User, NEW c \in Channel, Inserts(s, u, c)
      PROVE  Lifecycle!Next
  BY <1>1, <1>6, OpenStep DEF Lifecycle!Next
<1>7. ASSUME NEW c \in Channel, CascadeToSessions(c)
      PROVE  Lifecycle!Next
  BY <1>1, <1>7, ForgetStep DEF Lifecycle!Next
<1>8. QED
  BY <1>1, <1>2, <1>3, <1>4, <1>5, <1>6, <1>7 DEF TableStep

\* The service implements SessionLifecycle for any number of sessions, users,
\* channels, requests and any caps: an owner sees one opening, within the cap
\* that overlapping requests widen, and one end with one reason.
THEOREM ImplementsLifecycleAlways == Spec => ImplementsLifecycle
  BY InitLifecycle, NextLifecycle, DulyHolds, CapOvershootBoundedAlways, PTL
  DEF Spec, ImplementsLifecycle, Lifecycle!Spec

=============================================================================
