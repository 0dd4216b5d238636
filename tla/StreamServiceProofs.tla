------------------------- MODULE StreamServiceProofs -------------------------
(***************************************************************************)
(* Proofs about StreamService, for any number of sessions, users,          *)
(* channels, requests and any caps.                                        *)
(***************************************************************************)
EXTENDS StreamService, FiniteSetTheorems, TLAPS

Rows == SessionRow \cup {Free, Deleted}

(***************************************************************************)
(* The statements keep the table well typed.                               *)
(***************************************************************************)

\* An active or ended row has all its columns; a blank has none.
LEMMA RowOfStatus ==
  ASSUME StoreTypeOK, NEW s \in SessionId, Active(s) \/ Ended(s)
  PROVE  sessions[s] \in SessionRow
  BY DEF StoreTypeOK, Active, Ended, Free, Deleted

LEMMA OlderAge ==
  ASSUME NEW age \in Age
  PROVE  Older(age) \in Age
  BY SessionStoreAssumption DEF Age, Older, Stale

LEMMA InsertType ==
  ASSUME StoreTypeOK, NEW s \in SessionId, NEW u \in User, NEW c \in Channel,
         NEW age \in Age, InsertSession(s, u, c, age)
  PROVE  sessions' \in [SessionId -> Rows]
<1>1. [status |-> "active", user |-> u, channel |-> c, idle |-> age, reason |-> ""]
        \in SessionRow
  BY DEF SessionRow
<1>2. QED
  BY <1>1 DEF StoreTypeOK, InsertSession, Rows

LEMMA TouchType ==
  ASSUME StoreTypeOK, NEW s \in SessionId, NEW age \in Age,
         UpdateSessionLastByte(s, age)
  PROVE  sessions' \in [SessionId -> Rows]
<1>1. CASE Active(s)
  <2>1. sessions[s] \in SessionRow
    BY <1>1, RowOfStatus
  <2>2. [sessions[s] EXCEPT !.idle = age] \in SessionRow
    BY <2>1 DEF SessionRow
  <2>3. QED
    BY <1>1, <2>2 DEF StoreTypeOK, UpdateSessionLastByte, Rows
<1>2. CASE ~Active(s)
  BY <1>2 DEF StoreTypeOK, UpdateSessionLastByte, Rows
<1>3. QED
  BY <1>1, <1>2

LEMMA EndType ==
  ASSUME StoreTypeOK, NEW s \in SessionId, NEW why \in EndReason,
         EndSession(s, why)
  PROVE  sessions' \in [SessionId -> Rows]
<1>1. CASE Active(s)
  <2>1. sessions[s] \in SessionRow
    BY <1>1, RowOfStatus
  <2>2. [sessions[s] EXCEPT !.status = "ended", !.reason = why] \in SessionRow
    BY <2>1 DEF SessionRow
  <2>3. QED
    BY <1>1, <2>2 DEF StoreTypeOK, EndSession, Rows
<1>2. CASE ~Active(s)
  BY <1>2 DEF StoreTypeOK, EndSession, Rows
<1>3. QED
  BY <1>1, <1>2

LEMMA ReapType ==
  ASSUME StoreTypeOK, ReapIdleSessions
  PROVE  sessions' \in [SessionId -> Rows]
<1>1. ASSUME NEW s \in SessionId, Active(s)
      PROVE  [sessions[s] EXCEPT !.status = "ended", !.reason = "idle"] \in SessionRow
  BY <1>1, RowOfStatus DEF SessionRow, EndReason
<1>2. QED
  BY <1>1 DEF StoreTypeOK, ReapIdleSessions, Rows

LEMMA CascadeType ==
  ASSUME StoreTypeOK, NEW c \in Channel, CascadeToSessions(c)
  PROVE  sessions' \in [SessionId -> Rows]
  BY DEF StoreTypeOK, CascadeToSessions, Rows

LEMMA AgeType ==
  ASSUME StoreTypeOK, AgeSessions
  PROVE  sessions' \in [SessionId -> Rows]
<1>1. ASSUME NEW s \in SessionId, Active(s)
      PROVE  [sessions[s] EXCEPT !.idle = Older(@)] \in SessionRow
  <2>1. sessions[s] \in SessionRow
    BY <1>1, RowOfStatus
  <2>2. Older(sessions[s].idle) \in Age
    BY <2>1, OlderAge DEF SessionRow
  <2>3. QED
    BY <2>1, <2>2 DEF SessionRow
<1>2. QED
  BY <1>1 DEF StoreTypeOK, AgeSessions, Rows

-----------------------------------------------------------------------------
(***************************************************************************)
(* Every step keeps every variable well typed.                             *)
(***************************************************************************)

Requests == Asking \cup Minted \cup {Idling}

\* The program counter of a request tells which local variables it has.
LEMMA MintLocals ==
  ASSUME MintTypeOK, NEW m \in Minter
  PROVE  /\ mint[m].pc \in {"lookup", "userCap", "channelCap", "probe",
                            "persist", "insert"} => mint[m] \in Asking
         /\ mint[m].pc \in {"readBack", "tune"} => mint[m] \in Minted
         /\ mint[m].pc = "idle" => mint[m] = Idling
  BY DEF MintTypeOK, Asking, Minted, Idling

LEMMA MintDoneType ==
  ASSUME MintTypeOK, NEW m \in Minter, MintDone(m)
  PROVE  mint' \in [Minter -> Requests]
  BY DEF MintTypeOK, MintDone, Requests

LEMMA MintToAskingType ==
  ASSUME MintTypeOK, NEW m \in Minter, mint[m] \in Asking,
         NEW pc \in {"lookup", "userCap", "channelCap", "probe", "persist",
                     "insert"},
         NEW k \in Kind,
         mint' = [mint EXCEPT ![m].pc = pc, ![m].kind = k]
  PROVE  mint' \in [Minter -> Requests]
<1>1. [mint[m] EXCEPT !.pc = pc, !.kind = k] \in Asking
  BY DEF Asking
<1>2. QED
  BY <1>1 DEF MintTypeOK, Requests

LEMMA MintToType ==
  ASSUME MintTypeOK, NEW m \in Minter, mint[m] \in Asking,
         NEW pc \in {"lookup", "userCap", "channelCap", "probe", "persist",
                     "insert"},
         MintTo(m, pc)
  PROVE  mint' \in [Minter -> Requests]
<1>1. [mint[m] EXCEPT !.pc = pc] \in Asking
  BY DEF Asking
<1>2. QED
  BY <1>1 DEF MintTypeOK, Requests, MintTo

LEMMA MintStepType ==
  ASSUME StoreTypeOK, MintTypeOK, NEW m \in Minter, MintStep(m)
  PROVE  StoreTypeOK' /\ MintTypeOK'
<1> USE MintLocals, MintDoneType
<1> DEFINE k == mint[m].kind
<1>1. CASE MintLookup(m)
  <2>1. mint[m] \in Asking /\ kind[mint[m].channel] \in Kind
    BY <1>1 DEF MintLookup, MintAt, MintTypeOK, Asking
  <2>2. mint' \in [Minter -> Requests]
    BY <1>1, <2>1, MintToAskingType DEF MintLookup
  <2>3. QED
    BY <1>1, <2>2
    DEF MintLookup, storeVars, StoreTypeOK, MintTypeOK, Requests, Active
<1>2. CASE MintUserCap(m)
  <2>1. mint[m] \in Asking
    BY <1>2 DEF MintUserCap, MintAt
  <2>2. mint' \in [Minter -> Requests]
    BY <1>2, <2>1, MintToType DEF MintUserCap
  <2>3. QED
    BY <1>2, <2>2 DEF MintUserCap, storeVars, StoreTypeOK, MintTypeOK, Requests
<1>3. CASE MintChannelCap(m)
  <2>1. mint[m] \in Asking
    BY <1>3 DEF MintChannelCap, MintAt
  <2>2. mint' \in [Minter -> Requests]
    BY <1>3, <2>1, MintToType DEF MintChannelCap
  <2>3. QED
    BY <1>3, <2>2
    DEF MintChannelCap, storeVars, StoreTypeOK, MintTypeOK, Requests
<1>4. CASE MintProbe(m)
  <2>1. mint[m] \in Asking
    BY <1>4 DEF MintProbe, MintAt
  <2>2. mint' \in [Minter -> Requests]
    BY <1>4, <2>1, MintToAskingType DEF MintProbe, Kind
  <2>3. QED
    BY <1>4, <2>2 DEF MintProbe, storeVars, StoreTypeOK, MintTypeOK, Requests
<1>5. CASE MintPersistKind(m)
  <2>1. mint[m] \in Asking
    BY <1>5 DEF MintPersistKind, MintAt
  <2>2. mint' \in [Minter -> Requests]
    BY <1>5, <2>1, MintToType DEF MintPersistKind
  <2>3. kind' \in [Channel -> Kind]
    BY <1>5, <2>1 DEF MintPersistKind, MintTypeOK, Asking
  <2>4. QED
    BY <1>5, <2>2, <2>3
    DEF MintPersistKind, storeVars, StoreTypeOK, MintTypeOK, Requests
<1>6. CASE MintInsert(m)
  <2>1. /\ mint[m] \in Asking
        /\ mint[m].user \in User
        /\ mint[m].channel \in Channel
    BY <1>6 DEF MintInsert, MintAt, Asking
  <2>2. CASE channels[mint[m].channel] = "deleted"
    BY <1>6, <2>2
    DEF MintInsert, StoreTypeOK, MintTypeOK, Requests
  <2>3. CASE channels[mint[m].channel] # "deleted"
    <3>1. PICK s \in SessionId, age \in Age :
            /\ InsertSession(s, mint[m].user, mint[m].channel, age)
            /\ mint' = [mint EXCEPT ![m] =
                         [pc |-> "readBack", user |-> mint[m].user,
                          channel |-> mint[m].channel, sid |-> s]]
      BY <1>6, <2>3 DEF MintInsert, StampAge
    <3>2. [pc |-> "readBack", user |-> mint[m].user,
           channel |-> mint[m].channel, sid |-> s] \in Minted
      BY <2>1 DEF Minted
    <3>3. mint' \in [Minter -> Requests]
      BY <3>1, <3>2 DEF MintTypeOK, Requests
    <3>4. sessions' \in [SessionId -> Rows]
      BY <2>1, <3>1, InsertType
    <3>5. QED
      BY <1>6, <3>3, <3>4 DEF MintInsert, StoreTypeOK, MintTypeOK, Requests, Rows
  <2>4. QED
    BY <2>2, <2>3
<1>7. CASE MintReadBack(m)
  <2>1. mint[m] \in Minted
    BY <1>7 DEF MintReadBack, MintAt
  <2>2. [mint[m] EXCEPT !.pc = "tune"] \in Minted
    BY <2>1 DEF Minted
  <2>3. mint' \in [Minter -> Requests]
    BY <1>7, <2>2 DEF MintReadBack, MintTo, MintTypeOK, Requests
  <2>4. QED
    BY <1>7, <2>3 DEF MintReadBack, storeVars, StoreTypeOK, MintTypeOK, Requests
<1>8. CASE MintRespond(m)
  <2>1. /\ mint[m].user \in User
        /\ mint[m].channel \in Channel
        /\ mint[m].sid \in SessionId
    BY <1>8 DEF MintRespond, MintAt, Minted
  <2>2. mint' \in [Minter -> Requests]
    BY <1>8 DEF MintRespond
  <2>3. granted' \in SUBSET SessionId /\ recent' \in SUBSET (User \X Channel)
    BY <1>8, <2>1 DEF MintRespond, StoreTypeOK, MintTypeOK
  <2>4. QED
    BY <1>8, <2>2, <2>3 DEF MintRespond, StoreTypeOK, MintTypeOK, Requests
<1>9. CASE MintFails(m)
  BY <1>9 DEF MintFails, storeVars, StoreTypeOK, MintTypeOK, Requests
<1>10. QED
  BY <1>1, <1>2, <1>3, <1>4, <1>5, <1>6, <1>7, <1>8, <1>9 DEF MintStep

-----------------------------------------------------------------------------
Works == HandlerState \cup {NoRequest, Returning}

LEMMA HandlerLocals ==
  ASSUME ProxyTypeOK, NEW h \in Handler, handler[h].pc \in HandlerPC
  PROVE  handler[h] \in HandlerState
  BY DEF ProxyTypeOK, HandlerPC, NoRequest, Returning

LEMMA GotoType ==
  ASSUME ProxyTypeOK, NEW h \in Handler, handler[h] \in HandlerState,
         NEW pc \in HandlerPC, Goto(h, pc)
  PROVE  handler' \in [Handler -> Works]
<1>1. [handler[h] EXCEPT !.pc = pc] \in HandlerState
  BY DEF HandlerState
<1>2. QED
  BY <1>1 DEF ProxyTypeOK, Goto, Works

LEMMA StampType ==
  ASSUME ProxyTypeOK, NEW h \in Handler, handler[h] \in HandlerState,
         NEW pc \in HandlerPC, Stamp(h, pc)
  PROVE  handler' \in [Handler -> Works]
<1>1. [handler[h] EXCEPT !.pc = pc, !.stamp = 0] \in HandlerState
  <2>1. 0 \in Age
    BY SessionStoreAssumption DEF Age, Stale
  <2>2. QED
    BY <2>1 DEF HandlerState
<1>2. QED
  BY <1>1 DEF ProxyTypeOK, Stamp, Works

LEMMA LeaveType ==
  ASSUME ProxyTypeOK, NEW h \in Handler, Leave(h)
  PROVE  handler' \in [Handler -> Works]
  BY DEF ProxyTypeOK, Leave, Works

LEMMA SemaphoreType ==
  ASSUME NEW cap \in Nat, NEW cur \in Nat
  PROVE  Acquired(cap, cur) \in Nat /\ Released(cap, cur) \in Nat
  BY DEF Acquired, Released

\* How a step leaves the variables of the proxy well typed.
LEMMA ProxyTyped ==
  ASSUME ProxyTypeOK, handler' \in [Handler -> Works], UNCHANGED slotVars
  PROVE  ProxyTypeOK'
  BY DEF ProxyTypeOK, Works, slotVars

LEMMA HandlerStepType ==
  ASSUME StoreTypeOK, ProxyTypeOK, NEW h \in Handler, HandlerStep(h)
  PROVE  StoreTypeOK' /\ ProxyTypeOK'
<1> USE HandlerLocals
<1>0. 0 \in Age
  BY SessionStoreAssumption DEF Age, Stale
<1>1. CASE VerifyToken(h)
  <2>1. handler[h] \in HandlerState
    BY <1>1 DEF VerifyToken, At, HandlerPC
  <2>2. handler' \in [Handler -> Works]
    BY <1>1, <2>1, GotoType, LeaveType DEF VerifyToken, HandlerPC
  <2>3. QED
    BY <1>1, <2>2, ProxyTyped DEF VerifyToken, storeVars, StoreTypeOK
<1>2. CASE Refuse(h)
  <2>1. handler' \in [Handler -> Works]
    BY <1>2, LeaveType DEF Refuse
  <2>2. QED
    BY <1>2, <2>1, ProxyTyped DEF Refuse, storeVars, StoreTypeOK
<1>3. CASE LookupChannel(h)
  <2>1. handler[h] \in HandlerState
    BY <1>3 DEF LookupChannel, At, HandlerPC
  <2>2. handler' \in [Handler -> Works]
    BY <1>3, <2>1, GotoType, LeaveType DEF LookupChannel, HandlerPC
  <2>3. QED
    BY <1>3, <2>2, ProxyTyped DEF LookupChannel, storeVars, StoreTypeOK
<1>4. CASE ConnectMPEGTS(h)
  <2>1. handler[h] \in HandlerState
    BY <1>4 DEF ConnectMPEGTS, At, HandlerPC
  <2>2. handler' \in [Handler -> Works]
    BY <1>4, <2>1, GotoType, LeaveType DEF ConnectMPEGTS, HandlerPC
  <2>3. QED
    BY <1>4, <2>2, ProxyTyped DEF ConnectMPEGTS, storeVars, StoreTypeOK
<1>5. CASE ServeCachedPlaylist(h)
  <2>1. handler[h] \in HandlerState
    BY <1>5 DEF ServeCachedPlaylist, At, HandlerPC
  <2>2. handler' \in [Handler -> Works]
    BY <1>5, <2>1, StampType DEF ServeCachedPlaylist, HandlerPC
  <2>3. QED
    BY <1>5, <2>2, ProxyTyped DEF ServeCachedPlaylist, storeVars, StoreTypeOK
<1>6. CASE CopySegment(h)
  <2>1. handler[h] \in HandlerState
    BY <1>6 DEF CopySegment, At, HandlerPC
  <2>2. handler' \in [Handler -> Works]
    BY <1>6, <2>1, StampType, LeaveType DEF CopySegment, HandlerPC
  <2>3. QED
    BY <1>6, <2>2, ProxyTyped DEF CopySegment, storeVars, StoreTypeOK
<1>7. CASE AcquireStream(h)
  <2>1. handler[h] \in HandlerState
    BY <1>7 DEF AcquireStream, At, HandlerPC
  <2>2. handler' \in [Handler -> Works]
    BY <1>7, <2>1, GotoType, LeaveType DEF AcquireStream, HandlerPC
  <2>3. streamSem' \in Nat /\ upstreamSem' \in Nat
    BY <1>7, SemaphoreType, StreamProxyAssumption DEF AcquireStream, ProxyTypeOK
  <2>4. deferred' \in [Handler -> SUBSET Slot]
    BY <1>7 DEF AcquireStream, ProxyTypeOK, Slot
  <2>5. QED
    BY <1>7, <2>2, <2>3, <2>4
    DEF AcquireStream, storeVars, StoreTypeOK, ProxyTypeOK, Works
<1>8. CASE AcquireUpstream(h)
  <2>1. handler[h] \in HandlerState
    BY <1>8 DEF AcquireUpstream, At, HandlerPC
  <2>2. handler' \in [Handler -> Works]
    BY <1>8, <2>1, GotoType, LeaveType DEF AcquireUpstream, HandlerPC
  <2>3. upstreamSem' \in Nat /\ streamSem' \in Nat
    BY <1>8, SemaphoreType, StreamProxyAssumption DEF AcquireUpstream, ProxyTypeOK
  <2>4. deferred' \in [Handler -> SUBSET Slot]
    BY <1>8 DEF AcquireUpstream, ProxyTypeOK, Slot
  <2>5. QED
    BY <1>8, <2>2, <2>3, <2>4
    DEF AcquireUpstream, storeVars, StoreTypeOK, ProxyTypeOK, Works
<1>9. CASE FetchPlaylist(h)
  <2>1. handler[h] \in HandlerState
    BY <1>9 DEF FetchPlaylist, At, HandlerPC
  <2>2. handler' \in [Handler -> Works]
    BY <1>9, <2>1, StampType DEF FetchPlaylist, HandlerPC
  <2>3. streamSem' \in Nat /\ upstreamSem' \in Nat
    BY <1>9, SemaphoreType, StreamProxyAssumption DEF FetchPlaylist, ProxyTypeOK
  <2>4. deferred' \in [Handler -> SUBSET Slot]
    BY <1>9 DEF FetchPlaylist, ProxyTypeOK
  <2>5. QED
    BY <1>9, <2>2, <2>3, <2>4
    DEF FetchPlaylist, storeVars, StoreTypeOK, ProxyTypeOK, Works
<1>10. CASE ConnectFails(h)
  <2>1. handler[h] \in HandlerState
    BY <1>10 DEF ConnectFails, At, HandlerPC
  <2>2. [handler[h] EXCEPT !.pc = "end", !.reason = "upstream_error"] \in HandlerState
    BY <2>1 DEF HandlerState, HandlerPC, EndReason
  <2>3. handler' \in [Handler -> Works]
    BY <1>10, <2>2, LeaveType DEF ConnectFails, ProxyTypeOK, Works
  <2>4. QED
    BY <1>10, <2>3, ProxyTyped DEF ConnectFails, storeVars, StoreTypeOK
<1>11. CASE PumpChunk(h)
  <2>1. handler[h] \in HandlerState
    BY <1>11 DEF PumpChunk, At, HandlerPC
  <2>2. \A pc \in HandlerPC :
          [handler[h] EXCEPT !.sent = TRUE, !.silent = 0, !.stamp = 0, !.pc = pc]
            \in HandlerState
    BY <1>0, <2>1 DEF HandlerState
  <2>3. PICK pc \in HandlerPC :
          handler' = [handler EXCEPT ![h].sent = TRUE, ![h].silent = 0,
                                     ![h].stamp = 0, ![h].pc = pc]
    BY <1>11 DEF PumpChunk, HandlerPC
  <2>4. handler' \in [Handler -> Works]
    BY <2>2, <2>3 DEF ProxyTypeOK, Works
  <2>5. QED
    BY <1>11, <2>4, ProxyTyped DEF PumpChunk, storeVars, StoreTypeOK
<1>12. CASE PumpFlush(h)
  <2>1. handler[h] \in HandlerState
    BY <1>12 DEF PumpFlush, At, HandlerPC
  <2>2. handler[h].stamp \in Age /\ handler[h].sid \in SessionId
    BY <2>1 DEF HandlerState
  <2>3. PICK ok \in BOOLEAN :
          /\ IF ok THEN UpdateSessionLastByte(Sid(h), handler[h].stamp)
                   ELSE UNCHANGED sessions
          /\ handler' = [handler EXCEPT ![h].pc = "pump", ![h].sinceFlush = 0,
                           ![h].stamp = 0, ![h].flushed = @ \/ ok]
    BY <1>12, <2>1 DEF PumpFlush, HandlerState
  <2>4. [handler[h] EXCEPT !.pc = "pump", !.sinceFlush = 0, !.stamp = 0,
                           !.flushed = @ \/ ok] \in HandlerState
    <3>1. (handler[h].flushed \/ ok) \in BOOLEAN
      OBVIOUS
    <3>2. 0 \in 0 .. FlushInterval
      BY StreamProxyAssumption
    <3>3. QED
      BY <1>0, <2>1, <3>1, <3>2 DEF HandlerState, HandlerPC
  <2>5. handler' \in [Handler -> Works]
    BY <2>3, <2>4 DEF ProxyTypeOK, Works
  <2>6. sessions' \in [SessionId -> Rows]
    BY <2>2, <2>3, TouchType DEF Sid, StoreTypeOK, Rows
  <2>7. QED
    BY <1>12, <2>5, <2>6, ProxyTyped DEF PumpFlush, StoreTypeOK, Rows
<1>13. CASE PumpStops(h)
  <2>1. handler[h] \in HandlerState
    BY <1>13 DEF PumpStops, At, HandlerPC
  <2>2. PICK why \in EndReason :
          handler' = [handler EXCEPT ![h].pc = "finalFlush", ![h].stamp = 0,
                        ![h].reason = why,
                        ![h].sinceFlush = 0, ![h].silent = 0, ![h].flushed = FALSE]
    BY <1>13 DEF PumpStops, EndReason
  <2>3. [handler[h] EXCEPT !.pc = "finalFlush", !.stamp = 0, !.reason = why,
                           !.sinceFlush = 0, !.silent = 0, !.flushed = FALSE]
          \in HandlerState
    <3>1. 0 \in 0 .. FlushInterval
      BY StreamProxyAssumption
    <3>2. QED
      BY <1>0, <2>1, <3>1 DEF HandlerState, HandlerPC
  <2>4. handler' \in [Handler -> Works]
    BY <2>2, <2>3 DEF ProxyTypeOK, Works
  <2>5. QED
    BY <1>13, <2>4, ProxyTyped DEF PumpStops, storeVars, StoreTypeOK
<1>14. CASE FinalFlush(h)
  <2>1. handler[h] \in HandlerState
    BY <1>14 DEF FinalFlush, At, HandlerPC
  <2>2. handler[h].stamp \in Age /\ handler[h].sid \in SessionId
    BY <2>1 DEF HandlerState
  <2>3. handler' \in [Handler -> Works]
    BY <1>14, <2>1, GotoType, StampType DEF FinalFlush, HandlerPC
  <2>4. \/ UpdateSessionLastByte(Sid(h), handler[h].stamp)
        \/ UNCHANGED sessions
    BY <1>14 DEF FinalFlush
  <2>5. sessions' \in [SessionId -> Rows]
    BY <2>2, <2>4, TouchType DEF Sid, StoreTypeOK, Rows
  <2>6. QED
    BY <1>14, <2>3, <2>5, ProxyTyped DEF FinalFlush, StoreTypeOK, Rows
<1>15. CASE Account(h)
  <2>1. handler[h] \in HandlerState
    BY <1>15 DEF Account, At, HandlerPC
  <2>2. handler[h].stamp \in Age /\ handler[h].sid \in SessionId
    BY <2>1 DEF HandlerState
  <2>3. handler' \in [Handler -> Works]
    BY <1>15, <2>1, GotoType, LeaveType DEF Account, HandlerPC
  <2>4. \/ UpdateSessionLastByte(Sid(h), handler[h].stamp)
        \/ UNCHANGED sessions
    BY <1>15 DEF Account
  <2>5. sessions' \in [SessionId -> Rows]
    BY <2>2, <2>4, TouchType DEF Sid, StoreTypeOK, Rows
  <2>6. QED
    BY <1>15, <2>3, <2>5, ProxyTyped DEF Account, StoreTypeOK, Rows
<1>16. CASE EndOwnSession(h)
  <2>1. handler[h] \in HandlerState
    BY <1>16 DEF EndOwnSession, At, HandlerPC
  <2>2. handler[h].reason \in EndReason /\ handler[h].sid \in SessionId
    BY <2>1 DEF HandlerState
  <2>3. handler' \in [Handler -> Works]
    BY <1>16, LeaveType DEF EndOwnSession
  <2>4. EndSession(Sid(h), handler[h].reason) \/ UNCHANGED sessions
    BY <1>16 DEF EndOwnSession
  <2>5. sessions' \in [SessionId -> Rows]
    BY <2>2, <2>4, EndType DEF Sid, StoreTypeOK, Rows
  <2>6. QED
    BY <1>16, <2>3, <2>5, ProxyTyped DEF EndOwnSession, StoreTypeOK, Rows
<1>17. CASE Return(h)
  <2>1. streamSem' \in Nat /\ upstreamSem' \in Nat
    BY <1>17, SemaphoreType, StreamProxyAssumption DEF Return, ProxyTypeOK
  <2>2. QED
    BY <1>17, <2>1 DEF Return, storeVars, StoreTypeOK, ProxyTypeOK
<1>18. QED
  BY <1>1, <1>2, <1>3, <1>4, <1>5, <1>6, <1>7, <1>8, <1>9, <1>10, <1>11, <1>12, <1>13, <1>14, <1>15, <1>16, <1>17
  DEF HandlerStep

LEMMA AcceptType ==
  ASSUME StoreTypeOK, ProxyTypeOK, NEW h \in Handler, NEW s \in SessionId,
         NEW k \in {"mpegts", "playlist", "segment"}, Accept(h, k, s)
  PROVE  StoreTypeOK' /\ ProxyTypeOK'
<1>1. 0 \in Age /\ 0 \in 0 .. FlushInterval
  BY SessionStoreAssumption, StreamProxyAssumption DEF Age, Stale
<1>2. [pc |-> "verify", kind |-> k, sid |-> s, live |-> TRUE, stamp |-> 0,
       sent |-> FALSE, flushed |-> FALSE, sinceFlush |-> 0, silent |-> 0,
       reason |-> "client_disconnect"] \in HandlerState
  BY <1>1 DEF HandlerState, HandlerPC, EndReason
<1>3. handler' \in [Handler -> Works]
  BY <1>2 DEF Accept, ProxyTypeOK, Works
<1>4. QED
  BY <1>3, ProxyTyped DEF Accept, storeVars, StoreTypeOK

LEMMA ClientLeavesType ==
  ASSUME StoreTypeOK, ProxyTypeOK, NEW h \in Handler, ClientLeaves(h)
  PROVE  StoreTypeOK' /\ ProxyTypeOK'
<1>1. handler[h] \in HandlerState
  BY DEF ClientLeaves, ProxyTypeOK, NoRequest, Returning
<1>2. [handler[h] EXCEPT !.live = FALSE] \in HandlerState
  BY <1>1 DEF HandlerState
<1>3. handler' \in [Handler -> Works]
  BY <1>2 DEF ClientLeaves, ProxyTypeOK, Works
<1>4. QED
  BY <1>3, ProxyTyped DEF ClientLeaves, storeVars, StoreTypeOK

LEMMA TickType ==
  ASSUME StoreTypeOK, ProxyTypeOK, Tick
  PROVE  StoreTypeOK' /\ ProxyTypeOK'
<1>1. ASSUME NEW h \in Handler, ~At(h, "idle"), ~At(h, "return")
      PROVE  [handler[h] EXCEPT
               !.stamp = IF Writing(h) THEN Older(@) ELSE @,
               !.sinceFlush = IF Pumping(h) /\ @ < FlushInterval
                              THEN @ + 1 ELSE @,
               !.silent = IF Pumping(h) THEN Older(@) ELSE @] \in HandlerState
  <2>1. handler[h] \in HandlerState
    BY <1>1 DEF At, ProxyTypeOK, NoRequest, Returning
  <2>2. /\ handler[h].stamp \in Age
        /\ handler[h].silent \in Age
        /\ handler[h].sinceFlush \in 0 .. FlushInterval
    BY <2>1 DEF HandlerState
  <2>3. Older(handler[h].stamp) \in Age /\ Older(handler[h].silent) \in Age
    BY <2>2, OlderAge
  <2>4. (IF Pumping(h) /\ handler[h].sinceFlush < FlushInterval
         THEN handler[h].sinceFlush + 1 ELSE handler[h].sinceFlush)
          \in 0 .. FlushInterval
    BY <2>2, StreamProxyAssumption
  <2>5. QED
    BY <2>1, <2>2, <2>3, <2>4 DEF HandlerState
<1>2. handler' \in [Handler -> Works]
  BY <1>1 DEF Tick, ProxyTypeOK, Works
<1>3. sessions' \in [SessionId -> Rows]
  BY AgeType DEF Tick
<1>4. QED
  BY <1>2, <1>3, ProxyTyped DEF Tick, StoreTypeOK, Rows

LEMMA InitType == Init => TypeOK
<1> SUFFICES ASSUME Init PROVE TypeOK
  OBVIOUS
<1>1. StoreTypeOK
  BY DEF Init, StoreInit, StoreTypeOK
<1>2. MintTypeOK
  BY DEF Init, MintInit, MintTypeOK, Kind
<1>3. ProxyTypeOK
  BY DEF Init, ProxyInit, ProxyTypeOK
<1>4. QED
  BY <1>1, <1>2, <1>3 DEF TypeOK

LEMMA NextType == TypeOK /\ [Next]_vars => TypeOK'
<1> SUFFICES ASSUME StoreTypeOK, MintTypeOK, ProxyTypeOK, [Next]_vars
             PROVE  StoreTypeOK' /\ MintTypeOK' /\ ProxyTypeOK'
  BY DEF TypeOK
<1>1. ASSUME UNCHANGED proxyVars PROVE ProxyTypeOK'
  BY <1>1 DEF proxyVars, ProxyTypeOK
<1>2. ASSUME UNCHANGED mintVars PROVE MintTypeOK'
  BY <1>2 DEF mintVars, MintTypeOK
<1>3. CASE Minting
  <2>1. PICK m \in Minter :
          \/ \E u \in User, c \in Channel : MintBegin(m, u, c)
          \/ MintStep(m)
    BY <1>3 DEF Minting
  <2>2. CASE \E u \in User, c \in Channel : MintBegin(m, u, c)
    <3>1. PICK u \in User, c \in Channel : MintBegin(m, u, c)
      BY <2>2
    <3>2. [pc |-> "lookup", user |-> u, channel |-> c, kind |-> "unknown"] \in Asking
      BY DEF Asking, Kind
    <3>3. StoreTypeOK' /\ MintTypeOK'
      BY <3>1, <3>2 DEF MintBegin, storeVars, StoreTypeOK, MintTypeOK
    <3>4. QED
      BY <1>1, <1>3, <3>3 DEF Minting
  <2>3. QED
    BY <1>1, <1>3, <2>1, <2>2, MintStepType DEF Minting
<1>4. CASE Streaming
  <2>1. StoreTypeOK' /\ ProxyTypeOK'
    BY <1>4, AcceptType, HandlerStepType, ClientLeavesType DEF Streaming
  <2>2. QED
    BY <1>2, <1>4, <2>1 DEF Streaming
<1>5. CASE Reaping
  BY <1>1, <1>2, <1>5, ReapType DEF Reaping, ReapIdle, StoreTypeOK, Rows
<1>6. CASE Killing
  <2>1. "admin_kill" \in EndReason
    BY DEF EndReason
  <2>2. QED
    BY <1>1, <1>2, <1>6, <2>1, EndType
    DEF Killing, AdminKillSession, StoreTypeOK, Rows
<1>7. CASE Enabling
  BY <1>1, <1>2, <1>7 DEF Enabling, SetChannelEnabled, StoreTypeOK
<1>8. CASE Deleting
  <2>1. PICK c \in Channel :
          /\ DeleteChannel(c)
          /\ recent' = {r \in recent : r[2] # c}
          /\ UNCHANGED <<mint, kind, proxyVars>>
    BY <1>8 DEF Deleting
  <2>2. StoreTypeOK'
    BY <2>1, CascadeType DEF DeleteChannel, StoreTypeOK, Rows
  <2>3. MintTypeOK'
    BY <2>1 DEF MintTypeOK
  <2>4. QED
    BY <1>1, <2>1, <2>2, <2>3
<1>9. CASE Clock
  BY <1>2, <1>9, TickType DEF Clock
<1>10. CASE Restart
  BY <1>10 DEF Restart, storeVars, StoreTypeOK, MintTypeOK, ProxyTypeOK
<1>11. CASE UNCHANGED vars
  BY <1>1, <1>2, <1>11 DEF vars, storeVars, StoreTypeOK
<1>12. QED
  BY <1>3, <1>4, <1>5, <1>6, <1>7, <1>8, <1>9, <1>10, <1>11 DEF Next

\* The tables, the requests and the semaphores only ever hold what their
\* columns and fields can hold, whatever CreateSession, the proxy handlers,
\* the reaper, the administrator and restarts do.
THEOREM TypeCorrect == Spec => []TypeOK
  BY InitType, NextType, PTL DEF Spec

=============================================================================
