-------------------------- MODULE SessionCapsProofs --------------------------
(***************************************************************************)
(* The caps of CreateSession: for any number of overlapping requests, how  *)
(* far a user or a channel can be over its cap.                            *)
(***************************************************************************)
EXTENDS StreamServiceProofs

PastUserCap == {"channelCap", "probe", "persist", "insert"}
PastChannelCap == {"probe", "persist", "insert"}

\* A step after which no session is active that was not, nobody's changed
\* hands, and no request has passed a cap check.
OpensNothing ==
  \A s \in SessionId : Active(s)' =>
    /\ Active(s)
    /\ sessions'[s].user = sessions[s].user
    /\ sessions'[s].channel = sessions[s].channel

ClearsForNoUser ==
  \A m \in Minter : mint'[m].pc \in PastUserCap =>
    mint[m].pc \in PastUserCap /\ mint'[m].user = mint[m].user

ClearsForNoChannel ==
  \A m \in Minter : mint'[m].pc \in PastChannelCap =>
    mint[m].pc \in PastChannelCap /\ mint'[m].channel = mint[m].channel

-----------------------------------------------------------------------------
(***************************************************************************)
(* Counting.                                                               *)
(***************************************************************************)

LEMMA RoomKept ==
  ASSUME NEW A, NEW C, NEW A2 \in SUBSET A, NEW C2 \in SUBSET C, NEW bound \in Nat,
         IsFiniteSet(A), IsFiniteSet(C),
         Cardinality(A) + Cardinality(C) < bound
  PROVE  Cardinality(A2) + Cardinality(C2) < bound
<1>1. /\ Cardinality(A2) <= Cardinality(A) /\ Cardinality(C2) <= Cardinality(C)
      /\ IsFiniteSet(A2) /\ IsFiniteSet(C2)
  BY FS_Subset
<1>2. /\ Cardinality(A) \in Nat /\ Cardinality(C) \in Nat
      /\ Cardinality(A2) \in Nat /\ Cardinality(C2) \in Nat
  BY <1>1, FS_CardinalityType
<1>3. QED
  BY <1>1, <1>2

\* A request that inserts leaves the cleared ones as its session appears.
LEMMA RoomMoved ==
  ASSUME NEW A, NEW C, NEW s, NEW m \in C, NEW A2 \in SUBSET (A \cup {s}),
         NEW C2 \in SUBSET (C \ {m}), NEW bound \in Nat,
         IsFiniteSet(A), IsFiniteSet(C),
         Cardinality(A) + Cardinality(C) < bound
  PROVE  Cardinality(A2) + Cardinality(C2) < bound
<1>1. /\ IsFiniteSet(A \cup {s}) /\ IsFiniteSet(C \ {m})
      /\ Cardinality(A \cup {s}) <= Cardinality(A) + 1
      /\ Cardinality(C \ {m}) = Cardinality(C) - 1
  <2>1. Cardinality(A) \in Nat
    BY FS_CardinalityType
  <2>2. /\ IsFiniteSet(A \cup {s})
        /\ Cardinality(A \cup {s}) = IF s \in A THEN Cardinality(A)
                                    ELSE Cardinality(A) + 1
    BY FS_AddElement
  <2>3. /\ IsFiniteSet(C \ {m})
        /\ Cardinality(C \ {m}) = Cardinality(C) - 1
    BY FS_RemoveElement
  <2>4. QED
    BY <2>1, <2>2, <2>3
<1>2. /\ Cardinality(A) \in Nat /\ Cardinality(C) \in Nat
      /\ Cardinality(A \cup {s}) \in Nat /\ Cardinality(C \ {m}) \in Nat
  BY <1>1, FS_CardinalityType
<1>3. Cardinality(A \cup {s}) + Cardinality(C \ {m}) < bound
  BY <1>1, <1>2
<1> DEFINE B == A \cup {s}
           D == C \ {m}
<1> HIDE DEF B, D
<1>4. /\ IsFiniteSet(B) /\ IsFiniteSet(D)
      /\ A2 \in SUBSET B /\ C2 \in SUBSET D
      /\ Cardinality(B) + Cardinality(D) < bound
  BY <1>1, <1>3 DEF B, D
<1>5. QED
  BY <1>4, RoomKept

\* A request that passes a check found room; at worst all of them do.
LEMMA RoomFound ==
  ASSUME NEW A, NEW C \in SUBSET Minter, NEW cap \in Nat, IsFiniteSet(A),
         Cardinality(A) < cap
  PROVE  Cardinality(A) + Cardinality(C) < cap + Cardinality(Minter)
<1>1. Cardinality(C) <= Cardinality(Minter) /\ IsFiniteSet(C)
  BY FS_Subset, SessionMintingAssumption
<1>2. /\ Cardinality(A) \in Nat /\ Cardinality(C) \in Nat
      /\ Cardinality(Minter) \in Nat
  BY <1>1, FS_CardinalityType, SessionMintingAssumption
<1>3. QED
  BY <1>1, <1>2

LEMMA CountedFinite ==
  /\ \A u \in User : /\ IsFiniteSet(ActiveOfUser(u))
                     /\ ClearedForUser(u) \in SUBSET Minter
                     /\ IsFiniteSet(ClearedForUser(u))
  /\ \A c \in Channel : /\ IsFiniteSet(ActiveOfChannel(c))
                        /\ ClearedForChannel(c) \in SUBSET Minter
                        /\ IsFiniteSet(ClearedForChannel(c))
  /\ Cardinality(Minter) \in Nat
<1>1. \A S \in SUBSET SessionId : IsFiniteSet(S)
  BY FS_Subset, SessionStoreAssumption
<1>2. \A S \in SUBSET Minter : IsFiniteSet(S)
  BY FS_Subset, SessionMintingAssumption
<1>3. QED
  BY <1>1, <1>2, FS_CardinalityType, SessionMintingAssumption
  DEF ActiveOfUser, ActiveOfChannel, ClearedForUser, ClearedForChannel

-----------------------------------------------------------------------------
(***************************************************************************)
(* Only an INSERT opens a session, and only a cap check clears a request.  *)
(***************************************************************************)

LEMMA StatementsOpenNothing ==
  ASSUME StoreTypeOK,
         \/ \E s \in SessionId : \E age : UpdateSessionLastByte(s, age)
         \/ \E s \in SessionId : \E why : EndSession(s, why)
         \/ ReapIdleSessions
         \/ \E c \in Channel : CascadeToSessions(c)
         \/ AgeSessions
         \/ UNCHANGED sessions
  PROVE  OpensNothing
<1>1. \A s \in SessionId : Active(s) \/ Ended(s) => sessions[s] \in SessionRow
  BY RowOfStatus
<1>2. sessions \in [SessionId -> Rows]
  BY DEF StoreTypeOK, Rows
<1>3. CASE \E s \in SessionId : \E age : UpdateSessionLastByte(s, age)
  <2>0. PICK s \in SessionId : \E age : UpdateSessionLastByte(s, age)
    BY <1>3
  <2>1. PICK age : UpdateSessionLastByte(s, age)
    BY <2>0
  <2>2. CASE Active(s)
    <3>1. sessions[s] \in SessionRow
      BY <1>1, <2>2
    <3>2. sessions'[s] = [sessions[s] EXCEPT !.idle = age]
      BY <1>2, <2>1, <2>2 DEF UpdateSessionLastByte
    <3>3. /\ sessions'[s].user = sessions[s].user
          /\ sessions'[s].channel = sessions[s].channel
      BY <3>1, <3>2 DEF SessionRow
    <3>4. \A t \in SessionId \ {s} : sessions'[t] = sessions[t]
      BY <1>2, <2>1, <2>2 DEF UpdateSessionLastByte
    <3>5. QED
      BY <2>2, <3>3, <3>4 DEF OpensNothing, Active
  <2>3. CASE ~Active(s)
    BY <2>1, <2>3 DEF UpdateSessionLastByte, OpensNothing, Active
  <2>4. QED
    BY <2>2, <2>3
<1>4. CASE \E s \in SessionId : \E why : EndSession(s, why)
  <2>0. PICK s \in SessionId : \E why : EndSession(s, why)
    BY <1>4
  <2>1. PICK why : EndSession(s, why)
    BY <2>0
  <2>2. CASE Active(s)
    <3>1. sessions'[s].status = "ended"
      <4>1. sessions'[s] = [sessions[s] EXCEPT !.status = "ended", !.reason = why]
        BY <1>2, <2>1, <2>2 DEF EndSession
      <4>2. sessions[s] \in SessionRow
        BY <1>1, <2>2
      <4>3. QED
        BY <4>1, <4>2 DEF SessionRow
    <3>2. \A t \in SessionId \ {s} : sessions'[t] = sessions[t]
      BY <1>2, <2>1, <2>2 DEF EndSession
    <3>3. QED
      BY <3>1, <3>2 DEF OpensNothing, Active
  <2>3. CASE ~Active(s)
    BY <2>1, <2>3 DEF EndSession, OpensNothing, Active
  <2>4. QED
    BY <2>2, <2>3
<1>5. CASE ReapIdleSessions
  <2>1. ASSUME NEW s \in SessionId
        PROVE  sessions'[s] = sessions[s] \/ sessions'[s].status = "ended"
    BY <1>1, <1>5, <2>1 DEF ReapIdleSessions, SessionRow
  <2>2. QED
    BY <2>1 DEF OpensNothing, Active
<1>6. CASE \E c \in Channel : CascadeToSessions(c)
  BY <1>6 DEF CascadeToSessions, OpensNothing, Active, Deleted
<1>7. CASE AgeSessions
  BY <1>1, <1>2, <1>7 DEF AgeSessions, OpensNothing, Active, SessionRow
<1>8. CASE UNCHANGED sessions
  BY <1>8 DEF OpensNothing, Active
<1>9. QED
  BY <1>3, <1>4, <1>5, <1>6, <1>7, <1>8

LEMMA HandlerStepOpensNothing ==
  ASSUME TypeOK, NEW h \in Handler, HandlerStep(h)
  PROVE  OpensNothing
<1>1. \/ UNCHANGED sessions
      \/ \E age : UpdateSessionLastByte(Sid(h), age)
      \/ \E why : EndSession(Sid(h), why)
  BY DEF HandlerStep, VerifyToken, Refuse, AcquireStream, LookupChannel,
         ServeCachedPlaylist, AcquireUpstream, ConnectFails, ConnectMPEGTS,
         FetchPlaylist, CopySegment, PumpChunk, PumpFlush, PumpStops, FinalFlush,
         Account, EndOwnSession, Return, storeVars
<1>2. CASE UNCHANGED sessions
  BY <1>2, StatementsOpenNothing DEF TypeOK
<1>3. CASE ~UNCHANGED sessions
  <2>1. handler[h].pc \in {"flush", "finalFlush", "account", "end"}
    BY <1>3
    DEF HandlerStep, VerifyToken, Refuse, AcquireStream, LookupChannel,
        ServeCachedPlaylist, AcquireUpstream, ConnectFails, ConnectMPEGTS,
        FetchPlaylist, CopySegment, PumpChunk, PumpFlush, PumpStops, FinalFlush,
        Account, EndOwnSession, Return, storeVars, At
  <2>2. Sid(h) \in SessionId
    BY <2>1, HandlerLocals DEF TypeOK, HandlerPC, HandlerState, Sid
  <2>3. QED
    BY <1>1, <1>3, <2>2, StatementsOpenNothing DEF TypeOK
<1>4. QED
  BY <1>2, <1>3

\* The steps other than those of CreateSession.
LEMMA OthersOpenNothing ==
  ASSUME TypeOK, [Next]_vars, ~Minting
  PROVE  OpensNothing /\ ClearsForNoUser /\ ClearsForNoChannel
<1>1. OpensNothing
  <2>1. CASE Streaming
    <3>1. ASSUME NEW h \in Handler, ClientLeaves(h) PROVE UNCHANGED sessions
      BY <3>1 DEF ClientLeaves, storeVars
    <3>2. ASSUME NEW h \in Handler, NEW k, NEW s, Accept(h, k, s)
          PROVE  UNCHANGED sessions
      BY <3>2 DEF Accept, storeVars
    <3>3. QED
      BY <2>1, <3>1, <3>2, HandlerStepOpensNothing, StatementsOpenNothing
      DEF Streaming, TypeOK
  <2>2. CASE ~Streaming
    <3>1. \/ \E s \in SessionId : EndSession(s, "admin_kill")
          \/ ReapIdleSessions
          \/ \E c \in Channel : CascadeToSessions(c)
          \/ AgeSessions
          \/ UNCHANGED sessions
      BY <2>2
      DEF Next, Reaping, ReapIdle, Killing, AdminKillSession, Enabling,
          SetChannelEnabled, Deleting, DeleteChannel, Clock, Tick, Restart, vars,
          storeVars
    <3>2. QED
      BY <3>1, StatementsOpenNothing DEF TypeOK
  <2>3. QED
    BY <2>1, <2>2
<1>2. ClearsForNoUser /\ ClearsForNoChannel
  <2>1. UNCHANGED mint \/ Restart
    BY DEF Next, Streaming, Reaping, Killing, Enabling, Deleting, Clock, mintVars,
           vars
  <2>2. QED
    BY <2>1
    DEF Restart, Idling, ClearsForNoUser, ClearsForNoChannel, PastUserCap,
        PastChannelCap
<1>3. QED
  BY <1>1, <1>2

\* The steps of CreateSession that neither check a cap nor insert.
LEMMA MintingClearsNobody ==
  ASSUME TypeOK, NEW m \in Minter,
         \/ \E u \in User, c \in Channel : MintBegin(m, u, c)
         \/ MintLookup(m) \/ MintProbe(m) \/ MintPersistKind(m)
         \/ MintReadBack(m) \/ MintRespond(m) \/ MintFails(m)
         \/ MintAt(m, "insert") /\ MintDone(m) /\ UNCHANGED sessions
  PROVE  OpensNothing /\ ClearsForNoUser /\ ClearsForNoChannel
<1>1. UNCHANGED sessions
  BY DEF MintBegin, MintLookup, MintProbe, MintPersistKind, MintReadBack,
         MintRespond, MintFails, storeVars
<1>2. \A n \in Minter \ {m} : mint'[n] = mint[n]
  BY DEF MintBegin, MintLookup, MintProbe, MintPersistKind, MintReadBack,
         MintRespond, MintFails, MintDone, MintTo, TypeOK, MintTypeOK
<1>3. \/ mint'[m].pc \notin PastUserCap
      \/ /\ mint[m].pc \in PastChannelCap
         /\ mint'[m].user = mint[m].user
         /\ mint'[m].channel = mint[m].channel
  <2>1. mint[m].pc \in PastUserCap \cup {"lookup", "userCap"} => mint[m] \in Asking
    BY MintLocals DEF TypeOK, PastUserCap
  <2>2. CASE MintProbe(m) \/ MintPersistKind(m)
    BY <2>1, <2>2
    DEF MintProbe, MintPersistKind, MintAt, MintTo, Asking, TypeOK, MintTypeOK,
        PastUserCap, PastChannelCap
  <2>3. CASE ~(MintProbe(m) \/ MintPersistKind(m))
    <3>1. mint'[m].pc \in {"lookup", "userCap", "idle", "tune"}
      <4>1. CASE MintLookup(m)
        BY <2>1, <4>1
        DEF MintLookup, MintAt, MintDone, Idling, Asking, TypeOK, MintTypeOK
      <4>2. CASE MintReadBack(m)
        BY <4>2, MintLocals
        DEF MintReadBack, MintAt, MintTo, MintDone, Idling, Minted, TypeOK, MintTypeOK
      <4>3. CASE ~MintLookup(m) /\ ~MintReadBack(m)
        BY <2>3, <4>3
        DEF MintBegin, MintRespond, MintFails, MintDone, Idling, TypeOK, MintTypeOK
      <4>4. QED
        BY <4>1, <4>2, <4>3
    <3>2. QED
      BY <3>1 DEF PastUserCap
  <2>4. QED
    BY <2>2, <2>3
<1>4. ClearsForNoUser /\ ClearsForNoChannel
  BY <1>2, <1>3
  DEF ClearsForNoUser, ClearsForNoChannel, PastUserCap, PastChannelCap
<1>5. QED
  BY <1>1, <1>4, StatementsOpenNothing DEF TypeOK

-----------------------------------------------------------------------------
(***************************************************************************)
(* The invariant, for one user and for one channel.                        *)
(***************************************************************************)

RoomForUser(u) ==
  Cardinality(ActiveOfUser(u)) + Cardinality(ClearedForUser(u))
    < UserCap + Cardinality(Minter)

RoomForChannel(c) ==
  Cardinality(ActiveOfChannel(c)) + Cardinality(ClearedForChannel(c))
    < ChannelCap + Cardinality(Minter)

LEMMA UserRoomKept ==
  ASSUME NEW u \in User, RoomForUser(u), OpensNothing, ClearsForNoUser
  PROVE  RoomForUser(u)'
<1>1. ActiveOfUser(u)' \in SUBSET ActiveOfUser(u)
  BY DEF OpensNothing, ActiveOfUser
<1>2. ClearedForUser(u)' \in SUBSET ClearedForUser(u)
  BY DEF ClearsForNoUser, ClearedForUser, PastUserCap
<1>3. UserCap + Cardinality(Minter) \in Nat
  BY CountedFinite, SessionMintingAssumption
<1>4. QED
  BY <1>1, <1>2, <1>3, CountedFinite, RoomKept DEF RoomForUser

LEMMA ChannelRoomKept ==
  ASSUME NEW c \in Channel, RoomForChannel(c), OpensNothing, ClearsForNoChannel
  PROVE  RoomForChannel(c)'
<1>1. ActiveOfChannel(c)' \in SUBSET ActiveOfChannel(c)
  BY DEF OpensNothing, ActiveOfChannel
<1>2. ClearedForChannel(c)' \in SUBSET ClearedForChannel(c)
  BY DEF ClearsForNoChannel, ClearedForChannel, PastChannelCap
<1>3. ChannelCap + Cardinality(Minter) \in Nat
  BY CountedFinite, SessionMintingAssumption
<1>4. QED
  BY <1>1, <1>2, <1>3, CountedFinite, RoomKept DEF RoomForChannel

\* The checks: who passes one found room, and nothing else changes.
LEMMA RoomAfterUserCheck ==
  ASSUME TypeOK, NEW m \in Minter, MintUserCap(m)
  PROVE  /\ \A c \in Channel : RoomForChannel(c) => RoomForChannel(c)'
         /\ UserCap > 0 =>
              \A u \in User : RoomForUser(u) => RoomForUser(u)'
<1>1. mint[m] \in Asking /\ mint[m].pc = "userCap"
  BY MintLocals DEF MintUserCap, MintAt, TypeOK
<1>2. \A n \in Minter \ {m} : mint'[n] = mint[n]
  BY DEF MintUserCap, MintDone, MintTo, TypeOK, MintTypeOK
<1>3. mint'[m] = Idling \/ mint'[m] = [mint[m] EXCEPT !.pc = "channelCap"]
  BY DEF MintUserCap, MintDone, MintTo, TypeOK, MintTypeOK
<1>4. /\ mint'[m].pc \in {"idle", "channelCap"}
      /\ mint'[m].pc = "channelCap" => mint'[m].user = mint[m].user
  BY <1>1, <1>3 DEF Idling, Asking
<1>5. UNCHANGED sessions
  BY DEF MintUserCap, storeVars
<1>6. OpensNothing
  BY <1>5, StatementsOpenNothing DEF TypeOK
<1>7. ClearsForNoChannel
  BY <1>2, <1>4 DEF ClearsForNoChannel, PastChannelCap
<1>8. ASSUME UserCap > 0, NEW u \in User, RoomForUser(u)
      PROVE  RoomForUser(u)'
  <2>1. ActiveOfUser(u)' = ActiveOfUser(u)
    BY <1>5 DEF ActiveOfUser, Active
  <2>2. ClearedForUser(u)' \in SUBSET Minter
    BY DEF ClearedForUser
  <2>3. CASE mint'[m].pc = "channelCap" /\ mint[m].user = u
    <3>1. ~(Cardinality(ActiveOfUser(u)) >= UserCap)
      BY <1>8, <2>3 DEF MintUserCap, MintDone, Idling, TypeOK, MintTypeOK
    <3>2. Cardinality(ActiveOfUser(u)) < UserCap
      BY <3>1, CountedFinite, FS_CardinalityType, SessionMintingAssumption
    <3>3. QED
      BY <2>1, <2>2, <3>2, RoomFound, CountedFinite, SessionMintingAssumption
      DEF RoomForUser
  <2>4. CASE ~(mint'[m].pc = "channelCap" /\ mint[m].user = u)
    <3>1. ClearedForUser(u)' \in SUBSET ClearedForUser(u)
      BY <1>2, <1>4, <2>4 DEF ClearedForUser
    <3>2. UserCap + Cardinality(Minter) \in Nat
      BY CountedFinite, SessionMintingAssumption
    <3>3. QED
      BY <1>8, <2>1, <3>1, <3>2, RoomKept, CountedFinite DEF RoomForUser
  <2>5. QED
    BY <2>3, <2>4
<1>9. QED
  BY <1>6, <1>7, <1>8, ChannelRoomKept

LEMMA RoomAfterChannelCheck ==
  ASSUME TypeOK, NEW m \in Minter, MintChannelCap(m)
  PROVE  /\ \A u \in User : RoomForUser(u) => RoomForUser(u)'
         /\ ChannelCap > 0 =>
              \A c \in Channel : RoomForChannel(c) => RoomForChannel(c)'
<1>1. mint[m] \in Asking /\ mint[m].pc = "channelCap"
  BY MintLocals DEF MintChannelCap, MintAt, TypeOK
<1>2. \A n \in Minter \ {m} : mint'[n] = mint[n]
  BY DEF MintChannelCap, MintDone, MintTo, TypeOK, MintTypeOK
<1>3. \/ mint'[m] = Idling
      \/ \E pc \in {"probe", "insert"} : mint'[m] = [mint[m] EXCEPT !.pc = pc]
  BY DEF MintChannelCap, MintDone, MintTo, TypeOK, MintTypeOK
<1>4. /\ mint'[m].pc \in {"idle", "probe", "insert"}
      /\ mint'[m].pc # "idle" => /\ mint'[m].user = mint[m].user
                                 /\ mint'[m].channel = mint[m].channel
  BY <1>1, <1>3 DEF Idling, Asking
<1>5. UNCHANGED sessions
  BY DEF MintChannelCap, storeVars
<1>6. OpensNothing
  BY <1>5, StatementsOpenNothing DEF TypeOK
<1>7. ClearsForNoUser
  BY <1>1, <1>2, <1>4 DEF ClearsForNoUser, PastUserCap
<1>8. ASSUME ChannelCap > 0, NEW c \in Channel, RoomForChannel(c)
      PROVE  RoomForChannel(c)'
  <2>1. ActiveOfChannel(c)' = ActiveOfChannel(c)
    BY <1>5 DEF ActiveOfChannel, Active
  <2>2. ClearedForChannel(c)' \in SUBSET Minter
    BY DEF ClearedForChannel
  <2>3. CASE mint'[m].pc # "idle" /\ mint[m].channel = c
    <3>1. ~(Cardinality(ActiveOfChannel(c)) >= ChannelCap)
      BY <1>8, <2>3 DEF MintChannelCap, MintDone, Idling, TypeOK, MintTypeOK
    <3>2. Cardinality(ActiveOfChannel(c)) < ChannelCap
      BY <3>1, CountedFinite, FS_CardinalityType, SessionMintingAssumption
    <3>3. QED
      BY <2>1, <2>2, <3>2, RoomFound, CountedFinite, SessionMintingAssumption
      DEF RoomForChannel
  <2>4. CASE ~(mint'[m].pc # "idle" /\ mint[m].channel = c)
    <3>1. ClearedForChannel(c)' \in SUBSET ClearedForChannel(c)
      BY <1>2, <1>4, <2>4 DEF ClearedForChannel
    <3>2. ChannelCap + Cardinality(Minter) \in Nat
      BY CountedFinite, SessionMintingAssumption
    <3>3. QED
      BY <1>8, <2>1, <3>1, <3>2, RoomKept, CountedFinite DEF RoomForChannel
  <2>5. QED
    BY <2>3, <2>4
<1>9. QED
  BY <1>6, <1>7, <1>8, UserRoomKept

\* The INSERT: the request is cleared no more as its session opens.
LEMMA RoomAfterInsert ==
  ASSUME TypeOK, NEW m \in Minter, MintInsert(m)
  PROVE  /\ \A u \in User : RoomForUser(u) => RoomForUser(u)'
         /\ \A c \in Channel : RoomForChannel(c) => RoomForChannel(c)'
<1>1. CASE channels[mint[m].channel] = "deleted"
  <2>1. OpensNothing /\ ClearsForNoUser /\ ClearsForNoChannel
    BY <1>1, MintingClearsNobody DEF MintInsert
  <2>2. QED
    BY <2>1, UserRoomKept, ChannelRoomKept
<1>2. CASE channels[mint[m].channel] # "deleted"
  <2>1. PICK s \in SessionId, age \in StampAge :
          /\ InsertSession(s, mint[m].user, mint[m].channel, age)
          /\ mint' = [mint EXCEPT ![m] =
                       [pc |-> "readBack", user |-> mint[m].user,
                        channel |-> mint[m].channel, sid |-> s]]
    BY <1>2 DEF MintInsert
  <2>2. mint[m].pc = "insert"
    BY DEF MintInsert, MintAt
  <2>3. /\ \A t \in SessionId \ {s} : sessions'[t] = sessions[t]
        /\ sessions'[s].user = mint[m].user
        /\ sessions'[s].channel = mint[m].channel
    BY <2>1 DEF InsertSession, TypeOK, StoreTypeOK
  <2>4. /\ \A n \in Minter \ {m} : mint'[n] = mint[n]
        /\ mint'[m].pc = "readBack"
    BY <2>1 DEF TypeOK, MintTypeOK
  <2>5. ASSUME NEW u \in User, RoomForUser(u) PROVE RoomForUser(u)'
    <3>1. UserCap + Cardinality(Minter) \in Nat
      BY CountedFinite, SessionMintingAssumption
    <3>2. ClearedForUser(u)' \in SUBSET (ClearedForUser(u) \ {m})
      BY <2>4 DEF ClearedForUser
    <3>3. CASE mint[m].user = u
      <4>1. m \in ClearedForUser(u)
        BY <2>2, <3>3 DEF ClearedForUser
      <4>2. ActiveOfUser(u)' \in SUBSET (ActiveOfUser(u) \cup {s})
        BY <2>3 DEF ActiveOfUser, Active
      <4>3. QED
        BY <2>5, <3>1, <3>2, <4>1, <4>2, RoomMoved, CountedFinite DEF RoomForUser
    <3>4. CASE mint[m].user # u
      <4>1. ActiveOfUser(u)' \in SUBSET ActiveOfUser(u)
        BY <2>3, <3>4 DEF ActiveOfUser, Active
      <4>2. ClearedForUser(u)' \in SUBSET ClearedForUser(u)
        BY <3>2
      <4>3. QED
        BY <2>5, <3>1, <4>1, <4>2, RoomKept, CountedFinite DEF RoomForUser
    <3>5. QED
      BY <3>3, <3>4
  <2>6. ASSUME NEW c \in Channel, RoomForChannel(c) PROVE RoomForChannel(c)'
    <3>1. ChannelCap + Cardinality(Minter) \in Nat
      BY CountedFinite, SessionMintingAssumption
    <3>2. ClearedForChannel(c)' \in SUBSET (ClearedForChannel(c) \ {m})
      BY <2>4 DEF ClearedForChannel
    <3>3. CASE mint[m].channel = c
      <4>1. m \in ClearedForChannel(c)
        BY <2>2, <3>3 DEF ClearedForChannel
      <4>2. ActiveOfChannel(c)' \in SUBSET (ActiveOfChannel(c) \cup {s})
        BY <2>3 DEF ActiveOfChannel, Active
      <4>3. QED
        BY <2>6, <3>1, <3>2, <4>1, <4>2, RoomMoved, CountedFinite
        DEF RoomForChannel
    <3>4. CASE mint[m].channel # c
      <4>1. ActiveOfChannel(c)' \in SUBSET ActiveOfChannel(c)
        BY <2>3, <3>4 DEF ActiveOfChannel, Active
      <4>2. ClearedForChannel(c)' \in SUBSET ClearedForChannel(c)
        BY <3>2
      <4>3. QED
        BY <2>6, <3>1, <4>1, <4>2, RoomKept, CountedFinite DEF RoomForChannel
    <3>5. QED
      BY <3>3, <3>4
  <2>7. QED
    BY <2>5, <2>6
<1>3. QED
  BY <1>1, <1>2

LEMMA CapsInit == Init => CapOvershootBounded
<1> SUFFICES ASSUME Init PROVE CapOvershootBounded
  OBVIOUS
<1>1. /\ \A u \in User : ActiveOfUser(u) = {} /\ ClearedForUser(u) = {}
      /\ \A c \in Channel : ActiveOfChannel(c) = {} /\ ClearedForChannel(c) = {}
  BY DEF Init, StoreInit, MintInit, Free, Idling, Active, ActiveOfUser,
         ActiveOfChannel, ClearedForUser, ClearedForChannel
<1>2. QED
  BY <1>1, FS_EmptySet, CountedFinite, SessionMintingAssumption
  DEF CapOvershootBounded

LEMMA CapsNext ==
  TypeOK /\ CapOvershootBounded /\ [Next]_vars => CapOvershootBounded'
<1> SUFFICES ASSUME TypeOK, [Next]_vars
             PROVE  /\ UserCap > 0 =>
                         \A u \in User : RoomForUser(u) => RoomForUser(u)'
                    /\ ChannelCap > 0 =>
                         \A c \in Channel : RoomForChannel(c) => RoomForChannel(c)'
  BY DEF CapOvershootBounded, RoomForUser, RoomForChannel
<1>1. CASE ~Minting
  BY <1>1, OthersOpenNothing, UserRoomKept, ChannelRoomKept
<1>2. CASE Minting
  <2>1. PICK m \in Minter :
          \/ \E u \in User, c \in Channel : MintBegin(m, u, c)
          \/ MintStep(m)
    BY <1>2 DEF Minting
  <2>2. CASE MintUserCap(m)
    BY <2>2, RoomAfterUserCheck
  <2>3. CASE MintChannelCap(m)
    BY <2>3, RoomAfterChannelCheck
  <2>4. CASE MintInsert(m)
    BY <2>4, RoomAfterInsert
  <2>5. CASE \/ \E u \in User, c \in Channel : MintBegin(m, u, c)
             \/ MintLookup(m) \/ MintProbe(m) \/ MintPersistKind(m)
             \/ MintReadBack(m) \/ MintRespond(m) \/ MintFails(m)
    BY <2>5, MintingClearsNobody, UserRoomKept, ChannelRoomKept
  <2>6. QED
    BY <2>1, <2>2, <2>3, <2>4, <2>5 DEF MintStep
<1>3. QED
  BY <1>1, <1>2

\* However CreateSession requests overlap, a user's active sessions, with those
\* cleared to be inserted, exceed per_user_stream_cap by less than the number
\* of requests that can be in flight, and a channel's likewise: for every cap,
\* every number of users and requests, with the reaper, the administrator and
\* restarts running.  With a single request at a time the caps are exact.
THEOREM CapOvershootBoundedAlways == Spec => []CapOvershootBounded
  BY TypeCorrect, CapsInit, CapsNext, PTL DEF Spec

=============================================================================
