-------------------------- MODULE StreamSlotsProofs --------------------------
(***************************************************************************)
(* The semaphores of the proxy: for any number of requests and any caps,   *)
(* each counts exactly the handlers that will release it.                  *)
(***************************************************************************)
EXTENDS StreamServiceProofs

\* The playlist handler never comes to the stream semaphore.
StreamsOnly == \A h \in Handler : At(h, "slot") => handler[h].kind # "playlist"

SlotInv == TypeOK /\ HoldsWhatItUses /\ StreamsOnly /\ SlotsAccounted

\* Only the handlers that are not done count, and they are finitely many.
LEMMA HoldersFinite ==
  /\ IsFiniteSet(StreamHolders) /\ IsFiniteSet(UpstreamHolders)
  /\ Cardinality(StreamHolders) \in Nat /\ Cardinality(UpstreamHolders) \in Nat
<1>1. StreamHolders \subseteq Handler /\ UpstreamHolders \subseteq Handler
  BY DEF StreamHolders, UpstreamHolders
<1>2. QED
  BY <1>1, FS_Subset, FS_CardinalityType, StreamProxyAssumption

\* What counts of a step that takes and gives back nothing.
LEMMA SlotsKept ==
  ASSUME SlotsAccounted, UNCHANGED slotVars
  PROVE  SlotsAccounted'
  BY DEF SlotsAccounted, StreamHolders, UpstreamHolders, slotVars

LEMMA SlotsAfterAcquireStream ==
  ASSUME SlotInv, NEW h \in Handler, AcquireStream(h)
  PROVE  SlotsAccounted'
<1>1. CASE ~Admits(StreamCap, streamSem)
  BY <1>1, SlotsKept DEF AcquireStream, SlotInv, slotVars
<1>2. CASE Admits(StreamCap, streamSem)
  <2>1. h \notin StreamHolders
    BY DEF AcquireStream, At, SlotInv, HoldsWhatItUses, UsesStream, StreamHolders
  <2>2. /\ StreamHolders' = StreamHolders \cup {h}
        /\ UpstreamHolders' = UpstreamHolders
    BY <1>2 DEF AcquireStream, SlotInv, TypeOK, ProxyTypeOK, StreamHolders,
                UpstreamHolders
  <2>3. Cardinality(StreamHolders') = Cardinality(StreamHolders) + 1
    BY <2>1, <2>2, HoldersFinite, FS_AddElement
  <2>4. streamSem' = Acquired(StreamCap, streamSem) /\ upstreamSem' = upstreamSem
    BY <1>2 DEF AcquireStream
  <2>5. QED
    BY <1>2, <2>2, <2>3, <2>4, HoldersFinite, StreamProxyAssumption
    DEF SlotInv, SlotsAccounted, Acquired, Admits
<1>3. QED
  BY <1>1, <1>2

LEMMA SlotsAfterAcquireUpstream ==
  ASSUME SlotInv, NEW h \in Handler, AcquireUpstream(h)
  PROVE  SlotsAccounted'
<1>1. CASE ~Admits(UpstreamCap, upstreamSem)
  BY <1>1, SlotsKept DEF AcquireUpstream, SlotInv, slotVars
<1>2. CASE Admits(UpstreamCap, upstreamSem)
  <2>1. h \notin UpstreamHolders
    BY DEF AcquireUpstream, At, SlotInv, HoldsWhatItUses, UsesUpstream,
           UpstreamHolders
  <2>2. /\ UpstreamHolders' = UpstreamHolders \cup {h}
        /\ StreamHolders' = StreamHolders
    BY <1>2 DEF AcquireUpstream, SlotInv, TypeOK, ProxyTypeOK, StreamHolders,
                UpstreamHolders
  <2>3. Cardinality(UpstreamHolders') = Cardinality(UpstreamHolders) + 1
    BY <2>1, <2>2, HoldersFinite, FS_AddElement
  <2>4. /\ upstreamSem' = Acquired(UpstreamCap, upstreamSem)
        /\ streamSem' = streamSem
    BY <1>2 DEF AcquireUpstream
  <2>5. QED
    BY <1>2, <2>2, <2>3, <2>4, HoldersFinite, StreamProxyAssumption
    DEF SlotInv, SlotsAccounted, Acquired, Admits
<1>3. QED
  BY <1>1, <1>2

LEMMA SlotsAfterFetchPlaylist ==
  ASSUME SlotInv, NEW h \in Handler, FetchPlaylist(h)
  PROVE  SlotsAccounted'
<1>1. h \in UpstreamHolders
  BY DEF FetchPlaylist, At, SlotInv, HoldsWhatItUses, UsesUpstream,
         UpstreamHolders
<1>2. /\ UpstreamHolders' = UpstreamHolders \ {h}
      /\ StreamHolders' = StreamHolders
  BY DEF FetchPlaylist, SlotInv, TypeOK, ProxyTypeOK, StreamHolders,
         UpstreamHolders
<1>3. Cardinality(UpstreamHolders') = Cardinality(UpstreamHolders) - 1
  BY <1>1, <1>2, HoldersFinite, FS_RemoveElement
<1>4. upstreamSem' = Released(UpstreamCap, upstreamSem) /\ streamSem' = streamSem
  BY DEF FetchPlaylist
<1>5. Cardinality(UpstreamHolders') \in Nat
  BY <1>2, HoldersFinite, FS_RemoveElement, FS_CardinalityType
<1>6. QED
  BY <1>2, <1>3, <1>4, <1>5, HoldersFinite, StreamProxyAssumption
  DEF SlotInv, SlotsAccounted, Released

LEMMA SlotsAfterReturn ==
  ASSUME SlotInv, NEW h \in Handler, Return(h)
  PROVE  SlotsAccounted'
<1>1. /\ StreamHolders' = StreamHolders \ {h}
      /\ UpstreamHolders' = UpstreamHolders \ {h}
  BY DEF Return, SlotInv, TypeOK, ProxyTypeOK, StreamHolders, UpstreamHolders
<1>2. /\ Cardinality(StreamHolders') \in Nat
      /\ Cardinality(UpstreamHolders') \in Nat
  BY <1>1, HoldersFinite, FS_RemoveElement, FS_CardinalityType
<1>3. /\ streamSem' = IF StreamCap = 0 THEN 0 ELSE Cardinality(StreamHolders')
      /\ StreamCap > 0 => streamSem' <= StreamCap
  <2>1. CASE "stream" \in deferred[h]
    <3>1. Cardinality(StreamHolders') = Cardinality(StreamHolders) - 1
      BY <1>1, <2>1, HoldersFinite, FS_RemoveElement DEF StreamHolders
    <3>2. streamSem' = Released(StreamCap, streamSem)
      BY <2>1 DEF Return
    <3>3. QED
      BY <1>2, <3>1, <3>2, HoldersFinite, StreamProxyAssumption
      DEF SlotInv, SlotsAccounted, Released
  <2>2. CASE "stream" \notin deferred[h]
    <3>1. StreamHolders' = StreamHolders
      BY <1>1, <2>2 DEF StreamHolders
    <3>2. streamSem' = streamSem
      BY <2>2 DEF Return
    <3>3. QED
      BY <3>1, <3>2 DEF SlotInv, SlotsAccounted
  <2>3. QED
    BY <2>1, <2>2
<1>4. /\ upstreamSem' = IF UpstreamCap = 0 THEN 0 ELSE Cardinality(UpstreamHolders')
      /\ UpstreamCap > 0 => upstreamSem' <= UpstreamCap
  <2>1. CASE "upstream" \in deferred[h]
    <3>1. Cardinality(UpstreamHolders') = Cardinality(UpstreamHolders) - 1
      BY <1>1, <2>1, HoldersFinite, FS_RemoveElement DEF UpstreamHolders
    <3>2. upstreamSem' = Released(UpstreamCap, upstreamSem)
      BY <2>1 DEF Return
    <3>3. QED
      BY <1>2, <3>1, <3>2, HoldersFinite, StreamProxyAssumption
      DEF SlotInv, SlotsAccounted, Released
  <2>2. CASE "upstream" \notin deferred[h]
    <3>1. UpstreamHolders' = UpstreamHolders
      BY <1>1, <2>2 DEF UpstreamHolders
    <3>2. upstreamSem' = upstreamSem
      BY <2>2 DEF Return
    <3>3. QED
      BY <3>1, <3>2 DEF SlotInv, SlotsAccounted
  <2>3. QED
    BY <2>1, <2>2
<1>5. QED
  BY <1>3, <1>4 DEF SlotsAccounted

-----------------------------------------------------------------------------
\* The slots that h holds are those it uses at its place in the code.
HoldsFor(h) ==
  /\ handler[h].pc # "return" =>
       /\ "stream" \in deferred[h] <=> UsesStream(handler[h])
       /\ "upstream" \in deferred[h] <=> UsesUpstream(handler[h])
  /\ At(h, "slot") => handler[h].kind # "playlist"

\* h goes to pc; the other handlers stay where they are.
Moves(h, pc) ==
  /\ handler'[h].pc = pc
  /\ pc # "return" => handler'[h].kind = handler[h].kind
  /\ \A g \in Handler \ {h} : handler'[g] = handler[g]

LEMMA GotoMoves ==
  ASSUME ProxyTypeOK, NEW h \in Handler, handler[h] \in HandlerState,
         NEW pc, Goto(h, pc)
  PROVE  Moves(h, pc)
  BY DEF Goto, Moves, ProxyTypeOK, HandlerState

LEMMA StampMoves ==
  ASSUME ProxyTypeOK, NEW h \in Handler, handler[h] \in HandlerState,
         NEW pc, Stamp(h, pc)
  PROVE  Moves(h, pc)
  BY DEF Stamp, Moves, ProxyTypeOK, HandlerState

LEMMA LeaveMoves ==
  ASSUME ProxyTypeOK, NEW h \in Handler, Leave(h)
  PROVE  Moves(h, "return")
  BY DEF Leave, Moves, ProxyTypeOK, Returning

\* A step of h keeps what is said of the other handlers.
LEMMA HoldsAfterOne ==
  ASSUME SlotInv, NEW h \in Handler, HoldsFor(h)',
         \A g \in Handler \ {h} : /\ handler'[g] = handler[g]
                                  /\ deferred'[g] = deferred[g]
  PROVE  HoldsWhatItUses' /\ StreamsOnly'
<1>1. ASSUME NEW g \in Handler PROVE HoldsFor(g)'
  <2>1. CASE g = h
    BY <2>1
  <2>2. CASE g # h
    BY <2>2 DEF SlotInv, HoldsWhatItUses, StreamsOnly, HoldsFor, UsesStream,
                UsesUpstream, At
  <2>3. QED
    BY <2>1, <2>2
<1>2. QED
  BY <1>1 DEF HoldsFor, HoldsWhatItUses, StreamsOnly

\* A move that takes and gives back nothing, between places that use the same.
LEMMA HoldsAfterMove ==
  ASSUME SlotInv, NEW h \in Handler, NEW pc, Moves(h, pc), UNCHANGED deferred,
         \/ pc = "return"
         \/ /\ handler[h].pc \in {"verify", "slot"} /\ pc = "slot"
            /\ handler[h].kind # "playlist"
         \/ handler[h].pc = "verify" /\ handler[h].kind = "playlist" /\ pc = "lookup"
         \/ handler[h].pc = "lookup" /\ pc = "upstream"
         \/ handler[h].pc = "upstream" /\ handler[h].kind = "playlist" /\ pc = "account"
         \/ /\ handler[h].pc \in {"connect", "pump", "flush", "finalFlush", "account"}
            /\ pc \in {"pump", "flush", "finalFlush", "account", "end"}
            /\ handler[h].pc = "connect" => handler[h].kind # "playlist"
  PROVE  HoldsWhatItUses' /\ StreamsOnly'
<1>1. HoldsFor(h)
  BY DEF SlotInv, HoldsWhatItUses, StreamsOnly, HoldsFor
<1>2. HoldsFor(h)'
  BY <1>1 DEF HoldsFor, Moves, UsesStream, UsesUpstream, At
<1>3. QED
  BY <1>2, HoldsAfterOne DEF Moves

LEMMA HandlerStepHolds ==
  ASSUME SlotInv, NEW h \in Handler, HandlerStep(h)
  PROVE  HoldsWhatItUses' /\ StreamsOnly'
<1>1. /\ ProxyTypeOK
      /\ handler[h].pc \in HandlerPC => handler[h] \in HandlerState
  BY HandlerLocals DEF SlotInv, TypeOK
<1>2. HoldsFor(h)
  BY DEF SlotInv, HoldsWhatItUses, StreamsOnly, HoldsFor
<1> USE HoldsAfterMove, GotoMoves, StampMoves, LeaveMoves DEF slotVars
<1>3. CASE VerifyToken(h)
  BY <1>1, <1>3 DEF VerifyToken, At, HandlerPC
<1>4. CASE Refuse(h)
  BY <1>1, <1>4 DEF Refuse
<1>5. CASE LookupChannel(h)
  BY <1>1, <1>5 DEF LookupChannel, At, HandlerPC
<1>6. CASE ServeCachedPlaylist(h)
  BY <1>1, <1>6 DEF ServeCachedPlaylist, At, HandlerPC
<1>7. CASE ConnectMPEGTS(h)
  BY <1>1, <1>7 DEF ConnectMPEGTS, At, HandlerPC
<1>8. CASE CopySegment(h)
  BY <1>1, <1>8 DEF CopySegment, At, HandlerPC
<1>9. CASE FinalFlush(h)
  BY <1>1, <1>9 DEF FinalFlush, At, HandlerPC
<1>10. CASE Account(h)
  BY <1>1, <1>10 DEF Account, At, HandlerPC
<1>11. CASE EndOwnSession(h)
  BY <1>1, <1>11 DEF EndOwnSession
<1>12. CASE ConnectFails(h)
  <2>1. CASE handler[h].kind = "mpegts"
    <3>1. Moves(h, "end")
      BY <1>1, <1>12, <2>1
      DEF ConnectFails, At, HandlerPC, Moves, ProxyTypeOK, HandlerState
    <3>2. QED
      BY <1>12, <2>1, <3>1 DEF ConnectFails, At
  <2>2. CASE handler[h].kind # "mpegts"
    BY <1>1, <1>12, <2>2 DEF ConnectFails
  <2>3. QED
    BY <2>1, <2>2
<1>13. CASE PumpChunk(h)
  <2>1. Moves(h, "pump") \/ Moves(h, "flush")
    BY <1>1, <1>13 DEF PumpChunk, At, HandlerPC, Moves, ProxyTypeOK, HandlerState
  <2>2. QED
    BY <1>13, <2>1 DEF PumpChunk, At
<1>14. CASE PumpFlush(h)
  <2>1. Moves(h, "pump")
    BY <1>1, <1>14 DEF PumpFlush, At, HandlerPC, Moves, ProxyTypeOK, HandlerState
  <2>2. QED
    BY <1>14, <2>1 DEF PumpFlush, At
<1>15. CASE PumpStops(h)
  <2>1. Moves(h, "finalFlush")
    BY <1>1, <1>15 DEF PumpStops, At, HandlerPC, Moves, ProxyTypeOK, HandlerState
  <2>2. QED
    BY <1>15, <2>1 DEF PumpStops, At
<1>16. CASE AcquireStream(h)
  <2>1. CASE Admits(StreamCap, streamSem)
    <3>1. /\ Moves(h, "lookup")
          /\ handler[h].kind # "playlist"
          /\ deferred' = [deferred EXCEPT ![h] = @ \cup {"stream"}]
      BY <1>1, <1>2, <1>16, <2>1 DEF AcquireStream, At, HandlerPC, HoldsFor
    <3>2. HoldsFor(h)'
      BY <1>1, <1>2, <1>16, <3>1
      DEF AcquireStream, HoldsFor, Moves, UsesStream, UsesUpstream, At, ProxyTypeOK
    <3>3. QED
      BY <1>1, <3>1, <3>2, HoldsAfterOne DEF Moves, ProxyTypeOK
  <2>2. CASE ~Admits(StreamCap, streamSem)
    BY <1>1, <1>16, <2>2 DEF AcquireStream
  <2>3. QED
    BY <2>1, <2>2
<1>17. CASE AcquireUpstream(h)
  <2>1. CASE Admits(UpstreamCap, upstreamSem)
    <3>1. /\ Moves(h, "connect")
          /\ deferred' = [deferred EXCEPT ![h] = @ \cup {"upstream"}]
      BY <1>1, <1>17, <2>1 DEF AcquireUpstream, At, HandlerPC
    <3>2. HoldsFor(h)'
      BY <1>1, <1>2, <1>17, <3>1
      DEF AcquireUpstream, HoldsFor, Moves, UsesStream, UsesUpstream, At, ProxyTypeOK
    <3>3. QED
      BY <1>1, <3>1, <3>2, HoldsAfterOne DEF Moves, ProxyTypeOK
  <2>2. CASE ~Admits(UpstreamCap, upstreamSem)
    BY <1>1, <1>17, <2>2 DEF AcquireUpstream
  <2>3. QED
    BY <2>1, <2>2
<1>18. CASE FetchPlaylist(h)
  <2>1. /\ Moves(h, "account")
        /\ deferred' = [deferred EXCEPT ![h] = @ \ {"upstream"}]
    BY <1>1, <1>18 DEF FetchPlaylist, At, HandlerPC
  <2>2. HoldsFor(h)'
    BY <1>1, <1>2, <1>18, <2>1
    DEF FetchPlaylist, HoldsFor, Moves, UsesStream, UsesUpstream, At, ProxyTypeOK
  <2>3. QED
    BY <1>1, <2>1, <2>2, HoldsAfterOne DEF Moves, ProxyTypeOK
<1>19. CASE Return(h)
  <2>1. HoldsFor(h)'
    BY <1>1, <1>19
    DEF Return, HoldsFor, UsesStream, UsesUpstream, At, NoRequest, ProxyTypeOK
  <2>2. QED
    BY <1>1, <1>19, <2>1, HoldsAfterOne DEF Return, ProxyTypeOK
<1>20. QED
  BY <1>3, <1>4, <1>5, <1>6, <1>7, <1>8, <1>9, <1>10, <1>11, <1>12, <1>13, <1>14, <1>15, <1>16, <1>17, <1>18, <1>19
  DEF HandlerStep

LEMMA SlotInvInit == Init => SlotInv
<1> SUFFICES ASSUME Init PROVE SlotInv
  OBVIOUS
<1>1. TypeOK
  BY InitType
<1>2. HoldsWhatItUses /\ StreamsOnly
  BY DEF Init, ProxyInit, NoRequest, HoldsWhatItUses, StreamsOnly, UsesStream,
         UsesUpstream, At
<1>3. StreamHolders = {} /\ UpstreamHolders = {}
  BY DEF Init, ProxyInit, StreamHolders, UpstreamHolders
<1>4. SlotsAccounted
  BY <1>3, FS_EmptySet, StreamProxyAssumption DEF Init, ProxyInit, SlotsAccounted
<1>5. QED
  BY <1>1, <1>2, <1>4 DEF SlotInv

LEMMA SlotInvNext == SlotInv /\ [Next]_vars => SlotInv'
<1> SUFFICES ASSUME SlotInv, [Next]_vars
             PROVE  HoldsWhatItUses' /\ StreamsOnly' /\ SlotsAccounted'
  BY NextType DEF SlotInv
<1>1. ASSUME UNCHANGED proxyVars
      PROVE  HoldsWhatItUses' /\ StreamsOnly' /\ SlotsAccounted'
  BY <1>1, SlotsKept DEF proxyVars, slotVars, SlotInv, HoldsWhatItUses,
                         StreamsOnly, UsesStream, UsesUpstream, At
<1>2. CASE Streaming
  <2>1. PICK h \in Handler :
          \/ \E k \in {"mpegts", "playlist", "segment"}, s \in SessionId :
               Accept(h, k, s)
          \/ HandlerStep(h)
          \/ ClientLeaves(h)
    BY <1>2 DEF Streaming
  <2>2. CASE \E k \in {"mpegts", "playlist", "segment"}, s \in SessionId :
               Accept(h, k, s)
    <3>1. PICK k \in {"mpegts", "playlist", "segment"}, s \in SessionId :
            Accept(h, k, s)
      BY <2>2
    <3>2. /\ handler'[h].pc = "verify"
          /\ \A g \in Handler \ {h} : handler'[g] = handler[g]
          /\ handler[h].pc = "idle"
      BY <3>1 DEF Accept, At, SlotInv, TypeOK, ProxyTypeOK
    <3>3. HoldsFor(h)'
      BY <3>1, <3>2 DEF Accept, slotVars, SlotInv, HoldsWhatItUses, HoldsFor,
                        UsesStream, UsesUpstream, At
    <3>4. QED
      BY <3>1, <3>2, <3>3, HoldsAfterOne, SlotsKept DEF Accept, slotVars, SlotInv
  <2>3. CASE HandlerStep(h)
    <3>1. HoldsWhatItUses' /\ StreamsOnly'
      BY <2>3, HandlerStepHolds
    <3>2. SlotsAccounted'
      <4>1. \/ UNCHANGED slotVars
            \/ AcquireStream(h)
            \/ AcquireUpstream(h)
            \/ FetchPlaylist(h)
            \/ Return(h)
        BY <2>3
        DEF HandlerStep, VerifyToken, Refuse, LookupChannel,
            ServeCachedPlaylist, ConnectFails, ConnectMPEGTS, CopySegment,
            PumpChunk, PumpFlush, PumpStops, FinalFlush, Account, EndOwnSession
      <4>2. QED
        BY <4>1, SlotsKept, SlotsAfterAcquireStream, SlotsAfterAcquireUpstream,
           SlotsAfterFetchPlaylist, SlotsAfterReturn DEF SlotInv
    <3>3. QED
      BY <3>1, <3>2
  <2>4. CASE ClientLeaves(h)
    <3>1. handler[h] \in HandlerState
      BY <2>4 DEF ClientLeaves, SlotInv, TypeOK, ProxyTypeOK, NoRequest, Returning
    <3>2. Moves(h, handler[h].pc)
      BY <2>4, <3>1
      DEF ClientLeaves, Moves, SlotInv, TypeOK, ProxyTypeOK, HandlerState
    <3>3. HoldsFor(h)'
      BY <2>4, <3>2
      DEF ClientLeaves, slotVars, SlotInv, HoldsWhatItUses, StreamsOnly, HoldsFor,
          Moves, UsesStream, UsesUpstream, At
    <3>4. QED
      BY <2>4, <3>2, <3>3, HoldsAfterOne, SlotsKept
      DEF ClientLeaves, slotVars, Moves, SlotInv
  <2>5. QED
    BY <2>1, <2>2, <2>3, <2>4
<1>3. CASE Clock
  <2>1. ASSUME NEW h \in Handler
        PROVE  /\ handler'[h].pc = handler[h].pc
               /\ \/ handler[h].pc \in {"idle", "return"}
                  \/ handler'[h].kind = handler[h].kind
    <3>1. CASE At(h, "idle") \/ At(h, "return")
      BY <1>3, <3>1 DEF Clock, Tick, At
    <3>2. CASE ~(At(h, "idle") \/ At(h, "return"))
      <4>1. handler[h] \in HandlerState
        BY <3>2 DEF At, SlotInv, TypeOK, ProxyTypeOK, NoRequest, Returning
      <4>2. QED
        BY <1>3, <3>2, <4>1 DEF Clock, Tick, HandlerState
    <3>3. QED
      BY <3>1, <3>2
  <2>2. UNCHANGED slotVars
    BY <1>3 DEF Clock, Tick
  <2>3. HoldsWhatItUses' /\ StreamsOnly'
    BY <2>1, <2>2 DEF slotVars, SlotInv, HoldsWhatItUses, StreamsOnly, UsesStream,
                      UsesUpstream, At
  <2>4. QED
    BY <2>2, <2>3, SlotsKept DEF SlotInv
<1>4. CASE Restart
  <2>1. StreamHolders' = {} /\ UpstreamHolders' = {}
    BY <1>4 DEF Restart, StreamHolders, UpstreamHolders
  <2>2. SlotsAccounted'
    BY <1>4, <2>1, FS_EmptySet, StreamProxyAssumption DEF Restart, SlotsAccounted
  <2>3. HoldsWhatItUses' /\ StreamsOnly'
    BY <1>4 DEF Restart, NoRequest, HoldsWhatItUses, StreamsOnly, UsesStream,
                UsesUpstream, At
  <2>4. QED
    BY <2>2, <2>3
<1>5. QED
  <2>1. CASE Minting \/ Reaping \/ Killing \/ Enabling \/ Deleting \/ UNCHANGED vars
    BY <1>1, <2>1 DEF Minting, Reaping, Killing, Enabling, Deleting, vars
  <2>2. QED
    BY <1>2, <1>3, <1>4, <2>1 DEF Next

LEMMA SlotInvHolds == Spec => []SlotInv
  BY SlotInvInit, SlotInvNext, PTL DEF Spec

\* On every error path, after a cancelled request and across restarts, a
\* semaphore counts exactly the handlers that will release it and stays within
\* its capacity, for any number of requests and any caps.
THEOREM SlotsAccountedAlways == Spec => []SlotsAccounted
<1>1. SlotInv => SlotsAccounted
  BY DEF SlotInv
<1>2. QED
  BY <1>1, SlotInvHolds, PTL

\* A handler that has not returned will release exactly the slots it uses at
\* its place in ProxyMPEGTS, ProxyHLSPlaylist or ProxyHLSSegment.
THEOREM HoldsWhatItUsesAlways == Spec => []HoldsWhatItUses
<1>1. SlotInv => HoldsWhatItUses
  BY DEF SlotInv
<1>2. QED
  BY <1>1, SlotInvHolds, PTL

=============================================================================
