----------------------------- MODULE StreamProxy -----------------------------
(***************************************************************************)
(* The byte-serving handlers: ProxyMPEGTS, ProxyHLSPlaylist and            *)
(* ProxyHLSSegment, with the two global semaphores they share.  A handler  *)
(* checks its token once, against the session row; after that it goes from *)
(* one statement or semaphore to the next without looking at the row       *)
(* again.  Go's deferred calls are the set deferred[h]: what h releases    *)
(* when it returns, on whatever path it does.                              *)
(***************************************************************************)
EXTENDS SessionStore

CONSTANTS
  Handler,          \* the byte-serving requests that can be in flight at once
  StreamCap,        \* Limits.GlobalStreamCap, 0 when there is none
  UpstreamCap,      \* Limits.GlobalUpstreamCap, 0 when there is none
  FlushInterval,    \* byteCounterFlushInterval, in ticks
  ObservesDisconnect, \* is r.Context() cancelled when the client goes away
  WritesMayFail     \* can the accounting statements fail

ASSUME StreamProxyAssumption ==
  /\ IsFiniteSet(Handler)
  /\ StreamCap \in Nat
  /\ UpstreamCap \in Nat
  /\ FlushInterval \in Nat \ {0}
  /\ ObservesDisconnect \in BOOLEAN
  /\ WritesMayFail \in BOOLEAN

VARIABLES
  handler,       \* per request: where it is and its local variables
  deferred,      \* per request: the slots it releases when it returns
  streamSem,     \* streamSem.cur
  upstreamSem    \* upstreamSem.cur

proxyVars == <<handler, deferred, streamSem, upstreamSem>>

Slot == {"stream", "upstream"}

HandlerPC == {"verify", "slot", "lookup", "upstream", "connect", "pump",
              "flush", "finalFlush", "account", "end"}

NoRequest == [pc |-> "idle"]
Returning == [pc |-> "return"]     \* only its deferred calls are left

HandlerState ==
  [pc: HandlerPC,
   kind: {"mpegts", "playlist", "segment"},
   sid: SessionId,
   live: BOOLEAN,                \* r.Context() is not cancelled
   stamp: Age,                   \* age of the time.Now() about to be written
   sent: BOOLEAN,                \* total > 0
   flushed: BOOLEAN,             \* a periodic flush has been written
   sinceFlush: 0 .. FlushInterval, \* time.Since(lastFlush), saturating
   silent: Age,                  \* ticks since the last chunk (history)
   reason: EndReason]

ProxyTypeOK ==
  /\ handler \in [Handler -> HandlerState \cup {NoRequest, Returning}]
  /\ deferred \in [Handler -> SUBSET Slot]
  /\ streamSem \in Nat
  /\ upstreamSem \in Nat

ProxyInit ==
  /\ handler = [h \in Handler |-> NoRequest]
  /\ deferred = [h \in Handler |-> {}]
  /\ streamSem = 0
  /\ upstreamSem = 0

At(h, pc) == handler[h].pc = pc
Goto(h, pc) == handler' = [handler EXCEPT ![h].pc = pc]
Leave(h) == handler' = [handler EXCEPT ![h] = Returning]
Sid(h) == handler[h].sid

\* semaphore.TryAcquire and Release: a capacity of 0 counts nothing.
Admits(cap, cur) == cap = 0 \/ cur < cap
Acquired(cap, cur) == IF cap = 0 THEN cur ELSE cur + 1
Released(cap, cur) == IF cap = 0 \/ cur = 0 THEN cur ELSE cur - 1

\* h takes the time now, to write it at pc.
Stamp(h, pc) == handler' = [handler EXCEPT ![h].pc = pc, ![h].stamp = 0]

slotVars == <<deferred, streamSem, upstreamSem>>

-----------------------------------------------------------------------------
(***************************************************************************)
(* From the request to the upstream connection.                            *)
(***************************************************************************)

\* A client uses a token it was given.
Accept(h, k, s) ==
  /\ At(h, "idle")
  /\ s \in granted
  /\ handler' = [handler EXCEPT ![h] =
       [pc |-> "verify", kind |-> k, sid |-> s, live |-> TRUE, stamp |-> 0,
        sent |-> FALSE, flushed |-> FALSE, sinceFlush |-> 0, silent |-> 0,
        reason |-> "client_disconnect"]]
  /\ UNCHANGED <<slotVars, storeVars>>

\* verifyToken: GetSession finds a row that has not ended.  The playlist
\* handler takes no stream slot.
VerifyToken(h) ==
  /\ At(h, "verify")
  /\ IF handler[h].live /\ Active(Sid(h))
     THEN Goto(h, IF handler[h].kind = "playlist" THEN "lookup" ELSE "slot")
     ELSE Leave(h)
  /\ UNCHANGED <<slotVars, storeVars>>

\* The early answers: a token, URL or segment signature that does not match, a
\* read that fails, the rate limiter refusing a segment, a playlist that cannot
\* be rewritten.
Refuse(h) ==
  /\ \/ At(h, "verify")
     \/ At(h, "slot") /\ handler[h].kind = "segment"
     \/ At(h, "lookup")
     \/ At(h, "account") /\ handler[h].kind = "playlist"
  /\ Leave(h)
  /\ UNCHANGED <<slotVars, storeVars>>

\* streamSemaphore().TryAcquire(), with its deferred Release.
AcquireStream(h) ==
  /\ At(h, "slot")
  /\ IF Admits(StreamCap, streamSem)
     THEN /\ streamSem' = Acquired(StreamCap, streamSem)
          /\ deferred' = [deferred EXCEPT ![h] = @ \cup {"stream"}]
          /\ Goto(h, "lookup")
     ELSE Leave(h) /\ UNCHANGED <<streamSem, deferred>>
  /\ UNCHANGED <<upstreamSem, storeVars>>

\* GetChannel (and sourceHeaders, whose failure is ignored).
LookupChannel(h) ==
  /\ At(h, "lookup")
  /\ LET row == sessions[Sid(h)]
         found == /\ handler[h].live
                  /\ row.status # "deleted"
                  /\ channels[row.channel] # "deleted"
     IN  IF found THEN Goto(h, "upstream") ELSE Leave(h)
  /\ UNCHANGED <<slotVars, storeVars>>

\* fetchPlaylistBody finds a fresh body for the channel.
ServeCachedPlaylist(h) ==
  /\ At(h, "upstream")
  /\ handler[h].kind = "playlist"
  /\ Stamp(h, "account")
  /\ UNCHANGED <<slotVars, storeVars>>

\* upstreamSemaphore().TryAcquire(), with its deferred Release.
AcquireUpstream(h) ==
  /\ At(h, "upstream")
  /\ IF Admits(UpstreamCap, upstreamSem)
     THEN /\ upstreamSem' = Acquired(UpstreamCap, upstreamSem)
          /\ deferred' = [deferred EXCEPT ![h] = @ \cup {"upstream"}]
          /\ Goto(h, "connect")
     ELSE Leave(h) /\ UNCHANGED <<upstreamSem, deferred>>
  /\ UNCHANGED <<streamSem, storeVars>>

\* Slip: the MPEG-TS handler's error path without its EndSession.
ConnectFailsQuietly(h) ==
  /\ At(h, "connect")
  /\ Leave(h)
  /\ UNCHANGED <<slotVars, storeVars>>

\* The upstream request fails or answers outside 2xx.  Only the MPEG-TS
\* handler ends the session for it.
ConnectFails(h) ==
  /\ At(h, "connect")
  /\ IF handler[h].kind = "mpegts"
     THEN handler' = [handler EXCEPT ![h].pc = "end",
                                     ![h].reason = "upstream_error"]
     ELSE Leave(h)
  /\ UNCHANGED <<slotVars, storeVars>>

\* The upstream answers 2xx: the pump starts, and its lastFlush is now.
ConnectMPEGTS(h) ==
  /\ At(h, "connect")
  /\ handler[h].live
  /\ handler[h].kind = "mpegts"
  /\ Goto(h, "pump")
  /\ UNCHANGED <<slotVars, storeVars>>

\* Slip: the upstream slot kept until the handler returns.
FetchPlaylistHolding(h) ==
  /\ At(h, "connect")
  /\ handler[h].live
  /\ handler[h].kind = "playlist"
  /\ Stamp(h, "account")
  /\ UNCHANGED <<slotVars, storeVars>>

\* The playlist body is read whole; fetchPlaylistBody returns, and with it
\* the upstream slot, before the handler rewrites and answers.
FetchPlaylist(h) ==
  /\ At(h, "connect")
  /\ handler[h].live
  /\ handler[h].kind = "playlist"
  /\ Stamp(h, "account")
  /\ deferred' = [deferred EXCEPT ![h] = @ \ {"upstream"}]
  /\ upstreamSem' = Released(UpstreamCap, upstreamSem)
  /\ UNCHANGED <<streamSem, storeVars>>

\* io.Copy of the whole segment; the row hears of it only afterwards, and
\* only if a byte went out.
CopySegment(h) ==
  /\ At(h, "connect")
  /\ handler[h].live
  /\ handler[h].kind = "segment"
  /\ Stamp(h, "account") \/ Leave(h)
  /\ UNCHANGED <<slotVars, storeVars>>

-----------------------------------------------------------------------------
(***************************************************************************)
(* The MPEG-TS pump and what follows it.                                   *)
(***************************************************************************)

\* A chunk is read and written.  FlushInterval after the last flush it also
\* takes a stamp for the next one.
PumpChunk(h) ==
  /\ At(h, "pump")
  /\ handler[h].live
  /\ LET due == handler[h].sinceFlush >= FlushInterval
     IN  handler' = [handler EXCEPT ![h].sent = TRUE, ![h].silent = 0,
                       ![h].stamp = 0, ![h].pc = IF due THEN "flush" ELSE "pump"]
  /\ UNCHANGED <<slotVars, storeVars>>

\* flushCounter(isFinal = false) under the request's context.  lastFlush is
\* reset whether or not the statement went through.
PumpFlush(h) ==
  /\ At(h, "flush")
  /\ \E ok \in {handler[h].live, handler[h].live /\ ~WritesMayFail} :
       /\ IF ok THEN UpdateSessionLastByte(Sid(h), handler[h].stamp)
                ELSE UNCHANGED sessions
       /\ handler' = [handler EXCEPT ![h].pc = "pump", ![h].sinceFlush = 0,
                                     ![h].stamp = 0, ![h].flushed = @ \/ ok]
  /\ UNCHANGED <<slotVars, channels, granted>>

\* The pump loop ends: the upstream's end of file, its failure, or the client
\* seen gone.  A cancelled context can surface as either reason.
PumpStops(h) ==
  /\ At(h, "pump")
  /\ \E why \in {"client_disconnect", "upstream_error"} :
       handler' = [handler EXCEPT ![h].pc = "finalFlush", ![h].stamp = 0,
                     ![h].reason = why,
                     ![h].sinceFlush = 0, ![h].silent = 0, ![h].flushed = FALSE]
  /\ UNCHANGED <<slotVars, storeVars>>

\* flushCounter(isFinal = true): a detached context, so it survives a cancel.
FinalFlush(h) ==
  /\ At(h, "finalFlush")
  /\ IF handler[h].sent THEN Stamp(h, "account") ELSE Goto(h, "end")
  /\ \E ok \in {TRUE, ~WritesMayFail} :
       IF ok THEN UpdateSessionLastByte(Sid(h), handler[h].stamp)
             ELSE UNCHANGED sessions
  /\ UNCHANGED <<slotVars, channels, granted>>

\* The handler's own UpdateSessionLastByte, under the request's context.
Account(h) ==
  /\ At(h, "account")
  /\ IF handler[h].kind = "mpegts" THEN Goto(h, "end") ELSE Leave(h)
  /\ \E ok \in {handler[h].live, handler[h].live /\ ~WritesMayFail} :
       IF ok THEN UpdateSessionLastByte(Sid(h), handler[h].stamp)
             ELSE UNCHANGED sessions
  /\ UNCHANGED <<slotVars, channels, granted>>

\* EndSession under the request's context: a cancelled request ends nothing.
EndOwnSession(h) ==
  /\ At(h, "end")
  /\ Leave(h)
  /\ \E ok \in {handler[h].live, handler[h].live /\ ~WritesMayFail} :
       IF ok THEN EndSession(Sid(h), handler[h].reason) ELSE UNCHANGED sessions
  /\ UNCHANGED <<slotVars, channels, granted>>

\* Slip: an upstream slot released whether or not one is still held.
ReturnReleasingTwice(h) ==
  /\ At(h, "return")
  /\ handler' = [handler EXCEPT ![h] = NoRequest]
  /\ deferred' = [deferred EXCEPT ![h] = {}]
  /\ streamSem' = IF "stream" \in deferred[h]
                  THEN Released(StreamCap, streamSem) ELSE streamSem
  /\ upstreamSem' = Released(UpstreamCap, upstreamSem)
  /\ UNCHANGED storeVars

\* The handler returns and its deferred releases run.
Return(h) ==
  /\ At(h, "return")
  /\ handler' = [handler EXCEPT ![h] = NoRequest]
  /\ deferred' = [deferred EXCEPT ![h] = {}]
  /\ streamSem' = IF "stream" \in deferred[h]
                  THEN Released(StreamCap, streamSem) ELSE streamSem
  /\ upstreamSem' = IF "upstream" \in deferred[h]
                    THEN Released(UpstreamCap, upstreamSem) ELSE upstreamSem
  /\ UNCHANGED storeVars

\* The client goes away and the server cancels the request's context.
ClientLeaves(h) ==
  /\ ObservesDisconnect
  /\ handler[h].pc \notin {"idle", "return"}
  /\ handler[h].live
  /\ handler' = [handler EXCEPT ![h].live = FALSE]
  /\ UNCHANGED <<slotVars, storeVars>>

-----------------------------------------------------------------------------
Pumping(h) == handler[h].pc \in {"pump", "flush"}
Writing(h) == handler[h].pc \in {"flush", "finalFlush", "account"}

\* A tick of the clock; a stamp waits at most WriteLatency of them.
Tick ==
  /\ \A h \in Handler : Writing(h) => handler[h].stamp < WriteLatency
  /\ AgeSessions
  /\ handler' = [h \in Handler |->
       IF At(h, "idle") \/ At(h, "return") THEN handler[h]
       ELSE [handler[h] EXCEPT
               !.stamp = IF Writing(h) THEN Older(@) ELSE @,
               !.sinceFlush = IF Pumping(h) /\ @ < FlushInterval
                              THEN @ + 1 ELSE @,
               !.silent = IF Pumping(h) THEN Older(@) ELSE @]]
  /\ UNCHANGED <<slotVars, channels, granted>>

\* What the handler does by itself once the request is in.
HandlerStep(h) ==
  \/ VerifyToken(h)
  \/ Refuse(h)
  \/ AcquireStream(h)
  \/ LookupChannel(h)
  \/ ServeCachedPlaylist(h)
  \/ AcquireUpstream(h)
  \/ ConnectFails(h)
  \/ ConnectMPEGTS(h)
  \/ FetchPlaylist(h)
  \/ CopySegment(h)
  \/ PumpChunk(h)
  \/ PumpFlush(h)
  \/ PumpStops(h)
  \/ FinalFlush(h)
  \/ Account(h)
  \/ EndOwnSession(h)
  \/ Return(h)

=============================================================================
