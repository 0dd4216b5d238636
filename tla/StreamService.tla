---------------------------- MODULE StreamService ----------------------------
(***************************************************************************)
(* The streaming half of the plugin: session minting and the byte-serving  *)
(* handlers over one stream_sessions table, with the idle reaper, the      *)
(* administrator, the channel refresh and restarts of the plugin process.  *)
(***************************************************************************)
EXTENDS SessionMinting, StreamProxy

vars == <<storeVars, mintVars, proxyVars>>

Init == StoreInit /\ MintInit /\ ProxyInit

\* The plugin process dies and comes back: every request in flight is gone
\* and the semaphores are new, while the tables stay as they were.
Restart ==
  /\ mint' = [m \in Minter |-> Idling]
  /\ handler' = [h \in Handler |-> NoRequest]
  /\ deferred' = [h \in Handler |-> {}]
  /\ streamSem' = 0
  /\ upstreamSem' = 0
  /\ UNCHANGED <<storeVars, kind, recent>>

Minting ==
  /\ \E m \in Minter :
       \/ \E u \in User, c \in Channel : MintBegin(m, u, c)
       \/ MintStep(m)
  /\ UNCHANGED proxyVars

Streaming ==
  /\ \E h \in Handler :
       \/ \E k \in {"mpegts", "playlist", "segment"}, s \in SessionId :
            Accept(h, k, s)
       \/ HandlerStep(h)
       \/ ClientLeaves(h)
  /\ UNCHANGED mintVars

\* The scheduler, the administrator and the refresh.
Reaping == ReapIdle /\ UNCHANGED <<mintVars, proxyVars>>
Killing == \E s \in SessionId : AdminKillSession(s) /\ UNCHANGED <<mintVars, proxyVars>>
Enabling == \E c \in Channel, on \in BOOLEAN :
              SetChannelEnabled(c, on) /\ UNCHANGED <<mintVars, proxyVars>>

\* user_recent hangs from channels as stream_sessions does.
Deleting ==
  \E c \in Channel :
    /\ DeleteChannel(c)
    /\ recent' = {r \in recent : r[2] # c}
    /\ UNCHANGED <<mint, kind, proxyVars>>

Clock == Tick /\ UNCHANGED mintVars

Next ==
  \/ Minting
  \/ Streaming
  \/ Reaping
  \/ Killing
  \/ Enabling
  \/ Deleting
  \/ Clock
  \/ Restart

Spec == Init /\ [][Next]_vars

TypeOK == StoreTypeOK /\ MintTypeOK /\ ProxyTypeOK

-----------------------------------------------------------------------------
(***************************************************************************)
(* Caps.                                                                   *)
(***************************************************************************)

\* Requests that passed the user's cap check and have not inserted yet.
ClearedForUser(u) ==
  {m \in Minter : /\ mint[m].pc \in {"channelCap", "probe", "persist", "insert"}
                  /\ mint[m].user = u}

ClearedForChannel(c) ==
  {m \in Minter : /\ mint[m].pc \in {"probe", "persist", "insert"}
                  /\ mint[m].channel = c}

\* CreateSession counts and inserts in separate statements, so requests that
\* overlap can each find room for one.  The excess is bounded all the same:
\* a user's active sessions, with those about to be inserted, exceed the cap
\* by less than the number of requests in flight, and likewise a channel's.
\* With one request at a time the caps are exact.
CapOvershootBounded ==
  /\ UserCap > 0 => \A u \in User :
       Cardinality(ActiveOfUser(u)) + Cardinality(ClearedForUser(u))
         < UserCap + Cardinality(Minter)
  /\ ChannelCap > 0 => \A c \in Channel :
       Cardinality(ActiveOfChannel(c)) + Cardinality(ClearedForChannel(c))
         < ChannelCap + Cardinality(Minter)

\* "Max concurrent sessions per user", as the operations guide says of
\* per_user_stream_cap.
UserCapHolds ==
  UserCap > 0 => \A u \in User : Cardinality(ActiveOfUser(u)) <= UserCap

-----------------------------------------------------------------------------
(***************************************************************************)
(* Semaphores.                                                             *)
(***************************************************************************)

StreamHolders == {h \in Handler : "stream" \in deferred[h]}
UpstreamHolders == {h \in Handler : "upstream" \in deferred[h]}

\* A semaphore counts exactly the handlers that will release it, on every
\* error path, after a cancelled request and after a restart, and is never
\* above its capacity.  A leak would shrink the server for good; a double
\* release would let it go over the cap.
SlotsAccounted ==
  /\ streamSem = IF StreamCap = 0 THEN 0 ELSE Cardinality(StreamHolders)
  /\ upstreamSem = IF UpstreamCap = 0 THEN 0 ELSE Cardinality(UpstreamHolders)
  /\ StreamCap > 0 => streamSem <= StreamCap
  /\ UpstreamCap > 0 => upstreamSem <= UpstreamCap

\* What a handler has taken at its place in the code: a stream slot from the
\* admission on, unless it serves a playlist, and an upstream slot from the
\* request to the upstream on, which a playlist gives back before it answers.
UsesStream(r) ==
  /\ r.pc \in {"lookup", "upstream", "connect", "pump", "flush", "finalFlush",
               "account", "end"}
  /\ r.kind # "playlist"
UsesUpstream(r) ==
  \/ r.pc = "connect"
  \/ /\ r.pc \in {"pump", "flush", "finalFlush", "account", "end"}
     /\ r.kind # "playlist"

\* A handler that has not returned will release exactly the slots it uses:
\* no connection is open outside the slots that bound connections, and none
\* is held by a handler that is past it.
HoldsWhatItUses ==
  \A h \in Handler :
    handler[h].pc # "return" =>
      /\ "stream" \in deferred[h] <=> UsesStream(handler[h])
      /\ "upstream" \in deferred[h] <=> UsesUpstream(handler[h])

-----------------------------------------------------------------------------
(***************************************************************************)
(* The life of a session.                                                  *)
(***************************************************************************)

\* Once ended, a session keeps its reason and its activity stamp and is never
\* active again, whichever of the reaper, the administrator and the handlers
\* still working on it comes late; all that can happen is that its channel is
\* deleted.  (store.EndSession: the first ended_at sticks.)
EndIsFinal ==
  [][\A s \in SessionId :
       Ended(s) => \/ sessions'[s] = sessions[s]
                   \/ channels'[sessions[s].channel] = "deleted"]_vars

\* Sessions and their channels stay consistent through the cascade: no row of
\* a deleted channel, so no late insert has slipped in behind the delete.
NoOrphanedRows ==
  \A s \in SessionId :
    Active(s) \/ Ended(s) => channels[sessions[s].channel] # "deleted"

\* h, an MPEG-TS handler that asked its upstream for the stream, returns.
LeavesPump(h) ==
  /\ handler[h].pc \in {"connect", "pump", "flush", "finalFlush", "account", "end"}
  /\ handler[h].kind = "mpegts"
  /\ handler'[h].pc = "return"

\* An MPEG-TS handler that asked its upstream for the stream ends its session
\* before it returns, whether the upstream refused, failed or finished;
\* otherwise the row counts against its user's cap until the reaper finds it.
\* (Only while its request is not cancelled and its writes succeed.)
PumpEndsItsSession ==
  [][\A h \in Handler :
       LeavesPump(h) /\ handler[h].live /\ ~WritesMayFail =>
         sessions'[Sid(h)].status # "active"]_vars

\* "Clean EOF or client disconnect ends the session with
\* end_reason='client_disconnect'", as the architecture guide says.
DisconnectEndsSession ==
  [][\A h \in Handler :
       LeavesPump(h) /\ handler[h].reason = "client_disconnect" =>
         sessions'[Sid(h)].status # "active"]_vars

\* A chunk that does not flush comes less than FlushInterval after the last
\* flush, so the reaper ends no session whose bytes flow: if it ends one under
\* a pump that has flushed, the pump has been silent for all of the timeout but
\* that time and the latency of a write.  (Only while the accounting writes succeed: a flush
\* that fails is not retried before the next interval.)
ReaperSparesFlowing ==
  [][\A s \in SessionId, h \in Handler :
       /\ ~WritesMayFail
       /\ Active(s) /\ sessions'[s].status = "ended"
       /\ sessions'[s].reason = "idle"
       /\ handler[h].pc = "pump" /\ handler[h].flushed
       /\ Sid(h) = s /\ handler[h].live
       => handler[h].silent + (FlushInterval - 1) + WriteLatency > IdleTimeout]_vars

\* "closes the proxy goroutine, revokes the grant", as the design says of a
\* kill: a pump that writes its accounting and finds its session killed goes no
\* further.
KillStopsPump ==
  [][\A h \in Handler :
       /\ At(h, "flush") /\ handler'[h].pc = "pump"
       /\ Ended(Sid(h))
       => sessions[Sid(h)].reason # "admin_kill"]_vars

-----------------------------------------------------------------------------
(***************************************************************************)
(* Refinement.  A row shows its owner and its reason; the requests in      *)
(* flight widen the cap by one less than their number.                     *)
(***************************************************************************)

BookEntry(row) ==
  CASE row.status = "free" -> [state |-> "unborn"]
    [] row.status = "deleted" -> [state |-> "gone"]
    [] row.status = "active" -> [state |-> "open", user |-> row.user, why |-> ""]
    [] row.status = "ended" ->
         [state |-> "closed", user |-> row.user, why |-> row.reason]

Book == [s \in SessionId |-> BookEntry(sessions[s])]

Lifecycle == INSTANCE SessionLifecycle WITH
  book <- Book,
  Bounded <- UserCap > 0,
  Bound <- UserCap + Cardinality(Minter) - 1

\* The service implements SessionLifecycle: whatever the handlers, the reaper,
\* the administrator and restarts do to a row, its owner sees one opening,
\* within the widened cap, and one end with one reason.
ImplementsLifecycle == Lifecycle!Spec

-----------------------------------------------------------------------------
(***************************************************************************)
(* Liveness.  The scheduler runs the reaper again and again, time passes,  *)
(* and a handler or a mint at a statement gets to it.  Nothing is assumed  *)
(* of clients, of upstreams, or of a pump, which may hang for ever.        *)
(***************************************************************************)

Writes(h) == (PumpFlush(h) \/ FinalFlush(h) \/ Account(h)) /\ UNCHANGED mintVars

Fairness ==
  /\ WF_vars(Reaping)
  /\ WF_vars(Clock)
  /\ \A h \in Handler : WF_vars(Writes(h))

FairSpec == Spec /\ Fairness

\* An active session is refreshed or ended before long, orphans of a mint
\* that failed after its INSERT, of a lost answer, of a cancelled handler and
\* of a restart included: none counts against its user's cap for ever.
SilentSessionsEnd ==
  \A s \in SessionId :
    (Active(s) /\ sessions[s].idle > WriteLatency)
      ~> (~Active(s) \/ sessions[s].idle <= WriteLatency)

=============================================================================
