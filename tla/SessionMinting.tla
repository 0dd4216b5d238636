--------------------------- MODULE SessionMinting ---------------------------
(***************************************************************************)
(* POST /channels/{id}/stream: the handler CreateSession.  It reads the    *)
(* channel, counts the user's and the channel's active sessions, probes    *)
(* the upstream when its kind is unknown, inserts the session row, reads   *)
(* it back and answers with the token.  Those are separate statements: no  *)
(* transaction and no lock spans them.                                     *)
(***************************************************************************)
EXTENDS SessionStore

CONSTANTS
  Minter,        \* the CreateSession requests that can be in flight at once
  UserCap,       \* settings.per_user_stream_cap, 0 when there is none
  ChannelCap     \* settings.per_channel_default_cap, 0 when there is none

ASSUME SessionMintingAssumption ==
  /\ IsFiniteSet(Minter)
  /\ UserCap \in Nat
  /\ ChannelCap \in Nat

VARIABLES
  mint,          \* per request: where it is and its local variables
  kind,          \* channels.upstream_kind
  recent         \* user_recent: who tuned to what

mintVars == <<mint, kind, recent>>

Kind == {"unknown", "hls", "mpegts"}

Idling == [pc |-> "idle"]

\* Before the INSERT, and after it, when the request has a session of its own.
Asking == [pc: {"lookup", "userCap", "channelCap", "probe", "persist", "insert"},
           user: User, channel: Channel, kind: Kind]
Minted == [pc: {"readBack", "tune"},
           user: User, channel: Channel, sid: SessionId]

MintTypeOK ==
  /\ mint \in [Minter -> Asking \cup Minted \cup {Idling}]
  /\ kind \in [Channel -> Kind]
  /\ recent \in SUBSET (User \X Channel)

MintInit ==
  /\ mint = [m \in Minter |-> Idling]
  /\ kind = [c \in Channel |-> "unknown"]
  /\ recent = {}

MintAt(m, pc) == mint[m].pc = pc
MintTo(m, pc) == mint' = [mint EXCEPT ![m].pc = pc]
MintDone(m) == mint' = [mint EXCEPT ![m] = Idling]

-----------------------------------------------------------------------------
\* The request is authenticated and the rate limiter lets it through.
MintBegin(m, u, c) ==
  /\ MintAt(m, "idle")
  /\ mint' = [mint EXCEPT ![m] = [pc |-> "lookup", user |-> u, channel |-> c,
                                  kind |-> "unknown"]]
  /\ UNCHANGED <<kind, recent, storeVars>>

\* GetChannel: an unknown or disabled channel answers 404.
MintLookup(m) ==
  /\ MintAt(m, "lookup")
  /\ LET c == mint[m].channel
     IN  IF channels[c] = "enabled"
         THEN mint' = [mint EXCEPT ![m].pc = "userCap", ![m].kind = kind[c]]
         ELSE MintDone(m)
  /\ UNCHANGED <<kind, recent, storeVars>>

\* Slip: > in place of >= against the cap.
MintUserCapLate(m) ==
  /\ MintAt(m, "userCap")
  /\ IF UserCap > 0 /\ Cardinality(ActiveOfUser(mint[m].user)) > UserCap
     THEN MintDone(m)
     ELSE MintTo(m, "channelCap")
  /\ UNCHANGED <<kind, recent, storeVars>>

\* CountActiveByUser against the cap.
MintUserCap(m) ==
  /\ MintAt(m, "userCap")
  /\ IF UserCap > 0 /\ Cardinality(ActiveOfUser(mint[m].user)) >= UserCap
     THEN MintDone(m)
     ELSE MintTo(m, "channelCap")
  /\ UNCHANGED <<kind, recent, storeVars>>

\* CountActiveByChannel against the cap, then whether a probe is needed.
MintChannelCap(m) ==
  /\ MintAt(m, "channelCap")
  /\ IF ChannelCap > 0
          /\ Cardinality(ActiveOfChannel(mint[m].channel)) >= ChannelCap
     THEN MintDone(m)
     ELSE MintTo(m, IF mint[m].kind = "unknown" THEN "probe" ELSE "insert")
  /\ UNCHANGED <<kind, recent, storeVars>>

\* The upstream answers; a probe that fails counts as "mpegts".
MintProbe(m) ==
  /\ MintAt(m, "probe")
  /\ \E detected \in {"hls", "mpegts"} :
       mint' = [mint EXCEPT ![m].pc = "persist", ![m].kind = detected]
  /\ UNCHANGED <<kind, recent, storeVars>>

\* SetUpstreamKind, whose failure is only logged.
MintPersistKind(m) ==
  /\ MintAt(m, "persist")
  /\ MintTo(m, "insert")
  /\ kind' \in {kind, IF channels[mint[m].channel] = "deleted" THEN kind
                      ELSE [kind EXCEPT ![mint[m].channel] = mint[m].kind]}
  /\ UNCHANGED <<recent, storeVars>>

\* Slip: a table without its foreign key.
MintInsertUnreferenced(m) ==
  /\ MintAt(m, "insert")
  /\ \E s \in SessionId, age \in StampAge :
       /\ sessions[s].status = "free"
       /\ InsertSession(s, mint[m].user, mint[m].channel, age)
       /\ mint' = [mint EXCEPT ![m] = [pc |-> "readBack", user |-> mint[m].user,
                                       channel |-> mint[m].channel, sid |-> s]]
  /\ UNCHANGED <<kind, recent, channels, granted>>

\* The INSERT, under a fresh ULID; the foreign key needs the channel's row.
MintInsert(m) ==
  /\ MintAt(m, "insert")
  /\ LET u == mint[m].user
         c == mint[m].channel
     IN  IF channels[c] = "deleted"
         THEN MintDone(m) /\ UNCHANGED sessions
         ELSE \E s \in SessionId, age \in StampAge :
                /\ sessions[s].status = "free"
                /\ InsertSession(s, u, c, age)
                /\ mint' = [mint EXCEPT ![m] = [pc |-> "readBack", user |-> u,
                                                channel |-> c, sid |-> s]]
  /\ UNCHANGED <<kind, recent, channels, granted>>

\* store.CreateSession ends with GetSession: no row is an error.
MintReadBack(m) ==
  /\ MintAt(m, "readBack")
  /\ IF sessions[mint[m].sid].status = "deleted" THEN MintDone(m) ELSE MintTo(m, "tune")
  /\ UNCHANGED <<kind, recent, storeVars>>

\* MarkTuned is best effort; then the answer leaves, and may be lost.
MintRespond(m) ==
  /\ MintAt(m, "tune")
  /\ MintDone(m)
  /\ recent' \in {recent,
                  IF channels[mint[m].channel] = "deleted" THEN recent
                  ELSE recent \cup {<<mint[m].user, mint[m].channel>>}}
  /\ granted' \in {granted, granted \cup {mint[m].sid}}
  /\ UNCHANGED <<kind, sessions, channels>>

\* A statement fails (database error, request cancelled): 500, and whatever
\* the earlier statements did stays done.
MintFails(m) ==
  /\ mint[m].pc \in {"lookup", "userCap", "channelCap", "insert", "readBack"}
  /\ MintDone(m)
  /\ UNCHANGED <<kind, recent, storeVars>>

MintStep(m) ==
  \/ MintLookup(m)
  \/ MintUserCap(m)
  \/ MintChannelCap(m)
  \/ MintProbe(m)
  \/ MintPersistKind(m)
  \/ MintInsert(m)
  \/ MintReadBack(m)
  \/ MintRespond(m)
  \/ MintFails(m)

=============================================================================
