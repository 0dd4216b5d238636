-------------------------- MODULE M3URefreshProofs --------------------------
(***************************************************************************)
(* What any number of refreshes keep; for one refresh at a time, that it   *)
(* and the administrators' page keep to their columns of the row and that  *)
(* a validator is saved for nothing but a playlist that was applied as a   *)
(* whole; and for one URL, that whatever fails this is still so when the   *)
(* validator is sent again.                                                *)
(***************************************************************************)
EXTENDS SourceForms, TLAPS

LEMMA PlaylistTypes ==
  /\ Len(Playlist) \in Nat
  /\ 0 \in Tag
  /\ \A n \in Publication : n \in Tag /\ Playlist[n] \in Seq(Key)
  /\ \A n \in Tag : n \in Nat /\ (n # 0 => n \in Publication)
<1>1. Playlist \in Seq(Seq(Key))
  BY M3URefreshAssumption
<1>2. Len(Playlist) \in Nat /\ \A n \in 1 .. Len(Playlist) : Playlist[n] \in Seq(Key)
  BY <1>1
<1>3. QED
  BY <1>2 DEF Publication, Tag

\* A refresh that has read its source and goes on keeps what it read.
LEMMA Proceeding ==
  ASSUME work \in [Worker -> Refresh \cup {Idle, Listed}],
         NEW w \in Worker, work[w].pc \notin {"idle", "read"}
  PROVE  /\ work[w] \in Refresh
         /\ \A pc \in {"fetch", "upsert", "missing", "save", "error"} :
              Goto(w, pc) =>
                /\ work' \in [Worker -> Refresh \cup {Idle, Listed}]
                /\ work'[w] = [work[w] EXCEPT !.pc = pc]
                /\ work'[w] \in Refresh /\ work'[w].pc = pc
                /\ work'[w].url = work[w].url /\ work'[w].tag = work[w].tag
                /\ work'[w].new = work[w].new /\ work'[w].next = work[w].next
                /\ \A v \in Worker \ {w} : work'[v] = work[v]
<1>1. work[w] \in Refresh
  BY DEF Idle, Listed
<1>2. ASSUME NEW pc \in {"fetch", "upsert", "missing", "save", "error"}, Goto(w, pc)
      PROVE  /\ work' \in [Worker -> Refresh \cup {Idle, Listed}]
             /\ work'[w] = [work[w] EXCEPT !.pc = pc]
             /\ work'[w] \in Refresh /\ work'[w].pc = pc
             /\ work'[w].url = work[w].url /\ work'[w].tag = work[w].tag
             /\ work'[w].new = work[w].new /\ work'[w].next = work[w].next
             /\ \A v \in Worker \ {w} : work'[v] = work[v]
  <2> DEFINE next == [work[w] EXCEPT !.pc = pc]
  <2>1. /\ next \in Refresh /\ next.pc = pc
        /\ next.url = work[w].url /\ next.tag = work[w].tag
        /\ next.new = work[w].new /\ next.next = work[w].next
    BY <1>1 DEF Refresh
  <2>2. work' = [work EXCEPT ![w] = next]
    BY <1>2 DEF Goto
  <2> HIDE DEF next
  <2>3. QED
    BY <2>1, <2>2 DEF next
<1>3. QED
  BY <1>1, <1>2

-----------------------------------------------------------------------------
(***************************************************************************)
(* Types.                                                                  *)
(***************************************************************************)

LEMMA TypeInit == Init => TypeOK
<1> SUFFICES ASSUME Init PROVE TypeOK
  OBVIOUS
<1>1. source \in SourceRow
  BY PlaylistTypes DEF Init, SourceRow
<1>2. channel \in [Key -> ChannelRow]
  BY PlaylistTypes DEF Init, Absent, ChannelRow
<1>3. faults \in 0 .. MaxFaults
  <2>1. MaxFaults \in Nat
    BY M3URefreshAssumption
  <2>2. faults = 0
    BY DEF Init
  <2>3. QED
    BY <2>1, <2>2
<1>4. QED
  BY <1>1, <1>2, <1>3, PlaylistTypes DEF Init, TypeOK

LEMMA FaultType == TypeOK /\ (Fault \/ UNCHANGED faults) => faults' \in 0 .. MaxFaults
BY M3URefreshAssumption DEF TypeOK, Fault

\* The steps that leave the channels alone: they move one refresh, and may
\* save a status and a validator.
LEMMA TypeWork ==
  ASSUME TypeOK, NEW w \in Worker,
         \/ BeginScheduled(w) \/ BeginByAdmin(w) \/ ReadSource(w) \/ ReadFails(w)
         \/ FetchNotModified(w) \/ FetchFails(w) \/ StatementFails(w)
         \/ SaveStatus(w) \/ MarkError(w)
  PROVE  TypeOK'
<1> USE DEF TypeOK
<1>1. channel' = channel /\ published' = published /\ latest' = latest
  BY DEF BeginScheduled, BeginByAdmin, ReadSource, ReadFails, FetchNotModified,
         FetchFails, StatementFails, SaveStatus, MarkError
<1>2. faults' \in 0 .. MaxFaults
  <2>1. Fault \/ UNCHANGED faults
    BY DEF BeginScheduled, BeginByAdmin, ReadSource, ReadFails, FetchNotModified,
           FetchFails, StatementFails, SaveStatus, MarkError
  <2>2. QED
    BY <2>1, FaultType
<1>3. work' \in [Worker -> Refresh \cup {Idle, Listed}]
  <2>1. CASE BeginScheduled(w) \/ BeginByAdmin(w)
    BY <2>1 DEF BeginScheduled, BeginByAdmin
  <2>2. CASE ReadSource(w)
    <3>1. source \in SourceRow
      BY <2>2 DEF ReadSource
    <3>2. [pc |-> "fetch", url |-> source.url, tag |-> source.tag,
           new |-> source.tag, next |-> 1] \in Refresh
      BY <3>1 DEF SourceRow, Refresh
    <3>3. QED
      BY <2>2, <3>2 DEF ReadSource
  <2>3. CASE ReadFails(w) \/ SaveStatus(w) \/ MarkError(w)
    BY <2>3 DEF ReadFails, SaveStatus, MarkError, Finish
  <2>4. CASE FetchNotModified(w) \/ FetchFails(w) \/ StatementFails(w)
    <3>1. /\ work[w].pc \notin {"idle", "read"}
          /\ Goto(w, "save") \/ Goto(w, "error")
      BY <2>4 DEF FetchNotModified, FetchFails, StatementFails, At
    <3>2. QED
      BY <3>1, Proceeding
  <2>5. QED
    BY <2>1, <2>2, <2>3, <2>4
<1>4. source' \in SourceRow \cup {Gone}
  <2>1. CASE SaveStatus(w) \/ MarkError(w)
    <3>1. work[w] \in Refresh
      BY <2>1, Proceeding DEF SaveStatus, MarkError, At
    <3>2. \/ source' = source
          \/ /\ source \in SourceRow
             /\ \/ source' = [source EXCEPT !.status = "ok", !.tag = work[w].new]
                \/ source' = [source EXCEPT !.status = "error", !.tag = work[w].tag]
      BY <2>1 DEF SaveStatus, MarkError
    <3>3. work[w].new \in Tag /\ work[w].tag \in Tag
      BY <3>1 DEF Refresh
    <3>4. QED
      BY <3>2, <3>3 DEF SourceRow
  <2>2. CASE ~(SaveStatus(w) \/ MarkError(w))
    BY <2>2 DEF BeginScheduled, BeginByAdmin, ReadSource, ReadFails,
           FetchNotModified, FetchFails, StatementFails
  <2>3. QED
    BY <2>1, <2>2
<1>5. QED
  BY <1>1, <1>2, <1>3, <1>4

LEMMA TypeFetch ==
  ASSUME TypeOK, NEW w \in Worker, FetchPlaylist(w)
  PROVE  TypeOK'
<1> DEFINE n == published[work[w].url]
           next == [work[w] EXCEPT !.new = n,
                      !.pc = IF Playlist[n] = <<>> THEN "missing" ELSE "upsert"]
<1>1. work[w] \in Refresh
  BY Proceeding DEF FetchPlaylist, At, TypeOK
<1>2. n \in Tag
  BY <1>1 DEF Refresh, TypeOK
<1>3. next \in Refresh
  BY <1>1, <1>2 DEF Refresh
<1>4. work' = [work EXCEPT ![w] = next]
  BY DEF FetchPlaylist
<1> HIDE DEF next
<1>5. QED
  BY <1>3, <1>4 DEF FetchPlaylist, TypeOK

LEMMA TypeChannels ==
  ASSUME TypeOK, NEW w \in Worker, UpsertChannel(w) \/ MarkChannelsMissing(w)
  PROVE  TypeOK'
<1> USE DEF TypeOK
<1>1. work[w] \in Refresh
  BY Proceeding DEF UpsertChannel, MarkChannelsMissing, At
<1>2. CASE UpsertChannel(w) /\ source = Gone
  BY <1>2, Proceeding DEF UpsertChannel, At
<1>3. CASE UpsertChannel(w) /\ source # Gone
  <2> DEFINE i == work[w].next
             list == Playlist[work[w].new]
             next == [work[w] EXCEPT !.next = i + 1,
                        !.pc = IF i = Len(list) THEN "missing" ELSE "upsert"]
             row == [from |-> work[w].new, enabled |-> TRUE]
  <2>1. next \in Refresh /\ row \in ChannelRow
    <3>1. i + 1 \in Nat /\ work[w].new \in Tag
      BY <1>1 DEF Refresh
    <3> HIDE DEF i, list
    <3>2. QED
      BY <1>1, <3>1 DEF Refresh, ChannelRow
  <2>2. /\ work' = [work EXCEPT ![w] = next]
        /\ channel' = [channel EXCEPT ![list[i]] = row]
        /\ UNCHANGED <<source, published, latest, faults>>
    BY <1>3 DEF UpsertChannel
  <2> HIDE DEF next, row, i, list
  <2>3. channel' \in [Key -> ChannelRow]
    BY <2>1, <2>2
  <2>4. QED
    BY <2>1, <2>2, <2>3
<1>4. CASE MarkChannelsMissing(w)
  <2>1. \A k \in Key : /\ channel[k] \in ChannelRow
                       /\ [channel[k] EXCEPT !.enabled = FALSE] \in ChannelRow
    BY DEF ChannelRow
  <2>2. channel' \in [Key -> ChannelRow]
    BY <1>4, <2>1 DEF MarkChannelsMissing
  <2>3. QED
    BY <1>4, <2>2, Proceeding DEF MarkChannelsMissing, At
<1>5. QED
  BY <1>2, <1>3, <1>4

LEMMA TypeAround ==
  ASSUME TypeOK,
         \/ \E u \in Url : Publish(u)
         \/ \E u \in Url, on \in BOOLEAN : EditSource(u, on)
         \/ DeleteSource
         \/ Restart
  PROVE  TypeOK'
<1> USE DEF TypeOK
<1>1. CASE \E u \in Url : Publish(u)
  <2>1. latest + 1 \in Tag
    BY <1>1, PlaylistTypes DEF Publish, Tag
  <2>2. QED
    BY <1>1, <2>1 DEF Publish
<1>2. CASE \E u \in Url, on \in BOOLEAN : EditSource(u, on)
  <2>1. PICK u \in Url, on \in BOOLEAN : EditSource(u, on)
    BY <1>2
  <2>2. source \in SourceRow
    BY <2>1 DEF EditSource
  <2>3. source' \in SourceRow
    BY <2>1, <2>2 DEF EditSource, SourceRow
  <2>4. QED
    BY <2>1, <2>3, FaultType DEF EditSource
<1>3. CASE DeleteSource
  <2>1. Absent \in ChannelRow
    BY PlaylistTypes DEF Absent, ChannelRow
  <2>2. QED
    BY <1>3, <2>1, FaultType DEF DeleteSource
<1>4. CASE Restart
  BY <1>4, FaultType DEF Restart
<1>5. QED
  BY <1>1, <1>2, <1>3, <1>4

LEMMA TypeStep == TypeOK /\ [Next]_vars => TypeOK'
<1> SUFFICES ASSUME TypeOK, [Next]_vars PROVE TypeOK'
  OBVIOUS
<1>1. CASE UNCHANGED vars
  BY <1>1 DEF vars, TypeOK
<1>2. CASE Next
  BY <1>2, TypeWork, TypeFetch, TypeChannels, TypeAround DEF Next, Proceed
<1>3. QED
  BY <1>1, <1>2

\* The source, the channels and the refreshes are well typed, whatever the
\* number of refreshes and URLs.
THEOREM RefreshTypeCorrect == Spec => []TypeOK
<1>1. QED
  BY TypeInit, TypeStep, PTL DEF Spec

-----------------------------------------------------------------------------
(***************************************************************************)
(* The inductive invariant of a refresh that is alone.                     *)
(***************************************************************************)

\* One refresh at a time.
Alone == \A v, w \in Worker : v = w

Applied(n) == [from |-> n, enabled |-> TRUE]

\* A refresh holds the validator that is saved, and the entries behind the one
\* it is at are applied.
HoldsSavedTag(w) ==
  work[w].pc \notin {"idle", "read"} =>
    work[w].tag <= latest /\ (source # Gone => work[w].tag = source.tag)

HasReadOnly(w) ==
  At(w, "fetch") => work[w].new = work[w].tag /\ work[w].next = 1

AppliesServed(w) ==
  work[w].pc \in {"upsert", "missing"} =>
    work[w].new \in Publication /\ work[w].new <= latest

UpsertsInOrder(w) ==
  At(w, "upsert") =>
    /\ work[w].next \in 1 .. Len(Playlist[work[w].new])
    /\ source # Gone =>
         \A i \in 1 .. work[w].next - 1 :
           channel[Playlist[work[w].new][i]] = Applied(work[w].new)

HasUpserted(w) ==
  At(w, "missing") /\ source # Gone =>
    \A k \in Entries(work[w].new) : channel[k] = Applied(work[w].new)

HasApplied(w) ==
  At(w, "save") =>
    \/ work[w].new = work[w].tag
    \/ /\ work[w].new \in Publication /\ work[w].new <= latest
       /\ source # Gone => Agrees(work[w].new)

RefreshInv ==
  \A w \in Worker : /\ HoldsSavedTag(w)
                    /\ HasReadOnly(w)
                    /\ AppliesServed(w)
                    /\ UpsertsInOrder(w)
                    /\ HasUpserted(w)
                    /\ HasApplied(w)

\* Nothing is served or saved that was not published.
PastInv ==
  /\ \A u \in Url : published[u] <= latest
  /\ source # Gone => source.tag <= latest

IInv == TypeOK /\ PastInv /\ RefreshInv

LEMMA ApartInit == Init => IInv
<1> SUFFICES ASSUME Init PROVE IInv
  OBVIOUS
<1>1. TypeOK
  BY TypeInit
<1>4. PastInv
  <2>1. source.tag = 0 /\ latest = 0 /\ \A u \in Url : published[u] = 0
    BY DEF Init
  <2>2. QED
    BY <2>1 DEF PastInv
<1>5. \A w \in Worker : work[w].pc = "idle"
  BY DEF Init, Idle
<1>6. RefreshInv
  BY <1>5 DEF RefreshInv, HoldsSavedTag, HasReadOnly, AppliesServed, UpsertsInOrder, HasUpserted,
     HasApplied, At
<1>7. QED
  BY <1>1, <1>4, <1>6 DEF IInv

\* What is to be shown of the only refresh.
LEMMA OnlyOne ==
  ASSUME Alone, NEW w \in Worker,
         /\ HoldsSavedTag(w)' /\ HasReadOnly(w)' /\ AppliesServed(w)'
         /\ UpsertsInOrder(w)' /\ HasUpserted(w)' /\ HasApplied(w)'
  PROVE  RefreshInv'
<1>1. \A v \in Worker : v = w
  BY DEF Alone
<1>2. QED
  BY <1>1 DEF RefreshInv

\* A refresh that is idle or has yet to read owes nothing.
LEMMA OwesNothing ==
  ASSUME Alone, NEW w \in Worker, work'[w].pc \in {"idle", "read"}
  PROVE  RefreshInv'
<1>1. /\ HoldsSavedTag(w)' /\ HasReadOnly(w)' /\ AppliesServed(w)'
      /\ UpsertsInOrder(w)' /\ HasUpserted(w)' /\ HasApplied(w)'
  BY DEF HoldsSavedTag, HasReadOnly, AppliesServed, UpsertsInOrder, HasUpserted,
     HasApplied, At
<1>2. QED
  BY <1>1, OnlyOne

LEMMA ApartIdle ==
  ASSUME Alone, IInv, TypeOK', NEW w \in Worker,
         BeginScheduled(w) \/ BeginByAdmin(w) \/ ReadFails(w)
  PROVE  IInv'
<1>1. UNCHANGED <<source, channel, published, latest>>
  BY DEF BeginScheduled, BeginByAdmin, ReadFails
<1>2. PastInv'
  BY <1>1 DEF IInv, PastInv
<1>3. work'[w].pc \in {"idle", "read"}
  BY DEF BeginScheduled, BeginByAdmin, ReadFails, Finish, Idle, Listed, IInv, TypeOK
<1>4. QED
  BY <1>2, <1>3, OwesNothing DEF IInv

LEMMA ApartRead ==
  ASSUME Alone, IInv, TypeOK', NEW w \in Worker, ReadSource(w)
  PROVE  IInv'
<1>1. UNCHANGED <<source, channel, published, latest>>
  BY DEF ReadSource
<1>2. PastInv'
  BY <1>1 DEF IInv, PastInv
<1>3. work'[w] = [pc |-> "fetch", url |-> source.url, tag |-> source.tag,
                  new |-> source.tag, next |-> 1]
  BY DEF ReadSource, IInv, TypeOK
<1>4. source # Gone /\ source.tag <= latest
  BY DEF ReadSource, IInv, PastInv
<1>5. /\ HoldsSavedTag(w)' /\ HasReadOnly(w)' /\ AppliesServed(w)'
      /\ UpsertsInOrder(w)' /\ HasUpserted(w)' /\ HasApplied(w)'
  BY <1>1, <1>3, <1>4 DEF HoldsSavedTag, HasReadOnly, AppliesServed, UpsertsInOrder,
     HasUpserted, HasApplied, At
<1>6. QED
  BY <1>2, <1>5, OnlyOne DEF IInv

\* A 304 goes on to save the validator that is saved.
LEMMA ApartNotModified ==
  ASSUME Alone, IInv, TypeOK', NEW w \in Worker, FetchNotModified(w)
  PROVE  IInv'
<1>1. UNCHANGED <<source, channel, published, latest>>
  BY DEF FetchNotModified
<1>2. PastInv'
  BY <1>1 DEF IInv, PastInv
<1>3. /\ work'[w].pc = "save"
      /\ work'[w].tag = work[w].tag /\ work'[w].new = work[w].new
  BY Proceeding DEF FetchNotModified, At, IInv, TypeOK
<1>4. HoldsSavedTag(w) /\ HasReadOnly(w) /\ At(w, "fetch")
  BY DEF IInv, RefreshInv, FetchNotModified
<1>5. /\ HoldsSavedTag(w)' /\ HasReadOnly(w)' /\ AppliesServed(w)'
      /\ UpsertsInOrder(w)' /\ HasUpserted(w)' /\ HasApplied(w)'
  BY <1>1, <1>3, <1>4 DEF HoldsSavedTag, HasReadOnly, AppliesServed, UpsertsInOrder,
     HasUpserted, HasApplied, At
<1>6. QED
  BY <1>2, <1>5, OnlyOne DEF IInv

\* A failure goes on to save the validator that is saved.
LEMMA ApartFails ==
  ASSUME Alone, IInv, TypeOK', NEW w \in Worker, FetchFails(w) \/ StatementFails(w)
  PROVE  IInv'
<1>1. UNCHANGED <<source, channel, published, latest>>
  BY DEF FetchFails, StatementFails
<1>2. PastInv'
  BY <1>1 DEF IInv, PastInv
<1>3. work[w].pc \notin {"idle", "read"}
  BY DEF FetchFails, StatementFails, At
<1>4. work'[w].pc = "error" /\ work'[w].tag = work[w].tag
  BY <1>3, Proceeding DEF FetchFails, StatementFails, IInv, TypeOK
<1>5. HoldsSavedTag(w)
  BY DEF IInv, RefreshInv
<1>6. /\ HoldsSavedTag(w)' /\ HasReadOnly(w)' /\ AppliesServed(w)'
      /\ UpsertsInOrder(w)' /\ HasUpserted(w)' /\ HasApplied(w)'
  BY <1>1, <1>3, <1>4, <1>5 DEF HoldsSavedTag, HasReadOnly, AppliesServed,
     UpsertsInOrder, HasUpserted, HasApplied, At
<1>7. QED
  BY <1>2, <1>6, OnlyOne DEF IInv

\* A 200 is of a playlist that is applied from its first entry on.
LEMMA ApartFetch ==
  ASSUME Alone, IInv, TypeOK', NEW w \in Worker, FetchPlaylist(w)
  PROVE  IInv'
<1> DEFINE n == published[work[w].url]
<1>1. UNCHANGED <<source, channel, published, latest>>
  BY DEF FetchPlaylist
<1>2. PastInv'
  BY <1>1 DEF IInv, PastInv
<1>3. work[w] \in Refresh
  BY Proceeding DEF FetchPlaylist, At, IInv, TypeOK
<1>4. n \in Publication /\ n <= latest
  <2>1. n \in Tag /\ n # 0 /\ n <= latest
    BY <1>3 DEF IInv, TypeOK, PastInv, FetchPlaylist, Refresh
  <2>2. QED
    BY <2>1, PlaylistTypes
<1>5. /\ work'[w].pc = IF Playlist[n] = <<>> THEN "missing" ELSE "upsert"
      /\ work'[w].tag = work[w].tag /\ work'[w].new = n /\ work'[w].next = work[w].next
  <2> DEFINE next == [work[w] EXCEPT !.new = n,
                        !.pc = IF Playlist[n] = <<>> THEN "missing" ELSE "upsert"]
  <2>1. work' = [work EXCEPT ![w] = next]
    BY DEF FetchPlaylist
  <2>2. work'[w] = next
    BY <2>1 DEF IInv, TypeOK
  <2>3. QED
    BY <1>3, <2>2 DEF Refresh
<1>6. HoldsSavedTag(w) /\ HasReadOnly(w) /\ At(w, "fetch")
  BY DEF IInv, RefreshInv, FetchPlaylist
<1>7. HoldsSavedTag(w)' /\ HasReadOnly(w)' /\ HasApplied(w)'
  BY <1>1, <1>5, <1>6 DEF HoldsSavedTag, HasReadOnly, HasApplied, At
<1>8. AppliesServed(w)'
  BY <1>1, <1>4, <1>5 DEF AppliesServed
<1>9. UpsertsInOrder(w)' /\ HasUpserted(w)'
  <2>1. Playlist[n] \in Seq(Key) /\ work[w].next = 1
    BY <1>4, <1>6, PlaylistTypes DEF HasReadOnly
  <2>2. CASE Playlist[n] = <<>>
    <3>1. Entries(n) = {}
      BY <2>2 DEF Entries
    <3>2. work'[w].pc = "missing"
      BY <1>5, <2>2
    <3>3. QED
      BY <1>5, <3>1, <3>2 DEF UpsertsInOrder, HasUpserted, At
  <2>3. CASE Playlist[n] # <<>>
    <3>1. 1 \in 1 .. Len(Playlist[n])
      BY <2>1, <2>3
    <3>2. work'[w].pc = "upsert"
      BY <1>5, <2>3
    <3>3. 1 .. work'[w].next - 1 = {}
      BY <1>5, <2>1
    <3>4. QED
      BY <1>5, <2>1, <3>1, <3>2, <3>3 DEF UpsertsInOrder, HasUpserted, At
  <2>4. QED
    BY <2>2, <2>3
<1>10. QED
  BY <1>2, <1>7, <1>8, <1>9, OnlyOne DEF IInv

-----------------------------------------------------------------------------
(***************************************************************************)
(* Statements that write.                                                  *)
(***************************************************************************)

LEMMA ApartUpsert ==
  ASSUME Alone, IInv, TypeOK', NEW w \in Worker, UpsertChannel(w)
  PROVE  IInv'
<1> DEFINE n == work[w].new
           i == work[w].next
           list == Playlist[n]
<1>1. UNCHANGED <<source, published, latest>> /\ At(w, "upsert")
  BY DEF UpsertChannel
<1>3. PastInv'
  BY <1>1 DEF IInv, PastInv
<1>4. work[w] \in Refresh
  BY <1>1, Proceeding DEF At, IInv, TypeOK
<1>5. HoldsSavedTag(w) /\ AppliesServed(w) /\ UpsertsInOrder(w)
  BY DEF IInv, RefreshInv
<1>6. CASE source = Gone
  <2>1. work'[w].pc = "error" /\ work'[w].tag = work[w].tag
    BY <1>1, <1>6, Proceeding DEF UpsertChannel, At, IInv, TypeOK
  <2>2. /\ HoldsSavedTag(w)' /\ HasReadOnly(w)' /\ AppliesServed(w)'
        /\ UpsertsInOrder(w)' /\ HasUpserted(w)' /\ HasApplied(w)'
    BY <1>1, <1>5, <2>1 DEF HoldsSavedTag, HasReadOnly, AppliesServed,
       UpsertsInOrder, HasUpserted, HasApplied, At
  <2>3. QED
    BY <1>3, <2>2, OnlyOne DEF IInv
<1>7. CASE source # Gone
  <2>1. channel' = [channel EXCEPT ![list[i]] = Applied(n)]
    BY <1>7 DEF UpsertChannel, Applied
  <2>2. /\ work'[w].pc = IF i = Len(list) THEN "missing" ELSE "upsert"
        /\ work'[w].tag = work[w].tag /\ work'[w].new = n /\ work'[w].next = i + 1
    <3> DEFINE next == [work[w] EXCEPT !.next = i + 1,
                          !.pc = IF i = Len(list) THEN "missing" ELSE "upsert"]
    <3>1. work' = [work EXCEPT ![w] = next]
      BY <1>7 DEF UpsertChannel
    <3>2. work'[w] = next
      BY <3>1 DEF IInv, TypeOK
    <3>3. QED
      BY <1>4, <3>2 DEF Refresh
  <2>3. n \in Publication /\ list \in Seq(Key) /\ Len(list) \in Nat /\ i \in 1 .. Len(list)
    BY <1>1, <1>5, PlaylistTypes DEF AppliesServed, UpsertsInOrder, At
  <2>4. \A j \in 1 .. i : channel'[list[j]] = Applied(n)
    <3>1. \A j \in 1 .. i - 1 : channel[list[j]] = Applied(n)
      BY <1>1, <1>5, <1>7 DEF UpsertsInOrder
    <3>2. \A j \in 1 .. Len(list) : list[j] \in Key
      BY <2>3
    <3>3. channel \in [Key -> ChannelRow]
      BY DEF IInv, TypeOK
    <3> HIDE DEF list, n, i
    <3>4. channel'[list[i]] = Applied(n)
      BY <2>1, <2>3, <3>2, <3>3
    <3>5. ASSUME NEW j \in 1 .. i - 1 PROVE channel'[list[j]] = Applied(n)
      <4>1. list[j] \in Key /\ channel[list[j]] = Applied(n)
        BY <2>3, <3>1, <3>2
      <4>2. QED
        BY <2>1, <3>3, <4>1
    <3>6. QED
      BY <2>3, <3>4, <3>5
  <2>5. HoldsSavedTag(w)' /\ HasReadOnly(w)' /\ AppliesServed(w)' /\ HasApplied(w)'
    BY <1>1, <1>5, <2>2 DEF HoldsSavedTag, HasReadOnly, AppliesServed, HasApplied, At
  <2>6. UpsertsInOrder(w)'
    BY <2>2, <2>3, <2>4 DEF UpsertsInOrder, At
  <2>7. HasUpserted(w)'
    <3>1. i = Len(list) => \A k \in Entries(n) : channel'[k] = Applied(n)
      BY <2>3, <2>4 DEF Entries
    <3>2. QED
      BY <2>2, <3>1 DEF HasUpserted, At, Entries
  <2>8. QED
    BY <1>3, <2>5, <2>6, <2>7, OnlyOne DEF IInv
<1>8. QED
  BY <1>6, <1>7

LEMMA ApartMissing ==
  ASSUME Alone, IInv, TypeOK', NEW w \in Worker, MarkChannelsMissing(w)
  PROVE  IInv'
<1> DEFINE n == work[w].new
<1>1. UNCHANGED <<source, published, latest>> /\ At(w, "missing")
  BY DEF MarkChannelsMissing
<1>3. PastInv'
  BY <1>1 DEF IInv, PastInv
<1>4. HoldsSavedTag(w) /\ AppliesServed(w) /\ HasUpserted(w)
  BY DEF IInv, RefreshInv
<1>5. work'[w].pc = "save" /\ work'[w].tag = work[w].tag /\ work'[w].new = n
  BY <1>1, Proceeding DEF MarkChannelsMissing, At, IInv, TypeOK
<1>6. source # Gone =>
        \A k \in Key : IF k \in Entries(n) THEN channel'[k] = Applied(n)
                                           ELSE ~channel'[k].enabled
  <2> SUFFICES ASSUME source # Gone, NEW k \in Key
               PROVE  IF k \in Entries(n) THEN channel'[k] = Applied(n)
                                          ELSE ~channel'[k].enabled
    OBVIOUS
  <2>1. channel[k] \in ChannelRow
    BY DEF IInv, TypeOK
  <2>2. channel'[k] = IF k \in Entries(n) THEN channel[k]
                     ELSE [channel[k] EXCEPT !.enabled = FALSE]
    BY DEF MarkChannelsMissing
  <2>3. CASE k \in Entries(n)
    BY <1>1, <1>4, <2>2, <2>3 DEF HasUpserted
  <2>4. CASE k \notin Entries(n)
    BY <2>1, <2>2, <2>4 DEF ChannelRow
  <2>5. QED
    BY <2>3, <2>4
<1>7. n \in Publication /\ n <= latest
  BY <1>1, <1>4 DEF AppliesServed, At
<1>8. HasApplied(w)'
  BY <1>1, <1>5, <1>6, <1>7 DEF HasApplied, Agrees, Applied, Entries
<1>9. /\ HoldsSavedTag(w)' /\ HasReadOnly(w)' /\ AppliesServed(w)'
      /\ UpsertsInOrder(w)' /\ HasUpserted(w)'
  BY <1>1, <1>4, <1>5 DEF HoldsSavedTag, HasReadOnly, AppliesServed,
     UpsertsInOrder, HasUpserted, At
<1>10. QED
  BY <1>3, <1>8, <1>9, OnlyOne DEF IInv

\* What a refresh saves is the validator that is saved, or an earned one.
LEMMA SavesEarned ==
  ASSUME IInv, NEW w \in Worker, SaveStatus(w) \/ MarkError(w),
         source # Gone, source' # source
  PROVE  /\ source' # Gone /\ source'.url = source.url /\ source'.enabled = source.enabled
         /\ \/ source'.tag = source.tag
            \/ /\ source'.tag \in Publication /\ source'.tag <= latest
               /\ Agrees(source'.tag)
<1>1. work[w] \in Refresh /\ source \in SourceRow
  BY Proceeding DEF SaveStatus, MarkError, At, IInv, TypeOK
<1>2. PICK tag \in Tag, status \in {"ok", "error"} :
        /\ source' = [source EXCEPT !.status = status, !.tag = tag]
        /\ tag = work[w].tag \/ (At(w, "save") /\ tag = work[w].new)
  BY <1>1 DEF SaveStatus, MarkError, Refresh
<1>3. /\ source'.url = source.url /\ source'.enabled = source.enabled
      /\ source'.tag = tag /\ source'.status = status
  BY <1>1, <1>2 DEF SourceRow
<1>4. work[w].tag = source.tag
  BY DEF IInv, RefreshInv, HoldsSavedTag, SaveStatus, MarkError, At
<1>5. tag = source.tag \/ (tag \in Publication /\ tag <= latest /\ Agrees(tag))
  BY <1>2, <1>4 DEF IInv, RefreshInv, HasApplied
<1>6. QED
  BY <1>3, <1>5 DEF Gone

LEMMA ApartSave ==
  ASSUME Alone, IInv, TypeOK', NEW w \in Worker, SaveStatus(w) \/ MarkError(w)
  PROVE  IInv'
<1>1. UNCHANGED <<channel, published, latest>>
  BY DEF SaveStatus, MarkError
<1>2. PastInv'
  <2>1. CASE source' = source
    BY <1>1, <2>1 DEF IInv, PastInv
  <2>2. CASE source' # source
    <3>1. source # Gone
      BY <2>2 DEF SaveStatus, MarkError
    <3>2. QED
      BY <1>1, <2>2, <3>1, SavesEarned DEF IInv, PastInv
  <2>3. QED
    BY <2>1, <2>2
<1>3. work'[w].pc = "idle"
  BY DEF SaveStatus, MarkError, Finish, Idle, IInv, TypeOK
<1>4. QED
  BY <1>2, <1>3, OwesNothing DEF IInv

-----------------------------------------------------------------------------
(***************************************************************************)
(* Everything else.                                                        *)
(***************************************************************************)

LEMMA ApartPublish ==
  ASSUME Alone, IInv, TypeOK', NEW u \in Url, Publish(u)
  PROVE  IInv'
<1>1. UNCHANGED <<source, channel, work>> /\ latest' = latest + 1
  BY DEF Publish
<1>2. /\ latest \in Nat /\ (source # Gone => source.tag \in Nat)
      /\ \A v \in Url : published[v] \in Nat
  BY PlaylistTypes DEF IInv, TypeOK, SourceRow
<1>4. PastInv'
  <2>1. \A v \in Url : published'[v] = IF v = u THEN latest + 1 ELSE published[v]
    BY DEF Publish, IInv, TypeOK
  <2>2. QED
    BY <1>1, <1>2, <2>1 DEF IInv, PastInv
<1>5. RefreshInv'
  <2> SUFFICES ASSUME NEW w \in Worker
               PROVE  /\ HoldsSavedTag(w)' /\ HasReadOnly(w)' /\ AppliesServed(w)'
                      /\ UpsertsInOrder(w)' /\ HasUpserted(w)' /\ HasApplied(w)'
    BY DEF RefreshInv
  <2>1. /\ HoldsSavedTag(w) /\ HasReadOnly(w) /\ AppliesServed(w)
        /\ UpsertsInOrder(w) /\ HasUpserted(w) /\ HasApplied(w)
    BY DEF IInv, RefreshInv
  <2>2. HasReadOnly(w)' /\ UpsertsInOrder(w)' /\ HasUpserted(w)'
    BY <1>1, <2>1 DEF HasReadOnly, UpsertsInOrder, HasUpserted, At, Entries
  <2>3. CASE work[w].pc \in {"idle", "read"}
    BY <1>1, <2>2, <2>3 DEF HoldsSavedTag, AppliesServed, HasApplied, At
  <2>4. CASE work[w].pc \notin {"idle", "read"}
    <3>1. work[w].tag \in Nat /\ work[w].new \in Nat
      BY <2>4, Proceeding, PlaylistTypes DEF IInv, TypeOK, Refresh
    <3>2. HoldsSavedTag(w)' /\ AppliesServed(w)'
      BY <1>1, <1>2, <2>1, <3>1 DEF HoldsSavedTag, AppliesServed
    <3>3. HasApplied(w)'
      <4>1. work[w].new <= latest => work[w].new <= latest + 1
        BY <1>2, <3>1
      <4>2. Agrees(work[w].new) => Agrees(work[w].new)'
        BY <1>1 DEF Agrees, Entries
      <4>3. QED
        BY <1>1, <2>1, <4>1, <4>2 DEF HasApplied, At
    <3>4. QED
      BY <2>2, <3>2, <3>3
  <2>5. QED
    BY <2>3, <2>4
<1>6. QED
  BY <1>4, <1>5 DEF IInv

LEMMA ApartEdit ==
  ASSUME Alone, IInv, TypeOK', NEW u \in Url, NEW on \in BOOLEAN, EditSource(u, on)
  PROVE  IInv'
<1>1. UNCHANGED <<channel, published, latest, work>> /\ source # Gone
  BY DEF EditSource
<1>2. source'.tag = source.tag
  <2>1. source \in SourceRow
    BY <1>1 DEF IInv, TypeOK
  <2>2. QED
    BY <2>1 DEF EditSource, SourceRow
<1>3. PastInv'
  BY <1>1, <1>2 DEF IInv, PastInv
<1>4. RefreshInv'
  BY <1>1, <1>2 DEF IInv, RefreshInv, HoldsSavedTag, HasReadOnly, AppliesServed,
     UpsertsInOrder, HasUpserted, HasApplied, At, Agrees
<1>5. QED
  BY <1>3, <1>4 DEF IInv

LEMMA ApartDelete ==
  ASSUME Alone, IInv, TypeOK', DeleteSource
  PROVE  IInv'
<1>1. UNCHANGED <<published, latest, work>> /\ source' = Gone
  BY DEF DeleteSource
<1>2. PastInv'
  BY <1>1 DEF IInv, PastInv
<1>3. RefreshInv'
  BY <1>1 DEF IInv, RefreshInv, HoldsSavedTag, HasReadOnly, AppliesServed,
     UpsertsInOrder, HasUpserted, HasApplied, At
<1>4. QED
  BY <1>2, <1>3 DEF IInv

LEMMA ApartRestart ==
  ASSUME Alone, IInv, TypeOK', Restart
  PROVE  IInv'
<1>1. UNCHANGED <<source, channel, published, latest>>
  BY DEF Restart
<1>2. PastInv'
  BY <1>1 DEF IInv, PastInv
<1>3. \A w \in Worker : work'[w].pc = "idle"
  BY DEF Restart, Idle
<1>4. RefreshInv'
  BY <1>3 DEF RefreshInv, HoldsSavedTag, HasReadOnly, AppliesServed,
     UpsertsInOrder, HasUpserted, HasApplied, At
<1>5. QED
  BY <1>2, <1>4 DEF IInv

LEMMA ApartStep == Alone /\ IInv /\ [Next]_vars => IInv'
<1> SUFFICES ASSUME Alone, IInv, [Next]_vars PROVE IInv'
  OBVIOUS
<1>1. TypeOK'
  BY TypeStep DEF IInv
<1>2. CASE UNCHANGED vars
  BY <1>1, <1>2 DEF vars, IInv, PastInv, RefreshInv, HoldsSavedTag, HasReadOnly,
     AppliesServed, UpsertsInOrder, HasUpserted, HasApplied, At, Agrees
<1>3. CASE \E w \in Worker : \/ BeginScheduled(w) \/ BeginByAdmin(w)
                            \/ Proceed(w) \/ StatementFails(w)
  BY <1>1, <1>3, ApartIdle, ApartRead, ApartNotModified, ApartFails, ApartFetch,
     ApartUpsert, ApartMissing, ApartSave DEF Proceed
<1>4. CASE \E u \in Url : Publish(u)
  BY <1>1, <1>4, ApartPublish
<1>5. CASE \E u \in Url, on \in BOOLEAN : EditSource(u, on)
  BY <1>1, <1>5, ApartEdit
<1>6. CASE DeleteSource \/ Restart
  BY <1>1, <1>6, ApartDelete, ApartRestart
<1>7. QED
  BY <1>2, <1>3, <1>4, <1>5, <1>6 DEF Next

-----------------------------------------------------------------------------
(***************************************************************************)
(* One URL: a saved validator that is still served is earned.              *)
(***************************************************************************)

OneUrl == \A t, u \in Url : t = u

\* What is served anywhere is the last publication.
ServesLatest == \A u \in Url : published[u] \in {0, latest}

\* So what a refresh applies is newer than the saved validator, and as long as
\* the channels may be a mixture no answer is a 304.
AppliesNewer ==
  \A w \in Worker : work[w].pc \in {"upsert", "missing"} => work[w].tag < work[w].new

SavedInv == source # Gone /\ source.tag # 0 /\ source.tag = latest => Agrees(source.tag)

EarnedInv == IInv /\ ServesLatest /\ AppliesNewer /\ SavedInv

LEMMA EarnedBySaved == EarnedInv => TagIsEarned
BY DEF EarnedInv, IInv, TypeOK, SourceRow, ServesLatest, SavedInv, TagIsEarned, UpToDate

LEMMA EarnedInit == Init => EarnedInv
<1> SUFFICES ASSUME Init PROVE EarnedInv
  OBVIOUS
<1>1. /\ source.tag = 0 /\ \A u \in Url : published[u] = 0
      /\ \A w \in Worker : work[w].pc = "idle"
  BY DEF Init, Idle
<1>2. QED
  BY <1>1, ApartInit DEF EarnedInv, ServesLatest, AppliesNewer, SavedInv

\* A refresh that has its playlist fetched it, and holds what it then had.
LEMMA NewerStep ==
  ASSUME EarnedInv, [Next]_vars, NEW w \in Worker,
         work'[w].pc \in {"upsert", "missing"}
  PROVE  work'[w].tag < work'[w].new
<1>1. work \in [Worker -> Refresh \cup {Idle, Listed}] /\ IInv
  BY DEF EarnedInv, IInv, TypeOK
<1>2. CASE work'[w] = work[w]
  BY <1>2 DEF EarnedInv, AppliesNewer
<1>3. CASE FetchPlaylist(w)
  <2> DEFINE n == published[work[w].url]
  <2>1. work[w] \in Refresh /\ At(w, "fetch")
    BY <1>1, <1>3, Proceeding DEF FetchPlaylist, At
  <2>2. work'[w].tag = work[w].tag /\ work'[w].new = n
    <3> DEFINE next == [work[w] EXCEPT !.new = n,
                          !.pc = IF Playlist[n] = <<>> THEN "missing" ELSE "upsert"]
    <3>1. work'[w] = next
      BY <1>1, <1>3 DEF FetchPlaylist
    <3>2. QED
      BY <2>1, <3>1 DEF Refresh
  <2>3. n = latest /\ n # 0 /\ n \in Nat /\ work[w].tag \in Nat
    BY <1>3, <2>1, PlaylistTypes
    DEF EarnedInv, IInv, TypeOK, ServesLatest, FetchPlaylist, Refresh
  <2>4. work[w].tag <= n /\ ~NotModified(work[w].tag, n)
    BY <1>3, <2>1, <2>3 DEF EarnedInv, IInv, RefreshInv, HoldsSavedTag, FetchPlaylist, At
  <2> HIDE DEF n
  <2>5. work[w].tag # n
    BY <2>3, <2>4 DEF NotModified
  <2>6. QED
    BY <2>2, <2>3, <2>4, <2>5
<1>4. CASE UpsertChannel(w)
  <2>1. work[w] \in Refresh /\ work[w].pc = "upsert"
    BY <1>1, <1>4, Proceeding DEF UpsertChannel, At
  <2>2. work'[w].tag = work[w].tag /\ work'[w].new = work[w].new
    BY <1>1, <1>4, <2>1 DEF UpsertChannel, Refresh, Goto
  <2>3. QED
    BY <2>1, <2>2 DEF EarnedInv, AppliesNewer
<1>5. CASE Restart
  BY <1>5 DEF Restart, Idle
<1>6. ASSUME NEW v \in Worker, v # w,
             BeginScheduled(v) \/ BeginByAdmin(v) \/ Proceed(v) \/ StatementFails(v)
      PROVE  work'[w] = work[w]
  BY <1>1, <1>6 DEF Proceed, BeginScheduled, BeginByAdmin, ReadSource, ReadFails,
     FetchNotModified, FetchPlaylist, FetchFails, UpsertChannel, MarkChannelsMissing,
     StatementFails, SaveStatus, MarkError, Goto, Finish
<1>7. CASE BeginScheduled(w) \/ BeginByAdmin(w) \/ ReadSource(w) \/ ReadFails(w)
           \/ SaveStatus(w) \/ MarkError(w)
  BY <1>1, <1>7 DEF BeginScheduled, BeginByAdmin, ReadSource, ReadFails, SaveStatus,
     MarkError, Finish, Idle, Listed
<1>8. CASE FetchNotModified(w) \/ FetchFails(w) \/ MarkChannelsMissing(w)
           \/ StatementFails(w)
  <2>1. work[w] \in Refresh /\ (Goto(w, "save") \/ Goto(w, "error"))
    BY <1>1, <1>8, Proceeding DEF FetchNotModified, FetchFails, MarkChannelsMissing,
       StatementFails, At
  <2>2. QED
    BY <1>1, <2>1 DEF Goto, Refresh
<1>9. CASE UNCHANGED work
  BY <1>2, <1>9
<1>10. QED
  BY <1>2, <1>3, <1>4, <1>5, <1>6, <1>7, <1>8, <1>9
  DEF Next, Proceed, vars, Publish, EditSource, DeleteSource

\* Channels change while the validator that is saved is not the latest, and
\* what takes its place is earned.
LEMMA SavedStep ==
  ASSUME EarnedInv, [Next]_vars
  PROVE  SavedInv'
<1>1. IInv /\ TypeOK /\ latest \in Nat
  BY PlaylistTypes DEF EarnedInv, IInv, TypeOK
<1>2. ASSUME NEW w \in Worker, UpsertChannel(w) \/ MarkChannelsMissing(w)
      PROVE  SavedInv'
  <2>1. work[w] \in Refresh /\ work[w].pc \in {"upsert", "missing"}
    BY <1>1, <1>2, Proceeding DEF UpsertChannel, MarkChannelsMissing, At, TypeOK
  <2>2. work[w].tag \in Nat /\ work[w].new \in Nat
    BY <2>1, PlaylistTypes DEF Refresh
  <2>3. /\ work[w].tag < work[w].new /\ work[w].new <= latest
        /\ source # Gone => work[w].tag = source.tag
    BY <1>1, <2>1 DEF EarnedInv, AppliesNewer, IInv, RefreshInv, AppliesServed, HoldsSavedTag
  <2>4. source # Gone => source.tag # latest
    BY <1>1, <2>2, <2>3
  <2>5. UNCHANGED <<source, latest>>
    BY <1>2 DEF UpsertChannel, MarkChannelsMissing
  <2>6. QED
    BY <2>4, <2>5 DEF SavedInv
<1>3. ASSUME NEW w \in Worker, SaveStatus(w) \/ MarkError(w)
      PROVE  SavedInv'
  <2>1. UNCHANGED <<channel, latest>>
    BY <1>3 DEF SaveStatus, MarkError
  <2>2. CASE source' = source
    BY <2>1, <2>2 DEF EarnedInv, SavedInv, Agrees
  <2>3. CASE source' # source
    <3>1. source # Gone
      BY <1>3, <2>3 DEF SaveStatus, MarkError
    <3>2. source'.tag = source.tag \/ Agrees(source'.tag)
      BY <1>1, <1>3, <2>3, <3>1, SavesEarned
    <3>3. QED
      BY <2>1, <3>1, <3>2 DEF EarnedInv, SavedInv, Agrees
  <2>4. QED
    BY <2>2, <2>3
<1>4. CASE \E u \in Url : Publish(u)
  <2>1. UNCHANGED <<source, channel>> /\ latest' = latest + 1
    BY <1>4 DEF Publish
  <2>2. source # Gone => source.tag \in Nat /\ source.tag <= latest
    BY <1>1, PlaylistTypes DEF TypeOK, SourceRow, IInv, PastInv
  <2>3. QED
    BY <1>1, <2>1, <2>2 DEF SavedInv
<1>5. CASE \E u \in Url, on \in BOOLEAN : EditSource(u, on)
  <2>1. UNCHANGED <<channel, latest>> /\ source # Gone /\ source'.tag = source.tag
    BY <1>1, <1>5 DEF EditSource, TypeOK, SourceRow
  <2>2. QED
    BY <2>1 DEF EarnedInv, SavedInv, Agrees
<1>6. CASE DeleteSource
  BY <1>6 DEF DeleteSource, SavedInv
<1>7. CASE UNCHANGED <<source, channel, latest>>
  BY <1>7 DEF EarnedInv, SavedInv, Agrees
<1>8. QED
  BY <1>2, <1>3, <1>4, <1>5, <1>6, <1>7 DEF Next, Proceed, vars, BeginScheduled,
     BeginByAdmin, ReadSource, ReadFails, FetchNotModified, FetchPlaylist, FetchFails,
     StatementFails, Restart

LEMMA EarnedStep == Alone /\ EarnedInv /\ [Next]_vars /\ ServesLatest' => EarnedInv'
<1>1. EarnedInv /\ [Next]_vars => AppliesNewer'
  BY NewerStep DEF AppliesNewer
<1>2. QED
  BY <1>1, ApartStep, SavedStep DEF EarnedInv

\* With one refresh at a time and one URL, for playlists of any number and
\* length, either kind of validator and any failures, timeouts, restarts and
\* edits: a validator that makes the upstream answer 304 is that of the
\* playlist which the channels agree with.
THEOREM TagIsEarnedAlone == ASSUME Alone, OneUrl PROVE Spec => []TagIsEarned
<1>1. Init => EarnedInv
  BY EarnedInit
<1>2. EarnedInv /\ [Next]_vars => EarnedInv'
  <2> SUFFICES ASSUME EarnedInv, [Next]_vars PROVE ServesLatest'
    BY EarnedStep
  <2>1. CASE \E u \in Url : Publish(u)
    BY <2>1 DEF Publish, ServesLatest, OneUrl, EarnedInv, IInv, TypeOK
  <2>2. CASE ~ \E u \in Url : Publish(u)
    <3>1. UNCHANGED <<published, latest>>
      BY <2>2 DEF vars, Next, Proceed, BeginScheduled, BeginByAdmin, ReadSource, ReadFails,
         FetchNotModified, FetchPlaylist, FetchFails, UpsertChannel, MarkChannelsMissing,
         StatementFails, SaveStatus, MarkError, EditSource, DeleteSource, Restart
    <3>2. QED
      BY <3>1 DEF EarnedInv, ServesLatest
  <2>3. QED
    BY <2>1, <2>2
<1>3. EarnedInv => TagIsEarned
  BY EarnedBySaved
<1>4. QED
  BY <1>1, <1>2, <1>3, PTL DEF Spec

-----------------------------------------------------------------------------
(***************************************************************************)
(* The source behind the administrators' page.                             *)
(***************************************************************************)

\* A save is an edit of the source, and nothing else on the page touches it.
LEMMA FormsStepIsStep == FormsTypeOK /\ [FormsNext]_formsVars => [Next]_vars
<1> SUFFICES ASSUME FormsTypeOK, [FormsNext]_formsVars PROVE [Next]_vars
  OBVIOUS
<1>1. CASE UNCHANGED formsVars
  BY <1>1 DEF formsVars
<1>2. CASE RefreshNext
  BY <1>2 DEF RefreshNext, Next
<1>3. ASSUME NEW a \in Admin, PageNext(a) PROVE [Next]_vars
  <2>1. CASE Update(a)
    <3>1. drawer[a] \in Open
      BY <2>1 DEF Update, FormsTypeOK, Closed
    <3>2. drawer[a].url \in Url /\ drawer[a].enabled \in BOOLEAN
      BY <3>1 DEF Open
    <3>3. QED
      BY <2>1, <3>2 DEF Update, Next
  <2>2. CASE ~Update(a)
    BY <1>3, <2>2 DEF PageNext, ListSources, OpenDrawer, EnterUrl, TurnSwitch, Submit,
       Reload, PutFails, CloseDrawer
  <2>3. QED
    BY <2>1, <2>2
<1>4. QED
  BY <1>1, <1>2, <1>3 DEF FormsNext

LEMMA FormsTypeInit == FormsInit => TypeOK /\ FormsTypeOK
BY TypeInit DEF FormsInit, FormsTypeOK

\* The steps of a drawer whose content is there.
LEMMA DrawerTypes ==
  ASSUME FormsTypeOK, NEW a \in Admin, drawer[a].pc # "closed", UNCHANGED listed,
         \/ drawer' = [drawer EXCEPT ![a] = Closed]
         \/ \E pc \in {"open", "saving", "reload"} : drawer' = [drawer EXCEPT ![a].pc = pc]
         \/ \E u \in Url : drawer' = [drawer EXCEPT ![a].url = u]
         \/ drawer' = [drawer EXCEPT ![a].enabled = ~@]
  PROVE  FormsTypeOK'
<1>1. drawer \in [Admin -> Open \cup {Closed}]
  BY DEF FormsTypeOK
<1>2. drawer[a] \in Open
  BY <1>1 DEF Closed
<1>3. /\ \A pc \in {"open", "saving", "reload"} : [drawer[a] EXCEPT !.pc = pc] \in Open
      /\ \A u \in Url : [drawer[a] EXCEPT !.url = u] \in Open
      /\ [drawer[a] EXCEPT !.enabled = ~@] \in Open
  BY <1>2 DEF Open
<1>4. \E d \in Open \cup {Closed} : drawer' = [drawer EXCEPT ![a] = d]
  BY <1>3
<1>5. drawer' \in [Admin -> Open \cup {Closed}]
  BY <1>1, <1>4
<1>6. QED
  BY <1>5 DEF FormsTypeOK

LEMMA FormsTypeStep ==
  TypeOK /\ FormsTypeOK /\ [FormsNext]_formsVars => FormsTypeOK'
<1> SUFFICES ASSUME TypeOK, FormsTypeOK, [FormsNext]_formsVars PROVE FormsTypeOK'
  OBVIOUS
<1>1. CASE UNCHANGED forms
  BY <1>1 DEF forms, FormsTypeOK
<1>2. ASSUME NEW a \in Admin, ListSources(a) PROVE FormsTypeOK'
  <2>1. source # Gone => Answer \in Shown
    <3>1. SUFFICES ASSUME source # Gone PROVE Answer \in Shown
      OBVIOUS
    <3>2. source.url \in Url /\ source.enabled \in BOOLEAN
      BY <3>1 DEF TypeOK, SourceRow
    <3>3. Masked[source.url] \in Url
      BY <3>2, SourceFormsAssumption
    <3>4. QED
      BY <3>2, <3>3 DEF Answer, Shown
  <2>2. QED
    BY <1>2, <2>1 DEF ListSources, FormsTypeOK
<1>3. ASSUME NEW a \in Admin, OpenDrawer(a) PROVE FormsTypeOK'
  <2>1. listed[a] \in Shown
    BY <1>3 DEF OpenDrawer, FormsTypeOK
  <2>2. [pc |-> "open", url |-> listed[a].url, enabled |-> listed[a].enabled] \in Open
    BY <2>1 DEF Shown, Open
  <2>3. QED
    BY <1>3, <2>2 DEF OpenDrawer, FormsTypeOK
<1>4. ASSUME NEW a \in Admin, PageNext(a), ~ListSources(a), ~OpenDrawer(a)
      PROVE  FormsTypeOK'
  BY <1>4, DrawerTypes DEF PageNext, EnterUrl, TurnSwitch, Submit, Update, Reload,
     PutFails, CloseDrawer
<1>5. QED
  BY <1>1, <1>2, <1>3, <1>4 DEF FormsNext, formsVars

LEMMA FormsTyped == FormsSpec => [](TypeOK /\ FormsTypeOK)
<1>1. TypeOK /\ FormsTypeOK /\ [FormsNext]_formsVars => (TypeOK /\ FormsTypeOK)'
  BY FormsStepIsStep, TypeStep, FormsTypeStep
<1>2. QED
  BY FormsTypeInit, <1>1, PTL DEF FormsSpec

\* The lists and drawers of any number of browsers are well typed, and so are
\* the source, the channels and the refreshes: a drawer always holds a URL.
THEOREM FormsTypeCorrect == FormsSpec => [](TypeOK /\ FormsTypeOK)
<1>1. QED
  BY FormsTyped

\* With one refresh at a time, for any number of URLs, browsers and channels:
\* the URL and the switch change only by a save and to what its drawer holds,
\* and a validator gives way only to one whose playlist the channels agree with.
THEOREM WritersKeepApartAlone == ASSUME Alone PROVE FormsSpec => WritersKeepApart
<1>1. FormsInit => IInv
  BY ApartInit DEF FormsInit
<1>2. IInv /\ FormsTypeOK /\ [FormsNext]_formsVars => IInv'
  BY FormsStepIsStep, ApartStep
<1>3. ASSUME IInv, FormsTypeOK, [FormsNext]_formsVars, source # Gone, source' # Gone
      PROVE  /\ <<source'.url, source'.enabled>> # <<source.url, source.enabled>> =>
                  \E a \in Admin : /\ drawer[a].pc = "saving" /\ drawer'[a].pc = "reload"
                                   /\ source'.url = drawer[a].url
                                   /\ source'.enabled = drawer[a].enabled
             /\ source'.tag # source.tag => source'.tag # 0 /\ Agrees(source'.tag)
  <2>1. CASE source' = source
    BY <2>1
  <2>2. ASSUME NEW w \in Worker, SaveStatus(w) \/ MarkError(w), source' # source
        PROVE  /\ <<source'.url, source'.enabled>> = <<source.url, source.enabled>>
               /\ source'.tag # source.tag => source'.tag # 0 /\ Agrees(source'.tag)
    BY <1>3, <2>2, SavesEarned DEF Publication
  <2>3. ASSUME NEW a \in Admin, Update(a)
        PROVE  /\ drawer[a].pc = "saving" /\ drawer'[a].pc = "reload"
               /\ source'.url = drawer[a].url /\ source'.enabled = drawer[a].enabled
               /\ source'.tag = source.tag
    <3>1. drawer[a] \in Open /\ source \in SourceRow
      BY <1>3, <2>3 DEF Update, FormsTypeOK, Closed, IInv, TypeOK
    <3>2. source' = [source EXCEPT !.url = drawer[a].url, !.enabled = drawer[a].enabled]
      BY <2>3 DEF Update, EditSource
    <3>3. /\ source'.url = drawer[a].url /\ source'.enabled = drawer[a].enabled
          /\ source'.tag = source.tag
      BY <3>1, <3>2 DEF SourceRow
    <3>4. drawer[a].pc = "saving" /\ drawer'[a].pc = "reload"
      BY <1>3, <2>3, <3>1 DEF Update, FormsTypeOK, Open
    <3>5. QED
      BY <3>3, <3>4
  <2>4. source' = source \/ (\E w \in Worker : SaveStatus(w) \/ MarkError(w))
        \/ \E a \in Admin : Update(a)
    BY <1>3 DEF formsVars, vars, FormsNext, RefreshNext, PageNext, ListSources, OpenDrawer,
       EnterUrl, TurnSwitch, Submit, Reload, PutFails, CloseDrawer,
       Proceed, BeginScheduled, BeginByAdmin, ReadSource, ReadFails, FetchNotModified,
       FetchPlaylist, FetchFails, UpsertChannel, MarkChannelsMissing, StatementFails,
       Publish, DeleteSource, Restart
  <2>5. QED
    BY <2>1, <2>2, <2>3, <2>4
<1>4. IInv /\ FormsTypeOK /\ [FormsNext]_formsVars =>
        [source # Gone /\ source' # Gone =>
           /\ <<source'.url, source'.enabled>> # <<source.url, source.enabled>> =>
                \E a \in Admin : /\ drawer[a].pc = "saving" /\ drawer'[a].pc = "reload"
                                 /\ source'.url = drawer[a].url
                                 /\ source'.enabled = drawer[a].enabled
           /\ source'.tag # source.tag => source'.tag # 0 /\ Agrees(source'.tag)]_formsVars
  BY <1>3
<1>5. QED
  BY <1>1, <1>2, <1>4, FormsTyped, PTL DEF FormsSpec, WritersKeepApart

-----------------------------------------------------------------------------
\* No upstream serves anything to a placeholder, so a refresh that applies a
\* playlist was sent the credentials.
Refused ==
  /\ \A u \in Url : Placeholder(u) => published[u] = 0
  /\ \A w \in Worker :
       work[w].pc \in {"upsert", "missing"} => published[work[w].url] # 0

LEMMA RefusedInit == FormsInit => Refused
<1> SUFFICES ASSUME FormsInit PROVE Refused
  OBVIOUS
<1>1. \A u \in Url : published[u] = 0
  BY DEF FormsInit, Init
<1>2. \A w \in Worker : work[w].pc = "idle"
  BY DEF FormsInit, Init, Idle
<1>3. QED
  BY <1>1, <1>2 DEF Refused

LEMMA RefusedStep ==
  TypeOK /\ FormsTypeOK /\ Refused /\ [FormsNext]_formsVars => Refused'
<1> SUFFICES ASSUME TypeOK, FormsTypeOK, Refused, [FormsNext]_formsVars PROVE Refused'
  OBVIOUS
<1>1. CASE UNCHANGED vars
  BY <1>1 DEF vars, Refused, Placeholder
<1>2. ASSUME NEW u \in Url, ~Placeholder(u), Publish(u) PROVE Refused'
  <2>1. latest + 1 # 0
    BY PlaylistTypes DEF TypeOK
  <2>2. /\ UNCHANGED work
        /\ \A v \in Url : published'[v] = IF v = u THEN latest + 1 ELSE published[v]
    BY <1>2 DEF Publish, TypeOK
  <2>3. \A w \in Worker : work[w].pc \in {"upsert", "missing"} => work[w].url \in Url
    BY Proceeding DEF TypeOK, Refresh
  <2>4. QED
    BY <1>2, <2>1, <2>2, <2>3 DEF Refused, Placeholder
<1>3. ASSUME NEW w \in Worker,
             BeginScheduled(w) \/ BeginByAdmin(w) \/ Proceed(w) \/ StatementFails(w)
      PROVE  Refused'
  <2>1. UNCHANGED published
    BY <1>3 DEF Proceed, BeginScheduled, BeginByAdmin, ReadSource, ReadFails,
       FetchNotModified, FetchPlaylist, FetchFails, UpsertChannel, MarkChannelsMissing,
       StatementFails, SaveStatus, MarkError
  <2>2. \A v \in Worker \ {w} : work'[v] = work[v]
    BY <1>3 DEF Proceed, BeginScheduled, BeginByAdmin, ReadSource, ReadFails,
       FetchNotModified, FetchPlaylist, FetchFails, UpsertChannel, MarkChannelsMissing,
       StatementFails, SaveStatus, MarkError, Goto, Finish, TypeOK
  <2>3. work'[w].pc \in {"upsert", "missing"} => published[work'[w].url] # 0
    <3>1. CASE FetchPlaylist(w)
      <4>1. work[w] \in Refresh
        BY <3>1, Proceeding DEF FetchPlaylist, At, TypeOK
      <4>2. work'[w].url = work[w].url
        BY <3>1, <4>1 DEF FetchPlaylist, TypeOK, Refresh
      <4>3. QED
        BY <3>1, <4>2 DEF FetchPlaylist
    <3>2. CASE UpsertChannel(w)
      <4>1. work[w] \in Refresh /\ work[w].pc = "upsert"
        BY <3>2, Proceeding DEF UpsertChannel, At, TypeOK
      <4>2. work'[w].url = work[w].url
        BY <3>2, <4>1 DEF UpsertChannel, TypeOK, Refresh, Goto
      <4>3. QED
        BY <4>1, <4>2 DEF Refused
    <3>3. CASE ~FetchPlaylist(w) /\ ~UpsertChannel(w)
      <4>1. work'[w].pc \notin {"upsert", "missing"}
        <5>1. CASE BeginScheduled(w) \/ BeginByAdmin(w) \/ ReadFails(w)
                   \/ SaveStatus(w) \/ MarkError(w)
          BY <5>1 DEF BeginScheduled, BeginByAdmin, ReadFails, SaveStatus, MarkError,
             Finish, Idle, Listed, TypeOK
        <5>2. CASE ReadSource(w)
          BY <5>2 DEF ReadSource, TypeOK
        <5>3. CASE FetchNotModified(w) \/ FetchFails(w) \/ MarkChannelsMissing(w)
                   \/ StatementFails(w)
          <6>1. work[w] \in Refresh /\ (Goto(w, "save") \/ Goto(w, "error"))
            BY <5>3, Proceeding DEF FetchNotModified, FetchFails, MarkChannelsMissing,
               StatementFails, At, TypeOK
          <6>2. QED
            BY <6>1 DEF Goto, TypeOK, Refresh
        <5>4. QED
          BY <1>3, <3>3, <5>1, <5>2, <5>3 DEF Proceed
      <4>2. QED
        BY <4>1
    <3>4. QED
      BY <3>1, <3>2, <3>3
  <2>4. QED
    BY <2>1, <2>2, <2>3 DEF Refused, Placeholder
<1>4. CASE DeleteSource
  BY <1>4 DEF DeleteSource, Refused, Placeholder
<1>5. CASE Restart
  BY <1>5 DEF Restart, Refused, Placeholder, Idle
<1>6. ASSUME NEW a \in Admin, Update(a) PROVE Refused'
  BY <1>6 DEF Update, EditSource, Refused, Placeholder
<1>7. ASSUME NEW a \in Admin, PageNext(a), ~Update(a) PROVE UNCHANGED vars
  BY <1>7 DEF PageNext, ListSources, OpenDrawer, EnterUrl, TurnSwitch, Submit,
     Reload, PutFails, CloseDrawer
<1>8. QED
  BY <1>1, <1>2, <1>3, <1>4, <1>5, <1>6, <1>7 DEF FormsNext, RefreshNext, formsVars

LEMMA RefusedHolds == FormsSpec => [](TypeOK /\ FormsTypeOK /\ Refused)
<1>1. QED
  BY FormsTyped, RefusedInit, RefusedStep, PTL DEF FormsSpec

\* For any number of browsers, refreshes and URLs: whatever administrators
\* save, a placeholder included, the channels change only when the source is
\* deleted or by the step of a refresh that applies a playlist, and its URL is
\* none that upstreams refuse.
THEOREM RefusalKeepsChannelsAlways == FormsSpec => RefusalKeepsChannels
<1>1. ASSUME TypeOK, FormsTypeOK, Refused, [FormsNext]_formsVars, channel' # channel,
             source' # Gone
      PROVE  \E w \in Worker : /\ work[w].pc \in {"upsert", "missing"}
                              /\ work'[w] # work[w]
                              /\ ~Placeholder(work[w].url)
  <2>1. [Next]_vars
    BY <1>1, FormsStepIsStep
  <2>2. PICK w \in Worker : UpsertChannel(w) \/ MarkChannelsMissing(w)
    BY <1>1, <2>1 DEF vars, Next, Proceed, BeginScheduled, BeginByAdmin, ReadSource,
       ReadFails, FetchNotModified, FetchPlaylist, FetchFails, StatementFails, SaveStatus,
       MarkError, Publish, EditSource, DeleteSource, Restart
  <2>3. work[w] \in Refresh /\ work[w].pc \in {"upsert", "missing"}
    BY <1>1, <2>2, Proceeding DEF UpsertChannel, MarkChannelsMissing, At, TypeOK
  <2>4. ~Placeholder(work[w].url)
    BY <1>1, <2>3 DEF Refused, Refresh
  <2>5. work'[w] # work[w]
    <3>1. CASE UpsertChannel(w)
      <4>1. source # Gone
        BY <1>1, <3>1 DEF UpsertChannel
      <4>2. work'[w].next = work[w].next + 1
        BY <1>1, <2>3, <3>1, <4>1 DEF UpsertChannel, TypeOK, Refresh
      <4>3. work[w].next \in Nat
        BY <2>3 DEF Refresh
      <4>4. QED
        BY <4>2, <4>3
    <3>2. CASE MarkChannelsMissing(w)
      <4>1. work'[w].pc = "save" /\ work[w].pc = "missing"
        BY <1>1, <2>3, <3>2 DEF MarkChannelsMissing, Goto, At, TypeOK, Refresh
      <4>2. QED
        BY <4>1
    <3>3. QED
      BY <2>2, <3>1, <3>2
  <2>6. QED
    BY <2>3, <2>4, <2>5
<1>2. TypeOK /\ FormsTypeOK /\ Refused /\ [FormsNext]_formsVars =>
        [channel' # channel =>
           \/ source' = Gone
           \/ \E w \in Worker : /\ work[w].pc \in {"upsert", "missing"}
                                /\ work'[w] # work[w]
                                /\ ~Placeholder(work[w].url)]_formsVars
  BY <1>1
<1>3. QED
  BY <1>2, RefusedHolds, PTL DEF FormsSpec, RefusalKeepsChannels

\* All URLs but one are placeholders, which are what edits may bring in.
OneSecret == \A t, u \in Url : ~Placeholder(t) /\ ~Placeholder(u) => t = u

\* With one refresh at a time and one upstream URL, any number of browsers
\* that save any drafts, placeholders included, and whatever fails: a
\* validator that makes the upstream answer 304 is that of the playlist which
\* the channels agree with.
THEOREM FormsTagIsEarned == ASSUME Alone, OneSecret PROVE FormsSpec => []TagIsEarned
<1>1. FormsInit => EarnedInv
  BY EarnedInit DEF FormsInit
<1>2. EarnedInv /\ TypeOK /\ FormsTypeOK /\ Refused /\ [FormsNext]_formsVars => EarnedInv'
  <2> SUFFICES ASSUME EarnedInv, TypeOK, FormsTypeOK, Refused, [FormsNext]_formsVars
               PROVE  EarnedInv'
    OBVIOUS
  <2>1. [Next]_vars
    BY FormsStepIsStep
  <2>2. CASE \E u \in Url : ~Placeholder(u) /\ Publish(u)
    <3>1. PICK u \in Url : ~Placeholder(u) /\ Publish(u)
      BY <2>2
    <3>2. \A v \in Url : v # u => published[v] = 0
      BY <3>1 DEF OneSecret, Refused
    <3>3. latest' = latest + 1 /\ published' = [published EXCEPT ![u] = latest + 1]
      BY <3>1 DEF Publish
    <3>4. ServesLatest'
      BY <3>2, <3>3 DEF ServesLatest, TypeOK
    <3>5. QED
      BY <2>1, <3>4, EarnedStep
  <2>3. CASE UNCHANGED <<published, latest>>
    BY <2>1, <2>3, EarnedStep DEF EarnedInv, ServesLatest
  <2>4. UNCHANGED <<published, latest>> \/ \E u \in Url : ~Placeholder(u) /\ Publish(u)
    BY DEF formsVars, vars, FormsNext, RefreshNext, PageNext, ListSources, OpenDrawer,
       EnterUrl, TurnSwitch, Submit, Update, Reload, PutFails, CloseDrawer,
       Proceed, BeginScheduled, BeginByAdmin, ReadSource, ReadFails,
       FetchNotModified, FetchPlaylist, FetchFails, UpsertChannel, MarkChannelsMissing,
       StatementFails, SaveStatus, MarkError, EditSource, DeleteSource, Restart
  <2>5. QED
    BY <2>2, <2>3, <2>4
<1>3. EarnedInv => TagIsEarned
  BY EarnedBySaved
<1>4. QED
  BY <1>1, <1>2, <1>3, RefusedHolds, PTL DEF FormsSpec

=============================================================================
