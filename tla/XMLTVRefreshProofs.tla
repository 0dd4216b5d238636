------------------------- MODULE XMLTVRefreshProofs -------------------------
(***************************************************************************)
(* One guide and its refreshes, for guides of any size and number: what    *)
(* any number of refreshes keep, and what one at a time keeps besides.     *)
(***************************************************************************)
EXTENDS XMLTVRefresh, FiniteSetTheorems, TLAPS

Works == Refresh \cup Replace \cup {Idle, Listed}

LEMMA GuideNumbers ==
  /\ Len(Guide) \in Nat /\ 0 \in Tag
  /\ \A n \in Publication : n \in Tag /\ n # 0
  /\ \A n \in Tag : n \in Nat /\ (n # 0 => n \in Publication)
  BY XMLTVRefreshAssumption DEF Publication, Tag

\* A guide that parses has times in it; one that does not has ids all the same.
LEMMA GuideTypes ==
  ASSUME NEW n \in Publication
  PROVE  /\ Scheduled(n) \subseteq GuideId /\ Guide[n].names \subseteq GuideId
         /\ IsFiniteSet(Lists(n))
         /\ Readable(n) =>
              /\ Lists(n) \subseteq Programme
              /\ \A p \in Lists(n) : p.id \in GuideId /\ p.start \in Int /\ p.stop \in Int
  <1>1. /\ Guide[n].names \subseteq GuideId /\ IsFiniteSet(Guide[n].lists)
        /\ PruneAge \in Nat
        /\ \A e \in Guide[n].lists :
             e.id \in GuideId /\ e.start \in Stamp /\ e.stop \in Stamp
    BY XMLTVRefreshAssumption
  <1>2. Scheduled(n) \subseteq GuideId
    BY <1>1 DEF Scheduled, Lists, ToProgramme
  <1>3. IsFiniteSet(Lists(n))
    <2> DEFINE f == [e \in Guide[n].lists |-> ToProgramme(e)]
    <2>1. f \in Surjection(Guide[n].lists, Lists(n))
      BY DEF Surjection, Lists
    <2> QED
      BY <1>1, <2>1, FS_Surjection
  <1>4. ASSUME Readable(n)
        PROVE  /\ Lists(n) \subseteq Programme
               /\ \A p \in Lists(n) : p.id \in GuideId /\ p.start \in Int /\ p.stop \in Int
    <2>1. Lists(n) \subseteq Programme
      BY <1>4 DEF Programme
    <2>2. \A e \in Guide[n].lists : Parsed(e.start) \in Int /\ Parsed(e.stop) \in Int
      BY <1>1, <1>4 DEF Readable, Stamp, Parsed, ZeroTime
    <2> QED
      BY <1>1, <2>1, <2>2 DEF Lists, ToProgramme
  <1> QED
    BY <1>1, <1>2, <1>3, <1>4

LEMMA ProgrammeTypes ==
  ASSUME NEW p \in Programme
  PROVE  p.id \in GuideId /\ p.start \in Int /\ p.stop \in Int
  BY GuideTypes DEF Programme

-----------------------------------------------------------------------------
(***************************************************************************)
(* Types.  A copy gets a number that is free, as the table is finite; and  *)
(* a refresh that replaces programmes has a guide that parses.             *)
(***************************************************************************)

HasGuide(job) ==
  job.pc \in {"replace", "insert"} => job.new \in Publication /\ Readable(job.new)

TypeInv ==
  /\ TypeOK
  /\ IsFiniteSet(programs)
  /\ \A w \in Worker : HasGuide(work[w])

\* Among one number more than there are copies one is free.
LEMMA FreeNumber ==
  ASSUME IsFiniteSet(programs), NEW p
  PROVE  \E n \in 1 .. Cardinality(Copies(p)) + 1 : <<p, n>> \notin programs
  <1> DEFINE k == Cardinality(Copies(p))
             f == [n \in 1 .. k + 1 |-> <<p, n>>]
  <1>1. IsFiniteSet(Copies(p)) /\ k \in Nat
    BY FS_Subset, FS_CardinalityType DEF Copies
  <1> HIDE DEF k
  <1>2. SUFFICES ASSUME \A n \in 1 .. k + 1 : <<p, n>> \in programs
                 PROVE  FALSE
    BY DEF k
  <1>3. f \in Injection(1 .. k + 1, Copies(p))
    BY <1>2 DEF Injection, IsInjective, Copies
  <1>4. IsFiniteSet(1 .. k + 1) /\ Cardinality(1 .. k + 1) = k + 1
    BY <1>1, FS_Interval
  <1>5. Cardinality(1 .. k + 1) <= k
    BY <1>1, <1>3, FS_Injection DEF k
  <1> QED
    BY <1>1, <1>4, <1>5

\* The program counter tells which local variables a refresh has.
LEMMA Stages ==
  ASSUME NEW job \in Works
  PROVE  /\ job.pc \in {"fetch", "replace", "link", "prune", "save", "error"}
              => job \in Refresh
         /\ job.pc = "insert" => job \in Replace
         /\ job.pc = "idle" => job = Idle
         /\ job.pc = "read" => job = Listed
  BY DEF Works, Refresh, Replace, Idle, Listed

LEMMA InitTypes == Init => TypeInv
  <1> SUFFICES ASSUME Init PROVE TypeInv
    OBVIOUS
  <1>1. /\ source \in SourceRow /\ published \in [Url -> Tag] /\ latest \in Tag
        /\ now \in Time /\ faults \in 0 .. MaxFaults
    <2>1. source \in SourceRow
      BY GuideNumbers DEF Init, SourceRow
    <2>2. published \in [Url -> Tag] /\ latest \in Tag
      BY GuideNumbers DEF Init
    <2>3. Horizon \in Nat /\ MaxFaults \in Nat
      BY XMLTVRefreshAssumption
    <2>4. now = 0 /\ faults = 0
      BY DEF Init
    <2> QED
      BY <2>1, <2>2, <2>3, <2>4 DEF Time
  <1>2. programs = {} /\ IsFiniteSet(programs)
    BY FS_EmptySet DEF Init
  <1>3. work \in [Worker -> {Idle}] /\ \A w \in Worker : work[w].pc = "idle"
    BY DEF Init, Idle
  <1> QED
    BY <1>1, <1>2, <1>3 DEF Init, TypeInv, TypeOK, HasGuide

LEMMA FaultType ==
  TypeOK /\ (Fault \/ UNCHANGED faults) => faults' \in 0 .. MaxFaults
  BY XMLTVRefreshAssumption DEF TypeOK, Fault

\* One refresh goes on, and the others stay where they are.
LEMMA Moves ==
  ASSUME TypeInv, NEW w \in Worker, NEW job \in Works, HasGuide(job),
         work' = [work EXCEPT ![w] = job]
  PROVE  /\ work' \in [Worker -> Works]
         /\ work'[w] = job
         /\ \A v \in Worker \ {w} : work'[v] = work[v]
         /\ \A v \in Worker : HasGuide(work'[v])
  BY DEF TypeInv, TypeOK, Works

\* The steps that move one refresh and leave the tables alone, but for a status
\* and a validator.
LEMMA WorkTypes ==
  ASSUME TypeInv, NEW w \in Worker,
         \/ BeginScheduled(w) \/ BeginByAdmin(w) \/ ReadSource(w) \/ ReadFails(w)
         \/ FetchNotModified(w) \/ FetchGuide(w) \/ FetchFails(w)
         \/ (\E x \in GuideId : DeleteFuture(w, x))
         \/ TurnToLinks(w) \/ TurnToPruning(w) \/ StatementFails(w)
         \/ SaveStatus(w) \/ MarkError(w)
  PROVE  TypeInv'
  <1>1. TypeOK /\ IsFiniteSet(programs) /\ work[w] \in Works /\ HasGuide(work[w])
    BY DEF TypeInv, TypeOK, Works
  <1>2. UNCHANGED <<programs, link, upstream, now>> /\ (Fault \/ UNCHANGED faults)
    BY DEF BeginScheduled, BeginByAdmin, ReadSource, ReadFails, FetchNotModified, FetchGuide,
       FetchFails, DeleteFuture, TurnToLinks, TurnToPruning, StatementFails, SaveStatus,
       MarkError, tables
  <1>3. PICK job \in Works : HasGuide(job) /\ work' = [work EXCEPT ![w] = job]
    <2>1. CASE BeginScheduled(w) \/ BeginByAdmin(w)
      BY <2>1 DEF BeginScheduled, BeginByAdmin, Works, Listed, HasGuide
    <2>2. CASE ReadFails(w) \/ SaveStatus(w) \/ MarkError(w)
      BY <2>2 DEF ReadFails, SaveStatus, MarkError, Finish, Works, Idle, HasGuide
    <2>3. CASE ReadSource(w)
      <3> DEFINE job == [pc |-> "fetch", url |-> source.url, tag |-> source.tag,
                         new |-> source.tag, left |-> {}, open |-> {}, deleted |-> {}]
      <3>1. source \in SourceRow
        BY <1>1, <2>3 DEF ReadSource, TypeOK
      <3>2. job \in Refresh /\ HasGuide(job)
        BY <3>1 DEF SourceRow, Refresh, HasGuide
      <3> QED
        BY <2>3, <3>2 DEF ReadSource, Works
    <2>4. ASSUME NEW pc \in {"save", "error", "prune"}, work[w] \in Refresh, Goto(w, pc)
          PROVE  \E job \in Works : HasGuide(job) /\ work' = [work EXCEPT ![w] = job]
      <3>1. [work[w] EXCEPT !.pc = pc] \in Refresh
        BY <2>4 DEF Refresh
      <3>2. HasGuide([work[w] EXCEPT !.pc = pc])
        BY <2>4, <3>1 DEF HasGuide, Refresh
      <3> QED
        BY <2>4, <3>1, <3>2 DEF Goto, Works
    <2>5. CASE FetchNotModified(w) \/ FetchFails(w) \/ TurnToPruning(w)
      <3>1. work[w] \in Refresh
        BY <1>1, <2>5, Stages DEF FetchNotModified, FetchFails, TurnToPruning, At
      <3> QED
        BY <2>4, <2>5, <3>1 DEF FetchNotModified, FetchFails, TurnToPruning
    <2>6. CASE FetchGuide(w)
      <3> DEFINE n == Served(w)
                 job == [work[w] EXCEPT !.pc = "replace", !.new = n, !.left = Scheduled(n)]
      <3>1. work[w] \in Refresh /\ n # 0 /\ Readable(n)
        BY <1>1, <2>6, Stages DEF FetchGuide, At, Serves
      <3>2. n \in Publication
        BY <1>1, <3>1, GuideNumbers DEF Served, TypeOK, Refresh
      <3>3. Scheduled(n) \subseteq GuideId /\ n \in Tag
        BY <3>2, GuideTypes, GuideNumbers
      <3>4. work' = [work EXCEPT ![w] = job]
        BY <2>6 DEF FetchGuide
      <3> HIDE DEF n
      <3>5. job \in Refresh /\ HasGuide(job)
        BY <3>1, <3>2, <3>3 DEF Refresh, HasGuide
      <3> QED
        BY <3>4, <3>5 DEF Works
    <2>7. CASE \E x \in GuideId : DeleteFuture(w, x)
      <3>1. PICK x \in GuideId : DeleteFuture(w, x)
        BY <2>7
      <3> DEFINE gone == {row \in programs : row[1].id = x /\ row[1].start >= now}
                 job == [work[w] EXCEPT !.pc = "insert", !.open = {x}, !.deleted = gone]
      <3>2. work[w] \in Refresh /\ At(w, "replace")
        BY <1>1, <3>1, Stages DEF DeleteFuture, At
      <3>3. gone \in SUBSET Row
        BY <1>1 DEF TypeOK
      <3>4. work' = [work EXCEPT ![w] = job]
        BY <3>1 DEF DeleteFuture
      <3> HIDE DEF gone
      <3>5. job \in Replace
        BY <3>2, <3>3 DEF Refresh, Replace
      <3>6. HasGuide(job)
        BY <1>1, <3>2 DEF HasGuide, At, Refresh
      <3> QED
        BY <3>4, <3>5, <3>6 DEF Works
    <2>8. CASE TurnToLinks(w)
      <3> DEFINE job == [work[w] EXCEPT !.pc = "link", !.left = Guide[work[w].new].names]
      <3>1. work[w] \in Refresh /\ work[w].new \in Publication
        BY <1>1, <2>8, Stages DEF TurnToLinks, At, HasGuide
      <3>2. Guide[work[w].new].names \subseteq GuideId
        BY <3>1, GuideTypes
      <3>3. job \in Refresh /\ HasGuide(job)
        BY <3>1, <3>2 DEF Refresh, HasGuide
      <3> QED
        BY <2>8, <3>3 DEF TurnToLinks, Works
    <2>9. CASE StatementFails(w)
      <3> DEFINE job == [work[w] EXCEPT !.pc = "error", !.left = {}, !.open = {}, !.deleted = {}]
      <3>1. work[w] \in Refresh \/ work[w] \in Replace
        BY <1>1, <2>9, Stages DEF StatementFails
      <3>2. job \in Refresh /\ HasGuide(job)
        BY <3>1 DEF Refresh, Replace, HasGuide
      <3> QED
        BY <2>9, <3>2 DEF StatementFails, Works
    <2> QED
      BY <2>1, <2>2, <2>3, <2>5, <2>6, <2>7, <2>8, <2>9
  <1>4. source' \in SourceRow \cup {Gone}
    <2>1. CASE SaveStatus(w) \/ MarkError(w)
      <3>1. work[w] \in Refresh
        BY <1>1, <2>1, Stages DEF SaveStatus, MarkError, At
      <3>2. work[w].new \in Tag /\ work[w].tag \in Tag
        BY <3>1 DEF Refresh
      <3>3. source \in SourceRow \cup {Gone}
        BY <1>1 DEF TypeOK
      <3>4. \/ source' = source
            \/ source \in SourceRow /\ \E status \in {"ok", "error"}, tag \in Tag :
                 source' = [source EXCEPT !.status = status, !.tag = tag]
        BY <2>1, <3>2, <3>3 DEF SaveStatus, MarkError, MarkStatus
      <3> QED
        BY <3>3, <3>4 DEF SourceRow
    <2>2. CASE ~(SaveStatus(w) \/ MarkError(w))
      <3>1. source' = source
        BY <2>2 DEF BeginScheduled, BeginByAdmin, ReadSource, ReadFails, FetchNotModified,
           FetchGuide, FetchFails, DeleteFuture, TurnToLinks, TurnToPruning, StatementFails,
           tables
      <3> QED
        BY <1>1, <3>1 DEF TypeOK
    <2> QED
      BY <2>1, <2>2
  <1>5. work' \in [Worker -> Works] /\ \A v \in Worker : HasGuide(work'[v])
    BY <1>3, Moves
  <1>6. faults' \in 0 .. MaxFaults
    BY <1>1, <1>2, FaultType
  <1> QED
    BY <1>1, <1>2, <1>4, <1>5, <1>6 DEF TypeInv, TypeOK, upstream, Works

\* A transaction commits: what it adds gets numbers that are free.
LEMMA CommitTypes ==
  ASSUME TypeInv, NEW w \in Worker, CommitReplace(w)
  PROVE  TypeInv'
  <1> DEFINE added == {p \in Lists(work[w].new) : p.id \in work[w].open}
             Fresh(p) == CHOOSE n \in 1 .. Cardinality(Copies(p)) + 1 : <<p, n>> \notin programs
             rows == {<<p, Fresh(p)>> : p \in added}
             job == [work[w] EXCEPT !.pc = "replace", !.left = @ \ work[w].open,
                                    !.open = {}, !.deleted = {}]
  <1>1. /\ TypeOK /\ IsFiniteSet(programs) /\ work[w] \in Replace
        /\ work[w].new \in Publication /\ Readable(work[w].new)
    BY Stages DEF TypeInv, TypeOK, Works, CommitReplace, At, HasGuide
  <1>2. /\ programs' = (programs \ work[w].deleted) \cup rows
        /\ work' = [work EXCEPT ![w] = job]
        /\ UNCHANGED <<source, link, upstream, now, faults>>
    BY DEF CommitReplace
  <1>3. IsFiniteSet(added) /\ added \subseteq Programme
    BY <1>1, GuideTypes, FS_Subset
  <1>4. \A p : Cardinality(Copies(p)) \in Nat
    BY <1>1, FS_Subset, FS_CardinalityType DEF Copies
  <1>5. \A p : Fresh(p) \in Nat \ {0}
    <2> SUFFICES ASSUME NEW p PROVE Fresh(p) \in Nat \ {0}
      OBVIOUS
    <2>1. Fresh(p) \in 1 .. Cardinality(Copies(p)) + 1
      BY <1>1, FreeNumber
    <2> HIDE DEF Fresh
    <2> QED
      BY <1>4, <2>1
  <1> HIDE DEF added, Fresh
  <1>6. IsFiniteSet(rows)
    <2> DEFINE f == [p \in added |-> <<p, Fresh(p)>>]
    <2>1. f \in Surjection(added, rows)
      BY DEF Surjection
    <2> QED
      BY <1>3, <2>1, FS_Surjection
  <1>7. rows \in SUBSET Row
    BY <1>3, <1>5 DEF Row
  <1>8. IsFiniteSet(programs \ work[w].deleted)
    BY <1>1, FS_Subset
  <1> HIDE DEF rows
  <1>9. programs' \in SUBSET Row /\ IsFiniteSet(programs')
    BY <1>1, <1>2, <1>6, <1>7, <1>8, FS_Union DEF TypeOK
  <1>10. job \in Refresh /\ HasGuide(job)
    BY <1>1 DEF Replace, Refresh, HasGuide
  <1> HIDE DEF job
  <1>11. work' \in [Worker -> Works] /\ \A v \in Worker : HasGuide(work'[v])
    BY <1>2, <1>10, Moves DEF Works
  <1> QED
    BY <1>1, <1>2, <1>9, <1>11 DEF TypeInv, TypeOK, upstream, Works

LEMMA LinkTypes ==
  ASSUME TypeInv, NEW w \in Worker, NEW x \in GuideId, AutoLink(w, x)
  PROVE  TypeInv'
  <1> DEFINE job == [work[w] EXCEPT !.left = @ \ {x}]
  <1>1. TypeOK /\ work[w] \in Refresh /\ work[w].pc = "link"
    BY Stages DEF TypeInv, TypeOK, Works, AutoLink, At
  <1>2. job \in Refresh /\ HasGuide(job)
    BY <1>1 DEF Refresh, HasGuide
  <1>3. work' = [work EXCEPT ![w] = job]
    BY DEF AutoLink
  <1>4. work' \in [Worker -> Works] /\ \A v \in Worker : HasGuide(work'[v])
    BY <1>2, <1>3, Moves DEF Works
  <1>5. link' \in [Channel \X GuideId -> {"none", "auto", "manual"}]
    BY <1>1 DEF AutoLink, TypeOK
  <1> QED
    BY <1>1, <1>4, <1>5 DEF AutoLink, TypeInv, TypeOK, upstream, Works

LEMMA PruneTypes ==
  ASSUME TypeInv, NEW w \in Worker, Prune(w)
  PROVE  TypeInv'
  <1> DEFINE job == [work[w] EXCEPT !.pc = "save"]
  <1>1. TypeOK /\ IsFiniteSet(programs) /\ work[w] \in Refresh
    BY Stages DEF TypeInv, TypeOK, Works, Prune, At
  <1>2. job \in Refresh /\ HasGuide(job)
    BY <1>1 DEF Refresh, HasGuide
  <1>3. work' = [work EXCEPT ![w] = job]
    BY DEF Prune, Goto
  <1>4. work' \in [Worker -> Works] /\ \A v \in Worker : HasGuide(work'[v])
    BY <1>2, <1>3, Moves DEF Works
  <1>5. programs' \in SUBSET Row /\ IsFiniteSet(programs')
    BY <1>1, FS_Subset DEF Prune, TypeOK
  <1> QED
    BY <1>1, <1>4, <1>5 DEF Prune, TypeInv, TypeOK, upstream, Works

\* Everything that is not a refresh.
LEMMA AroundTypes ==
  ASSUME TypeInv,
         \/ \E c \in Channel, x \in GuideId : AddEPGKey(c, x) \/ RemoveEPGKey(c, x)
         \/ Tick
         \/ \E u \in Url : Publish(u)
         \/ \E u \in Url, on \in BOOLEAN : EditSource(u, on)
         \/ DeleteSource
         \/ Restart
  PROVE  TypeInv'
  <1> USE DEF TypeInv, TypeOK, tables, upstream
  <1>1. CASE \E c \in Channel, x \in GuideId : AddEPGKey(c, x) \/ RemoveEPGKey(c, x)
    <2>1. link' \in [Channel \X GuideId -> {"none", "auto", "manual"}]
      BY <1>1 DEF AddEPGKey, RemoveEPGKey
    <2> QED
      BY <1>1, <2>1 DEF AddEPGKey, RemoveEPGKey
  <1>2. CASE Tick
    <2>1. now' \in Time
      BY <1>2, XMLTVRefreshAssumption DEF Tick, Time
    <2> QED
      BY <1>2, <2>1 DEF Tick
  <1>3. CASE \E u \in Url : Publish(u)
    <2>1. latest + 1 \in Tag
      BY <1>3, GuideNumbers DEF Publish, Tag
    <2> QED
      BY <1>3, <2>1 DEF Publish
  <1>4. CASE \E u \in Url, on \in BOOLEAN : EditSource(u, on)
    <2>1. source' \in SourceRow
      BY <1>4 DEF EditSource, SourceRow
    <2> QED
      BY <1>4, <2>1, FaultType DEF EditSource
  <1>5. CASE DeleteSource
    BY <1>5, FaultType DEF DeleteSource
  <1>6. CASE Restart
    <2>1. work' \in [Worker -> Works] /\ \A w \in Worker : HasGuide(work'[w])
      BY <1>6 DEF Restart, Works, Idle, HasGuide
    <2> QED
      BY <1>6, <2>1, FaultType DEF Restart, Works
  <1> QED
    BY <1>1, <1>2, <1>3, <1>4, <1>5, <1>6

LEMMA NextTypes == TypeInv /\ [Next]_vars => TypeInv'
  <1> SUFFICES ASSUME TypeInv, [Next]_vars PROVE TypeInv'
    OBVIOUS
  <1>1. CASE UNCHANGED vars
    BY <1>1 DEF vars, TypeInv, TypeOK
  <1>2. ASSUME NEW w \in Worker, Proceed(w) PROVE TypeInv'
    BY <1>2, WorkTypes, CommitTypes, LinkTypes, PruneTypes DEF Proceed
  <1> QED
    BY <1>1, <1>2, WorkTypes, AroundTypes DEF Next

LEMMA TypesHold == Spec => []TypeInv
  BY InitTypes, NextTypes, PTL DEF Spec

\* The source, the programmes, the links and any number of refreshes are well
\* typed; a guide that does not parse is never worked on.
THEOREM XMLTVTypeCorrect == Spec => []TypeOK
  <1>1. TypeInv => TypeOK
    BY DEF TypeInv
  <1> QED
    BY <1>1, TypesHold, PTL

-----------------------------------------------------------------------------
(***************************************************************************)
(* Whatever the number of refreshes and URLs.                              *)
(***************************************************************************)

\* The steps that change the programmes.
LEMMA ProgramsChange ==
  ASSUME [Next]_vars, programs' # programs
  PROVE  \E w \in Worker : CommitReplace(w) \/ Prune(w)
  <1>1. ASSUME NEW w \in Worker, Proceed(w), ~CommitReplace(w), ~Prune(w)
        PROVE  programs' = programs
    BY <1>1 DEF Proceed, ReadSource, ReadFails, FetchNotModified, FetchGuide, FetchFails,
       DeleteFuture, AutoLink, TurnToLinks, TurnToPruning, SaveStatus, MarkError, tables
  <1>2. ASSUME NEW w \in Worker, BeginScheduled(w) \/ BeginByAdmin(w) \/ StatementFails(w)
        PROVE  programs' = programs
    BY <1>2 DEF BeginScheduled, BeginByAdmin, StatementFails, tables
  <1>3. ASSUME \/ \E c \in Channel, x \in GuideId : AddEPGKey(c, x) \/ RemoveEPGKey(c, x)
               \/ Tick
               \/ \E u \in Url : Publish(u)
               \/ \E u \in Url, on \in BOOLEAN : EditSource(u, on)
               \/ DeleteSource
               \/ Restart
        PROVE  programs' = programs
    BY <1>3 DEF AddEPGKey, RemoveEPGKey, Tick, Publish, EditSource, DeleteSource, Restart, tables
  <1> QED
    BY <1>1, <1>2, <1>3 DEF Next, vars

\* OnAirStays for any number of refreshes: only a transaction that deleted a
\* programme before it began can take it from the guide while it is on the air.
THEOREM OnAirStaysAlways == Spec => OnAirStays
  <1> DEFINE Step == \A row \in programs :
               row[1].start < now /\ row[1].stop + PruneAge >= now =>
                 row \in programs' \/ \E w \in Worker : At(w, "insert") /\ row \in work[w].deleted
  <1>1. [Next]_vars => Step
    <2> SUFFICES ASSUME [Next]_vars,
                        NEW row \in programs, row[1].stop + PruneAge >= now,
                        row \notin programs'
                 PROVE  \E w \in Worker : At(w, "insert") /\ row \in work[w].deleted
      OBVIOUS
    <2>1. PICK w \in Worker : CommitReplace(w) \/ Prune(w)
      BY ProgramsChange
    <2>2. CASE CommitReplace(w)
      BY <2>2 DEF CommitReplace
    <2>3. CASE Prune(w)
      BY <2>3 DEF Prune
    <2> QED
      BY <2>1, <2>2, <2>3
  <1> QED
    BY <1>1, PTL DEF Spec, OnAirStays

\* ManualLinksKept for any number of refreshes, channels and ids: only the
\* administrator removes a manual link.
THEOREM ManualLinksKeptAlways == Spec => ManualLinksKept
  <1> DEFINE Step == \A l \in DOMAIN link :
               link[l] = "manual" /\ link'[l] # "manual" => work' = work /\ link'[l] = "none"
  <1>1. TypeInv /\ [Next]_vars => Step
    <2> SUFFICES ASSUME TypeInv, [Next]_vars,
                        NEW l \in DOMAIN link, link[l] = "manual", link'[l] # "manual"
                 PROVE  work' = work /\ link'[l] = "none"
      OBVIOUS
    <2>1. l \in Channel \X GuideId /\ DOMAIN link = Channel \X GuideId
      BY DEF TypeInv, TypeOK
    <2>2. ASSUME NEW w \in Worker, NEW x \in GuideId, AutoLink(w, x)
          PROVE  FALSE
      BY <2>1, <2>2 DEF AutoLink
    <2>3. ASSUME NEW c \in Channel, NEW x \in GuideId, AddEPGKey(c, x) \/ RemoveEPGKey(c, x)
          PROVE  work' = work /\ link'[l] = "none"
      BY <2>1, <2>3 DEF AddEPGKey, RemoveEPGKey, TypeInv, TypeOK
    <2>4. ASSUME NEW w \in Worker, Proceed(w), \A x \in GuideId : ~AutoLink(w, x)
          PROVE  link' = link
      BY <2>4 DEF Proceed, ReadSource, ReadFails, FetchNotModified, FetchGuide, FetchFails,
         DeleteFuture, CommitReplace, TurnToLinks, TurnToPruning, Prune, SaveStatus, MarkError,
         tables
    <2>5. ASSUME NEW w \in Worker, BeginScheduled(w) \/ BeginByAdmin(w) \/ StatementFails(w)
          PROVE  link' = link
      BY <2>5 DEF BeginScheduled, BeginByAdmin, StatementFails, tables
    <2>6. ASSUME \/ Tick
                 \/ \E u \in Url : Publish(u)
                 \/ \E u \in Url, on \in BOOLEAN : EditSource(u, on)
                 \/ DeleteSource
                 \/ Restart
          PROVE  link' = link
      BY <2>6 DEF Tick, Publish, EditSource, DeleteSource, Restart, tables
    <2> QED
      BY <2>2, <2>3, <2>4, <2>5, <2>6 DEF Next, vars
  <1> QED
    BY <1>1, TypesHold, PTL DEF Spec, ManualLinksKept

-----------------------------------------------------------------------------
(***************************************************************************)
(* One refresh at a time: the future is listed once.                       *)
(***************************************************************************)

Alone == \A v, w \in Worker : v = w

\* Two copies of a programme that has yet to start are one.
FutureOnce ==
  \A r, s \in programs : r[1] = s[1] /\ r[1].start >= now => r = s

\* An open transaction has deleted all there is of the future of its id,
\* although it did so some time ago.
DeletesFuture(w) ==
  At(w, "insert") =>
    /\ \A row \in work[w].deleted : row[1].id \in work[w].open
    /\ \A row \in programs :
         row[1].id \in work[w].open /\ row[1].start >= now => row \in work[w].deleted

OnceInv == TypeInv /\ FutureOnce /\ \A w \in Worker : DeletesFuture(w)

LEMMA FutureOnceListed == TypeInv /\ FutureOnce => FutureListedOnce
  <1> SUFFICES ASSUME TypeInv, FutureOnce, NEW p \in Programme, p.start >= now
               PROVE  Cardinality(Copies(p)) <= 1
    BY DEF FutureListedOnce
  <1>1. IsFiniteSet(Copies(p))
    BY FS_Subset DEF TypeInv, Copies
  <1>2. \A r, s \in Copies(p) : r = s
    BY DEF FutureOnce, Copies
  <1>3. Copies(p) = {} \/ \E r : Copies(p) = {r}
    BY <1>2
  <1>4. Cardinality(Copies(p)) = 0 \/ Cardinality(Copies(p)) = 1
    BY <1>1, <1>3, FS_EmptySet, FS_Singleton
  <1> QED
    BY <1>4

\* What a commit makes of the future: for the id that it replaces it is what
\* the guide says, and for the others it is as it was.
LEMMA CommitFuture ==
  ASSUME OnceInv, NEW w \in Worker, CommitReplace(w), NEW p \in Programme, p.start >= now
  PROVE  /\ p.id \notin work[w].open => Copies(p)' = Copies(p)
         /\ p.id \in work[w].open =>
              /\ Copies(p)' # {} <=> p \in Lists(work[w].new)
              /\ \A r, s \in Copies(p)' : r = s
  <1> DEFINE added == {q \in Lists(work[w].new) : q.id \in work[w].open}
             Fresh(q) == CHOOSE n \in 1 .. Cardinality(Copies(q)) + 1 : <<q, n>> \notin programs
  <1>1. programs' = (programs \ work[w].deleted) \cup {<<q, Fresh(q)>> : q \in added}
    BY DEF CommitReplace
  <1>2. DeletesFuture(w) /\ At(w, "insert")
    BY DEF OnceInv, CommitReplace
  <1> HIDE DEF Fresh
  <1>3. CASE p.id \notin work[w].open
    <2>1. \A row : row[1] = p => (row \in programs' <=> row \in programs)
      BY <1>1, <1>2, <1>3 DEF DeletesFuture
    <2> QED
      BY <1>3, <2>1 DEF Copies
  <1>4. CASE p.id \in work[w].open
    <2>1. \A row : row \in programs' /\ row[1] = p
                     <=> row = <<p, Fresh(p)>> /\ p \in Lists(work[w].new)
      BY <1>1, <1>2, <1>4 DEF DeletesFuture
    <2>2. Copies(p)' = IF p \in Lists(work[w].new) THEN {<<p, Fresh(p)>>} ELSE {}
      BY <2>1 DEF Copies
    <2> QED
      BY <1>4, <2>2
  <1> QED
    BY <1>3, <1>4

\* Steps that leave the programmes and the clock alone.
LEMMA OnceStays ==
  ASSUME OnceInv, TypeInv', UNCHANGED <<programs, now>>,
         \A w \in Worker : work'[w].pc = "insert" =>
           work[w].pc = "insert" /\ work'[w] = work[w]
  PROVE  OnceInv'
  BY DEF OnceInv, FutureOnce, DeletesFuture, At

LEMMA OnceDelete ==
  ASSUME Alone, OnceInv, TypeInv', NEW w \in Worker, NEW x \in GuideId, DeleteFuture(w, x)
  PROVE  OnceInv'
  <1>1. UNCHANGED <<programs, now>>
    BY DEF DeleteFuture, tables
  <1>2. /\ work'[w].open = {x}
        /\ work'[w].deleted = {row \in programs : row[1].id = x /\ row[1].start >= now}
    <2> DEFINE gone == {row \in programs : row[1].id = x /\ row[1].start >= now}
    <2>1. work[w] \in Refresh /\ w \in DOMAIN work
      BY Stages DEF OnceInv, TypeInv, TypeOK, Works, DeleteFuture, At
    <2>2. work' = [work EXCEPT ![w] =
            [work[w] EXCEPT !.pc = "insert", !.open = {x}, !.deleted = gone]]
      BY DEF DeleteFuture
    <2> HIDE DEF gone
    <2>3. work'[w].open = {x} /\ work'[w].deleted = gone
      BY <2>1, <2>2 DEF Refresh
    <2> QED
      BY <2>3 DEF gone
  <1>3. DeletesFuture(w)'
    BY <1>1, <1>2 DEF DeletesFuture
  <1> QED
    BY <1>1, <1>3 DEF Alone, OnceInv, FutureOnce

LEMMA OnceCommit ==
  ASSUME Alone, OnceInv, TypeInv', NEW w \in Worker, CommitReplace(w)
  PROVE  OnceInv'
  <1>1. now' = now /\ work'[w].pc = "replace"
    BY Stages DEF OnceInv, TypeInv, TypeOK, Works, CommitReplace, At, Replace
  <1>2. \A v \in Worker : DeletesFuture(v)'
    BY <1>1 DEF Alone, DeletesFuture, At
  <1>3. FutureOnce'
    <2> SUFFICES ASSUME NEW r \in programs', NEW s \in programs', r[1] = s[1], r[1].start >= now
                 PROVE  r = s
      BY <1>1 DEF FutureOnce
    <2> DEFINE p == r[1]
    <2>1. p \in Programme /\ r \in Copies(p)' /\ s \in Copies(p)'
      BY DEF TypeInv, TypeOK, Row, Copies
    <2>2. \A a, b \in Copies(p) : a = b
      BY DEF OnceInv, FutureOnce, Copies
    <2> QED
      BY <2>1, <2>2, CommitFuture
  <1> QED
    BY <1>2, <1>3 DEF OnceInv

\* Fewer programmes, or a later time.
LEMMA OnceLess ==
  ASSUME OnceInv, TypeInv', programs' \subseteq programs, now <= now',
         \A w \in Worker : work'[w].pc = "insert" =>
           work[w].pc = "insert" /\ work'[w] = work[w]
  PROVE  OnceInv'
  <1>1. now \in Int /\ now' \in Int /\ \A row \in programs : row[1].start \in Int
    <2>1. \A row \in programs : row[1] \in Programme
      BY DEF OnceInv, TypeInv, TypeOK, Row
    <2> QED
      BY <2>1, ProgrammeTypes DEF OnceInv, TypeInv, TypeOK, Time
  <1>2. \A row \in programs' : row \in programs /\ (row[1].start >= now' => row[1].start >= now)
    BY <1>1
  <1>3. FutureOnce'
    BY <1>2 DEF OnceInv, FutureOnce
  <1>4. ASSUME NEW w \in Worker PROVE DeletesFuture(w)'
    BY <1>2 DEF OnceInv, DeletesFuture, At
  <1> QED
    BY <1>3, <1>4 DEF OnceInv

\* Where a refresh is after a step of its own.
LEMMA NotInserting ==
  ASSUME TypeInv, NEW w \in Worker,
         \/ BeginScheduled(w) \/ BeginByAdmin(w) \/ ReadSource(w) \/ ReadFails(w)
         \/ FetchNotModified(w) \/ FetchGuide(w) \/ FetchFails(w)
         \/ (\E x \in GuideId : AutoLink(w, x))
         \/ TurnToLinks(w) \/ TurnToPruning(w) \/ Prune(w) \/ StatementFails(w)
         \/ SaveStatus(w) \/ MarkError(w)
  PROVE  /\ work'[w].pc # "insert"
         /\ \A v \in Worker \ {w} : work'[v] = work[v]
  BY Stages DEF TypeInv, TypeOK, Works, Refresh, Replace, Idle, Listed, At, Goto, Finish,
     BeginScheduled, BeginByAdmin, ReadSource, ReadFails, FetchNotModified, FetchGuide,
     FetchFails, AutoLink, TurnToLinks, TurnToPruning, Prune, StatementFails, SaveStatus,
     MarkError

LEMMA NextOnce == Alone /\ OnceInv /\ [Next]_vars => OnceInv'
  <1> SUFFICES ASSUME Alone, OnceInv, [Next]_vars PROVE OnceInv'
    OBVIOUS
  <1>1. TypeInv' /\ TypeInv
    BY NextTypes DEF OnceInv
  <1>2. CASE UNCHANGED vars
    BY <1>1, <1>2, OnceStays DEF vars
  <1>3. ASSUME NEW w \in Worker,
               \/ BeginScheduled(w) \/ BeginByAdmin(w) \/ ReadSource(w) \/ ReadFails(w)
               \/ FetchNotModified(w) \/ FetchGuide(w) \/ FetchFails(w)
               \/ (\E x \in GuideId : AutoLink(w, x))
               \/ TurnToLinks(w) \/ TurnToPruning(w) \/ StatementFails(w)
               \/ SaveStatus(w) \/ MarkError(w)
        PROVE  OnceInv'
    <2>1. UNCHANGED <<programs, now>>
      BY <1>3 DEF BeginScheduled, BeginByAdmin, ReadSource, ReadFails, FetchNotModified,
         FetchGuide, FetchFails, AutoLink, TurnToLinks, TurnToPruning, StatementFails,
         SaveStatus, MarkError, tables
    <2>2. work'[w].pc # "insert" /\ \A v \in Worker \ {w} : work'[v] = work[v]
      BY <1>1, <1>3, NotInserting
    <2> QED
      BY <1>1, <2>1, <2>2, OnceStays
  <1>4. ASSUME NEW w \in Worker, Prune(w) PROVE OnceInv'
    <2>1. programs' \subseteq programs /\ now' = now /\ now \in Int
      BY <1>1, <1>4 DEF Prune, TypeInv, TypeOK, Time
    <2>2. work'[w].pc # "insert" /\ \A v \in Worker \ {w} : work'[v] = work[v]
      BY <1>1, <1>4, NotInserting
    <2> QED
      BY <1>1, <2>1, <2>2, OnceLess
  <1>5. CASE Tick
    <2>1. programs' = programs /\ work' = work /\ now <= now'
      BY <1>1, <1>5 DEF Tick, tables, TypeInv, TypeOK, Time
    <2> QED
      BY <1>1, <2>1, OnceLess
  <1>6. ASSUME \/ \E c \in Channel, x \in GuideId : AddEPGKey(c, x) \/ RemoveEPGKey(c, x)
               \/ \E u \in Url : Publish(u)
               \/ \E u \in Url, on \in BOOLEAN : EditSource(u, on)
               \/ DeleteSource
        PROVE  OnceInv'
    <2>1. UNCHANGED <<programs, now, work>>
      BY <1>6 DEF AddEPGKey, RemoveEPGKey, Publish, EditSource, DeleteSource, tables
    <2> QED
      BY <1>1, <2>1, OnceStays
  <1>7. CASE Restart
    <2>1. UNCHANGED <<programs, now>> /\ \A w \in Worker : work'[w].pc = "idle"
      BY <1>7 DEF Restart, Idle, tables
    <2> QED
      BY <1>1, <2>1, OnceStays
  <1>8. ASSUME NEW w \in Worker, Proceed(w) PROVE OnceInv'
    BY <1>1, <1>3, <1>4, <1>8, OnceDelete, OnceCommit DEF Proceed
  <1> QED
    BY <1>2, <1>3, <1>5, <1>6, <1>7, <1>8 DEF Next

LEMMA InitOnce == Init => OnceInv
  <1> SUFFICES ASSUME Init PROVE OnceInv
    OBVIOUS
  <1>1. programs = {} /\ \A w \in Worker : work[w].pc = "idle"
    BY DEF Init, Idle
  <1> QED
    BY <1>1, InitTypes DEF OnceInv, FutureOnce, DeletesFuture, At

\* FutureListedOnce for guides of any size: with one refresh at a time no
\* programme that has yet to start is in the guide twice, whatever fails and
\* however much time passes between the DELETE and the commit.
THEOREM FutureListedOnceAlone ==
  ASSUME Alone
  PROVE  Spec => []FutureListedOnce
  <1>1. Spec => []OnceInv
    BY InitOnce, NextOnce, PTL DEF Spec
  <1>2. OnceInv => FutureListedOnce
    BY FutureOnceListed DEF OnceInv
  <1> QED
    BY <1>1, <1>2, PTL

-----------------------------------------------------------------------------
(***************************************************************************)
(* One refresh at a time and one URL: a saved validator is earned.         *)
(***************************************************************************)

OneUrl == \A t, u \in Url : t = u

\* The programmes that FutureStored speaks of.
ToCome(p) == p.start >= now /\ p.stop > p.start

\* The future of one id is what publication n says.
AgreesOn(n, x) ==
  \A p \in Programme : p.id = x /\ ToCome(p) => (Copies(p) # {} <=> p \in Lists(n))

\* A refresh holds the validator that is saved, the guide it applies is newer
\* than that, and the ids it has replaced agree with it.
HoldsSavedTag(w) ==
  work[w].pc \notin {"idle", "read"} =>
    work[w].tag <= latest /\ (source # Gone => work[w].tag = source.tag)

HasReadOnly(w) == At(w, "fetch") => work[w].new = work[w].tag

AppliesNewer(w) ==
  work[w].pc \in {"replace", "insert", "link", "prune"} =>
    work[w].tag < work[w].new /\ work[w].new <= latest

HasReplaced(w) ==
  work[w].pc \in {"replace", "insert"} =>
    \A x \in Scheduled(work[w].new) \ work[w].left : AgreesOn(work[w].new, x)

HasApplied(w) ==
  work[w].pc \in {"link", "prune"} => FutureStored(work[w].new)

MaySave(w) ==
  At(w, "save") => \/ work[w].new = work[w].tag
                   \/ work[w].new <= latest /\ FutureAgrees(work[w].new)

RefreshInv(w) ==
  /\ HoldsSavedTag(w) /\ HasReadOnly(w) /\ AppliesNewer(w)
  /\ HasReplaced(w) /\ HasApplied(w) /\ MaySave(w)

ServesLatest == \A u \in Url : published[u] = latest

SavedInv ==
  source # Gone =>
    source.tag <= latest /\ (source.tag # 0 /\ source.tag = latest => FutureAgrees(source.tag))

EarnedInv == OnceInv /\ ServesLatest /\ SavedInv /\ \A w \in Worker : RefreshInv(w)

LEMMA AgreesById ==
  ASSUME NEW n \in Publication
  PROVE  FutureStored(n) <=> \A x \in Scheduled(n) : AgreesOn(n, x)
  BY DEF FutureStored, AgreesOn, ToCome

\* What agrees goes on to agree as long as the programmes to come do not change.
LEMMA AgreesOnLasts ==
  ASSUME \A p \in Programme : ToCome(p)' => ToCome(p) /\ (Copies(p)' # {} <=> Copies(p) # {})
  PROVE  /\ \A n \in Publication, x \in GuideId : AgreesOn(n, x) => AgreesOn(n, x)'
         /\ \A n \in Publication : FutureStored(n) => FutureStored(n)'
  BY DEF AgreesOn, FutureStored, ToCome

LEMMA EarnedBySaved == TypeOK /\ ServesLatest /\ SavedInv => TagIsEarned
  BY DEF TypeOK, SourceRow, ServesLatest, SavedInv, TagIsEarned

LEMMA InitEarned == Init => EarnedInv
  <1> SUFFICES ASSUME Init PROVE EarnedInv
    OBVIOUS
  <1>1. /\ source.tag = 0 /\ latest = 0 /\ ServesLatest
        /\ \A w \in Worker : work[w].pc = "idle"
    BY DEF Init, Idle, ServesLatest
  <1>2. SavedInv
    BY <1>1 DEF SavedInv
  <1>3. \A w \in Worker : RefreshInv(w)
    BY <1>1 DEF RefreshInv, HoldsSavedTag, HasReadOnly, AppliesNewer, HasReplaced, HasApplied,
       MaySave, At
  <1> QED
    BY <1>1, <1>2, <1>3, InitOnce DEF EarnedInv

\* A refresh that is idle or has yet to read owes nothing.
LEMMA OwesNothing ==
  ASSUME NEW w \in Worker, work'[w].pc \in {"idle", "read"}
  PROVE  RefreshInv(w)'
  BY DEF RefreshInv, HoldsSavedTag, HasReadOnly, AppliesNewer, HasReplaced, HasApplied, MaySave,
     At

\* Steps that leave the source, the upstream, the programmes and the clock.
LEMMA SavedStays ==
  ASSUME EarnedInv, UNCHANGED <<source, published, latest, programs, now>>
  PROVE  ServesLatest' /\ SavedInv'
  <1>1. SavedInv'
    BY DEF EarnedInv, SavedInv, FutureAgrees, FutureStored, StopsKnown,
       Copies
  <1> QED
    BY <1>1 DEF EarnedInv, ServesLatest

LEMMA EarnedWaits ==
  ASSUME Alone, EarnedInv, OnceInv', NEW w \in Worker,
         BeginScheduled(w) \/ BeginByAdmin(w) \/ ReadFails(w)
  PROVE  EarnedInv'
  <1>1. UNCHANGED <<source, published, latest, programs, now>>
    BY DEF BeginScheduled, BeginByAdmin, ReadFails, tables, upstream
  <1>2. work'[w].pc \in {"idle", "read"}
    BY DEF BeginScheduled, BeginByAdmin, ReadFails, Finish, Idle, Listed, EarnedInv, OnceInv,
       TypeInv, TypeOK
  <1>3. ServesLatest' /\ SavedInv' /\ RefreshInv(w)'
    BY <1>1, <1>2, SavedStays, OwesNothing
  <1> QED
    BY <1>3 DEF Alone, EarnedInv

LEMMA EarnedRead ==
  ASSUME Alone, EarnedInv, OnceInv', NEW w \in Worker, ReadSource(w)
  PROVE  EarnedInv'
  <1>1. UNCHANGED <<source, published, latest, programs, now>>
    BY DEF ReadSource, tables, upstream
  <1>2. /\ work'[w].pc = "fetch" /\ work'[w].tag = source.tag /\ work'[w].new = source.tag
        /\ source # Gone
    BY DEF ReadSource, EarnedInv, OnceInv, TypeInv, TypeOK
  <1>3. source.tag <= latest
    BY <1>2 DEF EarnedInv, SavedInv
  <1>4. RefreshInv(w)'
    BY <1>1, <1>2, <1>3 DEF RefreshInv, HoldsSavedTag, HasReadOnly, AppliesNewer, HasReplaced,
       HasApplied, MaySave, At
  <1>5. ServesLatest' /\ SavedInv'
    BY <1>1, SavedStays
  <1> QED
    BY <1>4, <1>5 DEF Alone, EarnedInv

\* Where a step leads that only moves on, or gives up.
LEMMA MovesOn ==
  ASSUME TypeInv, NEW w \in Worker, work[w] \in Refresh \cup Replace,
         NEW pc \in {"save", "error", "prune", "link"},
         \/ Goto(w, pc)
         \/ work' = [work EXCEPT ![w].pc = pc, ![w].left = {}, ![w].open = {}, ![w].deleted = {}]
         \/ work' = [work EXCEPT ![w].pc = pc, ![w].left = Guide[work[w].new].names]
  PROVE  /\ work'[w].pc = pc
         /\ work'[w].tag = work[w].tag /\ work'[w].new = work[w].new
  <1>1. w \in DOMAIN work
    BY DEF TypeInv, TypeOK
  <1>2. CASE Goto(w, pc)
    <2>1. work'[w] = [work[w] EXCEPT !.pc = pc]
      BY <1>1, <1>2 DEF Goto
    <2> QED
      BY <2>1 DEF Refresh, Replace
  <1>3. CASE work' = [work EXCEPT ![w].pc = pc, ![w].left = {}, ![w].open = {},
                                  ![w].deleted = {}]
    <2>1. work'[w] = [work[w] EXCEPT !.pc = pc, !.left = {}, !.open = {}, !.deleted = {}]
      BY <1>1, <1>3
    <2> QED
      BY <2>1 DEF Refresh, Replace
  <1>4. CASE work' = [work EXCEPT ![w].pc = pc, ![w].left = Guide[work[w].new].names]
    <2>1. work'[w] = [work[w] EXCEPT !.pc = pc, !.left = Guide[work[w].new].names]
      BY <1>1, <1>4
    <2> QED
      BY <2>1 DEF Refresh, Replace
  <1> QED
    BY <1>2, <1>3, <1>4

\* A 304 and a failure go on to save the validator that is saved.
LEMMA EarnedAsBefore ==
  ASSUME Alone, EarnedInv, OnceInv', NEW w \in Worker,
         FetchNotModified(w) \/ FetchFails(w) \/ StatementFails(w)
  PROVE  EarnedInv'
  <1>1. UNCHANGED <<source, published, latest, programs, now>>
    BY DEF FetchNotModified, FetchFails, StatementFails, tables, upstream
  <1>2. TypeInv /\ RefreshInv(w) /\ work[w] \in Works
    BY DEF EarnedInv, OnceInv, TypeInv, TypeOK, Works
  <1>3. work[w] \in Refresh \cup Replace /\ work[w].pc \notin {"idle", "read"}
    BY <1>2, Stages DEF FetchNotModified, FetchFails, StatementFails, At
  <1>4. /\ work'[w].tag = work[w].tag /\ work'[w].new = work[w].new
        /\ \/ work'[w].pc = "error"
           \/ work'[w].pc = "save" /\ work[w].new = work[w].tag
    <2>1. CASE FetchNotModified(w)
      <3>1. Goto(w, "save") /\ work[w].new = work[w].tag
        BY <1>2, <2>1 DEF FetchNotModified, RefreshInv, HasReadOnly
      <3> QED
        BY <1>2, <1>3, <3>1, MovesOn
    <2>2. CASE FetchFails(w)
      <3>1. Goto(w, "error")
        BY <2>2 DEF FetchFails
      <3> QED
        BY <1>2, <1>3, <3>1, MovesOn
    <2>3. CASE StatementFails(w)
      <3>1. work' = [work EXCEPT ![w].pc = "error", ![w].left = {}, ![w].open = {},
                                 ![w].deleted = {}]
        BY <2>3 DEF StatementFails
      <3> QED
        BY <1>2, <1>3, <3>1, MovesOn
    <2> QED
      BY <2>1, <2>2, <2>3
  <1>5. RefreshInv(w)'
    BY <1>1, <1>2, <1>3, <1>4 DEF RefreshInv, HoldsSavedTag, HasReadOnly, AppliesNewer,
       HasReplaced, HasApplied, MaySave, At
  <1>6. ServesLatest' /\ SavedInv'
    BY <1>1, SavedStays
  <1> QED
    BY <1>5, <1>6 DEF Alone, EarnedInv

\* A guide is fetched whose number is the latest.
LEMMA EarnedFetch ==
  ASSUME Alone, EarnedInv, OnceInv', NEW w \in Worker, FetchGuide(w)
  PROVE  EarnedInv'
  <1>1. UNCHANGED <<source, published, latest, programs, now>>
    BY DEF FetchGuide, tables, upstream
  <1>2. TypeInv /\ work[w] \in Refresh /\ RefreshInv(w)
    BY Stages DEF EarnedInv, OnceInv, TypeInv, TypeOK, Works, FetchGuide, At
  <1>3. Served(w) = latest /\ latest \in Publication
    <2>1. Served(w) = latest /\ latest \in Tag
      BY <1>2 DEF Refresh, Served, EarnedInv, ServesLatest, TypeInv, TypeOK
    <2> QED
      BY <2>1, GuideNumbers DEF FetchGuide, Serves
  <1>4. work[w].tag < latest
    <2>1. work[w].tag <= latest /\ work[w].tag # latest
      BY <1>2, <1>3 DEF FetchGuide, RefreshInv, HoldsSavedTag, At
    <2> QED
      BY <1>2, <1>3, <2>1, GuideNumbers DEF Refresh
  <1>5. /\ work'[w].pc = "replace" /\ work'[w].tag = work[w].tag /\ work'[w].new = latest
        /\ work'[w].left = Scheduled(latest)
    <2>1. work'[w] = [work[w] EXCEPT !.pc = "replace", !.new = latest, !.left = Scheduled(latest)]
      BY <1>2, <1>3 DEF FetchGuide, TypeInv, TypeOK
    <2> QED
      BY <1>2, <2>1 DEF Refresh
  <1>6. HoldsSavedTag(w)'
    BY <1>1, <1>2, <1>5 DEF FetchGuide, At, RefreshInv, HoldsSavedTag
  <1>7. AppliesNewer(w)'
    BY <1>1, <1>3, <1>4, <1>5, GuideNumbers DEF AppliesNewer
  <1>8. HasReadOnly(w)' /\ HasReplaced(w)' /\ HasApplied(w)' /\ MaySave(w)'
    <2>1. Scheduled(work'[w].new) \ work'[w].left = {}
      BY <1>5
    <2> QED
      BY <1>5, <2>1 DEF HasReadOnly, HasReplaced, HasApplied, MaySave, At, Scheduled
  <1>9. ServesLatest' /\ SavedInv'
    BY <1>1, SavedStays
  <1> QED
    BY <1>6, <1>7, <1>8, <1>9 DEF Alone, EarnedInv, RefreshInv

\* The transaction has yet to commit.
LEMMA EarnedDelete ==
  ASSUME Alone, EarnedInv, OnceInv', NEW w \in Worker, NEW x \in GuideId, DeleteFuture(w, x)
  PROVE  EarnedInv'
  <1>1. UNCHANGED <<source, published, latest, programs, now>>
    BY DEF DeleteFuture, tables, upstream
  <1>2. TypeInv /\ work[w] \in Refresh /\ RefreshInv(w) /\ work[w].pc = "replace"
    BY Stages DEF EarnedInv, OnceInv, TypeInv, TypeOK, Works, DeleteFuture, At
  <1>3. /\ work'[w].pc = "insert" /\ work'[w].tag = work[w].tag /\ work'[w].new = work[w].new
        /\ work'[w].left = work[w].left
    <2> DEFINE gone == {row \in programs : row[1].id = x /\ row[1].start >= now}
    <2>1. work'[w] = [work[w] EXCEPT !.pc = "insert", !.open = {x}, !.deleted = gone]
      BY <1>2 DEF DeleteFuture, TypeInv, TypeOK
    <2> HIDE DEF gone
    <2> QED
      BY <1>2, <2>1 DEF Refresh
  <1>4. HasReplaced(w)'
    BY <1>1, <1>2, <1>3 DEF RefreshInv, HasReplaced, AgreesOn, ToCome, Copies
  <1>5. RefreshInv(w)'
    BY <1>1, <1>2, <1>3, <1>4 DEF RefreshInv, HoldsSavedTag, HasReadOnly, AppliesNewer,
       HasApplied, MaySave, At
  <1>6. ServesLatest' /\ SavedInv'
    BY <1>1, SavedStays
  <1> QED
    BY <1>5, <1>6 DEF Alone, EarnedInv

\* A refresh that applies a guide knows that the saved validator is older.
LEMMA SavedIsOlder ==
  ASSUME EarnedInv, NEW w \in Worker,
         work[w].pc \in {"replace", "insert", "link", "prune"}
  PROVE  source # Gone => source.tag < latest
  <1>1. work[w] \in Refresh \cup Replace /\ latest \in Tag /\ RefreshInv(w)
    BY Stages DEF EarnedInv, OnceInv, TypeInv, TypeOK, Works
  <1>2. work[w].tag \in Nat /\ work[w].new \in Nat /\ latest \in Nat
    BY <1>1, GuideNumbers DEF Refresh, Replace
  <1>3. /\ work[w].tag < work[w].new /\ work[w].new <= latest
        /\ source # Gone => work[w].tag = source.tag
    BY <1>1 DEF RefreshInv, AppliesNewer, HoldsSavedTag
  <1> QED
    BY <1>2, <1>3

\* The id that was open now agrees with the guide, and the others as before.
LEMMA EarnedCommit ==
  ASSUME Alone, EarnedInv, OnceInv', NEW w \in Worker, CommitReplace(w)
  PROVE  EarnedInv'
  <1>1. UNCHANGED <<source, published, latest, now>>
    BY DEF CommitReplace, upstream
  <1>2. /\ OnceInv /\ TypeInv /\ work[w] \in Replace /\ RefreshInv(w) /\ work[w].pc = "insert"
        /\ work[w].new \in Publication
    BY Stages DEF EarnedInv, OnceInv, TypeInv, TypeOK, Works, CommitReplace, At, HasGuide
  <1>3. /\ work'[w].pc = "replace" /\ work'[w].tag = work[w].tag /\ work'[w].new = work[w].new
        /\ work'[w].left = work[w].left \ work[w].open
    <2>1. work'[w] = [work[w] EXCEPT !.pc = "replace", !.left = @ \ work[w].open,
                                     !.open = {}, !.deleted = {}]
      BY <1>2 DEF CommitReplace, TypeInv, TypeOK
    <2> QED
      BY <1>2, <2>1 DEF Replace
  <1>4. HasReplaced(w)'
    <2> SUFFICES ASSUME NEW x \in Scheduled(work[w].new), x \notin work[w].left \ work[w].open,
                        NEW p \in Programme, p.id = x, p.start >= now, p.stop > p.start
                 PROVE  Copies(p)' # {} <=> p \in Lists(work[w].new)
      BY <1>1, <1>3 DEF HasReplaced, AgreesOn, ToCome, Scheduled, Lists, Programme
    <2>1. CASE x \in work[w].open
      BY <1>2, <2>1, CommitFuture
    <2>2. CASE x \notin work[w].open
      <3>1. AgreesOn(work[w].new, x)
        BY <1>2, <2>2 DEF RefreshInv, HasReplaced
      <3>2. Copies(p)' = Copies(p)
        BY <1>2, <2>2, CommitFuture
      <3> QED
        BY <3>1, <3>2 DEF AgreesOn, ToCome
    <2> QED
      BY <2>1, <2>2
  <1>5. RefreshInv(w)'
    BY <1>1, <1>2, <1>3, <1>4 DEF RefreshInv, HoldsSavedTag, HasReadOnly, AppliesNewer,
       HasApplied, MaySave, At
  <1>6. ServesLatest' /\ SavedInv'
    <2>1. source # Gone => source.tag \in Nat /\ latest \in Nat
      BY <1>2, GuideNumbers DEF TypeInv, TypeOK, SourceRow
    <2>2. source # Gone => source.tag < latest
      BY <1>2, SavedIsOlder
    <2> QED
      BY <1>1, <2>1, <2>2 DEF EarnedInv, SavedInv, ServesLatest
  <1> QED
    BY <1>5, <1>6 DEF Alone, EarnedInv

\* Every id is replaced, so the whole future is what the guide says.
LEMMA EarnedLinks ==
  ASSUME Alone, EarnedInv, OnceInv', NEW w \in Worker,
         TurnToLinks(w) \/ (\E x \in GuideId : AutoLink(w, x)) \/ TurnToPruning(w)
  PROVE  EarnedInv'
  <1>1. UNCHANGED <<source, published, latest, programs, now>>
    BY DEF TurnToLinks, AutoLink, TurnToPruning, tables, upstream
  <1>2. /\ TypeInv /\ work[w] \in Refresh /\ RefreshInv(w)
        /\ \/ work[w].pc = "replace" /\ work[w].left = {}
           \/ work[w].pc = "link"
    BY Stages
    DEF EarnedInv, OnceInv, TypeInv, TypeOK, Works, TurnToLinks, AutoLink, TurnToPruning, At
  <1>3. /\ work'[w].pc \in {"link", "prune"}
        /\ work'[w].tag = work[w].tag /\ work'[w].new = work[w].new
    <2>1. CASE TurnToLinks(w)
      <3>1. work' = [work EXCEPT ![w].pc = "link", ![w].left = Guide[work[w].new].names]
        BY <2>1 DEF TurnToLinks
      <3> QED
        BY <1>2, <3>1, MovesOn
    <2>2. CASE TurnToPruning(w)
      <3>1. Goto(w, "prune")
        BY <2>2 DEF TurnToPruning
      <3> QED
        BY <1>2, <3>1, MovesOn
    <2>3. CASE \E x \in GuideId : AutoLink(w, x)
      <3>1. PICK x \in GuideId : AutoLink(w, x)
        BY <2>3
      <3>2. work'[w] = [work[w] EXCEPT !.left = @ \ {x}] /\ work[w].pc = "link"
        BY <1>2, <3>1 DEF AutoLink, At, TypeInv, TypeOK
      <3> QED
        BY <1>2, <3>2 DEF Refresh
    <2> QED
      BY <2>1, <2>2, <2>3
  <1>4. FutureStored(work[w].new)
    <2>1. CASE work[w].pc = "replace"
      <3>1. work[w].new \in Publication /\ \A x \in Scheduled(work[w].new) : AgreesOn(work[w].new, x)
        BY <1>2, <2>1 DEF TypeInv, HasGuide, RefreshInv, HasReplaced
      <3> QED
        BY <3>1, AgreesById
    <2>2. CASE work[w].pc = "link"
      BY <1>2, <2>2 DEF RefreshInv, HasApplied
    <2> QED
      BY <1>2, <2>1, <2>2
  <1>5. HasApplied(w)'
    BY <1>1, <1>3, <1>4 DEF HasApplied, FutureStored, Copies
  <1>6. RefreshInv(w)'
    BY <1>1, <1>2, <1>3, <1>5 DEF RefreshInv, HoldsSavedTag, HasReadOnly, AppliesNewer,
       HasReplaced, MaySave, At
  <1>7. ServesLatest' /\ SavedInv'
    BY <1>1, SavedStays
  <1> QED
    BY <1>6, <1>7 DEF Alone, EarnedInv

\* The pruning leaves what is to come and has a stop after its start, and
\* nothing that has no stop.
LEMMA EarnedPrune ==
  ASSUME Alone, EarnedInv, OnceInv', NEW w \in Worker, Prune(w)
  PROVE  EarnedInv'
  <1>1. UNCHANGED <<source, published, latest, now>>
    BY DEF Prune, upstream
  <1>2. /\ TypeInv /\ work[w] \in Refresh /\ RefreshInv(w) /\ work[w].pc = "prune"
    BY Stages DEF EarnedInv, OnceInv, TypeInv, TypeOK, Works, Prune, At
  <1>3. /\ work'[w].pc = "save" /\ work'[w].tag = work[w].tag /\ work'[w].new = work[w].new
    <2>1. Goto(w, "save")
      BY DEF Prune
    <2> QED
      BY <1>2, <2>1, MovesOn
  <1>4. work[w].new \in Publication
    <2>1. work[w].tag \in Tag /\ work[w].new \in Tag /\ work[w].tag < work[w].new
      BY <1>2 DEF Refresh, RefreshInv, AppliesNewer
    <2> QED
      BY <2>1, GuideNumbers, XMLTVRefreshAssumption DEF Tag
  <1>5. FutureAgrees(work[w].new)'
    <2>1. ASSUME NEW p \in Programme, ToCome(p)'
          PROVE  ToCome(p) /\ (Copies(p)' # {} <=> Copies(p) # {})
      <3>1. ToCome(p)
        BY <1>1, <2>1 DEF ToCome
      <3>2. p.stop + PruneAge >= now
        BY <1>2, <3>1, ProgrammeTypes, XMLTVRefreshAssumption DEF ToCome, TypeInv, TypeOK, Time
      <3>3. Copies(p)' = Copies(p)
        BY <3>2 DEF Prune, Copies
      <3> QED
        BY <3>1, <3>3
    <2>2. FutureStored(work[w].new)'
      BY <1>2, <1>3, <1>4, <2>1, AgreesOnLasts DEF RefreshInv, HasApplied
    <2>3. StopsKnown'
      <3>1. ASSUME NEW p \in Programme, p.stop = ZeroTime PROVE ~(p.stop + PruneAge >= now)
        BY <1>2, <3>1, XMLTVRefreshAssumption DEF ZeroTime, TypeInv, TypeOK, Time
      <3> QED
        BY <3>1 DEF Prune, StopsKnown, Copies
    <2> QED
      BY <1>2, <1>3, <1>4, <2>2, <2>3 DEF RefreshInv, HasApplied, FutureAgrees
  <1>6. RefreshInv(w)'
    BY <1>1, <1>2, <1>3, <1>5 DEF RefreshInv, HoldsSavedTag, HasReadOnly, AppliesNewer,
       HasReplaced, HasApplied, MaySave, At
  <1>7. ServesLatest' /\ SavedInv'
    <2>1. source # Gone => source.tag \in Nat /\ latest \in Nat
      BY <1>2, GuideNumbers DEF TypeInv, TypeOK, SourceRow
    <2>2. source # Gone => source.tag < latest
      BY <1>2, SavedIsOlder
    <2> QED
      BY <1>1, <2>1, <2>2 DEF EarnedInv, SavedInv, ServesLatest
  <1> QED
    BY <1>6, <1>7 DEF Alone, EarnedInv

\* What is saved is the validator of the guide that was applied, or the one
\* that was saved already.
LEMMA EarnedSave ==
  ASSUME Alone, EarnedInv, OnceInv', NEW w \in Worker, SaveStatus(w) \/ MarkError(w)
  PROVE  EarnedInv'
  <1>1. UNCHANGED <<published, latest, programs, now>>
    BY DEF SaveStatus, MarkError, upstream
  <1>2. /\ TypeInv /\ work[w] \in Refresh /\ RefreshInv(w) /\ work[w].pc \in {"save", "error"}
    BY Stages DEF EarnedInv, OnceInv, TypeInv, TypeOK, Works, SaveStatus, MarkError, At
  <1>3. RefreshInv(w)'
    <2>1. work'[w].pc = "idle"
      BY <1>2 DEF SaveStatus, MarkError, Finish, Idle, TypeInv, TypeOK
    <2> QED
      BY <2>1, OwesNothing
  <1>4. \/ source' = source
        \/ /\ source # Gone /\ source' # Gone
           /\ \/ source'.tag = source.tag
              \/ source'.tag = work[w].new /\ work[w].new <= latest /\ FutureAgrees(work[w].new)
    <2>1. source # Gone => work[w].tag = source.tag /\ source \in SourceRow
      BY <1>2 DEF RefreshInv, HoldsSavedTag, TypeInv, TypeOK
    <2>2. ASSUME NEW status \in {"ok", "error"}, NEW tag \in Tag, source # Gone,
                 source' = [source EXCEPT !.status = status, !.tag = tag]
          PROVE  source'.tag = tag /\ source' # Gone
      <3>1. source' \in SourceRow /\ source'.tag = tag /\ source'.status = status
        BY <2>1, <2>2 DEF SourceRow
      <3> QED
        BY <3>1 DEF Gone
    <2>3. work[w].tag \in Tag /\ work[w].new \in Tag
      BY <1>2 DEF Refresh
    <2>4. CASE SaveStatus(w)
      BY <1>2, <2>1, <2>2, <2>3, <2>4 DEF SaveStatus, MarkStatus, At, RefreshInv, MaySave
    <2>5. CASE MarkError(w)
      BY <1>2, <2>1, <2>2, <2>3, <2>5 DEF MarkError, MarkStatus
    <2> QED
      BY <2>4, <2>5
  <1>5. SavedInv'
    BY <1>1, <1>4 DEF EarnedInv, SavedInv, FutureAgrees, FutureStored, StopsKnown,
       Copies
  <1>6. ServesLatest'
    BY <1>1 DEF EarnedInv, ServesLatest
  <1> QED
    BY <1>3, <1>5, <1>6 DEF Alone, EarnedInv

\* As time passes less is to come.
LEMMA EarnedTick ==
  ASSUME EarnedInv, OnceInv', Tick
  PROVE  EarnedInv'
  <1>1. UNCHANGED <<source, published, latest, programs, work>>
    BY DEF Tick, tables, upstream
  <1>2. TypeInv /\ now' = now + 1 /\ now \in Int
    BY DEF EarnedInv, OnceInv, Tick, TypeInv, TypeOK, Time
  <1>3. ASSUME NEW p \in Programme, ToCome(p)'
        PROVE  ToCome(p) /\ (Copies(p)' # {} <=> Copies(p) # {})
    BY <1>1, <1>2, <1>3, ProgrammeTypes DEF ToCome, Copies
  <1>4. /\ \A n \in Publication, x \in GuideId : AgreesOn(n, x) => AgreesOn(n, x)'
        /\ \A n \in Publication : FutureStored(n) => FutureStored(n)'
        /\ \A n \in Publication : FutureAgrees(n) => FutureAgrees(n)'
    <2>1. StopsKnown => StopsKnown'
      BY <1>1 DEF StopsKnown, Copies
    <2> QED
      BY <1>3, <2>1, AgreesOnLasts DEF FutureAgrees
  <1>5. SavedInv'
    <2>1. source # Gone => source.tag \in Tag
      BY <1>2 DEF TypeInv, TypeOK, SourceRow
    <2> QED
      BY <1>1, <1>4, <2>1, GuideNumbers DEF EarnedInv, SavedInv
  <1>6. ASSUME NEW w \in Worker PROVE RefreshInv(w)'
    <2>1. RefreshInv(w) /\ work[w] \in Works
      BY <1>2 DEF EarnedInv, TypeInv, TypeOK, Works
    <2>2. HasReplaced(w)'
      <3>1. work[w].pc \in {"replace", "insert"} =>
              work[w].new \in Publication /\ Scheduled(work[w].new) \subseteq GuideId
        BY <1>2, GuideTypes DEF TypeInv, HasGuide
      <3> QED
        BY <1>1, <1>4, <2>1, <3>1 DEF RefreshInv, HasReplaced, Scheduled
    <2>3. HasApplied(w)'
      <3>1. work[w].pc \in {"link", "prune"} => work[w].new \in Publication
        <4>1. work[w].pc \in {"link", "prune"} =>
                work[w].tag \in Tag /\ work[w].new \in Tag /\ work[w].tag < work[w].new
          BY <2>1, Stages DEF Refresh, RefreshInv, AppliesNewer
        <4> QED
          BY <4>1, XMLTVRefreshAssumption DEF Tag, Publication
      <3> QED
        BY <1>1, <1>4, <2>1, <3>1 DEF RefreshInv, HasApplied
    <2>4. MaySave(w)'
      <3>1. CASE work[w].pc = "save"
        <4>1. work[w].new \in Tag /\ work[w].tag \in Tag
          BY <2>1, <3>1, Stages DEF Refresh
        <4>2. work[w].new # 0 => work[w].new \in Publication
          BY <4>1, GuideNumbers
        <4>3. work[w].new = 0 => (FutureAgrees(0) => FutureAgrees(0)')
          BY <1>1, <1>3 DEF FutureAgrees, FutureStored, StopsKnown, Copies, ToCome
        <4> QED
          BY <1>1, <1>4, <2>1, <3>1, <4>2, <4>3 DEF RefreshInv, MaySave, At
      <3>2. CASE work[w].pc # "save"
        BY <1>1, <3>2 DEF MaySave, At
      <3> QED
        BY <3>1, <3>2
    <2>5. HoldsSavedTag(w)' /\ HasReadOnly(w)' /\ AppliesNewer(w)'
      BY <1>1, <2>1 DEF RefreshInv, HoldsSavedTag, HasReadOnly, AppliesNewer, At
    <2> QED
      BY <2>2, <2>3, <2>4, <2>5 DEF RefreshInv
  <1> QED
    BY <1>1, <1>5, <1>6 DEF EarnedInv, ServesLatest

\* A new guide makes every saved validator an old one.
LEMMA EarnedPublish ==
  ASSUME OneUrl, EarnedInv, OnceInv', NEW u \in Url, Publish(u)
  PROVE  EarnedInv'
  <1>1. UNCHANGED <<source, programs, now, work>>
    BY DEF Publish, tables
  <1>2. TypeInv /\ latest' = latest + 1 /\ latest \in Nat
    BY GuideNumbers DEF EarnedInv, OnceInv, Publish, TypeInv, TypeOK
  <1>3. ServesLatest'
    BY <1>2 DEF OneUrl, Publish, ServesLatest, TypeInv, TypeOK
  <1>4. SavedInv'
    <2>1. source # Gone => source.tag \in Nat /\ source.tag <= latest
      BY <1>2, GuideNumbers DEF TypeInv, TypeOK, SourceRow, EarnedInv, SavedInv
    <2> QED
      BY <1>1, <1>2, <2>1 DEF SavedInv
  <1>5. ASSUME NEW w \in Worker PROVE RefreshInv(w)'
    <2>1. RefreshInv(w) /\ work[w] \in Works
      BY <1>2 DEF EarnedInv, TypeInv, TypeOK, Works
    <2>2. work[w].pc \notin {"idle", "read"} => work[w].tag \in Nat /\ work[w].new \in Nat
      BY <2>1, GuideNumbers DEF Works, Refresh, Replace, Idle, Listed
    <2>3. HoldsSavedTag(w)' /\ AppliesNewer(w)'
      BY <1>1, <1>2, <2>1, <2>2 DEF RefreshInv, HoldsSavedTag, AppliesNewer
    <2>4. HasReadOnly(w)' /\ HasReplaced(w)' /\ HasApplied(w)'
      BY <1>1, <2>1 DEF RefreshInv, HasReadOnly, HasReplaced, HasApplied, AgreesOn, ToCome,
         FutureStored, Copies, At
    <2>5. MaySave(w)'
      BY <1>1, <1>2, <2>1, <2>2 DEF RefreshInv, MaySave, FutureAgrees,
         FutureStored, StopsKnown, Copies, At
    <2> QED
      BY <2>3, <2>4, <2>5 DEF RefreshInv
  <1> QED
    BY <1>3, <1>4, <1>5 DEF EarnedInv

\* The administrator and the restarts leave the saved validator alone.
LEMMA EarnedAround ==
  ASSUME EarnedInv, OnceInv',
         \/ UNCHANGED vars
         \/ \E c \in Channel, x \in GuideId : AddEPGKey(c, x) \/ RemoveEPGKey(c, x)
         \/ \E u \in Url, on \in BOOLEAN : EditSource(u, on)
         \/ DeleteSource
         \/ Restart
  PROVE  EarnedInv'
  <1>1. UNCHANGED <<published, latest, programs, now>>
    BY DEF vars, AddEPGKey, RemoveEPGKey, EditSource, DeleteSource, Restart, tables, upstream
  <1>2. source' # Gone => source # Gone /\ source'.tag = source.tag
    <2>1. CASE \E u \in Url, on \in BOOLEAN : EditSource(u, on)
      BY <2>1 DEF EditSource, EarnedInv, OnceInv, TypeInv, TypeOK, SourceRow
    <2>2. CASE ~(\E u \in Url, on \in BOOLEAN : EditSource(u, on))
      BY <2>2 DEF vars, AddEPGKey, RemoveEPGKey, DeleteSource, Restart, tables
    <2> QED
      BY <2>1, <2>2
  <1>3. SavedInv' /\ ServesLatest'
    BY <1>1, <1>2 DEF EarnedInv, SavedInv, ServesLatest, FutureAgrees,
       FutureStored, StopsKnown, Copies
  <1>4. ASSUME NEW w \in Worker PROVE RefreshInv(w)'
    <2>1. CASE Restart
      <3>1. work'[w].pc = "idle"
        BY <2>1 DEF Restart, Idle
      <3> QED
        BY <3>1, OwesNothing
    <2>2. CASE ~Restart
      <3>1. work' = work
        BY <2>2 DEF vars, AddEPGKey, RemoveEPGKey, EditSource, DeleteSource
      <3> QED
        BY <1>1, <1>2, <3>1 DEF EarnedInv, RefreshInv, HoldsSavedTag, HasReadOnly, AppliesNewer,
           HasReplaced, HasApplied, MaySave, AgreesOn, ToCome, FutureAgrees,
           FutureStored, StopsKnown, Copies, At
    <2> QED
      BY <2>1, <2>2
  <1> QED
    BY <1>3, <1>4 DEF EarnedInv

LEMMA NextEarned == Alone /\ OneUrl /\ EarnedInv /\ [Next]_vars => EarnedInv'
  <1> SUFFICES ASSUME Alone, OneUrl, EarnedInv, [Next]_vars PROVE EarnedInv'
    OBVIOUS
  <1>1. OnceInv'
    BY NextOnce DEF EarnedInv
  <1>2. ASSUME NEW w \in Worker, Proceed(w) PROVE EarnedInv'
    BY <1>1, <1>2, EarnedWaits, EarnedRead, EarnedAsBefore, EarnedFetch, EarnedDelete,
       EarnedCommit, EarnedLinks, EarnedPrune, EarnedSave DEF Proceed
  <1>3. ASSUME NEW w \in Worker, BeginScheduled(w) \/ BeginByAdmin(w) \/ StatementFails(w)
        PROVE  EarnedInv'
    BY <1>1, <1>3, EarnedWaits, EarnedAsBefore
  <1> QED
    BY <1>1, <1>2, <1>3, EarnedTick, EarnedPublish, EarnedAround DEF Next

\* TagIsEarned for guides of any size, whatever fails in between: with one
\* refresh at a time and one URL, an upstream that answers 304 to the saved
\* validator has the future that is in the guide.
THEOREM GuideTagIsEarned ==
  ASSUME Alone, OneUrl
  PROVE  Spec => []TagIsEarned
  <1>1. Spec => []EarnedInv
    BY InitEarned, NextEarned, PTL DEF Spec
  <1>2. EarnedInv => TagIsEarned
    BY EarnedBySaved DEF EarnedInv, OnceInv, TypeInv
  <1> QED
    BY <1>1, <1>2, PTL

=============================================================================
