-------------------------- MODULE ChannelOverrides --------------------------
(***************************************************************************)
(* A channel row that a refresh and the administrators write at the same   *)
(* time.  A refresh writes the columns of the source.  The administrators' *)
(* drawer begins as the row that was listed, and its PATCH names only the  *)
(* columns that were touched; the handler updates just those, then reads   *)
(* the row again for its answer.                                           *)
(***************************************************************************)
EXTENDS Naturals

CONSTANTS
  Editor,        \* drawers that can be open on the channel at once
  Override,      \* the columns with a value of the source and an override
  Value,
  Null           \* no override

ASSUME ChannelOverridesAssumption ==
  /\ "position" \notin Override
  /\ 0 \in Value /\ Null \notin Value

VARIABLES
  src,           \* the *_src columns
  admin,         \* the *_admin columns and position; none: the row is gone
  editor         \* per drawer: what it shows of the row, and the columns touched

overrides == <<src, admin, editor>>

Column == Override \cup {"position"}
Stored == {r \in [Column -> Value \cup {Null}] : r["position"] # Null}
Dropped == [c \in Column |-> Null]

Shut == [pc |-> "shut"]
Editing == [pc: {"open", "patch", "reread"},
            touched: SUBSET Column,
            set: [Column -> Value \cup {Null}]]

OverridesTypeOK ==
  /\ src \in [Override -> Value]
  /\ admin \in Stored \cup {Dropped}
  /\ editor \in [Editor -> Editing \cup {Shut}]

NewRow == [c \in Column |-> IF c = "position" THEN 0 ELSE Null]

OverridesInit ==
  /\ src \in [Override -> Value]
  /\ admin = NewRow
  /\ editor = [e \in Editor |-> Shut]

\* coalesce(override, value of the source)
Effective(c) == IF admin[c] = Null THEN src[c] ELSE admin[c]

-----------------------------------------------------------------------------
(***************************************************************************)
(* The drawer.                                                             *)
(***************************************************************************)

OpenEditor(e) ==
  /\ editor[e] = Shut
  /\ admin # Dropped
  /\ editor' = [editor EXCEPT ![e] =
       [pc |-> "open", touched |-> {}, set |-> admin]]
  /\ UNCHANGED <<src, admin>>

\* A field is changed, or its override turned off.
Touch(e, c, v) ==
  /\ editor[e].pc = "open"
  /\ v = Null => c # "position"
  /\ editor' = [editor EXCEPT ![e].touched = @ \cup {c}, ![e].set[c] = v]
  /\ UNCHANGED <<src, admin>>

\* Save: mutationFn names the columns that were touched.  (When the rows show
\* EPG keys, onMutate throws over their cache entries first: nothing is sent,
\* and the drawer stays.)
SendPatch(e) ==
  /\ editor[e].pc = "open"
  /\ editor' = [editor EXCEPT ![e].pc = "patch"]
  /\ UNCHANGED <<src, admin>>

CloseEditor(e) ==
  /\ editor[e].pc = "open"
  /\ editor' = [editor EXCEPT ![e] = Shut]
  /\ UNCHANGED <<src, admin>>

-----------------------------------------------------------------------------
(***************************************************************************)
(* adminPatchChannel.                                                      *)
(***************************************************************************)

\* Slip: the UPDATE sets every column, from what the drawer shows.
PatchWholeRow(e) ==
  /\ editor[e].pc = "patch"
  /\ admin # Dropped
  /\ admin' = editor[e].set
  /\ editor' = [editor EXCEPT ![e].pc = "reread"]
  /\ UNCHANGED src

\* AdminPatchChannel: one UPDATE of the columns that are set; a null position
\* is 0, and an empty patch is no statement at all.
PatchChannel(e) ==
  /\ editor[e].pc = "patch"
  /\ admin # Dropped
  /\ LET p == editor[e]
     IN  admin' = [c \in Column |->
           IF c \notin p.touched THEN admin[c]
           ELSE IF c = "position" /\ p.set[c] = Null THEN 0 ELSE p.set[c]]
  /\ editor' = [editor EXCEPT ![e].pc = "reread"]
  /\ UNCHANGED src

\* GetChannel, the answer, and the drawer closes.
Reread(e) ==
  /\ editor[e].pc = "reread"
  /\ admin # Dropped
  /\ editor' = [editor EXCEPT ![e] = Shut]
  /\ UNCHANGED <<src, admin>>

\* 404, or a statement fails: a message, and the drawer stays.
PatchFails(e) ==
  /\ editor[e].pc \in {"patch", "reread"}
  /\ editor' = [editor EXCEPT ![e].pc = "open"]
  /\ UNCHANGED <<src, admin>>

-----------------------------------------------------------------------------
(***************************************************************************)
(* The refresh.                                                            *)
(***************************************************************************)

\* Slip: the upsert writes the row as the playlist has it, overrides included.
UpsertWholeRow(values) ==
  /\ admin # Dropped
  /\ src' = values
  /\ admin' = NewRow
  /\ UNCHANGED editor

\* UpsertChannelFromM3U of a row that is there, or MarkChannelsMissing: the
\* columns of the source.
WriteSourceColumns(values) ==
  /\ admin # Dropped
  /\ src' = values
  /\ UNCHANGED <<admin, editor>>

\* The source is deleted, and its channels with it.
DropRow ==
  /\ admin # Dropped
  /\ admin' = Dropped
  /\ UNCHANGED <<src, editor>>

\* UpsertChannelFromM3U inserts a row, under a new id: drawers of the old one
\* are not modelled any further.
InsertRow(values) ==
  /\ admin = Dropped
  /\ \A e \in Editor : editor[e] = Shut
  /\ src' = values
  /\ admin' = NewRow
  /\ UNCHANGED editor

OverridesNext ==
  \/ \E e \in Editor :
       \/ OpenEditor(e)
       \/ \E c \in Column, v \in Value \cup {Null} : Touch(e, c, v)
       \/ SendPatch(e)
       \/ CloseEditor(e)
       \/ PatchChannel(e)
       \/ Reread(e)
       \/ PatchFails(e)
  \/ \E values \in [Override -> Value] :
       WriteSourceColumns(values) \/ InsertRow(values)
  \/ DropRow

OverridesSpec == OverridesInit /\ [][OverridesNext]_overrides

-----------------------------------------------------------------------------
\* What an administrator set stands: whatever refreshes bring, and whatever
\* other administrators save from drawers that were opened before, what users
\* get for a column changes only when the source's value shows through, or by
\* a PATCH from a drawer in which that very column was touched, and then to
\* what that drawer shows.
DecisionsStand ==
  [][\A c \in Override :
       admin # Dropped /\ admin' # Dropped /\ Effective(c)' # Effective(c)
         => \/ admin[c] = Null /\ src' # src
            \/ \E e \in Editor :
                 /\ editor[e].pc = "patch" /\ c \in editor[e].touched
                 /\ admin'[c] = editor[e].set[c]]_overrides

=============================================================================
