-------------------------- MODULE SettingsSnapshot --------------------------
(***************************************************************************)
(* The settings row and its copy in memory.  Every statement reads or      *)
(* writes the whole row, so one column stands for all: guide_window_cap,   *)
(* which the guide handler asks for.                                       *)
(***************************************************************************)
EXTENDS Naturals

CONSTANTS
  Admin,         \* the PUT /admin/settings that can be in flight at once
  Cap            \* values of guide_window_cap that pass the validation

ASSUME CapAssumption == Cap \subseteq Nat \ {0} /\ Cap # {}

VARIABLES
  row,           \* the settings row
  snapshot,      \* Snapshot.values
  put            \* per PUT: where adminUpdateSettings is, and what Reload read

settings == <<row, snapshot, put>>

\* "failed" is an update that answered with an error after its write.
Put == [pc: {"idle", "failed", "reload", "apply", "answer"}, read: Cap]

SettingsTypeOK ==
  /\ row \in Cap /\ snapshot \in Cap
  /\ put \in [Admin -> Put]

\* The row as the migrations or earlier updates left it, and Load.
SettingsInit ==
  /\ row \in Cap
  /\ snapshot = row
  /\ put = [a \in Admin |-> [pc |-> "idle", read |-> row]]

GotoPut(a, pc) == put' = [put EXCEPT ![a].pc = pc]

\* UpdateSettings.
UpdateSettings(a, v) ==
  /\ put[a].pc \in {"idle", "failed"}
  /\ row' = v
  /\ GotoPut(a, "reload")
  /\ UNCHANGED snapshot

\* Reload: GetSettings.
ReloadRead(a) ==
  /\ put[a].pc = "reload"
  /\ put' = [put EXCEPT ![a] = [pc |-> "apply", read |-> row]]
  /\ UNCHANGED <<row, snapshot>>

\* Reload: GetSettings fails; the answer is an error, the row is written.
ReloadFails(a) ==
  /\ put[a].pc = "reload"
  /\ GotoPut(a, "failed")
  /\ UNCHANGED <<row, snapshot>>

\* Slip: nothing is applied.
ApplyNothing(a) ==
  /\ put[a].pc = "apply"
  /\ GotoPut(a, "answer")
  /\ UNCHANGED <<row, snapshot>>

\* Reload: Apply, under the lock.
Apply(a) ==
  /\ put[a].pc = "apply"
  /\ snapshot' = put[a].read
  /\ GotoPut(a, "answer")
  /\ UNCHANGED row

\* The row is read once more for the answer.
AnswerPut(a) ==
  /\ put[a].pc = "answer"
  /\ GotoPut(a, "idle")
  /\ UNCHANGED <<row, snapshot>>

SettingsNext ==
  \E a \in Admin :
    \/ \E v \in Cap : UpdateSettings(a, v)
    \/ ReloadRead(a)
    \/ ReloadFails(a)
    \/ Apply(a)
    \/ AnswerPut(a)

\* The process restarts: the updates are gone, Load reads the row.
ReloadAtStart ==
  /\ snapshot' = row
  /\ put' = [a \in Admin |-> [pc |-> "idle", read |-> row]]
  /\ UNCHANGED row

\* No update is under way or has failed half way.
Settled == \A a \in Admin : put[a].pc = "idle"

=============================================================================
