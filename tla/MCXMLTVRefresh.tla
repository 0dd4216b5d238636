--------------------------- MODULE MCXMLTVRefresh ---------------------------
(***************************************************************************)
(* Guides for XMLTVRefresh: a programme without a stop, a guide that does  *)
(* not parse, and one that moves a programme and drops another while an    *)
(* earlier one is on the air, and has none for one id any more.            *)
(***************************************************************************)
EXTENDS XMLTVRefresh

CONSTANTS one, two

Slot(x, from, to) == [id |-> x, start |-> from, stop |-> to]

Guides == <<
  [names |-> {one, two},
   lists |-> {Slot(one, 0, 2), Slot(one, 2, 3), Slot(two, 1, 2), Slot(two, 2, NoTime)}],
  [names |-> {one}, lists |-> {Slot(one, 0, 2), Slot(one, BadTime, 3)}],
  [names |-> {one}, lists |-> {Slot(one, 0, 2), Slot(one, 1, 3)}] >>

OwnId == [c \in Channel |-> one]

=============================================================================
