--------------------------- MODULE MCSourceForms ----------------------------
(***************************************************************************)
(* SourceForms with one upstream whose URL holds a secret: a channel       *)
(* appears, both are listed, then nothing is.                              *)
(***************************************************************************)
EXTENDS SourceForms

CONSTANTS a, b, secret, redacted

Playlists == << <<a>>, <<b, a>>, <<>> >>
Mask == [u \in Url |-> redacted]

=============================================================================
