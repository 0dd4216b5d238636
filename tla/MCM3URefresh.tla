---------------------------- MODULE MCM3URefresh ----------------------------
(***************************************************************************)
(* Publications for M3URefresh: two channels, of which one is dropped.     *)
(***************************************************************************)
EXTENDS M3URefresh

CONSTANTS a, b

TwoPlaylists == << <<a, b>>, <<b>> >>

=============================================================================
