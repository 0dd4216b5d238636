------------------------------ MODULE MCStreams ------------------------------
(***************************************************************************)
(* The two halves of StreamService side by side in one run: requests that  *)
(* mint over empty tables, and handlers that serve the one session granted *)
(* earlier.  The reaper, the administrator, the refresh, time and restarts *)
(* act in both.                                                            *)
(***************************************************************************)
EXTENDS MCStreamService

VARIABLE half

HalvesInit ==
  \/ half = "mint" /\ Init
  \/ half = "serve" /\ WarmInit /\ Cardinality(granted) = 1

HalvesNext ==
  /\ Next
  /\ half = "mint" => handler' = handler
  /\ half = "serve" => mint' = mint
  /\ UNCHANGED half

HalvesSpec == HalvesInit /\ [][HalvesNext]_<<vars, half>>

Symmetry == Permutations(Minter) \cup Permutations(Handler)
              \cup Permutations(SessionId) \cup Permutations(Channel)
              \cup Permutations(User)

=============================================================================
