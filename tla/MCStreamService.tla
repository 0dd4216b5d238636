--------------------------- MODULE MCStreamService ---------------------------
(***************************************************************************)
(* Small instances of StreamService.  The users, the requests and the ids  *)
(* are interchangeable, so safety runs may reduce by their symmetries.     *)
(***************************************************************************)
EXTENDS StreamService, TLC

\* The tables as an earlier life of the plugin left them: the kinds are known,
\* everyone has tuned to everything, and one client holds the token of each
\* session of some set of active ones.
WarmInit ==
  /\ ProxyInit
  /\ mint = [m \in Minter |-> Idling]
  /\ channels = [c \in Channel |-> "enabled"]
  /\ kind = [c \in Channel |-> "mpegts"]
  /\ recent = User \X Channel
  /\ granted \in (SUBSET SessionId) \ {{}}
  /\ \E u \in User, c \in Channel :
       sessions = [s \in SessionId |->
         IF s \in granted
         THEN [status |-> "active", user |-> u, channel |-> c, idle |-> 0,
               reason |-> ""]
         ELSE Free]

WarmSpec == WarmInit /\ [][Next]_vars
WarmFairSpec == WarmSpec /\ Fairness

MintSymmetry == Permutations(Minter) \cup Permutations(SessionId)
                  \cup Permutations(Channel) \cup Permutations(User)

=============================================================================
