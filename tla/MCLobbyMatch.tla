----------------------------- MODULE MCLobbyMatch -----------------------------
(* LobbyMatch for TLC. *)
EXTENDS LobbyMatch, TLC

Symmetry == Permutations(Requests)

\* A state the system reaches one request at a time: the lobby's first match has
\* started, and every member's key names its placement.
StartedInit ==
    /\ lobby = [status |-> "started", placement |-> 1, connected |-> TRUE]
    /\ placement = [i \in Ids |-> IF i = 1 THEN [status |-> "completed", player |-> Host,
                                                 forLobby |-> TRUE]
                                  ELSE Absent]
    /\ playerPlacement = [p \in Players |-> IF p \in Members THEN 1 ELSE NoPlacement]
    /\ gamelift = [i \in Ids |-> IF i = 1 THEN "done" ELSE "unknown"]
    /\ asked = 1
    /\ lobbyLock = None
    /\ placementLock = [i \in Ids |-> None]
    /\ playerLock = [p \in Players |-> None]
    /\ req = [r \in Requests |-> Idle]
StartedSpec == StartedInit /\ [][Next]_vars
StartedFairSpec == StartedSpec /\ Fairness
=============================================================================
