----------------------------- MODULE MCLobbyTeams -----------------------------
(* LobbyTeams for TLC. *)
EXTENDS LobbyTeams, TLC

Symmetry == Permutations(Players) \cup Permutations(Teams)
=============================================================================
