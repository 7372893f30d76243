------------------------------ MODULE MCLobbies ------------------------------
(* Lobbies for TLC. *)
EXTENDS Lobbies, TLC

Symmetry == Permutations(Players) \cup Permutations(LobbyIds) \cup Permutations(Requests)
=============================================================================
