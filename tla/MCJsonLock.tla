----------------------------- MODULE MCJsonLock -----------------------------
(* JsonLock for TLC. *)
EXTENDS JsonLock, TLC

Symmetry == Permutations(Clients)
=============================================================================
