------------------------------ MODULE MCParties ------------------------------
(* Instances of Parties for TLC. *)
EXTENDS Parties, TLC

\* Players and request slots are interchangeable (safety runs only).
Symmetry == Permutations(Players) \cup Permutations(Requests)

CONSTANTS Host, Guest

\* States the system reaches one request at a time: host invited and was joined
\* by one guest, and the invites 2 and 3 are outstanding.
Joined(outstanding) ==
    /\ playerParty = [p \in Players |-> IF p \in {Host, Guest} THEN 1 ELSE NoParty]
    /\ members = [n \in PartyIds |-> IF n = 1 THEN {Host, Guest} ELSE {}]
    /\ invites = outstanding
    /\ sent = [p \in Players |-> {v.id : v \in {w \in outstanding : w.from = p}}]
    /\ partySeq = 1
    /\ inviteSeq = 3
    /\ req = [r \in Requests |-> Idle]
    /\ watched = [r \in Requests |-> {}]
    /\ dirty = {}

\* The host has invited two more players: the party is about to be full.
HostedInit ==
    \E p, q \in Players \ {Host, Guest} :
        p # q /\ Joined({[id |-> 2, from |-> Host, to |-> p],
                        [id |-> 3, from |-> Host, to |-> q]})
HostedSpec == HostedInit /\ [][Next]_vars
=============================================================================
