---------------------------- MODULE PartyRegistry ----------------------------
(****************************************************************************)
(* What parties promise to players, as one atomic register: nobody is in    *)
(* two parties, a party has at least two and at most MaxPlayers members, a  *)
(* member never changes party without leaving, and the last two members are *)
(* released together.  Parties implements it when requests do not overlap.  *)
(****************************************************************************)
EXTENDS Naturals, FiniteSets

CONSTANTS Players, MaxPlayers, MaxParties

VARIABLE party      \* the party of each player, 0 for none

In(n) == {p \in Players : party[p] = n}

Init == party = [p \in Players |-> 0]

\* An invite accepted while its sender has no party forms one under an unused id.
Form(p, q) ==
    /\ p # q /\ party[p] = 0 /\ party[q] = 0
    /\ \E n \in 1..MaxParties :
          /\ In(n) = {}
          /\ party' = [party EXCEPT ![p] = n, ![q] = n]

\* An invite accepted into its sender's party.
Join(p, n) ==
    /\ party[p] = 0
    /\ In(n) # {} /\ Cardinality(In(n)) < MaxPlayers
    /\ party' = [party EXCEPT ![p] = n]

Leave(p) ==
    /\ party[p] # 0
    /\ LET gone == IF Cardinality(In(party[p])) = 2 THEN In(party[p]) ELSE {p}
       IN  party' = [q \in Players |-> IF q \in gone THEN 0 ELSE party[q]]

Next == \E p \in Players : \/ \E q \in Players : Form(p, q)
                           \/ \E n \in 1..MaxParties : Join(p, n)
                           \/ Leave(p)

Spec == Init /\ [][Next]_party
=============================================================================
