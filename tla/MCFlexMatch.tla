---------------------------- MODULE MCFlexMatch ----------------------------
EXTENDS FlexMatchTickets, TLC

Symmetry == Permutations(Players)

\* Parties that change get to a first match, and to a second ticket with one event under
\* way or to two events with one ticket; settled ones to a third ticket after two that were
\* placed, where news of the first match's end meets the next.
Bounds == /\ moves # 0 => Cardinality(Issued) + Cardinality(events) <= 3 /\ matches <= 1
          /\ 3 \in Issued => \A t \in {1, 2} : gl[t].status \in {"COMPLETED", "ENDED"}
=============================================================================
