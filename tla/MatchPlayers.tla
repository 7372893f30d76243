---------------------------- MODULE MatchPlayers ----------------------------
(***************************************************************************)
(* The players of a match (api/matches.py, the players' endpoints).  Only  *)
(* the match server adds, bans and removes players, and it does so one     *)
(* request at a time; requests of several match servers interleave.  Each  *)
(* also changes what friends see of the player (richpresence.py), before   *)
(* it commits.  A player leaves his match before he joins another.         *)
(***************************************************************************)
EXTENDS Naturals, FiniteSets

CONSTANTS RosterPlayers, RosterMatches,
          Capacity,   \* max_players
          NoMatch

ASSUME CapacityAssumption == Capacity \in Nat

VARIABLES completed,  \* matches that are over
          roster,     \* the status of each player in each match
          shown,      \* rich presence: the match whose map and mode are shown
          call        \* the request of each match server

rosterVars == <<completed, roster, shown, call>>

NoCall == [type |-> "none"]
Calls == {NoCall} \cup [type : {"add", "remove"}, player : RosterPlayers]

RosterInit == /\ completed = {}
              /\ roster = [m \in RosterMatches |-> [p \in RosterPlayers |-> "none"]]
              /\ shown = [p \in RosterPlayers |-> NoMatch]
              /\ call = [m \in RosterMatches |-> NoCall]

RosterTypeOK == /\ completed \subseteq RosterMatches
                /\ roster \in [RosterMatches -> [RosterPlayers -> {"none", "active", "quit", "banned"}]]
                /\ shown \in [RosterPlayers -> RosterMatches \cup {NoMatch}]
                /\ call \in [RosterMatches -> Calls]

ActiveIn(m) == {p \in RosterPlayers : roster[m][p] = "active"}
Elsewhere(m, p) == \E n \in RosterMatches \ ({m} \cup completed) :
                      p \in ActiveIn(n) \/ (call[n] # NoCall /\ call[n].player = p)

-----------------------------------------------------------------------------
\* POST of a player.  He counts himself, should he be in the match already.

HasRoom(m) == Cardinality(ActiveIn(m)) < Capacity

AddLooks(m, p) ==
  /\ call[m] = NoCall /\ m \notin completed /\ ~Elsewhere(m, p)
  /\ HasRoom(m)
  /\ call' = [call EXCEPT ![m] = [type |-> "add", player |-> p]]
  /\ shown' = [shown EXCEPT ![p] = m]
  /\ UNCHANGED <<completed, roster>>

\* Whatever the status was: one who quit or was banned is back.
AddCommits(m) ==
  /\ call[m].type = "add"
  /\ call' = [call EXCEPT ![m] = NoCall]
  /\ roster' = [roster EXCEPT ![m][call[m].player] = "active"]
  /\ UNCHANGED <<completed, shown>>

\* PATCH.
Ban(m, p) ==
  /\ call[m] = NoCall /\ roster[m][p] # "none"
  /\ roster' = [roster EXCEPT ![m][p] = "banned"]
  /\ UNCHANGED <<completed, shown, call>>

\* DELETE.  Only an active player of a match that is not completed.
RemoveLooks_AnyRow(m, p) ==                                 \* mutant of RemoveLooks
  /\ call[m] = NoCall /\ m \notin completed /\ roster[m][p] # "none"
  /\ call' = [call EXCEPT ![m] = [type |-> "remove", player |-> p]]
  /\ shown' = [shown EXCEPT ![p] = NoMatch]
  /\ UNCHANGED <<completed, roster>>

RemoveLooks(m, p) ==
  /\ call[m] = NoCall /\ m \notin completed /\ roster[m][p] = "active"
  /\ call' = [call EXCEPT ![m] = [type |-> "remove", player |-> p]]
  /\ shown' = [shown EXCEPT ![p] = NoMatch]
  /\ UNCHANGED <<completed, roster>>

RemoveCommits(m) ==
  /\ call[m].type = "remove"
  /\ call' = [call EXCEPT ![m] = NoCall]
  /\ roster' = [roster EXCEPT ![m][call[m].player] = "quit"]
  /\ UNCHANGED <<completed, shown>>

\* PUT of the match.  Its players stay as they are: "TODO: Set leave_date on matchplayers
\* who are still in the match".
Complete(m) ==
  /\ m \notin completed /\ completed' = completed \cup {m}
  /\ UNCHANGED <<roster, shown, call>>

RosterNext ==
  \E m \in RosterMatches :
    \/ AddCommits(m) \/ RemoveCommits(m) \/ Complete(m)
    \/ \E p \in RosterPlayers : AddLooks(m, p) \/ RemoveLooks(m, p) \/ Ban(m, p)

RosterSpec == RosterInit /\ [][RosterNext]_rosterVars

-----------------------------------------------------------------------------
\* A match has no more active players than it may, and friends of a player in a match
\* that is on see him in that match, however often he joined and left, was banned and
\* came back, here or elsewhere (matches.py:813-853 and 962-992).
RosterIsShown ==
  \A m \in RosterMatches :
    /\ Cardinality(ActiveIn(m)) <= Capacity
    /\ (m \notin completed /\ call[m] = NoCall) => \A p \in ActiveIn(m) : shown[p] = m
=============================================================================
