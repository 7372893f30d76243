-------------------------- MODULE PlayerPlacements ---------------------------
(***************************************************************************)
(* Match placements that players start for themselves and their party, and *)
(* public ones that others join (match_placements.py; those of a lobby are *)
(* in LobbyMatch).  A start checks the placement the player has, waits for *)
(* the locks of all players, asks GameLift, and saves; whatever the queue  *)
(* events say of it later is passed on to the players it was saved with,   *)
(* who may be in another party by then.                                    *)
(*                                                                         *)
(* The other requests are one step each: they hold the lock of the one     *)
(* placement they are about.  No lease ends.                               *)
(***************************************************************************)
EXTENDS Naturals, FiniteSets

CONSTANTS Starters,    \* the players
          MaxStarts,   \* bound on the placements asked of GameLift
          Failures,    \* "cancelled", "timed_out", "failed": how a placement may fail
          NoStart

ASSUME StartersAssumption ==
  /\ MaxStarts \in Nat /\ NoStart \notin 1..MaxStarts
  /\ Failures \cap {"none", "unknown", "pending", "stopping", "completed", "issued"} = {}

VARIABLES together,      \* the members of the one party, or none
          document,      \* match-placement:<id>
          placementKey,  \* player:<id>:match-placement
          starting,      \* the start that each player has under way
          decision,      \* GameLift: what became of each placement
          desired,       \* GameLift: the players each placement was asked for
          heard          \* the events posted to each player

placementVars == <<together, document, placementKey, starting, decision, desired, heard>>

StartIds == 1..MaxStarts
NoDocument == [status |-> "none", players |-> {}, public |-> FALSE]
NotStarting == [step |-> "no", existing |-> NoStart, group |-> {}, id |-> NoStart]

PlacementsInit == /\ together = {} /\ document = [i \in StartIds |-> NoDocument]
                  /\ placementKey = [p \in Starters |-> NoStart]
                  /\ starting = [p \in Starters |-> NotStarting]
                  /\ decision = [i \in StartIds |-> "unknown"]
                  /\ desired = [i \in StartIds |-> {}]
                  /\ heard = [p \in Starters |-> {}]

News == [id : StartIds, event : {"issued", "completed"} \cup Failures]
PlacementsTypeOK ==
  /\ together \subseteq Starters
  /\ document \in [StartIds -> [status : {"none", "pending", "completed"} \cup Failures,
                                players : SUBSET Starters, public : BOOLEAN]]
  /\ placementKey \in [Starters -> StartIds \cup {NoStart}]
  /\ \A p \in Starters : starting[p].step \in {"no", "locks", "answer"}
  /\ decision \in [StartIds -> {"unknown", "pending", "stopping", "completed"} \cup Failures]
  /\ desired \in [StartIds -> SUBSET Starters]
  /\ heard \in [Starters -> SUBSET News]

Post(S, id, event) == heard' = [p \in Starters |-> heard[p] \cup
                                  (IF p \in S THEN {[id |-> id, event |-> event]} ELSE {})]

Regroup(S) == /\ together' = S
              /\ UNCHANGED <<document, placementKey, starting, decision, desired, heard>>

-----------------------------------------------------------------------------
\* start_match_placement.

\* _check_existing_match_placement, and then who is in the party.  A key whose placement
\* is gone is deleted.
StartLooks(p) ==
  LET i == placementKey[p]
      gone == i # NoStart /\ document[i].status = "none"
  IN /\ starting[p] = NotStarting
     /\ i # NoStart => document[i].status # "pending"
     /\ placementKey' = IF gone THEN [placementKey EXCEPT ![p] = NoStart] ELSE placementKey
     /\ starting' = [starting EXCEPT ![p] =
          [step |-> "locks", existing |-> placementKey'[p], id |-> NoStart,
           group |-> IF p \in together THEN together ELSE {p}]]
     /\ UNCHANGED <<together, document, decision, desired, heard>>

\* With the locks of all of them GameLift is asked; it may refuse.
StartAsks(p) ==
  LET i == Cardinality({j \in StartIds : decision[j] # "unknown"}) + 1 IN
  /\ starting[p].step = "locks"
  /\ \A q \in Starters : starting[q].step = "answer" => starting[q].group \cap starting[p].group = {}
  /\ \/ /\ starting' = [starting EXCEPT ![p] = NotStarting] /\ UNCHANGED <<decision, desired>>
     \/ /\ i \in StartIds
        /\ decision' = [decision EXCEPT ![i] = "pending"]
        /\ desired' = [desired EXCEPT ![i] = starting[p].group]
        /\ starting' = [starting EXCEPT ![p].step = "answer", ![p].id = i]
  /\ UNCHANGED <<together, document, placementKey, heard>>

Stopped(i) == IF decision[i] = "pending" THEN [decision EXCEPT ![i] = "stopping"] ELSE decision

\* player_ids are copied into the document before the starter is taken off the list of
\* those who hear of it.
PlayersOf_NotStarter(p) == IF Cardinality(starting[p].group) = 1 THEN starting[p].group
                           ELSE starting[p].group \ {p}            \* mutant of PlayersOf
PlayersOf(p) == starting[p].group

\* Unless the player was assigned to another placement meanwhile, it is saved with the
\* keys of all players.
StartSaves(p, public) ==
  LET x == starting[p] IN
  /\ x.step = "answer" /\ starting' = [starting EXCEPT ![p] = NotStarting]
  /\ IF placementKey[p] # x.existing
     THEN /\ decision' = Stopped(x.id)
          /\ UNCHANGED <<document, placementKey, heard>>
     ELSE /\ document' = [document EXCEPT ![x.id] =
                            [status |-> "pending", players |-> PlayersOf(p), public |-> public]]
          /\ placementKey' = [q \in Starters |-> IF q \in x.group THEN x.id ELSE placementKey[q]]
          /\ Post(x.group \ {p}, x.id, "issued")
          /\ UNCHANGED decision
  /\ UNCHANGED <<together, desired>>

-----------------------------------------------------------------------------
\* Requests about a placement.

\* stop_player_match_placement: if GameLift refuses the request raises.
StopPlacement(p) ==
  LET i == placementKey[p] IN
  /\ i # NoStart
  /\ \/ /\ document[i].status = "pending" /\ decision[i] = "pending"
        /\ decision' = Stopped(i) /\ document' = [document EXCEPT ![i] = NoDocument]
     \/ document[i].status = "none" /\ UNCHANGED <<decision, document>>
  /\ placementKey' = [placementKey EXCEPT ![p] = NoStart]
  /\ UNCHANGED <<together, starting, desired, heard>>

\* get_player_match_placement: a key whose placement is gone is deleted.
GetPlacement(p) ==
  /\ placementKey[p] # NoStart /\ document[placementKey[p]].status = "none"
  /\ placementKey' = [placementKey EXCEPT ![p] = NoStart]
  /\ UNCHANGED <<together, document, starting, decision, desired, heard>>

\* add_player_to_public_match_placement, for one whose session there is over or who never
\* had one.  The new one comes with an event if the game session is active by now, and
\* whatever placement key the player has is deleted.
JoinPublic(p, i, active) ==
  /\ document[i].public /\ document[i].status = "completed"
  /\ IF active THEN Post({p}, i, "completed") ELSE UNCHANGED heard
  /\ placementKey' = [placementKey EXCEPT ![p] = NoStart]
  /\ UNCHANGED <<together, document, starting, decision, desired>>

-----------------------------------------------------------------------------
\* Queue events.  An event of a placement that is not saved, or was stopped, is ignored.

PassedOn(i, S, status) ==
  IF document[i].status = "none" THEN UNCHANGED <<document, heard>>
  ELSE document' = [document EXCEPT ![i].status = status] /\ Post(S, i, status)

\* Without a session for him a player is not told; GameLift starts one for each.
ProcessFulfilledPlacement(i) ==
  /\ decision[i] \in {"pending", "stopping"} /\ decision' = [decision EXCEPT ![i] = "completed"]
  /\ PassedOn(i, document[i].players \cap desired[i], "completed")
  /\ UNCHANGED <<together, placementKey, starting, desired>>

\* The placement's players hear of it, and not those who are in the party by now.
Concerned_Party(i) == document[i].players \cap together            \* mutant of Concerned
Concerned(i) == document[i].players

ProcessFailedPlacement(i, status) ==
  /\ decision[i] \in {"pending", "stopping"} /\ decision' = [decision EXCEPT ![i] = status]
  /\ PassedOn(i, Concerned(i), status)
  /\ UNCHANGED <<together, placementKey, starting, desired>>

-----------------------------------------------------------------------------
\* The keys expire with the document, or before it, since an event writes it anew.
PlacementExpires(i) ==
  /\ document[i].status # "none"
  /\ placementKey' = [p \in Starters |-> IF placementKey[p] = i THEN NoStart ELSE placementKey[p]]
  /\ document' \in {document, [document EXCEPT ![i] = NoDocument]}
  /\ UNCHANGED <<together, starting, decision, desired, heard>>

PlacementsNext ==
  \/ \E p \in Starters : \/ StartLooks(p) \/ StartAsks(p) \/ StopPlacement(p) \/ GetPlacement(p)
                         \/ \E public \in BOOLEAN : StartSaves(p, public)
                         \/ \E i \in StartIds, active \in BOOLEAN : JoinPublic(p, i, active)
  \/ \E i \in StartIds : \/ ProcessFulfilledPlacement(i) \/ PlacementExpires(i)
                         \/ \E status \in Failures : ProcessFailedPlacement(i, status)
  \/ \E S \in {{}} \cup {T \in SUBSET Starters : Cardinality(T) > 1} : S # together /\ Regroup(S)

PlacementsSpec == PlacementsInit /\ [][PlacementsNext]_placementVars

-----------------------------------------------------------------------------
\* Whoever a placement was asked for hears how it ended, the starter and the mates who left
\* the party alike, and nobody hears of the failure of a placement he was not part of
\* (match_placements.py:412 and 717-748, 790-797).
PlacementsAreTold ==
  /\ \A i \in StartIds : document[i].status \in {"completed"} \cup Failures =>
       \A p \in desired[i] : [id |-> i, event |-> document[i].status] \in heard[p]
  /\ \A p \in Starters : \A n \in heard[p] : n.event # "completed" => p \in desired[n.id]
=============================================================================
