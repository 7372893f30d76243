------------------------------ MODULE LobbyMatch ------------------------------
(****************************************************************************)
(* Match placements of players and of one lobby: driftbase/                 *)
(* match_placements.py, with the part of lobbies.py that hands out sessions *)
(* of the lobby's match.  Three kinds of documents are kept in step: the    *)
(* lobby, the placement asked of GameLift, and a key per player that names  *)
(* his placement; GameLift answers later with an event.  A greenlet takes   *)
(* up to three kinds of locks, and not always in the same order.  The       *)
(* members of the lobby and the parties are fixed (modules Lobbies and      *)
(* Parties).  The owner of a JsonLock reads and writes the latest document  *)
(* (module JsonLock), and one who lost its lock writes nothing.             *)
(****************************************************************************)
EXTENDS Naturals, FiniteSets

CONSTANTS
    Players,        \* player ids, numbers: locks are taken in their order
    Members,        \* the members of the lobby
    Host,           \* its host
    Parties,        \* the parties, disjoint sets of players
    Requests,       \* request slots: clients' requests and GameLift's events
    MaxPlacements,  \* bound on the placements asked of GameLift
    Outcomes,       \* how GameLift decides placements
    Stops,          \* TRUE: players stop placements
    Deletes,        \* TRUE: the lobby is deleted, or its match ends
    Duplicates,     \* TRUE: GameLift delivers an event more than once
    Leases,         \* TRUE: the lease of a lock runs out while its owner waits
    None            \* no request

ASSUME PlayersAssumption == /\ Players \subseteq Nat
                            /\ Members \subseteq Players
                            /\ Host \in Members
                            /\ \A P \in Parties : P \subseteq Players
ASSUME BoundAssumption ==
    /\ MaxPlacements \in Nat
    /\ Outcomes \subseteq {"completed", "cancelled", "timed_out", "failed"}
    /\ Stops \in BOOLEAN /\ Deletes \in BOOLEAN /\ Duplicates \in BOOLEAN
    /\ Leases \in BOOLEAN
ASSUME NoneAssumption == None \notin Requests

Ids == 1..MaxPlacements
NoPlacement == 0                \* a key or field without a placement id

VARIABLES
    lobby,          \* the lobby document: status, placement_id, connection_string
    placement,      \* match-placement:ID, by placement id
    playerPlacement, \* player:ID:match-placement
    gamelift,       \* what GameLift knows of each placement
    asked,          \* the number of placements asked of GameLift
    lobbyLock,      \* the owner of the lock of the lobby
    placementLock,  \* the owner of the lock of each placement
    playerLock,     \* the owner of the lock of each player's placement key
    req             \* what each request slot is doing

docs  == <<lobby, placement, playerPlacement>>
locks == <<lobbyLock, placementLock, playerLock>>
vars  == <<lobby, placement, playerPlacement, gamelift, asked,
           lobbyLock, placementLock, playerLock, req>>

PCs == {"idle", "check", "drop", "lobby", "players", "ask", "recheck", "abandon", "save",
        "release", "starting", "stop", "stopAsk", "stopKey", "stopWrite",
        "get", "session", "event", "eventLobby", "eventWrite"}

Request == [pc       : PCs,
            player   : Players \cup {None},            \* current_user
            id       : Ids \cup {NoPlacement},         \* the placement worked on
            existing : Ids \cup {NoPlacement},         \* existing_placement_id
            forLobby : BOOLEAN,                        \* the start of a lobby match
            group    : SUBSET Players,                 \* player_ids
            held     : SUBSET Players,                 \* player_locks
            outcome  : Outcomes \cup {"none"}]         \* the event's type

Idle == [pc |-> "idle", player |-> None, id |-> NoPlacement, existing |-> NoPlacement,
         forLobby |-> FALSE, group |-> {}, held |-> {}, outcome |-> "none"]

Absent == [status |-> "none", player |-> None, forLobby |-> FALSE]

TypeOK ==
    /\ lobby \in [status : {"idle", "starting", "started", "gone"} \cup Outcomes,
                  placement : Ids \cup {NoPlacement}, connected : BOOLEAN]
    /\ placement \in [Ids -> [status : {"none", "pending"} \cup Outcomes,
                              player : Players \cup {None}, forLobby : BOOLEAN]]
    /\ playerPlacement \in [Players -> Ids \cup {NoPlacement}]
    /\ gamelift \in [Ids -> {"unknown", "pending", "stopping", "done"} \cup Outcomes]
    /\ asked \in 0..MaxPlacements
    /\ lobbyLock \in Requests \cup {None}
    /\ placementLock \in [Ids -> Requests \cup {None}]
    /\ playerLock \in [Players -> Requests \cup {None}]
    /\ req \in [Requests -> Request]

Init ==
    /\ lobby = [status |-> "idle", placement |-> NoPlacement, connected |-> FALSE]
    /\ placement = [i \in Ids |-> Absent]
    /\ playerPlacement = [p \in Players |-> NoPlacement]
    /\ gamelift = [i \in Ids |-> "unknown"]
    /\ asked = 0
    /\ lobbyLock = None
    /\ placementLock = [i \in Ids |-> None]
    /\ playerLock = [p \in Players |-> None]
    /\ req = [r \in Requests |-> Idle]

----------------------------------------------------------------------------
(* Requests and locks.                                                      *)

Become(r, rec) == req' = [req EXCEPT ![r] = rec]
Goto(r, pc) == Become(r, [req[r] EXCEPT !.pc = pc])
End(r) == Become(r, Idle)
At(r, pc) == req[r].pc = pc

\* Releasing a lock that is no longer owned changes nothing.
FreeLobby(r) == lobbyLock' = IF lobbyLock = r THEN None ELSE lobbyLock
FreePlacements(r) == placementLock' = [i \in Ids |-> IF placementLock[i] = r THEN None
                                                    ELSE placementLock[i]]
FreePlayers(r) == playerLock' = [p \in Players |-> IF playerLock[p] = r THEN None
                                                   ELSE playerLock[p]]
FreeAll(r) == FreeLobby(r) /\ FreePlacements(r) /\ FreePlayers(r)

\* The request ends with an answer, or by raising, and writes no document.
Answer(r) == End(r) /\ FreeAll(r) /\ UNCHANGED <<docs, gamelift, asked>>

\* get_player_party, get_party_members
Mates(p) == {p} \cup UNION {P \in Parties : p \in P}

\* existing_placement_id != g.redis.conn.get(player_match_placement_key)
SameAsChecked_Unasked(r) == TRUE                          \* mutant of SameAsChecked
SameAsChecked(r) == playerPlacement[req[r].player] = req[r].existing

----------------------------------------------------------------------------
(* start_lobby_match_placement and start_match_placement.                   *)

\* Where a start goes when _check_existing_match_placement is satisfied.
Checked(x, existing) ==
    [x EXCEPT !.pc = IF x.forLobby THEN "lobby" ELSE "players", !.existing = existing]

\* POST /match-placements/.  A member starts the lobby's match or anyone one for
\* himself and his party; the placement key of the player is read.  The key of a
\* host who deleted the lobby still names it.
StartMatch(r) ==
    /\ At(r, "idle")
    /\ \E p \in Players, forLobby \in BOOLEAN :
        /\ forLobby => p \in Members /\ (lobby.status = "gone" => p = Host)
        /\ LET x == [Idle EXCEPT !.player = p, !.forLobby = forLobby,
                                 !.existing = playerPlacement[p],
                                 !.group = IF forLobby THEN Members ELSE Mates(p)]
           IN  Become(r, IF playerPlacement[p] = NoPlacement THEN Checked(x, NoPlacement)
                         ELSE [x EXCEPT !.pc = "check"])
    /\ UNCHANGED <<docs, gamelift, asked, locks>>

\* _check_existing_match_placement, under the lock of the placement found.
Check(r) ==
    LET i == req[r].existing IN
    /\ At(r, "check")
    /\ placementLock[i] = None
    /\ \/ /\ ~SameAsChecked(r) \/ placement[i].status = "pending"
          /\ Answer(r)                                                \* 409, 400
       \/ /\ SameAsChecked(r)
          /\ \/ /\ placement[i].status = "none"
                /\ Goto(r, "drop")
                /\ placementLock' = [placementLock EXCEPT ![i] = r]
                /\ UNCHANGED <<lobbyLock, playerLock>>
             \/ /\ placement[i].status \notin {"none", "pending"}
                /\ Become(r, Checked(req[r], i))
                /\ UNCHANGED locks
          /\ UNCHANGED <<docs, gamelift, asked>>

\* The placement is gone: the player's key is deleted, whatever it names by now.
Drop(r) ==
    /\ At(r, "drop")
    /\ playerPlacement' = [playerPlacement EXCEPT ![req[r].player] = NoPlacement]
    /\ FreePlacements(r)
    /\ Become(r, Checked(req[r], NoPlacement))
    /\ UNCHANGED <<lobby, placement, gamelift, asked, lobbyLock, playerLock>>

\* An active match placement is in progress for the lobby.
InProgress == lobby.status = "starting"

LockLobby(r) ==
    LET ok == SameAsChecked(r) /\ lobby.status # "gone" /\ req[r].player = Host
              /\ ~InProgress IN
    /\ At(r, "lobby")
    /\ lobbyLock = None
    /\ \/ ~ok /\ Answer(r)                                   \* 409, 500, 401, 400
       \/ /\ ok
          /\ lobbyLock' = r
          /\ Goto(r, "players")
          /\ UNCHANGED <<docs, gamelift, asked, placementLock, playerLock>>

\* _get_player_locks: one lock at a time, the smallest id first.
LockPlayer(r) ==
    /\ At(r, "players")
    /\ \E p \in req[r].group \ req[r].held :
        /\ \A q \in req[r].group \ req[r].held : p <= q
        /\ playerLock[p] = None
        /\ playerLock' = [playerLock EXCEPT ![p] = r]
        /\ Become(r, [req[r] EXCEPT !.held = @ \cup {p},
                        !.pc = IF req[r].group = req[r].held \cup {p} THEN "ask" ELSE "players"])
    /\ UNCHANGED <<docs, gamelift, asked, lobbyLock, placementLock>>

\* start_game_session_placement under a new id; it may raise, and then the finally
\* clause releases the players.
AskGameLift(r) ==
    /\ At(r, "ask")
    /\ \/ Answer(r)
       \/ /\ asked < MaxPlacements
          /\ asked' = asked + 1
          /\ gamelift' = [gamelift EXCEPT ![asked + 1] = "pending"]
          /\ Become(r, [req[r] EXCEPT !.pc = "recheck", !.id = asked + 1])
          /\ UNCHANGED <<docs, locks>>

\* Check if another placement started for the player while waiting for a response.
Recheck(r) ==
    /\ At(r, "recheck")
    /\ Goto(r, IF SameAsChecked(r) THEN "save" ELSE "abandon")
    /\ UNCHANGED <<docs, gamelift, asked, locks>>

\* stop_game_session_placement: accepted for a placement that is not decided.
StopAccepted(i) == gamelift[i] = "pending" /\ gamelift' = [gamelift EXCEPT ![i] = "stopping"]

Abandon(r) ==
    /\ At(r, "abandon")
    /\ StopAccepted(req[r].id) \/ UNCHANGED gamelift
    /\ End(r) /\ FreeAll(r)
    /\ UNCHANGED <<docs, asked>>

\* _save_match_placement, one MULTI: the placement and every player's key.
Save(r) ==
    LET x == req[r] IN
    /\ At(r, "save")
    /\ placement' = [placement EXCEPT ![x.id] =
                        [status |-> "pending", player |-> x.player, forLobby |-> x.forLobby]]
    /\ playerPlacement' = [p \in Players |-> IF p \in x.group THEN x.id ELSE playerPlacement[p]]
    /\ Goto(r, "release")
    /\ UNCHANGED <<lobby, gamelift, asked, locks>>

\* The finally clause.  Releasing a lock whose lease ran out raises, and the lobby
\* is not written; the locks after it end with their lease, which is at once here.
ReleasePlayers(r) ==
    LET lost == \E p \in req[r].held : playerLock[p] # r IN
    /\ At(r, "release")
    /\ FreePlayers(r)
    /\ \/ /\ lost \/ ~req[r].forLobby
          /\ End(r) /\ FreeLobby(r)
       \/ /\ ~lost /\ req[r].forLobby
          /\ Goto(r, "starting") /\ UNCHANGED lobbyLock
    /\ UNCHANGED <<docs, gamelift, asked, placementLock>>

\* lobby["placement_id"] = placement_id
PlacementOf_Forgotten(r) == IF lobby.placement = NoPlacement THEN req[r].id
                            ELSE lobby.placement            \* mutant of PlacementOf
PlacementOf(r) == req[r].id

\* The lobby is written and its lock released, if it is still owned.
WriteStarting(r) ==
    /\ At(r, "starting")
    /\ lobby' = IF lobbyLock = r
                THEN [lobby EXCEPT !.status = "starting", !.placement = PlacementOf(r)]
                ELSE lobby
    /\ FreeLobby(r)
    /\ End(r)
    /\ UNCHANGED <<placement, playerPlacement, gamelift, asked, placementLock, playerLock>>

----------------------------------------------------------------------------
(* stop_player_match_placement.                                             *)

\* DELETE /match-placements/ID with the id the player's key has.
StartStop(r) ==
    /\ Stops
    /\ At(r, "idle")
    /\ \E p \in Players :
        /\ playerPlacement[p] # NoPlacement
        /\ Become(r, [Idle EXCEPT !.pc = "stop", !.player = p, !.id = playerPlacement[p]])
    /\ UNCHANGED <<docs, gamelift, asked, locks>>

StopLocked(r) ==
    LET i == req[r].id
        same == playerPlacement[req[r].player] = i IN
    /\ At(r, "stop")
    /\ placementLock[i] = None
    /\ \/ /\ ~same \/ placement[i].status \notin {"none", "pending"}
          /\ Answer(r)                                                \* 409, 400
       \/ /\ same /\ placement[i].status \in {"none", "pending"}
          /\ placementLock' = [placementLock EXCEPT ![i] = r]
          /\ Goto(r, IF placement[i].status = "pending" THEN "stopAsk" ELSE "stopKey")
          /\ UNCHANGED <<docs, gamelift, asked, lobbyLock, playerLock>>

\* GameLift stops the placement, or the request raises.
StopAsk(r) ==
    /\ At(r, "stopAsk")
    /\ \/ Answer(r)
       \/ /\ StopAccepted(req[r].id)
          /\ Goto(r, "stopKey")
          /\ UNCHANGED <<docs, asked, locks>>

\* The key of the player who asked; those of the others stay.
StopKey(r) ==
    /\ At(r, "stopKey")
    /\ playerPlacement' = [playerPlacement EXCEPT ![req[r].player] = NoPlacement]
    /\ Goto(r, "stopWrite")
    /\ UNCHANGED <<lobby, placement, gamelift, asked, locks>>

StopWrite(r) ==
    /\ At(r, "stopWrite")
    /\ placement' = [placement EXCEPT ![req[r].id] = Absent]
    /\ FreePlacements(r)
    /\ End(r)
    /\ UNCHANGED <<lobby, playerPlacement, gamelift, asked, lobbyLock, playerLock>>

----------------------------------------------------------------------------
(* get_player_lobby and join_lobby once the match is initiated.             *)

StartGet(r) ==
    /\ At(r, "idle")
    /\ lobby.status # "gone"
    /\ \E p \in Members : Become(r, [Idle EXCEPT !.pc = "get", !.player = p])
    /\ UNCHANGED <<docs, gamelift, asked, locks>>

\* A connection string stays from an earlier match.  A member without a team is
\* answered at once.
Initiated == lobby.status \in {"starting", "started"}

GetLocked(r) ==
    /\ At(r, "get")
    /\ lobbyLock = None
    /\ \/ Answer(r)
       \/ /\ Initiated /\ lobby.connected
          /\ lobbyLock' = r
          /\ Become(r, [req[r] EXCEPT !.pc = "session", !.id = lobby.placement])
          /\ UNCHANGED <<docs, gamelift, asked, placementLock, playerLock>>

\* _ensure_player_session locks the placement while the lobby is locked.
EnsureSession(r) ==
    /\ At(r, "session")
    /\ placementLock[req[r].id] = None
    /\ Answer(r)

----------------------------------------------------------------------------
(* GameLift decides, and its events come in.                                *)

\* A placement that is being stopped ends as cancelled, or was just decided.
Decide(i, outcome) ==
    /\ gamelift[i] \in {"pending", "stopping"}
    /\ gamelift' = [gamelift EXCEPT ![i] = outcome]
    /\ UNCHANGED <<docs, asked, locks, req>>

\* The event of a decided placement.
Deliver(r) ==
    /\ At(r, "idle")
    /\ \E i \in Ids :
        /\ gamelift[i] \in Outcomes
        /\ Become(r, [Idle EXCEPT !.pc = "event", !.id = i, !.outcome = gamelift[i]])
        /\ gamelift' = IF Duplicates THEN gamelift ELSE [gamelift EXCEPT ![i] = "done"]
    /\ UNCHANGED <<docs, asked, locks>>

\* _validate_gamelift_placement_for_queue_event: an unknown placement is ignored.
EventLocked(r) ==
    LET i == req[r].id IN
    /\ At(r, "event")
    /\ placementLock[i] = None
    /\ \/ placement[i].status = "none" /\ Answer(r)
       \/ /\ placement[i].status # "none"
          /\ placementLock' = [placementLock EXCEPT ![i] = r]
          /\ Goto(r, IF placement[i].forLobby THEN "eventLobby" ELSE "eventWrite")
          /\ UNCHANGED <<docs, gamelift, asked, lobbyLock, playerLock>>

\* The lobby follows the placement.  Without the lobby the handler raises, and its
\* placement is not written.
EventLobby(r) ==
    /\ At(r, "eventLobby")
    /\ lobbyLock = None
    /\ \/ lobby.status = "gone" /\ Answer(r)
       \/ /\ lobby.status # "gone"
          /\ lobby' = IF req[r].outcome = "completed"
                      THEN [lobby EXCEPT !.status = "started", !.connected = TRUE]
                      ELSE [lobby EXCEPT !.status = req[r].outcome]
          /\ Goto(r, "eventWrite")
          /\ UNCHANGED <<placement, playerPlacement, gamelift, asked, locks>>

\* The placement is written and its lock released, if it is still owned.
EventWrite(r) ==
    LET i == req[r].id IN
    /\ At(r, "eventWrite")
    /\ placement' = IF placementLock[i] = r
                    THEN [placement EXCEPT ![i].status = req[r].outcome] ELSE placement
    /\ FreePlacements(r)
    /\ End(r)
    /\ UNCHANGED <<lobby, playerPlacement, gamelift, asked, lobbyLock, playerLock>>

\* delete_lobby by the host, or _process_match_ended.
RemoveLobby ==
    /\ Deletes
    /\ lobbyLock = None
    /\ lobby.status # "gone"
    /\ lobby' = [status |-> "gone", placement |-> NoPlacement, connected |-> FALSE]
    /\ UNCHANGED <<placement, playerPlacement, gamelift, asked, locks, req>>

----------------------------------------------------------------------------
(* Leases: a lock is gone 30 seconds after it was taken.                    *)

\* The places where the owner of a lock waits for another one.
Waiting(r) == req[r].pc \in {"players", "session", "eventLobby"}

LeaseCanExpire_Never(r) == FALSE                        \* mutant of LeaseCanExpire
LeaseCanExpire(r) == Leases /\ Waiting(r)

Expire(r) ==
    /\ LeaseCanExpire(r)
    /\ \/ lobbyLock = r /\ lobbyLock' = None /\ UNCHANGED <<placementLock, playerLock>>
       \/ \E i \in Ids : /\ placementLock[i] = r
                         /\ placementLock' = [placementLock EXCEPT ![i] = None]
                         /\ UNCHANGED <<lobbyLock, playerLock>>
       \/ \E p \in Players : /\ playerLock[p] = r
                             /\ playerLock' = [playerLock EXCEPT ![p] = None]
                             /\ UNCHANGED <<lobbyLock, placementLock>>
    /\ UNCHANGED <<docs, gamelift, asked, req>>

----------------------------------------------------------------------------

Serve(r) ==
    \/ Check(r) \/ Drop(r) \/ LockLobby(r) \/ LockPlayer(r) \/ AskGameLift(r) \/ Recheck(r)
    \/ Abandon(r) \/ Save(r) \/ ReleasePlayers(r) \/ WriteStarting(r)
    \/ StopLocked(r) \/ StopAsk(r) \/ StopKey(r) \/ StopWrite(r)
    \/ GetLocked(r) \/ EnsureSession(r)
    \/ EventLocked(r) \/ EventLobby(r) \/ EventWrite(r)

Next ==
    \/ \E r \in Requests : \/ StartMatch(r) \/ StartStop(r) \/ StartGet(r) \/ Deliver(r)
                           \/ Serve(r) \/ Expire(r)
    \/ \E i \in Ids, o \in Outcomes : Decide(i, o)
    \/ RemoveLobby

Spec == Init /\ [][Next]_vars

\* Greenlets go on when they can, and leases run out.
Fairness == \A r \in Requests : WF_vars(Serve(r)) /\ WF_vars(Expire(r))

----------------------------------------------------------------------------
(* Properties.                                                              *)

\* A placement is never saved over a pending one of the player who starts it
\* (match_placements.py:548): the key was checked before the locks were taken, and
\* whoever set it in between was seen by the check under the locks.
NothingPendingReplaced ==
    [][\A r \in Requests : At(r, "save") /\ req'[r].pc = "release" =>
          LET i == playerPlacement[req[r].player] IN
          i # NoPlacement => placement[i].status # "pending"]_vars

\* The status a placement gives to its lobby.
Shown(status) == CASE status = "pending" -> "starting"
                   [] status = "completed" -> "started"
                   [] OTHER -> status

\* The lobby's status is that of its latest placement, when nobody has the lock of
\* either and the placement was not stopped: no event of an older placement, nor a
\* restart, leaves it behind (match_placements.py:311, 686, 780, 829, 878).
LobbyFollowsItsMatch ==
    LET i == lobby.placement IN
    /\ lobbyLock = None
    /\ i # NoPlacement
    /\ placementLock[i] = None
    /\ placement[i].status # "none"
    => lobby.status = Shown(placement[i].status)

\* The locks that get_player_lobby takes from the lobby to the placement, and the
\* event handlers from the placement to the lobby, do not stay taken for ever.
LockIsFreed == []<>(lobbyLock = None)

\* "An active match placement is already in progress for the lobby"
RefusedOnlyInProgress ==
    lobbyLock = None /\ InProgress /\ placementLock[lobby.placement] = None
        => placement[lobby.placement].status = "pending"

----------------------------------------------------------------------------
(* Strengthening of NothingPendingReplaced: what a start knows.             *)

Starting(r) == req[r].pc \in {"check", "drop", "lobby", "players", "ask", "recheck",
                              "abandon", "save", "release"}
\* A start that has an id of GameLift and has not saved it.
Unsaved(r) == req[r].pc \in {"recheck", "abandon", "save"}

\* An event carries an outcome.
EventsDecided ==
    \A r \in Requests : req[r].pc \in {"event", "eventLobby", "eventWrite"}
        => req[r].outcome \in Outcomes

\* A start works on the keys of players whose locks it has.
LocksHeld ==
    \A r \in Requests :
        /\ Starting(r) => req[r].player \in req[r].group
        /\ Starting(r) => \A p \in req[r].held : playerLock[p] = r
        /\ req[r].pc = "ask" \/ Unsaved(r) => req[r].group = req[r].held

\* Nothing names an id that is not saved.
UnsavedIsUnknown ==
    /\ \A p \in Players : playerPlacement[p] <= asked
    /\ \A r \in Requests : req[r].existing <= asked
    /\ \A r \in Requests : Unsaved(r) =>
        /\ req[r].id \in 1..asked
        /\ \A p \in Players : playerPlacement[p] # req[r].id
        /\ \A s \in Requests : req[s].existing # req[r].id
        /\ \A s \in Requests : Unsaved(s) /\ req[s].id = req[r].id => s = r

\* What was checked of the existing placement, and of the key, stays so.
CheckedStays ==
    \A r \in Requests :
        /\ req[r].pc \in {"lobby", "players", "ask", "recheck", "save"}
                /\ req[r].existing # NoPlacement
              => placement[req[r].existing].status # "pending"
        /\ At(r, "save") => playerPlacement[req[r].player] \in {req[r].existing, NoPlacement}

StartInvariant == TypeOK /\ EventsDecided /\ LocksHeld /\ UnsavedIsUnknown /\ CheckedStays
=============================================================================
