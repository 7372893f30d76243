------------------------------ MODULE LobbyTeams ------------------------------
(****************************************************************************)
(* The document of one lobby: its members in the order in which they        *)
(* joined, their teams and ready flags, the capacity and names of the teams *)
(* and the status of the match, with what the members are told of it by     *)
(* answers and by events.  driftbase/lobbies.py, and match_placements.py as *)
(* far as it changes or announces the document.  Every handler works under  *)
(* the lock of the lobby and writes the document once (modules JsonLock and *)
(* Lobbies), so a handler is one action here, its events included.          *)
(****************************************************************************)
EXTENDS Naturals, Sequences, FiniteSets

CONSTANTS
    Players,        \* player ids
    Teams,          \* names of teams
    Capacities,     \* values of team_capacity that hosts ask for
    None            \* no team, a field that a request leaves out

ASSUME NoneAssumption == None \notin Teams /\ None \notin Capacities /\ None \notin BOOLEAN
ASSUME CapacityAssumption == Capacities \subseteq Nat

VARIABLES
    lobby,          \* the document; no members: there is none
    told,           \* what each player was last told of the document
    roster,         \* the team of each player in the latest placement
    pending         \* GameLift has not decided the latest placement

vars == <<lobby, told, roster, pending>>

Outcomes == {"cancelled", "timed_out", "failed"}
Member == [player : Players, team : Teams \cup {None}, ready : BOOLEAN, host : BOOLEAN]
NoLobby == [status |-> "gone", capacity |-> 0, names |-> {}, members |-> <<>>]

PlayersOf(members) == {members[i].player : i \in DOMAIN members}
MembersOf(doc) == PlayersOf(doc.members)
Exists == lobby # NoLobby
IsMember(p) == p \in MembersOf(lobby)

Documents(d) ==
    /\ d.status \in {"gone", "idle", "starting", "started"} \cup Outcomes
    /\ d.capacity \in Capacities \cup {0}
    /\ d.names \subseteq Teams
    /\ \A i \in DOMAIN d.members : d.members[i] \in Member
    /\ \A i, j \in DOMAIN d.members : d.members[i].player = d.members[j].player => i = j

TypeOK ==
    /\ Documents(lobby)
    /\ \A p \in Players : Documents(told[p])
    /\ roster \in [Players -> Teams \cup {None}]
    /\ pending \in BOOLEAN

Nobody == [p \in Players |-> None]

Init ==
    /\ lobby = NoLobby
    /\ told = [p \in Players |-> NoLobby]
    /\ roster = Nobody
    /\ pending = FALSE

----------------------------------------------------------------------------
(* Lookups and changes of the document.                                     *)

\* _get_lobby_host_player_id: the first member with the flag.
IsHost(p) == \E i \in DOMAIN lobby.members :
    /\ lobby.members[i].player = p /\ lobby.members[i].host
    /\ \A j \in 1..(i - 1) : ~lobby.members[j].host

\* _lobby_match_initiated
Initiated_Started == lobby.status = "started"                 \* mutant of Initiated
Initiated == lobby.status \in {"starting", "started"}

TeamSize(members, t) == Cardinality({i \in DOMAIN members : members[i].team = t})

\* _can_join_team
CanJoinTeam(t) == TeamSize(lobby.members, t) < lobby.capacity

Map(F(_), members) == [i \in DOMAIN members |-> F(members[i])]

\* The members without p, `[member for member in lobby["members"] if ...]`; p is one of
\* them, once (TypeOK).
Without(members, p) ==
    LET k == CHOOSE i \in DOMAIN members : members[i].player = p
    IN [i \in 1..(Len(members) - 1) |-> members[IF i < k THEN i ELSE i + 1]]

\* The lobby is written and the players in S are told all of it.
Publish(doc, S) ==
    /\ lobby' = doc
    /\ told' = [p \in Players |-> IF p \in S THEN doc
                                  ELSE IF p \in MembersOf(doc) THEN told[p] ELSE NoLobby]

\* The players in S are told what the event has: the members, or the status.
PublishMembers(doc, S) ==
    /\ lobby' = doc
    /\ told' = [p \in Players |-> IF p \in S THEN [told[p] EXCEPT !.members = doc.members]
                                  ELSE IF p \in MembersOf(doc) THEN told[p] ELSE NoLobby]
PublishStatus(doc, S) ==
    /\ lobby' = doc
    /\ told' = [p \in Players |-> IF p \in S THEN [told[p] EXCEPT !.status = doc.status]
                                  ELSE told[p]]

----------------------------------------------------------------------------
(* create_lobby, update_lobby, get_player_lobby and the end of the lobby.   *)

Create(p, capacity, names) ==
    /\ ~Exists
    /\ Publish([status |-> "idle", capacity |-> capacity, names |-> names,
                members |-> <<[player |-> p, team |-> None, ready |-> FALSE, host |-> TRUE]>>],
               {p})
    /\ roster' = Nobody /\ pending' = FALSE

\* "Go over members and enforce new team capacity": a team keeps its first members.
EnforceCapacity_OneMore(members, capacity) ==             \* mutant of EnforceCapacity
    [i \in DOMAIN members |->
        IF TeamSize(SubSeq(members, 1, i - 1), members[i].team) <= capacity
        THEN members[i] ELSE [members[i] EXCEPT !.team = None]]
EnforceCapacity(members, capacity) ==
    [i \in DOMAIN members |->
        IF TeamSize(SubSeq(members, 1, i - 1), members[i].team) < capacity
        THEN members[i] ELSE [members[i] EXCEPT !.team = None]]

\* "Go over members and enforce new team names"
EnforceNames_Not(members, names) == members                   \* mutant of EnforceNames
EnforceNames(members, names) ==
    Map(LAMBDA m : IF m.team \in names THEN m ELSE [m EXCEPT !.team = None], members)

\* Each field may be left out; an empty list of names counts as left out.
Update(p, capacity, names) ==
    LET resized == IF capacity \in {None, lobby.capacity} THEN lobby
                   ELSE [lobby EXCEPT !.capacity = capacity,
                                      !.members = EnforceCapacity(@, capacity)]
        renamed == IF names \in {{}, lobby.names} THEN resized
                   ELSE [resized EXCEPT !.names = names,
                                        !.members = EnforceNames(@, names)]
    IN
    /\ IsHost(p) /\ ~Initiated
    /\ renamed # lobby                                            \* lobby_updated
    /\ Publish(renamed, MembersOf(renamed))
    /\ UNCHANGED <<roster, pending>>

Get(p) ==
    /\ IsMember(p)
    /\ Publish(lobby, {p})
    /\ UNCHANGED <<roster, pending>>

\* delete_lobby, or _process_match_ended once a match has started.
Remove ==
    /\ Exists
    /\ Publish(NoLobby, {})
    /\ roster' = Nobody /\ pending' = FALSE

----------------------------------------------------------------------------
(* join_lobby, leave_lobby, kick_member.                                    *)

\* if not _get_lobby_member(lobby, player_id)
Absent(p) == ~IsMember(p)

\* A joining player gets the lobby as answer, the others the members.
Join(p) ==
    LET doc == [lobby EXCEPT !.members = Append(@, [player |-> p, team |-> None,
                                                    ready |-> FALSE, host |-> FALSE])]
    IN
    /\ Exists /\ Absent(p)
    /\ lobby' = doc
    /\ told' = [q \in Players |-> IF q = p THEN doc
                                  ELSE IF IsMember(q) THEN [told[q] EXCEPT !.members = doc.members]
                                  ELSE told[q]]
    /\ UNCHANGED <<roster, pending>>

\* The oldest member follows a host.  Leaving is refused during the first minute
\* of a start, which is not measured here.
LeaveTold_NotOfNewHost(p, rest) ==                           \* mutant of LeaveTold
    {q \in PlayersOf(rest) : ~IsHost(p)}
LeaveTold(p, rest) == PlayersOf(rest)

Leave(p) ==
    LET left == Without(lobby.members, p)
        rest == IF IsHost(p) /\ left # <<>> THEN [left EXCEPT ![1].host = TRUE] ELSE left
    IN
    /\ IsMember(p)
    /\ \/ /\ rest # <<>>
          /\ PublishMembers([lobby EXCEPT !.members = rest], LeaveTold(p, rest))
          /\ UNCHANGED <<roster, pending>>
       \/ rest = <<>> /\ Remove

Kick(p, q) ==
    LET rest == Without(lobby.members, q) IN
    /\ IsHost(p) /\ p # q /\ IsMember(q)
    /\ PublishMembers([lobby EXCEPT !.members = rest], PlayersOf(rest))
    /\ UNCHANGED <<roster, pending>>

----------------------------------------------------------------------------
(* update_lobby_member.                                                     *)

\* What the handler makes of member m for a team and a ready flag of the request.
\* The team is taken over whether it was full or not; a missing flag is no flag.
Updated(m, team, ready) ==
    LET moved == team # m.team /\ (m.team # None \/ CanJoinTeam(team)) IN
    [m EXCEPT !.team = team, !.ready = ready = TRUE /\ ~moved /\ team # None]

\* The document is written when the team or the flag changed, as the handler counts
\* changes: a full team counts only with a change of the flag, and a flag left out
\* (and not put to False on the way) counts as one.
Changed(m, team, ready) ==
    \/ team # m.team /\ (m.team # None \/ CanJoinTeam(team))
    \/ ready = None /\ team # None
    \/ Updated(m, team, ready).ready # m.ready

UpdateMember(p, q, team, ready) ==
    /\ IsMember(p) /\ (p = q \/ IsHost(p))
    /\ ~Initiated
    /\ team \in lobby.names \cup {None}
    /\ \E i \in DOMAIN lobby.members :
        /\ lobby.members[i].player = q
        /\ Changed(lobby.members[i], team, ready)
        /\ PublishMembers([lobby EXCEPT !.members[i] = Updated(@, team, ready)], MembersOf(lobby))
    /\ UNCHANGED <<roster, pending>>

----------------------------------------------------------------------------
(* The match: start_lobby_match_placement and the queue events.             *)

\* The team of each member goes to GameLift.
RosterOf(members) ==
    [p \in Players |-> IF \E i \in DOMAIN members : members[i].player = p
                       THEN members[CHOOSE i \in DOMAIN members : members[i].player = p].team
                       ELSE None]

\* The host gets the placement as answer, the others an event.
StartMatch(p) ==
    /\ IsHost(p) /\ lobby.status # "starting"
    /\ PublishStatus([lobby EXCEPT !.status = "starting"], MembersOf(lobby))
    /\ roster' = RosterOf(lobby.members)
    /\ pending' = TRUE

\* stop_player_match_placement deletes the placement and leaves the lobby.
StopMatch == pending /\ pending' = FALSE /\ UNCHANGED <<lobby, told, roster>>

\* "If the player is assigned to a team, the player MUST have received a player
\* session": he is not told otherwise.  GameLift places whoever it was asked to.
Fulfilled ==
    /\ pending /\ Exists
    /\ PublishStatus([lobby EXCEPT !.status = "started"],
                     {p \in MembersOf(lobby) : roster[p] # None \/ \E i \in DOMAIN lobby.members :
                         lobby.members[i].player = p /\ lobby.members[i].team = None})
    /\ pending' = FALSE
    /\ UNCHANGED roster

NotFulfilled(outcome) ==
    /\ pending /\ Exists
    /\ PublishStatus([lobby EXCEPT !.status = outcome], MembersOf(lobby))
    /\ pending' = FALSE
    /\ UNCHANGED roster

Next ==
    \/ \E p \in Players :
        \/ \E c \in Capacities, names \in SUBSET Teams : Create(p, c, names)
        \/ \E c \in Capacities \cup {None}, names \in SUBSET Teams : Update(p, c, names)
        \/ Get(p) \/ Join(p) \/ Leave(p) \/ StartMatch(p)
        \/ \E q \in Players : Kick(p, q)
        \/ \E q \in Players, t \in Teams \cup {None}, ready \in BOOLEAN \cup {None} :
              UpdateMember(p, q, t, ready)
    \/ Remove \/ StopMatch \/ Fulfilled
    \/ \E o \in Outcomes : NotFulfilled(o)

Spec == Init /\ [][Next]_vars

----------------------------------------------------------------------------
(* Properties.                                                              *)

\* A player is a member once (TypeOK), and his team is one of the lobby's, through
\* renamings, joins and moves: team names go to the match server, which knows only these
\* (lobbies.py:221 and 364).
TeamsAreNamed ==
    /\ TypeOK
    /\ \A i \in DOMAIN lobby.members : lobby.members[i].team \in lobby.names \cup {None}

\* While a match starts or runs, whoever is in a team was sent to GameLift in that
\* team: he has a player session, and nobody changes sides (lobbies.py:191 and 351,
\* match_placements.py:248-258 and 702-708).
TeamsPlayTheRoster ==
    Initiated => \A i \in DOMAIN lobby.members : LET m == lobby.members[i] IN
        m.team # None => roster[m.player] = m.team

\* Every member was told what the document now says, by his own answers and by the
\* events posted to him (lobbies.py:270, 396, 459, 505 and 651, match_placements.py:320,
\* 716, 788, 837 and 886): no change reaches some members only.
MembersAreTold == \A p \in MembersOf(lobby) : told[p] = lobby

\* A new capacity puts just the surplus of each team out, of the teams that stay
\* (lobbies.py:207-219): the loop that counts leaves as many as fit.
Fitting(size, capacity) == IF size < capacity THEN size ELSE capacity
EvictsTheSurplus ==
    [][lobby.capacity # lobby'.capacity /\ Exists /\ lobby'.members # <<>> =>
        \A t \in lobby'.names : TeamSize(lobby'.members, t) =
            Fitting(TeamSize(lobby.members, t), lobby'.capacity)]_vars
=============================================================================
