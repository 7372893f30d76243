------------------------------- MODULE Lobbies -------------------------------
(****************************************************************************)
(* Membership of lobbies: driftbase/lobbies.py and the handlers of          *)
(* driftbase/api/lobbies.py.  A lobby is a JSON document behind a JsonLock; *)
(* beside it every player has a key naming his lobby, which is written one  *)
(* round trip at a time, some of them before the document and none of them  *)
(* together with it.  One action is one round trip, or one on a document    *)
(* with the others that hold its lock (module JsonLock: the owner of a lock *)
(* works on the latest document, so the document is read here where the     *)
(* code reads its copy).  Teams, ready flags and the match are not here.    *)
(****************************************************************************)
EXTENDS Naturals, FiniteSets

CONSTANTS
    Players,        \* player ids
    LobbyIds,       \* ids that _generate_lobby_id can return
    Requests,       \* request slots: the greenlets serving lobby requests
    MaxJoins,       \* bound on the number of times a lobby is entered
    Eager,          \* TRUE: a player may have several requests under way
    Faults,         \* TRUE: a request may die, a lobby may outlive its hour
    None            \* no lobby, no player, no request

ASSUME NoneAssumption == None \notin Players \cup LobbyIds \cup Requests
ASSUME BoundAssumption == MaxJoins \in Nat \ {0} /\ Eager \in BOOLEAN /\ Faults \in BOOLEAN

VARIABLES
    playerLobby,    \* player:PLAYER_ID:lobby
    lobbies,        \* the lobbies whose document lobby:LOBBY_ID exists
    joined,         \* join_date of each member of each lobby, 0: not a member
    hosts,          \* the members of each lobby whose host flag is set
    clock,          \* the last join_date of each lobby
    used,           \* lobby ids that were given to a lobby
    lockedBy,       \* the request that has the lock of each lobby
    req,            \* what each request slot is doing
    dirty           \* creating requests whose WATCHed player key was written

docs  == <<lobbies, joined, hosts, clock, used>>
store == <<playerLobby, lobbies, joined, hosts, clock, used>>
vars  == <<playerLobby, lobbies, joined, hosts, clock, used, lockedBy, req, dirty>>

\* Waiting for a lock, or not in need of one.
Unlocked == {"idle", "get", "update", "createWatch", "createLock", "delete", "leave",
             "join", "kick"}
\* Holding the lock of the lobby.
Locked == {"drop", "createExec", "createWrite", "deleteKeys", "leaveKey", "leaveWrite",
           "joinKey", "joinWrite", "kickCheck", "kickDrop", "kickKey", "kickWrite"}

Request == [pc     : Unlocked \cup Locked,
            player : Players \cup {None},      \* current_user
            lobby  : LobbyIds \cup {None},     \* lobby_id
            member : Players \cup {None},      \* member_id (kick)
            todo   : SUBSET Players]           \* members whose key is to be deleted

Idle == [pc |-> "idle", player |-> None, lobby |-> None, member |-> None, todo |-> {}]

Members(l) == {p \in Players : joined[l][p] # 0}

TypeOK ==
    /\ playerLobby \in [Players -> LobbyIds \cup {None}]
    /\ lobbies \in SUBSET used
    /\ joined \in [LobbyIds -> [Players -> 0..MaxJoins]]
    /\ hosts \in [LobbyIds -> SUBSET Players]
    /\ clock \in [LobbyIds -> 0..MaxJoins]
    /\ used \in SUBSET LobbyIds
    /\ lockedBy \in [LobbyIds -> Requests \cup {None}]
    /\ req \in [Requests -> Request]
    /\ dirty \in SUBSET Requests
    /\ \A l \in LobbyIds : hosts[l] \subseteq Members(l)

Init ==
    /\ playerLobby = [p \in Players |-> None]
    /\ lobbies = {}
    /\ joined = [l \in LobbyIds |-> [p \in Players |-> 0]]
    /\ hosts = [l \in LobbyIds |-> {}]
    /\ clock = [l \in LobbyIds |-> 0]
    /\ used = {}
    /\ lockedBy = [l \in LobbyIds |-> None]
    /\ req = [r \in Requests |-> Idle]
    /\ dirty = {}

----------------------------------------------------------------------------
(* Requests, locks and player keys.                                         *)

Become(r, rec) == req' = [req EXCEPT ![r] = rec]
Goto(r, pc) == Become(r, [req[r] EXCEPT !.pc = pc])
End(r) == Become(r, Idle)
At(r, pc) == req[r].pc = pc

\* A player has one request under way at a time, or several.
MayStart(r, p) == At(r, "idle") /\ (Eager \/ \A s \in Requests : req[s].player # p)

\* A request of p about lobby l that passed the checks made before the lock.
Start(r, p, l, member, pc) ==
    /\ MayStart(r, p)
    /\ Become(r, [Idle EXCEPT !.pc = pc, !.player = p, !.lobby = l, !.member = member])
    /\ UNCHANGED <<store, lockedBy, dirty>>

\* JsonLock: the lock of l is free, and taken.
Free(l) == lockedBy[l] = None
Acquire(r, l) == Free(l) /\ lockedBy' = [lockedBy EXCEPT ![l] = r]
Release(r) == lockedBy' = [l \in LobbyIds |-> IF lockedBy[l] = r THEN None ELSE lockedBy[l]]

\* The checks made under the lock fail, or it is all the request wanted.
Answer(r) == End(r) /\ Release(r) /\ dirty' = dirty \ {r} /\ UNCHANGED store

\* lobby_id != g.redis.conn.get(player_lobby_key), asked under the lock.
StillIn(r) == playerLobby[req[r].player] = req[r].lobby

\* SET or DEL of the key of p.  A DEL of a missing key marks nobody.
SetKey(r, p, l) ==
    /\ playerLobby' = [playerLobby EXCEPT ![p] = l]
    /\ dirty' = dirty \cup {s \in Requests \ {r} :
                                /\ req[s].pc \in {"createLock", "createExec"}
                                /\ req[s].player = p
                                /\ l # None \/ playerLobby[p] # None}
DelKey(r, p) == SetKey(r, p, None)

----------------------------------------------------------------------------
(* The document.  Its members keep the order of their join_date.            *)

\* sorted(lobby["members"], key=join_date)[0]
Oldest(l, S) == CHOOSE p \in S : \A q \in S : joined[l][p] <= joined[l][q]
Successor_Newest(l, S) ==                                  \* mutant of Successor
    CHOOSE p \in S : \A q \in S : joined[l][q] <= joined[l][p]
Successor(l, S) == Oldest(l, S)

\* The first member whose host flag is set, as _get_lobby_host_player_id finds it.
IsHost(l, p) == hosts[l] # {} /\ p = Oldest(l, hosts[l])

\* The host flags of l after p left and S stayed.
HostsWithout_FlagStays(l, p, S) ==                      \* mutant of HostsWithout
    hosts[l] \cup (IF IsHost(l, p) THEN {Successor(l, S)} ELSE {})
HostsWithout(l, p, S) ==
    (hosts[l] \ {p}) \cup (IF IsHost(l, p) THEN {Successor(l, S)} ELSE {})

RemoveLobby(l) ==
    /\ lobbies' = lobbies \ {l}
    /\ joined' = [joined EXCEPT ![l] = [p \in Players |-> 0]]
    /\ hosts' = [hosts EXCEPT ![l] = {}]
    /\ UNCHANGED <<clock, used>>

RemoveMember(l, p, hostsLeft) ==
    /\ joined' = [joined EXCEPT ![l][p] = 0]
    /\ hosts' = [hosts EXCEPT ![l] = hostsLeft]
    /\ UNCHANGED <<lobbies, clock, used>>

AddMember(l, p, host) ==
    /\ clock[l] < MaxJoins
    /\ clock' = [clock EXCEPT ![l] = clock[l] + 1]
    /\ joined' = [joined EXCEPT ![l][p] = clock[l] + 1]
    /\ hosts' = IF host THEN [hosts EXCEPT ![l] = {p}] ELSE hosts
    /\ lobbies' = lobbies \cup {l}
    /\ used' = used \cup {l}

----------------------------------------------------------------------------
(* get_player_lobby and update_lobby.                                       *)

StartGet(r) == \E p \in Players :
    playerLobby[p] # None /\ Start(r, p, playerLobby[p], None, "get")

StartUpdate(r) == \E p \in Players :
    playerLobby[p] # None /\ Start(r, p, playerLobby[p], None, "update")

\* A lobby that is gone makes both drop the player's key; get also does when the
\* player is not a member (the sanity check of lobbies.py:56).
Stray(r) == \/ req[r].lobby \notin lobbies
            \/ At(r, "get") /\ req[r].player \notin Members(req[r].lobby)

LookLocked(r) ==
    /\ At(r, "get") \/ At(r, "update")
    /\ Free(req[r].lobby)
    /\ \/ /\ StillIn(r) /\ Stray(r)
          /\ Acquire(r, req[r].lobby)
          /\ Goto(r, "drop")
          /\ UNCHANGED <<store, dirty>>
       \/ ~(StillIn(r) /\ Stray(r)) /\ Answer(r)

Drop(r) ==
    /\ At(r, "drop")
    /\ DelKey(r, req[r].player)
    /\ Release(r) /\ End(r)
    /\ UNCHANGED docs

----------------------------------------------------------------------------
(* create_lobby.                                                            *)

\* No party, no matchmaking ticket, no lobby.
StartCreate(r) == \E p \in Players :
    playerLobby[p] = None /\ Start(r, p, None, None, "createWatch")

CreateWatch(r) ==
    /\ At(r, "createWatch")
    /\ Goto(r, "createLock")
    /\ UNCHANGED <<store, lockedBy, dirty>>

\* A new id is locked and has no document.  An id of a lobby that exists is tried
\* again with another one, up to 100 times; an id of a lobby that is gone does
\* not come back (6 characters out of 36).
CreateLock(r) ==
    /\ At(r, "createLock")
    /\ \/ \E l \in LobbyIds \ used :
             /\ Acquire(r, l)
             /\ Become(r, [req[r] EXCEPT !.pc = "createExec", !.lobby = l])
             /\ UNCHANGED <<store, dirty>>
       \/ lobbies # {} /\ Answer(r)

\* MULTI, SET, EXEC: WatchError when the key was written since WATCH.
CreateExec(r) ==
    /\ At(r, "createExec")
    /\ \/ r \in dirty /\ Answer(r)
       \/ /\ r \notin dirty
          /\ SetKey(r, req[r].player, req[r].lobby)
          /\ Goto(r, "createWrite")
          /\ UNCHANGED <<docs, lockedBy>>

CreateWrite(r) ==
    /\ At(r, "createWrite")
    /\ AddMember(req[r].lobby, req[r].player, TRUE)
    /\ Release(r) /\ End(r)
    /\ UNCHANGED <<playerLobby, dirty>>

----------------------------------------------------------------------------
(* delete_lobby.                                                            *)

StartDelete(r) == \E p \in Players :
    playerLobby[p] # None /\ Start(r, p, playerLobby[p], None, "delete")

DeleteLocked(r) == LET l == req[r].lobby IN
    /\ At(r, "delete")
    /\ Free(l)
    /\ \/ /\ StillIn(r) /\ l \in lobbies /\ IsHost(l, req[r].player)
          /\ Acquire(r, l)
          /\ Become(r, [req[r] EXCEPT !.pc = "deleteKeys", !.todo = Members(l) \ hosts[l]])
          /\ UNCHANGED <<store, dirty>>
       \/ ~(StillIn(r) /\ l \in lobbies /\ IsHost(l, req[r].player)) /\ Answer(r)

\* for member in lobby["members"]: if not member["host"]: delete its key
DeleteKey(r) ==
    /\ At(r, "deleteKeys")
    /\ req[r].todo # {}
    /\ LET q == Oldest(req[r].lobby, req[r].todo) IN
        /\ DelKey(r, q)
        /\ Become(r, [req[r] EXCEPT !.todo = req[r].todo \ {q}])
    /\ UNCHANGED <<docs, lockedBy>>

DeleteWrite(r) ==
    /\ At(r, "deleteKeys")
    /\ req[r].todo = {}
    /\ RemoveLobby(req[r].lobby)
    /\ Release(r) /\ End(r)
    /\ UNCHANGED <<playerLobby, dirty>>

----------------------------------------------------------------------------
(* leave_lobby.                                                             *)

StartLeave(r) == \E p \in Players :
    playerLobby[p] # None /\ Start(r, p, playerLobby[p], None, "leave")

\* Refused also while the match of the lobby is starting, whatever the members.
LeaveLocked(r) ==
    /\ At(r, "leave")
    /\ Free(req[r].lobby)
    /\ \/ /\ StillIn(r) /\ req[r].lobby \in lobbies
          /\ Acquire(r, req[r].lobby)
          /\ Goto(r, "leaveKey")
          /\ UNCHANGED <<store, dirty>>
       \/ Answer(r)

LeaveKey(r) ==
    /\ At(r, "leaveKey")
    /\ DelKey(r, req[r].player)
    /\ Goto(r, "leaveWrite")
    /\ UNCHANGED <<docs, lockedBy>>

LeaveWrite(r) ==
    /\ At(r, "leaveWrite")
    /\ LET l == req[r].lobby
           p == req[r].player
           S == Members(l) \ {p} IN
       \/ p \in Members(l) /\ S # {} /\ RemoveMember(l, p, HostsWithout(l, p, S))
       \/ p \in Members(l) /\ S = {} /\ RemoveLobby(l)
       \/ p \notin Members(l) /\ UNCHANGED docs
    /\ Release(r) /\ End(r)
    /\ UNCHANGED <<playerLobby, dirty>>

----------------------------------------------------------------------------
(* join_lobby.                                                              *)

StartJoin(r) == \E p \in Players, l \in LobbyIds :
    playerLobby[p] \in {None, l} /\ Start(r, p, l, None, "join")

\* `if current_lobby_id and lobby_id != current_lobby_id`, asked under the lock.
Elsewhere(r) == playerLobby[req[r].player] \notin {None, req[r].lobby}

JoinLocked(r) == LET l == req[r].lobby IN
    /\ At(r, "join")
    /\ Free(l)
    /\ \/ /\ ~Elsewhere(r) /\ l \in lobbies /\ req[r].player \notin Members(l)
          /\ clock[l] < MaxJoins
          /\ Acquire(r, l)
          /\ Goto(r, "joinKey")
          /\ UNCHANGED <<store, dirty>>
       \/ /\ Elsewhere(r) \/ l \notin lobbies \/ req[r].player \in Members(l)
          /\ Answer(r)

JoinKey(r) ==
    /\ At(r, "joinKey")
    /\ SetKey(r, req[r].player, req[r].lobby)
    /\ Goto(r, "joinWrite")
    /\ UNCHANGED <<docs, lockedBy>>

JoinWrite(r) ==
    /\ At(r, "joinWrite")
    /\ AddMember(req[r].lobby, req[r].player, FALSE)
    /\ Release(r) /\ End(r)
    /\ UNCHANGED <<playerLobby, dirty>>

----------------------------------------------------------------------------
(* kick_member.  LobbyMemberAPI.delete makes it leave_lobby when the member *)
(* is the player.                                                           *)

StartKick(r) == \E p, q \in Players :
    p # q /\ playerLobby[p] # None /\ Start(r, p, playerLobby[p], q, "kick")

KickLocked(r) ==
    /\ At(r, "kick")
    /\ Free(req[r].lobby)
    /\ \/ /\ StillIn(r)
          /\ Acquire(r, req[r].lobby)
          /\ Goto(r, "kickCheck")
          /\ UNCHANGED <<store, dirty>>
       \/ ~StillIn(r) /\ Answer(r)

\* The member's key is read after the player's.
MayKick_Anyone(r) == req[r].lobby \in lobbies                 \* mutant of MayKick
MayKick(r) == req[r].lobby \in lobbies /\ IsHost(req[r].lobby, req[r].player)
SameLobby_Unasked(r) == TRUE                              \* mutant of SameLobby
SameLobby(r) == playerLobby[req[r].member] = req[r].lobby

KickCheck(r) ==
    /\ At(r, "kickCheck")
    /\ \/ /\ SameLobby(r) /\ MayKick(r)
          /\ Goto(r, "kickKey")
          /\ UNCHANGED <<store, lockedBy, dirty>>
       \/ /\ SameLobby(r) /\ req[r].lobby \notin lobbies
          /\ DelKey(r, req[r].player)
          /\ Goto(r, "kickDrop")
          /\ UNCHANGED <<docs, lockedBy>>
       \/ /\ ~SameLobby(r) \/ (req[r].lobby \in lobbies /\ ~MayKick(r))
          /\ Answer(r)

\* The lobby is gone: the member's key goes after the player's.
KickDrop(r) ==
    /\ At(r, "kickDrop")
    /\ DelKey(r, req[r].member)
    /\ Release(r) /\ End(r)
    /\ UNCHANGED docs

KickedPlayer_Kicker(r) == req[r].player                 \* mutant of KickedPlayer
KickedPlayer(r) == req[r].member

KickKey(r) ==
    /\ At(r, "kickKey")
    /\ DelKey(r, KickedPlayer(r))
    /\ Goto(r, "kickWrite")
    /\ UNCHANGED <<docs, lockedBy>>

KickWrite(r) == LET l == req[r].lobby
                    q == req[r].member IN
    /\ At(r, "kickWrite")
    /\ \/ q \in Members(l) /\ RemoveMember(l, q, hosts[l] \ {q})
       \/ q \notin Members(l) /\ UNCHANGED docs
    /\ Release(r) /\ End(r)
    /\ UNCHANGED <<playerLobby, dirty>>

----------------------------------------------------------------------------
(* Faults.                                                                  *)

\* A request dies; the lease of its lock ends.
Die(r) ==
    /\ Faults
    /\ ~At(r, "idle")
    /\ Answer(r)

\* The document's time to live of an hour is over.  No player key has one.
Expire(l) ==
    /\ Faults
    /\ l \in lobbies /\ Free(l)
    /\ RemoveLobby(l)
    /\ UNCHANGED <<playerLobby, lockedBy, req, dirty>>

Starts(r) == StartGet(r) \/ StartUpdate(r) \/ StartCreate(r) \/ StartDelete(r)
             \/ StartLeave(r) \/ StartJoin(r) \/ StartKick(r)
Steps(r) ==
    \/ LookLocked(r) \/ Drop(r)
    \/ CreateWatch(r) \/ CreateLock(r) \/ CreateExec(r) \/ CreateWrite(r)
    \/ DeleteLocked(r) \/ DeleteKey(r) \/ DeleteWrite(r)
    \/ LeaveLocked(r) \/ LeaveKey(r) \/ LeaveWrite(r)
    \/ JoinLocked(r) \/ JoinKey(r) \/ JoinWrite(r)
    \/ KickLocked(r) \/ KickCheck(r) \/ KickDrop(r) \/ KickKey(r) \/ KickWrite(r)

Next == \/ \E r \in Requests : Starts(r) \/ Steps(r) \/ Die(r)
        \/ \E l \in LobbyIds : Expire(l)

Spec == Init /\ [][Next]_vars

----------------------------------------------------------------------------
(* What must hold of memberships.                                           *)

\* Every lobby has members, and exactly one of them is the host: the one who has
\* been there longest.  lobbies.py:624-662 promotes, every other operation looks
\* for the host (`_get_lobby_host_player_id` answers 0 when there is none, and
\* then nobody may update, delete, start or kick).
HostIsOldest ==
    \A l \in lobbies : Members(l) # {} /\ hosts[l] = {Oldest(l, Members(l))}

\* A player whose key names a lobby is one of its members, when nobody has its
\* lock: keys are written before documents (lobbies.py:451, 499, 662), in between
\* the lock is held.
KeyNamesMember ==
    \A p \in Players : playerLobby[p] \in lobbies /\ Free(playerLobby[p])
                            => p \in Members(playerLobby[p])

\* A member of a lobby has the key of that lobby, hence of no other: without it
\* he can neither leave (lobbies.py:295) nor be kicked (lobbies.py:420).
MemberOfOne ==
    \A l \in lobbies, p \in Players : Free(l) /\ p \in Members(l) => playerLobby[p] = l

\* A member of a lobby that goes on or goes away leaves it himself or by an act of
\* the host: the host of kick_member and delete_lobby is looked up under the lock,
\* the document is written round trips later.
RemovedByHostOrSelf ==
    [][\A l \in LobbyIds, p \in Players :
        p \in Members(l) /\ p \notin (Members(l))' /\ ~Free(l)
            => LET q == req[lockedBy[l]].player IN q = p \/ IsHost(l, q)]_vars

----------------------------------------------------------------------------
(* Strengthening of HostIsOldest and RemovedByHostOrSelf: what a request    *)
(* knows of the document it has locked.                                     *)

\* The locals a request has at each place.
Local(x) ==
    /\ x.pc # "idle" => x.player \in Players
    /\ x.pc \notin {"idle", "createWatch", "createLock"} => x.lobby \in LobbyIds
    /\ x.pc \in {"kick", "kickCheck", "kickDrop", "kickKey", "kickWrite"}
            => x.member \in Players \ {x.player}

\* The document of l, locked or not.
DocOK(l) ==
    /\ l \notin lobbies => Members(l) = {}
    /\ l \in lobbies => \E h \in Members(l) :
            hosts[l] = {h} /\ \A q \in Members(l) : joined[l][h] <= joined[l][q]
    /\ \A p, q \in Members(l) :
            joined[l][p] <= clock[l] /\ (joined[l][p] = joined[l][q] => p = q)

\* What r found under the lock is still so.
Known(r) == LET l == req[r].lobby IN
    /\ req[r].pc \in {"createExec", "createWrite"} => l \notin used
    /\ req[r].pc \in {"joinKey", "joinWrite"}
            => l \in lobbies /\ req[r].player \notin Members(l)
    /\ req[r].pc \in {"deleteKeys", "kickKey", "kickWrite"}
            => l \in lobbies /\ hosts[l] = {req[r].player}

LobbyInvariant ==
    /\ TypeOK
    /\ \A r \in Requests : /\ Local(req[r])
                           /\ req[r].pc \in Locked => lockedBy[req[r].lobby] = r
                           /\ Known(r)
    /\ \A l \in LobbyIds : DocOK(l)
=============================================================================
