------------------------------- MODULE Parties -------------------------------
(****************************************************************************)
(* Parties and party invites: driftbase/parties.py and the handlers of      *)
(* driftbase/api/parties.py.  The state is in Redis.  A request is served   *)
(* by a greenlet that yields at every Redis round trip, and several workers *)
(* run, so requests interleave between round trips; one action is one round *)
(* trip (or several whose merging is justified where it is done).  The code *)
(* uses optimistic transactions: WATCH keys, read them, MULTI ... EXEC;     *)
(* EXEC fails (WatchError) when a watched key was written since.            *)
(****************************************************************************)
EXTENDS Naturals, FiniteSets

CONSTANTS
    Players,        \* player ids
    Requests,       \* request slots: the greenlets serving party requests
    MaxPlayers,     \* max_players_per_party
    MaxParties,     \* bound on ids taken from the counter party:id:
    MaxInvites,     \* bound on ids taken from the counter party_invite:id:
    Faults,         \* TRUE: a request may die between two round trips
    None            \* no player

ASSUME NoneAssumption == None \notin Players
ASSUME BoundAssumption == /\ MaxPlayers \in Nat \ {0, 1}
                          /\ MaxParties \in Nat
                          /\ MaxInvites \in Nat
                          /\ Faults \in BOOLEAN

NoParty  == 0                         \* the key player:ID:party is absent
PartyIds == 1..MaxParties
InviteIds == 1..MaxInvites

VARIABLES
    playerParty,    \* player:PLAYER_ID:party
    members,        \* party:PARTY_ID:players, a set (empty: the key is absent)
    invites,        \* the live party_invite:INVITE_ID hashes
    sent,           \* player:PLAYER_ID:invites, ids of the invites sent
    partySeq,       \* party:id:, the last party id handed out
    inviteSeq,      \* party_invite:id:, the last invite id handed out
    req,            \* what each request slot is doing
    watched,        \* keys each request's connection has under WATCH
    dirty           \* requests one of whose watched keys was written

store == <<playerParty, members, invites, sent, partySeq, inviteSeq>>
vars  == <<playerParty, members, invites, sent, partySeq, inviteSeq,
           req, watched, dirty>>

Invite == [id : InviteIds, from : Players, to : Players]

\* The Redis keys that a transaction can watch.
PlayerKey(p)  == <<"player", p>>
PartyKey(n)   == <<"party", n>>
InviteKey(i)  == <<"invite", i>>
InvitesKey(p) == <<"invites", p>>
Keys == { PlayerKey(p)  : p \in Players }  \cup { PartyKey(n) : n \in PartyIds } \cup
        { InvitesKey(p) : p \in Players } \cup { InviteKey(i) : i \in InviteIds }

PCs == {"idle", "acceptRead", "acceptCount", "acceptFull", "acceptWatch", "acceptExec",
        "leaveRead", "leaveCheck", "leaveExec", "leaveCount", "disbandRead", "disbandExec",
        "inviteRead", "inviteCheck", "inviteExec", "declineRead", "declineExec"}

\* The locals of a request.  Fields a request does not use keep Idle's value.
Request == [pc     : PCs,
            player : Players \cup {None},      \* current_user
            other  : Players \cup {None},      \* inviter (accept), invited player (invite)
            invite : InviteIds \cup {0},       \* invite_id of the URL
            force  : BOOLEAN,                  \* leave_existing_party
            target : PartyIds \cup {NoParty},  \* the inviting player's party, as read
            forming : BOOLEAN,                 \* target is a new id, no party yet
            leaving : PartyIds \cup {NoParty}, \* party_id of leave_party/disband_party
            nested : BOOLEAN,                  \* leave_party called by accept_party_invite
            sent   : SUBSET InviteIds,         \* outstanding_invites
            seen   : SUBSET Players]           \* players read by disband_party

Idle == [pc |-> "idle", player |-> None, other |-> None, invite |-> 0, force |-> FALSE,
         target |-> NoParty, forming |-> FALSE, leaving |-> NoParty, nested |-> FALSE,
         sent |-> {}, seen |-> {}]

TypeOK ==
    /\ playerParty \in [Players -> PartyIds \cup {NoParty}]
    /\ members \in [PartyIds -> SUBSET Players]
    /\ invites \in SUBSET Invite
    /\ sent \in [Players -> SUBSET InviteIds]
    /\ partySeq \in 0..MaxParties
    /\ inviteSeq \in 0..MaxInvites
    /\ req \in [Requests -> Request]
    /\ watched \in [Requests -> SUBSET Keys]
    /\ dirty \in SUBSET Requests

Init ==
    /\ playerParty = [p \in Players |-> NoParty]
    /\ members = [n \in PartyIds |-> {}]
    /\ invites = {}
    /\ sent = [p \in Players |-> {}]
    /\ partySeq = 0
    /\ inviteSeq = 0
    /\ req = [r \in Requests |-> Idle]
    /\ watched = [r \in Requests |-> {}]
    /\ dirty = {}

----------------------------------------------------------------------------
(* WATCH, EXEC and the control flow of a request.                           *)

Watch(r, keys) ==
    /\ watched' = [watched EXCEPT ![r] = keys]
    /\ dirty' = dirty \ {r}

Unwatch(r) == Watch(r, {})

\* The keys whose value a step changes.
Changed ==
    { PlayerKey(p)  : p \in {q \in Players : playerParty'[q] # playerParty[q]} } \cup
    { InvitesKey(p) : p \in {q \in Players : sent'[q] # sent[q]} } \cup
    { PartyKey(n)   : n \in {m \in PartyIds : members'[m] # members[m]} } \cup
    { InviteKey(i)  : i \in {j \in InviteIds : \E v \in invites \cup invites' :
                                v.id = j /\ ~(v \in invites /\ v \in invites')} }

\* EXEC succeeded: every other connection watching a written key is marked, and
\* this one watches nothing.  SET marks its key even when the value is the same:
\* set names those keys.  Conjoined after the primed values of the store.
Commit(r, set) ==
    /\ watched' = [watched EXCEPT ![r] = {}]
    /\ dirty' = (dirty \ {r}) \cup
                {q \in Requests \ {r} : watched[q] \cap (Changed \cup set) # {}}

\* The locals of the request become rec.
Become(r, rec) == req' = [req EXCEPT ![r] = rec]
Goto(r, pc) == Become(r, [req[r] EXCEPT !.pc = pc])
End(r) == Become(r, Idle)
At(r, pc) == req[r].pc = pc

\* except WatchError: pass, then `while time() < end`: try again from the
\* WATCH, or answer 409 when the 10 seconds are over.
Retry(r, pc) ==
    /\ r \in dirty
    /\ Goto(r, pc) \/ End(r)
    /\ Unwatch(r)
    /\ UNCHANGED store

\* The request ends with an answer that changed nothing in this step.
Answer(r) == End(r) /\ Unwatch(r) /\ UNCHANGED store

\* A party at max_players_per_party takes nobody else.
IsFull_Late(n) == Cardinality(members[n]) > MaxPlayers          \* mutant of IsFull
IsFull(n) == Cardinality(members[n]) >= MaxPlayers

----------------------------------------------------------------------------
(* accept_party_invite, PATCH /party-invites/ID.                            *)

\* Where an accept goes on: a party that exists is counted first.
JoinStep(n) == IF n = NoParty THEN "acceptWatch" ELSE "acceptCount"

\* A client accepts a live invite addressed to it and names its sender.  Any
\* other combination is refused by the first read and changes nothing.
StartAccept(r) ==
    /\ At(r, "idle")
    /\ \E v \in invites, force \in BOOLEAN :
          Become(r, [Idle EXCEPT !.pc = "acceptRead", !.player = v.to,
                                     !.other = v.from, !.invite = v.id, !.force = force])
    /\ UNCHANGED <<store, watched, dirty>>

\* WATCH; MULTI; GET, GET, HGETALL; EXEC.  The EXEC only reads and it releases
\* the WATCH: its failure repeats the two steps, so they are one step here.
AcceptRead(r) ==
    LET p == req[r].player
        from == req[r].other
        live == [id |-> req[r].invite, from |-> from, to |-> p] \in invites
        elsewhere == playerParty[p] # NoParty /\ playerParty[p] # playerParty[from]
        read == [req[r] EXCEPT !.target = playerParty[from], !.forming = FALSE]
    IN
    /\ At(r, "acceptRead")
    /\ \/ ~live /\ End(r)                                   \* 404
       \/ live /\ elsewhere /\ ~req[r].force /\ End(r)      \* 400
       \/ /\ live /\ elsewhere /\ req[r].force
          /\ Become(r, [read EXCEPT !.pc = "leaveRead", !.nested = TRUE,
                                                    !.leaving = playerParty[p]])
       \/ /\ live /\ ~elsewhere
          /\ Become(r, [read EXCEPT !.pc = JoinStep(playerParty[from])])
    /\ UNCHANGED <<store, watched, dirty>>

\* len(get_party_members(...)) >= max_players_per_party, on another connection.
AcceptCount(r) ==
    /\ At(r, "acceptCount")
    /\ Goto(r, IF IsFull(req[r].target) THEN "acceptFull" ELSE "acceptWatch")
    /\ UNCHANGED <<store, watched, dirty>>

\* The party is full: the invite is deleted, its id stays in the sender's list.
AcceptFull(r) ==
    /\ At(r, "acceptFull")
    /\ invites' = {v \in invites : v.id # req[r].invite}
    /\ UNCHANGED <<playerParty, members, sent, partySeq, inviteSeq>>
    /\ Commit(r, {})
    /\ End(r)

\* INCR of party:id:, the id it returns being the counter's new value.
PartySeqTaken_NotAdvanced == partySeq                    \* mutant of PartySeqTaken
PartySeqTaken == partySeq + 1

\* The second WATCH, after everything it should protect was read; then INCR of
\* party:id: when the inviting player had no party.
AcceptWatch(r) ==
    /\ At(r, "acceptWatch")
    /\ Watch(r, {InviteKey(req[r].invite), PlayerKey(req[r].player),
                 PlayerKey(req[r].other), InvitesKey(req[r].other)})
    /\ \/ /\ req[r].target # NoParty
          /\ Goto(r, "acceptExec")
          /\ UNCHANGED partySeq
       \/ /\ req[r].target = NoParty
          /\ partySeq < MaxParties
          /\ partySeq' = PartySeqTaken
          /\ Become(r, [req[r] EXCEPT !.pc = "acceptExec", !.target = partySeq + 1,
                                !.forming = TRUE])
    /\ UNCHANGED <<playerParty, members, invites, sent, inviteSeq>>

\* MULTI ... EXEC.  The player_joined message that follows changes no party.
AcceptExec(r) ==
    LET p == req[r].player
        from == req[r].other
        n == req[r].target
        joining == IF req[r].forming THEN {p, from} ELSE {p}
    IN
    /\ At(r, "acceptExec")
    /\ \/ Retry(r, "acceptRead")
       \/ /\ r \notin dirty
          /\ playerParty' = [q \in Players |-> IF q \in joining THEN n ELSE playerParty[q]]
          /\ members' = [members EXCEPT ![n] = @ \cup joining]
          /\ invites' = {v \in invites : v.id # req[r].invite}
          /\ sent' = [sent EXCEPT ![from] = @ \ {req[r].invite}]
          /\ UNCHANGED <<partySeq, inviteSeq>>
          /\ Commit(r, {PlayerKey(q) : q \in joining})
          /\ End(r)

----------------------------------------------------------------------------
(* leave_party and disband_party: DELETE /parties/ID/members/ID, the "client *)
(* deleted" message, and accept_party_invite with leave_existing_party.     *)

\* A request to leave a party the player is not in is refused by the first read.
StartLeave(r) ==
    /\ At(r, "idle")
    /\ \E p \in Players :
          /\ playerParty[p] # NoParty
          /\ Become(r, [Idle EXCEPT !.pc = "leaveRead", !.player = p,
                                                    !.leaving = playerParty[p]])
    /\ UNCHANGED <<store, watched, dirty>>

\* leave_party returned: its caller accept_party_invite goes on, or the request ends.
Return(r) ==
    IF req[r].nested
    THEN Become(r, [Idle EXCEPT
                    !.pc = JoinStep(req[r].target), !.player = req[r].player, !.other = req[r].other,
                    !.invite = req[r].invite, !.force = req[r].force,
                    !.target = req[r].target])
    ELSE End(r)

\* WATCH party set and player key; GET player key.
LeaveRead(r) ==
    /\ At(r, "leaveRead")
    /\ \/ playerParty[req[r].player] # req[r].leaving /\ Answer(r)      \* 400
       \/ /\ playerParty[req[r].player] = req[r].leaving
          /\ Watch(r, {PartyKey(req[r].leaving), PlayerKey(req[r].player)})
          /\ Goto(r, "leaveCheck")
          /\ UNCHANGED store

\* SISMEMBER, then ZRANGE of the player's invites (a key that is not watched).
LeaveCheck(r) ==
    /\ At(r, "leaveCheck")
    /\ \/ /\ req[r].player \notin members[req[r].leaving]
          /\ Return(r)
          /\ Unwatch(r)
       \/ /\ req[r].player \in members[req[r].leaving]
          /\ Become(r, [req[r] EXCEPT !.pc = "leaveExec", !.sent = sent[req[r].player]])
          /\ UNCHANGED <<watched, dirty>>
    /\ UNCHANGED store

LeaveExec(r) ==
    LET p == req[r].player IN
    /\ At(r, "leaveExec")
    /\ \/ Retry(r, "leaveRead")
       \/ /\ r \notin dirty
          /\ invites' = {v \in invites : v.id \notin req[r].sent}
          /\ members' = [members EXCEPT ![req[r].leaving] = @ \ {p}]
          /\ playerParty' = [playerParty EXCEPT ![p] = NoParty]
          /\ sent' = [sent EXCEPT ![p] = {}]
          /\ UNCHANGED <<partySeq, inviteSeq>>
          /\ Commit(r, {})
          /\ Goto(r, "leaveCount")

\* len(members) <= 1
LastMemberLeft_Early(n) == members[n] = {}               \* mutant of LastMemberLeft
LastMemberLeft(n) == Cardinality(members[n]) <= 1

\* get_party_members after the player_left message; at most one left: disband.
\* With nobody left, members[0] raises IndexError after disband_party returned:
\* the request fails there, so a caller is not resumed.
LeaveCount(r) ==
    /\ At(r, "leaveCount")
    /\ \/ ~LastMemberLeft(req[r].leaving) /\ Return(r)
       \/ /\ LastMemberLeft(req[r].leaving)
          /\ Become(r, [req[r] EXCEPT !.pc = "disbandRead",
                                !.nested = @ /\ members[req[r].leaving] # {}])
    /\ UNCHANGED <<store, watched, dirty>>

\* The WATCH of disband_party.
DisbandWatch_Nothing(r) == {}                            \* mutant of DisbandWatch
DisbandWatch(r) == {PartyKey(req[r].leaving)}

\* WATCH party set; SMEMBERS.
DisbandRead(r) ==
    /\ At(r, "disbandRead")
    /\ Watch(r, DisbandWatch(r))
    /\ Become(r, [req[r] EXCEPT !.pc = "disbandExec", !.seen = members[req[r].leaving]])
    /\ UNCHANGED store

\* The players whose party key disband_party deletes, whatever party it names.
Disbanded_NotLeaver(r) == req[r].seen \cap {req[r].player} \* mutant of Disbanded
Disbanded(r) == req[r].seen

DisbandExec(r) ==
    /\ At(r, "disbandExec")
    /\ \/ Retry(r, "disbandRead")
       \/ /\ r \notin dirty
          /\ playerParty' = [p \in Players |-> IF p \in Disbanded(r) THEN NoParty
                                               ELSE playerParty[p]]
          /\ members' = [members EXCEPT ![req[r].leaving] = {}]
          /\ UNCHANGED <<invites, sent, partySeq, inviteSeq>>
          /\ Commit(r, {})
          /\ Return(r)

----------------------------------------------------------------------------
(* create_party_invite and decline_party_invite.                            *)

\* POST /party-invites/; inviting oneself is refused by the handler.  The bound
\* counts the ids the running requests may still take.
StartInvite(r) ==
    /\ At(r, "idle")
    /\ inviteSeq + Cardinality({q \in Requests :
           req[q].pc \in {"inviteRead", "inviteCheck", "inviteExec"}}) < MaxInvites
    /\ \E p, q \in Players :
          /\ p # q
          /\ Become(r, [Idle EXCEPT !.pc = "inviteRead", !.player = p,
                                                    !.other = q])
    /\ UNCHANGED <<store, watched, dirty>>

\* WATCH the invited player's key; GET the inviting player's key.
InviteRead(r) ==
    /\ At(r, "inviteRead")
    /\ Watch(r, {PlayerKey(req[r].other)})
    /\ \/ /\ playerParty[req[r].player] = NoParty
          /\ Become(r, [req[r] EXCEPT !.pc = "inviteExec", !.target = NoParty])
       \/ /\ playerParty[req[r].player] # NoParty
          /\ Become(r, [req[r] EXCEPT !.pc = "inviteCheck",
                                      !.target = playerParty[req[r].player]])
    /\ UNCHANGED store

\* The party is full, or the reading EXEC fails, or the invited player is in the
\* party already, or the invited player's key is put under WATCH once more.
InviteCheck(r) ==
    LET n == req[r].target
        already == req[r].other \in members[n] /\ playerParty[req[r].other] = n
    IN
    /\ At(r, "inviteCheck")
    /\ \/ IsFull(n) /\ Answer(r)                                              \* 400
       \/ ~IsFull(n) /\ Retry(r, "inviteRead")
       \/ ~IsFull(n) /\ r \notin dirty /\ already /\ Answer(r)                \* 400
       \/ /\ ~IsFull(n) /\ r \notin dirty /\ ~already
          /\ Watch(r, {PlayerKey(req[r].other)})
          /\ Goto(r, "inviteExec")
          /\ UNCHANGED store

\* INCR of party_invite:id:.
NewInviteId == inviteSeq + 1

InviteExec(r) ==
    LET i == NewInviteId IN
    /\ At(r, "inviteExec")
    /\ \/ Retry(r, "inviteRead")
       \/ /\ r \notin dirty
          /\ inviteSeq < MaxInvites          \* never blocks: see StartInvite
          /\ inviteSeq' = i
          /\ invites' = invites \cup {[id |-> i, from |-> req[r].player, to |-> req[r].other]}
          /\ sent' = [sent EXCEPT ![req[r].player] = @ \cup {i}]
          /\ UNCHANGED <<playerParty, members, partySeq>>
          /\ Commit(r, {})
          /\ End(r)

\* DELETE /party-invites/ID by the sender or the receiver of a live invite.
StartDecline(r) ==
    /\ At(r, "idle")
    /\ \E v \in invites : \E p \in {v.from, v.to} :
          Become(r, [Idle EXCEPT !.pc = "declineRead", !.player = p,
                                                 !.invite = v.id])
    /\ UNCHANGED <<store, watched, dirty>>

\* WATCH and HGETALL the invite; only its receiver gets past the checks.
DeclineRead(r) ==
    LET mine == {v \in invites : v.id = req[r].invite /\ v.to = req[r].player} IN
    /\ At(r, "declineRead")
    /\ \/ mine = {} /\ Answer(r)                                         \* 404, 403
       \/ \E v \in mine :
             /\ Watch(r, {InviteKey(v.id)})
             /\ Become(r, [req[r] EXCEPT !.pc = "declineExec", !.other = v.from])
             /\ UNCHANGED store

DeclineExec(r) ==
    /\ At(r, "declineExec")
    /\ \/ Retry(r, "declineRead")
       \/ /\ r \notin dirty
          /\ invites' = {v \in invites : v.id # req[r].invite}
          /\ sent' = [sent EXCEPT ![req[r].other] = @ \ {req[r].invite}]
          /\ UNCHANGED <<playerParty, members, partySeq, inviteSeq>>
          /\ Commit(r, {})
          /\ End(r)

----------------------------------------------------------------------------

\* The worker is killed, Redis times out, or a consumer of the player_left
\* message raises (it talks to GameLift): the request stops where it is and its
\* connection is closed.
Die(r) ==
    /\ Faults
    /\ ~At(r, "idle")
    /\ Answer(r)

Serve(r) ==
    \/ AcceptRead(r) \/ AcceptCount(r) \/ AcceptFull(r) \/ AcceptWatch(r) \/ AcceptExec(r)
    \/ LeaveRead(r) \/ LeaveCheck(r) \/ LeaveExec(r) \/ LeaveCount(r)
    \/ DisbandRead(r) \/ DisbandExec(r)
    \/ InviteRead(r) \/ InviteCheck(r) \/ InviteExec(r)
    \/ DeclineRead(r) \/ DeclineExec(r)

Start(r) == StartAccept(r) \/ StartLeave(r) \/ StartInvite(r) \/ StartDecline(r)

Next == \E r \in Requests : Start(r) \/ Serve(r) \/ Die(r)

Spec == Init /\ [][Next]_vars

----------------------------------------------------------------------------
(* Properties.                                                              *)

\* However requests interleave and wherever they die, a player whose party key
\* names a party is in that party's set: nobody is left with a key to a party
\* that was disbanded, which would refuse him every invite and every leave.
PartyKeyHasMember ==
    \A p \in Players : playerParty[p] # NoParty => p \in members[playerParty[p]]

\* A party that a request is about to form belongs to that request alone: the
\* pair it puts together never lands in a party that others formed or joined.
FormedPartyIsFresh ==
    \A r \in Requests : At(r, "acceptExec") /\ req[r].forming =>
        /\ members[req[r].target] = {}
        /\ \A q \in Requests \ {r} : At(q, "acceptExec") => req[q].target # req[r].target

\* The party sets and the players' party keys say the same (holds when requests
\* are served one at a time).
MembersMatchKeys ==
    \A n \in PartyIds : members[n] = {p \in Players : playerParty[p] = n}

\* Between requests no party has a single member (requests one at a time): the
\* one who is left when the others leave is released too.
NoPartyOfOne ==
    (\A r \in Requests : At(r, "idle")) => \A n \in PartyIds : Cardinality(members[n]) # 1

\* What parties promise, PartyRegistry, with a member that is alone counted as
\* having no party: leaving a party of two takes two transactions.
Registry == INSTANCE PartyRegistry WITH
    party <- [p \in Players |->
                 IF playerParty[p] # NoParty /\ ~LastMemberLeft(playerParty[p])
                 THEN playerParty[p] ELSE NoParty]

\* With requests one at a time, every step of this module is a step of the
\* registry or leaves it unchanged.
ImplementsRegistry == Registry!Spec

\* "test_party_is_capped_at_n_members": requests one at a time keep to the cap;
\* accepts that overlap do not, each having counted the members before its WATCH.
PartyIsCapped == \A n \in PartyIds : Cardinality(members[n]) <= MaxPlayers

----------------------------------------------------------------------------
(* The inductive invariant behind the theorems of PartiesProofs.            *)

\* Which locals are set where.
Local(x) ==
    /\ x.pc # "idle" => x.player \in Players
    /\ x.pc \in {"acceptRead", "acceptCount", "acceptFull", "acceptWatch", "acceptExec",
                 "inviteRead", "inviteCheck", "inviteExec", "declineExec"} \/ x.nested
          => x.other \in Players
    /\ x.pc \in {"acceptRead", "acceptCount", "acceptFull", "acceptWatch", "acceptExec",
                 "declineRead", "declineExec"} \/ x.nested
          => x.invite \in InviteIds
    /\ x.pc \in {"acceptCount", "acceptExec", "inviteCheck"} => x.target \in PartyIds
    /\ x.pc \in {"acceptCount", "acceptWatch"} => ~x.forming
    /\ x.pc \in {"leaveRead", "leaveCheck", "leaveExec", "leaveCount",
                 "disbandRead", "disbandExec"} => x.leaving \in PartyIds

LocalOK == \A r \in Requests : Local(req[r])

\* disband_party is about to delete the keys of exactly the members, unless its
\* connection has been marked.
SnapshotOK ==
    \A r \in Requests : At(r, "disbandExec") /\ r \notin dirty =>
        /\ PartyKey(req[r].leaving) \in watched[r]
        /\ req[r].seen = members[req[r].leaving]

\* Only ids that were handed out are in use.
IdsOK ==
    /\ \A p \in Players : playerParty[p] <= partySeq
    /\ \A n \in PartyIds : members[n] # {} => n <= partySeq
    /\ \A r \in Requests : req[r].target <= partySeq

\* An id handed out to form a party is in nobody else's hands.
FreshOK ==
    \A r \in Requests : At(r, "acceptExec") /\ req[r].forming =>
        /\ members[req[r].target] = {}
        /\ \A p \in Players : playerParty[p] # req[r].target
        /\ \A q \in Requests \ {r} : req[q].target # req[r].target
=============================================================================
