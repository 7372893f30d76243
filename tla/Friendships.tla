----------------------------- MODULE Friendships -----------------------------
(***************************************************************************)
(* Friends and the invites that make them (api/friendships.py).  A request *)
(* looks at the rows it needs and commits later, so requests of players    *)
(* interleave; the tables have no unique key on the pair of players.       *)
(***************************************************************************)
EXTENDS Naturals, Sequences, FiniteSets

CONSTANTS Friends,       \* the players
          NoFriend,      \* issued_to_player_id of an invite that anybody may use
          MaxInvites,    \* bound on the invites issued
          MaxFriendRows        \* bound on the friendship rows

ASSUME FriendsAssumption == NoFriend \notin Friends /\ {MaxInvites, MaxFriendRows} \subseteq Nat

VARIABLES rows,      \* ck_friendships; player1_id < player2_id makes a pair a set
          invites,   \* ck_friend_invites; a token names its invite
          asks,      \* the request of each player, between its queries and its commit
          raced      \* history: the pairs and the invites that two requests were about at
                     \* the same time

friendVars == <<rows, invites, asks, raced>>

Pairs == {{p, q} : p, q \in Friends} \ {{p} : p \in Friends}
FriendshipRow == [pair : Pairs, active : BOOLEAN]
FriendInvite == [by : Friends, to : Friends \cup {NoFriend}, deleted : BOOLEAN, expired : BOOLEAN]
NoAsk == [type |-> "none"]
FriendAsks == {NoAsk} \cup [type : {"befriend"}, pair : Pairs, invite : 1..MaxInvites, row : 0..MaxFriendRows]
                \cup [type : {"invite"}, pair : {{p, to} : p \in Friends, to \in Friends \cup {NoFriend}}, to : Friends \cup {NoFriend}]

FriendsInit == /\ rows = <<>> /\ invites = <<>> /\ raced = [pairs |-> {}, invites |-> {}]
               /\ asks = [p \in Friends |-> NoAsk]

FriendsTypeOK == /\ rows \in Seq(FriendshipRow) /\ Len(rows) <= MaxFriendRows
                 /\ invites \in Seq(FriendInvite) /\ Len(invites) <= MaxInvites
                 /\ asks \in [Friends -> FriendAsks]
                 /\ raced \in [pairs : SUBSET {{p, to} : p \in Friends, to \in Friends \cup {NoFriend}},
                              invites : SUBSET (1..MaxInvites)]

IsLive(i) == ~invites[i].deleted /\ ~invites[i].expired
Between(i) == {invites[i].by, invites[i].to}

\* The first row of a pair, 0 when there is none.
RowsOf(pair) == {k \in DOMAIN rows : rows[k].pair = pair}
Existing_Active(pair) ==                                      \* mutant of Existing
  LET known == {k \in RowsOf(pair) : rows[k].active}
  IN IF known = {} THEN 0 ELSE CHOOSE k \in known : \A l \in known : k <= l
Existing(pair) == IF RowsOf(pair) = {} THEN 0
                  ELSE CHOOSE k \in RowsOf(pair) : \A l \in RowsOf(pair) : k <= l

Others(p) == {q \in Friends \ {p} : asks[q] # NoAsk}
Using(p, i) == {q \in Others(p) : asks[q].type = "befriend" /\ asks[q].invite = i}

Ask(p, ask) ==
  /\ asks[p] = NoAsk
  /\ asks' = [asks EXCEPT ![p] = ask]
  /\ raced' = [pairs |-> raced.pairs \cup {asks[q].pair : q \in {o \in Others(p) : asks[o].pair = ask.pair}},
               invites |-> raced.invites \cup
                           (IF ask.type = "befriend" /\ Using(p, ask.invite) # {} THEN {ask.invite} ELSE {})]
Answered(p) == asks' = [asks EXCEPT ![p] = NoAsk] /\ UNCHANGED raced

-----------------------------------------------------------------------------
\* POST of a friend with the token of an invite; the token of a personal invite works for
\* whoever has it.  One who is a friend already is told so, and keeps the invite.
BefriendLooks(p, i) ==
  LET pair == {p, invites[i].by}
      row == Existing(pair)
  IN /\ IsLive(i) /\ p # invites[i].by
     /\ row # 0 => ~rows[row].active
     /\ Ask(p, [type |-> "befriend", pair |-> pair, invite |-> i, row |-> row])
     /\ UNCHANGED <<rows, invites>>

Consumed(i) == IF invites[i].to # NoFriend THEN [invites EXCEPT ![i].deleted = TRUE] ELSE invites
Befriended(row, pair) == IF row = 0 THEN Append(rows, [pair |-> pair, active |-> TRUE])
                         ELSE [rows EXCEPT ![row].active = TRUE]

BefriendCommits_NewOnly(p) ==                           \* mutant of BefriendCommits
  /\ asks[p].type = "befriend"
  /\ rows' = Befriended(asks[p].row, asks[p].pair)
  /\ invites' = IF asks[p].row = 0 THEN Consumed(asks[p].invite) ELSE invites
  /\ Answered(p)
BefriendCommits(p) ==
  /\ asks[p].type = "befriend" /\ Len(rows) < MaxFriendRows
  /\ rows' = Befriended(asks[p].row, asks[p].pair)
  /\ invites' = Consumed(asks[p].invite)
  /\ Answered(p)

\* DELETE of a friendship, by either friend.
Unfriend(p, k) ==
  /\ asks[p] = NoAsk /\ p \in rows[k].pair /\ rows[k].active
  /\ rows' = [rows EXCEPT ![k].active = FALSE]
  /\ UNCHANGED <<invites, asks, raced>>

\* _validate_friend_request: not a friend, and no request pending either way.
MayRequest(pair) ==
  /\ Existing(pair) # 0 => ~rows[Existing(pair)].active
  /\ \A i \in DOMAIN invites : Between(i) = pair => ~IsLive(i)

InviteLooks(p, to) ==
  /\ to # p /\ (to # NoFriend => MayRequest({p, to}))
  /\ Ask(p, [type |-> "invite", pair |-> {p, to}, to |-> to])
  /\ UNCHANGED <<rows, invites>>

InviteCommits(p) ==
  /\ asks[p].type = "invite" /\ Len(invites) < MaxInvites
  /\ invites' = Append(invites, [by |-> p, to |-> asks[p].to, deleted |-> FALSE, expired |-> FALSE])
  /\ Answered(p) /\ UNCHANGED rows

\* DELETE of an invite, by its sender or its receiver.
DeleteInvite(p, i) ==
  /\ asks[p] = NoAsk /\ p \in Between(i) /\ ~invites[i].deleted
  /\ invites' = [invites EXCEPT ![i].deleted = TRUE]
  /\ raced' = [raced EXCEPT !.invites = IF Using(p, i) = {} THEN @ ELSE @ \cup {i}]
  /\ UNCHANGED <<rows, asks>>

\* expiry_date is past.
ExpireInvite(i) ==
  /\ ~invites[i].expired /\ invites' = [invites EXCEPT ![i].expired = TRUE]
  /\ UNCHANGED <<rows, asks, raced>>

FriendsNext ==
  \/ \E p \in Friends :
       \/ BefriendCommits(p) \/ InviteCommits(p)
       \/ \E i \in DOMAIN invites : BefriendLooks(p, i) \/ DeleteInvite(p, i)
       \/ \E k \in DOMAIN rows : Unfriend(p, k)
       \/ \E to \in Friends \cup {NoFriend} : InviteLooks(p, to)
  \/ \E i \in DOMAIN invites : ExpireInvite(i)

FriendsSpec == FriendsInit /\ [][FriendsNext]_friendVars

-----------------------------------------------------------------------------
\* A pair no two requests were about at the same time has one friendship row, however
\* often the two fell out and made up, and one friend request under way, from one of them
\* (friendships.py:116-128 and 248-273).
PairsAreSingle ==
  \A pair \in Pairs \ raced.pairs :
    /\ Cardinality(RowsOf(pair)) <= 1
    /\ Cardinality({i \in DOMAIN invites : Between(i) = pair /\ IsLive(i)}) <= 1

\* Nobody becomes the friend of one who did not ask for it: two become friends by an
\* invite of one of them that nobody used up or withdrew before, unless two requests
\* used it at the same time, and a personal invite is used up by that
\* (friendships.py:98-133).
FriendsWereInvited ==
  [][\A pair \in Pairs :
       LET on == \E k \in RowsOf(pair) : rows[k].active
           onAfter == \E k \in DOMAIN rows' : rows'[k].pair = pair /\ rows'[k].active
       IN onAfter /\ ~on =>
            \E p \in pair : /\ asks[p].type = "befriend" /\ asks[p].pair = pair
                           /\ LET i == asks[p].invite
                              IN /\ {invites[i].by} = pair \ {p}
                                 /\ invites[i].deleted => i \in raced.invites
                                 /\ invites[i].to # NoFriend => invites'[i].deleted]_friendVars
=============================================================================
