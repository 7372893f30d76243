# Verification of drift-base

drift-base is the backend of online games: a Flask application served by gevent
workers, with its volatile state in Redis, its durable state in PostgreSQL and its
match servers rented from Amazon GameLift.  A request is a greenlet.  It yields at
every round trip to Redis, the database or GameLift, and several workers run, so
requests interleave at every round trip.  Hardly any of the code is concurrent on
the face of it; nearly all of it is concurrent in fact.

This directory holds TLA+ modules translated from the source, TLC configurations
that check them on small instances, and proofs checked by TLAPS.  `PROJECT.json`
is the index: components, runs, mutants, the map from definitions to source lines,
hazards, findings and theorems.

Paths below are relative to `src/`; `parties.py` without a directory means
`src/driftbase/parties.py`.

## Inventory

| component | state | operations | hard part | what makes it correct |
|---|---|---|---|---|
| **Parties** `parties.py`, `api/parties.py` | Redis: party of a player, set of members, invites, invites sent, two counters | accept, leave, disband, invite, decline | optimistic transactions (WATCH ... EXEC) that read on several connections; leaving is two transactions; a message consumer may raise in the middle | keys and sets agree; a party has 2 to N members; ids are not reused |
| **JsonLock** `utils/redis_utils.py` | a JSON document and a lock key with a lease | `with JsonLock(key) as lock` | the lease ends while its holder is working; the holder dies | no lost update; the lock does not stay taken |
| **Lobby membership** `lobbies.py`, `api/lobbies.py` | a document per lobby behind a JsonLock, a key per player | create, get, update, delete, join, leave, kick | keys and document are written in separate round trips; one lock per lobby, none per player | one host, the oldest member; keys and documents agree; nobody is removed by a stranger |
| **Lobby teams** `lobbies.py` | teams, capacity, ready flags in the document; the clients' picture of it | update lobby, update member | events are posted before the document is written | teams within capacity; clients see the document |
| **Match placements** `match_placements.py` | a placement document, a key per player, the lobby's status | start (lobby, solo, party), stop, queue events, end of match | three kinds of locks in two orders; GameLift answers late, twice or too early | one pending placement per player; lobby and placement agree; no deadlock |
| **FlexMatch** `flexmatch.py`, `api/matchmakers/flexmatch.py` | a ticket per party behind a pointer per player, latencies, bans | start, cancel, accept, events, party and client events | events that are late or belong to an older ticket; keys with different times to live | one live ticket per player; a final state stays final |
| **Match queue** `matchqueue.py` | a row per queued player, statuses of matches | join, leave, process | three steps of a post, pairing under one lock, challenges, players who vanish | nobody is matched twice |
| **Messages** `messages.py` | a stream and two numbers per queue | post, fetch, acknowledge | capped stream, several readers | numbers ascend; nothing is shown twice or skipped |
| **Sandbox** `sandbox.py` | a placement per location | enter, events | polling, races for who asks for the server, waiters at their limit, events and keys that are late | one server per location |
| **Matches** `api/matches.py` | tables of matches, teams, players | create, update, join, leave | count, then insert; unique key | players within the limit; legal changes of status |
| **Clients** `api/clients.py`, `clientsession.py` | a row per client and the user's current one in Redis | register, heartbeat, delete | several devices register at once | a usurped client is let through no more |
| **Friendships** `api/friendships.py` | invites and two-way rows | invite, accept, delete | tokens used twice | symmetry |
| **Journal, game state, tickets** `api/players/` | tables | append, roll back, put, claim | a batch is one transaction per entry; a rollback stops at what was persisted | no game state rests on an entry taken back |
| **Counters** `counters.py` | tables of periods | add, set | read, add, write | no lost count |
| **Servers** `api/servers.py`, `api/machines.py` | rows with a status and the date of a heartbeat | register, update, heartbeat | a server that is silent is dead for good; its match's key is free again | a key is not given to a match while another that has it is on |
| **Accounts** `auth/authenticate.py`, `api/useridentities.py` | identities, users, players | log in, link | look, then insert, without a unique name | one identity per name |
| **Rich presence** `richpresence.py` | a hash per player | set online, set and clear match | read, write, read again, ask for friends | the friends hear of a change |
| **Summaries** `api/players/summary.py` | named values, a row each | put, patch | look, then insert, without a unique name | a put leaves what it was given |
| Machine groups, players' names and groups, events, static data, models | rows, configuration | mostly one statement per request | - | - |

How they interact.  The message bus of the `drift` library runs its consumers
synchronously in the request that publishes: `parties.py:179` calls into
`flexmatch.handle_party_event`, `api/matches.py` into
`match_placements.process_match_message`, `api/clients.py` into parties, friendships
and FlexMatch, and GameLift's queue events into match placements and sandbox.  An
exception in a consumer is an exception in the publisher.  Lobbies look at parties
and at FlexMatch before they are created; match placements lock and change lobbies;
lobbies lock placements to hand out sessions.

## Modules

| module | models | extends |
|---|---|---|
| `Parties` | `parties.py` and the party handlers | |
| `PartyRegistry` | what parties promise: one atomic register | |
| `PartiesProofs` | theorems on `Parties` | `Parties`, TLAPS |
| `JsonLock` | `utils/redis_utils.py` | |
| `JsonLockProofs` | theorems on `JsonLock` | `JsonLock`, TLAPS |
| `Lobbies` | membership in `lobbies.py` | relies on what `JsonLock` proves |
| `LobbiesProofs` | theorems on `Lobbies` | `Lobbies`, TLAPS |
| `LobbyMatch` | `match_placements.py` and the sessions of `lobbies.py`: the lobby, the placements, the players' keys, three kinds of locks, GameLift | relies on `JsonLock`, `Lobbies`, `Parties` |
| `LobbyMatchProofs` | theorems on `LobbyMatch` | `LobbyMatch`, TLAPS |
| `LobbyTeams` | the lobby's document, what its members are told, the teams sent to GameLift | relies on `JsonLock`, `Lobbies`, `LobbyMatch` |
| `LobbyTeamsProofs` | theorems on `LobbyTeams` | `LobbyTeams`, TLAPS |
| `FlexMatchTickets` | tickets and the events of FlexMatch in `flexmatch.py` | relies on `JsonLock`, `Parties` |
| `FlexMatchProofs` | theorems on `FlexMatchTickets` | `FlexMatchTickets`, TLAPS |
| `FlexMatchBans` | `BanInfo` and its use in `flexmatch.py` | |
| `PlayerPlacements` | placements of players and parties and public ones in `match_placements.py` | relies on `LobbyMatch` for the locks |
| `MatchQueue` | `matchqueue.py`, `api/matchqueue.py` | `Subsequences` |
| `Messages` | `messages.py`, `api/messages.py` | |
| `Clients` | `api/clients.py`, `clientsession.py` | |
| `GameServers` | `api/servers.py`, `api/machines.py`, matches and their keys in `api/matches.py` | |
| `MatchPlayers` | the players' endpoints of `api/matches.py` | |
| `Friendships` | `api/friendships.py` | |
| `PlayerState` | journal, game states and tickets in `api/players/` | |
| `Counters` | `counters.py`, `api/players/counters.py` | |
| `CounterLocks` | the row locks of a request of `counters.py` | `Subsequences`; what makes its transaction one step of `Counters` |
| `Subsequences` | the rows a query finds or leaves, in their order | |
| `Sandbox` | `sandbox.py` | |
| `Accounts` | `auth/authenticate.py`, `api/useridentities.py` | |
| `Presence` | `richpresence.py` | |
| `Summaries` | `api/players/summary.py` | |
| `PlayersProofs` | theorems on `Accounts`, `FlexMatchBans`, `Friendships`, `Messages`, `PlayerPlacements`, `PlayerState`, `Summaries` | these seven, TLAPS |
| `MCServices` | the fifteen services from `FlexMatchBans` to `Summaries` side by side | all of them |
| `ServicesProofs` | theorems on `Clients`, `CounterLocks`, `Counters`, `GameServers`, `MatchPlayers`, `MatchQueue`, `Presence`, `Sandbox` and on all fifteen together | `MCServices`, `PlayersProofs` |
| `MCParties`, `MCJsonLock`, `MCLobbies`, `MCLobbyTeams`, `MCLobbyMatch`, `MCFlexMatch` | symmetry sets, initial states for TLC | the module they are named after |

### Parties

`playerParty`, `members`, `invites`, `sent`, `partySeq` and `inviteSeq` are the Redis
keys listed at `parties.py:18-24`.  `req[r]` holds the locals of the greenlet in
slot `r` and where it is; `watched[r]` is what its connection watches and `dirty` are
the slots whose EXEC will fail.  An action is one round trip: `AcceptRead` is the
first transaction of `accept_party_invite` (which only reads, so its WATCH and EXEC
are merged), `AcceptCount` the SMEMBERS on another connection, `AcceptWatch` the
second WATCH with the INCR, `AcceptExec` the MULTI.  `leave_party` is `LeaveRead`,
`LeaveCheck`, `LeaveExec`, `LeaveCount` and then `disband_party`, `DisbandRead` and
`DisbandExec`; the field `nested` says that `accept_party_invite` called it, and
`Return` resumes the caller with the locals it had.  `Retry` is `except WatchError`
with the loop's deadline as an alternative.  `Die` is a request that ends anywhere,
for instance because a consumer of `player_left` raised.

`PartyRegistry` has one variable, the party of each player, and three operations.
`Parties` implements it when requests do not overlap, under the mapping that counts
a member who is alone in his party as having none: leaving a party of two takes two
transactions, and that is where the two levels differ.

### JsonLock

One document, one lock.  `lock` is whose token the lock key holds, `Dead` when the
holder died.  `Acquire`, `Load`, `Body`, `Exit`, `Write`, `Release` are the round trips
of `__enter__` and `__exit__`; `Expire` is the lease.  The constant `Slow` names the
places where a holder may outlive its lease.  `seen[c]` is a history variable: how
often the document had been written when `c` read it.

### Lobbies

A document is `joined`, `hosts` and `clock` of a lobby; a key is `playerLobby`.  An
action is one round trip on a key, or one on a document together with the others
that hold its lock: `JsonLock` proves that the owner of a lock reads and writes the
latest document, so the copy the code works on is not a variable of its own.  The
order of key and document is that of the code: the key is written inside the `with`
statement (`lobbies.py:451`, `499`, `662`, `687-689`), the document when it ends.  `Eager`
says whether a player may have several requests under way, `Faults` whether requests
die and lobbies expire.

### LobbyTeams

The document of one lobby, `lobby`, with its members as a sequence in the order in which
they joined, and `told`, what each player was last told of it: `Publish` is an answer or
event that carries all of it, `PublishMembers` one that carries the members,
`PublishStatus` one that carries the status of the match.  A handler is one action,
because it holds the lock of the lobby from its first look at the document to the write;
a start even keeps it while it waits for GameLift.  `EnforceCapacity` is the closed form
of the loop at `lobbies.py:208-219`: a member stays when fewer than `team_capacity` members
before him are in his team.  `Updated` and `Changed` are `update_lobby_member` with its
three ways to notice a change.  `roster` is the team of each player in the placement that
GameLift was last asked for.

### LobbyMatch

One lobby with fixed members, the players' parties, the placements and what GameLift
knows of them.  A start walks through `Check` and `Drop`
(`_check_existing_match_placement`), `LockLobby`, `LockPlayer` (one lock at a time, in
the order of the ids), `AskGameLift`, `Recheck`, `Save` or `Abandon`, `ReleasePlayers`
and `WriteStarting`; a solo or party start skips the lobby.  A stop is `StopLocked`,
`StopAsk`, `StopKey`, `StopWrite`; an event `Deliver`, `EventLocked`, `EventLobby`,
`EventWrite`; a member who asks for his session `GetLocked`, `EnsureSession`.
`Decide` is GameLift, outside the source: a placement asked for is decided in one of
the `Outcomes`, and one that is being stopped may still be completed.  `Duplicates`
lets it deliver an event twice; `Leases` lets a lock vanish where its owner waits for
another one.

### FlexMatchTickets

`stored[k]` is the ticket under the key of a party or of a player in none, `gl[t]` what
GameLift knows of ticket `t`, `events` what it reported and has not been processed, each
with the players it is still to be applied to.  `KeyOf` is `_get_player_ticket_key`.  A
start is `Start`, which finds the key, and `Issue`, which takes its lock and trusts it;
`CancelActiveTicket`, `ClientDeleted` and `HandlePartyEvent` share `CancelLocked`, whose
`answer` is GameLift's (stopped, temporarily not, permanently not).  `ProcessEvent` applies
an event to one player's ticket: `SearchingEvent`, `PotentialMatchEvent`, `SucceededEvent`,
`CancelledEvent`, `TimeoutEvent`, `FailedEvent`, `BackfillEvent` are the handlers, and they
compare ticket ids exactly where the code does.  Accepting a match only sets fields that GET
returns and is left out.  Assumed of the environment: a ticket's key does not expire, and
backfill does not end, while an event of that ticket is under way; GameLift refuses a stop
for good only for a ticket that is over and has no event under way; a match ends for a player
before he asks for another (`LateEnds = FALSE`): he leaves it, and the backfill for it is
cancelled, and that event processed, before his next start.  Both handlers look at the ticket
under the player's key and not at the match or ticket that ended.

### FlexMatchBans

A clock of ticks, the ban records with the dates of a match's bans and the full ban, and the
ttl of each.  `BanFromMatch` is `ban_player_from_match` with the table of durations
(`BanTimes`), `BanForDuration` the services' ban, `MayStart` what a start asks.  `due` is the
history the property compares with: when the longest ban from a match, and the last full
ban, are over.

### PlayerPlacements

A start is `StartLooks` (existing placement), `StartAsks` (locks taken, GameLift called) and
`StartSaves`, public or for a group; the other requests and GameLift's events are one step.
`Regroup` changes the party at any time, so a placement is saved and told to the players who
were in it when it was asked for.  `heard` is what each player was posted.

### MatchQueue, Messages, Sandbox

`MatchQueue`: a post is `JoinQueue`, `Add`, `PostProcesses`, since it commits twice before it
takes the lock; `Process` is `process_match_queue`: the rows of those
who are still there (`Present`), and a loop over the idle matches (`Filled`), with `Chosen` as the
players it picks for one of them.  A run that raises leaves its row as
"error" (`PostFails`).  `Messages`: a fetch is `Get`, `ReadSeen`, `ReadStream`, `WriteSeen` and `Answer`, and an
answer may be lost; `seen` is what "messages after 0" continues from, `received` what the
client got.  `Sandbox`: one location; a visitor enters, finds no placement, and creates one
under the lock, or waits, and at his limit, counted from his own entry over however many
placements, deletes without the lock whatever is cached by then (`GivesUp`, `Nukes`);
`session` is GameLift's side, `news` its events, which are applied to whatever is cached.
`usurped` is a history variable: the placements whose key was deleted or completed on
account of others.  Not in the model: a lock's lease that ends, an answer of GameLift that is lost,
and keys that expire while GameLift is at work on their placement (the key lives as long as
GameLift's queue tries; a completed one 90 seconds, in which the server registers its match).

### Clients, GameServers, MatchPlayers, Friendships

`Clients`: a registration is `Register`, `Usurp`, `SetCurrent`, `FinishRegistration`, which are
its accesses to the database and to Redis.  `GameServers`: a match asks, looks for its key
under the lock (`Look`, `UniqueKeyInUse`), and commits (`Write`) any status, server and key, while
servers beat, lapse and change to any status; a heartbeat is compared (`BeatLooks`) and committed
(`BeatCommits`) apart.  `woken` is a history variable: the matches with a key that came to be found
without being given it then.  One request of a match and one heartbeat of a server are under way at a
time, the lock is a Redis lock whose holder does not die, and both timeouts are their defaults of 60
seconds.  `MatchPlayers`: an add or a removal looks and commits; a player leaves a match before he
joins another (`~Elsewhere`), for a late removal by the old match would clear what the new one
shows, and the requests of one match come one at a time.  `Friendships`: every
request looks at rows and commits later; `raced` is a history variable with the pairs and
invites two requests were about at once, and with those the properties do not concern
themselves.

### PlayerState, Counters, Accounts, Presence, Summaries

`PlayerState`: a batch of entries is written one transaction at a time (`PostJournal`,
`WriteEntry`) and stops at the first that is refused; `Serialized = TRUE` is the client's duty of
`gamestate.py:119-121`.  `Counters`: a request's list is merged in a loop (`Merged`, `Merge`), and one upsert per
period applies it; that this upsert is one step is what `CounterLocks` shows, where a transaction
locks its rows one by one (`LockRow`) and waits for others; `should` is what the updates one by one
(`OneByOne`) would have made.  `Accounts`: a login
looks for an identity under the lock of its name and commits; a link does so without a lock.
`Presence` is at the grain of a round trip, with any requests of clients and match servers about the
player overlapping; `owed` are the friends not yet sent the presence since it
last changed, `misled` a history variable: a request of a match server set what it had read, and told
nobody, over what another had set in between.  `Summaries`: a PUT looks, saves, and deletes what is left; a PATCH looks and saves
name by name; `replaced` is a history variable with what a PUT that nobody overlapped was given.

## Runs

`tlc -workers 2 -config X.cfg M` for each; all end within about three minutes.

| run | instance | shows |
|---|---|---|
| `MCParties` | 3 players, 2 requests, parties of 3, 4 party ids, 2 invites, deaths | `PartyKeyHasMember`, `FormedPartyIsFresh` under every interleaving of two requests |
| `MCPartiesSerial` | 4 players, 1 request, parties of up to 3, 3 invites | `MembersMatchKeys`, `NoPartyOfOne`, and the refinement `ImplementsRegistry` |
| `MCPartiesCap` | 4 players, 2 requests, a party of two and two invites | **violation**: a party exceeds its cap |
| `MCJsonLock` | 3 clients, 2 writes, deaths, leases that end anywhere but before the write | `LockInvariant`, `NoLostUpdate`, `LockIsFreed` |
| `MCLobbies` | 3 players, 2 lobbies, 2 requests, 4 joins, one request per player | `MemberOfOne`, `KeyNamesMember`, `RemovedByHostOrSelf` |
| `MCLobbiesFaults` | 3 players, 1 lobby, deaths, expiry, several requests per player | `HostIsOldest`, the inductive `LobbyInvariant` |
| `MCLobbyTeams` | 3 players, 2 teams, capacities 1 and 2 | `TeamsAreNamed` with the types, `TeamsPlayTheRoster`, `MembersAreTold`, `EvictsTheSurplus` |
| `MCLobbyMatch` | lobby of 2, a party across it, 2 requests, 2 placements, stops, deletion | `StartInvariant`, `LobbyFollowsItsMatch`, `NothingPendingReplaced` |
| `MCLobbyMatchFreed` | a started lobby, events twice, leases | `LockIsFreed` |
| `MCLobbyMatchStuck` | lobby of 2, 1 placement | **violation**: a lobby that is refused for ever |
| `MCFlexMatch` | 2 players, 1 party; 3 tickets, 2 matches and 2 events under way, or 1 match and a change of party with 2 tickets and 1 event or the other way round; 620,000 states | `SettledAreMatchedOnce` with the types, `CancelIsFinal` |
| `MCServices` | fifteen services, 1.4 million states | see below |

`MCServices` instantiates modules that share no variable; a behaviour picks one of them
(`part`) and the others rest, so the run is fifteen runs one after the other and its
states are their sum.  Where one service calls another, the caller models the effect:
`Clients` and `MatchPlayers` set a presence, `GameServers` does not know players.

| part | instance | states | property |
|---|---|---|---|
| accounts | 3 names, 2 requests, 3 identities, 2 users | 293,000 | `AccountsAreSingle`: one identity per name; one Game Center identity per user unless two links overlapped |
| bans | 3 matches, bans of 1, 2 and 4 ticks, full bans of 1, 3 and 7, expiry after 5 | 14,000 | `BansAreServed`: let in exactly when all bans are over |
| clients | 1 user, 3 clients | 23,000 | `UsurpedIsReplaced` |
| counters | 1 counter, 2 periods, 3 updates | 12,000 | `UpdatesAllApply` |
| locks | 2 requests, 2 players, 2 counters | 148,000 | `CountersDoNotDeadlock` |
| friends | 2 players, 2 invites, 2 rows | 27,000 | `PairsAreSingle`, `FriendsWereInvited` |
| messages | 2 messages, 2 fetches that overlap | 30,000 | `NothingIsSkipped` |
| placements | 2 players, 2 placements | 267,000 | `PlacementsAreTold` |
| presence | 1 friend, 2 requests, of clients or match servers | 102,000 | `FriendsAreTold` |
| queue | 3 players of whom one only challenges and one never does, 2 matches of two on different builds, 3 rows, 1 failed | 107,000 | `FairQueue`: nobody queued twice, challengers alone with each other, matches that were handed out are not handed out again |
| roster | 2 players, 2 matches for one | 12,000 | `RosterIsShown` |
| sandbox | 2 visitors, 3 placements | 50,000 | `OneServerPerLocation`, but for usurped placements |
| servers | 1 machine, 2 servers, 2 matches, 1 key | 235,000 | `KeysAreUnique`, but for woken matches |
| state | 4 journal ids, batches of 2, 2 game states, 1 ticket | 9,000 | `StatesRestOnTheJournal` |
| summary | 2 names, one with 2 values, 2 requests, 2 rows | 82,000 | `PutsMend` |

`TypesOK` is the shape of all of them.  The same properties hold in larger instances that were
checked apart and take too long together: three messages (457,000 states), three players and
matches for two (855,000), three friends (1.1 million), two counters, locks of three
requests (6.2 million), a queue with all its failed rows (703,000) or with every request of
every player (345,000), and a summary with two values of both names (380,000).

The properties of `MCFlexMatch` hold with a change of party, 2 tickets and 2 events under way (1.6
million states), and with three players and one ticket (130,000 states),
where a third player accepts an invite to a party that exists (`AcceptInvite`); with two players
every invite makes a party.

Why the bounds are enough.  Two requests are what every race found here needs: one
that has read and one that writes in between; three players are a host, a guest and
somebody else, four fill a party while two more knock.  Two lobbies are needed to be
in the wrong one, two placements for an older and a newer one,
two tickets likewise and a third to end up with the match of the second, three queued players for two who are matched and one who is not.  Four party ids let a
party be formed, disbanded and formed again under a new id with requests of both ages
under way.  Counters are bounded by constants in the guards (`MaxParties`,
`MaxInvites`, `MaxJoins`, `MaxWrites`, `MaxPlacements`, `MaxTickets`, `MaxRows` and so on, each
with a comment where it is declared; `Bounds` of `MCFlexMatch` is a constraint of the run); a request that would exceed one
does not start or waits, which loses behaviours and adds none.  The theorems hold
without these instances.  Deadlock is not checked: a system in which no request is
under way may rest, and the bounds end every behaviour.

`MCLobbyMatchFreed` and `MCPartiesCap` start in states that `Init` reaches by requests
served one after the other: a lobby whose first match has started, and a party with
outstanding invites.

### Fairness

Safety runs assume none.  `JsonLock!FairSpec`: a client inside the `with` statement goes
on (weak fairness on its steps; a greenlet is scheduled as long as its worker lives,
and its death is an action), and a lease ends (Redis expires keys).  Nothing is fair to
`Acquire`: the client polls, and another one may always be faster, so no property says
that a given client gets in.  `LobbyMatch!Fairness` is the same for `Serve` and
`Expire` of each slot.

## Findings

1. **A party outgrows its cap** (`MCPartiesCap`; `parties.py:72`, against
   `tests/test_parties.py:409`).  The members are counted before the second WATCH, and
   that WATCH leaves out the party's set.
2. **A stopped placement leaves its lobby starting** (`MCLobbyMatchStuck`;
   `match_placements.py:473` against the message at `match_placements.py:209`).

Other differences met while modelling, which no run of this project shows:

- `lobbies.py:88` reads the player's key before the WATCH of line 100: a create and a
  join of one player that overlap leave him in two lobbies.  `MemberOfOne` fails with
  `Eager = TRUE`; `MCLobbies` gives each player one request at a time.
- `lobbies.py:688` deletes the keys of the members but not the host's own: he is refused
  with "You cannot create a lobby while in another lobby" until a get or update drops it.
- A request that dies between a key and its document leaves them apart for good
  (`MemberOfOne` and `KeyNamesMember` with `Faults = TRUE`): nothing repairs a member
  without a key.
- `redis_utils.py:51` says "If we don't own the lock at this point, we don't want to update
  anything"; `owned()` and the write are two round trips, and a lease that ends in between
  lets two clients write.  `NoLostUpdate` fails when `Slow` contains `"write"`.
- A queue event is applied to the lobby without comparing its placement with
  `lobby["placement_id"]` (`match_placements.py:675`).  With `Duplicates = TRUE`
  `LobbyFollowsItsMatch` fails: a repeated event of the first match ends the start of the
  second.
- `lobbies.py:382` assigns the team whether `_can_join_team` said yes or no: a team outgrows
  the capacity ("How many members can be in one team.", `api/lobbies.py:117`).  `LobbyTeams`
  models it so, and its properties on capacity speak of `update_lobby` only.
- A member who is put out of his team by a new capacity or new names stays ready
  (`lobbies.py:219`, `236`); in `update_lobby_member` nobody without a team is ready.
- A start of the lobby overwrites the placement keys of all members
  (`match_placements.py:590`); only the starter's own pending placement is protected.
- `parties.py:305` says "You can only decline invites to or from yourself", and the check
  before it admits the receiver alone; the handler (`api/parties.py:239`) expects the
  sender too.
- Invites that are accepted into a full party stay in their sender's list; invites sent
  between `parties.py:167` and `174` survive their sender's leaving.

FlexMatch:

- `CHANGELOG.md:199` and `api/parties.py:209`: a player who joins a party has his ticket cancelled.
  The inviter's personal ticket, of the time before the party was formed, is not; and after a
  change of party a player may have two tickets working, which is why `SettledAreMatchedOnce` speaks
  of players whose party never changed.
- The succeeded and potential-match handlers do not compare ticket ids (`flexmatch.py:503-643`), and
  a potential match that arrives before the searching event leaves the older `MatchId`.  Leaving a
  match (`handle_match_event`) ignores the match's id and looks at the personal key only: with
  `LateEnds = TRUE` it ends the ticket of the next match.
- The cancel of a backfill ends whatever completed ticket is under the key (`flexmatch.py:653-660`).
  With `LateEnds = TRUE`, three tickets and two matches, `SettledAreMatchedOnce` fails for a party of
  two: the backfill of the first match is cancelled between the two players' turns of the second
  match's "succeeded", so the second ticket counts as over, a third is issued, and the other player's
  turn gives it the second match's session.
- A start trusts the key it found before it took the lock (`flexmatch.py:87-100`).
- A permanent error of GameLift inside `handle_party_event` raises in `parties.py:179` and ends the
  leave request before its disband: a party of one remains.

The services:

- `messages.py:90` says "If there were only expired messages, make sure we skip those"; a fetch
  of a given number of rows whose rows have all expired skips the good ones behind them too
  (`NothingIsSkipped` fails with `Rows = {1}`; the run has no rows given).
- `matchqueue.py`: several groups of challengers may be put on one match; `players[1]` raises when a
  match is for one; a match that was given away and deleted from the queue keeps status "queue"; a
  player whose posts overlap is queued twice.
- A later and shorter full ban replaces a longer one; a full ban whose record was read with
  `banned_only=False` expires after the default hour, since its ttl is not stored.
- `sandbox.py:92` calls `handle_player_session_request` with the queue missing: the visitor who lost
  the race sends GameLift a type as queue name.
- Two servers may be placed for a location.  `sandbox.py:46-58` counts a waiter's 300 seconds from his
  own entry: the first placement fails while he waits, another visitor creates the second before he
  looks again, and at his limit he deletes its key, without the lock, while GameLift is placing it; the
  next visitor creates a third.  Events do not compare placement ids either (`sandbox.py:231`, `247`): a
  failure that arrives late deletes the key of a newer placement, and a late success completes it.
  `OneServerPerLocation` leaves the placements that lost their key this way (`usurped`) out, and TLC finds it violated
  if it does not.
- Two matches that clients find may have one key, when one of them had it before and was not found
  at the time the other asked: a heartbeat compared in time is committed after its server
  lapsed (`servers.py:355-364`); a status is put back, of a server or of a match that had
  ended (`servers.py:318-319`, `matches.py:625-626`); a match is moved to a server that runs; or both
  are posted while their servers are starting, which `matches.py:437-474` does not look at.
  `KeysAreUnique` leaves the matches that come back this way (`woken`) out.
- `api/players/counters.py:195-205`: a list that mixes "count" and "absolute" updates of a counter is
  merged under the type of the first (`UpdatesAllApply` fails with `UniformLists = FALSE`); PATCH and PUT
  of a single counter raise TypeError.  The retry after a deadlock (`counters.py:77-86`) runs in a
  transaction PostgreSQL has aborted; the sort by name keeps it from being needed.
- "FIXME: Figure out why name has no unique constraint" (`models/db.py:93`): a link that overlaps
  with a login is overwritten by it; two links of Game Center identities leave a user with two
  ("A user can have one, and only one game center identity", `useridentities.py:178`).
- A ticket may be claimed twice by requests that overlap; game states and rollbacks that overlap
  are the client's responsibility (`gamestate.py:119-121`; `Serialized = FALSE` breaks `StatesRestOnTheJournal`).
- Joins of one match that overlap pass its capacity (`matches.py:813`); the run has one request per
  match server at a time.
- Two friend requests about one pair that overlap leave two rows, and unfriending then makes one of
  them inactive.
- `clients.py`: a service that deletes a client resets its own presence, not the player's; between
  the check of the current client and its replacement another device may register.
- Joining a public placement deletes the player's placement key whatever it names
  (`match_placements.py:155`), so a player with a pending placement may start another;
  `match_placements.py:353-354` looks up the starter's name for every member of the party.
- `richpresence.py:110` compares a string with a bool, so a change of `is_online` is always announced.
  With the comparison that was meant, requests about it that overlap would lose a change
  as those of match servers do, see next.  A friend may still get an older presence after a newer one.
- Two `set_match_status` that overlap lose a change (`richpresence.py:122-131`): one clears while
  another sets the map that is there, both have read that map; the first writes and posts "", the second
  writes the map back and, having read what it sets, posts nothing.  `FriendsAreTold` leaves such
  a request out (`misled`) until the presence is next posted as it is, and TLC finds it violated if it does not.
- Overlapping PUTs and PATCHes of a summary leave two rows of one name; a PATCH then changes one of
  them and a GET may show the other, until a PUT deletes one.

## Proofs

`tlapm M.tla` on each of the eight modules; every leaf is proved.  The theorems hold for every value
of the constants that satisfies the assumptions declared with them, and where noted under one
hypothesis more, each of which is either a duty of the caller or excludes a behaviour for which TLC
finds the property violated (see Findings).

| theorem | says | besides the constants' assumptions |
|---|---|---|
| `PartiesProofs!TypeCorrect`, `KeysNameParties`, `FormedPartiesAreFresh` | `TypeOK`, `PartyKeyHasMember`, `FormedPartyIsFresh` | - |
| `PartiesProofs!SetsMatchKeys`, `OneAtATimeIsCapped` | `MembersMatchKeys`, `PartyIsCapped` | one request at a time (`OneAtATime`) |
| `PartiesProofs!NobodyIsAlone`, `PartiesImplementRegistry` | `NoPartyOfOne`, `ImplementsRegistry` | one request at a time, none of which dies (`~Faults`) |
| `JsonLockProofs!LockIsSafe`, `UpdatesAreNotLost` | `LockInvariant`, `NoLostUpdate` | no lease ends between `owned()` and the write |
| `LobbiesProofs!HostsAreOldest`, `OnlyHostsRemoveOthers`, `LocksKeepWhatWasFound` | `HostIsOldest`, `RemovedByHostOrSelf`, `LobbyInvariant` | - |
| `LobbiesProofs!MembersHaveTheKey`, `KeysNameLobbies` | `MemberOfOne`, `KeyNamesMember` | one request per player (`~Eager`), no deaths and no expiry (`~Faults`) |
| `LobbyTeamsProofs!TeamsStayNamed`, `MatchesKeepTheirTeams`, `MembersStayTold`, `OnlyTheSurplusGoes` | `TeamsAreNamed`, `TeamsPlayTheRoster`, `MembersAreTold`, `EvictsTheSurplus` | - |
| `LobbyMatchProofs!StartsAreChecked`, `PendingIsNotReplaced` | `StartInvariant`, `NothingPendingReplaced` | no lease ends (`Leases = FALSE`) |
| `LobbyMatchProofs!LobbyShowsItsPlacement` | `LobbyFollowsItsMatch` | no lease ends, events come once (`Duplicates = FALSE`) |
| `FlexMatchProofs!TicketsKeepTheirShape`, `CancelsAreFinal` | `TicketsTypeOK`, `CancelIsFinal` | - |
| `FlexMatchProofs!SettledPlayersAreMatchedOnce` | `SettledAreMatchedOnce` | a match ends for a player before he asks for another (`LateEnds = FALSE`) |
| `ServicesProofs!UsurpedAreReplaced`, `RostersAreShown`, `CountersNeverDeadlock`, `QueueStaysFair` | `UsurpedIsReplaced`, `RosterIsShown`, `CountersDoNotDeadlock`, `FairQueue` | - |
| `ServicesProofs!FriendsAreAlwaysTold`, `KeysStayUnique`, `OneServerAtATime` | `FriendsAreTold`, `KeysAreUnique`, `OneServerPerLocation` | none, but the properties leave out what `misled`, `woken` and `usurped` record, see Findings |
| `ServicesProofs!AllUpdatesApply` | `UpdatesAllApply` | the updates of a counter in a list are of one type (`UniformLists`) |
| `ServicesProofs!ServicesKeepTypes` | `TypesOK` | - |
| `ServicesProofs!ServicesRunAsAlone` | `MCServices` implements the specification of each of its services: the theorems about one of them are true of what the run checks | - |
| `PlayersProofs!PlacementsReachAll`, `AccountsStaySingle`, `BansAreServedInFull`, `PutsAlwaysMend`, `PairsStaySingle`, `FriendsAskedForIt` | `PlacementsAreTold`, `AccountsAreSingle`, `BansAreServed`, `PutsMend`, `PairsAreSingle`, `FriendsWereInvited` | - |
| `PlayersProofs!StatesKeepResting` | `StatesRestOnTheJournal` | the client waits for each answer (`Serialized`) |
| `PlayersProofs!MessagesAreNotSkipped` | `NothingIsSkipped` | no fetch asks for a number of rows (`Rows = {}`) |

What the constants are assumed to be is what the code has there: sentinels ("no client", "no party")
are not among the values they stand apart from, nor is "no ticket" a ticket; bounds are natural numbers; the bans from matches are
6, 15, 30, 60 and 720 minutes (`resources/flexmatch.py:14-24`), so they do not shrink and are shorter than
the life of their record; the failures of a placement are not its other statuses; the sorted names of
counters are distinct; there are finitely many matches, and what is asked of the queue is a player, a token and a build, or none; a name
with a hashed fallback is one of Ethereum, EOS or Cognito (`auth/ethereum.py:69`), not of Game Center.

**Parties.**  `PartyKeyHasMember` is not inductive: a disband that deletes the set of a
party would break it unless it deletes the keys of exactly its members.  `SnapshotOK`
adds that: a request about to EXEC a disband whose connection is not marked watches the
set and has read what it holds now.  `FormedPartyIsFresh` needs that ids only come from
the counter (`IdsOK`) and that an id taken to form a party is in nobody's hands
(`FreshOK`).  `LocalOK` says which locals are set where, since `Return` restores some.
With one request at a time `SerialInvariant` says that no connection is marked, and `Knows` what the
request's locals say of the keys from its reads to its EXEC: that the inviter's party is still the one
counted, that a nested leave is of another party than the one to be joined.  A party of one is a party
its request is clearing (`OneIsCleared`), which a death would leave behind.  The refinement then goes
action by action: forming and joining a party are `Form` and `Join`, the EXEC of a leave is `Leave` of
one player or, from a party of two, of both, and all else stutters, the disband included.

**JsonLock.**  `LockInvariant` is inductive as it stands: who is about to write owns the
lock, and who owns it has read the latest document.  `NoLostUpdate` is a step of it.

**Lobbies.**  `LobbyInvariant` adds to the types what a request that holds a lock knows
of the document (`Known`) and that the document is sound whether locked or not
(`DocOK`): distinct join dates, one host, the oldest.  A removal step then finds the host
it was allowed by.  Keys and documents agree (`KeysInvariant`) but for the players a request under
the lock has dealt with on one side and not on the other (`InTransit`); `KeysKnown` says how far each
request is, `OneEach` that nobody else works for the same player.

**LobbyTeams.**  `TeamsInvariant` joins the four properties: members are in the sequence once, in a
team of the lobby or in none; a placement is pending only while the lobby starts; whoever is a member
was told the document.  Removing one member, promoting the first and putting members out of a team
keep each of them.  That a new capacity leaves as many as fit is a count along the sequence, by the
least counterexample, since a member stays when fewer than the capacity stay before him.

**LobbyMatch.**  `CheckedStays` is the heart: the placement a start found finished stays
finished, because a placement becomes pending only when it is saved, under an id nobody
knows before (`UnsavedIsUnknown`), and the starter's key cannot change to a new placement
while its lock is held (`LocksHeld`).  `FollowInvariant` adds the lobby: a pending placement of a
lobby is the one it shows, or the one a start that has the lobby's lock is about to announce, or one
whose event is about to be written; and an event under way is the only one of its placement.  Without
the last, a late second delivery of an older placement's event makes the lobby "started" while a newer
placement is pending (TLC finds it in 28 steps).

**FlexMatch.**  `TicketsInvariant` has the types of events too: an event of a match names one, so
every handler that sets a status of a match sets its id.  That a cancel is final needs no more: a
ticket is searched for again only under a new id, which is not among those issued.
`SettledInvariant` is about players whose party never changed, and each part needs the others:

- a change of party moves all its members, so a settled player's mates are settled, share his key and
  are the players of his tickets (`MovedTogether`, `TicketsAreShared`), and a start under way has
  found that key (`StartsKnow`);
- a ticket that is over stays over, so that an event that says so is true whenever it arrives
  (`EventsAgree`), and a success is told once (`SuccessIsToldOnce`);
- the ticket GameLift works on is the one under the key, which does not expire or end meanwhile, and
  a success under way finds it there (`Known`);
- tickets are numbered as they are issued (`IssuedInOrder`) and the one under the key is the last, so
  that the end of a match, which the code does not compare with the ticket, meets no newer one.

The last part is where `LateEnds = FALSE` is needed.

**Services.**  Each invariant adds what the requests under way know.  Clients: a registration
that has not named itself the current client was never current.  Match players: who is in a match
or asked for is shown there.  Presence: while friends are owed, some request will still send the
presence as it is, or a match server was misled.  Servers: a request that looked holds the key's lock,
and only woken matches are found under its key.  Sandbox: the key follows the one session at work
that is not usurped, from request to registration.
Placements: GameLift was asked for the players the document has.  Game states: nothing is written
between a put's look and its commit.  Messages: where a fetch continues, nothing lies behind that the
client has not got.  Accounts: a login has its name to itself; links that overlap are known to.
Bans: the record of bans outlives the ban and counts all matches while it lives.  Summaries: a PUT
that is alone knows the rows.  Friends: requests about the same pair or invite are known to be raced.

**Counters: merging.**  `UpdatesAllApply` speaks of two loops over one list.  A loop is a recursive
function, and what holds before it and is kept by each step holds after it (`ThroughTheLoop`,
`LoopEnds`, by the least counterexample): the loops of the model are instances of that.
`MergingChangesNothing` follows both loops over a list at once.  As long as nothing was merged the updates were
no-ops and the value is the old one; then applying what is merged to the old value gives what the
updates so far make of it.  That needs that the updates are of one type, and here is where
`UniformLists` is used: an absolute value that was merged into counts would be added to what is stored.

**Counters: locks.**  A request that writes counters has locked those up to some letter of the
alphabet, and those it has still to lock come after it (`HoldsInOrder`); one that is past its counters holds all of
them (`HoldsCounters`), so its other rows are free, since nobody else has the counters they belong to.
Hence everybody who waits is at its counters, and in a set of requests that wait for each other the
one with the last letter among what they wait for waits for a request that is past that letter, which
waits for none of these.  The alphabet is a finite sequence; the rows are parts of it, for which
`KeptIs` shows that `Kept` keeps the order.  `Kept` is the library's `SelectSeq` by positions: that
one is recursive, and the prover knows nothing of it.

**Match queue.**  `QueueInvariant` is `FairQueue` with the types and with what makes it inductive: a row
names a match exactly if it is matched, and a player whose post has deleted his rows and not yet added
the new one has none but failed ones.  A run fills matches one after
the other (`FilledIsFair`, through the loop): the match to be filled is idle and not filled yet, so no
row names it (`Taken`), the chosen wait, and all of them are challengers or none is
(`PopulateIsFair`).  Leaving, joining a match and vanishing remove rows, and removing rows breaks
nothing (`RemovalIsFair`).

**All services.**  A step of `MCServices` is one of one part and leaves the others alone
(`EachServiceSteps`), so that it implements each of them and the conjunction of their invariants is inductive.
The types of messages and of the player's state are inductive by themselves (`MessagesKeepTypes`,
`StateKeepsTypes`), so `TypesOK` needs neither `Rows = {}` nor `Serialized`.

Proof attempts changed the model in a few places, apart from assumptions that had not been written
down: the initial states of `FlexMatchTickets` had all conjuncts under the quantifier over parties,
which without parties constrained nothing, and the bounds of `MCFlexMatch` hid what `LateEnds` now
says of backfill.  Folds and `SelectSeq`, of which the prover knows nothing, became the loops of
`Counters` and `MatchQueue` and `Kept`, with the same reachable states.

Only model-checked is liveness (`LockIsFreed` of `JsonLock` and of `LobbyMatch`), since ENABLED is out
of the prover's reach.

## Not modelled

Of the modelled components: `set_player_party` (no caller), notifications that no property is about,
URLs, texts, names, maps and custom data, listings, passwords and roles.  Of the others:

- latencies (`flexmatch.py`): a list of numbers per region, capped by Redis, and its average;
- teams of a match (`api/matches.py`): rows written by one server and read by nobody else;
- `add_count` (`counters.py`): called with rows of another service that is not in the repository;
- machine groups, run configurations, commands to daemons, heartbeats of machines, names of players,
  player groups: single statements on rows that nothing else depends on;
- providers of `auth/`: calls to outside services whose answers `Accounts` takes as given;
- events, client logs, analytics, metrics: output; static data and client configuration: read-only
  answers; `models/`, `schemas/`: declarations; `utils/wordlist.py`: a list of words.

The `drift` library, Redis, PostgreSQL, GameLift and FlexMatch are outside the source and modelled as
the source uses them.

## Plan

Done: all components whose requests interleave, and proofs of all properties of the runs but the two
of liveness.  What could come next are the hazards no property covers: a lease that ends between
`owned()` and the write, and joins of one player that overlap.
