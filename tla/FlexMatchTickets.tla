-------------------------- MODULE FlexMatchTickets --------------------------
(***************************************************************************)
(* Matchmaking tickets (flexmatch.py).  Redis holds a ticket under the key *)
(* of a party, or of a player who is in none; GameLift holds the ticket it *)
(* works on, and reports on it with events that arrive in any order.       *)
(*                                                                         *)
(* A handler finds the key from the party the player is in, and then takes *)
(* the lock of that key.  What it does under the lock is one step: others  *)
(* with the same key wait, GameLift's events included, and others with     *)
(* another key work on another ticket.  Parties may change before a lock   *)
(* is taken.  That matters to a start, which trusts the key it found, so a *)
(* start is two steps; the others recognise their ticket by its id.  An    *)
(* event is as many steps as it has players.                               *)
(***************************************************************************)
EXTENDS Naturals, FiniteSets

CONSTANTS Players,
          Parties,      \* ids of parties
          NoParty, NoTicket, NoKey,
          MaxTickets,   \* bound on the tickets issued
          MaxMatches,   \* bound on the matches GameLift proposes
          MaxMoves,     \* bound on the changes of parties
          MaxEvents,    \* bound on the events under way at a time
          LateEnds      \* may a player's match end, with him leaving it or with the
                        \* backfill for it cancelled, after he asked for another

ASSUME TicketsAssumption ==
  /\ MaxTickets \in Nat /\ MaxMatches \in Nat /\ MaxMoves \in Nat /\ MaxEvents \in Nat
  /\ LateEnds \in BOOLEAN
  /\ Players \cap Parties = {} /\ NoParty \notin Parties
  /\ NoKey \notin Players \cup Parties

Keys == Players \cup Parties
Tickets == 1..MaxTickets
Matches == 1..MaxMatches

Searched == {"QUEUED", "SEARCHING", "REQUIRES_ACCEPTANCE"}
LiveStates_Searched == Searched \cup {"COMPLETED"}               \* mutant of LiveStates
LiveStates == Searched \cup {"PLACING", "COMPLETED"}
NonCancelable == {"COMPLETED", "PLACING", "REQUIRES_ACCEPTANCE"}
Expired == {"CANCELLED", "MATCH_COMPLETE", "FAILED", "TIMED_OUT"}

ASSUME NoTicketAssumption ==
  NoTicket \notin [id : Tickets, status : Searched \cup NonCancelable \cup Expired \cup {"CANCELLING"},
                   match : 0..MaxMatches, session : BOOLEAN]

VARIABLES
  party,    \* the party of each player, or NoParty
  stored,   \* the ticket under each key, or NoTicket
  starting, \* the key a start of each player has found, or NoKey
  changed,  \* changes of parties that handle_party_event has not seen to the end
  gl,       \* GameLift's tickets
  matches,  \* number of matches proposed
  events,   \* GameLift's events, each with the players it is still to be applied to
  moves,    \* number of changes of parties
  moved     \* players whose party changed, and those who were in it

ticketVars == <<party, stored, starting, changed, gl, matches, events, moves, moved>>
gamelift == <<gl, matches, events>>
moving == <<party, changed, moves, moved>>

KeyOf(p) == IF party[p] = NoParty THEN p ELSE party[p]
Members(a) == {p \in Players : party[p] = a}
Mates(p) == IF party[p] = NoParty THEN {p} ELSE Members(party[p])

Unissued == [status |-> "none", players |-> {}, match |-> 0, stopped |-> FALSE, accepted |-> {}]
Issued == {t \in Tickets : gl[t].status # "none"}
Working(t) == gl[t].status \in Searched \cup {"PLACING"}
IsPlaced(t) == gl[t].status \in {"COMPLETED", "ENDED"}

TicketsInit ==
  /\ party \in [Players -> Parties \cup {NoParty}]
  /\ \A a \in Parties : Cardinality(Members(a)) # 1
  /\ stored = [k \in Keys |-> NoTicket]
  /\ starting = [p \in Players |-> NoKey]
  /\ gl = [t \in Tickets |-> Unissued]
  /\ matches = 0 /\ moves = 0 /\ events = {} /\ changed = {} /\ moved = {}

-----------------------------------------------------------------------------
\* Requests of players.

Start(p) ==
  /\ \A q \in Players : starting[q] = NoKey
  /\ starting' = [starting EXCEPT ![p] = KeyOf(p)]
  /\ UNCHANGED <<moving, stored, gamelift>>

\* Under the lock: a live ticket is returned, one that is being cancelled refused, and
\* GameLift may decline.  The players are those of the party as it is by then.
Issue(p) ==
  /\ starting[p] # NoKey
  /\ starting' = [starting EXCEPT ![p] = NoKey]
  /\ ~LateEnds => \A e \in events, w \in Tickets \X Mates(p) :
                    e.type = "backfill" => w \notin e.todo
  /\ LET d == stored[starting[p]]
         t == Cardinality(Issued) + 1
     IN \/ UNCHANGED <<stored, gl>>
        \/ /\ d # NoTicket => d.status \notin LiveStates \cup {"CANCELLING"}
           /\ t \in Tickets
           /\ gl' = [gl EXCEPT ![t].status = "QUEUED", ![t].players = Mates(p)]
           /\ stored' = [stored EXCEPT ![starting[p]] =
                 [id |-> t, status |-> "QUEUED", match |-> 0, session |-> FALSE]]
  /\ UNCHANGED <<moving, matches, events>>

\* What GameLift answers to stop_matchmaking.  It may not know a ticket that is over once
\* the events of that ticket have arrived.
HasPending(t) == \E e \in events : t \in e.tickets
StopAnswers(t) == IF Working(t) THEN {"stopped", "temporary"}
                  ELSE IF HasPending(t) THEN {"temporary"} ELSE {"temporary", "permanent"}

Cancelable(d) == d # NoTicket /\ d.status \notin NonCancelable \cup {"CANCELLED", "CANCELLING"}
CancelLocked(k, answer) ==
  IF answer = "stopped"
  THEN /\ stored' = [stored EXCEPT ![k].status = "CANCELLING"]
       /\ gl' = [gl EXCEPT ![stored[k].id].stopped = TRUE]
  ELSE UNCHANGED <<stored, gl>>

CancelActiveTicket(p, t) ==
  /\ LET k == KeyOf(p) IN
     /\ Cancelable(stored[k]) /\ stored[k].id = t
     /\ \E answer \in StopAnswers(t) :
          IF answer = "permanent" THEN stored' = [stored EXCEPT ![k] = NoTicket] /\ UNCHANGED gl
          ELSE CancelLocked(k, answer)
  /\ UNCHANGED <<moving, starting, matches, events>>

ClientDeleted(p) == /\ stored[KeyOf(p)] # NoTicket
                    /\ CancelActiveTicket(p, stored[KeyOf(p)].id)

\* The match is compared with the ticket's, but GameLift is told only the ticket.
UpdateAcceptance(p, t, m, yes) ==
  /\ LET d == stored[KeyOf(p)] IN
     /\ d # NoTicket /\ d.id = t
     /\ d.status = "REQUIRES_ACCEPTANCE" /\ d.match = m
  /\ gl[t].status = "REQUIRES_ACCEPTANCE"
  /\ gl' = [gl EXCEPT ![t].accepted = IF yes THEN @ \cup {p} ELSE {NoKey}]
  /\ UNCHANGED <<moving, stored, starting, matches, events>>

-----------------------------------------------------------------------------
\* Parties change, and handle_party_event runs in the request that changed them.

Move(who, p, a, event) ==
  /\ moves < MaxMoves /\ moves' = moves + 1
  /\ moved' = moved \cup who \cup Members(a)
  /\ changed' = changed \cup {[event |-> event, player |-> p, party |-> a, key |-> p]}
  /\ UNCHANGED <<stored, starting, gamelift>>

\* An accepted invite takes p to the party of the inviter, or makes one of the two; the
\* event names the one who accepted.
AcceptInvite(inviter, p, a) ==
  /\ inviter # p /\ party[p] = NoParty
  /\ party[inviter] = IF Members(a) = {} THEN NoParty ELSE a
  /\ party' = [party EXCEPT ![p] = a, ![inviter] = a]
  /\ Move({p, inviter}, p, a, "player_joined")

LeaveParty(p) ==
  /\ party[p] # NoParty
  /\ party' = [party EXCEPT ![p] = NoParty]
  /\ Move({p}, p, party[p], "player_left")

\* First the ticket under the player's key, then the one under the party's.  A permanent
\* error ends the request.
HandlePartyEvent(c) ==
  /\ c.key # NoKey
  /\ LET next == IF c.key # c.party THEN {[c EXCEPT !.key = c.party]}
                 ELSE IF c.event = "player_left" THEN {[c EXCEPT !.key = NoKey]} ELSE {}
     IN IF Cancelable(stored[c.key])
        THEN \E answer \in StopAnswers(stored[c.key].id) :
               /\ CancelLocked(c.key, answer)
               /\ changed' = (changed \ {c}) \cup IF answer = "permanent" THEN {} ELSE next
        ELSE changed' = (changed \ {c}) \cup next /\ UNCHANGED <<stored, gl>>
  /\ UNCHANGED <<party, moves, moved, starting, matches, events>>

\* The end of leave_party: nobody stays in a party alone.
Disband(c) ==
  /\ c.key = NoKey
  /\ changed' = changed \ {c}
  /\ LET left == Members(c.party) IN
     IF Cardinality(left) <= 1
     THEN /\ party' = [p \in Players |-> IF p \in left THEN NoParty ELSE party[p]]
          /\ moved' = moved \cup left
     ELSE UNCHANGED <<party, moved>>
  /\ UNCHANGED <<moves, stored, starting, gamelift>>

\* handle_match_event: the ticket under the player's own key, whatever match he left.
MatchPlayerLeft(p) ==
  /\ stored[p] # NoTicket
  /\ stored[p].session \/ (LateEnds /\ \E t \in Tickets : IsPlaced(t) /\ p \in gl[t].players)
  /\ stored' = [stored EXCEPT ![p].status = "MATCH_COMPLETE", ![p].session = FALSE]
  /\ UNCHANGED <<moving, starting, gamelift>>

\* The pointer's time to live, a minute and a half or more: by then the events of the
\* ticket have arrived, and one that is neither completed nor over lives longer than
\* GameLift looks for a match.
Expire(k) ==
  /\ stored[k] # NoTicket /\ stored[k].status \in Expired \cup {"COMPLETED"}
  /\ ~HasPending(stored[k].id)
  /\ stored' = [stored EXCEPT ![k] = NoTicket]
  /\ UNCHANGED <<moving, starting, gamelift>>

-----------------------------------------------------------------------------
\* process_flexmatch_event.  d is the ticket found for a player of the event, t the
\* ticket the event names for him.

SearchingEvent(d, t) ==
  IF d.id = t /\ ~d.session /\ d.status \in Searched
  THEN [d EXCEPT !.status = "SEARCHING"] ELSE d

PotentialMatchEvent_Any(d, e) ==                       \* mutant of PotentialMatchEvent
  IF ~d.session /\ d.status # e.next THEN [d EXCEPT !.status = e.next, !.match = e.match] ELSE d
PotentialMatchEvent(d, e) ==
  IF ~d.session /\ d.status \in Searched \cup {"PLACING"} /\ d.status # e.next
  THEN [d EXCEPT !.status = e.next, !.match = e.match] ELSE d

SucceededEvent(d, e) ==
  IF d.session THEN d
  ELSE [d EXCEPT !.status = "COMPLETED", !.match = e.match, !.session = TRUE]

CancelledEvent(d, t) == IF d.id = t THEN [d EXCEPT !.status = "CANCELLED"] ELSE d

\* A ticket with which the match server looked for more players is cancelled.
BackfillEvent(d) ==
  IF d.status = "COMPLETED" THEN [d EXCEPT !.status = "MATCH_COMPLETE"] ELSE d

TimeoutEvent(d, t) == IF d.id = t /\ ~d.session THEN [d EXCEPT !.status = "TIMED_OUT"] ELSE d

FailedEvent(d, t) == IF d.id = t /\ ~d.session THEN [d EXCEPT !.status = "FAILED"] ELSE d

Processed(d, t, e) ==
  CASE e.type = "searching" -> SearchingEvent(d, t)
    [] e.type = "potential match" -> PotentialMatchEvent(d, e)
    [] e.type = "succeeded" -> SucceededEvent(d, e)
    [] e.type = "cancelled" -> CancelledEvent(d, t)
    [] e.type = "backfill" -> BackfillEvent(d)
    [] e.type = "timeout" -> TimeoutEvent(d, t)
    [] e.type = "failed" -> FailedEvent(d, t)

ProcessEvent(e, t, p) ==
  /\ <<t, p>> \in e.todo
  /\ events' = (events \ {e}) \cup
       IF e.todo = {<<t, p>>} THEN {} ELSE {[e EXCEPT !.todo = @ \ {<<t, p>>}]}
  /\ LET k == KeyOf(p) IN
     stored' = IF stored[k] = NoTicket THEN stored
               ELSE [stored EXCEPT ![k] = Processed(@, t, e)]
  /\ UNCHANGED <<moving, starting, gl, matches>>

-----------------------------------------------------------------------------
\* GameLift, of which the code sees the answers and the events.

Report(type, T, m, next) ==
  /\ Cardinality(events) < MaxEvents
  /\ events' = events \cup {[type |-> type, tickets |-> T, match |-> m, next |-> next,
                          todo |-> {w \in T \X Players : w[2] \in gl[w[1]].players}]}
Becomes(T, status, m) ==
  gl' = [t \in Tickets |-> IF t \in T THEN
           [gl[t] EXCEPT !.status = status, !.match = m, !.accepted = {},
                         !.stopped = @ /\ status \in Searched \cup {"PLACING"}]
         ELSE gl[t]]
InMatch(m, status) == {t \in Tickets : gl[t].match = m /\ gl[t].status = status}

GameLiftSearches(t) ==
  /\ gl[t].status = "QUEUED"
  /\ Becomes({t}, "SEARCHING", 0) /\ Report("searching", {t}, 0, "")
  /\ UNCHANGED <<moving, stored, starting, matches>>

GameLiftProposes(T, next) ==
  /\ T # {} /\ matches < MaxMatches /\ matches' = matches + 1
  /\ \A t \in T : gl[t].status = "SEARCHING" /\ ~gl[t].stopped
  /\ \A t, u \in T : t # u => gl[t].players \cap gl[u].players = {}
  /\ Becomes(T, next, matches + 1)
  /\ Report("potential match", T, matches + 1, next)
  /\ UNCHANGED <<moving, stored, starting>>

\* Everybody accepted: on to the placement.  Otherwise a ticket of those who accepted is
\* searched for again and one of those who did not is cancelled.
GameLiftDecides(m) ==
  /\ LET T == InMatch(m, "REQUIRES_ACCEPTANCE")
         agreed == {t \in T : gl[t].accepted = gl[t].players}
     IN IF T # {} /\ agreed = T THEN Becomes(T, "PLACING", m) /\ UNCHANGED events
        ELSE \E t \in T :
               IF t \in agreed THEN Becomes({t}, "SEARCHING", 0) /\ Report("searching", {t}, 0, "")
               ELSE Becomes({t}, "CANCELLED", 0) /\ Report("cancelled", {t}, 0, "")
  /\ UNCHANGED <<moving, stored, starting, matches>>

GameLiftSucceeds(m) ==
  /\ LET T == InMatch(m, "PLACING") IN
     T # {} /\ Becomes(T, "COMPLETED", m) /\ Report("succeeded", T, m, "")
  /\ UNCHANGED <<moving, stored, starting, matches>>

GameLiftGivesUp(t) ==
  /\ \/ gl[t].status = "SEARCHING" /\ Becomes({t}, "TIMED_OUT", 0) /\ Report("timeout", {t}, 0, "")
     \/ gl[t].status = "PLACING" /\ Becomes({t}, "FAILED", 0) /\ Report("failed", {t}, 0, "")
     \/ /\ gl[t].stopped /\ gl[t].status \in Searched
        /\ Becomes({t}, "CANCELLED", 0) /\ Report("cancelled", {t}, 0, "")
  /\ UNCHANGED <<moving, stored, starting, matches>>

\* The match is over, long after the events that made it.
BackfillEnds(t) ==
  /\ gl[t].status = "COMPLETED" /\ ~HasPending(t)
  /\ ~LateEnds => \A u \in Issued : u > t => gl[u].players \cap gl[t].players = {}
  /\ Becomes({t}, "ENDED", gl[t].match) /\ Report("backfill", {t}, 0, "")
  /\ UNCHANGED <<moving, stored, starting, matches>>

-----------------------------------------------------------------------------
TicketsNext ==
  \/ \E p \in Players : \/ Start(p) \/ Issue(p) \/ ClientDeleted(p)
                        \/ LeaveParty(p) \/ MatchPlayerLeft(p)
                        \/ \E t \in Tickets : CancelActiveTicket(p, t)
                        \/ \E t \in Tickets, m \in Matches, yes \in BOOLEAN :
                             UpdateAcceptance(p, t, m, yes)
                        \/ \E q \in Players, a \in Parties : AcceptInvite(q, p, a)
  \/ \E c \in changed : HandlePartyEvent(c) \/ Disband(c)
  \/ \E k \in Keys : Expire(k)
  \/ \E e \in events, t \in Tickets, p \in Players : ProcessEvent(e, t, p)
  \/ \E t \in Tickets : GameLiftSearches(t) \/ GameLiftGivesUp(t) \/ BackfillEnds(t)
  \/ \E T \in SUBSET Tickets, next \in {"REQUIRES_ACCEPTANCE", "PLACING"} :
       GameLiftProposes(T, next)
  \/ \E m \in Matches : GameLiftDecides(m) \/ GameLiftSucceeds(m)

TicketsSpec == TicketsInit /\ [][TicketsNext]_ticketVars

-----------------------------------------------------------------------------
\* The values of the variables; and a ticket that is matched names its match, in
\* whatever order the events arrive (flexmatch.py:530-643).
TicketsTypeOK ==
  /\ party \in [Players -> Parties \cup {NoParty}] /\ starting \in [Players -> Keys \cup {NoKey}]
  /\ stored \in [Keys -> {NoTicket} \cup
       [id : Issued, status : Searched \cup NonCancelable \cup Expired \cup {"CANCELLING"},
        match : 0..matches, session : BOOLEAN]]
  /\ \A k \in Keys : stored[k] # NoTicket =>
       (stored[k].status \in NonCancelable => stored[k].match # 0)
  /\ \A t \in Tickets : gl[t].match \in 0..matches /\ gl[t].players \subseteq Players
  /\ Cardinality(events) <= MaxEvents /\ moves \in 0..MaxMoves /\ moved \subseteq Players

\* A cancel that GameLift took is final: no event of a match that was found meanwhile, and
\* no request, makes players search or wait with that ticket again (flexmatch.py:155-183
\* against 503-580).
CancelIsFinal ==
  [][\A k \in Keys :
       /\ stored[k] # NoTicket /\ stored'[k] # NoTicket
       /\ stored'[k].id = stored[k].id /\ stored[k].status = "CANCELLING"
       => stored'[k].status \notin Searched \cup {"PLACING"}]_ticketVars

OneTicket(p) ==
  Cardinality({t \in Tickets : Working(t) /\ ~gl[t].stopped /\ p \in gl[t].players}) <= 1

SessionIsOwn(p) ==
  LET d == stored[KeyOf(p)] IN
  d # NoTicket /\ d.session => IsPlaced(d.id) /\ d.match = gl[d.id].match

\* The tickets keep their shape (TicketsTypeOK), and a player whose party never changed is
\* matched with one ticket at a time, and the session he is sent to is that of a match his
\* ticket was placed in, never an older ticket's, however he starts and cancels and in
\* whatever order the events of old tickets arrive (flexmatch.py:87-139 and 582-643).
SettledAreMatchedOnce ==
  TicketsTypeOK /\ \A p \in Players \ moved : OneTicket(p) /\ SessionIsOwn(p)
=============================================================================
