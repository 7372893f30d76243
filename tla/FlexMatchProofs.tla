--------------------------- MODULE FlexMatchProofs --------------------------
(****************************************************************************)
(* Theorems about matchmaking tickets, for all sets of players and parties  *)
(* and every bound: the tickets keep their shape whatever events arrive, a  *)
(* cancel is final, and players whose party never changed are matched once. *)
(****************************************************************************)
EXTENDS FlexMatchTickets, FiniteSetTheorems, TLAPS

Statuses == Searched \cup NonCancelable \cup Expired \cup {"CANCELLING"}
EventTypes == {"searching", "potential match", "succeeded", "cancelled", "backfill", "timeout", "failed"}
GameLiftStatuses == {"none", "PLACING", "COMPLETED", "ENDED", "CANCELLED", "TIMED_OUT", "FAILED"} \cup Searched

\* A ticket in Redis: a ticket that is matched names its match.
TicketOK(d) == /\ d \in [id : Issued, status : Statuses, match : 0..matches, session : BOOLEAN]
               /\ d.status \in NonCancelable => d.match # 0

\* An event that tells of a match names it, and what becomes of its tickets.
EventOK(e) == /\ e \in [type : EventTypes, tickets : SUBSET Tickets, match : 0..matches,
                        next : {"", "REQUIRES_ACCEPTANCE", "PLACING"}, todo : SUBSET (Tickets \X Players)]
              /\ e.type \in {"potential match", "succeeded"} => e.match # 0
              /\ e.type = "potential match" => e.next # ""

StoredOK == /\ stored = [k \in Keys |-> stored[k]]
            /\ \A k \in Keys : stored[k] # NoTicket => TicketOK(stored[k])
GameLiftOK == /\ matches \in 0..MaxMatches
              /\ gl \in [Tickets -> [status : GameLiftStatuses, players : SUBSET Players, match : 0..matches,
                                     stopped : BOOLEAN, accepted : SUBSET (Players \cup {NoKey})]]
EventsOK == /\ IsFiniteSet(events) /\ Cardinality(events) <= MaxEvents
            /\ \A e \in events : EventOK(e)
MovingOK == /\ party \in [Players -> Parties \cup {NoParty}]
            /\ moves \in 0..MaxMoves /\ moved \subseteq Players
            /\ \A c \in changed : c \in [event : {"player_joined", "player_left"}, player : Players,
                                         party : Parties, key : Keys \cup {NoKey}]

TicketsInvariant == /\ starting \in [Players -> Keys \cup {NoKey}]
                    /\ MovingOK /\ StoredOK /\ GameLiftOK /\ EventsOK

LEMMA InvariantImpliesTypeOK == TicketsInvariant => TicketsTypeOK
  <1> SUFFICES ASSUME TicketsInvariant PROVE TicketsTypeOK
    OBVIOUS
  <1>1. \A t \in Tickets : gl[t].match \in 0..matches /\ gl[t].players \subseteq Players
    BY DEF TicketsInvariant, GameLiftOK
  <1>2. \A k \in Keys : stored[k] # NoTicket =>
          (stored[k].status \in NonCancelable => stored[k].match # 0)
    BY DEF TicketsInvariant, StoredOK, TicketOK
  <1>3. stored \in [Keys -> {NoTicket} \cup
          [id : Issued, status : Statuses, match : 0..matches, session : BOOLEAN]]
    BY DEF TicketsInvariant, StoredOK, TicketOK
  <1>4. QED
    BY <1>1, <1>2, <1>3 DEF TicketsInvariant, TicketsTypeOK, MovingOK, EventsOK, Statuses

LEMMA KeysOfPlayers == ASSUME MovingOK, NEW p \in Players PROVE KeyOf(p) \in Keys
  BY DEF MovingOK, KeyOf, Keys

LEMMA TicketsStart == TicketsInit => TicketsInvariant
  <1> SUFFICES ASSUME TicketsInit PROVE TicketsInvariant
    OBVIOUS
  <1>1. starting \in [Players -> Keys \cup {NoKey}] /\ MovingOK
    <2>1. starting \in [Players -> Keys \cup {NoKey}]
      BY DEF TicketsInit
    <2>2. party \in [Players -> Parties \cup {NoParty}] /\ moved = {} /\ changed = {}
      BY DEF TicketsInit
    <2>3. moves \in 0..MaxMoves
      BY TicketsAssumption DEF TicketsInit
    <2>4. QED
      BY <2>1, <2>2, <2>3 DEF MovingOK
  <1>2. StoredOK
    BY DEF TicketsInit, StoredOK
  <1>3. GameLiftOK
    <2>1. matches \in 0..MaxMatches /\ 0 \in 0..matches
      BY TicketsAssumption DEF TicketsInit
    <2>2. gl = [t \in Tickets |-> Unissued]
      BY DEF TicketsInit
    <2>3. QED
      BY <2>1, <2>2 DEF GameLiftOK, Unissued, GameLiftStatuses
  <1>4. EventsOK
    <2>1. events = {} /\ IsFiniteSet({}) /\ Cardinality({}) = 0
      BY FS_EmptySet DEF TicketsInit
    <2>2. QED
      BY <2>1, TicketsAssumption DEF EventsOK
  <1>5. QED
    BY <1>1, <1>2, <1>3, <1>4 DEF TicketsInvariant

\* Once issued a ticket stays so, and matches are only added: what was sound stays so.
Grows == Issued \subseteq Issued' /\ matches \in Nat /\ matches' \in Nat /\ matches <= matches'

LEMMA SoundStays ==
    ASSUME Grows
    PROVE  /\ \A d : TicketOK(d) => TicketOK(d)'
           /\ \A e : EventOK(e) => EventOK(e)'
  <1>1. 0..matches \subseteq 0..matches'
    BY DEF Grows
  <1>2. ASSUME NEW d, TicketOK(d) PROVE TicketOK(d)'
    BY <1>1, <1>2 DEF Grows, TicketOK
  <1>3. ASSUME NEW e, EventOK(e) PROVE EventOK(e)'
    BY <1>1, <1>3 DEF EventOK
  <1>4. QED
    BY <1>2, <1>3

LEMMA SameTickets ==
    ASSUME TicketsInvariant, UNCHANGED matches,
           \A t \in Tickets : gl'[t].status = gl[t].status
    PROVE  Grows
  BY TicketsAssumption DEF Grows, Issued, TicketsInvariant, GameLiftOK

\* A ticket that is being cancelled is not searched for nor placed again.
StaysCancelled(k) ==
  /\ stored[k] # NoTicket /\ stored'[k] # NoTicket
  /\ stored'[k].id = stored[k].id /\ stored[k].status = "CANCELLING"
  => stored'[k].status \notin Searched \cup {"PLACING"}

LEMMA StoredStays ==
    ASSUME TicketsInvariant, Grows, UNCHANGED stored
    PROVE  StoredOK' /\ \A k \in Keys : StaysCancelled(k)
  <1>1. StoredOK'
    BY SoundStays DEF TicketsInvariant, StoredOK
  <1>2. \A k \in Keys : StaysCancelled(k)
    BY DEF StaysCancelled, Searched
  <1>3. QED
    BY <1>1, <1>2

LEMMA StoredChanges ==
    ASSUME TicketsInvariant, Grows, NEW k \in Keys, NEW d,
           stored' = [stored EXCEPT ![k] = d],
           d # NoTicket => TicketOK(d)',
           stored[k] # NoTicket /\ stored[k].status = "CANCELLING" /\ d # NoTicket /\ d.id = stored[k].id
             => d.status \notin Searched \cup {"PLACING"}
    PROVE  StoredOK' /\ \A j \in Keys : StaysCancelled(j)
  <1>1. /\ \A j \in Keys : stored'[j] = IF j = k THEN d ELSE stored[j]
        /\ stored' = [j \in Keys |-> stored'[j]]
    BY DEF TicketsInvariant, StoredOK
  <1>2. \A j \in Keys : stored'[j] # NoTicket => TicketOK(stored[j])'
    BY <1>1, SoundStays DEF TicketsInvariant, StoredOK
  <1>3. StoredOK'
    BY <1>1, <1>2 DEF StoredOK
  <1>4. \A j \in Keys : StaysCancelled(j)
    BY <1>1 DEF StaysCancelled, Searched
  <1>5. QED
    BY <1>3, <1>4

LEMMA EventsStay ==
    ASSUME TicketsInvariant, Grows, UNCHANGED events
    PROVE  EventsOK'
  BY SoundStays DEF TicketsInvariant, EventsOK

\* One more element, within a bound.
LEMMA OneMore ==
    ASSUME NEW S, IsFiniteSet(S), NEW e, NEW max \in Nat, Cardinality(S) < max
    PROVE  IsFiniteSet(S \cup {e}) /\ Cardinality(S \cup {e}) <= max
  <1>1. IsFiniteSet(S \cup {e}) /\ Cardinality(S \cup {e}) \in {Cardinality(S), Cardinality(S) + 1}
    BY FS_AddElement
  <1>2. Cardinality(S) \in Nat
    BY FS_CardinalityType
  <1>3. QED
    BY <1>1, <1>2

\* What the parts of GameLift do.
LEMMA GameLiftBecomes ==
    ASSUME TicketsInvariant, NEW T, NEW status \in GameLiftStatuses \ {"none"},
           matches' \in 0..MaxMatches, matches <= matches', NEW m \in 0..matches',
           Becomes(T, status, m)
    PROVE  GameLiftOK' /\ Grows
  <1>1. matches \in Nat /\ matches' \in Nat /\ 0..matches \subseteq 0..matches'
    BY TicketsAssumption DEF TicketsInvariant, GameLiftOK
  <1> DEFINE Row == [status : GameLiftStatuses, players : SUBSET Players, match : 0..matches',
                     stopped : BOOLEAN, accepted : SUBSET (Players \cup {NoKey})]
             still == status \in Searched \cup {"PLACING"}
             Next(r) == [r EXCEPT !.status = status, !.match = m, !.accepted = {},
                                  !.stopped = r.stopped /\ still]
  <1>2. ASSUME NEW t \in Tickets PROVE gl[t] \in Row
    BY <1>1 DEF TicketsInvariant, GameLiftOK
  <1>3. \A r \in Row : Next(r) \in Row /\ Next(r).status = status
    <2> HIDE DEF still
    <2> SUFFICES ASSUME NEW r \in Row PROVE Next(r) \in Row /\ Next(r).status = status
      OBVIOUS
    <2> DEFINE stops == r.stopped /\ still
    <2>1. stops \in BOOLEAN
      OBVIOUS
    <2> HIDE DEF stops
    <2>2. [r EXCEPT !.status = status, !.match = m, !.accepted = {}, !.stopped = stops] \in Row
      BY <2>1
    <2>3. [r EXCEPT !.status = status, !.match = m, !.accepted = {}, !.stopped = stops].status = status
      BY <2>1
    <2>4. QED
      BY <2>2, <2>3 DEF stops
  <1>4. gl' = [t \in Tickets |-> IF t \in T THEN Next(gl[t]) ELSE gl[t]]
    BY DEF Becomes
  <1> HIDE DEF Next
  <1>5. gl' \in [Tickets -> Row]
    BY <1>2, <1>3, <1>4
  <1>6. \A t \in Tickets : gl'[t].status = "none" => gl[t].status = "none"
    BY <1>2, <1>3, <1>4
  <1>7. QED
    BY <1>1, <1>5, <1>6 DEF GameLiftOK, Grows, Issued

LEMMA Reports ==
    ASSUME TicketsInvariant, Grows, NEW type \in EventTypes, NEW T \in SUBSET Tickets,
           NEW m \in 0..matches', NEW next \in {"", "REQUIRES_ACCEPTANCE", "PLACING"},
           type \in {"potential match", "succeeded"} => m # 0,
           type = "potential match" => next # "",
           Report(type, T, m, next)
    PROVE  EventsOK'
  <1>1. PICK todo : todo = {w \in T \X Players : w[2] \in gl[w[1]].players}
    OBVIOUS
  <1>2. PICK e : e = [type |-> type, tickets |-> T, match |-> m, next |-> next, todo |-> todo]
    OBVIOUS
  <1>3. events' = events \cup {e} /\ Cardinality(events) < MaxEvents
    BY <1>1, <1>2 DEF Report
  <1>6. EventOK(e)'
    <2>1. todo \in SUBSET (Tickets \X Players)
      BY <1>1
    <2>2. QED
      BY <1>2, <2>1 DEF EventOK
  <1>4. \A f \in events' : EventOK(f)'
    BY <1>3, <1>6, SoundStays DEF TicketsInvariant, EventsOK
  <1>5. IsFiniteSet(events') /\ Cardinality(events') <= MaxEvents
    BY <1>3, OneMore, TicketsAssumption DEF TicketsInvariant, EventsOK
  <1>7. QED
    BY <1>4, <1>5 DEF EventsOK

----------------------------------------------------------------------------
\* The steps, by what they change.

StepOK == TicketsInvariant' /\ \A k \in Keys : StaysCancelled(k)

LEMMA SameGameLift ==
    ASSUME TicketsInvariant, UNCHANGED <<gl, matches>>
    PROVE  Grows /\ GameLiftOK'
  <1>1. GameLiftOK'
    BY DEF TicketsInvariant, GameLiftOK
  <1>2. \A t \in Tickets : gl'[t].status = gl[t].status
    OBVIOUS
  <1>3. QED
    BY <1>1, <1>2, SameTickets

\* GameLift goes on by itself.
LEMMA GameLiftSteps ==
    ASSUME TicketsInvariant, NEW T, NEW status \in GameLiftStatuses \ {"none"},
           matches' \in 0..MaxMatches, matches <= matches', NEW m \in 0..matches',
           Becomes(T, status, m), UNCHANGED <<moving, stored, starting>>,
           Grows => EventsOK'
    PROVE  StepOK
  <1>1. GameLiftOK' /\ Grows
    BY GameLiftBecomes
  <1>2. StoredOK' /\ \A k \in Keys : StaysCancelled(k)
    BY <1>1, StoredStays
  <1>3. EventsOK'
    BY <1>1
  <1>4. MovingOK' /\ starting' \in [Players -> Keys \cup {NoKey}]
    BY DEF TicketsInvariant, MovingOK, moving
  <1>5. QED
    BY <1>1, <1>2, <1>3, <1>4 DEF StepOK, TicketsInvariant

LEMMA GameLiftNext ==
    ASSUME TicketsInvariant,
           \/ \E t \in Tickets : GameLiftSearches(t) \/ GameLiftGivesUp(t) \/ BackfillEnds(t)
           \/ \E T \in SUBSET Tickets, next \in {"REQUIRES_ACCEPTANCE", "PLACING"} :
                GameLiftProposes(T, next)
           \/ \E m \in Matches : GameLiftDecides(m) \/ GameLiftSucceeds(m)
    PROVE  StepOK
  <1>1. matches \in Nat /\ matches <= MaxMatches /\ MaxMatches \in Nat /\ 0 \in 0..matches
    BY TicketsAssumption DEF TicketsInvariant, GameLiftOK
  <1>2. ASSUME NEW t \in Tickets, NEW status \in GameLiftStatuses \ {"none"}, NEW type \in EventTypes,
               NEW m \in 0..matches, type \notin {"potential match", "succeeded"},
               Becomes({t}, status, m), Report(type, {t}, 0, ""),
               UNCHANGED <<moving, stored, starting, matches>>
        PROVE  StepOK
    <2>1. /\ {t} \in SUBSET Tickets
          /\ 0 \in 0..matches' /\ m \in 0..matches' /\ matches' \in 0..MaxMatches /\ matches <= matches'
      <3>1. matches' = matches
        BY <1>2
      <3>2. QED
        BY <1>1, <3>1
    <2>2. Grows => EventsOK'
      BY <1>2, <2>1, Reports
    <2>3. QED
      BY <1>2, <2>1, <2>2, GameLiftSteps
  <1>3. ASSUME NEW t \in Tickets, GameLiftSearches(t) \/ GameLiftGivesUp(t) \/ BackfillEnds(t)
        PROVE  StepOK
    <2>1. gl[t].match \in 0..matches
      BY DEF TicketsInvariant, GameLiftOK
    <2>2. CASE GameLiftSearches(t)
      BY <1>1, <1>2, <2>2 DEF GameLiftSearches, GameLiftStatuses, Searched, EventTypes
    <2>3. CASE GameLiftGivesUp(t)
      BY <1>1, <1>2, <2>3 DEF GameLiftGivesUp, GameLiftStatuses, Searched, EventTypes
    <2>4. CASE BackfillEnds(t)
      BY <1>2, <2>1, <2>4 DEF BackfillEnds, GameLiftStatuses, Searched, EventTypes
    <2>5. QED
      BY <1>3, <2>2, <2>3, <2>4
  <1>4. ASSUME NEW T \in SUBSET Tickets, NEW next \in {"REQUIRES_ACCEPTANCE", "PLACING"},
               GameLiftProposes(T, next)
        PROVE  StepOK
    <2>1. /\ matches < MaxMatches /\ matches' = matches + 1
          /\ Becomes(T, next, matches + 1) /\ Report("potential match", T, matches + 1, next)
          /\ UNCHANGED <<moving, stored, starting>>
      BY <1>4 DEF GameLiftProposes
    <2>2. /\ matches' \in 0..MaxMatches /\ matches <= matches'
          /\ matches' \in 0..matches' /\ matches' # 0
      <3>1. matches' = matches + 1 /\ matches < MaxMatches
        BY <2>1
      <3>2. QED
        BY <1>1, <3>1
    <2>3. Grows => EventsOK'
      BY <2>1, <2>2, Reports DEF EventTypes
    <2>4. next \in GameLiftStatuses \ {"none"}
      BY DEF GameLiftStatuses, Searched
    <2>5. QED
      BY <2>1, <2>2, <2>3, <2>4, GameLiftSteps
  <1>5. ASSUME NEW m \in Matches, GameLiftDecides(m) PROVE StepOK
    <2> DEFINE T == InMatch(m, "REQUIRES_ACCEPTANCE")
    <2>1. UNCHANGED <<moving, stored, starting, matches>>
      BY <1>5 DEF GameLiftDecides
    <2>2. T \subseteq Tickets /\ \A t \in T : m \in 0..matches
      BY DEF InMatch, TicketsInvariant, GameLiftOK
    <2>3. CASE T # {} /\ Becomes(T, "PLACING", m) /\ UNCHANGED events
      <3>1. m \in 0..matches' /\ matches' \in 0..MaxMatches /\ matches <= matches'
        BY <1>1, <2>1, <2>2, <2>3
      <3>2. "PLACING" \in GameLiftStatuses \ {"none"}
        BY DEF GameLiftStatuses
      <3>3. Grows => EventsOK'
        BY <2>3, EventsStay
      <3>4. QED
        BY <2>1, <2>3, <3>1, <3>2, <3>3, GameLiftSteps
    <2>4. ASSUME NEW t \in T,
                 \/ Becomes({t}, "SEARCHING", 0) /\ Report("searching", {t}, 0, "")
                 \/ Becomes({t}, "CANCELLED", 0) /\ Report("cancelled", {t}, 0, "")
          PROVE  StepOK
      BY <1>1, <1>2, <2>1, <2>2, <2>4 DEF GameLiftStatuses, Searched, EventTypes
    <2>5. QED
      BY <1>5, <2>3, <2>4 DEF GameLiftDecides
  <1>6. ASSUME NEW m \in Matches, GameLiftSucceeds(m) PROVE StepOK
    <2> DEFINE T == InMatch(m, "PLACING")
    <2>1. /\ T # {} /\ Becomes(T, "COMPLETED", m) /\ Report("succeeded", T, m, "")
          /\ UNCHANGED <<moving, stored, starting, matches>>
      BY <1>6 DEF GameLiftSucceeds
    <2>2. T \in SUBSET Tickets /\ m \in 0..matches
      BY <2>1 DEF InMatch, TicketsInvariant, GameLiftOK
    <2>3. m \in 0..matches' /\ m # 0 /\ matches' \in 0..MaxMatches /\ matches <= matches'
      <3>1. matches' = matches /\ m \in 0..matches
        BY <2>1, <2>2
      <3>2. QED
        BY <1>1, <3>1 DEF Matches
    <2> HIDE DEF T
    <2>4. Grows => EventsOK'
      BY <2>1, <2>2, <2>3, Reports DEF EventTypes
    <2>5. "COMPLETED" \in GameLiftStatuses \ {"none"}
      BY DEF GameLiftStatuses
    <2>6. QED
      BY <2>1, <2>3, <2>4, <2>5, GameLiftSteps
  <1>7. QED
    BY <1>3, <1>4, <1>5, <1>6

\* Under the lock of key k: nothing, or the ticket is being cancelled from now on.
LEMMA CancelSteps ==
    ASSUME TicketsInvariant, NEW k \in Keys, NEW answer, Cancelable(stored[k]),
           \/ CancelLocked(k, answer)
           \/ stored' = [stored EXCEPT ![k] = NoTicket] /\ UNCHANGED gl,
           UNCHANGED <<matches, events, moves, starting>>, MovingOK'
    PROVE  StepOK
  <1>1. stored[k] # NoTicket /\ TicketOK(stored[k])
    BY DEF Cancelable, TicketsInvariant, StoredOK
  <1>2. /\ gl' = gl \/ gl' = [gl EXCEPT ![stored[k].id].stopped = TRUE]
        /\ \/ UNCHANGED stored
           \/ stored' = [stored EXCEPT ![k] = NoTicket]
           \/ stored' = [stored EXCEPT ![k].status = "CANCELLING"]
    BY DEF CancelLocked
  <1>3. stored[k].id \in Tickets
    BY <1>1 DEF TicketOK, Issued
  <1>4. /\ GameLiftOK'
        /\ \A t \in Tickets : gl'[t].status = gl[t].status
    <2>1. CASE gl' = gl
      BY <2>1 DEF TicketsInvariant, GameLiftOK
    <2>2. CASE gl' = [gl EXCEPT ![stored[k].id].stopped = TRUE]
      <3>1. PICK t \in Tickets : t = stored[k].id
        BY <1>3
      <3>2. gl' = [gl EXCEPT ![t].stopped = TRUE]
        BY <2>2, <3>1
      <3>3. QED
        BY <3>2 DEF TicketsInvariant, GameLiftOK
    <2>3. QED
      BY <1>2, <2>1, <2>2
  <1>5. Grows
    BY <1>4, SameTickets
  <1>6. StoredOK' /\ \A j \in Keys : StaysCancelled(j)
    <2>1. CASE UNCHANGED stored
      BY <1>5, <2>1, StoredStays
    <2>2. CASE stored' = [stored EXCEPT ![k] = NoTicket]
      BY <1>5, <2>2, StoredChanges
    <2>3. CASE stored' = [stored EXCEPT ![k].status = "CANCELLING"]
      <3>1. PICK d : d = [stored[k] EXCEPT !.status = "CANCELLING"]
        OBVIOUS
      <3>2. TicketOK(d) /\ d.status = "CANCELLING"
        BY <1>1, <3>1 DEF TicketOK, Statuses, NonCancelable
      <3>3. TicketOK(d)' /\ d.status \notin Searched \cup {"PLACING"}
        BY <1>5, <3>2, SoundStays DEF Searched
      <3>4. stored' = [stored EXCEPT ![k] = d]
        BY <2>3, <3>1
      <3>5. QED
        BY <1>5, <3>3, <3>4, StoredChanges
    <2>4. QED
      BY <1>2, <2>1, <2>2, <2>3
  <1>7. EventsOK' /\ starting' \in [Players -> Keys \cup {NoKey}]
    BY <1>5, EventsStay DEF TicketsInvariant
  <1>8. QED
    BY <1>4, <1>6, <1>7 DEF StepOK, TicketsInvariant

LEMMA Cancels ==
    ASSUME TicketsInvariant, NEW p \in Players, NEW t, CancelActiveTicket(p, t)
    PROVE  StepOK
  <1>1. KeyOf(p) \in Keys /\ MovingOK'
    BY KeysOfPlayers DEF TicketsInvariant, MovingOK, CancelActiveTicket, moving
  <1>2. PICK answer \in StopAnswers(t) :
          IF answer = "permanent" THEN stored' = [stored EXCEPT ![KeyOf(p)] = NoTicket] /\ UNCHANGED gl
          ELSE CancelLocked(KeyOf(p), answer)
    BY DEF CancelActiveTicket
  <1>3. Cancelable(stored[KeyOf(p)]) /\ UNCHANGED <<matches, events, moves, starting>>
    BY DEF CancelActiveTicket, moving
  <1>4. QED
    BY <1>1, <1>2, <1>3, CancelSteps

\* What leaves the tickets alone.
LEMMA TicketsRest ==
    ASSUME TicketsInvariant, UNCHANGED <<stored, gl, matches, events>>, MovingOK',
           starting' \in [Players -> Keys \cup {NoKey}]
    PROVE  StepOK
  <1>1. Grows /\ GameLiftOK'
    BY SameGameLift
  <1>2. StoredOK' /\ \A k \in Keys : StaysCancelled(k)
    BY <1>1, StoredStays
  <1>3. EventsOK'
    BY <1>1, EventsStay
  <1>4. QED
    BY <1>1, <1>2, <1>3 DEF StepOK, TicketsInvariant

LEMMA Moves ==
    ASSUME TicketsInvariant,
           \/ \E q, p \in Players, a \in Parties : AcceptInvite(q, p, a)
           \/ \E p \in Players : LeaveParty(p)
           \/ \E c \in changed : Disband(c)
    PROVE  StepOK
  <1>1. ASSUME NEW who \in SUBSET Players, NEW p \in Players, NEW a \in Parties,
               NEW event \in {"player_joined", "player_left"},
               party' \in [Players -> Parties \cup {NoParty}], Move(who, p, a, event)
        PROVE  StepOK
    <2>1. moves' \in 0..MaxMoves
      <3>1. MaxMoves \in Nat /\ moves \in 0..MaxMoves
        BY TicketsAssumption DEF TicketsInvariant, MovingOK
      <3>2. moves < MaxMoves /\ moves' = moves + 1
        BY <1>1 DEF Move
      <3>3. QED
        BY <3>1, <3>2
    <2>2. Members(a) \subseteq Players /\ moved' = moved \cup who \cup Members(a)
      BY <1>1 DEF Members, Move
    <2>3. PICK c : c = [event |-> event, player |-> p, party |-> a, key |-> p]
      OBVIOUS
    <2>4. changed' = changed \cup {c}
      BY <1>1, <2>3 DEF Move
    <2>5. c \in [event : {"player_joined", "player_left"}, player : Players,
                 party : Parties, key : Keys \cup {NoKey}]
      BY <2>3 DEF Keys
    <2>6. MovingOK'
      BY <1>1, <2>1, <2>2, <2>4, <2>5 DEF MovingOK, TicketsInvariant
    <2>7. UNCHANGED <<stored, gl, matches, events, starting>>
      BY <1>1 DEF Move, gamelift
    <2>8. QED
      BY <2>6, <2>7, TicketsRest DEF TicketsInvariant
  <1>2. ASSUME NEW q \in Players, NEW p \in Players, NEW a \in Parties, AcceptInvite(q, p, a)
        PROVE  StepOK
    <2>1. {p, q} \in SUBSET Players /\ Move({p, q}, p, a, "player_joined")
      BY <1>2 DEF AcceptInvite
    <2>2. party' \in [Players -> Parties \cup {NoParty}]
      BY <1>2 DEF AcceptInvite, TicketsInvariant, MovingOK
    <2>3. QED
      BY <1>1, <2>1, <2>2
  <1>3. ASSUME NEW p \in Players, LeaveParty(p) PROVE StepOK
    <2>1. party[p] \in Parties /\ Move({p}, p, party[p], "player_left")
      BY <1>3 DEF LeaveParty, TicketsInvariant, MovingOK
    <2>2. party' \in [Players -> Parties \cup {NoParty}]
      BY <1>3 DEF LeaveParty, TicketsInvariant, MovingOK
    <2>3. QED
      BY <1>1, <2>1, <2>2
  <1>4. ASSUME NEW c \in changed, Disband(c) PROVE StepOK
    <2>1. /\ party' \in [Players -> Parties \cup {NoParty}] /\ moved' \subseteq Players
          /\ changed' \subseteq changed
      BY <1>4 DEF Disband, TicketsInvariant, MovingOK, Members
    <2>2. UNCHANGED <<moves, stored, starting, gl, matches, events>>
      BY <1>4 DEF Disband, gamelift
    <2>3. QED
      BY <2>1, <2>2, TicketsRest DEF TicketsInvariant, MovingOK
  <1>5. QED
    BY <1>2, <1>3, <1>4

LEMMA PartyEvents ==
    ASSUME TicketsInvariant, NEW c \in changed, HandlePartyEvent(c)
    PROVE  StepOK
  <1>1. /\ c \in [event : {"player_joined", "player_left"}, player : Players,
                  party : Parties, key : Keys \cup {NoKey}]
        /\ c.key # NoKey /\ UNCHANGED <<party, moves, moved, starting, matches, events>>
    BY DEF TicketsInvariant, MovingOK, HandlePartyEvent
  <1> DEFINE next == IF c.key # c.party THEN {[c EXCEPT !.key = c.party]}
                     ELSE IF c.event = "player_left" THEN {[c EXCEPT !.key = NoKey]} ELSE {}
  <1>2. c.key \in Keys /\ next \subseteq [event : {"player_joined", "player_left"}, player : Players,
                                          party : Parties, key : Keys \cup {NoKey}]
    BY <1>1 DEF Keys
  <1>3. changed' \subseteq changed \cup next
    BY DEF HandlePartyEvent
  <1> HIDE DEF next
  <1>4. MovingOK'
    BY <1>1, <1>2, <1>3 DEF TicketsInvariant, MovingOK
  <1>5. CASE Cancelable(stored[c.key])
    <2>1. PICK answer : CancelLocked(c.key, answer)
      BY <1>5 DEF HandlePartyEvent
    <2>2. QED
      BY <1>1, <1>2, <1>4, <1>5, <2>1, CancelSteps
  <1>6. CASE ~Cancelable(stored[c.key])
    <2>1. UNCHANGED <<stored, gl, matches, events, starting>>
      BY <1>1, <1>6 DEF HandlePartyEvent
    <2>2. QED
      BY <1>4, <2>1, TicketsRest DEF TicketsInvariant
  <1>7. QED
    BY <1>5, <1>6

\* What is found under a key changes, and GameLift's tickets do not.
LEMMA OneKey ==
    ASSUME TicketsInvariant, UNCHANGED <<moving, starting, gl, matches>>,
           Grows => EventsOK', NEW k \in Keys, stored[k] # NoTicket, NEW d,
           stored' = [stored EXCEPT ![k] = d], d # NoTicket => TicketOK(d),
           stored[k].status = "CANCELLING" /\ d # NoTicket /\ d.id = stored[k].id
             => d.status \notin Searched \cup {"PLACING"}
    PROVE  StepOK
  <1>1. Grows /\ GameLiftOK'
    BY SameGameLift
  <1>2. d # NoTicket => TicketOK(d)'
    BY <1>1, SoundStays
  <1>3. StoredOK' /\ \A j \in Keys : StaysCancelled(j)
    BY <1>1, <1>2, StoredChanges
  <1>4. MovingOK' /\ starting' \in [Players -> Keys \cup {NoKey}]
    BY DEF TicketsInvariant, MovingOK, moving
  <1>5. QED
    BY <1>1, <1>3, <1>4 DEF StepOK, TicketsInvariant

\* What an event makes of a ticket.
LEMMA ProcessedIsSound ==
    ASSUME NEW d, TicketOK(d), NEW e, EventOK(e), NEW t
    PROVE  /\ TicketOK(Processed(d, t, e))
           /\ d.status = "CANCELLING" => Processed(d, t, e).status \notin Searched \cup {"PLACING"}
  <1>1. /\ \A x \in [id : Issued, status : Statuses, match : 0..matches, session : BOOLEAN] :
             \A status \in Statuses : [x EXCEPT !.status = status]
               \in [id : Issued, status : Statuses, match : 0..matches, session : BOOLEAN]
        /\ d \in [id : Issued, status : Statuses, match : 0..matches, session : BOOLEAN]
    BY DEF TicketOK
  <1>2. \A status \in Statuses \ NonCancelable :
          TicketOK([d EXCEPT !.status = status]) /\ [d EXCEPT !.status = status].status = status
    BY <1>1 DEF TicketOK
  <1>3. ASSUME NEW m \in 0..matches, m # 0, NEW status \in Statuses
        PROVE  /\ TicketOK([d EXCEPT !.status = status, !.match = m])
               /\ TicketOK([d EXCEPT !.status = status, !.match = m, !.session = TRUE])
               /\ [d EXCEPT !.status = status, !.match = m].status = status
               /\ [d EXCEPT !.status = status, !.match = m, !.session = TRUE].status = status
    BY <1>3 DEF TicketOK
  <1>4. /\ {"SEARCHING", "CANCELLED", "MATCH_COMPLETE", "TIMED_OUT", "FAILED"} \subseteq Statuses \ NonCancelable
        /\ {"COMPLETED", "PLACING", "REQUIRES_ACCEPTANCE"} \subseteq Statuses
        /\ \A status \in {"CANCELLED", "MATCH_COMPLETE", "TIMED_OUT", "FAILED", "COMPLETED", "CANCELLING"} :
             status \notin Searched \cup {"PLACING"}
    BY DEF Statuses, Searched, NonCancelable, Expired
  <1>5. SearchingEvent(d, t) \in {d, [d EXCEPT !.status = "SEARCHING"]}
        /\ (d.status = "CANCELLING" => SearchingEvent(d, t) = d)
    BY <1>4 DEF SearchingEvent
  <1>6. PotentialMatchEvent(d, e) \in {d, [d EXCEPT !.status = e.next, !.match = e.match]}
        /\ (d.status = "CANCELLING" => PotentialMatchEvent(d, e) = d)
    BY <1>4 DEF PotentialMatchEvent
  <1>7. SucceededEvent(d, e) \in {d, [d EXCEPT !.status = "COMPLETED", !.match = e.match, !.session = TRUE]}
    BY DEF SucceededEvent
  <1>8. /\ CancelledEvent(d, t) \in {d, [d EXCEPT !.status = "CANCELLED"]}
        /\ BackfillEvent(d) \in {d, [d EXCEPT !.status = "MATCH_COMPLETE"]}
        /\ TimeoutEvent(d, t) \in {d, [d EXCEPT !.status = "TIMED_OUT"]}
        /\ FailedEvent(d, t) \in {d, [d EXCEPT !.status = "FAILED"]}
    BY DEF CancelledEvent, BackfillEvent, TimeoutEvent, FailedEvent
  <1>9. CASE e.type = "searching"
    <2>1. Processed(d, t, e) = SearchingEvent(d, t)
      BY <1>9 DEF Processed
    <2>2. QED
      BY <2>1, <1>2, <1>4, <1>5
  <1>10. CASE e.type = "potential match"
    <2>1. Processed(d, t, e) = PotentialMatchEvent(d, e)
      BY <1>10 DEF Processed
    <2>2. e.match \in 0..matches /\ e.match # 0 /\ e.next \in Statuses
      BY <1>4, <1>10 DEF EventOK
    <2>3. TicketOK([d EXCEPT !.status = e.next, !.match = e.match])
      BY <1>3, <2>2
    <2>4. QED
      BY <2>1, <2>3, <1>4, <1>6
  <1>11. CASE e.type = "succeeded"
    <2>1. Processed(d, t, e) = SucceededEvent(d, e)
      BY <1>11 DEF Processed
    <2>2. e.match \in 0..matches /\ e.match # 0
      BY <1>11 DEF EventOK
    <2>3. LET x == [d EXCEPT !.status = "COMPLETED", !.match = e.match, !.session = TRUE]
          IN TicketOK(x) /\ x.status = "COMPLETED"
      BY <1>3, <1>4, <2>2
    <2>4. QED
      BY <2>1, <2>3, <1>4, <1>7
  <1>12. CASE e.type = "cancelled"
    <2>1. Processed(d, t, e) = CancelledEvent(d, t)
      BY <1>12 DEF Processed
    <2>2. LET x == [d EXCEPT !.status = "CANCELLED"] IN TicketOK(x) /\ x.status = "CANCELLED"
      BY <1>2, <1>4
    <2>3. QED
      BY <1>4, <1>8, <2>1, <2>2
  <1>13. CASE e.type = "backfill"
    <2>1. Processed(d, t, e) = BackfillEvent(d)
      BY <1>13 DEF Processed
    <2>2. LET x == [d EXCEPT !.status = "MATCH_COMPLETE"] IN TicketOK(x) /\ x.status = "MATCH_COMPLETE"
      BY <1>2, <1>4
    <2>3. QED
      BY <1>4, <1>8, <2>1, <2>2
  <1>14. CASE e.type = "timeout"
    <2>1. Processed(d, t, e) = TimeoutEvent(d, t)
      BY <1>14 DEF Processed
    <2>2. LET x == [d EXCEPT !.status = "TIMED_OUT"] IN TicketOK(x) /\ x.status = "TIMED_OUT"
      BY <1>2, <1>4
    <2>3. QED
      BY <1>4, <1>8, <2>1, <2>2
  <1>15. CASE e.type = "failed"
    <2>1. Processed(d, t, e) = FailedEvent(d, t)
      BY <1>15 DEF Processed
    <2>2. LET x == [d EXCEPT !.status = "FAILED"] IN TicketOK(x) /\ x.status = "FAILED"
      BY <1>2, <1>4
    <2>3. QED
      BY <1>4, <1>8, <2>1, <2>2
  <1>16. QED
    BY <1>9, <1>10, <1>11, <1>12, <1>13, <1>14, <1>15 DEF EventOK, EventTypes

LEMMA Processes ==
    ASSUME TicketsInvariant, NEW e \in events, NEW t \in Tickets, NEW p \in Players, ProcessEvent(e, t, p)
    PROVE  StepOK
  <1>1. PICK k \in Keys : k = KeyOf(p)
    BY KeysOfPlayers DEF TicketsInvariant
  <1>2. /\ UNCHANGED <<moving, starting, gl, matches>>
        /\ stored' = IF stored[k] = NoTicket THEN stored
                     ELSE [stored EXCEPT ![k] = Processed(stored[k], t, e)]
    BY <1>1 DEF ProcessEvent, TicketsInvariant, StoredOK
  <1>3. PICK left : /\ events' = (events \ {e}) \cup left
                    /\ left = {} \/ left = {[e EXCEPT !.todo = @ \ {<<t, p>>}]}
    BY DEF ProcessEvent
  <1>4. EventOK(e)
    BY DEF TicketsInvariant, EventsOK
  <1>5. \A f \in left : EventOK(f)
    <2>1. \A todo \in SUBSET (Tickets \X Players) : EventOK([e EXCEPT !.todo = todo])
      BY <1>4 DEF EventOK
    <2>2. e.todo \ {<<t, p>>} \in SUBSET (Tickets \X Players)
      BY <1>4 DEF EventOK
    <2>3. QED
      BY <1>3, <2>1, <2>2
  <1>6. IsFiniteSet(events') /\ Cardinality(events') <= MaxEvents
    <2>1. /\ IsFiniteSet(events \ {e}) /\ Cardinality(events \ {e}) = Cardinality(events) - 1
          /\ Cardinality(events) \in Nat
      BY FS_RemoveElement, FS_CardinalityType DEF TicketsInvariant, EventsOK
    <2>2. MaxEvents \in Nat /\ Cardinality(events) <= MaxEvents
      BY TicketsAssumption DEF TicketsInvariant, EventsOK
    <2>3. Cardinality(events \ {e}) < MaxEvents /\ Cardinality(events \ {e}) <= MaxEvents
      BY <2>1, <2>2
    <2>4. CASE left = {}
      BY <1>3, <2>1, <2>3, <2>4
    <2>5. CASE left # {}
      BY <1>3, <2>1, <2>2, <2>3, <2>5, OneMore
    <2>6. QED
      BY <2>4, <2>5
  <1>7. Grows => EventsOK'
    BY <1>3, <1>5, <1>6, SoundStays DEF TicketsInvariant, EventsOK
  <1>8. CASE stored[k] = NoTicket
    <2>1. Grows /\ GameLiftOK'
      BY <1>2, SameGameLift
    <2>2. StoredOK' /\ \A j \in Keys : StaysCancelled(j)
      BY <1>2, <1>8, <2>1, StoredStays
    <2>3. QED
      BY <1>2, <1>7, <2>1, <2>2 DEF StepOK, TicketsInvariant, MovingOK, moving
  <1>9. CASE stored[k] # NoTicket
    <2>1. PICK d : d = Processed(stored[k], t, e)
      OBVIOUS
    <2>2. TicketOK(stored[k])
      BY <1>9 DEF TicketsInvariant, StoredOK
    <2>3. TicketOK(d) /\ (stored[k].status = "CANCELLING" => d.status \notin Searched \cup {"PLACING"})
      BY <1>4, <2>1, <2>2, ProcessedIsSound
    <2>4. stored' = [stored EXCEPT ![k] = d]
      BY <1>2, <1>9, <2>1
    <2>5. QED
      BY <1>2, <1>7, <1>9, <2>3, <2>4, OneKey
  <1>10. QED
    BY <1>8, <1>9

LEMMA Issues ==
    ASSUME TicketsInvariant, NEW p \in Players, Issue(p)
    PROVE  StepOK
  <1>1. /\ starting[p] \in Keys /\ starting' \in [Players -> Keys \cup {NoKey}]
        /\ UNCHANGED <<moving, matches, events>>
    BY TicketsAssumption DEF Issue, TicketsInvariant
  <1>2. MovingOK'
    BY <1>1 DEF TicketsInvariant, MovingOK, moving
  <1>3. CASE UNCHANGED <<stored, gl>>
    BY <1>1, <1>2, <1>3, TicketsRest
  <1>4. ASSUME NEW t \in Tickets,
               stored[starting[p]] # NoTicket => stored[starting[p]].status # "CANCELLING",
               gl' = [gl EXCEPT ![t].status = "QUEUED", ![t].players = Mates(p)],
               stored' = [stored EXCEPT ![starting[p]] =
                            [id |-> t, status |-> "QUEUED", match |-> 0, session |-> FALSE]]
        PROVE  StepOK
    <2> DEFINE Row == [status : GameLiftStatuses, players : SUBSET Players, match : 0..matches,
                       stopped : BOOLEAN, accepted : SUBSET (Players \cup {NoKey})]
    <2>1. PICK mates \in SUBSET Players : mates = Mates(p)
      BY DEF Mates, Members
    <2>2. gl \in [Tickets -> Row] /\ matches \in 0..MaxMatches /\ 0 \in 0..matches
      BY TicketsAssumption DEF TicketsInvariant, GameLiftOK
    <2>3. /\ gl' \in [Tickets -> Row]
          /\ \A u \in Tickets : gl'[u].status = IF u = t THEN "QUEUED" ELSE gl[u].status
      <3>1. "QUEUED" \in GameLiftStatuses
        BY DEF GameLiftStatuses, Searched
      <3>2. [gl EXCEPT ![t].status = "QUEUED", ![t].players = mates] \in [Tickets -> Row]
        BY <2>2, <3>1
      <3>3. \A u \in Tickets : [gl EXCEPT ![t].status = "QUEUED", ![t].players = mates][u].status
                               = IF u = t THEN "QUEUED" ELSE gl[u].status
        BY <2>2
      <3>4. QED
        BY <1>4, <2>1, <3>2, <3>3
    <2>4. Grows /\ GameLiftOK' /\ t \in Issued'
      <3>1. matches' = matches /\ matches \in Nat
        BY <1>1, <2>2, TicketsAssumption
      <3>2. Issued \subseteq Issued' /\ t \in Issued'
        BY <2>3 DEF Issued
      <3>3. QED
        BY <2>2, <2>3, <3>1, <3>2 DEF Grows, GameLiftOK
    <2>5. PICK d : d = [id |-> t, status |-> "QUEUED", match |-> 0, session |-> FALSE]
      OBVIOUS
    <2>6. TicketOK(d)'
      <3>1. 0 \in 0..matches' /\ "QUEUED" \in Statuses /\ "QUEUED" \notin NonCancelable
        BY <1>1, <2>2 DEF Statuses, Searched, NonCancelable
      <3>2. QED
        BY <2>4, <2>5, <3>1 DEF TicketOK
    <2>7. StoredOK' /\ \A k \in Keys : StaysCancelled(k)
      BY <1>1, <1>4, <2>4, <2>5, <2>6, StoredChanges
    <2>8. EventsOK'
      BY <1>1, <2>4, EventsStay
    <2>9. QED
      BY <1>1, <1>2, <2>4, <2>7, <2>8 DEF StepOK, TicketsInvariant
  <1>5. QED
    BY <1>3, <1>4 DEF Issue

LEMMA OtherRequests ==
    ASSUME TicketsInvariant, NEW p \in Players,
           \/ Start(p) \/ MatchPlayerLeft(p)
           \/ \E t \in Tickets, m \in Matches, yes \in BOOLEAN : UpdateAcceptance(p, t, m, yes)
    PROVE  StepOK
  <1>1. CASE Start(p)
    <2>1. starting' \in [Players -> Keys \cup {NoKey}] /\ UNCHANGED <<moving, stored, gl, matches, events>>
      BY <1>1, KeysOfPlayers DEF Start, gamelift, TicketsInvariant
    <2>2. MovingOK'
      BY <2>1 DEF TicketsInvariant, MovingOK, moving
    <2>3. QED
      BY <2>1, <2>2, TicketsRest
  <1>2. CASE MatchPlayerLeft(p)
    <2>1. /\ p \in Keys /\ stored[p] # NoTicket /\ UNCHANGED <<moving, starting, gl, matches, events>>
          /\ stored' = [stored EXCEPT ![p].status = "MATCH_COMPLETE", ![p].session = FALSE]
      BY <1>2 DEF MatchPlayerLeft, gamelift, Keys
    <2>2. PICK d : d = [stored[p] EXCEPT !.status = "MATCH_COMPLETE", !.session = FALSE]
      OBVIOUS
    <2>3. TicketOK(stored[p]) /\ stored' = [stored EXCEPT ![p] = d]
      BY <2>1, <2>2 DEF TicketsInvariant, StoredOK
    <2>4. TicketOK(d) /\ d.status = "MATCH_COMPLETE"
      BY <2>2, <2>3 DEF TicketOK, Statuses, Expired, NonCancelable
    <2>5. Grows => EventsOK'
      BY <2>1, EventsStay
    <2>6. QED
      BY <2>1, <2>3, <2>4, <2>5, OneKey DEF Searched
  <1>3. ASSUME NEW t \in Tickets, NEW m \in Matches, NEW yes \in BOOLEAN, UpdateAcceptance(p, t, m, yes)
        PROVE  StepOK
    <2>1. UNCHANGED <<moving, stored, starting, matches, events>>
      BY <1>3 DEF UpdateAcceptance
    <2>2. PICK told \in SUBSET (Players \cup {NoKey}) : gl' = [gl EXCEPT ![t].accepted = told]
      <3> DEFINE told == IF yes THEN gl[t].accepted \cup {p} ELSE {NoKey}
      <3>1. told \in SUBSET (Players \cup {NoKey})
        BY DEF TicketsInvariant, GameLiftOK
      <3>2. gl' = [gl EXCEPT ![t].accepted = told]
        BY <1>3 DEF UpdateAcceptance, TicketsInvariant, GameLiftOK
      <3>3. QED
        BY <3>1, <3>2
    <2>3. GameLiftOK' /\ \A u \in Tickets : gl'[u].status = gl[u].status
      BY <2>1, <2>2 DEF TicketsInvariant, GameLiftOK
    <2>4. Grows
      BY <2>1, <2>3, SameTickets
    <2>5. StoredOK' /\ (\A k \in Keys : StaysCancelled(k)) /\ EventsOK'
      BY <2>1, <2>4, StoredStays, EventsStay
    <2>6. QED
      BY <2>1, <2>3, <2>5 DEF StepOK, TicketsInvariant, MovingOK, moving
  <1>4. QED
    BY <1>1, <1>2, <1>3

LEMMA Expires ==
    ASSUME TicketsInvariant, NEW k \in Keys, Expire(k)
    PROVE  StepOK
  <1>1. /\ stored[k] # NoTicket /\ stored' = [stored EXCEPT ![k] = NoTicket]
        /\ UNCHANGED <<moving, starting, gl, matches, events>>
    BY DEF Expire, gamelift
  <1>2. Grows => EventsOK'
    BY <1>1, EventsStay
  <1>3. QED
    BY <1>1, <1>2, OneKey

LEMMA TicketsStep == TicketsInvariant /\ [TicketsNext]_ticketVars => StepOK
  <1> SUFFICES ASSUME TicketsInvariant, [TicketsNext]_ticketVars PROVE StepOK
    OBVIOUS
  <1>1. CASE UNCHANGED ticketVars
    <2>1. UNCHANGED <<moving, starting, stored, gl, matches, events>>
      BY <1>1 DEF ticketVars, moving
    <2>2. QED
      BY <2>1, TicketsRest DEF TicketsInvariant, MovingOK, moving
  <1>2. ASSUME NEW p \in Players, ClientDeleted(p) PROVE StepOK
    BY <1>2, Cancels DEF ClientDeleted
  <1>3. ASSUME NEW p \in Players,
               \/ Start(p) \/ Issue(p) \/ ClientDeleted(p) \/ LeaveParty(p) \/ MatchPlayerLeft(p)
               \/ \E t \in Tickets : CancelActiveTicket(p, t)
               \/ \E t \in Tickets, m \in Matches, yes \in BOOLEAN : UpdateAcceptance(p, t, m, yes)
               \/ \E q \in Players, a \in Parties : AcceptInvite(q, p, a)
        PROVE  StepOK
    BY <1>2, <1>3, Cancels, Moves, Issues, OtherRequests
  <1>4. ASSUME NEW c \in changed, HandlePartyEvent(c) \/ Disband(c) PROVE StepOK
    BY <1>4, Moves, PartyEvents
  <1>5. QED
    BY <1>1, <1>3, <1>4, GameLiftNext, Processes, Expires DEF TicketsNext

\* The tickets keep their shape and one that is matched names its match, in whatever order
\* the events of GameLift arrive (flexmatch.py:530-643).
THEOREM TicketsKeepTheirShape == TicketsSpec => []TicketsTypeOK
  <1>1. TicketsInvariant /\ [TicketsNext]_ticketVars => TicketsInvariant'
    BY TicketsStep DEF StepOK
  <1>2. QED
    BY TicketsStart, <1>1, InvariantImpliesTypeOK, PTL DEF TicketsSpec

\* A cancel that GameLift took is final (flexmatch.py:155-183 against 503-580).
THEOREM CancelsAreFinal == TicketsSpec => CancelIsFinal
  <1>1. TicketsInvariant /\ [TicketsNext]_ticketVars => TicketsInvariant'
    BY TicketsStep DEF StepOK
  <1>2. TicketsInvariant /\ [TicketsNext]_ticketVars =>
          [\A k \in Keys :
             /\ stored[k] # NoTicket /\ stored'[k] # NoTicket
             /\ stored'[k].id = stored[k].id /\ stored[k].status = "CANCELLING"
             => stored'[k].status \notin Searched \cup {"PLACING"}]_ticketVars
    BY TicketsStep DEF StepOK, StaysCancelled
  <1>3. QED
    BY TicketsStart, <1>1, <1>2, PTL DEF TicketsSpec, CancelIsFinal

----------------------------------------------------------------------------
(* Settled players: those whose party never changed.                        *)

\* A change of party moves everyone who is in it.
MovedTogether == \A p, q \in Players : party[p] = party[q] /\ party[p] # NoParty =>
                    (p \in moved <=> q \in moved)

\* A start has found the key of a settled player exactly if it is his or a mate's.
StartsKnow == \A q \in Players, p \in Players \ moved :
                 starting[q] # NoKey => (starting[q] = KeyOf(p) <=> KeyOf(q) = KeyOf(p))

\* Tickets are numbered as they are issued, and a settled player's were issued to him and
\* the mates he still has.
IssuedInOrder == /\ \E n \in Nat : Issued = 1..n
                 /\ \A t \in Tickets : gl[t].status = "none" => gl[t].players = {}
TicketsAreShared == \A p \in Players \ moved, t \in Tickets :
                       p \in gl[t].players => gl[t].players = Mates(p)

\* What is over stays over, so an event that tells it is true for as long as it is under way.
Over(type) == CASE type = "succeeded" -> {"COMPLETED"}
                [] type = "backfill" -> {"ENDED"}
                [] type \in {"cancelled", "timeout", "failed"} -> {"CANCELLED", "TIMED_OUT", "FAILED"}
                [] type \in {"searching", "potential match"} -> GameLiftStatuses
EventsAgree ==
  \A e \in events :
    /\ \A t \in Tickets, p \in Players : <<t, p>> \in e.todo => t \in e.tickets /\ p \in gl[t].players
    /\ \A t \in e.tickets : gl[t].status \in Over(e.type)
    /\ e.type = "succeeded" => \A t \in e.tickets : gl[t].match = e.match
SuccessIsToldOnce ==
  \A e, f \in events : e.type = "succeeded" /\ f.type = "succeeded" /\ e.tickets \cap f.tickets # {}
                       => e = f

\* What is known of a settled player p whose key holds d.
ToBeTold(type, t, p) == \E e \in events : e.type = type /\ <<t, p>> \in e.todo
Known(p, d) ==
  \* the ticket GameLift works on is the one under the key,
  /\ \A t \in Tickets : p \in gl[t].players /\ Working(t) =>
        d # NoTicket /\ d.id = t /\ ~d.session /\ d.status \in Searched \cup {"PLACING", "CANCELLING"}
  \* and still is when its success is on the way,
  /\ \A t \in Tickets : ToBeTold("succeeded", t, p) =>
        d # NoTicket /\ d.id = t /\ d.status \in LiveStates \cup {"CANCELLING"}
  \* of which a player without a party is told once;
  /\ \A t \in Tickets : KeyOf(p) = p /\ d # NoTicket /\ d.session => ~ToBeTold("succeeded", t, p)
  \* it is his last one, and so is that of a match whose end is on the way;
  /\ \A t \in Tickets : p \in gl[t].players /\ d # NoTicket => t <= d.id
  /\ \A t, u \in Tickets : ToBeTold("backfill", t, p) /\ p \in gl[u].players => u <= t
  \* and the session is that of the match it was placed in.
  /\ d # NoTicket /\ d.session => IsPlaced(d.id) /\ d.match = gl[d.id].match

SettledInvariant ==
  /\ MovedTogether /\ StartsKnow
  /\ IssuedInOrder /\ TicketsAreShared /\ EventsAgree /\ SuccessIsToldOnce
  /\ \A p \in Players \ moved : Known(p, stored[KeyOf(p)])

\* A key belongs to one player or to the members of one party.
LEMMA KeysApart ==
    ASSUME MovingOK, NEW p \in Players, NEW q \in Players
    PROVE  /\ KeyOf(p) = KeyOf(q) <=> p = q \/ (party[p] # NoParty /\ party[p] = party[q])
           /\ q \in Mates(p) <=> KeyOf(q) = KeyOf(p)
           /\ KeyOf(p) \in Players => KeyOf(p) = p
  <1>1. /\ party[p] \in Parties \cup {NoParty} /\ party[q] \in Parties \cup {NoParty}
        /\ Players \cap Parties = {} /\ NoParty \notin Parties
    BY TicketsAssumption DEF MovingOK
  <1>2. KeyOf(p) = KeyOf(q) <=> p = q \/ (party[p] # NoParty /\ party[p] = party[q])
    BY <1>1 DEF KeyOf
  <1>3. q \in Mates(p) <=> q = p \/ (party[p] # NoParty /\ party[q] = party[p])
    BY <1>1 DEF Mates, Members
  <1>4. KeyOf(p) \in Players => KeyOf(p) = p
    BY <1>1 DEF KeyOf
  <1>5. QED
    BY <1>2, <1>3, <1>4

\* Mates share their key, and have changed party together.
LEMMA SettledMates ==
    ASSUME MovingOK, MovedTogether, NEW p \in Players, NEW q \in Players, KeyOf(p) = KeyOf(q)
    PROVE  Mates(p) = Mates(q) /\ (p \in moved <=> q \in moved)
  <1>1. p = q \/ (party[p] # NoParty /\ party[p] = party[q])
    BY KeysApart
  <1>2. CASE p = q
    BY <1>2
  <1>3. CASE party[p] # NoParty /\ party[p] = party[q]
    BY <1>3 DEF Mates, MovedTogether
  <1>4. QED
    BY <1>1, <1>2, <1>3

LEMMA KnownStays ==
    ASSUME NEW p \in Players, NEW d, Known(p, d), (KeyOf(p) = p)' => KeyOf(p) = p,
           d # NoTicket => d.id \in Tickets,
           \A t \in Tickets : /\ p \in gl'[t].players =>
                                   p \in gl[t].players /\ (Working(t)' => Working(t))
                              /\ IsPlaced(t) => IsPlaced(t)' /\ gl'[t].match = gl[t].match
                              /\ ToBeTold("succeeded", t, p)' => ToBeTold("succeeded", t, p)
                              /\ ToBeTold("backfill", t, p)' => ToBeTold("backfill", t, p)
    PROVE  Known(p, d)'
  <1>1. \A t \in Tickets : (p \in gl[t].players)' /\ Working(t)' =>
          d # NoTicket /\ d.id = t /\ ~d.session /\ d.status \in Searched \cup {"PLACING", "CANCELLING"}
    BY DEF Known
  <1>2. \A t \in Tickets : ToBeTold("succeeded", t, p)' =>
          d # NoTicket /\ d.id = t /\ d.status \in LiveStates \cup {"CANCELLING"}
    BY DEF Known
  <1>3. \A t \in Tickets : (KeyOf(p) = p)' /\ d # NoTicket /\ d.session => ~ToBeTold("succeeded", t, p)'
    BY DEF Known
  <1>4. \A t \in Tickets : (p \in gl[t].players)' /\ d # NoTicket => t <= d.id
    BY DEF Known
  <1>5. \A t, u \in Tickets : ToBeTold("backfill", t, p)' /\ (p \in gl[u].players)' => u <= t
    BY DEF Known
  <1>6. d # NoTicket /\ d.session => IsPlaced(d.id)' /\ d.match = gl'[d.id].match
    BY DEF Known
  <1>7. QED
    BY <1>1, <1>2, <1>3, <1>4, <1>5, <1>6 DEF Known

\* The same events tell the same.
LEMMA SameEvents ==
    ASSUME UNCHANGED events, NEW type, NEW t, NEW p
    PROVE  ToBeTold(type, t, p)' = ToBeTold(type, t, p)
  BY DEF ToBeTold

LEMMA TicketsAreSome ==
    ASSUME TicketsInvariant, NEW d, TicketOK(d)
    PROVE  d # NoTicket
  <1>1. d \in [id : Tickets, status : Statuses, match : 0..MaxMatches, session : BOOLEAN]
    <2>1. Issued \subseteq Tickets /\ 0..matches \subseteq 0..MaxMatches
      BY TicketsAssumption DEF Issued, TicketsInvariant, GameLiftOK
    <2>2. QED
      BY <2>1 DEF TicketOK
  <1>2. QED
    BY <1>1, NoTicketAssumption DEF Statuses

LEMMA StoredRow ==
    ASSUME TicketsInvariant, NEW k \in Keys, stored[k] # NoTicket
    PROVE  /\ stored[k].id \in Issued /\ stored[k].id \in Tickets /\ TicketOK(stored[k])
           /\ \A t \in Tickets : t \in Nat
  <1>1. TicketOK(stored[k])
    BY DEF TicketsInvariant, StoredOK
  <1>2. QED
    BY <1>1, TicketsAssumption DEF TicketOK, Issued, Tickets

----------------------------------------------------------------------------
\* Changes of party.

LEMMA MovesShape ==
    ASSUME TicketsInvariant, MovingOK', SettledInvariant, NEW W \in SUBSET Players,
           moved' = moved \cup W, UNCHANGED <<stored, starting, gl, matches, events>>,
           \A r \in Players \ W : /\ party'[r] = party[r]
                                  /\ party[r] # NoParty => \A w \in W : party[w] # party[r] /\ party'[w] # party[r]
    PROVE  SettledInvariant'
  <1>1. MovingOK /\ MovedTogether /\ StartsKnow /\ IssuedInOrder /\ TicketsAreShared /\ EventsAgree
        /\ SuccessIsToldOnce /\ \A p \in Players \ moved : Known(p, stored[KeyOf(p)])
    BY DEF SettledInvariant, TicketsInvariant
  <1>2. ASSUME NEW p \in Players \ moved'
        PROVE  p \in Players \ moved /\ p \notin W /\ KeyOf(p)' = KeyOf(p) /\ Mates(p)' = Mates(p)
    <2>1. p \in Players \ moved /\ p \notin W /\ party'[p] = party[p]
      BY <1>2
    <2>2. KeyOf(p)' = KeyOf(p)
      BY <2>1 DEF KeyOf
    <2>3. CASE party[p] = NoParty
      BY <2>1, <2>2, <2>3 DEF Mates
    <2>4. CASE party[p] # NoParty
      <3>1. \A q \in Players : party'[q] = party[p] <=> party[q] = party[p]
        BY <2>1, <2>4
      <3>2. QED
        BY <2>1, <2>2, <2>4, <3>1 DEF Mates, Members
    <2>5. QED
      BY <2>1, <2>2, <2>3, <2>4
  <1>3. MovedTogether'
    <2>1. ASSUME NEW p \in Players, NEW q \in Players, party'[p] = party'[q], party'[p] # NoParty
          PROVE  p \in moved' <=> q \in moved'
      <3>1. CASE p \in W /\ q \in W
        BY <3>1
      <3>2. CASE p \notin W /\ q \notin W
        <4>1. party[p] = party[q] /\ party[p] # NoParty
          BY <2>1, <3>2
        <4>2. QED
          BY <1>1, <3>2, <4>1 DEF MovedTogether
      <3>3. CASE p \notin W /\ q \in W
        BY <2>1, <3>3
      <3>4. CASE p \in W /\ q \notin W
        BY <2>1, <3>4
      <3>5. QED
        BY <3>1, <3>2, <3>3, <3>4
    <2>2. QED
      BY <2>1 DEF MovedTogether
  <1>4. StartsKnow'
    <2>1. ASSUME NEW q \in Players, NEW p \in Players \ moved', starting[q] # NoKey
          PROVE  starting[q] = KeyOf(p)' <=> KeyOf(q)' = KeyOf(p)'
      <3>1. /\ p \in Players \ moved /\ p \notin W /\ KeyOf(p)' = KeyOf(p)
            /\ starting[q] = KeyOf(p) <=> KeyOf(q) = KeyOf(p)
        BY <1>1, <1>2, <2>1 DEF StartsKnow
      <3>2. /\ KeyOf(q) = KeyOf(p) <=> q = p \/ (party[q] # NoParty /\ party[q] = party[p])
            /\ (KeyOf(q) = KeyOf(p))' <=> q = p \/ (party'[q] # NoParty /\ party'[q] = party'[p])
        <4>1. KeyOf(q) = KeyOf(p) <=> q = p \/ (party[q] # NoParty /\ party[q] = party[p])
          BY <1>1, KeysApart
        <4>2. (KeyOf(q) = KeyOf(p) <=> q = p \/ (party[q] # NoParty /\ party[q] = party[p]))'
          <5>1. /\ party'[p] \in Parties \cup {NoParty} /\ party'[q] \in Parties \cup {NoParty}
                /\ Players \cap Parties = {} /\ NoParty \notin Parties
            BY TicketsAssumption DEF MovingOK
          <5>2. QED
            BY <5>1 DEF KeyOf
        <4>3. QED
          BY <4>1, <4>2
      <3>3. (KeyOf(q) = KeyOf(p))' <=> KeyOf(q) = KeyOf(p)
        <4>1. party'[p] = party[p]
          BY <3>1
        <4>2. CASE q \in W
          BY <3>1, <3>2, <4>1, <4>2
        <4>3. CASE q \notin W
          BY <3>2, <4>1, <4>3
        <4>4. QED
          BY <4>2, <4>3
      <3>4. QED
        BY <3>1, <3>3
    <2>2. QED
      BY <2>1 DEF StartsKnow
  <1>5. IssuedInOrder' /\ TicketsAreShared'
    <2>1. Issued' = Issued
      BY DEF Issued
    <2>2. IssuedInOrder'
      BY <1>1, <2>1 DEF IssuedInOrder
    <2>3. TicketsAreShared'
      BY <1>1, <1>2 DEF TicketsAreShared
    <2>4. QED
      BY <2>2, <2>3
  <1>6. EventsAgree' /\ SuccessIsToldOnce'
    BY <1>1 DEF EventsAgree, SuccessIsToldOnce, Over
  <1>7. ASSUME NEW p \in Players \ moved' PROVE Known(p, stored[KeyOf(p)])'
    <2>1. PICK d : d = stored[KeyOf(p)]
      OBVIOUS
    <2>2. Known(p, d) /\ KeyOf(p)' = KeyOf(p) /\ (stored[KeyOf(p)])' = d
      BY <1>1, <1>2, <2>1
    <2>3. d # NoTicket => d.id \in Tickets
      BY <2>1, KeysOfPlayers, StoredRow DEF TicketsInvariant
    <2>4. \A t \in Tickets : /\ gl'[t] = gl[t] /\ Working(t)' = Working(t) /\ IsPlaced(t)' = IsPlaced(t)
                             /\ ToBeTold("succeeded", t, p)' = ToBeTold("succeeded", t, p)
                             /\ ToBeTold("backfill", t, p)' = ToBeTold("backfill", t, p)
      BY SameEvents DEF Working, IsPlaced
    <2>5. Known(p, d)'
      BY <2>2, <2>3, <2>4, KnownStays
    <2>6. QED
      BY <2>2, <2>5 DEF Known
  <1>8. QED
    BY <1>3, <1>4, <1>5, <1>6, <1>7 DEF SettledInvariant

LEMMA SettledMoves ==
    ASSUME TicketsInvariant, MovingOK', SettledInvariant,
           \/ \E q, p \in Players, a \in Parties : AcceptInvite(q, p, a)
           \/ \E p \in Players : LeaveParty(p)
           \/ \E c \in changed : Disband(c)
    PROVE  SettledInvariant'
  <1>1. party \in [Players -> Parties \cup {NoParty}] /\ NoParty \notin Parties
    BY TicketsAssumption DEF TicketsInvariant, MovingOK
  <1>2. ASSUME NEW q \in Players, NEW p \in Players, NEW a \in Parties, AcceptInvite(q, p, a)
        PROVE  SettledInvariant'
    <2> DEFINE W == {p, q} \cup Members(a)
    <2>1. /\ party[p] = NoParty /\ party[q] \in {NoParty, a}
          /\ party' = [party EXCEPT ![p] = a, ![q] = a]
          /\ moved' = moved \cup W /\ UNCHANGED <<stored, starting, gl, matches, events>>
      BY <1>2 DEF AcceptInvite, Move, gamelift
    <2>2. W \in SUBSET Players /\ \A w \in W : party[w] \in {NoParty, a} /\ party'[w] = a
      BY <1>1, <2>1 DEF Members
    <2>3. \A r \in Players \ W : party'[r] = party[r] /\ party[r] # a
      BY <1>1, <2>1 DEF Members
    <2> HIDE DEF W
    <2>4. QED
      BY <2>1, <2>2, <2>3, MovesShape
  <1>3. ASSUME NEW p \in Players, LeaveParty(p) PROVE SettledInvariant'
    <2>1. PICK a \in Parties : a = party[p]
      BY <1>1, <1>3 DEF LeaveParty
    <2> DEFINE W == {p} \cup Members(a)
    <2>2. /\ party' = [party EXCEPT ![p] = NoParty]
          /\ moved' = moved \cup W /\ UNCHANGED <<stored, starting, gl, matches, events>>
      BY <1>3, <2>1 DEF LeaveParty, Move, gamelift
    <2>3. W \in SUBSET Players /\ \A w \in W : party[w] = a /\ party'[w] \in {NoParty, a}
      BY <1>1, <2>1, <2>2 DEF Members
    <2>4. \A r \in Players \ W : party'[r] = party[r] /\ party[r] # a
      BY <1>1, <2>1, <2>2 DEF Members
    <2> HIDE DEF W
    <2>5. QED
      BY <2>2, <2>3, <2>4, MovesShape
  <1>4. ASSUME NEW c \in changed, Disband(c) PROVE SettledInvariant'
    <2>1. c.party \in Parties /\ UNCHANGED <<stored, starting, gl, matches, events>>
      BY <1>4 DEF TicketsInvariant, MovingOK, Disband, gamelift
    <2>2. CASE Cardinality(Members(c.party)) <= 1
      <3> DEFINE W == Members(c.party)
      <3>1. /\ party' = [p \in Players |-> IF p \in W THEN NoParty ELSE party[p]]
            /\ moved' = moved \cup W
        BY <1>4, <2>2 DEF Disband
      <3>2. W \in SUBSET Players /\ \A w \in W : party[w] = c.party /\ party'[w] = NoParty
        BY <3>1 DEF Members
      <3>3. \A r \in Players \ W : party'[r] = party[r] /\ party[r] # c.party
        BY <1>1, <3>1 DEF Members
      <3> HIDE DEF W
      <3>4. QED
        BY <2>1, <3>1, <3>2, <3>3, MovesShape
    <2>3. CASE ~(Cardinality(Members(c.party)) <= 1)
      <3>1. UNCHANGED <<party, moved>> /\ {} \in SUBSET Players
        BY <1>4, <2>3 DEF Disband
      <3>2. moved' = moved \cup {} /\ \A r \in Players \ {} : party'[r] = party[r]
        BY <3>1
      <3>3. QED
        BY <2>1, <3>1, <3>2, MovesShape
    <2>4. QED
      BY <2>2, <2>3
  <1>5. QED
    BY <1>2, <1>3, <1>4

----------------------------------------------------------------------------
\* Requests.

\* Parties and GameLift's tickets stay, but for whether they are being stopped.
LEMMA SettledRests ==
    ASSUME TicketsInvariant, SettledInvariant, UNCHANGED <<party, moved>>,
           \A t \in Tickets : /\ gl'[t].status = gl[t].status /\ gl'[t].players = gl[t].players
                              /\ gl'[t].match = gl[t].match
    PROVE  /\ MovedTogether' /\ IssuedInOrder' /\ TicketsAreShared'
           /\ \A t \in Tickets : Working(t)' = Working(t) /\ IsPlaced(t)' = IsPlaced(t)
           /\ \A p \in Players : KeyOf(p)' = KeyOf(p) /\ Mates(p)' = Mates(p)
           /\ events' = events => EventsAgree' /\ SuccessIsToldOnce'
           /\ (\A q \in Players : starting'[q] \in {starting[q], NoKey}) => StartsKnow'
  <1>1. UNCHANGED <<party, moved>>
    OBVIOUS
  <1>2. \A p \in Players : KeyOf(p)' = KeyOf(p) /\ Mates(p)' = Mates(p)
    BY <1>1 DEF KeyOf, Mates, Members
  <1>3. MovedTogether'
    BY <1>1 DEF SettledInvariant, MovedTogether
  <1>4. IssuedInOrder' /\ TicketsAreShared'
    <2>1. Issued' = Issued
      BY DEF Issued
    <2>2. IssuedInOrder'
      BY <2>1 DEF SettledInvariant, IssuedInOrder
    <2>3. TicketsAreShared'
      BY <1>1, <1>2 DEF SettledInvariant, TicketsAreShared
    <2>4. QED
      BY <2>2, <2>3
  <1>5. ASSUME events' = events PROVE EventsAgree' /\ SuccessIsToldOnce'
    <2>1. EventsAgree /\ SuccessIsToldOnce
      BY DEF SettledInvariant
    <2>2. SuccessIsToldOnce'
      BY <1>5, <2>1 DEF SuccessIsToldOnce
    <2>3. EventsAgree'
      <3>1. \A e \in events : e.tickets \in SUBSET Tickets
        BY DEF TicketsInvariant, EventsOK, EventOK
      <3>2. ASSUME NEW e \in events
            PROVE  /\ \A t \in Tickets, p \in Players : <<t, p>> \in e.todo => t \in e.tickets /\ p \in gl'[t].players
                   /\ \A t \in e.tickets : gl'[t].status \in Over(e.type)
                   /\ e.type = "succeeded" => \A t \in e.tickets : gl'[t].match = e.match
        BY <2>1, <3>1 DEF EventsAgree
      <3>3. QED
        BY <1>5, <3>2 DEF EventsAgree
    <2>4. QED
      BY <2>2, <2>3
  <1>6. ASSUME \A q \in Players : starting'[q] \in {starting[q], NoKey} PROVE StartsKnow'
    BY <1>1, <1>2, <1>6 DEF SettledInvariant, StartsKnow
  <1>7. QED
    BY <1>2, <1>3, <1>4, <1>5, <1>6 DEF Working, IsPlaced

\* What a request makes of the ticket under one key.
LEMMA SettledKey ==
    ASSUME TicketsInvariant, SettledInvariant, UNCHANGED <<party, moved, events>>,
           \A q \in Players : starting'[q] \in {starting[q], NoKey},
           \A t \in Tickets : /\ gl'[t].status = gl[t].status /\ gl'[t].players = gl[t].players
                              /\ gl'[t].match = gl[t].match,
           NEW k \in Keys, NEW d, NEW new, d = stored[k], new = stored'[k],
           new # NoTicket => new.id \in Tickets,
           \A j \in Keys : j # k => stored'[j] = stored[j],
           \A p \in Players \ moved : KeyOf(p) = k /\ Known(p, d) => Known(p, new)
    PROVE  SettledInvariant'
  <1>1. /\ MovedTogether' /\ IssuedInOrder' /\ TicketsAreShared' /\ EventsAgree' /\ SuccessIsToldOnce'
        /\ StartsKnow'
        /\ \A t \in Tickets : Working(t)' = Working(t) /\ IsPlaced(t)' = IsPlaced(t)
        /\ \A p \in Players : KeyOf(p)' = KeyOf(p)
    BY SettledRests
  <1>2. ASSUME NEW p \in Players \ moved' PROVE Known(p, stored[KeyOf(p)])'
    <2>1. p \in Players \ moved /\ KeyOf(p) \in Keys
      BY <1>2, KeysOfPlayers DEF TicketsInvariant
    <2>2. PICK x : x = stored'[KeyOf(p)]
      OBVIOUS
    <2>3. Known(p, x) /\ (x # NoTicket => x.id \in Tickets)
      <3>1. Known(p, stored[KeyOf(p)]) /\ (stored[KeyOf(p)] # NoTicket => stored[KeyOf(p)].id \in Tickets)
        BY <2>1, StoredRow DEF SettledInvariant
      <3>2. CASE KeyOf(p) # k
        BY <2>1, <2>2, <3>1, <3>2
      <3>3. CASE KeyOf(p) = k
        <4>1. x = new /\ KeyOf(p) = k /\ Known(p, d)
          BY <2>1, <2>2, <3>1, <3>3
        <4>2. QED
          BY <2>1, <4>1
      <3>4. QED
        BY <3>2, <3>3
    <2>4. \A t \in Tickets : /\ ToBeTold("succeeded", t, p)' = ToBeTold("succeeded", t, p)
                             /\ ToBeTold("backfill", t, p)' = ToBeTold("backfill", t, p)
      BY SameEvents
    <2>5. Known(p, x)'
      BY <1>1, <2>1, <2>3, <2>4, KnownStays
    <2>6. QED
      BY <1>1, <2>2, <2>5 DEF Known
  <1>3. QED
    BY <1>1, <1>2 DEF SettledInvariant

LEMMA SettledCancels ==
    ASSUME TicketsInvariant, SettledInvariant, NEW k \in Keys, Cancelable(stored[k]),
           NEW answer \in StopAnswers(stored[k].id),
           \/ CancelLocked(k, answer)
           \/ answer = "permanent" /\ stored' = [stored EXCEPT ![k] = NoTicket] /\ UNCHANGED gl,
           UNCHANGED <<party, moved, events, starting>>
    PROVE  SettledInvariant'
  <1>1. PICK d : d = stored[k]
    OBVIOUS
  <1>2. PICK new : new = stored'[k]
    OBVIOUS
  <1>3. d # NoTicket /\ TicketOK(d) /\ d.id \in Tickets
    BY <1>1, StoredRow DEF Cancelable
  <1>4. /\ \A t \in Tickets : /\ gl'[t].status = gl[t].status /\ gl'[t].players = gl[t].players
                              /\ gl'[t].match = gl[t].match
        /\ \A j \in Keys : j # k => stored'[j] = stored[j]
        /\ \/ new = d \/ new = [d EXCEPT !.status = "CANCELLING"]
           \/ new = NoTicket /\ answer = "permanent"
    BY <1>1, <1>2, <1>3 DEF CancelLocked, TicketsInvariant, StoredOK, GameLiftOK
  <1>5. new # NoTicket => new.id \in Tickets
    BY <1>3, <1>4 DEF TicketOK
  <1>6. ASSUME NEW p \in Players \ moved, KeyOf(p) = k, Known(p, d) PROVE Known(p, new)
    <2>1. CASE new = d
      BY <1>6, <2>1
    <2>2. CASE new = [d EXCEPT !.status = "CANCELLING"]
      <3>1. /\ new.id = d.id /\ new.session = d.session /\ new.match = d.match /\ new.status = "CANCELLING"
            /\ new # NoTicket
        <4>1. new.id = d.id /\ new.session = d.session /\ new.match = d.match /\ new.status = "CANCELLING"
          BY <1>3, <2>2 DEF TicketOK
        <4>2. TicketOK(new)
          BY <1>3, <2>2 DEF TicketOK, Statuses, NonCancelable
        <4>3. QED
          BY <4>1, <4>2, TicketsAreSome
      <3>2. QED
        BY <1>3, <1>6, <3>1 DEF Known
    <2>3. CASE new = NoTicket /\ answer = "permanent"
      <3>1. ~Working(d.id) /\ ~HasPending(d.id)
        BY <1>1, <2>3 DEF StopAnswers
      <3>2. \A t \in Tickets : ~(p \in gl[t].players /\ Working(t))
        BY <1>6, <3>1 DEF Known
      <3>3. \A t \in Tickets : ~ToBeTold("succeeded", t, p)
        <4>1. SUFFICES ASSUME NEW t \in Tickets, ToBeTold("succeeded", t, p) PROVE FALSE
          OBVIOUS
        <4>2. PICK e \in events : <<t, p>> \in e.todo
          BY <4>1 DEF ToBeTold
        <4>3. t \in e.tickets /\ d.id = t
          BY <1>6, <4>1, <4>2 DEF SettledInvariant, EventsAgree, Known
        <4>4. QED
          BY <3>1, <4>3 DEF HasPending
      <3>4. QED
        BY <1>6, <2>3, <3>2, <3>3 DEF Known
    <2>4. QED
      BY <1>4, <2>1, <2>2, <2>3
  <1>7. QED
    BY <1>1, <1>2, <1>4, <1>5, <1>6, SettledKey

LEMMA SettledRequests ==
    ASSUME TicketsInvariant, SettledInvariant, ~LateEnds,
           \/ \E p \in Players, t \in Tickets : CancelActiveTicket(p, t)
           \/ \E c \in changed : HandlePartyEvent(c)
           \/ \E p \in Players : Start(p) \/ MatchPlayerLeft(p)
           \/ \E p \in Players, t \in Tickets, m \in Matches, yes \in BOOLEAN : UpdateAcceptance(p, t, m, yes)
           \/ \E k \in Keys : Expire(k)
    PROVE  SettledInvariant'
  <1>1. ASSUME NEW p \in Players, NEW t \in Tickets, CancelActiveTicket(p, t) PROVE SettledInvariant'
    <2>1. /\ KeyOf(p) \in Keys /\ Cancelable(stored[KeyOf(p)]) /\ stored[KeyOf(p)].id = t
          /\ UNCHANGED <<party, moved, events, starting>>
      BY <1>1, KeysOfPlayers DEF TicketsInvariant, CancelActiveTicket, moving
    <2>2. PICK answer \in StopAnswers(t) :
            \/ CancelLocked(KeyOf(p), answer)
            \/ answer = "permanent" /\ stored' = [stored EXCEPT ![KeyOf(p)] = NoTicket] /\ UNCHANGED gl
      BY <1>1 DEF CancelActiveTicket
    <2>3. QED
      BY <2>1, <2>2, SettledCancels
  <1>2. ASSUME NEW c \in changed, HandlePartyEvent(c) PROVE SettledInvariant'
    <2>1. c.key \in Keys /\ UNCHANGED <<party, moved, events, starting>>
      BY <1>2 DEF TicketsInvariant, MovingOK, HandlePartyEvent
    <2>2. CASE Cancelable(stored[c.key])
      <3>1. PICK answer \in StopAnswers(stored[c.key].id) : CancelLocked(c.key, answer)
        BY <1>2, <2>2 DEF HandlePartyEvent
      <3>2. QED
        BY <2>1, <2>2, <3>1, SettledCancels
    <2>3. CASE ~Cancelable(stored[c.key])
      <3>1. UNCHANGED <<stored, gl>>
        BY <1>2, <2>3 DEF HandlePartyEvent
      <3>2. PICK d : d = stored[c.key]
        OBVIOUS
      <3>3. d # NoTicket => d.id \in Tickets
        BY <2>1, <3>2, StoredRow
      <3>4. QED
        BY <2>1, <3>1, <3>2, <3>3, SettledKey
    <2>4. QED
      BY <2>2, <2>3
  <1>3. ASSUME NEW p \in Players, MatchPlayerLeft(p) PROVE SettledInvariant'
    <2>1. /\ p \in Keys /\ stored[p] # NoTicket /\ stored[p].session
          /\ UNCHANGED <<party, moved, events, starting, gl>>
          /\ stored' = [stored EXCEPT ![p].status = "MATCH_COMPLETE", ![p].session = FALSE]
      BY <1>3 DEF MatchPlayerLeft, moving, gamelift, Keys
    <2>2. PICK d : d = stored[p]
      OBVIOUS
    <2>3. PICK new : new = [d EXCEPT !.status = "MATCH_COMPLETE", !.session = FALSE]
      OBVIOUS
    <2>4. stored'[p] = new /\ \A j \in Keys : j # p => stored'[j] = stored[j]
      BY <2>1, <2>2, <2>3 DEF TicketsInvariant, StoredOK
    <2>5. d # NoTicket /\ TicketOK(d) /\ d.session /\ new.id = d.id /\ ~new.session /\ new.id \in Tickets
      BY <2>1, <2>2, <2>3, StoredRow DEF TicketOK
    <2>6. ASSUME NEW q \in Players \ moved, KeyOf(q) = p, Known(q, d) PROVE Known(q, new)
      <3>1. KeyOf(q) = q
        BY <2>6, KeysApart DEF TicketsInvariant
      <3>2. \A t \in Tickets : ~ToBeTold("succeeded", t, q) /\ ~(q \in gl[t].players /\ Working(t))
        BY <2>5, <2>6, <3>1 DEF Known
      <3>3. QED
        BY <2>5, <2>6, <3>2 DEF Known
    <2>7. QED
      BY <2>1, <2>2, <2>4, <2>5, <2>6, SettledKey
  <1>4. ASSUME NEW k \in Keys, Expire(k) PROVE SettledInvariant'
    <2>1. /\ stored[k] # NoTicket /\ stored[k].status \in Expired \cup {"COMPLETED"}
          /\ ~HasPending(stored[k].id) /\ stored' = [stored EXCEPT ![k] = NoTicket]
          /\ UNCHANGED <<party, moved, events, starting, gl>>
      BY <1>4 DEF Expire, moving, gamelift
    <2>2. PICK d : d = stored[k]
      OBVIOUS
    <2>3. stored'[k] = NoTicket /\ \A j \in Keys : j # k => stored'[j] = stored[j]
      BY <2>1 DEF TicketsInvariant, StoredOK
    <2>4. ASSUME NEW q \in Players \ moved, KeyOf(q) = k, Known(q, d) PROVE Known(q, NoTicket)
      <3>1. \A t \in Tickets : ~(q \in gl[t].players /\ Working(t))
        BY <2>1, <2>2, <2>4 DEF Known, Expired, Searched
      <3>2. \A t \in Tickets : ~ToBeTold("succeeded", t, q)
        <4>1. SUFFICES ASSUME NEW t \in Tickets, ToBeTold("succeeded", t, q) PROVE FALSE
          OBVIOUS
        <4>2. PICK e \in events : <<t, q>> \in e.todo
          BY <4>1 DEF ToBeTold
        <4>3. t \in e.tickets /\ d.id = t
          BY <2>4, <4>1, <4>2 DEF SettledInvariant, EventsAgree, Known
        <4>4. QED
          BY <2>1, <2>2, <4>3 DEF HasPending
      <3>3. QED
        BY <2>4, <3>1, <3>2 DEF Known
    <2>5. QED
      BY <2>1, <2>2, <2>3, <2>4, SettledKey
  <1>5. ASSUME NEW p \in Players, Start(p) PROVE SettledInvariant'
    <2>1. /\ UNCHANGED <<party, moved, stored, gl, events>>
          /\ \A q \in Players : starting[q] = NoKey
          /\ \A q \in Players : starting'[q] # NoKey => q = p /\ starting'[q] = KeyOf(p)
      BY <1>5 DEF Start, moving, gamelift, TicketsInvariant
    <2>2. /\ MovedTogether' /\ IssuedInOrder' /\ TicketsAreShared' /\ EventsAgree' /\ SuccessIsToldOnce'
          /\ \A t \in Tickets : Working(t)' = Working(t) /\ IsPlaced(t)' = IsPlaced(t)
          /\ \A q \in Players : KeyOf(q)' = KeyOf(q)
      BY <2>1, SettledRests
    <2>3. StartsKnow'
      BY <2>1, <2>2 DEF StartsKnow
    <2>4. ASSUME NEW q \in Players \ moved PROVE Known(q, stored[KeyOf(q)])'
      <3>1. PICK x : x = stored[KeyOf(q)]
        OBVIOUS
      <3>2. Known(q, x) /\ (x # NoTicket => x.id \in Tickets)
        BY <3>1, KeysOfPlayers, StoredRow DEF SettledInvariant, TicketsInvariant
      <3>3. \A t \in Tickets : /\ ToBeTold("succeeded", t, q)' = ToBeTold("succeeded", t, q)
                               /\ ToBeTold("backfill", t, q)' = ToBeTold("backfill", t, q)
        BY <2>1, SameEvents
      <3>4. Known(q, x)'
        BY <2>1, <2>2, <3>2, <3>3, KnownStays
      <3>5. QED
        BY <2>1, <2>2, <3>1, <3>4 DEF Known
    <2>5. QED
      BY <2>1, <2>2, <2>3, <2>4 DEF SettledInvariant
  <1>6. ASSUME NEW p \in Players, NEW t \in Tickets, NEW m \in Matches, NEW yes \in BOOLEAN,
               UpdateAcceptance(p, t, m, yes)
        PROVE  SettledInvariant'
    <2>1. /\ UNCHANGED <<party, moved, stored, starting, events>>
          /\ \E told : gl' = [gl EXCEPT ![t].accepted = told]
      BY <1>6 DEF UpdateAcceptance, moving
    <2>2. \A u \in Tickets : /\ gl'[u].status = gl[u].status /\ gl'[u].players = gl[u].players
                             /\ gl'[u].match = gl[u].match
      BY <2>1 DEF TicketsInvariant, GameLiftOK
    <2>3. PICK k \in Keys : k = KeyOf(p)
      BY KeysOfPlayers DEF TicketsInvariant
    <2>4. PICK d : d = stored[k]
      OBVIOUS
    <2>5. d # NoTicket => d.id \in Tickets
      BY <2>4, StoredRow
    <2>6. QED
      BY <2>1, <2>2, <2>4, <2>5, SettledKey
  <1>7. QED
    BY <1>1, <1>2, <1>3, <1>4, <1>5, <1>6

LEMMA SettledIssue ==
    ASSUME TicketsInvariant, SettledInvariant, ~LateEnds, NEW p \in Players, Issue(p)
    PROVE  SettledInvariant'
  <1>1. PICK k \in Keys : k = starting[p]
    BY DEF Issue, TicketsInvariant
  <1>2. PICK d : d = stored[k]
    OBVIOUS
  <1>3. /\ UNCHANGED <<party, moved, events>> /\ starting[p] # NoKey
        /\ \A q \in Players : starting'[q] \in {starting[q], NoKey}
    BY DEF Issue, moving, TicketsInvariant
  <1>4. d # NoTicket => d.id \in Issued /\ d.id \in Tickets
    BY <1>2, StoredRow
  <1>5. CASE UNCHANGED <<stored, gl>>
    BY <1>2, <1>3, <1>4, <1>5, SettledKey
  <1>6. CASE ~UNCHANGED <<stored, gl>>
    <2>1. PICK t \in Tickets :
            /\ t = Cardinality(Issued) + 1
            /\ gl' = [gl EXCEPT ![t].status = "QUEUED", ![t].players = Mates(p)]
            /\ stored' = [stored EXCEPT ![k] = [id |-> t, status |-> "QUEUED", match |-> 0, session |-> FALSE]]
            /\ d # NoTicket => d.status \notin LiveStates \cup {"CANCELLING"}
      BY <1>1, <1>2, <1>6 DEF Issue
    <2>2. PICK new : new = [id |-> t, status |-> "QUEUED", match |-> 0, session |-> FALSE]
      OBVIOUS
    <2>3. stored'[k] = new /\ \A j \in Keys : j # k => stored'[j] = stored[j]
      BY <2>1, <2>2 DEF TicketsInvariant, StoredOK
    <2>4. /\ new.id = t /\ new.status = "QUEUED" /\ ~new.session
          /\ new # NoTicket
      <3>1. /\ 0 \in 0..MaxMatches
            /\ "QUEUED" \in Searched \cup NonCancelable \cup Expired \cup {"CANCELLING"}
        BY TicketsAssumption DEF Searched
      <3>2. new \in [id : Tickets, match : 0..MaxMatches, session : BOOLEAN,
                     status : Searched \cup NonCancelable \cup Expired \cup {"CANCELLING"}]
        BY <2>2, <3>1
      <3>3. new # NoTicket
        BY <3>2, NoTicketAssumption
      <3>4. QED
        BY <2>2, <3>3
    <2>5. PICK n \in Nat : Issued = 1..n
      BY DEF SettledInvariant, IssuedInOrder
    <2>6. t = n + 1 /\ \A u \in Tickets : u \in Nat
      <3>1. Cardinality(1..n) = n
        BY FS_Interval
      <3>2. QED
        BY <2>1, <2>5, <3>1 DEF Tickets
    <2>7. t \notin Issued /\ gl[t].status = "none" /\ gl[t].players = {}
      BY <2>5, <2>6 DEF Issued, SettledInvariant, IssuedInOrder
    <2>8. /\ gl'[t].status = "QUEUED" /\ gl'[t].players = Mates(p)
          /\ \A u \in Tickets : u # t => gl'[u] = gl[u]
      BY <2>1 DEF TicketsInvariant, GameLiftOK
    <2>9. \A q \in Players : KeyOf(q)' = KeyOf(q) /\ Mates(q)' = Mates(q)
      BY <1>3 DEF KeyOf, Mates, Members
    <2>10. MovedTogether' /\ StartsKnow'
      BY <1>3, <2>9 DEF SettledInvariant, MovedTogether, StartsKnow
    \* Whose ticket it is.
    <2>11. \A q \in Players \ moved : /\ KeyOf(q) = k <=> q \in Mates(p)
                                      /\ q \in Mates(p) => Mates(q) = Mates(p)
      <3>1. SUFFICES ASSUME NEW q \in Players \ moved
                     PROVE  /\ KeyOf(q) = k <=> q \in Mates(p)
                            /\ q \in Mates(p) => Mates(q) = Mates(p)
        OBVIOUS
      <3>2. k = KeyOf(q) <=> KeyOf(p) = KeyOf(q)
        BY <1>1, <1>3, <3>1 DEF SettledInvariant, StartsKnow
      <3>3. q \in Mates(p) <=> KeyOf(q) = KeyOf(p)
        BY KeysApart DEF TicketsInvariant
      <3>4. KeyOf(q) = KeyOf(p) => Mates(q) = Mates(p)
        BY SettledMates DEF TicketsInvariant, SettledInvariant
      <3>5. QED
        BY <3>2, <3>3, <3>4
    <2>12. IssuedInOrder'
      <3>1. Issued' = Issued \cup {t}
        BY <2>7, <2>8 DEF Issued
      <3>2. Issued' = 1..(n + 1) /\ n + 1 \in Nat
        BY <2>5, <2>6, <3>1
      <3>3. QED
        BY <2>8, <3>2 DEF SettledInvariant, IssuedInOrder
    <2>13. TicketsAreShared'
      BY <1>3, <2>8, <2>9, <2>11 DEF SettledInvariant, TicketsAreShared
    <2>14. EventsAgree' /\ SuccessIsToldOnce'
      <3>1. ASSUME NEW e \in events
            PROVE  /\ \A u \in Tickets, q \in Players : <<u, q>> \in e.todo => u \in e.tickets /\ q \in gl'[u].players
                   /\ \A u \in e.tickets : gl'[u].status \in Over(e.type)
                   /\ e.type = "succeeded" => \A u \in e.tickets : gl'[u].match = e.match
        <4>1. /\ \A u \in Tickets, q \in Players : <<u, q>> \in e.todo => u \in e.tickets /\ q \in gl[u].players
              /\ \A u \in e.tickets : gl[u].status \in Over(e.type)
              /\ e.type = "succeeded" => \A u \in e.tickets : gl[u].match = e.match
              /\ e.tickets \subseteq Tickets /\ e.type \in EventTypes
          BY <3>1 DEF SettledInvariant, EventsAgree, TicketsInvariant, EventsOK, EventOK
        <4>2. t \in e.tickets => e.type \in {"searching", "potential match"}
          BY <2>7, <4>1 DEF Over, EventTypes
        <4>3. "QUEUED" \in Over("searching") /\ "QUEUED" \in Over("potential match")
          BY DEF Over, GameLiftStatuses, Searched
        <4>4. QED
          BY <2>7, <2>8, <4>1, <4>2, <4>3
      <3>2. EventsAgree'
        BY <1>3, <3>1 DEF EventsAgree
      <3>3. SuccessIsToldOnce'
        BY <1>3 DEF SettledInvariant, SuccessIsToldOnce
      <3>4. QED
        BY <3>2, <3>3
    <2>15. \A q \in Players, u \in Tickets :
             /\ ToBeTold("succeeded", u, q)' = ToBeTold("succeeded", u, q)
             /\ ToBeTold("backfill", u, q)' = ToBeTold("backfill", u, q)
      BY <1>3, SameEvents
    <2>16. \A u \in Tickets : u # t => Working(u)' = Working(u) /\ IsPlaced(u)' = IsPlaced(u)
      BY <2>8 DEF Working, IsPlaced
    \* The players the ticket is for had none that GameLift works on or will report.
    <2>17. ASSUME NEW q \in Players \ moved, q \in Mates(p) PROVE Known(q, new)'
      <3>1. Known(q, d)
        BY <1>2, <2>11, <2>17 DEF SettledInvariant
      <3>2. \A u \in Tickets : ~ToBeTold("succeeded", u, q) /\ ~(q \in gl[u].players /\ Working(u))
        BY <2>1, <3>1 DEF Known, LiveStates
      <3>3. \A u \in Tickets : ~ToBeTold("backfill", u, q)
        <4>1. \A e \in events, w \in Tickets \X Mates(p) : e.type = "backfill" => w \notin e.todo
          BY DEF Issue
        <4>2. QED
          BY <2>17, <4>1 DEF ToBeTold
      <3>4. \A u \in Tickets : (q \in gl[u].players)' => u <= t
        <4>1. ASSUME NEW u \in Tickets, q \in gl'[u].players PROVE u <= t
          <5>1. u = t \/ u \in 1..n
            BY <2>5, <2>8, <4>1 DEF Issued, SettledInvariant, IssuedInOrder
          <5>2. QED
            BY <2>6, <5>1
        <4>2. QED
          BY <4>1
      <3>5. \A u \in Tickets : (q \in gl[u].players)' /\ Working(u)' => u = t
        BY <2>8, <2>16, <3>2
      <3>6. QED
        BY <2>4, <2>15, <3>2, <3>3, <3>4, <3>5 DEF Known, Searched
    <2>18. ASSUME NEW q \in Players \ moved', NEW x, x = stored'[KeyOf(q)] PROVE Known(q, x)'
      <3>1. q \in Players \ moved /\ KeyOf(q) \in Keys
        BY <1>3, <2>18, KeysOfPlayers DEF TicketsInvariant
      <3>2. CASE q \in Mates(p)
        <4>1. x = new
          BY <2>3, <2>11, <2>18, <3>1, <3>2
        <4>2. QED
          BY <2>17, <3>1, <3>2, <4>1
      <3>3. CASE q \notin Mates(p)
        <4>1. Known(q, x) /\ (x # NoTicket => x.id \in Tickets)
          BY <2>3, <2>11, <2>18, <3>1, <3>3, StoredRow DEF SettledInvariant
        <4>2. \A u \in Tickets : /\ q \in gl'[u].players => q \in gl[u].players /\ (Working(u)' => Working(u))
                                 /\ IsPlaced(u) => IsPlaced(u)' /\ gl'[u].match = gl[u].match
          BY <2>7, <2>8, <2>16, <3>3 DEF IsPlaced
        <4>3. QED
          BY <2>9, <2>15, <3>1, <4>1, <4>2, KnownStays
      <3>4. QED
        BY <3>2, <3>3
    <2>19. ASSUME NEW q \in Players \ moved' PROVE Known(q, stored[KeyOf(q)])'
      <3>1. PICK x : x = stored'[KeyOf(q)]
        OBVIOUS
      <3>2. Known(q, x)'
        BY <2>18, <2>19, <3>1
      <3>3. QED
        BY <2>9, <3>1, <3>2 DEF Known
    <2>20. QED
      BY <2>10, <2>12, <2>13, <2>14, <2>19 DEF SettledInvariant
  <1>7. QED
    BY <1>5, <1>6

----------------------------------------------------------------------------
\* Events.

\* What an event makes of the ticket of a settled player of it.
LEMMA ProcessedIsKnown ==
    ASSUME TicketsInvariant, SettledInvariant, NEW e \in events, NEW t \in Tickets, NEW p \in Players,
           <<t, p>> \in e.todo, NEW r \in Players \ moved, KeyOf(r) = KeyOf(p),
           NEW d, d = stored[KeyOf(p)], d # NoTicket, NEW new, new = Processed(d, t, e),
           \A u \in Tickets : /\ ToBeTold("succeeded", u, r)' => ToBeTold("succeeded", u, r)
                              /\ ToBeTold("backfill", u, r)' => ToBeTold("backfill", u, r),
           e.type = "succeeded" => \A u \in Tickets : ~ToBeTold("succeeded", u, p)',
           UNCHANGED <<party, gl>>
    PROVE  Known(r, new)' /\ new # NoTicket
  <1>1. /\ TicketOK(d) /\ EventOK(e) /\ KeyOf(p) \in Keys /\ d.id \in Tickets
        /\ d \in [id : Issued, status : Statuses, match : 0..matches, session : BOOLEAN]
    BY KeysOfPlayers, StoredRow DEF TicketsInvariant, EventsOK, TicketOK
  <1>2. TicketOK(new) /\ new # NoTicket
    BY <1>1, ProcessedIsSound, TicketsAreSome
  <1>3. /\ t \in e.tickets /\ p \in gl[t].players /\ gl[t].status \in Over(e.type)
        /\ e.type = "succeeded" => gl[t].match = e.match
        /\ \A f \in events, u \in Tickets, q \in Players : <<u, q>> \in f.todo /\ f.type = "succeeded" =>
             gl[u].status = "COMPLETED" /\ q \in gl[u].players
    BY DEF SettledInvariant, EventsAgree, Over
  <1>4. p \in Players \ moved /\ Mates(p) = Mates(r) /\ r \in Mates(p) /\ p \in Mates(p)
    BY KeysApart, SettledMates DEF SettledInvariant, TicketsInvariant
  <1>5. gl[t].players = Mates(p) /\ \A u \in Tickets : r \in gl[u].players <=> p \in gl[u].players
    BY <1>3, <1>4 DEF SettledInvariant, TicketsAreShared
  <1>6. Known(r, d) /\ Known(p, d)
    BY <1>4 DEF SettledInvariant
  <1>7. /\ \A u \in Tickets : gl'[u] = gl[u] /\ Working(u)' = Working(u) /\ IsPlaced(u)' = IsPlaced(u)
        /\ KeyOf(r)' = KeyOf(r)
    BY DEF Working, IsPlaced, KeyOf
  <1>8. CASE new = d
    <2>1. Known(r, d)'
      BY <1>1, <1>6, <1>7, KnownStays
    <2>2. QED
      BY <1>2, <1>8, <2>1
  \* The ticket keeps its id.  Then what is known of the players' tickets stays.
  <1>9. ASSUME new.id = d.id,
               \A u \in Tickets : r \in gl[u].players /\ Working(u) =>
                 ~new.session /\ new.status \in Searched \cup {"PLACING", "CANCELLING"},
               \A u \in Tickets : ToBeTold("succeeded", u, r)' => new.status \in LiveStates \cup {"CANCELLING"},
               \A u \in Tickets : (KeyOf(r) = r)' /\ new.session => ~ToBeTold("succeeded", u, r)',
               new.session => IsPlaced(new.id) /\ new.match = gl[new.id].match
        PROVE  Known(r, new)'
    <2>1. \A u \in Tickets : (r \in gl[u].players)' /\ Working(u)' =>
            new # NoTicket /\ new.id = u /\ ~new.session /\ new.status \in Searched \cup {"PLACING", "CANCELLING"}
      BY <1>2, <1>6, <1>7, <1>9 DEF Known
    <2>2. \A u \in Tickets : ToBeTold("succeeded", u, r)' =>
            new # NoTicket /\ new.id = u /\ new.status \in LiveStates \cup {"CANCELLING"}
      BY <1>2, <1>6, <1>9 DEF Known
    <2>3. \A u \in Tickets : (r \in gl[u].players)' /\ new # NoTicket => u <= new.id
      BY <1>6, <1>7, <1>9 DEF Known
    <2>4. \A u, v \in Tickets : ToBeTold("backfill", u, r)' /\ (r \in gl[v].players)' => v <= u
      BY <1>6, <1>7 DEF Known
    <2>5. new # NoTicket /\ new.session => IsPlaced(new.id)' /\ new.match = gl'[new.id].match
      BY <1>1, <1>7, <1>9
    <2>6. QED
      BY <2>1, <2>2, <2>3, <2>4, <2>5, <1>9 DEF Known
  <1>10. ASSUME NEW status, new = [d EXCEPT !.status = status]
         PROVE  new.id = d.id /\ new.status = status /\ new.match = d.match /\ new.session = d.session
    BY <1>1, <1>10
  <1>11. CASE e.type = "searching"
    <2>1. new = d \/ (new = [d EXCEPT !.status = "SEARCHING"] /\ ~d.session)
      BY <1>11 DEF Processed, SearchingEvent
    <2>2. QED
      BY <1>2, <1>8, <1>9, <1>10, <2>1 DEF Searched, LiveStates
  <1>12. CASE e.type = "potential match"
    <2>1. new = d \/ (new = [d EXCEPT !.status = e.next, !.match = e.match] /\ ~d.session)
      BY <1>12 DEF Processed, PotentialMatchEvent
    <2>2. new = d \/ (new.id = d.id /\ new.status = e.next /\ ~new.session)
      BY <1>1, <2>1
    <2>3. e.next \in {"REQUIRES_ACCEPTANCE", "PLACING"}
      BY <1>1, <1>12 DEF EventOK
    <2>4. QED
      BY <1>2, <1>8, <1>9, <2>2, <2>3 DEF Searched, LiveStates
  <1>13. CASE e.type = "succeeded"
    <2>1. new = d \/ new = [d EXCEPT !.status = "COMPLETED", !.match = e.match, !.session = TRUE]
      BY <1>13 DEF Processed, SucceededEvent
    <2>2. new = d \/ (new.id = d.id /\ new.status = "COMPLETED" /\ new.match = e.match /\ new.session)
      BY <1>1, <2>1
    <2>3. d.id = t /\ gl[t].status = "COMPLETED" /\ gl[t].match = e.match
      <3>1. ToBeTold("succeeded", t, p)
        BY <1>13 DEF ToBeTold
      <3>2. QED
        BY <1>3, <1>6, <1>13, <3>1 DEF Known
    <2>4. \A u \in Tickets : ~(r \in gl[u].players /\ Working(u))
      BY <1>6, <2>3 DEF Known, Working, Searched
    <2>5. (KeyOf(r) = r)' => r = p
      <3>1. KeyOf(p) \in Players => KeyOf(p) = p
        BY KeysApart DEF TicketsInvariant
      <3>2. QED
        BY <1>7, <3>1
    <2>6. IsPlaced(t)
      BY <2>3 DEF IsPlaced
    <2>7. QED
      BY <1>2, <1>8, <1>9, <1>13, <2>2, <2>3, <2>4, <2>5, <2>6 DEF LiveStates
  \* What is over is neither worked on nor to be told a success.
  <1>14. ASSUME d.id = t, gl[t].status \in {"CANCELLED", "TIMED_OUT", "FAILED"},
                NEW status, new = [d EXCEPT !.status = status]
         PROVE  Known(r, new)'
    <2>1. new.id = d.id /\ new.match = d.match /\ new.session = d.session
      BY <1>10, <1>14
    <2>2. \A u \in Tickets : ~(r \in gl[u].players /\ Working(u))
      BY <1>6, <1>14 DEF Known, Working, Searched
    <2>3. \A u \in Tickets : ~ToBeTold("succeeded", u, r)'
      <3>1. SUFFICES ASSUME NEW u \in Tickets, ToBeTold("succeeded", u, r) PROVE FALSE
        OBVIOUS
      <3>2. u = t
        BY <1>6, <1>14, <3>1 DEF Known
      <3>3. gl[u].status = "COMPLETED"
        BY <1>3, <3>1 DEF ToBeTold
      <3>4. QED
        BY <1>14, <3>2, <3>3
    <2>4. new.session => IsPlaced(new.id) /\ new.match = gl[new.id].match
      BY <1>6, <2>1 DEF Known
    <2>5. QED
      BY <1>9, <2>1, <2>2, <2>3, <2>4
  <1>15. CASE e.type = "cancelled"
    <2>1. new = d \/ (new = [d EXCEPT !.status = "CANCELLED"] /\ d.id = t)
      BY <1>15 DEF Processed, CancelledEvent
    <2>2. QED
      BY <1>2, <1>3, <1>8, <1>14, <1>15, <2>1 DEF Over
  <1>16. CASE e.type = "timeout"
    <2>1. new = d \/ (new = [d EXCEPT !.status = "TIMED_OUT"] /\ d.id = t)
      BY <1>16 DEF Processed, TimeoutEvent
    <2>2. QED
      BY <1>2, <1>3, <1>8, <1>14, <1>16, <2>1 DEF Over
  <1>17. CASE e.type = "failed"
    <2>1. new = d \/ (new = [d EXCEPT !.status = "FAILED"] /\ d.id = t)
      BY <1>17 DEF Processed, FailedEvent
    <2>2. QED
      BY <1>2, <1>3, <1>8, <1>14, <1>17, <2>1 DEF Over
  \* The ticket a match was backfilled for is the last one, so it is not the one of a match
  \* whose success is still to be told.
  <1>18. CASE e.type = "backfill"
    <2>1. new = d \/ (new = [d EXCEPT !.status = "MATCH_COMPLETE"] /\ d.status = "COMPLETED")
      BY <1>18 DEF Processed, BackfillEvent
    <2>2. CASE new = d
      BY <1>2, <1>8, <2>2
    <2>3. CASE new = [d EXCEPT !.status = "MATCH_COMPLETE"] /\ d.status = "COMPLETED"
      <3>1. new.id = d.id /\ new.match = d.match /\ new.session = d.session
        BY <1>10, <2>3
      <3>2. \A u \in Tickets : ~(r \in gl[u].players /\ Working(u))
        BY <1>6, <2>3 DEF Known, Searched
      <3>3. \A u \in Tickets : ~ToBeTold("succeeded", u, r)'
        <4>1. SUFFICES ASSUME NEW u \in Tickets, ToBeTold("succeeded", u, r) PROVE FALSE
          OBVIOUS
        <4>2. gl[u].status = "COMPLETED" /\ r \in gl[u].players
          BY <1>3, <4>1 DEF ToBeTold
        <4>3. d.id = u
          BY <1>6, <4>1 DEF Known
        <4>4. ToBeTold("backfill", t, p)
          BY <1>18 DEF ToBeTold
        <4>5. u <= t /\ t <= u
          BY <1>3, <1>5, <1>6, <4>2, <4>3, <4>4 DEF Known
        <4>6. u = t
          BY <4>5, StoredRow, <1>1
        <4>7. QED
          BY <1>3, <1>18, <4>2, <4>6 DEF Over
      <3>4. new.session => IsPlaced(new.id) /\ new.match = gl[new.id].match
        BY <1>6, <3>1 DEF Known
      <3>5. QED
        BY <1>2, <1>9, <3>1, <3>2, <3>3, <3>4
    <2>4. QED
      BY <2>1, <2>2, <2>3
  <1>19. QED
    BY <1>1, <1>11, <1>12, <1>13, <1>15, <1>16, <1>17, <1>18 DEF EventOK, EventTypes

LEMMA SettledProcess ==
    ASSUME TicketsInvariant, SettledInvariant, NEW e \in events, NEW t \in Tickets, NEW p \in Players,
           ProcessEvent(e, t, p)
    PROVE  SettledInvariant'
  <1>1. PICK k \in Keys : k = KeyOf(p)
    BY KeysOfPlayers DEF TicketsInvariant
  <1>2. PICK d : d = stored[k]
    OBVIOUS
  <1>3. /\ <<t, p>> \in e.todo /\ UNCHANGED <<party, moved, starting, gl>>
        /\ stored' = IF d = NoTicket THEN stored
                     ELSE [stored EXCEPT ![k] = Processed(d, t, e)]
    BY <1>1, <1>2 DEF ProcessEvent, moving, TicketsInvariant, StoredOK
  <1>4. PICK new : new = stored'[k]
    OBVIOUS
  <1>5. /\ \A j \in Keys : j # k => stored'[j] = stored[j]
        /\ d = NoTicket => new = NoTicket
        /\ d # NoTicket => new = Processed(d, t, e)
    BY <1>2, <1>3, <1>4 DEF TicketsInvariant, StoredOK
  <1>6. PICK less : less = [e EXCEPT !.todo = @ \ {<<t, p>>}]
    OBVIOUS
  <1>7. EventOK(e) /\ e.tickets \subseteq Tickets
    BY DEF TicketsInvariant, EventsOK, EventOK
  <1>8. /\ less.type = e.type /\ less.tickets = e.tickets /\ less.match = e.match
        /\ less.todo = e.todo \ {<<t, p>>}
    BY <1>6, <1>7 DEF EventOK
  <1>9. events' \subseteq (events \ {e}) \cup {less}
    BY <1>6 DEF ProcessEvent
  <1>10. /\ MovedTogether' /\ IssuedInOrder' /\ TicketsAreShared' /\ StartsKnow'
         /\ \A u \in Tickets : Working(u)' = Working(u) /\ IsPlaced(u)' = IsPlaced(u)
         /\ \A q \in Players : KeyOf(q)' = KeyOf(q)
    BY <1>3, SettledRests
  <1>11. EventsAgree'
    <2>1. EventsAgree
      BY DEF SettledInvariant
    <2>2. ASSUME NEW f \in events'
          PROVE  /\ \A u \in Tickets, q \in Players : <<u, q>> \in f.todo => u \in f.tickets /\ q \in gl'[u].players
                 /\ \A u \in f.tickets : gl'[u].status \in Over(f.type)
                 /\ f.type = "succeeded" => \A u \in f.tickets : gl'[u].match = f.match
      <3>1. f \in events \/ f = less
        BY <1>9
      <3>2. CASE f \in events
        BY <1>3, <2>1, <3>2 DEF EventsAgree
      <3>3. CASE f = less
        <4>1. /\ \A u \in Tickets, q \in Players : <<u, q>> \in e.todo => u \in e.tickets /\ q \in gl[u].players
              /\ \A u \in e.tickets : gl[u].status \in Over(e.type)
              /\ e.type = "succeeded" => \A u \in e.tickets : gl[u].match = e.match
          BY <2>1 DEF EventsAgree
        <4>2. QED
          BY <1>3, <1>8, <3>3, <4>1
      <3>4. QED
        BY <3>1, <3>2, <3>3
    <2>3. QED
      BY <2>2 DEF EventsAgree
  <1>12. SuccessIsToldOnce'
    BY <1>8, <1>9 DEF SettledInvariant, SuccessIsToldOnce
  <1>13. \A u, q : /\ ToBeTold("succeeded", u, q)' => ToBeTold("succeeded", u, q)
                   /\ ToBeTold("backfill", u, q)' => ToBeTold("backfill", u, q)
    BY <1>8, <1>9 DEF ToBeTold
  <1>14. \A u \in Tickets, q \in Players : ToBeTold("succeeded", u, q)' =>
           \E f \in events : f.type = "succeeded" /\ <<u, q>> \in f.todo /\ (f = e => <<u, q>> # <<t, p>>)
    BY <1>8, <1>9 DEF ToBeTold
  \* The success just told was the only one for this player.
  <1>15. ASSUME NEW r \in Players \ moved, KeyOf(r) = k, d # NoTicket, e.type = "succeeded",
                NEW u \in Tickets, ToBeTold("succeeded", u, p)'
         PROVE  FALSE
    <2>1. PICK f \in events : f.type = "succeeded" /\ <<u, p>> \in f.todo /\ (f = e => u # t)
      BY <1>14, <1>15
    <2>2. p \notin moved
      BY <1>1, <1>15, SettledMates DEF TicketsInvariant, SettledInvariant
    <2>3. Known(p, d) /\ ToBeTold("succeeded", u, p) /\ ToBeTold("succeeded", t, p)
      BY <1>1, <1>2, <1>3, <1>15, <2>1, <2>2 DEF SettledInvariant, ToBeTold
    <2>4. u = t
      BY <2>3 DEF Known
    <2>5. t \in f.tickets /\ t \in e.tickets
      BY <1>3, <2>1, <2>4 DEF SettledInvariant, EventsAgree
    <2>6. f = e
      BY <1>15, <2>1, <2>5 DEF SettledInvariant, SuccessIsToldOnce
    <2>7. QED
      BY <2>1, <2>4, <2>6
  <1>16. ASSUME NEW r \in Players \ moved' PROVE Known(r, stored[KeyOf(r)])'
    <2>1. r \in Players \ moved /\ KeyOf(r) \in Keys /\ KeyOf(r)' = KeyOf(r)
      BY <1>3, <1>10, <1>16, KeysOfPlayers DEF TicketsInvariant
    <2>2. PICK x : x = stored'[KeyOf(r)]
      OBVIOUS
    <2>3. CASE KeyOf(r) = k /\ d # NoTicket
      <3>1. x = Processed(d, t, e)
        BY <1>4, <1>5, <2>2, <2>3
      <3>2. e.type = "succeeded" => \A u \in Tickets : ~ToBeTold("succeeded", u, p)'
        BY <1>15, <2>1, <2>3
      <3>3. Known(r, x)'
        BY <1>1, <1>2, <1>3, <1>13, <2>1, <2>3, <3>1, <3>2, ProcessedIsKnown
      <3>4. QED
        BY <2>1, <2>2, <3>3 DEF Known
    <2>4. CASE ~(KeyOf(r) = k /\ d # NoTicket)
      <3>1. x = stored[KeyOf(r)]
        BY <1>2, <1>4, <1>5, <2>1, <2>2, <2>4
      <3>2. Known(r, x) /\ (x # NoTicket => x.id \in Tickets)
        BY <2>1, <3>1, StoredRow DEF SettledInvariant
      <3>3. Known(r, x)'
        BY <1>3, <1>10, <1>13, <2>1, <3>2, KnownStays
      <3>4. QED
        BY <2>1, <2>2, <3>3 DEF Known
    <2>5. QED
      BY <2>3, <2>4
  <1>17. QED
    BY <1>10, <1>11, <1>12, <1>16 DEF SettledInvariant

----------------------------------------------------------------------------
\* GameLift.

\* GameLift brings tickets it works on, or one that is placed, to another state, and
\* reports so with the events N.
Lifts(T, status, m, N) ==
  /\ T \in SUBSET Tickets /\ Becomes(T, status, m) /\ events' = events \cup N
  /\ status # "none" /\ status \in GameLiftStatuses
  \* What was over stays over,
  /\ \A t \in T : /\ gl[t].status # "none" /\ (status \in Searched \cup {"PLACING"} => Working(t))
                  /\ \/ Working(t)
                     \/ gl[t].status = "COMPLETED" /\ status = "ENDED" /\ m = gl[t].match /\ ~HasPending(t)
  \* what is new is true,
  /\ \A e \in N : /\ e.type \in EventTypes /\ e.tickets = T /\ status \in Over(e.type)
                  /\ e.todo = {w \in T \X Players : w[2] \in gl[w[1]].players}
                  /\ e.type = "succeeded" => e.match = m
  /\ \A e, f \in N : e = f
  \* and a match ends for players who have no newer ticket.
  /\ (\E e \in N : e.type = "backfill") =>
       \A t \in T, u \in Issued : u > t => gl[u].players \cap gl[t].players = {}

LEMMA SettledGameLift ==
    ASSUME TicketsInvariant, SettledInvariant, NEW T, NEW status, NEW m, NEW N, Lifts(T, status, m, N),
           UNCHANGED <<party, moved, stored, starting>>
    PROVE  SettledInvariant'
  <1> USE DEF Lifts
  <1>1. /\ \A t \in Tickets : /\ gl'[t].players = gl[t].players
                              /\ t \notin T => gl'[t].status = gl[t].status /\ gl'[t].match = gl[t].match
                              /\ t \in T => gl'[t].status = status /\ gl'[t].match = m
    <2> DEFINE still == status \in Searched \cup {"PLACING"}
               Next(r) == [r EXCEPT !.status = status, !.match = m, !.accepted = {},
                                    !.stopped = r.stopped /\ still]
    <2>1. gl' = [t \in Tickets |-> IF t \in T THEN Next(gl[t]) ELSE gl[t]]
      BY DEF Becomes
    <2>2. \A t \in Tickets : gl[t] \in [status : GameLiftStatuses, players : SUBSET Players, match : 0..matches,
                                       stopped : BOOLEAN, accepted : SUBSET (Players \cup {NoKey})]
      BY DEF TicketsInvariant, GameLiftOK
    <2> HIDE DEF still
    <2>3. \A t \in Tickets : /\ Next(gl[t]).status = status /\ Next(gl[t]).match = m
                             /\ Next(gl[t]).players = gl[t].players
      BY <2>2
    <2> HIDE DEF Next
    <2>4. QED
      BY <2>1, <2>3
  <1>2. \A q \in Players : KeyOf(q)' = KeyOf(q) /\ Mates(q)' = Mates(q)
    BY DEF KeyOf, Mates, Members
  <1>3. MovedTogether' /\ StartsKnow'
    BY <1>2 DEF SettledInvariant, MovedTogether, StartsKnow
  <1>4. IssuedInOrder' /\ TicketsAreShared'
    <2>1. \A t \in Tickets : gl'[t].status = "none" <=> gl[t].status = "none"
      BY <1>1
    <2>2. Issued' = Issued
      BY <2>1 DEF Issued
    <2>3. IssuedInOrder'
      BY <1>1, <2>1, <2>2 DEF SettledInvariant, IssuedInOrder
    <2>4. TicketsAreShared'
      BY <1>1, <1>2 DEF SettledInvariant, TicketsAreShared
    <2>5. QED
      BY <2>3, <2>4
  <1>5. \A e \in events : /\ e.tickets \subseteq Tickets /\ e.type \in EventTypes
                          /\ \A t \in Tickets, p \in Players : <<t, p>> \in e.todo => t \in e.tickets /\ p \in gl[t].players
                          /\ \A t \in e.tickets : gl[t].status \in Over(e.type)
                          /\ e.type = "succeeded" => \A t \in e.tickets : gl[t].match = e.match
    BY DEF SettledInvariant, EventsAgree, TicketsInvariant, EventsOK, EventOK
  <1>6. \A e \in events : e.type \notin {"searching", "potential match"} => T \cap e.tickets = {}
    <2>1. SUFFICES ASSUME NEW e \in events, e.type \notin {"searching", "potential match"},
                          NEW t \in T, t \in e.tickets
                   PROVE  FALSE
      OBVIOUS
    <2>2. Working(t) \/ ~HasPending(t)
      OBVIOUS
    <2>3. HasPending(t)
      BY <2>1 DEF HasPending
    <2>4. gl[t].status \notin Searched \cup {"PLACING"}
      BY <1>5, <2>1 DEF Over, EventTypes, Searched
    <2>5. QED
      BY <2>2, <2>3, <2>4 DEF Working
  <1>7. EventsAgree'
    <2>1. ASSUME NEW e \in events'
          PROVE  /\ \A t \in Tickets, p \in Players : <<t, p>> \in e.todo => t \in e.tickets /\ p \in gl'[t].players
                 /\ \A t \in e.tickets : gl'[t].status \in Over(e.type)
                 /\ e.type = "succeeded" => \A t \in e.tickets : gl'[t].match = e.match
      <3>1. CASE e \in events /\ e.type \notin {"searching", "potential match"}
        BY <1>1, <1>5, <1>6, <3>1
      <3>2. CASE e \in events /\ e.type \in {"searching", "potential match"}
        <4>1. Over(e.type) = GameLiftStatuses
          BY <3>2 DEF Over
        <4>2. \A t \in Tickets : gl'[t].status \in GameLiftStatuses
          BY <1>1 DEF TicketsInvariant, GameLiftOK
        <4>3. QED
          BY <1>1, <1>5, <3>2, <4>1, <4>2
      <3>3. CASE e \in N
        BY <1>1, <3>3
      <3>4. QED
        BY <3>1, <3>2, <3>3
    <2>2. QED
      BY <2>1 DEF EventsAgree
  <1>8. SuccessIsToldOnce'
    <2>1. ASSUME NEW e \in events', NEW f \in events', e.type = "succeeded", f.type = "succeeded",
                 e.tickets \cap f.tickets # {}
          PROVE  e = f
      <3>1. (e \in events \/ e \in N) /\ (f \in events \/ f \in N)
        OBVIOUS
      <3>2. CASE e \in events /\ f \in events
        BY <2>1, <3>2 DEF SettledInvariant, SuccessIsToldOnce
      <3>3. CASE e \in N /\ f \in N
        BY <3>3
      <3>4. CASE (e \in events /\ f \in N) \/ (e \in N /\ f \in events)
        BY <1>6, <2>1, <3>4
      <3>5. QED
        BY <3>1, <3>2, <3>3, <3>4
    <2>2. QED
      BY <2>1 DEF SuccessIsToldOnce
  \* What GameLift works on, and what is told of it.
  <1>9. \A t \in Tickets : /\ Working(t)' => Working(t)
                           /\ IsPlaced(t) => IsPlaced(t)' /\ gl'[t].match = gl[t].match
    BY <1>1 DEF Working, IsPlaced, Searched
  <1>10. ASSUME NEW type, NEW t \in Tickets, NEW p \in Players, ToBeTold(type, t, p)'
         PROVE  ToBeTold(type, t, p) \/ (t \in T /\ p \in gl[t].players /\ \E e \in N : e.type = type)
    BY <1>10 DEF ToBeTold
  <1>11. ASSUME NEW p \in Players \ moved, NEW d, d = stored[KeyOf(p)] PROVE Known(p, d)'
    <2>1. Known(p, d) /\ (d # NoTicket => d.id \in Tickets)
      BY <1>11, KeysOfPlayers, StoredRow DEF SettledInvariant, TicketsInvariant
    <2>2. ASSUME NEW t \in Tickets, t \in T, p \in gl[t].players, NEW e \in N, e.type = "succeeded"
          PROVE  d # NoTicket /\ d.id = t /\ ~d.session /\ d.status \in LiveStates \cup {"CANCELLING"}
      <3>1. Working(t)
        BY <2>2 DEF Over
      <3>2. QED
        BY <2>1, <2>2, <3>1 DEF Known, LiveStates
    <2>3. \A t \in Tickets : (p \in gl[t].players)' /\ Working(t)' =>
            d # NoTicket /\ d.id = t /\ ~d.session /\ d.status \in Searched \cup {"PLACING", "CANCELLING"}
      BY <1>1, <1>9, <2>1 DEF Known
    <2>4. \A t \in Tickets : ToBeTold("succeeded", t, p)' =>
            d # NoTicket /\ d.id = t /\ d.status \in LiveStates \cup {"CANCELLING"}
      BY <1>10, <2>1, <2>2 DEF Known
    <2>5. \A t \in Tickets : (KeyOf(p) = p)' /\ d # NoTicket /\ d.session => ~ToBeTold("succeeded", t, p)'
      BY <1>2, <1>10, <2>1, <2>2 DEF Known
    <2>6. \A t \in Tickets : (p \in gl[t].players)' /\ d # NoTicket => t <= d.id
      BY <1>1, <2>1 DEF Known
    <2>7. ASSUME NEW t \in Tickets, NEW u \in Tickets, ToBeTold("backfill", t, p)', p \in gl'[u].players
          PROVE  u <= t
      <3>1. p \in gl[u].players
        BY <1>1, <2>7
      <3>2. CASE ToBeTold("backfill", t, p)
        BY <2>1, <3>1, <3>2 DEF Known
      <3>3. CASE t \in T /\ p \in gl[t].players /\ \E e \in N : e.type = "backfill"
        <4>1. u \in Issued
          BY <3>1 DEF Issued, SettledInvariant, IssuedInOrder
        <4>2. ~(u > t) /\ u \in Nat /\ t \in Nat
          BY <3>1, <3>3, <4>1 DEF Tickets
        <4>3. QED
          BY <4>2
      <3>4. QED
        BY <1>10, <2>7, <3>2, <3>3
    <2>8. d # NoTicket /\ d.session => IsPlaced(d.id)' /\ d.match = gl'[d.id].match
      BY <1>9, <2>1 DEF Known
    <2>9. QED
      BY <2>3, <2>4, <2>5, <2>6, <2>7, <2>8 DEF Known
  <1>12. ASSUME NEW p \in Players \ moved' PROVE Known(p, stored[KeyOf(p)])'
    <2>1. PICK d : d = stored[KeyOf(p)]
      OBVIOUS
    <2>2. Known(p, d)' /\ KeyOf(p)' = KeyOf(p)
      BY <1>2, <1>11, <1>12, <2>1
    <2>3. QED
      BY <2>1, <2>2 DEF Known
  <1>13. QED
    BY <1>3, <1>4, <1>7, <1>8, <1>12 DEF SettledInvariant

LEMMA SettledGameLiftNext ==
    ASSUME TicketsInvariant, SettledInvariant, ~LateEnds,
           \/ \E t \in Tickets : GameLiftSearches(t) \/ GameLiftGivesUp(t) \/ BackfillEnds(t)
           \/ \E T \in SUBSET Tickets, next \in {"REQUIRES_ACCEPTANCE", "PLACING"} :
                GameLiftProposes(T, next)
           \/ \E m \in Matches : GameLiftDecides(m) \/ GameLiftSucceeds(m)
    PROVE  SettledInvariant'
  \* A ticket GameLift works on goes on, with a report or without.
  <1>1. ASSUME NEW T \in SUBSET Tickets, \A t \in T : Working(t), NEW status, NEW m, Becomes(T, status, m),
               NEW type \in EventTypes \ {"backfill"}, NEW told, NEW next,
               Report(type, T, told, next) \/ UNCHANGED events,
               status \in Over(type), status \in GameLiftStatuses \ {"none"}, type = "succeeded" => told = m,
               UNCHANGED <<moving, stored, starting>>
        PROVE  SettledInvariant'
    <2>1. PICK todo : todo = {w \in T \X Players : w[2] \in gl[w[1]].players}
      OBVIOUS
    <2>2. PICK e : e = [type |-> type, tickets |-> T, match |-> told, next |-> next, todo |-> todo]
      OBVIOUS
    <2>3. PICK N \in {{}, {e}} : events' = events \cup N
      BY <1>1, <2>1, <2>2 DEF Report
    <2>4. \A t \in T : gl[t].status # "none"
      BY <1>1 DEF Working, Searched
    <2>5. \A f \in N : f = e
      OBVIOUS
    <2>6. e.type = type /\ e.tickets = T /\ e.match = told /\ e.todo = todo
      BY <2>2
    <2>7. UNCHANGED <<party, moved, stored, starting>>
      BY <1>1 DEF moving
    <2>8. /\ \A t \in T : /\ gl[t].status # "none" /\ (status \in Searched \cup {"PLACING"} => Working(t))
                          /\ \/ Working(t)
                             \/ gl[t].status = "COMPLETED" /\ status = "ENDED" /\ m = gl[t].match /\ ~HasPending(t)
      BY <1>1, <2>4
    <2>9. \A f \in N : /\ f.type \in EventTypes /\ f.tickets = T /\ status \in Over(f.type)
                       /\ f.todo = {w \in T \X Players : w[2] \in gl[w[1]].players}
                       /\ f.type = "succeeded" => f.match = m
      BY <1>1, <2>1, <2>5, <2>6
    <2>10. /\ \A f, g \in N : f = g
           /\ ~ \E f \in N : f.type = "backfill"
      BY <1>1, <2>5, <2>6
    <2>11. status # "none" /\ status \in GameLiftStatuses /\ Becomes(T, status, m)
      BY <1>1
    <2>12. QED
      BY <2>3, <2>7, <2>8, <2>9, <2>10, <2>11, SettledGameLift DEF Lifts
  <1>2. ASSUME NEW t \in Tickets, GameLiftSearches(t) \/ GameLiftGivesUp(t) PROVE SettledInvariant'
    <2>1. PICK type \in EventTypes \ {"backfill", "succeeded"},
               status \in GameLiftStatuses \ {"none"} :
            /\ Becomes({t}, status, 0) /\ Report(type, {t}, 0, "") /\ status \in Over(type)
            /\ UNCHANGED <<moving, stored, starting>> /\ Working(t)
      <3>1. CASE GameLiftSearches(t)
        BY <3>1 DEF GameLiftSearches, Working, Searched, Over, EventTypes, GameLiftStatuses
      <3>2. CASE GameLiftGivesUp(t)
        BY <3>2 DEF GameLiftGivesUp, Working, Searched, Over, EventTypes, GameLiftStatuses
      <3>3. QED
        BY <1>2, <3>1, <3>2
    <2>2. {t} \in SUBSET Tickets
      OBVIOUS
    <2>3. QED
      BY <1>1, <2>1, <2>2
  <1>3. ASSUME NEW T \in SUBSET Tickets, NEW next \in {"REQUIRES_ACCEPTANCE", "PLACING"},
               GameLiftProposes(T, next)
        PROVE  SettledInvariant'
    <2>1. /\ \A t \in T : Working(t)
          /\ Becomes(T, next, matches + 1) /\ Report("potential match", T, matches + 1, next)
          /\ UNCHANGED <<moving, stored, starting>>
      BY <1>3 DEF GameLiftProposes, Working, Searched
    <2>2. /\ "potential match" \in EventTypes \ {"backfill"} /\ next \in Over("potential match")
          /\ next \in GameLiftStatuses \ {"none"}
      BY DEF EventTypes, Over, GameLiftStatuses, Searched
    <2>3. QED
      BY <1>1, <2>1, <2>2
  <1>4. ASSUME NEW m \in Matches, GameLiftDecides(m) PROVE SettledInvariant'
    <2> DEFINE T == InMatch(m, "REQUIRES_ACCEPTANCE")
    <2>1. T \in SUBSET Tickets /\ (\A t \in T : Working(t)) /\ UNCHANGED <<moving, stored, starting>>
      BY <1>4 DEF InMatch, Working, Searched, GameLiftDecides
    <2>2. \/ Becomes(T, "PLACING", m) /\ UNCHANGED events
          \/ \E t \in T : \/ Becomes({t}, "SEARCHING", 0) /\ Report("searching", {t}, 0, "")
                          \/ Becomes({t}, "CANCELLED", 0) /\ Report("cancelled", {t}, 0, "")
      BY <1>4 DEF GameLiftDecides
    <2>3. /\ {"searching", "cancelled"} \subseteq EventTypes \ {"backfill"}
          /\ "PLACING" \in Over("searching") /\ "SEARCHING" \in Over("searching")
          /\ "CANCELLED" \in Over("cancelled")
          /\ {"PLACING", "SEARCHING", "CANCELLED"} \subseteq GameLiftStatuses \ {"none"}
      BY DEF EventTypes, Over, GameLiftStatuses, Searched
    <2> HIDE DEF T
    <2>4. CASE Becomes(T, "PLACING", m) /\ UNCHANGED events
      BY <1>1, <2>1, <2>3, <2>4
    <2>5. ASSUME NEW t \in T,
                 \/ Becomes({t}, "SEARCHING", 0) /\ Report("searching", {t}, 0, "")
                 \/ Becomes({t}, "CANCELLED", 0) /\ Report("cancelled", {t}, 0, "")
          PROVE  SettledInvariant'
      <3>1. {t} \in SUBSET Tickets /\ \A u \in {t} : Working(u)
        BY <2>1
      <3>2. CASE Becomes({t}, "SEARCHING", 0) /\ Report("searching", {t}, 0, "")
        BY <1>1, <2>1, <2>3, <3>1, <3>2
      <3>3. CASE Becomes({t}, "CANCELLED", 0) /\ Report("cancelled", {t}, 0, "")
        BY <1>1, <2>1, <2>3, <3>1, <3>3
      <3>4. QED
        BY <2>5, <3>2, <3>3
    <2>6. QED
      BY <2>2, <2>4, <2>5
  <1>5. ASSUME NEW m \in Matches, GameLiftSucceeds(m) PROVE SettledInvariant'
    <2> DEFINE T == InMatch(m, "PLACING")
    <2>1. /\ T \in SUBSET Tickets /\ (\A t \in T : Working(t)) /\ UNCHANGED <<moving, stored, starting>>
          /\ Becomes(T, "COMPLETED", m) /\ Report("succeeded", T, m, "")
      BY <1>5 DEF InMatch, Working, GameLiftSucceeds
    <2>2. /\ "succeeded" \in EventTypes \ {"backfill"} /\ "COMPLETED" \in Over("succeeded")
          /\ "COMPLETED" \in GameLiftStatuses \ {"none"}
      BY DEF EventTypes, Over, GameLiftStatuses
    <2> HIDE DEF T
    <2>3. QED
      BY <1>1, <2>1, <2>2
  <1>6. ASSUME NEW t \in Tickets, BackfillEnds(t) PROVE SettledInvariant'
    <2>1. PICK T : T = {t} /\ T \in SUBSET Tickets
      OBVIOUS
    <2>2. PICK m, status : m = gl[t].match /\ status = "ENDED"
      OBVIOUS
    <2>3. /\ gl[t].status = "COMPLETED" /\ ~HasPending(t)
          /\ \A u \in Issued : u > t => gl[u].players \cap gl[t].players = {}
          /\ Becomes(T, status, m) /\ Report("backfill", T, 0, "")
      BY <1>6, <2>1, <2>2 DEF BackfillEnds
    <2>4. UNCHANGED <<party, moved, stored, starting>>
      BY <1>6 DEF BackfillEnds, moving
    <2>5. PICK todo : todo = {w \in T \X Players : w[2] \in gl[w[1]].players}
      OBVIOUS
    <2>6. PICK e : e = [type |-> "backfill", tickets |-> T, match |-> 0, next |-> "", todo |-> todo]
      OBVIOUS
    <2>7. PICK N : N = {e}
      OBVIOUS
    <2>8. events' = events \cup N
      BY <2>3, <2>5, <2>6, <2>7 DEF Report
    <2>9. e.type = "backfill" /\ e.tickets = T /\ e.todo = todo
      BY <2>6
    <2>10. /\ "backfill" \in EventTypes /\ status \in Over("backfill") /\ status \in GameLiftStatuses
           /\ status \notin Searched \cup {"PLACING"} /\ status # "none"
      BY <2>2 DEF EventTypes, Over, GameLiftStatuses, Searched
    <2>11. \A u \in T : /\ gl[u].status # "none" /\ (status \in Searched \cup {"PLACING"} => Working(u))
                        /\ \/ Working(u)
                           \/ gl[u].status = "COMPLETED" /\ status = "ENDED" /\ m = gl[u].match /\ ~HasPending(u)
      BY <2>1, <2>2, <2>3, <2>10
    <2>12. \A f \in N : /\ f.type \in EventTypes /\ f.tickets = T /\ status \in Over(f.type)
                        /\ f.todo = {w \in T \X Players : w[2] \in gl[w[1]].players}
                        /\ f.type = "succeeded" => f.match = m
      BY <2>5, <2>7, <2>9, <2>10
    <2>13. \A f, g \in N : f = g
      BY <2>7
    <2>14. (\E f \in N : f.type = "backfill") =>
             \A u \in T, v \in Issued : v > u => gl[v].players \cap gl[u].players = {}
      BY <2>1, <2>3
    <2>15. status # "none" /\ status \in GameLiftStatuses /\ Becomes(T, status, m)
      BY <2>3, <2>10
    <2>16. Lifts(T, status, m, N)
      BY <2>1, <2>8, <2>11, <2>12, <2>13, <2>14, <2>15 DEF Lifts
    <2>17. QED
      BY <2>4, <2>16, SettledGameLift
  <1>7. QED
    BY <1>2, <1>3, <1>4, <1>5, <1>6

----------------------------------------------------------------------------

LEMMA SettledStart == TicketsInit => SettledInvariant
  <1> SUFFICES ASSUME TicketsInit PROVE SettledInvariant
    OBVIOUS
  <1>1. /\ moved = {} /\ events = {} /\ \A q \in Players : starting[q] = NoKey
        /\ gl = [t \in Tickets |-> Unissued] /\ stored = [k \in Keys |-> NoTicket]
        /\ party \in [Players -> Parties \cup {NoParty}]
    BY DEF TicketsInit
  <1>2. \A t \in Tickets : gl[t].status = "none" /\ gl[t].players = {}
    BY <1>1 DEF Unissued
  <1>3. MovedTogether /\ StartsKnow
    BY <1>1 DEF MovedTogether, StartsKnow
  <1>4. IssuedInOrder
    <2>1. Issued = {} /\ 1..0 = {} /\ 0 \in Nat
      BY <1>2 DEF Issued
    <2>2. QED
      BY <1>2, <2>1 DEF IssuedInOrder
  <1>5. TicketsAreShared /\ EventsAgree /\ SuccessIsToldOnce
    BY <1>1, <1>2 DEF TicketsAreShared, EventsAgree, SuccessIsToldOnce
  <1>6. ASSUME NEW p \in Players PROVE Known(p, stored[KeyOf(p)])
    <2>1. KeyOf(p) \in Keys
      BY <1>1 DEF KeyOf, Keys
    <2>2. stored[KeyOf(p)] = NoTicket
      BY <1>1, <2>1
    <2>3. Known(p, NoTicket)
      BY <1>1, <1>2 DEF Known, ToBeTold, Working
    <2>4. QED
      BY <2>2, <2>3
  <1>7. QED
    BY <1>3, <1>4, <1>5, <1>6 DEF SettledInvariant

LEMMA SettledStep ==
    ASSUME TicketsInvariant, SettledInvariant, ~LateEnds, [TicketsNext]_ticketVars, TicketsInvariant'
    PROVE  SettledInvariant'
  <1>1. CASE UNCHANGED ticketVars
    <2>1. UNCHANGED <<party, moved, stored, starting, gl, matches, events>>
      BY <1>1 DEF ticketVars
    <2>2. /\ {} \in SUBSET Players /\ moved' = moved \cup {}
          /\ \A r \in Players \ {} : party'[r] = party[r]
      BY <2>1
    <2>3. QED
      BY <2>1, <2>2, MovesShape DEF TicketsInvariant
  <1>2. ASSUME NEW p \in Players, Issue(p) PROVE SettledInvariant'
    BY <1>2, SettledIssue
  <1>3. ASSUME NEW p \in Players, ClientDeleted(p) PROVE SettledInvariant'
    <2>1. stored[KeyOf(p)].id \in Tickets /\ CancelActiveTicket(p, stored[KeyOf(p)].id)
      BY <1>3, KeysOfPlayers, StoredRow DEF ClientDeleted, TicketsInvariant
    <2>2. QED
      BY <2>1, SettledRequests
  <1>4. ASSUME NEW p \in Players, Start(p) \/ MatchPlayerLeft(p) PROVE SettledInvariant'
    BY <1>4, SettledRequests
  <1>5. ASSUME NEW p \in Players, NEW t \in Tickets, CancelActiveTicket(p, t) PROVE SettledInvariant'
    BY <1>5, SettledRequests
  <1>6. ASSUME NEW p \in Players, NEW t \in Tickets, NEW m \in Matches, NEW yes \in BOOLEAN,
               UpdateAcceptance(p, t, m, yes)
        PROVE  SettledInvariant'
    BY <1>6, SettledRequests
  <1>7. ASSUME NEW p \in Players,
               \/ LeaveParty(p)
               \/ \E q \in Players, a \in Parties : AcceptInvite(q, p, a)
        PROVE  SettledInvariant'
    BY <1>7, SettledMoves DEF TicketsInvariant
  <1>8. ASSUME NEW c \in changed, HandlePartyEvent(c) \/ Disband(c) PROVE SettledInvariant'
    BY <1>8, SettledRequests, SettledMoves DEF TicketsInvariant
  <1>9. ASSUME NEW k \in Keys, Expire(k) PROVE SettledInvariant'
    BY <1>9, SettledRequests
  <1>10. ASSUME NEW e \in events, NEW t \in Tickets, NEW p \in Players, ProcessEvent(e, t, p)
         PROVE  SettledInvariant'
    BY <1>10, SettledProcess
  <1>11. QED
    BY <1>1, <1>2, <1>3, <1>4, <1>5, <1>6, <1>7, <1>8, <1>9, <1>10, SettledGameLiftNext DEF TicketsNext

\* A player whose party never changed is matched with one ticket at a time, and sent to the
\* session of the match that ticket was placed in, when a match ends for a player before he
\* asks for another (flexmatch.py:87-139 and 582-660).
THEOREM SettledPlayersAreMatchedOnce ==
    ASSUME ~LateEnds
    PROVE  TicketsSpec => []SettledAreMatchedOnce
  <1>1. TicketsInvariant /\ SettledInvariant => SettledAreMatchedOnce
    <2> SUFFICES ASSUME TicketsInvariant, SettledInvariant, NEW p \in Players \ moved
                 PROVE  OneTicket(p) /\ SessionIsOwn(p)
      BY InvariantImpliesTypeOK DEF SettledAreMatchedOnce
    <2>1. PICK d : d = stored[KeyOf(p)]
      OBVIOUS
    <2>2. Known(p, d)
      BY <2>1 DEF SettledInvariant
    <2>3. OneTicket(p)
      <3> DEFINE S == {t \in Tickets : Working(t) /\ ~gl[t].stopped /\ p \in gl[t].players}
      <3>1. \A t \in S : t = d.id
        BY <2>2 DEF Known
      <3>2. S = {} \/ S = {d.id}
        BY <3>1
      <3> HIDE DEF S
      <3>3. Cardinality(S) \in {0, 1}
        BY <3>2, FS_EmptySet, FS_Singleton
      <3>4. QED
        BY <3>3 DEF OneTicket, S
    <2>4. SessionIsOwn(p)
      BY <2>1, <2>2 DEF Known, SessionIsOwn
    <2>5. QED
      BY <2>3, <2>4
  <1>2. TicketsInvariant /\ [TicketsNext]_ticketVars => TicketsInvariant'
    BY TicketsStep DEF StepOK
  <1>3. TicketsInvariant /\ SettledInvariant /\ [TicketsNext]_ticketVars => SettledInvariant'
    BY <1>2, SettledStep
  <1>4. QED
    BY <1>1, <1>2, <1>3, TicketsStart, SettledStart, PTL DEF TicketsSpec

=============================================================================
