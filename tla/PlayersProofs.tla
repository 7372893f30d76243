--------------------------- MODULE PlayersProofs ----------------------------
(****************************************************************************)
(* Theorems about what the service keeps for players: their game states and *)
(* journal (PlayerState), the placements they start (PlayerPlacements),     *)
(* their messages (Messages), accounts (Accounts), bans (FlexMatchBans),    *)
(* summaries (Summaries) and friends (Friendships), for all sets of players *)
(* and requests and every bound.                                            *)
(****************************************************************************)
EXTENDS Accounts, FlexMatchBans, Friendships, Messages, PlayerPlacements, PlayerState, Summaries,
        FiniteSetTheorems, WellFoundedInduction, TLAPS

----------------------------------------------------------------------------
(* Sequences.                                                               *)

LEMMA EntryOf ==
    ASSUME NEW S, NEW s \in Seq(S), NEW i \in DOMAIN s
    PROVE  s[i] \in S /\ i \in 1..Len(s)
  OBVIOUS

LEMMA SameLength ==
    ASSUME NEW S, NEW s \in Seq(S), NEW t \in [DOMAIN s -> S]
    PROVE  t \in Seq(S) /\ Len(t) = Len(s)
  <1>1. DOMAIN s = 1..Len(s) /\ Len(s) \in Nat
    OBVIOUS
  <1>2. QED
    BY <1>1

----------------------------------------------------------------------------
(* The least and the greatest of a set of numbers.                          *)

LEMMA LeastNatural ==
    ASSUME NEW T \in SUBSET Nat, T # {}
    PROVE  \E x \in T : \A y \in T : x <= y
  <1> DEFINE R == OpToRel(<, Nat)
  <1>1. IsWellFoundedOn(R, Nat)
    BY NatLessThanWellFounded
  <1>2. \A x, y \in Nat : x < y => <<x, y>> \in R
    BY DEF OpToRel
  <1> HIDE DEF R
  <1>3. PICK x \in T : \A y \in T : <<y, x>> \notin R
    BY <1>1, WFMin
  <1>4. ASSUME NEW y \in T PROVE x <= y
    <2>1. x \in Nat /\ y \in Nat
      OBVIOUS
    <2>2. ~(y < x)
      BY <1>2, <1>3, <2>1, Zenon
    <2>3. QED
      BY <2>1, <2>2
  <1>5. QED
    BY <1>4

LEMMA GreatestUpTo ==
    ASSUME NEW n \in Nat, NEW T \in SUBSET (1..n), T # {}
    PROVE  \E x \in T : \A y \in T : y <= x
  <1> DEFINE U == {n - y : y \in T}
  <1>1. U \in SUBSET Nat /\ U # {}
    <2>1. \A y \in T : n - y \in Nat
      OBVIOUS
    <2>2. QED
      BY <2>1
  <1>2. PICK u \in U : \A v \in U : u <= v
    BY <1>1, LeastNatural
  <1>3. PICK x \in T : u = n - x
    OBVIOUS
  <1>4. \A y \in T : n - x <= n - y
    BY <1>2, <1>3
  <1>5. QED
    BY <1>4

----------------------------------------------------------------------------
(* Game states and the journal.                                             *)

\* A put that looked found its entry, and nothing is written to the journal before it
\* commits: the client waits for its answer.
StateInvariant ==
  /\ StateTypeOK
  /\ \A n \in Namespaces : gamestate[n] \in JournalIds => InJournal(gamestate[n])
  /\ pending # NoLookup => batch = 0
  /\ pending # NoLookup /\ pending.type = "put" /\ pending.journal # Null =>
       InJournal(pending.journal)

\* The property says the same of the entries as the code's query for one of them.
LEMMA InJournalIsAlive ==
    ASSUME StateTypeOK, NEW id, InJournal(id)
    PROVE  [id |-> id, deleted |-> FALSE] \in {journal[i] : i \in DOMAIN journal}
  <1>1. PICK i \in DOMAIN journal : journal[i].id = id /\ ~journal[i].deleted
    BY DEF InJournal
  <1>2. journal[i] \in [id : JournalIds, deleted : BOOLEAN]
    BY <1>1, EntryOf DEF StateTypeOK
  <1>3. journal[i] = [id |-> id, deleted |-> FALSE]
    BY <1>1, <1>2
  <1>4. QED
    BY <1>1, <1>3

LEMMA StateStart == StateInit => StateInvariant
  BY StateAssumption DEF StateInit, StateInvariant, StateTypeOK, JournalIds

\* What an entry takes back keeps its place.
LEMMA KeptIsTyped ==
    ASSUME NEW e \in JournalEntries, journal \in Seq([id : JournalIds, deleted : BOOLEAN])
    PROVE  LET kept == [i \in DOMAIN journal |-> [journal[i] EXCEPT
                         !.deleted = @ \/ (e.rollback # 0 /\ journal[i].id > e.rollback)]]
           IN kept \in Seq([id : JournalIds, deleted : BOOLEAN]) /\ Len(kept) = Len(journal)
  <1> DEFINE takenBack(i) == e.rollback # 0 /\ journal[i].id > e.rollback
             kept == [i \in DOMAIN journal |-> [journal[i] EXCEPT !.deleted = @ \/ takenBack(i)]]
  <1>1. ASSUME NEW i \in DOMAIN journal PROVE kept[i] \in [id : JournalIds, deleted : BOOLEAN]
    <2> HIDE DEF takenBack
    <2>1. journal[i] \in [id : JournalIds, deleted : BOOLEAN]
      BY EntryOf
    <2>2. QED
      BY <2>1
  <1>2. kept \in [DOMAIN journal -> [id : JournalIds, deleted : BOOLEAN]]
    BY <1>1
  <1>3. QED
    BY <1>2, SameLength

\* An entry that is written takes back no entry that a game state rests on.
LEMMA WriteKeepsStates ==
    ASSUME StateInvariant, NEW e \in JournalEntries, WriteEntry(e),
           NEW n \in Namespaces, gamestate[n] \in JournalIds
    PROVE  InJournal(gamestate[n])'
  <1>1. PICK k \in DOMAIN journal : journal[k].id = gamestate[n] /\ ~journal[k].deleted
    BY DEF StateInvariant, InJournal
  <1>2. gamestate' = gamestate
    BY DEF WriteEntry
  <1>3. CASE UNCHANGED journal
    BY <1>1, <1>2, <1>3 DEF InJournal
  <1>4. CASE ~UNCHANGED journal
    <2> DEFINE kept == [i \in DOMAIN journal |-> [journal[i] EXCEPT
                    !.deleted = @ \/ (e.rollback # 0 /\ journal[i].id > e.rollback)]]
    <2>1. /\ e.rollback # 0 => MayRollBack(e.rollback)
          /\ journal' = Append(kept, [id |-> e.id, deleted |-> FALSE])
      BY <1>4 DEF WriteEntry
    <2>2. journal \in Seq([id : JournalIds, deleted : BOOLEAN])
      BY DEF StateInvariant, StateTypeOK
    <2>3. k \in 1..Len(journal) /\ Len(journal) \in Nat /\ DOMAIN journal = 1..Len(journal)
      BY <1>1, <2>2
    <2>4. journal[k] \in [id : JournalIds, deleted : BOOLEAN]
      BY <2>2, <2>3, EntryOf
    <2>5. e.rollback # 0 => ~(journal[k].id > e.rollback)
      <3> SUFFICES ASSUME e.rollback # 0 PROVE journal[k].id <= e.rollback
        BY <2>4, StateAssumption DEF JournalEntries, JournalIds
      <3>1. gamestate[n] \in Persisted \ {Null}
        BY StateAssumption DEF Persisted, JournalIds
      <3>2. PICK i \in Latest : i <= e.rollback
        BY <2>1, <3>1 DEF MayRollBack
      <3>3. gamestate[n] <= i
        BY <3>1, <3>2 DEF Latest
      <3>4. i \in JournalIds
        BY <3>2 DEF Latest, Persisted, StateInvariant, StateTypeOK
      <3>5. QED
        BY <1>1, <3>2, <3>3, <3>4, StateAssumption DEF JournalIds, JournalEntries
    <2>6. kept[k].id = journal[k].id /\ kept[k].deleted = FALSE
      BY <1>1, <2>3, <2>4, <2>5
    <2>7. kept \in Seq([id : JournalIds, deleted : BOOLEAN]) /\ Len(kept) = Len(journal)
      BY <2>2, KeptIsTyped
    <2>8. journal'[k] = kept[k] /\ k \in DOMAIN journal'
      BY <2>1, <2>3, <2>7
    <2>9. QED
      BY <1>1, <1>2, <2>6, <2>8 DEF InJournal
  <1>5. QED
    BY <1>3, <1>4

LEMMA WriteKeepsType ==
    ASSUME StateTypeOK, NEW e \in JournalEntries, WriteEntry(e)
    PROVE  journal' \in Seq([id : JournalIds, deleted : BOOLEAN])
  <1> DEFINE kept == [i \in DOMAIN journal |-> [journal[i] EXCEPT
                    !.deleted = @ \/ (e.rollback # 0 /\ journal[i].id > e.rollback)]]
  <1>1. journal \in Seq([id : JournalIds, deleted : BOOLEAN])
    BY DEF StateTypeOK
  <1>2. CASE UNCHANGED journal
    BY <1>1, <1>2
  <1>3. CASE ~UNCHANGED journal
    <2>1. journal' = Append(kept, [id |-> e.id, deleted |-> FALSE])
      BY <1>3 DEF WriteEntry
    <2>3. kept \in Seq([id : JournalIds, deleted : BOOLEAN])
      BY <1>1, KeptIsTyped
    <2>4. [id |-> e.id, deleted |-> FALSE] \in [id : JournalIds, deleted : BOOLEAN]
      BY DEF JournalEntries
    <2>5. QED
      BY <2>1, <2>3, <2>4
  <1>4. QED
    BY <1>2, <1>3

LEMMA StateStep ==
    ASSUME Serialized = TRUE, StateInvariant, [StateNext]_playerVars
    PROVE  StateInvariant'
  <1> USE DEF StateInvariant
  <1>1. CASE UNCHANGED playerVars
    BY <1>1 DEF playerVars, StateTypeOK, InJournal
  <1>2. ASSUME NEW size \in 1..MaxBatch, PostJournal(size) PROVE StateInvariant'
    BY <1>2, StateAssumption DEF PostJournal, Free, StateTypeOK, InJournal
  <1>3. ASSUME NEW e \in JournalEntries, WriteEntry(e) PROVE StateInvariant'
    <2>1. pending = NoLookup /\ UNCHANGED <<gamestate, pending, claims>> /\ batch' \in 0..MaxBatch
      BY <1>3, StateAssumption DEF WriteEntry, StateTypeOK
    <2>2. StateTypeOK'
      BY <1>3, <2>1, WriteKeepsType DEF StateTypeOK
    <2>3. QED
      BY <1>3, <2>1, <2>2, WriteKeepsStates
  <1>4. CASE PutCommits
    <2>1. pending \in Lookups /\ pending.of \in Namespaces /\ pending.journal \in JournalIds \cup {Null}
      BY <1>4 DEF PutCommits, StateTypeOK, Lookups
    <2>2. \A n \in Namespaces : gamestate'[n] = gamestate[n] \/ gamestate'[n] = pending.journal
      BY <1>4, <2>1 DEF PutCommits, StateTypeOK
    <2>3. StateTypeOK'
      BY <1>4, <2>1 DEF PutCommits, StateTypeOK
    <2>4. QED
      BY <1>4, <2>1, <2>2, <2>3, StateAssumption DEF PutCommits, InJournal, JournalIds
  <1>5. CASE ClaimCommits
    <2>1. pending \in Lookups /\ pending.of \in PlayerTickets
      BY <1>5 DEF ClaimCommits, StateTypeOK, Lookups
    <2>2. QED
      BY <1>5, <2>1 DEF ClaimCommits, StateTypeOK, InJournal
  <1>6. ASSUME NEW n \in Namespaces, DeleteState(n) PROVE StateInvariant'
    BY <1>6, StateAssumption DEF DeleteState, StateTypeOK, InJournal, JournalIds
  <1>7. ASSUME NEW n \in Namespaces, NEW id \in JournalIds \cup {Null}, PutLooks(n, id) PROVE StateInvariant'
    <2>1. batch = 0 /\ pending' \in Lookups /\ pending'.journal = id /\ (id # Null => InJournal(id))
      BY <1>7 DEF PutLooks, Free, Lookups
    <2>2. QED
      BY <1>7, <2>1 DEF PutLooks, StateTypeOK, InJournal
  <1>8. ASSUME NEW t \in PlayerTickets, ClaimLooks(t, Null) PROVE StateInvariant'
    <2>1. batch = 0 /\ pending' \in Lookups /\ pending'.type = "claim"
      BY <1>8 DEF ClaimLooks, Free, Lookups
    <2>2. QED
      BY <1>8, <2>1 DEF ClaimLooks, StateTypeOK, InJournal
  <1>9. QED
    BY <1>1, <1>2, <1>3, <1>4, <1>5, <1>6, <1>7, <1>8 DEF StateNext

\* A client that waits for each answer before it sends the next request never has a game
\* state that rests on a journal entry taken back (journal.py:84-103 and
\* gamestate.py:100-140).
THEOREM StatesKeepResting ==
    ASSUME Serialized = TRUE
    PROVE  StateSpec => []StatesRestOnTheJournal
  <1>1. StateInvariant => StatesRestOnTheJournal
    BY InJournalIsAlive DEF StateInvariant, StatesRestOnTheJournal
  <1>2. StateInvariant /\ [StateNext]_playerVars => StateInvariant'
    BY StateStep
  <1>3. QED
    BY StateStart, <1>1, <1>2, PTL DEF StateSpec

----------------------------------------------------------------------------
(* Placements of players.                                                   *)

Start == [step : {"no", "locks", "answer"}, existing : StartIds \cup {NoStart},
          group : SUBSET Starters, id : StartIds \cup {NoStart}]
Known == {j \in StartIds : decision[j] # "unknown"}

\* GameLift was asked for the players that the start under way, or the document, has.
AskedForAll == /\ \A i \in StartIds \ Known : desired[i] = {} /\ document[i].status = "none"
               /\ \A i \in StartIds : document[i].status # "none" => document[i].players = desired[i]
               /\ \A p \in Starters : starting[p].step = "answer" =>
                    starting[p].id \in Known /\ desired[starting[p].id] = starting[p].group

PlacementsInvariant ==
  /\ PlacementsTypeOK /\ starting \in [Starters -> Start] /\ together \subseteq Starters
  /\ Known = 1..Cardinality(Known)
  /\ AskedForAll
  /\ PlacementsAreTold

LEMMA PlacementsStart == PlacementsInit => PlacementsInvariant
  <1> SUFFICES ASSUME PlacementsInit PROVE PlacementsInvariant
    OBVIOUS
  <1>1. Known = {}
    BY DEF PlacementsInit, Known
  <1>2. Cardinality({}) = 0 /\ 1..0 = {}
    BY FS_EmptySet
  <1>3. PlacementsTypeOK /\ starting \in [Starters -> Start]
    BY DEF PlacementsInit, PlacementsTypeOK, Start, NoDocument, NotStarting
  <1>4. PlacementsAreTold
    BY StartersAssumption DEF PlacementsInit, PlacementsAreTold, NoDocument
  <1>5. AskedForAll
    BY DEF PlacementsInit, AskedForAll, NoDocument, NotStarting
  <1>6. QED
    BY <1>1, <1>2, <1>3, <1>4, <1>5 DEF PlacementsInvariant, PlacementsTypeOK

\* The next placement is one that nothing is known of.
LEMMA AsksFresh ==
    ASSUME PlacementsInvariant, Cardinality(Known) + 1 \in StartIds
    PROVE  /\ Cardinality(Known) + 1 \notin Known
           /\ Cardinality(Known) \in Nat
  <1>1. IsFiniteSet(Known)
    BY StartersAssumption, FS_Interval, FS_Subset DEF Known, StartIds
  <1>2. Cardinality(Known) \in Nat
    BY <1>1, FS_CardinalityType
  <1>3. QED
    BY <1>2 DEF PlacementsInvariant

LEMMA OneMoreKnown ==
    ASSUME NEW n \in Nat
    PROVE  1..n \cup {n + 1} = 1..Cardinality(1..n \cup {n + 1})
  <1>1. 1..n \cup {n + 1} = 1..(n + 1)
    OBVIOUS
  <1>2. Cardinality(1..(n + 1)) = n + 1
    BY FS_Interval
  <1>3. QED
    BY <1>1, <1>2

\* What was posted.
LEMMA Posted ==
    ASSUME PlacementsInvariant, NEW S \in SUBSET Starters, NEW id \in StartIds,
           NEW event \in {"issued", "completed"} \cup Failures, Post(S, id, event),
           event # "completed" => S \subseteq desired[id]
    PROVE  /\ heard' \in [Starters -> SUBSET News]
           /\ \A p \in Starters : heard[p] \subseteq heard'[p]
           /\ \A p \in S : [id |-> id, event |-> event] \in heard'[p]
           /\ \A p \in Starters : \A n \in heard'[p] : n.event # "completed" => p \in desired[n.id]
  <1> DEFINE new == [id |-> id, event |-> event]
  <1>1. \A p \in Starters : heard'[p] = heard[p] \cup (IF p \in S THEN {new} ELSE {})
    BY DEF Post
  <1>2. heard' = [p \in Starters |-> heard[p] \cup (IF p \in S THEN {new} ELSE {})]
    BY DEF Post
  <1>3. new \in News /\ new.id = id /\ new.event = event
    BY DEF News
  <1>4. heard \in [Starters -> SUBSET News]
    BY DEF PlacementsInvariant, PlacementsTypeOK
  <1>5. \A p \in Starters : \A n \in heard[p] : n.event # "completed" => p \in desired[n.id]
    BY DEF PlacementsInvariant, PlacementsAreTold
  <1> HIDE DEF new
  <1>6. heard' \in [Starters -> SUBSET News]
    BY <1>2, <1>3, <1>4
  <1>7. ASSUME NEW p \in Starters, NEW n \in heard'[p], n.event # "completed"
        PROVE  p \in desired[n.id]
    BY <1>1, <1>3, <1>5, <1>7
  <1>8. \A p \in S : new \in heard'[p]
    BY <1>1
  <1>9. \A p \in Starters : heard[p] \subseteq heard'[p]
    BY <1>1
  <1>10. QED
    BY <1>6, <1>7, <1>8, <1>9 DEF new

\* A step after which as much is known and as many are asked for.
LEMMA SameAsked ==
    ASSUME PlacementsInvariant, Known' = Known, desired' = desired
    PROVE  Known' = 1..Cardinality(Known')
  BY DEF PlacementsInvariant

LEMMA SameKnown ==
    ASSUME PlacementsInvariant,
           \A i \in StartIds : decision'[i] = "unknown" <=> decision[i] = "unknown"
    PROVE  Known' = Known
  BY DEF Known

Document == [status : {"none", "pending", "completed"} \cup Failures,
             players : SUBSET Starters, public : BOOLEAN]

\* What the requests that only change keys and their own start do.
LEMMA OnlyKeysChange ==
    ASSUME PlacementsInvariant, PlacementsTypeOK', starting' \in [Starters -> Start],
           UNCHANGED <<document, decision, desired, heard>>,
           \A p \in Starters : starting'[p].step = "answer" => starting'[p] = starting[p]
    PROVE  PlacementsInvariant'
  <1>1. Known' = Known
    BY DEF Known
  <1>2. AskedForAll'
    BY <1>1 DEF AskedForAll, PlacementsInvariant
  <1>3. PlacementsAreTold'
    BY DEF PlacementsAreTold, PlacementsInvariant
  <1>4. QED
    BY <1>1, <1>2, <1>3 DEF PlacementsInvariant, PlacementsTypeOK

\* A step that only ends a start, or leaves GameLift to stop a placement.
LEMMA OnlyKeysOrStops ==
    ASSUME PlacementsInvariant, PlacementsTypeOK', starting' \in [Starters -> Start],
           UNCHANGED <<desired, heard>>,
           \A i \in StartIds : decision'[i] = "unknown" <=> decision[i] = "unknown",
           \A i \in StartIds : document'[i] = document[i] \/ document'[i].status = "none",
           \A p \in Starters : starting'[p].step = "answer" => starting'[p] = starting[p]
    PROVE  PlacementsInvariant'
  <1>1. Known' = Known
    BY SameKnown
  <1>2. AskedForAll'
    BY <1>1 DEF AskedForAll, PlacementsInvariant
  <1>3. PlacementsAreTold'
    BY StartersAssumption DEF PlacementsAreTold, PlacementsInvariant
  <1>4. QED
    BY <1>1, <1>2, <1>3 DEF PlacementsInvariant, PlacementsTypeOK

LEMMA AskingStart ==
    ASSUME NEW x \in Start, NEW i \in StartIds
    PROVE  LET y == [x EXCEPT !.step = "answer", !.id = i] IN
           y \in Start /\ y.id = i /\ y.group = x.group
  BY DEF Start

LEMMA DocumentsTyped == PlacementsTypeOK => document \in [StartIds -> Document]
  BY DEF PlacementsTypeOK, Document

LEMMA NewStatus ==
    ASSUME NEW d \in [StartIds -> Document], NEW i \in StartIds, NEW status \in {"completed"} \cup Failures
    PROVE  [d EXCEPT ![i].status = status] \in [StartIds -> Document]
  <1> DEFINE row == [d[i] EXCEPT !.status = status]
  <1>1. d[i] \in Document
    OBVIOUS
  <1>2. row \in Document
    BY <1>1 DEF Document
  <1>3. [d EXCEPT ![i].status = status] = [d EXCEPT ![i] = row]
    OBVIOUS
  <1> HIDE DEF row
  <1>4. QED
    BY <1>2, <1>3

LEMMA NoDocumentTyped ==
    ASSUME NEW d \in [StartIds -> Document], NEW i \in StartIds, NEW e,
           e \in {d, [d EXCEPT ![i] = NoDocument]}
    PROVE  e \in [StartIds -> Document] /\ \A j \in StartIds : e[j] = d[j] \/ e[j].status = "none"
  <1>1. NoDocument \in Document /\ NoDocument.status = "none"
    BY DEF NoDocument, Document
  <1>2. QED
    BY <1>1

LEMMA StartLooksStep ==
    ASSUME PlacementsInvariant, NEW p \in Starters, StartLooks(p)
    PROVE  PlacementsInvariant'
  <1>1. placementKey' \in [Starters -> StartIds \cup {NoStart}]
    BY DEF StartLooks, PlacementsInvariant, PlacementsTypeOK
  <1>2. PICK k \in StartIds \cup {NoStart} : k = placementKey'[p]
    BY <1>1
  <1>3. PICK S \in SUBSET Starters : S = (IF p \in together THEN together ELSE {p})
    BY DEF PlacementsInvariant
  <1>4. starting' = [starting EXCEPT ![p] = [step |-> "locks", existing |-> k, id |-> NoStart, group |-> S]]
    BY <1>2, <1>3 DEF StartLooks
  <1>5. [step |-> "locks", existing |-> k, id |-> NoStart, group |-> S] \in Start
    BY DEF Start
  <1>6. starting' \in [Starters -> Start]
    BY <1>4, <1>5 DEF PlacementsInvariant
  <1>7. \A q \in Starters : starting'[q] = starting[q] \/ starting'[q].step = "locks"
    BY <1>4 DEF PlacementsInvariant
  <1>8. UNCHANGED <<together, document, decision, desired, heard>>
    BY DEF StartLooks
  <1>9. PlacementsTypeOK'
    BY <1>1, <1>6, <1>8 DEF PlacementsInvariant, PlacementsTypeOK, Start
  <1>10. QED
    BY <1>6, <1>7, <1>8, <1>9, OnlyKeysChange

LEMMA StartAsksStep ==
    ASSUME PlacementsInvariant, NEW p \in Starters, StartAsks(p)
    PROVE  PlacementsInvariant'
  <1>1. UNCHANGED <<together, document, placementKey, heard>> /\ starting[p].step = "locks"
    BY DEF StartAsks
  <1>2. CASE starting' = [starting EXCEPT ![p] = NotStarting] /\ UNCHANGED <<decision, desired>>
    <2>1. starting' \in [Starters -> Start]
      BY <1>2 DEF PlacementsInvariant, Start, NotStarting
    <2>2. \A q \in Starters : starting'[q] = starting[q] \/ starting'[q].step = "no"
      BY <1>2 DEF PlacementsInvariant, NotStarting
    <2>3. PlacementsTypeOK'
      BY <1>1, <1>2, <2>1 DEF PlacementsInvariant, PlacementsTypeOK, Start
    <2>4. QED
      BY <1>1, <1>2, <2>1, <2>2, <2>3, OnlyKeysChange
  <1>3. CASE ~(starting' = [starting EXCEPT ![p] = NotStarting] /\ UNCHANGED <<decision, desired>>)
    <2>1. PICK i : i = Cardinality(Known) + 1
      OBVIOUS
    <2>2. PICK S : S = starting[p].group
      OBVIOUS
    <2>3. /\ i \in StartIds
          /\ decision' = [decision EXCEPT ![i] = "pending"]
          /\ desired' = [desired EXCEPT ![i] = S]
          /\ starting' = [starting EXCEPT ![p].step = "answer", ![p].id = i]
      BY <1>3, <2>1, <2>2 DEF StartAsks, Known
    <2>4. Cardinality(Known) \in Nat /\ i \notin Known
      BY <2>1, <2>3, AsksFresh
    <2>5. Known' = Known \cup {i}
      BY <2>3 DEF Known, PlacementsInvariant, PlacementsTypeOK
    <2>6. Known' = 1..Cardinality(Known')
      BY <2>1, <2>4, <2>5, OneMoreKnown DEF PlacementsInvariant
    <2>7. starting[p] \in Start /\ S \in SUBSET Starters
      BY <2>2 DEF PlacementsInvariant, Start
    <2>8. starting'[p] = [starting[p] EXCEPT !.step = "answer", !.id = i]
      BY <2>3 DEF PlacementsInvariant
    <2>9. starting'[p] \in Start /\ starting'[p].id = i /\ starting'[p].group = S
      <3>1. PICK y : y = starting[p]
        OBVIOUS
      <3>2. PICK z : z = [y EXCEPT !.step = "answer", !.id = i]
        OBVIOUS
      <3>3. z \in Start /\ z.id = i /\ z.group = y.group
        BY <2>3, <2>7, <3>1, <3>2, AskingStart
      <3>4. QED
        BY <2>2, <2>8, <3>1, <3>2, <3>3
    <2>10. \A q \in Starters \ {p} : starting'[q] = starting[q]
      BY <2>3 DEF PlacementsInvariant
    <2>11. starting' = [q \in Starters |-> starting'[q]]
      BY <2>3 DEF PlacementsInvariant
    <2>12. starting' \in [Starters -> Start]
      BY <2>9, <2>10, <2>11 DEF PlacementsInvariant
    <2>13. PlacementsTypeOK'
      BY <1>1, <2>3, <2>7, <2>12 DEF PlacementsInvariant, PlacementsTypeOK, Start
    <2>14. desired'[i] = S /\ \A j \in StartIds \ {i} : desired'[j] = desired[j]
      BY <2>3 DEF PlacementsInvariant, PlacementsTypeOK
    <2>15. desired[i] = {} /\ document[i].status = "none"
      BY <2>3, <2>4 DEF PlacementsInvariant, AskedForAll
    <2>16. AskedForAll'
      <3>1. ASSUME NEW q \in Starters, starting'[q].step = "answer"
            PROVE  starting'[q].id \in Known' /\ desired'[starting'[q].id] = starting'[q].group
        <4>1. CASE q = p
          BY <2>5, <2>9, <2>14, <4>1
        <4>2. CASE q # p
          <5>1. starting[q].id \in Known /\ desired[starting[q].id] = starting[q].group
            BY <2>10, <3>1, <4>2 DEF PlacementsInvariant, AskedForAll
          <5>2. QED
            BY <2>4, <2>5, <2>10, <2>14, <4>2, <5>1 DEF Known
        <4>3. QED
          BY <4>1, <4>2
      <3>2. QED
        BY <1>1, <2>5, <2>14, <2>15, <3>1 DEF PlacementsInvariant, AskedForAll
    <2>17. PlacementsAreTold'
      <3>1. \A q \in Starters : \A n \in heard[q] : n.id \in StartIds
        BY DEF PlacementsInvariant, PlacementsTypeOK, News
      <3>2. QED
        BY <1>1, <2>14, <2>15, <3>1, StartersAssumption DEF PlacementsInvariant, PlacementsAreTold
    <2>18. QED
      BY <1>1, <2>6, <2>12, <2>13, <2>16, <2>17 DEF PlacementsInvariant
  <1>4. QED
    BY <1>2, <1>3

\* GameLift is told to stop one.
LEMMA StopsKnown ==
    ASSUME PlacementsInvariant, NEW i \in StartIds
    PROVE  /\ Stopped(i) \in [StartIds -> {"unknown", "pending", "stopping", "completed"} \cup Failures]
           /\ \A j \in StartIds : Stopped(i)[j] = "unknown" <=> decision[j] = "unknown"
  BY DEF PlacementsInvariant, PlacementsTypeOK, Stopped

\* A start that ends does not answer any more.
LEMMA EndsStart ==
    ASSUME PlacementsInvariant, NEW p \in Starters, starting' = [starting EXCEPT ![p] = NotStarting]
    PROVE  /\ starting' \in [Starters -> Start]
           /\ \A q \in Starters : starting'[q].step = "answer" => starting'[q] = starting[q]
  BY DEF PlacementsInvariant, Start, NotStarting

LEMMA StartSavesStep ==
    ASSUME PlacementsInvariant, NEW p \in Starters, NEW public \in BOOLEAN, StartSaves(p, public)
    PROVE  PlacementsInvariant'
  <1> DEFINE x == starting[p]
  <1>1. x.step = "answer" /\ starting' = [starting EXCEPT ![p] = NotStarting]
        /\ UNCHANGED <<together, desired>>
    BY DEF StartSaves
  <1>2. x.id \in Known /\ x.id \in StartIds /\ desired[x.id] = x.group /\ x.group \in SUBSET Starters
    BY <1>1 DEF PlacementsInvariant, AskedForAll, Known, Start
  <1>3. starting' \in [Starters -> Start]
        /\ \A q \in Starters : starting'[q].step = "answer" => starting'[q] = starting[q]
    BY <1>1, EndsStart
  <1>4. \A q \in Starters : starting'[q].step \in {"no", "locks", "answer"}
    BY <1>3 DEF Start
  <1>5. CASE placementKey[p] # x.existing
    <2>1. decision' = Stopped(x.id) /\ UNCHANGED <<document, placementKey, heard>>
      BY <1>5 DEF StartSaves
    <2>2. PlacementsTypeOK'
      BY <1>1, <1>2, <1>4, <2>1, StopsKnown DEF PlacementsInvariant, PlacementsTypeOK
    <2>3. \A i \in StartIds : decision'[i] = "unknown" <=> decision[i] = "unknown"
      BY <1>2, <2>1, StopsKnown
    <2>4. QED
      BY <1>1, <1>3, <2>1, <2>2, <2>3, OnlyKeysOrStops
  <1>6. CASE placementKey[p] = x.existing
    <2>1. PICK k \in StartIds, S \in SUBSET Starters : k = x.id /\ S = x.group
      BY <1>2
    <2>2. /\ document' = [document EXCEPT ![k] = [status |-> "pending", players |-> S, public |-> public]]
          /\ placementKey' = [q \in Starters |-> IF q \in S THEN k ELSE placementKey[q]]
          /\ Post(S \ {p}, k, "issued") /\ UNCHANGED decision
      BY <1>6, <2>1 DEF StartSaves, PlayersOf
    <2>3. desired[k] = S /\ k \in Known
      BY <1>2, <2>1
    <2>4. /\ heard' \in [Starters -> SUBSET News]
          /\ \A q \in Starters : heard[q] \subseteq heard'[q]
          /\ \A q \in Starters : \A n \in heard'[q] : n.event # "completed" => q \in desired[n.id]
      BY <2>1, <2>2, <2>3, Posted
    <2>5. document'[k].status = "pending" /\ document'[k].players = S
          /\ \A i \in StartIds \ {k} : document'[i] = document[i]
      BY <2>1, <2>2 DEF PlacementsInvariant, PlacementsTypeOK
    <2>6. document' \in [StartIds -> Document]
      BY <2>2 DEF PlacementsInvariant, PlacementsTypeOK, Document
    <2>7. placementKey' \in [Starters -> StartIds \cup {NoStart}]
      BY <2>2 DEF PlacementsInvariant, PlacementsTypeOK
    <2>8. PlacementsTypeOK'
      BY <1>1, <1>4, <2>2, <2>4, <2>6, <2>7 DEF PlacementsInvariant, PlacementsTypeOK, Document
    <2>9. Known' = Known
      BY <2>2 DEF Known
    <2>10. AskedForAll'
      BY <1>1, <1>3, <2>3, <2>5, <2>9 DEF PlacementsInvariant, AskedForAll
    <2>11. PlacementsAreTold'
      <3>1. ASSUME NEW i \in StartIds, document'[i].status \in {"completed"} \cup Failures,
                   NEW q \in desired'[i]
            PROVE  [id |-> i, event |-> document'[i].status] \in heard'[q]
        <4>1. document'[i] = document[i] /\ q \in desired[i]
          BY <1>1, <2>5, <3>1, StartersAssumption
        <4>2. [id |-> i, event |-> document[i].status] \in heard[q]
          BY <3>1, <4>1 DEF PlacementsInvariant, PlacementsAreTold
        <4>3. q \in Starters
          BY <4>1 DEF PlacementsInvariant, PlacementsTypeOK
        <4>4. QED
          BY <2>4, <4>1, <4>2, <4>3
      <3>2. QED
        BY <1>1, <2>4, <3>1 DEF PlacementsAreTold
    <2>12. QED
      BY <1>1, <1>3, <2>8, <2>9, <2>10, <2>11 DEF PlacementsInvariant
  <1>7. QED
    BY <1>5, <1>6

LEMMA StopPlacementStep ==
    ASSUME PlacementsInvariant, NEW p \in Starters, StopPlacement(p)
    PROVE  PlacementsInvariant'
  <1>1. PICK i \in StartIds : i = placementKey[p]
    BY DEF StopPlacement, PlacementsInvariant, PlacementsTypeOK
  <1>2. /\ \/ decision' = Stopped(i) /\ document' = [document EXCEPT ![i] = NoDocument]
           \/ UNCHANGED <<decision, document>>
        /\ placementKey' = [placementKey EXCEPT ![p] = NoStart]
        /\ UNCHANGED <<together, starting, desired, heard>>
    BY <1>1 DEF StopPlacement
  <1>3. \A j \in StartIds : decision'[j] = "unknown" <=> decision[j] = "unknown"
    BY <1>2, StopsKnown
  <1>4. decision' \in [StartIds -> {"unknown", "pending", "stopping", "completed"} \cup Failures]
    BY <1>2, StopsKnown DEF PlacementsInvariant, PlacementsTypeOK
  <1>5. document' \in [StartIds -> Document]
        /\ \A j \in StartIds : document'[j] = document[j] \/ document'[j].status = "none"
    BY <1>2, NoDocumentTyped, DocumentsTyped DEF PlacementsInvariant
  <1>6. placementKey' \in [Starters -> StartIds \cup {NoStart}]
    BY <1>2 DEF PlacementsInvariant, PlacementsTypeOK
  <1>7. PlacementsTypeOK'
    BY <1>2, <1>4, <1>5, <1>6 DEF PlacementsInvariant, PlacementsTypeOK, Document
  <1>8. QED
    BY <1>2, <1>3, <1>5, <1>7, OnlyKeysOrStops DEF PlacementsInvariant

LEMMA PlacementExpiresStep ==
    ASSUME PlacementsInvariant, NEW i \in StartIds, PlacementExpires(i)
    PROVE  PlacementsInvariant'
  <1>1. /\ placementKey' = [p \in Starters |-> IF placementKey[p] = i THEN NoStart ELSE placementKey[p]]
        /\ document' \in {document, [document EXCEPT ![i] = NoDocument]}
        /\ UNCHANGED <<together, starting, decision, desired, heard>>
    BY DEF PlacementExpires
  <1>2. document' \in [StartIds -> Document]
        /\ \A j \in StartIds : document'[j] = document[j] \/ document'[j].status = "none"
    BY <1>1, NoDocumentTyped, DocumentsTyped DEF PlacementsInvariant
  <1>3. placementKey' \in [Starters -> StartIds \cup {NoStart}]
    BY <1>1 DEF PlacementsInvariant, PlacementsTypeOK
  <1>4. PlacementsTypeOK'
    BY <1>1, <1>2, <1>3 DEF PlacementsInvariant, PlacementsTypeOK, Document
  <1>5. QED
    BY <1>1, <1>2, <1>4, OnlyKeysOrStops DEF PlacementsInvariant

LEMMA JoinPublicStep ==
    ASSUME PlacementsInvariant, NEW p \in Starters, NEW i \in StartIds, NEW active \in BOOLEAN,
           JoinPublic(p, i, active)
    PROVE  PlacementsInvariant'
  <1>1. /\ Post({p}, i, "completed") \/ UNCHANGED heard
        /\ placementKey' = [placementKey EXCEPT ![p] = NoStart]
        /\ UNCHANGED <<together, document, starting, decision, desired>>
    BY DEF JoinPublic
  <1>2. /\ heard' \in [Starters -> SUBSET News]
        /\ \A q \in Starters : heard[q] \subseteq heard'[q]
        /\ \A q \in Starters : \A n \in heard'[q] : n.event # "completed" => q \in desired[n.id]
    <2>1. CASE UNCHANGED heard
      BY <2>1 DEF PlacementsInvariant, PlacementsTypeOK, PlacementsAreTold
    <2>2. CASE Post({p}, i, "completed")
      BY <2>2, Posted
    <2>3. QED
      BY <1>1, <2>1, <2>2
  <1>3. placementKey' \in [Starters -> StartIds \cup {NoStart}]
    BY <1>1 DEF PlacementsInvariant, PlacementsTypeOK
  <1>4. PlacementsTypeOK'
    BY <1>1, <1>2, <1>3 DEF PlacementsInvariant, PlacementsTypeOK
  <1>5. Known' = Known
    BY <1>1 DEF Known
  <1>6. AskedForAll'
    BY <1>1, <1>5 DEF PlacementsInvariant, AskedForAll
  <1>7. PlacementsAreTold'
    <2>1. ASSUME NEW j \in StartIds, document[j].status \in {"completed"} \cup Failures,
                 NEW q \in desired[j]
          PROVE  [id |-> j, event |-> document[j].status] \in heard'[q]
      <3>1. [id |-> j, event |-> document[j].status] \in heard[q]
        BY <2>1 DEF PlacementsInvariant, PlacementsAreTold
      <3>2. q \in Starters
        BY DEF PlacementsInvariant, PlacementsTypeOK
      <3>3. QED
        BY <1>2, <3>1, <3>2
    <2>2. QED
      BY <1>1, <1>2, <2>1 DEF PlacementsAreTold
  <1>8. QED
    BY <1>1, <1>4, <1>5, <1>6, <1>7 DEF PlacementsInvariant

\* A queue event is passed on to all players that the placement was asked for.
LEMMA EventStep ==
    ASSUME PlacementsInvariant, NEW i \in StartIds, NEW status \in {"completed"} \cup Failures,
           NEW S, document[i].status # "none" => S = desired[i],
           decision[i] \in {"pending", "stopping"}, decision' = [decision EXCEPT ![i] = status],
           PassedOn(i, S, status), UNCHANGED <<together, placementKey, starting, desired>>
    PROVE  PlacementsInvariant'
  <1>1. Known' = Known
    BY StartersAssumption DEF Known, PlacementsInvariant, PlacementsTypeOK
  <1>2. decision' \in [StartIds -> {"unknown", "pending", "stopping", "completed"} \cup Failures]
    BY DEF PlacementsInvariant, PlacementsTypeOK
  <1>3. CASE UNCHANGED <<document, heard>>
    <2>1. PlacementsTypeOK'
      BY <1>2, <1>3 DEF PlacementsInvariant, PlacementsTypeOK
    <2>2. AskedForAll'
      BY <1>1, <1>3 DEF PlacementsInvariant, AskedForAll
    <2>3. PlacementsAreTold'
      BY <1>3 DEF PlacementsInvariant, PlacementsAreTold
    <2>4. QED
      BY <1>1, <2>1, <2>2, <2>3 DEF PlacementsInvariant
  <1>4. CASE document[i].status # "none"
    <2>1. document' = [document EXCEPT ![i].status = status] /\ Post(S, i, status)
      BY <1>4 DEF PassedOn
    <2>2. S = desired[i] /\ S \in SUBSET Starters
      BY <1>4 DEF PlacementsInvariant, PlacementsTypeOK
    <2>3. /\ heard' \in [Starters -> SUBSET News]
          /\ \A q \in Starters : heard[q] \subseteq heard'[q]
          /\ \A q \in S : [id |-> i, event |-> status] \in heard'[q]
          /\ \A q \in Starters : \A n \in heard'[q] : n.event # "completed" => q \in desired[n.id]
      BY <2>1, <2>2, Posted
    <2>4. document'[i].status = status /\ document'[i].players = document[i].players
          /\ \A j \in StartIds \ {i} : document'[j] = document[j]
      BY <2>1 DEF PlacementsInvariant, PlacementsTypeOK
    <2>5. document' \in [StartIds -> Document]
      BY <2>1, NewStatus, DocumentsTyped DEF PlacementsInvariant
    <2>6. PlacementsTypeOK'
      BY <1>2, <2>3, <2>5 DEF PlacementsInvariant, PlacementsTypeOK, Document
    <2>7. AskedForAll'
      BY <1>1, <1>4, <2>4 DEF PlacementsInvariant, AskedForAll
    <2>8. PlacementsAreTold'
      BY <2>2, <2>3, <2>4 DEF PlacementsInvariant, PlacementsAreTold, PlacementsTypeOK
    <2>9. QED
      BY <1>1, <2>6, <2>7, <2>8 DEF PlacementsInvariant
  <1>5. QED
    BY <1>3, <1>4 DEF PassedOn

LEMMA PlacementsStep ==
    ASSUME PlacementsInvariant, [PlacementsNext]_placementVars
    PROVE  PlacementsInvariant'
  <1>1. CASE UNCHANGED placementVars
    BY <1>1 DEF placementVars, PlacementsInvariant, PlacementsTypeOK, PlacementsAreTold, AskedForAll, Known
  <1>2. ASSUME NEW p \in Starters, GetPlacement(p) PROVE PlacementsInvariant'
    <2>1. PlacementsTypeOK'
      BY <1>2 DEF GetPlacement, PlacementsInvariant, PlacementsTypeOK
    <2>2. QED
      BY <1>2, <2>1, OnlyKeysChange DEF GetPlacement, PlacementsInvariant
  <1>3. ASSUME NEW S, S \in {{}} \cup {T \in SUBSET Starters : Cardinality(T) > 1}, Regroup(S)
        PROVE  PlacementsInvariant'
    <2>1. PlacementsTypeOK'
      BY <1>3 DEF Regroup, PlacementsInvariant, PlacementsTypeOK
    <2>2. QED
      BY <1>3, <2>1, OnlyKeysChange DEF Regroup, PlacementsInvariant
  <1>4. ASSUME NEW i \in StartIds, ProcessFulfilledPlacement(i) PROVE PlacementsInvariant'
    <2>1. document[i].status # "none" => document[i].players \cap desired[i] = desired[i]
      BY DEF PlacementsInvariant, AskedForAll
    <2>2. QED
      BY <1>4, <2>1, EventStep DEF ProcessFulfilledPlacement
  <1>5. ASSUME NEW i \in StartIds, NEW status \in Failures, ProcessFailedPlacement(i, status)
        PROVE  PlacementsInvariant'
    <2>1. document[i].status # "none" => Concerned(i) = desired[i]
      BY DEF PlacementsInvariant, AskedForAll, Concerned
    <2>2. QED
      BY <1>5, <2>1, EventStep DEF ProcessFailedPlacement
  <1>6. QED
    BY <1>1, <1>2, <1>3, <1>4, <1>5, StartLooksStep, StartAsksStep, StartSavesStep,
       StopPlacementStep, JoinPublicStep, PlacementExpiresStep DEF PlacementsNext

\* Whoever a placement was asked for hears how it ended, and nobody else hears that one
\* failed, however starts, stops, events and changes of the party interleave
\* (match_placements.py:412 and 717-748, 790-797).
THEOREM PlacementsReachAll == PlacementsSpec => []PlacementsAreTold
  <1>1. PlacementsInvariant => PlacementsAreTold
    BY DEF PlacementsInvariant
  <1>2. QED
    BY PlacementsStart, PlacementsStep, <1>1, PTL DEF PlacementsSpec

----------------------------------------------------------------------------
(* Messages.                                                                *)

LEMMA HighestIsHighest ==
    ASSUME NEW n \in Nat, NEW T \in SUBSET (1..n)
    PROVE  /\ HighestOf(T) \in 0..n
           /\ \A y \in T : y <= HighestOf(T)
           /\ T # {} => HighestOf(T) \in T
  <1>1. CASE T = {}
    BY <1>1 DEF HighestOf
  <1>2. CASE T # {}
    <2>1. \E x \in T : \A y \in T : y <= x
      BY <1>2, GreatestUpTo
    <2>2. HighestOf(T) \in T /\ \A y \in T : y <= HighestOf(T)
      BY <1>2, <2>1 DEF HighestOf
    <2>3. HighestOf(T) \in 1..n
      BY <2>2
    <2>4. QED
      BY <2>2, <2>3
  <1>3. QED
    BY <1>1, <1>2

\* The client has all good messages up to i, or gets them with those of T.
HasUpTo(i, T) == \A m \in stream \ expired : m <= i => m \in received \cup T

\* What a request knows: where it continues leaves nothing behind, and what it has read
\* has no gap.
FetchInvariant(f) ==
  LET x == fetch[f] IN
  /\ x.asked <= posted /\ HasUpTo(x.asked, {}) /\ x.rows = 0
  /\ x.step = "read" => x.after <= posted /\ HasUpTo(x.after, {})
  /\ x.step \in {"write", "answer"} =>
       /\ x.last <= posted /\ HasUpTo(x.last, x.live)
       /\ \A l \in x.live : l <= posted /\ HasUpTo(l, x.live)

MessagesInvariant ==
  /\ MessagesTypeOK
  /\ stream \subseteq 1..posted /\ received \subseteq 1..posted
  /\ \A r \in received : HasUpTo(r, {})
  /\ seen # Unset => seen <= posted /\ HasUpTo(seen, {})
  /\ \A f \in Fetches : FetchInvariant(f)

FetchRow == [step : {"idle", "start", "read", "write", "answer"},
             asked : 0..MaxMessages, after : 0..MaxMessages, rows : Rows \cup {0},
             live : SUBSET Ids, dead : SUBSET Ids, last : 0..MaxMessages]

LEMMA MessagesStart == MessagesInit => MessagesInvariant
  <1> SUFFICES ASSUME MessagesInit PROVE MessagesInvariant
    OBVIOUS
  <1>1. NoFetch \in FetchRow /\ NoFetch.step = "idle" /\ NoFetch.asked = 0 /\ NoFetch.rows = 0
    BY MessagesAssumption DEF NoFetch, FetchRow
  <1>2. MessagesTypeOK
    BY <1>1, MessagesAssumption DEF MessagesInit, MessagesTypeOK, FetchRow
  <1>3. \A f \in Fetches : FetchInvariant(f)
    BY <1>1 DEF MessagesInit, FetchInvariant, HasUpTo
  <1>4. QED
    BY <1>2, <1>3 DEF MessagesInit, MessagesInvariant

\* Messages that are cut off, expire or arrive leave fewer that the client could miss,
\* and new ones are ahead of everything.
Onwards == /\ posted' \in Nat /\ posted <= posted' /\ received \subseteq received'
           /\ stream' \subseteq Nat
           /\ \A m \in stream' \ expired' : m \in stream \ expired \/ m > posted

LEMMA HasStill ==
    ASSUME MessagesInvariant, Onwards, NEW i \in Nat, i <= posted, NEW T, HasUpTo(i, T)
    PROVE  HasUpTo(i, T)'
  <1>1. posted \in Nat
    BY MessagesAssumption DEF MessagesInvariant, MessagesTypeOK
  <1>2. ASSUME NEW m \in stream' \ expired', m <= i PROVE m \in stream \ expired
    <2>1. m \in Nat
      BY DEF Onwards
    <2>2. m \in stream \ expired \/ m > posted
      BY DEF Onwards
    <2>3. CASE m > posted
      BY <1>1, <1>2, <2>1, <2>3
    <2>4. QED
      BY <2>2, <2>3
  <1>3. QED
    BY <1>2 DEF HasUpTo, Onwards

\* Such a step keeps what the other requests know.
LEMMA OthersKnowStill ==
    ASSUME MessagesInvariant, Onwards, NEW f \in Fetches, fetch'[f] = fetch[f]
    PROVE  FetchInvariant(f)'
  <1>1. PICK x : x = fetch[f]
    OBVIOUS
  <1>2. x \in FetchRow
    BY <1>1 DEF MessagesInvariant, MessagesTypeOK, FetchRow
  <1>3. x.asked \in Nat /\ x.after \in Nat /\ x.last \in Nat /\ x.live \subseteq Nat
    BY <1>2, MessagesAssumption DEF FetchRow, Ids
  <1>4. posted \in Nat /\ posted' \in Nat /\ posted <= posted'
    BY MessagesAssumption DEF MessagesInvariant, MessagesTypeOK, Onwards
  <1>5. /\ x.asked <= posted /\ HasUpTo(x.asked, {}) /\ x.rows = 0
        /\ x.step = "read" => x.after <= posted /\ HasUpTo(x.after, {})
        /\ x.step \in {"write", "answer"} =>
             /\ x.last <= posted /\ HasUpTo(x.last, x.live)
             /\ \A l \in x.live : l <= posted /\ HasUpTo(l, x.live)
    BY <1>1 DEF MessagesInvariant, FetchInvariant
  <1>6. x.asked <= posted' /\ HasUpTo(x.asked, {})'
    BY <1>3, <1>4, <1>5, HasStill
  <1>7. x.step = "read" => x.after <= posted' /\ HasUpTo(x.after, {})'
    BY <1>3, <1>4, <1>5, HasStill
  <1>8. ASSUME x.step \in {"write", "answer"}
        PROVE  /\ x.last <= posted' /\ HasUpTo(x.last, x.live)'
               /\ \A l \in x.live : l <= posted' /\ HasUpTo(l, x.live)'
    BY <1>3, <1>4, <1>5, <1>8, HasStill
  <1>9. fetch'[f] = x
    BY <1>1
  <1>10. QED
    BY <1>5, <1>6, <1>7, <1>8, <1>9 DEF FetchInvariant

\* A step of this kind that is none of a request.
LEMMA OutsideStep ==
    ASSUME MessagesInvariant, Onwards, MessagesTypeOK', UNCHANGED <<seen, fetch, received>>,
           stream' \subseteq 1..posted'
    PROVE  MessagesInvariant'
  <1>1. posted \in Nat /\ posted' \in Nat /\ posted <= posted'
    BY MessagesAssumption DEF MessagesInvariant, MessagesTypeOK, Onwards
  <1>2. ASSUME NEW r \in received' PROVE HasUpTo(r, {})' /\ r \in 1..posted'
    <2>1. r \in 1..posted /\ HasUpTo(r, {})
      BY DEF MessagesInvariant
    <2>2. QED
      BY <1>1, <2>1, HasStill
  <1>3. ASSUME seen' # Unset PROVE seen' <= posted' /\ HasUpTo(seen, {})'
    <2>1. PICK n : n = seen
      OBVIOUS
    <2>2. n \in Nat /\ n <= posted /\ HasUpTo(n, {})
      BY <1>3, <2>1, MessagesAssumption DEF MessagesInvariant, MessagesTypeOK
    <2>3. HasUpTo(n, {})' /\ n <= posted'
      BY <1>1, <2>2, HasStill
    <2>4. QED
      BY <2>1, <2>3
  <1>4. \A f \in Fetches : FetchInvariant(f)'
    BY OthersKnowStill
  <1>5. QED
    BY <1>2, <1>3, <1>4 DEF MessagesInvariant

LEMMA PostStep ==
    ASSUME MessagesInvariant, PostMessage
    PROVE  MessagesInvariant'
  <1>1. posted \in Nat /\ posted' = posted + 1 /\ posted' \in 0..MaxMessages
        /\ stream' \subseteq stream \cup {posted + 1} /\ UNCHANGED <<expired, seen, fetch, received>>
    BY MessagesAssumption DEF MessagesInvariant, MessagesTypeOK, PostMessage
  <1>2. stream' \subseteq 1..posted' /\ 1..posted' \subseteq Ids
    BY <1>1, MessagesAssumption DEF MessagesInvariant, Ids
  <1>3. Onwards
    BY <1>1, <1>2 DEF Onwards
  <1>4. MessagesTypeOK'
    BY <1>1, <1>2 DEF MessagesInvariant, MessagesTypeOK
  <1>5. QED
    BY <1>1, <1>2, <1>3, <1>4, OutsideStep

LEMMA TimePassesStep ==
    ASSUME MessagesInvariant, NEW i \in Ids, TimePasses(i)
    PROVE  MessagesInvariant'
  <1>1. Onwards
    BY MessagesAssumption DEF TimePasses, Onwards, MessagesInvariant, MessagesTypeOK, Ids
  <1>2. MessagesTypeOK'
    BY DEF TimePasses, MessagesInvariant, MessagesTypeOK
  <1>3. QED
    BY <1>1, <1>2, OutsideStep DEF TimePasses, MessagesInvariant

\* A step of one request.
LEMMA RequestStep ==
    ASSUME MessagesInvariant, NEW f \in Fetches, NEW y \in FetchRow,
           fetch' = [fetch EXCEPT ![f] = y], UNCHANGED <<posted, expired>>,
           stream' \subseteq stream, received' \in SUBSET (1..posted), received \subseteq received',
           seen' \in 0..posted \cup {Unset},
           \A r \in received' : HasUpTo(r, {})',
           seen' # Unset => \E n \in 0..posted : n = seen' /\ HasUpTo(n, {}),
           FetchInvariant(f)'
    PROVE  MessagesInvariant'
  <1>1. posted \in Nat /\ posted <= MaxMessages
    BY MessagesAssumption DEF MessagesInvariant, MessagesTypeOK
  <1>2. Onwards
    BY <1>1 DEF Onwards, MessagesInvariant
  <1>3. \A g \in Fetches : g # f => fetch'[g] = fetch[g]
    BY DEF MessagesInvariant, MessagesTypeOK
  <1>4. \A g \in Fetches : FetchInvariant(g)'
    BY <1>2, <1>3, OthersKnowStill
  <1>5. seen' # Unset => seen' <= posted' /\ HasUpTo(seen, {})'
    <2>1. SUFFICES ASSUME seen' # Unset PROVE seen' <= posted' /\ HasUpTo(seen, {})'
      OBVIOUS
    <2>2. PICK n \in 0..posted : n = seen' /\ HasUpTo(n, {})
      BY <2>1
    <2>3. HasUpTo(n, {})'
      BY <1>1, <1>2, <2>2, HasStill
    <2>4. QED
      BY <1>1, <2>2, <2>3
  <1>6. fetch' \in [Fetches -> FetchRow]
    BY DEF MessagesInvariant, MessagesTypeOK, FetchRow
  <1>7. 0..posted \subseteq 0..MaxMessages /\ 1..posted \subseteq Ids
    BY <1>1, MessagesAssumption DEF Ids
  <1>8. MessagesTypeOK'
    BY <1>1, <1>6, <1>7 DEF MessagesInvariant, MessagesTypeOK, FetchRow
  <1>9. QED
    BY <1>4, <1>5, <1>8 DEF MessagesInvariant

\* What holds of every request, with its record named.
LEMMA RequestKnows ==
    ASSUME MessagesInvariant, NEW f \in Fetches
    PROVE  \E x \in FetchRow :
             /\ x = fetch[f]
             /\ x.asked \in 0..posted /\ HasUpTo(x.asked, {}) /\ x.rows = 0
             /\ x.step = "read" => x.after \in 0..posted /\ HasUpTo(x.after, {})
             /\ x.step \in {"write", "answer"} =>
                  /\ x.last \in 0..posted /\ HasUpTo(x.last, x.live)
                  /\ \A l \in x.live : l \in 1..posted /\ HasUpTo(l, x.live)
  <1>1. PICK x : x = fetch[f]
    OBVIOUS
  <1>2. x \in FetchRow
    BY <1>1 DEF MessagesInvariant, MessagesTypeOK, FetchRow
  <1>3. /\ x.asked <= posted /\ HasUpTo(x.asked, {}) /\ x.rows = 0
        /\ x.step = "read" => x.after <= posted /\ HasUpTo(x.after, {})
        /\ x.step \in {"write", "answer"} =>
             /\ x.last <= posted /\ HasUpTo(x.last, x.live)
             /\ \A l \in x.live : l <= posted /\ HasUpTo(l, x.live)
    BY <1>1 DEF MessagesInvariant, FetchInvariant
  <1>4. posted \in Nat
    BY MessagesAssumption DEF MessagesInvariant, MessagesTypeOK
  <1>5. x.asked \in Nat /\ x.after \in Nat /\ x.last \in Nat /\ x.live \subseteq 1..MaxMessages
    BY <1>2, MessagesAssumption DEF FetchRow, Ids
  <1>6. QED
    BY <1>1, <1>2, <1>3, <1>4, <1>5, MessagesAssumption

\* The client, and the number kept, have no gap behind them.
LEMMA NoGap ==
    ASSUME MessagesInvariant
    PROVE  /\ posted \in Nat /\ posted <= MaxMessages
           /\ received \in SUBSET (1..posted) /\ seen \in 0..posted \cup {Unset}
           /\ \A r \in received : HasUpTo(r, {})
           /\ seen # Unset => \E n \in 0..posted : n = seen /\ HasUpTo(n, {})
  <1>1. posted \in Nat /\ posted <= MaxMessages
    BY MessagesAssumption DEF MessagesInvariant, MessagesTypeOK
  <1>2. seen # Unset => seen \in 0..posted
    BY <1>1, MessagesAssumption DEF MessagesInvariant, MessagesTypeOK
  <1>3. QED
    BY <1>1, <1>2 DEF MessagesInvariant

LEMMA NothingUpToZero ==
    ASSUME MessagesInvariant
    PROVE  HasUpTo(0, {})
  <1>1. \A m \in stream : m > 0
    BY DEF MessagesInvariant
  <1>2. QED
    BY <1>1 DEF HasUpTo, MessagesInvariant

LEMMA FetchStarts ==
    ASSUME NEW asked \in 0..MaxMessages,
           NEW y, y = [NoFetch EXCEPT !.step = "start", !.asked = asked, !.rows = 0]
    PROVE  y \in FetchRow /\ y.step = "start" /\ y.asked = asked /\ y.rows = 0
  <1>1. NoFetch \in FetchRow
    BY MessagesAssumption DEF NoFetch, FetchRow
  <1>2. PICK x \in FetchRow : x = NoFetch
    BY <1>1
  <1>3. y = [x EXCEPT !.step = "start", !.asked = asked, !.rows = 0]
    BY <1>2
  <1>4. QED
    BY <1>3 DEF FetchRow

LEMMA GetStep ==
    ASSUME MessagesInvariant, NEW f \in Fetches, NEW after \in 0..MaxMessages, Get(f, after, 0)
    PROVE  MessagesInvariant'
  <1>0. PICK y : y = [NoFetch EXCEPT !.step = "start", !.asked = after, !.rows = 0]
    OBVIOUS
  <1>1. fetch' = [fetch EXCEPT ![f] = y] /\ UNCHANGED <<stream, posted, expired, seen, received>>
        /\ after \in {0, HighestOf(received)}
    BY <1>0 DEF Get
  <1>2. y \in FetchRow /\ y.step = "start" /\ y.asked = after /\ y.rows = 0
    BY <1>0, FetchStarts
  <1>3. after \in 0..posted /\ HasUpTo(after, {})
    <2>1. CASE after = 0
      BY <2>1, NoGap, NothingUpToZero
    <2>2. CASE after # 0
      <3>1. received # {} /\ after = HighestOf(received)
        BY <1>1, <2>2 DEF HighestOf
      <3>2. after \in received
        BY <3>1, NoGap, HighestIsHighest
      <3>3. QED
        BY <3>2, NoGap
    <2>3. QED
      BY <2>1, <2>2
  <1>4. fetch'[f] = y
    BY <1>1 DEF MessagesInvariant, MessagesTypeOK
  <1>5. HasUpTo(after, {})'
    BY <1>1, <1>3 DEF HasUpTo
  <1>6. FetchInvariant(f)'
    BY <1>1, <1>2, <1>3, <1>4, <1>5, NoGap DEF FetchInvariant
  <1>7. \A r \in received' : HasUpTo(r, {})'
    BY <1>1, NoGap DEF HasUpTo
  <1>8. QED
    BY <1>1, <1>2, <1>6, <1>7, NoGap, RequestStep

LEMMA ReadSeenStep ==
    ASSUME MessagesInvariant, NEW f \in Fetches, ReadSeen(f)
    PROVE  MessagesInvariant'
  <1>1. PICK x \in FetchRow : x = fetch[f] /\ x.asked \in 0..posted /\ HasUpTo(x.asked, {}) /\ x.rows = 0
    BY RequestKnows
  <1>2. PICK n \in 0..posted : n = seen' /\ HasUpTo(n, {})
    BY <1>1, NoGap DEF ReadSeen
  <1>3. PICK y : y = [x EXCEPT !.step = "read", !.after = n]
    OBVIOUS
  <1>4. fetch' = [fetch EXCEPT ![f] = y] /\ UNCHANGED <<stream, posted, expired, received>>
    BY <1>1, <1>2, <1>3 DEF ReadSeen, MessagesInvariant, MessagesTypeOK
  <1>5. n \in 0..MaxMessages
    BY NoGap, MessagesAssumption
  <1>6. y \in FetchRow /\ y.step = "read" /\ y.after = n /\ y.asked = x.asked /\ y.rows = 0
    BY <1>1, <1>3, <1>5 DEF FetchRow
  <1>7. fetch'[f] = y
    BY <1>4 DEF MessagesInvariant, MessagesTypeOK
  <1>8. HasUpTo(n, {})' /\ HasUpTo(x.asked, {})'
    BY <1>1, <1>2, <1>4 DEF HasUpTo
  <1>9. FetchInvariant(f)'
    BY <1>1, <1>4, <1>6, <1>7, <1>8, NoGap DEF FetchInvariant
  <1>10. \A r \in received' : HasUpTo(r, {})'
    BY <1>4, NoGap DEF HasUpTo
  <1>11. QED
    BY <1>2, <1>4, <1>6, <1>9, <1>10, NoGap, RequestStep

LEMMA ReadStreamStep ==
    ASSUME MessagesInvariant, NEW f \in Fetches, ReadStream(f)
    PROVE  MessagesInvariant'
  <1>1. PICK x \in FetchRow : /\ x = fetch[f] /\ x.asked \in 0..posted /\ HasUpTo(x.asked, {}) /\ x.rows = 0
                              /\ x.after \in 0..posted /\ HasUpTo(x.after, {}) /\ x.step = "read"
    BY RequestKnows DEF ReadStream
  <1>2. PICK C : C = {i \in stream : i > x.after}
    OBVIOUS
  <1>3. Content(f) = C /\ LastProcessed(f, C) = HighestOf(C)
    BY <1>1, <1>2 DEF Content, LastProcessed, HighestOf
  <1>4. C \in SUBSET (1..posted)
    BY <1>2 DEF MessagesInvariant
  <1>5. PICK n \in 0..posted : n = HighestOf(C) /\ \A i \in C : i <= n
    BY <1>4, NoGap, HighestIsHighest
  <1>6. PICK y : y = [x EXCEPT !.step = "write", !.live = C \ expired, !.dead = C \cap expired, !.last = n]
    OBVIOUS
  <1>7. fetch' = [fetch EXCEPT ![f] = y] /\ UNCHANGED <<stream, posted, expired, seen, received>>
    BY <1>1, <1>3, <1>5, <1>6 DEF ReadStream, MessagesInvariant, MessagesTypeOK
  <1>8. n \in 0..MaxMessages /\ C \subseteq Ids
    BY <1>4, NoGap, MessagesAssumption DEF Ids
  <1>9. y \in FetchRow /\ y.step = "write" /\ y.live = C \ expired /\ y.last = n
        /\ y.asked = x.asked /\ y.rows = 0
    BY <1>1, <1>6, <1>8 DEF FetchRow
  <1>10. fetch'[f] = y
    BY <1>7 DEF MessagesInvariant, MessagesTypeOK
  <1>11. ASSUME NEW m \in stream \ expired PROVE m \in received \cup y.live
    <2>1. m \in 1..posted
      BY DEF MessagesInvariant
    <2>2. CASE m <= x.after
      BY <1>1, <2>2 DEF HasUpTo
    <2>3. CASE m > x.after
      BY <1>2, <1>9, <2>3
    <2>4. QED
      BY <1>1, <2>1, <2>2, <2>3, NoGap
  <1>12. \A l : HasUpTo(l, y.live)'
    BY <1>7, <1>11 DEF HasUpTo
  <1>13. HasUpTo(x.asked, {})'
    BY <1>1, <1>7 DEF HasUpTo
  <1>14. \A l \in y.live : l <= posted
    <2>1. posted \in Nat /\ y.live \subseteq C
      BY <1>9, NoGap
    <2>2. \A l \in C : l \in 1..posted
      BY <1>4
    <2>3. ASSUME NEW l \in y.live PROVE l <= posted
      BY <2>1, <2>2, <2>3
    <2>4. QED
      BY <2>3
  <1>15. FetchInvariant(f)'
    BY <1>1, <1>5, <1>7, <1>9, <1>10, <1>12, <1>13, <1>14, NoGap DEF FetchInvariant
  <1>16. \A r \in received' : HasUpTo(r, {})'
    BY <1>7, NoGap DEF HasUpTo
  <1>17. QED
    BY <1>7, <1>9, <1>15, <1>16, NoGap, RequestStep

LEMMA WriteSeenStep ==
    ASSUME MessagesInvariant, NEW f \in Fetches, WriteSeen(f)
    PROVE  MessagesInvariant'
  <1>1. PICK x \in FetchRow : /\ x = fetch[f] /\ x.asked \in 0..posted /\ HasUpTo(x.asked, {}) /\ x.rows = 0
                              /\ x.step = "write" /\ x.last \in 0..posted /\ HasUpTo(x.last, x.live)
                              /\ \A l \in x.live : l \in 1..posted /\ HasUpTo(l, x.live)
    BY RequestKnows DEF WriteSeen
  <1>2. PICK y : y = [x EXCEPT !.step = "answer"]
    OBVIOUS
  <1>3. fetch' = [fetch EXCEPT ![f] = y] /\ UNCHANGED <<posted, expired, received>>
        /\ stream' \subseteq stream
    BY <1>1, <1>2 DEF WriteSeen, MessagesInvariant, MessagesTypeOK
  <1>4. y \in FetchRow /\ y.step = "answer" /\ y.live = x.live /\ y.last = x.last
        /\ y.asked = x.asked /\ y.rows = 0
    BY <1>1, <1>2 DEF FetchRow
  <1>5. fetch'[f] = y
    BY <1>3 DEF MessagesInvariant, MessagesTypeOK
  <1>6. seen' \in 0..posted \cup {Unset}
        /\ (seen' # Unset => \E n \in 0..posted : n = seen' /\ HasUpTo(n, {}))
    <2>1. CASE SkipsTo(f)
      BY <1>1, <2>1 DEF SkipsTo, WriteSeen
    <2>2. CASE ~SkipsTo(f)
      BY <2>2, NoGap DEF WriteSeen
    <2>3. QED
      BY <2>1, <2>2
  <1>7. HasUpTo(x.asked, {})' /\ HasUpTo(x.last, x.live)' /\ \A l \in x.live : HasUpTo(l, x.live)'
    BY <1>1, <1>3 DEF HasUpTo
  <1>8. FetchInvariant(f)'
    BY <1>1, <1>3, <1>4, <1>5, <1>7, NoGap DEF FetchInvariant
  <1>9. \A r \in received' : HasUpTo(r, {})'
    BY <1>3, NoGap DEF HasUpTo
  <1>10. QED
    BY <1>3, <1>4, <1>6, <1>8, <1>9, NoGap, RequestStep

LEMMA AnswerStep ==
    ASSUME MessagesInvariant, NEW f \in Fetches, NEW arrives \in BOOLEAN, Answer(f, arrives)
    PROVE  MessagesInvariant'
  <1>1. PICK x \in FetchRow : /\ x = fetch[f] /\ x.step = "answer"
                              /\ \A l \in x.live : l \in 1..posted /\ HasUpTo(l, x.live)
    BY RequestKnows DEF Answer
  <1>2. fetch' = [fetch EXCEPT ![f] = NoFetch] /\ UNCHANGED <<stream, posted, expired, seen>>
        /\ received' \in {received, received \cup x.live}
    BY <1>1 DEF Answer
  <1>3. NoFetch \in FetchRow /\ NoFetch.step = "idle" /\ NoFetch.asked = 0 /\ NoFetch.rows = 0
    BY MessagesAssumption DEF NoFetch, FetchRow
  <1>4. fetch'[f] = NoFetch
    BY <1>2 DEF MessagesInvariant, MessagesTypeOK
  <1>5. received' \in SUBSET (1..posted) /\ received \subseteq received'
    BY <1>1, <1>2, NoGap
  <1>6. HasUpTo(0, {})'
    BY <1>2, <1>5, NothingUpToZero DEF HasUpTo
  <1>7. FetchInvariant(f)'
    BY <1>2, <1>3, <1>4, <1>6, NoGap DEF FetchInvariant
  <1>8. ASSUME NEW r \in received' PROVE HasUpTo(r, {})'
    <2>1. CASE r \in received
      BY <1>2, <1>5, <2>1, NoGap DEF HasUpTo
    <2>2. CASE r \notin received
      BY <1>1, <1>2, <2>2 DEF HasUpTo
    <2>3. QED
      BY <2>1, <2>2
  <1>9. QED
    BY <1>2, <1>3, <1>5, <1>7, <1>8, NoGap, RequestStep

LEMMA PollAgainStep ==
    ASSUME MessagesInvariant, NEW f \in Fetches, PollAgain(f)
    PROVE  MessagesInvariant'
  <1>1. PICK x \in FetchRow : x = fetch[f] /\ x.asked \in 0..posted /\ HasUpTo(x.asked, {}) /\ x.rows = 0
    BY RequestKnows
  <1>2. PICK y : y = [NoFetch EXCEPT !.step = "start", !.asked = x.asked, !.rows = 0]
    OBVIOUS
  <1>3. fetch' = [fetch EXCEPT ![f] = y] /\ UNCHANGED <<stream, posted, expired, seen, received>>
    BY <1>1, <1>2 DEF PollAgain
  <1>4. y \in FetchRow /\ y.step = "start" /\ y.asked = x.asked /\ y.rows = 0
    <2>1. x.asked \in 0..MaxMessages
      BY NoGap, <1>1, MessagesAssumption
    <2>2. QED
      BY <1>2, <2>1, FetchStarts
  <1>5. fetch'[f] = y
    BY <1>3 DEF MessagesInvariant, MessagesTypeOK
  <1>6. HasUpTo(x.asked, {})'
    BY <1>1, <1>3 DEF HasUpTo
  <1>7. FetchInvariant(f)'
    BY <1>1, <1>3, <1>4, <1>5, <1>6, NoGap DEF FetchInvariant
  <1>8. \A r \in received' : HasUpTo(r, {})'
    BY <1>3, NoGap DEF HasUpTo
  <1>9. QED
    BY <1>3, <1>4, <1>7, <1>8, NoGap, RequestStep

LEMMA MessagesStep ==
    ASSUME Rows = {}, MessagesInvariant, [MessagesNext]_messageVars
    PROVE  MessagesInvariant'
  <1>1. CASE UNCHANGED messageVars
    <2>1. Onwards
      BY <1>1, NoGap DEF messageVars, Onwards, MessagesInvariant
    <2>2. QED
      BY <1>1, <2>1, OutsideStep DEF messageVars, MessagesInvariant, MessagesTypeOK
  <1>2. QED
    BY <1>1, PostStep, TimePassesStep, GetStep, ReadSeenStep, ReadStreamStep, WriteSeenStep,
       AnswerStep, PollAgainStep DEF MessagesNext

\* As long as clients do not ask for a number of rows, lost answers, polls that overlap,
\* expired messages and a stream that is cut off make nobody miss a message that is still
\* good (messages.py:51-55 and 89-97).
THEOREM MessagesAreNotSkipped ==
    ASSUME Rows = {}
    PROVE  MessagesSpec => []NothingIsSkipped
  <1>1. MessagesInvariant => NothingIsSkipped
    BY DEF MessagesInvariant, NothingIsSkipped, HasUpTo
  <1>2. MessagesInvariant /\ [MessagesNext]_messageVars => MessagesInvariant'
    BY MessagesStep
  <1>3. QED
    BY MessagesStart, <1>1, <1>2, PTL DEF MessagesSpec

----------------------------------------------------------------------------
(* Accounts.                                                                *)

LEMMA AtMostOne ==
    ASSUME NEW S, \A x, y \in S : x = y
    PROVE  Cardinality(S) <= 1
  <1>1. CASE S = {}
    BY <1>1, FS_EmptySet
  <1>2. CASE S # {}
    <2>1. PICK x \in S : S = {x}
      BY <1>2
    <2>2. Cardinality({x}) = 1
      BY FS_Singleton
    <2>3. QED
      BY <2>1, <2>2
  <1>3. QED
    BY <1>1, <1>2

\* The identities of Game Center that a user has.
GameCenterOf(u) == {i \in DOMAIN identities : identities[i].user = u /\ identities[i].name \in GameCenter}

\* A login knows the identity of its name, or that there is none, and has it to itself.
LoginKnows(x) ==
  /\ x.identity = 0 => Named(x.name) = {} /\ (x.name = ClearName => Named(HashedName) = {})
  /\ x.identity # 0 =>
       /\ x.identity \in DOMAIN identities
       /\ \/ identities[x.identity].name = x.name
          \/ x.name = ClearName /\ identities[x.identity].name = HashedName /\ Named(ClearName) = {}

\* A link that no other overlaps knows that its user may have the identity.
LinkKnows(x) ==
  /\ x.identity \in DOMAIN identities /\ x.user \in DOMAIN activeUser
  /\ x.user \notin overlapped /\ identities[x.identity].name \in GameCenter => GameCenterOf(x.user) = {}

AccountsInvariant ==
  /\ AccountsTypeOK
  /\ \A i, j \in DOMAIN identities : identities[i].name = identities[j].name => i = j
  /\ \A i \in DOMAIN identities : identities[i].user \in DOMAIN activeUser \cup {0}
  /\ \A u \in (DOMAIN activeUser) \ overlapped : \A i, j \in GameCenterOf(u) : i = j
  /\ \A r \in AuthRequests : /\ doing[r] \in Login => LoginKnows(doing[r])
                             /\ doing[r] \in Link => LinkKnows(doing[r])
  /\ \A r, s \in AuthRequests : r # s =>
       /\ doing[r] \in Login /\ doing[s] \in Login => doing[r].name # doing[s].name
       /\ doing[r] \in Link /\ doing[s] \in Link /\ doing[r].user = doing[s].user =>
            doing[r].user \in overlapped

LEMMA AccountsStart == AccountsInit => AccountsInvariant
  <1> SUFFICES ASSUME AccountsInit PROVE AccountsInvariant
    OBVIOUS
  <1>1. Len(identities) = 1 /\ DOMAIN identities = {1} /\ identities[1] = [name |-> HashedName, user |-> 1]
    BY DEF AccountsInit
  <1>2. Len(activeUser) = 1 /\ DOMAIN activeUser = {1} /\ activeUser \in Seq(BOOLEAN)
    BY DEF AccountsInit
  <1>3. [name |-> HashedName, user |-> 1] \in Identity
    BY AccountsAssumption DEF Identity
  <1>4. identities \in Seq(Identity)
    BY <1>3 DEF AccountsInit
  <1>5. AccountsTypeOK
    BY <1>1, <1>2, <1>4, AccountsAssumption DEF AccountsInit, AccountsTypeOK
  <1>6. \A r \in AuthRequests : doing[r] \notin Login /\ doing[r] \notin Link
    BY DEF AccountsInit, NoAuth, Login, Link
  <1>7. \A i, j \in GameCenterOf(1) : i = j
    BY <1>1 DEF GameCenterOf
  <1>8. QED
    BY <1>1, <1>2, <1>5, <1>6, <1>7 DEF AccountsInvariant

LEMMA AuthTypes ==
    ASSUME AccountsTypeOK, NEW r \in AuthRequests
    PROVE  /\ doing[r].type = "login" <=> doing[r] \in Login
           /\ doing[r].type = "link" <=> doing[r] \in Link
           /\ NoAuth \notin Login /\ NoAuth \notin Link
           /\ \A x \in Login : x \notin Link
  BY DEF AccountsTypeOK, NoAuth, Login, Link

\* What is found is the one identity of the name.
LEMMA FoundOne ==
    ASSUME AccountsInvariant, NEW name
    PROVE  \/ Named(name) = {} /\ FirstOf(Named(name)) = 0
           \/ \E i \in DOMAIN identities : /\ Named(name) = {i} /\ FirstOf(Named(name)) = i
                                           /\ identities[i].name = name
  <1>1. CASE Named(name) = {}
    BY <1>1 DEF FirstOf
  <1>2. CASE Named(name) # {}
    <2>1. PICK i \in Named(name) : TRUE
      BY <1>2
    <2>2. Named(name) = {i} /\ i \in DOMAIN identities /\ identities[i].name = name
      BY <2>1 DEF Named, AccountsInvariant
    <2>3. i \in Nat
      BY <2>2 DEF AccountsInvariant, AccountsTypeOK
    <2>4. FirstOf({i}) = i
      BY <2>3 DEF FirstOf
    <2>5. QED
      BY <2>2, <2>4
  <1>3. QED
    BY <1>1, <1>2

LEMMA FoundKnown ==
    ASSUME AccountsInvariant, NEW name \in Names, NEW i, i = FoundIdentity(name)
    PROVE  /\ i \in DOMAIN identities \cup {0} /\ i \in 0..MaxIdentities
           /\ i = 0 => Named(name) = {} /\ (name = ClearName => Named(HashedName) = {})
           /\ i # 0 => \/ identities[i].name = name
                       \/ name = ClearName /\ identities[i].name = HashedName /\ Named(ClearName) = {}
  <1>1. DOMAIN identities \cup {0} \subseteq 0..MaxIdentities /\ 0 \notin DOMAIN identities
    BY AccountsAssumption DEF AccountsInvariant, AccountsTypeOK
  <1>2. CASE Named(name) = {} /\ name = ClearName
    BY <1>1, <1>2, FoundOne DEF FoundIdentity
  <1>3. CASE ~(Named(name) = {} /\ name = ClearName)
    BY <1>1, <1>3, FoundOne DEF FoundIdentity
  <1>4. QED
    BY <1>2, <1>3

LEMMA FoundUserTyped ==
    ASSUME AccountsInvariant, NEW i \in DOMAIN identities \cup {0}
    PROVE  FoundUser(i) \in 0..MaxUsers
  <1>1. \A j \in DOMAIN identities : identities[j].user \in DOMAIN activeUser \cup {0}
    BY DEF AccountsInvariant
  <1>2. DOMAIN activeUser \cup {0} \subseteq 0..MaxUsers
    BY AccountsAssumption DEF AccountsInvariant, AccountsTypeOK
  <1>3. 0 \in 0..MaxUsers
    BY AccountsAssumption
  <1>4. QED
    BY <1>1, <1>2, <1>3 DEF FoundUser

\* A step that leaves the identities alone.
LEMMA SameIdentities ==
    ASSUME AccountsInvariant, AccountsTypeOK', identities' = identities,
           DOMAIN activeUser' = DOMAIN activeUser, overlapped \subseteq overlapped',
           \A r \in AuthRequests :
             \/ doing'[r] = doing[r]
             \/ doing'[r] \notin Login /\ doing'[r] \notin Link
             \/ /\ doing'[r] \in Login /\ LoginKnows(doing[r])' /\ doing'[r] \notin Link
                /\ \A s \in AuthRequests \ {r} : doing[s] \in Login => doing[s].name # doing'[r].name
                /\ \A s \in AuthRequests \ {r} : doing'[s] = doing[s]
             \/ /\ doing'[r] \in Link /\ LinkKnows(doing[r])' /\ doing'[r] \notin Login
                /\ \A s \in AuthRequests \ {r} :
                     doing[s] \in Link /\ doing[s].user = doing'[r].user => doing'[r].user \in overlapped'
                /\ \A s \in AuthRequests \ {r} : doing'[s] = doing[s]
    PROVE  AccountsInvariant'
  <1>1. \A name : Named(name)' = Named(name)
    BY DEF Named
  <1>2. \A u : GameCenterOf(u)' = GameCenterOf(u)
    BY DEF GameCenterOf
  <1>3. ASSUME NEW r \in AuthRequests, doing'[r] \in Login PROVE LoginKnows(doing[r])'
    <2>1. CASE doing'[r] = doing[r]
      <3>1. PICK x : x = doing[r]
        OBVIOUS
      <3>2. LoginKnows(x)
        BY <1>3, <2>1, <3>1 DEF AccountsInvariant
      <3>3. LoginKnows(x)'
        BY <1>1, <3>2 DEF LoginKnows
      <3>4. QED
        BY <2>1, <3>1, <3>3
    <2>2. QED
      BY <1>3, <2>1
  <1>4. ASSUME NEW r \in AuthRequests, doing'[r] \in Link PROVE LinkKnows(doing[r])'
    <2>1. CASE doing'[r] = doing[r]
      <3>1. PICK x : x = doing[r]
        OBVIOUS
      <3>2. LinkKnows(x)
        BY <1>4, <2>1, <3>1 DEF AccountsInvariant
      <3>3. LinkKnows(x)'
        BY <1>2, <3>2 DEF LinkKnows
      <3>4. QED
        BY <2>1, <3>1, <3>3
    <2>2. QED
      BY <1>4, <2>1
  <1>5. ASSUME NEW r \in AuthRequests, NEW s \in AuthRequests, r # s,
               doing'[r] \in Login, doing'[s] \in Login
        PROVE  doing'[r].name # doing'[s].name
    BY <1>5 DEF AccountsInvariant
  <1>6. ASSUME NEW r \in AuthRequests, NEW s \in AuthRequests, r # s,
               doing'[r] \in Link, doing'[s] \in Link, doing'[r].user = doing'[s].user
        PROVE  doing'[r].user \in overlapped'
    BY <1>6 DEF AccountsInvariant
  <1>7. \A u \in (DOMAIN activeUser') \ overlapped' : \A i, j \in GameCenterOf(u)' : i = j
    BY <1>2 DEF AccountsInvariant
  <1>8. QED
    BY <1>3, <1>4, <1>5, <1>6, <1>7 DEF AccountsInvariant

LEMMA LoginLooksStep ==
    ASSUME AccountsInvariant, NEW r \in AuthRequests, NEW name \in Names, NEW create \in BOOLEAN,
           LoginLooks(r, name, create)
    PROVE  AccountsInvariant'
  <1>1. PICK i : i = FoundIdentity(name)
    OBVIOUS
  <1>2. PICK u \in 0..MaxUsers : u = FoundUser(i)
    BY <1>1, FoundKnown, FoundUserTyped
  <1>3. PICK x : x = [type |-> "login", name |-> name, identity |-> i, user |-> u, create |-> create]
    OBVIOUS
  <1>4. doing' = [doing EXCEPT ![r] = x] /\ UNCHANGED <<identities, activeUser, overlapped>> /\ ~Locked(name)
    BY <1>1, <1>2, <1>3 DEF LoginLooks
  <1>5. x \in Login /\ x.name = name /\ x.identity = i
    BY <1>1, <1>2, <1>3, FoundKnown DEF Login
  <1>6. AccountsTypeOK'
    BY <1>4, <1>5 DEF AccountsInvariant, AccountsTypeOK
  <1>7. doing'[r] = x /\ \A s \in AuthRequests \ {r} : doing'[s] = doing[s]
    BY <1>4 DEF AccountsInvariant, AccountsTypeOK
  <1>8. LoginKnows(x)
    BY <1>1, <1>5, FoundKnown DEF LoginKnows
  <1>9. LoginKnows(x)'
    BY <1>4, <1>8 DEF LoginKnows, Named
  <1>10. \A s \in AuthRequests \ {r} : doing[s] \in Login => doing[s].name # name
    BY <1>4, AuthTypes DEF Locked, AccountsInvariant
  <1>11. doing'[r] \in Login /\ doing'[r].name = name /\ doing'[r] \notin Link
    BY <1>5, <1>7, AuthTypes DEF AccountsInvariant
  <1>12. LoginKnows(doing[r])'
    BY <1>7, <1>9
  <1>13. QED
    BY <1>4, <1>6, <1>7, <1>10, <1>11, <1>12, SameIdentities

LEMMA LinkLooksStep ==
    ASSUME AccountsInvariant, NEW r \in AuthRequests, NEW i \in DOMAIN identities, NEW u \in DOMAIN activeUser,
           LinkLooks(r, i, u)
    PROVE  AccountsInvariant'
  <1>1. PICK x : x = [type |-> "link", identity |-> i, user |-> u]
    OBVIOUS
  <1>2. doing' = [doing EXCEPT ![r] = x] /\ UNCHANGED <<identities, activeUser>>
    BY <1>1 DEF LinkLooks
  <1>3. i \in 1..MaxIdentities /\ u \in 1..MaxUsers
    BY AccountsAssumption DEF AccountsInvariant, AccountsTypeOK
  <1>4. x \in Link /\ x.user = u /\ x.identity = i
    BY <1>1, <1>3 DEF Link
  <1>5. overlapped \subseteq overlapped' /\ overlapped' \subseteq overlapped \cup {u}
        /\ ((\E o \in AuthRequests : doing[o].type = "link" /\ doing[o].user = u) => u \in overlapped')
    BY DEF LinkLooks
  <1>6. AccountsTypeOK'
    BY <1>2, <1>3, <1>4, <1>5 DEF AccountsInvariant, AccountsTypeOK
  <1>7. doing'[r] = x /\ \A s \in AuthRequests \ {r} : doing'[s] = doing[s]
    BY <1>2 DEF AccountsInvariant, AccountsTypeOK
  <1>8. LinkKnows(x)'
    BY <1>2, <1>4 DEF LinkKnows, LinkLooks, GameCenterOf
  <1>9. \A s \in AuthRequests \ {r} : doing[s] \in Link /\ doing[s].user = u => u \in overlapped'
    BY <1>5, AuthTypes DEF AccountsInvariant
  <1>10. doing'[r] \in Link /\ doing'[r].user = u /\ doing'[r] \notin Login
    BY <1>4, <1>7, AuthTypes DEF AccountsInvariant
  <1>11. LinkKnows(doing[r])'
    BY <1>7, <1>8
  <1>12. QED
    BY <1>2, <1>5, <1>6, <1>7, <1>9, <1>10, <1>11, SameIdentities

LEMMA DeactivateStep ==
    ASSUME AccountsInvariant, NEW u \in DOMAIN activeUser, Deactivate(u)
    PROVE  AccountsInvariant'
  <1>1. activeUser' = [activeUser EXCEPT ![u] = FALSE] /\ UNCHANGED <<identities, doing, overlapped>>
    BY DEF Deactivate
  <1>2. activeUser' \in [DOMAIN activeUser -> BOOLEAN]
    BY <1>1, EntryOf DEF AccountsInvariant, AccountsTypeOK
  <1>3. activeUser' \in Seq(BOOLEAN) /\ Len(activeUser') = Len(activeUser)
    BY <1>2, SameLength DEF AccountsInvariant, AccountsTypeOK
  <1>4. AccountsTypeOK'
    BY <1>1, <1>3 DEF AccountsInvariant, AccountsTypeOK
  <1>5. QED
    BY <1>1, <1>4, SameIdentities

\* Identity k, an old one or a new one, gets a name and a user.
Changes(k, n, u) ==
  /\ DOMAIN identities' = DOMAIN identities \cup {k}
  /\ \A j \in DOMAIN identities \ {k} : identities'[j] = identities[j]
  /\ identities'[k].name = n /\ identities'[k].user = u

\* A request that ends leaves the others theirs.
LEMMA Ended ==
    ASSUME AccountsInvariant, NEW r \in AuthRequests, doing' = [doing EXCEPT ![r] = NoAuth]
    PROVE  /\ doing' \in [AuthRequests -> {NoAuth} \cup Login \cup Link]
           /\ doing'[r] \notin Login /\ doing'[r] \notin Link
           /\ \A s \in AuthRequests \ {r} : doing'[s] = doing[s]
  BY AuthTypes DEF AccountsInvariant, AccountsTypeOK

\* What the other requests know after a commit, put together.
LEMMA CommitStep ==
    ASSUME AccountsInvariant, NEW r \in AuthRequests, doing' = [doing EXCEPT ![r] = NoAuth],
           AccountsTypeOK', UNCHANGED overlapped,
           \A i, j \in DOMAIN identities' : identities'[i].name = identities'[j].name => i = j,
           \A i \in DOMAIN identities' : identities'[i].user \in DOMAIN activeUser' \cup {0},
           \A u \in (DOMAIN activeUser') \ overlapped : \A i, j \in GameCenterOf(u)' : i = j,
           \A s \in AuthRequests \ {r} : doing[s] \in Login => \E x : x = doing[s] /\ LoginKnows(x)',
           \A s \in AuthRequests \ {r} : doing[s] \in Link => \E x : x = doing[s] /\ LinkKnows(x)'
    PROVE  AccountsInvariant'
  <1>1. /\ doing'[r] \notin Login /\ doing'[r] \notin Link
        /\ \A s \in AuthRequests \ {r} : doing'[s] = doing[s]
    BY Ended
  <1>2. \A s \in AuthRequests : /\ doing'[s] \in Login => LoginKnows(doing[s])'
                                /\ doing'[s] \in Link => LinkKnows(doing[s])'
    BY <1>1
  <1>3. ASSUME NEW s \in AuthRequests, NEW o \in AuthRequests, s # o
        PROVE  /\ doing'[s] \in Login /\ doing'[o] \in Login => doing'[s].name # doing'[o].name
               /\ doing'[s] \in Link /\ doing'[o] \in Link /\ doing'[s].user = doing'[o].user =>
                    doing'[s].user \in overlapped'
    BY <1>1, <1>3 DEF AccountsInvariant
  <1>4. QED
    BY <1>2, <1>3 DEF AccountsInvariant

LEMMA LinkChanges ==
    ASSUME AccountsInvariant, NEW x \in Link, x.identity \in DOMAIN identities,
           identities' = [identities EXCEPT ![x.identity].user = x.user]
    PROVE  /\ Changes(x.identity, identities[x.identity].name, x.user)
           /\ identities' \in Seq(Identity) /\ Len(identities') = Len(identities)
  <1>1. PICK k, u : k = x.identity /\ u = x.user
    OBVIOUS
  <1>2. u \in 0..MaxUsers
    BY <1>1, AccountsAssumption DEF Link
  <1>3. identities \in Seq(Identity)
    BY DEF AccountsInvariant, AccountsTypeOK
  <1>4. identities[k] \in Identity /\ k \in DOMAIN identities
    BY <1>1, <1>3, EntryOf
  <1>5. PICK y : y = [identities[k] EXCEPT !.user = u]
    OBVIOUS
  <1>6. y \in Identity /\ y.name = identities[k].name /\ y.user = u
    BY <1>2, <1>4, <1>5 DEF Identity
  <1>7. identities' = [identities EXCEPT ![k] = y]
    BY <1>1, <1>5
  <1>8. identities' \in [DOMAIN identities -> Identity]
    BY <1>3, <1>6, <1>7, EntryOf
  <1>9. identities' \in Seq(Identity) /\ Len(identities') = Len(identities)
    BY <1>3, <1>8, SameLength
  <1>10. QED
    BY <1>1, <1>4, <1>6, <1>7, <1>9 DEF Changes

LEMMA LinkCommitsStep ==
    ASSUME AccountsInvariant, NEW r \in AuthRequests, LinkCommits(r)
    PROVE  AccountsInvariant'
  <1>1. PICK x \in Link : x = doing[r] /\ LinkKnows(x)
    BY AuthTypes DEF LinkCommits, AccountsInvariant
  <1>2. doing' = [doing EXCEPT ![r] = NoAuth] /\ UNCHANGED <<activeUser, overlapped>>
        /\ identities' = [identities EXCEPT ![x.identity].user = x.user]
    BY <1>1 DEF LinkCommits
  <1>3. PICK k, n, u : k = x.identity /\ n = identities[k].name /\ u = x.user
    OBVIOUS
  <1>4. k \in DOMAIN identities /\ u \in DOMAIN activeUser
        /\ (u \notin overlapped /\ n \in GameCenter => GameCenterOf(u) = {})
    BY <1>1, <1>3 DEF LinkKnows
  <1>5. Changes(k, n, u) /\ identities' \in Seq(Identity) /\ Len(identities') = Len(identities)
    BY <1>2, <1>3, <1>4, LinkChanges
  <1>6. DOMAIN identities' = DOMAIN identities /\ \A i \in DOMAIN identities : identities'[i].name = identities[i].name
    BY <1>3, <1>4, <1>5 DEF Changes
  <1>7. AccountsTypeOK'
    BY <1>2, <1>5, Ended DEF AccountsInvariant, AccountsTypeOK
  <1>8. \A i, j \in DOMAIN identities' : identities'[i].name = identities'[j].name => i = j
    BY <1>6 DEF AccountsInvariant
  <1>9. \A i \in DOMAIN identities' : identities'[i].user \in DOMAIN activeUser' \cup {0}
    BY <1>2, <1>4, <1>5 DEF AccountsInvariant, Changes
  <1>10. \A v : v # u => GameCenterOf(v)' \subseteq GameCenterOf(v)
    BY <1>5, <1>6 DEF GameCenterOf, Changes
  <1>11. GameCenterOf(u)' \subseteq GameCenterOf(u) \cup {k}
         /\ (n \notin GameCenter => GameCenterOf(u)' \subseteq GameCenterOf(u))
    BY <1>3, <1>5, <1>6 DEF GameCenterOf, Changes
  <1>12. ASSUME NEW v \in (DOMAIN activeUser') \ overlapped PROVE \A i, j \in GameCenterOf(v)' : i = j
    <2>1. \A i, j \in GameCenterOf(v) : i = j
      BY <1>2, <1>12 DEF AccountsInvariant
    <2>2. CASE v # u
      BY <1>10, <2>1, <2>2
    <2>3. CASE v = u
      BY <1>4, <1>11, <1>12, <2>1, <2>3
    <2>4. QED
      BY <2>2, <2>3
  <1>13. \A name : Named(name)' = Named(name)
    BY <1>6 DEF Named
  <1>14. ASSUME NEW s \in AuthRequests \ {r}, doing[s] \in Login
         PROVE  \E y : y = doing[s] /\ LoginKnows(y)'
    <2>1. PICK y : y = doing[s] /\ LoginKnows(y)
      BY <1>14 DEF AccountsInvariant
    <2>2. LoginKnows(y)'
      BY <1>6, <1>13, <2>1 DEF LoginKnows
    <2>3. QED
      BY <2>1, <2>2
  <1>15. ASSUME NEW s \in AuthRequests \ {r}, doing[s] \in Link
         PROVE  \E y : y = doing[s] /\ LinkKnows(y)'
    <2>1. PICK y : y = doing[s] /\ LinkKnows(y)
      BY <1>15 DEF AccountsInvariant
    <2>2. y.user = u => u \in overlapped
      BY <1>1, <1>3, <1>15, <2>1 DEF AccountsInvariant
    <2>3. LinkKnows(y)'
      BY <1>2, <1>6, <1>10, <2>1, <2>2 DEF LinkKnows
    <2>4. QED
      BY <2>1, <2>3
  <1>16. QED
    BY <1>2, <1>7, <1>8, <1>9, <1>12, <1>14, <1>15, CommitStep

\* What the commit of a login does: it adds the identity of the name or gives one its
\* name, and makes a user for it or not.
LoginDoes(x, k, u) ==
  /\ Changes(k, x.name, u) /\ identities' \in Seq(Identity) /\ Len(identities') <= MaxIdentities
  /\ \/ x.identity = 0 /\ k \notin DOMAIN identities
     \/ x.identity = k /\ k \in DOMAIN identities
  /\ \/ activeUser' = Append(activeUser, TRUE) /\ Len(activeUser) < MaxUsers /\ u = Len(activeUser) + 1
     \/ UNCHANGED activeUser /\ x.identity = 0 /\ u = 0
     \/ UNCHANGED activeUser /\ x.identity # 0 /\ u = identities[k].user

LEMMA LoginChanges ==
    ASSUME AccountsInvariant, NEW r \in AuthRequests, LoginCommits(r), NEW x \in Login, x = doing[r], LoginKnows(x)
    PROVE  \E k, u : LoginDoes(x, k, u)
  <1> DEFINE makes == x.user = 0 /\ x.create
             users == IF makes THEN Append(activeUser, TRUE) ELSE activeUser
             known == IF x.identity = 0 THEN Append(identities, [name |-> x.name, user |-> 0])
                      ELSE [identities EXCEPT ![x.identity].name = x.name]
             i == IF x.identity = 0 THEN Len(known) ELSE x.identity
  <1>1. /\ Len(known) <= MaxIdentities /\ Len(users) <= MaxUsers /\ activeUser' = users
        /\ identities' = IF makes THEN [known EXCEPT ![i].user = Len(users)] ELSE known
    BY DEF LoginCommits
  <1>2. identities \in Seq(Identity) /\ activeUser \in Seq(BOOLEAN) /\ Len(activeUser) <= MaxUsers
    BY DEF AccountsInvariant, AccountsTypeOK
  <1>3. x.name \in Names /\ x.identity \in 0..MaxIdentities
    BY DEF Login
  <1>4. PICK old : old = IF x.identity = 0 THEN 0 ELSE identities[x.identity].user
    OBVIOUS
  <1>5. PICK k : k = i
    OBVIOUS
  <1>6. /\ known \in Seq(Identity) /\ k \in DOMAIN known
        /\ DOMAIN known = DOMAIN identities \cup {k}
        /\ \A j \in DOMAIN identities \ {k} : known[j] = identities[j]
        /\ known[k].name = x.name /\ known[k].user = old
        /\ \/ x.identity = 0 /\ k \notin DOMAIN identities
           \/ x.identity = k /\ k \in DOMAIN identities /\ x.identity # 0
    <2>1. CASE x.identity = 0
      <3>1. PICK y : y = [name |-> x.name, user |-> 0]
        OBVIOUS
      <3>2. y \in Identity /\ y.name = x.name /\ y.user = 0
        BY <1>3, <3>1, AccountsAssumption DEF Identity
      <3>3. known = Append(identities, y) /\ k = Len(identities) + 1
        BY <1>2, <1>5, <2>1, <3>1
      <3> HIDE DEF known
      <3>4. known \in Seq(Identity) /\ Len(known) = Len(identities) + 1 /\ Len(identities) \in Nat
        BY <1>2, <3>2, <3>3
      <3>5. DOMAIN known = 1..(Len(identities) + 1) /\ DOMAIN identities = 1..Len(identities)
        BY <1>2, <3>4
      <3>6. known[k] = y /\ \A j \in DOMAIN identities : known[j] = identities[j]
        BY <1>2, <3>3, <3>4, <3>5
      <3>7. QED
        BY <1>4, <2>1, <3>2, <3>3, <3>4, <3>5, <3>6
    <2>2. CASE x.identity # 0
      <3>1. k = x.identity /\ k \in DOMAIN identities
        BY <1>5, <2>2 DEF LoginKnows
      <3>2. identities[k] \in Identity
        BY <1>2, <3>1, EntryOf
      <3>3. PICK y : y = [identities[k] EXCEPT !.name = x.name]
        OBVIOUS
      <3>4. y \in Identity /\ y.name = x.name /\ y.user = identities[k].user
        BY <1>3, <3>2, <3>3 DEF Identity
      <3>5. known = [identities EXCEPT ![k] = y]
        BY <2>2, <3>1, <3>3
      <3> HIDE DEF known
      <3>6. known \in [DOMAIN identities -> Identity]
        BY <1>2, <3>4, <3>5, EntryOf
      <3>7. known \in Seq(Identity)
        BY <1>2, <3>6, SameLength
      <3>8. QED
        BY <1>4, <2>2, <3>1, <3>4, <3>5, <3>6, <3>7
    <2>3. QED
      BY <2>1, <2>2
  <1>7. makes => Len(users) = Len(activeUser) + 1 /\ Len(users) \in 0..MaxUsers
    <2>1. makes => Len(users) = Len(activeUser) + 1 /\ Len(activeUser) \in Nat
      BY <1>2
    <2>2. QED
      BY <1>1, <2>1, AccountsAssumption
  <1>8. PICK c : c = known
    OBVIOUS
  <1>9. PICK m : m = Len(users)
    OBVIOUS
  <1>10. CASE makes
    <2>1. c[k] \in Identity /\ m \in 0..MaxUsers
      BY <1>6, <1>7, <1>8, <1>9, <1>10, EntryOf
    <2>2. PICK y : y = [c[k] EXCEPT !.user = m]
      OBVIOUS
    <2>3. y \in Identity /\ y.name = c[k].name /\ y.user = m
      BY <2>1, <2>2 DEF Identity
    <2>4. identities' = [c EXCEPT ![k] = y]
      BY <1>1, <1>5, <1>8, <1>9, <1>10, <2>2
    <2> HIDE DEF known, users, makes, i
    <2>5. identities' \in [DOMAIN c -> Identity]
      BY <1>6, <1>8, <2>3, <2>4, EntryOf
    <2>6. identities' \in Seq(Identity) /\ Len(identities') = Len(c)
      BY <1>6, <1>8, <2>5, SameLength
    <2>7. Changes(k, x.name, m)
      BY <1>6, <1>8, <2>3, <2>4 DEF Changes
    <2>8. activeUser' = Append(activeUser, TRUE) /\ Len(activeUser) < MaxUsers /\ m = Len(activeUser) + 1
      <3>1. Len(activeUser) \in Nat /\ MaxUsers \in Nat
        BY <1>2, AccountsAssumption
      <3>2. activeUser' = Append(activeUser, TRUE)
        BY <1>1, <1>10 DEF users
      <3>3. QED
        BY <1>7, <1>9, <1>10, <3>1, <3>2
    <2>9. LoginDoes(x, k, m)
      BY <1>1, <1>6, <1>8, <2>6, <2>7, <2>8 DEF LoginDoes
    <2>10. QED
      BY <2>9
  <1>11. CASE ~makes
    <2>1. identities' = c /\ activeUser' = activeUser /\ Len(c) <= MaxIdentities
      BY <1>1, <1>8, <1>11
    <2> HIDE DEF known, users, makes, i
    <2>2. Changes(k, x.name, old) /\ identities' \in Seq(Identity)
      BY <1>6, <1>8, <2>1 DEF Changes
    <2>3. LoginDoes(x, k, old)
      BY <1>4, <1>6, <2>1, <2>2 DEF LoginDoes
    <2>4. QED
      BY <2>3
  <1>12. QED
    BY <1>10, <1>11

\* Only the identity of the login's name changes, and only an identity of the fallback
\* name changes its name.
LEMMA LoginRenames ==
    ASSUME AccountsInvariant, NEW x \in Login, LoginKnows(x), NEW k, NEW u, LoginDoes(x, k, u)
    PROVE  /\ \A j \in DOMAIN identities \ {k} : identities[j].name # x.name
           /\ k \in DOMAIN identities => \/ identities[k].name = x.name
                                         \/ x.name = ClearName /\ identities[k].name = HashedName
           /\ x.name \in GameCenter /\ k \in DOMAIN identities => identities[k].name = x.name
           /\ x.name \in Names /\ 0 \notin DOMAIN identities
  <1>1. x.name \in Names /\ 0 \notin DOMAIN identities
    BY DEF Login, AccountsInvariant, AccountsTypeOK
  <1>2. CASE x.identity = 0
    BY <1>1, <1>2 DEF LoginDoes, LoginKnows, Named
  <1>3. CASE x.identity # 0
    <2>1. k = x.identity /\ k \in DOMAIN identities
      BY <1>3 DEF LoginDoes
    <2>2. CASE identities[k].name = x.name
      BY <1>1, <2>1, <2>2 DEF AccountsInvariant
    <2>3. CASE x.name = ClearName /\ identities[k].name = HashedName /\ Named(ClearName) = {}
      BY <1>1, <2>1, <2>3, AccountsAssumption DEF Named
    <2>4. QED
      BY <1>3, <2>1, <2>2, <2>3 DEF LoginKnows
  <1>4. QED
    BY <1>2, <1>3

\* The user of the changed identity is a new one, none, or the one it had.
LEMMA LoginUsers ==
    ASSUME AccountsInvariant, NEW x \in Login, LoginKnows(x), NEW k, NEW u, LoginDoes(x, k, u)
    PROVE  /\ activeUser' \in Seq(BOOLEAN) /\ Len(activeUser') <= MaxUsers
           /\ \/ /\ DOMAIN activeUser' = DOMAIN activeUser \cup {u} /\ u \notin DOMAIN activeUser \cup {0}
              \/ DOMAIN activeUser' = DOMAIN activeUser /\ u = 0
              \/ DOMAIN activeUser' = DOMAIN activeUser /\ k \in DOMAIN identities /\ u = identities[k].user
  <1>1. activeUser \in Seq(BOOLEAN) /\ Len(activeUser) \in Nat /\ DOMAIN activeUser = 1..Len(activeUser)
        /\ Len(activeUser) <= MaxUsers /\ MaxUsers \in Nat
    BY AccountsAssumption DEF AccountsInvariant, AccountsTypeOK
  <1>2. CASE activeUser' = Append(activeUser, TRUE) /\ Len(activeUser) < MaxUsers /\ u = Len(activeUser) + 1
    <2>1. activeUser' \in Seq(BOOLEAN) /\ Len(activeUser') = Len(activeUser) + 1
      BY <1>1, <1>2
    <2>2. DOMAIN activeUser' = 1..(Len(activeUser) + 1)
      BY <2>1
    <2>3. PICK n \in Nat : n = Len(activeUser)
      BY <1>1
    <2>4. 1..(n + 1) = 1..n \cup {n + 1} /\ n + 1 \notin 1..n \cup {0}
      OBVIOUS
    <2>5. DOMAIN activeUser' = DOMAIN activeUser \cup {u} /\ u \notin DOMAIN activeUser \cup {0}
      BY <1>1, <1>2, <2>2, <2>3, <2>4
    <2>6. Len(activeUser') <= MaxUsers
      BY <1>1, <1>2, <2>1
    <2>7. QED
      BY <2>1, <2>5, <2>6
  <1>3. CASE UNCHANGED activeUser /\ x.identity = 0 /\ u = 0
    BY <1>1, <1>3
  <1>4. CASE UNCHANGED activeUser /\ x.identity # 0 /\ u = identities[k].user
    BY <1>1, <1>4 DEF LoginDoes
  <1>5. QED
    BY <1>2, <1>3, <1>4 DEF LoginDoes

LEMMA LoginCommitsStep ==
    ASSUME AccountsInvariant, NEW r \in AuthRequests, LoginCommits(r)
    PROVE  AccountsInvariant'
  <1>1. PICK x \in Login : x = doing[r] /\ LoginKnows(x)
    BY AuthTypes DEF LoginCommits, AccountsInvariant
  <1>2. PICK k, u : LoginDoes(x, k, u)
    BY <1>1, LoginChanges
  <1>3. doing' = [doing EXCEPT ![r] = NoAuth] /\ UNCHANGED overlapped
    BY DEF LoginCommits
  <1>4. /\ \A j \in DOMAIN identities \ {k} : identities[j].name # x.name
        /\ k \in DOMAIN identities => \/ identities[k].name = x.name
                                      \/ x.name = ClearName /\ identities[k].name = HashedName
        /\ x.name \in GameCenter /\ k \in DOMAIN identities => identities[k].name = x.name
        /\ x.name \in Names /\ 0 \notin DOMAIN identities
    BY <1>1, <1>2, LoginRenames
  <1>5. /\ activeUser' \in Seq(BOOLEAN) /\ Len(activeUser') <= MaxUsers
        /\ \/ /\ DOMAIN activeUser' = DOMAIN activeUser \cup {u} /\ u \notin DOMAIN activeUser \cup {0}
           \/ DOMAIN activeUser' = DOMAIN activeUser /\ u = 0
           \/ DOMAIN activeUser' = DOMAIN activeUser /\ k \in DOMAIN identities /\ u = identities[k].user
    BY <1>1, <1>2, LoginUsers
  <1>6. /\ DOMAIN identities' = DOMAIN identities \cup {k}
        /\ \A j \in DOMAIN identities \ {k} : identities'[j] = identities[j]
        /\ identities'[k].name = x.name /\ identities'[k].user = u
        /\ identities' \in Seq(Identity) /\ Len(identities') <= MaxIdentities
    BY <1>2 DEF LoginDoes, Changes
  <1>7. AccountsTypeOK'
    BY <1>3, <1>5, <1>6, Ended DEF AccountsInvariant, AccountsTypeOK
  <1>8. \A i, j \in DOMAIN identities' : identities'[i].name = identities'[j].name => i = j
    BY <1>4, <1>6 DEF AccountsInvariant
  <1>9. \A i \in DOMAIN identities' : identities'[i].user \in DOMAIN activeUser' \cup {0}
    BY <1>5, <1>6 DEF AccountsInvariant
  <1>10. \A v \in DOMAIN activeUser : GameCenterOf(v)' \subseteq GameCenterOf(v)
    <2>1. ASSUME NEW v \in DOMAIN activeUser, NEW i \in GameCenterOf(v)' PROVE i \in GameCenterOf(v)
      <3>1. i \in DOMAIN identities' /\ identities'[i].user = v /\ identities'[i].name \in GameCenter
        BY <2>1 DEF GameCenterOf
      <3>2. CASE i # k
        BY <1>6, <3>1, <3>2 DEF GameCenterOf
      <3>3. CASE i = k
        <4>1. v = u /\ x.name \in GameCenter
          BY <1>6, <3>1, <3>3
        <4>2. 0 \notin DOMAIN activeUser
          BY DEF AccountsInvariant, AccountsTypeOK
        <4>3. k \in DOMAIN identities /\ u = identities[k].user
          BY <1>5, <2>1, <4>1, <4>2
        <4>4. QED
          BY <1>4, <3>3, <4>1, <4>3 DEF GameCenterOf
      <3>4. QED
        BY <3>2, <3>3
    <2>2. QED
      BY <2>1
  <1>11. \A v \in (DOMAIN activeUser') \ DOMAIN activeUser : GameCenterOf(v)' \subseteq {k}
    <2>1. ASSUME NEW v \in (DOMAIN activeUser') \ DOMAIN activeUser, NEW i \in GameCenterOf(v)'
          PROVE  i = k
      <3>1. i \in DOMAIN identities' /\ identities'[i].user = v
        BY <2>1 DEF GameCenterOf
      <3>2. v # 0
        BY <1>5, <2>1
      <3>3. QED
        BY <1>6, <2>1, <3>1, <3>2 DEF AccountsInvariant
    <2>2. QED
      BY <2>1
  <1>12. ASSUME NEW v \in (DOMAIN activeUser') \ overlapped PROVE \A i, j \in GameCenterOf(v)' : i = j
    <2>1. CASE v \in DOMAIN activeUser
      <3>1. \A i, j \in GameCenterOf(v) : i = j
        BY <1>12, <2>1 DEF AccountsInvariant
      <3>2. QED
        BY <1>10, <2>1, <3>1
    <2>2. CASE v \notin DOMAIN activeUser
      BY <1>11, <1>12, <2>2
    <2>3. QED
      BY <2>1, <2>2
  <1>13. ASSUME NEW s \in AuthRequests \ {r}, doing[s] \in Login
         PROVE  \E y : y = doing[s] /\ LoginKnows(y)'
    <2>1. PICK y : y = doing[s] /\ LoginKnows(y)
      BY <1>13 DEF AccountsInvariant
    <2>2. y.name # x.name /\ y.name \in Names
      BY <1>1, <1>13, <2>1 DEF AccountsInvariant, Login
    <2>3. \A name : name # x.name /\ Named(name) = {} => Named(name)' = {}
      BY <1>6 DEF Named
    <2>4. HashedName # x.name
      BY <1>4, AccountsAssumption
    <2>5. y.identity # 0 => y.identity \in DOMAIN identities /\ y.identity # k
      BY <1>4, <2>1, <2>2, AccountsAssumption DEF LoginKnows
    <2>6. LoginKnows(y)'
      BY <1>6, <2>1, <2>2, <2>3, <2>4, <2>5 DEF LoginKnows
    <2>7. QED
      BY <2>1, <2>6
  <1>14. ASSUME NEW s \in AuthRequests \ {r}, doing[s] \in Link
         PROVE  \E y : y = doing[s] /\ LinkKnows(y)'
    <2>1. PICK y : y = doing[s] /\ LinkKnows(y)
      BY <1>14 DEF AccountsInvariant
    <2>2. y.identity \in DOMAIN identities /\ y.user \in DOMAIN activeUser
          /\ (y.user \notin overlapped /\ identities[y.identity].name \in GameCenter => GameCenterOf(y.user) = {})
      BY <2>1 DEF LinkKnows
    <2>3. identities'[y.identity].name \in GameCenter => identities[y.identity].name \in GameCenter
      BY <1>4, <1>6, <2>2
    <2>4. GameCenterOf(y.user)' \subseteq GameCenterOf(y.user)
      BY <1>10, <2>2
    <2>5. y.identity \in DOMAIN identities' /\ y.user \in DOMAIN activeUser'
      BY <1>5, <1>6, <2>2
    <2>6. LinkKnows(y)'
      BY <1>3, <2>2, <2>3, <2>4, <2>5 DEF LinkKnows
    <2>7. QED
      BY <2>1, <2>6
  <1>15. QED
    BY <1>3, <1>7, <1>8, <1>9, <1>12, <1>13, <1>14, CommitStep

LEMMA AccountsStep ==
    ASSUME AccountsInvariant, [AccountsNext]_accountVars
    PROVE  AccountsInvariant'
  <1>1. CASE UNCHANGED accountVars
    <2>1. UNCHANGED <<identities, activeUser, doing, overlapped>>
      BY <1>1 DEF accountVars
    <2>2. AccountsTypeOK'
      BY <2>1 DEF AccountsInvariant, AccountsTypeOK
    <2>3. QED
      BY <2>1, <2>2, SameIdentities
  <1>2. QED
    BY <1>1, LoginLooksStep, LoginCommitsStep, LinkLooksStep, LinkCommitsStep, DeactivateStep
       DEF AccountsNext

\* However logins and links overlap, a name has one identity, and a user whom no two links
\* were made to at once has one identity of Game Center (authenticate.py:88-160,
\* useridentities.py:170-192).
THEOREM AccountsStaySingle == AccountsSpec => []AccountsAreSingle
  <1>1. AccountsInvariant => AccountsAreSingle
    <2> SUFFICES ASSUME AccountsInvariant PROVE AccountsAreSingle
      OBVIOUS
    <2>1. \A name : Cardinality(Named(name)) <= 1
      BY AtMostOne DEF AccountsInvariant, Named
    <2>2. \A u \in (DOMAIN activeUser) \ overlapped : Cardinality(GameCenterOf(u)) <= 1
      BY AtMostOne DEF AccountsInvariant
    <2>3. QED
      BY <2>1, <2>2 DEF AccountsAreSingle, GameCenterOf
  <1>2. QED
    BY AccountsStart, AccountsStep, <1>1, PTL DEF AccountsSpec

----------------------------------------------------------------------------
(* Bans.                                                                    *)

LEMMA LaterOf ==
    ASSUME NEW a \in Nat, NEW b \in Nat
    PROVE  /\ a <= b => Max({a, b}) = b
           /\ b <= a => Max({a, b}) = a
  <1>1. \A x \in {a, b} : (\A y \in {a, b} : x >= y) => (a <= b => x = b) /\ (b <= a => x = a)
    OBVIOUS
  <1>2. \E x \in {a, b} : \A y \in {a, b} : x >= y
    OBVIOUS
  <1>3. QED
    BY <1>1, <1>2 DEF Max

LEMMA FewerOf ==
    ASSUME NEW a \in Nat, NEW b \in Nat
    PROVE  Min({a, b}) = IF a <= b THEN a ELSE b
  <1>1. \A x \in {a, b} : (\A y \in {a, b} : x =< y) => x = IF a <= b THEN a ELSE b
    OBVIOUS
  <1>2. \E x \in {a, b} : \A y \in {a, b} : x =< y
    OBVIOUS
  <1>3. QED
    BY <1>1, <1>2 DEF Min

\* The more matches, the longer the ban, and its record outlives it.
LEMMA TiersGrow ==
    ASSUME NEW n \in Nat
    PROVE  /\ Tier(n) \in Nat /\ Tier(n + 1) \in Nat
           /\ Tier(n) <= Tier(n + 1)
           /\ Tier(n + 1) < BanExpiry
  <1> DEFINE N == Len(BanTimes)
             k(i) == IF i <= N THEN i ELSE N
  <1>1. N \in Nat /\ N > 0 /\ DOMAIN BanTimes = 1..N /\ BanExpiry \in Nat
        /\ \A i \in 1..N : BanTimes[i] \in Nat /\ BanTimes[i] < BanExpiry
    BY BansAssumption
  <1>2. \A i, l \in 1..N : i <= l => BanTimes[i] <= BanTimes[l]
    BY <1>1, BansAssumption
  <1>3. ASSUME NEW i \in Nat \ {0} PROVE Tier(i) = BanTimes[k(i)] /\ k(i) \in 1..N
    <2>1. Min({i, N}) = k(i)
      BY <1>1, FewerOf
    <2>2. QED
      BY <1>1, <2>1 DEF Tier
  <1>4. Tier(n + 1) = BanTimes[k(n + 1)] /\ k(n + 1) \in 1..N
    BY <1>3
  <1>5. CASE n = 0
    BY <1>1, <1>4, <1>5 DEF Tier
  <1>6. CASE n # 0
    <2>1. Tier(n) = BanTimes[k(n)] /\ k(n) \in 1..N
      BY <1>3, <1>6
    <2>2. k(n) <= k(n + 1)
      BY <1>1
    <2> HIDE DEF k, N
    <2>3. QED
      BY <1>1, <1>2, <1>4, <2>1, <2>2
  <1>7. QED
    BY <1>5, <1>6

\* A full ban lives as long as its record; the record of bans from matches lives longer,
\* and as long as it lives it holds all matches and gives the date that is due.
BansInvariant ==
  /\ BansTypeOK
  /\ fullBan.matches = {} /\ fullBan.until = due.full /\ fullBan.gone = due.full
  /\ fullBan.last <= fullBan.until
  /\ matchBan.until = 0 /\ matchBan.last <= today /\ due.match <= matchBan.gone
  /\ today < matchBan.gone =>
       /\ bannedFrom = matchBan.matches /\ IsFiniteSet(bannedFrom)
       /\ due.match = matchBan.last + Tier(Cardinality(bannedFrom))

LEMMA BansStart == BansInit => BansInvariant
  <1> SUFFICES ASSUME BansInit PROVE BansInvariant
    OBVIOUS
  <1>1. NoBan \in BanInfo
    BY DEF NoBan, BanInfo
  <1>2. BansTypeOK
    BY <1>1, BansAssumption DEF BansInit, BansTypeOK
  <1>3. QED
    BY <1>2 DEF BansInit, BansInvariant, NoBan

LEMMA BansTyped ==
    ASSUME BansTypeOK
    PROVE  /\ today \in Nat /\ due.match \in Nat /\ due.full \in Nat
           /\ matchBan \in BanInfo /\ fullBan \in BanInfo
           /\ matchBan.last \in Nat /\ matchBan.until \in Nat /\ matchBan.gone \in Nat
           /\ fullBan.last \in Nat /\ fullBan.until \in Nat /\ fullBan.gone \in Nat
           /\ DOMAIN due = {"match", "full"}
  <1>1. due \in [{"match", "full"} -> Nat]
    BY DEF BansTypeOK
  <1>2. matchBan \in BanInfo /\ fullBan \in BanInfo /\ today \in Nat
    BY BansAssumption DEF BansTypeOK
  <1>3. due.match \in Nat /\ due.full \in Nat /\ DOMAIN due = {"match", "full"}
    BY <1>1
  <1>4. QED
    BY <1>2, <1>3 DEF BanInfo

LEMMA BanForDurationStep ==
    ASSUME BansInvariant, NEW d \in Durations, BanForDuration(d)
    PROVE  BansInvariant'
  <1>1. PICK ban : ban = [NoBan EXCEPT !.last = today, !.until = today + d, !.gone = today + d]
    OBVIOUS
  <1>2. today \in Nat /\ d \in Nat /\ today + d \in Nat
    BY BansAssumption, BansTyped DEF BansInvariant
  <1>3. PICK n \in Nat : n = today + d
    BY <1>2
  <1>4. ban \in BanInfo /\ ban.matches = {} /\ ban.last = today /\ ban.until = n /\ ban.gone = n
    BY <1>1, <1>2, <1>3 DEF NoBan, BanInfo
  <1>5. fullBan' = ban /\ due' = [due EXCEPT !.full = n] /\ UNCHANGED <<today, matchBan, bannedFrom>>
    BY <1>1, <1>3 DEF BanForDuration
  <1>6. due'.full = n /\ due'.match = due.match /\ due' \in [{"match", "full"} -> Nat]
    BY <1>5 DEF BansInvariant, BansTypeOK
  <1>7. BansTypeOK'
    BY <1>4, <1>5, <1>6 DEF BansInvariant, BansTypeOK
  <1>8. today <= n
    BY <1>2, <1>3
  <1>9. QED
    BY <1>4, <1>5, <1>6, <1>7, <1>8 DEF BansInvariant

LEMMA PassStep ==
    ASSUME BansInvariant, Pass
    PROVE  BansInvariant'
  <1>1. today \in Nat /\ today' = today + 1 /\ today' \in 0..MaxClock /\ matchBan.gone \in Nat /\ matchBan.last \in Nat
    BY BansAssumption, BansTyped DEF BansInvariant, Pass, BansTypeOK
  <1>2. UNCHANGED <<matchBan, fullBan, bannedFrom, due>>
    BY DEF Pass
  <1>3. BansTypeOK'
    BY <1>1, <1>2 DEF BansInvariant, BansTypeOK
  <1>4. (today' < matchBan.gone => today < matchBan.gone) /\ (matchBan.last <= today => matchBan.last <= today')
    BY <1>1
  <1>5. QED
    BY <1>2, <1>3, <1>4 DEF BansInvariant

\* A ban from one more match is due later than the one before.
LEMMA BanFromMatchStep ==
    ASSUME BansInvariant, NEW m \in BanMatches, BanFromMatch(m)
    PROVE  BansInvariant'
  <1>1. /\ today \in Nat /\ due.match \in Nat /\ due.full \in Nat /\ matchBan \in BanInfo
        /\ matchBan.last \in Nat /\ matchBan.gone \in Nat
        /\ BanExpiry \in Nat
    BY BansAssumption, BansTyped DEF BansInvariant
  <1>2. PICK old : old = Stored(matchBan)
    OBVIOUS
  <1>3. m \notin old.matches /\ Remember(m, old) /\ UNCHANGED <<today, fullBan>>
        /\ matchBan' = [old EXCEPT !.matches = @ \cup {m}, !.last = today, !.gone = today + BanExpiry]
    BY <1>2 DEF BanFromMatch
  <1>4. PICK S : S = (IF old = NoBan THEN {} ELSE bannedFrom)
    OBVIOUS
  <1>5. /\ old \in BanInfo /\ old.until = 0 /\ old.matches = S /\ IsFiniteSet(S)
        /\ due.match <= today + Tier(Cardinality(S))
    <2>1. CASE today < matchBan.gone
      <3>1. old = matchBan /\ old # NoBan
        BY <1>1, <1>2, <2>1 DEF Stored, NoBan
      <3>2. S = bannedFrom /\ S = matchBan.matches /\ IsFiniteSet(S)
            /\ due.match = matchBan.last + Tier(Cardinality(S)) /\ matchBan.last <= today
            /\ matchBan.until = 0
        BY <1>4, <2>1, <3>1 DEF BansInvariant
      <3>3. Tier(Cardinality(S)) \in Nat
        BY <3>2, FS_CardinalityType, TiersGrow
      <3>4. due.match <= today + Tier(Cardinality(S))
        BY <1>1, <3>2, <3>3
      <3>5. QED
        BY <1>1, <3>1, <3>2, <3>4
    <2>2. CASE ~(today < matchBan.gone)
      <3>1. old = NoBan
        BY <1>2, <2>2 DEF Stored
      <3>2. S = {} /\ IsFiniteSet(S) /\ Cardinality(S) = 0
        BY <1>4, <3>1, FS_EmptySet
      <3>3. due.match <= today /\ Tier(0) = 0
        BY <1>1, <2>2 DEF BansInvariant, Tier
      <3>4. old \in BanInfo /\ old.until = 0 /\ old.matches = {}
        BY <3>1 DEF NoBan, BanInfo
      <3>5. due.match <= today + Tier(Cardinality(S))
        BY <1>1, <3>2, <3>3
      <3>6. QED
        BY <3>2, <3>4, <3>5
    <2>3. QED
      BY <2>1, <2>2
  <1>6. PICK n \in Nat : n = Cardinality(S)
    BY <1>5, FS_CardinalityType
  <1>7. PICK T : T = S \cup {m}
    OBVIOUS
  <1>8. IsFiniteSet(T) /\ Cardinality(T) = n + 1
    BY <1>3, <1>5, <1>6, <1>7, FS_AddElement
  <1>9. bannedFrom' = T
    BY <1>3, <1>4, <1>7 DEF Remember
  <1>10. PICK date \in Nat : date = today + Tier(n + 1)
    BY <1>1, TiersGrow
  <1>11. due.match <= date /\ date <= today + BanExpiry /\ today + BanExpiry \in Nat
    <2>1. Tier(n) \in Nat /\ Tier(n + 1) \in Nat /\ Tier(n) <= Tier(n + 1) /\ Tier(n + 1) < BanExpiry
      BY TiersGrow
    <2>2. due.match <= today + Tier(n)
      BY <1>5, <1>6
    <2>3. QED
      BY <1>1, <1>10, <2>1, <2>2
  <1>12. due' = [due EXCEPT !.match = date]
    <2>1. due' = [due EXCEPT !.match = Max({due.match, date})]
      BY <1>3, <1>8, <1>9, <1>10 DEF Remember
    <2>2. Max({due.match, date}) = date
      BY <1>1, <1>11, LaterOf
    <2>3. QED
      BY <2>1, <2>2
  <1>13. due'.match = date /\ due'.full = due.full /\ due' \in [{"match", "full"} -> Nat]
    BY <1>12 DEF BansInvariant, BansTypeOK
  <1>14. PICK gone \in Nat : gone = today + BanExpiry
    BY <1>11
  <1>15. PICK start \in Nat : start = today
    BY <1>1
  <1>16. matchBan' = [old EXCEPT !.matches = T, !.last = start, !.gone = gone]
    BY <1>3, <1>5, <1>7, <1>14, <1>15
  <1>17. T \in SUBSET BanMatches
    BY <1>5, <1>7 DEF BanInfo
  <1>18. matchBan' \in BanInfo /\ matchBan'.matches = T /\ matchBan'.last = start
         /\ matchBan'.gone = gone /\ matchBan'.until = 0
    BY <1>5, <1>16, <1>17 DEF BanInfo
  <1>19. BansTypeOK'
    BY <1>3, <1>9, <1>13, <1>17, <1>18 DEF BansInvariant, BansTypeOK
  <1>20. start <= today /\ date <= gone /\ date = start + Tier(Cardinality(T))
    BY <1>8, <1>10, <1>11, <1>14, <1>15
  <1>21. QED
    BY <1>3, <1>8, <1>9, <1>13, <1>18, <1>19, <1>20 DEF BansInvariant

LEMMA BansStep ==
    ASSUME BansInvariant, [BansNext]_banVars
    PROVE  BansInvariant'
  <1>1. CASE UNCHANGED banVars
    BY <1>1 DEF banVars, BansInvariant, BansTypeOK
  <1>2. QED
    BY <1>1, BanFromMatchStep, BanForDurationStep, PassStep DEF BansNext

LEMMA FullBanServed ==
    ASSUME BansInvariant
    PROVE  IsBanned(fullBan) <=> today < due.full
  <1>1. /\ today \in Nat /\ due.full \in Nat /\ fullBan.last \in Nat
        /\ fullBan.matches = {} /\ fullBan.until = due.full /\ fullBan.gone = due.full
        /\ fullBan.last <= due.full
    BY BansTyped DEF BansInvariant
  <1>2. CASE today < due.full
    <2>1. Stored(fullBan) = fullBan /\ fullBan # NoBan
      BY <1>1, <1>2 DEF Stored, NoBan
    <2>2. fullBan.last + Tier(Cardinality(fullBan.matches)) = fullBan.last
      BY <1>1, FS_EmptySet DEF Tier
    <2>3. UnbanDate(fullBan) = due.full
      BY <1>1, <2>2, LaterOf DEF UnbanDate
    <2>4. QED
      BY <1>2, <2>1, <2>3 DEF IsBanned
  <1>3. CASE ~(today < due.full)
    BY <1>1, <1>3 DEF Stored, IsBanned
  <1>4. QED
    BY <1>2, <1>3

LEMMA MatchBanServed ==
    ASSUME BansInvariant
    PROVE  IsBanned(matchBan) <=> today < due.match
  <1>1. /\ today \in Nat /\ due.match \in Nat /\ matchBan.gone \in Nat
        /\ matchBan.until = 0 /\ due.match <= matchBan.gone
    BY BansTyped DEF BansInvariant
  <1>2. CASE today < matchBan.gone
    <2>1. Stored(matchBan) = matchBan /\ matchBan # NoBan
      BY <1>1, <1>2 DEF Stored, NoBan
    <2>2. matchBan.last + Tier(Cardinality(matchBan.matches)) = due.match
      BY <1>2 DEF BansInvariant
    <2>3. UnbanDate(matchBan) = due.match
      BY <1>1, <2>2, LaterOf DEF UnbanDate
    <2>4. QED
      BY <2>1, <2>3 DEF IsBanned
  <1>3. CASE ~(today < matchBan.gone)
    BY <1>1, <1>3 DEF Stored, IsBanned
  <1>4. QED
    BY <1>2, <1>3

\* With tiers that grow and a record that outlives the longest of them, a player is kept
\* out until his last ban from a match and his last ban from all matchmakers are over, and
\* no longer, whenever the records expire (flexmatch.py:280-305 and 917-975).
THEOREM BansAreServedInFull == BansSpec => []BansAreServed
  <1>1. BansInvariant => BansAreServed
    <2> SUFFICES ASSUME BansInvariant PROVE BansAreServed
      OBVIOUS
    <2>1. today \in Nat /\ due.match \in Nat /\ due.full \in Nat
      BY BansTyped DEF BansInvariant
    <2>2. (~(today < due.match) <=> today >= due.match) /\ (~(today < due.full) <=> today >= due.full)
      BY <2>1
    <2>3. QED
      BY <2>2, FullBanServed, MatchBanServed DEF BansAreServed, MayStart
  <1>2. QED
    BY BansStart, BansStep, <1>1, PTL DEF BansSpec

----------------------------------------------------------------------------
(* Summaries.                                                               *)

Asked == UNION {[S -> FieldValues] : S \in SUBSET Fields}
UpdateRow == [step : {"put", "delete", "patch"}, want : Asked, old : SUBSET SummaryRow,
              taken : SUBSET SummaryRow, fresh : BOOLEAN, alone : BOOLEAN]

\* The rows say what was wanted, each name once.
Mends(mended, want) ==
  /\ NamesOf(mended) = DOMAIN want
  /\ \A row \in mended : row.value = want[row.name]
  /\ \A row, other \in mended : row.name = other.name => row = other

Remaining(x) == {row \in summary : row.id \notin IdsOf(x.old \ x.taken)}

\* What a request looked at keeps its ids and names; a PUT that is alone knows what the
\* table holds, and what it will hold once it has deleted the rest.
UpdateKnows(r) ==
  LET x == update[r] IN
  /\ x.step \in {"put", "delete"} => x.want \in Wanted
  /\ \A row \in x.old : row.id <= lastRow
  /\ \A row \in x.old : \A other \in summary : row.id = other.id => row.name = other.name
  /\ x.alone => /\ Busy = {r} /\ x.step \in {"put", "delete"}
                /\ x.step = "put" => x.old = summary
                /\ x.step = "delete" => Mends(Remaining(x), x.want)

RowsAreOrdered == /\ summary \subseteq SummaryRow /\ lastRow \in 0..MaxSummaryRows
                  /\ \A row, other \in summary : row.id = other.id => row = other
                  /\ \A row \in summary : row.id <= lastRow

SummaryInvariant ==
  /\ RowsAreOrdered
  /\ update \in [SummaryRequests -> UpdateRow \cup {NoUpdate}]
  /\ \A r \in Busy : UpdateKnows(r)
  /\ replaced # NoPut => Mends(summary, replaced) /\ IsFiniteSet(DOMAIN replaced)

LEMMA SummaryStart == SummaryInit => SummaryInvariant
  BY SummaryAssumption DEF SummaryInit, SummaryInvariant, RowsAreOrdered, Busy

LEMMA BusyRow ==
    ASSUME SummaryInvariant, NEW r \in Busy
    PROVE  /\ update[r] \in UpdateRow /\ r \in SummaryRequests
           /\ update[r].want \in Asked /\ update[r].old \subseteq SummaryRow
  BY DEF SummaryInvariant, Busy, UpdateRow

LEMMA NotARow == NoUpdate \notin UpdateRow
  BY DEF NoUpdate, UpdateRow

LEMMA AskedValues ==
    ASSUME NEW want \in Asked
    PROVE  DOMAIN want \subseteq Fields /\ \A n \in DOMAIN want : want[n] \in FieldValues
  BY DEF Asked

\* One row for each name makes as many rows as names.
LEMMA AsManyRows ==
    ASSUME NEW mended, NEW want, Mends(mended, want), IsFiniteSet(DOMAIN want)
    PROVE  Cardinality(mended) = Cardinality(DOMAIN want)
  <1> DEFINE f == [row \in mended |-> row.name]
  <1>1. \A n \in DOMAIN want : \E row \in mended : f[row] = n
    BY DEF Mends, NamesOf
  <1>2. f \in [mended -> DOMAIN want]
    BY DEF Mends, NamesOf
  <1>3. f \in Injection(mended, DOMAIN want) /\ f \in Surjection(mended, DOMAIN want)
    BY <1>1, <1>2 DEF Mends, Injection, IsInjective, Surjection
  <1>4. QED
    BY <1>3, FS_Injection

\* A commit keeps the ids and the names of the rows, gives values, and adds rows.
StoredRows(ids, names, want) ==
  /\ lastRow' \in Nat /\ lastRow <= lastRow'
  /\ \A row \in summary' :
       \/ \E o \in summary : /\ row.id = o.id /\ row.name = o.name
                             /\ row.value = IF o.id \in ids THEN want[o.name] ELSE o.value
       \/ row.id > lastRow /\ row.name \in names /\ row.value = want[row.name]
  /\ \A o \in summary : \E row \in summary' : row.id = o.id /\ row.name = o.name
  /\ \A n \in names : \E row \in summary' : row.id > lastRow /\ row.name = n
  /\ \A row, other \in summary' : row.id > lastRow /\ other.id > lastRow /\ row.name = other.name => row = other

\* The row that one becomes.
LEMMA EditedRow ==
    ASSUME NEW row \in SummaryRow, NEW v \in FieldValues, NEW y, y = [row EXCEPT !.value = v]
    PROVE  y \in SummaryRow /\ y.id = row.id /\ y.name = row.name /\ y.value = v
  BY DEF SummaryRow

LEMMA SameRow ==
    ASSUME NEW row \in SummaryRow, NEW other \in SummaryRow,
           row.id = other.id, row.name = other.name, row.value = other.value
    PROVE  row = other
  BY DEF SummaryRow

LEMMA NewRow ==
    ASSUME NEW i \in 1..MaxSummaryRows, NEW n \in Fields, NEW v \in FieldValues,
           NEW y, y = [id |-> i, name |-> n, value |-> v]
    PROVE  y \in SummaryRow /\ y.id = i /\ y.name = n /\ y.value = v
  BY DEF SummaryRow

LEMMA StoreKeepsRows ==
    ASSUME RowsAreOrdered, NEW ids, NEW names \in SUBSET Fields, IsFiniteSet(names),
           NEW want, Store(ids, names, want),
           \A n \in names : want[n] \in FieldValues,
           \A row \in summary : row.id \in ids => want[row.name] \in FieldValues
    PROVE  RowsAreOrdered' /\ StoredRows(ids, names, want)
  <1>1. PICK k \in Nat : k = Cardinality(names)
    BY FS_CardinalityType
  <1>2. /\ lastRow \in Nat /\ lastRow' = lastRow + k /\ lastRow' <= MaxSummaryRows
        /\ MaxSummaryRows \in Nat /\ summary \subseteq SummaryRow
    BY <1>1, SummaryAssumption DEF Store, RowsAreOrdered
  <1>3. PICK order \in [names -> lastRow + 1 .. lastRow'] :
          /\ \A n, o \in names : order[n] = order[o] => n = o
          /\ summary' = {IF row.id \in ids THEN [row EXCEPT !.value = want[row.name]] ELSE row :
                           row \in summary}
                        \cup {[id |-> order[n], name |-> n, value |-> want[n]] : n \in names}
    BY DEF Store
  <1> DEFINE edit(row) == IF row.id \in ids THEN [row EXCEPT !.value = want[row.name]] ELSE row
             new(n) == [id |-> order[n], name |-> n, value |-> want[n]]
  <1>4. ASSUME NEW o \in summary
        PROVE  /\ edit(o) \in SummaryRow /\ edit(o).id = o.id /\ edit(o).name = o.name
               /\ edit(o).value = IF o.id \in ids THEN want[o.name] ELSE o.value
    <2>1. PICK v : v = want[o.name]
      OBVIOUS
    <2>2. CASE o.id \in ids
      <3>1. PICK y : y = [o EXCEPT !.value = v]
        OBVIOUS
      <3>2. y \in SummaryRow /\ y.id = o.id /\ y.name = o.name /\ y.value = v
        BY <1>2, <2>1, <2>2, <3>1, EditedRow
      <3>3. edit(o) = y
        BY <2>1, <2>2, <3>1
      <3> HIDE DEF edit
      <3>4. QED
        BY <2>1, <2>2, <3>2, <3>3
    <2>3. CASE o.id \notin ids
      BY <1>2, <2>3
    <2>4. QED
      BY <2>2, <2>3
  <1>5. ASSUME NEW n \in names
        PROVE  /\ new(n) \in SummaryRow /\ new(n).id = order[n] /\ new(n).name = n /\ new(n).value = want[n]
               /\ new(n).id > lastRow /\ new(n).id <= lastRow'
    <2>1. PICK i : i = order[n]
      OBVIOUS
    <2>2. i \in lastRow + 1 .. lastRow'
      BY <2>1
    <2>3. i \in 1..MaxSummaryRows /\ i > lastRow /\ i <= lastRow'
      BY <1>1, <1>2, <2>2
    <2>4. PICK y : y = [id |-> i, name |-> n, value |-> want[n]]
      OBVIOUS
    <2>5. y \in SummaryRow /\ y.id = i /\ y.name = n /\ y.value = want[n]
      BY <2>3, <2>4, NewRow
    <2>6. new(n) = y
      BY <2>1, <2>4
    <2> HIDE DEF new
    <2>7. QED
      BY <2>1, <2>3, <2>5, <2>6
  <1>6. summary' = {edit(o) : o \in summary} \cup {new(n) : n \in names}
    BY <1>3
  <1>7. \A o \in summary : o.id \in Nat /\ o.id <= lastRow
    BY SummaryAssumption DEF RowsAreOrdered, SummaryRow
  <1> HIDE DEF edit, new
  <1>8. summary' \subseteq SummaryRow
    BY <1>4, <1>5, <1>6
  <1>9. \A row \in summary' :
          \/ \E o \in summary : row = edit(o)
          \/ \E n \in names : row = new(n)
    BY <1>6
  <1>10. ASSUME NEW row \in summary', NEW other \in summary', row.id = other.id PROVE row = other
    <2>1. CASE \E o \in summary : row = edit(o)
      <3>1. PICK o \in summary : row = edit(o)
        BY <2>1
      <3>2. row.id = o.id /\ ~(row.id > lastRow)
        BY <1>2, <1>4, <1>7, <3>1
      <3>3. ~\E n \in names : other = new(n)
        BY <1>5, <1>10, <3>2
      <3>4. PICK p \in summary : other = edit(p)
        BY <1>9, <3>3
      <3>5. other.id = p.id
        BY <1>4, <3>4
      <3>6. o = p
        BY <1>10, <3>2, <3>5 DEF RowsAreOrdered
      <3>7. QED
        BY <3>1, <3>4, <3>6
    <2>2. CASE \E n \in names : row = new(n)
      <3>1. PICK n \in names : row = new(n)
        BY <2>2
      <3>2. row.id = order[n] /\ row.id > lastRow
        BY <1>5, <3>1
      <3>3. ASSUME NEW o \in summary, other = edit(o) PROVE FALSE
        <4>1. other.id = o.id /\ o.id \in Nat /\ o.id <= lastRow
          BY <1>4, <1>7, <3>3
        <4>2. o.id > lastRow
          BY <1>10, <3>2, <4>1
        <4>3. QED
          BY <1>2, <4>1, <4>2
      <3>4. PICK m \in names : other = new(m)
        BY <1>9, <3>3
      <3>5. other.id = order[m]
        BY <1>5, <3>4
      <3>6. n = m
        BY <1>3, <1>10, <3>2, <3>5
      <3>7. QED
        BY <3>1, <3>4, <3>6
    <2>3. QED
      BY <1>9, <2>1, <2>2
  <1>11. \A row \in summary' : row.id <= lastRow'
    BY <1>1, <1>2, <1>4, <1>5, <1>7, <1>9
  <1>12. RowsAreOrdered'
    BY <1>1, <1>2, <1>8, <1>10, <1>11 DEF RowsAreOrdered
  <1>13. ASSUME NEW row \in summary', NEW other \in summary', row.id > lastRow, other.id > lastRow,
                row.name = other.name
         PROVE  row = other
    <2>1. ~(\E o \in summary : row = edit(o)) /\ ~(\E o \in summary : other = edit(o))
      BY <1>2, <1>4, <1>7, <1>13
    <2>2. PICK n \in names, m \in names : row = new(n) /\ other = new(m)
      BY <1>9, <2>1
    <2>3. n = m
      BY <1>5, <1>13, <2>2
    <2>4. QED
      BY <2>2, <2>3
  <1>14. \A row \in summary' :
       \/ \E o \in summary : /\ row.id = o.id /\ row.name = o.name
                             /\ row.value = IF o.id \in ids THEN want[o.name] ELSE o.value
       \/ row.id > lastRow /\ row.name \in names /\ row.value = want[row.name]
    BY <1>4, <1>5, <1>9
  <1>15. \A o \in summary : \E row \in summary' : row.id = o.id /\ row.name = o.name
    BY <1>4, <1>6
  <1>16. \A n \in names : \E row \in summary' : row.id > lastRow /\ row.name = n
    BY <1>5, <1>6
  <1>17. lastRow' \in Nat /\ lastRow <= lastRow'
    BY <1>1, <1>2
  <1>18. QED
    BY <1>12, <1>13, <1>14, <1>15, <1>16, <1>17 DEF StoredRows

\* A commit of request r, after which the others know what they knew.
LEMMA OthersKnowRows ==
    ASSUME SummaryInvariant, NEW r \in Busy, NEW s \in Busy \ {r}, update'[s] = update[s],
           NEW ids, NEW names, NEW want, StoredRows(ids, names, want)
    PROVE  UpdateKnows(s)'
  <1>1. PICK x : x = update[s]
    OBVIOUS
  <1>2. /\ x.step \in {"put", "delete"} => x.want \in Wanted
        /\ \A row \in x.old : row.id <= lastRow
        /\ \A row \in x.old : \A other \in summary : row.id = other.id => row.name = other.name
        /\ x.alone => Busy = {s}
    BY <1>1 DEF SummaryInvariant, UpdateKnows
  <1>3. ~x.alone
    BY <1>2
  <1>4. \A row \in x.old : row.id \in Nat
    BY <1>1, BusyRow, SummaryAssumption DEF SummaryRow
  <1>5. lastRow \in Nat /\ lastRow' \in Nat /\ lastRow <= lastRow'
    BY SummaryAssumption DEF StoredRows, SummaryInvariant, RowsAreOrdered
  <1>6. \A row \in x.old : row.id <= lastRow'
    BY <1>2, <1>4, <1>5
  <1>7. ASSUME NEW row \in x.old, NEW other \in summary', row.id = other.id PROVE row.name = other.name
    <2>1. ~(other.id > lastRow)
      BY <1>2, <1>4, <1>5, <1>7
    <2>2. PICK o \in summary : other.id = o.id /\ other.name = o.name
      BY <2>1 DEF StoredRows
    <2>3. QED
      BY <1>2, <1>7, <2>2
  <1>8. QED
    BY <1>1, <1>2, <1>3, <1>6, <1>7 DEF UpdateKnows

\* Who is busy after a step.
LEMMA StillBusy ==
    ASSUME SummaryInvariant, NEW r \in Busy, NEW y \in UpdateRow, update' = [update EXCEPT ![r] = y]
    PROVE  /\ update' \in [SummaryRequests -> UpdateRow \cup {NoUpdate}] /\ Busy' = Busy
           /\ update'[r] = y /\ \A s \in SummaryRequests \ {r} : update'[s] = update[s]
  <1>1. update \in [SummaryRequests -> UpdateRow \cup {NoUpdate}] /\ r \in SummaryRequests
    BY DEF SummaryInvariant, Busy
  <1>2. QED
    BY <1>1, NotARow DEF Busy

LEMMA NotBusy ==
    ASSUME SummaryInvariant, NEW r \in Busy, Ends(r)
    PROVE  /\ update' \in [SummaryRequests -> UpdateRow \cup {NoUpdate}] /\ Busy' = Busy \ {r}
           /\ \A s \in SummaryRequests \ {r} : update'[s] = update[s]
  <1>1. update \in [SummaryRequests -> UpdateRow \cup {NoUpdate}] /\ r \in SummaryRequests
    BY DEF SummaryInvariant, Busy
  <1>2. QED
    BY <1>1 DEF Busy, Ends

LEMMA SummaryLooksStep ==
    ASSUME SummaryInvariant, NEW r \in SummaryRequests, NEW step \in {"put", "patch"}, NEW want \in Wanted,
           SummaryLooks(r, step, want)
    PROVE  SummaryInvariant'
  <1>1. r \notin Busy /\ UNCHANGED <<summary, lastRow, replaced>>
    BY DEF SummaryLooks
  <1>2. PICK lone : lone = (step = "put" /\ Busy = {})
    OBVIOUS
  <1>3. PICK x : x = [step |-> step, want |-> want, old |-> summary, taken |-> {},
                      fresh |-> TRUE, alone |-> lone]
    OBVIOUS
  <1>4. update' = [q \in SummaryRequests |->
                     IF q = r THEN x
                     ELSE IF q \in Busy THEN [update[q] EXCEPT !.alone = FALSE] ELSE NoUpdate]
    BY <1>2, <1>3 DEF SummaryLooks
  <1>5. want \in Asked
    BY SummaryAssumption DEF Asked
  <1>6. /\ x \in UpdateRow /\ x.step = step /\ x.want = want /\ x.old = summary
        /\ x.alone <=> (step = "put" /\ Busy = {})
    BY <1>2, <1>3, <1>5 DEF UpdateRow, SummaryInvariant, RowsAreOrdered
  <1>7. ASSUME NEW q \in Busy
        PROVE  /\ update'[q] \in UpdateRow /\ update'[q].step = update[q].step
               /\ update'[q].want = update[q].want /\ update'[q].old = update[q].old
               /\ update'[q].alone = FALSE
    <2>1. update'[q] = [update[q] EXCEPT !.alone = FALSE] /\ update[q] \in UpdateRow
      BY <1>1, <1>4, BusyRow
    <2>2. QED
      BY <2>1 DEF UpdateRow
  <1>8. update'[r] = x /\ \A q \in SummaryRequests \ (Busy \cup {r}) : update'[q] = NoUpdate
    BY <1>4
  <1>9. update' \in [SummaryRequests -> UpdateRow \cup {NoUpdate}]
    <2>1. \A q \in SummaryRequests : update'[q] \in UpdateRow \cup {NoUpdate}
      BY <1>6, <1>7, <1>8
    <2>2. update' = [q \in SummaryRequests |-> update'[q]]
      BY <1>4
    <2>3. QED
      BY <2>1, <2>2
  <1>10. Busy' = Busy \cup {r}
    BY <1>6, <1>7, <1>8, NotARow DEF Busy
  <1>11. ASSUME NEW q \in Busy PROVE UpdateKnows(q)'
    <2>1. PICK y, z : y = update[q] /\ z = update'[q]
      OBVIOUS
    <2>2. /\ y.step \in {"put", "delete"} => y.want \in Wanted
          /\ \A row \in y.old : row.id <= lastRow
          /\ \A row \in y.old : \A other \in summary : row.id = other.id => row.name = other.name
      BY <2>1 DEF SummaryInvariant, UpdateKnows
    <2>3. z.step = y.step /\ z.want = y.want /\ z.old = y.old /\ z.alone = FALSE
      BY <1>7, <2>1
    <2>4. QED
      BY <1>1, <2>1, <2>2, <2>3 DEF UpdateKnows
  <1>12. UpdateKnows(r)'
    BY <1>1, <1>6, <1>8, <1>10 DEF SummaryInvariant, RowsAreOrdered, UpdateKnows
  <1>13. RowsAreOrdered'
    BY <1>1 DEF SummaryInvariant, RowsAreOrdered
  <1>14. QED
    BY <1>1, <1>9, <1>10, <1>11, <1>12, <1>13 DEF SummaryInvariant

\* The other requests when one ends and leaves the rows, or some of them.
LEMMA EndsStep ==
    ASSUME SummaryInvariant, NEW r \in Busy, Ends(r), summary' \subseteq summary, UNCHANGED lastRow,
           replaced' # NoPut => Mends(summary', replaced') /\ IsFiniteSet(DOMAIN replaced')
    PROVE  SummaryInvariant'
  <1>1. /\ update' \in [SummaryRequests -> UpdateRow \cup {NoUpdate}] /\ Busy' = Busy \ {r}
        /\ \A s \in SummaryRequests \ {r} : update'[s] = update[s]
    BY NotBusy
  <1>2. ASSUME NEW s \in Busy' PROVE UpdateKnows(s)'
    <2>1. PICK x : x = update[s]
      OBVIOUS
    <2>2. s \in Busy /\ s # r /\ update'[s] = x
      BY <1>1, <2>1 DEF Busy
    <2>3. /\ x.step \in {"put", "delete"} => x.want \in Wanted
          /\ \A row \in x.old : row.id <= lastRow
          /\ \A row \in x.old : \A other \in summary : row.id = other.id => row.name = other.name
          /\ x.alone => Busy = {s}
      BY <2>1, <2>2 DEF SummaryInvariant, UpdateKnows
    <2>4. ~x.alone
      BY <2>2, <2>3
    <2>5. QED
      BY <2>2, <2>3, <2>4 DEF UpdateKnows
  <1>3. RowsAreOrdered'
    BY DEF SummaryInvariant, RowsAreOrdered
  <1>4. (replaced # NoPut => Mends(summary, replaced) /\ IsFiniteSet(DOMAIN replaced))'
    OBVIOUS
  <1>5. QED
    BY <1>1, <1>2, <1>3, <1>4 DEF SummaryInvariant

LEMMA SummaryFailsStep ==
    ASSUME SummaryInvariant, NEW r \in SummaryRequests, SummaryFails(r)
    PROVE  SummaryInvariant'
  <1>1. r \in Busy /\ Ends(r) /\ UNCHANGED <<summary, lastRow, replaced>>
    BY DEF SummaryFails
  <1>2. replaced' # NoPut => Mends(summary', replaced') /\ IsFiniteSet(DOMAIN replaced')
    BY <1>1 DEF SummaryInvariant
  <1>3. QED
    BY <1>1, <1>2, EndsStep

LEMMA PutDeletesStep ==
    ASSUME SummaryInvariant, NEW r \in SummaryRequests, PutDeletes(r)
    PROVE  SummaryInvariant'
  <1>1. PICK x : x = update[r]
    OBVIOUS
  <1>2. /\ r \in Busy /\ x.step = "delete" /\ Ends(r) /\ UNCHANGED lastRow
        /\ summary' = {row \in summary : row.id \notin IdsOf(x.old \ x.taken)}
        /\ replaced' = IF x.alone THEN x.want ELSE NoPut
    BY <1>1 DEF PutDeletes
  <1>3. x.want \in Wanted /\ (x.alone => Mends(summary', x.want))
    BY <1>1, <1>2 DEF SummaryInvariant, UpdateKnows, Remaining
  <1>4. replaced' # NoPut => Mends(summary', replaced') /\ IsFiniteSet(DOMAIN replaced')
    BY <1>2, <1>3, SummaryAssumption
  <1>5. summary' \subseteq summary
    BY <1>2
  <1>6. QED
    BY <1>2, <1>4, <1>5, EndsStep

\* What a PUT leaves once it has deleted the rest, if it saw the table as it is.
LEMMA SavedMends ==
    ASSUME RowsAreOrdered, RowsAreOrdered', NEW want \in Wanted, NEW taken \in Picks(summary, want),
           NEW changed, changed = {row \in taken : row.value # want[row.name]},
           StoredRows(IdsOf(changed), DOMAIN want \ NamesOf(summary), want),
           NEW rest, rest = {row \in summary' : row.id \notin IdsOf(summary \ taken)}
    PROVE  Mends(rest, want)
  <1> DEFINE names == DOMAIN want \ NamesOf(summary)
             old == summary
  <1>1. /\ taken \subseteq old /\ \A row \in taken : row.name \in DOMAIN want
        /\ NamesOf(taken) = NamesOf(old) \cap DOMAIN want
        /\ \A row, other \in taken : row.name = other.name => row = other
    BY DEF Picks
  <1>2. /\ lastRow \in Nat /\ \A row \in old : row.id \in Nat /\ row.id <= lastRow
        /\ \A row, other \in old : row.id = other.id => row = other
    BY SummaryAssumption DEF RowsAreOrdered, SummaryRow
  <1>3. \A row, other \in summary' : row.id = other.id => row = other
    BY DEF RowsAreOrdered
  <1>4. \A row : row.id > lastRow => row.id \notin IdsOf(old)
    BY <1>2 DEF IdsOf
  <1>5. ASSUME NEW row \in rest
        PROVE  \/ \E o \in taken : row.id = o.id /\ row.name = o.name /\ row.value = want[o.name]
               \/ row.id > lastRow /\ row.name \in names /\ row.value = want[row.name]
    <2>1. CASE row.id > lastRow /\ row.name \in names /\ row.value = want[row.name]
      BY <2>1
    <2>2. CASE \E o \in old : /\ row.id = o.id /\ row.name = o.name
                              /\ row.value = IF o.id \in IdsOf(changed) THEN want[o.name] ELSE o.value
      <3>1. PICK o \in old : /\ row.id = o.id /\ row.name = o.name
                             /\ row.value = IF o.id \in IdsOf(changed) THEN want[o.name] ELSE o.value
        BY <2>2
      <3>2. o \in taken
        BY <1>5, <3>1 DEF IdsOf
      <3>3. o \in changed => o.id \in IdsOf(changed)
        BY DEF IdsOf
      <3>4. o \notin changed => o.value = want[o.name]
        BY <3>2
      <3>5. QED
        BY <3>1, <3>2, <3>3, <3>4
    <2>3. QED
      BY <1>5, <2>1, <2>2 DEF StoredRows
  <1>6. \A row \in rest : row.value = want[row.name] /\ row.name \in DOMAIN want
    BY <1>1, <1>5
  <1>7. ASSUME NEW n \in DOMAIN want PROVE \E row \in rest : row.name = n
    <2>1. CASE n \in NamesOf(old)
      <3>1. PICK o \in taken : o.name = n
        BY <1>1, <2>1 DEF NamesOf
      <3>2. PICK row \in summary' : row.id = o.id /\ row.name = o.name
        BY <1>1, <3>1 DEF StoredRows
      <3>3. o.id \notin IdsOf(old \ taken)
        BY <1>1, <1>2, <3>1 DEF IdsOf
      <3>4. QED
        BY <3>1, <3>2, <3>3
    <2>2. CASE n \notin NamesOf(old)
      <3>1. PICK row \in summary' : row.id > lastRow /\ row.name = n
        BY <2>2 DEF StoredRows
      <3>2. row.id \notin IdsOf(old \ taken)
        BY <1>4, <3>1 DEF IdsOf
      <3>3. QED
        BY <3>1, <3>2
    <2>3. QED
      BY <2>1, <2>2
  <1>8. ASSUME NEW row \in rest, NEW other \in rest, row.name = other.name PROVE row = other
    <2>1. CASE row.name \in names
      <3>1. ~\E o \in taken : row.name = o.name
        BY <1>1, <2>1 DEF NamesOf
      <3>2. row.id > lastRow /\ other.id > lastRow
        BY <1>5, <1>8, <3>1
      <3>3. QED
        BY <1>8, <3>2 DEF StoredRows
    <2>2. CASE row.name \notin names
      <3>1. PICK o \in taken, p \in taken : /\ row.id = o.id /\ row.name = o.name
                                            /\ other.id = p.id /\ other.name = p.name
        BY <1>5, <1>8, <2>2
      <3>2. o = p
        BY <1>1, <1>8, <3>1
      <3>3. QED
        BY <1>3, <3>1, <3>2
    <2>3. QED
      BY <2>1, <2>2
  <1>9. NamesOf(rest) = DOMAIN want
    <2>1. \A n : n \in NamesOf(rest) <=> \E row \in rest : row.name = n
      BY DEF NamesOf
    <2>2. \A n : n \in NamesOf(rest) <=> n \in DOMAIN want
      BY <1>6, <1>7, <2>1
    <2>3. QED
      BY <2>2
  <1>10. QED
    BY <1>6, <1>8, <1>9 DEF Mends

LEMMA PutSavesStep ==
    ASSUME SummaryInvariant, NEW r \in SummaryRequests, PutSaves(r)
    PROVE  SummaryInvariant'
  <1>1. PICK x \in UpdateRow : x = update[r]
    BY BusyRow DEF PutSaves
  <1>2. r \in Busy /\ x.step = "put" /\ replaced' = NoPut
    BY <1>1 DEF PutSaves
  <1>3. PICK taken \in Picks(x.old, x.want) :
          \E changed : /\ changed = {row \in taken : row.value # x.want[row.name]}
                       /\ Gone(changed) = {}
                       /\ Store(IdsOf(changed), DOMAIN x.want \ NamesOf(x.old), x.want)
                       /\ update' = [update EXCEPT ![r].step = "delete", ![r].taken = taken]
    BY <1>1 DEF PutSaves
  <1>4. PICK changed : /\ changed = {row \in taken : row.value # x.want[row.name]}
                       /\ Gone(changed) = {}
                       /\ Store(IdsOf(changed), DOMAIN x.want \ NamesOf(x.old), x.want)
                       /\ update' = [update EXCEPT ![r].step = "delete", ![r].taken = taken]
    BY <1>3
  <1>5. PICK y : y = [x EXCEPT !.step = "delete", !.taken = taken]
    OBVIOUS
  <1>6. taken \subseteq x.old /\ \A row \in taken : row.name \in DOMAIN x.want
    BY <1>3 DEF Picks
  <1>7. /\ y \in UpdateRow /\ y.step = "delete" /\ y.taken = taken /\ y.want = x.want /\ y.old = x.old
        /\ y.alone = x.alone
    BY <1>5, <1>6 DEF UpdateRow
  <1>8. update' = [update EXCEPT ![r] = y]
    BY <1>1, <1>4, <1>5
  <1>9. /\ update' \in [SummaryRequests -> UpdateRow \cup {NoUpdate}] /\ Busy' = Busy
        /\ update'[r] = y /\ \A s \in SummaryRequests \ {r} : update'[s] = update[s]
    BY <1>2, <1>7, <1>8, StillBusy
  <1>10. /\ x.want \in Wanted
         /\ \A row \in x.old : row.id <= lastRow
         /\ \A row \in x.old : \A other \in summary : row.id = other.id => row.name = other.name
         /\ x.alone => Busy = {r} /\ x.old = summary
    BY <1>1, <1>2 DEF SummaryInvariant, UpdateKnows
  <1>11. PICK names : names = DOMAIN x.want \ NamesOf(x.old)
    OBVIOUS
  <1>12. /\ names \in SUBSET Fields /\ IsFiniteSet(names)
         /\ \A n \in DOMAIN x.want : x.want[n] \in FieldValues
    <2>1. x.want \in Asked
      BY <1>10, SummaryAssumption DEF Asked
    <2>2. IsFiniteSet(DOMAIN x.want) /\ names \in SUBSET DOMAIN x.want
      BY <1>10, <1>11, SummaryAssumption
    <2>3. IsFiniteSet(names)
      BY <2>2, FS_Subset
    <2>4. QED
      BY <2>1, <2>2, <2>3, AskedValues
  <1>13. \A row \in summary : row.id \in IdsOf(changed) => x.want[row.name] \in FieldValues
    BY <1>4, <1>6, <1>10, <1>12 DEF IdsOf
  <1>14. \A n \in names : x.want[n] \in FieldValues
    BY <1>11, <1>12
  <1>15. PICK ids : ids = IdsOf(changed)
    OBVIOUS
  <1>16. Store(ids, names, x.want) /\ RowsAreOrdered
    BY <1>4, <1>11, <1>15 DEF SummaryInvariant
  <1>17. RowsAreOrdered' /\ StoredRows(ids, names, x.want)
    BY <1>12, <1>13, <1>14, <1>15, <1>16, StoreKeepsRows
  <1>18. \A s \in Busy \ {r} : UpdateKnows(s)'
    BY <1>2, <1>9, <1>17, OthersKnowRows DEF Busy
  <1>19. UpdateKnows(r)'
    <2>1. lastRow \in Nat /\ lastRow' \in Nat /\ lastRow <= lastRow' /\ \A row \in x.old : row.id \in Nat
      BY <1>1, <1>17, SummaryAssumption DEF StoredRows, SummaryInvariant, RowsAreOrdered, UpdateRow, SummaryRow
    <2>2. \A row \in x.old : row.id <= lastRow'
      BY <1>10, <2>1
    <2>3. ASSUME NEW row \in x.old, NEW other \in summary', row.id = other.id PROVE row.name = other.name
      <3>1. ~(other.id > lastRow)
        BY <1>10, <2>1, <2>3
      <3>2. PICK o \in summary : other.id = o.id /\ other.name = o.name
        BY <1>17, <3>1 DEF StoredRows
      <3>3. QED
        BY <1>10, <2>3, <3>2
    <2>4. ASSUME x.alone PROVE Mends(Remaining(y)', x.want)
      <3>1. x.old = summary /\ x.want \in Wanted /\ RowsAreOrdered
        BY <1>10, <2>4 DEF SummaryInvariant
      <3>2. PICK rest : rest = {row \in summary' : row.id \notin IdsOf(summary \ taken)}
        OBVIOUS
      <3>3. taken \in Picks(summary, x.want)
        BY <3>1
      <3>4. StoredRows(IdsOf(changed), DOMAIN x.want \ NamesOf(summary), x.want)
        BY <1>11, <1>15, <1>17, <3>1
      <3>5. Mends(rest, x.want)
        BY <1>4, <1>17, <3>1, <3>2, <3>3, <3>4, SavedMends
      <3>6. Remaining(y)' = rest
        BY <1>7, <3>1, <3>2 DEF Remaining, IdsOf
      <3>7. QED
        BY <3>5, <3>6
    <2>5. QED
      BY <1>7, <1>9, <1>10, <2>2, <2>3, <2>4 DEF UpdateKnows
  <1>20. QED
    BY <1>2, <1>9, <1>17, <1>18, <1>19 DEF SummaryInvariant

\* A commit of a PATCH: one row of the name gets the value, or one is added, or none.
LEMMA PatchStores ==
    ASSUME SummaryInvariant, NEW r \in SummaryRequests, NEW name \in Fields, PatchSaves(r, name)
    PROVE  /\ RowsAreOrdered'
           /\ \E ids, names, want : StoredRows(ids, names, want)
  <1>1. PICK x \in UpdateRow : x = update[r] /\ r \in Busy /\ name \in DOMAIN x.want
    BY BusyRow DEF PatchSaves
  <1>2. /\ \A row \in x.old : \A other \in summary : row.id = other.id => row.name = other.name
        /\ RowsAreOrdered
    BY <1>1 DEF SummaryInvariant, UpdateKnows
  <1>3. PICK met : met = IF x.fresh THEN x.old ELSE {row \in summary : row.id \in IdsOf(x.old)}
    OBVIOUS
  <1>4. \A row \in met : \A other \in summary : row.id = other.id => row.name = other.name
    BY <1>2, <1>3 DEF RowsAreOrdered
  <1>5. x.want[name] \in FieldValues
    BY <1>1, AskedValues DEF UpdateRow
  <1>6. \/ UNCHANGED <<summary, lastRow>>
        \/ \E row \in {o \in met : o.name = name} : Store({row.id}, {}, x.want)
        \/ Store({}, {name}, x.want)
    BY <1>1, <1>3 DEF PatchSaves
  <1>7. CASE UNCHANGED <<summary, lastRow>>
    <2>1. RowsAreOrdered'
      BY <1>2, <1>7 DEF RowsAreOrdered
    <2>2. lastRow \in Nat /\ \A row \in summary : row.id \in Nat /\ row.id <= lastRow
      BY <1>2, SummaryAssumption DEF RowsAreOrdered, SummaryRow
    <2>3. StoredRows({}, {}, x.want)
      BY <1>7, <2>2 DEF StoredRows
    <2>4. QED
      BY <2>1, <2>3
  <1>8. ASSUME NEW row \in {o \in met : o.name = name}, Store({row.id}, {}, x.want)
        PROVE  RowsAreOrdered' /\ \E ids, names, want : StoredRows(ids, names, want)
    <2>1. \A other \in summary : other.id \in {row.id} => x.want[other.name] \in FieldValues
      BY <1>4, <1>5, <1>8
    <2>2. IsFiniteSet({}) /\ {} \in SUBSET Fields
      BY FS_EmptySet
    <2>3. PICK ids : ids = {row.id}
      OBVIOUS
    <2>4. RowsAreOrdered' /\ StoredRows(ids, {}, x.want)
      BY <1>2, <1>8, <2>1, <2>2, <2>3, StoreKeepsRows
    <2>5. QED
      BY <2>4
  <1>9. CASE Store({}, {name}, x.want)
    <2>1. IsFiniteSet({name}) /\ {name} \in SUBSET Fields
      BY FS_Singleton
    <2>2. RowsAreOrdered' /\ StoredRows({}, {name}, x.want)
      BY <1>2, <1>5, <1>9, <2>1, StoreKeepsRows
    <2>3. QED
      BY <2>2
  <1>10. QED
    BY <1>6, <1>7, <1>8, <1>9

LEMMA PatchSavesStep ==
    ASSUME SummaryInvariant, NEW r \in SummaryRequests, NEW name \in Fields, PatchSaves(r, name)
    PROVE  SummaryInvariant'
  <1>1. PICK x \in UpdateRow : x = update[r] /\ r \in Busy /\ x.step = "patch"
    BY BusyRow DEF PatchSaves
  <1>2. PICK ids, names, want : StoredRows(ids, names, want)
    BY PatchStores
  <1>3. RowsAreOrdered' /\ replaced' = NoPut
    BY PatchStores DEF PatchSaves
  <1>4. PICK rest : rest = [n \in DOMAIN x.want \ {name} |-> x.want[n]]
    OBVIOUS
  <1>5. \/ Ends(r)
        \/ update' = [update EXCEPT ![r].want = rest, ![r].fresh = FALSE]
    BY <1>1, <1>4 DEF PatchSaves
  <1>6. CASE Ends(r)
    <2>1. /\ update' \in [SummaryRequests -> UpdateRow \cup {NoUpdate}] /\ Busy' = Busy \ {r}
          /\ \A s \in SummaryRequests \ {r} : update'[s] = update[s]
      BY <1>1, <1>6, NotBusy
    <2>2. \A s \in Busy \ {r} : UpdateKnows(s)'
      BY <1>1, <1>2, <2>1, OthersKnowRows DEF Busy
    <2>3. QED
      BY <1>3, <2>1, <2>2 DEF SummaryInvariant
  <1>7. CASE update' = [update EXCEPT ![r].want = rest, ![r].fresh = FALSE]
    <2>1. PICK y : y = [x EXCEPT !.want = rest, !.fresh = FALSE]
      OBVIOUS
    <2>2. rest \in Asked
      <3>1. DOMAIN rest \subseteq Fields /\ \A n \in DOMAIN rest : rest[n] \in FieldValues
        BY <1>4, AskedValues DEF UpdateRow
      <3>2. rest \in [DOMAIN rest -> FieldValues]
        BY <1>4, <3>1
      <3>3. QED
        BY <3>1, <3>2 DEF Asked
    <2>3. y \in UpdateRow /\ y.step = "patch" /\ y.old = x.old /\ y.alone = x.alone
      BY <1>1, <2>1, <2>2 DEF UpdateRow
    <2>4. update' = [update EXCEPT ![r] = y]
      BY <1>1, <1>7, <2>1
    <2>5. /\ update' \in [SummaryRequests -> UpdateRow \cup {NoUpdate}] /\ Busy' = Busy
          /\ update'[r] = y /\ \A s \in SummaryRequests \ {r} : update'[s] = update[s]
      BY <1>1, <2>3, <2>4, StillBusy
    <2>6. \A s \in Busy \ {r} : UpdateKnows(s)'
      BY <1>1, <1>2, <2>5, OthersKnowRows DEF Busy
    <2>7. UpdateKnows(r)'
      <3>1. /\ \A row \in x.old : row.id <= lastRow
            /\ \A row \in x.old : \A other \in summary : row.id = other.id => row.name = other.name
            /\ ~x.alone
        BY <1>1 DEF SummaryInvariant, UpdateKnows
      <3>2. lastRow \in Nat /\ lastRow' \in Nat /\ lastRow <= lastRow' /\ \A row \in x.old : row.id \in Nat
        BY <1>1, <1>2, SummaryAssumption DEF StoredRows, SummaryInvariant, RowsAreOrdered, UpdateRow, SummaryRow
      <3>3. \A row \in x.old : row.id <= lastRow'
        BY <3>1, <3>2
      <3>4. ASSUME NEW row \in x.old, NEW other \in summary', row.id = other.id PROVE row.name = other.name
        <4>1. ~(other.id > lastRow)
          BY <3>1, <3>2, <3>4
        <4>2. PICK o \in summary : other.id = o.id /\ other.name = o.name
          BY <1>2, <4>1 DEF StoredRows
        <4>3. QED
          BY <3>1, <3>4, <4>2
      <3>5. QED
        BY <2>3, <2>5, <3>1, <3>3, <3>4 DEF UpdateKnows
    <2>8. QED
      BY <1>3, <2>5, <2>6, <2>7 DEF SummaryInvariant
  <1>8. QED
    BY <1>5, <1>6, <1>7

LEMMA SummaryStep ==
    ASSUME SummaryInvariant, [SummaryNext]_summaryVars
    PROVE  SummaryInvariant'
  <1>1. CASE UNCHANGED summaryVars
    BY <1>1 DEF summaryVars, SummaryInvariant, RowsAreOrdered, UpdateKnows, Remaining, Busy
  <1>2. QED
    BY <1>1, SummaryLooksStep, SummaryFailsStep, PutSavesStep, PutDeletesStep, PatchSavesStep
       DEF SummaryNext

\* A PUT that no other request overlapped leaves one row of each name it was given, with
\* its value, and no other, whatever overlapping requests left before (summary.py:63-86).
THEOREM PutsAlwaysMend == SummarySpec => []PutsMend
  <1>1. SummaryInvariant => PutsMend
    <2> SUFFICES ASSUME SummaryInvariant, replaced # NoPut PROVE PutsMend
      BY DEF PutsMend
    <2>1. Mends(summary, replaced) /\ IsFiniteSet(DOMAIN replaced)
      BY DEF SummaryInvariant
    <2>2. Cardinality(summary) = Cardinality(DOMAIN replaced)
      BY <2>1, AsManyRows
    <2>3. {[name |-> row.name, value |-> row.value] : row \in summary} =
          {[name |-> n, value |-> replaced[n]] : n \in DOMAIN replaced}
      BY <2>1 DEF Mends, NamesOf
    <2>4. QED
      BY <2>2, <2>3 DEF PutsMend
  <1>2. QED
    BY SummaryStart, SummaryStep, <1>1, PTL DEF SummarySpec

----------------------------------------------------------------------------
(* Friends.                                                                 *)

\* A request to befriend someone uses an invite of his that was good when it looked, and
\* knows the row of the pair; a request to invite someone knows that no other is pending.
\* Either may be wrong only if another request was about the same pair or invite.
AskKnows(p) ==
  LET x == asks[p] IN
  /\ x.type = "befriend" =>
       /\ x.invite \in DOMAIN invites /\ invites[x.invite].by # p
       /\ x.pair = {p, invites[x.invite].by}
       /\ invites[x.invite].deleted => x.invite \in raced.invites
       /\ x.row # 0 => x.row \in RowsOf(x.pair)
       /\ x.row = 0 /\ x.pair \notin raced.pairs => RowsOf(x.pair) = {}
  /\ x.type = "invite" =>
       /\ x.to # p /\ x.pair = {p, x.to}
       /\ x.to # NoFriend /\ x.pair \notin raced.pairs =>
            \A i \in DOMAIN invites : Between(i) = x.pair => ~IsLive(i)

\* Requests that are about the same are known to be.
Meetings == \A p, q \in Friends : p # q /\ asks[p] # NoAsk /\ asks[q] # NoAsk =>
  /\ asks[p].pair = asks[q].pair => asks[p].pair \in raced.pairs
  /\ asks[p].type = "befriend" /\ asks[q].type = "befriend" /\ asks[p].invite = asks[q].invite =>
       asks[p].invite \in raced.invites

OneRow(pair) == \A k, l \in RowsOf(pair) : k = l
LiveOf(pair) == {i \in DOMAIN invites : Between(i) = pair /\ IsLive(i)}
OneInvite(pair) == \A i, j \in LiveOf(pair) : i = j

FriendsInvariant ==
  /\ FriendsTypeOK
  /\ \A pair \in Pairs \ raced.pairs : OneRow(pair) /\ OneInvite(pair)
  /\ \A p \in Friends : AskKnows(p)
  /\ Meetings

LEMMA FriendsStart == FriendsInit => FriendsInvariant
  <1> SUFFICES ASSUME FriendsInit PROVE FriendsInvariant
    OBVIOUS
  <1>1. rows = <<>> /\ invites = <<>> /\ DOMAIN invites = {} /\ DOMAIN rows = {}
        /\ Len(rows) = 0 /\ Len(invites) = 0
    BY DEF FriendsInit
  <1>2. NoAsk \in FriendAsks /\ NoAsk.type = "none"
    BY DEF NoAsk, FriendAsks
  <1>3. rows \in Seq(FriendshipRow) /\ invites \in Seq(FriendInvite)
    BY <1>1
  <1>4. FriendsTypeOK
    BY <1>1, <1>2, <1>3, FriendsAssumption DEF FriendsInit, FriendsTypeOK
  <1>5. \A p \in Friends : asks[p] = NoAsk
    BY DEF FriendsInit
  <1>6. QED
    BY <1>1, <1>2, <1>4, <1>5 DEF FriendsInvariant, OneRow, OneInvite, LiveOf, RowsOf, AskKnows, Meetings

\* What no step does: take a row or an invite away, change whom it is about, or make an
\* invite good again.
Grows ==
  /\ DOMAIN rows \subseteq DOMAIN rows' /\ \A k \in DOMAIN rows : rows'[k].pair = rows[k].pair
  /\ DOMAIN invites \subseteq DOMAIN invites'
  /\ \A i \in DOMAIN invites : /\ invites'[i].by = invites[i].by /\ invites'[i].to = invites[i].to
                               /\ IsLive(i)' => IsLive(i)
  /\ raced.pairs \subseteq raced.pairs' /\ raced.invites \subseteq raced.invites'

\* A request that is under way still knows what it knew, if the step is not about its
\* pair or invite.
LEMMA AskKnowsStill ==
    ASSUME FriendsInvariant, NEW q \in Friends, Grows, NEW x, x = asks[q], asks'[q] = x,
           x.type = "befriend" /\ x.pair \notin raced'.pairs =>
             \A k \in DOMAIN rows' \ DOMAIN rows : rows'[k].pair # x.pair,
           x.type = "befriend" /\ invites'[x.invite].deleted =>
             invites[x.invite].deleted \/ x.invite \in raced'.invites,
           x.type = "invite" /\ x.pair \notin raced'.pairs =>
             \A i \in DOMAIN invites' \ DOMAIN invites : Between(i)' # x.pair
    PROVE  AskKnows(q)'
  <1>1. AskKnows(q)
    BY DEF FriendsInvariant
  <1>2. \A i \in DOMAIN invites : Between(i)' = Between(i)
    BY DEF Grows, Between
  <1>3. CASE x.type = "befriend"
    <2>1. /\ x.invite \in DOMAIN invites /\ invites[x.invite].by # q
          /\ x.pair = {q, invites[x.invite].by}
          /\ invites[x.invite].deleted => x.invite \in raced.invites
          /\ x.row # 0 => x.row \in RowsOf(x.pair)
          /\ x.row = 0 /\ x.pair \notin raced.pairs => RowsOf(x.pair) = {}
      BY <1>1, <1>3 DEF AskKnows
    <2>2. x.row # 0 => x.row \in RowsOf(x.pair)'
      BY <2>1 DEF Grows, RowsOf
    <2>3. x.row = 0 /\ x.pair \notin raced'.pairs => RowsOf(x.pair)' = {}
      BY <1>3, <2>1 DEF Grows, RowsOf
    <2>4. invites'[x.invite].deleted => x.invite \in raced'.invites
      BY <1>3, <2>1 DEF Grows
    <2>5. QED
      BY <1>3, <2>1, <2>2, <2>3, <2>4 DEF AskKnows, Grows
  <1>4. CASE x.type = "invite"
    <2>1. /\ x.to # q /\ x.pair = {q, x.to}
          /\ x.to # NoFriend /\ x.pair \notin raced.pairs =>
               \A i \in DOMAIN invites : Between(i) = x.pair => ~IsLive(i)
      BY <1>1, <1>4 DEF AskKnows
    <2>2. x.to # NoFriend /\ x.pair \notin raced'.pairs =>
            \A i \in DOMAIN invites' : Between(i)' = x.pair => ~IsLive(i)'
      BY <1>2, <1>4, <2>1 DEF Grows
    <2>3. QED
      BY <1>4, <2>1, <2>2 DEF AskKnows
  <1>5. CASE x.type # "befriend" /\ x.type # "invite"
    BY <1>5 DEF AskKnows
  <1>6. QED
    BY <1>3, <1>4, <1>5

LEMMA AskTypes ==
    ASSUME FriendsTypeOK, NEW p \in Friends
    PROVE  /\ asks[p] \in FriendAsks /\ NoAsk.type = "none" /\ NoAsk \in FriendAsks
           /\ asks[p] # NoAsk <=> asks[p].type \in {"befriend", "invite"}
  BY DEF FriendsTypeOK, FriendAsks, NoAsk

LEMMA FriendsRows ==
    ASSUME FriendsTypeOK
    PROVE  rows \in Seq(FriendshipRow) /\ invites \in Seq(FriendInvite)
  BY DEF FriendsTypeOK

LEMMA FriendsSizes ==
    ASSUME FriendsTypeOK
    PROVE  /\ DOMAIN rows = 1..Len(rows) /\ Len(rows) \in Nat
           /\ DOMAIN invites = 1..Len(invites) /\ Len(invites) \in Nat
           /\ DOMAIN rows \subseteq 1..MaxFriendRows /\ DOMAIN invites \subseteq 1..MaxInvites
           /\ MaxFriendRows \in Nat /\ MaxInvites \in Nat
  <1>1. /\ DOMAIN rows = 1..Len(rows) /\ Len(rows) \in Nat
        /\ DOMAIN invites = 1..Len(invites) /\ Len(invites) \in Nat
    BY DEF FriendsTypeOK
  <1>2. MaxFriendRows \in Nat /\ MaxInvites \in Nat
    BY FriendsAssumption
  <1>3. QED
    BY <1>1, <1>2 DEF FriendsTypeOK

\* The row the code finds is a row of the pair, if there is one.
LEMMA ExistingIsOne ==
    ASSUME FriendsTypeOK, NEW pair
    PROVE  /\ Existing(pair) \in 0..MaxFriendRows
           /\ Existing(pair) # 0 => Existing(pair) \in RowsOf(pair)
           /\ Existing(pair) = 0 => RowsOf(pair) = {}
  <1>1. RowsOf(pair) \subseteq DOMAIN rows /\ RowsOf(pair) \subseteq Nat
        /\ RowsOf(pair) \subseteq 1..MaxFriendRows
    BY FriendsSizes DEF RowsOf
  <1>2. CASE RowsOf(pair) = {}
    BY <1>2, FriendsAssumption DEF Existing
  <1>3. CASE RowsOf(pair) # {}
    <2>1. \E k \in RowsOf(pair) : \A l \in RowsOf(pair) : k <= l
      BY <1>1, <1>3, LeastNatural
    <2>2. Existing(pair) \in RowsOf(pair)
      BY <1>3, <2>1 DEF Existing
    <2>3. Existing(pair) \in 1..MaxFriendRows /\ MaxFriendRows \in Nat
      BY <1>1, <2>2, FriendsSizes
    <2>4. QED
      BY <2>2, <2>3
  <1>4. QED
    BY <1>2, <1>3

AnyPairs == {{p, to} : p \in Friends, to \in Friends \cup {NoFriend}}

LEMMA PairsOfTwo ==
    /\ Pairs \subseteq AnyPairs
    /\ \A p, q \in Friends : p # q => {p, q} \in Pairs
    /\ \A p \in Friends : {p, NoFriend} \notin Pairs
  <1>1. Pairs \subseteq AnyPairs
    BY DEF Pairs, AnyPairs
  <1>2. ASSUME NEW p \in Friends, NEW q \in Friends, p # q PROVE {p, q} \in Pairs
    <2>1. {p, q} \in {{r, t} : r, t \in Friends}
      OBVIOUS
    <2>2. {p, q} \notin {{r} : r \in Friends}
      BY <1>2
    <2>3. QED
      BY <2>1, <2>2 DEF Pairs
  <1>3. ASSUME NEW p \in Friends PROVE {p, NoFriend} \notin Pairs
    BY FriendsAssumption DEF Pairs
  <1>4. QED
    BY <1>1, <1>2, <1>3

LEMMA AskPairs ==
    ASSUME NEW ask \in FriendAsks, ask # NoAsk
    PROVE  ask.pair \in AnyPairs /\ (ask.type = "befriend" => ask.pair \in Pairs
                                      /\ ask.invite \in 1..MaxInvites)
  <1>1. CASE ask \in [type : {"befriend"}, pair : Pairs, invite : 1..MaxInvites,
                      row : 0..MaxFriendRows]
    BY <1>1, PairsOfTwo
  <1>2. CASE ask \in [type : {"invite"}, pair : AnyPairs, to : Friends \cup {NoFriend}]
    BY <1>2
  <1>3. QED
    BY <1>1, <1>2 DEF FriendAsks, AnyPairs

\* A request that starts and knows what it must leaves the invariant as it is.
LEMMA AskStep ==
    ASSUME FriendsInvariant, NEW p \in Friends, NEW ask \in FriendAsks, ask # NoAsk,
           Ask(p, ask), UNCHANGED <<rows, invites>>, AskKnows(p)'
    PROVE  FriendsInvariant'
  <1>1. /\ asks[p] = NoAsk /\ asks' = [asks EXCEPT ![p] = ask] /\ FriendsTypeOK /\ Meetings
        /\ asks \in [Friends -> FriendAsks]
    BY DEF Ask, FriendsInvariant, FriendsTypeOK
  <1>10. raced.pairs \subseteq AnyPairs /\ raced.invites \subseteq 1..MaxInvites
    BY DEF FriendsInvariant, FriendsTypeOK, AnyPairs
  <1>2. /\ raced.pairs \subseteq raced'.pairs /\ raced.invites \subseteq raced'.invites
        /\ raced' = [pairs |-> raced'.pairs, invites |-> raced'.invites]
        /\ raced'.pairs = raced.pairs \cup
                          {asks[q].pair : q \in {o \in Others(p) : asks[o].pair = ask.pair}}
        /\ raced'.invites = raced.invites \cup
             (IF ask.type = "befriend" /\ Using(p, ask.invite) # {} THEN {ask.invite} ELSE {})
    BY DEF Ask
  <1>3. raced'.pairs \in SUBSET AnyPairs /\ raced'.invites \in SUBSET (1..MaxInvites)
    <2>1. \A q \in Others(p) : asks[q].pair \in AnyPairs
      BY <1>1, AskPairs DEF Others
    <2>2. ask.type = "befriend" => ask.invite \in 1..MaxInvites
      BY AskPairs
    <2>3. QED
      BY <1>2, <1>10, <2>1, <2>2
  <1>4. FriendsTypeOK'
    <2>1. asks' \in [Friends -> FriendAsks]
      BY <1>1
    <2>2. raced' \in [pairs : SUBSET AnyPairs, invites : SUBSET (1..MaxInvites)]
      BY <1>2, <1>3
    <2>3. QED
      BY <1>1, <2>1, <2>2 DEF FriendsTypeOK, AnyPairs
  <1>5. \A pair \in Pairs \ raced'.pairs : OneRow(pair)' /\ OneInvite(pair)'
    BY <1>2 DEF FriendsInvariant, OneRow, OneInvite, RowsOf, LiveOf, Between, IsLive
  <1>6. Grows
    BY <1>2 DEF Grows, IsLive
  <1>7. ASSUME NEW q \in Friends PROVE AskKnows(q)'
    <2>1. CASE q = p
      BY <2>1
    <2>2. CASE q # p
      <3>1. asks'[q] = asks[q]
        BY <1>1, <2>2
      <3> PICK x : x = asks[q]
        OBVIOUS
      <3>2. QED
        BY <1>6, <3>1, AskKnowsStill DEF FriendsInvariant
    <2>3. QED
      BY <2>1, <2>2
  <1>8. Meetings'
    <2>1. ASSUME NEW q \in Friends \ {p}, asks[q] # NoAsk
          PROVE  /\ asks[q].pair = ask.pair => ask.pair \in raced'.pairs
                 /\ asks[q].type = "befriend" /\ ask.type = "befriend"
                      /\ asks[q].invite = ask.invite => ask.invite \in raced'.invites
      <3>1. q \in Others(p)
        BY <2>1 DEF Others
      <3>2. QED
        BY <1>2, <3>1 DEF Using
    <2>2. \A q \in Friends : q # p => asks'[q] = asks[q]
      BY <1>1
    <2>3. asks'[p] = ask
      BY <1>1
    <2>4. ASSUME NEW a \in Friends, NEW b \in Friends, a # b,
                 asks'[a] # NoAsk, asks'[b] # NoAsk
          PROVE  /\ asks'[a].pair = asks'[b].pair => asks'[a].pair \in raced'.pairs
                 /\ asks'[a].type = "befriend" /\ asks'[b].type = "befriend"
                      /\ asks'[a].invite = asks'[b].invite => asks'[a].invite \in raced'.invites
      <3>1. CASE a = p
        BY <2>1, <2>2, <2>3, <2>4, <3>1
      <3>2. CASE b = p
        BY <2>1, <2>2, <2>3, <2>4, <3>2
      <3>3. CASE a # p /\ b # p
        BY <1>1, <1>2, <2>2, <2>4, <3>3 DEF Meetings
      <3>4. QED
        BY <3>1, <3>2, <3>3
    <2>5. QED
      BY <2>4 DEF Meetings
  <1>9. QED
    BY <1>4, <1>5, <1>7, <1>8 DEF FriendsInvariant

LEMMA BefriendLooksStep ==
    ASSUME FriendsInvariant, NEW p \in Friends, NEW i \in DOMAIN invites, BefriendLooks(p, i)
    PROVE  FriendsInvariant'
  <1>11. FriendsTypeOK
    BY DEF FriendsInvariant
  <1>1. FriendsTypeOK /\ invites[i] \in FriendInvite /\ i \in 1..MaxInvites
    BY <1>11, FriendsRows, EntryOf, FriendsSizes
  <1> PICK by : by = invites[i].by
    OBVIOUS
  <1> PICK pair : pair = {p, by}
    OBVIOUS
  <1> PICK row : row = Existing(pair)
    OBVIOUS
  <1> DEFINE ask == [type |-> "befriend", pair |-> pair, invite |-> i, row |-> row]
  <1>2. by \in Friends
    BY <1>1 DEF FriendInvite
  <1>3. p # by /\ IsLive(i) /\ Ask(p, ask) /\ UNCHANGED <<rows, invites>>
    BY DEF BefriendLooks
  <1>4. pair \in Pairs
    BY <1>2, <1>3, PairsOfTwo
  <1>5. row \in 0..MaxFriendRows /\ (row # 0 => row \in RowsOf(pair))
        /\ (row = 0 => RowsOf(pair) = {})
    BY <1>1, ExistingIsOne
  <1>6. ask \in FriendAsks /\ ask # NoAsk /\ ask.type = "befriend"
    BY <1>1, <1>4, <1>5 DEF FriendAsks, NoAsk
  <1>7. asks'[p] = ask
    BY <1>1, <1>3 DEF Ask, FriendsTypeOK
  <1>8. RowsOf(pair)' = RowsOf(pair)
    BY <1>3 DEF RowsOf
  <1>9. AskKnows(p)'
    BY <1>3, <1>5, <1>7, <1>8 DEF AskKnows, IsLive
  <1>10. QED
    BY <1>3, <1>6, <1>9, AskStep

LEMMA InviteLooksStep ==
    ASSUME FriendsInvariant, NEW p \in Friends, NEW to \in Friends \cup {NoFriend},
           InviteLooks(p, to)
    PROVE  FriendsInvariant'
  <1> PICK pair : pair = {p, to}
    OBVIOUS
  <1> DEFINE ask == [type |-> "invite", pair |-> pair, to |-> to]
  <1>1. /\ FriendsTypeOK /\ to # p /\ Ask(p, ask) /\ UNCHANGED <<rows, invites>>
        /\ to # NoFriend => MayRequest(pair)
    BY DEF InviteLooks, FriendsInvariant
  <1>2. ask \in FriendAsks /\ ask # NoAsk /\ ask.type = "invite"
    BY DEF FriendAsks, NoAsk
  <1>3. asks'[p] = ask
    BY <1>1 DEF Ask, FriendsTypeOK
  <1>4. to # NoFriend => \A i \in DOMAIN invites' : Between(i)' = pair => ~IsLive(i)'
    BY <1>1 DEF MayRequest, Between, IsLive
  <1>5. AskKnows(p)'
    BY <1>1, <1>3, <1>4 DEF AskKnows
  <1>6. QED
    BY <1>1, <1>2, <1>5, AskStep

\* No request starts: each goes on or is answered.
GoOn == \A q \in Friends : asks'[q] \in {asks[q], NoAsk}

\* A step that adds no row and no invite leaves each pair with one of each.
LEMMA NothingIsAdded ==
    ASSUME FriendsInvariant, Grows, GoOn, FriendsTypeOK',
           DOMAIN rows' = DOMAIN rows, DOMAIN invites' = DOMAIN invites,
           \A q \in Friends : asks'[q] # NoAsk /\ asks[q].type = "befriend" =>
             LET i == asks[q].invite
             IN invites'[i].deleted => invites[i].deleted \/ i \in raced'.invites
    PROVE  FriendsInvariant'
  <1>1. \A i \in DOMAIN invites : Between(i)' = Between(i)
    BY DEF Grows, Between
  <1>2. \A pair : RowsOf(pair)' = RowsOf(pair) /\ LiveOf(pair)' \subseteq LiveOf(pair)
    BY <1>1 DEF Grows, RowsOf, LiveOf
  <1>3. \A pair \in Pairs \ raced'.pairs : OneRow(pair)' /\ OneInvite(pair)'
    BY <1>2 DEF Grows, FriendsInvariant, OneRow, OneInvite
  <1>4. NoAsk.type = "none"
    BY DEF NoAsk
  <1>5. ASSUME NEW q \in Friends PROVE AskKnows(q)'
    <2>1. CASE asks'[q] = NoAsk
      BY <1>4, <2>1 DEF AskKnows
    <2>2. CASE asks'[q] # NoAsk
      <3>1. asks'[q] = asks[q]
        BY <2>2 DEF GoOn
      <3> PICK x : x = asks[q]
        OBVIOUS
      <3>2. x.type = "befriend" /\ invites'[x.invite].deleted =>
              invites[x.invite].deleted \/ x.invite \in raced'.invites
        BY <2>2
      <3>3. DOMAIN rows' \ DOMAIN rows = {} /\ DOMAIN invites' \ DOMAIN invites = {}
        OBVIOUS
      <3>4. QED
        BY <3>1, <3>2, <3>3, AskKnowsStill
    <2>3. QED
      BY <2>1, <2>2
  <1>6. Meetings'
    BY DEF Meetings, GoOn, Grows, FriendsInvariant
  <1>7. QED
    BY <1>3, <1>5, <1>6 DEF FriendsInvariant

LEMMA TypesStay ==
    ASSUME FriendsTypeOK, asks' = asks, rows' \in Seq(FriendshipRow), Len(rows') = Len(rows),
           invites' \in Seq(FriendInvite), Len(invites') = Len(invites),
           raced' \in [pairs : SUBSET AnyPairs, invites : SUBSET (1..MaxInvites)]
    PROVE  FriendsTypeOK'
  <1>1. asks' \in [Friends -> FriendAsks] /\ Len(rows') <= MaxFriendRows
        /\ Len(invites') <= MaxInvites
    BY DEF FriendsTypeOK
  <1>2. QED
    BY <1>1 DEF FriendsTypeOK, AnyPairs

\* One record that changes what the pair of it does not depend on.
LEMMA RowTypes ==
    ASSUME NEW x \in FriendshipRow, NEW b \in BOOLEAN
    PROVE  /\ [x EXCEPT !.active = b] \in FriendshipRow
           /\ [x EXCEPT !.active = b].pair = x.pair
  BY DEF FriendshipRow

LEMMA InviteTypes ==
    ASSUME NEW x \in FriendInvite
    PROVE  /\ [x EXCEPT !.deleted = TRUE] \in FriendInvite
           /\ [x EXCEPT !.expired = TRUE] \in FriendInvite
  BY DEF FriendInvite

\* An invite that is deleted or expires.
LEMMA InvitesEnd ==
    ASSUME FriendsTypeOK, NEW i \in DOMAIN invites, NEW x, x = invites[i], NEW y,
           y = [x EXCEPT !.deleted = TRUE] \/ y = [x EXCEPT !.expired = TRUE],
           invites' = [invites EXCEPT ![i] = y]
    PROVE  /\ invites' \in Seq(FriendInvite) /\ Len(invites') = Len(invites)
           /\ DOMAIN invites' = DOMAIN invites
           /\ \A j \in DOMAIN invites :
                /\ invites'[j].by = invites[j].by /\ invites'[j].to = invites[j].to
                /\ IsLive(j)' => IsLive(j)
                /\ j # i => invites'[j] = invites[j]
  <1>1. invites \in Seq(FriendInvite)
    BY FriendsRows
  <1>2. x \in FriendInvite
    BY <1>1, EntryOf
  <1>3. y \in FriendInvite
    BY <1>2, InviteTypes
  <1>4. y.by = x.by /\ y.to = x.to /\ (~y.deleted /\ ~y.expired => ~x.deleted /\ ~x.expired)
    BY <1>2 DEF FriendInvite
  <1>5. invites' \in [DOMAIN invites -> FriendInvite] /\ DOMAIN invites' = DOMAIN invites
        /\ invites'[i] = y
        /\ \A j \in DOMAIN invites : j # i => invites'[j] = invites[j]
    <2>1. \A j \in DOMAIN invites : invites[j] \in FriendInvite
      BY <1>1, EntryOf
    <2>2. invites = [j \in DOMAIN invites |-> invites[j]]
      BY <1>1
    <2>3. QED
      BY <1>3, <2>1, <2>2
  <1>6. invites' \in Seq(FriendInvite) /\ Len(invites') = Len(invites)
    BY <1>1, <1>5, SameLength
  <1>7. ASSUME NEW j \in DOMAIN invites
        PROVE  /\ invites'[j].by = invites[j].by /\ invites'[j].to = invites[j].to
               /\ IsLive(j)' => IsLive(j)
    <2>1. CASE j = i
      BY <1>4, <1>5, <2>1 DEF IsLive
    <2>2. CASE j # i
      BY <1>5, <2>2 DEF IsLive
    <2>3. QED
      BY <2>1, <2>2
  <1>8. QED
    BY <1>5, <1>6, <1>7

LEMMA DeleteInviteStep ==
    ASSUME FriendsInvariant, NEW p \in Friends, NEW i \in DOMAIN invites, DeleteInvite(p, i)
    PROVE  FriendsInvariant'
  <1>1. FriendsTypeOK /\ asks[p] = NoAsk /\ UNCHANGED <<rows, asks>>
    BY DEF FriendsInvariant, DeleteInvite
  <1> PICK x : x = invites[i]
    OBVIOUS
  <1> PICK y : y = [x EXCEPT !.deleted = TRUE]
    OBVIOUS
  <1>2. invites' = [invites EXCEPT ![i] = y]
    BY DEF DeleteInvite
  <1>3. /\ invites' \in Seq(FriendInvite) /\ Len(invites') = Len(invites)
        /\ DOMAIN invites' = DOMAIN invites
        /\ \A j \in DOMAIN invites :
             /\ invites'[j].by = invites[j].by /\ invites'[j].to = invites[j].to
             /\ IsLive(j)' => IsLive(j)
             /\ j # i => invites'[j] = invites[j]
    BY <1>1, <1>2, InvitesEnd
  <1>4. raced \in [pairs : SUBSET AnyPairs, invites : SUBSET (1..MaxInvites)]
    BY <1>1 DEF FriendsTypeOK, AnyPairs
  <1>5. raced'.pairs = raced.pairs /\ raced.invites \subseteq raced'.invites
        /\ (Using(p, i) # {} => i \in raced'.invites)
        /\ raced' \in [pairs : SUBSET AnyPairs, invites : SUBSET (1..MaxInvites)]
    <2>1. i \in 1..MaxInvites
      BY <1>1, FriendsSizes
    <2>2. raced' = [raced EXCEPT !.invites = IF Using(p, i) = {} THEN @ ELSE @ \cup {i}]
      BY DEF DeleteInvite
    <2>3. CASE Using(p, i) = {}
      BY <1>4, <2>1, <2>2, <2>3
    <2>4. CASE Using(p, i) # {}
      BY <1>4, <2>1, <2>2, <2>4
    <2>5. QED
      BY <2>3, <2>4
  <1>6. FriendsTypeOK'
    <2>1. rows' \in Seq(FriendshipRow) /\ Len(rows') = Len(rows) /\ asks' = asks
      BY <1>1, FriendsRows
    <2>2. QED
      BY <1>1, <1>3, <1>5, <2>1, TypesStay
  <1>7. Grows
    BY <1>1, <1>3, <1>5 DEF Grows
  <1>8. ASSUME NEW q \in Friends, asks'[q] # NoAsk, asks[q].type = "befriend"
        PROVE  LET j == asks[q].invite
               IN invites'[j].deleted => invites[j].deleted \/ j \in raced'.invites
    <2> PICK j : j = asks[q].invite
      OBVIOUS
    <2>1. j \in DOMAIN invites
      BY <1>8 DEF FriendsInvariant, AskKnows
    <2>2. CASE j = i
      <3>1. q \in Using(p, i)
        <4>1. NoAsk.type = "none"
          BY DEF NoAsk
        <4>2. q \in Others(p)
          BY <1>1, <1>8, <4>1 DEF Others
        <4>3. QED
          BY <1>8, <2>2, <4>2 DEF Using
      <3>2. QED
        BY <1>5, <2>2, <3>1
    <2>3. CASE j # i
      BY <1>3, <2>1, <2>3
    <2>4. QED
      BY <2>2, <2>3
  <1>9. GoOn
    BY <1>1 DEF GoOn
  <1>10. DOMAIN rows' = DOMAIN rows
    BY <1>1
  <1>11. QED
    BY <1>1, <1>3, <1>6, <1>7, <1>8, <1>9, <1>10, NothingIsAdded

LEMMA ExpireInviteStep ==
    ASSUME FriendsInvariant, NEW i \in DOMAIN invites, ExpireInvite(i)
    PROVE  FriendsInvariant'
  <1>1. FriendsTypeOK /\ UNCHANGED <<rows, asks, raced>>
    BY DEF FriendsInvariant, ExpireInvite
  <1> PICK x : x = invites[i]
    OBVIOUS
  <1> PICK y : y = [x EXCEPT !.expired = TRUE]
    OBVIOUS
  <1>2. invites' = [invites EXCEPT ![i] = y]
    BY DEF ExpireInvite
  <1>3. /\ invites' \in Seq(FriendInvite) /\ Len(invites') = Len(invites)
        /\ DOMAIN invites' = DOMAIN invites
        /\ \A j \in DOMAIN invites :
             /\ invites'[j].by = invites[j].by /\ invites'[j].to = invites[j].to
             /\ IsLive(j)' => IsLive(j)
             /\ j # i => invites'[j] = invites[j]
    BY <1>1, <1>2, InvitesEnd
  <1>4. raced' \in [pairs : SUBSET AnyPairs, invites : SUBSET (1..MaxInvites)]
    BY <1>1 DEF FriendsTypeOK, AnyPairs
  <1>5. rows' \in Seq(FriendshipRow) /\ Len(rows') = Len(rows) /\ asks' = asks
    BY <1>1, FriendsRows
  <1>6. FriendsTypeOK'
    BY <1>1, <1>3, <1>4, <1>5, TypesStay
  <1>7. Grows /\ GoOn /\ DOMAIN rows' = DOMAIN rows
    BY <1>1, <1>3 DEF Grows, GoOn
  <1>8. \A j \in DOMAIN invites : invites'[j].deleted = invites[j].deleted
    <2>1. invites'[i] = y /\ x \in FriendInvite
      BY <1>1, <1>2, FriendsRows, EntryOf
    <2>2. y.deleted = x.deleted
      BY <2>1 DEF FriendInvite
    <2>3. QED
      BY <1>3, <2>1, <2>2
  <1>9. \A q \in Friends : asks[q].type = "befriend" => asks[q].invite \in DOMAIN invites
    BY DEF FriendsInvariant, AskKnows
  <1>10. QED
    BY <1>3, <1>6, <1>7, <1>8, <1>9, NothingIsAdded

\* A row that is switched on or off.
LEMMA RowsSwitch ==
    ASSUME FriendsTypeOK, NEW k \in DOMAIN rows, NEW x, x = rows[k], NEW b \in BOOLEAN,
           rows' = [rows EXCEPT ![k] = [x EXCEPT !.active = b]]
    PROVE  /\ rows' \in Seq(FriendshipRow) /\ Len(rows') = Len(rows)
           /\ DOMAIN rows' = DOMAIN rows
           /\ \A l \in DOMAIN rows : /\ rows'[l].pair = rows[l].pair
                                     /\ l # k => rows'[l] = rows[l]
           /\ rows'[k].active = b
  <1> PICK y : y = [x EXCEPT !.active = b]
    OBVIOUS
  <1>1. rows \in Seq(FriendshipRow) /\ x \in FriendshipRow
    BY FriendsRows, EntryOf
  <1>2. y \in FriendshipRow /\ y.pair = x.pair /\ y.active = b
    BY <1>1 DEF FriendshipRow
  <1>3. rows' \in [DOMAIN rows -> FriendshipRow] /\ DOMAIN rows' = DOMAIN rows /\ rows'[k] = y
        /\ \A l \in DOMAIN rows : l # k => rows'[l] = rows[l]
    <2>1. \A l \in DOMAIN rows : rows[l] \in FriendshipRow
      BY <1>1, EntryOf
    <2>2. rows = [l \in DOMAIN rows |-> rows[l]]
      BY <1>1
    <2>3. rows' = [rows EXCEPT ![k] = y]
      OBVIOUS
    <2>4. QED
      BY <1>2, <2>1, <2>2, <2>3
  <1>4. rows' \in Seq(FriendshipRow) /\ Len(rows') = Len(rows)
    BY <1>1, <1>3, SameLength
  <1>5. QED
    BY <1>2, <1>3, <1>4

LEMMA UnfriendStep ==
    ASSUME FriendsInvariant, NEW p \in Friends, NEW k \in DOMAIN rows, Unfriend(p, k)
    PROVE  FriendsInvariant'
  <1>1. FriendsTypeOK /\ UNCHANGED <<invites, asks, raced>>
    BY DEF FriendsInvariant, Unfriend
  <1> PICK x : x = rows[k]
    OBVIOUS
  <1>2. rows' = [rows EXCEPT ![k] = [x EXCEPT !.active = FALSE]]
    BY DEF Unfriend
  <1>3. /\ rows' \in Seq(FriendshipRow) /\ Len(rows') = Len(rows)
        /\ DOMAIN rows' = DOMAIN rows
        /\ \A l \in DOMAIN rows : rows'[l].pair = rows[l].pair
    BY <1>1, <1>2, RowsSwitch
  <1>4. raced' \in [pairs : SUBSET AnyPairs, invites : SUBSET (1..MaxInvites)]
        /\ invites' \in Seq(FriendInvite) /\ Len(invites') = Len(invites)
        /\ asks' = asks
    BY <1>1, FriendsRows DEF FriendsTypeOK, AnyPairs
  <1>5. FriendsTypeOK'
    BY <1>1, <1>3, <1>4, TypesStay
  <1>6. Grows /\ GoOn /\ DOMAIN invites' = DOMAIN invites
    BY <1>1, <1>3 DEF Grows, GoOn, IsLive
  <1>7. QED
    BY <1>1, <1>3, <1>5, <1>6, NothingIsAdded

\* An answered request is over.
LEMMA AnsweredGoesOn ==
    ASSUME FriendsTypeOK, NEW p \in Friends, Answered(p)
    PROVE  /\ GoOn /\ asks'[p] = NoAsk /\ raced' = raced
           /\ asks' \in [Friends -> FriendAsks]
           /\ \A q \in Friends : q # p => asks'[q] = asks[q]
           /\ raced' \in [pairs : SUBSET AnyPairs, invites : SUBSET (1..MaxInvites)]
  <1>1. asks \in [Friends -> FriendAsks]
        /\ raced \in [pairs : SUBSET AnyPairs, invites : SUBSET (1..MaxInvites)]
    BY DEF FriendsTypeOK, AnyPairs
  <1>2. asks' = [asks EXCEPT ![p] = NoAsk] /\ raced' = raced
    BY DEF Answered
  <1>3. NoAsk \in FriendAsks
    BY DEF FriendAsks
  <1>4. QED
    BY <1>1, <1>2, <1>3 DEF GoOn

\* A pair another request is about too is known to be.
LEMMA OthersAreKnown ==
    ASSUME FriendsInvariant, NEW p \in Friends, NEW q \in Friends, p # q,
           asks[p].type \in {"befriend", "invite"}, asks[q].type \in {"befriend", "invite"}
    PROVE  /\ asks[p].pair = asks[q].pair => asks[p].pair \in raced.pairs
           /\ asks[p].type = "befriend" /\ asks[q].type = "befriend"
                /\ asks[p].invite = asks[q].invite => asks[p].invite \in raced.invites
  <1>1. NoAsk.type = "none"
    BY DEF NoAsk
  <1>2. asks[p] # NoAsk /\ asks[q] # NoAsk
    BY <1>1
  <1>3. QED
    BY <1>2 DEF FriendsInvariant, Meetings

LEMMA InviteCommitsStep ==
    ASSUME FriendsInvariant, NEW p \in Friends, InviteCommits(p)
    PROVE  FriendsInvariant'
  <1> PICK ask : ask = asks[p]
    OBVIOUS
  <1> PICK to : to = ask.to
    OBVIOUS
  <1> PICK n : n = Len(invites) + 1
    OBVIOUS
  <1> DEFINE invite == [by |-> p, to |-> to, deleted |-> FALSE, expired |-> FALSE]
  <1>1. /\ FriendsTypeOK /\ AskKnows(p) /\ ask.type = "invite" /\ Len(invites) < MaxInvites
        /\ invites' = Append(invites, invite) /\ rows' = rows /\ Answered(p)
    BY DEF FriendsInvariant, InviteCommits
  <1>2. invites \in Seq(FriendInvite) /\ rows \in Seq(FriendshipRow)
    BY <1>1, FriendsRows
  <1>3. to \in Friends \cup {NoFriend}
    BY <1>1 DEF FriendsTypeOK, FriendAsks, NoAsk
  <1>4. invite \in FriendInvite
    BY <1>3 DEF FriendInvite
  <1>5. /\ invites' \in Seq(FriendInvite) /\ Len(invites') = n
        /\ DOMAIN invites' = DOMAIN invites \cup {n} /\ n \notin DOMAIN invites
        /\ invites'[n] = invite /\ \A i \in DOMAIN invites : invites'[i] = invites[i]
    <2> HIDE DEF invite
    <2>1. QED
      BY <1>1, <1>2, <1>4
  <1>6. /\ GoOn /\ asks'[p] = NoAsk /\ raced' = raced
        /\ asks' \in [Friends -> FriendAsks]
        /\ \A q \in Friends : q # p => asks'[q] = asks[q]
        /\ raced' \in [pairs : SUBSET AnyPairs, invites : SUBSET (1..MaxInvites)]
    BY <1>1, AnsweredGoesOn
  <1>7. FriendsTypeOK'
    <2>1. Len(rows') <= MaxFriendRows
      BY <1>1 DEF FriendsTypeOK
    <2>2. Len(invites') <= MaxInvites
      <3>1. Len(invites) \in Nat /\ MaxInvites \in Nat
        BY <1>1, FriendsSizes
      <3>2. QED
        BY <1>1, <1>5, <3>1
    <2>3. raced' \in [pairs : SUBSET {{r, t} : r \in Friends, t \in Friends \cup {NoFriend}},
                      invites : SUBSET (1..MaxInvites)]
      BY <1>6 DEF AnyPairs
    <2>4. rows' \in Seq(FriendshipRow)
      BY <1>1, <1>2
    <2>5. QED
      BY <1>5, <1>6, <2>1, <2>2, <2>3, <2>4 DEF FriendsTypeOK
  <1>8. Grows
    BY <1>1, <1>5, <1>6 DEF Grows, IsLive
  <1>9. ask.pair = {p, to} /\ Between(n)' = ask.pair
        /\ \A i \in DOMAIN invites : Between(i)' = Between(i) /\ (IsLive(i)' <=> IsLive(i))
    <2>1. ask.pair = {p, to}
      BY <1>1 DEF AskKnows
    <2>2. invites'[n].by = p /\ invites'[n].to = to
      BY <1>5
    <2>3. QED
      BY <1>5, <2>1, <2>2 DEF Between, IsLive
  <1>10. ASSUME NEW pair \in Pairs \ raced'.pairs PROVE OneRow(pair)' /\ OneInvite(pair)'
    <2>1. pair \notin raced.pairs /\ OneRow(pair) /\ OneInvite(pair)
      BY <1>6 DEF FriendsInvariant
    <2>2. OneRow(pair)'
      BY <1>1, <2>1 DEF OneRow, RowsOf
    <2>3. CASE pair = ask.pair
      <3>1. to # NoFriend
        BY <1>9, <2>3, PairsOfTwo
      <3>2. LiveOf(pair) = {}
        BY <1>1, <2>1, <2>3, <3>1 DEF AskKnows, LiveOf
      <3>3. LiveOf(pair)' \subseteq {n}
        BY <1>5, <1>9, <3>2 DEF LiveOf
      <3>4. QED
        BY <2>2, <3>3 DEF OneInvite
    <2>4. CASE pair # ask.pair
      <3>1. LiveOf(pair)' \subseteq LiveOf(pair)
        BY <1>5, <1>9, <2>4 DEF LiveOf
      <3>2. QED
        BY <2>1, <2>2, <3>1 DEF OneInvite
    <2>5. QED
      BY <2>3, <2>4
  <1>11. ASSUME NEW q \in Friends PROVE AskKnows(q)'
    <2>1. CASE q = p
      BY <1>6, <2>1 DEF AskKnows, NoAsk
    <2>2. CASE q # p
      <3> PICK x : x = asks[q]
        OBVIOUS
      <3>1. asks'[q] = x
        BY <1>6, <2>2
      <3>2. x.type = "invite" /\ x.pair = ask.pair => x.pair \in raced'.pairs
        BY <1>1, <1>6, <2>2, OthersAreKnown
      <3>3. x.type = "befriend" /\ invites'[x.invite].deleted =>
              invites[x.invite].deleted \/ x.invite \in raced'.invites
        BY <1>5 DEF FriendsInvariant, AskKnows
      <3>4. x.type = "invite" /\ x.pair \notin raced'.pairs =>
              \A i \in DOMAIN invites' \ DOMAIN invites : Between(i)' # x.pair
        BY <1>5, <1>9, <3>2
      <3>5. DOMAIN rows' \ DOMAIN rows = {}
        BY <1>1
      <3>6. QED
        BY <1>8, <3>1, <3>3, <3>4, <3>5, AskKnowsStill
    <2>3. QED
      BY <2>1, <2>2
  <1>12. Meetings'
    BY <1>6 DEF Meetings, GoOn, FriendsInvariant
  <1>13. QED
    BY <1>7, <1>10, <1>11, <1>12 DEF FriendsInvariant

\* What becoming friends does to the invites.
LEMMA ConsumedInvites ==
    ASSUME FriendsTypeOK, NEW i \in DOMAIN invites, invites' = Consumed(i)
    PROVE  /\ invites' \in Seq(FriendInvite) /\ Len(invites') = Len(invites)
           /\ DOMAIN invites' = DOMAIN invites
           /\ \A j \in DOMAIN invites :
                /\ invites'[j].by = invites[j].by /\ invites'[j].to = invites[j].to
                /\ IsLive(j)' => IsLive(j)
                /\ j # i => invites'[j] = invites[j]
           /\ invites[i].to # NoFriend => invites'[i].deleted
  <1> PICK x : x = invites[i]
    OBVIOUS
  <1> PICK y : y = [x EXCEPT !.deleted = TRUE]
    OBVIOUS
  <1>1. CASE x.to # NoFriend
    <2>1. invites' = [invites EXCEPT ![i] = y]
      BY <1>1 DEF Consumed
    <2>2. invites'[i] = y /\ x \in FriendInvite
      BY <2>1, FriendsRows, EntryOf
    <2>3. y.deleted = TRUE
      BY <2>2 DEF FriendInvite
    <2>4. QED
      BY <2>1, <2>2, <2>3, InvitesEnd
  <1>2. CASE x.to = NoFriend
    <2>1. invites' = invites
      BY <1>2 DEF Consumed
    <2>2. QED
      BY <1>2, <2>1, FriendsRows DEF IsLive
  <1>3. QED
    BY <1>1, <1>2

\* What becoming friends does to the rows: the one that is known is switched on, or there
\* is a new one.
LEMMA BefriendedRows ==
    ASSUME FriendsTypeOK, NEW pair \in Pairs, NEW row, Len(rows) < MaxFriendRows,
           row = 0 \/ row \in RowsOf(pair), rows' = Befriended(row, pair)
    PROVE  /\ rows' \in Seq(FriendshipRow) /\ Len(rows') <= MaxFriendRows
           /\ DOMAIN rows \subseteq DOMAIN rows'
           /\ \A k \in DOMAIN rows : rows'[k].pair = rows[k].pair
           /\ \A k \in DOMAIN rows' \ DOMAIN rows : row = 0 /\ rows'[k].pair = pair
           /\ \A k, l \in DOMAIN rows' \ DOMAIN rows : k = l
           /\ \A k \in DOMAIN rows : rows[k].pair # pair => rows'[k] = rows[k]
  <1>1. rows \in Seq(FriendshipRow) /\ Len(rows) \in Nat /\ MaxFriendRows \in Nat
    BY FriendsRows, FriendsSizes
  <1>2. CASE row = 0
    <2> PICK n : n = Len(rows) + 1
      OBVIOUS
    <2> DEFINE new == [pair |-> pair, active |-> TRUE]
    <2>1. rows' = Append(rows, new)
      BY <1>2 DEF Befriended
    <2>2. new \in FriendshipRow /\ new.pair = pair
      BY DEF FriendshipRow
    <2> HIDE DEF new
    <2>3. /\ rows' \in Seq(FriendshipRow) /\ Len(rows') = n
          /\ DOMAIN rows' = DOMAIN rows \cup {n} /\ rows'[n] = new
          /\ \A k \in DOMAIN rows : rows'[k] = rows[k]
      BY <1>1, <2>1, <2>2
    <2>4. Len(rows') <= MaxFriendRows
      BY <1>1, <2>3
    <2>5. QED
      BY <1>2, <2>2, <2>3, <2>4
  <1>3. CASE row # 0
    <2>1. row \in DOMAIN rows /\ rows[row].pair = pair
      BY <1>3 DEF RowsOf
    <2> PICK x : x = rows[row]
      OBVIOUS
    <2>2. rows' = [rows EXCEPT ![row] = [x EXCEPT !.active = TRUE]]
      BY <1>3 DEF Befriended
    <2>3. /\ rows' \in Seq(FriendshipRow) /\ Len(rows') = Len(rows)
          /\ DOMAIN rows' = DOMAIN rows
          /\ \A l \in DOMAIN rows : /\ rows'[l].pair = rows[l].pair
                                    /\ l # row => rows'[l] = rows[l]
      BY <2>1, <2>2, RowsSwitch
    <2>4. Len(rows') <= MaxFriendRows
      BY <2>3 DEF FriendsTypeOK
    <2>5. QED
      BY <2>1, <2>3, <2>4
  <1>4. QED
    BY <1>2, <1>3

\* All that a step of BefriendCommits does.
LEMMA BefriendCommitsDoes ==
    ASSUME FriendsInvariant, NEW p \in Friends, BefriendCommits(p), NEW x, x = asks[p]
    PROVE  /\ x.type = "befriend" /\ x.pair \in Pairs /\ x.invite \in DOMAIN invites
           /\ rows' \in Seq(FriendshipRow) /\ Len(rows') <= MaxFriendRows
           /\ DOMAIN rows \subseteq DOMAIN rows'
           /\ \A k \in DOMAIN rows : rows'[k].pair = rows[k].pair
           /\ \A k \in DOMAIN rows' \ DOMAIN rows : x.row = 0 /\ rows'[k].pair = x.pair
           /\ \A k, l \in DOMAIN rows' \ DOMAIN rows : k = l
           /\ \A k \in DOMAIN rows : rows[k].pair # x.pair => rows'[k] = rows[k]
           /\ invites' \in Seq(FriendInvite) /\ Len(invites') = Len(invites)
           /\ DOMAIN invites' = DOMAIN invites
           /\ \A j \in DOMAIN invites :
                /\ invites'[j].by = invites[j].by /\ invites'[j].to = invites[j].to
                /\ IsLive(j)' => IsLive(j)
                /\ j # x.invite => invites'[j] = invites[j]
           /\ invites[x.invite].to # NoFriend => invites'[x.invite].deleted
  <1>1. /\ FriendsTypeOK /\ AskKnows(p) /\ x.type = "befriend" /\ Len(rows) < MaxFriendRows
        /\ rows' = Befriended(x.row, x.pair) /\ invites' = Consumed(x.invite)
    BY DEF FriendsInvariant, BefriendCommits
  <1>2. x.invite \in DOMAIN invites /\ (x.row = 0 \/ x.row \in RowsOf(x.pair))
    BY <1>1 DEF AskKnows
  <1>3. x.pair \in Pairs
    <2>1. x \in FriendAsks /\ x # NoAsk
      BY <1>1 DEF FriendsTypeOK, NoAsk
    <2>2. QED
      BY <1>1, <2>1, AskPairs
  <1>4. QED
    BY <1>1, <1>2, <1>3, BefriendedRows, ConsumedInvites

LEMMA BefriendCommitsStep ==
    ASSUME FriendsInvariant, NEW p \in Friends, BefriendCommits(p)
    PROVE  FriendsInvariant'
  <1> PICK x : x = asks[p]
    OBVIOUS
  <1>1. /\ x.type = "befriend" /\ x.pair \in Pairs /\ x.invite \in DOMAIN invites
        /\ rows' \in Seq(FriendshipRow) /\ Len(rows') <= MaxFriendRows
        /\ DOMAIN rows \subseteq DOMAIN rows'
        /\ \A k \in DOMAIN rows : rows'[k].pair = rows[k].pair
        /\ \A k \in DOMAIN rows' \ DOMAIN rows : x.row = 0 /\ rows'[k].pair = x.pair
        /\ \A k, l \in DOMAIN rows' \ DOMAIN rows : k = l
    BY BefriendCommitsDoes
  <1>2. /\ invites' \in Seq(FriendInvite) /\ Len(invites') = Len(invites)
        /\ DOMAIN invites' = DOMAIN invites
        /\ \A j \in DOMAIN invites :
             /\ invites'[j].by = invites[j].by /\ invites'[j].to = invites[j].to
             /\ IsLive(j)' => IsLive(j)
             /\ j # x.invite => invites'[j] = invites[j]
    BY BefriendCommitsDoes
  <1>3. FriendsTypeOK /\ Answered(p) /\ AskKnows(p)
    BY DEF FriendsInvariant, BefriendCommits
  <1>4. /\ GoOn /\ asks'[p] = NoAsk /\ raced' = raced
        /\ asks' \in [Friends -> FriendAsks]
        /\ \A q \in Friends : q # p => asks'[q] = asks[q]
        /\ raced' \in [pairs : SUBSET AnyPairs, invites : SUBSET (1..MaxInvites)]
    BY <1>3, AnsweredGoesOn
  <1>5. FriendsTypeOK'
    <2>1. Len(invites') <= MaxInvites
      BY <1>2, <1>3 DEF FriendsTypeOK
    <2>2. raced' \in [pairs : SUBSET {{r, t} : r \in Friends, t \in Friends \cup {NoFriend}},
                      invites : SUBSET (1..MaxInvites)]
      BY <1>4 DEF AnyPairs
    <2>3. QED
      BY <1>1, <1>2, <1>4, <2>1, <2>2 DEF FriendsTypeOK
  <1>6. Grows
    BY <1>1, <1>2, <1>4 DEF Grows
  <1>7. ASSUME NEW pair \in Pairs \ raced'.pairs PROVE OneRow(pair)' /\ OneInvite(pair)'
    <2>1. pair \notin raced.pairs /\ OneRow(pair) /\ OneInvite(pair)
      BY <1>4 DEF FriendsInvariant
    <2>2. LiveOf(pair)' \subseteq LiveOf(pair)
      BY <1>2 DEF LiveOf, Between
    <2>3. RowsOf(pair)' \cap DOMAIN rows = RowsOf(pair)
      BY <1>1 DEF RowsOf
    <2>4. \A k \in RowsOf(pair)' \ DOMAIN rows : k \in DOMAIN rows' \ DOMAIN rows /\ pair = x.pair
      BY <1>1 DEF RowsOf
    <2>5. x.row = 0 /\ pair = x.pair => RowsOf(pair) = {}
      BY <1>1, <1>3, <2>1 DEF AskKnows
    <2>6. OneRow(pair)'
      BY <1>1, <2>1, <2>3, <2>4, <2>5 DEF OneRow
    <2>7. QED
      BY <2>1, <2>2, <2>6 DEF OneInvite
  <1>8. ASSUME NEW q \in Friends PROVE AskKnows(q)'
    <2>1. CASE q = p
      BY <1>4, <2>1 DEF AskKnows, NoAsk
    <2>2. CASE q # p
      <3> PICK y : y = asks[q]
        OBVIOUS
      <3>1. asks'[q] = y
        BY <1>4, <2>2
      <3>2. y.type = "befriend" => /\ y.pair = x.pair => y.pair \in raced'.pairs
                                   /\ y.invite = x.invite => y.invite \in raced'.invites
        BY <1>1, <1>4, <2>2, OthersAreKnown
      <3>3. y.type = "befriend" /\ y.pair \notin raced'.pairs =>
              \A k \in DOMAIN rows' \ DOMAIN rows : rows'[k].pair # y.pair
        BY <1>1, <3>2
      <3>4. y.type = "befriend" => y.invite \in DOMAIN invites
        BY DEF FriendsInvariant, AskKnows
      <3>5. y.type = "befriend" /\ invites'[y.invite].deleted =>
              invites[y.invite].deleted \/ y.invite \in raced'.invites
        BY <1>2, <3>2, <3>4
      <3>6. DOMAIN invites' \ DOMAIN invites = {}
        BY <1>2
      <3>7. QED
        BY <1>6, <3>1, <3>3, <3>5, <3>6, AskKnowsStill
    <2>3. QED
      BY <2>1, <2>2
  <1>9. Meetings'
    BY <1>4 DEF Meetings, GoOn, FriendsInvariant
  <1>10. QED
    BY <1>5, <1>7, <1>8, <1>9 DEF FriendsInvariant

LEMMA FriendsStep == FriendsInvariant /\ [FriendsNext]_friendVars => FriendsInvariant'
  <1> SUFFICES ASSUME FriendsInvariant, [FriendsNext]_friendVars PROVE FriendsInvariant'
    OBVIOUS
  <1>1. CASE UNCHANGED friendVars
    BY <1>1 DEF friendVars, FriendsInvariant, FriendsTypeOK, OneRow, OneInvite, LiveOf, RowsOf,
                Between, IsLive, AskKnows, Meetings
  <1>2. CASE \E p \in Friends : BefriendCommits(p)
    BY <1>2, BefriendCommitsStep
  <1>3. CASE \E p \in Friends : InviteCommits(p)
    BY <1>3, InviteCommitsStep
  <1>4. CASE \E p \in Friends, i \in DOMAIN invites : BefriendLooks(p, i)
    BY <1>4, BefriendLooksStep
  <1>5. CASE \E p \in Friends, i \in DOMAIN invites : DeleteInvite(p, i)
    BY <1>5, DeleteInviteStep
  <1>6. CASE \E p \in Friends, k \in DOMAIN rows : Unfriend(p, k)
    BY <1>6, UnfriendStep
  <1>7. CASE \E p \in Friends, to \in Friends \cup {NoFriend} : InviteLooks(p, to)
    BY <1>7, InviteLooksStep
  <1>8. CASE \E i \in DOMAIN invites : ExpireInvite(i)
    BY <1>8, ExpireInviteStep
  <1>9. QED
    BY <1>1, <1>2, <1>3, <1>4, <1>5, <1>6, <1>7, <1>8 DEF FriendsNext

\* Two players no two requests were about at the same time have one friendship row, however
\* often they fell out and made up, and one friend request under way (friendships.py:116-128
\* and 248-273), for all players and any number of rows and invites.
THEOREM PairsStaySingle == FriendsSpec => []PairsAreSingle
  <1>1. FriendsInvariant => PairsAreSingle
    <2> SUFFICES ASSUME FriendsInvariant, NEW pair \in Pairs \ raced.pairs
                 PROVE  /\ Cardinality(RowsOf(pair)) <= 1
                        /\ Cardinality(LiveOf(pair)) <= 1
      BY DEF PairsAreSingle, LiveOf
    <2>1. OneRow(pair) /\ OneInvite(pair)
      BY DEF FriendsInvariant
    <2>2. QED
      BY <2>1, AtMostOne DEF OneRow, OneInvite
  <1>2. QED
    BY FriendsStart, FriendsStep, <1>1, PTL DEF FriendsSpec

\* What the befriending of p is about was asked for by the one he befriends.
LEMMA WasInvited ==
    ASSUME FriendsInvariant, NEW p \in Friends, BefriendCommits(p), NEW pair, pair = asks[p].pair
    PROVE  /\ p \in pair /\ asks[p].type = "befriend" /\ asks[p].pair = pair
           /\ LET i == asks[p].invite
              IN /\ {invites[i].by} = pair \ {p}
                 /\ invites[i].deleted => i \in raced.invites
                 /\ invites[i].to # NoFriend => invites'[i].deleted
  <1>1. AskKnows(p) /\ asks[p].type = "befriend"
    BY DEF FriendsInvariant, BefriendCommits
  <1> PICK i : i = asks[p].invite
    OBVIOUS
  <1>2. /\ invites[i].by # p /\ pair = {p, invites[i].by}
        /\ invites[i].deleted => i \in raced.invites
    BY <1>1 DEF AskKnows
  <1>3. {invites[i].by} = pair \ {p} /\ p \in pair
    BY <1>2
  <1>4. invites[i].to # NoFriend => invites'[i].deleted
    BY BefriendCommitsDoes
  <1>5. QED
    BY <1>1, <1>2, <1>3, <1>4

LEMMA BecomingFriends ==
    ASSUME FriendsInvariant, FriendsNext, NEW pair \in Pairs, NEW m \in DOMAIN rows',
           rows'[m].pair = pair, rows'[m].active, ~\E k \in RowsOf(pair) : rows[k].active
    PROVE  \E p \in pair :
             /\ asks[p].type = "befriend" /\ asks[p].pair = pair
             /\ LET i == asks[p].invite
                IN /\ {invites[i].by} = pair \ {p}
                   /\ invites[i].deleted => i \in raced.invites
                   /\ invites[i].to # NoFriend => invites'[i].deleted
  <1>1. rows' # rows
    BY DEF RowsOf
  <1>2. ASSUME NEW p \in Friends, NEW k \in DOMAIN rows, Unfriend(p, k) PROVE FALSE
    <2> PICK x : x = rows[k]
      OBVIOUS
    <2>1. FriendsTypeOK /\ rows' = [rows EXCEPT ![k] = [x EXCEPT !.active = FALSE]]
      BY <1>2 DEF Unfriend, FriendsInvariant
    <2>2. /\ DOMAIN rows' = DOMAIN rows /\ rows'[k].active = FALSE
          /\ \A l \in DOMAIN rows : l # k => rows'[l] = rows[l]
      BY <2>1, RowsSwitch
    <2>3. QED
      BY <2>2 DEF RowsOf
  <1>3. PICK p \in Friends : BefriendCommits(p)
    BY <1>1, <1>2 DEF FriendsNext, InviteCommits, BefriendLooks, InviteLooks, DeleteInvite, ExpireInvite
  <1>4. asks[p].pair = pair
    <2> SUFFICES ASSUME asks[p].pair # pair PROVE FALSE
      OBVIOUS
    <2>1. m \in DOMAIN rows
      BY <1>3, BefriendCommitsDoes
    <2>2. rows'[m].pair = rows[m].pair
      BY <1>3, <2>1, BefriendCommitsDoes
    <2>3. rows'[m] = rows[m]
      BY <1>3, <2>1, <2>2, BefriendCommitsDoes
    <2>4. QED
      BY <2>1, <2>3 DEF RowsOf
  <1>5. QED
    BY <1>3, <1>4, WasInvited

\* Nobody becomes the friend of one who did not ask for it (friendships.py:98-133): in
\* every step that makes two players friends, one of them answers an invite of the other
\* that was neither used up nor withdrawn, or that two requests used at the same time.
THEOREM FriendsAskedForIt == FriendsSpec => FriendsWereInvited
  <1>1. FriendsInvariant /\ [FriendsNext]_friendVars =>
          [\A pair \in Pairs :
             LET on == \E k \in RowsOf(pair) : rows[k].active
                 onAfter == \E k \in DOMAIN rows' : rows'[k].pair = pair /\ rows'[k].active
             IN onAfter /\ ~on =>
                  \E p \in pair : /\ asks[p].type = "befriend" /\ asks[p].pair = pair
                                 /\ LET i == asks[p].invite
                                    IN /\ {invites[i].by} = pair \ {p}
                                       /\ invites[i].deleted => i \in raced.invites
                                       /\ invites[i].to # NoFriend => invites'[i].deleted]_friendVars
    BY BecomingFriends
  <1>2. QED
    BY FriendsStart, FriendsStep, <1>1, PTL DEF FriendsSpec, FriendsWereInvited

=============================================================================
