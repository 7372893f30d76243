---------------------------- MODULE PlayerState -----------------------------
(***************************************************************************)
(* What a player keeps on the server: the journal of what he did, the game *)
(* states that sum it up (api/players/journal.py and gamestate.py), and    *)
(* tickets to claim once (tickets.py).  A client writes the journal in     *)
(* batches, one transaction per entry, and may take entries back until a   *)
(* game state rests on them.                                               *)
(*                                                                         *)
(* A put of a game state and a claim look first and commit later.          *)
(* gamestate.py:119-121 leaves it to the client to wait for the answer     *)
(* before it sends the next request: that is what Serialized says.         *)
(* Services write at any time.                                             *)
(***************************************************************************)
EXTENDS Naturals, FiniteSets, Sequences

CONSTANTS MaxJournal,  \* bound on the ids of journal entries
          MaxBatch,    \* bound on the entries of a post
          Namespaces,
          PlayerTickets,
          Serialized,
          Null, NoState, NoLookup

ASSUME StateAssumption == /\ {MaxJournal, MaxBatch} \subseteq Nat
                          /\ Null \notin 1..MaxJournal /\ NoState \notin 1..MaxJournal

VARIABLES journal,    \* [id, deleted] of each entry, in the order they were written
          gamestate,  \* the journal id of each game state, Null, or NoState
          batch,      \* number of entries of a post that are not written yet
          pending,    \* a put or a claim that has looked
          claims      \* how often each ticket was claimed

playerVars == <<journal, gamestate, batch, pending, claims>>

JournalIds == 1..MaxJournal
JournalEntries == [id : JournalIds, rollback : {0} \cup JournalIds]

StateInit == /\ journal = <<>> /\ batch = 0 /\ pending = NoLookup
             /\ gamestate = [n \in Namespaces |-> NoState]
             /\ claims = [t \in PlayerTickets |-> 0]

Lookups == [type : {"put"}, of : Namespaces, journal : JournalIds \cup {Null}]
             \cup [type : {"claim"}, of : PlayerTickets, journal : JournalIds \cup {Null}]
StateTypeOK == /\ journal \in Seq([id : JournalIds, deleted : BOOLEAN])
               /\ gamestate \in [Namespaces -> JournalIds \cup {Null, NoState}]
               /\ batch \in 0..MaxBatch /\ pending \in Lookups \cup {NoLookup}
               /\ claims \in [PlayerTickets -> Nat]

Free == Serialized => batch = 0 /\ pending = NoLookup

-----------------------------------------------------------------------------
\* The journal.

PostJournal(size) ==
  /\ Free /\ batch = 0 /\ batch' = size
  /\ UNCHANGED <<journal, gamestate, pending, claims>>

\* get_player_gamestate: the one with the latest journal id.
Persisted == {gamestate[n] : n \in Namespaces} \ {NoState}
Latest == {i \in Persisted \ {Null} : \A j \in Persisted \ {Null} : j <= i}

\* An entry that takes back what came after some other is refused if a game state rests
\* on it; the comparison with an id that is null raises.
MayRollBack_Whichever(to) == \E i \in Persisted : i = Null \/ i <= to   \* mutant of MayRollBack
MayRollBack(to) == Persisted = {} \/ \E i \in Latest : i <= to

InSequence(id) == \A i \in DOMAIN journal : journal[i].id < id

\* One transaction: what an entry that is out of sequence has taken back is restored.
\* Either refusal ends the batch, and the entries before it stay.
WriteEntry(e) ==
  /\ batch > 0
  /\ LET kept == [i \in DOMAIN journal |-> [journal[i] EXCEPT
                    !.deleted = @ \/ (e.rollback # 0 /\ journal[i].id > e.rollback)]]
     IN IF (e.rollback # 0 => MayRollBack(e.rollback)) /\ InSequence(e.id)
        THEN /\ journal' = Append(kept, [id |-> e.id, deleted |-> FALSE])
             /\ batch' = batch - 1
        ELSE batch' = 0 /\ UNCHANGED journal
  /\ UNCHANGED <<gamestate, pending, claims>>

-----------------------------------------------------------------------------
\* Game states.

InJournal_EvenDeleted(id) == \E i \in DOMAIN journal : journal[i].id = id  \* mutant of InJournal
InJournal(id) == \E i \in DOMAIN journal : journal[i].id = id /\ ~journal[i].deleted

PutLooks(n, id) ==
  /\ Free /\ pending = NoLookup
  /\ id # Null => InJournal(id)
  /\ pending' = [type |-> "put", of |-> n, journal |-> id]
  /\ UNCHANGED <<journal, gamestate, batch, claims>>

\* An older journal id is only warned about; the comparison with null raises.
PutCommits ==
  /\ pending # NoLookup /\ pending.type = "put"
  /\ pending' = NoLookup
  /\ gamestate' = IF pending.journal # Null /\ gamestate[pending.of] = Null THEN gamestate
                  ELSE [gamestate EXCEPT ![pending.of] = pending.journal]
  /\ UNCHANGED <<journal, batch, claims>>

DeleteState(n) ==
  /\ gamestate' = [gamestate EXCEPT ![n] = NoState]
  /\ UNCHANGED <<journal, batch, pending, claims>>

-----------------------------------------------------------------------------
\* Tickets.  The journal id of a claim is stored as it is.

ClaimLooks(t, id) ==
  /\ Free /\ pending = NoLookup /\ claims[t] = 0
  /\ pending' = [type |-> "claim", of |-> t, journal |-> id]
  /\ UNCHANGED <<journal, gamestate, batch, claims>>

ClaimCommits ==
  /\ pending # NoLookup /\ pending.type = "claim"
  /\ pending' = NoLookup
  /\ claims' = [claims EXCEPT ![pending.of] = @ + 1]
  /\ UNCHANGED <<journal, gamestate, batch>>

StateNext ==
  \/ \E size \in 1..MaxBatch : PostJournal(size)
  \/ \E e \in JournalEntries : WriteEntry(e)
  \/ PutCommits \/ ClaimCommits
  \/ \E n \in Namespaces : DeleteState(n) \/ \E id \in JournalIds \cup {Null} : PutLooks(n, id)
  \/ \E t \in PlayerTickets : ClaimLooks(t, Null)

StateSpec == StateInit /\ [][StateNext]_playerVars

-----------------------------------------------------------------------------
\* No game state rests on a journal entry that was taken back: a rollback stops at what
\* "has already been persisted into home base" in any namespace (journal.py:92-94), and a
\* game state is not written for an entry that is gone (gamestate.py:112-124).
StatesRestOnTheJournal ==
  \A n \in Namespaces : gamestate[n] \in JournalIds =>
    [id |-> gamestate[n], deleted |-> FALSE] \in {journal[i] : i \in DOMAIN journal}
=============================================================================
