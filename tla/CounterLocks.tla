---------------------------- MODULE CounterLocks ----------------------------
(***************************************************************************)
(* The transaction in which a request writes its counters (counters.py):   *)
(* an upsert of the counters, an insert of what the player lacks of them   *)
(* and upserts of his entries.  A statement locks its rows one by one in   *)
(* the order it was given, waits for the transaction that has a row, and   *)
(* all rows are held until the commit.  Game servers write the counters of *)
(* several players at once.                                                *)
(*                                                                         *)
(* The six periods of an entry are one row here: everybody writes them in  *)
(* the same order.                                                         *)
(***************************************************************************)
EXTENDS Subsequences, SequencesExt

CONSTANTS Alphabet,       \* the names of counters, sorted
          CountedPlayers,
          Writers,        \* requests that may overlap
          NoWriter

ASSUME LocksAssumption == /\ Alphabet \in Seq(ToSet(Alphabet))
                          /\ \A i, j \in DOMAIN Alphabet : Alphabet[i] = Alphabet[j] => i = j
                          /\ NoWriter \notin Writers

VARIABLES writing,   \* the request each writer has under way
          has,       \* ck_playercounters: which counters each player has, once committed
          locked     \* the writer that has each row, or NoWriter

lockVars == <<writing, has, locked>>

AllCounters == {Alphabet[i] : i \in DOMAIN Alphabet}
CountedRows == {"counter"} \X AllCounters
       \cup {"player", "entry"} \X CountedPlayers \X AllCounters
CounterLists == UNION {SetToSeqs(S) : S \in (SUBSET AllCounters) \ {{}}}
NotWriting == [step |-> "no", player |-> NoWriter, counts |-> <<>>, absolute |-> {}, todo |-> <<>>]

LocksInit == /\ writing = [w \in Writers |-> NotWriting]
             /\ has = [p \in CountedPlayers |-> {}]
             /\ locked = [row \in CountedRows |-> NoWriter]

LocksTypeOK ==
  /\ \A w \in Writers : /\ writing[w].step \in {"no", "counter", "player", "entry"}
                        /\ writing[w].todo \in Seq(CountedRows)
  /\ has \in [CountedPlayers -> SUBSET AllCounters]
  /\ locked \in [CountedRows -> Writers \cup {NoWriter}]

-----------------------------------------------------------------------------
\* The rows of each statement, in its order.

\* "Sorting the counters by name to avoid deadlocks when multiple clients try to add the
\* same new counters" (counters.py:71).
CounterRows_AsSent(counts) ==                                  \* mutant of CounterRows
  [i \in DOMAIN counts |-> <<"counter", counts[i]>>]
CounterRows(counts) ==
  LET sorted == Kept(Alphabet, {i \in DOMAIN Alphabet : Alphabet[i] \in ToSet(counts)})
  IN [i \in DOMAIN sorted |-> <<"counter", sorted[i]>>]

\* The insert skips what is there, in the order in which the first statement returned.
PlayerRows(p, counts) ==
  LET new == Kept(Alphabet, {i \in DOMAIN Alphabet : Alphabet[i] \in ToSet(counts) \ has[p]})
  IN [i \in DOMAIN new |-> <<"player", p, new[i]>>]

\* Absolute values first, each kind in the order of the request.
EntryRows(p, counts, absolute) ==
  LET kinds == Kept(counts, {i \in DOMAIN counts : counts[i] \in absolute})
                 \o Kept(counts, {i \in DOMAIN counts : counts[i] \notin absolute})
  IN [i \in DOMAIN kinds |-> <<"entry", p, kinds[i]>>]

-----------------------------------------------------------------------------
Receive(w, p, counts, absolute) ==
  /\ writing[w] = NotWriting
  /\ writing' = [writing EXCEPT ![w] =
       [step |-> "counter", player |-> p, counts |-> counts, absolute |-> absolute,
        todo |-> CounterRows(counts)]]
  /\ UNCHANGED <<has, locked>>

NextRow(w) == Head(writing[w].todo)
IsFree(w) == locked[NextRow(w)] \in {w, NoWriter}

LockRow(w) ==
  /\ writing[w].todo # <<>> /\ IsFree(w)
  /\ locked' = [locked EXCEPT ![NextRow(w)] = w]
  /\ writing' = [writing EXCEPT ![w].todo = Tail(@)]
  /\ UNCHANGED has

EndStatement(w) ==
  /\ writing[w].step \in {"counter", "player"} /\ writing[w].todo = <<>>
  /\ LET r == writing[w] IN
     writing' = [writing EXCEPT ![w] =
       IF r.step = "counter"
       THEN [r EXCEPT !.step = "player", !.todo = PlayerRows(r.player, r.counts)]
       ELSE [r EXCEPT !.step = "entry", !.todo = EntryRows(r.player, r.counts, r.absolute)]]
  /\ UNCHANGED <<has, locked>>

CommitCounters(w) ==
  /\ writing[w].step = "entry" /\ writing[w].todo = <<>>
  /\ has' = [has EXCEPT ![writing[w].player] = @ \cup ToSet(writing[w].counts)]
  /\ locked' = [row \in CountedRows |-> IF locked[row] = w THEN NoWriter ELSE locked[row]]
  /\ writing' = [writing EXCEPT ![w] = NotWriting]

LocksNext ==
  \E w \in Writers :
    \/ LockRow(w) \/ EndStatement(w) \/ CommitCounters(w)
    \/ \E p \in CountedPlayers, counts \in CounterLists :
         \E absolute \in SUBSET ToSet(counts) : Receive(w, p, counts, absolute)

LocksSpec == LocksInit /\ [][LocksNext]_lockVars

-----------------------------------------------------------------------------
\* Transactions never wait for each other in a circle, whatever counters they write in
\* whatever order and for whichever players; and one that writes entries waits for nobody,
\* so that the entries of a request are written in one go (counters.py:64-132), as module
\* Counters has it.
CountersDoNotDeadlock ==
  LET waits == {w \in Writers : writing[w].todo # <<>> /\ ~IsFree(w)}
  IN /\ \A circle \in SUBSET waits : circle # {} => \E w \in circle : locked[NextRow(w)] \notin circle
     /\ \A w \in waits : writing[w].step = "counter"
=============================================================================
