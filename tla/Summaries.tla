------------------------------ MODULE Summaries ------------------------------
(***************************************************************************)
(* The summary of one player (api/players/summary.py): named values, one   *)
(* row each, that a PUT replaces and a PATCH adds to.  No constraint keeps *)
(* two rows from having the same name, and requests that overlap leave     *)
(* such rows.  A request looks at the rows once; those it meets again      *)
(* after a commit are read anew.                                           *)
(***************************************************************************)
EXTENDS Naturals, FiniteSets

CONSTANTS Fields, FieldValues,
          Wanted,            \* what requests ask for: values of some of the fields
          SummaryRequests,   \* requests that may overlap
          MaxSummaryRows,    \* bound on the rows ever added
          NoPut

ASSUME SummaryAssumption ==
  /\ MaxSummaryRows \in Nat
  /\ Wanted \subseteq UNION {[S -> FieldValues] : S \in SUBSET Fields}
  /\ \A want \in Wanted : IsFiniteSet(DOMAIN want)

VARIABLES summary,    \* ck_player_summary
          lastRow,    \* the sequence of the row ids
          update,     \* the request that each one has under way
          replaced    \* what the last write made of it, if that was a PUT no other overlapped

summaryVars == <<summary, lastRow, update, replaced>>

SummaryRow == [id : 1..MaxSummaryRows, name : Fields, value : FieldValues]
NoUpdate == [step |-> "none"]

SummaryInit == /\ summary = {} /\ lastRow = 0
               /\ update = [r \in SummaryRequests |-> NoUpdate] /\ replaced = NoPut

SummaryTypeOK ==
  /\ summary \subseteq SummaryRow /\ lastRow \in 0..MaxSummaryRows
  /\ \A row, other \in summary : row.id = other.id => row = other
  /\ replaced \in Wanted \cup {NoPut}
  /\ \A r \in SummaryRequests : update[r].step \in {"none", "put", "delete", "patch"}

IdsOf(rows) == {row.id : row \in rows}
NamesOf(rows) == {row.name : row \in rows}
Gone(rows) == IdsOf(rows) \ IdsOf(summary)
Busy == {r \in SummaryRequests : update[r] # NoUpdate}
Ends(r) == update' = [update EXCEPT ![r] = NoUpdate]

SummaryLooks(r, step, want) ==
  /\ r \notin Busy
  /\ update' = [q \in SummaryRequests |->
       IF q = r THEN [step |-> step, want |-> want, old |-> summary, taken |-> {},
                      fresh |-> TRUE, alone |-> step = "put" /\ Busy = {}]
       ELSE IF q \in Busy THEN [update[q] EXCEPT !.alone = FALSE] ELSE NoUpdate]
  /\ UNCHANGED <<summary, lastRow, replaced>>

\* A row it looked at is gone when the request writes it or reads it anew.
SummaryFails(r) == /\ r \in Busy /\ Gone(update[r].old) # {} /\ Ends(r)
                   /\ UNCHANGED <<summary, lastRow, replaced>>

\* The rows with those ids get the values wanted of their names, and the names get new rows.
Store(ids, names, want) ==
  /\ lastRow + Cardinality(names) <= MaxSummaryRows
  /\ lastRow' = lastRow + Cardinality(names)
  /\ \E order \in [names -> lastRow + 1 .. lastRow'] :
       /\ \A n, o \in names : order[n] = order[o] => n = o
       /\ summary' = {IF row.id \in ids THEN [row EXCEPT !.value = want[row.name]] ELSE row :
                        row \in summary}
                     \cup {[id |-> order[n], name |-> n, value |-> want[n]] : n \in names}

-----------------------------------------------------------------------------
\* PUT.

\* Of the rows of a name the first one found is taken, whichever that is.
Picks_Every(old, want) == {{row \in old : row.name \in DOMAIN want}}     \* mutant of Picks
Picks(old, want) ==
  {S \in SUBSET {row \in old : row.name \in DOMAIN want} :
     /\ NamesOf(S) = NamesOf(old) \cap DOMAIN want
     /\ \A row, other \in S : row.name = other.name => row = other}

\* The first commit.
PutSaves(r) ==
  LET x == update[r] IN
  /\ r \in Busy /\ x.step = "put"
  /\ \E taken \in Picks(x.old, x.want) :
       LET changed == {row \in taken : row.value # x.want[row.name]} IN
       /\ Gone(changed) = {}
       /\ Store(IdsOf(changed), DOMAIN x.want \ NamesOf(x.old), x.want)
       /\ update' = [update EXCEPT ![r].step = "delete", ![r].taken = taken]
  /\ replaced' = NoPut

\* The second: the rows that were looked at and not taken are deleted.
PutDeletes(r) ==
  LET x == update[r] IN
  /\ r \in Busy /\ x.step = "delete" /\ Gone(x.old) = {} /\ Ends(r)
  /\ summary' = {row \in summary : row.id \notin IdsOf(x.old \ x.taken)}
  /\ replaced' = IF x.alone THEN x.want ELSE NoPut
  /\ UNCHANGED lastRow

-----------------------------------------------------------------------------
\* PATCH: a commit for each name, in the order of the request.  What it also adds to the
\* history, nobody reads.

PatchSaves(r, name) ==
  LET x == update[r]
      value == x.want[name]
      seen == IF x.fresh THEN x.old ELSE {row \in summary : row.id \in IdsOf(x.old)}
      rows == {row \in seen : row.name = name}
      rest == [n \in DOMAIN x.want \ {name} |-> x.want[n]]
  IN /\ r \in Busy /\ x.step = "patch" /\ name \in DOMAIN x.want
     /\ IF DOMAIN rest = {} THEN Ends(r)
        ELSE update' = [update EXCEPT ![r].want = rest, ![r].fresh = FALSE]
     /\ \/ (\E row \in rows : row.value = value) /\ UNCHANGED <<summary, lastRow>>
        \/ \E row \in rows : row.value # value /\ Gone({row}) = {} /\ Store({row.id}, {}, x.want)
        \/ rows = {} /\ (x.fresh \/ Gone(x.old) = {}) /\ Store({}, {name}, x.want)
     /\ replaced' = NoPut

SummaryNext ==
  \E r \in SummaryRequests :
    \/ \E want \in Wanted : SummaryLooks(r, "put", want) \/ (DOMAIN want # {} /\ SummaryLooks(r, "patch", want))
    \/ SummaryFails(r) \/ PutSaves(r) \/ PutDeletes(r)
    \/ \E name \in Fields : PatchSaves(r, name)

SummarySpec == SummaryInit /\ [][SummaryNext]_summaryVars

-----------------------------------------------------------------------------
\* A PUT that no other request overlapped leaves exactly the values it was given, whatever
\* overlapping ones left before: it deletes all rows of a name but one (summary.py:63-86).
PutsMend ==
  replaced # NoPut =>
    /\ {[name |-> row.name, value |-> row.value] : row \in summary} =
       {[name |-> n, value |-> replaced[n]] : n \in DOMAIN replaced}
    /\ Cardinality(summary) = Cardinality(DOMAIN replaced)
=============================================================================
