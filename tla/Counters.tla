------------------------------ MODULE Counters ------------------------------
(***************************************************************************)
(* The counters of a player (counters.py, api/players/counters.py).  A     *)
(* client sends a list of updates; the updates of one counter are merged   *)
(* into one, stamped with the server's time, and added to, or put in the   *)
(* place of, the counter's entry of every period by one upsert.            *)
(*                                                                         *)
(* All updates of a counter in a list are of one type (UniformLists): a    *)
(* list that mixes them is merged under the type of the first, which is a  *)
(* finding of the README.  Requests to update one counter, which never     *)
(* worked, are left out.                                                   *)
(***************************************************************************)
EXTENDS Integers, Sequences

CONSTANTS CounterNames,
          Periods,      \* COUNTER_PERIODS
          Width,        \* length of a period; 0 for "total", which has one entry for all time
          Values,       \* the values of updates
          MaxList,      \* bound on the updates of a request
          MaxUpdates,   \* bound on the updates of all requests
          MaxTime,      \* bound on the clock
          UniformLists

ASSUME CountersAssumption == /\ Width \in [Periods -> Nat] /\ Values \subseteq Int
                             /\ {MaxList, MaxUpdates, MaxTime} \subseteq Nat
                             /\ UniformLists \in BOOLEAN

VARIABLES clock,
          sent,       \* how many updates clients have sent
          patches,    \* requests on their way: their updates, merged, and their timestamp
          entries,    \* ck_counter_entries: the value of a counter in a period
          should      \* history: the value had every update been applied on its own

counterVars == <<clock, sent, patches, entries, should>>

Updates == [name : CounterNames, type : {"count", "absolute"}, value : Values]

\* get_date_time_for_period: the time an entry is filed under.
DateTime(period, t) == IF Width[period] = 0 THEN 0 ELSE t - (t % Width[period])
EntryKeys == [name : CounterNames, period : Periods, date : 0..MaxTime]

CountersInit == /\ clock = 0 /\ sent = 0 /\ patches = {}
                /\ entries = [e \in EntryKeys |-> 0] /\ should = [e \in EntryKeys |-> 0]

-----------------------------------------------------------------------------
\* The loop over a list: what is merged of the updates of a counter, no-ops skipped, of the
\* type of the first.

Skips_Zero(u) == u.value = 0                                   \* mutant of Skips
Skips(u) == u.type = "count" /\ u.value = 0

Apply(u, value) == IF u.type = "absolute" THEN u.value ELSE value + u.value

NoEntry == [type |-> "none", value |-> 0]

Merge_Last(entry, u) == [type |-> u.type, value |-> u.value]   \* mutant of Merge
Merge(entry, u) ==
  IF Skips(u) THEN entry
  ELSE IF entry = NoEntry THEN [type |-> u.type, value |-> u.value]
  ELSE [type |-> entry.type, value |-> Apply(u, entry.value)]

Merged(list, name) ==
  LET entry[k \in 0..Len(list)] ==
        IF k = 0 THEN NoEntry
        ELSE IF list[k].name = name THEN Merge(entry[k - 1], list[k]) ELSE entry[k - 1]
  IN entry[Len(list)]

\* The updates applied one by one.
OneByOne(list, name, value) ==
  LET applied[k \in 0..Len(list)] ==
        IF k = 0 THEN value
        ELSE IF list[k].name = name THEN Apply(list[k], applied[k - 1]) ELSE applied[k - 1]
  IN applied[Len(list)]

Uniform(list) == \A j, k \in DOMAIN list : list[j].name = list[k].name => list[j].type = list[k].type

\* A list arrives; its timestamp is taken before anything is written.
Patch(list) ==
  /\ sent + Len(list) <= MaxUpdates /\ sent' = sent + Len(list)
  /\ UniformLists => Uniform(list)
  /\ patches' = patches \cup {[list |-> list, timestamp |-> clock, order |-> sent]}
  /\ UNCHANGED <<clock, entries, should>>

\* batch_update_counter_entries: one entry per counter and period.
Files(patch, e) == Merged(patch.list, e.name) # NoEntry /\ e.date = DateTime(e.period, patch.timestamp)

Commit(patch) ==
  /\ patches' = patches \ {patch}
  /\ entries' = [e \in EntryKeys |->
                  IF Files(patch, e) THEN Apply(Merged(patch.list, e.name), entries[e]) ELSE entries[e]]
  /\ should' = [e \in EntryKeys |->
                 IF e.date # DateTime(e.period, patch.timestamp) THEN should[e]
                 ELSE OneByOne(patch.list, e.name, should[e])]
  /\ UNCHANGED <<clock, sent>>

Tick == /\ clock < MaxTime /\ clock' = clock + 1
        /\ UNCHANGED <<sent, patches, entries, should>>

CountersNext ==
  \/ \E n \in 1..MaxList : \E list \in [1..n -> Updates] : Patch(list)
  \/ \E patch \in patches : Commit(patch)
  \/ Tick

CountersSpec == CountersInit /\ [][CountersNext]_counterVars

CountersTypeOK == /\ clock \in 0..MaxTime /\ sent \in 0..MaxUpdates
                  /\ \A patch \in patches : patch.timestamp \in 0..clock /\ patch.list \in Seq(Updates)
                  /\ entries \in [EntryKeys -> Int] /\ should \in [EntryKeys -> Int]

-----------------------------------------------------------------------------
\* "ensure that multiple updates all get applied" (api/players/counters.py:195): every
\* entry has the value it would have had the updates been applied one by one, in whatever
\* order the requests are written (counters.py:102-132).
UpdatesAllApply == entries = should
=============================================================================
