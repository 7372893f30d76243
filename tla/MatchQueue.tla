----------------------------- MODULE MatchQueue -----------------------------
(***************************************************************************)
(* The queue of players who wait for a match (matchqueue.py).  The rows of *)
(* the queue are in PostgreSQL in the order of their ids; requests of      *)
(* players and of match servers each end with a run of                     *)
(* process_match_queue, and a lock in Redis keeps two runs apart.          *)
(*                                                                         *)
(* A post is three steps, as it commits twice before it takes the lock; a  *)
(* run is one.  A player has one request under way at a time.              *)
(***************************************************************************)
EXTENDS Subsequences, SequencesExt

CONSTANTS QueuePlayers,
          QueueMatches,  \* each the only match of its server
          Tokens,        \* of challenges
          NoToken,
          Refs,          \* of builds: a server has one
          NoRef,
          QueueRequests, \* what may be asked for: a player, a token and a ref
          RefOf,         \* the ref of the server of each match
          MaxPlayers,    \* of every match; at least 2, or players[1] of a challenge fails
          MaxRows,       \* bound on the length of the queue
          MaxErrors      \* bound on the rows left in it by runs that failed

ASSUME QueueAssumption ==
  /\ IsFiniteSet(QueueMatches) /\ "none" \notin QueueMatches /\ NoToken \notin Tokens
  /\ QueueRequests \subseteq QueuePlayers \X (Tokens \cup {NoToken}) \X (Refs \cup {NoRef})

VARIABLES queue,    \* rows in the order of their ids
          status,   \* of each match
          posting,  \* how far the post of each player is
          here      \* players whose client's heartbeat is fresh

queueVars == <<queue, status, posting, here>>

Row == [player : QueuePlayers, token : Tokens \cup {NoToken}, ref : Refs \cup {NoRef},
        status : {"waiting", "matched", "error"}, match : QueueMatches \cup {"none"}]

QueueInit == /\ queue = <<>>
             /\ status = [m \in QueueMatches |-> "none"]
             /\ posting = [p \in QueuePlayers |-> "no"]
             /\ here = QueuePlayers

\* The shape of the state; a row names a match exactly if it is matched.
QueueTypeOK ==
  /\ queue \in Seq(Row)
  /\ \A i \in DOMAIN queue : queue[i].match # "none" <=> queue[i].status = "matched"
  /\ status \in [QueueMatches -> {"none", "idle", "queue", "started"}]
  /\ posting \in [QueuePlayers -> {"no", "adding", "processing"}]
  /\ here \subseteq QueuePlayers

Without(rows) == Kept(queue, DOMAIN queue \ rows)

-----------------------------------------------------------------------------
\* process_match_queue, on the rows q.

Waiting(q) == {i \in DOMAIN q : q[i].status = "waiting"}
Eligible(q) == {i \in Waiting(q) : q[i].token = NoToken}
Challenge(q, token) == {i \in Waiting(q) : q[i].token = token}

\* check_ref_and_placement; a placement is compared in the same way.
Fits(row, m) == row.ref \in {NoRef, RefOf[m]}

\* The first of the group to wait decides, unless the second asks for a ref.
Decides(q, group) ==
  LET first == CHOOSE i \in group : \A j \in group : i <= j
      second == CHOOSE i \in group \ {first} : \A j \in group \ {first} : i <= j
  IN IF q[second].ref # NoRef THEN q[second] ELSE q[first]

\* All groups of challengers that are large enough, and that may be more than one.
Challengers(q, m) ==
  UNION {group \in {Challenge(q, token) : token \in Tokens} :
           Cardinality(group) >= MaxPlayers /\ Fits(Decides(q, group), m)}

\* The first players in the queue that fit.  done: players matched earlier in this run.
Strangers(q, m, done) ==
  LET fitting == {i \in Eligible(q) : q[i].player \notin done /\ Fits(q[i], m)}
  IN {i \in fitting : Cardinality({j \in fitting : j <= i}) <= MaxPlayers}

Chosen_TopUp(q, m, done) ==                                    \* mutant of Chosen
  LET few == {token \in Tokens : Challenge(q, token) # {}}
  IN IF few # {} THEN (UNION {Challenge(q, t) : t \in few}) \cup Strangers(q, m, done)
     ELSE Strangers(q, m, done)
Chosen(q, m, done) ==
  LET challengers == Challengers(q, m)
  IN IF challengers # {} THEN challengers ELSE Strangers(q, m, done)

Populate(run, m) ==
  LET chosen == Chosen(run.queue, m, run.done) IN
  IF Cardinality(chosen) < MaxPlayers THEN run
  ELSE [queue |-> [i \in DOMAIN run.queue |->
                     IF i \in chosen THEN [run.queue[i] EXCEPT !.status = "matched", !.match = m]
                     ELSE run.queue[i]],
        done |-> run.done \cup {run.queue[i].player : i \in chosen},
        full |-> run.full \cup {m}]

Orders == [S \in SUBSET QueueMatches |-> SetToSeqs(S)]

\* Players who stopped their heartbeat lose their place; then the idle matches are
\* filled, in whatever order the database lists them.  The rows and the matches are
\* those of q and s.
Present(q) == Kept(q, {i \in DOMAIN q : q[i].status = "waiting" => q[i].player \in here})
Filled(rows, order) ==
  LET run[k \in 0..Len(order)] ==
        IF k = 0 THEN [queue |-> rows, done |-> {}, full |-> {}] ELSE Populate(run[k - 1], order[k])
  IN run[Len(order)]
Process(q, s) ==
  \E order \in Orders[{m \in QueueMatches : s[m] = "idle"}] :
    LET run == Filled(Present(q), order)
    IN /\ queue' = run.queue
       /\ status' = [m \in QueueMatches |-> IF m \in run.full THEN "queue" ELSE s[m]]

-----------------------------------------------------------------------------
\* Requests of players: api/matchqueue.py.

\* The player's own rows are deleted, and those of whoever was matched with him.
Outdated_Waiting(p) ==                                         \* mutant of Outdated
  {i \in DOMAIN queue : queue[i].player = p /\ queue[i].status = "waiting"}
Outdated(p) ==
  LET mine == {i \in DOMAIN queue : queue[i].player = p /\ queue[i].status \in {"waiting", "matched"}}
  IN mine \cup {i \in DOMAIN queue : queue[i].match # "none"
                                     /\ \E j \in mine : queue[j].match = queue[i].match}
JoinQueue(p) ==
  /\ posting[p] = "no" /\ here' = here \cup {p}
  /\ posting' = [posting EXCEPT ![p] = "adding"]
  /\ queue' = Without(Outdated(p))
  /\ UNCHANGED status

Add(p, token, ref) ==
  /\ posting[p] = "adding" /\ Len(queue) < MaxRows
  /\ posting' = [posting EXCEPT ![p] = "processing"]
  /\ queue' = Append(queue, [player |-> p, token |-> token, ref |-> ref,
                             status |-> "waiting", match |-> "none"])
  /\ UNCHANGED <<status, here>>

PostProcesses(p) ==
  /\ posting[p] = "processing"
  /\ posting' = [posting EXCEPT ![p] = "no"]
  /\ Process(queue, status)
  /\ UNCHANGED here

\* process_match_queue failed.
Errors == Cardinality({i \in DOMAIN queue : queue[i].status = "error"})
PostFails_Any(p) ==                                            \* mutant of PostFails
  /\ posting[p] = "processing" /\ Errors < MaxErrors
  /\ posting' = [posting EXCEPT ![p] = "no"]
  /\ queue' = [i \in DOMAIN queue |->
                 IF queue[i].player = p THEN [queue[i] EXCEPT !.status = "error"] ELSE queue[i]]
  /\ UNCHANGED <<status, here>>
PostFails(p) ==
  /\ posting[p] = "processing" /\ Errors < MaxErrors
  /\ posting' = [posting EXCEPT ![p] = "no"]
  /\ queue' = [i \in DOMAIN queue |->
                 IF queue[i].player = p /\ queue[i].status = "waiting"
                 THEN [queue[i] EXCEPT !.status = "error"] ELSE queue[i]]
  /\ UNCHANGED <<status, here>>

\* The player, or a service in his name, takes his newest row out.
LeaveQueue(p, force) ==
  LET mine == {i \in DOMAIN queue : queue[i].player = p} IN
  /\ posting[p] = "no" /\ mine # {}
  /\ LET last == CHOOSE i \in mine : \A j \in mine : j <= i IN
     /\ queue[last].status = "matched" => force
     /\ queue' = Without({last})
  /\ UNCHANGED <<status, posting, here>>

-----------------------------------------------------------------------------
\* Requests of match servers that change the queue: api/matches.py.

MatchCreated(m) ==
  /\ status[m] = "none"
  /\ Process(queue, [status EXCEPT ![m] = "idle"])
  /\ UNCHANGED <<posting, here>>

PlayerJoinsMatch(m, p) ==
  /\ status[m] \in {"queue", "started"}
  /\ status' = [status EXCEPT ![m] = "started"]
  /\ queue' = Kept(queue, {i \in DOMAIN queue : queue[i].player # p})
  /\ UNCHANGED <<posting, here>>

\* The heartbeats of a client stop.  One that calls sends them again.
Vanish(p) ==
  /\ p \in here /\ posting[p] = "no" /\ \E i \in Waiting(queue) : queue[i].player = p
  /\ here' = here \ {p}
  /\ UNCHANGED <<queue, status, posting>>

QueueNext ==
  \/ \E p \in QueuePlayers :
       \/ JoinQueue(p) \/ PostProcesses(p) \/ PostFails(p) \/ Vanish(p)
       \/ \E force \in BOOLEAN : LeaveQueue(p, force)
       \/ \E m \in QueueMatches : PlayerJoinsMatch(m, p)
  \/ \E request \in QueueRequests : Add(request[1], request[2], request[3])
  \/ \E m \in QueueMatches : MatchCreated(m)

QueueSpec == QueueInit /\ [][QueueNext]_queueVars

-----------------------------------------------------------------------------
\* A player is in the queue once, for one match at most (matchqueue.py:98-106 skips
\* only players matched in the same run, so this rests on what a post deletes).
QueuedOnce ==
  \A i, j \in DOMAIN queue :
    queue[i].player = queue[j].player /\ "error" \notin {queue[i].status, queue[j].status} => i = j

\* Challengers share their match with nobody who does not have their kind of request.
NoStrangers ==
  \A i, j \in DOMAIN queue : queue[i].match # "none" /\ queue[i].match = queue[j].match =>
    (queue[i].token = NoToken) = (queue[j].token = NoToken)

\* A match that rows name is off the list of idle matches: no later run adds to it.
MatchedIsTaken ==
  \A i \in DOMAIN queue : queue[i].match # "none" => status[queue[i].match] \in {"queue", "started"}

\* The queue's promise to the players whose rows it marks as matched.
FairQueue == QueuedOnce /\ NoStrangers /\ MatchedIsTaken
=============================================================================
