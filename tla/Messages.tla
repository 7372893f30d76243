------------------------------ MODULE Messages ------------------------------
(***************************************************************************)
(* The messages of one exchange (messages.py): a Redis stream whose ids an *)
(* INCR hands out, and the number "seen" that a client who asks for the    *)
(* messages after 0 continues from.  A fetch is three round trips to       *)
(* Redis, and a long poll repeats it; a client that reconnects may have an *)
(* older poll of his still running.                                        *)
(***************************************************************************)
EXTENDS Naturals, FiniteSets

CONSTANTS Fetches,      \* requests a client may have under way
          MaxMessages,  \* bound on the messages posted
          MaxPending,   \* MAX_PENDING_MESSAGES
          Rows,         \* the values clients give for the parameter rows
          Unset

ASSUME MessagesAssumption == MaxMessages \in Nat

VARIABLES stream,    \* ids of the messages in the stream
          posted,    \* the last id
          expired,   \* ids of messages whose time is over
          seen,      \* the number kept for the exchange, or Unset
          fetch,     \* the state of each request
          received   \* ids of the messages the client has got

messageVars == <<stream, posted, expired, seen, fetch, received>>

Ids == 1..MaxMessages
NoFetch == [step |-> "idle", asked |-> 0, after |-> 0, rows |-> 0, live |-> {}, dead |-> {}, last |-> 0]
HighestOf(S) == IF S = {} THEN 0 ELSE CHOOSE i \in S : \A j \in S : j <= i
LowestOf(S) == CHOOSE i \in S : \A j \in S : i <= j

MessagesInit == /\ stream = {} /\ posted = 0 /\ expired = {} /\ seen = Unset /\ received = {}
                /\ fetch = [f \in Fetches |-> NoFetch]

MessagesTypeOK == /\ stream \subseteq Ids /\ posted \in 0..MaxMessages
                  /\ expired \subseteq Ids /\ received \subseteq Ids
                  /\ seen \in 0..MaxMessages \cup {Unset}
                  /\ fetch \in [Fetches -> [step : {"idle", "start", "read", "write", "answer"},
                                  asked : 0..MaxMessages, after : 0..MaxMessages, rows : Rows \cup {0},
                                  live : SUBSET Ids, dead : SUBSET Ids, last : 0..MaxMessages]]

-----------------------------------------------------------------------------
\* The script of post_message: the next id, and a stream that is not much longer than
\* it may be.
PostMessage ==
  /\ posted < MaxMessages /\ posted' = posted + 1
  /\ \E oldest \in 1..posted' :
       LET rest == {i \in stream \cup {posted'} : i >= oldest} IN
       /\ rest = stream \cup {posted'} \/ Cardinality(rest) >= MaxPending
       /\ stream' = rest
  /\ UNCHANGED <<expired, seen, fetch, received>>

TimePasses(i) ==
  /\ i \in 1..posted /\ expired' = expired \cup {i}
  /\ UNCHANGED <<stream, posted, seen, fetch, received>>

\* A client asks for what came after the last message he has, or, new, for the rest.
Get(f, after, rows) ==
  /\ fetch[f].step = "idle" /\ after \in {0, HighestOf(received)}
  /\ fetch' = [fetch EXCEPT ![f] = [NoFetch EXCEPT !.step = "start", !.asked = after, !.rows = rows]]
  /\ UNCHANGED <<stream, posted, expired, seen, received>>

ReadSeen(f) ==
  LET continues == fetch[f].asked = 0 /\ seen # Unset IN
  /\ fetch[f].step = "start"
  /\ seen' = IF continues THEN seen ELSE fetch[f].asked
  /\ fetch' = [fetch EXCEPT ![f].step = "read", ![f].after = seen']
  /\ UNCHANGED <<stream, posted, expired, received>>

\* XRANGE finds all messages after the number; XREVRANGE the newest of them, so the last
\* one processed is the oldest.
Newest(S, n) == {i \in S : Cardinality({j \in S : j >= i}) <= n}
Content(f) == LET all == {i \in stream : i > fetch[f].after} IN
              IF fetch[f].rows = 0 THEN all ELSE Newest(all, fetch[f].rows)
LastProcessed(f, content) ==
  IF content = {} THEN 0
  ELSE IF fetch[f].rows = 0 THEN HighestOf(content) ELSE LowestOf(content)

ReadStream(f) ==
  /\ fetch[f].step = "read"
  /\ LET content == Content(f) IN
     fetch' = [fetch EXCEPT ![f].step = "write", ![f].live = content \ expired,
                            ![f].dead = content \cap expired,
                            ![f].last = LastProcessed(f, content)]
  /\ UNCHANGED <<stream, posted, expired, seen, received>>

SkipsTo_SomeDead(f) == fetch[f].last # 0 /\ fetch[f].dead # {}   \* mutant of SkipsTo
SkipsTo(f) == fetch[f].last # 0 /\ fetch[f].live = {}

WriteSeen(f) ==
  /\ fetch[f].step = "write"
  /\ seen' = IF SkipsTo(f) THEN fetch[f].last ELSE seen
  /\ stream' = stream \ fetch[f].dead
  /\ fetch' = [fetch EXCEPT ![f].step = "answer"]
  /\ UNCHANGED <<posted, expired, received>>

\* The answer reaches the client, or is lost with the connection.
Answer(f, arrives) ==
  /\ fetch[f].step = "answer"
  /\ fetch' = [fetch EXCEPT ![f] = NoFetch]
  /\ received' = IF arrives THEN received \cup fetch[f].live ELSE received
  /\ UNCHANGED <<stream, posted, expired, seen>>

\* The streamer of a long poll fetches again, with the parameters of the request.
PollAgain(f) ==
  /\ fetch[f].step = "answer" /\ fetch[f].live = {}
  /\ fetch' = [fetch EXCEPT ![f] =
                 [NoFetch EXCEPT !.step = "start", !.asked = fetch[f].asked, !.rows = fetch[f].rows]]
  /\ UNCHANGED <<stream, posted, expired, seen, received>>

MessagesNext ==
  \/ PostMessage
  \/ \E i \in Ids : TimePasses(i)
  \/ \E f \in Fetches :
       \/ ReadSeen(f) \/ ReadStream(f) \/ WriteSeen(f) \/ PollAgain(f)
       \/ \E after \in 0..MaxMessages, rows \in Rows \cup {0} : Get(f, after, rows)
       \/ \E arrives \in BOOLEAN : Answer(f, arrives)

MessagesSpec == MessagesInit /\ [][MessagesNext]_messageVars

-----------------------------------------------------------------------------
\* A message that is still good and that the client never got is ahead of where his next
\* fetch continues: answers that are lost, polls that overlap and expired messages that
\* are skipped lose him nothing (messages.py:51-55 and 89-97).
NothingIsSkipped ==
  \A i \in stream \ expired : seen # Unset /\ i <= seen => i \in received
=============================================================================
