--------------------------- MODULE ServicesProofs ---------------------------
(****************************************************************************)
(* Theorems about the services that run side by side in MCServices, beyond  *)
(* those of PlayersProofs: Clients, MatchPlayers, Presence, GameServers,    *)
(* Sandbox, CounterLocks, Counters and MatchQueue, for all sets of users,   *)
(* servers, matches, counters and requests and every bound, and at the end  *)
(* the types of all the services together.  Each rests on an inductive      *)
(* invariant that adds what the requests under way know.                    *)
(****************************************************************************)
EXTENDS MCServices, PlayersProofs

----------------------------------------------------------------------------
(* Client sessions.                                                         *)

\* A registration that has not set the current client yet is of a client that was never
\* current, and that therefore nobody has usurped.
NotYetCurrent(c) == asking[c] \in {"recorded", "usurped"} =>
                      client[c].status # "usurped" /\ ~LetThrough(c)

\* Ids are handed out in turn, and only a client of the user is his current one.
ClientsInvariant ==
  /\ ClientsTypeOK
  /\ UsurpedIsReplaced
  /\ Registered = 1..Cardinality(Registered)
  /\ \A c \in Registered : client[c].user \in Users
  /\ \A c \in ClientIds \ Registered : asking[c] = "no"
  /\ \A u \in Users : current[u] # NoClient =>
       current[u] \in Registered /\ client[current[u]].user = u
  /\ \A c \in ClientIds : NotYetCurrent(c)

LEMMA ClientsStart == ClientsInit => ClientsInvariant
  <1> SUFFICES ASSUME ClientsInit PROVE ClientsInvariant
    OBVIOUS
  <1>1. Registered = {}
    BY DEF ClientsInit, Registered
  <1>2. Cardinality({}) = 0 /\ 1..0 = {}
    BY FS_EmptySet
  <1>3. ClientsTypeOK
    BY DEF ClientsInit, ClientsTypeOK
  <1>4. QED
    BY <1>1, <1>2, <1>3 DEF ClientsInit, ClientsInvariant, UsurpedIsReplaced, NotYetCurrent

\* A client that registers gets an id that no other has.
LEMMA RegistersFresh ==
    ASSUME ClientsInvariant, NEW u \in Users, Register(u)
    PROVE  LET c == Cardinality(Registered) + 1 IN
           /\ c \in ClientIds \ Registered
           /\ Registered' = Registered \cup {c}
           /\ Registered' = 1..Cardinality(Registered')
  <1> DEFINE n == Cardinality(Registered)
  <1>1. IsFiniteSet(Registered)
    BY ClientsAssumption, FS_Interval, FS_Subset DEF Registered, ClientIds
  <1>2. n \in Nat
    BY <1>1, FS_CardinalityType
  <1>3. n + 1 \in ClientIds /\ n + 1 \notin Registered
    BY <1>2 DEF ClientsInvariant, Register
  <1>4. Registered' = Registered \cup {n + 1}
    <2>1. client' = [client EXCEPT ![n + 1] = [user |-> u, status |-> "active", fresh |-> TRUE]]
      BY DEF Register
    <2>2. \A c \in ClientIds : client'[c].status # "none" <=> c = n + 1 \/ client[c].status # "none"
      BY <2>1, <1>3 DEF ClientsInvariant, ClientsTypeOK
    <2>3. QED
      BY <2>2, <1>3 DEF Registered
  <1>5. Registered' = 1..(n + 1)
    BY <1>2, <1>4 DEF ClientsInvariant
  <1>6. Cardinality(Registered') = n + 1
    BY <1>2, <1>5, FS_Interval
  <1>7. QED
    BY <1>3, <1>4, <1>5, <1>6

\* All other steps leave the ids and their users alone.
LEMMA SameClients ==
    ASSUME ClientsInvariant,
           \A c \in ClientIds : client'[c].user = client[c].user
                                /\ (client'[c].status = "none" <=> client[c].status = "none")
    PROVE  Registered' = Registered
  BY DEF Registered

ClientRow == [user : Users \cup {NoClient}, fresh : BOOLEAN,
              status : {"none", "active", "usurped", "deleted"}]

LEMMA DeletedRow ==
    ASSUME NEW clients \in [ClientIds -> ClientRow], NEW c \in ClientIds
    PROVE  [clients EXCEPT ![c].status = "deleted", ![c].fresh = TRUE] \in [ClientIds -> ClientRow]
  BY DEF ClientRow

LEMMA ClientsStep == ClientsInvariant /\ [ClientsNext]_clientVars => ClientsInvariant'
  <1> SUFFICES ASSUME ClientsInvariant, [ClientsNext]_clientVars PROVE ClientsInvariant'
    OBVIOUS
  <1> USE ClientsAssumption DEF ClientsInvariant
  <1>1. ASSUME NEW u \in Users, Register(u) PROVE ClientsInvariant'
    <2>1. PICK n \in ClientIds : /\ n = Cardinality(Registered) + 1 /\ n \notin Registered
                                 /\ Registered' = Registered \cup {n}
      BY <1>1, RegistersFresh
    <2>2. /\ client' = [client EXCEPT ![n] = [user |-> u, status |-> "active", fresh |-> TRUE]]
          /\ asking' = [asking EXCEPT ![n] = "recorded"]
          /\ last' = [last EXCEPT ![u] = n] /\ UNCHANGED <<current, online>>
      BY <1>1, <2>1 DEF Register
    <2>3. ClientsTypeOK'
      BY <2>1, <2>2 DEF ClientsTypeOK
    <2> DEFINE new == [user |-> u, status |-> "active", fresh |-> TRUE]
    <2>7. \A c \in ClientIds : /\ client'[c] = IF c = n THEN new ELSE client[c]
                               /\ asking'[c] = IF c = n THEN "recorded" ELSE asking[c]
      BY <2>2 DEF ClientsTypeOK
    <2>4. UsurpedIsReplaced'
      <3> SUFFICES ASSUME NEW c \in Registered', client'[c].status = "usurped", LetThrough(c)'
                   PROVE  \E d \in ClientIds : client'[d].user = client'[c].user /\ asking'[d] = "usurped"
        BY DEF UsurpedIsReplaced
      <3>1. c \in Registered /\ c # n /\ c \in ClientIds
        BY <2>1, <2>7 DEF Registered
      <3>2. client'[c] = client[c] /\ LetThrough(c)
        BY <2>2, <2>7, <3>1 DEF LetThrough
      <3>3. PICK d \in ClientIds : client[d].user = client[c].user /\ asking[d] = "usurped"
        BY <3>1, <3>2 DEF UsurpedIsReplaced
      <3>4. d # n
        BY <2>1, <3>3
      <3>5. QED
        BY <2>7, <3>2, <3>3, <3>4
    <2>5. \A c \in ClientIds : NotYetCurrent(c)'
      <3>1. \A v \in Users : current[v] # n
        BY <2>1 DEF ClientIds
      <3>2. NotYetCurrent(n)'
        BY <2>1, <2>2, <2>7, <3>1 DEF NotYetCurrent, LetThrough
      <3>3. ASSUME NEW c \in ClientIds, c # n PROVE NotYetCurrent(c)'
        BY <2>2, <2>7, <3>3 DEF NotYetCurrent, LetThrough
      <3>4. QED
        BY <3>2, <3>3
    <2>6. Registered' = 1..Cardinality(Registered')
      BY <1>1, RegistersFresh
    <2>8. /\ \A c \in Registered' : client'[c].user \in Users
          /\ \A c \in ClientIds \ Registered' : asking'[c] = "no"
      BY <2>1, <2>7 DEF Registered
    <2>9. \A v \in Users : current'[v] # NoClient =>
            current'[v] \in Registered' /\ client'[current'[v]].user = v
      BY <2>1, <2>2, <2>7 DEF Registered
    <2>10. QED
      BY <2>3, <2>4, <2>5, <2>6, <2>8, <2>9
  <1>2. ASSUME NEW c \in ClientIds, Usurp(c) PROVE ClientsInvariant'
    <2> DEFINE old == current[client[c].user]
    <2>1. c \in Registered
      BY <1>2 DEF Usurp
    <2>2. old # NoClient => old \in ClientIds /\ client[old].user = client[c].user
      BY <2>1 DEF Registered
    <2>3. /\ asking' = [asking EXCEPT ![c] = "usurped"] /\ UNCHANGED <<last, current, online>>
          /\ client' = IF old # NoClient /\ IsOnline(old)
                       THEN [client EXCEPT ![old].status = "usurped"] ELSE client
      BY <1>2 DEF Usurp
    <2>4. ClientsTypeOK'
      BY <2>2, <2>3 DEF ClientsTypeOK
    <2>5. Registered' = Registered /\ \A d \in ClientIds : client'[d].user = client[d].user
      BY <2>2, <2>3, SameClients DEF ClientsTypeOK, IsOnline
    <2>6. UsurpedIsReplaced'
      BY <2>1, <2>2, <2>3, <2>5 DEF ClientsTypeOK, UsurpedIsReplaced, LetThrough, Registered
    <2>7. \A d \in ClientIds : NotYetCurrent(d)'
      BY <1>2, <2>1, <2>2, <2>3, <2>5 DEF ClientsTypeOK, NotYetCurrent, LetThrough, Usurp
    <2>8. QED
      BY <2>1, <2>3, <2>4, <2>5, <2>6, <2>7 DEF ClientsTypeOK, Registered
  <1>3. ASSUME NEW c \in ClientIds, SetCurrent(c) PROVE ClientsInvariant'
    <2>1. c \in Registered
      BY <1>3 DEF SetCurrent
    <2>2. /\ asking[c] = "usurped" /\ asking' = [asking EXCEPT ![c] = "set"]
          /\ current' = [current EXCEPT ![client[c].user] = c] /\ UNCHANGED <<client, last, online>>
      BY <1>3 DEF SetCurrent
    <2>3. ClientsTypeOK' /\ Registered' = Registered
      BY <2>2 DEF ClientsTypeOK, Registered
    <2>4. UsurpedIsReplaced'
      <3> SUFFICES ASSUME NEW d \in Registered, client[d].status = "usurped", LetThrough(d)'
                   PROVE  \E e \in ClientIds : client[e].user = client[d].user /\ asking'[e] = "usurped"
        BY <2>2, <2>3 DEF UsurpedIsReplaced
      <3>1. client[d].user # client[c].user
        BY <2>1, <2>2 DEF NotYetCurrent, LetThrough, ClientsTypeOK, Registered
      <3>2. LetThrough(d)
        BY <2>1, <2>2, <3>1 DEF LetThrough, ClientsTypeOK
      <3>3. QED
        BY <2>2, <3>1, <3>2 DEF UsurpedIsReplaced, ClientsTypeOK
    <2>5. \A d \in ClientIds : NotYetCurrent(d)'
      BY <2>1, <2>2 DEF NotYetCurrent, LetThrough, ClientsTypeOK, Registered
    <2>6. QED
      BY <2>1, <2>2, <2>3, <2>4, <2>5 DEF ClientsTypeOK, Registered
  <1>4. ASSUME NEW c \in ClientIds, FinishRegistration(c) \/ FinishDeletion(c) PROVE ClientsInvariant'
    <2>1. /\ asking[c] \in {"set", "deleted"} /\ asking' = [asking EXCEPT ![c] = "no"]
          /\ UNCHANGED <<client, last, current>>
      BY <1>4 DEF FinishRegistration, FinishDeletion
    <2>2. online' \in [Users -> BOOLEAN]
      BY <1>4 DEF FinishRegistration, FinishDeletion, ClientsTypeOK
    <2>3. Registered' = Registered /\ ClientsTypeOK'
      BY <2>1, <2>2 DEF Registered, ClientsTypeOK
    <2>4. \A d \in ClientIds : asking'[d] = IF d = c THEN "no" ELSE asking[d]
      BY <2>1 DEF ClientsTypeOK
    <2>5. UsurpedIsReplaced'
      BY <2>1, <2>3, <2>4 DEF UsurpedIsReplaced, LetThrough
    <2>6. \A d \in ClientIds : NotYetCurrent(d)'
      BY <2>1, <2>4 DEF NotYetCurrent, LetThrough
    <2>7. QED
      BY <2>1, <2>3, <2>4, <2>5, <2>6
  <1>5. ASSUME NEW c \in ClientIds, Heartbeat(c) \/ TimeOut(c) PROVE ClientsInvariant'
    <2>1. \E fresh \in BOOLEAN : client' = [client EXCEPT ![c].fresh = fresh]
      BY <1>5 DEF Heartbeat, TimeOut
    <2>2. UNCHANGED <<last, current, asking, online>>
      BY <1>5 DEF Heartbeat, TimeOut
    <2>3. \A d \in ClientIds : client'[d].user = client[d].user /\ client'[d].status = client[d].status
      BY <2>1 DEF ClientsTypeOK
    <2>4. Registered' = Registered /\ ClientsTypeOK'
      BY <2>1, <2>2, <2>3 DEF Registered, ClientsTypeOK
    <2>5. QED
      BY <2>2, <2>3, <2>4 DEF UsurpedIsReplaced, NotYetCurrent, LetThrough, Registered
  <1>6. ASSUME NEW c \in ClientIds, NEW service \in BOOLEAN, DeleteClient(c, service)
        PROVE  ClientsInvariant'
    <2>1. /\ c \in Registered /\ UNCHANGED <<last, current, online>>
          /\ client' = [client EXCEPT ![c].status = "deleted", ![c].fresh = TRUE]
          /\ asking' = asking \/ (asking[c] = "no" /\ asking' = [asking EXCEPT ![c] = "deleted"])
      BY <1>6 DEF DeleteClient
    <2>3. \A d \in ClientIds : /\ client'[d].user = client[d].user
                               /\ client'[d].status = IF d = c THEN "deleted" ELSE client[d].status
      BY <2>1 DEF ClientsTypeOK
    <2>4. /\ \A d \in ClientIds : asking[d] # "no" => asking'[d] = asking[d]
          /\ \A d \in ClientIds : asking'[d] # asking[d] => asking'[d] = "deleted" /\ d = c
      BY <2>1 DEF ClientsTypeOK
    <2>5. client' \in [ClientIds -> ClientRow]
      BY <2>1, DeletedRow DEF ClientsTypeOK, ClientRow
    <2>2. asking' \in [ClientIds -> {"no", "recorded", "usurped", "set", "deleted"}]
      BY <2>1 DEF ClientsTypeOK
    <2>6. Registered' = Registered /\ current' = current /\ ClientsTypeOK'
      BY <2>1, <2>2, <2>3, <2>5 DEF Registered, ClientsTypeOK, ClientRow
    <2>7. \A d \in Registered : LetThrough(d)' = LetThrough(d)
      BY <2>3, <2>6 DEF LetThrough, Registered
    <2>8. UsurpedIsReplaced'
      <3> SUFFICES ASSUME NEW d \in Registered, client'[d].status = "usurped", LetThrough(d)
                   PROVE  \E e \in ClientIds : client'[e].user = client'[d].user /\ asking'[e] = "usurped"
        BY <2>6, <2>7 DEF UsurpedIsReplaced
      <3>1. d \in ClientIds /\ client[d].status = "usurped"
        BY <2>3 DEF Registered
      <3>2. PICK e \in ClientIds : client[e].user = client[d].user /\ asking[e] = "usurped"
        BY <3>1 DEF UsurpedIsReplaced
      <3>3. asking'[e] = "usurped" /\ client'[e].user = client'[d].user
        BY <2>3, <2>4, <3>1, <3>2
      <3>4. QED
        BY <3>3
    <2>9. \A d \in ClientIds : NotYetCurrent(d)'
      <3> SUFFICES ASSUME NEW d \in ClientIds, asking[d] \in {"recorded", "usurped"}
                   PROVE  client'[d].status # "usurped" /\ ~LetThrough(d)'
        BY <2>4 DEF NotYetCurrent
      <3>1. d \in Registered /\ client[d].status # "usurped" /\ ~LetThrough(d)
        BY DEF NotYetCurrent
      <3>2. QED
        BY <2>3, <2>7, <3>1
    <2>10. /\ \A d \in ClientIds \ Registered : asking'[d] = "no"
           /\ \A d \in Registered : client'[d].user \in Users
      BY <2>1, <2>3, <2>4 DEF Registered
    <2>11. \A u \in Users : current'[u] # NoClient =>
             current'[u] \in Registered /\ client'[current'[u]].user = u
      BY <2>3, <2>6 DEF Registered
    <2>12. QED
      BY <2>6, <2>8, <2>9, <2>10, <2>11
  <1>7. CASE UNCHANGED clientVars
    BY <1>7 DEF clientVars, ClientsTypeOK, Registered, UsurpedIsReplaced, NotYetCurrent, LetThrough
  <1>8. QED
    BY <1>1, <1>2, <1>3, <1>4, <1>5, <1>6, <1>7 DEF ClientsNext

\* A client that was usurped is let through no longer than the registration of the one
\* that replaces it takes, for any number of users and devices (clients.py:189-204).
THEOREM UsurpedAreReplaced == ClientsSpec => []UsurpedIsReplaced
  <1>1. ClientsInvariant => UsurpedIsReplaced
    BY DEF ClientsInvariant
  <1>2. QED
    BY ClientsStart, ClientsStep, <1>1, PTL DEF ClientsSpec

----------------------------------------------------------------------------
(* The players of a match.                                                  *)

\* Who is in a match, or is about to be.
AskedIn(m) == {p \in RosterPlayers : call[m] # NoCall /\ call[m].player = p}
Here(m) == ActiveIn(m) \cup AskedIn(m)

\* A player is in one match that is on, and is shown there unless he is being removed.
RosterInvariant ==
  /\ RosterTypeOK
  /\ \A m \in RosterMatches : IsFiniteSet(Here(m)) /\ Cardinality(Here(m)) <= Capacity
  /\ \A m \in RosterMatches : call[m].type = "remove" => call[m].player \in ActiveIn(m)
  /\ \A m, n \in RosterMatches \ completed : m # n => Here(m) \cap Here(n) = {}
  /\ \A m \in RosterMatches \ completed : \A p \in Here(m) :
       shown[p] = m \/ (call[m].type = "remove" /\ call[m].player = p)

LEMMA RosterStart == RosterInit => RosterInvariant
  <1> SUFFICES ASSUME RosterInit PROVE RosterInvariant
    OBVIOUS
  <1>1. \A m \in RosterMatches : Here(m) = {} /\ call[m].type = "none"
    BY DEF RosterInit, Here, AskedIn, ActiveIn, NoCall
  <1>2. RosterTypeOK
    BY DEF RosterInit, RosterTypeOK, Calls
  <1>3. QED
    BY <1>1, <1>2, FS_EmptySet, CapacityAssumption DEF RosterInvariant

\* What an entry of the calls may be.
LEMMA CallShape ==
    ASSUME RosterTypeOK, NEW m \in RosterMatches
    PROVE  /\ call[m] = NoCall <=> call[m].type = "none"
           /\ call[m] # NoCall => call[m].type \in {"add", "remove"} /\ call[m].player \in RosterPlayers
  BY DEF RosterTypeOK, Calls, NoCall

LEMMA RosterStep == RosterInvariant /\ [RosterNext]_rosterVars => RosterInvariant'
  <1> SUFFICES ASSUME RosterInvariant, [RosterNext]_rosterVars PROVE RosterInvariant'
    OBVIOUS
  <1> USE CapacityAssumption DEF RosterInvariant
  <1>1. ASSUME NEW m \in RosterMatches, NEW p \in RosterPlayers, AddLooks(m, p) PROVE RosterInvariant'
    <2>1. /\ call[m] = NoCall /\ m \notin completed /\ ~Elsewhere(m, p) /\ HasRoom(m)
          /\ call' = [call EXCEPT ![m] = [type |-> "add", player |-> p]]
          /\ shown' = [shown EXCEPT ![p] = m] /\ UNCHANGED <<completed, roster>>
      BY <1>1 DEF AddLooks
    <2>2. RosterTypeOK'
      BY <2>1 DEF RosterTypeOK, Calls
    <2>3. \A n \in RosterMatches : call'[n] = IF n = m THEN [type |-> "add", player |-> p] ELSE call[n]
      BY <2>1 DEF RosterTypeOK
    <2>4. \A n \in RosterMatches : ActiveIn(n)' = ActiveIn(n) /\ (n # m => Here(n)' = Here(n))
      BY <2>1, <2>3 DEF ActiveIn, Here, AskedIn
    <2>5. Here(m) = ActiveIn(m) /\ Here(m)' = ActiveIn(m) \cup {p}
      BY <2>1, <2>3, <2>4 DEF Here, AskedIn, NoCall
    <2>6. IsFiniteSet(Here(m)') /\ Cardinality(Here(m)') <= Capacity
      <3>1. IsFiniteSet(ActiveIn(m)) /\ Cardinality(ActiveIn(m)) \in Nat
        BY <2>5, FS_CardinalityType
      <3>2. Cardinality(ActiveIn(m) \cup {p}) \in {Cardinality(ActiveIn(m)), Cardinality(ActiveIn(m)) + 1}
        BY <3>1, FS_AddElement
      <3>3. IsFiniteSet(ActiveIn(m) \cup {p})
        BY <3>1, FS_AddElement
      <3>4. Cardinality(ActiveIn(m) \cup {p}) <= Capacity
        BY <2>1, <3>1, <3>2 DEF HasRoom
      <3>5. QED
        BY <2>5, <3>3, <3>4
    <2>7. \A n \in RosterMatches \ completed : n # m => p \notin Here(n)
      BY <2>1 DEF Elsewhere, Here, AskedIn
    <2>8. \A q \in RosterPlayers : shown'[q] = IF q = p THEN m ELSE shown[q]
      BY <2>1 DEF RosterTypeOK
    <2>9. \A n \in RosterMatches : Here(n) \subseteq RosterPlayers
      BY DEF Here, AskedIn, ActiveIn
    <2>10. \A k, n \in RosterMatches \ completed : k # n => Here(k)' \cap Here(n)' = {}
      BY <2>1, <2>4, <2>5, <2>7
    <2>11. \A n \in RosterMatches \ completed : \A q \in Here(n)' :
             shown'[q] = n \/ (call'[n].type = "remove" /\ call'[n].player = q)
      BY <2>1, <2>3, <2>4, <2>5, <2>7, <2>8, <2>9, CallShape
    <2>12. QED
      BY <2>1, <2>2, <2>3, <2>4, <2>6, <2>10, <2>11
  <1>2. ASSUME NEW m \in RosterMatches, AddCommits(m) \/ RemoveCommits(m) PROVE RosterInvariant'
    <2> DEFINE p == call[m].player
    <2>1. PICK now \in {"active", "quit"} :
            /\ call[m].type = IF now = "active" THEN "add" ELSE "remove"
            /\ roster' = [roster EXCEPT ![m][p] = now]
            /\ call' = [call EXCEPT ![m] = NoCall] /\ UNCHANGED <<completed, shown>>
      BY <1>2 DEF AddCommits, RemoveCommits
    <2>2. p \in RosterPlayers /\ call[m] # NoCall
      BY <2>1, CallShape
    <2>3. RosterTypeOK'
      BY <2>1, <2>2 DEF RosterTypeOK, Calls
    <2>4. /\ \A n \in RosterMatches : call'[n] = IF n = m THEN NoCall ELSE call[n]
          /\ \A n \in RosterMatches, q \in RosterPlayers :
               roster'[n][q] = IF n = m /\ q = p THEN now ELSE roster[n][q]
      BY <2>1, <2>2 DEF RosterTypeOK
    <2>5. /\ \A n \in RosterMatches : n # m => Here(n)' = Here(n) /\ ActiveIn(n)' = ActiveIn(n)
          /\ Here(m)' = IF now = "active" THEN Here(m) ELSE Here(m) \ {p}
      BY <2>1, <2>2, <2>4 DEF Here, AskedIn, ActiveIn
    <2>6. IsFiniteSet(Here(m)') /\ Cardinality(Here(m)') <= Cardinality(Here(m))
      BY <2>5, FS_Subset
    <2>7. \A n \in RosterMatches : IsFiniteSet(Here(n)') /\ Cardinality(Here(n)') <= Capacity
      <3>1. Cardinality(Here(m)) \in Nat /\ Cardinality(Here(m)') \in Nat
        BY <2>6, FS_CardinalityType
      <3>2. Cardinality(Here(m)') <= Capacity
        BY <2>6, <3>1
      <3>3. QED
        BY <2>5, <2>6, <3>2
    <2>8. \A n \in RosterMatches : call'[n].type = "remove" => call'[n].player \in ActiveIn(n)'
      BY <2>4, <2>5 DEF NoCall
    <2>9. \A k, n \in RosterMatches \ completed : k # n => Here(k)' \cap Here(n)' = {}
      BY <2>5
    <2>10. \A n \in RosterMatches \ completed : \A q \in Here(n)' :
             shown'[q] = n \/ (call'[n].type = "remove" /\ call'[n].player = q)
      BY <2>1, <2>4, <2>5
    <2>11. QED
      BY <2>1, <2>3, <2>7, <2>8, <2>9, <2>10
  <1>3. ASSUME NEW m \in RosterMatches, NEW p \in RosterPlayers, Ban(m, p) PROVE RosterInvariant'
    <2>1. /\ call[m] = NoCall /\ roster' = [roster EXCEPT ![m][p] = "banned"]
          /\ UNCHANGED <<completed, shown, call>>
      BY <1>3 DEF Ban
    <2>2. RosterTypeOK'
      BY <2>1 DEF RosterTypeOK
    <2>3. /\ \A n \in RosterMatches : n # m => Here(n)' = Here(n) /\ ActiveIn(n)' = ActiveIn(n)
          /\ Here(m)' = Here(m) \ {p}
      BY <2>1 DEF RosterTypeOK, Here, AskedIn, ActiveIn
    <2>4. IsFiniteSet(Here(m)') /\ Cardinality(Here(m)') <= Cardinality(Here(m))
      BY <2>3, FS_Subset
    <2>5. \A n \in RosterMatches : IsFiniteSet(Here(n)') /\ Cardinality(Here(n)') <= Capacity
      <3>1. Cardinality(Here(m)) \in Nat /\ Cardinality(Here(m)') \in Nat
        BY <2>4, FS_CardinalityType
      <3>2. Cardinality(Here(m)') <= Capacity
        BY <2>4, <3>1
      <3>3. QED
        BY <2>3, <2>4, <3>2
    <2>6. QED
      BY <2>1, <2>2, <2>3, <2>5, CallShape
  <1>4. ASSUME NEW m \in RosterMatches, NEW p \in RosterPlayers, RemoveLooks(m, p) PROVE RosterInvariant'
    <2>1. /\ call[m] = NoCall /\ m \notin completed /\ roster[m][p] = "active"
          /\ call' = [call EXCEPT ![m] = [type |-> "remove", player |-> p]]
          /\ shown' = [shown EXCEPT ![p] = NoMatch] /\ UNCHANGED <<completed, roster>>
      BY <1>4 DEF RemoveLooks
    <2>2. RosterTypeOK'
      BY <2>1 DEF RosterTypeOK, Calls
    <2>3. /\ \A n \in RosterMatches : call'[n] = IF n = m THEN [type |-> "remove", player |-> p] ELSE call[n]
          /\ \A q \in RosterPlayers : q # p => shown'[q] = shown[q]
      BY <2>1 DEF RosterTypeOK
    <2>4. \A n \in RosterMatches : ActiveIn(n)' = ActiveIn(n) /\ Here(n)' = Here(n)
      BY <2>1, <2>3 DEF ActiveIn, Here, AskedIn
    <2>5. p \in ActiveIn(m) /\ p \in Here(m) /\ \A n \in RosterMatches : Here(n) \subseteq RosterPlayers
      BY <2>1 DEF ActiveIn, Here, AskedIn
    <2>6. \A n \in RosterMatches \ completed : \A q \in Here(n)' :
             shown'[q] = n \/ (call'[n].type = "remove" /\ call'[n].player = q)
      BY <2>1, <2>3, <2>4, <2>5, CallShape
    <2>7. QED
      BY <2>1, <2>2, <2>3, <2>4, <2>5, <2>6
  <1>5. ASSUME NEW m \in RosterMatches, Complete(m) PROVE RosterInvariant'
    <2>1. completed' = completed \cup {m} /\ UNCHANGED <<roster, shown, call>>
      BY <1>5 DEF Complete
    <2>2. \A n \in RosterMatches : ActiveIn(n)' = ActiveIn(n) /\ Here(n)' = Here(n)
      BY <2>1 DEF ActiveIn, Here, AskedIn
    <2>3. QED
      BY <2>1, <2>2 DEF RosterTypeOK
  <1>6. CASE UNCHANGED rosterVars
    <2>1. \A n \in RosterMatches : ActiveIn(n)' = ActiveIn(n) /\ Here(n)' = Here(n)
      BY <1>6 DEF rosterVars, ActiveIn, Here, AskedIn
    <2>2. QED
      BY <1>6, <2>1 DEF rosterVars, RosterTypeOK
  <1>7. QED
    BY <1>1, <1>2, <1>3, <1>4, <1>5, <1>6 DEF RosterNext

\* However the requests of match servers interleave, a match has no more players than it
\* may and each is shown in the match he is in (matches.py:813-853 and 962-992).
THEOREM RostersAreShown == RosterSpec => []RosterIsShown
  <1>1. RosterInvariant => RosterIsShown
    <2> SUFFICES ASSUME RosterInvariant, NEW m \in RosterMatches
                 PROVE  /\ Cardinality(ActiveIn(m)) <= Capacity
                        /\ (m \notin completed /\ call[m] = NoCall) => \A p \in ActiveIn(m) : shown[p] = m
      BY DEF RosterIsShown
    <2>1. ActiveIn(m) \subseteq Here(m)
      BY DEF Here
    <2>2. Cardinality(ActiveIn(m)) <= Capacity
      BY <2>1, FS_Subset, FS_CardinalityType, CapacityAssumption DEF RosterInvariant
    <2>3. QED
      BY <2>1, <2>2, CallShape DEF RosterInvariant
  <1>2. QED
    BY RosterStart, RosterStep, <1>1, PTL DEF RosterSpec

----------------------------------------------------------------------------
(* Rich presence.                                                           *)

\* A request that will still send the presence as it is, unless it changes before.
Telling(r) ==
  \/ setter[r].step \in {"online", "notify"}
  \/ setter[r].step \in {"mode", "map"} /\ MatchChanged(setter[r])
  \/ setter[r].step = "post" /\ setter[r].seen = presence

PresenceInvariant ==
  /\ PresenceTypeOK
  /\ setter = [r \in Setters |-> setter[r]]
  /\ \A r \in Setters :
       /\ setter[r].step \in {"read", "mode", "map"} => setter[r].map \in Maps
       /\ setter[r].step \in {"read", "mode"} => setter[r].mode \in Modes
  /\ owed # {} => misled \/ \E r \in Setters : Telling(r)

LEMMA PresenceStart == PresenceInit => PresenceInvariant
  <1> SUFFICES ASSUME PresenceInit PROVE PresenceInvariant
    OBVIOUS
  <1>1. \A r \in Setters : setter[r].step = "no"
    BY DEF PresenceInit, Resting
  <1>2. PresenceTypeOK
    BY <1>1, PresenceAssumption DEF PresenceInit, PresenceTypeOK
  <1>3. QED
    BY <1>1, <1>2 DEF PresenceInit, PresenceInvariant

\* Where r goes, the others stay.
LEMMA OneAdvances ==
    ASSUME PresenceInvariant, NEW r \in Setters, NEW x, Advance(r, x)
    PROVE  /\ \A s \in Setters : setter'[s] = IF s = r THEN x ELSE setter[s]
           /\ setter' = [s \in Setters |-> setter'[s]]
  BY DEF PresenceInvariant, Advance

\* A step that writes nothing: who was telling goes on to.
LEMMA LooksAreTold ==
    ASSUME PresenceInvariant, NEW r \in Setters, NEW x, Advance(r, x),
           UNCHANGED <<presence, befriended, owed, misled>>,
           x.step \in {"online", "read", "mode", "post"},
           x.step \in {"read", "mode"} => x.map \in Maps /\ x.mode \in Modes,
           Telling(r) => Telling(r)'
    PROVE  PresenceInvariant'
  <1>1. /\ \A s \in Setters : setter'[s] = IF s = r THEN x ELSE setter[s]
        /\ setter' = [s \in Setters |-> setter'[s]]
    BY OneAdvances
  <1>2. PresenceTypeOK'
    BY <1>1 DEF PresenceInvariant, PresenceTypeOK
  <1>3. \A s \in Setters : Telling(s) => Telling(s)'
    BY <1>1 DEF Telling
  <1>4. QED
    BY <1>1, <1>2, <1>3 DEF PresenceInvariant

\* A write by r, after which r tells, or is misled, if it changed anything.
LEMMA WritesAreTold ==
    ASSUME PresenceInvariant, NEW r \in Setters, NEW new, NEW x,
           new \in [online : {"", "0", "1"}, map : Maps, mode : Modes],
           HSet(new), Advance(r, x), befriended' = befriended,
           misled' \in BOOLEAN, misled => misled',
           x.step \in {"no", "map", "notify"}, x.step = "map" => x.map \in Maps,
           new # presence => misled' \/ Telling(r)',
           Telling(r) => misled' \/ Telling(r)'
    PROVE  PresenceInvariant'
  <1>1. presence' = new /\ owed' = IF new = presence THEN owed ELSE befriended
    BY DEF HSet
  <1>2. /\ \A s \in Setters : setter'[s] = IF s = r THEN x ELSE setter[s]
        /\ setter' = [s \in Setters |-> setter'[s]]
    BY OneAdvances
  <1>3. PresenceTypeOK'
    BY <1>1, <1>2 DEF PresenceInvariant, PresenceTypeOK
  <1>4. ASSUME owed' # {} PROVE misled' \/ \E s \in Setters : Telling(s)'
    <2>1. CASE new # presence
      BY <2>1
    <2>2. CASE new = presence
      <3>1. misled \/ \E s \in Setters : Telling(s)
        BY <1>1, <1>4, <2>2 DEF PresenceInvariant
      <3>2. \A s \in Setters : s # r /\ Telling(s) => Telling(s)'
        BY <1>1, <1>2, <2>2 DEF Telling
      <3>3. QED
        BY <3>1, <3>2
    <2>3. QED
      BY <2>1, <2>2
  <1>5. QED
    BY <1>2, <1>3, <1>4 DEF PresenceInvariant

LEMMA PresenceStep == PresenceInvariant /\ [PresenceNext]_presenceVars => PresenceInvariant'
  <1> SUFFICES ASSUME PresenceInvariant, [PresenceNext]_presenceVars PROVE PresenceInvariant'
    OBVIOUS
  <1> DEFINE Hash == [online : {"", "0", "1"}, map : Maps, mode : Modes]
  <1>1. ASSUME NEW r \in Setters, NEW on \in BOOLEAN, SetOnlineLooks(r, on)
        PROVE  PresenceInvariant'
    <2>1. PICK x : x = [step |-> "online", old |-> presence.online, new |-> on]
      OBVIOUS
    <2>2. /\ setter[r] = Resting /\ Advance(r, x) /\ UNCHANGED <<presence, befriended, owed, misled>>
          /\ x.step = "online"
      BY <1>1, <2>1 DEF SetOnlineLooks
    <2>3. ~Telling(r)
      <3>1. setter[r].step = "no"
        BY <2>2 DEF Resting
      <3>2. QED
        BY <3>1 DEF Telling
    <2>4. QED
      BY <2>2, <2>3, LooksAreTold
  <1>2. ASSUME NEW r \in Setters, SetOnlineStores(r) PROVE PresenceInvariant'
    <2>1. PICK x : x = [step |-> "notify"]
      OBVIOUS
    <2>2. PICK new : new = [presence EXCEPT !.online = OnlineStored(setter[r].new)]
      OBVIOUS
    <2>3. HSet(new) /\ Advance(r, x) /\ UNCHANGED <<befriended, misled>> /\ x.step = "notify"
      BY <1>2, <2>1, <2>2 DEF SetOnlineStores, OnlineChanged
    <2>4. new \in Hash
      BY <2>2 DEF PresenceInvariant, PresenceTypeOK, OnlineStored
    <2>5. setter'[r] = x
      BY <2>3, OneAdvances
    <2>6. Telling(r)' /\ misled' \in BOOLEAN
      BY <2>3, <2>5 DEF Telling, PresenceInvariant, PresenceTypeOK
    <2>7. QED
      BY <2>3, <2>4, <2>6, WritesAreTold
  <1>3. ASSUME NEW r \in Setters, NEW map \in Maps, NEW mode \in Modes, SetMatchReadsMode(r, map, mode)
        PROVE  PresenceInvariant'
    <2>1. PICK x : x = [step |-> "read", oldMode |-> presence.mode, map |-> map, mode |-> mode]
      OBVIOUS
    <2>2. /\ setter[r] = Resting /\ Advance(r, x) /\ UNCHANGED <<presence, befriended, owed, misled>>
          /\ x.step = "read" /\ x.map \in Maps /\ x.mode \in Modes
      BY <1>3, <2>1 DEF SetMatchReadsMode
    <2>3. ~Telling(r)
      <3>1. setter[r].step = "no"
        BY <2>2 DEF Resting
      <3>2. QED
        BY <3>1 DEF Telling
    <2>4. QED
      BY <2>2, <2>3, LooksAreTold
  <1>4. ASSUME NEW r \in Setters, SetMatchReadsMap(r) PROVE PresenceInvariant'
    <2>1. PICK x : x = [step |-> "mode", oldMode |-> setter[r].oldMode, oldMap |-> presence.map,
                        map |-> setter[r].map, mode |-> setter[r].mode]
      OBVIOUS
    <2>2. /\ setter[r].step = "read" /\ Advance(r, x) /\ UNCHANGED <<presence, befriended, owed, misled>>
          /\ x.step = "mode" /\ x.map = setter[r].map /\ x.mode = setter[r].mode
      BY <1>4, <2>1 DEF SetMatchReadsMap
    <2>3. x.map \in Maps /\ x.mode \in Modes
      BY <2>2 DEF PresenceInvariant
    <2>4. ~Telling(r)
      BY <2>2 DEF Telling
    <2>5. QED
      BY <2>2, <2>3, <2>4, LooksAreTold
  <1>5. ASSUME NEW r \in Setters, SetMatchStoresMode(r) PROVE PresenceInvariant'
    <2>1. PICK old : old = setter[r]
      OBVIOUS
    <2>2. PICK x : x = [old EXCEPT !.step = "map"]
      OBVIOUS
    <2>3. PICK new : new = [presence EXCEPT !.mode = old.mode]
      OBVIOUS
    <2>4. /\ old.step = "mode" /\ HSet(new) /\ Advance(r, x) /\ befriended' = befriended
          /\ misled' = (misled \/ (~MatchChanged(old) /\ presence.mode # old.oldMode))
      BY <1>5, <2>1, <2>2, <2>3 DEF SetMatchStoresMode
    <2>5. /\ presence \in Hash /\ old.mode \in Modes /\ old.map \in Maps /\ misled \in BOOLEAN
      BY <2>1, <2>4 DEF PresenceInvariant, PresenceTypeOK
    <2>6. /\ new \in Hash
          /\ new # presence => presence.mode # old.mode
      BY <2>3, <2>5
    <2>7. /\ x.step = "map" /\ x.mode = old.mode /\ x.map = old.map
          /\ x.oldMode = old.oldMode /\ x.oldMap = old.oldMap
      <3>1. setter[r].step = "mode" => TRUE
        OBVIOUS
      <3>2. QED
        BY <2>2
    <2>8. setter'[r] = x
      BY <2>4, OneAdvances
    <2>9. Telling(r)' <=> MatchChanged(old)
      BY <2>7, <2>8 DEF Telling, MatchChanged
    <2>10. new # presence => misled' \/ Telling(r)'
      BY <2>4, <2>6, <2>9 DEF MatchChanged
    <2>11. Telling(r) => Telling(r)'
      BY <2>1, <2>4, <2>9 DEF Telling
    <2>12. misled' \in BOOLEAN /\ (misled => misled')
      BY <2>4
    <2>13. QED
      BY <2>4, <2>5, <2>6, <2>7, <2>10, <2>11, <2>12, WritesAreTold
  <1>6. ASSUME NEW r \in Setters, SetMatchStoresMap(r) PROVE PresenceInvariant'
    <2>1. PICK old : old = setter[r]
      OBVIOUS
    <2>2. PICK x : x = IF MatchChanged(old) THEN [step |-> "notify"] ELSE Resting
      OBVIOUS
    <2>3. PICK new : new = [presence EXCEPT !.map = old.map]
      OBVIOUS
    <2>4. /\ old.step = "map" /\ HSet(new) /\ Advance(r, x) /\ befriended' = befriended
          /\ misled' = (misled \/ (~MatchChanged(old) /\ presence.map # old.oldMap))
      BY <1>6, <2>1, <2>2, <2>3 DEF SetMatchStoresMap
    <2>5. /\ presence \in Hash /\ old.map \in Maps /\ misled \in BOOLEAN
      BY <2>1, <2>4 DEF PresenceInvariant, PresenceTypeOK
    <2>6. /\ new \in Hash
          /\ new # presence => presence.map # old.map
      BY <2>3, <2>5
    <2>7. x.step = IF MatchChanged(old) THEN "notify" ELSE "no"
      BY <2>2 DEF Resting
    <2>8. setter'[r] = x
      BY <2>4, OneAdvances
    <2>9. MatchChanged(old) => Telling(r)'
      BY <2>7, <2>8 DEF Telling
    <2>10. new # presence => misled' \/ Telling(r)'
      BY <2>4, <2>6, <2>9 DEF MatchChanged
    <2>11. Telling(r) => Telling(r)'
      BY <2>1, <2>4, <2>9 DEF Telling
    <2>12. misled' \in BOOLEAN /\ (misled => misled')
      BY <2>4
    <2>13. QED
      BY <2>4, <2>6, <2>7, <2>10, <2>11, <2>12, WritesAreTold
  <1>7. ASSUME NEW r \in Setters, ReadPresence(r) PROVE PresenceInvariant'
    <2>1. PICK x : x = [step |-> "post", seen |-> presence]
      OBVIOUS
    <2>2. /\ Advance(r, x) /\ UNCHANGED <<presence, befriended, owed, misled>>
          /\ x.step = "post" /\ x.seen = presence
      BY <1>7, <2>1 DEF ReadPresence
    <2>3. setter'[r] = x
      BY <2>2, OneAdvances
    <2>4. Telling(r)'
      BY <2>2, <2>3 DEF Telling
    <2>5. QED
      BY <2>2, <2>4, LooksAreTold
  <1>8. ASSUME NEW r \in Setters, PostPresence(r) PROVE PresenceInvariant'
    <2>1. /\ setter[r].step = "post" /\ Advance(r, Resting) /\ UNCHANGED <<presence, befriended>>
          /\ IF setter[r].seen = presence THEN owed' = {} /\ misled' = FALSE ELSE UNCHANGED <<owed, misled>>
      BY <1>8 DEF PostPresence
    <2>2. /\ \A s \in Setters : setter'[s] = IF s = r THEN Resting ELSE setter[s]
          /\ setter' = [s \in Setters |-> setter'[s]]
      BY <2>1, OneAdvances
    <2>3. Resting.step = "no"
      BY DEF Resting
    <2>4. PresenceTypeOK'
      BY <2>1, <2>2, <2>3 DEF PresenceInvariant, PresenceTypeOK
    <2>5. owed' # {} => misled' \/ \E s \in Setters : Telling(s)'
      BY <2>1, <2>2 DEF PresenceInvariant, Telling
    <2>6. QED
      BY <2>2, <2>3, <2>4, <2>5 DEF PresenceInvariant
  <1>9. ASSUME NEW f \in Followers, FriendsChange(f) PROVE PresenceInvariant'
    <2>1. /\ befriended' \subseteq Followers /\ owed' = owed \cap befriended'
          /\ UNCHANGED <<presence, setter, misled>>
      BY <1>9 DEF FriendsChange, PresenceInvariant, PresenceTypeOK
    <2>2. QED
      BY <2>1 DEF PresenceInvariant, PresenceTypeOK, Telling
  <1>10. CASE UNCHANGED presenceVars
    BY <1>10 DEF presenceVars, PresenceInvariant, PresenceTypeOK, Telling
  <1>11. QED
    BY <1>1, <1>2, <1>3, <1>4, <1>5, <1>6, <1>7, <1>8, <1>9, <1>10 DEF PresenceNext

\* However many requests about a player overlap, a change of his presence is lost to his
\* friends only when a match server set what it had read and wrote over what another had set
\* in between (richpresence.py:64-69 and 101-132).
THEOREM FriendsAreAlwaysTold == PresenceSpec => []FriendsAreTold
  <1>1. PresenceInvariant => FriendsAreTold
    <2>1. Resting.step = "no"
      BY DEF Resting
    <2>2. QED
      BY <2>1 DEF PresenceInvariant, FriendsAreTold, Telling
  <1>2. QED
    BY PresenceStart, PresenceStep, <1>1, PTL DEF PresenceSpec

----------------------------------------------------------------------------
(* Game servers and the keys of their matches.                              *)

Keyed(m) == match[m].key # NoUniqueKey

\* A request with a key has the lock, and once it has looked, the only active matches with
\* its key are those that woke.
RequestHolds(m) ==
  request[m].step # "none" /\ request[m].key # NoUniqueKey =>
    /\ holder = m
    /\ request[m].step = "writing" =>
         match[m].key = NoUniqueKey /\ \A n \in Active \ woken : match[n].key # request[m].key

ServersInvariant ==
  /\ ServersTypeOK
  /\ request \in [ServerMatches -> [step : {"none", "looking", "writing"}, key : MatchKeys \cup {NoUniqueKey}]]
  /\ \A s \in Servers : beat[s] # "late"
  /\ \A m \in ServerMatches : match[m].status = "none" => ~Keyed(m)
  /\ \A m \in ServerMatches : RequestHolds(m)
  /\ KeysAreUnique

LEMMA ServersStart == ServersInit => ServersInvariant
  <1> SUFFICES ASSUME ServersInit PROVE ServersInvariant
    OBVIOUS
  <1>1. /\ \A m \in ServerMatches : match[m] = [status |-> "none", server |-> NoServer, key |-> NoUniqueKey]
        /\ \A m \in ServerMatches : request[m].step = "none"
    BY DEF ServersInit, NoServerRequest
  <1>2. ServersTypeOK
    BY <1>1 DEF ServersInit, ServersTypeOK, ServerStatuses, MatchStatuses
  <1>3. request \in [ServerMatches -> [step : {"none", "looking", "writing"}, key : MatchKeys \cup {NoUniqueKey}]]
    BY DEF ServersInit, NoServerRequest
  <1>4. Active = {}
    BY <1>1 DEF Active
  <1>5. \A m \in ServerMatches : RequestHolds(m) /\ ~Keyed(m)
    BY <1>1 DEF RequestHolds, Keyed
  <1>6. QED
    BY <1>2, <1>3, <1>4, <1>5 DEF ServersInit, ServersInvariant, KeysAreUnique

\* Whatever comes to be found without being given a key by this step is woken.
LEMMA NoneComesBack ==
    ASSUME ServersInvariant, NotesWoken, NEW m \in ServerMatches,
           m \in Active' \ woken', match'[m].key # NoUniqueKey, match'[m].key = match[m].key
    PROVE  m \in Active \ woken
  BY DEF NotesWoken, Active

\* What the servers do on their own.
LEMMA ServersOnTheirOwn ==
    ASSUME ServersInvariant, UNCHANGED <<match, request, holder>>, NotesWoken, ServersTypeOK',
           \A s \in Servers : beat'[s] # "late"
    PROVE  ServersInvariant'
  <1>1. \A m \in ServerMatches : m \in Active' \ woken' /\ match[m].key # NoUniqueKey => m \in Active \ woken
    BY NoneComesBack
  <1>2. Active' \subseteq ServerMatches
    BY DEF Active
  <1>3. KeysAreUnique'
    BY <1>1, <1>2 DEF KeysAreUnique, ServersInvariant
  <1>4. \A m \in ServerMatches : RequestHolds(m)'
    BY <1>1, <1>2 DEF RequestHolds, ServersInvariant
  <1>5. QED
    BY <1>3, <1>4 DEF ServersInvariant, Keyed

\* A request that ends; the match it was about may have got another key.
LEMMA DoneHolds ==
    ASSUME ServersInvariant, NEW m \in ServerMatches, Done(m), UNCHANGED beat, ServersTypeOK',
           \A n \in ServerMatches : n # m => match'[n] = match[n],
           match'[m].status = "none" => ~Keyed(m)',
           KeysAreUnique',
           \A n \in ServerMatches \ {m} : holder = n =>
             \A x \in Active' \ woken' : match'[x].key # NoUniqueKey => x \in Active \ woken /\ match'[x].key = match[x].key
    PROVE  ServersInvariant'
  <1>1. /\ request' = [request EXCEPT ![m] = NoServerRequest]
        /\ holder' = IF holder = m THEN Nobody ELSE holder
    BY DEF Done
  <1>2. request' \in [ServerMatches -> [step : {"none", "looking", "writing"}, key : MatchKeys \cup {NoUniqueKey}]]
    BY <1>1 DEF ServersInvariant, NoServerRequest
  <1>3. request'[m].step = "none" /\ \A n \in ServerMatches : n # m => request'[n] = request[n]
    BY <1>1 DEF ServersInvariant, NoServerRequest
  <1>4. \A n \in ServerMatches : RequestHolds(n)'
    <2> SUFFICES ASSUME NEW n \in ServerMatches, n # m PROVE RequestHolds(n)'
      BY <1>3 DEF RequestHolds
    <2>1. request'[n] = request[n] /\ match'[n] = match[n] /\ RequestHolds(n)
      BY <1>3 DEF ServersInvariant
    <2>2. holder = n => holder' = n
      BY <1>1
    <2>3. QED
      BY <2>1, <2>2 DEF RequestHolds
  <1>5. QED
    BY <1>2, <1>4 DEF ServersInvariant, Keyed

LEMMA ServersStep == ServersInvariant /\ [ServersNext]_serverVars => ServersInvariant'
  <1> SUFFICES ASSUME ServersInvariant, [ServersNext]_serverVars PROVE ServersInvariant'
    OBVIOUS
  <1> DEFINE ServerRow == [status : ServerStatuses \cup {"none"}, machine : Machines \cup {"none"}, fresh : BOOLEAN]
  <1>1. ASSUME NEW a \in Machines, RegisterMachine(a) PROVE ServersInvariant'
    <2>1. machine' = machine \cup {a} /\ UNCHANGED <<server, match, beat, request, holder, woken>>
      BY <1>1 DEF RegisterMachine
    <2>2. ServersTypeOK'
      BY <2>1 DEF ServersTypeOK, ServersInvariant
    <2>3. QED
      BY <2>1, <2>2 DEF ServersInvariant, Keyed, RequestHolds, KeysAreUnique, Active, Running
  <1>2. ASSUME NEW s \in Servers, NEW row \in ServerRow, server' = [server EXCEPT ![s] = row],
               machine' \subseteq Machines, beat' \in [Servers -> {"no", "in time"}],
               UNCHANGED <<match, request, holder>>, NotesWoken
        PROVE  ServersInvariant'
    <2>1. woken' \subseteq ServerMatches
      BY <1>2 DEF NotesWoken, Active
    <2>2. ServersTypeOK'
      BY <1>2, <2>1 DEF ServersTypeOK, ServersInvariant
    <2>3. QED
      BY <1>2, <2>2, ServersOnTheirOwn
  <1>3. /\ server \in [Servers -> ServerRow] /\ machine \subseteq Machines
        /\ beat \in [Servers -> {"no", "in time"}]
    BY DEF ServersInvariant, ServersTypeOK
  <1>4. ASSUME NEW s \in Servers, NEW a \in Machines, NEW now \in ServerStatuses, RegisterServer(s, a, now)
        PROVE  ServersInvariant'
    <2>1. PICK row : row = [status |-> now, machine |-> a, fresh |-> TRUE]
      OBVIOUS
    <2>2. /\ server' = [server EXCEPT ![s] = row] /\ machine' = machine \cup {a}
          /\ UNCHANGED <<match, beat, request, holder>> /\ NotesWoken
      BY <1>4, <2>1 DEF RegisterServer
    <2>3. row \in ServerRow
      BY <2>1
    <2>4. machine' \subseteq Machines /\ beat' \in [Servers -> {"no", "in time"}]
      BY <1>3, <2>2
    <2>5. QED
      BY <1>2, <2>2, <2>3, <2>4
  <1>5. ASSUME NEW s \in Servers, NEW now \in ServerStatuses, UpdateServer(s, now) PROVE ServersInvariant'
    <2>1. PICK row : row = [server[s] EXCEPT !.status = now]
      OBVIOUS
    <2>2. /\ server' = [server EXCEPT ![s] = row] /\ UNCHANGED <<machine, match, beat, request, holder>> /\ NotesWoken
      BY <1>5, <2>1 DEF UpdateServer
    <2>3. row \in ServerRow
      BY <1>3, <2>1
    <2>4. QED
      BY <1>2, <1>3, <2>2, <2>3
  <1>6. ASSUME NEW s \in Servers, BeatLooks(s) PROVE ServersInvariant'
    <2>1. /\ beat' = [beat EXCEPT ![s] = "in time"] /\ UNCHANGED <<machine, server, match, request, holder, woken>>
      BY <1>6 DEF BeatLooks, MayBeat
    <2>2. beat' \in [Servers -> {"no", "in time"}]
      BY <1>3, <2>1
    <2>3. ServersTypeOK' /\ \A t \in Servers : beat'[t] # "late"
      BY <2>1, <2>2 DEF ServersTypeOK, ServersInvariant
    <2>4. QED
      BY <2>1, <2>3 DEF ServersInvariant, Keyed, RequestHolds, KeysAreUnique, Active, Running
  <1>7. ASSUME NEW s \in Servers, BeatCommits(s) PROVE ServersInvariant'
    <2>1. PICK row : row = [server[s] EXCEPT !.fresh = TRUE]
      OBVIOUS
    <2>2. beat[s] = "in time"
      BY <1>7 DEF BeatCommits, ServersInvariant, ServersTypeOK
    <2>3. /\ server' = [server EXCEPT ![s] = row] /\ NotesWoken
          /\ beat' = [beat EXCEPT ![s] = "no"] /\ UNCHANGED <<machine, match, request, holder>>
      BY <1>7, <2>1, <2>2 DEF BeatCommits
    <2>4. row \in ServerRow
      BY <1>3, <2>1
    <2>5. beat' \in [Servers -> {"no", "in time"}] /\ machine' \subseteq Machines
      BY <1>3, <2>3
    <2>6. QED
      BY <1>2, <2>3, <2>4, <2>5
  <1>8. ASSUME NEW s \in Servers, ServerLapses(s) PROVE ServersInvariant'
    <2>1. PICK row : row = [server[s] EXCEPT !.fresh = FALSE]
      OBVIOUS
    <2>2. /\ server' = [server EXCEPT ![s] = row] /\ NotesWoken
          /\ UNCHANGED <<machine, match, beat, request, holder>>
      BY <1>8, <2>1 DEF ServerLapses
    <2>3. row \in ServerRow
      BY <1>3, <2>1
    <2>4. QED
      BY <1>2, <1>3, <2>2, <2>3
  <1>9. ASSUME NEW m \in ServerMatches, Look(m) PROVE ServersInvariant'
    <2>1. request[m].step = "looking" /\ UNCHANGED <<machine, server, match, beat, woken>>
      BY <1>9 DEF Look
    <2>2. Active' = Active
      BY <2>1 DEF Active, Running
    <2>3. ServersTypeOK' /\ KeysAreUnique'
      <3>1. holder' \in {holder, Nobody}
        BY <1>9 DEF Look, Done
      <3>2. \A n \in ServerMatches : request'[n].step \in {"none", "looking", "writing"}
        <4>1. \/ request' = [request EXCEPT ![m] = NoServerRequest]
              \/ request' = [request EXCEPT ![m].step = "writing"]
          BY <1>9 DEF Look, Done
        <4>2. QED
          BY <4>1 DEF ServersInvariant, NoServerRequest
      <3>3. ServersTypeOK'
        BY <2>1, <3>1, <3>2 DEF ServersTypeOK, ServersInvariant
      <3>4. QED
        BY <2>1, <2>2, <3>3 DEF ServersInvariant, KeysAreUnique
    <2>4. CASE Done(m)
      BY <2>1, <2>2, <2>3, <2>4, DoneHolds DEF ServersInvariant, Keyed
    <2>5. CASE /\ request' = [request EXCEPT ![m].step = "writing"] /\ UNCHANGED holder
               /\ request[m].key # NoUniqueKey => match[m].key = NoUniqueKey
               /\ ~UniqueKeyInUse(request[m].key)
      <3>1. request' \in [ServerMatches -> [step : {"none", "looking", "writing"}, key : MatchKeys \cup {NoUniqueKey}]]
        BY <2>5 DEF ServersInvariant
      <3>2. /\ \A n \in ServerMatches : n # m => request'[n] = request[n]
            /\ request'[m].step = "writing" /\ request'[m].key = request[m].key
        BY <2>5 DEF ServersInvariant
      <3>3. RequestHolds(m)'
        BY <2>1, <2>2, <2>5, <3>2 DEF ServersInvariant, RequestHolds, UniqueKeyInUse
      <3>4. \A n \in ServerMatches : RequestHolds(n)'
        BY <2>1, <2>2, <2>5, <3>2, <3>3 DEF ServersInvariant, RequestHolds
      <3>5. QED
        BY <2>1, <2>3, <3>1, <3>4 DEF ServersInvariant, Keyed
    <2>6. QED
      BY <1>9, <2>4, <2>5 DEF Look
  <1>10. ASSUME NEW m \in ServerMatches, NEW s \in Servers, NEW now \in MatchStatuses, Write(m, s, now)
        PROVE  ServersInvariant'
    <2> DEFINE key == request[m].key
    <2>1. PICK kept \in {match[m].key, NoUniqueKey} :
             match' = [match EXCEPT ![m] =
                         [status |-> now, server |-> s, key |-> IF key = NoUniqueKey THEN kept ELSE key]]
      BY <1>10 DEF Write
    <2>2. PICK row : row = [status |-> now, server |-> s, key |-> IF key = NoUniqueKey THEN kept ELSE key]
      OBVIOUS
    <2>3. /\ request[m].step = "writing" /\ Done(m) /\ UNCHANGED <<machine, server, beat>> /\ NotesWoken
          /\ match' = [match EXCEPT ![m] = row]
      BY <1>10, <2>2, <2>1 DEF Write
    <2>4. row.status # "none" /\ row.key = IF key = NoUniqueKey THEN kept ELSE key
      BY <2>2 DEF MatchStatuses
    <2>5. row \in [status : MatchStatuses \cup {"none"}, server : Servers \cup {NoServer}, key : MatchKeys \cup {NoUniqueKey}]
      BY <2>2, <2>1 DEF ServersInvariant, ServersTypeOK
    <2>6. \A n \in ServerMatches : match'[n] = IF n = m THEN row ELSE match[n]
      BY <2>3 DEF ServersTypeOK, ServersInvariant
    <2>7. woken' \subseteq ServerMatches /\ Active' \subseteq ServerMatches
      BY <2>3 DEF NotesWoken, Active
    <2>8. ServersTypeOK'
      <3>1. match' \in [ServerMatches -> [status : MatchStatuses \cup {"none"}, server : Servers \cup {NoServer},
                                          key : MatchKeys \cup {NoUniqueKey}]]
        BY <2>3, <2>5 DEF ServersTypeOK, ServersInvariant
      <3>2. \A n \in ServerMatches : request'[n].step \in {"none", "looking", "writing"}
        BY <2>3 DEF Done, NoServerRequest, ServersInvariant
      <3>3. holder' \in ServerMatches \cup {Nobody}
        BY <2>3 DEF Done, ServersInvariant, ServersTypeOK
      <3>4. QED
        BY <2>3, <2>7, <3>1, <3>2, <3>3 DEF ServersTypeOK, ServersInvariant
    <2>9. \A x \in Active' \ woken' :
            match'[x].key # NoUniqueKey /\ (x = m => key = NoUniqueKey) => x \in Active \ woken /\ match'[x].key = match[x].key
      <3>1. \A x \in ServerMatches :
              match'[x].key # NoUniqueKey /\ (x = m => key = NoUniqueKey) => match'[x].key = match[x].key
        BY <2>4, <2>6, <2>1
      <3>2. QED
        BY <2>3, <2>7, <3>1, NoneComesBack
    <2>10. CASE key = NoUniqueKey
      <3>1. KeysAreUnique'
        BY <2>9, <2>10 DEF KeysAreUnique, ServersInvariant
      <3>2. QED
        BY <2>3, <2>4, <2>6, <2>8, <2>9, <2>10, <3>1, DoneHolds
    <2>11. CASE key # NoUniqueKey
      <3>1. holder = m /\ \A n \in Active \ woken : match[n].key # key
        BY <2>3, <2>11 DEF RequestHolds, ServersInvariant
      <3>2. match'[m].key = key
        BY <2>4, <2>6, <2>11
      <3>3. KeysAreUnique'
        BY <2>9, <3>1, <3>2 DEF KeysAreUnique, ServersInvariant
      <3>4. QED
        BY <2>3, <2>4, <2>6, <2>8, <3>1, <3>3, DoneHolds
    <2>12. QED
      BY <2>10, <2>11
  <1>11. ASSUME NEW m \in ServerMatches, NEW key \in MatchKeys \cup {NoUniqueKey},
                PostMatch(m, key) \/ PutMatch(m, key)
         PROVE  ServersInvariant'
    <2>1. PICK r : r = [step |-> "looking", key |-> key]
      OBVIOUS
    <2>2. /\ key # NoUniqueKey => holder = Nobody
          /\ holder' = IF key = NoUniqueKey THEN holder ELSE m
          /\ request' = [request EXCEPT ![m] = r] /\ r.step = "looking" /\ r.key = key
          /\ UNCHANGED <<machine, server, match, beat, woken>>
      BY <1>11, <2>1 DEF PostMatch, PutMatch, Asks
    <2>3. /\ \A n \in ServerMatches : request'[n] = IF n = m THEN r ELSE request[n]
          /\ request' \in [ServerMatches -> [step : {"none", "looking", "writing"}, key : MatchKeys \cup {NoUniqueKey}]]
      BY <2>1, <2>2 DEF ServersInvariant
    <2>4. ServersTypeOK' /\ KeysAreUnique' /\ Active' = Active
      <3>1. ServersTypeOK'
        BY <2>2, <2>3 DEF ServersTypeOK, ServersInvariant
      <3>2. QED
        BY <2>2, <3>1 DEF ServersInvariant, KeysAreUnique, Active, Running
    <2>5. RequestHolds(m)'
      BY <2>2, <2>3 DEF RequestHolds
    <2>6. \A n \in ServerMatches : n # m => RequestHolds(n)'
      BY <2>2, <2>3, <2>4, HolderAssumption DEF RequestHolds, ServersInvariant
    <2>7. QED
      BY <2>2, <2>3, <2>4, <2>5, <2>6 DEF ServersInvariant, Keyed
  <1>12. CASE UNCHANGED serverVars
    <2>1. UNCHANGED <<machine, server, match, beat, request, holder, woken>>
      BY <1>12 DEF serverVars
    <2>2. Active' = Active
      BY <2>1 DEF Active, Running
    <2>3. \A m \in ServerMatches : RequestHolds(m)' /\ (match'[m].status = "none" => ~Keyed(m)')
      BY <2>1, <2>2 DEF ServersInvariant, RequestHolds, Keyed
    <2>4. ServersTypeOK' /\ KeysAreUnique'
      BY <2>1, <2>2 DEF ServersInvariant, ServersTypeOK, KeysAreUnique
    <2>5. QED
      BY <2>1, <2>3, <2>4 DEF ServersInvariant
  <1>13. QED
    BY <1>1, <1>4, <1>5, <1>6, <1>7, <1>9, <1>10, <1>11, <1>12, <1>8 DEF ServersNext

\* Of two matches that clients find under the same key, one at least was given its key
\* before and came to be found again, for any number of servers, matches and keys
\* (matches.py:151-162, 449-451 and 593-609, servers.py:353-361).
THEOREM KeysStayUnique == ServersSpec => []KeysAreUnique
  <1>1. ServersInvariant => KeysAreUnique
    BY DEF ServersInvariant
  <1>2. QED
    BY ServersStart, ServersStep, <1>1, PTL DEF ServersSpec

----------------------------------------------------------------------------
(* The server of a sandbox location.                                        *)

\* The key follows the one session at work from the request to the time its server has
\* registered; without a key none is at work as long as somebody is on his way to create one.
SandboxInvariant ==
  /\ SandboxTypeOK
  /\ \A s, t \in AtWork : s = t
  /\ \A s \in AtWork : session[s] = "placing" => IsPending
  /\ \A s \in AtWork : session[s] = "starting" => cached # NoPlacement
  /\ \A s \in AtWork : cached # NoPlacement => cached.id = s
  /\ cached = NoPlacement /\ (\E p \in Visitors : visit[p] # "away") => AtWork = {}
  /\ \A e \in news : /\ session[e.id] \notin {"none", "placing"}
                     /\ e.type = "Failed" => session[e.id] = "over"

LEMMA SandboxStart == SandboxInit => SandboxInvariant
  <1> SUFFICES ASSUME SandboxInit PROVE SandboxInvariant
    OBVIOUS
  <1>1. SandboxTypeOK
    BY DEF SandboxInit, SandboxTypeOK
  <1>2. AtWork = {}
    BY DEF SandboxInit, AtWork
  <1>3. QED
    BY <1>1, <1>2 DEF SandboxInit, SandboxInvariant

\* Where the visitors are may change freely unless there is no key.
LEMMA VisitorsMove ==
    ASSUME SandboxInvariant, UNCHANGED <<cached, session, news, usurped>>,
           visit' \in [Visitors -> {"away", "waits", "creates", "nukes"}],
           \/ cached # NoPlacement \/ AtWork = {}
           \/ \A p \in Visitors : visit'[p] = visit[p]
    PROVE  SandboxInvariant'
  BY DEF SandboxInvariant, SandboxTypeOK, AtWork, IsPending

\* Nothing of the one at work is lost when the key is deleted that nothing at work has.
LEMMA KeyIsDeleted ==
    ASSUME SandboxInvariant, SandboxTypeOK', cached' = NoPlacement, AtWork' = {},
           news' \subseteq news, UNCHANGED session
    PROVE  SandboxInvariant'
  BY DEF SandboxInvariant

LEMMA SandboxStep == SandboxInvariant /\ [SandboxNext]_sandboxVars => SandboxInvariant'
  <1> SUFFICES ASSUME SandboxInvariant, [SandboxNext]_sandboxVars PROVE SandboxInvariant'
    OBVIOUS
  <1>1. ASSUME NEW p \in Visitors, Enter(p) PROVE SandboxInvariant'
    <2>1. /\ UNCHANGED <<cached, session, news, usurped>> /\ visit' = [visit EXCEPT ![p] = "waits"]
          /\ \A s \in Sessions : session[s] # "running"
      BY <1>1 DEF Enter, Goes
    <2>2. visit' \in [Visitors -> {"away", "waits", "creates", "nukes"}]
      BY <2>1 DEF SandboxInvariant, SandboxTypeOK
    <2>3. cached # NoPlacement \/ AtWork = {}
      BY <2>1 DEF SandboxInvariant, AtWork, IsPending
    <2>4. QED
      BY <2>1, <2>2, <2>3, VisitorsMove
  <1>2. ASSUME NEW p \in Visitors, FindsNoPlacement(p) \/ StartsOver(p) \/ GivesUp(p) PROVE SandboxInvariant'
    <2>1. /\ UNCHANGED <<cached, session, news, usurped>> /\ visit[p] = "waits"
          /\ \E place \in {"creates", "away", "nukes"} : visit' = [visit EXCEPT ![p] = place]
      BY <1>2 DEF FindsNoPlacement, StartsOver, GivesUp, Goes
    <2>2. visit' \in [Visitors -> {"away", "waits", "creates", "nukes"}]
      BY <2>1 DEF SandboxInvariant, SandboxTypeOK
    <2>3. cached # NoPlacement \/ AtWork = {}
      BY <2>1 DEF SandboxInvariant
    <2>4. QED
      BY <2>1, <2>2, <2>3, VisitorsMove
  <1>3. ASSUME NEW p \in Visitors, Nukes(p) PROVE SandboxInvariant'
    <2>1. /\ visit[p] = "nukes" /\ visit' = [visit EXCEPT ![p] = "away"] /\ cached' = NoPlacement
          /\ usurped' = usurped \cup CachedId /\ UNCHANGED <<session, news>>
      BY <1>3 DEF Nukes, Goes
    <2>2. SandboxTypeOK'
      BY <2>1 DEF SandboxInvariant, SandboxTypeOK, CachedId, Placement
    <2>3. AtWork' \subseteq AtWork /\ \A s \in CachedId : s \notin AtWork'
      BY <2>1 DEF AtWork
    <2>4. AtWork' = {}
      BY <2>1, <2>3 DEF SandboxInvariant, CachedId
    <2>5. QED
      BY <2>1, <2>2, <2>4, KeyIsDeleted
  <1>4. ASSUME NEW p \in Visitors, Creates(p) PROVE SandboxInvariant'
    <2>1. visit[p] = "creates" /\ visit' = [visit EXCEPT ![p] = "away"] /\ UNCHANGED <<news, usurped>>
      BY <1>4 DEF Creates, Goes
    <2>2. visit' \in [Visitors -> {"away", "waits", "creates", "nukes"}]
      BY <2>1 DEF SandboxInvariant, SandboxTypeOK
    <2>3. CASE UNCHANGED <<cached, session>>
      <3>1. cached # NoPlacement \/ AtWork = {}
        BY <2>1 DEF SandboxInvariant
      <3>2. QED
        BY <2>1, <2>2, <2>3, <3>1, VisitorsMove
    <2>4. CASE cached = NoPlacement /\ StartsPlacement
      <3>1. PICK n \in Sessions : /\ session[n] = "none"
                                 /\ session' = [session EXCEPT ![n] = "placing"]
                                 /\ cached' = [id |-> n, status |-> "pending"]
        BY <2>4 DEF StartsPlacement
      <3>2. cached' \in Placement /\ cached' # NoPlacement /\ cached'.id = n /\ cached'.status = "pending"
        BY <3>1, SandboxAssumption DEF Placement
      <3>3. /\ session' \in [Sessions -> {"none", "placing", "starting", "running", "over"}]
            /\ \A s \in Sessions : session'[s] = IF s = n THEN "placing" ELSE session[s]
        BY <3>1 DEF SandboxInvariant, SandboxTypeOK
      <3>4. SandboxTypeOK'
        BY <2>1, <2>2, <3>2, <3>3 DEF SandboxInvariant, SandboxTypeOK
      <3>5. AtWork' \subseteq {n}
        <4>1. AtWork = {}
          BY <2>1, <2>4 DEF SandboxInvariant
        <4>2. QED
          BY <2>1, <3>3, <4>1 DEF AtWork
      <3>6. \A e \in news : e.id \in Sessions /\ e.id # n /\ session'[e.id] = session[e.id]
        BY <3>1, <3>3 DEF SandboxInvariant, SandboxTypeOK
      <3>7. QED
        BY <2>1, <3>2, <3>4, <3>5, <3>6 DEF SandboxInvariant, IsPending
    <2>5. QED
      BY <1>4, <2>3, <2>4 DEF Creates
  <1>5. ASSUME NEW s \in Sessions, GameLiftFulfils(s) \/ GameLiftFails(s) PROVE SandboxInvariant'
    <2>1. PICK to \in {"starting", "over"}, type \in {"Fulfilled", "Failed"} :
            GameLiftSettles(s, to, type) /\ (type = "Failed" => to = "over")
      BY <1>5 DEF GameLiftFulfils, GameLiftFails
    <2>2. PICK e : e = [type |-> type, id |-> s]
      OBVIOUS
    <2>3. /\ session[s] = "placing" /\ session' = [session EXCEPT ![s] = to]
          /\ news' = news \cup {e} /\ UNCHANGED <<visit, cached, usurped>>
      BY <2>1, <2>2 DEF GameLiftSettles
    <2>4. \A t \in Sessions : session'[t] = IF t = s THEN to ELSE session[t]
      BY <2>3 DEF SandboxInvariant, SandboxTypeOK
    <2>5. e \in [type : {"Fulfilled", "Failed"}, id : Sessions] /\ e.id = s /\ e.type = type
      BY <2>2
    <2>6. SandboxTypeOK'
      BY <2>3, <2>5 DEF SandboxInvariant, SandboxTypeOK
    <2>7. \A t \in AtWork' : t \in AtWork /\ (t # s => session'[t] = session[t])
      BY <2>3, <2>4 DEF AtWork
    <2>8. s \in AtWork' => cached # NoPlacement /\ session'[s] # "placing"
      BY <2>3, <2>4, <2>7 DEF SandboxInvariant, IsPending
    <2>9. \A f \in news' : /\ session'[f.id] \notin {"none", "placing"}
                           /\ f.type = "Failed" => session'[f.id] = "over"
      BY <2>1, <2>3, <2>4, <2>5 DEF SandboxInvariant, SandboxTypeOK
    <2>10. QED
      BY <2>3, <2>6, <2>7, <2>8, <2>9 DEF SandboxInvariant, IsPending
  <1>6. ASSUME NEW e \in news, FailureIsLost(e) PROVE SandboxInvariant'
    <2>1. news' \subseteq news /\ UNCHANGED <<visit, cached, session, usurped>>
      BY <1>6 DEF FailureIsLost
    <2>2. QED
      BY <2>1 DEF SandboxInvariant, SandboxTypeOK, AtWork, IsPending
  <1>7. ASSUME NEW e \in news, ProcessFulfilled(e) PROVE SandboxInvariant'
    <2>1. /\ news' = news \ {e} /\ UNCHANGED <<visit, session>>
          /\ usurped' = usurped \cup (CachedId \ {e.id})
          /\ cached' = IF cached = NoPlacement THEN NoPlacement ELSE [cached EXCEPT !.status = "completed"]
      BY <1>7 DEF ProcessFulfilled
    <2>2. /\ cached = NoPlacement => cached' = NoPlacement
          /\ cached # NoPlacement => /\ cached' \in Placement /\ cached' # NoPlacement
                                     /\ cached'.id = cached.id
      BY <2>1, SandboxAssumption DEF SandboxInvariant, SandboxTypeOK, Placement
    <2>3. SandboxTypeOK'
      BY <2>1, <2>2 DEF SandboxInvariant, SandboxTypeOK, CachedId, Placement
    <2>4. AtWork' \subseteq AtWork /\ \A s \in CachedId \ {e.id} : s \notin AtWork'
      BY <2>1 DEF AtWork
    <2>5. \A s \in AtWork' : session'[s] # "placing"
      <3>1. ASSUME NEW s \in AtWork', session[s] = "placing" PROVE FALSE
        <4>1. s \in AtWork /\ cached # NoPlacement /\ cached.id = s
          BY <2>4, <3>1 DEF SandboxInvariant, IsPending
        <4>2. session[e.id] # "placing"
          BY DEF SandboxInvariant
        <4>3. QED
          BY <2>4, <3>1, <4>1, <4>2 DEF CachedId
      <3>2. QED
        BY <2>1, <3>1
    <2>6. QED
      BY <2>1, <2>2, <2>3, <2>4, <2>5 DEF SandboxInvariant
  <1>8. ASSUME NEW e \in news, ProcessFailure(e) PROVE SandboxInvariant'
    <2>1. /\ e.type = "Failed" /\ news' = news \ {e} /\ cached' = NoPlacement
          /\ usurped' = usurped \cup (CachedId \ {e.id}) /\ UNCHANGED <<visit, session>>
      BY <1>8 DEF ProcessFailure
    <2>2. SandboxTypeOK'
      BY <2>1 DEF SandboxInvariant, SandboxTypeOK, CachedId, Placement
    <2>3. CASE cached = NoPlacement
      BY <2>1, <2>2, <2>3 DEF SandboxInvariant, AtWork, IsPending, CachedId
    <2>4. CASE cached # NoPlacement
      <3>1. session[e.id] = "over"
        BY <2>1 DEF SandboxInvariant
      <3>2. /\ AtWork' \subseteq AtWork /\ e.id \notin AtWork'
            /\ \A s \in CachedId \ {e.id} : s \notin AtWork'
        BY <2>1, <3>1 DEF AtWork
      <3>3. AtWork' = {}
        BY <2>4, <3>2 DEF SandboxInvariant, CachedId
      <3>4. QED
        BY <2>1, <2>2, <3>3, KeyIsDeleted
    <2>5. QED
      BY <2>3, <2>4
  <1>9. ASSUME NEW s \in Sessions, ServerRegisters(s) \/ ServerEnds(s) PROVE SandboxInvariant'
    <2>1. PICK to \in {"running", "over"} :
            /\ session' = [session EXCEPT ![s] = to]
            /\ session[s] \in {"starting", "running"} /\ UNCHANGED <<visit, cached, news, usurped>>
            /\ to = "running" => session[s] = "starting"
      BY <1>9 DEF ServerRegisters, ServerEnds
    <2>2. \A t \in Sessions : session'[t] = IF t = s THEN to ELSE session[t]
      BY <2>1 DEF SandboxInvariant, SandboxTypeOK
    <2>3. SandboxTypeOK'
      BY <2>1 DEF SandboxInvariant, SandboxTypeOK
    <2>4. \A t \in AtWork' : /\ t \in AtWork /\ t \in Sessions
                             /\ session'[t] \in {"placing", "starting"} => session'[t] = session[t]
      BY <2>1, <2>2 DEF AtWork
    <2>5. \A e \in news : e.id \in Sessions /\ e.type = "Failed" => e.id # s
      BY <2>1 DEF SandboxInvariant, SandboxTypeOK
    <2>6. \A e \in news : /\ session'[e.id] \notin {"none", "placing"}
                          /\ e.type = "Failed" => session'[e.id] = "over"
      <3>1. \A e \in news : e.id \in Sessions
        BY DEF SandboxInvariant, SandboxTypeOK
      <3>2. QED
        BY <2>2, <2>5, <3>1 DEF SandboxInvariant
    <2>7. QED
      BY <2>1, <2>3, <2>4, <2>6 DEF SandboxInvariant, IsPending
  <1>10. CASE CacheExpires
    <2>1. /\ cached # NoPlacement /\ cached' = NoPlacement /\ UNCHANGED <<visit, session, news, usurped>>
          /\ IF IsPending THEN session[cached.id] = "over"
             ELSE /\ session[cached.id] \in {"placing", "starting"} => cached.id \in usurped
                  /\ \A p \in Visitors : visit[p] = "away"
      BY <1>10 DEF CacheExpires
    <2>2. SandboxTypeOK' /\ AtWork' = AtWork
      BY <2>1 DEF SandboxInvariant, SandboxTypeOK, AtWork
    <2>3. CASE IsPending
      <3>1. AtWork' = {}
        BY <2>1, <2>2, <2>3 DEF SandboxInvariant, AtWork
      <3>2. QED
        BY <2>1, <2>2, <3>1, KeyIsDeleted
    <2>4. CASE ~IsPending
      <3>1. \A s \in AtWork : session[s] \notin {"placing", "starting"}
        BY <2>1, <2>4 DEF SandboxInvariant, AtWork
      <3>2. QED
        BY <2>1, <2>2, <2>4, <3>1 DEF SandboxInvariant
    <2>5. QED
      BY <2>3, <2>4
  <1>11. CASE UNCHANGED sandboxVars
    BY <1>11, VisitorsMove DEF sandboxVars, SandboxInvariant, SandboxTypeOK
  <1>12. QED
    BY <1>1, <1>2, <1>3, <1>4, <1>5, <1>6, <1>7, <1>8, <1>9, <1>10, <1>11 DEF SandboxNext

\* However many players enter a location at the same time, one server at most is placed,
\* starts or runs for it beside those whose key a waiter at his limit or the event of another
\* placement took (sandbox.py:56-58, 89-92 and 220-259).
THEOREM OneServerAtATime == SandboxSpec => []OneServerPerLocation
  <1>1. SandboxInvariant => OneServerPerLocation
    <2> SUFFICES ASSUME SandboxInvariant PROVE OneServerPerLocation
      OBVIOUS
    <2>1. AtWork = {} \/ \E s \in AtWork : AtWork = {s}
      BY DEF SandboxInvariant
    <2>2. Cardinality(AtWork) <= 1
      <3>1. CASE AtWork = {}
        BY <3>1, FS_EmptySet
      <3>2. ASSUME NEW s \in AtWork, AtWork = {s} PROVE Cardinality(AtWork) = 1
        BY <3>2, FS_Singleton
      <3>3. QED
        BY <2>1, <3>1, <3>2
    <2>3. \A s \in AtWork : session[s] = "placing" => IsPending /\ cached.id = s
      BY DEF SandboxInvariant, IsPending
    <2>4. QED
      BY <2>2, <2>3 DEF OneServerPerLocation
  <1>2. QED
    BY SandboxStart, SandboxStep, <1>1, PTL DEF SandboxSpec
----------------------------------------------------------------------------
(* Parts of sequences.                                                      *)

LEMMA RanksAreNumbers ==
    ASSUME NEW n \in Nat, NEW I \in SUBSET (1..n)
    PROVE  /\ IsFiniteSet(I) /\ Cardinality(I) \in 0..n
           /\ \A i \in I : Rank(I, i) \in 1..Cardinality(I)
  <1>1. IsFiniteSet(1..n) /\ Cardinality(1..n) = n
    BY FS_Interval
  <1>2. IsFiniteSet(I) /\ Cardinality(I) \in Nat /\ Cardinality(I) <= n
    BY <1>1, FS_Subset, FS_CardinalityType
  <1>3. ASSUME NEW i \in I PROVE Rank(I, i) \in 1..Cardinality(I)
    <2> DEFINE J == {j \in I : j <= i}
    <2>1. J \subseteq I /\ i \in J
      OBVIOUS
    <2>2. IsFiniteSet(J) /\ Cardinality(J) \in Nat /\ Cardinality(J) <= Cardinality(I)
      BY <1>2, <2>1, FS_Subset, FS_CardinalityType
    <2>3. Cardinality(J) # 0
      BY <2>1, <2>2, FS_EmptySet
    <2>4. QED
      BY <1>2, <2>2, <2>3 DEF Rank
  <1>4. QED
    BY <1>2, <1>3

\* The place of a greater number is greater.
LEMMA RanksAscend ==
    ASSUME NEW n \in Nat, NEW I \in SUBSET (1..n), NEW i \in I, NEW j \in I
    PROVE  /\ i < j => Rank(I, i) < Rank(I, j)
           /\ Rank(I, i) = Rank(I, j) => i = j
  <1>1. ASSUME NEW k \in I, NEW l \in I, k < l PROVE Rank(I, k) < Rank(I, l)
    <2> DEFINE K == {x \in I : x <= k}
               L == {x \in I : x <= l}
    <2>1. k \in Int /\ l \in Int /\ \A x \in I : x \in Int
      OBVIOUS
    <2>2. K \subseteq L /\ l \in L /\ l \notin K
      <3>1. (\A x \in I : x <= k => x <= l) /\ l <= l /\ ~(l <= k)
        BY <1>1, <2>1
      <3>2. QED
        BY <3>1
    <2>3. IsFiniteSet(L) /\ L \subseteq I
      BY RanksAreNumbers, FS_Subset
    <2>4. IsFiniteSet(K) /\ Cardinality(K) \in Nat /\ Cardinality(L) \in Nat
      BY <2>2, <2>3, FS_Subset, FS_CardinalityType
    <2>5. Cardinality(K) <= Cardinality(L) /\ (K # L => Cardinality(K) # Cardinality(L))
      BY <2>2, <2>3, FS_Subset
    <2>6. Cardinality(K) < Cardinality(L)
      BY <2>2, <2>4, <2>5
    <2>7. QED
      BY <2>6 DEF Rank
  <1>2. Rank(I, i) \in Nat /\ Rank(I, j) \in Nat
    BY RanksAreNumbers
  <1>3. i \in Int /\ j \in Int
    OBVIOUS
  <1>4. CASE i < j
    BY <1>1, <1>2, <1>4
  <1>5. CASE j < i
    BY <1>1, <1>2, <1>3, <1>5
  <1>6. CASE i = j
    BY <1>6
  <1>7. QED
    BY <1>3, <1>4, <1>5, <1>6

\* Every place is taken: the least n for which it is not leads to one less.
LEMMA RanksAreTaken ==
    ASSUME NEW n \in Nat, NEW I \in SUBSET (1..n), NEW k \in 1..Cardinality(I)
    PROVE  \E i \in I : Rank(I, i) = k
  <1> DEFINE Bad == {m \in Nat : \E J \in SUBSET (1..m), l \in Nat :
                       l \in 1..Cardinality(J) /\ \A j \in J : Rank(J, j) # l}
  <1>1. ASSUME Bad # {} PROVE FALSE
    <2>1. PICK m \in Bad : \A x \in Bad : m <= x
      BY <1>1, LeastNatural
    <2>2. m \in Nat
      OBVIOUS
    <2>3. PICK J \in SUBSET (1..m), l \in Nat : l \in 1..Cardinality(J) /\ \A j \in J : Rank(J, j) # l
      OBVIOUS
    <2>4. /\ IsFiniteSet(J) /\ Cardinality(J) \in Nat
          /\ \A j \in J : Rank(J, j) \in 1..Cardinality(J)
      <3>1. m \in Nat /\ J \in SUBSET (1..m)
        BY <2>2, <2>3
      <3> HIDE DEF Bad
      <3>2. QED
        BY <3>1, RanksAreNumbers
    <2>5. m # 0 /\ m - 1 \in Nat /\ m - 1 \notin Bad
      <3>1. J # {}
        BY <2>3, <2>4, FS_EmptySet
      <3>2. m # 0
        <4>1. 1..0 = {}
          OBVIOUS
        <4>2. QED
          BY <2>3, <3>1, <4>1
      <3>3. ~(m <= m - 1)
        BY <2>2
      <3>4. m - 1 \notin Bad
        BY <2>1, <3>3
      <3> HIDE DEF Bad
      <3>5. QED
        BY <2>2, <3>2, <3>4
    <2>6. CASE m \notin J
      <3>1. J \in SUBSET (1..(m - 1))
        BY <2>5, <2>6
      <3>2. QED
        BY <2>3, <2>5, <3>1
    <2>7. CASE m \in J
      <3> DEFINE K == J \ {m}
      <3>1. K \in SUBSET (1..(m - 1)) /\ K \subseteq J
        BY <2>5
      <3>2. Cardinality(K) = Cardinality(J) - 1
        BY <2>4, <2>7, FS_RemoveElement
      <3>3. Rank(J, m) = Cardinality(J)
        <4>1. \A j \in J : j <= m
          BY <2>3
        <4>2. QED
          BY <4>1 DEF Rank
      <3>4. l \in 1..Cardinality(K)
        BY <2>3, <2>4, <2>7, <3>2, <3>3
      <3>5. \A j \in K : Rank(K, j) = Rank(J, j)
        <4>1. \A j \in K : {x \in K : x <= j} = {x \in J : x <= j}
          OBVIOUS
        <4>2. QED
          BY <4>1 DEF Rank
      <3>6. \A j \in K : Rank(K, j) # l
        BY <2>3, <3>1, <3>5
      <3> HIDE DEF K
      <3>7. m - 1 \in Bad
        BY <2>5, <3>1, <3>4, <3>6
      <3>8. QED
        BY <2>5, <3>7
    <2>8. QED
      BY <2>6, <2>7
  <1>2. k \in Nat
    BY RanksAreNumbers
  <1>3. QED
    BY <1>1, <1>2

\* What is kept, at which positions.
LEMMA KeptIs ==
    ASSUME NEW n \in Nat, NEW s, DOMAIN s = 1..n, NEW I \in SUBSET (1..n)
    PROVE  /\ Cardinality(I) \in Nat
           /\ DOMAIN Kept(s, I) = 1..Cardinality(I)
           /\ \E f \in [1..Cardinality(I) -> I] :
                /\ \A j, k \in 1..Cardinality(I) : j < k => f[j] < f[k]
                /\ \A i \in I : \E k \in 1..Cardinality(I) : f[k] = i
                /\ \A k \in 1..Cardinality(I) : Kept(s, I)[k] = s[f[k]]
  <1> DEFINE At(k) == CHOOSE i \in I : Rank(I, i) = k
             c == Cardinality(I)
             f == [k \in 1..c |-> At(k)]
  <1>1. c \in Nat
    BY RanksAreNumbers
  <1>2. \A k \in 1..c : At(k) \in I /\ Rank(I, At(k)) = k
    BY RanksAreTaken
  <1>3. \A k \in 1..c : f[k] = At(k) /\ Kept(s, I)[k] = s[At(k)]
    BY DEF Kept
  <1>4. DOMAIN Kept(s, I) = 1..c
    BY DEF Kept
  <1> HIDE DEF At
  <1>5. f \in [1..c -> I]
    BY <1>2
  <1>6. ASSUME NEW j \in 1..c, NEW k \in 1..c, j < k PROVE f[j] < f[k]
    <2>1. f[j] = At(j) /\ f[k] = At(k)
      BY <1>3
    <2> HIDE DEF f
    <2>2. /\ f[j] \in I /\ f[k] \in I
          /\ Rank(I, f[j]) = j /\ Rank(I, f[k]) = k
      BY <1>2, <2>1, Zenon
    <2>3. f[j] \in Int /\ f[k] \in Int /\ j \in Int /\ k \in Int
      <3>1. \A i \in I : i \in Int
        OBVIOUS
      <3>2. \A x \in 1..c : x \in Int
        BY <1>1
      <3>3. QED
        BY <2>2, <3>1, <3>2
    <2>4. ~(k < j) /\ j # k
      BY <1>6, <2>3
    <2>5. ~(f[k] < f[j]) /\ f[j] # f[k]
      <3>1. f[k] < f[j] => Rank(I, f[k]) < Rank(I, f[j])
        BY <2>2, RanksAscend
      <3>2. QED
        BY <2>2, <2>4, <3>1
    <2>6. QED
      BY <2>3, <2>5
  <1>7. ASSUME NEW i \in I PROVE \E k \in 1..c : f[k] = i
    <2>1. PICK k \in 1..c : k = Rank(I, i)
      BY RanksAreNumbers
    <2>2. At(k) = i
      BY <1>2, <2>1, RanksAscend
    <2>3. QED
      BY <1>3, <2>2
  <1>8. \A k \in 1..c : Kept(s, I)[k] = s[f[k]]
    BY <1>3
  <1> HIDE DEF f, c
  <1>9. QED
    BY <1>1, <1>4, <1>5, <1>6, <1>7, <1>8 DEF c

KeptFrom(n, s, I, t, m) ==
  n \in Nat /\ DOMAIN s = 1..n /\ I \in SUBSET (1..n) /\ t = Kept(s, I) /\ m = Cardinality(I)

LEMMA KeptAs ==
    ASSUME NEW n, NEW s, NEW I, NEW t, NEW m, KeptFrom(n, s, I, t, m)
    PROVE  /\ m \in Nat
           /\ \E f \in [1..m -> I] :
                /\ \A j, k \in 1..m : j < k => f[j] < f[k]
                /\ \A i \in I : \E k \in 1..m : f[k] = i
                /\ t = [k \in 1..m |-> s[f[k]]]
  <1> USE DEF KeptFrom
  <1>1. PICK f \in [1..m -> I] :
          /\ \A j, k \in 1..m : j < k => f[j] < f[k]
          /\ \A i \in I : \E k \in 1..m : f[k] = i
          /\ \A k \in 1..m : t[k] = s[f[k]]
    BY KeptIs
  <1>2. t = [k \in 1..m |-> s[f[k]]]
    BY <1>1 DEF Kept
  <1>3. m \in Nat
    BY KeptIs
  <1>4. QED
    BY <1>1, <1>2, <1>3


----------------------------------------------------------------------------
(* Counters: rows are locked in the order of the alphabet.                  *)

CounterRow(c) == <<"counter", c>>
DetailRow(kind, p, c) == <<kind, p, c>>
Kinds == {"player", "entry"}

LEMMA RowsAre ==
    /\ \A c \in AllCounters : CounterRow(c) \in CountedRows
    /\ \A kind \in Kinds, p \in CountedPlayers, c \in AllCounters : DetailRow(kind, p, c) \in CountedRows
    /\ \A c, d : CounterRow(c) = CounterRow(d) => c = d
    /\ \A k, l, p, q, c, d : DetailRow(k, p, c) = DetailRow(l, q, d) => k = l /\ p = q /\ c = d
    /\ \A k, p, c, d : CounterRow(d) # DetailRow(k, p, c)
  BY DEF CounterRow, DetailRow, Kinds, CountedRows

LEMMA CounterRowsAre ==
    ASSUME NEW counts \in Seq(AllCounters), NEW wanted, wanted = CounterRows(counts)
    PROVE  /\ wanted \in Seq(CountedRows)
           /\ \A i \in DOMAIN wanted : \E a \in DOMAIN Alphabet :
                wanted[i] = CounterRow(Alphabet[a]) /\ Alphabet[a] \in ToSet(counts)
           /\ \A i, j \in DOMAIN wanted, a, b \in DOMAIN Alphabet :
                i < j /\ wanted[i] = CounterRow(Alphabet[a]) /\ wanted[j] = CounterRow(Alphabet[b]) => a < b
           /\ \A c \in ToSet(counts) : \E i \in DOMAIN wanted : wanted[i] = CounterRow(c)
  <1>1. PICK n \in Nat : DOMAIN Alphabet = 1..n
    BY LocksAssumption
  <1>2. PICK I \in SUBSET (1..n) : I = {i \in DOMAIN Alphabet : Alphabet[i] \in ToSet(counts)}
    BY <1>1
  <1>3. PICK sorted, m : sorted = Kept(Alphabet, I) /\ m = Cardinality(I)
    OBVIOUS
  <1>4. /\ m \in Nat
        /\ \E f \in [1..m -> I] :
             /\ \A j, k \in 1..m : j < k => f[j] < f[k]
             /\ \A i \in I : \E k \in 1..m : f[k] = i
             /\ sorted = [k \in 1..m |-> Alphabet[f[k]]]
    <2>1. KeptFrom(n, Alphabet, I, sorted, m)
      BY <1>1, <1>3 DEF KeptFrom
    <2>2. QED
      BY <2>1, KeptAs
  <1>6. PICK f \in [1..m -> I] :
             /\ \A j, k \in 1..m : j < k => f[j] < f[k]
             /\ \A i \in I : \E k \in 1..m : f[k] = i
             /\ sorted = [k \in 1..m |-> Alphabet[f[k]]]
    BY <1>4
  <1>7. wanted = [k \in 1..m |-> CounterRow(sorted[k])]
    BY <1>2, <1>3, <1>6 DEF CounterRows, CounterRow
  <1>8. /\ \A k \in 1..m : f[k] \in DOMAIN Alphabet /\ Alphabet[f[k]] \in ToSet(counts)
                           /\ wanted[k] = CounterRow(Alphabet[f[k]])
        /\ DOMAIN wanted = 1..m
    BY <1>1, <1>2, <1>6, <1>7
  <1>9. wanted \in Seq(CountedRows)
    <2>1. \A a \in DOMAIN Alphabet : CounterRow(Alphabet[a]) \in CountedRows
      BY RowsAre DEF AllCounters
    <2>2. wanted \in [1..m -> CountedRows]
      BY <1>7, <1>8, <2>1
    <2>3. QED
      BY <1>4, <2>2
  <1>10. ASSUME NEW c \in ToSet(counts) PROVE \E i \in DOMAIN wanted : wanted[i] = CounterRow(c)
    <2>1. c \in AllCounters
      BY DEF ToSet
    <2>2. PICK a \in DOMAIN Alphabet : Alphabet[a] = c
      BY <2>1 DEF AllCounters
    <2>3. PICK k \in 1..m : f[k] = a
      BY <1>2, <1>6, <2>2
    <2>4. QED
      BY <1>8, <2>2, <2>3
  <1>11. ASSUME NEW i \in DOMAIN wanted, NEW j \in DOMAIN wanted, NEW a \in DOMAIN Alphabet, NEW b \in DOMAIN Alphabet,
               i < j, wanted[i] = CounterRow(Alphabet[a]), wanted[j] = CounterRow(Alphabet[b])
        PROVE  a < b
    <2>1. Alphabet[a] = Alphabet[f[i]] /\ Alphabet[b] = Alphabet[f[j]]
      BY <1>8, <1>11, RowsAre
    <2>2. a = f[i] /\ b = f[j]
      BY <1>8, <2>1, LocksAssumption
    <2>3. QED
      BY <1>6, <1>8, <1>11, <2>2
  <1>12. \A i \in DOMAIN wanted : \E a \in DOMAIN Alphabet :
                wanted[i] = CounterRow(Alphabet[a]) /\ Alphabet[a] \in ToSet(counts)
    BY <1>8
  <1>13. QED
    BY <1>9, <1>10, <1>11, <1>12

\* A sequence of rows made from the entries of some kept.
LEMMA DetailRowsAre ==
    ASSUME NEW counts \in Seq(AllCounters), NEW kind \in Kinds, NEW p \in CountedPlayers,
           NEW m \in Nat, NEW names \in [1..m -> ToSet(counts)],
           NEW wanted, wanted = [i \in 1..m |-> DetailRow(kind, p, names[i])]
    PROVE  /\ wanted \in Seq(CountedRows)
           /\ \A i \in DOMAIN wanted : \E c \in ToSet(counts) : wanted[i] = DetailRow(kind, p, c)
  <1>1. ToSet(counts) \subseteq AllCounters
    BY DEF ToSet
  <1>2. wanted \in [1..m -> CountedRows]
    BY <1>1, RowsAre
  <1>3. QED
    BY <1>2

LEMMA PlayerRowsAre ==
    ASSUME NEW counts \in Seq(AllCounters), NEW p \in CountedPlayers, NEW wanted, wanted = PlayerRows(p, counts)
    PROVE  /\ wanted \in Seq(CountedRows)
           /\ \A i \in DOMAIN wanted : \E c \in ToSet(counts) : wanted[i] = DetailRow("player", p, c)
  <1>1. PICK n \in Nat : DOMAIN Alphabet = 1..n
    BY LocksAssumption
  <1>2. PICK I \in SUBSET (1..n) : I = {i \in DOMAIN Alphabet : Alphabet[i] \in ToSet(counts) \ has[p]}
    BY <1>1
  <1>3. PICK new, m : new = Kept(Alphabet, I) /\ m = Cardinality(I)
    OBVIOUS
  <1>4. m \in Nat /\ \E f \in [1..m -> I] : new = [k \in 1..m |-> Alphabet[f[k]]]
    <2>1. KeptFrom(n, Alphabet, I, new, m)
      BY <1>1, <1>3 DEF KeptFrom
    <2>2. QED
      BY <2>1, KeptAs
  <1>5. m \in Nat /\ new \in [1..m -> ToSet(counts)]
    BY <1>1, <1>2, <1>4
  <1>6. wanted = [k \in 1..m |-> DetailRow("player", p, new[k])]
    BY <1>2, <1>3, <1>5 DEF PlayerRows, DetailRow
  <1>7. "player" \in Kinds
    BY DEF Kinds
  <1>8. QED
    BY <1>5, <1>6, <1>7, DetailRowsAre

LEMMA EntryRowsAre ==
    ASSUME NEW counts \in Seq(AllCounters), NEW p \in CountedPlayers, NEW absolute,
           NEW wanted, wanted = EntryRows(p, counts, absolute)
    PROVE  /\ wanted \in Seq(CountedRows)
           /\ \A i \in DOMAIN wanted : \E c \in ToSet(counts) : wanted[i] = DetailRow("entry", p, c)
  <1>1. PICK I, J : /\ I = {i \in DOMAIN counts : counts[i] \in absolute}
                    /\ J = {i \in DOMAIN counts : counts[i] \notin absolute}
    OBVIOUS
  <1>2. PICK n \in Nat : DOMAIN counts = 1..n
    OBVIOUS
  <1>3. I \in SUBSET (1..n) /\ J \in SUBSET (1..n)
    BY <1>1, <1>2
  <1>4. ASSUME NEW K \in SUBSET (1..n) PROVE Kept(counts, K) \in Seq(ToSet(counts))
    <2>1. PICK s, m : s = Kept(counts, K) /\ m = Cardinality(K)
      OBVIOUS
    <2>2. m \in Nat /\ \E f \in [1..m -> K] : s = [k \in 1..m |-> counts[f[k]]]
      <3>1. KeptFrom(n, counts, K, s, m)
        BY <1>2, <2>1 DEF KeptFrom
      <3>2. QED
        BY <3>1, KeptAs
    <2>3. s \in [1..m -> ToSet(counts)]
      BY <1>2, <2>2 DEF ToSet
    <2>4. QED
      BY <2>1, <2>2, <2>3
  <1>5. PICK kinds : kinds = Kept(counts, I) \o Kept(counts, J)
    OBVIOUS
  <1>6. kinds \in Seq(ToSet(counts))
    BY <1>3, <1>4, <1>5
  <1>7. PICK m \in Nat : m = Len(kinds)
    BY <1>6
  <1>8. kinds \in [1..m -> ToSet(counts)] /\ DOMAIN kinds = 1..m
    BY <1>6, <1>7
  <1>9. wanted = [k \in 1..m |-> DetailRow("entry", p, kinds[k])]
    BY <1>1, <1>5, <1>8 DEF EntryRows, DetailRow
  <1>10. "entry" \in Kinds
    BY DEF Kinds
  <1>11. QED
    BY <1>8, <1>9, <1>10, DetailRowsAre

Writing == [step : {"no", "counter", "player", "entry"}, player : CountedPlayers \cup {NoWriter},
            counts : Seq(AllCounters), absolute : SUBSET AllCounters, todo : Seq(CountedRows)]

\* A writer of counters has locked those up to some letter, and its others come after that.
HoldsInOrder(w) ==
  LET r == writing[w] IN
  /\ \A i \in DOMAIN r.todo : \E a \in DOMAIN Alphabet :
       r.todo[i] = CounterRow(Alphabet[a]) /\ Alphabet[a] \in ToSet(r.counts)
  /\ \A i, j \in DOMAIN r.todo, a, b \in DOMAIN Alphabet :
       i < j /\ r.todo[i] = CounterRow(Alphabet[a]) /\ r.todo[j] = CounterRow(Alphabet[b]) => a < b
  /\ \A row \in CountedRows : locked[row] = w =>
       \E a \in DOMAIN Alphabet : row = CounterRow(Alphabet[a])
  /\ \A a, b \in DOMAIN Alphabet, i \in DOMAIN r.todo :
       locked[CounterRow(Alphabet[a])] = w /\ r.todo[i] = CounterRow(Alphabet[b]) => a < b
  /\ \A c \in ToSet(r.counts) :
       locked[CounterRow(c)] = w \/ \E i \in DOMAIN r.todo : r.todo[i] = CounterRow(c)

\* One that has come to the entries has locked all its counters, and the rest is of these.
HoldsCounters(w) ==
  LET r == writing[w] IN
  /\ \A c \in ToSet(r.counts) : locked[CounterRow(c)] = w
  /\ \A kind \in Kinds, p \in CountedPlayers, c \in AllCounters :
       locked[DetailRow(kind, p, c)] = w => c \in ToSet(r.counts)
  /\ \A i \in DOMAIN r.todo : \E kind \in Kinds, c \in ToSet(r.counts) :
       r.todo[i] = DetailRow(kind, r.player, c)

LocksInvariant ==
  /\ writing \in [Writers -> Writing]
  /\ has \in [CountedPlayers -> SUBSET AllCounters]
  /\ locked \in [CountedRows -> Writers \cup {NoWriter}]
  /\ \A w \in Writers :
       /\ writing[w].step = "no" =>
            writing[w] = NotWriting /\ \A row \in CountedRows : locked[row] # w
       /\ writing[w].step # "no" => writing[w].player \in CountedPlayers
       /\ writing[w].step = "counter" => HoldsInOrder(w)
       /\ writing[w].step \in Kinds => HoldsCounters(w)

LEMMA LocksInvariantTypes == LocksInvariant => LocksTypeOK
  BY DEF LocksInvariant, LocksTypeOK, Writing

LEMMA LocksStart == LocksInit => LocksInvariant
  <1>1. NotWriting \in Writing
    BY DEF NotWriting, Writing
  <1>2. QED
    BY <1>1, LocksAssumption DEF LocksInit, LocksInvariant, NotWriting, Kinds

\* A step of one writer leaves the others what they have.
LEMMA OthersKeepLocks ==
    ASSUME LocksInvariant, NEW v \in Writers, writing'[v] = writing[v],
           \A row \in CountedRows : locked'[row] = v <=> locked[row] = v
    PROVE  /\ writing'[v].step = "no" =>
                writing'[v] = NotWriting /\ \A row \in CountedRows : locked'[row] # v
           /\ writing'[v].step # "no" => writing'[v].player \in CountedPlayers
           /\ writing'[v].step = "counter" => HoldsInOrder(v)'
           /\ writing'[v].step \in Kinds => HoldsCounters(v)'
  <1>1. \A a \in DOMAIN Alphabet : CounterRow(Alphabet[a]) \in CountedRows
    BY RowsAre DEF AllCounters
  <1>2. ToSet(writing[v].counts) \subseteq AllCounters
    BY DEF LocksInvariant, Writing, ToSet
  <1>3. CASE writing[v].step = "counter"
    <2>1. HoldsInOrder(v)
      BY <1>3 DEF LocksInvariant
    <2>2. HoldsInOrder(v)'
      BY <1>1, <1>2, <2>1, RowsAre DEF HoldsInOrder
    <2>3. QED
      BY <1>3, <2>2 DEF LocksInvariant, Kinds
  <1>4. CASE writing[v].step \in Kinds
    <2>1. HoldsCounters(v)
      BY <1>4 DEF LocksInvariant
    <2>2. HoldsCounters(v)'
      BY <1>2, <2>1, RowsAre DEF HoldsCounters
    <2>3. QED
      BY <1>4, <2>2 DEF LocksInvariant, Kinds
  <1>5. CASE writing[v].step = "no"
    BY <1>5 DEF LocksInvariant, Kinds
  <1>6. QED
    BY <1>3, <1>4, <1>5 DEF LocksInvariant, Writing, Kinds

LEMMA ReceiveKeepsLocks ==
    ASSUME LocksInvariant, NEW w \in Writers, NEW p \in CountedPlayers, NEW counts \in CounterLists,
           NEW absolute \in SUBSET ToSet(counts), Receive(w, p, counts, absolute)
    PROVE  LocksInvariant'
  <1>1. counts \in Seq(AllCounters)
    <2>1. PICK S \in SUBSET AllCounters : counts \in SetToSeqs(S)
      BY DEF CounterLists
    <2>2. IsFiniteSet(AllCounters)
      <3>1. PICK n \in Nat : DOMAIN Alphabet = 1..n
        BY LocksAssumption
      <3>2. IsFiniteSet(1..n)
        BY FS_Interval
      <3>3. AllCounters = {Alphabet[i] : i \in 1..n}
        BY <3>1 DEF AllCounters
      <3> DEFINE f == [i \in 1..n |-> Alphabet[i]]
      <3>4. f \in Surjection(1..n, AllCounters)
        BY <3>3 DEF Surjection
      <3>5. QED
        BY <3>2, <3>4, FS_Surjection
    <2>3. Cardinality(S) \in Nat
      BY <2>2, FS_Subset, FS_CardinalityType
    <2>4. counts \in [1..Cardinality(S) -> S]
      BY <2>1 DEF SetToSeqs
    <2>5. QED
      BY <2>3, <2>4
  <1>2. PICK wanted : wanted = CounterRows(counts)
    OBVIOUS
  <1>3. /\ wanted \in Seq(CountedRows)
        /\ \A i \in DOMAIN wanted : \E a \in DOMAIN Alphabet :
                wanted[i] = CounterRow(Alphabet[a]) /\ Alphabet[a] \in ToSet(counts)
        /\ \A i, j \in DOMAIN wanted, a, b \in DOMAIN Alphabet :
                i < j /\ wanted[i] = CounterRow(Alphabet[a]) /\ wanted[j] = CounterRow(Alphabet[b]) => a < b
        /\ \A c \in ToSet(counts) : \E i \in DOMAIN wanted : wanted[i] = CounterRow(c)
    BY <1>1, <1>2, CounterRowsAre
  <1>4. PICK r : r = [step |-> "counter", player |-> p, counts |-> counts, absolute |-> absolute, todo |-> wanted]
    OBVIOUS
  <1>5. r \in Writing
    <2>1. ToSet(counts) \subseteq AllCounters
      BY <1>1 DEF ToSet
    <2>2. QED
      BY <1>1, <1>3, <1>4, <2>1 DEF Writing
  <1>6. /\ writing' = [writing EXCEPT ![w] = r] /\ has' = has /\ locked' = locked
        /\ writing[w].step = "no"
    BY <1>2, <1>4 DEF Receive, NotWriting
  <1>7. writing \in [Writers -> Writing] /\ \A row \in CountedRows : locked[row] # w
    BY <1>6 DEF LocksInvariant
  <1>8. writing' \in [Writers -> Writing] /\ writing'[w] = r
    BY <1>5, <1>6, <1>7
  <1>9. HoldsInOrder(w)'
    <2>1. \A a \in DOMAIN Alphabet : CounterRow(Alphabet[a]) \in CountedRows
      BY RowsAre DEF AllCounters
    <2>2. r.todo = wanted /\ r.counts = counts
      BY <1>4
    <2>3. QED
      BY <1>3, <1>6, <1>7, <1>8, <2>1, <2>2 DEF HoldsInOrder
  <1>10. r.step = "counter" /\ r.player = p
    BY <1>4
  <1>11. ASSUME NEW v \in Writers \ {w} PROVE writing'[v] = writing[v]
    BY <1>6, <1>7
  <1>12. QED
    BY <1>6, <1>8, <1>9, <1>10, <1>11, OthersKeepLocks DEF LocksInvariant, Kinds

LEMMA EndStatementKeepsLocks ==
    ASSUME LocksInvariant, NEW w \in Writers, EndStatement(w)
    PROVE  LocksInvariant'
  <1>1. PICK r \in Writing : r = writing[w]
    BY DEF LocksInvariant
  <1>2. r.step \in {"counter", "player"} /\ r.player \in CountedPlayers /\ r.counts \in Seq(AllCounters) /\ r.todo = <<>>
    BY <1>1 DEF EndStatement, LocksInvariant, Writing
  <1>3. PICK s \in Writing :
          /\ writing' = [writing EXCEPT ![w] = s]
          /\ s.counts = r.counts /\ s.player = r.player
          /\ s.step \in Kinds /\ s.step # "counter" /\ s.step # "no"
          /\ \A i \in DOMAIN s.todo : \E c \in ToSet(r.counts) : s.todo[i] = DetailRow(s.step, r.player, c)
    <2>1. CASE r.step = "counter"
      <3>1. PICK wanted : wanted = PlayerRows(r.player, r.counts)
        OBVIOUS
      <3>2. /\ wanted \in Seq(CountedRows)
            /\ \A i \in DOMAIN wanted : \E c \in ToSet(r.counts) : wanted[i] = DetailRow("player", r.player, c)
        BY <1>2, <3>1, PlayerRowsAre
      <3>3. PICK s : s = [r EXCEPT !.step = "player", !.todo = wanted]
        OBVIOUS
      <3>4. /\ s \in Writing /\ s.step = "player" /\ s.todo = wanted
            /\ s.counts = r.counts /\ s.player = r.player
        BY <3>2, <3>3 DEF Writing
      <3>5. writing' = [writing EXCEPT ![w] = s]
        BY <1>1, <2>1, <3>1, <3>3 DEF EndStatement
      <3>6. s.step \in Kinds /\ s.step # "counter" /\ s.step # "no"
        BY <3>4 DEF Kinds
      <3>7. \A i \in DOMAIN s.todo : \E c \in ToSet(r.counts) : s.todo[i] = DetailRow(s.step, r.player, c)
        BY <3>2, <3>4
      <3>8. QED
        BY <3>4, <3>5, <3>6, <3>7
    <2>2. CASE r.step = "player"
      <3>1. PICK wanted : wanted = EntryRows(r.player, r.counts, r.absolute)
        OBVIOUS
      <3>2. /\ wanted \in Seq(CountedRows)
            /\ \A i \in DOMAIN wanted : \E c \in ToSet(r.counts) : wanted[i] = DetailRow("entry", r.player, c)
        BY <1>2, <3>1, EntryRowsAre
      <3>3. PICK s : s = [r EXCEPT !.step = "entry", !.todo = wanted]
        OBVIOUS
      <3>4. /\ s \in Writing /\ s.step = "entry" /\ s.todo = wanted
            /\ s.counts = r.counts /\ s.player = r.player
        BY <3>2, <3>3 DEF Writing
      <3>5. writing' = [writing EXCEPT ![w] = s]
        BY <1>1, <2>2, <3>1, <3>3 DEF EndStatement
      <3>6. s.step \in Kinds /\ s.step # "counter" /\ s.step # "no"
        BY <3>4 DEF Kinds
      <3>7. \A i \in DOMAIN s.todo : \E c \in ToSet(r.counts) : s.todo[i] = DetailRow(s.step, r.player, c)
        BY <3>2, <3>4
      <3>8. QED
        BY <3>4, <3>5, <3>6, <3>7
    <2>3. QED
      BY <1>2, <2>1, <2>2
  <1>6. has' = has /\ locked' = locked
    BY DEF EndStatement
  <1>7. writing' \in [Writers -> Writing] /\ writing'[w] = s /\ \A v \in Writers \ {w} : writing'[v] = writing[v]
    BY <1>3 DEF LocksInvariant
  <1>8. HoldsCounters(w)'
    <2>1. /\ \A c \in ToSet(r.counts) : locked[CounterRow(c)] = w
          /\ \A kind \in Kinds, p \in CountedPlayers, c \in AllCounters :
               locked[DetailRow(kind, p, c)] = w => c \in ToSet(r.counts)
      <3>1. CASE r.step = "counter"
        <4>1. HoldsInOrder(w)
          BY <1>1, <3>1 DEF LocksInvariant
        <4>2. \A c \in ToSet(r.counts) : locked[CounterRow(c)] = w
          BY <1>1, <1>2, <4>1 DEF HoldsInOrder
        <4>3. \A kind \in Kinds, p \in CountedPlayers, c \in AllCounters : locked[DetailRow(kind, p, c)] # w
          BY <4>1, RowsAre DEF HoldsInOrder
        <4>4. QED
          BY <4>2, <4>3
      <3>2. CASE r.step = "player"
        BY <1>1, <3>2 DEF LocksInvariant, HoldsCounters, Kinds
      <3>3. QED
        BY <1>2, <3>1, <3>2
    <2>2. QED
      BY <1>3, <1>6, <1>7, <2>1 DEF HoldsCounters
  <1>9. QED
    BY <1>2, <1>3, <1>6, <1>7, <1>8, OthersKeepLocks DEF LocksInvariant

LEMMA CommitKeepsLocks ==
    ASSUME LocksInvariant, NEW w \in Writers, CommitCounters(w)
    PROVE  LocksInvariant'
  <1>1. NotWriting \in Writing /\ NotWriting.step = "no"
    BY DEF NotWriting, Writing
  <1>2. writing' \in [Writers -> Writing] /\ writing'[w] = NotWriting /\ \A v \in Writers \ {w} : writing'[v] = writing[v]
    BY <1>1 DEF LocksInvariant, CommitCounters
  <1>3. has' \in [CountedPlayers -> SUBSET AllCounters]
    <2>1. ToSet(writing[w].counts) \subseteq AllCounters
      BY DEF LocksInvariant, Writing, ToSet
    <2>2. QED
      BY <2>1 DEF LocksInvariant, CommitCounters
  <1>4. /\ locked' \in [CountedRows -> Writers \cup {NoWriter}]
        /\ \A row \in CountedRows : locked'[row] = IF locked[row] = w THEN NoWriter ELSE locked[row]
    BY DEF LocksInvariant, CommitCounters
  <1>5. w # NoWriter /\ \A v \in Writers : v # NoWriter
    BY LocksAssumption
  <1>6. QED
    BY <1>1, <1>2, <1>3, <1>4, <1>5, OthersKeepLocks DEF LocksInvariant, Kinds

LEMMA LockRowKeepsLocks ==
    ASSUME LocksInvariant, NEW w \in Writers, LockRow(w)
    PROVE  LocksInvariant'
  <1>1. PICK r \in Writing : r = writing[w]
    BY DEF LocksInvariant
  <1>2. r.todo \in Seq(CountedRows) /\ r.todo # <<>>
    BY <1>1 DEF LockRow, Writing
  <1>3. PICK wanted : wanted = Tail(r.todo)
    OBVIOUS
  <1>4. PICK row \in CountedRows : row = r.todo[1]
    BY <1>2
  <1>5. /\ wanted \in Seq(CountedRows) /\ \A i \in DOMAIN wanted : i + 1 \in DOMAIN r.todo /\ wanted[i] = r.todo[i + 1]
        /\ 1 \in DOMAIN r.todo /\ DOMAIN wanted \subseteq Int
        /\ \A i \in DOMAIN r.todo : i = 1 \/ (i - 1 \in DOMAIN wanted /\ wanted[i - 1] = r.todo[i])
        /\ Head(r.todo) = r.todo[1]
    BY <1>2, <1>3
  <1>6. PICK s : s = [r EXCEPT !.todo = wanted]
    OBVIOUS
  <1>7. s \in Writing /\ s.step = r.step /\ s.todo = wanted /\ s.counts = r.counts /\ s.player = r.player
    BY <1>5, <1>6 DEF Writing
  <1>8. /\ writing' = [writing EXCEPT ![w] = s] /\ has' = has
        /\ locked' = [locked EXCEPT ![row] = w] /\ locked[row] \in {w, NoWriter}
    BY <1>1, <1>3, <1>4, <1>5, <1>6 DEF LockRow, IsFree, NextRow
  <1>9. writing' \in [Writers -> Writing] /\ writing'[w] = s /\ \A v \in Writers \ {w} : writing'[v] = writing[v]
    BY <1>7, <1>8 DEF LocksInvariant
  <1>10. /\ locked' \in [CountedRows -> Writers \cup {NoWriter}]
         /\ \A x \in CountedRows : locked'[x] = w <=> (locked[x] = w \/ x = row)
         /\ \A v \in Writers \ {w}, x \in CountedRows : locked'[x] = v <=> locked[x] = v
    <2>1. \A v \in Writers : v # NoWriter
      BY LocksAssumption
    <2>2. QED
      BY <1>8, <2>1 DEF LocksInvariant
  <1>11. r.step # "no" /\ r.player \in CountedPlayers
    BY <1>1, <1>2 DEF LocksInvariant, NotWriting
  <1>12. \A a \in DOMAIN Alphabet : CounterRow(Alphabet[a]) \in CountedRows
    BY RowsAre DEF AllCounters
  <1>13. ToSet(r.counts) \subseteq AllCounters
    BY <1>1 DEF Writing, ToSet
  <1>14. CASE r.step = "counter"
    <2>1. HoldsInOrder(w)
      BY <1>1, <1>14 DEF LocksInvariant
    <2>2. PICK c \in DOMAIN Alphabet : row = CounterRow(Alphabet[c])
      BY <1>1, <1>4, <1>5, <2>1 DEF HoldsInOrder
    <2>3. /\ \A i \in DOMAIN wanted : \E a \in DOMAIN Alphabet :
               wanted[i] = CounterRow(Alphabet[a]) /\ Alphabet[a] \in ToSet(r.counts)
          /\ \A x \in CountedRows : locked'[x] = w =>
               \E a \in DOMAIN Alphabet : x = CounterRow(Alphabet[a])
      BY <1>1, <1>5, <1>10, <2>1, <2>2 DEF HoldsInOrder
    <2>4. ASSUME NEW i \in DOMAIN wanted, NEW j \in DOMAIN wanted, NEW a \in DOMAIN Alphabet, NEW b \in DOMAIN Alphabet,
                 i < j, wanted[i] = CounterRow(Alphabet[a]), wanted[j] = CounterRow(Alphabet[b])
          PROVE  a < b
      <3>1. i + 1 \in DOMAIN r.todo /\ j + 1 \in DOMAIN r.todo /\ i + 1 < j + 1
        BY <1>5, <2>4
      <3>2. r.todo[i + 1] = CounterRow(Alphabet[a]) /\ r.todo[j + 1] = CounterRow(Alphabet[b])
        BY <1>5, <2>4
      <3>3. QED
        BY <1>1, <2>1, <3>1, <3>2 DEF HoldsInOrder
    <2>5. ASSUME NEW a \in DOMAIN Alphabet, NEW b \in DOMAIN Alphabet, NEW i \in DOMAIN wanted,
                 locked'[CounterRow(Alphabet[a])] = w, wanted[i] = CounterRow(Alphabet[b])
          PROVE  a < b
      <3>1. i + 1 \in DOMAIN r.todo /\ r.todo[i + 1] = CounterRow(Alphabet[b]) /\ 1 < i + 1
        BY <1>2, <1>3, <1>5, <2>5
      <3>2. CASE locked[CounterRow(Alphabet[a])] = w
        BY <1>1, <2>1, <3>1, <3>2 DEF HoldsInOrder
      <3>3. CASE CounterRow(Alphabet[a]) = row
        BY <1>1, <1>4, <1>5, <2>1, <3>1, <3>3 DEF HoldsInOrder
      <3>4. QED
        BY <1>10, <1>12, <2>5, <3>2, <3>3
    <2>6. ASSUME NEW d \in ToSet(r.counts)
          PROVE  locked'[CounterRow(d)] = w \/ \E i \in DOMAIN wanted : wanted[i] = CounterRow(d)
      <3>1. CounterRow(d) \in CountedRows
        BY <1>13, RowsAre
      <3>2. CASE locked[CounterRow(d)] = w
        BY <1>10, <3>1, <3>2
      <3>3. ASSUME NEW i \in DOMAIN r.todo, r.todo[i] = CounterRow(d)
            PROVE  locked'[CounterRow(d)] = w \/ \E k \in DOMAIN wanted : wanted[k] = CounterRow(d)
        BY <1>4, <1>5, <1>10, <3>1, <3>3
      <3>4. QED
        BY <1>1, <2>1, <3>2, <3>3 DEF HoldsInOrder
    <2>7. HoldsInOrder(w)'
      BY <1>7, <1>9, <2>3, <2>4, <2>5, <2>6 DEF HoldsInOrder
    <2>8. QED
      BY <1>7, <1>8, <1>9, <1>10, <1>11, <1>14, <2>7, OthersKeepLocks DEF LocksInvariant, Kinds
  <1>15. CASE r.step \in Kinds
    <2>1. HoldsCounters(w)
      BY <1>1, <1>15 DEF LocksInvariant
    <2>2. PICK k \in Kinds, c \in ToSet(r.counts) : row = DetailRow(k, r.player, c)
      BY <1>1, <1>4, <1>5, <2>1 DEF HoldsCounters
    <2>3. /\ \A d \in ToSet(r.counts) : locked'[CounterRow(d)] = w
          /\ \A i \in DOMAIN wanted : \E kind \in Kinds, d \in ToSet(r.counts) :
               wanted[i] = DetailRow(kind, r.player, d)
      BY <1>1, <1>5, <1>10, <1>13, <2>1, RowsAre DEF HoldsCounters
    <2>4. ASSUME NEW kind \in Kinds, NEW p \in CountedPlayers, NEW d \in AllCounters,
                 locked'[DetailRow(kind, p, d)] = w
          PROVE  d \in ToSet(r.counts)
      <3>1. DetailRow(kind, p, d) \in CountedRows
        BY RowsAre
      <3>2. CASE locked[DetailRow(kind, p, d)] = w
        BY <1>1, <2>1, <3>2 DEF HoldsCounters
      <3>3. CASE DetailRow(kind, p, d) = row
        BY <2>2, <3>3, RowsAre
      <3>4. QED
        BY <1>10, <2>4, <3>1, <3>2, <3>3
    <2>5. HoldsCounters(w)'
      BY <1>7, <1>9, <2>3, <2>4 DEF HoldsCounters
    <2>6. r.step # "counter"
      BY <1>15 DEF Kinds
    <2>7. QED
      BY <1>7, <1>8, <1>9, <1>10, <1>11, <1>15, <2>5, <2>6, OthersKeepLocks DEF LocksInvariant
  <1>16. QED
    BY <1>11, <1>14, <1>15 DEF Writing, Kinds

LEMMA LocksStep == LocksInvariant /\ [LocksNext]_lockVars => LocksInvariant'
  <1> SUFFICES ASSUME LocksInvariant, [LocksNext]_lockVars PROVE LocksInvariant'
    OBVIOUS
  <1>1. CASE UNCHANGED lockVars
    <2>1. writing' = writing /\ has' = has /\ locked' = locked
      BY <1>1 DEF lockVars
    <2>2. QED
      BY <2>1, OthersKeepLocks DEF LocksInvariant
  <1>2. ASSUME NEW w \in Writers, LockRow(w) \/ EndStatement(w) \/ CommitCounters(w) PROVE LocksInvariant'
    BY <1>2, LockRowKeepsLocks, EndStatementKeepsLocks, CommitKeepsLocks
  <1>3. ASSUME NEW w \in Writers, NEW p \in CountedPlayers, NEW counts \in CounterLists,
               NEW absolute \in SUBSET ToSet(counts), Receive(w, p, counts, absolute)
        PROVE  LocksInvariant'
    BY <1>3, ReceiveKeepsLocks
  <1>4. QED
    BY <1>1, <1>2, <1>3 DEF LocksNext

\* A writer that waits is at the counters, and one of those that wait for each other would
\* wait for the last letter of all that are waited for, whose owner waits for a later one.
LEMMA LocksAreFree == LocksInvariant => CountersDoNotDeadlock
  <1> SUFFICES ASSUME LocksInvariant PROVE CountersDoNotDeadlock
    OBVIOUS
  <1>1. PICK waits : waits = {w \in Writers : writing[w].todo # <<>> /\ ~IsFree(w)}
    OBVIOUS
  <1>2. ASSUME NEW w \in waits
        PROVE  /\ w \in Writers /\ writing[w] \in Writing /\ writing[w].step # "no"
               /\ NextRow(w) = writing[w].todo[1] /\ 1 \in DOMAIN writing[w].todo /\ NextRow(w) \in CountedRows
               /\ locked[NextRow(w)] \in Writers \ {w}
    <2>1. w \in Writers /\ writing[w] \in Writing /\ writing[w].todo # <<>> /\ ~IsFree(w)
      BY <1>1 DEF LocksInvariant
    <2>2. writing[w].todo \in Seq(CountedRows)
      BY <2>1 DEF Writing
    <2>3. NextRow(w) = writing[w].todo[1] /\ 1 \in DOMAIN writing[w].todo /\ NextRow(w) \in CountedRows
      BY <2>1, <2>2 DEF NextRow
    <2>4. locked[NextRow(w)] \in Writers \ {w}
      BY <2>1, <2>3 DEF IsFree, LocksInvariant
    <2>5. writing[w].step # "no"
      BY <2>1 DEF LocksInvariant, NotWriting
    <2>6. QED
      BY <2>1, <2>3, <2>4, <2>5
  <1>3. ASSUME NEW w \in waits PROVE writing[w].step = "counter"
    <2>1. ASSUME writing[w].step \in Kinds PROVE FALSE
      <3>1. HoldsCounters(w)
        BY <1>2, <2>1 DEF LocksInvariant
      <3>2. PICK kind \in Kinds, c \in ToSet(writing[w].counts) : NextRow(w) = DetailRow(kind, writing[w].player, c)
        BY <1>2, <3>1 DEF HoldsCounters
      <3>3. PICK v \in Writers \ {w} : locked[NextRow(w)] = v
        BY <1>2
      <3>4. c \in AllCounters /\ writing[w].player \in CountedPlayers /\ NextRow(w) \in CountedRows
        BY <1>2 DEF Writing, ToSet, LocksInvariant
      <3>5. writing[v].step \in Kinds
        <4>1. writing[v].step # "no"
          BY <3>3, <3>4 DEF LocksInvariant
        <4>2. ASSUME writing[v].step = "counter" PROVE FALSE
          <5>1. HoldsInOrder(v)
            BY <4>2 DEF LocksInvariant
          <5>2. QED
            BY <3>2, <3>3, <3>4, <5>1, RowsAre DEF HoldsInOrder
        <4>3. QED
          BY <4>1, <4>2 DEF LocksInvariant, Writing, Kinds
      <3>6. HoldsCounters(v)
        BY <3>5 DEF LocksInvariant
      <3>7. c \in ToSet(writing[v].counts)
        BY <3>2, <3>3, <3>4, <3>6 DEF HoldsCounters
      <3>8. locked[CounterRow(c)] = v /\ locked[CounterRow(c)] = w
        BY <3>1, <3>6, <3>7 DEF HoldsCounters
      <3>9. QED
        BY <3>3, <3>8
    <2>2. QED
      BY <1>2, <2>1 DEF Writing, Kinds
  <1>4. ASSUME NEW circle \in SUBSET waits, circle # {}, \A w \in circle : locked[NextRow(w)] \in circle
        PROVE  FALSE
    <2>1. PICK n \in Nat : DOMAIN Alphabet = 1..n
      BY LocksAssumption
    <2>2. ASSUME NEW w \in circle
          PROVE  HoldsInOrder(w) /\ \E a \in DOMAIN Alphabet : NextRow(w) = CounterRow(Alphabet[a])
      <3>1. w \in waits
        OBVIOUS
      <3>2. HoldsInOrder(w)
        BY <1>2, <1>3, <3>1 DEF LocksInvariant
      <3>3. QED
        BY <1>2, <3>1, <3>2 DEF HoldsInOrder
    <2>3. PICK A : A = {a \in DOMAIN Alphabet : \E w \in circle : NextRow(w) = CounterRow(Alphabet[a])}
      OBVIOUS
    <2>4. A \in SUBSET (1..n) /\ A # {}
      <3>1. PICK w \in circle : TRUE
        BY <1>4
      <3>2. PICK a \in DOMAIN Alphabet : NextRow(w) = CounterRow(Alphabet[a])
        BY <2>2
      <3>3. a \in A
        BY <2>3, <3>2
      <3>4. QED
        BY <2>1, <2>3, <3>3
    <2>5. PICK a \in A : \A b \in A : b <= a
      BY <2>4, GreatestUpTo
    <2>6. PICK w \in circle : NextRow(w) = CounterRow(Alphabet[a])
      BY <2>3
    <2>7. PICK v \in circle : locked[NextRow(w)] = v
      BY <1>4
    <2>8. PICK b \in DOMAIN Alphabet : NextRow(v) = CounterRow(Alphabet[b])
      BY <2>2
    <2>9. b \in A /\ a \in DOMAIN Alphabet
      BY <2>3, <2>8
    <2>10. NextRow(v) = writing[v].todo[1] /\ 1 \in DOMAIN writing[v].todo
      BY <1>2
    <2>11. a < b
      <3>1. HoldsInOrder(v)
        BY <2>2
      <3>2. locked[CounterRow(Alphabet[a])] = v
        BY <2>6, <2>7
      <3>3. writing[v].todo[1] = CounterRow(Alphabet[b])
        BY <2>8, <2>10
      <3>4. QED
        BY <2>9, <2>10, <3>1, <3>2, <3>3 DEF HoldsInOrder
    <2>12. b <= a /\ a \in Int /\ b \in Int
      BY <2>1, <2>4, <2>5, <2>9
    <2>13. QED
      BY <2>11, <2>12
  <1>5. QED
    BY <1>1, <1>3, <1>4 DEF CountersDoNotDeadlock

\* The types of the variables.
THEOREM LocksKeepTypes == LocksSpec => []LocksTypeOK
  <1>1. QED
    BY LocksInvariantTypes, LocksStart, LocksStep, PTL DEF LocksSpec

\* Transactions that write counters never wait for each other in a circle, since all lock
\* the counters by name first, and none waits at the entries (counters.py:64-132).
THEOREM CountersNeverDeadlock == LocksSpec => []CountersDoNotDeadlock
  <1>1. QED
    BY LocksAreFree, LocksStart, LocksStep, PTL DEF LocksSpec

----------------------------------------------------------------------------
(* Loops.                                                                   *)

\* What holds before a loop and is kept by its steps holds after all of them.
LEMMA ThroughTheLoop ==
    ASSUME NEW n \in Nat, NEW T, 0 \in T, \A k \in 1..n : k - 1 \in T => k \in T
    PROVE  \A k \in 0..n : k \in T
  <1> DEFINE U == {k \in 0..n : k \notin T}
  <1>1. SUFFICES ASSUME U # {} PROVE FALSE
    OBVIOUS
  <1>2. U \in SUBSET Nat
    OBVIOUS
  <1>3. PICK k \in U : \A x \in U : k <= x
    BY <1>1, <1>2, LeastNatural
  <1>4. k \in 1..n /\ k - 1 \in 0..n /\ ~(k <= k - 1)
    OBVIOUS
  <1>5. k - 1 \in T
    BY <1>3, <1>4
  <1>6. QED
    BY <1>4, <1>5

\* A loop of n steps over values of A: the step k is the function F[k].
Loop(n, A, start, F) == n \in Nat /\ start \in A /\ F \in [1..n -> [A -> A]]
LoopRuns(n, A, start, F, f) == f \in [0..n -> A] /\ f[0] = start /\ \A k \in 1..n : f[k] = F[k][f[k - 1]]

LEMMA LoopEnds ==
    ASSUME NEW n, NEW A, NEW start, NEW F, Loop(n, A, start, F)
    PROVE  \E f : LoopRuns(n, A, start, F, f)
  <1> USE DEF Loop
  <1> DEFINE Good(m, f) == /\ f \in [0..m -> A] /\ f[0] = start
                           /\ \A k \in 1..m : f[k] = F[k][f[k - 1]]
             T == {m \in 0..n : \E f : Good(m, f)}
  <1>1. 0 \in T
    <2> DEFINE g == [k \in 0..0 |-> start]
    <2>1. g \in [0..0 -> A] /\ g[0] = start /\ 1..0 = {}
      OBVIOUS
    <2>2. Good(0, g)
      BY <2>1
    <2> HIDE DEF g, Good
    <2>3. QED
      BY <2>2
  <1>2. ASSUME NEW m \in 1..n, m - 1 \in T PROVE m \in T
    <2>1. PICK f : Good(m - 1, f)
      BY <1>2
    <2> DEFINE g == [k \in 0..m |-> IF k = m THEN F[m][f[m - 1]] ELSE f[k]]
    <2>2. m \in Int /\ 1 <= m /\ m - 1 \in 0..(m - 1) /\ 0 # m /\ m # m - 1 /\ 0 \in 0..m
      OBVIOUS
    <2>3. F[m] \in [A -> A] /\ f[m - 1] \in A
      BY <2>1, <2>2
    <2>4. \A k \in 0..m : k # m => k \in 0..(m - 1)
      BY <2>2
    <2>5. g \in [0..m -> A]
      <3>1. \A k \in 0..m : (IF k = m THEN F[m][f[m - 1]] ELSE f[k]) \in A
        BY <2>1, <2>3, <2>4
      <3>2. QED
        BY <3>1
    <2>6. g[0] = start
      BY <2>1, <2>2
    <2>7. ASSUME NEW k \in 1..m PROVE g[k] = F[k][g[k - 1]]
      <3>1. k \in 0..m /\ k - 1 \in 0..m /\ k - 1 # m
        BY <2>2
      <3>2. g[k - 1] = f[k - 1]
        BY <3>1
      <3>3. CASE k = m
        BY <3>1, <3>2, <3>3
      <3>4. CASE k # m
        <4>1. k \in 1..(m - 1)
          BY <2>2, <3>4
        <4>2. f[k] = F[k][f[k - 1]]
          BY <2>1, <4>1
        <4>3. g[k] = f[k]
          BY <3>1, <3>4
        <4>4. QED
          BY <3>2, <4>2, <4>3
      <3>5. QED
        BY <3>3, <3>4
    <2>8. Good(m, g)
      BY <2>5, <2>6, <2>7
    <2> HIDE DEF g, Good
    <2>9. QED
      BY <2>8
  <1>3. n \in T
    <2> HIDE DEF T
    <2>1. \A k \in 0..n : k \in T
      BY <1>1, <1>2, ThroughTheLoop
    <2>2. QED
      BY <2>1
  <1>4. QED
    BY <1>3 DEF LoopRuns


----------------------------------------------------------------------------
(* Counters: merging the updates of a list changes nothing.                 *)

Entries == [type : {"none", "count", "absolute"}, value : Int]

LEMMA UpdatesAre ==
    /\ \A u \in Updates : u.name \in CounterNames /\ u.type \in {"count", "absolute"} /\ u.value \in Int
    /\ \A u \in Updates, v \in Int : Apply(u, v) \in Int
    /\ \A e \in Entries, v \in Int : Apply(e, v) \in Int
    /\ \A u \in Updates, e \in Entries : Merge(e, u) \in Entries
    /\ NoEntry \in Entries
  <1>1. \A u \in Updates : u.name \in CounterNames /\ u.type \in {"count", "absolute"} /\ u.value \in Int
    BY CountersAssumption DEF Updates
  <1>2. /\ \A u \in Updates, v \in Int : Apply(u, v) \in Int
        /\ \A e \in Entries, v \in Int : Apply(e, v) \in Int
    BY <1>1 DEF Apply, Entries
  <1>3. ASSUME NEW u \in Updates, NEW e \in Entries PROVE Merge(e, u) \in Entries
    <2>1. e.type \in {"none", "count", "absolute"} /\ e.value \in Int
      BY DEF Entries
    <2>2. [type |-> u.type, value |-> u.value] \in Entries
      BY <1>1 DEF Entries
    <2>3. [type |-> e.type, value |-> Apply(u, e.value)] \in Entries
      BY <1>2, <2>1 DEF Entries
    <2>4. QED
      BY <2>2, <2>3 DEF Merge
  <1>4. NoEntry \in Entries
    BY DEF NoEntry, Entries
  <1>5. QED
    BY <1>1, <1>2, <1>3, <1>4

\* The two loops over a list, step by step.
LEMMA MergedIs ==
    ASSUME NEW list \in Seq(Updates), NEW name \in CounterNames
    PROVE  \E entry \in [0..Len(list) -> Entries] :
             /\ entry[0] = NoEntry
             /\ \A k \in 1..Len(list) :
                  entry[k] = IF list[k].name = name THEN Merge(entry[k - 1], list[k]) ELSE entry[k - 1]
             /\ Merged(list, name) = entry[Len(list)]
  <1> DEFINE n == Len(list)
             F == [k \in 1..n |-> [e \in Entries |-> IF list[k].name = name THEN Merge(e, list[k]) ELSE e]]
  <1>1. n \in Nat /\ \A k \in 1..n : list[k] \in Updates
    OBVIOUS
  <1>2. F \in [1..n -> [Entries -> Entries]]
    BY <1>1, UpdatesAre
  <1> HIDE DEF n
  <1>3. PICK entry \in [0..n -> Entries] :
          entry[0] = NoEntry /\ \A k \in 1..n : entry[k] = F[k][entry[k - 1]]
    <2> HIDE DEF F
    <2>1. Loop(n, Entries, NoEntry, F)
      BY <1>1, <1>2, UpdatesAre DEF Loop
    <2>2. PICK entry : LoopRuns(n, Entries, NoEntry, F, entry)
      BY <2>1, LoopEnds
    <2>3. QED
      BY <2>2 DEF LoopRuns
  <1>4. ASSUME NEW k \in 1..n
        PROVE  entry[k] = IF list[k].name = name THEN Merge(entry[k - 1], list[k]) ELSE entry[k - 1]
    <2>1. k - 1 \in 0..n
      BY <1>1
    <2>2. QED
      BY <1>3, <2>1
  <1> HIDE DEF F
  <1> DEFINE Body(f) == [k \in 0..n |->
               IF k = 0 THEN NoEntry
               ELSE IF list[k].name = name THEN Merge(f[k - 1], list[k]) ELSE f[k - 1]]
             G == CHOOSE f : f = Body(f)
  <1>5. entry = Body(entry)
    <2>1. \A k \in 0..n : k = 0 \/ k \in 1..n
      BY <1>1
    <2>2. \A k \in 0..n : entry[k] = Body(entry)[k]
      BY <1>3, <1>4, <2>1
    <2>3. QED
      BY <2>2
  <1>6. G = Body(G)
    <2> HIDE DEF Body
    <2>1. QED
      BY <1>5
  <1>7. /\ DOMAIN G = 0..n
        /\ G[0] = NoEntry
        /\ \A k \in 1..n : G[k] = IF list[k].name = name THEN Merge(G[k - 1], list[k]) ELSE G[k - 1]
    <2> DEFINE H == G
    <2>1. H = Body(H)
      BY <1>6
    <2> HIDE DEF G
    <2>2. QED
      BY <1>1, <2>1
  <1>8. Merged(list, name) = G[n]
    BY DEF Merged, n
  <1> HIDE DEF G
  <1>9. \A k \in 0..n : G[k] = entry[k]
    <2> DEFINE T == {k \in 0..n : G[k] = entry[k]}
    <2>1. 0 \in T
      BY <1>1, <1>3, <1>7
    <2>2. ASSUME NEW k \in 1..n, k - 1 \in T PROVE k \in T
      <3>1. G[k - 1] = entry[k - 1] /\ k \in 0..n
        BY <1>1, <2>2
      <3>2. G[k] = entry[k]
        BY <1>4, <1>7, <3>1
      <3>3. QED
        BY <3>1, <3>2
    <2> HIDE DEF T
    <2>3. \A k \in 0..n : k \in T
      BY <1>1, <2>1, <2>2, ThroughTheLoop
    <2>4. QED
      BY <2>3 DEF T
  <1>10. QED
    BY <1>1, <1>3, <1>4, <1>8, <1>9 DEF n

\* The same for the updates one by one.
IsUpdated(list, name, value) == list \in Seq(Updates) /\ name \in CounterNames /\ value \in Int

LEMMA OneByOneIs ==
    ASSUME NEW list, NEW name, NEW value, IsUpdated(list, name, value)
    PROVE  \E applied \in [0..Len(list) -> Int] :
             /\ applied[0] = value
             /\ \A k \in 1..Len(list) :
                  applied[k] = IF list[k].name = name THEN Apply(list[k], applied[k - 1]) ELSE applied[k - 1]
             /\ OneByOne(list, name, value) = applied[Len(list)]
  <1> USE DEF IsUpdated
  <1> DEFINE n == Len(list)
             F == [k \in 1..n |-> [v \in Int |-> IF list[k].name = name THEN Apply(list[k], v) ELSE v]]
  <1>1. n \in Nat /\ \A k \in 1..n : list[k] \in Updates
    OBVIOUS
  <1>2. F \in [1..n -> [Int -> Int]]
    BY <1>1, UpdatesAre
  <1> HIDE DEF n
  <1>3. PICK applied \in [0..n -> Int] :
          applied[0] = value /\ \A k \in 1..n : applied[k] = F[k][applied[k - 1]]
    <2> HIDE DEF F
    <2>1. Loop(n, Int, value, F)
      BY <1>1, <1>2, UpdatesAre DEF Loop
    <2>2. PICK applied : LoopRuns(n, Int, value, F, applied)
      BY <2>1, LoopEnds
    <2>3. QED
      BY <2>2 DEF LoopRuns
  <1>4. ASSUME NEW k \in 1..n
        PROVE  applied[k] = IF list[k].name = name THEN Apply(list[k], applied[k - 1]) ELSE applied[k - 1]
    <2>1. k - 1 \in 0..n
      BY <1>1
    <2>2. QED
      BY <1>3, <2>1
  <1> HIDE DEF F
  <1> DEFINE Body(f) == [k \in 0..n |->
               IF k = 0 THEN value
               ELSE IF list[k].name = name THEN Apply(list[k], f[k - 1]) ELSE f[k - 1]]
             G == CHOOSE f : f = Body(f)
  <1>5. applied = Body(applied)
    <2>1. \A k \in 0..n : k = 0 \/ k \in 1..n
      BY <1>1
    <2>2. \A k \in 0..n : applied[k] = Body(applied)[k]
      BY <1>3, <1>4, <2>1
    <2>3. QED
      BY <2>2
  <1>6. G = Body(G)
    <2> HIDE DEF Body
    <2>1. QED
      BY <1>5
  <1>7. /\ DOMAIN G = 0..n
        /\ G[0] = value
        /\ \A k \in 1..n : G[k] = IF list[k].name = name THEN Apply(list[k], G[k - 1]) ELSE G[k - 1]
    <2> DEFINE H == G
    <2>1. H = Body(H)
      BY <1>6
    <2> HIDE DEF G
    <2>2. QED
      BY <1>1, <2>1
  <1>8. OneByOne(list, name, value) = G[n]
    BY DEF OneByOne, n
  <1> HIDE DEF G
  <1>9. \A k \in 0..n : G[k] = applied[k]
    <2> DEFINE T == {k \in 0..n : G[k] = applied[k]}
    <2>1. 0 \in T
      BY <1>1, <1>3, <1>7
    <2>2. ASSUME NEW k \in 1..n, k - 1 \in T PROVE k \in T
      <3>1. G[k - 1] = applied[k - 1] /\ k \in 0..n
        BY <1>1, <2>2
      <3>2. G[k] = applied[k]
        BY <1>4, <1>7, <3>1
      <3>3. QED
        BY <3>1, <3>2
    <2> HIDE DEF T
    <2>3. \A k \in 0..n : k \in T
      BY <1>1, <2>1, <2>2, ThroughTheLoop
    <2>4. QED
      BY <2>3 DEF T
  <1>10. QED
    BY <1>1, <1>3, <1>4, <1>8, <1>9 DEF n

LEMMA OneByOneIsANumber ==
    ASSUME NEW list \in Seq(Updates), NEW name \in CounterNames, NEW value \in Int
    PROVE  OneByOne(list, name, value) \in Int
  <1>1. PICK n \in Nat : n = Len(list)
    OBVIOUS
  <1>2. PICK applied \in [0..n -> Int] :
             /\ applied[0] = value
             /\ \A k \in 1..n :
                  applied[k] = IF list[k].name = name THEN Apply(list[k], applied[k - 1]) ELSE applied[k - 1]
             /\ OneByOne(list, name, value) = applied[n]
    <2>1. IsUpdated(list, name, value)
      BY DEF IsUpdated
    <2>2. QED
      BY <1>1, <2>1, OneByOneIs
  <1>3. QED
    BY <1>2

\* What a list of one type per counter does to a value.
LEMMA MergingChangesNothing ==
    ASSUME NEW list \in Seq(Updates), Uniform(list), NEW name \in CounterNames, NEW value \in Int
    PROVE  /\ Merged(list, name) \in Entries
           /\ OneByOne(list, name, value) =
                IF Merged(list, name) = NoEntry THEN value ELSE Apply(Merged(list, name), value)
  <1>1. PICK n \in Nat : n = Len(list)
    OBVIOUS
  <1>2. PICK entry \in [0..n -> Entries] :
             /\ entry[0] = NoEntry
             /\ \A k \in 1..n :
                  entry[k] = IF list[k].name = name THEN Merge(entry[k - 1], list[k]) ELSE entry[k - 1]
             /\ Merged(list, name) = entry[n]
    BY <1>1, MergedIs
  <1>3. PICK applied \in [0..n -> Int] :
             /\ applied[0] = value
             /\ \A k \in 1..n :
                  applied[k] = IF list[k].name = name THEN Apply(list[k], applied[k - 1]) ELSE applied[k - 1]
             /\ OneByOne(list, name, value) = applied[n]
    <2>1. IsUpdated(list, name, value)
      BY DEF IsUpdated
    <2>2. QED
      BY <1>1, <2>1, OneByOneIs
  <1> DEFINE Same(e, v) == v = IF e = NoEntry THEN value ELSE Apply(e, value)
             \* An entry that has come of some update has the type of all of them.
             Typed(e) == e # NoEntry => /\ e.type # "none"
                                        /\ \A j \in 1..n : list[j].name = name => list[j].type = e.type
             T == {k \in 0..n : Same(entry[k], applied[k]) /\ Typed(entry[k])}
  <1>4. \A k \in 1..n : list[k] \in Updates
    BY <1>1
  <1>5. 0 \in T
    BY <1>1, <1>2, <1>3
  <1>6. ASSUME NEW k \in 1..n, k - 1 \in T PROVE k \in T
    <2>1. PICK e \in Entries, v \in Int, u \in Updates :
            e = entry[k - 1] /\ v = applied[k - 1] /\ u = list[k]
      <3>1. k - 1 \in 0..n
        BY <1>1
      <3>2. QED
        BY <1>4, <3>1
    <2>2. /\ k \in 0..n /\ Same(e, v) /\ Typed(e)
          /\ entry[k] = IF u.name = name THEN Merge(e, u) ELSE e
          /\ applied[k] = IF u.name = name THEN Apply(u, v) ELSE v
      BY <1>1, <1>2, <1>3, <1>6, <2>1
    <2>3. /\ u.type \in {"count", "absolute"} /\ u.value \in Int
          /\ e.type \in {"none", "count", "absolute"} /\ e.value \in Int
      BY UpdatesAre DEF Entries
    <2>4. CASE u.name # name
      BY <2>2, <2>4
    <2>5. CASE u.name = name /\ Skips(u)
      <3>1. Merge(e, u) = e /\ Apply(u, v) = v
        BY <2>3, <2>5 DEF Merge, Skips, Apply
      <3>2. QED
        BY <2>2, <2>5, <3>1
    <2>6. CASE u.name = name /\ ~Skips(u) /\ e = NoEntry
      <3>1. PICK m : m = [type |-> u.type, value |-> u.value]
        OBVIOUS
      <3>2. entry[k] = m /\ applied[k] = Apply(u, value)
        BY <2>2, <2>6, <3>1 DEF Merge
      <3>3. m.type = u.type /\ m.value = u.value /\ m # NoEntry
        BY <2>3, <3>1 DEF NoEntry
      <3>4. Apply(m, value) = Apply(u, value)
        BY <3>3 DEF Apply
      <3>5. \A j \in 1..n : list[j].name = name => list[j].type = u.type
        <4>1. \A j \in 1..n : j \in DOMAIN list
          BY <1>1
        <4>2. k \in DOMAIN list /\ list[k].name = name
          BY <2>1, <2>6, <4>1
        <4>3. \A j \in 1..n : list[j].name = list[k].name => list[j].type = list[k].type
          BY <4>1, <4>2 DEF Uniform
        <4>4. QED
          BY <2>1, <4>2, <4>3
      <3>6. Same(m, applied[k]) /\ Typed(m)
        BY <2>3, <3>2, <3>3, <3>4, <3>5
      <3>7. QED
        BY <2>2, <3>2, <3>6
    <2>7. CASE u.name = name /\ ~Skips(u) /\ e # NoEntry
      <3>1. PICK m : m = [type |-> e.type, value |-> Apply(u, e.value)]
        OBVIOUS
      <3>2. entry[k] = m /\ applied[k] = Apply(u, Apply(e, value))
        BY <2>2, <2>7, <3>1 DEF Merge
      <3>3. m.type = e.type /\ m.value = Apply(u, e.value) /\ m.type # "none" /\ m # NoEntry
        BY <2>2, <2>7, <3>1 DEF NoEntry
      <3>4. e.type = u.type
        BY <2>1, <2>2, <2>7
      <3>5. Apply(m, value) = Apply(u, Apply(e, value))
        BY <2>3, <3>3, <3>4 DEF Apply
      <3>6. Same(m, applied[k]) /\ Typed(m)
        BY <2>2, <2>7, <3>2, <3>3, <3>5
      <3>7. QED
        BY <2>2, <3>2, <3>6
    <2>8. QED
      BY <2>4, <2>5, <2>6, <2>7
  <1>7. n \in T
    <2> HIDE DEF T
    <2>1. \A k \in 0..n : k \in T
      BY <1>1, <1>5, <1>6, ThroughTheLoop
    <2>2. QED
      BY <1>1, <2>1
  <1>8. QED
    BY <1>1, <1>2, <1>3, <1>7

CountersInvariant ==
  /\ CountersTypeOK
  /\ UniformLists => UpdatesAllApply /\ \A patch \in patches : Uniform(patch.list)

LEMMA CountersStart == CountersInit => CountersInvariant
  BY CountersAssumption DEF CountersInit, CountersInvariant, CountersTypeOK, UpdatesAllApply, EntryKeys

LEMMA CountersStep == CountersInvariant /\ [CountersNext]_counterVars => CountersInvariant'
  <1> SUFFICES ASSUME CountersInvariant, [CountersNext]_counterVars PROVE CountersInvariant'
    OBVIOUS
  <1> USE DEF CountersInvariant, CountersTypeOK, UpdatesAllApply
  <1>1. CASE UNCHANGED counterVars
    BY <1>1 DEF counterVars
  <1>2. ASSUME NEW n \in 1..MaxList, NEW list \in [1..n -> Updates], Patch(list) PROVE CountersInvariant'
    <2>1. list \in Seq(Updates) /\ Len(list) \in Nat
      BY CountersAssumption
    <2>2. sent' \in 0..MaxUpdates
      BY <1>2, <2>1, CountersAssumption DEF Patch
    <2>3. PICK new : new = [list |-> list, timestamp |-> clock, order |-> sent]
      OBVIOUS
    <2>4. new.list = list /\ new.timestamp = clock /\ patches' = patches \cup {new}
      BY <1>2, <2>3 DEF Patch
    <2>5. \A patch \in patches' : /\ patch.timestamp \in 0..clock' /\ patch.list \in Seq(Updates)
                                  /\ UniformLists => Uniform(patch.list)
      BY <1>2, <2>1, <2>4, CountersAssumption DEF Patch
    <2>6. QED
      BY <1>2, <2>2, <2>5 DEF Patch
  <1>3. ASSUME NEW patch \in patches, Commit(patch) PROVE CountersInvariant'
    <2>1. patch.list \in Seq(Updates)
      OBVIOUS
    <2>2. ASSUME NEW name \in CounterNames, NEW value \in Int
          PROVE  Merged(patch.list, name) \in Entries /\ OneByOne(patch.list, name, value) \in Int
      <3>1. PICK list \in Seq(Updates) : list = patch.list
        BY <2>1
      <3>2. PICK n \in Nat : n = Len(list)
        OBVIOUS
      <3>3. n \in 0..n
        OBVIOUS
      <3>4. Merged(list, name) \in Entries
        <4>1. PICK entry \in [0..n -> Entries] : Merged(list, name) = entry[n]
          BY <3>2, MergedIs
        <4>2. QED
          BY <3>3, <4>1
      <3>5. OneByOne(list, name, value) \in Int
        BY OneByOneIsANumber
      <3>6. QED
        BY <3>1, <3>4, <3>5
    <2>0. \A e \in EntryKeys : e.name \in CounterNames
      BY DEF EntryKeys
    <2>3. \A e \in EntryKeys : /\ Apply(Merged(patch.list, e.name), entries[e]) \in Int
                               /\ OneByOne(patch.list, e.name, should[e]) \in Int
      BY <2>0, <2>2, UpdatesAre
    <2>4. entries' \in [EntryKeys -> Int] /\ should' \in [EntryKeys -> Int]
      BY <1>3, <2>3 DEF Commit
    <2>5. ASSUME UniformLists PROVE entries' = should'
      <3>1. \A e \in EntryKeys :
              OneByOne(patch.list, e.name, should[e]) =
                IF Merged(patch.list, e.name) = NoEntry THEN should[e]
                ELSE Apply(Merged(patch.list, e.name), should[e])
        BY <2>0, <2>1, <2>5, MergingChangesNothing
      <3>2. \A e \in EntryKeys : entries'[e] = should'[e]
        BY <1>3, <2>5, <3>1 DEF Commit, Files
      <3>3. QED
        BY <2>4, <3>2
    <2>6. QED
      BY <1>3, <2>4, <2>5 DEF Commit
  <1>4. CASE Tick
    BY <1>4, CountersAssumption DEF Tick
  <1>5. QED
    BY <1>1, <1>2, <1>3, <1>4 DEF CountersNext

\* All updates of a list get applied, though they are merged: each counter has the value it
\* would have had they been written one by one (api/players/counters.py:195).
THEOREM AllUpdatesApply ==
    ASSUME UniformLists PROVE CountersSpec => []UpdatesAllApply
  <1>1. CountersInvariant => UpdatesAllApply
    BY DEF CountersInvariant
  <1>2. QED
    BY <1>1, CountersStart, CountersStep, PTL DEF CountersSpec

----------------------------------------------------------------------------
(* The match queue: the rows are fair before and after a run.               *)

\* What is left of the rows of a queue.
LEMMA KeptRowsAre ==
    ASSUME NEW q \in Seq(Row), NEW I \in SUBSET (DOMAIN q), NEW t, t = Kept(q, I)
    PROVE  /\ t \in Seq(Row)
           /\ \E f \in [DOMAIN t -> I] :
                /\ \A j, k \in DOMAIN t : f[j] = f[k] => j = k
                /\ \A k \in DOMAIN t : t[k] = q[f[k]]
  <1>1. PICK n \in Nat : DOMAIN q = 1..n
    OBVIOUS
  <1>2. PICK m : m = Cardinality(I)
    OBVIOUS
  <1>3. I \in SUBSET (1..n)
    BY <1>1
  <1>4. /\ m \in Nat
        /\ \E f \in [1..m -> I] :
             /\ \A j, k \in 1..m : j < k => f[j] < f[k]
             /\ \A i \in I : \E k \in 1..m : f[k] = i
             /\ t = [k \in 1..m |-> q[f[k]]]
    <2>1. KeptFrom(n, q, I, t, m)
      BY <1>1, <1>2, <1>3 DEF KeptFrom
    <2>2. QED
      BY <2>1, KeptAs
  <1>5. PICK f \in [1..m -> I] :
          /\ \A j, k \in 1..m : j < k => f[j] < f[k]
          /\ t = [k \in 1..m |-> q[f[k]]]
    BY <1>4
  <1>6. DOMAIN t = 1..m /\ \A k \in 1..m : f[k] \in DOMAIN q /\ t[k] = q[f[k]]
    BY <1>5
  <1>7. t \in Seq(Row)
    <2>1. \A k \in 1..m : q[f[k]] \in Row
      BY <1>6
    <2>2. t \in [1..m -> Row]
      BY <1>5, <2>1
    <2>3. QED
      BY <1>4, <2>2
  <1>8. ASSUME NEW j \in 1..m, NEW k \in 1..m, f[j] = f[k] PROVE j = k
    <2>1. j \in Int /\ k \in Int /\ f[j] \in Int
      BY <1>1, <1>4, <1>6
    <2>2. ~(f[j] < f[k]) /\ ~(f[k] < f[j])
      BY <1>8, <2>1
    <2>3. ~(j < k) /\ ~(k < j)
      BY <1>5, <2>2
    <2>4. QED
      BY <2>1, <2>3
  <1>9. QED
    BY <1>5, <1>6, <1>7, <1>8

RowMatches(q) == \A i \in DOMAIN q : q[i].match # "none" <=> q[i].status = "matched"
Once(q) ==
  \A i, j \in DOMAIN q :
    q[i].player = q[j].player /\ "error" \notin {q[i].status, q[j].status} => i = j
NoneStrange(q) ==
  \A i, j \in DOMAIN q : q[i].match # "none" /\ q[i].match = q[j].match =>
    (q[i].token = NoToken) = (q[j].token = NoToken)
SoundRows(q) == q \in Seq(Row) /\ RowMatches(q) /\ Once(q) /\ NoneStrange(q)

LEMMA KeptRowsAreSound ==
    ASSUME NEW q, SoundRows(q), NEW I \in SUBSET (DOMAIN q), NEW t, t = Kept(q, I)
    PROVE  SoundRows(t) /\ \A k \in DOMAIN t : \E i \in I : t[k] = q[i]
  <1>1. q \in Seq(Row) /\ RowMatches(q) /\ Once(q) /\ NoneStrange(q)
    BY DEF SoundRows
  <1>2. /\ t \in Seq(Row)
        /\ \E f \in [DOMAIN t -> I] :
             /\ \A j, k \in DOMAIN t : f[j] = f[k] => j = k
             /\ \A k \in DOMAIN t : t[k] = q[f[k]]
    BY <1>1, KeptRowsAre
  <1>3. PICK f \in [DOMAIN t -> I] :
             /\ \A j, k \in DOMAIN t : f[j] = f[k] => j = k
             /\ \A k \in DOMAIN t : t[k] = q[f[k]]
    BY <1>2
  <1>4. \A k \in DOMAIN t : f[k] \in DOMAIN q /\ f[k] \in I /\ t[k] = q[f[k]]
    BY <1>3
  <1>5. RowMatches(t)
    BY <1>1, <1>4 DEF RowMatches
  <1>6. Once(t)
    BY <1>1, <1>3, <1>4 DEF Once
  <1>7. NoneStrange(t)
    BY <1>1, <1>4 DEF NoneStrange
  <1>8. QED
    BY <1>2, <1>4, <1>5, <1>6, <1>7 DEF SoundRows

----------------------------------------------------------------------------
\* One match of a run.

QueueRuns == [queue : Seq(Row), done : SUBSET QueuePlayers, full : SUBSET QueueMatches]

LEMMA ChosenWait ==
    ASSUME NEW q, NEW m, NEW done
    PROVE  /\ Chosen(q, m, done) \subseteq {i \in DOMAIN q : q[i].status = "waiting"}
           /\ \A i, j \in Chosen(q, m, done) : (q[i].token = NoToken) = (q[j].token = NoToken)
  <1>1. ASSUME NEW i \in Challengers(q, m)
        PROVE  i \in Waiting(q) /\ q[i].token # NoToken
    <2>1. PICK token \in Tokens : i \in Challenge(q, token)
      BY DEF Challengers
    <2>2. QED
      BY <2>1, QueueAssumption DEF Challenge
  <1>2. ASSUME NEW i \in Strangers(q, m, done)
        PROVE  i \in Waiting(q) /\ q[i].token = NoToken
    BY DEF Strangers, Eligible
  <1>3. Chosen(q, m, done) = Challengers(q, m) \/ Chosen(q, m, done) = Strangers(q, m, done)
    BY DEF Chosen
  <1>4. QED
    BY <1>1, <1>2, <1>3 DEF Waiting

MatchedTo(x, m) == [x EXCEPT !.status = "matched", !.match = m]

LEMMA MatchedToIs ==
    ASSUME NEW x \in Row, NEW m \in QueueMatches, NEW z, z = MatchedTo(x, m)
    PROVE  /\ z \in Row /\ z.player = x.player /\ z.token = x.token
           /\ z.status = "matched" /\ z.match = m
  <1>1. PICK y : y = [x EXCEPT !.status = "matched"]
    OBVIOUS
  <1>2. y \in Row /\ y.player = x.player /\ y.token = x.token /\ y.status = "matched"
    BY <1>1 DEF Row
  <1>3. z = [y EXCEPT !.match = m]
    BY <1>1 DEF MatchedTo
  <1>4. QED
    BY <1>2, <1>3 DEF Row

Matches(q, t, m, full, chosen) ==
  /\ chosen \in SUBSET (DOMAIN q)
  /\ \A i \in chosen : q[i].status = "waiting" /\ t[i] = MatchedTo(q[i], m)
  /\ \A i \in (DOMAIN q) \ chosen : t[i] = q[i]
  /\ \A i, j \in chosen : (q[i].token = NoToken) = (q[j].token = NoToken)
  /\ chosen # {} => m \in full

\* What it changes: rows that wait become matched, with m.
LEMMA PopulateIs ==
    ASSUME NEW r \in QueueRuns, NEW m \in QueueMatches, NEW q, q = r.queue,
           NEW s, s = Populate(r, m), NEW t, t = s.queue
    PROVE  /\ s \in QueueRuns
           /\ s.full \subseteq r.full \cup {m} /\ r.full \subseteq s.full
           /\ DOMAIN t = DOMAIN q
           /\ s = r \/ m \in s.full
           /\ \E chosen : Matches(q, t, m, s.full, chosen)
  <1>1. q \in Seq(Row) /\ r.done \in SUBSET QueuePlayers /\ r.full \in SUBSET QueueMatches
    BY DEF QueueRuns
  <1>2. CASE s = r
    <2>1. Matches(q, t, m, s.full, {})
      BY <1>2 DEF Matches
    <2>2. QED
      BY <1>2, <2>1
  <1>3. CASE s # r
    <2>1. PICK chosen : chosen = Chosen(q, m, r.done)
      OBVIOUS
    <2>2. /\ chosen \in SUBSET (DOMAIN q)
          /\ \A i \in chosen : q[i].status = "waiting"
          /\ \A i, j \in chosen : (q[i].token = NoToken) = (q[j].token = NoToken)
      BY <2>1, ChosenWait
    <2>3. PICK u, d :
            /\ u = [i \in DOMAIN q |-> IF i \in chosen THEN MatchedTo(q[i], m) ELSE q[i]]
            /\ d = r.done \cup {q[i].player : i \in chosen}
      OBVIOUS
    <2>4. s = [queue |-> u, done |-> d, full |-> r.full \cup {m}]
      BY <1>3, <2>1, <2>3 DEF Populate, MatchedTo
    <2>5. /\ t = [i \in DOMAIN q |-> IF i \in chosen THEN MatchedTo(q[i], m) ELSE q[i]]
          /\ s.full = r.full \cup {m} /\ s.done = r.done \cup {q[i].player : i \in chosen}
      <3>1. t = u /\ s.full = r.full \cup {m} /\ s.done = d
        BY <2>4
      <3>2. QED
        BY <2>3, <3>1
    <2>6. \A i \in DOMAIN q : /\ q[i] \in Row /\ q[i].player \in QueuePlayers
                              /\ MatchedTo(q[i], m) \in Row
      <3>1. \A x \in Row : x.player \in QueuePlayers
        BY DEF Row
      <3>2. QED
        BY <1>1, <3>1, MatchedToIs
    <2>7. t \in Seq(Row)
      <3>1. PICK n \in Nat : DOMAIN q = 1..n
        BY <1>1
      <3>2. t \in [1..n -> Row]
        BY <2>5, <2>6, <3>1
      <3>3. QED
        BY <3>2
    <2>8. s.done \subseteq QueuePlayers
      BY <1>1, <2>2, <2>5, <2>6
    <2>9. s \in QueueRuns
      BY <1>1, <2>4, <2>5, <2>7, <2>8 DEF QueueRuns
    <2>10. DOMAIN t = DOMAIN q
      BY <2>5
    <2>11. /\ \A i \in chosen : q[i].status = "waiting" /\ t[i] = MatchedTo(q[i], m)
           /\ \A i \in (DOMAIN q) \ chosen : t[i] = q[i]
      BY <2>2, <2>5
    <2>12. Matches(q, t, m, s.full, chosen)
      BY <2>2, <2>5, <2>11 DEF Matches
    <2>13. QED
      BY <1>3, <2>5, <2>9, <2>10, <2>12
  <1>4. QED
    BY <1>2, <1>3

\* The loop over the idle matches, step by step.
IsRun(before, n, order) == before \in Seq(Row) /\ n \in Nat /\ order \in [1..n -> QueueMatches]

Fills(before, n, order, run) ==
  /\ run \in [0..n -> QueueRuns]
  /\ run[0] = [queue |-> before, done |-> {}, full |-> {}]
  /\ \A k \in 1..n : run[k] = Populate(run[k - 1], order[k])
  /\ Filled(before, order) = run[n]

LEMMA FilledIs ==
    ASSUME NEW before, NEW n, NEW order, IsRun(before, n, order)
    PROVE  \E run : Fills(before, n, order, run)
  <1> USE DEF IsRun
  <1> DEFINE start == [queue |-> before, done |-> {}, full |-> {}]
             F == [k \in 1..n |-> [r \in QueueRuns |-> Populate(r, order[k])]]
  <1>1. start \in QueueRuns
    BY DEF QueueRuns
  <1>2. F \in [1..n -> [QueueRuns -> QueueRuns]]
    BY PopulateIs
  <1>3. Len(order) = n
    <2>1. order \in Seq(QueueMatches)
      OBVIOUS
    <2>2. QED
      BY <2>1
  <1>4. PICK run : LoopRuns(n, QueueRuns, start, F, run)
    <2> HIDE DEF F, start
    <2>1. Loop(n, QueueRuns, start, F)
      BY <1>1, <1>2 DEF Loop
    <2>2. QED
      BY <2>1, LoopEnds
  <1>5. ASSUME NEW k \in 1..n PROVE run[k] = Populate(run[k - 1], order[k])
    <2>1. k - 1 \in 0..n
      OBVIOUS
    <2>2. QED
      BY <1>4, <2>1 DEF LoopRuns
  <1>6. run \in [0..n -> QueueRuns] /\ run[0] = start
    <2> HIDE DEF start
    <2>1. QED
      BY <1>4 DEF LoopRuns
  <1> HIDE DEF F
  <1> DEFINE Body(f) == [k \in 0..n |-> IF k = 0 THEN start ELSE Populate(f[k - 1], order[k])]
             G == CHOOSE f : f = Body(f)
  <1>7. run = Body(run)
    <2> HIDE DEF start
    <2>1. \A k \in 0..n : k = 0 \/ k \in 1..n
      OBVIOUS
    <2>2. \A k \in 0..n : run[k] = Body(run)[k]
      BY <1>5, <1>6, <2>1
    <2>3. QED
      BY <1>6, <2>2
  <1>8. G = Body(G)
    <2> HIDE DEF Body
    <2>1. QED
      BY <1>7
  <1>9. Filled(before, order) = G[n]
    BY <1>3 DEF Filled
  <1> HIDE DEF start
  <1>10. G[0] = start /\ \A k \in 1..n : G[k] = Populate(G[k - 1], order[k])
    <2> DEFINE H == G
    <2>1. H = Body(H)
      BY <1>8
    <2> HIDE DEF G
    <2>2. QED
      BY <2>1
  <1> HIDE DEF G
  <1>11. \A k \in 0..n : G[k] = run[k]
    <2> DEFINE T == {k \in 0..n : G[k] = run[k]}
    <2>1. 0 \in T
      BY <1>6, <1>10
    <2>2. ASSUME NEW k \in 1..n, k - 1 \in T PROVE k \in T
      <3>1. G[k - 1] = run[k - 1] /\ k \in 0..n
        BY <2>2
      <3>2. G[k] = run[k]
        BY <1>5, <1>10, <3>1
      <3>3. QED
        BY <3>1, <3>2
    <2> HIDE DEF T
    <2>3. \A k \in 0..n : k \in T
      BY <2>1, <2>2, ThroughTheLoop
    <2>4. QED
      BY <2>3 DEF T
  <1>12. n \in 0..n
    OBVIOUS
  <1>13. QED
    BY <1>5, <1>6, <1>9, <1>11, <1>12 DEF start, Fills

\* Rows name matches that are taken, before the run or in it.
Taken(q, s, full) ==
  \A i \in DOMAIN q : q[i].match # "none" => s[q[i].match] \in {"queue", "started"} \/ q[i].match \in full

\* The rows are those that were there, and none has become an error or stopped being one.
SameRows(q, before) ==
  /\ DOMAIN q = DOMAIN before
  /\ \A i \in DOMAIN before : /\ q[i].player = before[i].player
                              /\ q[i].status = "error" <=> before[i].status = "error"

\* A match that no row names gets rows of one kind.
LEMMA PopulateIsFair ==
    ASSUME NEW r \in QueueRuns, NEW m \in QueueMatches, NEW q, q = r.queue,
           NEW s, s = Populate(r, m), NEW t, t = s.queue, NEW st, NEW before,
           SoundRows(q), Taken(q, st, r.full), SameRows(q, before),
           st[m] = "idle", m \notin r.full
    PROVE  SoundRows(t) /\ Taken(t, st, s.full) /\ SameRows(t, before)
  <1>1. /\ s \in QueueRuns
        /\ s.full \subseteq r.full \cup {m} /\ r.full \subseteq s.full
        /\ DOMAIN t = DOMAIN q
    BY PopulateIs
  <1>2. PICK chosen \in SUBSET (DOMAIN q) :
          /\ \A i \in chosen : q[i].status = "waiting" /\ t[i] = MatchedTo(q[i], m)
          /\ \A i \in (DOMAIN q) \ chosen : t[i] = q[i]
          /\ \A i, j \in chosen : (q[i].token = NoToken) = (q[j].token = NoToken)
          /\ chosen # {} => m \in s.full
    <2>1. PICK chosen : Matches(q, t, m, s.full, chosen)
      BY PopulateIs
    <2>2. QED
      BY <2>1 DEF Matches
  <1>3. q \in Seq(Row) /\ t \in Seq(Row)
    BY <1>1 DEF QueueRuns
  <1>4. \A i \in DOMAIN q : q[i] \in Row /\ q[i].match \in QueueMatches \cup {"none"}
    <2>1. \A x \in Row : x.match \in QueueMatches \cup {"none"}
      BY DEF Row
    <2>2. QED
      BY <1>3, <2>1
  <1>5. \A i \in chosen : /\ t[i].player = q[i].player /\ t[i].token = q[i].token
                          /\ t[i].status = "matched" /\ t[i].match = m
    BY <1>2, <1>4, MatchedToIs
  <1>6. m # "none" /\ \A i \in DOMAIN q : q[i].match # m
    <2>1. m # "none"
      BY QueueAssumption
    <2>2. QED
      BY <2>1 DEF Taken
  <1>7. \A i \in DOMAIN q : t[i].player = q[i].player /\ t[i].token = q[i].token
    BY <1>2, <1>5
  <1>8. RowMatches(t)
    BY <1>1, <1>2, <1>5, <1>6 DEF RowMatches, SoundRows
  <1>9. Once(t)
    <2>1. \A i \in DOMAIN q : t[i].status # "error" => q[i].status # "error"
      BY <1>2, <1>5
    <2>2. QED
      BY <1>1, <1>7, <2>1 DEF Once, SoundRows
  <1>10. NoneStrange(t)
    <2>1. ASSUME NEW i \in DOMAIN q, NEW j \in DOMAIN q, t[i].match # "none", t[i].match = t[j].match
          PROVE  (q[i].token = NoToken) = (q[j].token = NoToken)
      <3>1. CASE i \in chosen
        <4>1. j \in chosen
          BY <1>2, <1>5, <1>6, <2>1, <3>1
        <4>2. QED
          BY <1>2, <3>1, <4>1
      <3>2. CASE i \notin chosen
        <4>1. j \notin chosen
          BY <1>2, <1>5, <1>6, <2>1, <3>2
        <4>2. t[i] = q[i] /\ t[j] = q[j]
          BY <1>2, <3>2, <4>1
        <4>3. QED
          BY <2>1, <4>2 DEF SoundRows, NoneStrange
      <3>3. QED
        BY <3>1, <3>2
    <2>2. QED
      BY <1>1, <1>7, <2>1 DEF NoneStrange
  <1>11. Taken(t, st, s.full)
    BY <1>1, <1>2, <1>5 DEF Taken
  <1>12. SameRows(t, before)
    <2>1. \A i \in DOMAIN q : t[i].status = "error" <=> q[i].status = "error"
      BY <1>2, <1>5
    <2>2. QED
      BY <1>1, <1>7, <2>1 DEF SameRows
  <1>13. QED
    BY <1>3, <1>8, <1>9, <1>10, <1>11, <1>12 DEF SoundRows

LEMMA FilledIsFair ==
    ASSUME NEW before, SoundRows(before), NEW st, Taken(before, st, {}), NEW n \in Nat,
           NEW order \in [1..n -> QueueMatches], \A j, k \in 1..n : order[j] = order[k] => j = k,
           \A k \in 1..n : st[order[k]] = "idle", NEW run, run = Filled(before, order)
    PROVE  /\ run \in QueueRuns
           /\ SoundRows(run.queue) /\ Taken(run.queue, st, run.full) /\ SameRows(run.queue, before)
  <1>1. before \in Seq(Row)
    BY DEF SoundRows
  <1>2. PICK f \in [0..n -> QueueRuns] :
             /\ f[0] = [queue |-> before, done |-> {}, full |-> {}]
             /\ \A k \in 1..n : f[k] = Populate(f[k - 1], order[k])
             /\ Filled(before, order) = f[n]
    <2>1. IsRun(before, n, order)
      BY <1>1 DEF IsRun
    <2>2. PICK f : Fills(before, n, order, f)
      BY <2>1, FilledIs
    <2>3. QED
      BY <2>2 DEF Fills
  <1> DEFINE Fair(k, r) == /\ SoundRows(r.queue) /\ Taken(r.queue, st, r.full) /\ SameRows(r.queue, before)
                           /\ r.full \subseteq {order[j] : j \in 1..k}
             T == {k \in 0..n : Fair(k, f[k])}
  <1>3. 0 \in T
    <2>1. f[0].queue = before /\ f[0].full = {}
      BY <1>2
    <2>2. SameRows(before, before)
      BY DEF SameRows
    <2>3. Fair(0, f[0])
      BY <2>1, <2>2
    <2>4. QED
      BY <2>3
  <1>4. ASSUME NEW k \in 1..n, k - 1 \in T PROVE k \in T
    <2>1. PICK r \in QueueRuns, m \in QueueMatches : r = f[k - 1] /\ m = order[k]
      <3>1. k - 1 \in 0..n
        OBVIOUS
      <3>2. QED
        BY <3>1
    <2>2. PICK q, s, t : q = r.queue /\ s = Populate(r, m) /\ t = s.queue
      OBVIOUS
    <2>3. k \in 0..n /\ s = f[k]
      BY <1>2, <2>1, <2>2
    <2>4. /\ SoundRows(q) /\ Taken(q, st, r.full) /\ SameRows(q, before)
          /\ r.full \subseteq {order[j] : j \in 1..(k - 1)}
      BY <1>4, <2>1, <2>2
    <2>5. st[m] = "idle" /\ m \notin r.full
      <3>1. st[m] = "idle"
        BY <2>1
      <3>2. \A j \in 1..(k - 1) : j \in 1..n /\ j # k
        OBVIOUS
      <3>3. \A j \in 1..(k - 1) : order[j] # m
        BY <2>1, <3>2
      <3>4. QED
        BY <2>4, <3>1, <3>3
    <2>6. SoundRows(t) /\ Taken(t, st, s.full) /\ SameRows(t, before)
      BY <2>2, <2>4, <2>5, PopulateIsFair
    <2>7. s.full \subseteq r.full \cup {m}
      BY <2>2, PopulateIs
    <2>8. s.full \subseteq {order[j] : j \in 1..k}
      <3>1. m \in {order[j] : j \in 1..k}
        BY <2>1
      <3>2. \A j \in 1..(k - 1) : j \in 1..k
        OBVIOUS
      <3>3. QED
        BY <2>4, <2>7, <3>1, <3>2
    <2>9. QED
      BY <2>2, <2>3, <2>6, <2>8
  <1>5. n \in T
    <2> HIDE DEF T
    <2>1. \A k \in 0..n : k \in T
      BY <1>3, <1>4, ThroughTheLoop
    <2>2. QED
      BY <2>1
  <1>6. run = f[n] /\ n \in 0..n
    BY <1>2
  <1>7. QED
    BY <1>5, <1>6

----------------------------------------------------------------------------
\* A run of process_match_queue.

LEMMA ProcessIsFair ==
    ASSUME NEW q, NEW s, SoundRows(q), Taken(q, s, {}),
           s \in [QueueMatches -> {"none", "idle", "queue", "started"}], Process(q, s)
    PROVE  /\ SoundRows(queue') /\ Taken(queue', status', {})
           /\ status' \in [QueueMatches -> {"none", "idle", "queue", "started"}]
           /\ \A i \in DOMAIN queue' : \E j \in DOMAIN q :
                queue'[i].player = q[j].player /\ (queue'[i].status = "error" <=> q[j].status = "error")
  <1>1. PICK idle : idle = {m \in QueueMatches : s[m] = "idle"}
    OBVIOUS
  <1>2. PICK n, order :
          /\ n \in Nat /\ order \in [1..n -> idle] /\ (\A j, k \in 1..n : order[j] = order[k] => j = k)
          /\ queue' = Filled(Present(q), order).queue
          /\ status' = [m \in QueueMatches |-> IF m \in Filled(Present(q), order).full THEN "queue" ELSE s[m]]
    <2>1. idle \in SUBSET QueueMatches
      BY <1>1
    <2>2. PICK order \in SetToSeqs(idle) :
            /\ queue' = Filled(Present(q), order).queue
            /\ status' = [m \in QueueMatches |-> IF m \in Filled(Present(q), order).full THEN "queue" ELSE s[m]]
      <3>1. Orders[idle] = SetToSeqs(idle)
        BY <2>1 DEF Orders
      <3>2. QED
        BY <1>1, <3>1 DEF Process
    <2>3. Cardinality(idle) \in Nat
      BY <2>1, QueueAssumption, FS_Subset, FS_CardinalityType
    <2>4. /\ order \in [1..Cardinality(idle) -> idle]
          /\ \A j, k \in 1..Cardinality(idle) : order[j] = order[k] => j = k
      BY <2>2 DEF SetToSeqs
    <2>5. QED
      BY <2>2, <2>3, <2>4
  <1>3. PICK before, I : /\ I = {i \in DOMAIN q : q[i].status = "waiting" => q[i].player \in here}
                       /\ before = Kept(q, I) /\ before = Present(q)
    BY DEF Present
  <1>4. SoundRows(before) /\ \A k \in DOMAIN before : \E i \in I : before[k] = q[i]
    <2>1. I \in SUBSET (DOMAIN q) /\ before = Kept(q, I)
      BY <1>3
    <2>2. QED
      BY <2>1, KeptRowsAreSound
  <1>5. Taken(before, s, {})
    BY <1>3, <1>4 DEF Taken
  <1>6. PICK run : run = Filled(before, order)
    OBVIOUS
  <1>7. order \in [1..n -> QueueMatches] /\ \A k \in 1..n : s[order[k]] = "idle"
    BY <1>1, <1>2
  <1>8. /\ run \in QueueRuns
        /\ SoundRows(run.queue) /\ Taken(run.queue, s, run.full) /\ SameRows(run.queue, before)
    BY <1>2, <1>4, <1>5, <1>6, <1>7, FilledIsFair
  <1>9. /\ queue' = run.queue
        /\ status' = [m \in QueueMatches |-> IF m \in run.full THEN "queue" ELSE s[m]]
    BY <1>2, <1>3, <1>6
  <1>10. status' \in [QueueMatches -> {"none", "idle", "queue", "started"}]
    BY <1>9
  <1>11. Taken(queue', status', {})
    <2>1. \A i \in DOMAIN queue' : queue'[i].match \in QueueMatches \cup {"none"}
      <3>1. \A x \in Row : x.match \in QueueMatches \cup {"none"}
        BY DEF Row
      <3>2. queue' \in Seq(Row)
        BY <1>8, <1>9 DEF SoundRows
      <3>3. QED
        BY <3>1, <3>2
    <2>2. ASSUME NEW i \in DOMAIN queue', queue'[i].match # "none"
          PROVE  status'[queue'[i].match] \in {"queue", "started"}
      <3>1. PICK m \in QueueMatches : m = queue'[i].match
        BY <2>1, <2>2
      <3>2. s[m] \in {"queue", "started"} \/ m \in run.full
        BY <1>8, <1>9, <2>2, <3>1 DEF Taken
      <3>3. QED
        BY <1>9, <3>1, <3>2
    <2>3. QED
      BY <2>2 DEF Taken
  <1>12. ASSUME NEW i \in DOMAIN queue'
         PROVE  \E j \in DOMAIN q :
                  queue'[i].player = q[j].player /\ (queue'[i].status = "error" <=> q[j].status = "error")
    <2>1. i \in DOMAIN before /\ queue'[i].player = before[i].player /\ (queue'[i].status = "error" <=> before[i].status = "error")
      BY <1>8, <1>9 DEF SameRows
    <2>2. PICK j \in I : before[i] = q[j]
      BY <1>4, <2>1
    <2>3. QED
      BY <1>3, <2>1, <2>2
  <1>13. QED
    BY <1>8, <1>9, <1>10, <1>11, <1>12

QueueInvariant ==
  /\ SoundRows(queue) /\ Taken(queue, status, {})
  /\ status \in [QueueMatches -> {"none", "idle", "queue", "started"}]
  /\ posting \in [QueuePlayers -> {"no", "adding", "processing"}]
  /\ here \subseteq QueuePlayers
  /\ \A p \in QueuePlayers : posting[p] = "adding" =>
       \A i \in DOMAIN queue : queue[i].player = p => queue[i].status = "error"

LEMMA QueueIsFair == QueueInvariant => QueueTypeOK /\ FairQueue
  BY DEF QueueInvariant, SoundRows, RowMatches, Once, NoneStrange, Taken,
         QueueTypeOK, FairQueue, QueuedOnce, NoStrangers, MatchedIsTaken

LEMMA QueueStarts == QueueInit => QueueInvariant
  <1> SUFFICES ASSUME QueueInit PROVE QueueInvariant
    OBVIOUS
  <1>1. queue \in Seq(Row) /\ DOMAIN queue = {}
    BY DEF QueueInit
  <1>2. SoundRows(queue) /\ Taken(queue, status, {})
    BY <1>1 DEF SoundRows, RowMatches, Once, NoneStrange, Taken
  <1>3. QED
    BY <1>1, <1>2 DEF QueueInit, QueueInvariant

\* Rows go, of anybody; who adds his has none.
LEMMA RemovalIsFair ==
    ASSUME QueueInvariant, NEW I \in SUBSET (DOMAIN queue), queue' = Kept(queue, I),
           status' \in [QueueMatches -> {"none", "idle", "queue", "started"}],
           \A m \in QueueMatches : status[m] \in {"queue", "started"} => status'[m] \in {"queue", "started"},
           posting' \in [QueuePlayers -> {"no", "adding", "processing"}], here' \subseteq QueuePlayers,
           \A p \in QueuePlayers : posting'[p] = "adding" =>
             posting[p] = "adding" \/ \A i \in I : queue[i].player = p => queue[i].status = "error"
    PROVE  QueueInvariant'
  <1>1. SoundRows(queue') /\ \A k \in DOMAIN queue' : \E i \in I : queue'[k] = queue[i]
    BY KeptRowsAreSound DEF QueueInvariant
  <1>2. \A i \in DOMAIN queue : queue[i].match \in QueueMatches \cup {"none"}
    <2>1. \A x \in Row : x.match \in QueueMatches \cup {"none"}
      BY DEF Row
    <2>2. queue \in Seq(Row)
      BY DEF QueueInvariant, SoundRows
    <2>3. QED
      BY <2>1, <2>2
  <1>3. Taken(queue', status', {})
    BY <1>1, <1>2 DEF Taken, QueueInvariant
  <1>4. \A p \in QueuePlayers : posting'[p] = "adding" =>
          \A k \in DOMAIN queue' : queue'[k].player = p => queue'[k].status = "error"
    BY <1>1 DEF QueueInvariant
  <1>5. QED
    BY <1>1, <1>3, <1>4 DEF QueueInvariant

LEMMA ProcessKeeps ==
    ASSUME QueueInvariant, NEW s, s \in [QueueMatches -> {"none", "idle", "queue", "started"}],
           Taken(queue, s, {}), Process(queue, s), here' = here,
           posting' \in [QueuePlayers -> {"no", "adding", "processing"}],
           \A p \in QueuePlayers : posting'[p] = "adding" => posting[p] = "adding"
    PROVE  QueueInvariant'
  <1>1. /\ SoundRows(queue') /\ Taken(queue', status', {})
        /\ status' \in [QueueMatches -> {"none", "idle", "queue", "started"}]
        /\ \A i \in DOMAIN queue' : \E j \in DOMAIN queue :
             queue'[i].player = queue[j].player /\ (queue'[i].status = "error" <=> queue[j].status = "error")
    BY ProcessIsFair DEF QueueInvariant
  <1>2. QED
    BY <1>1 DEF QueueInvariant

LEMMA AddIsFair ==
    ASSUME QueueInvariant, NEW p \in QueuePlayers, NEW token \in Tokens \cup {NoToken}, NEW ref \in Refs \cup {NoRef},
           Add(p, token, ref)
    PROVE  QueueInvariant'
  <1>1. PICK row : row = [player |-> p, token |-> token, ref |-> ref, status |-> "waiting", match |-> "none"]
    OBVIOUS
  <1>2. row \in Row /\ row.player = p /\ row.status = "waiting" /\ row.match = "none"
    BY <1>1 DEF Row
  <1>3. PICK n \in Nat : n = Len(queue) /\ DOMAIN queue = 1..n
    BY DEF QueueInvariant, SoundRows
  <1>4. /\ queue \in Seq(Row) /\ queue' = Append(queue, row)
        /\ status' = status /\ here' = here /\ posting' = [posting EXCEPT ![p] = "processing"]
        /\ posting[p] = "adding"
    BY <1>1 DEF Add, QueueInvariant, SoundRows
  <1>5. /\ queue' \in Seq(Row) /\ DOMAIN queue' = 1..(n + 1)
        /\ queue'[n + 1] = row /\ \A i \in DOMAIN queue : queue'[i] = queue[i]
    BY <1>2, <1>3, <1>4
  <1>6. \A i \in DOMAIN queue' : i \in DOMAIN queue \/ i = n + 1
    BY <1>3, <1>5
  <1>7. \A i \in DOMAIN queue : queue[i].player = p => queue[i].status = "error"
    BY <1>4 DEF QueueInvariant
  <1>8. RowMatches(queue')
    BY <1>2, <1>5, <1>6 DEF RowMatches, QueueInvariant, SoundRows
  <1>9. Once(queue')
    <2>1. Once(queue)
      BY DEF QueueInvariant, SoundRows
    <2>2. QED
      BY <1>2, <1>5, <1>6, <1>7, <2>1 DEF Once
  <1>10. NoneStrange(queue')
    <2>1. NoneStrange(queue)
      BY DEF QueueInvariant, SoundRows
    <2>2. QED
      BY <1>2, <1>5, <1>6, <2>1 DEF NoneStrange
  <1>11. Taken(queue', status', {})
    BY <1>2, <1>4, <1>5, <1>6 DEF Taken, QueueInvariant
  <1>12. \A x \in QueuePlayers : posting'[x] = "adding" =>
           \A i \in DOMAIN queue' : queue'[i].player = x => queue'[i].status = "error"
    BY <1>2, <1>4, <1>5, <1>6 DEF QueueInvariant
  <1>13. QED
    BY <1>4, <1>5, <1>8, <1>9, <1>10, <1>11, <1>12 DEF QueueInvariant, SoundRows

LEMMA ErrorIsFair ==
    ASSUME QueueInvariant, NEW p \in QueuePlayers, PostFails(p)
    PROVE  QueueInvariant'
  <1> DEFINE Failed(x) == [x EXCEPT !.status = "error"]
             Hit(x) == x.player = p /\ x.status = "waiting"
  <1>1. \A x \in Row : /\ Failed(x) \in Row /\ Failed(x).player = x.player /\ Failed(x).token = x.token
                       /\ Failed(x).match = x.match /\ Failed(x).status = "error"
    BY DEF Row
  <1>2. /\ queue \in Seq(Row) /\ RowMatches(queue) /\ Once(queue) /\ NoneStrange(queue)
        /\ Taken(queue, status, {})
    BY DEF QueueInvariant, SoundRows
  <1>3. /\ queue' = [i \in DOMAIN queue |-> IF Hit(queue[i]) THEN Failed(queue[i]) ELSE queue[i]]
        /\ status' = status /\ here' = here /\ posting' = [posting EXCEPT ![p] = "no"]
    BY DEF PostFails
  <1> HIDE DEF Failed
  <1>4. ASSUME NEW i \in DOMAIN queue
        PROVE  /\ queue'[i] \in Row /\ queue'[i].player = queue[i].player /\ queue'[i].token = queue[i].token
               /\ queue'[i].match = queue[i].match
               /\ queue'[i].status = queue[i].status \/ (queue[i].status = "waiting" /\ queue'[i].status = "error")
    <2>1. queue[i] \in Row
      BY <1>2
    <2>2. QED
      BY <1>1, <1>3, <2>1
  <1>5. DOMAIN queue' = DOMAIN queue
    BY <1>3
  <1>6. queue' \in Seq(Row)
    <2>1. PICK n \in Nat : DOMAIN queue = 1..n
      BY <1>2
    <2>2. queue' \in [1..n -> Row]
      BY <1>3, <1>4, <2>1
    <2>3. QED
      BY <2>2
  <1>7. RowMatches(queue')
    BY <1>2, <1>4, <1>5 DEF RowMatches
  <1>8. Once(queue')
    BY <1>2, <1>4, <1>5 DEF Once
  <1>9. NoneStrange(queue')
    BY <1>2, <1>4, <1>5 DEF NoneStrange
  <1>10. Taken(queue', status', {})
    BY <1>2, <1>3, <1>4, <1>5 DEF Taken
  <1>11. \A x \in QueuePlayers : posting'[x] = "adding" =>
           \A i \in DOMAIN queue' : queue'[i].player = x => queue'[i].status = "error"
    BY <1>3, <1>4, <1>5 DEF QueueInvariant
  <1>12. QED
    BY <1>3, <1>6, <1>7, <1>8, <1>9, <1>10, <1>11 DEF QueueInvariant, SoundRows

LEMMA JoinIsFair ==
    ASSUME QueueInvariant, NEW p \in QueuePlayers, JoinQueue(p)
    PROVE  QueueInvariant'
  <1>1. PICK I : I = DOMAIN queue \ Outdated(p)
    OBVIOUS
  <1>2. /\ queue' = Kept(queue, I) /\ status' = status /\ here' = here \cup {p}
        /\ posting' = [posting EXCEPT ![p] = "adding"]
    BY <1>1 DEF JoinQueue, Without
  <1>3. \A i \in I : queue[i].player = p => queue[i].status = "error"
    <2>1. \A x \in Row : x.status \in {"waiting", "matched", "error"}
      BY DEF Row
    <2>2. queue \in Seq(Row)
      BY DEF QueueInvariant, SoundRows
    <2>3. QED
      BY <1>1, <2>1, <2>2 DEF Outdated
  <1>4. I \in SUBSET (DOMAIN queue)
    BY <1>1
  <1>5. posting' \in [QueuePlayers -> {"no", "adding", "processing"}] /\ here' \subseteq QueuePlayers
    BY <1>2 DEF QueueInvariant
  <1>6. \A x \in QueuePlayers : posting'[x] = "adding" =>
             posting[x] = "adding" \/ \A i \in I : queue[i].player = x => queue[i].status = "error"
    BY <1>2, <1>3 DEF QueueInvariant
  <1>7. status' \in [QueueMatches -> {"none", "idle", "queue", "started"}]
    BY <1>2 DEF QueueInvariant
  <1>8. QED
    BY <1>2, <1>4, <1>5, <1>6, <1>7, RemovalIsFair

LEMMA QueueStep == QueueInvariant /\ [QueueNext]_queueVars => QueueInvariant'
  <1> SUFFICES ASSUME QueueInvariant, [QueueNext]_queueVars PROVE QueueInvariant'
    OBVIOUS
  <1>0. /\ status \in [QueueMatches -> {"none", "idle", "queue", "started"}]
        /\ posting \in [QueuePlayers -> {"no", "adding", "processing"}]
        /\ here \subseteq QueuePlayers /\ Taken(queue, status, {})
    BY DEF QueueInvariant
  <1>1. CASE UNCHANGED queueVars
    <2>1. queue' = queue /\ status' = status /\ posting' = posting /\ here' = here
      BY <1>1 DEF queueVars
    <2>2. QED
      BY <2>1 DEF QueueInvariant
  <1>2. ASSUME NEW p \in QueuePlayers, JoinQueue(p) PROVE QueueInvariant'
    BY <1>2, JoinIsFair
  <1>3. ASSUME NEW p \in QueuePlayers, PostProcesses(p) PROVE QueueInvariant'
    <2>1. Process(queue, status) /\ posting' = [posting EXCEPT ![p] = "no"] /\ here' = here
      BY <1>3 DEF PostProcesses
    <2>2. /\ posting' \in [QueuePlayers -> {"no", "adding", "processing"}]
          /\ \A x \in QueuePlayers : posting'[x] = "adding" => posting[x] = "adding"
      BY <1>0, <2>1
    <2>3. QED
      BY <1>0, <2>1, <2>2, ProcessKeeps
  <1>4. ASSUME NEW p \in QueuePlayers, PostFails(p) PROVE QueueInvariant'
    BY <1>4, ErrorIsFair
  <1>5. ASSUME NEW p \in QueuePlayers, Vanish(p) PROVE QueueInvariant'
    <2>1. queue' = queue /\ status' = status /\ posting' = posting /\ here' \subseteq here
      BY <1>5 DEF Vanish
    <2>2. QED
      BY <2>1 DEF QueueInvariant
  <1>6. ASSUME NEW p \in QueuePlayers, NEW force \in BOOLEAN, LeaveQueue(p, force) PROVE QueueInvariant'
    <2>1. PICK I : I \in SUBSET (DOMAIN queue) /\ queue' = Kept(queue, I)
      BY <1>6 DEF LeaveQueue, Without
    <2>2. status' = status /\ posting' = posting /\ here' = here
      BY <1>6 DEF LeaveQueue
    <2>3. QED
      BY <1>0, <2>1, <2>2, RemovalIsFair
  <1>7. ASSUME NEW m \in QueueMatches, NEW p \in QueuePlayers, PlayerJoinsMatch(m, p) PROVE QueueInvariant'
    <2>1. PICK I : I \in SUBSET (DOMAIN queue) /\ queue' = Kept(queue, I)
      BY <1>7 DEF PlayerJoinsMatch
    <2>2. status' = [status EXCEPT ![m] = "started"] /\ posting' = posting /\ here' = here
      BY <1>7 DEF PlayerJoinsMatch
    <2>3. /\ status' \in [QueueMatches -> {"none", "idle", "queue", "started"}]
          /\ \A x \in QueueMatches : status[x] \in {"queue", "started"} => status'[x] \in {"queue", "started"}
      BY <1>0, <2>2
    <2>4. QED
      BY <1>0, <2>1, <2>2, <2>3, RemovalIsFair
  <1>8. ASSUME NEW m \in QueueMatches, MatchCreated(m) PROVE QueueInvariant'
    <2>1. PICK s : s = [status EXCEPT ![m] = "idle"]
      OBVIOUS
    <2>2. s \in [QueueMatches -> {"none", "idle", "queue", "started"}]
      BY <1>0, <2>1
    <2>3. Process(queue, s) /\ posting' = posting /\ here' = here /\ status[m] = "none"
      BY <1>8, <2>1 DEF MatchCreated
    <2>4. Taken(queue, s, {})
      <3>1. ASSUME NEW i \in DOMAIN queue, queue[i].match # "none"
            PROVE  s[queue[i].match] \in {"queue", "started"}
        <4>1. status[queue[i].match] \in {"queue", "started"}
          BY <1>0, <3>1 DEF Taken
        <4>2. queue[i].match # m
          BY <2>3, <4>1
        <4>3. queue[i].match \in QueueMatches
          <5>1. queue[i] \in Row
            BY DEF QueueInvariant, SoundRows
          <5>2. QED
            BY <3>1, <5>1 DEF Row
        <4>4. QED
          BY <1>0, <2>1, <4>1, <4>2, <4>3
      <3>2. QED
        BY <3>1 DEF Taken
    <2>5. QED
      BY <1>0, <2>2, <2>3, <2>4, ProcessKeeps
  <1>9. ASSUME NEW rq \in QueueRequests, Add(rq[1], rq[2], rq[3]) PROVE QueueInvariant'
    <2>1. rq[1] \in QueuePlayers /\ rq[2] \in Tokens \cup {NoToken} /\ rq[3] \in Refs \cup {NoRef}
      BY QueueAssumption
    <2>2. QED
      BY <1>9, <2>1, AddIsFair
  <1>10. QED
    BY <1>1, <1>2, <1>3, <1>4, <1>5, <1>6, <1>7, <1>8, <1>9 DEF QueueNext

\* The types of the variables.
THEOREM QueueKeepsTypes == QueueSpec => []QueueTypeOK
  BY QueueIsFair, QueueStarts, QueueStep, PTL DEF QueueSpec

\* A player is in the queue once and for one match at most, challengers are not put together
\* with others, and nobody is added to a match that has been filled (matchqueue.py:77-123).
THEOREM QueueStaysFair == QueueSpec => []FairQueue
  BY QueueIsFair, QueueStarts, QueueStep, PTL DEF QueueSpec

----------------------------------------------------------------------------
(* All the services, side by side.                                          *)

\* The types of the player state hold by themselves, whoever waits for whose answer.
LEMMA StateKeepsTypes ==
    ASSUME StateTypeOK, [StateNext]_playerVars
    PROVE  StateTypeOK'
  <1>1. CASE UNCHANGED playerVars
    BY <1>1 DEF playerVars, StateTypeOK
  <1>2. ASSUME NEW size \in 1..MaxBatch, PostJournal(size) PROVE StateTypeOK'
    BY <1>2, StateAssumption DEF PostJournal, StateTypeOK
  <1>3. ASSUME NEW e \in JournalEntries, WriteEntry(e) PROVE StateTypeOK'
    <2>1. batch' \in 0..MaxBatch /\ UNCHANGED <<gamestate, pending, claims>>
      BY <1>3, StateAssumption DEF WriteEntry, StateTypeOK
    <2>2. QED
      BY <1>3, <2>1, WriteKeepsType DEF StateTypeOK
  <1>4. CASE PutCommits
    <2>1. pending.of \in Namespaces /\ pending.journal \in JournalIds \cup {Null}
      BY <1>4 DEF PutCommits, StateTypeOK, Lookups
    <2>2. QED
      BY <1>4, <2>1 DEF PutCommits, StateTypeOK
  <1>5. CASE ClaimCommits
    <2>1. pending.of \in PlayerTickets
      BY <1>5 DEF ClaimCommits, StateTypeOK, Lookups
    <2>2. QED
      BY <1>5, <2>1 DEF ClaimCommits, StateTypeOK
  <1>6. ASSUME NEW n \in Namespaces, DeleteState(n) PROVE StateTypeOK'
    BY <1>6 DEF DeleteState, StateTypeOK
  <1>7. ASSUME NEW n \in Namespaces, NEW id \in JournalIds \cup {Null}, PutLooks(n, id) PROVE StateTypeOK'
    <2>1. pending' \in Lookups
      BY <1>7 DEF PutLooks, Lookups
    <2>2. QED
      BY <1>7, <2>1 DEF PutLooks, StateTypeOK
  <1>8. ASSUME NEW t \in PlayerTickets, ClaimLooks(t, Null) PROVE StateTypeOK'
    <2>1. pending' \in Lookups
      BY <1>8 DEF ClaimLooks, Lookups
    <2>2. QED
      BY <1>8, <2>1 DEF ClaimLooks, StateTypeOK
  <1>9. QED
    BY <1>1, <1>2, <1>3, <1>4, <1>5, <1>6, <1>7, <1>8 DEF StateNext

\* Those of the messages too, whatever number of rows a client asks for.
LEMMA LastIsAnId ==
    ASSUME MessagesTypeOK, NEW f \in Fetches, NEW C \in SUBSET Ids
    PROVE  LastProcessed(f, C) \in 0..MaxMessages
  <1>1. HighestOf(C) \in 0..MaxMessages
    BY MessagesAssumption, HighestIsHighest DEF Ids
  <1>2. ASSUME C # {} PROVE LowestOf(C) \in Ids
    <2>1. C \in SUBSET Nat
      BY DEF Ids
    <2>2. \E i \in C : \A j \in C : i <= j
      BY <1>2, <2>1, LeastNatural
    <2>3. LowestOf(C) \in C
      BY <2>2 DEF LowestOf
    <2>4. QED
      BY <2>3
  <1>3. QED
    BY <1>1, <1>2, MessagesAssumption DEF LastProcessed, Ids

\* A step of a request that writes a proper record.
LEMMA FetchKeepsTypes ==
    ASSUME MessagesTypeOK, NEW f \in Fetches, NEW y \in FetchRow, fetch' = [fetch EXCEPT ![f] = y],
           UNCHANGED <<posted, expired>>, stream' \subseteq stream, received' \subseteq Ids,
           seen' \in 0..MaxMessages \cup {Unset}
    PROVE  MessagesTypeOK'
  <1>1. fetch' \in [Fetches -> FetchRow]
    BY DEF MessagesTypeOK, FetchRow
  <1>2. QED
    BY <1>1 DEF MessagesTypeOK, FetchRow

\* A request starts with a proper record.
LEMMA FetchBegins ==
    ASSUME NEW after \in 0..MaxMessages, NEW n \in Rows \cup {0},
           NEW y, y = [NoFetch EXCEPT !.step = "start", !.asked = after, !.rows = n]
    PROVE  y \in FetchRow
  <1>1. NoFetch \in FetchRow
    BY MessagesAssumption DEF NoFetch, FetchRow
  <1>2. PICK x \in FetchRow : x = NoFetch
    BY <1>1
  <1>3. y = [x EXCEPT !.step = "start", !.asked = after, !.rows = n]
    BY <1>2
  <1>4. QED
    BY <1>3 DEF FetchRow

LEMMA MessagesKeepTypes ==
    ASSUME MessagesTypeOK, [MessagesNext]_messageVars
    PROVE  MessagesTypeOK'
  <1>1. CASE UNCHANGED messageVars
    BY <1>1 DEF messageVars, MessagesTypeOK
  <1>2. CASE PostMessage
    <2>1. posted' \in 1..MaxMessages /\ stream' \subseteq stream \cup {posted'}
          /\ UNCHANGED <<expired, seen, fetch, received>>
      BY <1>2, MessagesAssumption DEF PostMessage, MessagesTypeOK
    <2>2. QED
      BY <2>1 DEF MessagesTypeOK, Ids
  <1>3. ASSUME NEW i \in Ids, TimePasses(i) PROVE MessagesTypeOK'
    BY <1>3 DEF TimePasses, MessagesTypeOK
  <1>4. NoFetch \in FetchRow
    BY MessagesAssumption DEF NoFetch, FetchRow
  <1>5. ASSUME NEW f \in Fetches
        PROVE  \E x \in FetchRow : x = fetch[f]
    BY DEF MessagesTypeOK, FetchRow
  <1>6. ASSUME NEW f \in Fetches, NEW after \in 0..MaxMessages, NEW n \in Rows \cup {0}, Get(f, after, n)
        PROVE  MessagesTypeOK'
    <2>1. PICK y : y = [NoFetch EXCEPT !.step = "start", !.asked = after, !.rows = n]
      OBVIOUS
    <2>2. y \in FetchRow
      BY <2>1, FetchBegins
    <2>3. fetch' = [fetch EXCEPT ![f] = y] /\ UNCHANGED <<stream, posted, expired, seen, received>>
      BY <1>6, <2>1 DEF Get
    <2>4. QED
      BY <2>2, <2>3, FetchKeepsTypes DEF MessagesTypeOK
  <1>7. ASSUME NEW f \in Fetches, ReadSeen(f) PROVE MessagesTypeOK'
    <2>1. PICK x \in FetchRow : x = fetch[f]
      BY <1>5
    <2>2. PICK n \in 0..MaxMessages : n = seen'
      BY <1>7, <2>1 DEF ReadSeen, MessagesTypeOK, FetchRow
    <2>3. PICK y : y = [x EXCEPT !.step = "read", !.after = n]
      OBVIOUS
    <2>4. y \in FetchRow
      BY <2>3 DEF FetchRow
    <2>5. fetch' = [fetch EXCEPT ![f] = y] /\ UNCHANGED <<stream, posted, expired, received>>
      BY <1>7, <2>1, <2>2, <2>3 DEF ReadSeen, MessagesTypeOK
    <2>6. QED
      BY <2>2, <2>4, <2>5, FetchKeepsTypes DEF MessagesTypeOK
  <1>8. ASSUME NEW f \in Fetches, ReadStream(f) PROVE MessagesTypeOK'
    <2>1. PICK x \in FetchRow : x = fetch[f]
      BY <1>5
    <2>2. PICK C : C = Content(f)
      OBVIOUS
    <2>3. C \in SUBSET Ids
      BY <2>2 DEF Content, Newest, MessagesTypeOK
    <2>4. PICK n \in 0..MaxMessages : n = LastProcessed(f, C)
      BY <2>3, LastIsAnId
    <2>5. PICK y : y = [x EXCEPT !.step = "write", !.live = C \ expired, !.dead = C \cap expired, !.last = n]
      OBVIOUS
    <2>6. y \in FetchRow
      BY <2>3, <2>5 DEF FetchRow
    <2>7. fetch' = [fetch EXCEPT ![f] = y] /\ UNCHANGED <<stream, posted, expired, seen, received>>
      BY <1>8, <2>1, <2>2, <2>4, <2>5 DEF ReadStream, MessagesTypeOK
    <2>8. QED
      BY <2>6, <2>7, FetchKeepsTypes DEF MessagesTypeOK
  <1>9. ASSUME NEW f \in Fetches, WriteSeen(f) PROVE MessagesTypeOK'
    <2>1. PICK x \in FetchRow : x = fetch[f]
      BY <1>5
    <2>2. PICK y : y = [x EXCEPT !.step = "answer"]
      OBVIOUS
    <2>3. y \in FetchRow /\ x.last \in 0..MaxMessages
      BY <2>2 DEF FetchRow
    <2>4. /\ fetch' = [fetch EXCEPT ![f] = y] /\ UNCHANGED <<posted, expired, received>>
          /\ stream' \subseteq stream
      BY <1>9, <2>1, <2>2 DEF WriteSeen, MessagesTypeOK
    <2>5. seen' \in 0..MaxMessages \cup {Unset}
      BY <1>9, <2>1, <2>3 DEF WriteSeen, MessagesTypeOK
    <2>6. QED
      BY <2>3, <2>4, <2>5, FetchKeepsTypes DEF MessagesTypeOK
  <1>10. ASSUME NEW f \in Fetches, NEW arrives \in BOOLEAN, Answer(f, arrives) PROVE MessagesTypeOK'
    <2>1. PICK x \in FetchRow : x = fetch[f]
      BY <1>5
    <2>2. received' \subseteq Ids
      BY <1>10, <2>1 DEF Answer, MessagesTypeOK, FetchRow
    <2>3. fetch' = [fetch EXCEPT ![f] = NoFetch] /\ UNCHANGED <<stream, posted, expired, seen>>
      BY <1>10 DEF Answer
    <2>4. QED
      BY <1>4, <2>2, <2>3, FetchKeepsTypes DEF MessagesTypeOK
  <1>11. ASSUME NEW f \in Fetches, PollAgain(f) PROVE MessagesTypeOK'
    <2>1. PICK x \in FetchRow : x = fetch[f]
      BY <1>5
    <2>2. x.asked \in 0..MaxMessages /\ x.rows \in Rows \cup {0}
      BY DEF FetchRow
    <2>3. PICK y : y = [NoFetch EXCEPT !.step = "start", !.asked = x.asked, !.rows = x.rows]
      OBVIOUS
    <2>4. y \in FetchRow
      BY <2>2, <2>3, FetchBegins
    <2>5. fetch' = [fetch EXCEPT ![f] = y] /\ UNCHANGED <<stream, posted, expired, seen, received>>
      BY <1>11, <2>1, <2>3 DEF PollAgain
    <2>6. QED
      BY <2>4, <2>5, FetchKeepsTypes DEF MessagesTypeOK
  <1>12. QED
    BY <1>1, <1>2, <1>3, <1>6, <1>7, <1>8, <1>9, <1>10, <1>11 DEF MessagesNext

\* A summary is replaced by what was asked for.
SummaryIsTyped == SummaryInvariant /\ replaced \in Wanted \cup {NoPut}

LEMMA SummaryTypes == SummaryIsTyped => SummaryTypeOK
  <1> SUFFICES ASSUME SummaryIsTyped PROVE SummaryTypeOK
    OBVIOUS
  <1>1. ASSUME NEW r \in SummaryRequests PROVE update[r].step \in {"none", "put", "delete", "patch"}
    <2>1. update[r] \in UpdateRow \/ update[r] = NoUpdate
      BY DEF SummaryIsTyped, SummaryInvariant
    <2>2. QED
      BY <2>1 DEF UpdateRow, NoUpdate
  <1>2. QED
    BY <1>1 DEF SummaryIsTyped, SummaryInvariant, RowsAreOrdered, SummaryTypeOK

LEMMA SummaryKeepsTypes ==
    ASSUME SummaryIsTyped, [SummaryNext]_summaryVars
    PROVE  SummaryIsTyped'
  <1>1. SummaryInvariant'
    BY SummaryStep DEF SummaryIsTyped
  <1>2. ASSUME NEW r \in SummaryRequests, PutDeletes(r) PROVE replaced' \in Wanted \cup {NoPut}
    <2>1. r \in Busy /\ update[r].step = "delete"
      BY <1>2 DEF PutDeletes
    <2>2. update[r].want \in Wanted
      BY <2>1 DEF SummaryIsTyped, SummaryInvariant, UpdateKnows
    <2>3. QED
      BY <1>2, <2>2 DEF PutDeletes
  <1>3. replaced' \in Wanted \cup {NoPut}
    BY <1>2 DEF SummaryIsTyped, SummaryNext, summaryVars, SummaryLooks, SummaryFails, PutSaves, PatchSaves
  <1>4. QED
    BY <1>1, <1>3 DEF SummaryIsTyped

\* What is true of each service when all of them run.
ServicesInvariant ==
  /\ AccountsInvariant /\ BansInvariant /\ ClientsInvariant /\ CountersInvariant
  /\ FriendsInvariant /\ LocksInvariant /\ MessagesTypeOK /\ PlacementsInvariant
  /\ PresenceInvariant /\ QueueInvariant /\ RosterInvariant /\ SandboxInvariant
  /\ ServersInvariant /\ StateTypeOK /\ SummaryIsTyped

\* A step of the services is one of each of them, or leaves it alone.
LEMMA EachServiceSteps ==
    ASSUME [Next]_vars
    PROVE  /\ [AccountsNext]_accountVars /\ [BansNext]_banVars /\ [ClientsNext]_clientVars
           /\ [CountersNext]_counterVars /\ [FriendsNext]_friendVars /\ [LocksNext]_lockVars
           /\ [MessagesNext]_messageVars /\ [PlacementsNext]_placementVars
           /\ [PresenceNext]_presenceVars /\ [QueueNext]_queueVars /\ [RosterNext]_rosterVars
           /\ [SandboxNext]_sandboxVars /\ [ServersNext]_serverVars /\ [StateNext]_playerVars
           /\ [SummaryNext]_summaryVars
  <1>1. CASE UNCHANGED vars
    BY <1>1 DEF vars
  <1>2. CASE Next
    BY <1>2 DEF Next, Runs
  <1>3. QED
    BY <1>1, <1>2

LEMMA ServicesStart == Init => ServicesInvariant
  <1> SUFFICES ASSUME Init PROVE ServicesInvariant
    OBVIOUS
  <1>1. /\ AccountsInvariant /\ BansInvariant /\ ClientsInvariant /\ CountersInvariant
        /\ FriendsInvariant /\ LocksInvariant /\ PlacementsInvariant
        /\ PresenceInvariant /\ QueueInvariant /\ RosterInvariant /\ SandboxInvariant
        /\ ServersInvariant /\ SummaryInvariant
    BY AccountsStart, BansStart, ClientsStart, CountersStart, FriendsStart, LocksStart, PlacementsStart,
       PresenceStart, QueueStarts, RosterStart, SandboxStart, ServersStart, SummaryStart DEF Init
  <1>2. MessagesTypeOK
    BY MessagesStart DEF Init, MessagesInvariant
  <1>3. StateTypeOK
    BY StateStart DEF Init, StateInvariant
  <1>4. SummaryIsTyped
    BY <1>1 DEF Init, SummaryInit, SummaryIsTyped
  <1>5. QED
    BY <1>1, <1>2, <1>3, <1>4 DEF ServicesInvariant

LEMMA ServicesStep == ServicesInvariant /\ [Next]_vars => ServicesInvariant'
  <1> SUFFICES ASSUME ServicesInvariant, [Next]_vars PROVE ServicesInvariant'
    OBVIOUS
  <1>1. /\ AccountsInvariant' /\ BansInvariant' /\ PlacementsInvariant'
        /\ MessagesTypeOK' /\ StateTypeOK' /\ SummaryIsTyped'
    BY EachServiceSteps, AccountsStep, BansStep, PlacementsStep, MessagesKeepTypes, StateKeepsTypes,
       SummaryKeepsTypes DEF ServicesInvariant
  <1>2. /\ ClientsInvariant' /\ CountersInvariant' /\ FriendsInvariant' /\ LocksInvariant'
        /\ PresenceInvariant' /\ QueueInvariant' /\ RosterInvariant' /\ SandboxInvariant'
        /\ ServersInvariant'
    BY EachServiceSteps, ClientsStep, CountersStep, FriendsStep, LocksStep, PresenceStep, QueueStep,
       RosterStep, SandboxStep, ServersStep DEF ServicesInvariant
  <1>3. QED
    BY <1>1, <1>2 DEF ServicesInvariant

\* Every service keeps the shape of its state, whatever requests overlap in it: no request
\* writes what the others cannot read, and no row of the match queue names a match it is
\* not matched to (matchqueue.py:98-120).
THEOREM ServicesKeepTypes == Spec => []TypesOK
  <1>1. ServicesInvariant => TypesOK
    BY QueueIsFair, LocksInvariantTypes, SummaryTypes
       DEF ServicesInvariant, TypesOK, AccountsInvariant, BansInvariant, ClientsInvariant,
           CountersInvariant, FriendsInvariant, PlacementsInvariant, PresenceInvariant,
           RosterInvariant, SandboxInvariant, ServersInvariant
  <1>2. QED
    BY ServicesStart, ServicesStep, <1>1, PTL DEF Spec

\* Side by side, every service behaves as it does alone: what the theorems say of its own
\* specification is true of the behaviours the runs check.
THEOREM ServicesRunAsAlone ==
  Spec => /\ AccountsSpec /\ BansSpec /\ ClientsSpec /\ CountersSpec /\ FriendsSpec /\ LocksSpec
          /\ MessagesSpec /\ PlacementsSpec /\ PresenceSpec /\ QueueSpec /\ RosterSpec
          /\ SandboxSpec /\ ServersSpec /\ StateSpec /\ SummarySpec
  <1>1. Init => /\ AccountsInit /\ BansInit /\ ClientsInit /\ CountersInit /\ FriendsInit /\ LocksInit
                /\ MessagesInit /\ PlacementsInit /\ PresenceInit /\ QueueInit /\ RosterInit
                /\ SandboxInit /\ ServersInit /\ StateInit /\ SummaryInit
    BY DEF Init
  <1>2. [Next]_vars => /\ [AccountsNext]_accountVars /\ [BansNext]_banVars /\ [ClientsNext]_clientVars
                       /\ [CountersNext]_counterVars /\ [FriendsNext]_friendVars /\ [LocksNext]_lockVars
    BY EachServiceSteps
  <1>3. [Next]_vars => /\ [MessagesNext]_messageVars /\ [PlacementsNext]_placementVars
                       /\ [PresenceNext]_presenceVars /\ [QueueNext]_queueVars /\ [RosterNext]_rosterVars
    BY EachServiceSteps
  <1>4. [Next]_vars => /\ [SandboxNext]_sandboxVars /\ [ServersNext]_serverVars /\ [StateNext]_playerVars
                       /\ [SummaryNext]_summaryVars
    BY EachServiceSteps
  <1>5. Spec => AccountsSpec /\ BansSpec /\ ClientsSpec /\ CountersSpec /\ FriendsSpec /\ LocksSpec
    BY <1>1, <1>2, PTL DEF Spec, AccountsSpec, BansSpec, ClientsSpec, CountersSpec, FriendsSpec, LocksSpec
  <1>6. Spec => MessagesSpec /\ PlacementsSpec /\ PresenceSpec /\ QueueSpec /\ RosterSpec
    BY <1>1, <1>3, PTL DEF Spec, MessagesSpec, PlacementsSpec, PresenceSpec, QueueSpec, RosterSpec
  <1>7. Spec => SandboxSpec /\ ServersSpec /\ StateSpec /\ SummarySpec
    BY <1>1, <1>4, PTL DEF Spec, SandboxSpec, ServersSpec, StateSpec, SummarySpec
  <1>8. QED
    BY <1>5, <1>6, <1>7
=============================================================================
