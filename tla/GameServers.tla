----------------------------- MODULE GameServers ----------------------------
(***************************************************************************)
(* Game servers and their matches (api/servers.py, api/machines.py and     *)
(* api/matches.py).  A match may have a key that no other match has at the *)
(* same time; a lock in Redis covers the look for another match and the    *)
(* commit.  Whoever runs the servers posts and puts matches, statuses and  *)
(* heartbeats in requests of their own, in any order and with any status;  *)
(* a server that missed its heartbeat is refused the next.                 *)
(*                                                                         *)
(* A match has one request under way at a time, and a server one heartbeat.*)
(* Both timeouts are the 60 seconds of their defaults.                     *)
(***************************************************************************)
EXTENDS Naturals, FiniteSets

CONSTANTS Machines, Servers, ServerMatches, MatchKeys, NoUniqueKey, NoServer, Nobody

ASSUME HolderAssumption == Nobody \notin ServerMatches

VARIABLES machine,   \* the machines that are registered
          server,    \* [status, machine, fresh] of each server
          match,     \* [status, server, key] of each match
          beat,      \* the heartbeat each server has under way, and what it read
          request,   \* the post or put that each match has under way
          holder,    \* whose request has the lock
          woken      \* the matches with a key that came to be found again, or late

serverVars == <<machine, server, match, beat, request, holder, woken>>

ServerStatuses == {"starting", "running"}          \* others are treated as starting is
MatchStatuses == {"idle", "ended", "completed"}    \* others are treated as idle is
NoServerRequest == [step |-> "none", key |-> NoUniqueKey]

ServersInit == /\ machine = {}
               /\ server = [s \in Servers |-> [status |-> "none", machine |-> "none", fresh |-> FALSE]]
               /\ match = [m \in ServerMatches |-> [status |-> "none", server |-> NoServer, key |-> NoUniqueKey]]
               /\ beat = [s \in Servers |-> "no"]
               /\ request = [m \in ServerMatches |-> NoServerRequest]
               /\ holder = Nobody /\ woken = {}

ServersTypeOK ==
  /\ machine \subseteq Machines
  /\ server \in [Servers -> [status : ServerStatuses \cup {"none"},
                             machine : Machines \cup {"none"}, fresh : BOOLEAN]]
  /\ match \in [ServerMatches -> [status : MatchStatuses \cup {"none"},
                  server : Servers \cup {NoServer}, key : MatchKeys \cup {NoUniqueKey}]]
  /\ beat \in [Servers -> {"no", "in time", "late"}]
  /\ \A m \in ServerMatches : request[m].step \in {"none", "looking", "writing"}
  /\ holder \in ServerMatches \cup {Nobody} /\ woken \subseteq ServerMatches

Running(m) == LET s == match[m].server IN
  s # NoServer /\ server[s].status = "running" /\ server[s].fresh

\* What clients find, and may narrow down: matches that are on, of servers that are.
Active == {m \in ServerMatches : match[m].status \notin {"none", "ended", "completed"} /\ Running(m)}

\* A match is woken by whatever has clients find it, but for the write that gives it its key.
NotesWoken == woken' = {m \in Active' : m \in woken \/ (match[m].key # NoUniqueKey /\ m \notin Active)}

-----------------------------------------------------------------------------
\* Machines and servers.

\* What its heartbeats change, nobody reads.
RegisterMachine(a) ==
  /\ a \notin machine /\ machine' = machine \cup {a}
  /\ UNCHANGED <<server, match, beat, request, holder, woken>>

\* A machine that is not known yet is registered with its server.
RegisterServer(s, a, status) ==
  /\ server[s].status = "none" /\ machine' = machine \cup {a}
  /\ server' = [server EXCEPT ![s] = [status |-> status, machine |-> a, fresh |-> TRUE]]
  /\ UNCHANGED <<match, beat, request, holder>> /\ NotesWoken

UpdateServer(s, status) ==
  /\ server[s].status # "none" /\ server' = [server EXCEPT ![s].status = status]
  /\ UNCHANGED <<machine, match, beat, request, holder>> /\ NotesWoken

\* A heartbeat compares the date of the one before, and commits its own later.
MayBeat_Late(s) == TRUE                                        \* mutant of MayBeat
MayBeat(s) == server[s].fresh
BeatLooks(s) ==
  /\ server[s].status # "none" /\ beat[s] = "no" /\ MayBeat(s)
  /\ beat' = [beat EXCEPT ![s] = IF server[s].fresh THEN "in time" ELSE "late"]
  /\ UNCHANGED <<machine, server, match, request, holder, woken>>

\* One that came in time may be committed too late, and wake the matches of its server.
BeatCommits(s) ==
  /\ beat[s] # "no" /\ beat' = [beat EXCEPT ![s] = "no"]
  /\ server' = [server EXCEPT ![s].fresh = TRUE]
  /\ UNCHANGED <<machine, match, request, holder>>
  /\ IF beat[s] = "in time" THEN NotesWoken ELSE UNCHANGED woken

ServerLapses(s) ==
  /\ server[s].fresh /\ server' = [server EXCEPT ![s].fresh = FALSE]
  /\ UNCHANGED <<machine, match, beat, request, holder>> /\ NotesWoken

-----------------------------------------------------------------------------
\* Matches.

UniqueKeyInUse(key) == key # NoUniqueKey /\ \E m \in Active : match[m].key = key

\* A request with a key waits for the lock first.
Asks(m, key) ==
  /\ request[m] = NoServerRequest
  /\ key # NoUniqueKey => holder = Nobody
  /\ holder' = IF key = NoUniqueKey THEN holder ELSE m
  /\ request' = [request EXCEPT ![m] = [step |-> "looking", key |-> key]]
  /\ UNCHANGED <<machine, server, match, beat, woken>>

\* Neither looks at the status or the server it names: they are chosen in Write.
PostMatch(m, key) == match[m].status = "none" /\ Asks(m, key)
PutMatch(m, key) == match[m].status # "none" /\ Asks(m, key)

Done(m) == /\ request' = [request EXCEPT ![m] = NoServerRequest]
           /\ holder' = IF holder = m THEN Nobody ELSE holder

\* A completed match is not updated, and a key it has is not replaced.
Look(m) ==
  /\ request[m].step = "looking"
  /\ IF \/ match[m].status = "completed"
        \/ request[m].key # NoUniqueKey /\ match[m].key # NoUniqueKey
        \/ UniqueKeyInUse(request[m].key)
     THEN Done(m)
     ELSE request' = [request EXCEPT ![m].step = "writing"] /\ UNCHANGED holder
  /\ UNCHANGED <<machine, server, match, beat, woken>>

\* The commit, and then the lock is released.  Any status is stored, and a put may name
\* another server, or take the key of the match away with an empty one; it also tells other
\* parts the status.
Write(m, s, status) ==
  /\ request[m].step = "writing"
  /\ \E kept \in {match[m].key, NoUniqueKey} :
       match' = [match EXCEPT ![m] =
         [status |-> status, server |-> s, key |-> IF request[m].key = NoUniqueKey THEN kept ELSE request[m].key]]
  /\ Done(m) /\ UNCHANGED <<machine, server, beat>> /\ NotesWoken

ServersNext ==
  \/ \E a \in Machines : \/ RegisterMachine(a)
                         \/ \E s \in Servers, status \in ServerStatuses : RegisterServer(s, a, status)
  \/ \E s \in Servers : \/ BeatLooks(s) \/ BeatCommits(s) \/ ServerLapses(s)
                        \/ \E status \in ServerStatuses : UpdateServer(s, status)
  \/ \E m \in ServerMatches :
       \/ Look(m) \/ \E s \in Servers, status \in MatchStatuses : Write(m, s, status)
       \/ \E key \in MatchKeys \cup {NoUniqueKey} : PostMatch(m, key) \/ PutMatch(m, key)

ServersSpec == ServersInit /\ [][ServersNext]_serverVars

-----------------------------------------------------------------------------
\* Of two matches that clients find under the same key, one at least was not to be found at
\* some time after it was given the key, and is again because a status or its server was put,
\* or because a heartbeat that came in time was committed late.  Otherwise a key is not given twice: the
\* lock covers the look at all matches and the commit (matches.py:151-162, 449-451 and
\* 593-609), and a server that was silent is not heard again (servers.py:353-361).
KeysAreUnique ==
  \A m, n \in Active \ woken : match[m].key # NoUniqueKey /\ match[m].key = match[n].key => m = n
=============================================================================
