------------------------------ MODULE Clients -------------------------------
(***************************************************************************)
(* Client sessions (api/clients.py): a row per client in PostgreSQL, and   *)
(* in Redis the one client of each user whose requests are let through     *)
(* (clientsession.py).  Several devices of a user may register at once;    *)
(* what a registration does in between its accesses to the database and to *)
(* Redis is one step each.  A registration and the end of a session also   *)
(* set the player's rich presence (richpresence.py).                       *)
(***************************************************************************)
EXTENDS Naturals, FiniteSets

CONSTANTS Users,       \* each with one player
          MaxClients,  \* bound on the clients registered
          NoClient

ASSUME ClientsAssumption ==
  MaxClients \in Nat /\ NoClient \notin 1..MaxClients /\ NoClient \notin Users

VARIABLES client,   \* the rows: whose, the status and whether the heartbeat is fresh
          last,     \* user.client_id
          current,  \* the key clients:uid_<user>
          asking,  \* how far the registration, or the deletion, of each client is
          online    \* rich presence: is_online

clientVars == <<client, last, current, asking, online>>

ClientIds == 1..MaxClients
Registered == {c \in ClientIds : client[c].status # "none"}
IsOnline(c) == client[c].status = "active" /\ client[c].fresh      \* Client.is_online

ClientsInit == /\ client = [c \in ClientIds |-> [user |-> NoClient, status |-> "none", fresh |-> FALSE]]
               /\ last = [u \in Users |-> NoClient]
               /\ current = [u \in Users |-> NoClient]
               /\ asking = [c \in ClientIds |-> "no"]
               /\ online = [u \in Users |-> FALSE]

ClientsTypeOK ==
  /\ client \in [ClientIds -> [user : Users \cup {NoClient}, fresh : BOOLEAN,
                               status : {"none", "active", "usurped", "deleted"}]]
  /\ last \in [Users -> ClientIds \cup {NoClient}] /\ current \in [Users -> ClientIds \cup {NoClient}]
  /\ asking \in [ClientIds -> {"no", "recorded", "usurped", "set", "deleted"}]
  /\ online \in [Users -> BOOLEAN]

\* before_request: a token without a client passes, and so does a service.
LetThrough(c) == current[client[c].user] = c

-----------------------------------------------------------------------------
\* POST of a client, from a token that names no client or the current one.

Register(u) ==
  LET c == Cardinality(Registered) + 1 IN
  /\ c \in ClientIds
  /\ client' = [client EXCEPT ![c] = [user |-> u, status |-> "active", fresh |-> TRUE]]
  /\ last' = [last EXCEPT ![u] = c]
  /\ asking' = [asking EXCEPT ![c] = "recorded"]
  /\ UNCHANGED <<current, online>>

Usurp(c) ==
  /\ asking[c] = "recorded"
  /\ asking' = [asking EXCEPT ![c] = "usurped"]
  /\ LET old == current[client[c].user] IN
     client' = IF old # NoClient /\ IsOnline(old) THEN [client EXCEPT ![old].status = "usurped"]
               ELSE client
  /\ UNCHANGED <<last, current, online>>

SetCurrent_IfFree(c) ==                                        \* mutant of SetCurrent
  /\ asking[c] = "usurped"
  /\ asking' = [asking EXCEPT ![c] = "set"]
  /\ current' = IF current[client[c].user] = NoClient
                THEN [current EXCEPT ![client[c].user] = c] ELSE current
  /\ UNCHANGED <<client, last, online>>
SetCurrent(c) ==
  /\ asking[c] = "usurped"
  /\ asking' = [asking EXCEPT ![c] = "set"]
  /\ current' = [current EXCEPT ![client[c].user] = c]
  /\ UNCHANGED <<client, last, online>>

\* The event "created" has no effect on other parts; then the presence is set.
FinishRegistration(c) ==
  /\ asking[c] = "set"
  /\ asking' = [asking EXCEPT ![c] = "no"]
  /\ online' = [online EXCEPT ![client[c].user] = TRUE]
  /\ UNCHANGED <<client, last, current>>

-----------------------------------------------------------------------------
\* PUT: the row's status is not looked at, its last heartbeat is.
Heartbeat(c) ==
  /\ c \in Registered /\ LetThrough(c) /\ client[c].fresh
  /\ client' = [client EXCEPT ![c].fresh = TRUE]
  /\ UNCHANGED <<last, current, asking, online>>

TimeOut(c) ==
  /\ c \in Registered
  /\ client' = [client EXCEPT ![c].fresh = FALSE]
  /\ UNCHANGED <<last, current, asking, online>>

\* DELETE, by the client itself or by a service.  The key in Redis stays.
DeleteClient(c, service) ==
  /\ c \in Registered /\ (service \/ LetThrough(c))
  /\ client[c].status # "deleted"
  /\ client' = [client EXCEPT ![c].status = "deleted", ![c].fresh = TRUE]
  /\ asking' = IF service \/ asking[c] # "no" THEN asking
                ELSE [asking EXCEPT ![c] = "deleted"]
  /\ UNCHANGED <<last, current, online>>

\* Only the caller's own presence is reset: a service resets that of its own player.
FinishDeletion(c) ==
  /\ asking[c] = "deleted"
  /\ asking' = [asking EXCEPT ![c] = "no"]
  /\ online' = [online EXCEPT ![client[c].user] = FALSE]
  /\ UNCHANGED <<client, last, current>>

ClientsNext ==
  \/ \E u \in Users : Register(u)
  \/ \E c \in ClientIds :
       \/ Usurp(c) \/ SetCurrent(c) \/ FinishRegistration(c) \/ FinishDeletion(c)
       \/ Heartbeat(c) \/ TimeOut(c) \/ \E service \in BOOLEAN : DeleteClient(c, service)

ClientsSpec == ClientsInit /\ [][ClientsNext]_clientVars

-----------------------------------------------------------------------------
\* A client that was usurped is let through no longer than it takes the client that
\* replaces it to finish its registration, in whatever order the devices of a user
\* register, time out and leave (clients.py:189-204, clientsession.py:32-42).
UsurpedIsReplaced ==
  \A c \in Registered : client[c].status = "usurped" /\ LetThrough(c) =>
    \E d \in ClientIds : client[d].user = client[c].user /\ asking[d] = "usurped"
=============================================================================
