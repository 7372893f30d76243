------------------------------ MODULE Accounts ------------------------------
(***************************************************************************)
(* Identities and their users (auth/authenticate.py,                       *)
(* api/useridentities.py).  A login finds or makes the identity of a name  *)
(* and the user with his player behind it, under a lock of the name: names *)
(* are not unique in the table.  A request with the tokens of two logins   *)
(* links the identity of one with the user of the other.  Both look first  *)
(* and commit later.                                                       *)
(*                                                                         *)
(* Passwords, roles and caches are left out; users are made inactive by    *)
(* hand in the database.  The lock does not expire while a login runs.     *)
(***************************************************************************)
EXTENDS Naturals, Sequences, FiniteSets

CONSTANTS Names,           \* user names that log in
          GameCenter,      \* those whose identity type is gamecenter
          HashedName,      \* the name of an identity from before names were kept in clear
          ClearName,       \* the name that has it as its fallback_username
          AuthRequests, MaxIdentities, MaxUsers

ASSUME AccountsAssumption == /\ GameCenter \subseteq Names /\ ClearName \in Names \ GameCenter
                             /\ HashedName \notin Names
                             /\ MaxIdentities \in Nat \ {0} /\ MaxUsers \in Nat \ {0}

VARIABLES identities,     \* ck_user_identities; user 0 is none
          activeUser,     \* ck_users: is the user active?  Each has a player
          doing,          \* what each request read
          overlapped      \* history: the users two links were made to at the same time

accountVars == <<identities, activeUser, doing, overlapped>>

Identity == [name : Names \cup {HashedName}, user : 0..MaxUsers]
NoAuth == [type |-> "none"]
Login == [type : {"login"}, name : Names, identity : 0..MaxIdentities, user : 0..MaxUsers, create : BOOLEAN]
Link == [type : {"link"}, identity : 1..MaxIdentities, user : 1..MaxUsers]

AccountsInit == /\ identities = <<[name |-> HashedName, user |-> 1]>> /\ activeUser = <<TRUE>>
                /\ doing = [r \in AuthRequests |-> NoAuth]
                /\ overlapped = {}

AccountsTypeOK == /\ identities \in Seq(Identity) /\ Len(identities) <= MaxIdentities
                  /\ activeUser \in Seq(BOOLEAN) /\ Len(activeUser) <= MaxUsers
                  /\ doing \in [AuthRequests -> {NoAuth} \cup Login \cup Link]
                  /\ overlapped \subseteq 1..MaxUsers

Named(name) == {i \in DOMAIN identities : identities[i].name = name}
FirstOf(set) == IF set = {} THEN 0 ELSE CHOOSE i \in set : \A j \in set : i <= j

-----------------------------------------------------------------------------
\* authenticate: under the lock user_login_lock:<name>.

Locked_Never(name) == FALSE                                    \* mutant of Locked
Locked(name) == \E r \in AuthRequests : doing[r].type = "login" /\ doing[r].name = name

\* The identity of the name, or else of the name's fallback; its user, if he is active.
FoundIdentity(name) == IF Named(name) = {} /\ name = ClearName THEN FirstOf(Named(HashedName))
                       ELSE FirstOf(Named(name))
FoundUser(i) == IF i = 0 THEN 0
                ELSE IF identities[i].user = 0 THEN 0
                ELSE IF activeUser[identities[i].user] THEN identities[i].user ELSE 0

LoginLooks(r, name, create) ==
  LET i == FoundIdentity(name)
  IN /\ doing[r] = NoAuth /\ ~Locked(name)
     /\ doing' = [doing EXCEPT ![r] = [type |-> "login", name |-> name, identity |-> i,
                                       user |-> FoundUser(i), create |-> create]]
     /\ UNCHANGED <<identities, activeUser, overlapped>>

\* A new identity is added, one with the fallback name renamed; one without an active user
\* gets a new one, if the caller wants that.
LoginCommits(r) ==
  LET in == doing[r]
      makes == in.user = 0 /\ in.create
      users == IF makes THEN Append(activeUser, TRUE) ELSE activeUser
      known == IF in.identity = 0 THEN Append(identities, [name |-> in.name, user |-> 0])
               ELSE [identities EXCEPT ![in.identity].name = in.name]
      i == IF in.identity = 0 THEN Len(known) ELSE in.identity
  IN /\ in.type = "login"
     /\ Len(known) <= MaxIdentities /\ Len(users) <= MaxUsers
     /\ activeUser' = users
     /\ identities' = IF makes THEN [known EXCEPT ![i].user = Len(users)] ELSE known
     /\ doing' = [doing EXCEPT ![r] = NoAuth] /\ UNCHANGED overlapped

\* POST of an identity: the caller's identity i goes over to the active user u.  One of
\* Game Center may not, when the user has one of Game Center already.
LinkLooks(r, i, u) ==
  /\ doing[r] = NoAuth /\ activeUser[u] /\ identities[i].user # u
  /\ identities[i].name \in GameCenter =>
       \A j \in DOMAIN identities : identities[j].user = u => identities[j].name \notin GameCenter
  /\ doing' = [doing EXCEPT ![r] = [type |-> "link", identity |-> i, user |-> u]]
  /\ overlapped' = overlapped \cup {v \in {u} : \E o \in AuthRequests : doing[o].type = "link" /\ doing[o].user = u}
  /\ UNCHANGED <<identities, activeUser>>

LinkCommits(r) ==
  /\ doing[r].type = "link"
  /\ identities' = [identities EXCEPT ![doing[r].identity].user = doing[r].user]
  /\ doing' = [doing EXCEPT ![r] = NoAuth] /\ UNCHANGED <<activeUser, overlapped>>

Deactivate(u) ==
  /\ activeUser[u] /\ activeUser' = [activeUser EXCEPT ![u] = FALSE]
  /\ UNCHANGED <<identities, doing, overlapped>>

AccountsNext ==
  \/ \E r \in AuthRequests :
       \/ LoginCommits(r) \/ LinkCommits(r)
       \/ \E name \in Names, create \in BOOLEAN : LoginLooks(r, name, create)
       \/ \E i \in DOMAIN identities, u \in DOMAIN activeUser : LinkLooks(r, i, u)
  \/ \E u \in DOMAIN activeUser : Deactivate(u)

AccountsSpec == AccountsInit /\ [][AccountsNext]_accountVars

-----------------------------------------------------------------------------
\* Whatever logins and links overlap, a name has one identity ("There's a bunch of possible
\* race conditions that can happen if we don't lock here", authenticate.py:92); and "A user
\* can have one, and only one game center identity" (useridentities.py:178), unless two
\* identities were linked to the user at the same time.
AccountsAreSingle ==
  /\ \A name \in Names \cup {HashedName} : Cardinality(Named(name)) <= 1
  /\ \A u \in (DOMAIN activeUser) \ overlapped :
       Cardinality({i \in DOMAIN identities : identities[i].user = u
                                              /\ identities[i].name \in GameCenter}) <= 1
=============================================================================
