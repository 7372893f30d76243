---------------------------- MODULE LobbiesProofs ----------------------------
(****************************************************************************)
(* Theorems about Lobbies, for all sets of players, lobby ids and request   *)
(* slots and every bound: hosts and removals with requests that die and     *)
(* lobbies that expire, and with any number of requests of one player at a  *)
(* time; the players' keys when each has one and nothing dies.              *)
(****************************************************************************)
EXTENDS Lobbies, WellFoundedInduction, TLAPS

----------------------------------------------------------------------------
(* The oldest member.                                                       *)

LEMMA LeastNatural ==
    ASSUME NEW T \in SUBSET Nat, T # {}
    PROVE  \E x \in T : \A y \in T : x <= y
  <1> DEFINE R == OpToRel(<, Nat)
  <1>1. IsWellFoundedOn(R, Nat)
    BY NatLessThanWellFounded
  <1>2. \A x, y \in Nat : x < y => <<x, y>> \in R
    BY DEF OpToRel
  <1> HIDE DEF R
  <1>3. PICK x \in T : \A y \in T : <<y, x>> \notin R
    BY <1>1, WFMin
  <1>4. ASSUME NEW y \in T PROVE x <= y
    <2>1. x \in Nat /\ y \in Nat
      OBVIOUS
    <2>2. ~(y < x)
      BY <1>2, <1>3, <2>1, Zenon
    <2>3. QED
      BY <2>1, <2>2
  <1>5. QED
    BY <1>4

\* Sorting a lobby's members by join_date puts one of them first.
LEMMA OldestIsOne ==
    ASSUME TypeOK, NEW l \in LobbyIds, NEW S \in SUBSET Players, S # {}
    PROVE  Oldest(l, S) \in S /\ \A q \in S : joined[l][Oldest(l, S)] <= joined[l][q]
  <1>1. \A p \in S : joined[l][p] \in Nat
    BY BoundAssumption DEF TypeOK
  <1>2. \E p \in S : \A q \in S : joined[l][p] <= joined[l][q]
    <2> DEFINE T == {joined[l][p] : p \in S}
    <2>1. T \in SUBSET Nat /\ T # {}
      BY <1>1
    <2>2. PICK x \in T : \A y \in T : x <= y
      BY <2>1, LeastNatural
    <2>3. QED
      BY <2>2
  <1>3. QED
    BY <1>2 DEF Oldest

\* The only host is the one that _get_lobby_host_player_id finds.
LEMMA HostIsHost ==
    ASSUME TypeOK, NEW l \in LobbyIds, l \in lobbies, DocOK(l)
    PROVE  \A p \in Players : IsHost(l, p) <=> hosts[l] = {p}
  <1>1. PICK h \in Players : hosts[l] = {h}
    BY DEF DocOK, Members
  <1>2. Oldest(l, {h}) = h
    BY OldestIsOne
  <1>3. QED
    BY <1>1, <1>2 DEF IsHost

----------------------------------------------------------------------------
(* Requests and locks.                                                      *)

Requested == req \in [Requests -> Request] /\ \A s \in Requests : Local(req[s])

LEMMA IdleIsLocal == Idle \in Request /\ Local(Idle) /\ Idle.pc = "idle"
  BY NoneAssumption DEF Idle, Request, Local, Unlocked, Locked

\* The locals of the other requests stay what they are.
LEMMA BecomeOne ==
    ASSUME Requested, NEW r \in Requests, NEW rec \in Request, Local(rec), Become(r, rec)
    PROVE  /\ Requested'
           /\ req'[r] = rec
           /\ \A s \in Requests \ {r} : req'[s] = req[s]
  BY DEF Requested, Become

LEMMA GotoOne ==
    ASSUME Requested, NEW r \in Requests, NEW pc \in Unlocked \cup Locked, Goto(r, pc),
           Local([req[r] EXCEPT !.pc = pc])
    PROVE  /\ Requested'
           /\ req'[r] = [req[r] EXCEPT !.pc = pc]
           /\ \A s \in Requests \ {r} : req'[s] = req[s]
  <1>1. [req[r] EXCEPT !.pc = pc] \in Request
    BY DEF Requested, Request
  <1>2. QED
    BY <1>1, BecomeOne DEF Goto

LEMMA EndOne ==
    ASSUME Requested, NEW r \in Requests, End(r)
    PROVE  /\ Requested'
           /\ req'[r].pc = "idle"
           /\ \A s \in Requests \ {r} : req'[s] = req[s]
  BY BecomeOne, IdleIsLocal DEF End

\* A step of r that does not write a document keeps the invariant if r knows what
\* the place it goes to needs, and has the lock there.
LEMMA NoDocStep ==
    ASSUME LobbyInvariant, NEW r \in Requests,
           UNCHANGED docs,
           playerLobby' \in [Players -> LobbyIds \cup {None}], dirty' \in SUBSET Requests,
           Requested', \A s \in Requests \ {r} : req'[s] = req[s],
           lockedBy' \in [LobbyIds -> Requests \cup {None}],
           \A l \in LobbyIds : lockedBy[l] \notin {None, r} => lockedBy'[l] = lockedBy[l],
           req'[r].pc \in Locked => lockedBy'[req'[r].lobby] = r,
           Known(r)'
    PROVE  LobbyInvariant'
  <1>1. TypeOK'
    BY DEF LobbyInvariant, TypeOK, docs, Requested, Members
  <1>2. \A l \in LobbyIds : DocOK(l)'
    BY DEF LobbyInvariant, DocOK, docs, Members
  <1>3. ASSUME NEW s \in Requests
        PROVE  /\ Local(req[s])'
               /\ (req[s].pc \in Locked => lockedBy[req[s].lobby] = s)'
               /\ Known(s)'
    <2>1. CASE s = r
      BY <2>1 DEF Requested
    <2>2. CASE s # r
      <3>1. req'[s] = req[s]
        BY <2>2
      <3>2. Known(s)'
        BY <3>1 DEF LobbyInvariant, Known, docs, Members
      <3>3. req[s].pc \in Locked => req[s].lobby \in LobbyIds
        BY DEF LobbyInvariant, Local, Locked
      <3>4. QED
        BY <2>2, <3>1, <3>2, <3>3, NoneAssumption DEF LobbyInvariant, Requested
    <2>3. QED
      BY <2>1, <2>2
  <1>4. QED
    BY <1>1, <1>2, <1>3 DEF LobbyInvariant

LEMMA InvariantParts ==
    ASSUME LobbyInvariant
    PROVE  TypeOK /\ Requested
  BY DEF LobbyInvariant, Requested, TypeOK

\* A place that needs no lock needs to know nothing.
LEMMA NothingKnown ==
    ASSUME NEW r \in Requests, req[r].pc \in Unlocked
    PROVE  Known(r) /\ req[r].pc \notin Locked
  BY DEF Known, Unlocked, Locked

LEMMA AcquireOne ==
    ASSUME TypeOK, NEW r \in Requests, NEW l \in LobbyIds, Acquire(r, l)
    PROVE  /\ lockedBy' \in [LobbyIds -> Requests \cup {None}]
           /\ lockedBy'[l] = r
           /\ \A m \in LobbyIds : lockedBy[m] \notin {None, r} => lockedBy'[m] = lockedBy[m]
  BY DEF TypeOK, Acquire, Free

LEMMA ReleaseOne ==
    ASSUME TypeOK, NEW r \in Requests, Release(r)
    PROVE  /\ lockedBy' \in [LobbyIds -> Requests \cup {None}]
           /\ \A m \in LobbyIds : lockedBy[m] \notin {None, r} => lockedBy'[m] = lockedBy[m]
  BY DEF TypeOK, Release

LEMMA SetKeyTyped ==
    ASSUME TypeOK, NEW r \in Requests, NEW p \in Players, NEW l \in LobbyIds \cup {None},
           SetKey(r, p, l)
    PROVE  playerLobby' \in [Players -> LobbyIds \cup {None}] /\ dirty' \in SUBSET Requests
  BY DEF TypeOK, SetKey

LEMMA DelKeyTyped ==
    ASSUME TypeOK, NEW r \in Requests, NEW p \in Players, DelKey(r, p)
    PROVE  playerLobby' \in [Players -> LobbyIds \cup {None}] /\ dirty' \in SUBSET Requests
  BY SetKeyTyped DEF DelKey

\* Ends of requests.
LEMMA EndStep ==
    ASSUME LobbyInvariant, NEW r \in Requests, End(r), Release(r), UNCHANGED docs,
           playerLobby' \in [Players -> LobbyIds \cup {None}], dirty' \in SUBSET Requests
    PROVE  LobbyInvariant'
  <1>1. Requested' /\ req'[r].pc = "idle" /\ \A s \in Requests \ {r} : req'[s] = req[s]
    BY EndOne, InvariantParts
  <1>2. Known(r)' /\ req'[r].pc \notin Locked
    BY <1>1 DEF Known, Locked
  <1>3. QED
    BY <1>1, <1>2, ReleaseOne, NoDocStep, InvariantParts

LEMMA AnswerStep ==
    ASSUME LobbyInvariant, NEW r \in Requests, Answer(r)
    PROVE  LobbyInvariant'
  BY EndStep DEF Answer, store, docs, LobbyInvariant, TypeOK

\* A request starts.
LEMMA StartStep ==
    ASSUME LobbyInvariant, NEW r \in Requests, NEW p \in Players,
           NEW l \in LobbyIds \cup {None}, NEW member \in Players \cup {None},
           NEW pc \in Unlocked, Start(r, p, l, member, pc),
           Local([Idle EXCEPT !.pc = pc, !.player = p, !.lobby = l, !.member = member])
    PROVE  LobbyInvariant'
  <1> DEFINE rec == [Idle EXCEPT !.pc = pc, !.player = p, !.lobby = l, !.member = member]
  <1>1. rec \in Request
    BY IdleIsLocal DEF Request
  <1>2. Requested' /\ req'[r] = rec /\ \A s \in Requests \ {r} : req'[s] = req[s]
    BY <1>1, BecomeOne, InvariantParts DEF Start
  <1>3. req'[r].pc = pc
    BY <1>1, <1>2, IdleIsLocal DEF Request
  <1>4. Known(r)' /\ req'[r].pc \notin Locked
    BY <1>3 DEF Known, Unlocked, Locked
  <1>5. QED
    BY <1>2, <1>4, NoDocStep DEF Start, store, docs, LobbyInvariant, TypeOK

LEMMA StartsStep ==
    ASSUME LobbyInvariant, NEW r \in Requests, Starts(r)
    PROVE  LobbyInvariant'
  <1> DEFINE rec(p, l, q, pc) ==
                [Idle EXCEPT !.pc = pc, !.player = p, !.lobby = l, !.member = q]
  <1>a. \A p, l, q, pc : /\ rec(p, l, q, pc).pc = pc /\ rec(p, l, q, pc).player = p
                         /\ rec(p, l, q, pc).lobby = l /\ rec(p, l, q, pc).member = q
    BY DEF Idle
  <1> HIDE DEF rec
  <1>k. \A p \in Players : playerLobby[p] # None => playerLobby[p] \in LobbyIds
    BY DEF LobbyInvariant, TypeOK
  <1>1. ASSUME NEW p \in Players, NEW l \in LobbyIds,
               NEW pc \in {"get", "update", "delete", "leave", "join"},
               Start(r, p, l, None, pc)
        PROVE  LobbyInvariant'
    <2>1. Local(rec(p, l, None, pc))
      BY <1>a DEF Local
    <2>2. QED
      BY <1>1, <2>1, StartStep DEF rec, Unlocked
  <1>2. ASSUME NEW p \in Players, Start(r, p, None, None, "createWatch")
        PROVE  LobbyInvariant'
    <2>1. Local(rec(p, None, None, "createWatch"))
      BY <1>a DEF Local
    <2>2. QED
      BY <1>2, <2>1, StartStep DEF rec, Unlocked
  <1>3. ASSUME NEW p \in Players, NEW q \in Players, p # q, NEW l \in LobbyIds,
               Start(r, p, l, q, "kick")
        PROVE  LobbyInvariant'
    <2>1. Local(rec(p, l, q, "kick"))
      BY <1>3, <1>a DEF Local
    <2>2. QED
      BY <1>3, <2>1, StartStep DEF rec, Unlocked
  <1>4. QED
    BY <1>k, <1>1, <1>2, <1>3 DEF Starts, StartGet, StartUpdate, StartCreate, StartDelete,
       StartLeave, StartJoin, StartKick

\* What r has to know to go to pc.
KnownAt(r, pc) == LET l == req[r].lobby IN
    /\ pc \in {"createExec", "createWrite"} => l \notin used
    /\ pc \in {"joinKey", "joinWrite"} => l \in lobbies /\ req[r].player \notin Members(l)
    /\ pc \in {"deleteKeys", "kickKey", "kickWrite"}
            => l \in lobbies /\ hosts[l] = {req[r].player}

\* What r has to have to go to pc.
HasFor(r, pc) ==
    /\ pc \notin {"createWatch", "createLock"} => req[r].lobby \in LobbyIds
    /\ pc \in {"kick", "kickCheck", "kickDrop", "kickKey", "kickWrite"}
            => req[r].member \in Players \ {req[r].player}

LEMMA GotoKnows ==
    ASSUME LobbyInvariant, NEW r \in Requests, NEW pc \in Unlocked \cup Locked, Goto(r, pc),
           UNCHANGED docs, ~At(r, "idle"), HasFor(r, pc), KnownAt(r, pc)
    PROVE  /\ Requested'
           /\ \A s \in Requests \ {r} : req'[s] = req[s]
           /\ req'[r].pc = pc /\ req'[r].lobby = req[r].lobby
           /\ Known(r)'
  <1> DEFINE rec == [req[r] EXCEPT !.pc = pc]
  <1>1. req[r] \in Request /\ Local(req[r]) /\ req[r].pc # "idle"
    BY DEF LobbyInvariant, TypeOK, At
  <1>2. /\ rec.pc = pc /\ rec.player = req[r].player
        /\ rec.lobby = req[r].lobby /\ rec.member = req[r].member
    BY <1>1 DEF Request
  <1> HIDE DEF rec
  <1>3. Local(rec)
    BY <1>1, <1>2 DEF Local, HasFor
  <1>4. /\ Requested'
        /\ req'[r] = rec
        /\ \A s \in Requests \ {r} : req'[s] = req[s]
    BY <1>3, GotoOne, InvariantParts DEF rec
  <1>5. Known(r)'
    BY <1>2, <1>4 DEF Known, KnownAt, docs, Members
  <1>6. QED
    BY <1>2, <1>4, <1>5

\* A request that goes on under the lock it has, without writing the document.
LEMMA GoOnStep ==
    ASSUME LobbyInvariant, NEW r \in Requests, UNCHANGED docs,
           req[r].pc \in Locked, NEW pc \in Locked, Goto(r, pc),
           HasFor(r, pc), KnownAt(r, pc), UNCHANGED lockedBy,
           playerLobby' \in [Players -> LobbyIds \cup {None}], dirty' \in SUBSET Requests
    PROVE  LobbyInvariant'
  <1>1. ~At(r, "idle")
    BY DEF At, Locked
  <1>2. /\ Requested'
        /\ \A s \in Requests \ {r} : req'[s] = req[s]
        /\ req'[r].pc = pc /\ req'[r].lobby = req[r].lobby
        /\ Known(r)'
    BY <1>1, GotoKnows
  <1>3. lockedBy'[req'[r].lobby] = r
    BY <1>2 DEF LobbyInvariant
  <1>4. QED
    BY <1>2, <1>3, NoDocStep DEF LobbyInvariant, TypeOK

\* A request that takes the lock of its lobby and goes on.
LEMMA EnterStep ==
    ASSUME LobbyInvariant, NEW r \in Requests, UNCHANGED <<store, dirty>>,
           ~At(r, "idle"), NEW pc \in Locked, Goto(r, pc),
           HasFor(r, pc), KnownAt(r, pc),
           req[r].lobby \in LobbyIds, Acquire(r, req[r].lobby)
    PROVE  LobbyInvariant'
  <1>1. UNCHANGED docs
    BY DEF store, docs
  <1>2. /\ Requested'
        /\ \A s \in Requests \ {r} : req'[s] = req[s]
        /\ req'[r].pc = pc /\ req'[r].lobby = req[r].lobby
        /\ Known(r)'
    BY <1>1, GotoKnows
  <1>3. /\ lockedBy' \in [LobbyIds -> Requests \cup {None}]
        /\ lockedBy'[req'[r].lobby] = r
        /\ \A m \in LobbyIds : lockedBy[m] \notin {None, r} => lockedBy'[m] = lockedBy[m]
    BY <1>2, AcquireOne, InvariantParts
  <1>4. QED
    BY <1>1, <1>2, <1>3, NoDocStep DEF store, LobbyInvariant, TypeOK

----------------------------------------------------------------------------
(* The steps of a request that do not write the document.                   *)

\* What the invariant says of one request.
LEMMA Knows ==
    ASSUME LobbyInvariant, NEW r \in Requests
    PROVE  /\ Local(req[r])
           /\ req[r].pc \in Locked => lockedBy[req[r].lobby] = r
           /\ Known(r)
  BY DEF LobbyInvariant

LEMMA LookLockedStep ==
    ASSUME LobbyInvariant, NEW r \in Requests, LookLocked(r)
    PROVE  LobbyInvariant'
  <1>1. CASE Answer(r)
    BY <1>1, AnswerStep
  <1>2. CASE /\ Acquire(r, req[r].lobby)
             /\ Goto(r, "drop")
             /\ UNCHANGED <<store, dirty>>
    <2>1. req[r].lobby \in LobbyIds /\ ~At(r, "idle")
      BY Knows DEF LookLocked, At, Local
    <2>2. HasFor(r, "drop") /\ KnownAt(r, "drop")
      BY <2>1 DEF HasFor, KnownAt
    <2>3. QED
      BY <1>2, <2>1, <2>2, EnterStep DEF Locked
  <1>3. QED
    BY <1>1, <1>2 DEF LookLocked

LEMMA DropStep ==
    ASSUME LobbyInvariant, NEW r \in Requests, Drop(r)
    PROVE  LobbyInvariant'
  <1>1. req[r].player \in Players
    BY Knows DEF Drop, At, Local
  <1>2. QED
    BY <1>1, DelKeyTyped, EndStep, InvariantParts DEF Drop

LEMMA CreateWatchStep ==
    ASSUME LobbyInvariant, NEW r \in Requests, CreateWatch(r)
    PROVE  LobbyInvariant'
  <1>1. UNCHANGED docs
    BY DEF CreateWatch, store, docs
  <1>2. ~At(r, "idle") /\ HasFor(r, "createLock") /\ KnownAt(r, "createLock")
    BY DEF CreateWatch, At, HasFor, KnownAt
  <1>3. /\ Requested'
        /\ \A s \in Requests \ {r} : req'[s] = req[s]
        /\ req'[r].pc = "createLock"
        /\ Known(r)'
    BY <1>1, <1>2, GotoKnows DEF CreateWatch, Unlocked
  <1>4. req'[r].pc \notin Locked
    BY <1>3 DEF Locked
  <1>5. QED
    BY <1>1, <1>3, <1>4, NoDocStep DEF CreateWatch, store, LobbyInvariant, TypeOK

LEMMA CreateLockStep ==
    ASSUME LobbyInvariant, NEW r \in Requests, CreateLock(r)
    PROVE  LobbyInvariant'
  <1>1. CASE Answer(r)
    BY <1>1, AnswerStep
  <1>2. ASSUME NEW l \in LobbyIds \ used,
               Acquire(r, l),
               Become(r, [req[r] EXCEPT !.pc = "createExec", !.lobby = l]),
               UNCHANGED <<store, dirty>>
        PROVE  LobbyInvariant'
    <2> DEFINE rec == [req[r] EXCEPT !.pc = "createExec", !.lobby = l]
    <2>1. req[r] \in Request /\ req[r].player \in Players
      BY Knows, InvariantParts DEF Requested, CreateLock, At, Local
    <2>2. rec \in Request /\ rec.pc = "createExec" /\ rec.lobby = l /\ rec.player \in Players
      BY <2>1 DEF Request, Locked
    <2> HIDE DEF rec
    <2>3. Local(rec)
      BY <2>2 DEF Local
    <2>4. Requested' /\ req'[r] = rec /\ \A s \in Requests \ {r} : req'[s] = req[s]
      BY <1>2, <2>2, <2>3, BecomeOne, InvariantParts DEF rec
    <2>5. Known(r)'
      BY <1>2, <2>2, <2>4 DEF Known, store
    <2>6. /\ lockedBy' \in [LobbyIds -> Requests \cup {None}]
          /\ lockedBy'[l] = r
          /\ \A m \in LobbyIds : lockedBy[m] \notin {None, r} => lockedBy'[m] = lockedBy[m]
      BY <1>2, AcquireOne, InvariantParts
    <2>7. QED
      BY <1>2, <2>2, <2>4, <2>5, <2>6, NoDocStep DEF store, docs, LobbyInvariant, TypeOK
  <1>3. QED
    BY <1>1, <1>2 DEF CreateLock

LEMMA CreateExecStep ==
    ASSUME LobbyInvariant, NEW r \in Requests, CreateExec(r)
    PROVE  LobbyInvariant'
  <1>1. CASE Answer(r)
    BY <1>1, AnswerStep
  <1>2. CASE /\ SetKey(r, req[r].player, req[r].lobby)
             /\ Goto(r, "createWrite")
             /\ UNCHANGED <<docs, lockedBy>>
    <2>1. req[r].player \in Players /\ req[r].lobby \in LobbyIds /\ req[r].pc \in Locked
      BY Knows DEF CreateExec, At, Local, Locked
    <2>2. HasFor(r, "createWrite") /\ KnownAt(r, "createWrite")
      BY <2>1, Knows DEF CreateExec, At, HasFor, KnownAt, Known
    <2>3. QED
      BY <1>2, <2>1, <2>2, SetKeyTyped, GoOnStep, InvariantParts DEF Locked
  <1>3. QED
    BY <1>1, <1>2 DEF CreateExec

LEMMA DeleteLockedStep ==
    ASSUME LobbyInvariant, NEW r \in Requests, DeleteLocked(r)
    PROVE  LobbyInvariant'
  <1> DEFINE l == req[r].lobby
             rec == [req[r] EXCEPT !.pc = "deleteKeys", !.todo = Members(l) \ hosts[l]]
  <1>1. CASE Answer(r)
    BY <1>1, AnswerStep
  <1>2. CASE /\ l \in lobbies /\ IsHost(l, req[r].player)
             /\ Acquire(r, l)
             /\ Become(r, rec)
             /\ UNCHANGED <<store, dirty>>
    <2>1. req[r] \in Request /\ req[r].player \in Players /\ l \in LobbyIds
      BY Knows, InvariantParts DEF Requested, DeleteLocked, At, Local
    <2>2. /\ rec \in Request /\ rec.pc = "deleteKeys"
          /\ rec.lobby = l /\ rec.player = req[r].player
      BY <2>1 DEF Request, Locked, Members
    <2>3. hosts[l] = {req[r].player}
      BY <1>2, <2>1, HostIsHost DEF LobbyInvariant
    <2> HIDE DEF rec
    <2>4. Local(rec)
      BY <2>1, <2>2 DEF Local
    <2>5. Requested' /\ req'[r] = rec /\ \A s \in Requests \ {r} : req'[s] = req[s]
      BY <1>2, <2>2, <2>4, BecomeOne, InvariantParts
    <2>6. Known(r)'
      BY <1>2, <2>2, <2>3, <2>5 DEF Known, store
    <2>7. /\ lockedBy' \in [LobbyIds -> Requests \cup {None}]
          /\ lockedBy'[l] = r
          /\ \A m \in LobbyIds : lockedBy[m] \notin {None, r} => lockedBy'[m] = lockedBy[m]
      BY <1>2, <2>1, AcquireOne, InvariantParts
    <2>8. QED
      BY <1>2, <2>2, <2>5, <2>6, <2>7, NoDocStep DEF store, docs, LobbyInvariant, TypeOK
  <1>3. QED
    BY <1>1, <1>2 DEF DeleteLocked

LEMMA DeleteKeyStep ==
    ASSUME LobbyInvariant, NEW r \in Requests, DeleteKey(r)
    PROVE  LobbyInvariant'
  <1> DEFINE l == req[r].lobby
             q == Oldest(l, req[r].todo)
             rec == [req[r] EXCEPT !.todo = req[r].todo \ {q}]
  <1>1. /\ req[r] \in Request /\ Local(req[r]) /\ Known(r)
        /\ l \in LobbyIds /\ lockedBy[l] = r /\ req[r].pc = "deleteKeys"
    BY Knows, InvariantParts DEF Requested, DeleteKey, At, Local, Locked
  <1>2. q \in Players
    BY <1>1, OldestIsOne, InvariantParts DEF DeleteKey, Request
  <1> HIDE DEF q
  <1>3. /\ rec \in Request /\ rec.pc = "deleteKeys" /\ rec.lobby = l
        /\ rec.player = req[r].player /\ rec.member = req[r].member
    BY <1>1 DEF Request
  <1> HIDE DEF rec
  <1>4. Local(rec)
    BY <1>1, <1>3 DEF Local
  <1>5. Become(r, rec) /\ DelKey(r, q) /\ UNCHANGED <<docs, lockedBy>>
    BY DEF DeleteKey, q, rec
  <1>6. Requested' /\ req'[r] = rec /\ \A s \in Requests \ {r} : req'[s] = req[s]
    BY <1>3, <1>4, <1>5, BecomeOne, InvariantParts
  <1>7. Known(r)'
    BY <1>1, <1>3, <1>5, <1>6 DEF Known, docs, Members
  <1>8. QED
    BY <1>1, <1>2, <1>3, <1>5, <1>6, <1>7, DelKeyTyped, NoDocStep DEF LobbyInvariant, TypeOK

LEMMA LeaveLockedStep ==
    ASSUME LobbyInvariant, NEW r \in Requests, LeaveLocked(r)
    PROVE  LobbyInvariant'
  <1>1. CASE Answer(r)
    BY <1>1, AnswerStep
  <1>2. CASE Acquire(r, req[r].lobby) /\ Goto(r, "leaveKey") /\ UNCHANGED <<store, dirty>>
    <2>1. req[r].lobby \in LobbyIds /\ ~At(r, "idle")
      BY Knows DEF LeaveLocked, At, Local
    <2>2. HasFor(r, "leaveKey") /\ KnownAt(r, "leaveKey")
      BY <2>1 DEF HasFor, KnownAt
    <2>3. QED
      BY <1>2, <2>1, <2>2, EnterStep DEF Locked
  <1>3. QED
    BY <1>1, <1>2 DEF LeaveLocked

LEMMA LeaveKeyStep ==
    ASSUME LobbyInvariant, NEW r \in Requests, LeaveKey(r)
    PROVE  LobbyInvariant'
  <1>1. req[r].player \in Players /\ req[r].lobby \in LobbyIds /\ req[r].pc \in Locked
    BY Knows DEF LeaveKey, At, Local, Locked
  <1>2. HasFor(r, "leaveWrite") /\ KnownAt(r, "leaveWrite")
    BY <1>1 DEF HasFor, KnownAt
  <1>3. QED
    BY <1>1, <1>2, DelKeyTyped, GoOnStep, InvariantParts DEF LeaveKey, Locked

LEMMA JoinLockedStep ==
    ASSUME LobbyInvariant, NEW r \in Requests, JoinLocked(r)
    PROVE  LobbyInvariant'
  <1>1. CASE Answer(r)
    BY <1>1, AnswerStep
  <1>2. CASE /\ req[r].lobby \in lobbies /\ req[r].player \notin Members(req[r].lobby)
             /\ Acquire(r, req[r].lobby)
             /\ Goto(r, "joinKey")
             /\ UNCHANGED <<store, dirty>>
    <2>1. req[r].lobby \in LobbyIds /\ ~At(r, "idle")
      BY Knows DEF JoinLocked, At, Local
    <2>2. HasFor(r, "joinKey") /\ KnownAt(r, "joinKey")
      BY <1>2, <2>1 DEF HasFor, KnownAt
    <2>3. QED
      BY <1>2, <2>1, <2>2, EnterStep DEF Locked
  <1>3. QED
    BY <1>1, <1>2 DEF JoinLocked

LEMMA JoinKeyStep ==
    ASSUME LobbyInvariant, NEW r \in Requests, JoinKey(r)
    PROVE  LobbyInvariant'
  <1>1. req[r].player \in Players /\ req[r].lobby \in LobbyIds /\ req[r].pc \in Locked
    BY Knows DEF JoinKey, At, Local, Locked
  <1>2. HasFor(r, "joinWrite") /\ KnownAt(r, "joinWrite")
    BY <1>1, Knows DEF JoinKey, At, HasFor, KnownAt, Known
  <1>3. QED
    BY <1>1, <1>2, SetKeyTyped, GoOnStep, InvariantParts DEF JoinKey, Locked

LEMMA KickLockedStep ==
    ASSUME LobbyInvariant, NEW r \in Requests, KickLocked(r)
    PROVE  LobbyInvariant'
  <1>1. CASE Answer(r)
    BY <1>1, AnswerStep
  <1>2. CASE Acquire(r, req[r].lobby) /\ Goto(r, "kickCheck") /\ UNCHANGED <<store, dirty>>
    <2>1. /\ req[r].lobby \in LobbyIds /\ ~At(r, "idle")
          /\ req[r].member \in Players \ {req[r].player}
      BY Knows DEF KickLocked, At, Local
    <2>2. HasFor(r, "kickCheck") /\ KnownAt(r, "kickCheck")
      BY <2>1 DEF HasFor, KnownAt
    <2>3. QED
      BY <1>2, <2>1, <2>2, EnterStep DEF Locked
  <1>3. QED
    BY <1>1, <1>2 DEF KickLocked

\* Where a kick is, it has what the next place needs.
LEMMA KickHas ==
    ASSUME LobbyInvariant, NEW r \in Requests,
           req[r].pc \in {"kickCheck", "kickDrop", "kickKey", "kickWrite"}
    PROVE  /\ req[r].player \in Players /\ req[r].lobby \in LobbyIds
           /\ req[r].member \in Players \ {req[r].player}
           /\ req[r].pc \in Locked
           /\ \A pc : HasFor(r, pc)
  BY Knows DEF Local, Locked, HasFor

LEMMA KickCheckStep ==
    ASSUME LobbyInvariant, NEW r \in Requests, KickCheck(r)
    PROVE  LobbyInvariant'
  <1>1. /\ req[r].player \in Players /\ req[r].lobby \in LobbyIds /\ req[r].pc \in Locked
        /\ \A pc : HasFor(r, pc)
    BY KickHas DEF KickCheck, At
  <1>2. CASE Answer(r)
    BY <1>2, AnswerStep
  <1>3. CASE /\ MayKick(r)
             /\ Goto(r, "kickKey")
             /\ UNCHANGED <<store, lockedBy, dirty>>
    <2>1. req[r].lobby \in lobbies /\ hosts[req[r].lobby] = {req[r].player}
      BY <1>1, <1>3, HostIsHost DEF MayKick, LobbyInvariant
    <2>2. KnownAt(r, "kickKey")
      BY <2>1 DEF KnownAt
    <2>3. QED
      BY <1>1, <1>3, <2>2, GoOnStep DEF Locked, store, docs, LobbyInvariant, TypeOK
  <1>4. CASE /\ DelKey(r, req[r].player)
             /\ Goto(r, "kickDrop")
             /\ UNCHANGED <<docs, lockedBy>>
    <2>1. KnownAt(r, "kickDrop")
      BY DEF KnownAt
    <2>2. QED
      BY <1>1, <1>4, <2>1, DelKeyTyped, GoOnStep, InvariantParts DEF Locked
  <1>5. QED
    BY <1>2, <1>3, <1>4 DEF KickCheck

LEMMA KickDropStep ==
    ASSUME LobbyInvariant, NEW r \in Requests, KickDrop(r)
    PROVE  LobbyInvariant'
  <1>1. req[r].member \in Players
    BY KickHas DEF KickDrop, At
  <1>2. QED
    BY <1>1, DelKeyTyped, EndStep, InvariantParts DEF KickDrop

LEMMA KickKeyStep ==
    ASSUME LobbyInvariant, NEW r \in Requests, KickKey(r)
    PROVE  LobbyInvariant'
  <1>1. req[r].member \in Players /\ req[r].pc \in Locked /\ \A pc : HasFor(r, pc)
    BY KickHas DEF KickKey, At
  <1>2. KnownAt(r, "kickWrite")
    BY Knows DEF KickKey, At, KnownAt, Known
  <1>3. QED
    BY <1>1, <1>2, DelKeyTyped, GoOnStep, InvariantParts DEF KickKey, KickedPlayer, Locked

----------------------------------------------------------------------------
(* The steps that write a document, at the end of a request.                *)

\* The other documents stay, and the types of them all.
DocFrame(l) ==
    /\ joined' \in [LobbyIds -> [Players -> 0..MaxJoins]]
    /\ hosts' \in [LobbyIds -> SUBSET Players]
    /\ clock' \in [LobbyIds -> 0..MaxJoins]
    /\ used' \in SUBSET LobbyIds /\ lobbies' \in SUBSET used'
    /\ \A m \in LobbyIds \ {l} :
            /\ joined'[m] = joined[m] /\ hosts'[m] = hosts[m] /\ clock'[m] = clock[m]
            /\ m \in used' <=> m \in used
            /\ m \in lobbies' <=> m \in lobbies

\* A request s that has another lobby locked, or none, knows what it knew.
LEMMA OthersKnow ==
    ASSUME LobbyInvariant, NEW l \in LobbyIds, DocFrame(l), NEW s \in Requests,
           req'[s] = req[s], req[s].pc \in Locked => req[s].lobby # l
    PROVE  Known(s)'
  <1>1. Known(s) /\ Local(req[s])
    BY Knows
  <1>2. CASE req[s].pc \in Locked
    <2>1. req[s].lobby \in LobbyIds \ {l}
      BY <1>1, <1>2 DEF Local, Locked
    <2>2. QED
      BY <1>1, <2>1 DEF Known, DocFrame, Members
  <1>3. CASE req[s].pc \notin Locked
    BY <1>3 DEF Known, Locked
  <1>4. QED
    BY <1>2, <1>3

LEMMA DocsStep ==
    ASSUME LobbyInvariant, NEW l \in LobbyIds, DocFrame(l), DocOK(l)',
           (hosts[l] \subseteq Members(l))'
    PROVE  /\ \A m \in LobbyIds : DocOK(m)'
           /\ \A m \in LobbyIds : (hosts[m] \subseteq Members(m))'
  <1>1. ASSUME NEW m \in LobbyIds \ {l} PROVE DocOK(m)' /\ (hosts[m] \subseteq Members(m))'
    <2>1. DocOK(m) /\ hosts[m] \subseteq Members(m)
      BY DEF LobbyInvariant, TypeOK
    <2>2. /\ joined'[m] = joined[m] /\ hosts'[m] = hosts[m] /\ clock'[m] = clock[m]
          /\ m \in lobbies' <=> m \in lobbies
      BY DEF DocFrame
    <2>3. (Members(m))' = Members(m)
      BY <2>2 DEF Members
    <2>4. DocOK(m)'
      BY <2>1, <2>2, <2>3 DEF DocOK
    <2>5. QED
      BY <2>1, <2>2, <2>3, <2>4
  <1>2. QED
    BY <1>1

\* A request that has l locked writes l, releases it and ends.
LEMMA WriteStep ==
    ASSUME LobbyInvariant, NEW r \in Requests, NEW l \in LobbyIds, req[r].lobby = l,
           req[r].pc \in Locked, DocFrame(l), DocOK(l)', (hosts[l] \subseteq Members(l))',
           End(r), Release(r), UNCHANGED <<playerLobby, dirty>>
    PROVE  LobbyInvariant'
  <1>1. Requested' /\ req'[r].pc = "idle" /\ \A s \in Requests \ {r} : req'[s] = req[s]
    BY EndOne, InvariantParts
  <1>2. /\ lockedBy' \in [LobbyIds -> Requests \cup {None}]
        /\ \A m \in LobbyIds : lockedBy[m] \notin {None, r} => lockedBy'[m] = lockedBy[m]
    BY ReleaseOne, InvariantParts
  <1>3. /\ \A m \in LobbyIds : DocOK(m)'
        /\ \A m \in LobbyIds : (hosts[m] \subseteq Members(m))'
    BY DocsStep
  <1>4. TypeOK'
    BY <1>1, <1>2, <1>3, InvariantParts DEF TypeOK, DocFrame, Requested
  <1>5. ASSUME NEW s \in Requests
        PROVE  /\ Local(req[s])'
               /\ (req[s].pc \in Locked => lockedBy[req[s].lobby] = s)'
               /\ Known(s)'
    <2>1. CASE s = r
      BY <1>1, <2>1 DEF Requested, Known, Locked
    <2>2. CASE s # r
      <3>1. req'[s] = req[s] /\ Local(req[s])
        BY <1>1, <2>2, Knows
      <3>2. req[s].pc \in Locked => req[s].lobby \in LobbyIds /\ lockedBy[req[s].lobby] = s
        BY <3>1, Knows DEF Local, Locked
      <3>3. req[s].pc \in Locked => req[s].lobby # l
        BY <2>2, <3>2, Knows
      <3>4. Known(s)'
        BY <3>1, <3>3, OthersKnow
      <3>5. (req[s].pc \in Locked => lockedBy[req[s].lobby] = s)'
        BY <1>2, <2>2, <3>1, <3>2, NoneAssumption
      <3>6. QED
        BY <3>1, <3>4, <3>5
    <2>3. QED
      BY <2>1, <2>2
  <1>6. QED
    BY <1>3, <1>4, <1>5 DEF LobbyInvariant

\* A lobby that goes leaves nothing.
LEMMA RemoveLobbyOK ==
    ASSUME LobbyInvariant, NEW l \in LobbyIds, RemoveLobby(l)
    PROVE  DocFrame(l) /\ DocOK(l)' /\ (hosts[l] \subseteq Members(l))'
  <1>1. TypeOK
    BY DEF LobbyInvariant
  <1>2. joined'[l] = [p \in Players |-> 0] /\ hosts'[l] = {} /\ l \notin lobbies'
    BY <1>1 DEF RemoveLobby, TypeOK
  <1>3. DocFrame(l)
    BY <1>1, BoundAssumption DEF RemoveLobby, DocFrame, TypeOK
  <1>4. (Members(l))' = {}
    BY <1>2 DEF Members
  <1>5. QED
    BY <1>2, <1>3, <1>4 DEF DocOK

\* A lobby that p entered last.
LEMMA AddMemberOK ==
    ASSUME LobbyInvariant, NEW l \in LobbyIds, NEW p \in Players, NEW host \in BOOLEAN,
           AddMember(l, p, host), p \notin Members(l), host <=> l \notin lobbies
    PROVE  DocFrame(l) /\ DocOK(l)' /\ (hosts[l] \subseteq Members(l))'
  <1>1. TypeOK /\ DocOK(l)
    BY DEF LobbyInvariant
  <1>2. /\ joined'[l] = [joined[l] EXCEPT ![p] = clock[l] + 1]
        /\ clock'[l] = clock[l] + 1 /\ clock[l] \in Nat /\ clock[l] + 1 \in 0..MaxJoins
        /\ l \in lobbies'
        /\ hosts'[l] = IF host THEN {p} ELSE hosts[l]
    BY <1>1, BoundAssumption DEF AddMember, TypeOK
  <1>3. DocFrame(l)
    <2>1. joined' \in [LobbyIds -> [Players -> 0..MaxJoins]]
      BY <1>1, <1>2 DEF AddMember, TypeOK
    <2>2. hosts' \in [LobbyIds -> SUBSET Players]
      BY <1>1 DEF AddMember, TypeOK
    <2>3. QED
      BY <1>1, <1>2, <2>1, <2>2 DEF AddMember, DocFrame, TypeOK
  <1>4. (Members(l))' = Members(l) \cup {p}
    BY <1>1, <1>2 DEF Members, TypeOK
  <1>5. /\ \A q \in Members(l) : joined'[l][q] = joined[l][q] /\ joined[l][q] \in Nat
        /\ joined'[l][p] = clock[l] + 1
    BY <1>1, <1>2, BoundAssumption DEF Members, TypeOK
  <1>6. \E h \in Members(l) \cup {p} :
            hosts'[l] = {h} /\ \A q \in Members(l) \cup {p} : joined'[l][h] <= joined'[l][q]
    <2>1. CASE host
      <3>1. Members(l) = {}
        BY <1>1, <2>1 DEF DocOK
      <3>2. QED
        BY <1>2, <1>5, <2>1, <3>1
    <2>2. CASE ~host
      <3>1. PICK h \in Members(l) :
                hosts[l] = {h} /\ \A q \in Members(l) : joined[l][h] <= joined[l][q]
        BY <1>1, <2>2 DEF DocOK
      <3>2. joined[l][h] <= clock[l]
        BY <1>1 DEF DocOK
      <3>3. joined'[l][h] <= joined'[l][p]
        BY <1>2, <1>5, <3>2
      <3>4. QED
        BY <1>2, <1>5, <2>2, <3>1, <3>3
    <2>3. QED
      BY <2>1, <2>2
  <1>7. \A a, b \in Members(l) \cup {p} :
            joined'[l][a] <= clock'[l] /\ (joined'[l][a] = joined'[l][b] => a = b)
    <2>1. \A a, b \in Members(l) :
            joined[l][a] <= clock[l] /\ (joined[l][a] = joined[l][b] => a = b)
      BY <1>1 DEF DocOK
    <2>2. \A a \in Members(l) : joined'[l][a] \in Nat /\ joined'[l][a] < joined'[l][p]
      BY <1>2, <1>5, <2>1
    <2>3. \A a, b \in Members(l) : joined'[l][a] = joined'[l][b] => a = b
      BY <1>5, <2>1
    <2>4. \A a \in Members(l) \cup {p} : joined'[l][a] <= clock'[l]
      BY <1>2, <1>5, <2>1
    <2>5. QED
      BY <2>2, <2>3, <2>4
  <1>8. DocOK(l)'
    BY <1>2, <1>4, <1>6, <1>7 DEF DocOK
  <1>9. QED
    BY <1>3, <1>4, <1>6, <1>8

\* A lobby that p left, with the host flags flags among those who stay.
LEMMA RemoveMemberOK ==
    ASSUME LobbyInvariant, NEW l \in LobbyIds, NEW p \in Players, NEW flags,
           RemoveMember(l, p, flags), l \in lobbies,
           \E h \in Members(l) \ {p} :
                flags = {h} /\ \A q \in Members(l) \ {p} : joined[l][h] <= joined[l][q]
    PROVE  DocFrame(l) /\ DocOK(l)' /\ (hosts[l] \subseteq Members(l))'
  <1>1. TypeOK /\ DocOK(l)
    BY DEF LobbyInvariant
  <1>2. /\ joined'[l] = [joined[l] EXCEPT ![p] = 0]
        /\ hosts'[l] = flags /\ clock'[l] = clock[l] /\ l \in lobbies'
    BY <1>1 DEF RemoveMember, TypeOK
  <1>3. DocFrame(l)
    <2>1. joined' \in [LobbyIds -> [Players -> 0..MaxJoins]]
      BY <1>1, BoundAssumption DEF RemoveMember, TypeOK
    <2>2. hosts' \in [LobbyIds -> SUBSET Players]
      BY <1>1 DEF RemoveMember, TypeOK, Members
    <2>3. QED
      BY <1>1, <2>1, <2>2 DEF RemoveMember, DocFrame, TypeOK
  <1>4. (Members(l))' = Members(l) \ {p}
    BY <1>1, <1>2 DEF Members, TypeOK
  <1>5. \A q \in Members(l) \ {p} : joined'[l][q] = joined[l][q]
    BY <1>1, <1>2 DEF Members, TypeOK
  <1>6. DocOK(l)'
    BY <1>1, <1>2, <1>4, <1>5 DEF DocOK
  <1>7. QED
    BY <1>2, <1>3, <1>4, <1>6

LEMMA CreateWriteStep ==
    ASSUME LobbyInvariant, NEW r \in Requests, CreateWrite(r)
    PROVE  LobbyInvariant'
  <1>1. PICK l \in LobbyIds, p \in Players :
            l = req[r].lobby /\ p = req[r].player /\ req[r].pc \in Locked /\ l \notin used
    BY Knows DEF CreateWrite, At, Local, Locked, Known
  <1>2. l \notin lobbies /\ p \notin Members(l)
    BY <1>1 DEF LobbyInvariant, TypeOK, DocOK
  <1>3. DocFrame(l) /\ DocOK(l)' /\ (hosts[l] \subseteq Members(l))'
    BY <1>1, <1>2, AddMemberOK DEF CreateWrite
  <1>4. QED
    BY <1>1, <1>3, WriteStep DEF CreateWrite

LEMMA JoinWriteStep ==
    ASSUME LobbyInvariant, NEW r \in Requests, JoinWrite(r)
    PROVE  LobbyInvariant'
  <1>1. PICK l \in LobbyIds, p \in Players :
            /\ l = req[r].lobby /\ p = req[r].player /\ req[r].pc \in Locked
            /\ l \in lobbies /\ p \notin Members(l)
    BY Knows DEF JoinWrite, At, Local, Locked, Known
  <1>2. DocFrame(l) /\ DocOK(l)' /\ (hosts[l] \subseteq Members(l))'
    BY <1>1, AddMemberOK DEF JoinWrite
  <1>3. QED
    BY <1>1, <1>2, WriteStep DEF JoinWrite

LEMMA DeleteWriteStep ==
    ASSUME LobbyInvariant, NEW r \in Requests, DeleteWrite(r)
    PROVE  LobbyInvariant'
  <1>1. PICK l \in LobbyIds : l = req[r].lobby /\ req[r].pc \in Locked
    BY Knows DEF DeleteWrite, At, Local, Locked
  <1>2. QED
    BY <1>1, RemoveLobbyOK, WriteStep DEF DeleteWrite

\* Nothing was written: the request ends.
LEMMA NoWriteStep ==
    ASSUME LobbyInvariant, NEW r \in Requests, UNCHANGED docs, End(r), Release(r),
           UNCHANGED <<playerLobby, dirty>>
    PROVE  LobbyInvariant'
  BY EndStep DEF LobbyInvariant, TypeOK

\* The host that is left is the oldest of those who stay.
LEMMA SuccessorIsOldest ==
    ASSUME LobbyInvariant, NEW l \in LobbyIds, NEW p \in Members(l), l \in lobbies,
           Members(l) \ {p} # {}
    PROVE  \E h \in Members(l) \ {p} :
               /\ HostsWithout(l, p, Members(l) \ {p}) = {h}
               /\ \A q \in Members(l) \ {p} : joined[l][h] <= joined[l][q]
  <1> DEFINE S == Members(l) \ {p}
  <1>1. TypeOK /\ DocOK(l) /\ p \in Players /\ S \in SUBSET Players
    BY DEF LobbyInvariant, Members
  <1>2. Oldest(l, S) \in S /\ \A q \in S : joined[l][Oldest(l, S)] <= joined[l][q]
    BY <1>1, OldestIsOne
  <1>3. PICK h \in Members(l) :
            hosts[l] = {h} /\ \A q \in Members(l) : joined[l][h] <= joined[l][q]
    BY <1>1 DEF DocOK
  <1>4. IsHost(l, p) <=> h = p
    BY <1>1, <1>3, HostIsHost
  <1> HIDE DEF S
  <1>5. CASE h = p
    <2>1. HostsWithout(l, p, S) = {Oldest(l, S)}
      BY <1>3, <1>4, <1>5 DEF HostsWithout, Successor
    <2>2. QED
      BY <1>2, <2>1 DEF S
  <1>6. CASE h # p
    <2>1. HostsWithout(l, p, S) = {h}
      BY <1>3, <1>4, <1>6 DEF HostsWithout
    <2>2. QED
      BY <1>3, <1>6, <2>1 DEF S
  <1>7. QED
    BY <1>5, <1>6

LEMMA LeaveWriteStep ==
    ASSUME LobbyInvariant, NEW r \in Requests, LeaveWrite(r)
    PROVE  LobbyInvariant'
  <1>1. PICK l \in LobbyIds, p \in Players :
            /\ l = req[r].lobby /\ p = req[r].player /\ req[r].pc \in Locked
            /\ p \in Members(l) => l \in lobbies
    BY Knows DEF LeaveWrite, At, Local, Locked, LobbyInvariant, DocOK
  <1> DEFINE S == Members(l) \ {p}
  <1>2. CASE p \in Members(l) /\ S # {} /\ RemoveMember(l, p, HostsWithout(l, p, S))
    <2>1. \E h \in S :
              /\ HostsWithout(l, p, S) = {h}
              /\ \A q \in S : joined[l][h] <= joined[l][q]
      BY <1>1, <1>2, SuccessorIsOldest
    <2>2. DocFrame(l) /\ DocOK(l)' /\ (hosts[l] \subseteq Members(l))'
      BY <1>1, <1>2, <2>1, RemoveMemberOK
    <2>3. QED
      BY <1>1, <2>2, WriteStep DEF LeaveWrite
  <1>3. CASE p \in Members(l) /\ S = {} /\ RemoveLobby(l)
    BY <1>1, <1>3, RemoveLobbyOK, WriteStep DEF LeaveWrite
  <1>4. CASE p \notin Members(l) /\ UNCHANGED docs
    BY <1>4, NoWriteStep DEF LeaveWrite
  <1>5. QED
    BY <1>1, <1>2, <1>3, <1>4 DEF LeaveWrite

LEMMA KickWriteStep ==
    ASSUME LobbyInvariant, NEW r \in Requests, KickWrite(r)
    PROVE  LobbyInvariant'
  <1>1. PICK l \in LobbyIds, q \in Players :
            /\ l = req[r].lobby /\ q = req[r].member /\ q # req[r].player
            /\ req[r].pc \in Locked
            /\ l \in lobbies /\ hosts[l] = {req[r].player}
    BY Knows DEF KickWrite, At, Local, Locked, Known
  <1>2. CASE q \in Members(l) /\ RemoveMember(l, q, hosts[l] \ {q})
    <2>1. PICK h \in Members(l) :
              hosts[l] = {h} /\ \A m \in Members(l) : joined[l][h] <= joined[l][m]
      BY <1>1 DEF LobbyInvariant, DocOK
    <2>2. h # q /\ hosts[l] \ {q} = {h}
      BY <1>1, <2>1
    <2>3. DocFrame(l) /\ DocOK(l)' /\ (hosts[l] \subseteq Members(l))'
      BY <1>1, <1>2, <2>1, <2>2, RemoveMemberOK
    <2>4. QED
      BY <1>1, <2>3, WriteStep DEF KickWrite
  <1>3. CASE q \notin Members(l) /\ UNCHANGED docs
    BY <1>3, NoWriteStep DEF KickWrite
  <1>4. QED
    BY <1>1, <1>2, <1>3 DEF KickWrite

\* A lobby that expires is locked by nobody.
LEMMA ExpireStep ==
    ASSUME LobbyInvariant, NEW l \in LobbyIds, Expire(l)
    PROVE  LobbyInvariant'
  <1>1. DocFrame(l) /\ DocOK(l)' /\ (hosts[l] \subseteq Members(l))'
    BY RemoveLobbyOK DEF Expire
  <1>2. /\ \A m \in LobbyIds : DocOK(m)'
        /\ \A m \in LobbyIds : (hosts[m] \subseteq Members(m))'
    BY <1>1, DocsStep
  <1>3. TypeOK'
    BY <1>1, <1>2 DEF Expire, LobbyInvariant, TypeOK, DocFrame
  <1>4. ASSUME NEW s \in Requests
        PROVE  /\ Local(req[s])'
               /\ (req[s].pc \in Locked => lockedBy[req[s].lobby] = s)'
               /\ Known(s)'
    <2>1. UNCHANGED <<req, lockedBy>> /\ lockedBy[l] = None
      BY DEF Expire, Free
    <2>2. Local(req[s]) /\ (req[s].pc \in Locked => lockedBy[req[s].lobby] = s)
      BY Knows
    <2>3. req[s].pc \in Locked => req[s].lobby # l
      BY <2>1, <2>2, NoneAssumption
    <2>4. Known(s)'
      BY <1>1, <2>1, <2>3, OthersKnow
    <2>5. QED
      BY <2>1, <2>2, <2>4
  <1>5. QED
    BY <1>2, <1>3, <1>4 DEF LobbyInvariant

----------------------------------------------------------------------------
(* The theorems.                                                            *)

LEMMA LobbyInvariantInit == Init => LobbyInvariant
  <1> SUFFICES ASSUME Init PROVE LobbyInvariant
    OBVIOUS
  <1>1. /\ \A l \in LobbyIds : Members(l) = {} /\ hosts[l] = {}
        /\ req \in [Requests -> Request]
        /\ \A r \in Requests : req[r].pc = "idle" /\ Local(req[r])
    BY IdleIsLocal DEF Init, Members
  <1>2. TypeOK
    BY <1>1, BoundAssumption DEF Init, TypeOK
  <1>3. QED
    BY <1>1, <1>2 DEF Init, LobbyInvariant, DocOK, Known, Locked

LEMMA LobbyInvariantStep ==
    ASSUME LobbyInvariant, [Next]_vars PROVE LobbyInvariant'
  <1>1. CASE UNCHANGED vars
    BY <1>1 DEF vars, LobbyInvariant, TypeOK, DocOK, Known, Members
  <1>2. ASSUME NEW r \in Requests, Steps(r) PROVE LobbyInvariant'
    BY <1>2, LookLockedStep, DropStep, CreateWatchStep, CreateLockStep, CreateExecStep,
       CreateWriteStep, DeleteLockedStep, DeleteKeyStep, DeleteWriteStep, LeaveLockedStep,
       LeaveKeyStep, LeaveWriteStep, JoinLockedStep, JoinKeyStep, JoinWriteStep,
       KickLockedStep, KickCheckStep, KickDropStep, KickKeyStep, KickWriteStep DEF Steps
  <1>3. ASSUME NEW r \in Requests, Die(r) PROVE LobbyInvariant'
    BY <1>3, AnswerStep DEF Die
  <1>4. QED
    BY <1>1, <1>2, <1>3, StartsStep, ExpireStep DEF Next

\* Every lobby has exactly one host at all times: its longest-standing member.
THEOREM HostsAreOldest == Spec => []HostIsOldest
  <1>1. LobbyInvariant => HostIsOldest
    <2> SUFFICES ASSUME LobbyInvariant, NEW l \in lobbies
                 PROVE  Members(l) # {} /\ hosts[l] = {Oldest(l, Members(l))}
      BY DEF HostIsOldest
    <2>1. TypeOK /\ l \in LobbyIds /\ DocOK(l) /\ Members(l) \in SUBSET Players
      BY DEF LobbyInvariant, TypeOK, Members
    <2>2. PICK h \in Members(l) :
              hosts[l] = {h} /\ \A q \in Members(l) : joined[l][h] <= joined[l][q]
      BY <2>1 DEF DocOK
    <2>3. /\ Oldest(l, Members(l)) \in Members(l)
          /\ joined[l][Oldest(l, Members(l))] <= joined[l][h]
      BY <2>1, <2>2, OldestIsOne
    <2>4. \A p \in Members(l) : joined[l][p] \in Nat
      BY <2>1, BoundAssumption DEF TypeOK
    <2>5. joined[l][Oldest(l, Members(l))] = joined[l][h]
      BY <2>2, <2>3, <2>4
    <2>6. Oldest(l, Members(l)) = h
      BY <2>1, <2>2, <2>3, <2>5 DEF DocOK
    <2>7. QED
      BY <2>2, <2>6
  <1>2. QED
    BY <1>1, LobbyInvariantInit, LobbyInvariantStep, PTL DEF Spec

\* A step that takes a member out of a lobby somebody has locked.
Removes(l, p) == p \in Members(l) /\ p \notin (Members(l))' /\ ~Free(l)
ByHostOrSelf(l, p) == LET q == req[lockedBy[l]].player IN q = p \/ IsHost(l, q)

LEMMA RemovalIsAWrite ==
    ASSUME LobbyInvariant, [Next]_vars, NEW l \in LobbyIds, NEW p \in Players, Removes(l, p)
    PROVE  \E r \in Requests : LeaveWrite(r) \/ DeleteWrite(r) \/ KickWrite(r)
                               \/ CreateWrite(r) \/ JoinWrite(r)
  <1>1. joined' # joined
    BY DEF Removes, Members
  <1>2. ASSUME NEW m \in LobbyIds, Expire(m) PROVE FALSE
    <2>1. m # l /\ joined'[l] = joined[l]
      BY <1>2 DEF Expire, RemoveLobby, Removes, LobbyInvariant, TypeOK
    <2>2. QED
      BY <2>1 DEF Removes, Members
  <1>3. ASSUME NEW r \in Requests, Starts(r) \/ Die(r) PROVE FALSE
    BY <1>1, <1>3 DEF Starts, StartGet, StartUpdate, StartCreate, StartDelete, StartLeave,
       StartJoin, StartKick, Start, Die, Answer, store
  <1>4. ASSUME NEW r \in Requests, Steps(r)
        PROVE  LeaveWrite(r) \/ DeleteWrite(r) \/ KickWrite(r)
               \/ CreateWrite(r) \/ JoinWrite(r)
    BY <1>1, <1>4 DEF Steps, LookLocked, Drop, CreateWatch, CreateLock, CreateExec,
       DeleteLocked, DeleteKey, LeaveLocked, LeaveKey, JoinLocked, JoinKey,
       KickLocked, KickCheck, KickDrop, KickKey, Answer, store, docs
  <1>5. QED
    BY <1>1, <1>2, <1>3, <1>4 DEF Next, vars

\* A write of r to another lobby removes nobody from l.
LEMMA WriteOfItsLobby ==
    ASSUME LobbyInvariant, NEW r \in Requests, req[r].pc \in Locked,
           NEW l \in LobbyIds, NEW p \in Players, Removes(l, p),
           \A m \in LobbyIds \ {req[r].lobby} : joined'[m] = joined[m]
    PROVE  req[r].lobby = l /\ lockedBy[l] = r
  <1>1. req[r].lobby = l
    BY DEF Removes, Members
  <1>2. QED
    BY <1>1, Knows

LEMMA RemovalByHostOrSelf ==
    ASSUME LobbyInvariant, [Next]_vars, NEW l \in LobbyIds, NEW p \in Players, Removes(l, p)
    PROVE  ByHostOrSelf(l, p)
  <1>1. PICK r \in Requests : LeaveWrite(r) \/ DeleteWrite(r) \/ KickWrite(r)
                              \/ CreateWrite(r) \/ JoinWrite(r)
    BY RemovalIsAWrite
  <1>2. PICK m \in LobbyIds, q \in Players :
            m = req[r].lobby /\ q = req[r].player /\ req[r].pc \in Locked
    BY <1>1, Knows DEF LeaveWrite, DeleteWrite, KickWrite, CreateWrite, JoinWrite,
       At, Local, Locked
  <1>3. m = l /\ lockedBy[l] = r
    <2>1. \A n \in LobbyIds \ {m} : joined'[n] = joined[n]
      BY <1>1, <1>2 DEF LeaveWrite, DeleteWrite, KickWrite, CreateWrite, JoinWrite,
         RemoveMember, RemoveLobby, AddMember, docs, LobbyInvariant, TypeOK
    <2>2. QED
      BY <1>2, <2>1, WriteOfItsLobby
  <1>4. TypeOK /\ DocOK(l) /\ (p \in Members(l) => l \in lobbies)
    BY DEF LobbyInvariant, DocOK
  <1>5. CASE hosts[l] = {q}
    BY <1>2, <1>3, <1>4, <1>5, HostIsHost DEF ByHostOrSelf, Removes
  <1>6. CASE LeaveWrite(r)
    <2>1. joined' = joined \/ joined' = [joined EXCEPT ![l][q] = 0] \/ Members(l) \ {q} = {}
      BY <1>2, <1>3, <1>6 DEF LeaveWrite, RemoveMember, docs
    <2>2. p = q
      BY <1>4, <2>1 DEF Removes, Members, TypeOK
    <2>3. QED
      BY <1>2, <1>3, <2>2 DEF ByHostOrSelf
  <1>7. CASE DeleteWrite(r) \/ KickWrite(r)
    BY <1>2, <1>3, <1>5, <1>7, Knows DEF DeleteWrite, KickWrite, At, Known
  <1>8. CASE CreateWrite(r) \/ JoinWrite(r)
    <2>1. joined' = [joined EXCEPT ![l][q] = clock[l] + 1] /\ clock[l] + 1 # 0
      BY <1>2, <1>3, <1>4, <1>8 DEF CreateWrite, JoinWrite, AddMember, TypeOK
    <2>2. QED
      BY <1>4, <2>1 DEF Removes, Members, TypeOK
  <1>9. QED
    BY <1>1, <1>6, <1>7, <1>8

\* Nobody is taken out of a lobby but by himself or by its host.
THEOREM OnlyHostsRemoveOthers == Spec => RemovedByHostOrSelf
  <1>1. LobbyInvariant /\ [Next]_vars =>
            [\A l \in LobbyIds, p \in Players :
                p \in Members(l) /\ p \notin (Members(l))' /\ ~Free(l)
                    => LET q == req[lockedBy[l]].player IN q = p \/ IsHost(l, q)]_vars
    BY RemovalByHostOrSelf DEF Removes, ByHostOrSelf
  <1>2. QED
    BY <1>1, LobbyInvariantInit, LobbyInvariantStep, PTL DEF Spec, RemovedByHostOrSelf

----------------------------------------------------------------------------
(* The players' keys, when every player has one request under way at a time *)
(* and nothing dies.                                                        *)

\* Where the document and the key of p disagree, because r is about to write the document.
InTransit(r, p) ==
    \/ req[r].pc \in {"leaveWrite", "joinWrite"} /\ p = req[r].player
    \/ req[r].pc = "kickWrite" /\ p = req[r].member
    \/ req[r].pc = "deleteKeys" /\ p \notin req[r].todo

\* What r found of the keys, or made of them, is still so.
KeysKnown(r) == LET l == req[r].lobby IN
    /\ req[r].pc \in {"createWatch", "createLock", "createExec", "joinKey"}
            => playerLobby[req[r].player] = None
    /\ req[r].pc \in {"createWrite", "joinWrite", "leaveKey", "drop", "kickCheck"}
            => playerLobby[req[r].player] = l
    /\ req[r].pc \in {"kickKey", "kickDrop"} => playerLobby[req[r].member] = l
    /\ req[r].pc = "leaveWrite" => playerLobby[req[r].player] # l
    /\ req[r].pc = "kickWrite" => playerLobby[req[r].member] # l
    /\ req[r].pc \in {"drop", "kickDrop"} => l \notin lobbies
    /\ req[r].pc = "deleteKeys" => req[r].todo \subseteq Members(l) \ hosts[l]

\* A lock is held by a request about the lobby.
LocksAreHeld ==
    \A l \in LobbyIds : lockedBy[l] # None =>
        req[lockedBy[l]].lobby = l /\ req[lockedBy[l]].pc \in Locked

OneEach == \A r, s \in Requests :
    r # s /\ req[r].player # None => req[r].player # req[s].player

KeysAgree ==
    \A l \in lobbies, p \in Players :
        \/ p \in Members(l) <=> playerLobby[p] = l
        \/ lockedBy[l] # None /\ InTransit(lockedBy[l], p)

\* Nobody's key names a lobby that is yet to come, but that of its creator.
KeysAreUsed ==
    \A p \in Players : playerLobby[p] \in used \cup {None} \/
        \E r \in Requests : /\ req[r].pc = "createWrite" /\ req[r].player = p
                            /\ req[r].lobby = playerLobby[p]

KeysInvariant ==
    /\ LocksAreHeld /\ OneEach /\ KeysAgree /\ KeysAreUsed
    /\ \A r \in Requests : KeysKnown(r)

LEMMA GotoFields ==
    ASSUME TypeOK, NEW r \in Requests, NEW pc, Goto(r, pc)
    PROVE  /\ req'[r].pc = pc /\ req'[r].player = req[r].player /\ req'[r].lobby = req[r].lobby
           /\ req'[r].member = req[r].member /\ req'[r].todo = req[r].todo
           /\ \A s \in Requests \ {r} : req'[s] = req[s]
  BY DEF TypeOK, Goto, Become, Request

LEMMA EndFields ==
    ASSUME TypeOK, NEW r \in Requests, End(r)
    PROVE  /\ req'[r].pc = "idle" /\ req'[r].player = None
           /\ \A s \in Requests \ {r} : req'[s] = req[s]
  BY DEF TypeOK, End, Become, Idle

\* Who holds a lock after one was taken, after one was given back, and otherwise.
LEMMA HeldWhenTaken ==
    ASSUME TypeOK, LocksAreHeld, NEW r \in Requests, NEW l \in LobbyIds, Acquire(r, l),
           req[r].pc \notin Locked, req'[r].pc \in Locked, req'[r].lobby = l,
           \A s \in Requests \ {r} : req'[s] = req[s]
    PROVE  LocksAreHeld' /\ \A m \in LobbyIds : lockedBy[m] \notin {None, r} => lockedBy'[m] = lockedBy[m]
  BY DEF TypeOK, LocksAreHeld, Acquire, Free

LEMMA HeldWhenReleased ==
    ASSUME TypeOK, LocksAreHeld, NEW r \in Requests, Release(r),
           \A s \in Requests \ {r} : req'[s] = req[s]
    PROVE  LocksAreHeld' /\ \A m \in LobbyIds : lockedBy[m] \notin {None, r} => lockedBy'[m] = lockedBy[m]
  BY DEF TypeOK, LocksAreHeld, Release

LEMMA HeldAsBefore ==
    ASSUME TypeOK, LocksAreHeld, NEW r \in Requests, UNCHANGED lockedBy,
           req[r].pc \in Locked => req'[r].pc \in Locked /\ req'[r].lobby = req[r].lobby,
           \A s \in Requests \ {r} : req'[s] = req[s]
    PROVE  LocksAreHeld' /\ \A m \in LobbyIds : lockedBy[m] \notin {None, r} => lockedBy'[m] = lockedBy[m]
  BY DEF TypeOK, LocksAreHeld

LEMMA OneEachStays ==
    ASSUME OneEach, NEW r \in Requests, \A s \in Requests \ {r} : req'[s] = req[s],
           \/ req'[r].player \in {req[r].player, None}
           \/ \A s \in Requests : req[s].player # req'[r].player
    PROVE  OneEach'
  <1> SUFFICES ASSUME NEW a \in Requests, NEW b \in Requests, a # b, req'[a].player # None
               PROVE  req'[a].player # req'[b].player
    BY DEF OneEach
  <1>1. CASE a = r
    BY <1>1 DEF OneEach
  <1>2. CASE b = r
    BY <1>2 DEF OneEach
  <1>3. CASE a # r /\ b # r
    BY <1>3 DEF OneEach
  <1>4. QED
    BY <1>1, <1>2, <1>3

\* A step that writes neither a key nor a document.
Quiet == {"idle", "get", "update", "createWatch", "createLock", "createExec", "delete", "leave",
          "join", "kick", "kickCheck"}

LEMMA QuietStep ==
    ASSUME LobbyInvariant, KeysInvariant, NEW r \in Requests, UNCHANGED <<docs, playerLobby>>,
           req[r].pc \in Quiet, KeysKnown(r)', LocksAreHeld',
           \A s \in Requests \ {r} : req'[s] = req[s],
           \A m \in LobbyIds : lockedBy[m] \notin {None, r} => lockedBy'[m] = lockedBy[m],
           \/ req'[r].player \in {req[r].player, None}
           \/ \A s \in Requests : req[s].player # req'[r].player
    PROVE  KeysInvariant'
  <1>1. OneEach'
    BY OneEachStays DEF KeysInvariant
  <1>2. ASSUME NEW l \in LobbyIds, NEW p, lockedBy[l] # None, InTransit(lockedBy[l], p)
        PROVE  lockedBy'[l] = lockedBy[l] /\ InTransit(lockedBy[l], p)'
    <2>1. lockedBy[l] \in Requests \ {r}
      BY <1>2, InvariantParts DEF InTransit, Quiet, TypeOK
    <2>2. QED
      BY <1>2, <2>1 DEF InTransit
  <1>3. KeysAgree'
    <2>1. \A l \in LobbyIds : (Members(l))' = Members(l)
      BY DEF docs, Members
    <2>2. \A l \in lobbies : l \in LobbyIds
      BY InvariantParts DEF TypeOK
    <2>3. QED
      BY <1>2, <2>1, <2>2 DEF KeysInvariant, KeysAgree, docs, InTransit
  <1>4. KeysAreUsed'
    <2>1. ASSUME NEW s \in Requests, req[s].pc = "createWrite" PROVE req'[s] = req[s]
      BY <2>1 DEF Quiet
    <2>2. QED
      BY <2>1 DEF KeysInvariant, KeysAreUsed, docs
  <1>5. ASSUME NEW s \in Requests PROVE KeysKnown(s)'
    <2>1. CASE s # r
      BY <2>1 DEF KeysInvariant, KeysKnown, docs, Members
    <2>2. QED
      BY <2>1
  <1>6. QED
    BY <1>1, <1>3, <1>4, <1>5 DEF KeysInvariant

LEMMA AnswerKeepsKeys ==
    ASSUME LobbyInvariant, KeysInvariant, NEW r \in Requests, Answer(r), req[r].pc \in Quiet
    PROVE  KeysInvariant'
  <1>1. /\ req'[r].pc = "idle" /\ req'[r].player = None
        /\ \A s \in Requests \ {r} : req'[s] = req[s]
    BY EndFields, InvariantParts DEF Answer
  <1>2. LocksAreHeld' /\ \A m \in LobbyIds : lockedBy[m] \notin {None, r} => lockedBy'[m] = lockedBy[m]
    BY <1>1, HeldWhenReleased, InvariantParts DEF Answer, KeysInvariant
  <1>3. KeysKnown(r)'
    BY <1>1 DEF KeysKnown
  <1>4. UNCHANGED <<docs, playerLobby>>
    BY DEF Answer, store, docs
  <1>5. QED
    BY <1>1, <1>2, <1>3, <1>4, QuietStep

\* A request goes on and takes the lock of its lobby, or keeps the one it has.
LEMMA EnterKeepsKeys ==
    ASSUME LobbyInvariant, KeysInvariant, NEW r \in Requests, NEW pc \in Locked, Goto(r, pc),
           UNCHANGED <<docs, playerLobby>>, req[r].pc \in Quiet, req[r].lobby \in LobbyIds,
           \/ req[r].pc \notin Locked /\ Acquire(r, req[r].lobby)
           \/ req[r].pc \in Locked /\ UNCHANGED lockedBy,
           req'[r].pc = pc => KeysKnown(r)'
    PROVE  KeysInvariant'
  <1>1. /\ req'[r].pc = pc /\ req'[r].player = req[r].player /\ req'[r].lobby = req[r].lobby
        /\ \A s \in Requests \ {r} : req'[s] = req[s]
    BY GotoFields, InvariantParts
  <1>2. LocksAreHeld' /\ \A m \in LobbyIds : lockedBy[m] \notin {None, r} => lockedBy'[m] = lockedBy[m]
    BY <1>1, HeldWhenTaken, HeldAsBefore, InvariantParts DEF KeysInvariant
  <1>3. QED
    BY <1>1, <1>2, QuietStep

\* A player who starts a request has no other.
LEMMA StartKeepsKeys ==
    ASSUME LobbyInvariant, KeysInvariant, ~Eager, NEW r \in Requests, NEW p, NEW l, NEW member,
           NEW pc \in Unlocked, Start(r, p, l, member, pc),
           pc = "createWatch" => playerLobby[p] = None, pc # "createLock"
    PROVE  KeysInvariant'
  <1>1. /\ req'[r].pc = pc /\ req'[r].player = p
        /\ \A s \in Requests \ {r} : req'[s] = req[s]
    BY InvariantParts DEF TypeOK, Start, Become, Idle
  <1>2. req[r].pc = "idle" /\ \A s \in Requests : req[s].player # p
    BY DEF Start, MayStart, At
  <1>3. UNCHANGED <<docs, playerLobby, lockedBy>>
    BY DEF Start, store, docs
  <1>4. LocksAreHeld'
    BY <1>1, <1>2, <1>3, HeldAsBefore, InvariantParts DEF KeysInvariant, Locked
  <1>5. KeysKnown(r)'
    BY <1>1, <1>3 DEF KeysKnown, Unlocked
  <1>6. QED
    BY <1>1, <1>2, <1>3, <1>4, <1>5, QuietStep DEF Quiet

LEMMA StartsKeepKeys ==
    ASSUME LobbyInvariant, KeysInvariant, ~Eager, NEW r \in Requests, Starts(r)
    PROVE  KeysInvariant'
  <1>1. \E p, l, member : \E pc \in Unlocked \ {"createLock"} :
            Start(r, p, l, member, pc) /\ (pc = "createWatch" => playerLobby[p] = None)
    BY DEF Starts, StartGet, StartUpdate, StartCreate, StartDelete, StartLeave, StartJoin,
       StartKick, Unlocked
  <1>2. QED
    BY <1>1, StartKeepsKeys

\* A request with the lock of l drops the key of p that names l, or gives one to its player.
LEMMA KeyStep ==
    ASSUME LobbyInvariant, KeysInvariant, NEW r \in Requests, NEW l \in LobbyIds, NEW p \in Players,
           NEW k \in {l, None}, req[r].lobby = l, req[r].pc \in Locked,
           playerLobby' = [playerLobby EXCEPT ![p] = k], UNCHANGED docs,
           \/ playerLobby[p] = l /\ k = None
           \/ playerLobby[p] = None /\ k = l /\ p = req[r].player /\ req'[r].pc \in {"createWrite", "joinWrite"},
           req[r].pc \notin {"createWrite", "joinWrite", "leaveWrite", "kickWrite"},
           KeysKnown(r)', LocksAreHeld',
           \A s \in Requests \ {r} : req'[s] = req[s],
           \A m \in LobbyIds : lockedBy[m] \notin {None, r} => lockedBy'[m] = lockedBy[m],
           req'[r].player \in {req[r].player, None},
           k = l => l \in used \/ (req'[r].pc = "createWrite" /\ req'[r].player = p /\ req'[r].lobby = l),
           l \in lobbies => /\ lockedBy'[l] = r /\ InTransit(r, p)'
                            /\ \A q \in Players : InTransit(r, q) => InTransit(r, q)'
    PROVE  KeysInvariant'
  <1>1. OneEach'
    BY OneEachStays DEF KeysInvariant
  <1>2. lockedBy[l] = r /\ playerLobby \in [Players -> LobbyIds \cup {None}] /\ None \notin LobbyIds
        /\ None \notin Requests /\ None \notin Players
    BY Knows, InvariantParts, NoneAssumption DEF TypeOK
  <1>3. /\ playerLobby'[p] = k /\ \A q \in Players \ {p} : playerLobby'[q] = playerLobby[q]
        /\ \A m \in LobbyIds \ {l} : playerLobby[p] # m /\ playerLobby'[p] # m
    BY <1>2
  <1>4. KeysAgree'
    <2> SUFFICES ASSUME NEW m \in lobbies, NEW q \in Players
                 PROVE  \/ q \in Members(m) <=> playerLobby'[q] = m
                        \/ (lockedBy[m] # None /\ InTransit(lockedBy[m], q))'
      BY DEF KeysAgree, docs, Members, InTransit
    <2>1. m \in LobbyIds /\ \/ q \in Members(m) <=> playerLobby[q] = m
                            \/ lockedBy[m] # None /\ InTransit(lockedBy[m], q)
      BY InvariantParts DEF TypeOK, KeysInvariant, KeysAgree
    <2>2. CASE m = l
      BY <1>2, <1>3, <2>1, <2>2
    <2>3. CASE m # l
      <3>1. lockedBy[m] # None => /\ lockedBy[m] \in Requests \ {r} /\ lockedBy'[m] = lockedBy[m]
                                  /\ (InTransit(lockedBy[m], q) => InTransit(lockedBy[m], q)')
        <4>1. lockedBy[m] # None => lockedBy[m] \in Requests \ {r}
          BY <2>1, <2>3, InvariantParts DEF TypeOK, KeysInvariant, LocksAreHeld
        <4>2. QED
          BY <2>1, <4>1 DEF InTransit
      <3>2. q \in Members(m) <=> playerLobby[q] = m
            => (q \in Members(m) <=> playerLobby'[q] = m)
        BY <1>3, <2>1, <2>3
      <3>3. QED
        BY <1>3, <2>1, <2>3, <3>1
    <2>4. QED
      BY <2>2, <2>3
  <1>5. KeysAreUsed'
    <2> SUFFICES ASSUME NEW q \in Players
                 PROVE  playerLobby'[q] \in used \cup {None} \/
                          \E s \in Requests : /\ req'[s].pc = "createWrite" /\ req'[s].player = q
                                              /\ req'[s].lobby = playerLobby'[q]
      BY DEF KeysAreUsed, docs
    <2>1. CASE q = p
      BY <1>3, <2>1
    <2>2. CASE q # p
      BY <1>3, <2>2 DEF KeysInvariant, KeysAreUsed
    <2>3. QED
      BY <2>1, <2>2
  <1>6. ASSUME NEW s \in Requests, s # r PROVE KeysKnown(s)'
    <2>1. KeysKnown(s) /\ req'[s] = req[s] /\ Local(req[s]) /\ (req[s].pc \in Locked => lockedBy[req[s].lobby] = s)
      BY <1>6, Knows DEF KeysInvariant
    <2>2. req[s].pc \in Locked => req[s].lobby \in LobbyIds \ {l}
      BY <1>2, <1>6, <2>1 DEF Local, Locked
    <2>3. k = l => req[s].player # p
      BY <1>2, <1>6 DEF KeysInvariant, OneEach
    <2>4. /\ req[s].pc # "idle" => req[s].player \in Players
          /\ req[s].pc \in {"kickKey", "kickDrop", "kickWrite"} => req[s].member \in Players
      BY <2>1 DEF Local
    <2>5. CASE req[s].pc \in {"createWatch", "createLock", "createExec", "joinKey"}
      <3>1. playerLobby'[req[s].player] = None
        BY <1>3, <2>1, <2>3, <2>4, <2>5 DEF KeysKnown
      <3>2. QED
        BY <2>1, <2>5, <3>1 DEF KeysKnown
    <2>6. CASE req[s].pc \in {"createWrite", "joinWrite", "leaveKey", "drop", "kickCheck"}
      <3>1. req[s].lobby \in LobbyIds \ {l}
        BY <2>2, <2>6 DEF Locked
      <3>2. playerLobby'[req[s].player] = req[s].lobby
        BY <1>3, <2>1, <2>4, <2>6, <3>1 DEF KeysKnown
      <3>3. QED
        BY <2>1, <2>6, <3>2 DEF KeysKnown, docs
    <2>7. CASE req[s].pc \in {"kickKey", "kickDrop"}
      <3>1. req[s].lobby \in LobbyIds \ {l}
        BY <2>2, <2>7 DEF Locked
      <3>2. playerLobby'[req[s].member] = req[s].lobby
        BY <1>3, <2>1, <2>4, <2>7, <3>1 DEF KeysKnown
      <3>3. QED
        BY <2>1, <2>7, <3>2 DEF KeysKnown, docs
    <2>8. CASE req[s].pc \in {"leaveWrite", "kickWrite"}
      <3>1. req[s].lobby \in LobbyIds \ {l}
        BY <2>2, <2>8 DEF Locked
      <3>2. /\ req[s].pc = "leaveWrite" => playerLobby'[req[s].player] # req[s].lobby
            /\ req[s].pc = "kickWrite" => playerLobby'[req[s].member] # req[s].lobby
        BY <1>3, <2>1, <2>4, <2>8, <3>1 DEF KeysKnown
      <3>3. QED
        BY <2>1, <2>8, <3>2 DEF KeysKnown
    <2>9. CASE req[s].pc \notin {"createWatch", "createLock", "createExec", "joinKey", "createWrite",
                                 "joinWrite", "leaveKey", "drop", "kickCheck", "kickKey", "kickDrop",
                                 "leaveWrite", "kickWrite"}
      BY <2>1, <2>9 DEF KeysKnown, docs, Members
    <2>10. QED
      BY <2>5, <2>6, <2>7, <2>8, <2>9
  <1>7. QED
    BY <1>1, <1>4, <1>5, <1>6 DEF KeysInvariant

\* A request with the lock of l makes the document agree with the keys.
LEMMA WriteKeepsKeys ==
    ASSUME LobbyInvariant, KeysInvariant, NEW r \in Requests, NEW l \in LobbyIds,
           req[r].lobby = l, req[r].pc \in Locked, DocFrame(l), End(r), Release(r),
           UNCHANGED playerLobby, used \subseteq used',
           req[r].pc = "createWrite" => l \in used',
           l \in lobbies' => \A p \in Players : p \in (Members(l))' <=> playerLobby[p] = l
    PROVE  KeysInvariant'
  <1>1. /\ req'[r].pc = "idle" /\ req'[r].player = None
        /\ \A s \in Requests \ {r} : req'[s] = req[s]
    BY EndFields, InvariantParts
  <1>2. LocksAreHeld' /\ \A m \in LobbyIds : lockedBy[m] \notin {None, r} => lockedBy'[m] = lockedBy[m]
    BY <1>1, HeldWhenReleased, InvariantParts DEF KeysInvariant
  <1>3. OneEach'
    BY <1>1, OneEachStays DEF KeysInvariant
  <1>4. KeysAgree'
    <2> SUFFICES ASSUME NEW m \in lobbies', NEW q \in Players
                 PROVE  \/ q \in (Members(m))' <=> playerLobby[q] = m
                        \/ (lockedBy[m] # None /\ InTransit(lockedBy[m], q))'
      BY DEF KeysAgree, InTransit
    <2>1. m \in LobbyIds
      BY DEF DocFrame
    <2>2. CASE m = l
      BY <2>2
    <2>3. CASE m # l
      <3>1. m \in lobbies /\ (Members(m))' = Members(m)
        BY <2>1, <2>3 DEF DocFrame, Members
      <3>2. \/ q \in Members(m) <=> playerLobby[q] = m
            \/ lockedBy[m] # None /\ InTransit(lockedBy[m], q)
        BY <3>1 DEF KeysInvariant, KeysAgree
      <3>3. lockedBy[m] # None => lockedBy[m] \in Requests \ {r}
        BY <2>1, <2>3, InvariantParts DEF TypeOK, KeysInvariant, LocksAreHeld
      <3>4. lockedBy[m] # None /\ InTransit(lockedBy[m], q)
            => (lockedBy[m] # None /\ InTransit(lockedBy[m], q))'
        BY <1>1, <1>2, <2>1, <3>3 DEF InTransit
      <3>5. QED
        BY <3>1, <3>2, <3>4
    <2>4. QED
      BY <2>2, <2>3
  <1>5. KeysAreUsed'
    <2> SUFFICES ASSUME NEW q \in Players
                 PROVE  playerLobby[q] \in used' \cup {None} \/
                          \E s \in Requests : /\ req'[s].pc = "createWrite" /\ req'[s].player = q
                                              /\ req'[s].lobby = playerLobby[q]
      BY DEF KeysAreUsed
    <2>1. CASE playerLobby[q] \in used \cup {None}
      BY <2>1
    <2>2. ASSUME NEW s \in Requests, req[s].pc = "createWrite", req[s].player = q,
                 req[s].lobby = playerLobby[q]
          PROVE  playerLobby[q] \in used' \cup {None} \/ req'[s] = req[s]
      BY <1>1, <2>2
    <2>3. QED
      BY <2>1, <2>2 DEF KeysInvariant, KeysAreUsed
  <1>6. ASSUME NEW s \in Requests PROVE KeysKnown(s)'
    <2>1. CASE s = r
      BY <1>1, <2>1 DEF KeysKnown
    <2>2. CASE s # r
      <3>1. KeysKnown(s) /\ req'[s] = req[s]
        BY <1>1, <2>2 DEF KeysInvariant
      <3>2. req[s].pc \in Locked => req[s].lobby \in LobbyIds \ {l}
        BY <2>2, Knows DEF Local, Locked
      <3>3. CASE req[s].pc \in {"drop", "kickDrop", "deleteKeys"}
        <4>1. req[s].lobby \in LobbyIds \ {l}
          BY <3>2, <3>3 DEF Locked
        <4>2. (Members(req[s].lobby))' = Members(req[s].lobby)
          BY <3>1, <4>1 DEF DocFrame, Members
        <4>3. QED
          BY <3>1, <3>3, <4>1, <4>2 DEF KeysKnown, DocFrame
      <3>4. CASE req[s].pc \notin {"drop", "kickDrop", "deleteKeys"}
        BY <3>1, <3>4 DEF KeysKnown
      <3>5. QED
        BY <3>3, <3>4
    <2>3. QED
      BY <2>1, <2>2
  <1>7. QED
    BY <1>2, <1>3, <1>4, <1>5, <1>6 DEF KeysInvariant

\* The requests that look at the keys under the lock, or are refused.
LEMMA LooksKeepKeys ==
    ASSUME LobbyInvariant, KeysInvariant, NEW r \in Requests,
           LookLocked(r) \/ LeaveLocked(r) \/ JoinLocked(r) \/ KickLocked(r)
    PROVE  KeysInvariant'
  <1>1. /\ req[r].pc \in Quiet /\ req[r].pc \notin Locked /\ req[r].lobby \in LobbyIds
        /\ req[r].player \in Players
    BY Knows DEF LookLocked, LeaveLocked, JoinLocked, KickLocked, At, Quiet, Locked, Local
  <1>2. CASE Answer(r)
    BY <1>1, <1>2, AnswerKeepsKeys
  <1>3. ASSUME NEW pc \in {"drop", "leaveKey", "joinKey", "kickCheck"},
               Goto(r, pc), Acquire(r, req[r].lobby), UNCHANGED store,
               pc # "joinKey" => StillIn(r),
               pc = "drop" => req[r].lobby \notin lobbies,
               pc = "joinKey" => playerLobby[req[r].player] = None
        PROVE  KeysInvariant'
    <2>1. req'[r].pc = pc => KeysKnown(r)'
      <3>1. req'[r].player = req[r].player /\ req'[r].lobby = req[r].lobby
        BY <1>3, GotoFields, InvariantParts
      <3>2. QED
        BY <1>3, <3>1 DEF KeysKnown, StillIn, store
    <2>2. QED
      BY <1>1, <1>3, <2>1, EnterKeepsKeys DEF store, docs, Locked
  <1>4. Free(req[r].lobby) /\ req[r].lobby \in lobbies =>
          (req[r].player \in Members(req[r].lobby) <=> playerLobby[req[r].player] = req[r].lobby)
    BY <1>1 DEF KeysInvariant, KeysAgree, Free
  <1>5. CASE LookLocked(r)
    <2>1. Answer(r) \/ /\ StillIn(r) /\ Stray(r) /\ Free(req[r].lobby)
                       /\ Acquire(r, req[r].lobby) /\ Goto(r, "drop") /\ UNCHANGED <<store, dirty>>
      BY <1>5 DEF LookLocked
    <2>2. Stray(r) => \/ req[r].lobby \notin lobbies
                      \/ req[r].player \notin Members(req[r].lobby)
      BY DEF Stray
    <2>3. QED
      BY <1>2, <1>3, <1>4, <2>1, <2>2 DEF StillIn
  <1>6. CASE LeaveLocked(r)
    BY <1>2, <1>3, <1>6 DEF LeaveLocked
  <1>7. CASE JoinLocked(r)
    <2>1. Answer(r) \/ /\ ~Elsewhere(r) /\ req[r].lobby \in lobbies
                       /\ req[r].player \notin Members(req[r].lobby) /\ Free(req[r].lobby)
                       /\ Acquire(r, req[r].lobby) /\ Goto(r, "joinKey") /\ UNCHANGED <<store, dirty>>
      BY <1>7 DEF JoinLocked
    <2>2. QED
      BY <1>2, <1>3, <1>4, <2>1 DEF Elsewhere
  <1>8. CASE KickLocked(r)
    BY <1>2, <1>3, <1>8 DEF KickLocked
  <1>9. QED
    BY <1>5, <1>6, <1>7, <1>8

LEMMA CreateKeepsKeys ==
    ASSUME LobbyInvariant, KeysInvariant, NEW r \in Requests, CreateWatch(r) \/ CreateLock(r)
    PROVE  KeysInvariant'
  <1>1. req[r].pc \in Quiet /\ req[r].pc \notin Locked /\ req[r].player \in Players
        /\ playerLobby[req[r].player] = None
    BY Knows DEF CreateWatch, CreateLock, At, Quiet, Locked, Local, KeysInvariant, KeysKnown
  <1>2. CASE Answer(r)
    BY <1>1, <1>2, AnswerKeepsKeys
  <1>3. CASE CreateWatch(r)
    <2>1. /\ req'[r].pc = "createLock" /\ req'[r].player = req[r].player
          /\ \A s \in Requests \ {r} : req'[s] = req[s]
      BY <1>3, GotoFields, InvariantParts DEF CreateWatch
    <2>2. UNCHANGED <<docs, playerLobby, lockedBy>>
      BY <1>3 DEF CreateWatch, store, docs
    <2>3. LocksAreHeld'
      BY <1>1, <2>1, <2>2, HeldAsBefore, InvariantParts DEF KeysInvariant
    <2>4. KeysKnown(r)'
      BY <1>1, <2>1, <2>2 DEF KeysKnown
    <2>5. QED
      BY <1>1, <2>1, <2>2, <2>3, <2>4, QuietStep
  <1>4. ASSUME NEW l \in LobbyIds, Acquire(r, l),
               Become(r, [req[r] EXCEPT !.pc = "createExec", !.lobby = l]),
               UNCHANGED <<store, dirty>>
        PROVE  KeysInvariant'
    <2>1. /\ req'[r].pc = "createExec" /\ req'[r].player = req[r].player /\ req'[r].lobby = l
          /\ \A s \in Requests \ {r} : req'[s] = req[s]
      BY <1>4, InvariantParts DEF TypeOK, Become, Request
    <2>2. UNCHANGED <<docs, playerLobby>>
      BY <1>4 DEF store, docs
    <2>3. LocksAreHeld' /\ \A m \in LobbyIds : lockedBy[m] \notin {None, r} => lockedBy'[m] = lockedBy[m]
      BY <1>1, <1>4, <2>1, HeldWhenTaken, InvariantParts DEF KeysInvariant, Locked
    <2>4. KeysKnown(r)'
      BY <1>1, <2>1, <2>2 DEF KeysKnown
    <2>5. QED
      BY <1>1, <2>1, <2>2, <2>3, <2>4, QuietStep
  <1>5. QED
    BY <1>2, <1>3, <1>4 DEF CreateLock

LEMMA DeleteLockedKeepsKeys ==
    ASSUME LobbyInvariant, KeysInvariant, NEW r \in Requests, DeleteLocked(r)
    PROVE  KeysInvariant'
  <1>1. req[r].pc \in Quiet /\ req[r].pc \notin Locked /\ req[r].lobby \in LobbyIds
    BY Knows DEF DeleteLocked, At, Quiet, Locked, Local
  <1>2. CASE Answer(r)
    BY <1>1, <1>2, AnswerKeepsKeys
  <1>3. CASE /\ Acquire(r, req[r].lobby) /\ UNCHANGED <<store, dirty>>
             /\ Become(r, [req[r] EXCEPT !.pc = "deleteKeys",
                                         !.todo = Members(req[r].lobby) \ hosts[req[r].lobby]])
    <2>1. /\ req'[r].pc = "deleteKeys" /\ req'[r].player = req[r].player
          /\ req'[r].lobby = req[r].lobby
          /\ req'[r].todo = Members(req[r].lobby) \ hosts[req[r].lobby]
          /\ \A s \in Requests \ {r} : req'[s] = req[s]
      BY <1>3, InvariantParts DEF TypeOK, Become, Request
    <2>2. UNCHANGED <<docs, playerLobby>>
      BY <1>3 DEF store, docs
    <2>3. LocksAreHeld' /\ \A m \in LobbyIds : lockedBy[m] \notin {None, r} => lockedBy'[m] = lockedBy[m]
      BY <1>1, <1>3, <2>1, HeldWhenTaken, InvariantParts DEF KeysInvariant, Locked
    <2>4. KeysKnown(r)'
      BY <2>1, <2>2 DEF KeysKnown, docs, Members
    <2>5. QED
      BY <1>1, <2>1, <2>2, <2>3, <2>4, QuietStep
  <1>4. QED
    BY <1>2, <1>3 DEF DeleteLocked

\* The requests that write a key.
LEMMA SetsTheKey ==
    ASSUME LobbyInvariant, KeysInvariant, NEW r \in Requests, NEW pc \in {"createWrite", "joinWrite"},
           req[r].pc \in {"createExec", "joinKey"}, SetKey(r, req[r].player, req[r].lobby),
           Goto(r, pc), UNCHANGED <<docs, lockedBy>>,
           pc = "joinWrite" <=> req[r].pc = "joinKey"
    PROVE  KeysInvariant'
  <1> PICK l \in LobbyIds, p \in Players : l = req[r].lobby /\ p = req[r].player
    BY Knows DEF Local
  <1>1. /\ req'[r].pc = pc /\ req'[r].player = p /\ req'[r].lobby = l
        /\ \A s \in Requests \ {r} : req'[s] = req[s]
    BY GotoFields, InvariantParts
  <1>2. req[r].pc \in Locked /\ req'[r].pc \in Locked
    BY <1>1 DEF Locked
  <1>3. LocksAreHeld' /\ \A m \in LobbyIds : lockedBy[m] \notin {None, r} => lockedBy'[m] = lockedBy[m]
    BY <1>1, <1>2, HeldAsBefore, InvariantParts DEF KeysInvariant
  <1>4. playerLobby[p] = None /\ playerLobby' = [playerLobby EXCEPT ![p] = l]
    BY DEF KeysInvariant, KeysKnown, SetKey
  <1>5. playerLobby'[p] = l
    BY <1>4, InvariantParts DEF TypeOK
  <1>6. KeysKnown(r)'
    BY <1>1, <1>5 DEF KeysKnown
  <1>7. /\ l \in used \/ pc = "createWrite"
        /\ l \in lobbies => pc = "joinWrite" /\ lockedBy'[l] = r
    BY <1>2, Knows, InvariantParts DEF Known, TypeOK
  <1>8. l \in lobbies => /\ lockedBy'[l] = r /\ InTransit(r, p)'
                         /\ \A q \in Players : InTransit(r, q) => InTransit(r, q)'
    BY <1>1, <1>7 DEF InTransit
  <1>9. QED
    BY <1>1, <1>2, <1>3, <1>4, <1>6, <1>7, <1>8, KeyStep

\* A key that names the lobby is dropped, and the request goes on.
LEMMA DropsTheKey ==
    ASSUME LobbyInvariant, KeysInvariant, NEW r \in Requests, NEW l \in LobbyIds, NEW p \in Players,
           req[r].lobby = l, DelKey(r, p), playerLobby[p] = l, UNCHANGED <<docs, lockedBy>>,
           req[r].pc \in {"leaveKey", "kickCheck", "kickKey", "deleteKeys"},
           req'[r].pc \in Locked, req'[r].player = req[r].player, req'[r].lobby = l,
           \A s \in Requests \ {r} : req'[s] = req[s],
           KeysKnown(r)', l \in lobbies => InTransit(r, p)',
           \A q \in Players : InTransit(r, q) => InTransit(r, q)'
    PROVE  KeysInvariant'
  <1>1. req[r].pc \in Locked
    BY DEF Locked
  <1>2. LocksAreHeld' /\ \A m \in LobbyIds : lockedBy[m] \notin {None, r} => lockedBy'[m] = lockedBy[m]
    BY <1>1, HeldAsBefore, InvariantParts DEF KeysInvariant
  <1>3. playerLobby' = [playerLobby EXCEPT ![p] = None] /\ lockedBy'[l] = r /\ None # l
    BY <1>1, Knows, NoneAssumption DEF DelKey, SetKey
  <1> PICK k : k = None
    OBVIOUS
  <1>4. k # l /\ playerLobby' = [playerLobby EXCEPT ![p] = k]
    BY <1>3
  <1>5. QED
    BY <1>1, <1>2, <1>3, <1>4, KeyStep

\* The end of a request about a lobby that is gone.
LEMMA DropsAStrayKey ==
    ASSUME LobbyInvariant, KeysInvariant, NEW r \in Requests, Drop(r) \/ KickDrop(r)
    PROVE  KeysInvariant'
  <1>1. PICK l \in LobbyIds, p \in Players :
            /\ l = req[r].lobby /\ DelKey(r, p) /\ playerLobby[p] = l /\ l \notin lobbies
    BY Knows DEF Local, KeysInvariant, KeysKnown, Drop, KickDrop, At
  <1>2. /\ req[r].pc \in {"drop", "kickDrop"} /\ req[r].pc \in Locked
        /\ Release(r) /\ End(r) /\ UNCHANGED docs
    BY DEF Drop, KickDrop, At, Locked
  <1>3. /\ req'[r].pc = "idle" /\ req'[r].player = None
        /\ \A s \in Requests \ {r} : req'[s] = req[s]
    BY <1>2, EndFields, InvariantParts
  <1>4. LocksAreHeld' /\ \A m \in LobbyIds : lockedBy[m] \notin {None, r} => lockedBy'[m] = lockedBy[m]
    BY <1>2, <1>3, HeldWhenReleased, InvariantParts DEF KeysInvariant
  <1>5. playerLobby' = [playerLobby EXCEPT ![p] = None] /\ None # l
    BY <1>1, NoneAssumption DEF DelKey, SetKey
  <1>6. KeysKnown(r)'
    BY <1>3 DEF KeysKnown
  <1> PICK k : k = None
    OBVIOUS
  <1>7. k # l /\ playerLobby' = [playerLobby EXCEPT ![p] = k]
    BY <1>5
  <1>8. QED
    BY <1>1, <1>2, <1>3, <1>4, <1>6, <1>7, KeyStep

LEMMA LeaveKeyKeepsKeys ==
    ASSUME LobbyInvariant, KeysInvariant, NEW r \in Requests, LeaveKey(r) \/ KickKey(r)
    PROVE  KeysInvariant'
  <1>1. PICK l \in LobbyIds, p \in Players :
            /\ l = req[r].lobby /\ DelKey(r, p) /\ playerLobby[p] = l
            /\ req[r].pc = "leaveKey" => p = req[r].player
            /\ req[r].pc = "kickKey" => p = req[r].member
    BY Knows DEF Local, KeysInvariant, KeysKnown, LeaveKey, KickKey, KickedPlayer, At
  <1>2. PICK pc \in {"leaveWrite", "kickWrite"} :
            /\ Goto(r, pc) /\ req[r].pc \in {"leaveKey", "kickKey"}
            /\ pc = "leaveWrite" <=> req[r].pc = "leaveKey"
    BY DEF LeaveKey, KickKey, At
  <1>3. /\ req'[r].pc = pc /\ req'[r].player = req[r].player /\ req'[r].lobby = l
        /\ req'[r].member = req[r].member
        /\ \A s \in Requests \ {r} : req'[s] = req[s]
    BY <1>1, <1>2, GotoFields, InvariantParts
  <1>4. playerLobby'[p] = None /\ None # l
    BY <1>1, InvariantParts, NoneAssumption DEF DelKey, SetKey, TypeOK
  <1>5. KeysKnown(r)'
    BY <1>1, <1>2, <1>3, <1>4 DEF KeysKnown
  <1>6. InTransit(r, p)' /\ \A q \in Players : ~InTransit(r, q)
    BY <1>1, <1>2, <1>3 DEF InTransit
  <1>7. QED
    BY <1>1, <1>2, <1>3, <1>5, <1>6, DropsTheKey DEF LeaveKey, KickKey, Locked

LEMMA DeleteKeyKeepsKeys ==
    ASSUME LobbyInvariant, KeysInvariant, NEW r \in Requests, DeleteKey(r)
    PROVE  KeysInvariant'
  <1>1. /\ req[r].pc = "deleteKeys" /\ req[r].lobby \in LobbyIds /\ req[r].todo \in SUBSET Players
        /\ req[r].lobby \in lobbies /\ lockedBy[req[r].lobby] = r
        /\ req[r].todo \subseteq Members(req[r].lobby) \ hosts[req[r].lobby]
    BY Knows, InvariantParts DEF DeleteKey, At, Local, Known, Locked, TypeOK, Request,
       KeysInvariant, KeysKnown
  <1> PICK l : l = req[r].lobby
    OBVIOUS
  <1>2. PICK p \in req[r].todo : /\ DelKey(r, p)
                                 /\ Become(r, [req[r] EXCEPT !.todo = req[r].todo \ {p}])
    BY <1>1, OldestIsOne, InvariantParts DEF DeleteKey
  <1>3. playerLobby[p] = l
    BY <1>1, <1>2, NoneAssumption DEF KeysInvariant, KeysAgree, InTransit
  <1>4. /\ req'[r].pc = "deleteKeys" /\ req'[r].player = req[r].player /\ req'[r].lobby = l
        /\ req'[r].todo = req[r].todo \ {p}
        /\ \A s \in Requests \ {r} : req'[s] = req[s]
    BY <1>1, <1>2, InvariantParts DEF TypeOK, Become, Request
  <1>5. KeysKnown(r)'
    BY <1>1, <1>4 DEF KeysKnown, DeleteKey, docs, Members
  <1>6. InTransit(r, p)' /\ \A q \in Players : InTransit(r, q) => InTransit(r, q)'
    BY <1>1, <1>4 DEF InTransit
  <1>7. QED
    BY <1>1, <1>2, <1>3, <1>4, <1>5, <1>6, DropsTheKey DEF DeleteKey, Locked

LEMMA KickCheckKeepsKeys ==
    ASSUME LobbyInvariant, KeysInvariant, NEW r \in Requests, KickCheck(r)
    PROVE  KeysInvariant'
  <1>1. /\ req[r].pc = "kickCheck" /\ req[r].pc \in Quiet /\ req[r].pc \in Locked
        /\ req[r].player \in Players /\ req[r].lobby \in LobbyIds
        /\ req[r].member \in Players \ {req[r].player}
        /\ playerLobby[req[r].player] = req[r].lobby
    BY Knows DEF KickCheck, At, Local, Quiet, Locked, KeysInvariant, KeysKnown
  <1>2. CASE Answer(r)
    BY <1>1, <1>2, AnswerKeepsKeys
  <1>3. CASE SameLobby(r) /\ Goto(r, "kickKey") /\ UNCHANGED <<store, lockedBy, dirty>>
    <2>1. req'[r].pc = "kickKey" => KeysKnown(r)'
      <3>1. req'[r].member = req[r].member /\ req'[r].lobby = req[r].lobby
        BY <1>3, GotoFields, InvariantParts
      <3>2. QED
        BY <1>3, <3>1 DEF KeysKnown, SameLobby, store
    <2>2. QED
      BY <1>1, <1>3, <2>1, EnterKeepsKeys DEF store, docs, Locked
  <1>4. CASE /\ SameLobby(r) /\ req[r].lobby \notin lobbies
             /\ DelKey(r, req[r].player) /\ Goto(r, "kickDrop") /\ UNCHANGED <<docs, lockedBy>>
    <2>1. /\ req'[r].pc = "kickDrop" /\ req'[r].player = req[r].player
          /\ req'[r].lobby = req[r].lobby /\ req'[r].member = req[r].member
          /\ \A s \in Requests \ {r} : req'[s] = req[s]
      BY <1>4, GotoFields, InvariantParts
    <2>2. playerLobby'[req[r].member] = req[r].lobby
      BY <1>1, <1>4, InvariantParts DEF SameLobby, DelKey, SetKey, TypeOK
    <2>3. KeysKnown(r)' /\ \A q \in Players : ~InTransit(r, q)
      BY <1>1, <1>4, <2>1, <2>2 DEF KeysKnown, docs, InTransit
    <2>4. QED
      BY <1>1, <1>4, <2>1, <2>3, DropsTheKey DEF Locked
  <1>5. QED
    BY <1>2, <1>3, <1>4 DEF KickCheck

\* The requests that write a document.
LEMMA WritesKeepKeys ==
    ASSUME LobbyInvariant, KeysInvariant, NEW r \in Requests,
           CreateWrite(r) \/ JoinWrite(r) \/ DeleteWrite(r) \/ LeaveWrite(r) \/ KickWrite(r)
    PROVE  KeysInvariant'
  <1>1. /\ req[r].pc \in {"createWrite", "joinWrite", "deleteKeys", "leaveWrite", "kickWrite"}
        /\ req[r].pc \in Locked
        /\ End(r) /\ Release(r) /\ UNCHANGED playerLobby
    BY DEF CreateWrite, JoinWrite, DeleteWrite, LeaveWrite, KickWrite, At, Locked
  <1>2. PICK l \in LobbyIds, p \in Players : l = req[r].lobby /\ p = req[r].player
    BY <1>1, Knows DEF Local
  <1>3. lockedBy[l] = r /\ TypeOK /\ DocOK(l) /\ Known(r) /\ KeysKnown(r)
    BY <1>1, <1>2, Knows DEF LobbyInvariant, KeysInvariant
  <1>4. ASSUME NEW q \in Players, l \in lobbies, ~InTransit(r, q)
        PROVE  q \in Members(l) <=> playerLobby[q] = l
    BY <1>3, <1>4, NoneAssumption DEF KeysInvariant, KeysAgree
  <1>5. CASE CreateWrite(r)
    <2>1. l \notin used /\ l \notin lobbies /\ Members(l) = {} /\ playerLobby[p] = l
      BY <1>2, <1>3, <1>5 DEF CreateWrite, At, Known, TypeOK, DocOK, KeysKnown
    <2>2. DocFrame(l) /\ (Members(l))' = {p} /\ used' = used \cup {l}
      <3>1. AddMember(l, p, TRUE)
        BY <1>2, <1>5 DEF CreateWrite
      <3>2. DocFrame(l)
        BY <2>1, <3>1, AddMemberOK
      <3>3. clock[l] + 1 # 0 /\ joined'[l] = [joined[l] EXCEPT ![p] = clock[l] + 1]
        BY <1>3, <3>1, BoundAssumption DEF AddMember, TypeOK
      <3>4. QED
        BY <1>3, <2>1, <3>1, <3>2, <3>3 DEF Members, AddMember, TypeOK
    <2>3. ASSUME NEW q \in Players, q # p PROVE playerLobby[q] # l
      <3>1. SUFFICES ASSUME playerLobby[q] = l PROVE FALSE
        OBVIOUS
      <3>2. PICK s \in Requests : req[s].pc = "createWrite" /\ req[s].player = q /\ req[s].lobby = l
        BY <2>1, <3>1, NoneAssumption DEF KeysInvariant, KeysAreUsed
      <3>3. s = r
        BY <1>3, <3>2, Knows DEF Locked
      <3>4. QED
        BY <1>2, <2>3, <3>2, <3>3
    <2>4. QED
      BY <1>1, <1>2, <2>1, <2>2, <2>3, WriteKeepsKeys
  <1>6. CASE JoinWrite(r)
    <2>1. l \in lobbies /\ p \notin Members(l) /\ playerLobby[p] = l /\ AddMember(l, p, FALSE)
      BY <1>2, <1>3, <1>6 DEF JoinWrite, At, Known, KeysKnown
    <2>2. DocFrame(l) /\ (Members(l))' = Members(l) \cup {p} /\ used \subseteq used'
      <3>1. DocFrame(l)
        BY <2>1, AddMemberOK
      <3>2. clock[l] + 1 # 0 /\ joined'[l] = [joined[l] EXCEPT ![p] = clock[l] + 1]
        BY <1>3, <2>1, BoundAssumption DEF AddMember, TypeOK
      <3>3. QED
        BY <1>3, <2>1, <3>1, <3>2 DEF Members, AddMember, TypeOK
    <2>3. \A q \in Players \ {p} : ~InTransit(r, q)
      BY <1>2, <1>6 DEF InTransit, JoinWrite, At
    <2>4. QED
      BY <1>1, <1>2, <1>4, <1>6, <2>1, <2>2, <2>3, WriteKeepsKeys DEF JoinWrite, At
  <1>7. CASE RemoveLobby(l)
    <2>1. DocFrame(l) /\ l \notin lobbies' /\ used' = used
      BY <1>7, RemoveLobbyOK DEF RemoveLobby
    <2>2. req[r].pc # "createWrite"
      BY <1>2, <1>3, <1>7, <2>1 DEF CreateWrite, JoinWrite, AddMember, DeleteWrite, LeaveWrite, KickWrite, At
    <2>3. QED
      BY <1>1, <1>2, <2>1, <2>2, WriteKeepsKeys
  <1>8. CASE LeaveWrite(r)
    <2>1. /\ playerLobby[p] # l /\ req[r].pc = "leaveWrite"
          /\ \A q \in Players \ {p} : ~InTransit(r, q)
      BY <1>2, <1>3, <1>8 DEF InTransit, LeaveWrite, At, KeysKnown
    <2>2. CASE p \notin Members(l) /\ UNCHANGED docs
      <3>1. DocFrame(l) /\ used' = used /\ lobbies' = lobbies /\ (Members(l))' = Members(l)
        BY <1>3, <2>2 DEF docs, DocFrame, TypeOK, Members
      <3>2. QED
        BY <1>1, <1>2, <1>4, <2>1, <2>2, <3>1, WriteKeepsKeys
    <2>3. CASE p \in Members(l) /\ RemoveMember(l, p, HostsWithout(l, p, Members(l) \ {p}))
               /\ Members(l) \ {p} # {}
      <3>1. l \in lobbies
        BY <1>3, <2>3 DEF DocOK
      <3>2. DocFrame(l)
        BY <2>3, <3>1, SuccessorIsOldest, RemoveMemberOK
      <3>3. (Members(l))' = Members(l) \ {p} /\ used' = used
        BY <1>3, <2>3 DEF RemoveMember, Members, TypeOK
      <3>4. QED
        BY <1>1, <1>2, <1>4, <2>1, <3>1, <3>2, <3>3, WriteKeepsKeys
    <2>4. QED
      BY <1>2, <1>7, <1>8, <2>2, <2>3 DEF LeaveWrite
  <1>9. CASE KickWrite(r)
    <2> DEFINE m == req[r].member
    <2>1. /\ m \in Players /\ playerLobby[m] # l /\ req[r].pc = "kickWrite"
          /\ l \in lobbies /\ hosts[l] = {p} /\ m # p
          /\ \A q \in Players \ {m} : ~InTransit(r, q)
      BY <1>2, <1>3, <1>9, Knows DEF InTransit, KickWrite, At, KeysKnown, Known, Local
    <2>2. CASE m \notin Members(l) /\ UNCHANGED docs
      <3>1. DocFrame(l) /\ used' = used /\ lobbies' = lobbies /\ (Members(l))' = Members(l)
        BY <1>3, <2>2 DEF docs, DocFrame, TypeOK, Members
      <3>2. QED
        BY <1>1, <1>2, <1>4, <2>1, <2>2, <3>1, WriteKeepsKeys
    <2>3. CASE m \in Members(l) /\ RemoveMember(l, m, hosts[l] \ {m})
      <3>1. PICK h \in Members(l) :
                hosts[l] = {h} /\ \A x \in Members(l) : joined[l][h] <= joined[l][x]
        BY <1>3, <2>1 DEF DocOK
      <3>2. h = p /\ hosts[l] \ {m} = {h}
        BY <2>1, <3>1
      <3>3. DocFrame(l)
        BY <2>1, <2>3, <3>1, <3>2, RemoveMemberOK
      <3>4. (Members(l))' = Members(l) \ {m} /\ used' = used
        BY <1>3, <2>1, <2>3 DEF RemoveMember, Members, TypeOK
      <3>5. QED
        BY <1>1, <1>2, <1>4, <2>1, <3>3, <3>4, WriteKeepsKeys
    <2>4. QED
      BY <1>2, <1>9, <2>2, <2>3 DEF KickWrite
  <1>10. QED
    BY <1>2, <1>5, <1>6, <1>7, <1>8, <1>9 DEF DeleteWrite

LEMMA CreateExecKeepsKeys ==
    ASSUME LobbyInvariant, KeysInvariant, NEW r \in Requests, CreateExec(r) \/ JoinKey(r)
    PROVE  KeysInvariant'
  <1>1. CASE Answer(r) /\ CreateExec(r)
    BY <1>1, AnswerKeepsKeys DEF CreateExec, At, Quiet
  <1>2. CASE JoinKey(r)
    BY <1>2, SetsTheKey DEF JoinKey, At
  <1>3. CASE /\ CreateExec(r) /\ SetKey(r, req[r].player, req[r].lobby)
             /\ Goto(r, "createWrite") /\ UNCHANGED <<docs, lockedBy>>
    BY <1>3, SetsTheKey DEF CreateExec, At
  <1>4. QED
    BY <1>1, <1>2, <1>3 DEF CreateExec

LEMMA KeysStart == Init => KeysInvariant
  <1> SUFFICES ASSUME Init PROVE KeysInvariant
    OBVIOUS
  <1>1. \A r \in Requests : req[r].pc = "idle" /\ req[r].player = None
    BY DEF Init, Idle
  <1>2. QED
    BY <1>1 DEF Init, KeysInvariant, LocksAreHeld, OneEach, KeysAgree, KeysAreUsed, KeysKnown

LEMMA KeysStep ==
    ASSUME ~Eager, ~Faults, LobbyInvariant, KeysInvariant, [Next]_vars
    PROVE  KeysInvariant'
  <1>1. CASE UNCHANGED vars
    BY <1>1 DEF vars, KeysInvariant, LocksAreHeld, OneEach, KeysAgree, KeysAreUsed, KeysKnown,
       InTransit, Members
  <1>2. ASSUME NEW r \in Requests, Steps(r) PROVE KeysInvariant'
    BY <1>2, LooksKeepKeys, CreateKeepsKeys, DeleteLockedKeepsKeys, DropsAStrayKey,
       LeaveKeyKeepsKeys, DeleteKeyKeepsKeys, KickCheckKeepsKeys, WritesKeepKeys,
       CreateExecKeepsKeys DEF Steps
  <1>3. QED
    BY <1>1, <1>2, StartsKeepKeys DEF Next, Die, Expire

\* When nobody has the lock of a lobby, its members are those whose key names it.
LEMMA KeysAreMemberships ==
    ASSUME LobbyInvariant, KeysInvariant, NEW l \in lobbies, NEW p \in Players, Free(l)
    PROVE  p \in Members(l) <=> playerLobby[p] = l
  BY DEF Free, KeysInvariant, KeysAgree

\* A member of a lobby has its key, hence is a member of no other, when every player has
\* one request under way at a time and none dies: keys are written round trips away from
\* the document, under its lock (lobbies.py:295, 420, 451, 499 and 662).
THEOREM MembersHaveTheKey ==
    ASSUME ~Eager, ~Faults
    PROVE  Spec => []MemberOfOne
  <1>1. LobbyInvariant /\ KeysInvariant => MemberOfOne
    BY KeysAreMemberships DEF MemberOfOne
  <1>2. LobbyInvariant /\ KeysInvariant /\ [Next]_vars => KeysInvariant'
    BY KeysStep
  <1>3. QED
    BY <1>1, <1>2, KeysStart, LobbyInvariantInit, LobbyInvariantStep, PTL DEF Spec

\* A player whose key names a lobby is its member, under the same assumptions
\* (lobbies.py:97-139, 451 and 499).
THEOREM KeysNameLobbies ==
    ASSUME ~Eager, ~Faults
    PROVE  Spec => []KeyNamesMember
  <1>1. LobbyInvariant /\ KeysInvariant => KeyNamesMember
    BY KeysAreMemberships DEF KeyNamesMember
  <1>2. LobbyInvariant /\ KeysInvariant /\ [Next]_vars => KeysInvariant'
    BY KeysStep
  <1>3. QED
    BY <1>1, <1>2, KeysStart, LobbyInvariantInit, LobbyInvariantStep, PTL DEF Spec

\* What a request found under the lock of a lobby is so until it gives the lock back, with
\* any number of requests of a player and with deaths and expiry anywhere
\* (lobbies.py:41, 105, 169, 410, 474, 598 and 666).
THEOREM LocksKeepWhatWasFound == Spec => []LobbyInvariant
  BY LobbyInvariantInit, LobbyInvariantStep, PTL DEF Spec

=============================================================================
