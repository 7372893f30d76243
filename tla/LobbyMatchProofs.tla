--------------------------- MODULE LobbyMatchProofs ---------------------------
(****************************************************************************)
(* A start of a match never replaces a pending placement of its player, and *)
(* the lobby shows the status of its latest placement: for any number of    *)
(* players, parties, requests and placements, with placements stopped and   *)
(* lobbies deleted at any moment, as long as no lease runs out under its    *)
(* owner.  The second needs events that are delivered once: a late second   *)
(* delivery shows the lobby an older placement (TLC finds it).              *)
(****************************************************************************)
EXTENDS LobbyMatch, TLAPS

----------------------------------------------------------------------------
(* Requests.                                                                *)

ReqTyped == req \in [Requests -> Request]

\* The locals of the other requests stay what they are.
OthersStay(r) == \A s \in Requests \ {r} : req'[s] = req[s]

\* Every local but the place stays.
SameLocals(r) ==
    /\ req'[r].player = req[r].player /\ req'[r].id = req[r].id
    /\ req'[r].existing = req[r].existing /\ req'[r].forLobby = req[r].forLobby
    /\ req'[r].group = req[r].group /\ req'[r].held = req[r].held
    /\ req'[r].outcome = req[r].outcome

LEMMA IdleTyped == Idle \in Request /\ Idle.pc = "idle" /\ Idle.existing = NoPlacement
  BY DEF Idle, Request, PCs, NoPlacement

LEMMA BecomeOne ==
    ASSUME ReqTyped, NEW r \in Requests, NEW x \in Request, Become(r, x)
    PROVE  ReqTyped' /\ req'[r] = x /\ OthersStay(r)
  BY DEF ReqTyped, Become, OthersStay

LEMMA GotoOne ==
    ASSUME ReqTyped, NEW r \in Requests, NEW pc \in PCs, Goto(r, pc)
    PROVE  ReqTyped' /\ req'[r].pc = pc /\ SameLocals(r) /\ OthersStay(r)
  <1> DEFINE x == [req[r] EXCEPT !.pc = pc]
  <1>1. /\ x \in Request /\ x.pc = pc /\ x.player = req[r].player /\ x.id = req[r].id
        /\ x.existing = req[r].existing /\ x.forLobby = req[r].forLobby
        /\ x.group = req[r].group /\ x.held = req[r].held /\ x.outcome = req[r].outcome
    BY DEF ReqTyped, Request
  <1>2. Become(r, x)
    BY DEF Goto
  <1> HIDE DEF x
  <1>3. QED
    BY <1>1, <1>2, BecomeOne DEF SameLocals

LEMMA EndOne ==
    ASSUME ReqTyped, NEW r \in Requests, End(r)
    PROVE  ReqTyped' /\ req'[r].pc = "idle" /\ req'[r].existing = NoPlacement /\ OthersStay(r)
  BY IdleTyped, BecomeOne DEF End

----------------------------------------------------------------------------
(* Types.                                                                   *)

\* The documents and the locks have their types.
StoreTyped == 
    /\ lobby \in [status : {"idle", "starting", "started", "gone"} \cup Outcomes,
                  placement : Ids \cup {NoPlacement}, connected : BOOLEAN]
    /\ placement \in [Ids -> [status : {"none", "pending"} \cup Outcomes,
                              player : Players \cup {None}, forLobby : BOOLEAN]]
    /\ playerPlacement \in [Players -> Ids \cup {NoPlacement}]
    /\ gamelift \in [Ids -> {"unknown", "pending", "stopping", "done"} \cup Outcomes]
    /\ asked \in 0..MaxPlacements
    /\ lobbyLock \in Requests \cup {None}
    /\ placementLock \in [Ids -> Requests \cup {None}]
    /\ playerLock \in [Players -> Requests \cup {None}]

LEMMA TypeParts == TypeOK <=> StoreTyped /\ ReqTyped
  BY DEF TypeOK, StoreTyped, ReqTyped

LEMMA FreeTyped ==
    ASSUME StoreTyped, NEW r \in Requests
    PROVE  /\ FreeLobby(r) => lobbyLock' \in Requests \cup {None}
           /\ FreePlacements(r) => placementLock' \in [Ids -> Requests \cup {None}]
           /\ FreePlayers(r) => playerLock' \in [Players -> Requests \cup {None}]
  BY DEF StoreTyped, FreeLobby, FreePlacements, FreePlayers

----------------------------------------------------------------------------
(* What a step must keep.                                                   *)

\* The conjuncts of the invariant that are about r.
Own(r) ==
    /\ req[r].pc \in {"event", "eventLobby", "eventWrite"} => req[r].outcome \in Outcomes
    /\ Starting(r) => /\ req[r].player \in req[r].group
                      /\ \A p \in req[r].held : playerLock[p] = r
    /\ req[r].pc = "ask" \/ Unsaved(r) => req[r].group = req[r].held
    /\ req[r].existing <= asked
    /\ Unsaved(r) =>
        /\ req[r].id \in 1..asked
        /\ \A p \in Players : playerPlacement[p] # req[r].id
        /\ \A s \in Requests : req[s].existing # req[r].id
        /\ \A s \in Requests : Unsaved(s) /\ req[s].id = req[r].id => s = r
    /\ req[r].pc \in {"lobby", "players", "ask", "recheck", "save"}
            /\ req[r].existing # NoPlacement
          => placement[req[r].existing].status # "pending"
    /\ At(r, "save") => playerPlacement[req[r].player] \in {req[r].existing, NoPlacement}

LEMMA InvariantParts ==
    StartInvariant <=> /\ StoreTyped /\ ReqTyped
                       /\ \A p \in Players : playerPlacement[p] <= asked
                       /\ \A r \in Requests : Own(r)
  <1>1. StartInvariant => \A r \in Requests : Own(r)
    BY DEF StartInvariant, EventsDecided, LocksHeld, UnsavedIsUnknown, CheckedStays, Own
  <1>2. ASSUME \A r \in Requests : Own(r), \A p \in Players : playerPlacement[p] <= asked
        PROVE  EventsDecided /\ LocksHeld /\ UnsavedIsUnknown /\ CheckedStays
    BY <1>2 DEF EventsDecided, LocksHeld, UnsavedIsUnknown, CheckedStays, Own
  <1>3. QED
    BY <1>1, <1>2, TypeParts DEF StartInvariant, UnsavedIsUnknown

LEMMA InvariantPartsNext ==
    ASSUME StoreTyped', ReqTyped', \A p \in Players : playerPlacement'[p] <= asked',
           \A r \in Requests : Own(r)'
    PROVE  StartInvariant'
  <1>1. TypeOK'
    BY DEF TypeOK, StoreTyped, ReqTyped
  <1>2. EventsDecided' /\ LocksHeld'
    BY DEF EventsDecided, LocksHeld, Own
  <1>3. UnsavedIsUnknown'
    BY DEF UnsavedIsUnknown, Own
  <1>4. CheckedStays'
    BY DEF CheckedStays, Own
  <1>5. QED
    BY <1>1, <1>2, <1>3, <1>4 DEF StartInvariant

\* Players' keys are kept or deleted, no placement becomes pending, and no lock of
\* another request is touched.
LEMMA QuietForOthers ==
    ASSUME StartInvariant, NEW r \in Requests, OthersStay(r), StoreTyped', ReqTyped',
           \A p \in Players : playerPlacement'[p] \in {playerPlacement[p], NoPlacement},
           \A i \in Ids : placement'[i].status = "pending" => placement[i].status = "pending",
           asked' \in {asked, asked + 1},
           \A p \in Players : playerLock[p] \notin {None, r} => playerLock'[p] = playerLock[p],
           \A s \in Requests \ {r} : Unsaved(s) =>
                /\ req'[r].existing # req[s].id
                /\ Unsaved(r)' => req'[r].id # req[s].id,
           Own(r)'
    PROVE  StartInvariant'
  <1>1. asked \in Nat /\ asked' \in Nat /\ asked <= asked'
    BY BoundAssumption DEF StartInvariant, TypeOK
  <1>2. \A p \in Players : playerPlacement'[p] <= asked'
    BY <1>1, InvariantParts DEF StoreTyped, NoPlacement, Ids
  <1>3. ASSUME NEW s \in Requests \ {r} PROVE Own(s)'
    <2>1. Own(s) /\ req'[s] = req[s] /\ req[s] \in Request
      BY InvariantParts DEF OthersStay, ReqTyped
    <2> DEFINE x == req[s]
    <2>2. /\ x.player \in Players \cup {None} /\ x.id \in Ids \cup {NoPlacement}
          /\ x.existing \in Ids \cup {NoPlacement} /\ x.group \in SUBSET Players
          /\ x.held \in SUBSET Players
      BY <2>1 DEF Request
    <2>3. /\ Starting(s)' <=> Starting(s)
          /\ Unsaved(s)' <=> Unsaved(s)
          /\ At(s, "save")' <=> At(s, "save")
      BY <2>1 DEF Starting, Unsaved, At
    <2>4. ASSUME Starting(s) PROVE \A p \in x.held : playerLock'[p] = s
      BY <2>1, <2>2, <2>4, NoneAssumption DEF Own
    <2>5. x.existing <= asked'
      BY <1>1, <2>1, <2>2 DEF Own, Ids, NoPlacement
    <2>6. ASSUME Unsaved(s)
          PROVE  /\ x.id \in 1..asked'
                 /\ \A p \in Players : playerPlacement'[p] # x.id
                 /\ \A t \in Requests : req'[t].existing # x.id
                 /\ \A t \in Requests : Unsaved(t)' /\ req'[t].id = x.id => t = s
      <3>1. x.id \in 1..asked' /\ x.id # NoPlacement
        BY <1>1, <2>1, <2>6 DEF Own, NoPlacement
      <3>2. \A p \in Players : playerPlacement'[p] # x.id
        BY <2>1, <2>6, <3>1 DEF Own
      <3>3. \A t \in Requests : req'[t].existing # x.id
        BY <2>1, <2>6 DEF Own, OthersStay
      <3>4. \A t \in Requests : Unsaved(t)' /\ req'[t].id = x.id => t = s
        BY <2>1, <2>6 DEF Own, OthersStay, Unsaved
      <3>5. QED
        BY <3>1, <3>2, <3>3, <3>4
    <2>7. ASSUME x.pc \in {"lobby", "players", "ask", "recheck", "save"},
                 x.existing # NoPlacement
          PROVE  placement'[x.existing].status # "pending"
      BY <2>1, <2>2, <2>7 DEF Own
    <2>8. ASSUME At(s, "save")
          PROVE  playerPlacement'[x.player] \in {x.existing, NoPlacement}
      <3>1. x.player \in Players
        BY <2>1, <2>2, <2>8 DEF Own, Starting, At
      <3>2. QED
        BY <2>1, <2>8, <3>1 DEF Own
    <2> HIDE DEF x
    <2>9. x.pc \in {"event", "eventLobby", "eventWrite"} => x.outcome \in Outcomes
      BY <2>1 DEF Own, x
    <2>10. (Starting(s) => x.player \in x.group)
           /\ (x.pc = "ask" \/ Unsaved(s) => x.group = x.held)
      BY <2>1 DEF Own, x
    <2>11. req'[s] = x
      BY <2>1 DEF x
    <2>12. QED
      BY <2>3, <2>4, <2>5, <2>6, <2>7, <2>8, <2>9, <2>10, <2>11 DEF Own
  <1>4. QED
    BY <1>2, <1>3, InvariantPartsNext
----------------------------------------------------------------------------
(* Steps outside the start of a match.                                      *)

\* Keys and pending placements after a step that starts nothing.
NothingNew(r) ==
    /\ \A p \in Players : playerPlacement'[p] \in {playerPlacement[p], NoPlacement}
    /\ \A i \in Ids : placement'[i].status = "pending" => placement[i].status = "pending"
    /\ asked' = asked
    /\ \A p \in Players : playerLock[p] \notin {None, r} => playerLock'[p] = playerLock[p]

Outside == PCs \ {"check", "drop", "lobby", "players", "ask", "recheck", "abandon", "save",
                  "release"}

LEMMA OutsideStep ==
    ASSUME StartInvariant, NEW r \in Requests, OthersStay(r), StoreTyped', ReqTyped',
           NothingNew(r), req'[r].pc \in Outside,
           req'[r].pc \in {"event", "eventLobby", "eventWrite"} => req'[r].outcome \in Outcomes,
           req'[r].existing \in {req[r].existing, NoPlacement}
    PROVE  StartInvariant'
  <1>1. Own(r) /\ asked \in Nat /\ asked' = asked /\ ReqTyped
    BY BoundAssumption, InvariantParts DEF StoreTyped, NothingNew
  <1>2. Own(r)'
    BY <1>1 DEF Own, Outside, PCs, Starting, Unsaved, At, NoPlacement
  <1>3. ASSUME NEW s \in Requests \ {r}, Unsaved(s)
        PROVE  req'[r].existing # req[s].id /\ ~Unsaved(r)'
    <2>1. Own(s)
      BY InvariantParts
    <2>2. req[s].id \in 1..asked /\ req[r].existing # req[s].id
      BY <1>3, <2>1 DEF Own
    <2>3. QED
      BY <1>1, <2>2 DEF NoPlacement, Unsaved, Outside
  <1>4. QED
    BY <1>1, <1>2, <1>3, QuietForOthers DEF NothingNew

LEMMA EndStep ==
    ASSUME StartInvariant, NEW r \in Requests, End(r), StoreTyped', NothingNew(r)
    PROVE  StartInvariant'
  <1>1. ReqTyped' /\ req'[r].pc = "idle" /\ req'[r].existing = NoPlacement /\ OthersStay(r)
    BY EndOne, InvariantParts
  <1>2. QED
    BY <1>1, OutsideStep DEF Outside, PCs

\* The step goes on at a place outside the start of a match.
LEMMA GotoStep ==
    ASSUME StartInvariant, NEW r \in Requests, NEW pc \in Outside, Goto(r, pc),
           StoreTyped', NothingNew(r),
           pc \in {"event", "eventLobby", "eventWrite"} => req[r].outcome \in Outcomes
    PROVE  StartInvariant'
  <1>1. ReqTyped' /\ req'[r].pc = pc /\ SameLocals(r) /\ OthersStay(r)
    BY GotoOne, InvariantParts DEF Outside
  <1>2. QED
    BY <1>1, OutsideStep DEF SameLocals

LEMMA FreeIsQuiet ==
    ASSUME NEW r \in Requests, FreePlayers(r)
    PROVE  \A p \in Players : playerLock[p] \notin {None, r} => playerLock'[p] = playerLock[p]
  BY DEF FreePlayers

LEMMA AnswerStep ==
    ASSUME StartInvariant, NEW r \in Requests, Answer(r)
    PROVE  StartInvariant'
  <1>1. StoreTyped /\ UNCHANGED <<lobby, placement, playerPlacement, gamelift, asked>>
    BY InvariantParts DEF Answer, docs
  <1>2. StoreTyped'
    BY <1>1, FreeTyped DEF StoreTyped, Answer, FreeAll
  <1>3. NothingNew(r)
    BY <1>1, FreeIsQuiet DEF NothingNew, Answer, FreeAll
  <1>4. QED
    BY <1>2, <1>3, EndStep DEF Answer

LEMMA AbandonStep ==
    ASSUME StartInvariant, NEW r \in Requests, Abandon(r)
    PROVE  StartInvariant'
  <1>1. StoreTyped /\ UNCHANGED <<lobby, placement, playerPlacement, asked>>
    BY InvariantParts DEF Abandon, docs
  <1>2. gamelift' \in [Ids -> {"unknown", "pending", "stopping", "done"} \cup Outcomes]
    BY <1>1 DEF StoreTyped, Abandon, StopAccepted
  <1>3. StoreTyped'
    BY <1>1, <1>2, FreeTyped DEF StoreTyped, Abandon, FreeAll
  <1>4. NothingNew(r)
    BY <1>1, FreeIsQuiet DEF NothingNew, Abandon, FreeAll
  <1>5. QED
    BY <1>3, <1>4, EndStep DEF Abandon

LEMMA ReleasePlayersStep ==
    ASSUME StartInvariant, NEW r \in Requests, ReleasePlayers(r)
    PROVE  StartInvariant'
  <1>1. /\ StoreTyped
        /\ UNCHANGED <<lobby, placement, playerPlacement, gamelift, asked, placementLock>>
    BY InvariantParts DEF ReleasePlayers, docs
  <1>2. lobbyLock' \in Requests \cup {None}
    BY <1>1, FreeTyped DEF StoreTyped, ReleasePlayers
  <1>3. StoreTyped'
    BY <1>1, <1>2, FreeTyped DEF StoreTyped, ReleasePlayers
  <1>4. NothingNew(r)
    BY <1>1, FreeIsQuiet DEF NothingNew, ReleasePlayers
  <1>5. CASE End(r)
    BY <1>3, <1>4, <1>5, EndStep
  <1>6. CASE Goto(r, "starting")
    BY <1>3, <1>4, <1>6, GotoStep DEF Outside, PCs
  <1>7. QED
    BY <1>5, <1>6 DEF ReleasePlayers

LEMMA WriteStartingStep ==
    ASSUME StartInvariant, NEW r \in Requests, WriteStarting(r)
    PROVE  StartInvariant'
  <1>1. /\ StoreTyped /\ req[r] \in Request
        /\ UNCHANGED <<placement, playerPlacement, gamelift, asked, placementLock, playerLock>>
    BY InvariantParts DEF WriteStarting, ReqTyped
  <1>2. PlacementOf(r) \in Ids \cup {NoPlacement}
    BY <1>1 DEF PlacementOf, Request
  <1> HIDE DEF PlacementOf
  <1>3. lobby' \in [status : {"idle", "starting", "started", "gone"} \cup Outcomes,
                   placement : Ids \cup {NoPlacement}, connected : BOOLEAN]
    BY <1>1, <1>2 DEF StoreTyped, WriteStarting
  <1>4. StoreTyped'
    BY <1>1, <1>3, FreeTyped DEF StoreTyped, WriteStarting
  <1>5. NothingNew(r)
    BY <1>1 DEF NothingNew
  <1>6. QED
    BY <1>4, <1>5, EndStep DEF WriteStarting

\* A request outside the start of a match begins with fresh locals.
LEMMA BeginStep ==
    ASSUME StartInvariant, NEW r \in Requests, NEW x \in Request, Become(r, x),
           x.pc \in {"stop", "get", "event"}, x.existing = NoPlacement,
           x.pc = "event" => x.outcome \in Outcomes, StoreTyped', NothingNew(r)
    PROVE  StartInvariant'
  <1>1. ReqTyped' /\ req'[r] = x /\ OthersStay(r)
    BY BecomeOne, InvariantParts
  <1>2. QED
    BY <1>1, OutsideStep DEF Outside, PCs

LEMMA StartStopStep ==
    ASSUME StartInvariant, NEW r \in Requests, StartStop(r)
    PROVE  StartInvariant'
  <1>1. StoreTyped /\ UNCHANGED <<lobby, placement, playerPlacement, gamelift, asked,
                                  lobbyLock, placementLock, playerLock>>
    BY InvariantParts DEF StartStop, docs, locks
  <1>2. PICK p \in Players :
            Become(r, [Idle EXCEPT !.pc = "stop", !.player = p, !.id = playerPlacement[p]])
    BY DEF StartStop
  <1>3. PICK x : x = [Idle EXCEPT !.pc = "stop", !.player = p, !.id = playerPlacement[p]]
    OBVIOUS
  <1>4. x \in Request /\ x.pc = "stop" /\ x.existing = NoPlacement
    BY <1>1, <1>3 DEF Idle, Request, PCs, NoPlacement, StoreTyped
  <1>5. StoreTyped' /\ NothingNew(r)
    BY <1>1 DEF StoreTyped, NothingNew
  <1>6. QED
    BY <1>2, <1>3, <1>4, <1>5, BeginStep

LEMMA StartGetStep ==
    ASSUME StartInvariant, NEW r \in Requests, StartGet(r)
    PROVE  StartInvariant'
  <1>1. StoreTyped /\ UNCHANGED <<lobby, placement, playerPlacement, gamelift, asked,
                                  lobbyLock, placementLock, playerLock>>
    BY InvariantParts DEF StartGet, docs, locks
  <1>2. PICK p \in Players : Become(r, [Idle EXCEPT !.pc = "get", !.player = p])
    BY PlayersAssumption DEF StartGet
  <1>3. PICK x : x = [Idle EXCEPT !.pc = "get", !.player = p]
    OBVIOUS
  <1>4. x \in Request /\ x.pc = "get" /\ x.existing = NoPlacement
    BY <1>3 DEF Idle, Request, PCs, NoPlacement
  <1>5. StoreTyped' /\ NothingNew(r)
    BY <1>1 DEF StoreTyped, NothingNew
  <1>6. QED
    BY <1>2, <1>3, <1>4, <1>5, BeginStep

LEMMA DeliverStep ==
    ASSUME StartInvariant, NEW r \in Requests, Deliver(r)
    PROVE  StartInvariant'
  <1>1. StoreTyped /\ UNCHANGED <<lobby, placement, playerPlacement, asked,
                                  lobbyLock, placementLock, playerLock>>
    BY InvariantParts DEF Deliver, docs, locks
  <1>2. PICK i \in Ids :
            /\ gamelift[i] \in Outcomes
            /\ Become(r, [Idle EXCEPT !.pc = "event", !.id = i, !.outcome = gamelift[i]])
            /\ gamelift' = IF Duplicates THEN gamelift ELSE [gamelift EXCEPT ![i] = "done"]
    BY DEF Deliver
  <1>3. PICK x : x = [Idle EXCEPT !.pc = "event", !.id = i, !.outcome = gamelift[i]]
    OBVIOUS
  <1>4. x \in Request /\ x.pc = "event" /\ x.existing = NoPlacement /\ x.outcome \in Outcomes
    BY <1>2, <1>3 DEF Idle, Request, PCs, NoPlacement
  <1>5. gamelift' \in [Ids -> {"unknown", "pending", "stopping", "done"} \cup Outcomes]
    BY <1>1, <1>2 DEF StoreTyped
  <1>6. StoreTyped' /\ NothingNew(r)
    BY <1>1, <1>5 DEF StoreTyped, NothingNew
  <1>7. QED
    BY <1>2, <1>3, <1>4, <1>6, BeginStep

LEMMA StopLockedStep ==
    ASSUME StartInvariant, NEW r \in Requests, StopLocked(r)
    PROVE  StartInvariant'
  <1>1. CASE Answer(r)
    BY <1>1, AnswerStep
  <1>2. CASE ~Answer(r)
    <2>1. /\ StoreTyped
          /\ UNCHANGED <<lobby, placement, playerPlacement, gamelift, asked, lobbyLock, playerLock>>
          /\ placementLock' = [placementLock EXCEPT ![req[r].id] = r]
          /\ Goto(r, "stopAsk") \/ Goto(r, "stopKey")
      BY <1>2, InvariantParts DEF StopLocked, docs
    <2>2. StoreTyped' /\ NothingNew(r)
      BY <2>1 DEF StoreTyped, NothingNew
    <2>3. QED
      BY <2>1, <2>2, GotoStep DEF Outside, PCs
  <1>3. QED
    BY <1>1, <1>2

LEMMA StopAskStep ==
    ASSUME StartInvariant, NEW r \in Requests, StopAsk(r)
    PROVE  StartInvariant'
  <1>1. CASE Answer(r)
    BY <1>1, AnswerStep
  <1>2. CASE ~Answer(r)
    <2>1. /\ StoreTyped /\ Goto(r, "stopKey")
          /\ UNCHANGED <<lobby, placement, playerPlacement, asked,
                         lobbyLock, placementLock, playerLock>>
          /\ gamelift' = [gamelift EXCEPT ![req[r].id] = "stopping"]
      BY <1>2, InvariantParts DEF StopAsk, StopAccepted, docs, locks
    <2>2. StoreTyped' /\ NothingNew(r)
      BY <2>1 DEF StoreTyped, NothingNew
    <2>3. QED
      BY <2>1, <2>2, GotoStep DEF Outside, PCs
  <1>3. QED
    BY <1>1, <1>2

LEMMA StopKeyStep ==
    ASSUME StartInvariant, NEW r \in Requests, StopKey(r)
    PROVE  StartInvariant'
  <1>1. /\ StoreTyped /\ Goto(r, "stopWrite")
        /\ UNCHANGED <<lobby, placement, gamelift, asked, lobbyLock, placementLock, playerLock>>
        /\ playerPlacement' = [playerPlacement EXCEPT ![req[r].player] = NoPlacement]
    BY InvariantParts DEF StopKey, locks
  <1>2. StoreTyped' /\ NothingNew(r)
    BY <1>1 DEF StoreTyped, NothingNew
  <1>3. QED
    BY <1>1, <1>2, GotoStep DEF Outside, PCs

LEMMA StopWriteStep ==
    ASSUME StartInvariant, NEW r \in Requests, StopWrite(r)
    PROVE  StartInvariant'
  <1>1. /\ StoreTyped /\ End(r) /\ FreePlacements(r)
        /\ UNCHANGED <<lobby, playerPlacement, gamelift, asked, lobbyLock, playerLock>>
        /\ placement' = [placement EXCEPT ![req[r].id] = Absent]
    BY InvariantParts DEF StopWrite
  <1>2. /\ Absent \in [status : {"none", "pending"} \cup Outcomes,
                       player : Players \cup {None}, forLobby : BOOLEAN]
        /\ Absent.status # "pending"
    BY DEF Absent
  <1>3. StoreTyped'
    BY <1>1, <1>2, FreeTyped DEF StoreTyped
  <1>4. NothingNew(r)
    BY <1>1, <1>2 DEF StoreTyped, NothingNew
  <1>5. QED
    BY <1>1, <1>3, <1>4, EndStep

LEMMA GetLockedStep ==
    ASSUME StartInvariant, NEW r \in Requests, GetLocked(r)
    PROVE  StartInvariant'
  <1>1. CASE Answer(r)
    BY <1>1, AnswerStep
  <1>2. CASE ~Answer(r)
    <2>1. /\ StoreTyped /\ ReqTyped /\ lobbyLock' = r
          /\ UNCHANGED <<lobby, placement, playerPlacement, gamelift, asked,
                         placementLock, playerLock>>
          /\ Become(r, [req[r] EXCEPT !.pc = "session", !.id = lobby.placement])
      BY <1>2, InvariantParts DEF GetLocked, docs
    <2>2. PICK i, x : i = lobby.placement /\ x = [req[r] EXCEPT !.pc = "session", !.id = i]
      OBVIOUS
    <2>3. x \in Request /\ x.pc = "session" /\ x.existing = req[r].existing
      <3>1. i \in Ids \cup {NoPlacement} /\ req[r] \in Request
        BY <2>1, <2>2 DEF StoreTyped, ReqTyped
      <3>2. QED
        BY <2>2, <3>1 DEF Request, PCs
    <2>4. ReqTyped' /\ req'[r] = x /\ OthersStay(r)
      BY <2>1, <2>2, <2>3, BecomeOne
    <2>5. StoreTyped' /\ NothingNew(r)
      BY <2>1 DEF StoreTyped, NothingNew
    <2>6. QED
      BY <2>3, <2>4, <2>5, OutsideStep DEF Outside, PCs
  <1>3. QED
    BY <1>1, <1>2

LEMMA EventLockedStep ==
    ASSUME StartInvariant, NEW r \in Requests, EventLocked(r)
    PROVE  StartInvariant'
  <1>1. CASE Answer(r)
    BY <1>1, AnswerStep
  <1>2. CASE ~Answer(r)
    <2>1. /\ StoreTyped /\ Own(r)
          /\ UNCHANGED <<lobby, placement, playerPlacement, gamelift, asked, lobbyLock, playerLock>>
          /\ placementLock' = [placementLock EXCEPT ![req[r].id] = r]
          /\ Goto(r, "eventLobby") \/ Goto(r, "eventWrite")
      BY <1>2, InvariantParts DEF EventLocked, docs
    <2>2. req[r].outcome \in Outcomes
      BY <2>1 DEF Own, EventLocked, At
    <2>3. StoreTyped' /\ NothingNew(r)
      BY <2>1 DEF StoreTyped, NothingNew
    <2>4. QED
      BY <2>1, <2>2, <2>3, GotoStep DEF Outside, PCs
  <1>3. QED
    BY <1>1, <1>2

LEMMA EventLobbyStep ==
    ASSUME StartInvariant, NEW r \in Requests, EventLobby(r)
    PROVE  StartInvariant'
  <1>1. CASE Answer(r)
    BY <1>1, AnswerStep
  <1>2. CASE ~Answer(r)
    <2>1. /\ StoreTyped /\ Own(r) /\ Goto(r, "eventWrite")
          /\ UNCHANGED <<placement, playerPlacement, gamelift, asked,
                         lobbyLock, placementLock, playerLock>>
          /\ lobby' = IF req[r].outcome = "completed"
                      THEN [lobby EXCEPT !.status = "started", !.connected = TRUE]
                      ELSE [lobby EXCEPT !.status = req[r].outcome]
      BY <1>2, InvariantParts DEF EventLobby, locks
    <2>2. req[r].outcome \in Outcomes
      BY <2>1 DEF Own, EventLobby, At
    <2>3. lobby' \in [status : {"idle", "starting", "started", "gone"} \cup Outcomes,
                     placement : Ids \cup {NoPlacement}, connected : BOOLEAN]
      BY <2>1, <2>2 DEF StoreTyped
    <2>4. StoreTyped' /\ NothingNew(r)
      BY <2>1, <2>3 DEF StoreTyped, NothingNew
    <2>5. QED
      BY <2>1, <2>2, <2>4, GotoStep DEF Outside, PCs
  <1>3. QED
    BY <1>1, <1>2

LEMMA EventWriteStep ==
    ASSUME StartInvariant, NEW r \in Requests, EventWrite(r)
    PROVE  StartInvariant'
  <1>1. /\ StoreTyped /\ Own(r) /\ End(r) /\ FreePlacements(r)
        /\ UNCHANGED <<lobby, playerPlacement, gamelift, asked, lobbyLock, playerLock>>
        /\ \/ placement' = [placement EXCEPT ![req[r].id].status = req[r].outcome]
           \/ placement' = placement
    BY InvariantParts DEF EventWrite
  <1>2. req[r].outcome \in Outcomes /\ req[r].outcome # "pending"
    BY <1>1, BoundAssumption DEF Own, EventWrite, At
  <1>3. StoreTyped'
    BY <1>1, <1>2, FreeTyped DEF StoreTyped
  <1>4. NothingNew(r)
    BY <1>1, <1>2 DEF StoreTyped, NothingNew
  <1>5. QED
    BY <1>1, <1>3, <1>4, EndStep

\* Steps of nobody: GameLift decides, the lobby goes, or nothing happens.
LEMMA NobodysStep ==
    ASSUME StartInvariant, StoreTyped',
           UNCHANGED <<placement, playerPlacement, asked, playerLock, req>>
    PROVE  StartInvariant'
  <1>1. ReqTyped' /\ \A p \in Players : playerPlacement'[p] <= asked'
    BY InvariantParts DEF ReqTyped
  <1>2. ASSUME NEW r \in Requests PROVE Own(r)'
    <2>1. Own(r)
      BY InvariantParts
    <2>2. QED
      BY <2>1 DEF Own, Starting, Unsaved, At
  <1>3. QED
    BY <1>1, <1>2, InvariantPartsNext

LEMMA DecideStep ==
    ASSUME StartInvariant, NEW i \in Ids, NEW o \in Outcomes, Decide(i, o)
    PROVE  StartInvariant'
  <1>1. /\ StoreTyped
        /\ UNCHANGED <<lobby, placement, playerPlacement, asked,
                       lobbyLock, placementLock, playerLock, req>>
        /\ gamelift' = [gamelift EXCEPT ![i] = o]
    BY InvariantParts DEF Decide, docs, locks
  <1>2. StoreTyped'
    BY <1>1 DEF StoreTyped
  <1>3. QED
    BY <1>1, <1>2, NobodysStep

LEMMA RemoveLobbyStep ==
    ASSUME StartInvariant, RemoveLobby
    PROVE  StartInvariant'
  <1>1. /\ StoreTyped
        /\ UNCHANGED <<placement, playerPlacement, gamelift, asked,
                       lobbyLock, placementLock, playerLock, req>>
        /\ lobby' = [status |-> "gone", placement |-> NoPlacement, connected |-> FALSE]
    BY InvariantParts DEF RemoveLobby, locks
  <1>2. StoreTyped'
    BY <1>1 DEF StoreTyped
  <1>3. QED
    BY <1>1, <1>2, NobodysStep

----------------------------------------------------------------------------
(* Steps of the start of a match.                                           *)

\* A start goes on without an id of GameLift, or with the one it had.
LEMMA StartingStep ==
    ASSUME StartInvariant, NEW r \in Requests, OthersStay(r), StoreTyped', ReqTyped',
           NothingNew(r), Starting(r)',
           req'[r].player \in req'[r].group, \A p \in req'[r].held : playerLock'[p] = r,
           req'[r].pc = "ask" \/ Unsaved(r)' => req'[r].group = req'[r].held,
           \/ req'[r].existing \in {req[r].existing, NoPlacement}
           \/ \E p \in Players : req'[r].existing = playerPlacement[p],
           Unsaved(r)' => /\ Unsaved(r) /\ req'[r].id = req[r].id
                          /\ req'[r].existing = req[r].existing,
           req'[r].pc \in {"lobby", "players", "ask", "recheck", "save"}
                /\ req'[r].existing # NoPlacement
              => placement'[req'[r].existing].status # "pending",
           req'[r].pc = "save"
              => playerPlacement'[req'[r].player] \in {req'[r].existing, NoPlacement}
    PROVE  StartInvariant'
  <1>1. /\ Own(r) /\ asked \in Nat /\ asked' = asked
        /\ \A p \in Players : playerPlacement[p] <= asked
    BY BoundAssumption, InvariantParts DEF StoreTyped, NothingNew
  <1>2. req'[r].existing <= asked'
    BY <1>1 DEF Own, NoPlacement
  <1>3. ASSUME NEW s \in Requests \ {r}, Unsaved(s)
        PROVE  req'[r].existing # req[s].id /\ (Unsaved(r)' => req'[r].id # req[s].id)
    <2>1. Own(s)
      BY InvariantParts
    <2>2. /\ req[s].id \in 1..asked /\ req[r].existing # req[s].id
          /\ \A p \in Players : playerPlacement[p] # req[s].id
          /\ Unsaved(r) => req[r].id # req[s].id
      BY <1>3, <2>1 DEF Own
    <2>3. QED
      BY <1>1, <2>2 DEF NoPlacement
  <1>4. ASSUME Unsaved(r)'
        PROVE  /\ req'[r].id \in 1..asked'
               /\ \A p \in Players : playerPlacement'[p] # req'[r].id
               /\ \A s \in Requests : req'[s].existing # req'[r].id
               /\ \A s \in Requests : Unsaved(s)' /\ req'[s].id = req'[r].id => s = r
    <2>1. Unsaved(r) /\ req'[r].id = req[r].id /\ req'[r].existing = req[r].existing
      BY <1>4
    <2>2. req'[r].id \in 1..asked' /\ req'[r].id # NoPlacement
      BY <1>1, <2>1 DEF Own, NoPlacement
    <2>3. \A p \in Players : playerPlacement'[p] # req'[r].id
      BY <1>1, <2>1, <2>2 DEF Own, NothingNew
    <2>4. \A s \in Requests : req'[s].existing # req'[r].id
      BY <1>1, <2>1 DEF Own, OthersStay
    <2>5. \A s \in Requests : Unsaved(s)' /\ req'[s].id = req'[r].id => s = r
      BY <1>1, <2>1 DEF Own, OthersStay, Unsaved
    <2>6. QED
      BY <2>2, <2>3, <2>4, <2>5
  <1>5. req'[r].pc \notin {"event", "eventLobby", "eventWrite"}
    BY DEF Starting
  <1>6. Own(r)'
    BY <1>2, <1>4, <1>5 DEF Own, At
  <1>7. QED
    BY <1>1, <1>3, <1>6, QuietForOthers DEF NothingNew

\* _check_existing_match_placement is satisfied: the start goes on with x.
LEMMA CheckedStep ==
    ASSUME StartInvariant, NEW r \in Requests,
           NEW x \in Request, NEW existing \in Ids \cup {NoPlacement},
           Become(r, Checked(x, existing)), StoreTyped', NothingNew(r), playerLock' = playerLock,
           x.player \in x.group, \A p \in x.held : playerLock[p] = r,
           \/ existing = NoPlacement
           \/ /\ existing = req[r].existing
              /\ placement'[existing].status # "pending"
    PROVE  StartInvariant'
  <1>1. PICK y : y = Checked(x, existing)
    OBVIOUS
  <1>2. /\ y \in Request /\ y.pc \in {"lobby", "players"} /\ y.existing = existing
        /\ y.player = x.player /\ y.group = x.group /\ y.held = x.held
    BY <1>1 DEF Checked, Request, PCs
  <1>3. ReqTyped' /\ req'[r] = y /\ OthersStay(r)
    BY <1>1, <1>2, BecomeOne, InvariantParts
  <1>4. Starting(r)' /\ ~Unsaved(r)'
    BY <1>2, <1>3 DEF Starting, Unsaved
  <1>5. QED
    BY <1>2, <1>3, <1>4, StartingStep

LEMMA StartMatchStep ==
    ASSUME StartInvariant, NEW r \in Requests, StartMatch(r)
    PROVE  StartInvariant'
  <1>1. PICK p \in Players, forLobby \in BOOLEAN :
            /\ forLobby => p \in Members
            /\ LET x == [Idle EXCEPT !.player = p, !.forLobby = forLobby,
                                     !.existing = playerPlacement[p],
                                     !.group = IF forLobby THEN Members ELSE Mates(p)]
               IN  Become(r, IF playerPlacement[p] = NoPlacement THEN Checked(x, NoPlacement)
                             ELSE [x EXCEPT !.pc = "check"])
    BY DEF StartMatch
  <1>2. PICK k, G : k = playerPlacement[p] /\ G = IF forLobby THEN Members ELSE Mates(p)
    OBVIOUS
  <1>3. PICK x : x = [Idle EXCEPT !.player = p, !.forLobby = forLobby, !.existing = k, !.group = G]
    OBVIOUS
  <1>4. Become(r, IF k = NoPlacement THEN Checked(x, NoPlacement) ELSE [x EXCEPT !.pc = "check"])
    BY <1>1, <1>2, <1>3
  <1>5. StoreTyped /\ UNCHANGED <<lobby, placement, playerPlacement, gamelift, asked,
                                  lobbyLock, placementLock, playerLock>>
    BY InvariantParts DEF StartMatch, docs, locks
  <1>6. StoreTyped' /\ NothingNew(r)
    BY <1>5 DEF StoreTyped, NothingNew
  <1>7. k \in Ids \cup {NoPlacement} /\ G \in SUBSET Players /\ p \in G
    BY <1>1, <1>2, <1>5, PlayersAssumption DEF StoreTyped, Mates
  <1>8. x \in Request /\ x.player = p /\ x.group = G /\ x.held = {} /\ x.existing = k
    BY <1>3, <1>7 DEF Idle, Request, PCs, NoPlacement
  <1>9. CASE k = NoPlacement
    BY <1>4, <1>5, <1>6, <1>7, <1>8, <1>9, CheckedStep
  <1>10. CASE k # NoPlacement
    <2>1. PICK y : y = [x EXCEPT !.pc = "check"]
      OBVIOUS
    <2>2. /\ y \in Request /\ y.pc = "check" /\ y.player = p /\ y.group = G /\ y.held = {}
          /\ y.existing = k
      BY <1>8, <2>1 DEF Request, PCs
    <2>3. ReqTyped' /\ req'[r] = y /\ OthersStay(r)
      BY <1>4, <1>10, <2>1, <2>2, BecomeOne, InvariantParts
    <2>4. Starting(r)' /\ ~Unsaved(r)'
      BY <2>2, <2>3 DEF Starting, Unsaved
    <2>5. QED
      BY <1>2, <1>6, <1>7, <2>2, <2>3, <2>4, StartingStep
  <1>11. QED
    BY <1>9, <1>10

LEMMA CheckStep ==
    ASSUME StartInvariant, NEW r \in Requests, Check(r)
    PROVE  StartInvariant'
  <1>1. CASE Answer(r)
    BY <1>1, AnswerStep
  <1>2. CASE ~Answer(r)
    <2>1. /\ StoreTyped /\ ReqTyped /\ Own(r) /\ At(r, "check") /\ Starting(r)
          /\ UNCHANGED <<lobby, placement, playerPlacement, gamelift, asked, lobbyLock, playerLock>>
      BY <1>2, InvariantParts DEF Check, At, Starting, docs, locks
    <2>2. /\ req[r] \in Request /\ req[r].existing \in Ids \cup {NoPlacement}
          /\ req[r].player \in req[r].group
          /\ \A p \in req[r].held : playerLock[p] = r
      BY <2>1 DEF ReqTyped, Request, Own
    <2>3. CASE Goto(r, "drop") /\ placementLock' = [placementLock EXCEPT ![req[r].existing] = r]
      <3>1. StoreTyped' /\ NothingNew(r)
        BY <2>1, <2>3 DEF StoreTyped, NothingNew
      <3>2. ReqTyped' /\ req'[r].pc = "drop" /\ SameLocals(r) /\ OthersStay(r)
        BY <2>1, <2>3, GotoOne DEF PCs
      <3>3. Starting(r)' /\ ~Unsaved(r)'
        BY <3>2 DEF Starting, Unsaved
      <3>4. QED
        BY <2>1, <2>2, <3>1, <3>2, <3>3, StartingStep DEF SameLocals
    <2>4. CASE /\ Become(r, Checked(req[r], req[r].existing))
               /\ placement[req[r].existing].status # "pending"
               /\ placementLock' = placementLock
      <3>1. StoreTyped' /\ NothingNew(r)
        BY <2>1, <2>4 DEF StoreTyped, NothingNew
      <3>2. QED
        BY <2>1, <2>2, <2>4, <3>1, CheckedStep
    <2>5. QED
      BY <1>2, <2>3, <2>4 DEF Check, locks
  <1>3. QED
    BY <1>1, <1>2

LEMMA DropStep ==
    ASSUME StartInvariant, NEW r \in Requests, Drop(r)
    PROVE  StartInvariant'
  <1>1. /\ StoreTyped /\ ReqTyped /\ Own(r) /\ Starting(r)
        /\ UNCHANGED <<lobby, placement, gamelift, asked, lobbyLock, playerLock>>
        /\ playerPlacement' = [playerPlacement EXCEPT ![req[r].player] = NoPlacement]
        /\ FreePlacements(r) /\ Become(r, Checked(req[r], NoPlacement))
    BY InvariantParts DEF Drop, At, Starting
  <1>2. /\ req[r] \in Request /\ req[r].player \in req[r].group
        /\ \A p \in req[r].held : playerLock[p] = r
    BY <1>1 DEF ReqTyped, Own
  <1>3. StoreTyped'
    BY <1>1, FreeTyped DEF StoreTyped
  <1>4. NothingNew(r)
    BY <1>1 DEF StoreTyped, NothingNew
  <1>5. QED
    BY <1>1, <1>2, <1>3, <1>4, CheckedStep

LEMMA LockLobbyStep ==
    ASSUME StartInvariant, NEW r \in Requests, LockLobby(r)
    PROVE  StartInvariant'
  <1>1. CASE Answer(r)
    BY <1>1, AnswerStep
  <1>2. CASE ~Answer(r)
    <2>1. /\ StoreTyped /\ ReqTyped /\ Own(r) /\ req[r].pc = "lobby" /\ Starting(r)
          /\ lobbyLock' = r /\ Goto(r, "players")
          /\ UNCHANGED <<lobby, placement, playerPlacement, gamelift, asked,
                         placementLock, playerLock>>
      BY <1>2, InvariantParts DEF LockLobby, At, Starting, docs
    <2>2. StoreTyped' /\ NothingNew(r)
      BY <2>1 DEF StoreTyped, NothingNew
    <2>3. ReqTyped' /\ req'[r].pc = "players" /\ SameLocals(r) /\ OthersStay(r)
      BY <2>1, GotoOne DEF PCs
    <2>4. Starting(r)' /\ ~Unsaved(r)'
      BY <2>3 DEF Starting, Unsaved
    <2>5. QED
      BY <2>1, <2>2, <2>3, <2>4, StartingStep DEF SameLocals, Own
  <1>3. QED
    BY <1>1, <1>2

LEMMA LockPlayerStep ==
    ASSUME StartInvariant, NEW r \in Requests, LockPlayer(r)
    PROVE  StartInvariant'
  <1>1. PICK p \in req[r].group :
            /\ playerLock[p] = None
            /\ playerLock' = [playerLock EXCEPT ![p] = r]
            /\ Become(r, [req[r] EXCEPT !.held = @ \cup {p},
                   !.pc = IF req[r].group = req[r].held \cup {p} THEN "ask" ELSE "players"])
    BY DEF LockPlayer
  <1>2. /\ StoreTyped /\ ReqTyped /\ Own(r) /\ req[r].pc = "players" /\ Starting(r)
        /\ UNCHANGED <<lobby, placement, playerPlacement, gamelift, asked, lobbyLock, placementLock>>
    BY InvariantParts DEF LockPlayer, At, Starting, docs
  <1>3. PICK x : x = [req[r] EXCEPT !.held = @ \cup {p},
                   !.pc = IF req[r].group = req[r].held \cup {p} THEN "ask" ELSE "players"]
    OBVIOUS
  <1>4. req[r] \in Request /\ req[r].group \in SUBSET Players /\ p \in Players
    BY <1>2 DEF ReqTyped, Request
  <1>5. /\ x \in Request /\ x.held = req[r].held \cup {p} /\ x.group = req[r].group
        /\ x.player = req[r].player /\ x.existing = req[r].existing
        /\ x.pc \in {"ask", "players"} /\ (x.pc = "ask" => x.group = x.held)
    BY <1>3, <1>4 DEF Request, PCs
  <1>6. ReqTyped' /\ req'[r] = x /\ OthersStay(r)
    BY <1>1, <1>2, <1>3, <1>5, BecomeOne
  <1>7. StoreTyped'
    BY <1>1, <1>2 DEF StoreTyped
  <1>8. NothingNew(r)
    BY <1>1, <1>2 DEF StoreTyped, NothingNew
  <1>9. \A q \in x.held : playerLock'[q] = r
    <2>1. \A q \in req[r].held : playerLock[q] = r /\ q \in Players
      BY <1>2, <1>4 DEF Own, Request
    <2>2. QED
      BY <1>1, <1>2, <1>4, <1>5, <2>1 DEF StoreTyped
  <1>10. Starting(r)' /\ ~Unsaved(r)'
    BY <1>5, <1>6 DEF Starting, Unsaved
  <1>11. QED
    BY <1>2, <1>5, <1>6, <1>7, <1>8, <1>9, <1>10, StartingStep DEF Own

\* The id is a new one: no key and no other start names it.
LEMMA AskGameLiftStep ==
    ASSUME StartInvariant, NEW r \in Requests, AskGameLift(r)
    PROVE  StartInvariant'
  <1>1. CASE Answer(r)
    BY <1>1, AnswerStep
  <1>2. CASE ~Answer(r)
    <2>1. /\ StoreTyped /\ ReqTyped /\ Own(r) /\ req[r].pc = "ask" /\ Starting(r)
          /\ asked \in 0..MaxPlacements /\ asked < MaxPlacements /\ asked' = asked + 1
          /\ gamelift' = [gamelift EXCEPT ![asked + 1] = "pending"]
          /\ Become(r, [req[r] EXCEPT !.pc = "recheck", !.id = asked + 1])
          /\ UNCHANGED <<lobby, placement, playerPlacement, lobbyLock, placementLock, playerLock>>
          /\ \A p \in Players : playerPlacement[p] <= asked
      BY <1>2, InvariantParts DEF AskGameLift, At, Starting, StoreTyped, docs, locks
    <2>2. asked \in Nat /\ asked + 1 \in Ids /\ asked + 1 \in 1..asked'
      BY <2>1, BoundAssumption DEF Ids
    <2>3. StoreTyped'
      <3>1. asked' \in 0..MaxPlacements
        BY <2>1, <2>2, BoundAssumption
      <3>2. gamelift' \in [Ids -> {"unknown", "pending", "stopping", "done"} \cup Outcomes]
        BY <2>1 DEF StoreTyped
      <3>3. QED
        BY <2>1, <3>1, <3>2 DEF StoreTyped
    <2>4. PICK x : x = [req[r] EXCEPT !.pc = "recheck", !.id = asked + 1]
      OBVIOUS
    <2>5. /\ x \in Request /\ x.pc = "recheck" /\ x.id = asked + 1
          /\ x.existing = req[r].existing /\ x.player = req[r].player
          /\ x.group = req[r].group /\ x.held = req[r].held
      BY <2>1, <2>2, <2>4 DEF ReqTyped, Request, PCs
    <2>6. ReqTyped' /\ req'[r] = x /\ OthersStay(r)
      BY <2>1, <2>4, <2>5, BecomeOne
    <2>7. ASSUME NEW s \in Requests
          PROVE  req[s].existing <= asked /\ (Unsaved(s) => req[s].id \in 1..asked)
      <3>1. Own(s)
        BY InvariantParts
      <3>2. QED
        BY <3>1 DEF Own
    <2>8. /\ \A p \in Players : playerPlacement'[p] # asked + 1
          /\ \A s \in Requests : req'[s].existing # asked + 1
      <3>1. \A p \in Players : playerPlacement'[p] # asked + 1
        BY <2>1, <2>2 DEF StoreTyped
      <3>2. \A s \in Requests : req'[s].existing = req[s].existing
        BY <2>5, <2>6 DEF OthersStay
      <3>3. QED
        BY <2>2, <2>7, <3>1, <3>2
    <2>9. \A s \in Requests \ {r} : Unsaved(s) =>
              req'[r].existing # req[s].id /\ req'[r].id # req[s].id
      <3>1. ASSUME NEW s \in Requests \ {r}, Unsaved(s)
            PROVE  req[r].existing # req[s].id /\ asked + 1 # req[s].id
        <4>1. Own(s) /\ req[s].id \in 1..asked
          BY <2>7, <3>1, InvariantParts
        <4>2. QED
          BY <2>2, <3>1, <4>1 DEF Own
      <3>2. QED
        BY <2>5, <2>6, <3>1
    <2>10. \A s \in Requests : Unsaved(s)' /\ req'[s].id = asked + 1 => s = r
      BY <2>2, <2>6, <2>7 DEF OthersStay, Unsaved
    <2>11. req'[r].existing <= asked'
      <3>1. req[r].existing \in Nat /\ req[r].existing <= asked
        BY <2>1, <2>7 DEF ReqTyped, Request, Ids, NoPlacement
      <3>2. QED
        BY <2>1, <2>2, <2>5, <2>6, <3>1
    <2>12. Own(r)'
      <3>1. /\ x.player \in x.group /\ x.group = x.held
            /\ \A p \in x.held : playerLock'[p] = r
            /\ x.existing # NoPlacement => placement'[x.existing].status # "pending"
        BY <2>1, <2>5 DEF Own
      <3>2. QED
        BY <2>2, <2>5, <2>6, <2>8, <2>10, <2>11, <3>1 DEF Own, At
    <2>13. QED
      BY <2>1, <2>3, <2>6, <2>9, <2>12, QuietForOthers
  <1>3. QED
    BY <1>1, <1>2

LEMMA RecheckStep ==
    ASSUME StartInvariant, NEW r \in Requests, Recheck(r)
    PROVE  StartInvariant'
  <1>1. /\ StoreTyped /\ ReqTyped /\ Own(r) /\ req[r].pc = "recheck" /\ Starting(r) /\ Unsaved(r)
        /\ UNCHANGED <<lobby, placement, playerPlacement, gamelift, asked,
                       lobbyLock, placementLock, playerLock>>
    BY InvariantParts DEF Recheck, At, Starting, Unsaved, docs, locks
  <1>2. StoreTyped' /\ NothingNew(r)
    BY <1>1 DEF StoreTyped, NothingNew
  <1>3. PICK pc \in {"save", "abandon"} : Goto(r, pc) /\ (pc = "save" => SameAsChecked(r))
    BY DEF Recheck
  <1>4. ReqTyped' /\ req'[r].pc = pc /\ SameLocals(r) /\ OthersStay(r)
    BY <1>1, <1>3, GotoOne DEF PCs
  <1>5. Starting(r)' /\ Unsaved(r)'
    BY <1>4 DEF Starting, Unsaved
  <1>6. pc = "save" => playerPlacement'[req'[r].player] \in {req'[r].existing, NoPlacement}
    BY <1>1, <1>3, <1>4 DEF SameAsChecked, SameLocals
  <1>7. QED
    BY <1>1, <1>2, <1>4, <1>5, <1>6, StartingStep DEF SameLocals, Own

\* The keys that change are those of players r has locked, and the placement that
\* becomes pending is one that no other start has seen.
LEMMA SaveStep ==
    ASSUME StartInvariant, NEW r \in Requests, Save(r)
    PROVE  StartInvariant'
  <1>1. PICK x : x = req[r]
    OBVIOUS
  <1>2. /\ StoreTyped /\ ReqTyped /\ Own(r) /\ x.pc = "save" /\ Starting(r) /\ Unsaved(r)
        /\ UNCHANGED <<lobby, gamelift, asked, lobbyLock, placementLock, playerLock>>
        /\ placement' = [placement EXCEPT ![x.id] =
               [status |-> "pending", player |-> x.player, forLobby |-> x.forLobby]]
        /\ playerPlacement' = [p \in Players |-> IF p \in x.group THEN x.id
                                                 ELSE playerPlacement[p]]
        /\ Goto(r, "release")
    BY <1>1, InvariantParts DEF Save, At, Starting, Unsaved, locks
  <1>3. /\ x.id \in Ids \cup {NoPlacement} /\ x.player \in Players \cup {None}
        /\ x.forLobby \in BOOLEAN /\ x.group \in SUBSET Players /\ x.held \in SUBSET Players
    BY <1>1, <1>2 DEF ReqTyped, Request
  <1>4. /\ x.id \in 1..asked /\ x.id \in Ids /\ x.group = x.held /\ x.player \in x.group
        /\ \A p \in x.held : playerLock[p] = r
        /\ \A s \in Requests : req[s].existing # x.id
        /\ \A s \in Requests : Unsaved(s) /\ req[s].id = x.id => s = r
    BY <1>1, <1>2, <1>3 DEF Own, NoPlacement
  <1>5. asked \in Nat /\ asked' = asked
    BY <1>2, BoundAssumption DEF StoreTyped
  <1>6. StoreTyped'
    <2>1. placement' \in [Ids -> [status : {"none", "pending"} \cup Outcomes,
                                  player : Players \cup {None}, forLobby : BOOLEAN]]
      BY <1>2, <1>3 DEF StoreTyped
    <2>2. playerPlacement' \in [Players -> Ids \cup {NoPlacement}]
      BY <1>2, <1>4 DEF StoreTyped
    <2>3. QED
      BY <1>2, <2>1, <2>2 DEF StoreTyped
  <1>7. \A p \in Players : playerPlacement'[p] <= asked'
    BY <1>2, <1>4, <1>5, InvariantParts
  <1>8. ReqTyped' /\ req'[r].pc = "release" /\ SameLocals(r) /\ OthersStay(r)
    BY <1>2, GotoOne DEF PCs
  <1>9. Own(r)'
    BY <1>1, <1>2, <1>4, <1>5, <1>8 DEF Own, Starting, Unsaved, At, SameLocals
  <1>10. ASSUME NEW s \in Requests \ {r} PROVE Own(s)'
    <2>1. PICK y : y = req[s]
      OBVIOUS
    <2>2. Own(s) /\ req'[s] = y /\ y \in Request
      BY <1>2, <1>8, <2>1, InvariantParts DEF OthersStay, ReqTyped
    <2>3. y.existing \in Ids \cup {NoPlacement} /\ y.id \in Ids \cup {NoPlacement}
          /\ y.group \in SUBSET Players /\ y.held \in SUBSET Players
      BY <2>2 DEF Request
    <2>4. /\ Starting(s)' <=> Starting(s)
          /\ Unsaved(s)' <=> Unsaved(s)
          /\ At(s, "save")' <=> At(s, "save")
      BY <2>1, <2>2 DEF Starting, Unsaved, At
    <2>5. ASSUME Unsaved(s)
          PROVE  /\ y.id \in 1..asked'
                 /\ \A p \in Players : playerPlacement'[p] # y.id
                 /\ \A t \in Requests : req'[t].existing # y.id
                 /\ \A t \in Requests : Unsaved(t)' /\ req'[t].id = y.id => t = s
      <3>1. y.id \in 1..asked' /\ y.id # x.id
        BY <1>4, <1>5, <2>1, <2>2, <2>5 DEF Own
      <3>2. \A p \in Players : playerPlacement'[p] # y.id
        BY <1>2, <2>1, <2>2, <2>5, <3>1 DEF Own
      <3>3. \A t \in Requests : req'[t].existing # y.id
        BY <1>8, <2>1, <2>2, <2>5 DEF Own, OthersStay, SameLocals
      <3>4. \A t \in Requests : Unsaved(t)' /\ req'[t].id = y.id => t = s
        BY <1>8, <2>1, <2>2, <2>5 DEF Own, OthersStay, Unsaved
      <3>5. QED
        BY <3>1, <3>2, <3>3, <3>4
    <2>6. ASSUME y.pc \in {"lobby", "players", "ask", "recheck", "save"},
                 y.existing # NoPlacement
          PROVE  placement'[y.existing].status # "pending"
      <3>1. placement[y.existing].status # "pending" /\ y.existing # x.id
        BY <1>4, <2>1, <2>2, <2>6 DEF Own
      <3>2. QED
        BY <1>2, <2>3, <2>6, <3>1 DEF StoreTyped
    <2>7. ASSUME At(s, "save")
          PROVE  playerPlacement'[y.player] \in {y.existing, NoPlacement}
      <3>1. y.player \in y.held /\ playerLock[y.player] = s /\ y.player \in Players
        BY <2>1, <2>2, <2>3, <2>7 DEF Own, Starting, Unsaved, At
      <3>2. y.player \notin x.group
        BY <1>4, <3>1
      <3>3. QED
        BY <1>2, <2>1, <2>2, <2>7, <3>1, <3>2 DEF Own
    <2>8. /\ y.pc \in {"event", "eventLobby", "eventWrite"} => y.outcome \in Outcomes
          /\ Starting(s) => y.player \in y.group /\ \A p \in y.held : playerLock'[p] = s
          /\ y.pc = "ask" \/ Unsaved(s) => y.group = y.held
          /\ y.existing <= asked'
      BY <1>2, <1>5, <2>1, <2>2 DEF Own
    <2>9. QED
      BY <2>2, <2>4, <2>5, <2>6, <2>7, <2>8 DEF Own
  <1>11. QED
    BY <1>6, <1>7, <1>8, <1>9, <1>10, InvariantPartsNext

----------------------------------------------------------------------------
(* The theorems.                                                            *)

LEMMA InitStart == Init => StartInvariant
  <1> SUFFICES ASSUME Init PROVE StartInvariant
    OBVIOUS
  <1>1. StoreTyped /\ ReqTyped
    BY IdleTyped, BoundAssumption DEF Init, StoreTyped, ReqTyped, Absent, NoPlacement
  <1>2. \A p \in Players : playerPlacement[p] <= asked
    BY DEF Init, NoPlacement
  <1>3. ASSUME NEW r \in Requests PROVE Own(r)
    BY <1>2, IdleTyped DEF Init, Own, Starting, Unsaved, At, NoPlacement
  <1>4. QED
    BY <1>1, <1>2, <1>3, InvariantParts

LEMMA ServeStep ==
    ASSUME StartInvariant, NEW r \in Requests, Serve(r)
    PROVE  StartInvariant'
  <1>1. CASE Check(r) \/ Drop(r) \/ LockLobby(r) \/ LockPlayer(r) \/ AskGameLift(r) \/ Recheck(r)
    BY <1>1, CheckStep, DropStep, LockLobbyStep, LockPlayerStep, AskGameLiftStep, RecheckStep
  <1>2. CASE Abandon(r) \/ Save(r) \/ ReleasePlayers(r) \/ WriteStarting(r)
    BY <1>2, AbandonStep, SaveStep, ReleasePlayersStep, WriteStartingStep
  <1>3. CASE StopLocked(r) \/ StopAsk(r) \/ StopKey(r) \/ StopWrite(r)
    BY <1>3, StopLockedStep, StopAskStep, StopKeyStep, StopWriteStep
  <1>4. CASE GetLocked(r) \/ EventLocked(r) \/ EventLobby(r) \/ EventWrite(r)
    BY <1>4, GetLockedStep, EventLockedStep, EventLobbyStep, EventWriteStep
  <1>5. CASE EnsureSession(r)
    BY <1>5, AnswerStep DEF EnsureSession
  <1>6. QED
    BY <1>1, <1>2, <1>3, <1>4, <1>5 DEF Serve

LEMMA NextStart ==
    ASSUME Leases = FALSE, StartInvariant, [Next]_vars
    PROVE  StartInvariant'
  <1>1. ASSUME NEW r \in Requests,
               StartMatch(r) \/ StartStop(r) \/ StartGet(r) \/ Deliver(r)
        PROVE  StartInvariant'
    BY <1>1, StartMatchStep, StartStopStep, StartGetStep, DeliverStep
  <1>2. ASSUME NEW r \in Requests, Serve(r) PROVE StartInvariant'
    BY <1>2, ServeStep
  <1>3. ASSUME NEW r \in Requests, Expire(r) PROVE FALSE
    BY <1>3 DEF Expire, LeaseCanExpire
  <1>4. ASSUME NEW i \in Ids, NEW o \in Outcomes, Decide(i, o) PROVE StartInvariant'
    BY <1>4, DecideStep
  <1>5. CASE RemoveLobby
    BY <1>5, RemoveLobbyStep
  <1>6. CASE UNCHANGED vars
    <2>1. StoreTyped'
      BY <1>6, InvariantParts DEF StoreTyped, vars
    <2>2. QED
      BY <1>6, <2>1, NobodysStep DEF vars
  <1>7. QED
    BY <1>1, <1>2, <1>3, <1>4, <1>5, <1>6 DEF Next

\* A start knows the keys it works on: as long as no lease runs out under its
\* owner, the key of a start that saves is the one it checked or deleted since,
\* and the placement it checked is not pending (match_placements.py:523-550).
THEOREM StartsAreChecked ==
    ASSUME Leases = FALSE
    PROVE  Spec => []StartInvariant
  <1>1. StartInvariant /\ [Next]_vars => StartInvariant'
    BY NextStart
  <1>2. QED
    BY <1>1, InitStart, PTL DEF Spec

\* A placement is never saved over a pending one of the player who starts it
\* (match_placements.py:548), whatever the placements, events, stops and deletions
\* of others, as long as no lease runs out under its owner.
THEOREM PendingIsNotReplaced ==
    ASSUME Leases = FALSE
    PROVE  Spec => NothingPendingReplaced
  <1> DEFINE Kept == \A r \in Requests : At(r, "save") /\ req'[r].pc = "release" =>
          LET i == playerPlacement[req[r].player] IN
          i # NoPlacement => placement[i].status # "pending"
  <1>1. StartInvariant /\ [Next]_vars => [Kept]_vars
    <2>1. ASSUME StartInvariant, NEW r \in Requests, At(r, "save"),
                 playerPlacement[req[r].player] # NoPlacement
          PROVE  placement[playerPlacement[req[r].player]].status # "pending"
      BY <2>1, InvariantParts DEF Own, At
    <2>2. QED
      BY <2>1
  <1>2. QED
    BY <1>1, StartsAreChecked, PTL DEF Spec, NothingPendingReplaced
----------------------------------------------------------------------------
(* The lobby follows its latest placement, when every event comes once.     *)

\* A start that was given an id, and one that has the lobby's lock.
Begun(r) == Unsaved(r) \/ req[r].pc \in {"release", "starting"}
ForLobby(r) == \/ req[r].pc = "starting"
               \/ req[r].forLobby /\ req[r].pc \in {"players", "ask", "release"}
               \/ req[r].forLobby /\ Unsaved(r)
\* A saved placement that the lobby is about to show.
Announces(r) == ForLobby(r) /\ req[r].pc \in {"release", "starting"}

Event(r) == req[r].pc \in {"event", "eventLobby", "eventWrite"}
\* An event of i that the lobby shows, and placement i not yet.
Written(i) == \E s \in Requests : req[s].pc = "eventWrite" /\ req[s].id = i

Pending(i) == placement[i].status = "pending" /\ placement[i].forLobby

FollowOne(r) ==
    /\ Begun(r) => /\ req[r].id \in 1..asked
                   /\ \A s \in Requests : Begun(s) /\ req[s].id = req[r].id => s = r
    /\ Unsaved(r) => placement[req[r].id].status = "none" /\ lobby.placement # req[r].id
    /\ ForLobby(r) => lobbyLock = r /\ lobby.status \notin {"starting", "gone"}
    /\ Announces(r) => placement[req[r].id].status = "none" \/ Pending(req[r].id)
    /\ req[r].pc = "stop" => req[r].id \in Ids
    /\ req[r].pc \in {"stopAsk", "stopKey", "stopWrite", "eventLobby", "eventWrite"}
            => req[r].id \in Ids /\ placementLock[req[r].id] = r
    /\ Event(r) => /\ req[r].id \in Ids /\ gamelift[req[r].id] = "done"
                   /\ placement[req[r].id].status \notin Outcomes
                   /\ \A s \in Requests : Event(s) /\ req[s].id = req[r].id => s = r
    /\ req[r].pc \in {"eventLobby", "eventWrite"} => placement[req[r].id].status = "pending"
    /\ req[r].pc = "eventLobby" => placement[req[r].id].forLobby
    /\ req[r].pc = "eventWrite" =>
        /\ \A s \in Requests : Announces(s) => req[s].id # req[r].id
        /\ lobby.placement = req[r].id => lobby.status = Shown(req[r].outcome)

FollowAll ==
    /\ lobby.placement <= asked
    /\ \A i \in Ids : i > asked => placement[i].status = "none" /\ gamelift[i] = "unknown"
    /\ \A i \in Ids : placement[i].status \in Outcomes => gamelift[i] = "done"
    /\ \A i \in Ids : Pending(i) =>
        \/ lobby.status = "gone"
        \/ lobby.placement = i /\ lobby.status = "starting"
        \/ Written(i)
        \/ \E r \in Requests : Announces(r) /\ req[r].id = i
    /\ lobby.placement # NoPlacement =>
        /\ lobby.status # "gone"
        /\ \/ placement[lobby.placement].status = "none"
           \/ /\ placement[lobby.placement].forLobby
              /\ \/ Written(lobby.placement)
                 \/ lobby.status = Shown(placement[lobby.placement].status)

FollowInvariant == FollowAll /\ \A r \in Requests : FollowOne(r)

LEMMA FollowTypes ==
    ASSUME StartInvariant
    PROVE  /\ StoreTyped /\ ReqTyped /\ asked \in Nat
           /\ lobby.placement \in Ids \cup {NoPlacement} /\ lobby.placement \in Nat
           /\ \A i \in Ids : i \in Nat /\ i # NoPlacement
  <1>1. StoreTyped /\ ReqTyped
    BY InvariantParts
  <1>2. asked \in Nat /\ lobby.placement \in Ids \cup {NoPlacement}
    BY <1>1, BoundAssumption DEF StoreTyped
  <1>3. QED
    BY <1>1, <1>2 DEF Ids, NoPlacement

\* The kinds of a request that stays.
LEMMA SameKinds ==
    ASSUME NEW s \in Requests, req'[s] = req[s]
    PROVE  /\ Begun(s)' <=> Begun(s)
           /\ Unsaved(s)' <=> Unsaved(s)
           /\ ForLobby(s)' <=> ForLobby(s)
           /\ Announces(s)' <=> Announces(s)
           /\ Event(s)' <=> Event(s)
  BY DEF Begun, Unsaved, ForLobby, Announces, Event

\* A step of r that writes neither the lobby nor a placement.
LEMMA QuietFollow ==
    ASSUME StartInvariant, FollowInvariant, NEW r \in Requests, OthersStay(r), FollowOne(r)',
           UNCHANGED <<lobby, placement>>, asked' \in {asked, asked + 1},
           \A i \in Ids : /\ gamelift[i] = "done" => gamelift'[i] = "done"
                          /\ i > asked' => gamelift'[i] = "unknown",
           lobbyLock \notin {None, r} => lobbyLock' = lobbyLock,
           \A i \in Ids : placementLock[i] \notin {None, r} => placementLock'[i] = placementLock[i],
           req[r].pc # "eventWrite",
           Announces(r)' <=> Announces(r), Announces(r) => req'[r].id = req[r].id
    PROVE  FollowInvariant'
  <1>1. asked \in Nat /\ asked' \in Nat /\ asked <= asked' /\ None \notin Requests
        /\ lobby.placement \in Nat /\ \A i \in Ids : i \in Nat /\ i # NoPlacement
    BY FollowTypes, NoneAssumption
  <1>2. \A i \in Ids : Pending(i)' <=> Pending(i)
    BY DEF Pending
  <1>3. \A i : Written(i) => Written(i)'
    BY DEF Written, OthersStay
  <1>4. ASSUME NEW i, NEW s \in Requests, Announces(s), req[s].id = i
        PROVE  Announces(s)' /\ req'[s].id = i
    BY <1>4, SameKinds DEF OthersStay
  <1>5. FollowAll'
    <2>1. lobby.placement <= asked'
      BY <1>1 DEF FollowInvariant, FollowAll
    <2>2. \A i \in Ids : i > asked' => placement[i].status = "none"
      BY <1>1 DEF FollowInvariant, FollowAll
    <2>3. \A i \in Ids : Pending(i) =>
            \/ lobby.status = "gone"
            \/ lobby.placement = i /\ lobby.status = "starting"
            \/ Written(i)'
            \/ \E s \in Requests : Announces(s)' /\ req'[s].id = i
      BY <1>3, <1>4 DEF FollowInvariant, FollowAll
    <2>4. QED
      BY <1>2, <1>3, <2>1, <2>2, <2>3 DEF FollowInvariant, FollowAll
  <1>6. ASSUME NEW s \in Requests, s # r PROVE FollowOne(s)'
    <2>1. FollowOne(s) /\ FollowOne(r)
      BY DEF FollowInvariant
    <2>2. req'[s] = req[s]
      BY <1>6 DEF OthersStay
    <2>3. Begun(s) => /\ req[s].id \in 1..asked'
                      /\ \A t \in Requests : Begun(t)' /\ req'[t].id = req[s].id => t = s
      <3>1. ASSUME Begun(s), NEW t \in Requests, Begun(t)', req'[t].id = req[s].id
            PROVE  t = s
        <4>1. CASE t = r
          BY <1>6, <2>2, <3>1, <4>1, SameKinds DEF FollowOne
        <4>2. CASE t # r
          BY <2>1, <3>1, <4>2, SameKinds DEF FollowOne, OthersStay
        <4>3. QED
          BY <4>1, <4>2
      <3>2. Begun(s) => req[s].id \in 1..asked'
        BY <1>1, <2>1 DEF FollowOne
      <3>3. QED
        BY <3>1, <3>2
    <2>4. Event(s) => \A t \in Requests : Event(t)' /\ req'[t].id = req[s].id => t = s
      <3>1. ASSUME Event(s), NEW t \in Requests, Event(t)', req'[t].id = req[s].id
            PROVE  t = s
        <4>1. CASE t = r
          BY <1>6, <2>2, <3>1, <4>1, SameKinds DEF FollowOne
        <4>2. CASE t # r
          BY <2>1, <3>1, <4>2, SameKinds DEF FollowOne, OthersStay
        <4>3. QED
          BY <4>1, <4>2
      <3>2. QED
        BY <3>1
    <2>5. req[s].pc = "eventWrite" => \A t \in Requests : Announces(t)' => req'[t].id # req[s].id
      <3>1. ASSUME req[s].pc = "eventWrite", NEW t \in Requests, Announces(t)'
            PROVE  req'[t].id # req[s].id
        <4>1. Announces(t) /\ req'[t].id = req[t].id
          BY <3>1, SameKinds DEF OthersStay
        <4>2. QED
          BY <2>1, <3>1, <4>1 DEF FollowOne
      <3>2. QED
        BY <3>1
    <2>6. ForLobby(s) => lobbyLock' = s
      BY <1>1, <1>6, <2>1 DEF FollowOne
    <2>7. req[s].pc \in {"stopAsk", "stopKey", "stopWrite", "eventLobby", "eventWrite"}
            => req[s].id \in Ids /\ placementLock'[req[s].id] = s
      BY <1>1, <1>6, <2>1 DEF FollowOne
    <2>8. Announces(s) => (placement[req[s].id].status = "none" \/ Pending(req[s].id))'
      BY <2>1, <2>2 DEF FollowOne, Pending
    <2>9. Event(s) => gamelift'[req[s].id] = "done"
      BY <2>1 DEF FollowOne
    <2>10. QED
      BY <2>1, <2>2, <2>3, <2>4, <2>5, <2>6, <2>7, <2>8, <2>9, SameKinds DEF FollowOne
  <1>7. QED
    BY <1>5, <1>6 DEF FollowInvariant

\* What a request that is idle, or at a place of no consequence, has to know: nothing.
Aside == {"idle", "check", "drop", "lobby", "get", "session"}

LEMMA AsideKnows ==
    ASSUME NEW r \in Requests, req'[r].pc \in Aside
    PROVE  FollowOne(r)' /\ ~Announces(r)'
  BY DEF FollowOne, Aside, Begun, Unsaved, ForLobby, Announces, Event

LEMMA AnswerFollow ==
    ASSUME StartInvariant, FollowInvariant, NEW r \in Requests, Answer(r), ~Announces(r),
           req[r].pc # "eventWrite"
    PROVE  FollowInvariant'
  <1>1. req'[r].pc = "idle" /\ OthersStay(r)
    BY EndOne, InvariantParts DEF Answer
  <1>2. FollowOne(r)' /\ ~Announces(r)'
    BY <1>1, AsideKnows DEF Aside
  <1>3. UNCHANGED <<lobby, placement, asked, gamelift>>
    BY DEF Answer, docs
  <1>4. /\ lobbyLock \notin {None, r} => lobbyLock' = lobbyLock
        /\ \A i \in Ids : placementLock[i] \notin {None, r} => placementLock'[i] = placementLock[i]
    BY DEF Answer, FreeAll, FreeLobby, FreePlacements
  <1>5. QED
    BY <1>1, <1>2, <1>3, <1>4, QuietFollow DEF FollowInvariant, FollowAll

LEMMA FreeFollow ==
    ASSUME NEW r \in Requests
    PROVE  /\ FreeLobby(r) => (lobbyLock \notin {None, r} => lobbyLock' = lobbyLock)
           /\ FreePlacements(r) => \A i \in Ids :
                placementLock[i] \notin {None, r} => placementLock'[i] = placementLock[i]
  BY DEF FreeLobby, FreePlacements

\* A request that begins, or goes to a place of no consequence.
LEMMA BeginFollow ==
    ASSUME StartInvariant, FollowInvariant, NEW r \in Requests, OthersStay(r),
           req'[r].pc \in Aside \/ (req'[r].pc = "players" /\ ~req'[r].forLobby),
           req[r].pc \in {"idle", "check", "drop"}, UNCHANGED <<lobby, placement, gamelift, asked, lobbyLock>>,
           \A i \in Ids : placementLock[i] \notin {None, r} => placementLock'[i] = placementLock[i]
    PROVE  FollowInvariant'
  <1>1. FollowOne(r)' /\ ~Announces(r)' /\ ~Announces(r)
    BY DEF FollowOne, Aside, Begun, Unsaved, ForLobby, Announces, Event
  <1>2. QED
    BY <1>1, QuietFollow DEF FollowInvariant, FollowAll

LEMMA CheckedGoes ==
    ASSUME NEW x \in Request, NEW existing
    PROVE  LET y == Checked(x, existing)
           IN  y.pc = "lobby" \/ (y.pc = "players" /\ ~y.forLobby)
  BY DEF Checked, Request

LEMMA StartMatchFollow ==
    ASSUME StartInvariant, FollowInvariant, NEW r \in Requests, StartMatch(r)
    PROVE  FollowInvariant'
  <1>1. PICK p \in Players, forLobby \in BOOLEAN :
          LET x == [Idle EXCEPT !.player = p, !.forLobby = forLobby,
                                 !.existing = playerPlacement[p],
                                 !.group = IF forLobby THEN Members ELSE Mates(p)]
          IN  Become(r, IF playerPlacement[p] = NoPlacement THEN Checked(x, NoPlacement)
                         ELSE [x EXCEPT !.pc = "check"])
    BY DEF StartMatch
  <1> DEFINE x == [Idle EXCEPT !.player = p, !.forLobby = forLobby,
                                 !.existing = playerPlacement[p],
                                 !.group = IF forLobby THEN Members ELSE Mates(p)]
  <1>2. /\ [x EXCEPT !.pc = "check"].pc = "check"
        /\ \/ Checked(x, NoPlacement).pc = "lobby"
           \/ Checked(x, NoPlacement).pc = "players" /\ ~Checked(x, NoPlacement).forLobby
    BY DEF Idle, Checked
  <1> HIDE DEF x
  <1>3. /\ OthersStay(r)
        /\ req'[r] = IF playerPlacement[p] = NoPlacement THEN Checked(x, NoPlacement)
                     ELSE [x EXCEPT !.pc = "check"]
    BY <1>1, InvariantParts DEF Become, OthersStay, ReqTyped, x
  <1>4. req'[r].pc \in Aside \/ (req'[r].pc = "players" /\ ~req'[r].forLobby)
    BY <1>2, <1>3 DEF Aside
  <1>5. QED
    BY <1>3, <1>4, BeginFollow DEF StartMatch, At, docs, locks

LEMMA CheckFollow ==
    ASSUME StartInvariant, FollowInvariant, NEW r \in Requests, Check(r) \/ Drop(r)
    PROVE  FollowInvariant'
  <1>1. req[r].pc \in {"check", "drop"} /\ req[r] \in Request /\ ~Announces(r)
    BY InvariantParts DEF Check, Drop, At, ReqTyped, Announces
  <1>2. CASE Answer(r)
    BY <1>1, <1>2, AnswerFollow
  <1>3. CASE /\ Goto(r, "drop") /\ UNCHANGED <<docs, gamelift, asked, lobbyLock>>
             /\ placementLock[req[r].existing] = None
             /\ placementLock' = [placementLock EXCEPT ![req[r].existing] = r]
    <2>1. req'[r].pc = "drop" /\ OthersStay(r)
      BY <1>3, GotoOne, InvariantParts DEF PCs
    <2>2. \A i \in Ids : placementLock[i] \notin {None, r} => placementLock'[i] = placementLock[i]
      BY <1>3, FollowTypes DEF StoreTyped
    <2>3. QED
      BY <1>1, <1>3, <2>1, <2>2, BeginFollow DEF Aside, docs
  <1>4. ASSUME NEW existing, Become(r, Checked(req[r], existing)),
               UNCHANGED <<lobby, placement, gamelift, asked, lobbyLock>>,
               placementLock' = placementLock \/ FreePlacements(r)
        PROVE  FollowInvariant'
    <2>1. OthersStay(r) /\ req'[r] = Checked(req[r], existing)
      BY <1>4, InvariantParts DEF Become, OthersStay, ReqTyped
    <2>2. req'[r].pc \in Aside \/ (req'[r].pc = "players" /\ ~req'[r].forLobby)
      BY <1>1, <2>1, CheckedGoes DEF Aside
    <2>3. QED
      BY <1>1, <1>4, <2>1, <2>2, FreeFollow, BeginFollow
  <1>5. CASE Check(r)
    BY <1>2, <1>3, <1>4, <1>5 DEF Check, docs, locks
  <1>6. CASE Drop(r)
    BY <1>4, <1>6 DEF Drop
  <1>7. QED
    BY <1>5, <1>6

LEMMA LockLobbyFollow ==
    ASSUME StartInvariant, FollowInvariant, NEW r \in Requests, LockLobby(r)
    PROVE  FollowInvariant'
  <1>1. req[r].pc = "lobby" /\ ~Announces(r)
    BY DEF LockLobby, At, Announces
  <1>2. CASE Answer(r)
    BY <1>1, <1>2, AnswerFollow
  <1>3. CASE /\ lobby.status \notin {"starting", "gone"} /\ lobbyLock = None /\ lobbyLock' = r
             /\ Goto(r, "players") /\ UNCHANGED <<docs, gamelift, asked, placementLock, playerLock>>
    <2>1. req'[r].pc = "players" /\ OthersStay(r)
      BY <1>3, GotoOne, InvariantParts DEF PCs
    <2>2. FollowOne(r)' /\ ~Announces(r)'
      BY <1>3, <2>1 DEF FollowOne, Begun, Unsaved, ForLobby, Announces, Event, docs
    <2>3. QED
      BY <1>1, <1>3, <2>1, <2>2, QuietFollow DEF docs, FollowInvariant, FollowAll
  <1>4. QED
    BY <1>2, <1>3 DEF LockLobby, InProgress

LEMMA LockPlayerFollow ==
    ASSUME StartInvariant, FollowInvariant, NEW r \in Requests, LockPlayer(r)
    PROVE  FollowInvariant'
  <1>1. PICK p \in Players :
            Become(r, [req[r] EXCEPT !.held = @ \cup {p},
                   !.pc = IF req[r].group = req[r].held \cup {p} THEN "ask" ELSE "players"])
    BY FollowTypes DEF LockPlayer, ReqTyped, Request
  <1>2. /\ req'[r].pc \in {"ask", "players"} /\ req'[r].forLobby = req[r].forLobby
        /\ OthersStay(r)
    BY <1>1, FollowTypes DEF Become, OthersStay, ReqTyped, Request
  <1>3. req[r].pc = "players" /\ FollowOne(r)
        /\ UNCHANGED <<lobby, placement, gamelift, asked, lobbyLock, placementLock>>
    BY DEF LockPlayer, At, FollowInvariant, docs
  <1>4. FollowOne(r)' /\ ~Announces(r) /\ ~Announces(r)'
    BY <1>2, <1>3 DEF FollowOne, Begun, Unsaved, ForLobby, Announces, Event
  <1>5. QED
    BY <1>2, <1>3, <1>4, QuietFollow DEF FollowInvariant, FollowAll

LEMMA AskGameLiftFollow ==
    ASSUME StartInvariant, FollowInvariant, NEW r \in Requests, AskGameLift(r)
    PROVE  FollowInvariant'
  <1>1. req[r].pc = "ask" /\ ~Announces(r) /\ FollowOne(r)
    BY DEF AskGameLift, At, Announces, FollowInvariant
  <1>2. CASE Answer(r)
    BY <1>1, <1>2, AnswerFollow
  <1>3. CASE ~Answer(r)
    <2>1. /\ asked < MaxPlacements /\ asked' = asked + 1
          /\ gamelift' = [gamelift EXCEPT ![asked + 1] = "pending"]
          /\ Become(r, [req[r] EXCEPT !.pc = "recheck", !.id = asked + 1])
          /\ UNCHANGED <<lobby, placement, lobbyLock, placementLock>>
      BY <1>3 DEF AskGameLift, docs, locks
    <2>2. /\ req'[r].pc = "recheck" /\ req'[r].id = asked + 1
          /\ req'[r].forLobby = req[r].forLobby /\ OthersStay(r)
      BY <2>1, FollowTypes DEF Become, OthersStay, ReqTyped, Request
    <2>3. /\ asked \in Nat /\ asked + 1 \in Ids /\ asked + 1 > asked
          /\ lobby.placement <= asked /\ lobby.placement \in Nat
          /\ placement[asked + 1].status = "none" /\ gamelift[asked + 1] = "unknown"
      <3>1. asked \in Nat /\ asked + 1 \in Ids /\ asked + 1 > asked /\ lobby.placement \in Nat
        BY <2>1, FollowTypes, BoundAssumption DEF Ids
      <3>2. QED
        BY <3>1 DEF FollowInvariant, FollowAll
    <2>4. ASSUME NEW s \in Requests \ {r}, Begun(s) PROVE req[s].id # asked + 1
      BY <2>3, <2>4 DEF FollowInvariant, FollowOne
    <2>5. FollowOne(r)'
      <3>1. /\ ~Announces(r)' /\ ~Event(r)' /\ Begun(r)' /\ Unsaved(r)'
            /\ ForLobby(r)' <=> ForLobby(r)
        BY <1>1, <2>2 DEF Begun, Unsaved, ForLobby, Announces, Event
      <3>2. \A s \in Requests : Begun(s)' /\ req'[s].id = asked + 1 => s = r
        BY <2>4, SameKinds, <2>2 DEF OthersStay
      <3>3. asked + 1 \in 1..asked' /\ lobby.placement # asked + 1
        BY <2>1, <2>3
      <3>4. QED
        BY <1>1, <2>1, <2>2, <2>3, <3>1, <3>2, <3>3 DEF FollowOne
    <2>6. ~Announces(r)'
      BY <2>2 DEF Announces
    <2>7. \A i \in Ids : /\ gamelift[i] = "done" => gamelift'[i] = "done"
                         /\ i > asked' => gamelift'[i] = "unknown"
      BY <2>1, <2>3, FollowTypes DEF StoreTyped, FollowInvariant, FollowAll
    <2>8. QED
      BY <1>1, <2>1, <2>2, <2>5, <2>6, <2>7, QuietFollow
  <1>4. QED
    BY <1>2, <1>3

LEMMA RecheckFollow ==
    ASSUME StartInvariant, FollowInvariant, NEW r \in Requests, Recheck(r)
    PROVE  FollowInvariant'
  <1>1. /\ req[r].pc = "recheck" /\ ~Announces(r) /\ FollowOne(r)
        /\ UNCHANGED <<lobby, placement, gamelift, asked, lobbyLock, placementLock>>
    BY DEF Recheck, At, Announces, FollowInvariant, docs, locks
  <1>2. PICK pc \in {"save", "abandon"} : Goto(r, pc)
    BY DEF Recheck
  <1>3. req'[r].pc = pc /\ SameLocals(r) /\ OthersStay(r)
    BY <1>2, GotoOne, InvariantParts DEF PCs
  <1>4. /\ ~Announces(r)' /\ ~Event(r)' /\ Begun(r)' /\ Unsaved(r)' /\ Begun(r) /\ Unsaved(r)
        /\ ForLobby(r)' <=> ForLobby(r)
    BY <1>1, <1>3 DEF Begun, Unsaved, ForLobby, Announces, Event, SameLocals
  <1>5. \A s \in Requests : Begun(s)' /\ req'[s].id = req'[r].id => s = r
    BY <1>1, <1>3, <1>4, SameKinds DEF OthersStay, SameLocals, FollowOne
  <1>6. FollowOne(r)'
    BY <1>1, <1>3, <1>4, <1>5 DEF FollowOne, SameLocals
  <1>7. QED
    BY <1>1, <1>3, <1>4, <1>6, QuietFollow DEF FollowInvariant, FollowAll

LEMMA AbandonFollow ==
    ASSUME StartInvariant, FollowInvariant, NEW r \in Requests, Abandon(r)
    PROVE  FollowInvariant'
  <1>1. /\ req[r].pc = "abandon" /\ ~Announces(r)
        /\ UNCHANGED <<lobby, placement, asked>>
    BY DEF Abandon, At, Announces, docs
  <1>2. req'[r].pc = "idle" /\ OthersStay(r)
    BY EndOne, InvariantParts DEF Abandon
  <1>3. FollowOne(r)' /\ ~Announces(r)'
    BY <1>2, AsideKnows DEF Aside
  <1>4. \A i \in Ids : /\ gamelift[i] = "done" => gamelift'[i] = "done"
                       /\ gamelift[i] = "unknown" => gamelift'[i] = "unknown"
    BY FollowTypes DEF Abandon, StopAccepted, StoreTyped
  <1>5. QED
    BY <1>1, <1>2, <1>3, <1>4, FreeFollow, QuietFollow DEF Abandon, FreeAll, FollowInvariant, FollowAll

LEMMA ReleasePlayersFollow ==
    ASSUME StartInvariant, FollowInvariant, NEW r \in Requests, ReleasePlayers(r)
    PROVE  FollowInvariant'
  <1>1. /\ req[r].pc = "release" /\ FollowOne(r)
        /\ UNCHANGED <<lobby, placement, gamelift, asked, placementLock>>
    BY DEF ReleasePlayers, At, FollowInvariant, docs
  <1>2. \A p \in req[r].held : playerLock[p] = r
    BY <1>1, InvariantParts DEF Own, Starting
  <1>3. CASE ~req[r].forLobby /\ End(r) /\ FreeLobby(r)
    <2>1. req'[r].pc = "idle" /\ OthersStay(r)
      BY <1>3, EndOne, InvariantParts
    <2>2. FollowOne(r)' /\ ~Announces(r)' /\ ~Announces(r)
      BY <1>1, <1>3, <2>1, AsideKnows DEF Aside, Announces, ForLobby, Unsaved
    <2>3. QED
      BY <1>1, <1>3, <2>1, <2>2, FreeFollow, QuietFollow DEF FollowInvariant, FollowAll
  <1>4. CASE req[r].forLobby /\ Goto(r, "starting") /\ UNCHANGED lobbyLock
    <2>1. req'[r].pc = "starting" /\ SameLocals(r) /\ OthersStay(r)
      BY <1>4, GotoOne, InvariantParts DEF PCs
    <2>2. /\ Announces(r)' /\ Announces(r) /\ ForLobby(r)' /\ ForLobby(r) /\ Begun(r)' /\ Begun(r)
          /\ ~Event(r)' /\ ~Unsaved(r)'
      BY <1>1, <1>4, <2>1 DEF Announces, ForLobby, Begun, Event, Unsaved
    <2>3. \A s \in Requests : Begun(s)' /\ req'[s].id = req'[r].id => s = r
      BY <1>1, <2>1, <2>2, SameKinds DEF OthersStay, SameLocals, FollowOne
    <2>4. FollowOne(r)'
      BY <1>1, <1>4, <2>1, <2>2, <2>3 DEF FollowOne, SameLocals, Pending
    <2>5. QED
      BY <1>1, <1>4, <2>1, <2>2, <2>4, QuietFollow DEF FollowInvariant, FollowAll, SameLocals
  <1>5. QED
    BY <1>2, <1>3, <1>4 DEF ReleasePlayers

LEMMA StartStopFollow ==
    ASSUME StartInvariant, FollowInvariant, NEW r \in Requests, StartStop(r)
    PROVE  FollowInvariant'
  <1>1. PICK p \in Players :
            /\ playerPlacement[p] # NoPlacement
            /\ Become(r, [Idle EXCEPT !.pc = "stop", !.player = p, !.id = playerPlacement[p]])
    BY DEF StartStop
  <1>2. /\ req'[r].pc = "stop" /\ req'[r].id = playerPlacement[p] /\ OthersStay(r)
        /\ playerPlacement[p] \in Ids
    BY <1>1, FollowTypes DEF Become, OthersStay, ReqTyped, StoreTyped, Idle
  <1>3. req[r].pc = "idle" /\ UNCHANGED <<lobby, placement, gamelift, asked, lobbyLock, placementLock>>
    BY DEF StartStop, At, docs, locks
  <1>4. FollowOne(r)' /\ ~Announces(r)' /\ ~Announces(r)
    BY <1>2, <1>3 DEF FollowOne, Begun, Unsaved, ForLobby, Announces, Event
  <1>5. QED
    BY <1>2, <1>3, <1>4, QuietFollow DEF FollowInvariant, FollowAll

LEMMA StartGetFollow ==
    ASSUME StartInvariant, FollowInvariant, NEW r \in Requests, StartGet(r)
    PROVE  FollowInvariant'
  <1>1. PICK p \in Members : Become(r, [Idle EXCEPT !.pc = "get", !.player = p])
    BY DEF StartGet
  <1>2. req'[r].pc = "get" /\ OthersStay(r)
    BY <1>1, FollowTypes DEF Become, OthersStay, ReqTyped, Idle
  <1>3. QED
    BY <1>2, BeginFollow DEF Aside, StartGet, At, docs, locks

LEMMA GetLockedFollow ==
    ASSUME StartInvariant, FollowInvariant, NEW r \in Requests, GetLocked(r)
    PROVE  FollowInvariant'
  <1>1. req[r].pc = "get" /\ ~Announces(r)
    BY DEF GetLocked, At, Announces
  <1>2. CASE Answer(r)
    BY <1>1, <1>2, AnswerFollow
  <1>3. CASE ~Answer(r)
    <2>1. /\ Become(r, [req[r] EXCEPT !.pc = "session", !.id = lobby.placement])
          /\ lobbyLock = None
          /\ UNCHANGED <<lobby, placement, gamelift, asked, placementLock>>
      BY <1>3 DEF GetLocked, docs
    <2>2. req'[r].pc = "session" /\ OthersStay(r)
      BY <2>1, FollowTypes DEF Become, OthersStay, ReqTyped, Request
    <2>3. FollowOne(r)' /\ ~Announces(r)'
      BY <2>2, AsideKnows DEF Aside
    <2>4. QED
      BY <1>1, <2>1, <2>2, <2>3, QuietFollow DEF FollowInvariant, FollowAll
  <1>4. QED
    BY <1>2, <1>3

LEMMA StopLockedFollow ==
    ASSUME StartInvariant, FollowInvariant, NEW r \in Requests, StopLocked(r)
    PROVE  FollowInvariant'
  <1>1. req[r].pc = "stop" /\ ~Announces(r) /\ req[r].id \in Ids
    BY DEF StopLocked, At, Announces, FollowInvariant, FollowOne
  <1>2. CASE Answer(r)
    BY <1>1, <1>2, AnswerFollow
  <1>3. CASE ~Answer(r)
    <2>1. /\ placementLock[req[r].id] = None
          /\ placementLock' = [placementLock EXCEPT ![req[r].id] = r]
          /\ UNCHANGED <<lobby, placement, gamelift, asked, lobbyLock>>
      BY <1>3 DEF StopLocked, docs
    <2>2. PICK pc \in {"stopAsk", "stopKey"} : Goto(r, pc)
      BY <1>3 DEF StopLocked
    <2>3. req'[r].pc = pc /\ SameLocals(r) /\ OthersStay(r)
      BY <2>2, GotoOne, InvariantParts DEF PCs
    <2>4. placementLock'[req[r].id] = r
      BY <1>1, <2>1, FollowTypes DEF StoreTyped
    <2>5. FollowOne(r)' /\ ~Announces(r)'
      BY <1>1, <2>3, <2>4
      DEF SameLocals, FollowOne, Begun, Unsaved, ForLobby, Announces, Event
    <2>6. \A i \in Ids : placementLock[i] \notin {None, r} => placementLock'[i] = placementLock[i]
      BY <2>1, FollowTypes DEF StoreTyped
    <2>7. QED
      BY <1>1, <2>1, <2>3, <2>5, <2>6, QuietFollow DEF FollowInvariant, FollowAll
  <1>4. QED
    BY <1>2, <1>3

LEMMA StopAskFollow ==
    ASSUME StartInvariant, FollowInvariant, NEW r \in Requests, StopAsk(r)
    PROVE  FollowInvariant'
  <1>1. req[r].pc = "stopAsk" /\ ~Announces(r) /\ FollowOne(r)
    BY DEF StopAsk, At, Announces, FollowInvariant
  <1>2. CASE Answer(r)
    BY <1>1, <1>2, AnswerFollow
  <1>3. CASE StopAccepted(req[r].id) /\ Goto(r, "stopKey") /\ UNCHANGED <<docs, asked, locks>>
    <2>1. req'[r].pc = "stopKey" /\ SameLocals(r) /\ OthersStay(r)
      BY <1>3, GotoOne, InvariantParts DEF PCs
    <2>2. FollowOne(r)' /\ ~Announces(r)'
      BY <1>1, <1>3, <2>1
      DEF SameLocals, FollowOne, Begun, Unsaved, ForLobby, Announces, Event, locks
    <2>3. \A i \in Ids : /\ gamelift[i] = "done" => gamelift'[i] = "done"
                         /\ gamelift[i] = "unknown" => gamelift'[i] = "unknown"
      BY <1>3, FollowTypes DEF StopAccepted, StoreTyped
    <2>4. QED
      BY <1>1, <1>3, <2>1, <2>2, <2>3, QuietFollow DEF docs, locks, FollowInvariant, FollowAll
  <1>4. QED
    BY <1>2, <1>3 DEF StopAsk

LEMMA StopKeyFollow ==
    ASSUME StartInvariant, FollowInvariant, NEW r \in Requests, StopKey(r)
    PROVE  FollowInvariant'
  <1>1. /\ req[r].pc = "stopKey" /\ ~Announces(r) /\ FollowOne(r)
        /\ UNCHANGED <<lobby, placement, gamelift, asked, lobbyLock, placementLock>>
    BY DEF StopKey, At, Announces, FollowInvariant, locks
  <1>2. req'[r].pc = "stopWrite" /\ SameLocals(r) /\ OthersStay(r)
    BY GotoOne, InvariantParts DEF PCs, StopKey
  <1>3. FollowOne(r)' /\ ~Announces(r)'
    BY <1>1, <1>2 DEF SameLocals, FollowOne, Begun, Unsaved, ForLobby, Announces, Event
  <1>4. QED
    BY <1>1, <1>2, <1>3, QuietFollow DEF FollowInvariant, FollowAll

LEMMA DeliverFollow ==
    ASSUME Duplicates = FALSE, StartInvariant, FollowInvariant, NEW r \in Requests, Deliver(r)
    PROVE  FollowInvariant'
  <1>1. PICK i \in Ids :
            /\ gamelift[i] \in Outcomes
            /\ Become(r, [Idle EXCEPT !.pc = "event", !.id = i, !.outcome = gamelift[i]])
            /\ gamelift' = [gamelift EXCEPT ![i] = "done"]
    BY DEF Deliver
  <1>2. /\ req[r].pc = "idle" /\ ~Announces(r)
        /\ UNCHANGED <<lobby, placement, asked, lobbyLock, placementLock>>
    BY DEF Deliver, At, Announces, docs, locks
  <1>3. req'[r].pc = "event" /\ req'[r].id = i /\ OthersStay(r)
    BY <1>1, FollowTypes DEF Become, OthersStay, ReqTyped, Idle
  <1>4. gamelift[i] # "done" /\ gamelift[i] # "unknown" /\ gamelift'[i] = "done"
    BY <1>1, FollowTypes, BoundAssumption DEF StoreTyped
  <1>5. placement[i].status \notin Outcomes
    BY <1>4 DEF FollowInvariant, FollowAll
  <1>6. \A s \in Requests : Event(s)' /\ req'[s].id = i => s = r
    <2>1. ASSUME NEW s \in Requests \ {r}, Event(s) PROVE req[s].id # i
      BY <1>4, <2>1 DEF FollowInvariant, FollowOne
    <2>2. QED
      BY <1>3, <2>1, SameKinds DEF OthersStay
  <1>7. /\ ~Announces(r)' /\ ~Begun(r)' /\ ~Unsaved(r)' /\ ~ForLobby(r)'
    BY <1>3 DEF Announces, Begun, Unsaved, ForLobby
  <1>8. FollowOne(r)'
    BY <1>2, <1>3, <1>4, <1>5, <1>6, <1>7 DEF FollowOne
  <1>9. \A j \in Ids : /\ gamelift[j] = "done" => gamelift'[j] = "done"
                       /\ j > asked' => gamelift'[j] = "unknown"
    BY <1>1, <1>2, <1>4, FollowTypes DEF StoreTyped, FollowInvariant, FollowAll
  <1>10. QED
    BY <1>2, <1>3, <1>7, <1>8, <1>9, QuietFollow

LEMMA EventLockedFollow ==
    ASSUME StartInvariant, FollowInvariant, NEW r \in Requests, EventLocked(r)
    PROVE  FollowInvariant'
  <1>1. req[r].pc = "event" /\ ~Announces(r) /\ Event(r) /\ FollowOne(r)
    BY DEF EventLocked, At, Announces, Event, FollowInvariant
  <1>2. CASE Answer(r)
    BY <1>1, <1>2, AnswerFollow
  <1>3. CASE ~Answer(r)
    <2>1. /\ placementLock[req[r].id] = None
          /\ placementLock' = [placementLock EXCEPT ![req[r].id] = r]
          /\ placement[req[r].id].status # "none"
          /\ UNCHANGED <<lobby, placement, gamelift, asked, lobbyLock>>
      BY <1>3 DEF EventLocked, docs
    <2>2. PICK pc \in {"eventLobby", "eventWrite"} :
              /\ Goto(r, pc)
              /\ placement[req[r].id].forLobby <=> pc = "eventLobby"
      <3>1. CASE placement[req[r].id].forLobby
        BY <1>3, <3>1 DEF EventLocked
      <3>2. CASE ~placement[req[r].id].forLobby
        BY <1>3, <3>2 DEF EventLocked
      <3>3. QED
        BY <3>1, <3>2
    <2>3. req'[r].pc = pc /\ SameLocals(r) /\ OthersStay(r)
      BY <2>2, GotoOne, InvariantParts DEF PCs
    <2>4. /\ req[r].id \in Ids /\ placementLock'[req[r].id] = r /\ req[r].id # NoPlacement
          /\ placement[req[r].id].status = "pending"
      BY <1>1, <2>1, FollowTypes DEF StoreTyped, FollowOne
    <2>5. /\ Event(r)' /\ ~Announces(r)' /\ ~Begun(r)' /\ ~Unsaved(r)' /\ ~ForLobby(r)'
      BY <2>3 DEF Announces, Begun, Unsaved, ForLobby, Event
    <2>6. \A s \in Requests : Event(s)' /\ req'[s].id = req'[r].id => s = r
      BY <1>1, <2>3, SameKinds DEF OthersStay, SameLocals, FollowOne
    <2>7. ASSUME pc = "eventWrite"
          PROVE  /\ \A s \in Requests : Announces(s)' => req'[s].id # req[r].id
                 /\ lobby.placement # req[r].id
      <3>1. ASSUME NEW s \in Requests \ {r}, Announces(s) PROVE req[s].id # req[r].id
        BY <2>2, <2>4, <2>7, <3>1 DEF FollowInvariant, FollowOne, Pending
      <3>2. lobby.placement # req[r].id
        BY <2>2, <2>4, <2>7 DEF FollowInvariant, FollowAll
      <3>3. QED
        BY <2>3, <2>5, <3>1, <3>2, SameKinds DEF OthersStay
    <2>8. FollowOne(r)'
      BY <1>1, <2>1, <2>2, <2>3, <2>4, <2>5, <2>6, <2>7 DEF FollowOne, SameLocals
    <2>9. \A i \in Ids : placementLock[i] \notin {None, r} => placementLock'[i] = placementLock[i]
      BY <2>1, FollowTypes DEF StoreTyped
    <2>10. QED
      BY <1>1, <2>1, <2>3, <2>5, <2>8, <2>9, QuietFollow DEF FollowInvariant, FollowAll
  <1>4. QED
    BY <1>2, <1>3

----------------------------------------------------------------------------
(* Steps that write the lobby or a placement.                               *)

\* What such a step of r has to keep for another request.
LEMMA OtherFollow ==
    ASSUME StartInvariant, FollowInvariant, NEW r \in Requests, NEW s \in Requests \ {r},
           OthersStay(r), UNCHANGED <<asked, gamelift>>,
           Begun(r)' => Begun(r), Event(r)' => Event(r), Announces(r)' => Begun(r),
           Begun(r)' \/ Event(r)' => req'[r].id = req[r].id,
           Unsaved(s) => placement'[req[s].id].status = "none" /\ lobby'.placement # req[s].id,
           ForLobby(s) => lobbyLock' = s /\ lobby'.status \notin {"starting", "gone"},
           Announces(s) => placement'[req[s].id].status = "none" \/ Pending(req[s].id)',
           req[s].id \in Ids /\ placementLock[req[s].id] = s => placementLock'[req[s].id] = s,
           Event(s) => placement'[req[s].id].status \notin Outcomes,
           req[s].pc \in {"eventLobby", "eventWrite"} => placement'[req[s].id].status = "pending",
           req[s].pc = "eventLobby" => placement'[req[s].id].forLobby,
           req[s].pc = "eventWrite" =>
                /\ Announces(r)' => req'[r].id # req[s].id
                /\ lobby'.placement = req[s].id => lobby'.status = Shown(req[s].outcome)
    PROVE  FollowOne(s)'
  <1>1. FollowOne(s) /\ FollowOne(r) /\ req'[s] = req[s]
    BY DEF FollowInvariant, OthersStay
  <1>2. ASSUME Begun(s), NEW t \in Requests, Begun(t)', req'[t].id = req[s].id PROVE t = s
    <2>1. Begun(t) /\ req[t].id = req'[t].id
      BY <1>2, SameKinds DEF OthersStay
    <2>2. QED
      BY <1>1, <1>2, <2>1 DEF FollowOne
  <1>3. ASSUME Event(s), NEW t \in Requests, Event(t)', req'[t].id = req[s].id PROVE t = s
    <2>1. Event(t) /\ req[t].id = req'[t].id
      BY <1>3, SameKinds DEF OthersStay
    <2>2. QED
      BY <1>1, <1>3, <2>1 DEF FollowOne
  <1>4. ASSUME req[s].pc = "eventWrite", NEW t \in Requests, Announces(t)'
        PROVE  req'[t].id # req[s].id
    BY <1>1, <1>4, SameKinds DEF OthersStay, FollowOne
  <1>5. req[s].pc \in {"stopAsk", "stopKey", "stopWrite", "eventLobby", "eventWrite"}
            => req[s].id \in Ids /\ placementLock'[req[s].id] = s
    BY <1>1 DEF FollowOne
  <1>6. Begun(s) => req[s].id \in 1..asked'
    BY <1>1 DEF FollowOne
  <1>7. Event(s) => req[s].id \in Ids /\ gamelift'[req[s].id] = "done"
    BY <1>1 DEF FollowOne
  <1>8. req[s].pc = "stop" => req[s].id \in Ids
    BY <1>1 DEF FollowOne
  <1>9. QED
    BY <1>1, <1>2, <1>3, <1>4, <1>5, <1>6, <1>7, <1>8, SameKinds DEF FollowOne

LEMMA WrittenStays ==
    ASSUME NEW r \in Requests, OthersStay(r), req[r].pc # "eventWrite", NEW i, Written(i)
    PROVE  Written(i)'
  BY DEF Written, OthersStay

LEMMA SaveFollow ==
    ASSUME StartInvariant, FollowInvariant, NEW r \in Requests, Save(r)
    PROVE  FollowInvariant'
  <1>0. PICK i : i = req[r].id
    OBVIOUS
  <1>1. /\ req[r].pc = "save" /\ FollowOne(r) /\ req[r] \in Request
        /\ UNCHANGED <<lobby, gamelift, asked, lobbyLock, placementLock>>
    BY InvariantParts DEF Save, At, FollowInvariant, locks, ReqTyped
  <1>2. req'[r].pc = "release" /\ SameLocals(r) /\ OthersStay(r)
    BY GotoOne, InvariantParts DEF PCs, Save
  <1>3. /\ Begun(r) /\ Unsaved(r) /\ Begun(r)' /\ ~Unsaved(r)' /\ ~Event(r)' /\ ~Announces(r)
        /\ ForLobby(r)' <=> req[r].forLobby
        /\ Announces(r)' <=> req[r].forLobby
        /\ ForLobby(r) <=> req[r].forLobby
    BY <1>1, <1>2 DEF Begun, Unsaved, ForLobby, Announces, Event, SameLocals
  <1>4. i \in 1..asked /\ i \in Ids
    BY <1>0, <1>1, <1>3, FollowTypes DEF FollowOne, Request, NoPlacement
  <1>5. /\ placement[i].status = "none" /\ lobby.placement # i
        /\ \A s \in Requests : Begun(s) /\ req[s].id = i => s = r
    BY <1>0, <1>1, <1>3 DEF FollowOne
  <1>6. /\ placement'[i].status = "pending" /\ placement'[i].forLobby = req[r].forLobby
        /\ \A j \in Ids : j # i => placement'[j] = placement[j]
    BY <1>0, <1>4, FollowTypes DEF Save, StoreTyped
  <1>7. "pending" \notin Outcomes /\ "none" \notin Outcomes
    BY BoundAssumption
  <1>8. FollowOne(r)'
    <2>1. \A s \in Requests : Begun(s)' /\ req'[s].id = req'[r].id => s = r
      BY <1>0, <1>2, <1>5, SameKinds DEF OthersStay, SameLocals
    <2>2. req'[r].id = i /\ req[r].id = i
      BY <1>0, <1>2 DEF SameLocals
    <2>3. Announces(r)' => Pending(i)'
      BY <1>3, <1>6 DEF Pending
    <2>4. ForLobby(r)' => lobbyLock' = r /\ lobby'.status \notin {"starting", "gone"}
      BY <1>1, <1>3 DEF FollowOne
    <2>5. QED
      BY <1>1, <1>2, <1>3, <1>4, <2>1, <2>2, <2>3, <2>4 DEF FollowOne
  <1>9. ASSUME NEW s \in Requests \ {r} PROVE FollowOne(s)'
    <2>1. FollowOne(s) /\ req[s].id \in Ids \cup {NoPlacement}
      BY FollowTypes DEF FollowInvariant, ReqTyped, Request
    <2>2. Begun(s) => req[s].id \in Ids /\ req[s].id # i
      BY <1>5, <2>1, FollowTypes DEF FollowOne, NoPlacement
    <2>3. Begun(s) => placement'[req[s].id] = placement[req[s].id]
      BY <1>6, <2>2
    <2>4. Unsaved(s) => Begun(s) /\ placement'[req[s].id].status = "none"
                                 /\ lobby'.placement # req[s].id
      BY <1>1, <2>1, <2>3 DEF FollowOne, Begun
    <2>5. ForLobby(s) => lobbyLock' = s /\ lobby'.status \notin {"starting", "gone"}
      BY <1>1, <2>1 DEF FollowOne
    <2>6. Announces(s) => placement'[req[s].id].status = "none" \/ Pending(req[s].id)'
      BY <1>2, <2>1, <2>3 DEF FollowOne, Announces, Begun, Pending, OthersStay
    <2>7. Event(s) => placement'[req[s].id].status \notin Outcomes
      BY <1>6, <1>7, <2>1 DEF FollowOne
    <2>8. req[s].pc \in {"eventLobby", "eventWrite"} =>
            req[s].id # i /\ placement'[req[s].id] = placement[req[s].id]
      BY <1>5, <1>6, <2>1 DEF FollowOne, Event
    <2>9. req[s].pc = "eventWrite" =>
                /\ Announces(r)' => req'[r].id # req[s].id
                /\ lobby'.placement = req[s].id => lobby'.status = Shown(req[s].outcome)
      BY <1>0, <1>1, <1>2, <2>1, <2>8 DEF FollowOne, SameLocals
    <2>10. /\ req[s].pc \in {"eventLobby", "eventWrite"} => placement'[req[s].id].status = "pending"
           /\ req[s].pc = "eventLobby" => placement'[req[s].id].forLobby
      BY <2>1, <2>8 DEF FollowOne
    <2>11. /\ Begun(r)' \/ Event(r)' => req'[r].id = req[r].id
           /\ req[s].id \in Ids /\ placementLock[req[s].id] = s => placementLock'[req[s].id] = s
      BY <1>1, <1>2 DEF SameLocals
    <2>12. QED
      BY <1>1, <1>2, <1>3, <2>4, <2>5, <2>6, <2>7, <2>9, <2>10, <2>11, OtherFollow
  <1>10. FollowAll'
    <2>1. \A j \in Ids : j > asked => j # i
      BY <1>4, FollowTypes DEF StoreTyped, Ids
    <2>2. \A j \in Ids : j > asked' => placement'[j].status = "none" /\ gamelift'[j] = "unknown"
      BY <1>1, <1>6, <2>1 DEF FollowInvariant, FollowAll
    <2>3. \A j \in Ids : placement'[j].status \in Outcomes => gamelift'[j] = "done"
      BY <1>1, <1>6, <1>7 DEF FollowInvariant, FollowAll
    <2>4. ASSUME NEW j \in Ids, Pending(j)', lobby'.status # "gone",
                 ~(lobby'.placement = j /\ lobby'.status = "starting"), ~Written(j)'
          PROVE  \E s \in Requests : Announces(s)' /\ req'[s].id = j
      <3>1. CASE j = i
        BY <1>0, <1>2, <1>3, <1>6, <2>4, <3>1 DEF Pending, SameLocals
      <3>2. CASE j # i
        <4>1. Pending(j) /\ ~Written(j)
          BY <1>1, <1>2, <1>6, <2>4, <3>2, WrittenStays DEF Pending
        <4>2. PICK s \in Requests : Announces(s) /\ req[s].id = j
          BY <1>1, <2>4, <4>1 DEF FollowInvariant, FollowAll
        <4>3. QED
          BY <1>2, <1>3, <4>2, SameKinds DEF OthersStay
      <3>3. QED
        BY <3>1, <3>2
    <2>5. ASSUME lobby.placement # NoPlacement
          PROVE  /\ lobby.status # "gone"
                 /\ \/ placement'[lobby.placement].status = "none"
                    \/ /\ placement'[lobby.placement].forLobby
                       /\ \/ Written(lobby.placement)'
                          \/ lobby.status = Shown(placement'[lobby.placement].status)
      <3>1. placement'[lobby.placement] = placement[lobby.placement]
        BY <1>5, <1>6, <2>5, FollowTypes
      <3>2. Written(lobby.placement) => Written(lobby.placement)'
        BY <1>1, <1>2 DEF Written, OthersStay
      <3>3. QED
        BY <2>5, <3>1, <3>2 DEF FollowInvariant, FollowAll
    <2>6. lobby.placement <= asked /\ lobby' = lobby /\ asked' = asked
      BY <1>1 DEF FollowInvariant, FollowAll
    <2>7. QED
      BY <2>2, <2>3, <2>4, <2>5, <2>6, <1>2, <1>1 DEF FollowAll, Written, OthersStay
  <1>11. QED
    BY <1>8, <1>9, <1>10 DEF FollowInvariant

LEMMA WriteStartingFollow ==
    ASSUME StartInvariant, FollowInvariant, NEW r \in Requests, WriteStarting(r)
    PROVE  FollowInvariant'
  <1>0. PICK i : i = req[r].id
    OBVIOUS
  <1>1. /\ req[r].pc = "starting" /\ FollowOne(r) /\ req[r] \in Request
        /\ UNCHANGED <<placement, gamelift, asked, placementLock>>
    BY InvariantParts DEF WriteStarting, At, FollowInvariant, ReqTyped
  <1>2. Begun(r) /\ ForLobby(r) /\ Announces(r)
    BY <1>1 DEF Begun, ForLobby, Announces
  <1>3. /\ i \in 1..asked /\ i \in Ids /\ i # NoPlacement /\ lobbyLock = r
        /\ lobby.status \notin {"starting", "gone"}
        /\ placement[i].status = "none" \/ Pending(i)
    BY <1>0, <1>1, <1>2, FollowTypes DEF FollowOne, Request, NoPlacement
  <1>4. lobby'.status = "starting" /\ lobby'.placement = i
    BY <1>0, <1>3, FollowTypes DEF WriteStarting, PlacementOf, StoreTyped
  <1>5. req'[r].pc = "idle" /\ OthersStay(r)
    BY EndOne, InvariantParts DEF WriteStarting
  <1>6. FollowOne(r)' /\ ~Announces(r)' /\ ~Begun(r)' /\ ~Event(r)'
    BY <1>5, AsideKnows DEF Aside, Begun, Unsaved, Event
  <1>7. \A s \in Requests \ {r} : ~ForLobby(s)
    BY <1>3 DEF FollowInvariant, FollowOne
  <1>8. ASSUME NEW s \in Requests \ {r} PROVE FollowOne(s)'
    <2>1. FollowOne(s) /\ ~Announces(s) /\ ~ForLobby(s)
      BY <1>7 DEF FollowInvariant, Announces
    <2>2. Unsaved(s) => placement'[req[s].id].status = "none" /\ lobby'.placement # req[s].id
      BY <1>0, <1>1, <1>2, <1>4, <2>1 DEF FollowOne, Begun
    <2>3. req[s].pc = "eventWrite" => lobby'.placement # req[s].id
      BY <1>0, <1>2, <1>4, <2>1 DEF FollowOne
    <2>4. QED
      BY <1>1, <1>5, <1>6, <2>1, <2>2, <2>3, OtherFollow DEF FollowOne
  <1>9. FollowAll'
    <2>1. lobby'.placement <= asked'
      BY <1>1, <1>3, <1>4
    <2>2. ASSUME NEW j \in Ids, Pending(j), ~Written(j)
          PROVE  lobby'.placement = j
      <3>1. PICK s \in Requests : Announces(s) /\ req[s].id = j
        BY <1>3, <2>2 DEF FollowInvariant, FollowAll
      <3>2. s = r
        BY <1>7, <3>1 DEF Announces
      <3>3. QED
        BY <1>0, <1>4, <3>1, <3>2
    <2>3. \A j \in Ids : Pending(j)' =>
             \/ lobby'.placement = j /\ lobby'.status = "starting"
             \/ Written(j)'
      BY <1>1, <1>4, <1>5, <2>2, WrittenStays DEF Pending
    <2>4. placement[i].status = "none" \/ /\ placement[i].forLobby
                                          /\ "starting" = Shown(placement[i].status)
      BY <1>3 DEF Pending, Shown
    <2>5. QED
      BY <1>1, <1>4, <2>1, <2>3, <2>4 DEF FollowInvariant, FollowAll
  <1>10. QED
    BY <1>6, <1>8, <1>9 DEF FollowInvariant

LEMMA StopWriteFollow ==
    ASSUME StartInvariant, FollowInvariant, NEW r \in Requests, StopWrite(r)
    PROVE  FollowInvariant'
  <1>0. PICK i : i = req[r].id
    OBVIOUS
  <1>1. /\ req[r].pc = "stopWrite" /\ FollowOne(r)
        /\ UNCHANGED <<lobby, gamelift, asked, lobbyLock>>
    BY DEF StopWrite, At, FollowInvariant
  <1>2. i \in Ids /\ placementLock[i] = r /\ "none" \notin Outcomes
    BY <1>0, <1>1, BoundAssumption DEF FollowOne
  <1>3. /\ placement'[i].status = "none"
        /\ \A j \in Ids : j # i => placement'[j] = placement[j]
    BY <1>0, <1>2, FollowTypes DEF StopWrite, StoreTyped, Absent
  <1>4. req'[r].pc = "idle" /\ OthersStay(r)
    BY EndOne, InvariantParts DEF StopWrite
  <1>5. FollowOne(r)' /\ ~Announces(r)' /\ ~Begun(r)' /\ ~Event(r)' /\ ~Announces(r)
    BY <1>1, <1>4, AsideKnows DEF Aside, Begun, Unsaved, Event, Announces
  <1>6. ASSUME NEW s \in Requests \ {r} PROVE FollowOne(s)'
    <2>1. FollowOne(s) /\ req[s].id \in Ids \cup {NoPlacement} /\ req'[s] = req[s]
      BY <1>4, FollowTypes DEF FollowInvariant, ReqTyped, Request, OthersStay
    <2>2. Begun(s) => req[s].id \in Ids
      BY <2>1, FollowTypes DEF FollowOne, NoPlacement
    <2>3. req[s].id \in Ids =>
            placement'[req[s].id].status = "none" \/ placement'[req[s].id] = placement[req[s].id]
      BY <1>3
    <2>4. Unsaved(s) => placement'[req[s].id].status = "none" /\ lobby'.placement # req[s].id
      BY <1>1, <2>1, <2>2, <2>3 DEF FollowOne, Begun
    <2>5. Announces(s) => placement'[req[s].id].status = "none" \/ Pending(req[s].id)'
      BY <2>1, <2>2, <2>3 DEF FollowOne, Announces, Begun, Pending
    <2>6. Event(s) => placement'[req[s].id].status \notin Outcomes
      BY <1>2, <2>1, <2>3 DEF FollowOne
    <2>7. req[s].pc \in {"eventLobby", "eventWrite"} =>
            req[s].id # i /\ placement'[req[s].id] = placement[req[s].id]
      BY <1>2, <1>3, <2>1 DEF FollowOne
    <2>8. ForLobby(s) => lobbyLock' = s /\ lobby'.status \notin {"starting", "gone"}
      BY <1>1, <2>1 DEF FollowOne
    <2>9. req[s].id \in Ids /\ placementLock[req[s].id] = s => placementLock'[req[s].id] = s
      BY DEF StopWrite, FreePlacements
    <2>10. /\ req[s].pc \in {"eventLobby", "eventWrite"} => placement'[req[s].id].status = "pending"
           /\ req[s].pc = "eventLobby" => placement'[req[s].id].forLobby
      BY <2>1, <2>7 DEF FollowOne
    <2>11. req[s].pc = "eventWrite" =>
             (lobby'.placement = req[s].id => lobby'.status = Shown(req[s].outcome))
      BY <1>1, <2>1 DEF FollowOne
    <2>12. QED
      BY <1>1, <1>4, <1>5, <2>4, <2>5, <2>6, <2>8, <2>9, <2>10, <2>11, OtherFollow
  <1>7. FollowAll'
    <2>1. \A j \in Ids : placement'[j].status = "none" \/ placement'[j] = placement[j]
      BY <1>3
    <2>2. ASSUME NEW j \in Ids, Pending(j)'
          PROVE  Pending(j)
      BY <2>1, <2>2 DEF Pending
    <2>3. ASSUME NEW j, Written(j) PROVE Written(j)'
      BY <1>1, <1>4, <2>3, WrittenStays
    <2>4. ASSUME NEW j, NEW s \in Requests, Announces(s), req[s].id = j
          PROVE  Announces(s)' /\ req'[s].id = j
      BY <1>4, <1>5, <2>4, SameKinds DEF OthersStay
    <2>5. \A j \in Ids : Pending(j)' =>
             \/ lobby.status = "gone"
             \/ lobby.placement = j /\ lobby.status = "starting"
             \/ Written(j)'
             \/ \E s \in Requests : Announces(s)' /\ req'[s].id = j
      BY <2>2, <2>3, <2>4 DEF FollowInvariant, FollowAll
    <2>6. lobby.placement # NoPlacement => lobby.placement \in Ids
      BY FollowTypes
    <2>7. QED
      BY <1>1, <1>2, <2>1, <2>3, <2>5, <2>6 DEF FollowInvariant, FollowAll
  <1>8. QED
    BY <1>5, <1>6, <1>7 DEF FollowInvariant

LEMMA DecideFollow ==
    ASSUME StartInvariant, FollowInvariant, NEW i \in Ids, NEW o \in Outcomes, Decide(i, o)
    PROVE  FollowInvariant'
  <1>1. UNCHANGED <<lobby, placement, asked, lobbyLock, placementLock, req>>
    BY DEF Decide, docs, locks
  <1>2. \A j \in Ids : /\ gamelift[j] = "done" => gamelift'[j] = "done"
                       /\ gamelift[j] = "unknown" => gamelift'[j] = "unknown"
    BY FollowTypes DEF Decide, StoreTyped
  <1>3. ASSUME NEW s \in Requests PROVE FollowOne(s)'
    BY <1>1, <1>2
    DEF FollowInvariant, FollowOne, Begun, Unsaved, ForLobby, Announces, Event, Pending
  <1>4. FollowAll'
    BY <1>1, <1>2
    DEF FollowInvariant, FollowAll, Unsaved, ForLobby, Announces, Event, Pending, Written
  <1>5. QED
    BY <1>3, <1>4 DEF FollowInvariant

LEMMA StutterFollow ==
    ASSUME FollowInvariant, UNCHANGED vars
    PROVE  FollowInvariant'
  <1>1. UNCHANGED <<lobby, placement, gamelift, asked, lobbyLock, placementLock, req>>
    BY DEF vars
  <1>2. ASSUME NEW s \in Requests PROVE FollowOne(s)'
    BY <1>1 DEF FollowInvariant, FollowOne, Begun, Unsaved, ForLobby, Announces, Event, Pending
  <1>3. FollowAll'
    BY <1>1 DEF FollowInvariant, FollowAll, Unsaved, ForLobby, Announces, Event, Pending, Written
  <1>4. QED
    BY <1>2, <1>3 DEF FollowInvariant

LEMMA RemoveLobbyFollow ==
    ASSUME StartInvariant, FollowInvariant, RemoveLobby
    PROVE  FollowInvariant'
  <1>1. /\ lobbyLock = None /\ lobby'.status = "gone" /\ lobby'.placement = NoPlacement
        /\ UNCHANGED <<placement, gamelift, asked, lobbyLock, placementLock, req>>
    BY DEF RemoveLobby, locks
  <1>2. \A s \in Requests : ~ForLobby(s)
    BY <1>1, NoneAssumption DEF FollowInvariant, FollowOne
  <1>3. ASSUME NEW s \in Requests PROVE FollowOne(s)'
    <2>1. FollowOne(s) /\ ~ForLobby(s) /\ ~Announces(s) /\ asked \in Nat
      BY <1>2, FollowTypes DEF FollowInvariant, Announces
    <2>2. Unsaved(s) => Begun(s)
      BY DEF Begun
    <2>3. Unsaved(s) => req[s].id # NoPlacement
      BY <2>1, <2>2 DEF FollowOne, NoPlacement
    <2>4. req[s].pc = "eventWrite" => req[s].id # NoPlacement
      BY <2>1, FollowTypes DEF FollowOne
    <2>5. /\ Begun(s)' <=> Begun(s)
          /\ Unsaved(s)' <=> Unsaved(s)
          /\ ForLobby(s)' <=> ForLobby(s)
          /\ Announces(s)' <=> Announces(s)
          /\ Event(s)' <=> Event(s)
      BY <1>1, SameKinds
    <2>6. \A t \in Requests : /\ Begun(t)' <=> Begun(t)
                              /\ Announces(t)' <=> Announces(t)
                              /\ Event(t)' <=> Event(t)
      BY <1>1, SameKinds
    <2>7. QED
      BY <1>1, <2>1, <2>3, <2>4, <2>5, <2>6 DEF FollowOne
  <1>4. FollowAll'
    <2>1. 0 <= asked
      BY FollowTypes
    <2>2. QED
      BY <1>1, <2>1 DEF FollowInvariant, FollowAll, NoPlacement
  <1>5. QED
    BY <1>3, <1>4 DEF FollowInvariant

\* The lobby that an event finds is the one of its placement.
LEMMA EventLobbyFollow ==
    ASSUME StartInvariant, FollowInvariant, NEW r \in Requests, EventLobby(r)
    PROVE  FollowInvariant'
  <1>0. PICK i : i = req[r].id
    OBVIOUS
  <1>1. /\ req[r].pc = "eventLobby" /\ FollowOne(r) /\ Event(r) /\ ~Announces(r)
        /\ lobbyLock = None
    BY DEF EventLobby, At, FollowInvariant, Event, Announces
  <1>2. CASE Answer(r)
    BY <1>1, <1>2, AnswerFollow
  <1>3. CASE ~Answer(r)
    <2>1. /\ lobby.status # "gone"
          /\ lobby' = IF req[r].outcome = "completed"
                      THEN [lobby EXCEPT !.status = "started", !.connected = TRUE]
                      ELSE [lobby EXCEPT !.status = req[r].outcome]
          /\ Goto(r, "eventWrite")
          /\ UNCHANGED <<placement, gamelift, asked, lobbyLock, placementLock>>
      BY <1>3 DEF EventLobby, locks
    <2>2. req'[r].pc = "eventWrite" /\ SameLocals(r) /\ OthersStay(r)
      BY <2>1, GotoOne, InvariantParts DEF PCs
    <2>3. \A s \in Requests : ~ForLobby(s) /\ ~Announces(s)
      BY <1>1, NoneAssumption DEF FollowInvariant, FollowOne, Announces
    <2>4. i \in Ids /\ i # NoPlacement /\ Pending(i)
      BY <1>0, <1>1, FollowTypes DEF FollowOne, Pending
    <2>5. ~Written(i)
      BY <1>0, <1>1 DEF Written, Event, FollowOne
    <2>6. lobby.placement = i /\ lobby.status = "starting"
      BY <2>1, <2>3, <2>4, <2>5 DEF FollowInvariant, FollowAll
    <2>7. /\ lobby'.placement = i /\ lobby'.status = Shown(req[r].outcome)
          /\ lobby'.status # "gone"
      <3>1. req[r].outcome \in Outcomes
        BY <1>1, InvariantParts DEF Own
      <3>2. CASE req[r].outcome = "completed"
        BY <2>1, <2>6, <3>2, FollowTypes DEF StoreTyped, Shown
      <3>3. CASE req[r].outcome # "completed"
        BY <2>1, <2>6, <3>1, <3>3, FollowTypes, BoundAssumption DEF StoreTyped, Shown
      <3>4. QED
        BY <3>2, <3>3
    <2>8. /\ Event(r)' /\ ~Announces(r)' /\ ~Begun(r)' /\ ~Unsaved(r)' /\ ~ForLobby(r)'
      BY <2>2 DEF Announces, Begun, Unsaved, ForLobby, Event
    <2>9. \A s \in Requests : ~Announces(s)'
      BY <2>2, <2>3, <2>8, SameKinds DEF OthersStay
    <2>10. FollowOne(r)'
      <3>1. \A s \in Requests : Event(s)' /\ req'[s].id = req'[r].id => s = r
        BY <1>1, <2>2, SameKinds DEF OthersStay, SameLocals, FollowOne
      <3>2. QED
        BY <1>1, <2>1, <2>2, <2>7, <2>8, <2>9, <3>1 DEF FollowOne, SameLocals
    <2>11. ASSUME NEW s \in Requests \ {r} PROVE FollowOne(s)'
      <3>1. FollowOne(s) /\ ~ForLobby(s) /\ ~Announces(s)
        BY <2>3 DEF FollowInvariant
      <3>2. Unsaved(s) => placement'[req[s].id].status = "none" /\ lobby'.placement # req[s].id
        BY <2>1, <2>6, <2>7, <3>1 DEF FollowOne
      <3>3. Event(s) => req[s].id # i
        BY <1>0, <1>1 DEF FollowOne
      <3>4. req[s].pc = "eventWrite" => lobby'.placement # req[s].id
        BY <2>7, <3>3 DEF Event
      <3>5. Begun(r)' \/ Event(r)' => req'[r].id = req[r].id
        BY <2>2 DEF SameLocals
      <3>6. QED
        BY <1>1, <2>1, <2>2, <2>8, <3>1, <3>2, <3>4, <3>5, OtherFollow DEF FollowOne
    <2>12. FollowAll'
      <3>1. Written(i)'
        BY <1>0, <2>2 DEF Written, SameLocals
      <3>2. \A j \in Ids : Pending(j)' => Written(j)'
        <4>1. ASSUME NEW j \in Ids, Pending(j), j # i PROVE Written(j)
          BY <2>1, <2>3, <2>6, <4>1 DEF FollowInvariant, FollowAll
        <4>2. \A j \in Ids : Pending(j)' <=> Pending(j)
          BY <2>1 DEF Pending
        <4>3. QED
          BY <1>1, <2>2, <3>1, <4>1, <4>2, WrittenStays
      <3>3. placement'[i].forLobby
        BY <2>1, <2>4 DEF Pending
      <3>4. QED
        BY <2>1, <2>6, <2>7, <3>1, <3>2, <3>3 DEF FollowInvariant, FollowAll
    <2>13. QED
      BY <2>10, <2>11, <2>12 DEF FollowInvariant
  <1>4. QED
    BY <1>2, <1>3

LEMMA EventWriteFollow ==
    ASSUME StartInvariant, FollowInvariant, NEW r \in Requests, EventWrite(r)
    PROVE  FollowInvariant'
  <1>0. PICK i : i = req[r].id
    OBVIOUS
  <1>1. /\ req[r].pc = "eventWrite" /\ FollowOne(r) /\ Event(r) /\ ~Announces(r)
        /\ UNCHANGED <<lobby, gamelift, asked, lobbyLock>>
        /\ req[r].outcome \in Outcomes
    BY InvariantParts DEF EventWrite, At, FollowInvariant, Event, Announces, Own
  <1>2. /\ i \in Ids /\ placementLock[i] = r /\ gamelift[i] = "done"
        /\ placement[i].status = "pending" /\ "pending" \notin Outcomes /\ "none" \notin Outcomes
        /\ \A s \in Requests : Event(s) /\ req[s].id = i => s = r
        /\ \A s \in Requests : Announces(s) => req[s].id # i
        /\ lobby.placement = i => lobby.status = Shown(req[r].outcome)
    BY <1>0, <1>1, BoundAssumption DEF FollowOne
  <1>3. /\ placement'[i].status = req[r].outcome
        /\ placement'[i].forLobby = placement[i].forLobby
        /\ \A j \in Ids : j # i => placement'[j] = placement[j]
    BY <1>0, <1>2, FollowTypes DEF EventWrite, StoreTyped
  <1>4. req'[r].pc = "idle" /\ OthersStay(r)
    BY EndOne, InvariantParts DEF EventWrite
  <1>5. FollowOne(r)' /\ ~Announces(r)' /\ ~Begun(r)' /\ ~Event(r)'
    BY <1>4, AsideKnows DEF Aside, Begun, Unsaved, Event
  <1>6. ASSUME NEW s \in Requests \ {r} PROVE FollowOne(s)'
    <2>1. FollowOne(s) /\ req[s].id \in Ids \cup {NoPlacement} /\ req'[s] = req[s]
      BY <1>4, FollowTypes DEF FollowInvariant, ReqTyped, Request, OthersStay
    <2>2. Unsaved(s) \/ Announces(s) \/ Event(s) => req[s].id \in Ids /\ req[s].id # i
      BY <1>2, <2>1, FollowTypes DEF FollowOne, Begun, Announces, NoPlacement
    <2>3. Unsaved(s) \/ Announces(s) \/ Event(s) =>
            placement'[req[s].id] = placement[req[s].id]
      BY <1>3, <2>2
    <2>4. Unsaved(s) => placement'[req[s].id].status = "none" /\ lobby'.placement # req[s].id
      BY <1>1, <2>1, <2>3 DEF FollowOne
    <2>5. Announces(s) => placement'[req[s].id].status = "none" \/ Pending(req[s].id)'
      BY <2>1, <2>3 DEF FollowOne, Pending
    <2>6. /\ Event(s) => placement'[req[s].id].status \notin Outcomes
          /\ req[s].pc \in {"eventLobby", "eventWrite"} => placement'[req[s].id].status = "pending"
          /\ req[s].pc = "eventLobby" => placement'[req[s].id].forLobby
      BY <2>1, <2>3 DEF FollowOne, Event
    <2>7. ForLobby(s) => lobbyLock' = s /\ lobby'.status \notin {"starting", "gone"}
      BY <1>1, <2>1 DEF FollowOne
    <2>8. req[s].id \in Ids /\ placementLock[req[s].id] = s => placementLock'[req[s].id] = s
      BY DEF EventWrite, FreePlacements
    <2>9. req[s].pc = "eventWrite" =>
             (lobby'.placement = req[s].id => lobby'.status = Shown(req[s].outcome))
      BY <1>1, <2>1 DEF FollowOne
    <2>10. QED
      BY <1>1, <1>4, <1>5, <2>4, <2>5, <2>6, <2>7, <2>8, <2>9, OtherFollow
  <1>7. FollowAll'
    <2>1. ASSUME NEW j \in Ids, j # i
          PROVE  /\ Pending(j)' <=> Pending(j)
                 /\ Written(j) => Written(j)'
      BY <1>0, <1>3, <1>4, <2>1 DEF Pending, Written, OthersStay
    <2>2. ~Pending(i)'
      BY <1>1, <1>2, <1>3 DEF Pending
    <2>3. ASSUME NEW j, NEW s \in Requests, Announces(s), req[s].id = j
          PROVE  Announces(s)' /\ req'[s].id = j
      BY <1>1, <1>4, <2>3, SameKinds DEF OthersStay
    <2>4. \A j \in Ids : Pending(j)' =>
             \/ lobby.status = "gone"
             \/ lobby.placement = j /\ lobby.status = "starting"
             \/ Written(j)'
             \/ \E s \in Requests : Announces(s)' /\ req'[s].id = j
      BY <2>1, <2>2, <2>3 DEF FollowInvariant, FollowAll
    <2>5. \A j \in Ids : /\ j > asked => placement'[j].status = "none" /\ gamelift[j] = "unknown"
                         /\ placement'[j].status \in Outcomes => gamelift[j] = "done"
      BY <1>2, <1>3 DEF FollowInvariant, FollowAll
    <2>6. ASSUME lobby.placement # NoPlacement
          PROVE  /\ lobby.status # "gone"
                 /\ \/ placement'[lobby.placement].status = "none"
                    \/ /\ placement'[lobby.placement].forLobby
                       /\ \/ Written(lobby.placement)'
                          \/ lobby.status = Shown(placement'[lobby.placement].status)
      <3>1. CASE lobby.placement = i
        BY <1>2, <1>3, <2>6, <3>1 DEF FollowInvariant, FollowAll
      <3>2. CASE lobby.placement # i
        <4>1. PICK k : k = lobby.placement
          OBVIOUS
        <4>2. /\ k \in Ids /\ placement'[k] = placement[k]
              /\ Written(k) => (\E s \in Requests : req'[s].pc = "eventWrite" /\ req'[s].id = k)
          BY <1>3, <2>1, <2>6, <3>2, <4>1, FollowTypes DEF Written
        <4>3. lobby' = lobby
          BY <1>1
        <4>4. QED
          BY <2>6, <4>1, <4>2, <4>3 DEF FollowInvariant, FollowAll, Written
      <3>3. QED
        BY <3>1, <3>2
    <2>7. lobby.placement <= asked /\ lobby' = lobby /\ UNCHANGED <<asked, gamelift>>
      BY <1>1 DEF FollowInvariant, FollowAll
    <2>8. QED
      BY <2>4, <2>5, <2>6, <2>7 DEF FollowAll
  <1>8. QED
    BY <1>5, <1>6, <1>7 DEF FollowInvariant

LEMMA InitFollow == Init => FollowInvariant
  <1> SUFFICES ASSUME Init PROVE FollowInvariant
    OBVIOUS
  <1>1. \A r \in Requests : req[r].pc = "idle"
    BY IdleTyped DEF Init
  <1>2. ASSUME NEW r \in Requests PROVE FollowOne(r)
    BY <1>1 DEF FollowOne, Begun, Unsaved, ForLobby, Announces, Event
  <1>3. FollowAll
    BY BoundAssumption DEF Init, FollowAll, Absent, NoPlacement, Pending
  <1>4. QED
    BY <1>2, <1>3 DEF FollowInvariant

LEMMA NextFollow ==
    ASSUME Leases = FALSE, Duplicates = FALSE, StartInvariant, FollowInvariant, [Next]_vars
    PROVE  FollowInvariant'
  <1>1. ASSUME NEW r \in Requests,
               StartMatch(r) \/ StartStop(r) \/ StartGet(r) \/ Deliver(r)
        PROVE  FollowInvariant'
    BY <1>1, StartMatchFollow, StartStopFollow, StartGetFollow, DeliverFollow
  <1>2. ASSUME NEW r \in Requests, Serve(r) PROVE FollowInvariant'
    <2>1. CASE Check(r) \/ Drop(r) \/ LockLobby(r) \/ LockPlayer(r) \/ AskGameLift(r)
               \/ Recheck(r)
      BY <2>1, CheckFollow, LockLobbyFollow, LockPlayerFollow, AskGameLiftFollow, RecheckFollow
    <2>2. CASE Abandon(r) \/ Save(r) \/ ReleasePlayers(r) \/ WriteStarting(r)
      BY <2>2, AbandonFollow, SaveFollow, ReleasePlayersFollow, WriteStartingFollow
    <2>3. CASE StopLocked(r) \/ StopAsk(r) \/ StopKey(r) \/ StopWrite(r)
      BY <2>3, StopLockedFollow, StopAskFollow, StopKeyFollow, StopWriteFollow
    <2>4. CASE GetLocked(r) \/ EventLocked(r) \/ EventLobby(r) \/ EventWrite(r)
      BY <2>4, GetLockedFollow, EventLockedFollow, EventLobbyFollow, EventWriteFollow
    <2>5. CASE EnsureSession(r)
      BY <2>5, AnswerFollow DEF EnsureSession, At, Announces
    <2>6. QED
      BY <1>2, <2>1, <2>2, <2>3, <2>4, <2>5 DEF Serve
  <1>3. ASSUME NEW r \in Requests, Expire(r) PROVE FALSE
    BY <1>3 DEF Expire, LeaseCanExpire
  <1>4. ASSUME NEW i \in Ids, NEW o \in Outcomes, Decide(i, o) PROVE FollowInvariant'
    BY <1>4, DecideFollow
  <1>5. CASE RemoveLobby
    BY <1>5, RemoveLobbyFollow
  <1>6. CASE UNCHANGED vars
    BY <1>6, StutterFollow
  <1>7. QED
    BY <1>1, <1>2, <1>3, <1>4, <1>5, <1>6 DEF Next

\* The lobby's status is that of its latest placement when nobody has the lock of
\* either (match_placements.py:311, 686, 780, 829, 878), whatever the starts,
\* restarts, stops and deletions, as long as no lease runs out under its owner and
\* GameLift delivers each event once.
THEOREM LobbyShowsItsPlacement ==
    ASSUME Leases = FALSE, Duplicates = FALSE
    PROVE  Spec => []LobbyFollowsItsMatch
  <1>1. StartInvariant /\ FollowInvariant /\ [Next]_vars => StartInvariant' /\ FollowInvariant'
    BY NextStart, NextFollow
  <1>2. StartInvariant /\ FollowInvariant => LobbyFollowsItsMatch
    <2>1. ASSUME NEW i, Written(i), i \in Ids, FollowInvariant PROVE placementLock[i] # None
      BY <2>1, NoneAssumption DEF Written, FollowInvariant, FollowOne
    <2>2. QED
      BY <2>1, FollowTypes DEF LobbyFollowsItsMatch, FollowInvariant, FollowAll
  <1>3. QED
    BY <1>1, <1>2, InitStart, InitFollow, PTL DEF Spec

=============================================================================
