---------------------------- MODULE PartiesProofs ----------------------------
(****************************************************************************)
(* Theorems about Parties, for every set of players and of request slots    *)
(* and every bound: what holds however requests interleave, then what holds *)
(* when requests are served one at a time, up to the refinement of          *)
(* PartyRegistry.                                                           *)
(****************************************************************************)
EXTENDS Parties, FiniteSetTheorems, TLAPS

----------------------------------------------------------------------------
(* Type correctness.                                                        *)

Typed == TypeOK /\ LocalOK

\* Nothing a request does touches the locals of another one.
LEMMA BecomeTyped ==
    ASSUME Typed, NEW r \in Requests, NEW rec \in Request, Local(rec), Become(r, rec)
    PROVE  req' \in [Requests -> Request] /\ LocalOK'
  BY DEF Typed, TypeOK, LocalOK, Become

LEMMA IdleTyped == Idle \in Request /\ Local(Idle)
  BY NoneAssumption DEF Idle, Request, Local, PCs, InviteIds, NoParty, PartyIds

LEMMA EndTyped ==
    ASSUME Typed, NEW r \in Requests, End(r)
    PROVE  req' \in [Requests -> Request] /\ LocalOK'
  BY BecomeTyped, IdleTyped DEF End

\* Going to pc keeps the locals well formed if they are what pc needs.
LEMMA GotoTyped ==
    ASSUME Typed, NEW r \in Requests, NEW pc \in PCs, Goto(r, pc),
           Local([req[r] EXCEPT !.pc = pc])
    PROVE  req' \in [Requests -> Request] /\ LocalOK'
  <1>1. [req[r] EXCEPT !.pc = pc] \in Request
    BY DEF Typed, TypeOK, Request
  <1>2. QED
    BY <1>1, BecomeTyped DEF Goto

LEMMA JoinStepType ==
    ASSUME NEW n PROVE JoinStep(n) \in PCs /\ JoinStep(n) \in {"acceptWatch", "acceptCount"}
                       /\ (JoinStep(n) = "acceptCount" => n # NoParty)
  BY DEF JoinStep, PCs

LEMMA ReturnTyped ==
    ASSUME Typed, NEW r \in Requests, Return(r), ~At(r, "idle")
    PROVE  req' \in [Requests -> Request] /\ LocalOK'
  <1>1. CASE req[r].nested
    <2> DEFINE x == req[r]
               pc == JoinStep(x.target)
               rec == [Idle EXCEPT
                    !.pc = pc, !.player = x.player, !.other = x.other,
                    !.invite = x.invite, !.force = x.force, !.target = x.target]
    <2>1. x \in Request /\ Local(x) /\ x.nested /\ x.pc # "idle"
      BY <1>1 DEF Typed, TypeOK, LocalOK, At
    <2>2. Idle \in Request /\ ~Idle.nested /\ ~Idle.forming
      BY IdleTyped DEF Idle
    <2>3. pc \in PCs /\ pc \in {"acceptWatch", "acceptCount"}
          /\ (pc = "acceptCount" => x.target # NoParty)
      BY JoinStepType
    <2> HIDE DEF pc, x
    <2>4. rec \in Request
      BY <2>1, <2>2, <2>3 DEF Request
    <2>5. Local(rec)
      BY <2>1, <2>2, <2>3 DEF Request, Local
    <2>6. Become(r, rec)
      BY <1>1 DEF Return, x, pc
    <2>7. QED
      BY <2>4, <2>5, <2>6, BecomeTyped
  <1>2. CASE ~req[r].nested
    BY <1>2, EndTyped DEF Return
  <1>3. QED
    BY <1>1, <1>2

LEMMA WatchTyped ==
    ASSUME Typed, NEW r \in Requests, NEW keys \in SUBSET Keys, Watch(r, keys)
    PROVE  watched' \in [Requests -> SUBSET Keys] /\ dirty' \in SUBSET Requests
  BY DEF Typed, TypeOK, Watch

LEMMA CommitTyped ==
    ASSUME Typed, NEW r \in Requests, NEW set, Commit(r, set)
    PROVE  watched' \in [Requests -> SUBSET Keys] /\ dirty' \in SUBSET Requests
  BY DEF Typed, TypeOK, Commit

\* A failed EXEC, and a request that ends without a write.
LEMMA RetryTyped ==
    ASSUME Typed, NEW r \in Requests, NEW pc \in PCs, Retry(r, pc),
           Local([req[r] EXCEPT !.pc = pc])
    PROVE  Typed'
  <1>1. req' \in [Requests -> Request] /\ LocalOK'
    BY GotoTyped, EndTyped DEF Retry
  <1>2. watched' \in [Requests -> SUBSET Keys] /\ dirty' \in SUBSET Requests
    BY WatchTyped DEF Retry, Unwatch
  <1>3. QED
    BY <1>1, <1>2 DEF Typed, TypeOK, Retry, store

LEMMA AnswerTyped ==
    ASSUME Typed, NEW r \in Requests, Answer(r)
    PROVE  Typed'
  <1>1. req' \in [Requests -> Request] /\ LocalOK'
    BY EndTyped DEF Answer
  <1>2. watched' \in [Requests -> SUBSET Keys] /\ dirty' \in SUBSET Requests
    BY WatchTyped DEF Answer, Unwatch
  <1>3. QED
    BY <1>1, <1>2 DEF Typed, TypeOK, Answer, store

\* The keys a request watches exist in the model.
LEMMA KeysTyped ==
    /\ \A p \in Players : PlayerKey(p) \in Keys /\ InvitesKey(p) \in Keys
    /\ \A n \in PartyIds : PartyKey(n) \in Keys
    /\ \A i \in InviteIds : InviteKey(i) \in Keys
  BY DEF Keys

LEMMA TypedAccept ==
    ASSUME Typed, NEW r \in Requests,
           \/ StartAccept(r) \/ AcceptRead(r) \/ AcceptCount(r) \/ AcceptFull(r)
           \/ AcceptWatch(r) \/ AcceptExec(r)
    PROVE  Typed'
  <1> DEFINE x == req[r]
  <1>x. x \in Request /\ Local(x)
    BY DEF Typed, TypeOK, LocalOK
  <1>1. CASE StartAccept(r)
    <2>1. PICK v \in invites, force \in BOOLEAN :
              Become(r, [Idle EXCEPT !.pc = "acceptRead", !.player = v.to,
                            !.other = v.from, !.invite = v.id, !.force = force])
      BY <1>1 DEF StartAccept
    <2> DEFINE rec == [Idle EXCEPT !.pc = "acceptRead", !.player = v.to,
                            !.other = v.from, !.invite = v.id, !.force = force]
    <2>2. v.to \in Players /\ v.from \in Players /\ v.id \in InviteIds
      BY DEF Typed, TypeOK, Invite
    <2>3. Idle \in Request /\ ~Idle.nested /\ "acceptRead" \in PCs
      BY IdleTyped DEF Idle, PCs
    <2>4. rec \in Request
      BY <2>2, <2>3 DEF Request
    <2>5. Local(rec)
      BY <2>2, <2>3 DEF Request, Local
    <2>6. req' \in [Requests -> Request] /\ LocalOK'
      BY <2>1, <2>4, <2>5, BecomeTyped
    <2>7. QED
      BY <1>1, <2>6 DEF StartAccept, Typed, TypeOK, store
  <1>2. CASE AcceptRead(r)
    <2> DEFINE p == x.player
               from == x.other
               read == [x EXCEPT !.target = playerParty[from], !.forming = FALSE]
    <2>1. p \in Players /\ from \in Players /\ x.invite \in InviteIds
      BY <1>x, <1>2 DEF AcceptRead, At, Local
    <2>2. playerParty[p] \in PartyIds \cup {NoParty}
          /\ playerParty[from] \in PartyIds \cup {NoParty}
      BY <2>1 DEF Typed, TypeOK
    <2>3. read \in Request /\ Local(read)
      BY <1>x, <1>2, <2>1, <2>2 DEF Request, Local, AcceptRead, At
    <2>4. read.player = p /\ read.other = from /\ read.invite = x.invite
          /\ read.target = playerParty[from] /\ ~read.forming
      BY <1>x DEF Request
    <2> HIDE DEF read
    <2>5. req' \in [Requests -> Request] /\ LocalOK'
      <3>1. CASE End(r)
        BY <3>1, EndTyped
      <3>2. CASE playerParty[p] # NoParty /\
                 Become(r, [read EXCEPT !.pc = "leaveRead", !.nested = TRUE,
                                        !.leaving = playerParty[p]])
        <4> DEFINE rec == [read EXCEPT !.pc = "leaveRead", !.nested = TRUE,
                                       !.leaving = playerParty[p]]
        <4>1. "leaveRead" \in PCs
          BY DEF PCs
        <4>2. rec \in Request
          BY <4>1, <2>2, <2>3 DEF Request
        <4>3. Local(rec)
          BY <3>2, <2>1, <2>2, <2>3, <2>4 DEF Request, Local
        <4>4. QED
          BY <3>2, <4>2, <4>3, BecomeTyped
      <3>3. CASE Become(r, [read EXCEPT !.pc = JoinStep(playerParty[from])])
        <4> DEFINE pc == JoinStep(playerParty[from])
                   rec == [read EXCEPT !.pc = pc]
        <4>1. pc \in PCs /\ pc \in {"acceptWatch", "acceptCount"}
              /\ (pc = "acceptCount" => playerParty[from] # NoParty)
          BY JoinStepType
        <4> HIDE DEF pc
        <4>2. rec \in Request
          BY <4>1, <2>3 DEF Request
        <4>3. Local(rec)
          BY <4>1, <2>1, <2>2, <2>3, <2>4 DEF Request, Local
        <4>4. Become(r, rec)
          BY <3>3 DEF pc
        <4>5. QED
          BY <4>2, <4>3, <4>4, BecomeTyped
      <3>4. QED
        BY <1>2, <3>1, <3>2, <3>3 DEF AcceptRead, read
    <2>6. QED
      BY <1>2, <2>5 DEF AcceptRead, Typed, TypeOK, store
  <1>3. CASE AcceptCount(r)
    <2>1. req' \in [Requests -> Request] /\ LocalOK'
      <3>1. "acceptFull" \in PCs /\ "acceptWatch" \in PCs
        BY DEF PCs
      <3>2. Goto(r, "acceptFull") \/ Goto(r, "acceptWatch")
        BY <1>3 DEF AcceptCount
      <3>3. Local([x EXCEPT !.pc = "acceptFull"]) /\ Local([x EXCEPT !.pc = "acceptWatch"])
        BY <1>x, <1>3 DEF AcceptCount, At, Request, Local
      <3>4. QED
        BY <3>1, <3>2, <3>3, GotoTyped
    <2>2. QED
      BY <1>3, <2>1 DEF AcceptCount, Typed, TypeOK, store
  <1>4. CASE AcceptFull(r)
    <2>1. req' \in [Requests -> Request] /\ LocalOK'
      BY <1>4, EndTyped DEF AcceptFull
    <2>2. watched' \in [Requests -> SUBSET Keys] /\ dirty' \in SUBSET Requests
      BY <1>4, CommitTyped DEF AcceptFull
    <2>3. QED
      BY <1>4, <2>1, <2>2 DEF AcceptFull, Typed, TypeOK
  <1>5. CASE AcceptWatch(r)
    <2>1. x.player \in Players /\ x.other \in Players /\ x.invite \in InviteIds
          /\ x.target \in PartyIds \cup {NoParty} /\ "acceptExec" \in PCs
      BY <1>x, <1>5 DEF AcceptWatch, At, Local, Request, PCs
    <2>2. watched' \in [Requests -> SUBSET Keys] /\ dirty' \in SUBSET Requests
      BY <1>5, <2>1, KeysTyped, WatchTyped DEF AcceptWatch
    <2>3. CASE x.target # NoParty /\ Goto(r, "acceptExec") /\ UNCHANGED partySeq
      <3>1. Local([x EXCEPT !.pc = "acceptExec"])
        BY <1>x, <2>1, <2>3 DEF Request, Local
      <3>2. QED
        BY <1>5, <2>1, <2>2, <2>3, <3>1, GotoTyped DEF AcceptWatch, Typed, TypeOK
    <2>4. CASE partySeq < MaxParties /\ partySeq' = PartySeqTaken /\
               Become(r, [x EXCEPT !.pc = "acceptExec", !.target = partySeq + 1,
                                   !.forming = TRUE])
      <3> DEFINE rec == [x EXCEPT !.pc = "acceptExec", !.target = partySeq + 1,
                                  !.forming = TRUE]
      <3>1. partySeq + 1 \in PartyIds /\ partySeq' \in 0..MaxParties
        BY <2>4, BoundAssumption DEF PartyIds, PartySeqTaken, Typed, TypeOK
      <3>2. rec \in Request /\ Local(rec)
        BY <1>x, <2>1, <3>1 DEF Request, Local
      <3>3. QED
        BY <1>5, <2>2, <2>4, <3>1, <3>2, BecomeTyped DEF AcceptWatch, Typed, TypeOK
    <2>5. QED
      BY <1>5, <2>3, <2>4 DEF AcceptWatch
  <1>6. CASE AcceptExec(r)
    <2>1. x.player \in Players /\ x.other \in Players /\ x.invite \in InviteIds
          /\ x.target \in PartyIds /\ At(r, "acceptExec")
      BY <1>x, <1>6 DEF AcceptExec, At, Local
    <2>2. CASE Retry(r, "acceptRead")
      <3>1. Local([x EXCEPT !.pc = "acceptRead"]) /\ "acceptRead" \in PCs
        BY <1>x, <2>1 DEF At, Request, Local, PCs
      <3>2. QED
        BY <2>2, <3>1, RetryTyped
    <2>3. CASE ~Retry(r, "acceptRead")
      <3>1. req' \in [Requests -> Request] /\ LocalOK'
        BY <1>6, <2>3, EndTyped DEF AcceptExec
      <3>2. watched' \in [Requests -> SUBSET Keys] /\ dirty' \in SUBSET Requests
        BY <1>6, <2>3, CommitTyped DEF AcceptExec
      <3>3. QED
        BY <1>6, <2>1, <2>3, <3>1, <3>2 DEF AcceptExec, Typed, TypeOK
    <2>4. QED
      BY <2>2, <2>3
  <1>7. QED
    BY <1>1, <1>2, <1>3, <1>4, <1>5, <1>6

LEMMA TypedLeave ==
    ASSUME Typed, NEW r \in Requests,
           \/ StartLeave(r) \/ LeaveRead(r) \/ LeaveCheck(r) \/ LeaveExec(r)
           \/ LeaveCount(r) \/ DisbandRead(r) \/ DisbandExec(r)
    PROVE  Typed'
  <1> DEFINE x == req[r]
  <1>x. x \in Request /\ Local(x)
    BY DEF Typed, TypeOK, LocalOK
  <1>1. CASE StartLeave(r)
    <2>1. PICK p \in Players :
              /\ playerParty[p] # NoParty
              /\ Become(r, [Idle EXCEPT !.pc = "leaveRead", !.player = p,
                                        !.leaving = playerParty[p]])
      BY <1>1 DEF StartLeave
    <2> DEFINE rec == [Idle EXCEPT !.pc = "leaveRead", !.player = p,
                                   !.leaving = playerParty[p]]
    <2>2. Idle \in Request /\ ~Idle.nested /\ "leaveRead" \in PCs
      BY IdleTyped DEF Idle, PCs
    <2>3. playerParty[p] \in PartyIds
      BY <2>1 DEF Typed, TypeOK
    <2>4. rec \in Request
      BY <2>2, <2>3 DEF Request
    <2>5. Local(rec)
      BY <2>2, <2>3 DEF Request, Local
    <2>6. req' \in [Requests -> Request] /\ LocalOK'
      BY <2>1, <2>4, <2>5, BecomeTyped
    <2>7. QED
      BY <1>1, <2>6 DEF StartLeave, Typed, TypeOK, store
  <1>2. CASE LeaveRead(r)
    <2>1. x.player \in Players /\ x.leaving \in PartyIds /\ At(r, "leaveRead")
      BY <1>x, <1>2 DEF LeaveRead, At, Local
    <2>2. CASE Answer(r)
      BY <2>2, AnswerTyped
    <2>3. CASE ~Answer(r)
      <3>1. Local([x EXCEPT !.pc = "leaveCheck"]) /\ "leaveCheck" \in PCs
        BY <1>x, <2>1 DEF At, Request, Local, PCs
      <3>2. req' \in [Requests -> Request] /\ LocalOK'
        BY <1>2, <2>3, <3>1, GotoTyped DEF LeaveRead
      <3>3. watched' \in [Requests -> SUBSET Keys] /\ dirty' \in SUBSET Requests
        BY <1>2, <2>1, <2>3, KeysTyped, WatchTyped DEF LeaveRead
      <3>4. QED
        BY <1>2, <2>3, <3>2, <3>3 DEF LeaveRead, Typed, TypeOK, store
    <2>4. QED
      BY <2>2, <2>3
  <1>3. CASE LeaveCheck(r)
    <2>1. x.player \in Players /\ x.leaving \in PartyIds /\ At(r, "leaveCheck")
          /\ ~At(r, "idle")
      BY <1>x, <1>3 DEF LeaveCheck, At, Local
    <2>2. CASE Return(r) /\ Unwatch(r)
      <3>1. req' \in [Requests -> Request] /\ LocalOK'
        BY <2>1, <2>2, ReturnTyped
      <3>2. watched' \in [Requests -> SUBSET Keys] /\ dirty' \in SUBSET Requests
        BY <2>2, WatchTyped DEF Unwatch
      <3>3. QED
        BY <1>3, <3>1, <3>2 DEF LeaveCheck, Typed, TypeOK, store
    <2>3. CASE Become(r, [x EXCEPT !.pc = "leaveExec", !.sent = sent[x.player]])
               /\ UNCHANGED <<watched, dirty>>
      <3> DEFINE rec == [x EXCEPT !.pc = "leaveExec", !.sent = sent[x.player]]
      <3>1. sent[x.player] \in SUBSET InviteIds /\ "leaveExec" \in PCs
        BY <2>1 DEF Typed, TypeOK, PCs
      <3>2. rec \in Request /\ Local(rec)
        BY <1>x, <2>1, <3>1 DEF At, Request, Local
      <3>3. QED
        BY <1>3, <2>3, <3>2, BecomeTyped DEF LeaveCheck, Typed, TypeOK, store
    <2>4. QED
      BY <1>3, <2>2, <2>3 DEF LeaveCheck
  <1>4. CASE LeaveExec(r)
    <2>1. x.player \in Players /\ x.leaving \in PartyIds /\ At(r, "leaveExec")
      BY <1>x, <1>4 DEF LeaveExec, At, Local
    <2>2. CASE Retry(r, "leaveRead")
      <3>1. Local([x EXCEPT !.pc = "leaveRead"]) /\ "leaveRead" \in PCs
        BY <1>x, <2>1 DEF At, Request, Local, PCs
      <3>2. QED
        BY <2>2, <3>1, RetryTyped
    <2>3. CASE ~Retry(r, "leaveRead")
      <3>1. Local([x EXCEPT !.pc = "leaveCount"]) /\ "leaveCount" \in PCs
        BY <1>x, <2>1 DEF At, Request, Local, PCs
      <3>2. req' \in [Requests -> Request] /\ LocalOK'
        BY <1>4, <2>3, <3>1, GotoTyped DEF LeaveExec
      <3>3. watched' \in [Requests -> SUBSET Keys] /\ dirty' \in SUBSET Requests
        BY <1>4, <2>3, CommitTyped DEF LeaveExec
      <3>4. QED
        BY <1>4, <2>1, <2>3, <3>2, <3>3 DEF LeaveExec, Typed, TypeOK
    <2>4. QED
      BY <2>2, <2>3
  <1>5. CASE LeaveCount(r)
    <2>1. x.player \in Players /\ x.leaving \in PartyIds /\ At(r, "leaveCount")
          /\ ~At(r, "idle")
      BY <1>x, <1>5 DEF LeaveCount, At, Local
    <2>2. CASE Return(r)
      <3>1. req' \in [Requests -> Request] /\ LocalOK'
        BY <2>1, <2>2, ReturnTyped
      <3>2. QED
        BY <1>5, <3>1 DEF LeaveCount, Typed, TypeOK, store
    <2>3. CASE Become(r, [x EXCEPT !.pc = "disbandRead",
                                   !.nested = @ /\ members[x.leaving] # {}])
      <3> DEFINE b == x.nested /\ members[x.leaving] # {}
                 rec == [x EXCEPT !.pc = "disbandRead", !.nested = b]
      <3>1. b \in BOOLEAN /\ (b => x.nested) /\ "disbandRead" \in PCs
        BY DEF PCs
      <3> HIDE DEF b
      <3>2. rec \in Request /\ Local(rec)
        BY <1>x, <2>1, <3>1 DEF At, Request, Local
      <3>3. Become(r, rec)
        BY <2>3 DEF b
      <3>4. QED
        BY <1>5, <3>2, <3>3, BecomeTyped DEF LeaveCount, Typed, TypeOK, store
    <2>4. QED
      BY <1>5, <2>2, <2>3 DEF LeaveCount
  <1>6. CASE DisbandRead(r)
    <2> DEFINE rec == [x EXCEPT !.pc = "disbandExec", !.seen = members[x.leaving]]
    <2>1. x.player \in Players /\ x.leaving \in PartyIds /\ At(r, "disbandRead")
      BY <1>x, <1>6 DEF DisbandRead, At, Local
    <2>2. members[x.leaving] \in SUBSET Players /\ "disbandExec" \in PCs
      BY <2>1 DEF Typed, TypeOK, PCs
    <2>3. rec \in Request /\ Local(rec)
      BY <1>x, <2>1, <2>2 DEF At, Request, Local
    <2>4. watched' \in [Requests -> SUBSET Keys] /\ dirty' \in SUBSET Requests
      BY <1>6, <2>1, KeysTyped, WatchTyped DEF DisbandRead, DisbandWatch
    <2>5. QED
      BY <1>6, <2>3, <2>4, BecomeTyped DEF DisbandRead, Typed, TypeOK, store
  <1>7. CASE DisbandExec(r)
    <2>1. x.player \in Players /\ x.leaving \in PartyIds /\ At(r, "disbandExec")
          /\ ~At(r, "idle")
      BY <1>x, <1>7 DEF DisbandExec, At, Local
    <2>2. CASE Retry(r, "disbandRead")
      <3>1. Local([x EXCEPT !.pc = "disbandRead"]) /\ "disbandRead" \in PCs
        BY <1>x, <2>1 DEF At, Request, Local, PCs
      <3>2. QED
        BY <2>2, <3>1, RetryTyped
    <2>3. CASE ~Retry(r, "disbandRead")
      <3>1. req' \in [Requests -> Request] /\ LocalOK'
        BY <1>7, <2>1, <2>3, ReturnTyped DEF DisbandExec
      <3>2. watched' \in [Requests -> SUBSET Keys] /\ dirty' \in SUBSET Requests
        BY <1>7, <2>3, CommitTyped DEF DisbandExec
      <3>3. QED
        BY <1>7, <2>1, <2>3, <3>1, <3>2 DEF DisbandExec, Typed, TypeOK
    <2>4. QED
      BY <2>2, <2>3
  <1>8. QED
    BY <1>1, <1>2, <1>3, <1>4, <1>5, <1>6, <1>7

LEMMA TypedInvite ==
    ASSUME Typed, NEW r \in Requests,
           \/ StartInvite(r) \/ InviteRead(r) \/ InviteCheck(r) \/ InviteExec(r)
           \/ StartDecline(r) \/ DeclineRead(r) \/ DeclineExec(r)
    PROVE  Typed'
  <1> DEFINE x == req[r]
  <1>x. x \in Request /\ Local(x)
    BY DEF Typed, TypeOK, LocalOK
  <1>i. Idle \in Request /\ ~Idle.nested /\ ~Idle.forming
    BY IdleTyped DEF Idle
  <1>1. CASE StartInvite(r)
    <2>1. PICK p, q \in Players :
              Become(r, [Idle EXCEPT !.pc = "inviteRead", !.player = p, !.other = q])
      BY <1>1 DEF StartInvite
    <2> DEFINE rec == [Idle EXCEPT !.pc = "inviteRead", !.player = p, !.other = q]
    <2>2. "inviteRead" \in PCs
      BY DEF PCs
    <2>3. rec \in Request /\ Local(rec)
      BY <1>i, <2>2 DEF Request, Local
    <2>4. QED
      BY <1>1, <2>1, <2>3, BecomeTyped DEF StartInvite, Typed, TypeOK, store
  <1>2. CASE InviteRead(r)
    <2>1. x.player \in Players /\ x.other \in Players /\ At(r, "inviteRead")
      BY <1>x, <1>2 DEF InviteRead, At, Local
    <2>2. "inviteExec" \in PCs /\ "inviteCheck" \in PCs
          /\ playerParty[x.player] \in PartyIds \cup {NoParty}
      BY <2>1 DEF Typed, TypeOK, PCs
    <2> DEFINE rec1 == [x EXCEPT !.pc = "inviteExec", !.target = NoParty]
               rec2 == [x EXCEPT !.pc = "inviteCheck", !.target = playerParty[x.player]]
    <2>3. rec1 \in Request /\ Local(rec1)
      BY <1>x, <2>1, <2>2 DEF At, Request, Local
    <2>4. playerParty[x.player] # NoParty => rec2 \in Request /\ Local(rec2)
      BY <1>x, <2>1, <2>2 DEF At, Request, Local
    <2>5. req' \in [Requests -> Request] /\ LocalOK'
      BY <1>2, <2>3, <2>4, BecomeTyped DEF InviteRead
    <2>6. watched' \in [Requests -> SUBSET Keys] /\ dirty' \in SUBSET Requests
      BY <1>2, <2>1, KeysTyped, WatchTyped DEF InviteRead
    <2>7. QED
      BY <1>2, <2>5, <2>6 DEF InviteRead, Typed, TypeOK, store
  <1>3. CASE InviteCheck(r)
    <2>1. x.player \in Players /\ x.other \in Players /\ At(r, "inviteCheck")
      BY <1>x, <1>3 DEF InviteCheck, At, Local
    <2>2. Local([x EXCEPT !.pc = "inviteRead"]) /\ "inviteRead" \in PCs
          /\ Local([x EXCEPT !.pc = "inviteExec"]) /\ "inviteExec" \in PCs
      BY <1>x, <2>1 DEF At, Request, Local, PCs
    <2>3. CASE Retry(r, "inviteRead")
      BY <2>2, <2>3, RetryTyped
    <2>4. CASE Answer(r)
      BY <2>4, AnswerTyped
    <2>5. CASE /\ Watch(r, {PlayerKey(x.other)})
               /\ Goto(r, "inviteExec")
               /\ UNCHANGED store
      <3>1. req' \in [Requests -> Request] /\ LocalOK'
        BY <2>2, <2>5, GotoTyped
      <3>2. watched' \in [Requests -> SUBSET Keys] /\ dirty' \in SUBSET Requests
        BY <2>1, <2>5, KeysTyped, WatchTyped
      <3>3. QED
        BY <2>5, <3>1, <3>2 DEF Typed, TypeOK, store
    <2>6. QED
      BY <1>3, <2>3, <2>4, <2>5 DEF InviteCheck
  <1>4. CASE InviteExec(r)
    <2>1. x.player \in Players /\ x.other \in Players /\ At(r, "inviteExec")
      BY <1>x, <1>4 DEF InviteExec, At, Local
    <2>2. CASE Retry(r, "inviteRead")
      <3>1. Local([x EXCEPT !.pc = "inviteRead"]) /\ "inviteRead" \in PCs
        BY <1>x, <2>1 DEF At, Request, Local, PCs
      <3>2. QED
        BY <2>2, <3>1, RetryTyped
    <2>3. CASE ~Retry(r, "inviteRead")
      <3> DEFINE i == NewInviteId
      <3>1. i \in InviteIds /\ i \in 0..MaxInvites
        BY <1>4, <2>3, BoundAssumption
           DEF InviteExec, NewInviteId, InviteIds, Typed, TypeOK
      <3>2. [id |-> i, from |-> x.player, to |-> x.other] \in Invite
        BY <2>1, <3>1 DEF Invite
      <3>3. req' \in [Requests -> Request] /\ LocalOK'
        BY <1>4, <2>3, EndTyped DEF InviteExec
      <3>4. watched' \in [Requests -> SUBSET Keys] /\ dirty' \in SUBSET Requests
        BY <1>4, <2>3, CommitTyped DEF InviteExec
      <3> HIDE DEF i
      <3>5. /\ inviteSeq' = i
            /\ invites' = invites \cup {[id |-> i, from |-> x.player, to |-> x.other]}
            /\ sent' = [sent EXCEPT ![x.player] = @ \cup {i}]
            /\ UNCHANGED <<playerParty, members, partySeq>>
        BY <1>4, <2>3 DEF InviteExec, i
      <3>6. sent' \in [Players -> SUBSET InviteIds] /\ invites' \in SUBSET Invite
        BY <2>1, <3>1, <3>2, <3>5 DEF Typed, TypeOK
      <3>7. QED
        BY <3>1, <3>3, <3>4, <3>5, <3>6 DEF Typed, TypeOK
    <2>4. QED
      BY <2>2, <2>3
  <1>5. CASE StartDecline(r)
    <2>1. PICK v \in invites : \E p \in {v.from, v.to} :
              Become(r, [Idle EXCEPT !.pc = "declineRead", !.player = p, !.invite = v.id])
      BY <1>5 DEF StartDecline
    <2>2. PICK p \in {v.from, v.to} :
              Become(r, [Idle EXCEPT !.pc = "declineRead", !.player = p, !.invite = v.id])
      BY <2>1
    <2> DEFINE rec == [Idle EXCEPT !.pc = "declineRead", !.player = p, !.invite = v.id]
    <2>3. p \in Players /\ v.id \in InviteIds /\ "declineRead" \in PCs
      BY DEF Typed, TypeOK, Invite, PCs
    <2>4. rec \in Request /\ Local(rec)
      BY <1>i, <2>3 DEF Request, Local
    <2>5. QED
      BY <1>5, <2>2, <2>4, BecomeTyped DEF StartDecline, Typed, TypeOK, store
  <1>6. CASE DeclineRead(r)
    <2>1. CASE Answer(r)
      BY <2>1, AnswerTyped
    <2>2. CASE ~Answer(r)
      <3>1. PICK v \in invites :
                /\ Watch(r, {InviteKey(v.id)})
                /\ Become(r, [x EXCEPT !.pc = "declineExec", !.other = v.from])
                /\ UNCHANGED store
        BY <1>6, <2>2 DEF DeclineRead
      <3> DEFINE rec == [x EXCEPT !.pc = "declineExec", !.other = v.from]
      <3>2. v.from \in Players /\ v.id \in InviteIds /\ "declineExec" \in PCs
        BY DEF Typed, TypeOK, Invite, PCs
      <3>3. x.player \in Players /\ x.invite \in InviteIds /\ At(r, "declineRead")
        BY <1>x, <1>6 DEF DeclineRead, At, Local
      <3>4. rec \in Request /\ Local(rec)
        BY <1>x, <3>2, <3>3 DEF At, Request, Local
      <3>5. watched' \in [Requests -> SUBSET Keys] /\ dirty' \in SUBSET Requests
        BY <3>1, <3>2, KeysTyped, WatchTyped
      <3>6. QED
        BY <3>1, <3>4, <3>5, BecomeTyped DEF Typed, TypeOK, store
    <2>3. QED
      BY <2>1, <2>2
  <1>7. CASE DeclineExec(r)
    <2>1. x.player \in Players /\ x.other \in Players /\ x.invite \in InviteIds
          /\ At(r, "declineExec")
      BY <1>x, <1>7 DEF DeclineExec, At, Local
    <2>2. CASE Retry(r, "declineRead")
      <3>1. Local([x EXCEPT !.pc = "declineRead"]) /\ "declineRead" \in PCs
        BY <1>x, <2>1 DEF At, Request, Local, PCs
      <3>2. QED
        BY <2>2, <3>1, RetryTyped
    <2>3. CASE ~Retry(r, "declineRead")
      <3>1. req' \in [Requests -> Request] /\ LocalOK'
        BY <1>7, <2>3, EndTyped DEF DeclineExec
      <3>2. watched' \in [Requests -> SUBSET Keys] /\ dirty' \in SUBSET Requests
        BY <1>7, <2>3, CommitTyped DEF DeclineExec
      <3>3. QED
        BY <1>7, <2>1, <2>3, <3>1, <3>2 DEF DeclineExec, Typed, TypeOK
    <2>4. QED
      BY <2>2, <2>3
  <1>8. QED
    BY <1>1, <1>2, <1>3, <1>4, <1>5, <1>6, <1>7

LEMMA TypedInductive == Typed /\ [Next]_vars => Typed'
  <1> SUFFICES ASSUME Typed, [Next]_vars PROVE Typed'
    OBVIOUS
  <1>1. ASSUME NEW r \in Requests, Start(r) \/ Serve(r) PROVE Typed'
    BY <1>1, TypedAccept, TypedLeave, TypedInvite DEF Start, Serve
  <1>2. ASSUME NEW r \in Requests, Die(r) PROVE Typed'
    BY <1>2, AnswerTyped DEF Die
  <1>3. CASE UNCHANGED vars
    BY <1>3 DEF vars, Typed, TypeOK, LocalOK
  <1>4. QED
    BY <1>1, <1>2, <1>3 DEF Next

LEMMA TypedInit == Init => Typed
  <1> SUFFICES ASSUME Init PROVE Typed
    OBVIOUS
  <1>1. LocalOK
    BY IdleTyped DEF Init, LocalOK
  <1>2. TypeOK
    BY IdleTyped, BoundAssumption DEF Init, TypeOK
  <1>3. QED
    BY <1>1, <1>2 DEF Typed

\* Every variable keeps its type: no request leaves a party key, a party set or
\* its own locals in a state the code of parties.py does not expect.
THEOREM TypeCorrect == Spec => []TypeOK
  <1>1. Typed => TypeOK
    BY DEF Typed
  <1>2. QED
    BY <1>1, TypedInit, TypedInductive, PTL DEF Spec

----------------------------------------------------------------------------
(* A party key always names a party its player is in.                       *)

KeyInv == SnapshotOK /\ PartyKeyHasMember

\* A step of request r leaves the locals and the WATCH of the others alone, and
\* unmarks none of them.
Frame(r) ==
    \A q \in Requests \ {r} :
        req'[q] = req[q] /\ watched'[q] = watched[q] /\ (q \in dirty => q \in dirty')

\* A step of a request watches keys, commits, or leaves the connections alone.
LEMMA Connections ==
    ASSUME NEW r \in Requests, Start(r) \/ Serve(r) \/ Die(r)
    PROVE  \/ UNCHANGED <<watched, dirty>>
           \/ \E keys : Watch(r, keys)
           \/ \E set : Commit(r, set)
  <1>1. CASE Start(r)
    BY <1>1 DEF Start, StartAccept, StartLeave, StartInvite, StartDecline
  <1>2. CASE \/ AcceptRead(r) \/ AcceptCount(r) \/ AcceptFull(r) \/ AcceptWatch(r)
             \/ AcceptExec(r)
    BY <1>2 DEF AcceptRead, AcceptCount, AcceptFull, AcceptWatch, AcceptExec, Retry, Unwatch
  <1>3. CASE \/ LeaveRead(r) \/ LeaveCheck(r) \/ LeaveExec(r) \/ LeaveCount(r)
             \/ DisbandRead(r) \/ DisbandExec(r)
    BY <1>3 DEF LeaveRead, LeaveCheck, LeaveExec, LeaveCount, DisbandRead, DisbandExec,
                Answer, Retry, Unwatch
  <1>4. CASE \/ InviteRead(r) \/ InviteCheck(r) \/ InviteExec(r)
             \/ DeclineRead(r) \/ DeclineExec(r)
    BY <1>4 DEF InviteRead, InviteCheck, InviteExec, DeclineRead, DeclineExec,
                Answer, Retry, Unwatch
  <1>5. CASE Die(r)
    BY <1>5 DEF Die, Answer, Unwatch
  <1>6. QED
    BY <1>1, <1>2, <1>3, <1>4, <1>5 DEF Serve

LEMMA FrameHolds ==
    ASSUME Typed, NEW r \in Requests, Start(r) \/ Serve(r) \/ Die(r)
    PROVE  Frame(r)
  <1>1. ASSUME NEW rec, Become(r, rec)
        PROVE  \A q \in Requests \ {r} : req'[q] = req[q]
    BY <1>1 DEF Typed, TypeOK, Become
  <1>2. ASSUME NEW keys, Watch(r, keys)
        PROVE  \A q \in Requests \ {r} : watched'[q] = watched[q] /\ (q \in dirty => q \in dirty')
    BY <1>2 DEF Typed, TypeOK, Watch
  <1>3. ASSUME NEW set, Commit(r, set)
        PROVE  \A q \in Requests \ {r} : watched'[q] = watched[q] /\ (q \in dirty => q \in dirty')
    BY <1>3 DEF Typed, TypeOK, Commit
  <1>4. \E rec : Become(r, rec)
    <2>1. CASE Start(r)
      BY <2>1 DEF Start, StartAccept, StartLeave, StartInvite, StartDecline
    <2>2. CASE \/ AcceptRead(r) \/ AcceptCount(r) \/ AcceptFull(r) \/ AcceptWatch(r)
               \/ AcceptExec(r)
      BY <2>2 DEF AcceptRead, AcceptCount, AcceptFull, AcceptWatch, AcceptExec, Retry, End, Goto
    <2>3. CASE \/ LeaveRead(r) \/ LeaveCheck(r) \/ LeaveExec(r) \/ LeaveCount(r)
               \/ DisbandRead(r) \/ DisbandExec(r)
      BY <2>3 DEF LeaveRead, LeaveCheck, LeaveExec, LeaveCount, DisbandRead, DisbandExec,
                  Return, Answer, Retry, End, Goto
    <2>4. CASE \/ InviteRead(r) \/ InviteCheck(r) \/ InviteExec(r)
               \/ DeclineRead(r) \/ DeclineExec(r)
      BY <2>4 DEF InviteRead, InviteCheck, InviteExec, DeclineRead, DeclineExec,
                  Answer, Retry, End, Goto
    <2>5. CASE Die(r)
      BY <2>5 DEF Die, Answer, End
    <2>6. QED
      BY <2>1, <2>2, <2>3, <2>4, <2>5 DEF Serve
  <1>5. \/ UNCHANGED <<watched, dirty>>
        \/ \E keys : Watch(r, keys)
        \/ \E set : Commit(r, set)
    BY Connections
  <1>6. QED
    BY <1>1, <1>2, <1>3, <1>4, <1>5 DEF Frame

\* Only disbandRead leads to disbandExec and only acceptWatch to acceptExec; other
\* steps keep the target party, clear it, or read it from a player's key.
After(r) ==
    /\ req'[r].pc = "disbandExec" => DisbandRead(r)
    /\ req'[r].pc = "acceptExec" => AcceptWatch(r)
    /\ ~AcceptWatch(r) => \/ req'[r].target \in {req[r].target, NoParty}
                          \/ \E p \in Players : req'[r].target = playerParty[p]

LEMMA AfterHolds ==
    ASSUME Typed, NEW r \in Requests, Start(r) \/ Serve(r) \/ Die(r)
    PROVE  After(r)
  <1> DEFINE x == req[r]
  <1>x. x \in Request /\ Local(x) /\ Idle \in Request
    BY IdleTyped DEF Typed, TypeOK, LocalOK
  <1>i. Idle.pc = "idle" /\ Idle.target = NoParty
    BY DEF Idle
  <1>b. ASSUME NEW rec, Become(r, rec) PROVE req'[r] = rec
    BY <1>b DEF Become, Typed, TypeOK
  <1>e. End(r) => After(r)
    BY <1>b, <1>i DEF End, After
  <1>g. ASSUME NEW pc, Goto(r, pc), pc \notin {"disbandExec", "acceptExec"} PROVE After(r)
    <2>1. req'[r].pc = pc /\ req'[r].target = x.target
      BY <1>b, <1>g, <1>x DEF Goto, Request
    <2>2. QED
      BY <2>1, <1>g DEF After
  <1>r. ASSUME Return(r) PROVE After(r)
    <2>1. CASE x.nested
      <3> DEFINE pc == JoinStep(x.target)
                 rec == [Idle EXCEPT !.pc = pc, !.player = x.player, !.other = x.other,
                            !.invite = x.invite, !.force = x.force, !.target = x.target]
      <3>1. pc \in {"acceptWatch", "acceptCount"}
        BY JoinStepType
      <3>2. rec.pc = pc /\ rec.target = x.target
        <4> HIDE DEF pc
        <4> QED BY <1>x DEF Request
      <3>3. req'[r] = rec
        BY <1>b, <1>r, <2>1 DEF Return
      <3>4. QED
        BY <3>1, <3>2, <3>3 DEF After
    <2>2. CASE ~x.nested
      BY <2>2, <1>r, <1>e DEF Return
    <2>3. QED
      BY <2>1, <2>2
  <1>1. CASE StartAccept(r)
    <2>1. PICK v \in invites, force \in BOOLEAN :
              Become(r, [Idle EXCEPT !.pc = "acceptRead", !.player = v.to,
                            !.other = v.from, !.invite = v.id, !.force = force])
      BY <1>1 DEF StartAccept
    <2>2. req'[r].pc = "acceptRead" /\ req'[r].target = NoParty
      BY <2>1, <1>b, <1>x, <1>i DEF Request
    <2>3. QED
      BY <2>2 DEF After
  <1>2. CASE AcceptRead(r)
    <2> DEFINE n == playerParty[x.player]
               from == x.other
               read == [x EXCEPT !.target = playerParty[from], !.forming = FALSE]
    <2>1. from \in Players
      BY <1>x, <1>2 DEF AcceptRead, At, Local
    <2>2. read.target = playerParty[from] /\ read = [read EXCEPT !.player = x.player]
          /\ read.pc = x.pc
      BY <1>x DEF Request
    <2>3. read \in Request
      BY <1>x, <2>1 DEF Request, Typed, TypeOK
    <2> HIDE DEF read, n
    <2>4. CASE Become(r, [read EXCEPT !.pc = "leaveRead", !.nested = TRUE, !.leaving = n])
      <3>1. req'[r].pc = "leaveRead" /\ req'[r].target = playerParty[from]
        BY <2>4, <1>b, <2>2, <2>3 DEF Request
      <3>2. QED
        BY <3>1, <2>1 DEF After
    <2>5. CASE Become(r, [read EXCEPT !.pc = JoinStep(playerParty[from])])
      <3>1. JoinStep(playerParty[from]) \in {"acceptWatch", "acceptCount"}
        BY JoinStepType
      <3>2. req'[r].pc = JoinStep(playerParty[from]) /\ req'[r].target = playerParty[from]
        BY <2>5, <1>b, <2>2, <2>3 DEF Request
      <3>3. QED
        BY <3>1, <3>2, <2>1 DEF After
    <2>6. QED
      BY <1>2, <2>4, <2>5, <1>e DEF AcceptRead, read, n
  <1>3. CASE AcceptCount(r)
    BY <1>3, <1>g DEF AcceptCount
  <1>4. CASE AcceptFull(r)
    BY <1>4, <1>e DEF AcceptFull
  <1>5. CASE AcceptWatch(r)
    <2>1. CASE Goto(r, "acceptExec")
      <3>1. req'[r].pc = "acceptExec"
        BY <2>1, <1>b, <1>x DEF Goto, Request
      <3>2. QED
        BY <1>5, <3>1 DEF After
    <2>2. CASE Become(r, [x EXCEPT !.pc = "acceptExec", !.target = partySeq + 1,
                                   !.forming = TRUE])
      <3>1. req'[r].pc = "acceptExec"
        BY <2>2, <1>b, <1>x DEF Request
      <3>2. QED
        BY <1>5, <3>1 DEF After
    <2>3. QED
      BY <1>5, <2>1, <2>2 DEF AcceptWatch
  <1>6. CASE AcceptExec(r)
    BY <1>6, <1>e, <1>g DEF AcceptExec, Retry
  <1>7. CASE StartLeave(r)
    <2>1. PICK p \in Players : Become(r, [Idle EXCEPT !.pc = "leaveRead", !.player = p,
                                                     !.leaving = playerParty[p]])
      BY <1>7 DEF StartLeave
    <2>2. req'[r].pc = "leaveRead" /\ req'[r].target = NoParty
      BY <2>1, <1>b, <1>x, <1>i DEF Request
    <2>3. QED
      BY <2>2 DEF After
  <1>8. CASE LeaveRead(r)
    BY <1>8, <1>e, <1>g DEF LeaveRead, Answer
  <1>9. CASE LeaveCheck(r)
    <2>1. CASE Become(r, [x EXCEPT !.pc = "leaveExec", !.sent = sent[x.player]])
      <3>1. req'[r].pc = "leaveExec" /\ req'[r].target = x.target
        BY <2>1, <1>b, <1>x DEF Request
      <3>2. QED
        BY <3>1 DEF After
    <2>2. QED
      BY <1>9, <2>1, <1>r DEF LeaveCheck
  <1>10. CASE LeaveExec(r)
    BY <1>10, <1>e, <1>g DEF LeaveExec, Retry
  <1>11. CASE LeaveCount(r)
    <2>1. CASE Become(r, [x EXCEPT !.pc = "disbandRead",
                                   !.nested = @ /\ members[x.leaving] # {}])
      <3>1. req'[r].pc = "disbandRead" /\ req'[r].target = x.target
        BY <2>1, <1>b, <1>x DEF Request
      <3>2. QED
        BY <3>1 DEF After
    <2>2. QED
      BY <1>11, <2>1, <1>r DEF LeaveCount
  <1>12. CASE DisbandRead(r)
    <2>1. req'[r].pc = "disbandExec" /\ req'[r].target = x.target
      BY <1>12, <1>b, <1>x DEF DisbandRead, Request
    <2>2. QED
      BY <2>1, <1>12 DEF After
  <1>13. CASE DisbandExec(r)
    BY <1>13, <1>e, <1>g, <1>r DEF DisbandExec, Retry
  <1>14. CASE StartInvite(r)
    <2>1. PICK p, q \in Players :
              Become(r, [Idle EXCEPT !.pc = "inviteRead", !.player = p, !.other = q])
      BY <1>14 DEF StartInvite
    <2>2. req'[r].pc = "inviteRead" /\ req'[r].target = NoParty
      BY <2>1, <1>b, <1>x, <1>i DEF Request
    <2>3. QED
      BY <2>2 DEF After
  <1>15. CASE InviteRead(r)
    <2>1. x.player \in Players
      BY <1>x, <1>15 DEF InviteRead, At, Local
    <2>2. CASE Become(r, [x EXCEPT !.pc = "inviteExec", !.target = NoParty])
      <3>1. req'[r].pc = "inviteExec" /\ req'[r].target = NoParty
        BY <2>2, <1>b, <1>x DEF Request
      <3>2. QED
        BY <3>1 DEF After
    <2>3. CASE Become(r, [x EXCEPT !.pc = "inviteCheck", !.target = playerParty[x.player]])
      <3>1. req'[r].pc = "inviteCheck" /\ req'[r].target = playerParty[x.player]
        BY <2>3, <1>b, <1>x DEF Request
      <3>2. QED
        BY <2>1, <3>1 DEF After
    <2>4. QED
      BY <1>15, <2>2, <2>3 DEF InviteRead
  <1>16. CASE InviteCheck(r)
    BY <1>16, <1>e, <1>g DEF InviteCheck, Answer, Retry
  <1>17. CASE InviteExec(r)
    BY <1>17, <1>e, <1>g DEF InviteExec, Retry
  <1>18. CASE StartDecline(r)
    <2>1. PICK v \in invites : \E p \in {v.from, v.to} :
              Become(r, [Idle EXCEPT !.pc = "declineRead", !.player = p, !.invite = v.id])
      BY <1>18 DEF StartDecline
    <2>2. req'[r].pc = "declineRead" /\ req'[r].target = NoParty
      BY <2>1, <1>b, <1>x, <1>i DEF Request
    <2>3. QED
      BY <2>2 DEF After
  <1>19. CASE DeclineRead(r)
    <2>1. ASSUME NEW p, Become(r, [x EXCEPT !.pc = "declineExec", !.other = p])
          PROVE After(r)
      <3>1. req'[r].pc = "declineExec" /\ req'[r].target = x.target
        BY <2>1, <1>b, <1>x DEF Request
      <3>2. QED
        BY <3>1 DEF After
    <2>2. QED
      BY <1>19, <2>1, <1>e DEF DeclineRead, Answer
  <1>20. CASE DeclineExec(r)
    BY <1>20, <1>e, <1>g DEF DeclineExec, Retry
  <1>21. CASE Die(r)
    BY <1>21, <1>e DEF Die, Answer
  <1>22. QED
    BY <1>1, <1>2, <1>3, <1>4, <1>5, <1>6, <1>7, <1>8, <1>9, <1>10, <1>11, <1>12, <1>13,
       <1>14, <1>15, <1>16, <1>17, <1>18, <1>19, <1>20, <1>21 DEF Start, Serve

\* The party keys and sets are written by three transactions only.
LEMMA WhoWrites ==
    ASSUME NEW r \in Requests, Start(r) \/ Serve(r) \/ Die(r)
    PROVE  \/ UNCHANGED <<playerParty, members>>
           \/ r \notin dirty /\ (AcceptExec(r) \/ LeaveExec(r) \/ DisbandExec(r))
  <1>1. CASE Start(r) \/ Die(r)
    BY <1>1 DEF Start, StartAccept, StartLeave, StartInvite, StartDecline, Die, Answer, store
  <1>2. CASE Serve(r)
    BY <1>2 DEF Serve, AcceptRead, AcceptCount, AcceptFull, AcceptWatch, AcceptExec,
                LeaveRead, LeaveCheck, LeaveExec, LeaveCount, DisbandRead, DisbandExec,
                InviteRead, InviteCheck, InviteExec, DeclineRead, DeclineExec,
                Answer, Retry, store
  <1>3. QED
    BY <1>1, <1>2

\* A transaction that changes a party's set marks everyone who watches it.
LEMMA CommitMarks ==
    ASSUME Typed, NEW r \in Requests, NEW set, Commit(r, set),
           NEW q \in Requests \ {r}, NEW n \in PartyIds,
           PartyKey(n) \in watched[q], members'[n] # members[n]
    PROVE  q \in dirty'
  <1>1. PartyKey(n) \in Changed
    BY DEF Changed
  <1>2. QED
    BY <1>1 DEF Commit

\* What the three transactions write.
LEMMA AcceptWrites ==
    ASSUME Typed, NEW r \in Requests, AcceptExec(r), r \notin dirty
    PROVE  \E joining \in SUBSET Players :
              /\ req[r].target \in PartyIds
              /\ \A q \in Players : playerParty'[q] =
                      IF q \in joining THEN req[r].target ELSE playerParty[q]
              /\ \A n \in PartyIds : members'[n] =
                      IF n = req[r].target THEN members[n] \cup joining ELSE members[n]
              /\ \E set : Commit(r, set)
              /\ partySeq' = partySeq
  <1> DEFINE x == req[r]
             joining == IF x.forming THEN {x.player, x.other} ELSE {x.player}
  <1>1. x.player \in Players /\ x.other \in Players /\ x.target \in PartyIds
    BY DEF Typed, LocalOK, Local, AcceptExec, At
  <1>2. joining \in SUBSET Players
    BY <1>1
  <1>3. /\ playerParty' = [q \in Players |-> IF q \in joining THEN x.target ELSE playerParty[q]]
        /\ members' = [members EXCEPT ![x.target] = @ \cup joining]
        /\ partySeq' = partySeq
        /\ \E set : Commit(r, set)
    BY DEF AcceptExec, Retry
  <1> HIDE DEF joining
  <1>4. \A n \in PartyIds : members'[n] = IF n = x.target THEN members[n] \cup joining ELSE members[n]
    BY <1>3 DEF Typed, TypeOK
  <1>5. QED
    BY <1>1, <1>2, <1>3, <1>4

LEMMA LeaveWrites ==
    ASSUME Typed, NEW r \in Requests, LeaveExec(r), r \notin dirty
    PROVE  /\ req[r].player \in Players /\ req[r].leaving \in PartyIds
           /\ \A q \in Players : playerParty'[q] =
                   IF q = req[r].player THEN NoParty ELSE playerParty[q]
           /\ \A n \in PartyIds : members'[n] =
                   IF n = req[r].leaving THEN members[n] \ {req[r].player} ELSE members[n]
           /\ \E set : Commit(r, set)
           /\ partySeq' = partySeq
  <1>1. req[r].player \in Players /\ req[r].leaving \in PartyIds
    BY DEF Typed, LocalOK, Local, LeaveExec, At
  <1>2. QED
    BY <1>1 DEF LeaveExec, Retry, Typed, TypeOK

LEMMA DisbandWrites ==
    ASSUME Typed, NEW r \in Requests, DisbandExec(r), r \notin dirty
    PROVE  /\ req[r].leaving \in PartyIds
           /\ \A q \in Players : playerParty'[q] =
                   IF q \in req[r].seen THEN NoParty ELSE playerParty[q]
           /\ \A n \in PartyIds : members'[n] =
                   IF n = req[r].leaving THEN {} ELSE members[n]
           /\ \E set : Commit(r, set)
           /\ partySeq' = partySeq
  <1>1. req[r].leaving \in PartyIds
    BY DEF Typed, LocalOK, Local, DisbandExec, At
  <1>2. QED
    BY <1>1 DEF DisbandExec, Disbanded, Retry, Typed, TypeOK

LEMMA KeyInvStep ==
    ASSUME Typed, KeyInv, NEW r \in Requests, Start(r) \/ Serve(r) \/ Die(r)
    PROVE  KeyInv'
  <1>1. Frame(r) /\ After(r)
    BY FrameHolds, AfterHolds
  <1>2. Typed'
    BY TypedInductive DEF Next
  <1>3. CASE UNCHANGED <<playerParty, members>>
    <2>1. PartyKeyHasMember'
      BY <1>3 DEF KeyInv, PartyKeyHasMember
    <2>2. ASSUME NEW q \in Requests, req'[q].pc = "disbandExec", q \notin dirty'
          PROVE  PartyKey(req'[q].leaving) \in watched'[q]
                 /\ req'[q].seen = members'[req'[q].leaving]
      <3>1. CASE q # r
        BY <1>1, <1>3, <2>2, <3>1 DEF Frame, KeyInv, SnapshotOK, At
      <3>2. CASE q = r
        <4>1. DisbandRead(r)
          BY <1>1, <2>2, <3>2 DEF After
        <4>2. req'[r].leaving = req[r].leaving /\ req'[r].seen = members[req[r].leaving]
          BY <4>1 DEF DisbandRead, Become, Typed, TypeOK, Request
        <4>3. watched'[r] = {PartyKey(req[r].leaving)}
          BY <4>1 DEF DisbandRead, DisbandWatch, Watch, Typed, TypeOK
        <4>4. QED
          BY <1>3, <3>2, <4>2, <4>3
      <3>3. QED
        BY <3>1, <3>2
    <2>3. QED
      BY <2>1, <2>2 DEF KeyInv, SnapshotOK, At
  <1>4. CASE r \notin dirty /\ (AcceptExec(r) \/ LeaveExec(r) \/ DisbandExec(r))
    <2>1. \E set : Commit(r, set)
      BY <1>4, AcceptWrites, LeaveWrites, DisbandWrites
    <2>2. ASSUME NEW q \in Requests, req'[q].pc = "disbandExec", q \notin dirty'
          PROVE  PartyKey(req'[q].leaving) \in watched'[q]
                 /\ req'[q].seen = members'[req'[q].leaving]
      <3>1. q # r
        BY <1>1, <1>4, <2>2 DEF After, DisbandRead, AcceptExec, LeaveExec, DisbandExec, At
      <3>2. /\ req'[q] = req[q] /\ watched'[q] = watched[q] /\ q \notin dirty
            /\ PartyKey(req[q].leaving) \in watched[q]
            /\ req[q].seen = members[req[q].leaving] /\ req[q].leaving \in PartyIds
        BY <1>1, <2>2, <3>1 DEF Frame, KeyInv, SnapshotOK, At, Typed, LocalOK, Local
      <3>3. members'[req[q].leaving] = members[req[q].leaving]
        BY <2>1, <2>2, <3>1, <3>2, CommitMarks
      <3>4. QED
        BY <3>2, <3>3
    <2>3. PartyKeyHasMember'
      <3>1. CASE AcceptExec(r)
        BY <1>4, <3>1, AcceptWrites DEF KeyInv, PartyKeyHasMember, Typed, TypeOK
      <3>2. CASE LeaveExec(r)
        BY <1>4, <3>2, LeaveWrites DEF KeyInv, PartyKeyHasMember, Typed, TypeOK
      <3>3. CASE DisbandExec(r)
        <4>1. req[r].seen = members[req[r].leaving]
          BY <1>4, <3>3 DEF KeyInv, SnapshotOK, DisbandExec
        <4>2. QED
          BY <1>4, <3>3, <4>1, DisbandWrites DEF KeyInv, PartyKeyHasMember, Typed, TypeOK
      <3>4. QED
        BY <1>4, <3>1, <3>2, <3>3
    <2>4. QED
      BY <2>2, <2>3 DEF KeyInv, SnapshotOK, At
  <1>5. QED
    BY <1>3, <1>4, WhoWrites

\* However requests interleave and wherever they die, a player's party key names
\* a party he is a member of: disband_party, which deletes keys it read in an
\* earlier round trip, never leaves one behind.
THEOREM KeysNameParties == Spec => []PartyKeyHasMember
  <1>1. Init => Typed /\ KeyInv
    <2>1. Init => KeyInv
      BY DEF Init, KeyInv, SnapshotOK, PartyKeyHasMember, At, Idle
    <2>2. QED
      BY <2>1, TypedInit
  <1>2. Typed /\ KeyInv /\ [Next]_vars => (Typed /\ KeyInv)'
    <2> SUFFICES ASSUME Typed, KeyInv, [Next]_vars PROVE KeyInv'
      BY TypedInductive
    <2>1. CASE UNCHANGED vars
      BY <2>1 DEF vars, KeyInv, SnapshotOK, PartyKeyHasMember, At
    <2>2. CASE Next
      BY <2>2, KeyInvStep DEF Next
    <2>3. QED
      BY <2>1, <2>2
  <1>3. KeyInv => PartyKeyHasMember
    BY DEF KeyInv
  <1>4. QED
    BY <1>1, <1>2, <1>3, PTL DEF Spec

----------------------------------------------------------------------------
(* A new party belongs to the request that forms it.                        *)

FreshInv == IdsOK /\ FreshOK

\* The counter moves when acceptWatch takes an id, and the id taken is its value.
LEMMA CounterStep ==
    ASSUME Typed, NEW r \in Requests, Start(r) \/ Serve(r) \/ Die(r)
    PROVE  \/ partySeq' = partySeq /\ ~AcceptWatch(r)
           \/ /\ AcceptWatch(r) /\ partySeq' = partySeq
              /\ req'[r].target = req[r].target /\ ~req'[r].forming
           \/ /\ AcceptWatch(r) /\ partySeq' = partySeq + 1
              /\ req'[r].target = partySeq + 1
  <1>1. CASE AcceptWatch(r)
    <2>1. req[r] \in Request /\ ~req[r].forming
      BY <1>1 DEF Typed, TypeOK, LocalOK, Local, AcceptWatch, At
    <2>2. QED
      BY <1>1, <2>1 DEF AcceptWatch, PartySeqTaken, Goto, Become, Typed, TypeOK, Request
  <1>2. CASE Start(r) \/ Die(r)
    BY <1>2, <1>1 DEF Start, StartAccept, StartLeave, StartInvite, StartDecline, Die, Answer, store
  <1>3. CASE Serve(r) /\ ~AcceptWatch(r)
    BY <1>3 DEF Serve, AcceptRead, AcceptCount, AcceptFull, AcceptExec,
                LeaveRead, LeaveCheck, LeaveExec, LeaveCount, DisbandRead, DisbandExec,
                InviteRead, InviteCheck, InviteExec, DeclineRead, DeclineExec,
                Answer, Retry, store
  <1>4. QED
    BY <1>1, <1>2, <1>3

\* What a step writes, as far as party ids go.
LEMMA IdWrites ==
    ASSUME Typed, NEW r \in Requests, Start(r) \/ Serve(r) \/ Die(r)
    PROVE  /\ \A p \in Players : \/ playerParty'[p] \in {playerParty[p], NoParty}
                                 \/ /\ AcceptExec(r)
                                    /\ playerParty'[p] = req[r].target
           /\ \A n \in PartyIds : \/ members'[n] \subseteq members[n]
                                  \/ AcceptExec(r) /\ n = req[r].target
  <1>1. CASE UNCHANGED <<playerParty, members>>
    BY <1>1
  <1>2. CASE r \notin dirty /\ AcceptExec(r)
    BY <1>2, AcceptWrites
  <1>3. CASE r \notin dirty /\ LeaveExec(r)
    BY <1>3, LeaveWrites
  <1>4. CASE r \notin dirty /\ DisbandExec(r)
    BY <1>4, DisbandWrites
  <1>5. QED
    BY <1>1, <1>2, <1>3, <1>4, WhoWrites

LEMMA FreshInvStep ==
    ASSUME Typed, FreshInv, NEW r \in Requests, Start(r) \/ Serve(r) \/ Die(r)
    PROVE  FreshInv'
  <1>1. Frame(r) /\ After(r)
    BY FrameHolds, AfterHolds
  <1>2. Typed'
    BY TypedInductive DEF Next
  <1>t. /\ partySeq \in Nat /\ partySeq' \in Nat
        /\ \A p \in Players : playerParty[p] \in Nat /\ playerParty'[p] \in Nat
        /\ \A q \in Requests : req[q].target \in Nat /\ req'[q].target \in Nat
        /\ \A n \in PartyIds : n \in Nat /\ n # NoParty
    BY <1>2, BoundAssumption DEF Typed, TypeOK, Request, PartyIds, NoParty
  <1>3. partySeq <= partySeq'
    BY <1>t, CounterStep
  <1>4. \A q \in Requests : req'[q].target <= partySeq'
    <2>1. ASSUME NEW q \in Requests, q # r PROVE req'[q].target <= partySeq'
      BY <1>1, <1>3, <1>t, <2>1 DEF Frame, FreshInv, IdsOK
    <2>2. req'[r].target <= partySeq'
      BY <1>1, <1>3, <1>t, CounterStep DEF After, FreshInv, IdsOK, NoParty
    <2>3. QED
      BY <2>1, <2>2
  <1>5. \A p \in Players : playerParty'[p] <= partySeq'
    BY <1>3, <1>t, IdWrites DEF FreshInv, IdsOK, NoParty
  <1>6. \A n \in PartyIds : members'[n] # {} => n <= partySeq'
    BY <1>3, <1>t, IdWrites DEF FreshInv, IdsOK
  <1>7. ASSUME NEW q \in Requests, req'[q].pc = "acceptExec", req'[q].forming
        PROVE  /\ members'[req'[q].target] = {}
               /\ \A p \in Players : playerParty'[p] # req'[q].target
               /\ \A s \in Requests \ {q} : req'[s].target # req'[q].target
    <2>1. CASE q = r
      <3>1. AcceptWatch(r) /\ req'[r].target = partySeq + 1 /\ partySeq + 1 \in PartyIds
        BY <1>1, <1>2, <1>7, <2>1, CounterStep DEF After, Typed, LocalOK, Local
      <3>2. UNCHANGED <<playerParty, members>>
        BY <3>1 DEF AcceptWatch
      <3>3. \A s \in Requests \ {r} : req'[s].target = req[s].target
        BY <1>1 DEF Frame
      <3>4. QED
        BY <1>t, <2>1, <3>1, <3>2, <3>3 DEF FreshInv, IdsOK
    <2>2. CASE q # r
      <3>1. req'[q] = req[q] /\ req[q].target \in PartyIds
        BY <1>1, <1>7, <2>2 DEF Frame, Typed, LocalOK, Local
      <3>2. /\ members[req[q].target] = {}
            /\ \A p \in Players : playerParty[p] # req[q].target
            /\ \A s \in Requests \ {q} : req[s].target # req[q].target
        BY <1>7, <3>1 DEF FreshInv, FreshOK, At
      <3>3. members'[req[q].target] = {}
        BY <2>2, <3>1, <3>2, IdWrites
      <3>4. \A p \in Players : playerParty'[p] # req[q].target
        BY <1>t, <2>2, <3>1, <3>2, IdWrites
      <3>5. ASSUME NEW s \in Requests \ {q} PROVE req'[s].target # req[q].target
        <4>1. CASE s = r
          BY <1>1, <1>t, <3>1, <3>2, <4>1, CounterStep DEF After, FreshInv, IdsOK
        <4>2. CASE s # r
          BY <1>1, <3>2, <4>2 DEF Frame
        <4>3. QED
          BY <4>1, <4>2
      <3>6. QED
        BY <3>1, <3>3, <3>4, <3>5
    <2>3. QED
      BY <2>1, <2>2
  <1>8. QED
    BY <1>4, <1>5, <1>6, <1>7 DEF FreshInv, IdsOK, FreshOK, At

\* A request that has taken an id to form a party finds the party empty when it
\* writes, and no other request is about to write to that party.
THEOREM FormedPartiesAreFresh == Spec => []FormedPartyIsFresh
  <1>1. Init => Typed /\ FreshInv
    <2>1. Init => FreshInv
      BY BoundAssumption DEF Init, FreshInv, IdsOK, FreshOK, At, Idle, NoParty
    <2>2. QED
      BY <2>1, TypedInit
  <1>2. Typed /\ FreshInv /\ [Next]_vars => (Typed /\ FreshInv)'
    <2> SUFFICES ASSUME Typed, FreshInv, [Next]_vars PROVE FreshInv'
      BY TypedInductive
    <2>1. CASE UNCHANGED vars
      BY <2>1 DEF vars, FreshInv, IdsOK, FreshOK, At
    <2>2. CASE Next
      BY <2>2, FreshInvStep DEF Next
    <2>3. QED
      BY <2>1, <2>2
  <1>3. FreshInv => FormedPartyIsFresh
    BY DEF FreshInv, FreshOK, FormedPartyIsFresh
  <1>4. QED
    BY <1>1, <1>2, <1>3, PTL DEF Spec

----------------------------------------------------------------------------
(* Requests one at a time.                                                  *)

OneAtATime == \A q, r \in Requests : q = r

Accepting == {"acceptRead", "acceptCount", "acceptFull", "acceptWatch", "acceptExec"}
Leaving == {"leaveRead", "leaveCheck", "leaveExec", "leaveCount", "disbandRead", "disbandExec"}
Inviting == {"inviteRead", "inviteCheck", "inviteExec"}
\* The player has left, and the last member may still be there.
Clearing == {"leaveCount", "disbandRead", "disbandExec"}

\* What a request with locals x knows, nobody else being at work.
Knows(x) ==
    /\ x.pc \in Accepting \cup Inviting \/ x.nested => x.player # x.other
    /\ x.pc \in {"acceptCount", "acceptWatch", "acceptExec"} =>
          /\ playerParty[x.player] \in {NoParty, playerParty[x.other]}
          /\ x.forming => playerParty[x.other] = NoParty
          /\ ~x.forming => x.target = playerParty[x.other]
    /\ x.pc \in {"acceptWatch", "acceptExec"} /\ ~x.forming /\ x.target # NoParty
          => Cardinality(members[x.target]) < MaxPlayers
    /\ x.pc \in {"leaveCheck", "leaveExec"} => playerParty[x.player] = x.leaving
    /\ x.nested => /\ x.pc \in Leaving
                   /\ x.target = playerParty[x.other] /\ x.leaving # x.target
                   /\ x.pc = "leaveRead" => playerParty[x.player] = x.leaving
                   /\ x.pc \in Clearing => playerParty[x.player] = NoParty
    /\ x.pc \in {"disbandRead", "disbandExec"} => LastMemberLeft(x.leaving)
    /\ x.pc = "disbandExec" => x.seen = members[x.leaving]

SerialInvariant ==
    /\ dirty = {}
    /\ MembersMatchKeys
    /\ \A n \in PartyIds : IsFiniteSet(members[n])
    /\ PartyIsCapped
    /\ \A v \in invites : v.from # v.to
    /\ \A r \in Requests : Knows(req[r])

\* A party of one is being cleared.
OneIsCleared ==
    \A n \in PartyIds : Cardinality(members[n]) = 1 =>
        \E r \in Requests : req[r].pc \in Clearing /\ req[r].leaving = n

LEMMA UnmarkedStep ==
    ASSUME OneAtATime, Typed, dirty = {}, NEW r \in Requests, Start(r) \/ Serve(r) \/ Die(r)
    PROVE  dirty' = {}
  <1>1. Requests \ {r} = {}
    BY DEF OneAtATime
  <1>2. ASSUME NEW keys, Watch(r, keys) PROVE dirty' = {}
    BY <1>2 DEF Watch
  <1>3. ASSUME NEW set, Commit(r, set) PROVE dirty' = {}
    BY <1>1, <1>3 DEF Commit
  <1>4. QED
    BY <1>2, <1>3, Connections

LEMMA BecomeIs ==
    ASSUME Typed, NEW r \in Requests, NEW x, Become(r, x)
    PROVE  req'[r] = x
  BY DEF Become, Typed, TypeOK

\* At a place of no consequence there is nothing to know.
LEMMA IdleKnows == /\ Knows(Idle) /\ Idle \in Request
                   /\ Idle.pc = "idle" /\ ~Idle.nested /\ ~Idle.forming
  <1>1. Idle \in Request /\ Idle.pc = "idle" /\ ~Idle.nested /\ ~Idle.forming
    BY IdleTyped DEF Idle
  <1>2. QED
    BY <1>1 DEF Knows, Accepting, Inviting, Leaving

\* The place changes and the other locals stay.
LEMMA GotoIs ==
    ASSUME Typed, NEW r \in Requests, NEW pc, Goto(r, pc)
    PROVE  LET x == req[r]  y == req'[r] IN
           /\ y.pc = pc /\ y.player = x.player /\ y.other = x.other /\ y.target = x.target
           /\ y.forming = x.forming /\ y.leaving = x.leaving /\ y.nested = x.nested
           /\ y.seen = x.seen
  <1>1. req'[r] = [req[r] EXCEPT !.pc = pc] /\ req[r] \in Request
    BY BecomeIs DEF Goto, Typed, TypeOK
  <1>2. QED
    BY <1>1 DEF Request

LEMMA EndKnows ==
    ASSUME Typed, NEW r \in Requests, End(r) PROVE Knows(req'[r])
  BY BecomeIs, IdleKnows DEF End

LEMMA ReturnIs ==
    ASSUME Typed, NEW r \in Requests, Return(r)
    PROVE  LET x == req[r]  y == req'[r] IN
           \/ ~x.nested /\ y = Idle
           \/ /\ x.nested /\ ~y.nested /\ ~y.forming
              /\ y.pc = JoinStep(x.target) /\ y.player = x.player /\ y.other = x.other
              /\ y.target = x.target
  <1> DEFINE x == req[r]
             pc == JoinStep(x.target)
             rec == [Idle EXCEPT !.pc = pc, !.player = x.player, !.other = x.other,
                        !.invite = x.invite, !.force = x.force, !.target = x.target]
  <1>1. CASE x.nested
    <2>1. req'[r] = rec
      BY <1>1, BecomeIs DEF Return
    <2> HIDE DEF pc, x
    <2>2. /\ rec.pc = pc /\ rec.player = x.player /\ rec.other = x.other
          /\ rec.target = x.target /\ ~rec.nested /\ ~rec.forming
      BY IdleKnows DEF Request
    <2> HIDE DEF rec
    <2>3. QED
      BY <1>1, <2>1, <2>2 DEF pc, x
  <1>2. CASE ~x.nested
    BY <1>2, BecomeIs DEF Return, End
  <1>3. QED
    BY <1>1, <1>2

LEMMA AcceptKnows ==
    ASSUME Typed, SerialInvariant, NEW r \in Requests,
           StartAccept(r) \/ AcceptRead(r) \/ AcceptCount(r) \/ AcceptFull(r) \/ AcceptWatch(r)
    PROVE  Knows(req'[r])
  <1> DEFINE x == req[r]
  <1>x. x \in Request /\ Local(x) /\ Knows(x)
    BY DEF Typed, TypeOK, LocalOK, SerialInvariant
  <1>1. CASE StartAccept(r)
    <2>1. PICK v \in invites, force \in BOOLEAN :
              Become(r, [Idle EXCEPT !.pc = "acceptRead", !.player = v.to,
                            !.other = v.from, !.invite = v.id, !.force = force])
      BY <1>1 DEF StartAccept
    <2>2. req'[r].pc = "acceptRead" /\ req'[r].player = v.to /\ req'[r].other = v.from
          /\ ~req'[r].nested
      <3>1. req'[r] = [Idle EXCEPT !.pc = "acceptRead", !.player = v.to,
                            !.other = v.from, !.invite = v.id, !.force = force]
        BY <2>1, BecomeIs
      <3>2. QED
        BY <3>1, IdleKnows DEF Request
    <2>3. v.from # v.to
      BY DEF SerialInvariant
    <2>4. QED
      BY <2>2, <2>3 DEF Knows
  <1>2. CASE AcceptRead(r)
    <2> DEFINE p == x.player
               from == x.other
               read == [x EXCEPT !.target = playerParty[from], !.forming = FALSE]
    <2>1. /\ x.pc = "acceptRead" /\ ~x.nested /\ p # from
      BY <1>x, <1>2 DEF AcceptRead, At, Knows, Accepting, Leaving
    <2>2. /\ read.player = p /\ read.other = from /\ read.target = playerParty[from]
          /\ ~read.forming /\ ~read.nested /\ read = [read EXCEPT !.player = p]
      BY <1>x, <2>1 DEF Request
    <2>3. p \in Players /\ from \in Players /\ playerParty[from] \in PartyIds \cup {NoParty}
      BY <1>x, <2>1 DEF Local, Typed, TypeOK
    <2>4. read \in Request
      BY <1>x, <2>3 DEF Request
    <2> HIDE DEF read
    <2>5. CASE End(r)
      BY <2>5, EndKnows
    <2>6. CASE /\ playerParty[p] # playerParty[from]
               /\ Become(r, [read EXCEPT !.pc = "leaveRead", !.nested = TRUE,
                                         !.leaving = playerParty[p]])
      <3>1. LET y == req'[r] IN
            /\ y.pc = "leaveRead" /\ y.nested /\ y.leaving = playerParty[p]
            /\ y.player = p /\ y.other = from /\ y.target = playerParty[from]
        <4>1. req'[r] = [read EXCEPT !.pc = "leaveRead", !.nested = TRUE, !.leaving = playerParty[p]]
          BY <2>6, BecomeIs
        <4>2. QED
          BY <2>2, <2>4, <4>1 DEF Request
      <3>2. QED
        BY <2>1, <2>6, <3>1 DEF Knows, Leaving, Clearing
    <2>7. CASE /\ playerParty[p] = NoParty \/ playerParty[p] = playerParty[from]
               /\ Become(r, [read EXCEPT !.pc = JoinStep(playerParty[from])])
      <3>1. PICK pc \in {"acceptWatch", "acceptCount"} :
                 /\ pc = JoinStep(playerParty[from])
                 /\ pc = "acceptWatch" => playerParty[from] = NoParty
        BY DEF JoinStep
      <3>2. req'[r] = [read EXCEPT !.pc = pc]
        BY <2>7, <3>1, BecomeIs
      <3>3. LET y == req'[r] IN
            /\ y.pc = pc /\ ~y.nested /\ ~y.forming
            /\ y.player = p /\ y.other = from /\ y.target = playerParty[from]
        BY <2>2, <2>4, <3>2 DEF Request
      <3>4. QED
        BY <2>1, <2>7, <3>1, <3>3 DEF Knows
    <2>8. QED
      BY <1>2, <2>5, <2>6, <2>7 DEF AcceptRead, read
  <1>3. CASE AcceptCount(r)
    <2>1. x.pc = "acceptCount" /\ ~x.nested /\ ~x.forming
      BY <1>x, <1>3 DEF AcceptCount, At, Knows, Leaving, Local
    <2>2. CASE Goto(r, "acceptFull")
      BY <1>x, <2>1, <2>2, GotoIs DEF Knows, Accepting
    <2>3. CASE Goto(r, "acceptWatch") /\ ~IsFull(x.target)
      <3>1. Cardinality(members[x.target]) < MaxPlayers
        <4>1. x.target \in PartyIds /\ IsFiniteSet(members[x.target])
          BY <1>x, <2>1 DEF Local, SerialInvariant
        <4>2. Cardinality(members[x.target]) \in Nat
          BY <4>1, FS_CardinalityType
        <4>3. QED
          BY <2>3, <4>2, BoundAssumption DEF IsFull
      <3>2. QED
        BY <1>x, <2>1, <2>3, <3>1, GotoIs DEF Knows, Accepting
    <2>4. QED
      BY <1>3, <2>2, <2>3 DEF AcceptCount
  <1>4. CASE AcceptFull(r)
    BY <1>4, EndKnows DEF AcceptFull
  <1>5. CASE AcceptWatch(r)
    <2>1. x.pc = "acceptWatch" /\ ~x.nested /\ ~x.forming
      BY <1>x, <1>5 DEF AcceptWatch, At, Knows, Leaving, Local
    <2>2. CASE Goto(r, "acceptExec")
      BY <1>x, <2>1, <2>2, GotoIs DEF Knows, Accepting
    <2>3. CASE /\ x.target = NoParty
               /\ Become(r, [x EXCEPT !.pc = "acceptExec", !.target = partySeq + 1,
                                      !.forming = TRUE])
      <3>1. LET y == req'[r] IN
            /\ y.pc = "acceptExec" /\ y.forming /\ ~y.nested
            /\ y.player = x.player /\ y.other = x.other
        <4>1. req'[r] = [x EXCEPT !.pc = "acceptExec", !.target = partySeq + 1, !.forming = TRUE]
          BY <2>3, BecomeIs
        <4>2. QED
          BY <1>x, <2>1, <4>1 DEF Request
      <3>2. QED
        BY <1>x, <2>1, <2>3, <3>1 DEF Knows, Accepting
    <2>4. QED
      BY <1>5, <2>2, <2>3 DEF AcceptWatch
  <1>6. QED
    BY <1>1, <1>2, <1>3, <1>4, <1>5

LEMMA ReturnKnows ==
    ASSUME Typed, NEW r \in Requests, Return(r), Knows(req[r]),
           req[r].nested => playerParty[req[r].player] = NoParty
    PROVE  Knows(req'[r])
  <1> DEFINE x == req[r]
             y == req'[r]
  <1>1. CASE ~x.nested /\ y = Idle
    BY <1>1, IdleKnows
  <1>2. CASE /\ x.nested /\ ~y.nested /\ ~y.forming
             /\ y.pc = JoinStep(x.target) /\ y.player = x.player /\ y.other = x.other
             /\ y.target = x.target
    <2>1. /\ y.pc \in {"acceptWatch", "acceptCount"}
          /\ y.pc = "acceptWatch" => y.target = NoParty
      BY <1>2 DEF JoinStep
    <2>2. /\ y.player # y.other /\ y.target = playerParty[y.other]
          /\ playerParty[y.player] = NoParty
      BY <1>2 DEF Knows
    <2> HIDE DEF y
    <2>3. QED
      BY <1>2, <2>1, <2>2 DEF Knows, y
  <1>3. QED
    BY <1>1, <1>2, ReturnIs

LEMMA LeaveKnows ==
    ASSUME Typed, SerialInvariant, NEW r \in Requests,
           StartLeave(r) \/ LeaveRead(r) \/ LeaveCheck(r) \/ LeaveCount(r) \/ DisbandRead(r)
    PROVE  Knows(req'[r])
  <1> DEFINE x == req[r]
  <1>x. x \in Request /\ Local(x) /\ Knows(x)
    BY DEF Typed, TypeOK, LocalOK, SerialInvariant
  <1>1. CASE StartLeave(r)
    <2>1. PICK p \in Players : Become(r, [Idle EXCEPT !.pc = "leaveRead", !.player = p,
                                                     !.leaving = playerParty[p]])
      BY <1>1 DEF StartLeave
    <2>2. req'[r] = [Idle EXCEPT !.pc = "leaveRead", !.player = p, !.leaving = playerParty[p]]
      BY <2>1, BecomeIs
    <2>3. req'[r].pc = "leaveRead" /\ ~req'[r].nested
      BY <2>2, IdleKnows DEF Request
    <2>4. QED
      BY <2>3 DEF Knows, Accepting, Inviting
  <1>2. CASE LeaveRead(r)
    <2>1. x.pc = "leaveRead"
      BY <1>2 DEF LeaveRead, At
    <2>2. CASE End(r)
      BY <2>2, EndKnows
    <2>3. CASE Goto(r, "leaveCheck") /\ playerParty[x.player] = x.leaving
      BY <1>x, <2>1, <2>3, GotoIs DEF Knows, Accepting, Inviting, Leaving, Clearing
    <2>4. QED
      BY <1>2, <2>2, <2>3 DEF LeaveRead, Answer
  <1>3. CASE LeaveCheck(r)
    <2>1. /\ x.pc = "leaveCheck" /\ x.player \in Players /\ x.leaving \in PartyIds
          /\ playerParty[x.player] = x.leaving
      BY <1>x, <1>3 DEF LeaveCheck, At, Knows, Local
    <2>2. x.player \in members[x.leaving]
      BY <2>1 DEF SerialInvariant, MembersMatchKeys
    <2>3. req'[r] = [x EXCEPT !.pc = "leaveExec", !.sent = sent[x.player]]
      BY <1>3, <2>2, BecomeIs DEF LeaveCheck
    <2>4. LET y == req'[r] IN
          /\ y.pc = "leaveExec" /\ y.player = x.player /\ y.other = x.other
          /\ y.target = x.target /\ y.leaving = x.leaving /\ y.nested = x.nested
      BY <1>x, <2>3 DEF Request
    <2>5. QED
      BY <1>x, <2>1, <2>4 DEF Knows, Accepting, Inviting, Leaving, Clearing
  <1>4. CASE LeaveCount(r)
    <2>1. x.pc = "leaveCount" /\ (x.nested => playerParty[x.player] = NoParty)
      BY <1>x, <1>4 DEF LeaveCount, At, Knows, Clearing
    <2>2. CASE Return(r)
      BY <1>x, <2>1, <2>2, ReturnKnows
    <2>3. CASE /\ LastMemberLeft(x.leaving)
               /\ Become(r, [x EXCEPT !.pc = "disbandRead",
                                      !.nested = @ /\ members[x.leaving] # {}])
      <3> DEFINE nested == x.nested /\ members[x.leaving] # {}
      <3>1. nested \in BOOLEAN /\ (nested => x.nested)
        OBVIOUS
      <3>2. req'[r] = [x EXCEPT !.pc = "disbandRead", !.nested = nested]
        BY <2>3, BecomeIs
      <3> HIDE DEF nested
      <3>3. LET y == req'[r] IN
            /\ y.pc = "disbandRead" /\ y.player = x.player /\ y.other = x.other
            /\ y.target = x.target /\ y.leaving = x.leaving /\ y.nested = nested
        BY <1>x, <3>2 DEF Request
      <3>4. QED
        BY <1>x, <2>1, <2>3, <3>1, <3>3 DEF Knows, Accepting, Inviting, Leaving, Clearing
    <2>4. QED
      BY <1>4, <2>2, <2>3 DEF LeaveCount
  <1>5. CASE DisbandRead(r)
    <2>1. x.pc = "disbandRead"
      BY <1>5 DEF DisbandRead, At
    <2>2. req'[r] = [x EXCEPT !.pc = "disbandExec", !.seen = members[x.leaving]]
      BY <1>5, BecomeIs DEF DisbandRead
    <2>3. LET y == req'[r] IN
          /\ y.pc = "disbandExec" /\ y.player = x.player /\ y.other = x.other
          /\ y.target = x.target /\ y.leaving = x.leaving /\ y.nested = x.nested
          /\ y.seen = members[x.leaving]
      BY <1>x, <2>2 DEF Request
    <2>4. QED
      BY <1>x, <2>1, <2>3 DEF Knows, Accepting, Inviting, Leaving, Clearing
  <1>6. QED
    BY <1>1, <1>2, <1>3, <1>4, <1>5

LEMMA InviteKnows ==
    ASSUME Typed, SerialInvariant, NEW r \in Requests,
           \/ StartInvite(r) \/ InviteRead(r) \/ InviteCheck(r) \/ InviteExec(r)
           \/ StartDecline(r) \/ DeclineRead(r) \/ DeclineExec(r) \/ Die(r)
    PROVE  Knows(req'[r])
  <1> DEFINE x == req[r]
  <1>x. x \in Request /\ Local(x) /\ Knows(x) /\ r \notin dirty
    BY DEF Typed, TypeOK, LocalOK, SerialInvariant
  <1>1. CASE StartInvite(r)
    <2>1. PICK p, q \in Players :
              /\ p # q
              /\ Become(r, [Idle EXCEPT !.pc = "inviteRead", !.player = p, !.other = q])
      BY <1>1 DEF StartInvite
    <2>2. req'[r] = [Idle EXCEPT !.pc = "inviteRead", !.player = p, !.other = q]
      BY <2>1, BecomeIs
    <2>3. /\ req'[r].pc = "inviteRead" /\ ~req'[r].nested
          /\ req'[r].player = p /\ req'[r].other = q
      BY <2>2, IdleKnows DEF Request
    <2>4. QED
      BY <2>1, <2>3 DEF Knows
  <1>2. CASE InviteRead(r)
    <2>1. x.pc = "inviteRead" /\ ~x.nested /\ x.player # x.other
      BY <1>x, <1>2 DEF InviteRead, At, Knows, Inviting, Leaving
    <2>2. PICK pc \in {"inviteExec", "inviteCheck"} : \E n :
              req'[r] = [x EXCEPT !.pc = pc, !.target = n]
      <3>1. \/ req'[r] = [x EXCEPT !.pc = "inviteExec", !.target = NoParty]
            \/ req'[r] = [x EXCEPT !.pc = "inviteCheck", !.target = playerParty[x.player]]
        BY <1>2, BecomeIs DEF InviteRead
      <3>2. QED
        BY <3>1
    <2>3. LET y == req'[r] IN
          y.pc = pc /\ ~y.nested /\ y.player = x.player /\ y.other = x.other
      BY <1>x, <2>1, <2>2 DEF Request
    <2>4. QED
      BY <2>1, <2>3 DEF Knows
  <1>3. CASE InviteCheck(r)
    <2>1. x.pc = "inviteCheck" /\ ~x.nested /\ x.player # x.other
      BY <1>x, <1>3 DEF InviteCheck, At, Knows, Inviting, Leaving
    <2>2. CASE End(r)
      BY <2>2, EndKnows
    <2>3. CASE Goto(r, "inviteExec")
      BY <2>1, <2>3, GotoIs DEF Knows
    <2>4. QED
      BY <1>x, <1>3, <2>2, <2>3 DEF InviteCheck, Answer, Retry
  <1>4. CASE StartDecline(r)
    <2>1. PICK v \in invites : \E p \in {v.from, v.to} :
              Become(r, [Idle EXCEPT !.pc = "declineRead", !.player = p, !.invite = v.id])
      BY <1>4 DEF StartDecline
    <2>2. PICK p \in {v.from, v.to} :
              req'[r] = [Idle EXCEPT !.pc = "declineRead", !.player = p, !.invite = v.id]
      BY <2>1, BecomeIs
    <2>3. req'[r].pc = "declineRead" /\ ~req'[r].nested
      BY <2>2, IdleKnows DEF Request
    <2>4. QED
      BY <2>3 DEF Knows, Accepting, Inviting
  <1>5. CASE DeclineRead(r)
    <2>1. CASE End(r)
      BY <2>1, EndKnows
    <2>2. CASE ~End(r)
      <3>1. PICK from : req'[r] = [x EXCEPT !.pc = "declineExec", !.other = from]
        BY <1>5, <2>2, BecomeIs DEF DeclineRead, Answer
      <3>2. ~x.nested
        BY <1>x, <1>5 DEF DeclineRead, At, Knows, Leaving
      <3>3. req'[r].pc = "declineExec" /\ ~req'[r].nested
        BY <1>x, <3>1, <3>2 DEF Request
      <3>4. QED
        BY <3>3 DEF Knows, Accepting, Inviting
    <2>3. QED
      BY <2>1, <2>2
  <1>6. CASE InviteExec(r) \/ DeclineExec(r) \/ Die(r)
    <2>1. End(r)
      BY <1>x, <1>6 DEF InviteExec, DeclineExec, Die, Answer, Retry
    <2>2. QED
      BY <2>1, EndKnows
  <1>7. QED
    BY <1>1, <1>2, <1>3, <1>4, <1>5, <1>6

\* Nobody invites himself (create_party_invite's handler, by way of StartInvite).
LEMMA InvitesStay ==
    ASSUME Typed, SerialInvariant, NEW r \in Requests, Start(r) \/ Serve(r) \/ Die(r)
    PROVE  \A v \in invites' : v.from # v.to
  <1>1. \A v \in invites : v.from # v.to
    BY DEF SerialInvariant
  <1>2. CASE InviteExec(r)
    <2>1. req[r].player # req[r].other
      BY <1>2 DEF InviteExec, At, SerialInvariant, Knows, Inviting
    <2>2. QED
      BY <1>1, <1>2, <2>1 DEF InviteExec, Retry, store
  <1>3. CASE ~InviteExec(r)
    <2>1. invites' \subseteq invites
      <3>1. CASE Start(r) \/ Die(r)
        BY <3>1 DEF Start, StartAccept, StartLeave, StartInvite, StartDecline, Die, Answer, store
      <3>2. CASE Serve(r)
        BY <1>3, <3>2 DEF Serve, AcceptRead, AcceptCount, AcceptFull, AcceptWatch, AcceptExec,
                LeaveRead, LeaveCheck, LeaveExec, LeaveCount, DisbandRead, DisbandExec,
                InviteRead, InviteCheck, DeclineRead, DeclineExec, Answer, Retry, store
      <3>3. QED
        BY <3>1, <3>2
    <2>2. QED
      BY <1>1, <2>1
  <1>4. QED
    BY <1>2, <1>3

\* The steps that write no party.
LEMMA QuietSerial ==
    ASSUME OneAtATime, Typed, SerialInvariant, NEW r \in Requests,
           Start(r) \/ Serve(r) \/ Die(r), ~AcceptExec(r), ~LeaveExec(r), ~DisbandExec(r)
    PROVE  SerialInvariant' /\ UNCHANGED <<playerParty, members>>
  <1>1. UNCHANGED <<playerParty, members>>
    BY WhoWrites
  <1>2. Knows(req'[r])
    BY AcceptKnows, LeaveKnows, InviteKnows DEF Start, Serve
  <1>3. \A q \in Requests : Knows(req[q])'
    BY <1>1, <1>2 DEF OneAtATime, Knows, LastMemberLeft
  <1>4. dirty' = {}
    BY UnmarkedStep DEF SerialInvariant
  <1>5. QED
    BY <1>1, <1>3, <1>4, InvitesStay DEF SerialInvariant, MembersMatchKeys, PartyIsCapped


\* What the transactions do to the parties when nobody interferes.
Formed(p, q, n) ==
    /\ p # q /\ playerParty[p] = NoParty /\ playerParty[q] = NoParty
    /\ members[n] = {}
    /\ playerParty' = [playerParty EXCEPT ![p] = n, ![q] = n]
    /\ members' = [members EXCEPT ![n] = {p, q}]
JoinedIn(p, n) ==
    /\ playerParty[p] \in {NoParty, n}
    /\ members[n] # {} /\ Cardinality(members[n]) < MaxPlayers
    /\ playerParty' = [playerParty EXCEPT ![p] = n]
    /\ members' = [members EXCEPT ![n] = @ \cup {p}]
Left(p, n) ==
    /\ playerParty[p] = n
    /\ playerParty' = [playerParty EXCEPT ![p] = NoParty]
    /\ members' = [members EXCEPT ![n] = @ \ {p}]
Released(n) ==
    /\ LastMemberLeft(n)
    /\ playerParty' = [p \in Players |-> IF p \in members[n] THEN NoParty ELSE playerParty[p]]
    /\ members' = [members EXCEPT ![n] = {}]

LEMMA AcceptIs ==
    ASSUME Typed, SerialInvariant, FreshInv, NEW r \in Requests, AcceptExec(r)
    PROVE  /\ req'[r] = Idle
           /\ req[r].player \in Players /\ req[r].other \in Players /\ req[r].target \in PartyIds
           /\ \/ Formed(req[r].player, req[r].other, req[r].target)
              \/ JoinedIn(req[r].player, req[r].target)
  <1> DEFINE x == req[r]
             p == x.player
             q == x.other
             n == x.target
  <1>1. /\ x \in Request /\ Knows(x) /\ x.pc = "acceptExec" /\ r \notin dirty
        /\ p \in Players /\ q \in Players /\ n \in PartyIds
    BY DEF Typed, TypeOK, LocalOK, Local, SerialInvariant, AcceptExec, At
  <1>2. /\ p # q /\ playerParty[p] \in {NoParty, playerParty[q]} /\ n # NoParty
        /\ x.forming => playerParty[q] = NoParty
        /\ ~x.forming => n = playerParty[q] /\ Cardinality(members[n]) < MaxPlayers
    BY <1>1, BoundAssumption DEF Knows, Accepting, PartyIds, NoParty
  <1>3. req'[r] = Idle
    BY <1>1, BecomeIs DEF AcceptExec, Retry, End
  <1> DEFINE joining == IF x.forming THEN {p, q} ELSE {p}
  <1>4. /\ playerParty' = [a \in Players |-> IF a \in joining THEN n ELSE playerParty[a]]
        /\ members' = [members EXCEPT ![n] = @ \cup joining]
    BY <1>1 DEF AcceptExec, Retry
  <1>5. playerParty \in [Players -> PartyIds \cup {NoParty}] /\ members \in [PartyIds -> SUBSET Players]
    BY DEF Typed, TypeOK
  <1>6. CASE x.forming
    <2>1. joining = {p, q} /\ members[n] = {}
      BY <1>1, <1>6 DEF FreshInv, FreshOK, At
    <2> HIDE DEF joining, p, q, n, x
    <2>2. Formed(p, q, n)
      BY <1>1, <1>2, <1>4, <1>5, <1>6, <2>1 DEF Formed
    <2>3. QED
      BY <1>1, <1>3, <2>2 DEF p, q, n, x
  <1>7. CASE ~x.forming
    <2>1. joining = {p}
      BY <1>7
    <2>2. q \in members[n]
      BY <1>1, <1>2, <1>7 DEF SerialInvariant, MembersMatchKeys
    <2> HIDE DEF joining, p, q, n, x
    <2>3. JoinedIn(p, n)
      BY <1>1, <1>2, <1>4, <1>5, <1>7, <2>1, <2>2 DEF JoinedIn
    <2>4. QED
      BY <1>1, <1>3, <2>3 DEF p, q, n, x
  <1>8. QED
    BY <1>6, <1>7

LEMMA LeaveIs ==
    ASSUME Typed, SerialInvariant, NEW r \in Requests, LeaveExec(r)
    PROVE  /\ Goto(r, "leaveCount")
           /\ req[r].player \in Players /\ req[r].leaving \in PartyIds
           /\ Left(req[r].player, req[r].leaving)
  <1>1. /\ req[r].player \in Players /\ req[r].leaving \in PartyIds /\ r \notin dirty
        /\ playerParty[req[r].player] = req[r].leaving
    BY DEF Typed, LocalOK, Local, SerialInvariant, Knows, LeaveExec, At
  <1>2. QED
    BY <1>1 DEF LeaveExec, Retry, Left

LEMMA DisbandIs ==
    ASSUME Typed, SerialInvariant, NEW r \in Requests, DisbandExec(r)
    PROVE  Return(r) /\ req[r].leaving \in PartyIds /\ Released(req[r].leaving)
  <1>1. /\ req[r].leaving \in PartyIds /\ r \notin dirty
        /\ LastMemberLeft(req[r].leaving) /\ req[r].seen = members[req[r].leaving]
    BY DEF Typed, LocalOK, Local, SerialInvariant, Knows, DisbandExec, At
  <1>2. QED
    BY <1>1 DEF DisbandExec, Disbanded, Retry, Released

\* The party sets and the keys agree, and the sets are finite and within the cap.
PartiesAgree == /\ MembersMatchKeys
                /\ \A n \in PartyIds : IsFiniteSet(members[n])
                /\ PartyIsCapped

LEMMA AgreeStep ==
    ASSUME Typed, PartiesAgree, NEW p \in Players, NEW q \in Players, NEW n \in PartyIds,
           Formed(p, q, n) \/ JoinedIn(p, n) \/ Left(p, n) \/ Released(n)
    PROVE  PartiesAgree'
  <1>1. /\ playerParty \in [Players -> PartyIds \cup {NoParty}]
        /\ members \in [PartyIds -> SUBSET Players] /\ NoParty \notin PartyIds
    BY DEF Typed, TypeOK, PartyIds, NoParty
  <1>2. /\ \A m \in PartyIds : IsFiniteSet(members[m]) /\ Cardinality(members[m]) <= MaxPlayers
        /\ \A m \in PartyIds : Cardinality(members[m]) \in Nat
        /\ \A m \in PartyIds : members[m] = {a \in Players : playerParty[a] = m}
    BY FS_CardinalityType DEF PartiesAgree, PartyIsCapped, MembersMatchKeys
  <1>3. \A m \in PartyIds : m # n => members'[m] = members[m]
    BY <1>1 DEF Formed, JoinedIn, Left, Released
  <1>4. /\ IsFiniteSet(members'[n]) /\ Cardinality(members'[n]) <= MaxPlayers
        /\ \A m \in PartyIds : members'[m] = {a \in Players : playerParty'[a] = m}
    <2>1. CASE Formed(p, q, n)
      <3>1. members'[n] = {p, q} /\ p # q
        BY <1>1, <2>1 DEF Formed
      <3>2. IsFiniteSet({p}) /\ Cardinality({p}) = 1
        BY FS_Singleton
      <3>3. IsFiniteSet({p} \cup {q}) /\ Cardinality({p} \cup {q}) = 1 + 1
        BY <3>1, <3>2, FS_AddElement
      <3>4. {p} \cup {q} = {p, q}
        OBVIOUS
      <3>5. 1 + 1 <= MaxPlayers
        BY BoundAssumption
      <3>6. \A m \in PartyIds : members'[m] = {a \in Players : playerParty'[a] = m}
        BY <1>1, <1>2, <2>1 DEF Formed
      <3>7. QED
        BY <3>1, <3>3, <3>4, <3>5, <3>6
    <2>2. CASE JoinedIn(p, n)
      <3>1. members'[n] = members[n] \cup {p} /\ Cardinality(members[n]) < MaxPlayers
        BY <1>1, <2>2 DEF JoinedIn
      <3>2. IsFiniteSet(members'[n]) /\ Cardinality(members'[n]) \in
                {Cardinality(members[n]), Cardinality(members[n]) + 1}
        BY <1>2, <3>1, FS_AddElement
      <3>3. Cardinality(members'[n]) <= MaxPlayers
        BY <1>2, <3>1, <3>2, BoundAssumption
      <3>4. \A m \in PartyIds : members'[m] = {a \in Players : playerParty'[a] = m}
        BY <1>1, <1>2, <2>2 DEF JoinedIn
      <3>5. QED
        BY <3>2, <3>3, <3>4
    <2>3. CASE Left(p, n)
      <3>1. members'[n] = members[n] \ {p}
        BY <1>1, <2>3 DEF Left
      <3>2. IsFiniteSet(members'[n]) /\ Cardinality(members'[n]) <= Cardinality(members[n])
            /\ Cardinality(members'[n]) \in Nat
        BY <1>2, <3>1, FS_Subset, FS_CardinalityType
      <3>3. Cardinality(members'[n]) <= MaxPlayers
        BY <1>2, <3>2, BoundAssumption
      <3>4. \A m \in PartyIds : members'[m] = {a \in Players : playerParty'[a] = m}
        BY <1>1, <1>2, <2>3 DEF Left
      <3>5. QED
        BY <3>2, <3>3, <3>4
    <2>4. CASE Released(n)
      <3>1. members'[n] = {}
        BY <1>1, <2>4 DEF Released
      <3>2. 0 <= MaxPlayers
        BY BoundAssumption
      <3>3. \A m \in PartyIds : members'[m] = {a \in Players : playerParty'[a] = m}
        BY <1>1, <1>2, <2>4 DEF Released
      <3>4. QED
        BY <3>1, <3>2, <3>3, FS_EmptySet
    <2>5. QED
      BY <2>1, <2>2, <2>3, <2>4
  <1>5. \A m \in PartyIds : IsFiniteSet(members'[m]) /\ Cardinality(members'[m]) <= MaxPlayers
    BY <1>2, <1>3, <1>4
  <1>6. QED
    BY <1>4, <1>5 DEF PartiesAgree, MembersMatchKeys, PartyIsCapped


\* The requests that write a party, and everything they know afterwards.
LEMMA WriteSerial ==
    ASSUME OneAtATime, Typed, SerialInvariant, FreshInv, NEW r \in Requests,
           AcceptExec(r) \/ LeaveExec(r) \/ DisbandExec(r)
    PROVE  SerialInvariant'
  <1> DEFINE x == req[r]
  <1>x. /\ x \in Request /\ Local(x) /\ Knows(x) /\ PartiesAgree
        /\ playerParty \in [Players -> PartyIds \cup {NoParty}]
    BY DEF Typed, TypeOK, LocalOK, SerialInvariant, PartiesAgree
  <1>1. PartiesAgree'
    <2>1. CASE AcceptExec(r)
      BY <1>x, <2>1, AcceptIs, AgreeStep
    <2>2. CASE LeaveExec(r)
      BY <1>x, <2>2, LeaveIs, AgreeStep
    <2>3. CASE DisbandExec(r)
      <3>1. x.player \in Players
        BY <1>x, <2>3 DEF DisbandExec, At, Local
      <3>2. QED
        BY <1>x, <2>3, <3>1, DisbandIs, AgreeStep
    <2>4. QED
      BY <2>1, <2>2, <2>3
  <1>2. Knows(req[r])'
    <2>1. CASE AcceptExec(r)
      <3>1. req'[r] = Idle
        BY <2>1, AcceptIs
      <3>2. QED
        BY <3>1, IdleKnows DEF Knows, Accepting, Inviting, Leaving
    <2>2. CASE LeaveExec(r)
      <3>1. /\ Goto(r, "leaveCount") /\ x.player \in Players /\ Left(x.player, x.leaving)
            /\ x.pc = "leaveExec" /\ (x.nested => x.other \in Players)
        BY <1>x, <2>2, LeaveIs DEF LeaveExec, At, Local
      <3>2. /\ playerParty'[x.player] = NoParty
            /\ \A q \in Players : q # x.player => playerParty'[q] = playerParty[q]
        BY <1>x, <3>1 DEF Left
      <3>3. LET y == req'[r] IN
            /\ y.pc = "leaveCount" /\ y.player = x.player /\ y.other = x.other
            /\ y.target = x.target /\ y.leaving = x.leaving /\ y.nested = x.nested
        BY <3>1, GotoIs
      <3>4. QED
        BY <1>x, <3>1, <3>2, <3>3 DEF Knows, Accepting, Inviting, Leaving, Clearing
    <2>3. CASE DisbandExec(r)
      <3>1. /\ Return(r) /\ x.leaving \in PartyIds /\ Released(x.leaving)
            /\ x.pc = "disbandExec" /\ x.player \in Players /\ (x.nested => x.other \in Players)
        BY <1>x, <2>3, DisbandIs DEF DisbandExec, At, Local
      <3>2. CASE req'[r] = Idle
        BY <3>2, IdleKnows DEF Knows, Accepting, Inviting, Leaving
      <3>3. CASE x.nested
        <4>1. /\ playerParty[x.player] = NoParty /\ x.target = playerParty[x.other]
              /\ x.leaving # x.target /\ x.player # x.other
          BY <1>x, <3>1, <3>3 DEF Knows, Clearing
        <4>2. x.other \notin members[x.leaving]
          BY <1>x, <3>1, <3>3, <4>1 DEF PartiesAgree, MembersMatchKeys
        <4>3. playerParty'[x.player] = NoParty /\ x.target = playerParty'[x.other]
          BY <1>x, <3>1, <3>3, <4>1, <4>2 DEF Released
        <4>4. LET y == req'[r] IN
              /\ y.pc = JoinStep(x.target) /\ y.player = x.player /\ y.other = x.other
              /\ y.target = x.target /\ ~y.nested /\ ~y.forming
          BY <3>1, <3>3, ReturnIs
        <4>5. /\ req'[r].pc \in {"acceptWatch", "acceptCount"}
              /\ req'[r].pc = "acceptWatch" => x.target = NoParty
          BY <4>4 DEF JoinStep
        <4>6. QED
          BY <4>1, <4>3, <4>4, <4>5 DEF Knows
      <3>4. QED
        BY <3>1, <3>2, <3>3, ReturnIs
    <2>4. QED
      BY <2>1, <2>2, <2>3
  <1>3. \A q \in Requests : Knows(req[q])'
    BY <1>2 DEF OneAtATime
  <1>4. /\ dirty' = {}
        /\ \A v \in invites' : v.from # v.to
    BY UnmarkedStep, InvitesStay DEF SerialInvariant, Serve
  <1>5. QED
    BY <1>1, <1>3, <1>4 DEF SerialInvariant, PartiesAgree

LEMMA SerialStep ==
    ASSUME OneAtATime, Typed, SerialInvariant, FreshInv, NEW r \in Requests,
           Start(r) \/ Serve(r) \/ Die(r)
    PROVE  SerialInvariant'
  BY QuietSerial, WriteSerial

\* A party of one is on its way out, as long as no request dies.
LEMMA ClearedStep ==
    ASSUME OneAtATime, ~Faults, Typed, SerialInvariant, FreshInv, OneIsCleared,
           NEW r \in Requests, Start(r) \/ Serve(r) \/ Die(r)
    PROVE  OneIsCleared'
  <1> DEFINE x == req[r]
  <1>x. /\ x \in Request /\ PartiesAgree
        /\ members \in [PartyIds -> SUBSET Players]
        /\ \A m \in PartyIds : IsFiniteSet(members[m]) /\ Cardinality(members[m]) \in Nat
    BY FS_CardinalityType DEF Typed, TypeOK, SerialInvariant, PartiesAgree
  <1>1. \A m \in PartyIds : Cardinality(members[m]) = 1 => x.pc \in Clearing /\ x.leaving = m
    BY DEF OneIsCleared, OneAtATime
  <1>2. SUFFICES ASSUME NEW m \in PartyIds, Cardinality(members'[m]) = 1
                 PROVE  req'[r].pc \in Clearing /\ req'[r].leaving = m
    BY DEF OneIsCleared
  <1>3. CASE AcceptExec(r)
    <2>1. x.pc = "acceptExec" /\ x.pc \notin Clearing
      BY <1>3 DEF AcceptExec, At, Clearing
    <2>2. m = x.target /\ x.target \in PartyIds
      BY <1>x, <1>1, <1>2, <1>3, <2>1, AcceptIs DEF Formed, JoinedIn
    <2>3. CASE Formed(x.player, x.other, m)
      <3>1. members'[m] = {x.player, x.other} /\ x.player # x.other
        BY <1>x, <2>3 DEF Formed
      <3>2. IsFiniteSet({x.player}) /\ Cardinality({x.player}) = 1
        BY FS_Singleton
      <3>3. Cardinality({x.player} \cup {x.other}) = 1 + 1
        BY <3>1, <3>2, FS_AddElement
      <3>4. {x.player} \cup {x.other} = members'[m]
        BY <3>1
      <3>5. QED
        BY <1>2, <3>3, <3>4
    <2>4. CASE JoinedIn(x.player, m)
      <3>1. members[m] # {} /\ members'[m] = members[m] \cup {x.player}
        BY <1>x, <2>4 DEF JoinedIn
      <3>2. Cardinality(members[m]) # 0 /\ Cardinality(members[m]) # 1
        BY <1>x, <1>1, <2>1, <3>1, FS_EmptySet
      <3>3. Cardinality(members'[m]) \in {Cardinality(members[m]), Cardinality(members[m]) + 1}
        BY <1>x, <3>1, FS_AddElement
      <3>4. QED
        BY <1>x, <1>2, <3>2, <3>3
    <2>5. QED
      BY <1>3, <2>2, <2>3, <2>4, AcceptIs
  <1>4. CASE LeaveExec(r)
    <2>1. /\ x.pc = "leaveExec" /\ x.pc \notin Clearing
          /\ Left(x.player, x.leaving) /\ x.leaving \in PartyIds
          /\ req'[r].pc = "leaveCount" /\ req'[r].leaving = x.leaving
      BY <1>4, LeaveIs, GotoIs DEF LeaveExec, At, Clearing
    <2>2. m = x.leaving
      BY <1>x, <1>1, <1>2, <2>1 DEF Left
    <2>3. QED
      BY <2>1, <2>2 DEF Clearing
  <1>5. CASE DisbandExec(r)
    <2>1. x.leaving \in PartyIds /\ Released(x.leaving)
      BY <1>5, DisbandIs
    <2>2. m # x.leaving
      <3>1. members'[x.leaving] = {}
        BY <1>x, <2>1 DEF Released
      <3>2. QED
        BY <1>2, <3>1, FS_EmptySet
    <2>3. members'[m] = members[m]
      BY <1>x, <2>1, <2>2 DEF Released
    <2>4. QED
      BY <1>1, <1>2, <2>2, <2>3
  <1>6. CASE ~AcceptExec(r) /\ ~LeaveExec(r) /\ ~DisbandExec(r)
    <2>1. members'[m] = members[m]
      BY <1>6, WhoWrites
    <2>2. /\ x.pc \in Clearing /\ x.leaving = m /\ Cardinality(members[m]) = 1
      BY <1>1, <1>2, <2>1
    <2>3. LeaveCount(r) \/ DisbandRead(r)
      BY <1>6, <2>2 DEF Clearing, Die, Start, StartAccept, StartLeave, StartInvite, StartDecline,
         Serve, AcceptRead, AcceptCount, AcceptFull, AcceptWatch, LeaveRead, LeaveCheck,
         InviteRead, InviteCheck, InviteExec, DeclineRead, DeclineExec, At
    <2>4. LastMemberLeft(m)
      BY <2>2 DEF LastMemberLeft
    <2>5. CASE LeaveCount(r)
      <3>1. PICK nested : req'[r] = [x EXCEPT !.pc = "disbandRead", !.nested = nested]
        BY <2>2, <2>4, <2>5, BecomeIs DEF LeaveCount
      <3>2. req'[r].pc = "disbandRead" /\ req'[r].leaving = m
        BY <1>x, <2>2, <3>1 DEF Request
      <3>3. QED
        BY <3>2 DEF Clearing
    <2>6. CASE DisbandRead(r)
      <3>1. req'[r] = [x EXCEPT !.pc = "disbandExec", !.seen = members[x.leaving]]
        BY <2>6, BecomeIs DEF DisbandRead
      <3>2. req'[r].pc = "disbandExec" /\ req'[r].leaving = m
        BY <1>x, <2>2, <3>1 DEF Request
      <3>3. QED
        BY <3>2 DEF Clearing
    <2>7. QED
      BY <2>3, <2>5, <2>6
  <1>7. QED
    BY <1>3, <1>4, <1>5, <1>6

SerialInv == Typed /\ FreshInv /\ SerialInvariant

LEMMA SerialInit == Init => SerialInv /\ OneIsCleared
  <1> SUFFICES ASSUME Init PROVE SerialInv /\ OneIsCleared
    OBVIOUS
  <1>1. Typed
    BY TypedInit
  <1>2. FreshInv
    BY BoundAssumption DEF Init, FreshInv, IdsOK, FreshOK, At, Idle, NoParty
  <1>3. /\ \A n \in PartyIds : members[n] = {} /\ n # NoParty
        /\ \A p \in Players : playerParty[p] = NoParty
        /\ \A r \in Requests : Knows(req[r])
        /\ dirty = {} /\ invites = {}
    BY IdleKnows DEF Init, PartyIds, NoParty
  <1>4. \A n \in PartyIds : IsFiniteSet(members[n]) /\ Cardinality(members[n]) = 0
    BY <1>3, FS_EmptySet
  <1>5. SerialInvariant
    BY <1>3, <1>4, BoundAssumption DEF SerialInvariant, MembersMatchKeys, PartyIsCapped
  <1>6. OneIsCleared
    BY <1>4 DEF OneIsCleared
  <1>7. QED
    BY <1>1, <1>2, <1>5, <1>6 DEF SerialInv

LEMMA SerialInductive ==
    ASSUME OneAtATime PROVE SerialInv /\ [Next]_vars => SerialInv'
  <1> SUFFICES ASSUME SerialInv, [Next]_vars PROVE SerialInv'
    OBVIOUS
  <1>1. Typed'
    BY TypedInductive DEF SerialInv
  <1>2. CASE UNCHANGED vars
    BY <1>1, <1>2 DEF vars, SerialInv, FreshInv, IdsOK, FreshOK, At, SerialInvariant,
                      MembersMatchKeys, PartyIsCapped, Knows, LastMemberLeft
  <1>3. CASE Next
    BY <1>1, <1>3, FreshInvStep, SerialStep DEF Next, SerialInv
  <1>4. QED
    BY <1>2, <1>3

LEMMA ClearedInductive ==
    ASSUME OneAtATime, ~Faults PROVE SerialInv /\ OneIsCleared /\ [Next]_vars => OneIsCleared'
  <1> SUFFICES ASSUME SerialInv, OneIsCleared, [Next]_vars PROVE OneIsCleared'
    OBVIOUS
  <1>1. CASE UNCHANGED vars
    BY <1>1 DEF vars, OneIsCleared
  <1>2. CASE Next
    BY <1>2, ClearedStep DEF Next, SerialInv
  <1>3. QED
    BY <1>1, <1>2

\* Served one at a time, and wherever they die, requests leave the party sets and
\* the players' party keys saying the same.
THEOREM SetsMatchKeys == ASSUME OneAtATime PROVE Spec => []MembersMatchKeys
  <1>1. Init => SerialInv
    BY SerialInit
  <1>2. SerialInv /\ [Next]_vars => SerialInv'
    BY SerialInductive
  <1>3. SerialInv => MembersMatchKeys
    BY DEF SerialInv, SerialInvariant
  <1>4. QED
    BY <1>1, <1>2, <1>3, PTL DEF Spec

\* Served one at a time, requests keep to max_players_per_party, which overlapping
\* accepts do not: the count and the write are then two round trips of one request.
THEOREM OneAtATimeIsCapped == ASSUME OneAtATime PROVE Spec => []PartyIsCapped
  <1>1. Init => SerialInv
    BY SerialInit
  <1>2. SerialInv /\ [Next]_vars => SerialInv'
    BY SerialInductive
  <1>3. SerialInv => PartyIsCapped
    BY DEF SerialInv, SerialInvariant
  <1>4. QED
    BY <1>1, <1>2, <1>3, PTL DEF Spec

\* Served one at a time and never cut short, requests leave no party of one:
\* whoever is left when the others leave is released too.
THEOREM NobodyIsAlone == ASSUME OneAtATime, ~Faults PROVE Spec => []NoPartyOfOne
  <1>1. Init => SerialInv /\ OneIsCleared
    BY SerialInit
  <1>2. SerialInv /\ OneIsCleared /\ [Next]_vars => (SerialInv /\ OneIsCleared)'
    BY SerialInductive, ClearedInductive
  <1>3. OneIsCleared => NoPartyOfOne
    BY DEF OneIsCleared, NoPartyOfOne, At, Clearing
  <1>4. QED
    BY <1>1, <1>2, <1>3, PTL DEF Spec


----------------------------------------------------------------------------
(* Parties, one request at a time, implement the registry.                  *)

\* The registry's view of a player: a member that is alone has no party.
Shown(p) == IF playerParty[p] # NoParty /\ ~LastMemberLeft(playerParty[p])
            THEN playerParty[p] ELSE NoParty
RegistryParty == [p \in Players |-> Shown(p)]

LEMMA RegistryIs ==
    /\ Registry!Spec <=> Registry!Init /\ [][Registry!Next]_RegistryParty
    /\ Registry!Init <=> RegistryParty = [p \in Players |-> 0]
  BY DEF Registry!Spec, Registry!Init, RegistryParty, Shown

InRegistry(n) == {p \in Players : RegistryParty[p] = n}

LEMMA InRegistryIs == \A n : Registry!In(n) = InRegistry(n)
  BY DEF Registry!In, InRegistry, RegistryParty, Shown

\* PartyRegistry's Cardinality is the one of this module.
LEMMA CardinalityIs == \A S : Registry!Cardinality(S) = Cardinality(S)
  BY DEF Registry!Cardinality, Cardinality

\* The registry's actions on that view.
LEMMA FormIs ==
    ASSUME NEW p, NEW q, NEW n \in 1..MaxParties, p # q,
           RegistryParty[p] = 0, RegistryParty[q] = 0, InRegistry(n) = {},
           RegistryParty' = [RegistryParty EXCEPT ![p] = n, ![q] = n]
    PROVE  Registry!Form(p, q)
  BY DEF Registry!Form, Registry!In, InRegistry, RegistryParty, Shown

LEMMA JoinIs ==
    ASSUME NEW p, NEW n, RegistryParty[p] = 0, InRegistry(n) # {},
           Cardinality(InRegistry(n)) < MaxPlayers,
           RegistryParty' = [RegistryParty EXCEPT ![p] = n]
    PROVE  Registry!Join(p, n)
  BY InRegistryIs, CardinalityIs DEF Registry!Join, RegistryParty, Shown

LEMMA LeavingIs ==
    ASSUME NEW p, RegistryParty[p] # 0, NEW gone,
           gone = IF Cardinality(InRegistry(RegistryParty[p])) = 2
                  THEN InRegistry(RegistryParty[p]) ELSE {p},
           RegistryParty' = [q \in Players |-> IF q \in gone THEN 0 ELSE RegistryParty[q]]
    PROVE  Registry!Leave(p)
  BY InRegistryIs, CardinalityIs DEF Registry!Leave, RegistryParty, Shown

\* The registry's party n is the party's set, unless its last member is leaving.
LEMMA InIs ==
    ASSUME Typed, PartiesAgree, NEW n \in PartyIds
    PROVE  InRegistry(n) = IF LastMemberLeft(n) THEN {} ELSE members[n]
  <1>1. members[n] = {p \in Players : playerParty[p] = n} /\ n # NoParty
    BY DEF PartiesAgree, MembersMatchKeys, PartyIds, NoParty
  <1>2. InRegistry(n) = {p \in Players : Shown(p) = n}
    BY DEF InRegistry, RegistryParty
  <1>3. QED
    BY <1>1, <1>2 DEF Shown


\* Who stays in his party, with whoever was there, is shown as he was.
LEMMA ShownStays ==
    ASSUME NEW a \in Players, playerParty'[a] = playerParty[a],
           playerParty[a] # NoParty => members'[playerParty[a]] = members[playerParty[a]]
    PROVE  Shown(a)' = Shown(a)
  BY DEF Shown, LastMemberLeft

LEMMA RegistryForms ==
    ASSUME Typed, PartiesAgree, NEW p \in Players, NEW q \in Players, NEW n \in PartyIds,
           Formed(p, q, n)
    PROVE  Registry!Form(p, q)
  <1>1. /\ playerParty \in [Players -> PartyIds \cup {NoParty}]
        /\ members \in [PartyIds -> SUBSET Players] /\ n # NoParty
    BY DEF Typed, TypeOK, PartyIds, NoParty
  <1>2. p # q /\ Shown(p) = NoParty /\ Shown(q) = NoParty /\ members[n] = {}
    BY DEF Formed, Shown
  <1>3. InRegistry(n) = {}
    BY <1>2, InIs
  <1>4. playerParty'[p] = n /\ playerParty'[q] = n /\ members'[n] = {p, q}
    BY <1>1 DEF Formed
  <1>5. ~LastMemberLeft(n)'
    <2>1. IsFiniteSet({p}) /\ Cardinality({p}) = 1
      BY FS_Singleton
    <2>2. Cardinality({p} \cup {q}) = 1 + 1
      BY <1>2, <2>1, FS_AddElement
    <2>3. {p} \cup {q} = members'[n]
      BY <1>4
    <2>4. QED
      BY <2>2, <2>3 DEF LastMemberLeft
  <1>6. Shown(p)' = n /\ Shown(q)' = n
    BY <1>1, <1>4, <1>5 DEF Shown
  <1>7. ASSUME NEW a \in Players, a # p, a # q PROVE Shown(a)' = Shown(a)
    <2>1. playerParty'[a] = playerParty[a] /\ playerParty[a] # n
      BY <1>1, <1>2, <1>7 DEF Formed, PartiesAgree, MembersMatchKeys
    <2>2. playerParty[a] # NoParty => members'[playerParty[a]] = members[playerParty[a]]
      BY <1>1, <2>1 DEF Formed
    <2>3. QED
      BY <2>1, <2>2, ShownStays
  <1>8. RegistryParty' = [RegistryParty EXCEPT ![p] = n, ![q] = n]
    BY <1>6, <1>7 DEF RegistryParty
  <1>9. RegistryParty[p] = 0 /\ RegistryParty[q] = 0
    BY <1>2 DEF RegistryParty, NoParty
  <1>10. QED
    BY <1>2, <1>3, <1>8, <1>9, FormIs DEF PartyIds

LEMMA RegistryJoins ==
    ASSUME Typed, PartiesAgree, NEW p \in Players, NEW n \in PartyIds, JoinedIn(p, n),
           Cardinality(members[n]) # 1
    PROVE  Registry!Join(p, n) \/ UNCHANGED RegistryParty
  <1>1. /\ playerParty \in [Players -> PartyIds \cup {NoParty}]
        /\ members \in [PartyIds -> SUBSET Players] /\ n # NoParty
        /\ members[n] = {a \in Players : playerParty[a] = n}
        /\ IsFiniteSet(members[n])
    BY DEF Typed, TypeOK, PartyIds, NoParty, PartiesAgree, MembersMatchKeys
  <1>2. CASE playerParty[p] = n
    <2>1. playerParty' = playerParty /\ members' = members
      BY <1>1, <1>2 DEF JoinedIn
    <2>2. QED
      BY <2>1 DEF RegistryParty, Shown, LastMemberLeft
  <1>3. CASE playerParty[p] # n
    <2>1. /\ Shown(p) = NoParty /\ members[n] # {} /\ Cardinality(members[n]) < MaxPlayers
          /\ p \notin members[n]
      BY <1>1, <1>3 DEF JoinedIn, Shown
    <2>2. Cardinality(members[n]) \in Nat /\ Cardinality(members[n]) > 1
      BY <1>1, <2>1, FS_EmptySet, FS_CardinalityType
    <2>3. InRegistry(n) = members[n]
      BY <2>2, InIs DEF LastMemberLeft
    <2>4. playerParty'[p] = n /\ members'[n] = members[n] \cup {p}
      BY <1>1 DEF JoinedIn
    <2>5. Cardinality(members'[n]) = Cardinality(members[n]) + 1
      <3>1. Cardinality(members[n] \cup {p}) = Cardinality(members[n]) + 1
        BY <1>1, <2>1, FS_AddElement
      <3>2. QED
        BY <2>4, <3>1
    <2>6. ~LastMemberLeft(n) /\ ~LastMemberLeft(n)'
      BY <2>2, <2>5 DEF LastMemberLeft
    <2>7. Shown(p)' = n
      BY <1>1, <2>4, <2>6 DEF Shown
    <2>8. ASSUME NEW a \in Players, a # p PROVE Shown(a)' = Shown(a)
      <3>1. playerParty'[a] = playerParty[a]
        BY <1>1, <2>8 DEF JoinedIn
      <3>2. CASE playerParty[a] = n
        BY <1>1, <2>6, <3>1, <3>2 DEF Shown
      <3>3. CASE playerParty[a] # n
        <4>1. playerParty[a] # NoParty => members'[playerParty[a]] = members[playerParty[a]]
          BY <1>1, <3>3 DEF JoinedIn
        <4>2. QED
          BY <3>1, <4>1, ShownStays
      <3>4. QED
        BY <3>2, <3>3
    <2>9. RegistryParty' = [RegistryParty EXCEPT ![p] = n]
      BY <2>7, <2>8 DEF RegistryParty
    <2>10. RegistryParty[p] = 0
      BY <2>1 DEF RegistryParty, NoParty
    <2>11. QED
      BY <2>1, <2>3, <2>9, <2>10, JoinIs
  <1>4. QED
    BY <1>2, <1>3

LEMMA RegistryLeaves ==
    ASSUME Typed, PartiesAgree, NEW p \in Players, NEW n \in PartyIds, Left(p, n),
           Cardinality(members[n]) # 1
    PROVE  Registry!Leave(p)
  <1>1. /\ playerParty \in [Players -> PartyIds \cup {NoParty}]
        /\ members \in [PartyIds -> SUBSET Players] /\ n # NoParty
        /\ members[n] = {a \in Players : playerParty[a] = n}
        /\ IsFiniteSet(members[n]) /\ p \in members[n]
    BY DEF Typed, TypeOK, PartyIds, NoParty, PartiesAgree, MembersMatchKeys, Left
  <1>2. Cardinality(members[n]) \in Nat /\ Cardinality(members[n]) > 1
    BY <1>1, FS_EmptySet, FS_CardinalityType
  <1>3. Shown(p) = n /\ InRegistry(n) = members[n] /\ ~LastMemberLeft(n)
    <2>1. ~LastMemberLeft(n)
      BY <1>2 DEF LastMemberLeft
    <2>2. QED
      BY <1>1, <2>1, InIs DEF Shown
  <1>4. /\ playerParty'[p] = NoParty /\ members'[n] = members[n] \ {p}
        /\ Cardinality(members'[n]) = Cardinality(members[n]) - 1
    BY <1>1, FS_RemoveElement DEF Left
  <1>5. LastMemberLeft(n)' <=> Cardinality(members[n]) = 2
    BY <1>2, <1>4 DEF LastMemberLeft
  <1> DEFINE gone == IF Cardinality(members[n]) = 2 THEN members[n] ELSE {p}
  <1>6. ASSUME NEW a \in Players PROVE Shown(a)' = IF a \in gone THEN 0 ELSE Shown(a)
    <2>1. CASE a = p
      BY <1>1, <1>4, <2>1 DEF Shown, NoParty
    <2>2. CASE a # p /\ playerParty[a] = n
      <3>1. playerParty'[a] = n /\ a \in members[n] /\ Shown(a) = n
        BY <1>1, <1>3, <2>2 DEF Left, Shown
      <3>2. QED
        BY <1>1, <1>5, <2>2, <3>1 DEF Shown, NoParty
    <2>3. CASE a # p /\ playerParty[a] # n
      <3>1. playerParty'[a] = playerParty[a] /\ a \notin gone
        BY <1>1, <2>3 DEF Left
      <3>2. playerParty[a] # NoParty => members'[playerParty[a]] = members[playerParty[a]]
        BY <1>1, <2>3 DEF Left
      <3>3. QED
        BY <3>1, <3>2, ShownStays
    <2>4. QED
      BY <2>1, <2>2, <2>3
  <1>7. RegistryParty' = [a \in Players |-> IF a \in gone THEN 0 ELSE RegistryParty[a]]
    BY <1>6 DEF RegistryParty
  <1>8. RegistryParty[p] = n
    BY <1>3 DEF RegistryParty
  <1>9. gone = IF Cardinality(InRegistry(RegistryParty[p])) = 2
               THEN InRegistry(RegistryParty[p]) ELSE {p}
    BY <1>3, <1>8
  <1>10. RegistryParty[p] # 0
    BY <1>1, <1>8 DEF NoParty
  <1> HIDE DEF gone
  <1>11. QED
    BY <1>7, <1>9, <1>10, LeavingIs

LEMMA RegistryReleases ==
    ASSUME Typed, PartiesAgree, NEW n \in PartyIds, Released(n)
    PROVE  UNCHANGED RegistryParty
  <1>1. /\ playerParty \in [Players -> PartyIds \cup {NoParty}]
        /\ members \in [PartyIds -> SUBSET Players] /\ n # NoParty
        /\ members[n] = {a \in Players : playerParty[a] = n}
    BY DEF Typed, TypeOK, PartyIds, NoParty, PartiesAgree, MembersMatchKeys
  <1>2. ASSUME NEW a \in Players PROVE Shown(a)' = Shown(a)
    <2>1. CASE playerParty[a] = n
      BY <1>1, <2>1 DEF Released, Shown
    <2>2. CASE playerParty[a] # n
      <3>1. playerParty'[a] = playerParty[a]
        BY <1>1, <2>2 DEF Released
      <3>2. playerParty[a] # NoParty => members'[playerParty[a]] = members[playerParty[a]]
        BY <1>1, <2>2 DEF Released
      <3>3. QED
        BY <3>1, <3>2, ShownStays
    <2>3. QED
      BY <2>1, <2>2
  <1>3. QED
    BY <1>2 DEF RegistryParty

LEMMA RegistryStep ==
    ASSUME OneAtATime, SerialInv, OneIsCleared, NEW r \in Requests,
           Start(r) \/ Serve(r) \/ Die(r)
    PROVE  Registry!Next \/ UNCHANGED RegistryParty
  <1>1. Typed /\ FreshInv /\ SerialInvariant /\ PartiesAgree
    BY DEF SerialInv, SerialInvariant, PartiesAgree
  <1>2. ~(req[r].pc \in Clearing) => \A n \in PartyIds : Cardinality(members[n]) # 1
    BY DEF OneIsCleared, OneAtATime
  <1>3. CASE AcceptExec(r)
    <2>1. PICK p \in Players, q \in Players, n \in PartyIds : Formed(p, q, n) \/ JoinedIn(p, n)
      BY <1>1, <1>3, AcceptIs
    <2>2. Cardinality(members[n]) # 1
      BY <1>2, <1>3 DEF AcceptExec, At, Clearing
    <2>3. Registry!Form(p, q) \/ Registry!Join(p, n) \/ UNCHANGED RegistryParty
      BY <1>1, <2>1, <2>2, RegistryForms, RegistryJoins
    <2>4. QED
      BY <2>1, <2>3 DEF Registry!Next, PartyIds
  <1>4. CASE LeaveExec(r)
    <2>1. PICK p \in Players, n \in PartyIds : Left(p, n)
      BY <1>1, <1>4, LeaveIs
    <2>2. Cardinality(members[n]) # 1
      BY <1>2, <1>4 DEF LeaveExec, At, Clearing
    <2>3. Registry!Leave(p)
      BY <1>1, <2>1, <2>2, RegistryLeaves
    <2>4. QED
      BY <2>1, <2>3 DEF Registry!Next
  <1>5. CASE DisbandExec(r)
    BY <1>1, <1>5, DisbandIs, RegistryReleases
  <1>6. CASE ~AcceptExec(r) /\ ~LeaveExec(r) /\ ~DisbandExec(r)
    <2>1. UNCHANGED <<playerParty, members>>
      BY <1>6, WhoWrites
    <2>2. QED
      BY <2>1 DEF RegistryParty, Shown, LastMemberLeft
  <1>7. QED
    BY <1>3, <1>4, <1>5, <1>6

\* Served one at a time and never cut short, party requests do what the registry
\* says: an accept forms a party of two or adds one member to a party with room,
\* a leave takes one member out, or the last two together, and nothing else moves
\* anyone.
THEOREM PartiesImplementRegistry ==
    ASSUME OneAtATime, ~Faults PROVE Spec => ImplementsRegistry
  <1>1. Init => SerialInv /\ OneIsCleared
    BY SerialInit
  <1>2. SerialInv /\ OneIsCleared /\ [Next]_vars => (SerialInv /\ OneIsCleared)'
    BY SerialInductive, ClearedInductive
  <1>3. Init => Registry!Init
    BY RegistryIs DEF Init, RegistryParty, Shown, NoParty
  <1>4. SerialInv /\ OneIsCleared /\ [Next]_vars => [Registry!Next]_RegistryParty
    <2> SUFFICES ASSUME SerialInv, OneIsCleared, [Next]_vars
                 PROVE  Registry!Next \/ UNCHANGED RegistryParty
      OBVIOUS
    <2>1. CASE UNCHANGED vars
      BY <2>1 DEF vars, RegistryParty, Shown, LastMemberLeft
    <2>2. CASE Next
      BY <2>2, RegistryStep DEF Next
    <2>3. QED
      BY <2>1, <2>2
  <1>5. QED
    BY <1>1, <1>2, <1>3, <1>4, RegistryIs, PTL DEF Spec, ImplementsRegistry

=============================================================================
