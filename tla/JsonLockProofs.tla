--------------------------- MODULE JsonLockProofs ---------------------------
(****************************************************************************)
(* Theorems about JsonLock, for every set of clients, with clients that die *)
(* and leases that run out.  Their hypothesis is the one thing the code     *)
(* takes for granted: a lease does not run out between owned() and the      *)
(* write that follows it.                                                   *)
(****************************************************************************)
EXTENDS JsonLock, TLAPS

LEMMA InitInvariant == Init => LockInvariant
  BY BoundAssumption, HolderAssumption
  DEF Init, LockInvariant, TypeOK, WritesOnlyWhileOwner, OwnerIsUpToDate, Docs, Absent

\* One step of a client, of a lease or of the document's own expiry.
LEMMA StepInvariant ==
    ASSUME "write" \notin Slow, LockInvariant, Next
    PROVE  LockInvariant'
  <1> USE HolderAssumption, BoundAssumption, SlowAssumption
      DEF LockInvariant, TypeOK, WritesOnlyWhileOwner, OwnerIsUpToDate, Inside, Goto, Docs
  <1>1. ASSUME NEW c \in Clients, New(c) PROVE LockInvariant'
    BY <1>1 DEF New
  <1>2. ASSUME NEW c \in Clients, Acquire(c) PROVE LockInvariant'
    BY <1>2 DEF Acquire
  <1>3. ASSUME NEW c \in Clients, Load(c) PROVE LockInvariant'
    BY <1>3 DEF Load
  <1>4. ASSUME NEW c \in Clients, Body(c) PROVE LockInvariant'
    <2>1. /\ modified' \in [Clients -> BOOLEAN]
          /\ value' \in [Clients -> BOOLEAN]
          /\ raised' \in [Clients -> BOOLEAN]
      BY <1>4 DEF Body
    <2>2. QED
      BY <1>4, <2>1 DEF Body
  <1>5. ASSUME NEW c \in Clients, Exit(c) PROVE LockInvariant'
    BY <1>5 DEF Exit, Owned
  <1>6. ASSUME NEW c \in Clients, Write(c) PROVE LockInvariant'
    <2>1. lock = c
      BY <1>6 DEF Write
    <2>2. doc' \in Docs /\ writes' \in Docs
      BY <1>6 DEF Write, Absent
    <2>3. lock' = lock /\ pc' = [pc EXCEPT ![c] = "release"]
      BY <1>6 DEF Write
    <2>4. QED
      BY <1>6, <2>1, <2>2, <2>3 DEF Write
  <1>7. ASSUME NEW c \in Clients, Release(c) PROVE LockInvariant'
    BY <1>7 DEF Release, Released
  <1>8. ASSUME NEW c \in Clients, Die(c) PROVE LockInvariant'
    BY <1>8 DEF Die
  <1>9. CASE Expire
    BY <1>9 DEF Expire, LeaseCanExpire
  <1>10. CASE ValueExpires
    BY <1>10 DEF ValueExpires, Absent
  <1>11. QED
    BY <1>1, <1>2, <1>3, <1>4, <1>5, <1>6, <1>7, <1>8, <1>9, <1>10 DEF Next, Step

\* Nobody writes without the lock, and whoever has the lock works on the latest
\* document.
THEOREM LockIsSafe ==
    ASSUME "write" \notin Slow
    PROVE  Spec => []LockInvariant
  <1>1. LockInvariant /\ [Next]_vars => LockInvariant'
    <2>1. CASE UNCHANGED vars
      BY <2>1 DEF vars, LockInvariant, TypeOK, WritesOnlyWhileOwner, OwnerIsUpToDate
    <2>2. CASE Next
      BY <2>2, StepInvariant
    <2>3. QED
      BY <2>1, <2>2
  <1>2. QED
    BY InitInvariant, <1>1, PTL DEF Spec

\* No update made through a JsonLock overwrites one its author has not seen.
THEOREM UpdatesAreNotLost ==
    ASSUME "write" \notin Slow
    PROVE  Spec => NoLostUpdate
  <1>1. LockInvariant /\ [Next]_vars
            => [\A c \in Clients : Updates(c) => seen[c] = writes]_vars
    BY DEF LockInvariant, WritesOnlyWhileOwner, OwnerIsUpToDate, Updates
  <1>2. Spec => []LockInvariant
    BY LockIsSafe
  <1>3. QED
    BY <1>1, <1>2, PTL DEF Spec, NoLostUpdate
=============================================================================
