------------------------------ MODULE JsonLock ------------------------------
(****************************************************************************)
(* JsonLock of driftbase/utils/redis_utils.py: the context manager through  *)
(* which lobbies, match placements and other documents are created and      *)
(* changed.  One JSON document in Redis, one Redis lock beside it.  The     *)
(* lock is a key with a lease: it disappears by itself after lock_timeout   *)
(* seconds, whatever its holder is doing by then.  One action is one Redis  *)
(* round trip of a client, or the body of its with statement.               *)
(****************************************************************************)
EXTENDS Naturals, FiniteSets

CONSTANTS
    Clients,        \* greenlets that enter the with statement
    MaxWrites,      \* bound on the number of writes
    Slow,           \* the places where a holder may outlive its lease
    Faults,         \* TRUE: a client may die while it holds the lock
    Nobody,         \* the lock key is absent
    Dead            \* the lock key holds the token of a client that died

Inside == {"load", "body", "exit", "write", "release"}

ASSUME HolderAssumption == Nobody \notin Clients /\ Dead \notin Clients /\ Nobody # Dead
ASSUME BoundAssumption  == MaxWrites \in Nat /\ Faults \in BOOLEAN
ASSUME SlowAssumption   == Slow \subseteq Inside

Absent == 0                           \* the document's key is absent

VARIABLES
    lock,       \* key + "LOCK": whose token it holds
    doc,        \* the document: the number of the write that made it
    writes,     \* how many times the document was written or deleted
    pc,         \* where each client is
    value,      \* bool(_value): a document, or None
    modified,   \* _modified
    raised,     \* exc_type is not None
    seen        \* history: writes at the time the client read the document

vars == <<lock, doc, writes, pc, value, modified, raised, seen>>

Docs == 0..MaxWrites

TypeOK ==
    /\ lock \in Clients \cup {Nobody, Dead}
    /\ doc \in Docs
    /\ writes \in Docs
    /\ pc \in [Clients -> {"idle", "acquire"} \cup Inside]
    /\ value \in [Clients -> BOOLEAN]
    /\ modified \in [Clients -> BOOLEAN]
    /\ raised \in [Clients -> BOOLEAN]
    /\ seen \in [Clients -> Docs]

Init ==
    /\ lock = Nobody
    /\ doc = Absent
    /\ writes = 0
    /\ pc = [c \in Clients |-> "idle"]
    /\ value = [c \in Clients |-> FALSE]
    /\ modified = [c \in Clients |-> FALSE]
    /\ raised = [c \in Clients |-> FALSE]
    /\ seen = [c \in Clients |-> 0]

Goto(c, place) == pc' = [pc EXCEPT ![c] = place]

\* A with statement is reached: a new JsonLock object.
New(c) ==
    /\ pc[c] = "idle"
    /\ Goto(c, "acquire")
    /\ value' = [value EXCEPT ![c] = FALSE]
    /\ modified' = [modified EXCEPT ![c] = FALSE]
    /\ raised' = [raised EXCEPT ![c] = FALSE]
    /\ seen' = [seen EXCEPT ![c] = 0]
    /\ UNCHANGED <<lock, doc, writes>>

\* acquire(blocking=True): SET NX PX, tried until it succeeds.
Acquire(c) ==
    /\ pc[c] = "acquire"
    /\ lock = Nobody
    /\ lock' = c
    /\ Goto(c, "load")
    /\ UNCHANGED <<doc, writes, value, modified, raised, seen>>

\* value = get(key)
Load(c) ==
    /\ pc[c] = "load"
    /\ value' = [value EXCEPT ![c] = doc # Absent]
    /\ seen' = [seen EXCEPT ![c] = writes]
    /\ Goto(c, "body")
    /\ UNCHANGED <<lock, doc, writes, modified, raised>>

\* The bound: every write that is under way has a number left for it.
Room == writes + Cardinality({c \in Clients : modified[c] /\ pc[c] \in {"exit", "write"}})
            < MaxWrites

\* The body reads value and may assign it, a new document or None, any number
\* of times, and may raise before or after it did.
Body(c) ==
    /\ pc[c] = "body"
    /\ \/ modified' = modified /\ value' = value
       \/ /\ Room
          /\ modified' = [modified EXCEPT ![c] = TRUE]
          /\ \E b \in BOOLEAN : value' = [value EXCEPT ![c] = b]
    /\ \E b \in BOOLEAN : raised' = [raised EXCEPT ![c] = b]
    /\ Goto(c, "exit")
    /\ UNCHANGED <<lock, doc, writes, seen>>

\* if self._lock.owned(): otherwise neither a write nor a release.
Owned_Unchecked(c) == TRUE                                    \* mutant of Owned
Owned(c) == lock = c

Exit(c) ==
    /\ pc[c] = "exit"
    /\ Goto(c, IF Owned(c) THEN "write" ELSE "idle")
    /\ UNCHANGED <<lock, doc, writes, value, modified, raised, seen>>

\* The body's assignment is written when it was made and nothing was raised.
Writes(c) == modified[c] /\ ~raised[c]

\* pipe.delete, pipe.set, pipe.execute: one transaction.  The document gets its
\* number here; a falsy value leaves the key deleted.
Write(c) ==
    /\ pc[c] = "write"
    /\ \/ /\ Writes(c)
          /\ writes < MaxWrites
          /\ writes' = writes + 1
          /\ doc' = IF value[c] THEN writes + 1 ELSE Absent
       \/ /\ ~Writes(c)
          /\ UNCHANGED <<doc, writes>>
    /\ Goto(c, "release")
    /\ UNCHANGED <<lock, value, modified, raised, seen>>

\* release() deletes the key if it still holds the client's token and raises
\* LockNotOwnedError otherwise.
Released_Whatever(c) == Nobody                             \* mutant of Released
Released(c) == IF lock = c THEN Nobody ELSE lock

Release(c) ==
    /\ pc[c] = "release"
    /\ lock' = Released(c)
    /\ Goto(c, "idle")
    /\ UNCHANGED <<doc, writes, value, modified, raised, seen>>

\* The client's process dies inside the with statement: the key stays.
Die(c) ==
    /\ Faults
    /\ pc[c] \in Inside
    /\ lock' = IF lock = c THEN Dead ELSE lock
    /\ Goto(c, "idle")
    /\ UNCHANGED <<doc, writes, value, modified, raised, seen>>

\* lock_timeout seconds passed since the lock was taken: timeout=lock_timeout.
LeaseCanExpire_Never == FALSE                          \* mutant of LeaseCanExpire
LeaseCanExpire ==
    \/ lock = Dead
    \/ \E c \in Clients : lock = c /\ pc[c] \in Slow
Expire ==
    /\ LeaseCanExpire
    /\ lock' = Nobody
    /\ UNCHANGED <<doc, writes, pc, value, modified, raised, seen>>

\* ex=self._ttl: the document's time to live is over.
ValueExpires ==
    /\ doc # Absent
    /\ doc' = Absent
    /\ UNCHANGED <<lock, writes, pc, value, modified, raised, seen>>

Step(c) == Acquire(c) \/ Load(c) \/ Body(c) \/ Exit(c) \/ Write(c) \/ Release(c)

Next == \/ \E c \in Clients : New(c) \/ Step(c) \/ Die(c)
        \/ Expire
        \/ ValueExpires

Spec == Init /\ [][Next]_vars

\* A running client goes on; a lease ends.  Nothing makes a request arrive, and
\* nothing is fair to one client polling for the lock among others.
Fairness == /\ \A c \in Clients : WF_vars(Load(c) \/ Body(c) \/ Exit(c) \/ Write(c) \/ Release(c))
            /\ WF_vars(Expire)
FairSpec == Spec /\ Fairness

----------------------------------------------------------------------------
(* What the users of JsonLock rely on.                                      *)

\* `if self._lock.owned()` (redis_utils.py:51) still holds under it: a client
\* that is about to write has the lock.
WritesOnlyWhileOwner == \A c \in Clients : pc[c] = "write" => lock = c

\* Whoever still owns the lock and has read the document has read the latest one.
OwnerIsUpToDate ==
    \A c \in Clients : lock = c =>
        /\ pc[c] \in Inside
        /\ pc[c] \in {"body", "exit", "write"} => seen[c] = writes

\* What JsonLock.__enter__ and __exit__ keep true between them, whatever leases
\* run out outside the window between owned() and the write: nobody writes who
\* does not own the lock, and no owner works on an old document.
LockInvariant == TypeOK /\ WritesOnlyWhileOwner /\ OwnerIsUpToDate

\* The step of __exit__ in which c updates the document.
Updates(c) == pc[c] = "write" /\ Writes(c) /\ pc'[c] = "release"

\* No update is lost: between a client's get and its write (redis_utils.py:44
\* and 57) nobody else wrote or deleted the document.
NoLostUpdate == [][\A c \in Clients : Updates(c) => seen[c] = writes]_vars

\* A client that died or was held up inside the with statement does not keep the
\* others out for ever (timeout=lock_timeout, redis_utils.py:31): the lock is
\* free again and again.
LockIsFreed == []<>(lock = Nobody)
=============================================================================
