------------------------------- MODULE Sandbox -------------------------------
(***************************************************************************)
(* The server of one sandbox location (sandbox.py): a player who enters is *)
(* sent to the server that runs, waits for the one being placed, or has    *)
(* GameLift place one.  The placement is kept in Redis under a key of the  *)
(* location, read and written under a JsonLock, and changed by the queue   *)
(* events of GameLift, which the module models as the code uses it.        *)
(*                                                                         *)
(* Assumed, and named where they are used: GameLift is over with a         *)
(* placement, or its event is processed, before the key of it expires; a   *)
(* completed key outlives the start of its server and the requests from    *)
(* before; no lock's lease ends, and GameLift's answer is not lost.  That  *)
(* a placement failed may be told late, or not at all.                     *)
(***************************************************************************)
EXTENDS Naturals, FiniteSets

CONSTANTS Visitors,       \* the players
          MaxSessions,    \* bound on the placements
          NoPlacement

VARIABLES visit,        \* where the request of each player is
          cached,       \* the key of the location
          session,      \* GameLift: what became of each placement
          news,         \* queue events on their way
          usurped       \* placements whose key was deleted or completed on account of others

sandboxVars == <<visit, cached, session, news, usurped>>

Sessions == 1..MaxSessions
Placement == [id : Sessions, status : {"pending", "completed"}]

ASSUME SandboxAssumption == MaxSessions \in Nat /\ NoPlacement \notin Placement

SandboxInit == /\ visit = [p \in Visitors |-> "away"] /\ cached = NoPlacement
               /\ session = [s \in Sessions |-> "none"] /\ news = {} /\ usurped = {}

SandboxTypeOK == /\ visit \in [Visitors -> {"away", "waits", "creates", "nukes"}]
                 /\ cached \in Placement \cup {NoPlacement}
                 /\ session \in [Sessions -> {"none", "placing", "starting", "running", "over"}]
                 /\ news \subseteq [type : {"Fulfilled", "Failed"}, id : Sessions]
                 /\ usurped \subseteq Sessions

IsPending == cached # NoPlacement /\ cached.status = "pending"
CachedId == IF cached = NoPlacement THEN {} ELSE {cached.id}
Goes(p, place) == visit' = [visit EXCEPT ![p] = place]

-----------------------------------------------------------------------------
\* handle_player_session_request.  With a match that runs the player is sent there.
Enter(p) ==
  /\ visit[p] = "away" /\ Goes(p, "waits")
  /\ \A s \in Sessions : session[s] # "running"
  /\ UNCHANGED <<cached, session, news, usurped>>

\* Each half second under the lock, as long as the placement is pending.
FindsNoPlacement(p) ==
  /\ visit[p] = "waits" /\ cached = NoPlacement /\ Goes(p, "creates")
  /\ UNCHANGED <<cached, session, news, usurped>>

\* Completed while we waited: the request starts over, and is refused in the end when no
\* match shows up in ten seconds.
StartsOver(p) ==
  /\ visit[p] = "waits" /\ cached # NoPlacement /\ ~IsPending /\ Goes(p, "away")
  /\ UNCHANGED <<cached, session, news, usurped>>

\* PLACEMENT_TIMEOUT seconds after its own entry the last look still finds a placement
\* pending, not always the one that was there at first.  It is nuked half a second later,
\* without the lock: whatever is cached by then.
GivesUp(p) ==
  /\ visit[p] = "waits" /\ IsPending /\ Goes(p, "nukes")
  /\ UNCHANGED <<cached, session, news, usurped>>
Nukes(p) ==
  /\ visit[p] = "nukes" /\ Goes(p, "away") /\ cached' = NoPlacement
  /\ usurped' = usurped \cup CachedId
  /\ UNCHANGED <<session, news>>

StartsPlacement ==
  \E s \in Sessions : /\ session[s] = "none" /\ \A t \in 1..(s - 1) : session[t] # "none"
                      /\ session' = [session EXCEPT ![s] = "placing"]
                      /\ cached' = [id |-> s, status |-> "pending"]

\* _create_placement, under the lock: GameLift is asked only when there is no placement
\* still, and may refuse.  One who lost the race calls the request with the default of its
\* queue, which is a type and no name: GameLift refuses it, and the request fails.
Creates_Always(p) ==                                           \* mutant of Creates
  /\ visit[p] = "creates" /\ StartsPlacement /\ Goes(p, "away")
  /\ UNCHANGED <<news, usurped>>
Creates(p) ==
  /\ visit[p] = "creates" /\ Goes(p, "away")
  /\ (cached = NoPlacement /\ StartsPlacement) \/ UNCHANGED <<cached, session>>
  /\ UNCHANGED <<news, usurped>>

\* GameLift fulfils a placement or gives up on it, and says so.
GameLiftSettles(s, to, type) ==
  /\ session[s] = "placing" /\ session' = [session EXCEPT ![s] = to]
  /\ news' = news \cup {[type |-> type, id |-> s]}
  /\ UNCHANGED <<visit, cached, usurped>>
GameLiftFulfils(s) == GameLiftSettles(s, "starting", "Fulfilled")
GameLiftFails(s) == GameLiftSettles(s, "over", "Failed")

FailureIsLost(e) ==
  /\ e.type = "Failed" /\ news' = news \ {e}
  /\ UNCHANGED <<visit, cached, session, usurped>>

\* Whatever is cached is completed, and the players of the placement are told where to go.
ProcessFulfilled(e) ==
  /\ e.type = "Fulfilled" /\ news' = news \ {e}
  /\ cached' = IF cached = NoPlacement THEN NoPlacement ELSE [cached EXCEPT !.status = "completed"]
  /\ usurped' = usurped \cup (CachedId \ {e.id})
  /\ UNCHANGED <<visit, session>>

\* Whatever is cached is nuked.
ProcessFailure(e) ==
  /\ e.type = "Failed" /\ news' = news \ {e} /\ cached' = NoPlacement
  /\ usurped' = usurped \cup (CachedId \ {e.id})
  /\ UNCHANGED <<visit, session>>

\* The server registers its match, and ends some day; one that never started ends too.
ServerRegisters(s) ==
  /\ session[s] = "starting" /\ session' = [session EXCEPT ![s] = "running"]
  /\ UNCHANGED <<visit, cached, news, usurped>>
ServerEnds(s) ==
  /\ session[s] \in {"starting", "running"} /\ session' = [session EXCEPT ![s] = "over"]
  /\ UNCHANGED <<visit, cached, news, usurped>>

\* A placement lives for PLACEMENT_TIMEOUT seconds, the timeout of GameLift's queue too, and
\* PLACEMENT_REDIS_TTL seconds once completed: by then its server has registered its match
\* or is gone, and no request of before is still under way.
CacheExpires ==
  /\ cached # NoPlacement
  /\ IF IsPending THEN session[cached.id] = "over"
     ELSE /\ session[cached.id] \in {"placing", "starting"} => cached.id \in usurped
          /\ \A p \in Visitors : visit[p] = "away"
  /\ cached' = NoPlacement /\ UNCHANGED <<visit, session, news, usurped>>

SandboxNext ==
  \/ \E p \in Visitors : \/ Enter(p) \/ FindsNoPlacement(p) \/ StartsOver(p)
                         \/ GivesUp(p) \/ Nukes(p) \/ Creates(p)
  \/ \E s \in Sessions : \/ GameLiftFulfils(s) \/ GameLiftFails(s)
                         \/ ServerRegisters(s) \/ ServerEnds(s)
  \/ \E e \in news : ProcessFulfilled(e) \/ ProcessFailure(e) \/ FailureIsLost(e)
  \/ CacheExpires

SandboxSpec == SandboxInit /\ [][SandboxNext]_sandboxVars

-----------------------------------------------------------------------------
\* However many players enter at the same time, one server at most is placed, starts or
\* runs for a location, and while GameLift is at work on one the cache names it
\* (sandbox.py:89-92, the lock against the lost race, and 220-259); more than one only after
\* a waiter at his limit, or the late event of another placement, took the key of one
\* (sandbox.py:56-58, 231 and 247).
AtWork == {s \in Sessions : session[s] \in {"placing", "starting", "running"}} \ usurped
OneServerPerLocation ==
  /\ Cardinality(AtWork) <= 1
  /\ \A s \in AtWork : session[s] = "placing" => IsPending /\ cached.id = s
=============================================================================
