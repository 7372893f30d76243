----------------------------- MODULE MCServices -----------------------------
(***************************************************************************)
(* The services that share no state with one another, side by side: a      *)
(* behaviour is one of the first part alone, while the others rest.  What  *)
(* they do call of each other is modelled in the caller (see the README).  *)
(***************************************************************************)
EXTENDS Accounts, Clients, CounterLocks, Counters, FlexMatchBans, Friendships, GameServers,
        MatchPlayers, MatchQueue, Messages, PlayerPlacements, PlayerState, Presence, Sandbox, Summaries, TLC

VARIABLE part   \* the service that runs

Parts == {"accounts", "bans", "clients", "counters", "friends", "locks", "messages",
          "placements", "presence", "queue", "roster", "sandbox", "servers", "state", "summary"}

vars == <<part, accountVars, banVars, clientVars, counterVars, friendVars, lockVars,
          messageVars, placementVars, presenceVars, queueVars, rosterVars, sandboxVars, serverVars,
          playerVars, summaryVars>>

Init ==
  /\ part \in Parts
  /\ AccountsInit /\ BansInit /\ ClientsInit /\ CountersInit /\ FriendsInit /\ LocksInit
  /\ MessagesInit
  /\ PlacementsInit /\ PresenceInit /\ QueueInit /\ RosterInit /\ SandboxInit /\ ServersInit
  /\ StateInit /\ SummaryInit

\* The step is one of part p.
Runs(p) ==
  /\ p = part
  /\ UNCHANGED part
  /\ p # "accounts" => UNCHANGED accountVars
  /\ p # "bans" => UNCHANGED banVars
  /\ p # "clients" => UNCHANGED clientVars
  /\ p # "counters" => UNCHANGED counterVars
  /\ p # "friends" => UNCHANGED friendVars
  /\ p # "locks" => UNCHANGED lockVars
  /\ p # "messages" => UNCHANGED messageVars
  /\ p # "placements" => UNCHANGED placementVars
  /\ p # "presence" => UNCHANGED presenceVars
  /\ p # "queue" => UNCHANGED queueVars
  /\ p # "roster" => UNCHANGED rosterVars
  /\ p # "sandbox" => UNCHANGED sandboxVars
  /\ p # "servers" => UNCHANGED serverVars
  /\ p # "state" => UNCHANGED playerVars
  /\ p # "summary" => UNCHANGED summaryVars

Next ==
  \/ Runs("accounts") /\ AccountsNext
  \/ Runs("bans") /\ BansNext
  \/ Runs("clients") /\ ClientsNext
  \/ Runs("counters") /\ CountersNext
  \/ Runs("friends") /\ FriendsNext
  \/ Runs("locks") /\ LocksNext
  \/ Runs("messages") /\ MessagesNext
  \/ Runs("placements") /\ PlacementsNext
  \/ Runs("presence") /\ PresenceNext
  \/ Runs("queue") /\ QueueNext
  \/ Runs("roster") /\ RosterNext
  \/ Runs("sandbox") /\ SandboxNext
  \/ Runs("servers") /\ ServersNext
  \/ Runs("state") /\ StateNext
  \/ Runs("summary") /\ SummaryNext

Spec == Init /\ [][Next]_vars

-----------------------------------------------------------------------------
\* Every part keeps the shape of its state, and what belongs to that shape: a row of the
\* match queue names a match exactly if it is matched (matchqueue.py:98-120).
TypesOK ==
  /\ part = "accounts" => AccountsTypeOK
  /\ part = "bans" => BansTypeOK
  /\ part = "clients" => ClientsTypeOK
  /\ part = "counters" => CountersTypeOK
  /\ part = "friends" => FriendsTypeOK
  /\ part = "locks" => LocksTypeOK
  /\ part = "messages" => MessagesTypeOK
  /\ part = "placements" => PlacementsTypeOK
  /\ part = "presence" => PresenceTypeOK
  /\ part = "queue" => QueueTypeOK
  /\ part = "roster" => RosterTypeOK
  /\ part = "sandbox" => SandboxTypeOK
  /\ part = "servers" => ServersTypeOK
  /\ part = "state" => StateTypeOK
  /\ part = "summary" => SummaryTypeOK

-----------------------------------------------------------------------------
\* The instance.

MCAlphabet == <<"a", "b">>
MCTimes == <<1, 2, 4>>
MCWidth == "total" :> 0 @@ "second" :> 2
MCRefs == "m" :> "v1" @@ "n" :> "v2"
MCRequests == {"q1", "q2"} \X {"challenge"} \X {"v1"} \cup {"q2", "q3"} \X {NoToken} \X {NoRef}
MCWanted == {<<>>, "deaths" :> 1} \cup {"kills" :> v : v \in FieldValues}
            \cup {"kills" :> v @@ "deaths" :> 1 : v \in FieldValues}
=============================================================================
