------------------------------ MODULE Presence ------------------------------
(***************************************************************************)
(* The rich presence of one player (richpresence.py): a Redis hash that    *)
(* says whether he is online and what he plays, and the message sent to    *)
(* his friends when it changes.  A client that is registered or removed    *)
(* sets the one, a match server that adds or removes him the other; every  *)
(* request looks at the hash, writes it, reads it again and then asks who  *)
(* the friends are, a round trip each, with others' steps in between.      *)
(***************************************************************************)
EXTENDS FiniteSets

CONSTANTS Followers,   \* whoever may be a friend of the player
          Setters,     \* the requests about him that may overlap
          Maps, Modes  \* what he may play, "" if nothing

VARIABLES presence,    \* rich_presence:<id>, a field that is missing being empty
          befriended,  \* his active friendships
          setter,      \* where every request is
          owed,        \* the friends not yet sent the presence since it last changed
          misled       \* since then a match server changed it, who had read it as it set it

presenceVars == <<presence, befriended, setter, owed, misled>>

Resting == [step |-> "no"]

ASSUME PresenceAssumption == "" \in Maps /\ "" \in Modes

PresenceInit == /\ presence = [online |-> "", map |-> "", mode |-> ""]
                /\ befriended = {} /\ owed = {} /\ misled = FALSE
                /\ setter = [r \in Setters |-> Resting]

PresenceTypeOK ==
  /\ presence \in [online : {"", "0", "1"}, map : Maps, mode : Modes]
  /\ befriended \subseteq Followers /\ owed \subseteq befriended /\ misled \in BOOLEAN
  /\ \A r \in Setters : setter[r].step \in {"no", "online", "read", "mode", "map", "notify", "post"}

\* A write that changes nothing is no news.
HSet(new) == /\ presence' = new
              /\ owed' = IF new = presence THEN owed ELSE befriended

Advance(r, x) == setter' = [setter EXCEPT ![r] = x]

-----------------------------------------------------------------------------
\* set_online_status.

OnlineStored(online) == IF online THEN "1" ELSE "0"

SetOnlineLooks(r, online) ==
  /\ setter[r] = Resting
  /\ Advance(r, [step |-> "online", old |-> presence.online, new |-> online])
  /\ UNCHANGED <<presence, befriended, owed, misled>>

\* What the hash held is a string, or missing, and what it is compared with is a boolean:
\* they always differ.
OnlineChanged_AsMeant(old, online) == old # OnlineStored(online)  \* mutant of OnlineChanged
OnlineChanged(old, online) == TRUE

SetOnlineStores(r) ==
  LET x == setter[r] IN
  /\ x.step = "online"
  /\ HSet([presence EXCEPT !.online = OnlineStored(x.new)])
  /\ Advance(r, IF OnlineChanged(x.old, x.new) THEN [step |-> "notify"] ELSE Resting)
  /\ UNCHANGED <<befriended, misled>>

-----------------------------------------------------------------------------
\* set_match_status and clear_match_status: two fields, two reads and two writes.

SetMatchReadsMode(r, map, mode) ==
  /\ setter[r] = Resting
  /\ Advance(r, [step |-> "read", oldMode |-> presence.mode, map |-> map, mode |-> mode])
  /\ UNCHANGED <<presence, befriended, owed, misled>>

SetMatchReadsMap(r) ==
  LET x == setter[r] IN
  /\ x.step = "read"
  /\ Advance(r, [step |-> "mode", oldMode |-> x.oldMode, oldMap |-> presence.map,
                 map |-> x.map, mode |-> x.mode])
  /\ UNCHANGED <<presence, befriended, owed, misled>>

MatchChanged(x) == x.oldMode # x.mode \/ x.oldMap # x.map

\* A request that reads what it sets tells nobody, and is misled if that is no longer there.
SetMatchStoresMode(r) ==
  LET x == setter[r] IN
  /\ x.step = "mode"
  /\ HSet([presence EXCEPT !.mode = x.mode])
  /\ misled' = (misled \/ (~MatchChanged(x) /\ presence.mode # x.oldMode))
  /\ Advance(r, [x EXCEPT !.step = "map"])
  /\ UNCHANGED befriended

SetMatchStoresMap(r) ==
  LET x == setter[r] IN
  /\ x.step = "map"
  /\ HSet([presence EXCEPT !.map = x.map])
  /\ misled' = (misled \/ (~MatchChanged(x) /\ presence.map # x.oldMap))
  /\ Advance(r, IF MatchChanged(x) THEN [step |-> "notify"] ELSE Resting)
  /\ UNCHANGED befriended

-----------------------------------------------------------------------------
\* _notify_rich_presence_changed: the hash is read once more, and then the friends.

ReadPresence(r) ==
  /\ setter[r].step = "notify"
  /\ Advance(r, [step |-> "post", seen |-> presence])
  /\ UNCHANGED <<presence, befriended, owed, misled>>

PostPresence(r) ==
  /\ setter[r].step = "post" /\ Advance(r, Resting)
  /\ IF setter[r].seen = presence THEN owed' = {} /\ misled' = FALSE ELSE UNCHANGED <<owed, misled>>
  /\ UNCHANGED <<presence, befriended>>

\* A new friend is sent what changes from now on.
FriendsChange(f) ==
  /\ befriended' \in {befriended \cup {f}, befriended \ {f}}
  /\ owed' = owed \cap befriended'
  /\ UNCHANGED <<presence, setter, misled>>

PresenceNext ==
  \/ \E r \in Setters :
       \/ SetOnlineStores(r) \/ \E online \in BOOLEAN : SetOnlineLooks(r, online)
       \/ SetMatchReadsMap(r) \/ \E map \in Maps, mode \in Modes : SetMatchReadsMode(r, map, mode)
       \/ SetMatchStoresMode(r) \/ SetMatchStoresMap(r)
       \/ ReadPresence(r) \/ PostPresence(r)
  \/ \E f \in Followers : FriendsChange(f)

PresenceSpec == PresenceInit /\ [][PresenceNext]_presenceVars

-----------------------------------------------------------------------------
\* When no request is under way every friend has been sent the presence as it is, since it
\* last changed, but for one way to lose a change: a match server set what it had read, told
\* nobody, and wrote over what another had set in between (richpresence.py:64-69 and 101-132).
\* A friend may have been sent an older presence after it.
FriendsAreTold == ~misled /\ (\A r \in Setters : setter[r] = Resting) => owed = {}
=============================================================================
