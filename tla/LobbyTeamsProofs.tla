-------------------------- MODULE LobbyTeamsProofs --------------------------
(****************************************************************************)
(* Theorems about the document of a lobby, for all sets of players, teams   *)
(* and capacities: teams have names of the lobby, a match is played by the  *)
(* teams that were sent to GameLift, every member knows what the document   *)
(* says, and a new capacity puts only the surplus of a team out.            *)
(****************************************************************************)
EXTENDS LobbyTeams, FiniteSetTheorems, WellFoundedInduction, TLAPS

Once(members) ==
  \A i, j \in DOMAIN members : members[i].player = members[j].player => i = j

Document == [status : {"gone", "idle", "starting", "started"} \cup Outcomes,
             capacity : Capacities \cup {0}, names : SUBSET Teams, members : Seq(Member)]
DocumentOK(d) == d \in Document /\ Once(d.members)

\* The members a document tells of are those of the lobby, or it is an old one.
ToldOK == told \in [Players -> Document] /\ \A p \in Players : Once(told[p].members)

TeamsInvariant ==
  /\ DocumentOK(lobby) /\ ToldOK
  /\ roster \in [Players -> Teams \cup {None}] /\ pending \in BOOLEAN
  /\ \A i \in DOMAIN lobby.members : lobby.members[i].team \in lobby.names \cup {None}
  /\ pending => lobby.status = "starting"
  /\ TeamsPlayTheRoster
  /\ MembersAreTold

----------------------------------------------------------------------------
(* Sequences of members.                                                    *)

LEMMA EntryOf ==
    ASSUME NEW S, NEW s \in Seq(S), NEW i \in DOMAIN s
    PROVE  s[i] \in S /\ i \in 1..Len(s)
  OBVIOUS

LEMMA SameLength ==
    ASSUME NEW S, NEW s \in Seq(S), NEW t \in [DOMAIN s -> S]
    PROVE  t \in Seq(S) /\ Len(t) = Len(s) /\ DOMAIN t = DOMAIN s
  <1>1. DOMAIN s = 1..Len(s) /\ Len(s) \in Nat
    OBVIOUS
  <1>2. QED
    BY <1>1

LEMMA DocumentsAreTyped == ASSUME NEW d, DocumentOK(d) PROVE Documents(d)
  <1>1. d.members \in Seq(Member)
    BY DEF DocumentOK, Document
  <1>2. \A i \in DOMAIN d.members : d.members[i] \in Member
    BY <1>1, EntryOf
  <1>3. QED
    BY <1>2 DEF DocumentOK, Document, Documents, Once

LEMMA InvariantImplies == TeamsInvariant => TeamsAreNamed /\ TeamsPlayTheRoster /\ MembersAreTold
  <1> SUFFICES ASSUME TeamsInvariant PROVE TypeOK
    BY DEF TeamsInvariant, TeamsAreNamed
  <1>1. \A p \in Players : DocumentOK(told[p])
    BY DEF TeamsInvariant, ToldOK, DocumentOK
  <1>2. QED
    BY <1>1, DocumentsAreTyped DEF TeamsInvariant, TypeOK

LEMMA NoLobbyIsOK == DocumentOK(NoLobby) /\ NoLobby.members = <<>> /\ DOMAIN NoLobby.members = {}
                     /\ NoLobby.status = "gone"
  <1>1. <<>> \in Seq(Member) /\ DOMAIN <<>> = {}
    OBVIOUS
  <1>2. QED
    BY <1>1 DEF DocumentOK, Document, NoLobby, Once

\* A document with other members, or with another status.
LEMMA MembersChange ==
    ASSUME NEW d \in Document, NEW ms \in Seq(Member)
    PROVE  LET e == [d EXCEPT !.members = ms]
           IN /\ e \in Document /\ e.members = ms
              /\ e.names = d.names /\ e.status = d.status /\ e.capacity = d.capacity
  BY DEF Document

LEMMA StatusChanges ==
    ASSUME NEW d \in Document, NEW s \in {"gone", "idle", "starting", "started"} \cup Outcomes
    PROVE  LET e == [d EXCEPT !.status = s]
           IN /\ e \in Document /\ e.status = s
              /\ e.members = d.members /\ e.names = d.names /\ e.capacity = d.capacity
  BY DEF Document

LEMMA PlayersAreTyped ==
    ASSUME NEW ms \in Seq(Member)
    PROVE  PlayersOf(ms) \subseteq Players /\ \A i \in DOMAIN ms : ms[i] \in Member
  <1>1. \A i \in DOMAIN ms : ms[i] \in Member
    BY EntryOf
  <1>2. QED
    BY <1>1 DEF PlayersOf, Member

----------------------------------------------------------------------------
(* What answers and events tell.                                            *)

LEMMA PublishTells ==
    ASSUME ToldOK, NEW doc, DocumentOK(doc), NEW S, Publish(doc, S),
           \A p \in MembersOf(doc) \ S : told[p] = doc
    PROVE  ToldOK' /\ MembersAreTold'
  <1>1. lobby' = doc /\ told' = [p \in Players |-> IF p \in S THEN doc
                                  ELSE IF p \in MembersOf(doc) THEN told[p] ELSE NoLobby]
    BY DEF Publish
  <1>2. ASSUME NEW p \in Players PROVE told'[p] \in Document /\ Once(told'[p].members)
    BY <1>1, NoLobbyIsOK DEF ToldOK, DocumentOK
  <1>3. ToldOK'
    BY <1>1, <1>2 DEF ToldOK
  <1>4. MembersOf(doc) \subseteq Players
    BY PlayersAreTyped DEF DocumentOK, Document, MembersOf
  <1>5. \A p \in MembersOf(doc) : told'[p] = doc
    BY <1>1, <1>4
  <1>6. MembersAreTold'
    BY <1>1, <1>5 DEF MembersAreTold, MembersOf
  <1>7. QED
    BY <1>3, <1>6

LEMMA PublishMembersTells ==
    ASSUME TeamsInvariant, NEW ms \in Seq(Member), Once(ms), NEW doc,
           doc = [lobby EXCEPT !.members = ms], NEW S, PublishMembers(doc, S),
           PlayersOf(ms) \subseteq S, PlayersOf(ms) \subseteq MembersOf(lobby)
    PROVE  DocumentOK(lobby') /\ ToldOK' /\ MembersAreTold' /\ lobby' = doc
  <1>1. lobby' = doc /\ told' = [p \in Players |-> IF p \in S THEN [told[p] EXCEPT !.members = doc.members]
                                  ELSE IF p \in MembersOf(doc) THEN told[p] ELSE NoLobby]
    BY DEF PublishMembers
  <1>2. DocumentOK(doc) /\ doc.members = ms
    BY MembersChange DEF TeamsInvariant, DocumentOK
  <1>3. ASSUME NEW p \in Players PROVE told'[p] \in Document /\ Once(told'[p].members)
    <2>1. told[p] \in Document /\ Once(told[p].members)
      BY DEF TeamsInvariant, ToldOK
    <2>2. [told[p] EXCEPT !.members = ms] \in Document
          /\ [told[p] EXCEPT !.members = ms].members = ms
      BY <2>1, MembersChange
    <2>3. QED
      BY <1>1, <1>2, <2>1, <2>2, NoLobbyIsOK DEF DocumentOK
  <1>4. ToldOK'
    BY <1>1, <1>3 DEF ToldOK
  <1>5. PlayersOf(ms) \subseteq Players
    BY PlayersAreTyped
  <1>6. ASSUME NEW p \in PlayersOf(ms) PROVE told'[p] = doc
    <2>1. told[p] = lobby /\ p \in S /\ p \in Players
      BY <1>5 DEF TeamsInvariant, MembersAreTold
    <2>2. QED
      BY <1>1, <1>2, <2>1
  <1>7. MembersAreTold'
    BY <1>1, <1>2, <1>6 DEF MembersAreTold, MembersOf
  <1>8. QED
    BY <1>1, <1>2, <1>4, <1>7

LEMMA PublishStatusTells ==
    ASSUME TeamsInvariant, NEW s \in {"starting", "started"} \cup Outcomes, NEW doc,
           doc = [lobby EXCEPT !.status = s], NEW S, PublishStatus(doc, S),
           MembersOf(lobby) \subseteq S
    PROVE  DocumentOK(lobby') /\ ToldOK' /\ MembersAreTold' /\ lobby' = doc
  <1>1. lobby' = doc /\ told' = [p \in Players |-> IF p \in S THEN [told[p] EXCEPT !.status = doc.status]
                                  ELSE told[p]]
    BY DEF PublishStatus
  <1>2. DocumentOK(doc) /\ doc.members = lobby.members /\ doc.status = s
    BY StatusChanges DEF TeamsInvariant, DocumentOK
  <1>3. ASSUME NEW p \in Players PROVE told'[p] \in Document /\ Once(told'[p].members)
    <2>1. told[p] \in Document /\ Once(told[p].members)
      BY DEF TeamsInvariant, ToldOK
    <2>2. [told[p] EXCEPT !.status = s] \in Document
          /\ [told[p] EXCEPT !.status = s].members = told[p].members
      BY <2>1, StatusChanges
    <2>3. QED
      BY <1>1, <1>2, <2>1, <2>2
  <1>4. ToldOK'
    BY <1>1, <1>3 DEF ToldOK
  <1>5. ASSUME NEW p \in MembersOf(lobby) PROVE told'[p] = doc
    <2>1. told[p] = lobby /\ p \in S
      BY DEF TeamsInvariant, MembersAreTold
    <2>2. p \in Players
      BY PlayersAreTyped DEF TeamsInvariant, DocumentOK, Document, MembersOf
    <2>3. QED
      BY <1>1, <1>2, <2>1, <2>2
  <1>6. MembersAreTold'
    BY <1>1, <1>2, <1>5 DEF MembersAreTold, MembersOf
  <1>7. QED
    BY <1>1, <1>2, <1>4, <1>6

----------------------------------------------------------------------------
(* What the handlers do to the list of members.                             *)

\* Each member of the new list was in the old one, in the same team or now in none.
From(new, old) == \A k \in DOMAIN new : \E i \in DOMAIN old :
  new[k].player = old[i].player /\ new[k].team \in {old[i].team, None}

LEMMA FromIsNamed ==
    ASSUME NEW new, NEW old, From(new, old), NEW names,
           \A i \in DOMAIN old : old[i].team \in names \cup {None}
    PROVE  /\ \A k \in DOMAIN new : new[k].team \in names \cup {None}
           /\ PlayersOf(new) \subseteq PlayersOf(old)
  BY DEF From, PlayersOf

\* Where the entries of a list without its entry at k come from.
Source(k, i) == IF i < k THEN i ELSE i + 1

LEMMA Sources ==
    ASSUME NEW n \in Nat, NEW k \in 1..n
    PROVE  /\ \A i \in 1..(n - 1) : Source(k, i) \in 1..n /\ Source(k, i) # k
           /\ \A i, j \in 1..(n - 1) : Source(k, i) = Source(k, j) => i = j
           /\ \A i \in 1..n : i # k => \E j \in 1..(n - 1) : Source(k, j) = i
  <1>1. k \in Nat /\ 1 <= k /\ k <= n
    OBVIOUS
  <1>2. ASSUME NEW i \in 1..(n - 1) PROVE Source(k, i) \in 1..n /\ Source(k, i) # k
    <2>1. i \in Nat /\ 1 <= i /\ i <= n - 1
      OBVIOUS
    <2>2. QED
      BY <1>1, <2>1 DEF Source
  <1>3. ASSUME NEW i \in 1..(n - 1), NEW j \in 1..(n - 1), Source(k, i) = Source(k, j) PROVE i = j
    <2>1. i \in Nat /\ j \in Nat
      OBVIOUS
    <2>2. QED
      BY <1>1, <1>3, <2>1 DEF Source
  <1>4. ASSUME NEW i \in 1..n, i # k PROVE \E j \in 1..(n - 1) : Source(k, j) = i
    <2>1. i \in Nat /\ 1 <= i /\ i <= n
      OBVIOUS
    <2>2. CASE i < k
      <3>1. i \in 1..(n - 1) /\ Source(k, i) = i
        BY <1>1, <2>1, <2>2 DEF Source
      <3>2. QED
        BY <3>1
    <2>3. CASE ~(i < k)
      <3>1. i - 1 \in 1..(n - 1) /\ ~(i - 1 < k) /\ (i - 1) + 1 = i
        BY <1>1, <1>4, <2>1, <2>3
      <3>2. Source(k, i - 1) = i
        BY <3>1 DEF Source
      <3>3. QED
        BY <3>1, <3>2
    <2>4. QED
      BY <2>2, <2>3
  <1>5. QED
    BY <1>2, <1>3, <1>4

\* A list whose entries are those of another but for that at k.
LessEntry(w, ms, k) ==
  /\ Once(w)
  /\ \A i \in DOMAIN w : \E j \in DOMAIN ms : w[i] = ms[j]
  /\ PlayersOf(w) = PlayersOf(ms) \ {ms[k].player}

LEMMA OnePlayerLess ==
    ASSUME NEW ms, NEW n \in Nat, DOMAIN ms = 1..n, Once(ms), NEW k \in 1..n,
           NEW w, DOMAIN w = 1..(n - 1), \A i \in 1..(n - 1) : w[i] = ms[Source(k, i)]
    PROVE  LessEntry(w, ms, k)
  <1>1. /\ \A i \in 1..(n - 1) : Source(k, i) \in 1..n /\ Source(k, i) # k
        /\ \A i, j \in 1..(n - 1) : Source(k, i) = Source(k, j) => i = j
        /\ \A i \in 1..n : i # k => \E j \in 1..(n - 1) : Source(k, j) = i
    BY Sources
  <1>2. Once(w)
    BY <1>1 DEF Once
  <1>3. \A i \in DOMAIN ms : i # k => ms[i].player # ms[k].player
    BY DEF Once
  <1>4. ASSUME NEW q \in PlayersOf(w) PROVE q \in PlayersOf(ms) \ {ms[k].player}
    <2>1. PICK i \in DOMAIN w : w[i].player = q
      BY DEF PlayersOf
    <2>2. Source(k, i) \in DOMAIN ms /\ Source(k, i) # k /\ ms[Source(k, i)].player = q
      BY <1>1, <2>1
    <2>3. QED
      BY <1>3, <2>2 DEF PlayersOf
  <1>5. ASSUME NEW q \in PlayersOf(ms) \ {ms[k].player} PROVE q \in PlayersOf(w)
    <2>1. PICK i \in DOMAIN ms : ms[i].player = q
      BY DEF PlayersOf
    <2>2. i # k
      BY <1>5, <2>1
    <2>3. PICK j \in DOMAIN w : Source(k, j) = i
      BY <1>1, <2>2
    <2>4. w[j].player = q
      BY <2>1, <2>3
    <2>5. QED
      BY <2>4 DEF PlayersOf
  <1>6. \A i \in DOMAIN w : \E j \in DOMAIN ms : w[i] = ms[j]
    BY <1>1
  <1>7. QED
    BY <1>2, <1>4, <1>5, <1>6 DEF LessEntry

LEMMA WithoutOne ==
    ASSUME NEW ms \in Seq(Member), Once(ms), NEW p \in PlayersOf(ms)
    PROVE  /\ Without(ms, p) \in Seq(Member) /\ Once(Without(ms, p))
           /\ \A i \in DOMAIN Without(ms, p) : \E j \in DOMAIN ms : Without(ms, p)[i] = ms[j]
           /\ PlayersOf(Without(ms, p)) = PlayersOf(ms) \ {p}
  <1> DEFINE k == CHOOSE i \in DOMAIN ms : ms[i].player = p
             n == Len(ms)
             w == Without(ms, p)
  <1>1. k \in DOMAIN ms /\ ms[k].player = p
    BY DEF PlayersOf
  <1>2. n \in Nat /\ DOMAIN ms = 1..n /\ \A i \in 1..n : ms[i] \in Member
    BY EntryOf
  <1>3. w = [i \in 1..(n - 1) |-> ms[Source(k, i)]]
    BY DEF Without, Source
  <1> HIDE DEF k, n, w
  <1>4. n - 1 \in Nat
    BY <1>1, <1>2
  <1>5. \A i \in 1..(n - 1) : Source(k, i) \in 1..n
    BY <1>1, <1>2, Sources
  <1>6. w \in [1..(n - 1) -> Member] /\ DOMAIN w = 1..(n - 1)
        /\ \A i \in 1..(n - 1) : w[i] = ms[Source(k, i)]
    BY <1>2, <1>3, <1>5
  <1>7. w \in Seq(Member)
    BY <1>4, <1>6
  <1>8. LessEntry(w, ms, k)
    <2>1. n \in Nat /\ DOMAIN ms = 1..n /\ k \in 1..n
      BY <1>1, <1>2
    <2>2. DOMAIN w = 1..(n - 1) /\ \A i \in 1..(n - 1) : w[i] = ms[Source(k, i)]
      BY <1>6
    <2>3. QED
      BY <2>1, <2>2, OnePlayerLess, Zenon
  <1>9. QED
    BY <1>1, <1>7, <1>8 DEF w, LessEntry

\* A list with one member changed, who stays the same player.
Put(ms, i, m) == [ms EXCEPT ![i] = m]

LEMMA OneChanges ==
    ASSUME NEW ms \in Seq(Member), Once(ms), NEW i \in DOMAIN ms, NEW m \in Member,
           m.player = ms[i].player, NEW new, new = Put(ms, i, m)
    PROVE  /\ new \in Seq(Member) /\ Once(new) /\ DOMAIN new = DOMAIN ms /\ new[i] = m
           /\ \A j \in DOMAIN ms : j # i => new[j] = ms[j]
           /\ PlayersOf(new) = PlayersOf(ms)
  <1>1. ms = [j \in DOMAIN ms |-> ms[j]] /\ \A j \in DOMAIN ms : ms[j] \in Member
    BY EntryOf
  <1>2. /\ new \in [DOMAIN ms -> Member] /\ DOMAIN new = DOMAIN ms /\ new[i] = m
        /\ \A j \in DOMAIN ms : j # i => new[j] = ms[j]
    BY <1>1 DEF Put
  <1>3. new \in Seq(Member)
    BY <1>2, SameLength
  <1>4. \A j \in DOMAIN ms : new[j].player = ms[j].player
    BY <1>2
  <1>5. QED
    BY <1>2, <1>3, <1>4 DEF Once, PlayersOf

\* The first member becomes the host.
Promoted(ms) == [ms EXCEPT ![1].host = TRUE]

LEMMA FirstIsPromoted ==
    ASSUME NEW ms \in Seq(Member), Once(ms), ms # <<>>, NEW new, new = Promoted(ms)
    PROVE  /\ new \in Seq(Member) /\ Once(new) /\ PlayersOf(new) = PlayersOf(ms)
           /\ DOMAIN new = DOMAIN ms
           /\ \A k \in DOMAIN ms : new[k].player = ms[k].player /\ new[k].team = ms[k].team
  <1> DEFINE m == [ms[1] EXCEPT !.host = TRUE]
  <1>1. 1 \in DOMAIN ms
    OBVIOUS
  <1>2. ms[1] \in Member
    BY <1>1, EntryOf
  <1>3. m \in Member /\ m.player = ms[1].player /\ m.team = ms[1].team
    BY <1>2 DEF Member
  <1>4. new = Put(ms, 1, m)
    BY DEF Promoted, Put
  <1> HIDE DEF m
  <1>5. /\ new \in Seq(Member) /\ Once(new) /\ DOMAIN new = DOMAIN ms /\ new[1] = m
        /\ \A j \in DOMAIN ms : j # 1 => new[j] = ms[j]
        /\ PlayersOf(new) = PlayersOf(ms)
    BY <1>1, <1>3, <1>4, OneChanges
  <1>6. QED
    BY <1>3, <1>5

\* A list whose members keep their place and their player.
LEMMA AllChange ==
    ASSUME NEW ms \in Seq(Member), Once(ms), NEW new, new \in [DOMAIN ms -> Member],
           \A i \in DOMAIN ms : new[i].player = ms[i].player
    PROVE  new \in Seq(Member) /\ Once(new) /\ PlayersOf(new) = PlayersOf(ms)
  <1>1. new \in Seq(Member) /\ DOMAIN new = DOMAIN ms
    BY SameLength
  <1>2. QED
    BY <1>1 DEF Once, PlayersOf

LEMMA RosterIsTyped ==
    ASSUME NEW ms \in Seq(Member), Once(ms), NEW r, r = RosterOf(ms)
    PROVE  /\ r \in [Players -> Teams \cup {None}]
           /\ \A i \in DOMAIN ms : r[ms[i].player] = ms[i].team
  <1>1. \A i \in DOMAIN ms : ms[i] \in Member
    BY EntryOf
  <1>2. ASSUME NEW p \in Players, NEW i \in DOMAIN ms, ms[i].player = p PROVE r[p] = ms[i].team
    <2>1. i = CHOOSE j \in DOMAIN ms : ms[j].player = p
      BY <1>2 DEF Once
    <2>2. QED
      BY <1>2, <2>1 DEF RosterOf
  <1>3. ASSUME NEW p \in Players PROVE r[p] \in Teams \cup {None}
    <2>1. CASE \E i \in DOMAIN ms : ms[i].player = p
      BY <1>1, <1>2, <2>1 DEF Member
    <2>2. CASE ~\E i \in DOMAIN ms : ms[i].player = p
      BY <2>2 DEF RosterOf
    <2>3. QED
      BY <2>1, <2>2
  <1>4. QED
    BY <1>1, <1>2, <1>3 DEF RosterOf, Member

----------------------------------------------------------------------------
(* The handlers.                                                            *)

LEMMA TeamsStart == Init => TeamsInvariant
  <1> SUFFICES ASSUME Init PROVE TeamsInvariant
    OBVIOUS
  <1>1. lobby = NoLobby /\ told = [p \in Players |-> NoLobby] /\ roster = Nobody /\ pending = FALSE
    BY DEF Init
  <1>2. DocumentOK(lobby) /\ ToldOK
    BY <1>1, NoLobbyIsOK DEF ToldOK, DocumentOK
  <1>3. roster \in [Players -> Teams \cup {None}]
    BY <1>1 DEF Nobody
  <1>4. TeamsPlayTheRoster /\ MembersAreTold
    BY <1>1, NoLobbyIsOK DEF TeamsPlayTheRoster, Initiated, MembersAreTold, MembersOf, PlayersOf
  <1>5. QED
    BY <1>1, <1>2, <1>3, <1>4, NoLobbyIsOK DEF TeamsInvariant

\* The types of the lobby's own fields, one by one.
LEMMA LobbyFields ==
    ASSUME TeamsInvariant
    PROVE  /\ lobby \in Document /\ lobby.members \in Seq(Member) /\ Once(lobby.members)
           /\ lobby.names \subseteq Teams /\ lobby.capacity \in Capacities \cup {0}
           /\ MembersOf(lobby) = PlayersOf(lobby.members)
           /\ \A i \in DOMAIN lobby.members :
                lobby.members[i] \in Member /\ lobby.members[i].team \in lobby.names \cup {None}
           /\ \A p \in MembersOf(lobby) : told[p] = lobby /\ p \in Players
  <1>1. lobby \in Document /\ Once(lobby.members) /\ lobby.members \in Seq(Member)
        /\ lobby.names \subseteq Teams /\ lobby.capacity \in Capacities \cup {0}
    BY DEF TeamsInvariant, DocumentOK, Document
  <1>2. \A i \in DOMAIN lobby.members : lobby.members[i] \in Member
    BY <1>1, EntryOf
  <1>3. MembersOf(lobby) \subseteq Players
    BY <1>1, PlayersAreTyped DEF MembersOf
  <1>4. QED
    BY <1>1, <1>2, <1>3 DEF TeamsInvariant, MembersOf, MembersAreTold

\* Handlers that change members and tell them.
WithMembers(ms) == [lobby EXCEPT !.members = ms]

LEMMA MembersStep ==
    ASSUME TeamsInvariant, NEW ms \in Seq(Member), Once(ms), NEW S,
           PublishMembers(WithMembers(ms), S), UNCHANGED <<roster, pending>>,
           PlayersOf(ms) \subseteq S, PlayersOf(ms) \subseteq MembersOf(lobby),
           \A k \in DOMAIN ms : ms[k].team \in lobby.names \cup {None},
           ~Initiated \/ From(ms, lobby.members)
    PROVE  TeamsInvariant'
  <1> PICK doc : doc = [lobby EXCEPT !.members = ms]
    OBVIOUS
  <1>1. DocumentOK(lobby') /\ ToldOK' /\ MembersAreTold' /\ lobby' = doc
    BY PublishMembersTells DEF WithMembers
  <1>2. doc.members = ms /\ doc.names = lobby.names /\ doc.status = lobby.status
    BY MembersChange DEF TeamsInvariant, DocumentOK
  <1>3. TeamsPlayTheRoster'
    <2>1. CASE ~Initiated
      BY <1>1, <1>2, <2>1 DEF TeamsPlayTheRoster, Initiated
    <2>2. CASE Initiated /\ From(ms, lobby.members)
      <3>1. TeamsPlayTheRoster
        BY DEF TeamsInvariant
      <3>2. ASSUME NEW k \in DOMAIN ms, ms[k].team # None PROVE roster[ms[k].player] = ms[k].team
        <4>1. PICK i \in DOMAIN lobby.members : ms[k].player = lobby.members[i].player
                                                /\ ms[k].team \in {lobby.members[i].team, None}
          BY <2>2 DEF From
        <4>2. QED
          BY <2>2, <3>1, <3>2, <4>1 DEF TeamsPlayTheRoster
      <3>3. QED
        BY <1>1, <1>2, <3>2 DEF TeamsPlayTheRoster
    <2>3. QED
      BY <2>1, <2>2
  <1>4. roster' \in [Players -> Teams \cup {None}] /\ pending' \in BOOLEAN
        /\ (pending' => lobby'.status = "starting")
    BY <1>1, <1>2 DEF TeamsInvariant
  <1>5. QED
    BY <1>1, <1>2, <1>3, <1>4 DEF TeamsInvariant

LEMMA KickStep ==
    ASSUME TeamsInvariant, NEW p \in Players, NEW q \in Players, Kick(p, q)
    PROVE  TeamsInvariant'
  <1> PICK ms : ms = lobby.members
    OBVIOUS
  <1> PICK rest : rest = Without(ms, q)
    OBVIOUS
  <1>1. /\ q \in PlayersOf(ms) /\ PublishMembers(WithMembers(rest), PlayersOf(rest))
        /\ UNCHANGED <<roster, pending>>
    BY DEF Kick, IsMember, MembersOf, WithMembers
  <1>2. /\ ms \in Seq(Member) /\ Once(ms) /\ MembersOf(lobby) = PlayersOf(ms)
        /\ \A i \in DOMAIN ms : ms[i].team \in lobby.names \cup {None}
    BY LobbyFields
  <1>3. /\ rest \in Seq(Member) /\ Once(rest) /\ PlayersOf(rest) \subseteq PlayersOf(ms)
        /\ \A k \in DOMAIN rest : \E i \in DOMAIN ms : rest[k] = ms[i]
    BY <1>1, <1>2, WithoutOne
  <1>4. From(rest, ms) /\ \A k \in DOMAIN rest : rest[k].team \in lobby.names \cup {None}
    BY <1>2, <1>3 DEF From
  <1>5. From(rest, lobby.members) /\ PlayersOf(rest) \subseteq MembersOf(lobby)
    BY <1>2, <1>3, <1>4
  <1>6. QED
    BY <1>1, <1>3, <1>4, <1>5, MembersStep

LEMMA PublishStep ==
    ASSUME TeamsInvariant, NEW doc, DocumentOK(doc), NEW S, Publish(doc, S),
           \A p \in MembersOf(doc) \ S : told[p] = doc,
           \A i \in DOMAIN doc.members : doc.members[i].team \in doc.names \cup {None},
           roster' \in [Players -> Teams \cup {None}], pending' \in BOOLEAN,
           doc.status \notin {"starting", "started"}, ~pending'
    PROVE  TeamsInvariant'
  <1>1. lobby' = doc /\ ToldOK' /\ MembersAreTold'
    BY PublishTells DEF TeamsInvariant, Publish
  <1>2. TeamsPlayTheRoster'
    BY <1>1 DEF TeamsPlayTheRoster, Initiated
  <1>3. QED
    BY <1>1, <1>2 DEF TeamsInvariant

LEMMA NobodyIsTyped == Nobody \in [Players -> Teams \cup {None}]
  BY DEF Nobody

LEMMA RemoveStep == ASSUME TeamsInvariant, Remove PROVE TeamsInvariant'
  <1>1. Publish(NoLobby, {}) /\ roster' = Nobody /\ pending' = FALSE
    BY DEF Remove
  <1>2. MembersOf(NoLobby) = {}
    BY NoLobbyIsOK DEF MembersOf, PlayersOf
  <1>3. QED
    BY <1>1, <1>2, NoLobbyIsOK, NobodyIsTyped, PublishStep

\* Who stays when the host leaves.
LEMMA RestIsSound ==
    ASSUME NEW left \in Seq(Member), Once(left), NEW rest,
           rest = left \/ (left # <<>> /\ rest = Promoted(left))
    PROVE  /\ rest \in Seq(Member) /\ Once(rest) /\ PlayersOf(rest) = PlayersOf(left)
           /\ DOMAIN rest = DOMAIN left
           /\ \A k \in DOMAIN left : rest[k].player = left[k].player /\ rest[k].team = left[k].team
  BY FirstIsPromoted

LEMMA LeaveStep == ASSUME TeamsInvariant, NEW p \in Players, Leave(p) PROVE TeamsInvariant'
  <1> PICK ms : ms = lobby.members
    OBVIOUS
  <1> PICK left : left = Without(ms, p)
    OBVIOUS
  <1>1. /\ p \in PlayersOf(ms)
        /\ \E rest : /\ rest = left \/ (left # <<>> /\ rest = Promoted(left))
                     /\ \/ /\ PublishMembers(WithMembers(rest), PlayersOf(rest))
                           /\ UNCHANGED <<roster, pending>>
                        \/ Remove
    BY DEF Leave, LeaveTold, IsMember, MembersOf, WithMembers, Promoted
  <1>2. /\ ms \in Seq(Member) /\ Once(ms) /\ MembersOf(lobby) = PlayersOf(ms)
        /\ \A i \in DOMAIN ms : ms[i].team \in lobby.names \cup {None}
    BY LobbyFields
  <1>3. /\ left \in Seq(Member) /\ Once(left) /\ PlayersOf(left) \subseteq PlayersOf(ms)
        /\ \A k \in DOMAIN left : \E i \in DOMAIN ms : left[k] = ms[i]
    BY <1>1, <1>2, WithoutOne
  <1> PICK rest : /\ rest = left \/ (left # <<>> /\ rest = Promoted(left))
                  /\ \/ /\ PublishMembers(WithMembers(rest), PlayersOf(rest))
                        /\ UNCHANGED <<roster, pending>>
                     \/ Remove
    BY <1>1
  <1>4. /\ rest \in Seq(Member) /\ Once(rest) /\ PlayersOf(rest) = PlayersOf(left)
        /\ DOMAIN rest = DOMAIN left
        /\ \A k \in DOMAIN left : rest[k].player = left[k].player /\ rest[k].team = left[k].team
    BY <1>3, RestIsSound
  <1>5. From(rest, ms) /\ \A k \in DOMAIN rest : rest[k].team \in lobby.names \cup {None}
    <2>1. ASSUME NEW k \in DOMAIN rest
          PROVE  \E i \in DOMAIN ms : rest[k].player = ms[i].player /\ rest[k].team = ms[i].team
      <3>1. PICK i \in DOMAIN ms : left[k] = ms[i]
        BY <1>3, <1>4
      <3>2. rest[k].player = ms[i].player /\ rest[k].team = ms[i].team
        BY <1>4, <3>1
      <3>3. QED
        BY <3>2
    <2>2. QED
      BY <1>2, <2>1 DEF From
  <1>6. From(rest, lobby.members) /\ PlayersOf(rest) \subseteq MembersOf(lobby)
    BY <1>2, <1>3, <1>4, <1>5
  <1>7. QED
    BY <1>1, <1>4, <1>5, <1>6, MembersStep, RemoveStep

LEMMA CreateStep ==
    ASSUME TeamsInvariant, NEW p \in Players, NEW c \in Capacities, NEW names \in SUBSET Teams,
           Create(p, c, names)
    PROVE  TeamsInvariant'
  <1> DEFINE m == [player |-> p, team |-> None, ready |-> FALSE, host |-> TRUE]
             doc == [status |-> "idle", capacity |-> c, names |-> names, members |-> <<m>>]
  <1>1. Publish(doc, {p}) /\ roster' = Nobody /\ pending' = FALSE
    BY DEF Create
  <1>2. m \in Member /\ m.team = None /\ m.player = p
    BY DEF Member
  <1> HIDE DEF m
  <1> PICK ms : ms = <<m>>
    OBVIOUS
  <1>3. ms \in Seq(Member) /\ DOMAIN ms = {1} /\ ms[1] = m
    BY <1>2
  <1>4. /\ doc \in Document /\ doc.members = ms /\ doc.names = names /\ doc.status = "idle"
    BY <1>3 DEF Document
  <1> HIDE DEF doc
  <1>5. Once(ms) /\ MembersOf(doc) = {p}
    BY <1>2, <1>3, <1>4 DEF Once, MembersOf, PlayersOf
  <1>6. DocumentOK(doc) /\ \A i \in DOMAIN doc.members : doc.members[i].team \in doc.names \cup {None}
    BY <1>2, <1>3, <1>4, <1>5 DEF DocumentOK
  <1>7. \A q \in MembersOf(doc) \ {p} : told[q] = doc
    BY <1>5
  <1>8. QED
    BY <1>1, <1>4, <1>6, <1>7, NobodyIsTyped, PublishStep

LEMMA GetStep == ASSUME TeamsInvariant, NEW p \in Players, Get(p) PROVE TeamsInvariant'
  <1>1. Publish(lobby, {p}) /\ UNCHANGED <<roster, pending>> /\ lobby' = lobby
    BY DEF Get, Publish
  <1>2. \A q \in MembersOf(lobby) \ {p} : told[q] = lobby
    BY LobbyFields
  <1>3. ToldOK' /\ MembersAreTold'
    BY <1>1, <1>2, PublishTells DEF TeamsInvariant
  <1>4. QED
    BY <1>1, <1>3 DEF TeamsInvariant, TeamsPlayTheRoster, Initiated

LEMMA JoinStep == ASSUME TeamsInvariant, NEW p \in Players, Join(p) PROVE TeamsInvariant'
  <1> DEFINE m == [player |-> p, team |-> None, ready |-> FALSE, host |-> FALSE]
  <1> PICK old : old = lobby.members
    OBVIOUS
  <1> PICK n : n = Len(old) + 1
    OBVIOUS
  <1> PICK ms : ms = Append(old, m)
    OBVIOUS
  <1> PICK doc : doc = [lobby EXCEPT !.members = ms]
    OBVIOUS
  <1>1. /\ Absent(p) /\ lobby' = doc /\ UNCHANGED <<roster, pending>>
        /\ told' = [q \in Players |-> IF q = p THEN doc
                      ELSE IF IsMember(q) THEN [told[q] EXCEPT !.members = doc.members] ELSE told[q]]
    BY DEF Join
  <1>2. m \in Member /\ m.player = p /\ m.team = None
    BY DEF Member
  <1> HIDE DEF m
  <1>3. old \in Seq(Member) /\ Once(old)
    BY LobbyFields
  <1>4. /\ ms \in Seq(Member) /\ DOMAIN ms = DOMAIN old \cup {n} /\ n \notin DOMAIN old
        /\ ms[n] = m /\ \A i \in DOMAIN old : ms[i] = old[i]
    BY <1>2, <1>3
  <1>5. doc \in Document /\ doc.members = ms /\ doc.names = lobby.names /\ doc.status = lobby.status
    <2>1. lobby \in Document
      BY LobbyFields
    <2>2. QED
      BY <1>4, <2>1, MembersChange
  <1>6. \A i \in DOMAIN old : old[i].player # p
    BY <1>1 DEF Absent, IsMember, MembersOf, PlayersOf
  <1>7. Once(ms)
    BY <1>2, <1>3, <1>4, <1>6 DEF Once
  <1>8. DocumentOK(lobby')
    BY <1>1, <1>5, <1>7 DEF DocumentOK
  <1>9. ASSUME NEW q \in Players PROVE told'[q] \in Document /\ Once(told'[q].members)
    <2>1. told[q] \in Document /\ Once(told[q].members)
      BY DEF TeamsInvariant, ToldOK
    <2>2. [told[q] EXCEPT !.members = ms] \in Document
          /\ [told[q] EXCEPT !.members = ms].members = ms
      BY <1>4, <2>1, MembersChange
    <2>3. QED
      BY <1>1, <1>5, <1>7, <2>1, <2>2
  <1>10. ToldOK'
    BY <1>1, <1>9 DEF ToldOK
  <1>11. PlayersOf(ms) = MembersOf(lobby) \cup {p}
    BY <1>2, <1>4 DEF PlayersOf, MembersOf
  <1>12. ASSUME NEW q \in PlayersOf(ms) PROVE told'[q] = doc
    <2>1. CASE q = p
      BY <1>1, <2>1
    <2>2. CASE q # p
      <3>1. told[q] = lobby /\ q \in Players /\ IsMember(q)
        BY <1>11, <2>2, LobbyFields DEF IsMember
      <3>2. QED
        BY <1>1, <1>5, <2>2, <3>1
    <2>3. QED
      BY <2>1, <2>2
  <1>13. MembersAreTold'
    BY <1>1, <1>5, <1>12 DEF MembersAreTold, MembersOf
  <1>14. \A i \in DOMAIN ms : ms[i].team \in lobby.names \cup {None}
    BY <1>2, <1>4, LobbyFields
  <1>15. TeamsPlayTheRoster'
    BY <1>1, <1>2, <1>4, <1>5 DEF TeamsInvariant, TeamsPlayTheRoster, Initiated
  <1>16. roster' \in [Players -> Teams \cup {None}] /\ pending' \in BOOLEAN
         /\ (pending' => lobby'.status = "starting")
    BY <1>1, <1>5 DEF TeamsInvariant
  <1>17. QED
    BY <1>1, <1>5, <1>8, <1>10, <1>13, <1>14, <1>15, <1>16 DEF TeamsInvariant

LEMMA UpdatedIsTyped ==
    ASSUME NEW m \in Member, NEW team \in Teams \cup {None}, NEW ready
    PROVE  /\ Updated(m, team, ready) \in Member
           /\ Updated(m, team, ready).player = m.player /\ Updated(m, team, ready).team = team
  BY DEF Updated, Member

LEMMA UpdateMemberStep ==
    ASSUME TeamsInvariant, NEW p \in Players, NEW q \in Players, NEW team \in Teams \cup {None},
           NEW ready \in BOOLEAN \cup {None}, UpdateMember(p, q, team, ready)
    PROVE  TeamsInvariant'
  <1>1. /\ ~Initiated /\ team \in lobby.names \cup {None} /\ UNCHANGED <<roster, pending>>
        /\ \E i \in DOMAIN lobby.members :
             PublishMembers([lobby EXCEPT !.members[i] = Updated(@, team, ready)], MembersOf(lobby))
    BY DEF UpdateMember
  <1> PICK old : old = lobby.members
    OBVIOUS
  <1>2. PICK i \in DOMAIN old :
          PublishMembers([lobby EXCEPT !.members[i] = Updated(@, team, ready)], MembersOf(lobby))
    BY <1>1
  <1> PICK m : m = Updated(old[i], team, ready)
    OBVIOUS
  <1> PICK ms : ms = Put(old, i, m)
    OBVIOUS
  <1>3. old \in Seq(Member) /\ Once(old) /\ MembersOf(lobby) = PlayersOf(old)
        /\ \A j \in DOMAIN old : old[j] \in Member /\ old[j].team \in lobby.names \cup {None}
    BY LobbyFields
  <1>4. m \in Member /\ m.player = old[i].player /\ m.team = team
    <2>1. old[i] \in Member
      BY <1>3
    <2>2. QED
      BY <2>1, UpdatedIsTyped
  <1>5. [lobby EXCEPT !.members[i] = Updated(@, team, ready)] = WithMembers(ms)
    BY DEF WithMembers, Put
  <1>6. /\ ms \in Seq(Member) /\ Once(ms) /\ DOMAIN ms = DOMAIN old /\ ms[i] = m
        /\ \A j \in DOMAIN old : j # i => ms[j] = old[j]
        /\ PlayersOf(ms) = PlayersOf(old)
    BY <1>3, <1>4, OneChanges
  <1>7. \A k \in DOMAIN ms : ms[k].team \in lobby.names \cup {None}
    BY <1>1, <1>3, <1>4, <1>6
  <1>8. PublishMembers(WithMembers(ms), MembersOf(lobby))
    BY <1>2, <1>5
  <1>9. QED
    BY <1>1, <1>3, <1>6, <1>7, <1>8, MembersStep

----------------------------------------------------------------------------
(* The host changes the capacity or the names of the teams.                 *)

LEMMA CapacityKeepsMembers ==
    ASSUME NEW ms \in Seq(Member), Once(ms), NEW c, NEW new, new = EnforceCapacity(ms, c),
           NEW names, \A i \in DOMAIN ms : ms[i].team \in names \cup {None}
    PROVE  /\ new \in Seq(Member) /\ Once(new) /\ DOMAIN new = DOMAIN ms
           /\ \A i \in DOMAIN new : new[i].team \in names \cup {None}
  <1>1. \A i \in DOMAIN ms : ms[i] \in Member
    BY EntryOf
  <1>2. DOMAIN new = DOMAIN ms /\ new = [i \in DOMAIN ms |-> new[i]]
    BY DEF EnforceCapacity
  <1>3. ASSUME NEW i \in DOMAIN ms
        PROVE  /\ new[i] \in Member /\ new[i].player = ms[i].player
               /\ new[i].team \in {ms[i].team, None}
    <2> PICK m : m = ms[i]
      OBVIOUS
    <2>1. m \in Member
      BY <1>1
    <2>2. new[i] \in {m, [m EXCEPT !.team = None]}
      BY DEF EnforceCapacity
    <2>3. [m EXCEPT !.team = None] \in Member /\ [m EXCEPT !.team = None].player = m.player
          /\ [m EXCEPT !.team = None].team = None
      BY <2>1 DEF Member
    <2>4. QED
      BY <2>1, <2>2, <2>3
  <1>4. new \in [DOMAIN ms -> Member]
    BY <1>2, <1>3
  <1>5. new \in Seq(Member) /\ Once(new)
    BY <1>3, <1>4, AllChange
  <1>6. QED
    BY <1>2, <1>3, <1>5

LEMMA NamesKeepMembers ==
    ASSUME NEW ms \in Seq(Member), Once(ms), NEW names, NEW new, new = EnforceNames(ms, names)
    PROVE  /\ new \in Seq(Member) /\ Once(new) /\ DOMAIN new = DOMAIN ms
           /\ \A i \in DOMAIN new : new[i].team \in names \cup {None}
  <1>1. \A i \in DOMAIN ms : ms[i] \in Member
    BY EntryOf
  <1>2. DOMAIN new = DOMAIN ms /\ new = [i \in DOMAIN ms |-> new[i]]
    BY DEF EnforceNames, Map
  <1>3. ASSUME NEW i \in DOMAIN ms
        PROVE  /\ new[i] \in Member /\ new[i].player = ms[i].player
               /\ new[i].team \in names \cup {None}
    <2> PICK m : m = ms[i]
      OBVIOUS
    <2>1. m \in Member
      BY <1>1
    <2>2. new[i] = IF m.team \in names THEN m ELSE [m EXCEPT !.team = None]
      BY DEF EnforceNames, Map
    <2>3. [m EXCEPT !.team = None] \in Member /\ [m EXCEPT !.team = None].player = m.player
          /\ [m EXCEPT !.team = None].team = None
      BY <2>1 DEF Member
    <2>4. QED
      BY <2>1, <2>2, <2>3
  <1>4. new \in [DOMAIN ms -> Member]
    BY <1>2, <1>3
  <1>5. new \in Seq(Member) /\ Once(new)
    BY <1>3, <1>4, AllChange
  <1>6. QED
    BY <1>2, <1>3, <1>5

\* The two halves of Update.
Resized(c) == IF c \in {None, lobby.capacity} THEN lobby
              ELSE [lobby EXCEPT !.capacity = c, !.members = EnforceCapacity(@, c)]
Renamed(d, names) == IF names \in {{}, lobby.names} THEN d
                     ELSE [d EXCEPT !.names = names, !.members = EnforceNames(@, names)]

\* A sound document that no match plays yet.
Sound(d) == /\ DocumentOK(d) /\ d.status = lobby.status
            /\ \A i \in DOMAIN d.members : d.members[i].team \in d.names \cup {None}

LEMMA ResizedIsSound ==
    ASSUME TeamsInvariant, NEW c \in Capacities \cup {None}
    PROVE  Sound(Resized(c)) /\ Resized(c).names = lobby.names
  <1>1. /\ lobby \in Document /\ lobby.members \in Seq(Member) /\ Once(lobby.members)
        /\ \A i \in DOMAIN lobby.members : lobby.members[i].team \in lobby.names \cup {None}
    BY LobbyFields
  <1>2. CASE c \in {None, lobby.capacity}
    BY <1>1, <1>2 DEF Resized, Sound, DocumentOK
  <1>3. CASE c \notin {None, lobby.capacity}
    <2> PICK ms : ms = EnforceCapacity(lobby.members, c)
      OBVIOUS
    <2>1. /\ ms \in Seq(Member) /\ Once(ms)
          /\ \A i \in DOMAIN ms : ms[i].team \in lobby.names \cup {None}
      <3> PICK old : old = lobby.members
        OBVIOUS
      <3> PICK n : n = lobby.names
        OBVIOUS
      <3>1. old \in Seq(Member) /\ Once(old) /\ \A i \in DOMAIN old : old[i].team \in n \cup {None}
        BY <1>1
      <3>2. QED
        BY <3>1, CapacityKeepsMembers
    <2>2. Resized(c) = [lobby EXCEPT !.capacity = c, !.members = ms]
      BY <1>3 DEF Resized
    <2>3. /\ Resized(c) \in Document /\ Resized(c).members = ms /\ Resized(c).names = lobby.names
          /\ Resized(c).status = lobby.status
      BY <1>1, <1>3, <2>1, <2>2 DEF Document
    <2>4. QED
      BY <2>1, <2>3 DEF Sound, DocumentOK
  <1>4. QED
    BY <1>2, <1>3

LEMMA RenamedIsSound ==
    ASSUME NEW d, Sound(d), d.names = lobby.names, NEW names \in SUBSET Teams
    PROVE  Sound(Renamed(d, names))
  <1>1. d \in Document /\ d.members \in Seq(Member) /\ Once(d.members) /\ d.status = lobby.status
    BY DEF Sound, DocumentOK, Document
  <1>2. CASE names \in {{}, lobby.names}
    BY <1>2 DEF Renamed
  <1>3. CASE names \notin {{}, lobby.names}
    <2> PICK ms : ms = EnforceNames(d.members, names)
      OBVIOUS
    <2>1. /\ ms \in Seq(Member) /\ Once(ms)
          /\ \A i \in DOMAIN ms : ms[i].team \in names \cup {None}
      BY <1>1, NamesKeepMembers
    <2>2. Renamed(d, names) = [d EXCEPT !.names = names, !.members = ms]
      BY <1>3 DEF Renamed
    <2>3. /\ Renamed(d, names) \in Document /\ Renamed(d, names).members = ms
          /\ Renamed(d, names).names = names /\ Renamed(d, names).status = d.status
      BY <1>1, <2>1, <2>2 DEF Document
    <2>4. QED
      BY <1>1, <2>1, <2>3 DEF Sound, DocumentOK
  <1>4. QED
    BY <1>2, <1>3

LEMMA UpdateDoes ==
    ASSUME NEW p, NEW c, NEW names, Update(p, c, names), NEW d, d = Resized(c)
    PROVE  /\ IsHost(p) /\ ~Initiated /\ UNCHANGED <<roster, pending>>
           /\ Publish(Renamed(d, names), MembersOf(Renamed(d, names)))
  BY DEF Update, Resized, Renamed

LEMMA UpdateStep ==
    ASSUME TeamsInvariant, NEW p \in Players, NEW c \in Capacities \cup {None},
           NEW names \in SUBSET Teams, Update(p, c, names)
    PROVE  TeamsInvariant'
  <1> PICK d : d = Resized(c)
    OBVIOUS
  <1> PICK doc : doc = Renamed(d, names)
    OBVIOUS
  <1>1. ~Initiated /\ UNCHANGED <<roster, pending>> /\ Publish(doc, MembersOf(doc))
    BY UpdateDoes
  <1>2. Sound(doc)
    BY ResizedIsSound, RenamedIsSound
  <1>3. doc.status \notin {"starting", "started"} /\ ~pending'
    BY <1>1, <1>2 DEF Sound, Initiated, TeamsInvariant
  <1>4. roster' \in [Players -> Teams \cup {None}] /\ pending' \in BOOLEAN
    BY <1>1 DEF TeamsInvariant
  <1>5. MembersOf(doc) \ MembersOf(doc) = {}
    OBVIOUS
  <1>6. QED
    BY <1>1, <1>2, <1>3, <1>4, <1>5, PublishStep DEF Sound

----------------------------------------------------------------------------
(* The match.                                                               *)

LEMMA StatusStep ==
    ASSUME TeamsInvariant, NEW s \in {"starting", "started"} \cup Outcomes, NEW S,
           PublishStatus([lobby EXCEPT !.status = s], S), MembersOf(lobby) \subseteq S,
           roster' \in [Players -> Teams \cup {None}], pending' \in BOOLEAN,
           pending' => s = "starting",
           s \in {"starting", "started"} => \A i \in DOMAIN lobby.members :
             lobby.members[i].team # None => roster'[lobby.members[i].player] = lobby.members[i].team
    PROVE  TeamsInvariant'
  <1> PICK doc : doc = [lobby EXCEPT !.status = s]
    OBVIOUS
  <1>1. DocumentOK(lobby') /\ ToldOK' /\ MembersAreTold' /\ lobby' = doc
    BY PublishStatusTells
  <1>2. doc.members = lobby.members /\ doc.names = lobby.names /\ doc.status = s
    BY LobbyFields, StatusChanges
  <1>3. TeamsPlayTheRoster'
    BY <1>1, <1>2 DEF TeamsPlayTheRoster, Initiated
  <1>4. QED
    BY <1>1, <1>2, <1>3, LobbyFields DEF TeamsInvariant

LEMMA StartMatchStep == ASSUME TeamsInvariant, NEW p \in Players, StartMatch(p) PROVE TeamsInvariant'
  <1>1. /\ PublishStatus([lobby EXCEPT !.status = "starting"], MembersOf(lobby))
        /\ roster' = RosterOf(lobby.members) /\ pending' = TRUE
    BY DEF StartMatch
  <1>2. /\ roster' \in [Players -> Teams \cup {None}]
        /\ \A i \in DOMAIN lobby.members : roster'[lobby.members[i].player] = lobby.members[i].team
    BY <1>1, LobbyFields, RosterIsTyped
  <1>3. QED
    BY <1>1, <1>2, StatusStep

LEMMA StopMatchStep == ASSUME TeamsInvariant, StopMatch PROVE TeamsInvariant'
  BY DEF StopMatch, TeamsInvariant, ToldOK, TeamsPlayTheRoster, Initiated, MembersAreTold

LEMMA FulfilledStep == ASSUME TeamsInvariant, Fulfilled PROVE TeamsInvariant'
  <1> PICK S : S = {p \in MembersOf(lobby) : roster[p] # None \/ \E i \in DOMAIN lobby.members :
                      lobby.members[i].player = p /\ lobby.members[i].team = None}
    OBVIOUS
  <1>1. /\ pending /\ PublishStatus([lobby EXCEPT !.status = "started"], S)
        /\ pending' = FALSE /\ roster' = roster
    BY DEF Fulfilled
  <1>2. lobby.status = "starting"
    BY <1>1 DEF TeamsInvariant
  <1>3. \A i \in DOMAIN lobby.members : lobby.members[i].team # None =>
          roster[lobby.members[i].player] = lobby.members[i].team
    BY <1>2 DEF TeamsInvariant, TeamsPlayTheRoster, Initiated
  <1>4. MembersOf(lobby) \subseteq S
    BY <1>3 DEF MembersOf, PlayersOf
  <1>5. roster' \in [Players -> Teams \cup {None}]
    BY <1>1 DEF TeamsInvariant
  <1>6. QED
    BY <1>1, <1>3, <1>4, <1>5, StatusStep

LEMMA NotFulfilledStep ==
    ASSUME TeamsInvariant, NEW outcome \in Outcomes, NotFulfilled(outcome)
    PROVE  TeamsInvariant'
  <1>1. /\ PublishStatus([lobby EXCEPT !.status = outcome], MembersOf(lobby))
        /\ pending' = FALSE /\ roster' = roster
    BY DEF NotFulfilled
  <1>2. outcome \notin {"starting", "started"}
    BY DEF Outcomes
  <1>3. roster' \in [Players -> Teams \cup {None}]
    BY <1>1 DEF TeamsInvariant
  <1>4. QED
    BY <1>1, <1>2, <1>3, StatusStep

LEMMA TeamsStep == TeamsInvariant /\ [Next]_vars => TeamsInvariant'
  <1> SUFFICES ASSUME TeamsInvariant, [Next]_vars PROVE TeamsInvariant'
    OBVIOUS
  <1>1. CASE UNCHANGED vars
    BY <1>1 DEF vars, TeamsInvariant, ToldOK, TeamsPlayTheRoster, Initiated, MembersAreTold
  <1>2. ASSUME NEW p \in Players, NEW c \in Capacities, NEW names \in SUBSET Teams,
               Create(p, c, names)
        PROVE  TeamsInvariant'
    BY <1>2, CreateStep
  <1>3. ASSUME NEW p \in Players, NEW c \in Capacities \cup {None}, NEW names \in SUBSET Teams,
               Update(p, c, names)
        PROVE  TeamsInvariant'
    BY <1>3, UpdateStep
  <1>4. ASSUME NEW p \in Players, Get(p) \/ Join(p) \/ Leave(p) \/ StartMatch(p)
        PROVE  TeamsInvariant'
    BY <1>4, GetStep, JoinStep, LeaveStep, StartMatchStep
  <1>5. ASSUME NEW p \in Players, NEW q \in Players, Kick(p, q) PROVE TeamsInvariant'
    BY <1>5, KickStep
  <1>6. ASSUME NEW p \in Players, NEW q \in Players, NEW t \in Teams \cup {None},
               NEW ready \in BOOLEAN \cup {None}, UpdateMember(p, q, t, ready)
        PROVE  TeamsInvariant'
    BY <1>6, UpdateMemberStep
  <1>7. CASE Remove \/ StopMatch \/ Fulfilled
    BY <1>7, RemoveStep, StopMatchStep, FulfilledStep
  <1>8. ASSUME NEW o \in Outcomes, NotFulfilled(o) PROVE TeamsInvariant'
    BY <1>8, NotFulfilledStep
  <1>9. QED
    BY <1>1, <1>2, <1>3, <1>4, <1>5, <1>6, <1>7, <1>8 DEF Next

\* A player is a member once and his team is one of the lobby's, through joins, moves,
\* kicks, renamings and changes of the capacity (lobbies.py:221 and 364), for any number of
\* players and teams.
THEOREM TeamsStayNamed == Spec => []TeamsAreNamed
  BY TeamsStart, TeamsStep, InvariantImplies, PTL DEF Spec

\* While a match starts or runs, whoever is in a team plays in the team that GameLift was
\* told (lobbies.py:191 and 351, match_placements.py:248-258 and 702-708).
THEOREM MatchesKeepTheirTeams == Spec => []TeamsPlayTheRoster
  BY TeamsStart, TeamsStep, InvariantImplies, PTL DEF Spec

\* Every member was told what the document now says, by his answers and by events
\* (lobbies.py:270, 396, 459, 505 and 651, match_placements.py:320 and 716-886).
THEOREM MembersStayTold == Spec => []MembersAreTold
  BY TeamsStart, TeamsStep, InvariantImplies, PTL DEF Spec

----------------------------------------------------------------------------
(* Counting the members a team keeps.                                       *)

LEMMA LeastNatural ==
    ASSUME NEW T \in SUBSET Nat, T # {}
    PROVE  \E x \in T : \A y \in T : x <= y
  <1> DEFINE R == OpToRel(<, Nat)
  <1>1. IsWellFoundedOn(R, Nat)
    BY NatLessThanWellFounded
  <1>2. \A x, y \in Nat : x < y => <<x, y>> \in R
    BY DEF OpToRel
  <1> HIDE DEF R
  <1>3. PICK x \in T : \A y \in T : <<y, x>> \notin R
    BY <1>1, WFMin
  <1>4. ASSUME NEW y \in T PROVE x <= y
    <2>1. x \in Nat /\ y \in Nat
      OBVIOUS
    <2>2. ~(y < x)
      BY <1>2, <1>3, <2>1, Zenon
    <2>3. QED
      BY <2>1, <2>2
  <1>5. QED
    BY <1>4

\* How many of S are among the first m.
Among(S, m) == Cardinality(S \cap (1..m))

LEMMA AmongNext ==
    ASSUME NEW n \in Nat, NEW S \in SUBSET (1..n), NEW m \in 1..n
    PROVE  /\ Among(S, m - 1) \in Nat /\ Among(S, m) \in Nat
           /\ Among(S, m) = IF m \in S THEN Among(S, m - 1) + 1 ELSE Among(S, m - 1)
  <1>1. m \in Nat /\ 1 <= m /\ m - 1 \in Nat
    OBVIOUS
  <1> PICK A : A = S \cap (1..(m - 1))
    OBVIOUS
  <1> PICK B : B = S \cap (1..m)
    OBVIOUS
  <1>2. Among(S, m - 1) = Cardinality(A) /\ Among(S, m) = Cardinality(B)
    BY DEF Among
  <1>3. IsFiniteSet(A) /\ Cardinality(A) \in Nat
    <2>1. IsFiniteSet(1..(m - 1)) /\ A \in SUBSET (1..(m - 1))
      BY <1>1, FS_Interval
    <2>2. IsFiniteSet(A)
      BY <2>1, FS_Subset
    <2>3. QED
      BY <2>2, FS_CardinalityType
  <1>4. m \notin A
    BY <1>1
  <1>5. B = IF m \in S THEN A \cup {m} ELSE A
    BY <1>1
  <1>6. CASE m \in S
    <2>1. B = A \cup {m}
      BY <1>5, <1>6
    <2>2. Cardinality(B) = Cardinality(A) + 1
      BY <1>3, <1>4, <2>1, FS_AddElement
    <2>3. Among(S, m - 1) \in Nat /\ Among(S, m) = Among(S, m - 1) + 1
      BY <1>2, <1>3, <2>2, Zenon
    <2>4. QED
      BY <1>6, <2>3
  <1>7. CASE m \notin S
    BY <1>2, <1>3, <1>5, <1>7
  <1>8. QED
    BY <1>6, <1>7

LEMMA FirstOnesFit ==
    ASSUME NEW n \in Nat, NEW T \in SUBSET (1..n), NEW c \in Nat, NEW K,
           K = {i \in T : Among(T, i - 1) < c}
    PROVE  Cardinality(K) = Fitting(Cardinality(T), c)
  <1> DEFINE good(m) == Among(K, m) = Fitting(Among(T, m), c)
             bad == {m \in 0..n : ~good(m)}
  <1>1. K \in SUBSET (1..n)
    OBVIOUS
  <1>2. bad = {}
    <2> SUFFICES ASSUME bad # {} PROVE FALSE
      OBVIOUS
    <2>1. bad \subseteq Nat
      OBVIOUS
    <2>2. PICK b \in bad : \A m \in bad : b <= m
      BY <2>1, LeastNatural
    <2>3. b \in 0..n /\ ~good(b)
      BY <2>2
    <2>4. CASE b = 0
      <3>1. K \cap (1..0) = {} /\ T \cap (1..0) = {}
        OBVIOUS
      <3>2. Among(K, 0) = 0 /\ Among(T, 0) = 0
        BY <3>1, FS_EmptySet DEF Among
      <3>3. QED
        BY <2>3, <2>4, <3>2 DEF Fitting
    <2>5. CASE b # 0
      <3>1. b \in 1..n /\ b - 1 \in 0..n /\ ~(b <= b - 1)
        BY <2>3, <2>5
      <3>2. good(b - 1)
        BY <2>2, <3>1
      <3> DEFINE k == Among(K, b - 1)
                 t == Among(T, b - 1)
      <3>3. k \in Nat /\ Among(K, b) = IF b \in K THEN k + 1 ELSE k
        BY <1>1, <3>1, AmongNext
      <3>4. t \in Nat /\ Among(T, b) = IF b \in T THEN t + 1 ELSE t
        BY <3>1, AmongNext
      <3>5. k = Fitting(t, c)
        BY <3>2
      <3>6. b \in K <=> b \in T /\ t < c
        OBVIOUS
      <3> HIDE DEF k, t
      <3>7. Among(K, b) = Fitting(Among(T, b), c)
        BY <3>3, <3>4, <3>5, <3>6 DEF Fitting
      <3>8. QED
        BY <2>3, <3>7
    <2>6. QED
      BY <2>4, <2>5
  <1>3. good(n)
    <2>1. n \in 0..n
      OBVIOUS
    <2>2. QED
      BY <1>2, <2>1
  <1>4. K \cap (1..n) = K /\ T \cap (1..n) = T
    BY <1>1
  <1>5. QED
    BY <1>3, <1>4 DEF Among

\* A team keeps as many members as fit.
LEMMA TeamKeepsWhatFits ==
    ASSUME NEW ms \in Seq(Member), NEW c \in Nat, NEW t, t # None
    PROVE  TeamSize(EnforceCapacity(ms, c), t) = Fitting(TeamSize(ms, t), c)
  <1> DEFINE n == Len(ms)
             T == {i \in DOMAIN ms : ms[i].team = t}
             new == EnforceCapacity(ms, c)
             K == {i \in T : Among(T, i - 1) < c}
  <1>1. n \in Nat /\ DOMAIN ms = 1..n /\ \A i \in DOMAIN ms : ms[i] \in Member
    BY EntryOf
  <1>2. ASSUME NEW i \in DOMAIN ms, ms[i].team = t
        PROVE  TeamSize(SubSeq(ms, 1, i - 1), ms[i].team) = Among(T, i - 1)
    <2> PICK s : s = SubSeq(ms, 1, i - 1)
      OBVIOUS
    <2>1. DOMAIN s = 1..(i - 1) /\ \A j \in 1..(i - 1) : s[j] = ms[j]
      BY <1>1
    <2>2. \A j \in 1..(i - 1) : j \in DOMAIN ms
      BY <1>1
    <2>3. {j \in DOMAIN s : s[j].team = t} = T \cap (1..(i - 1))
      BY <2>1, <2>2
    <2>4. QED
      BY <1>2, <2>3 DEF TeamSize, Among
  <1>3. ASSUME NEW i \in DOMAIN ms PROVE new[i].team = t <=> i \in K
    <2> PICK m : m = ms[i]
      OBVIOUS
    <2>1. m \in Member
      BY <1>1
    <2>2. [m EXCEPT !.team = None].team = None
      BY <2>1 DEF Member
    <2>3. new[i] = IF TeamSize(SubSeq(ms, 1, i - 1), m.team) < c THEN m ELSE [m EXCEPT !.team = None]
      BY DEF EnforceCapacity
    <2>4. m.team # t => new[i].team # t
      BY <2>2, <2>3
    <2>5. m.team = t => (new[i].team = t <=> Among(T, i - 1) < c)
      BY <1>2, <2>2, <2>3
    <2>6. QED
      BY <2>4, <2>5
  <1>4. DOMAIN new = DOMAIN ms
    BY DEF EnforceCapacity
  <1>5. {i \in DOMAIN new : new[i].team = t} = K
    BY <1>3, <1>4
  <1>6. T \in SUBSET (1..n)
    BY <1>1
  <1> HIDE DEF T, n, new
  <1>7. Cardinality(K) = Fitting(Cardinality(T), c)
    BY <1>1, <1>6, FirstOnesFit
  <1> HIDE DEF K
  <1>8. QED
    BY <1>5, <1>7 DEF TeamSize, T, new

\* A team with a new name list keeps its members if its name stays.
LEMMA NamedTeamStays ==
    ASSUME NEW ms \in Seq(Member), NEW names, NEW t \in names, t # None
    PROVE  TeamSize(EnforceNames(ms, names), t) = TeamSize(ms, t)
  <1> DEFINE new == EnforceNames(ms, names)
  <1>1. DOMAIN new = DOMAIN ms
    BY DEF EnforceNames, Map
  <1>2. ASSUME NEW i \in DOMAIN ms PROVE new[i].team = t <=> ms[i].team = t
    <2> PICK m : m = ms[i]
      OBVIOUS
    <2>1. m \in Member
      BY EntryOf
    <2>2. [m EXCEPT !.team = None].team = None
      BY <2>1 DEF Member
    <2>3. new[i] = IF m.team \in names THEN m ELSE [m EXCEPT !.team = None]
      BY DEF EnforceNames, Map
    <2>4. QED
      BY <2>2, <2>3
  <1>3. {i \in DOMAIN new : new[i].team = t} = {i \in DOMAIN ms : ms[i].team = t}
    BY <1>1, <1>2
  <1>4. QED
    BY <1>3 DEF TeamSize

LEMMA UpdateEvicts ==
    ASSUME TeamsInvariant, NEW p \in Players, NEW c \in Capacities \cup {None},
           NEW names \in SUBSET Teams, Update(p, c, names), lobby.capacity # lobby'.capacity
    PROVE  \A t \in lobby'.names : TeamSize(lobby'.members, t) =
             Fitting(TeamSize(lobby.members, t), lobby'.capacity)
  <1> PICK d : d = Resized(c)
    OBVIOUS
  <1>1. lobby' = Renamed(d, names) /\ d \in Document
    BY UpdateDoes, ResizedIsSound DEF Publish, Sound, DocumentOK
  <1>2. /\ lobby \in Document /\ lobby.members \in Seq(Member)
        /\ d.members \in Seq(Member) /\ d.names \subseteq Teams
    BY <1>1, LobbyFields DEF Document
  <1>3. /\ lobby'.capacity = d.capacity /\ lobby'.names \subseteq Teams
        /\ lobby'.members \in {d.members, EnforceNames(d.members, lobby'.names)}
    BY <1>1, <1>2 DEF Renamed, Document
  <1>4. c \notin {None, lobby.capacity}
    BY <1>3 DEF Resized
  <1>5. d.capacity = c /\ d.members = EnforceCapacity(lobby.members, c) /\ c \in Nat
    BY <1>2, <1>4, CapacityAssumption DEF Resized, Document
  <1>6. ASSUME NEW t \in lobby'.names
        PROVE  TeamSize(lobby'.members, t) = Fitting(TeamSize(lobby.members, t), lobby'.capacity)
    <2>1. t # None
      BY <1>3, NoneAssumption
    <2>2. TeamSize(d.members, t) = Fitting(TeamSize(lobby.members, t), c)
      BY <1>2, <1>5, <2>1, TeamKeepsWhatFits
    <2>3. TeamSize(lobby'.members, t) = TeamSize(d.members, t)
      BY <1>2, <1>3, <2>1, NamedTeamStays
    <2>4. QED
      BY <1>3, <1>5, <2>2, <2>3
  <1>7. QED
    BY <1>6

\* No other handler changes the capacity of a lobby that stays.
LEMMA NoneIsEmpty == ASSUME Remove PROVE lobby'.members = <<>>
  BY NoLobbyIsOK DEF Remove, Publish

LEMMA LeavingKeepsCapacity ==
    ASSUME TeamsInvariant, NEW p \in Players, Leave(p)
    PROVE  lobby'.capacity = lobby.capacity \/ lobby'.members = <<>>
  <1>1. \E rest : \/ lobby' = [lobby EXCEPT !.members = rest]
                  \/ Remove
    BY DEF Leave, PublishMembers
  <1>2. \A rest : [lobby EXCEPT !.members = rest].capacity = lobby.capacity
    BY LobbyFields DEF Document
  <1>3. QED
    BY <1>1, <1>2, NoneIsEmpty

LEMMA FieldsChange ==
    ASSUME TeamsInvariant
    PROVE  /\ \A ms : [lobby EXCEPT !.members = ms].capacity = lobby.capacity
           /\ \A s : [lobby EXCEPT !.status = s].capacity = lobby.capacity
  BY LobbyFields DEF Document

LEMMA MembersKeepCapacity ==
    ASSUME TeamsInvariant, NEW p \in Players, Get(p) \/ Join(p) \/ \E q \in Players : Kick(p, q)
    PROVE  lobby'.capacity = lobby.capacity
  <1>1. CASE Get(p)
    BY <1>1 DEF Get, Publish
  <1>2. CASE Join(p)
    BY FieldsChange, <1>2 DEF Join
  <1>3. CASE \E q \in Players : Kick(p, q)
    BY FieldsChange, <1>3 DEF Kick, PublishMembers
  <1>4. QED
    BY <1>1, <1>2, <1>3

LEMMA MovesKeepCapacity ==
    ASSUME TeamsInvariant, NEW p, NEW q, NEW t, NEW ready, UpdateMember(p, q, t, ready)
    PROVE  lobby'.capacity = lobby.capacity
  <1>1. PICK i \in DOMAIN lobby.members :
          lobby' = [lobby EXCEPT !.members[i] = Updated(@, t, ready)]
    BY DEF UpdateMember, PublishMembers
  <1>2. QED
    BY <1>1, LobbyFields DEF Document

LEMMA MatchKeepsCapacity ==
    ASSUME TeamsInvariant,
           \/ StopMatch \/ Fulfilled
           \/ \E p \in Players : StartMatch(p)
           \/ \E o \in Outcomes : NotFulfilled(o)
    PROVE  lobby'.capacity = lobby.capacity
  <1>1. \/ lobby' = lobby
        \/ \E s : lobby' = [lobby EXCEPT !.status = s]
    <2>1. CASE StopMatch
      BY <2>1 DEF StopMatch
    <2>2. CASE Fulfilled
      BY <2>2 DEF Fulfilled, PublishStatus
    <2>3. CASE \E p \in Players : StartMatch(p)
      BY <2>3 DEF StartMatch, PublishStatus
    <2>4. CASE \E o \in Outcomes : NotFulfilled(o)
      BY <2>4 DEF NotFulfilled, PublishStatus
    <2>5. QED
      BY <2>1, <2>2, <2>3, <2>4
  <1>2. QED
    BY <1>1, FieldsChange

LEMMA SurplusStep ==
    ASSUME TeamsInvariant, [Next]_vars, lobby.capacity # lobby'.capacity, Exists,
           lobby'.members # <<>>
    PROVE  \A t \in lobby'.names : TeamSize(lobby'.members, t) =
             Fitting(TeamSize(lobby.members, t), lobby'.capacity)
  <1>1. ~UNCHANGED vars
    BY DEF vars
  <1>2. ASSUME NEW p \in Players, NEW c \in Capacities, NEW names \in SUBSET Teams,
               Create(p, c, names)
        PROVE  FALSE
    BY <1>2 DEF Create
  <1>3. ASSUME NEW p \in Players, Leave(p) PROVE FALSE
    BY <1>3, LeavingKeepsCapacity
  <1>4. ASSUME NEW p \in Players
        PROVE  ~(Get(p) \/ Join(p) \/ StartMatch(p) \/ \E q \in Players : Kick(p, q))
    BY MembersKeepCapacity, MatchKeepsCapacity
  <1>5. ASSUME NEW p \in Players, NEW q \in Players, NEW t \in Teams \cup {None},
               NEW ready \in BOOLEAN \cup {None}
        PROVE  ~UpdateMember(p, q, t, ready)
    BY MovesKeepCapacity
  <1>6. ~(StopMatch \/ Fulfilled \/ \E o \in Outcomes : NotFulfilled(o))
    BY MatchKeepsCapacity
  <1>7. ~Remove
    BY NoneIsEmpty
  <1>8. ASSUME NEW p \in Players, NEW c \in Capacities \cup {None}, NEW names \in SUBSET Teams,
               Update(p, c, names)
        PROVE  \A t \in lobby'.names : TeamSize(lobby'.members, t) =
                 Fitting(TeamSize(lobby.members, t), lobby'.capacity)
    BY <1>8, UpdateEvicts
  <1>9. QED
    BY <1>1, <1>2, <1>3, <1>4, <1>5, <1>6, <1>7, <1>8 DEF Next

\* A new capacity puts just the surplus of each team out, of the teams that stay: the loop
\* over the members leaves as many as fit (lobbies.py:207-219), and nothing else changes
\* the capacity of a lobby.
THEOREM OnlyTheSurplusGoes == Spec => EvictsTheSurplus
  <1>1. TeamsInvariant /\ [Next]_vars =>
          [lobby.capacity # lobby'.capacity /\ Exists /\ lobby'.members # <<>> =>
             \A t \in lobby'.names : TeamSize(lobby'.members, t) =
               Fitting(TeamSize(lobby.members, t), lobby'.capacity)]_vars
    BY SurplusStep
  <1>2. QED
    BY <1>1, TeamsStart, TeamsStep, PTL DEF Spec, EvictsTheSurplus

=============================================================================
