---------------------------- MODULE FlexMatchBans ----------------------------
(***************************************************************************)
(* Bans from matchmaking (flexmatch.py, BanInfo).  A player who is banned  *)
(* from a match may not use its matchmaker for a time that grows with the  *)
(* number of such matches; a service may ban him from all matchmakers.     *)
(* Each ban info is a Redis value that is read and written under a lock    *)
(* and expires.  Dates are ticks of a clock; num_bans, which is only       *)
(* reported, is left out.                                                  *)
(***************************************************************************)
EXTENDS Naturals, Sequences, FiniteSets, FiniteSetsExt

CONSTANTS BanMatches,    \* matches of the one matchmaker that bans
          BanTimes,      \* ban_time_seconds: a tier for each match, the last for all more
          BanExpiry,     \* expiry_seconds
          Durations,     \* durations of the bans of services
          MaxClock       \* bound on the clock

ASSUME BansAssumption ==
  /\ BanTimes \in Seq(Nat) /\ Len(BanTimes) > 0 /\ BanExpiry \in Nat
  /\ Durations \subseteq Nat \ {0} /\ MaxClock \in Nat
  /\ \A k \in DOMAIN BanTimes : BanTimes[k] < BanExpiry   \* else a ban ends with its record
  /\ \A k, l \in DOMAIN BanTimes : k <= l => BanTimes[k] <= BanTimes[l]

VARIABLES today,
          matchBan,    \* player:<id>:flexmatch-ban:<matchmaker>:
          fullBan,     \* player:<id>:flexmatch-ban-all:
          bannedFrom,  \* history: the matches banned from since the record was empty
          due          \* history: when the ban of the last match and the last full ban end

banVars == <<today, matchBan, fullBan, bannedFrom, due>>

NoBan == [matches |-> {}, last |-> 0, until |-> 0, gone |-> 0]
BanInfo == [matches : SUBSET BanMatches, last : Nat, until : Nat, gone : Nat]

BansInit == /\ today = 0 /\ matchBan = NoBan /\ fullBan = NoBan
            /\ bannedFrom = {} /\ due = [match |-> 0, full |-> 0]

BansTypeOK == /\ today \in 0..MaxClock /\ {matchBan, fullBan} \subseteq BanInfo
              /\ bannedFrom \subseteq BanMatches /\ due \in [{"match", "full"} -> Nat]

\* What is stored; Redis drops it after the time it was written with.
Stored(ban) == IF today < ban.gone THEN ban ELSE NoBan

\* get_unban_date: of the bans from matches, or the date a service chose if that is later.
Tier(n) == IF n = 0 THEN 0 ELSE BanTimes[Min({n, Len(BanTimes)})]
UnbanDate(ban) == Max({ban.last + Tier(Cardinality(ban.matches)), ban.until})
IsBanned(ban) == Stored(ban) # NoBan /\ today < UnbanDate(Stored(ban))

\* get_player_ban_info of a matchmaker, for one who wants to start.
MayStart == ~IsBanned(fullBan) /\ ~IsBanned(matchBan)

-----------------------------------------------------------------------------
Remember(m, old) ==
  /\ bannedFrom' = (IF old = NoBan THEN {} ELSE bannedFrom) \cup {m}
  /\ due' = [due EXCEPT !.match = Max({@, today + Tier(Cardinality(bannedFrom'))})]

\* ban_from_match: the server of a match bans a player; again makes no difference.
BanFromMatch_FirstDate(m) ==                                \* mutant of BanFromMatch
  LET old == Stored(matchBan)
  IN /\ m \notin old.matches
     /\ matchBan' = [old EXCEPT !.matches = @ \cup {m}, !.gone = today + BanExpiry]
     /\ Remember(m, old) /\ UNCHANGED <<today, fullBan>>
BanFromMatch(m) ==
  LET old == Stored(matchBan)
  IN /\ m \notin old.matches
     /\ matchBan' = [old EXCEPT !.matches = @ \cup {m}, !.last = today,
                                !.gone = today + BanExpiry]
     /\ Remember(m, old) /\ UNCHANGED <<today, fullBan>>

\* ban_for_duration: the record lives as long as the ban, and replaces the one before.
BanForDuration(d) ==
  /\ fullBan' = [NoBan EXCEPT !.last = today, !.until = today + d, !.gone = today + d]
  /\ due' = [due EXCEPT !.full = today + d]
  /\ UNCHANGED <<today, matchBan, bannedFrom>>

Pass == today < MaxClock /\ today' = today + 1 /\ UNCHANGED <<matchBan, fullBan, bannedFrom, due>>

BansNext ==
  \/ \E m \in BanMatches : BanFromMatch(m)
  \/ \E d \in Durations : BanForDuration(d)
  \/ Pass

BansSpec == BansInit /\ [][BansNext]_banVars

-----------------------------------------------------------------------------
\* A ban is served: until the longest ban from a match and the last ban from all
\* matchmakers are over the player may not start, whatever came in between and whenever
\* the records expire, and not a tick longer (flexmatch.py:280-305 and 917-975).
BansAreServed == MayStart <=> today >= due.match /\ today >= due.full
=============================================================================
