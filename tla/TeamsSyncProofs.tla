-------------------------- MODULE TeamsSyncProofs --------------------------
(***************************************************************************)
(* Type correctness of TeamsSync, and of its safety properties             *)
(* SteadyTeamsStay (a sync whose listings all succeeded removes no team    *)
(* that SAMS went on listing at its place) and SquadsAgree (consumers hold *)
(* the stored squads of the teams they were told of), however many leagues *)
(* and pages there are and whatever ranking projections store meanwhile.   *)
(***************************************************************************)
EXTENDS TeamsSync, FiniteSetTheorems, TLAPS

\* The sync's part of TypeOK.
RunFit(s) ==
    /\ s \in RunState
    /\ s.pc \notin {"idle", "season"} => s.season \in Seasons
    /\ s.pc \in {"team", "roster"} => s.league \in Leagues
    /\ s.pc \in {"roster", "deleteRoster"} => s.team \in Teams

\* The ranking projection's part.
RankFit(r) ==
    /\ r \in RankState
    /\ r.pc = "resolve" => r.league \in Leagues /\ r.season \in Seasons

\* The rest: SAMS, tables and consumers.
TablesFit ==
    /\ sams \in [Teams -> Leagues \cup {Absent}]
    /\ squads \in [Teams -> Squads]
    /\ current \in Seasons
    /\ seasons \subseteq Seasons
    /\ leagues \subseteq Leagues
    /\ teams \in [Teams -> Row \cup {Absent}]
    /\ fresh \subseteq Teams
    /\ rosters \in [Teams -> Squads \cup {Absent}]
    /\ status \in {"success", "failure"}
    /\ feed \in [teams : [Clubs -> SUBSET Entry], squads : [Teams -> Squads \cup {Empty, Absent}]]
    /\ changes \in 0..MaxChanges
    /\ failures \in 0..MaxFailures
    /\ rankings \in 0..MaxRankings

LEMMA TypeParts == TypeOK <=> TablesFit /\ RunFit(run) /\ RankFit(rank)
  BY DEF TypeOK, TablesFit, RunFit, RankFit

LEMMA TypePartsNext == TablesFit' /\ RunFit(run') /\ RankFit(rank') => TypeOK'
  BY DEF TypeOK, TablesFit, RunFit, RankFit

-----------------------------------------------------------------------------
(* Helpers.                                                                *)

LEMMA IdleFit == RunFit(IdleRun) /\ RankFit(IdleRank)
<1>1. IdleRun \in RunState /\ IdleRun.pc = "idle"
  BY DEF IdleRun, RunState
<1>2. IdleRank \in RankState /\ IdleRank.pc = "idle"
  BY DEF IdleRank, RankState
<1> QED
  BY <1>1, <1>2 DEF RunFit, RankFit

LEMMA CountType ==
    ASSUME failures \in 0..MaxFailures, NEW ok, ok \in Answers, Count(ok)
    PROVE  failures' \in 0..MaxFailures
<1>1. MaxFailures \in Nat
  BY TeamsAssumption
<1>2. CASE ok
  BY <1>2 DEF Count
<1>3. CASE ~ok
  <2>1. failures < MaxFailures
    BY <1>3 DEF Answers
  <2>2. failures' = failures + 1
    BY <1>3 DEF Count
  <2> QED
    BY <1>1, <2>1, <2>2
<1> QED
  BY <1>2, <1>3

LEMMA FailureType ==
    ASSUME failures \in 0..MaxFailures, failures < MaxFailures, Count(FALSE)
    PROVE  failures' \in 0..MaxFailures
  BY TeamsAssumption DEF Count

LEMMA AfterLeaguesFit ==
    ASSUME NEW s, s \in RunState, s.season \in Seasons
    PROVE  RunFit(AfterLeagues(s))
  BY DEF RunFit, RunState, AfterLeagues

LEMMA AfterListingFit ==
    ASSUME NEW s, s \in RunState, s.season \in Seasons
    PROVE  RunFit(AfterListing(s))
  BY DEF RunFit, RunState, AfterListing

LEMMA AfterPageFit ==
    ASSUME NEW s, s \in RunState, s.season \in Seasons
    PROVE  RunFit(AfterPage(s))
<1>1. CASE s.more
  <2> DEFINE p == s.page + 1
  <2>1. AfterPage(s) = [s EXCEPT !.pc = "page", !.page = p]
    BY <1>1 DEF AfterPage
  <2>2. p \in Nat
    BY DEF RunFit, RunState
  <2> HIDE DEF p
  <2> QED
    BY <2>1, <2>2 DEF RunFit, RunState
<1>2. CASE ~s.more
  <2> DEFINE n == [s EXCEPT !.left = s.left \ {s.league}, !.league = Absent, !.page = 0,
                            !.pc = "page"]
             t == [s EXCEPT !.left = s.left \ {s.league}, !.league = Absent, !.page = 0,
                            !.pc = "lists"]
             r == [s EXCEPT !.left = s.left \ {s.league}, !.league = Absent, !.page = 0,
                            !.pc = "remove"]
  <2>1. RunFit(n) /\ RunFit(t) /\ RunFit(r)
    BY DEF RunFit, RunState
  <2>2. AfterPage(s) \in {n, t, r}
    BY <1>2 DEF AfterPage, AfterListing, RunFit, RunState
  <2> HIDE DEF n, t, r
  <2> QED
    BY <2>1, <2>2
<1> QED
  BY <1>1, <1>2

LEMMA AfterTeamFit ==
    ASSUME NEW s, s \in RunState, s.season \in Seasons, s.league \in Leagues
    PROVE  RunFit(AfterTeam(s))
<1>1. CASE s.list # {}
  BY <1>1 DEF AfterTeam, RunFit, RunState
<1>2. CASE s.list = {}
  BY <1>2, AfterPageFit DEF AfterTeam
<1> QED
  BY <1>1, <1>2

-----------------------------------------------------------------------------
(* TypeOK.                                                                 *)

LEMMA InitType == Init => TypeOK
<1> SUFFICES ASSUME Init PROVE TypeOK
  OBVIOUS
<1>1. sams \in [Teams -> Leagues \cup {Absent}] /\ squads \in [Teams -> Squads]
  BY DEF Init
<1>2. \A t \in Teams : Listed(t) => sams[t] \in Leagues
  BY <1>1 DEF Listed
<1>3. teams \in [Teams -> Row \cup {Absent}]
  BY <1>2 DEF Init, Row
<1>4. \A t \in Teams : teams[t] # Absent => sams[t] \in Leagues
  BY <1>2 DEF Init
<1>5. rosters \in [Teams -> Squads \cup {Absent}]
  BY <1>1 DEF Init
<1>6. feed.teams \in [Clubs -> SUBSET Entry]
  <2> DEFINE list(c) == {[team |-> t, league |-> sams[t], level |-> TRUE] :
                             t \in {u \in Teams : ClubOf[u] = c /\ teams[u] # Absent}}
  <2>1. feed.teams = [c \in Clubs |-> list(c)]
    BY DEF Init
  <2>2. ASSUME NEW c \in Clubs PROVE list(c) \in SUBSET Entry
    <3>1. \A t \in {u \in Teams : ClubOf[u] = c /\ teams[u] # Absent} :
            [team |-> t, league |-> sams[t], level |-> TRUE] \in Entry
      BY <1>4 DEF Entry
    <3> QED
      BY <3>1
  <2> HIDE DEF list
  <2> QED
    BY <2>1, <2>2
<1>7. feed = [teams |-> feed.teams, squads |-> rosters]
  BY DEF Init
<1>8. feed \in [teams : [Clubs -> SUBSET Entry], squads : [Teams -> Squads \cup {Empty, Absent}]]
  BY <1>5, <1>6, <1>7
<1>9. RunFit(run)
  <2>1. run = [IdleRun EXCEPT !.complete = TRUE]
    BY DEF Init
  <2>2. IdleRun.pc = "idle"
    BY DEF IdleRun
  <2> QED
    BY <2>1, <2>2, IdleFit DEF RunFit, RunState
<1>10. RankFit(rank)
  BY IdleFit DEF Init
<1>11. /\ current \in Seasons /\ seasons \subseteq Seasons /\ leagues \subseteq Leagues
       /\ fresh \subseteq Teams /\ status \in {"success", "failure"}
  BY DEF Init, LeaguesOf
<1>12. changes \in 0..MaxChanges /\ failures \in 0..MaxFailures /\ rankings \in 0..MaxRankings
  <2>1. MaxChanges \in Nat /\ MaxFailures \in Nat /\ MaxRankings \in Nat
    BY TeamsAssumption
  <2>2. changes = 0 /\ failures = 0 /\ rankings = 0
    BY DEF Init
  <2> QED
    BY <2>1, <2>2
<1>13. TablesFit
  BY <1>1, <1>3, <1>5, <1>8, <1>11, <1>12 DEF TablesFit
<1> QED
  BY <1>9, <1>10, <1>13, TypeParts

\* SAMS.
LEMMA SamsType ==
    ASSUME TypeOK, \/ \E t \in Teams : MoveTeam(t) \/ ChangeSquad(t)
                   \/ NewSeason
    PROVE  TypeOK'
<1> USE TypeParts
<1>1. ASSUME NEW t \in Teams, MoveTeam(t) PROVE TypeOK'
  <2>1. PICK l \in PlacesOf[t] : sams' = [sams EXCEPT ![t] = l]
    BY <1>1 DEF MoveTeam
  <2>2. sams' \in [Teams -> Leagues \cup {Absent}]
    BY <2>1, TeamsAssumption DEF TablesFit
  <2>3. changes' \in 0..MaxChanges
    BY <1>1, TeamsAssumption DEF MoveTeam, TablesFit
  <2> DEFINE moved == {t} \cup IF sams[t] = run.league THEN After(t) ELSE {}
  <2>4. RunFit(run')
    <3>1. run' = [run EXCEPT !.steady = run.steady \ moved]
      BY <1>1 DEF MoveTeam
    <3> HIDE DEF moved
    <3> QED
      BY <3>1 DEF RunFit, RunState
  <2> QED
    BY <1>1, <2>2, <2>3, <2>4, TypePartsNext DEF MoveTeam, TablesFit, tables, ranking
<1>2. ASSUME NEW t \in Teams, ChangeSquad(t) PROVE TypeOK'
  <2>1. PICK q \in SquadsOf[t] : squads' = [squads EXCEPT ![t] = q]
    BY <1>2 DEF ChangeSquad
  <2>2. squads' \in [Teams -> Squads]
    BY <2>1, TeamsAssumption DEF TablesFit
  <2>3. changes' \in 0..MaxChanges
    BY <1>2, TeamsAssumption DEF ChangeSquad, TablesFit
  <2> QED
    BY <1>2, <2>2, <2>3, TypePartsNext DEF ChangeSquad, TablesFit, tables, ranking
<1>3. CASE NewSeason
  <2>1. current' \in Seasons
    BY <1>3 DEF NewSeason
  <2>2. changes' \in 0..MaxChanges
    BY <1>3, TeamsAssumption DEF NewSeason, TablesFit
  <2>3. RunFit(run')
    BY <1>3 DEF NewSeason, RunFit, RunState
  <2> QED
    BY <1>3, <2>1, <2>2, <2>3, TypePartsNext DEF NewSeason, TablesFit, tables, ranking
<1> QED
  BY <1>1, <1>2, <1>3

\* The beginning of a sync, until the rows to compare with are read.
LEMMA BeginType ==
    ASSUME TypeOK, \/ \E f \in SUBSET fresh : Start(f)
                   \/ StartWithoutClubs
                   \/ FetchSeason
                   \/ FetchHierarchies
                   \/ ListLeagues
                   \/ SaveLeague
                   \/ Scan
    PROVE  TypeOK'
<1> USE TypeParts
<1>1. ASSUME NEW f \in SUBSET fresh, Start(f) PROVE TypeOK'
  <2>1. run' = [IdleRun EXCEPT !.pc = "season", !.steady = {t \in Teams : Listed(t)}]
    BY <1>1 DEF Start
  <2>2. RunFit(run')
    BY <2>1, IdleFit DEF RunFit, RunState
  <2> QED
    BY <1>1, <2>2, TypePartsNext DEF Start, TablesFit, world, ranking
<1>2. CASE StartWithoutClubs
  <2>1. failures' \in 0..MaxFailures
    BY <1>2, FailureType DEF StartWithoutClubs, TablesFit
  <2> QED
    BY <1>2, <2>1, TypePartsNext DEF StartWithoutClubs, TablesFit, world, tables, ranking
<1>3. CASE FetchSeason
  <2>1. RunFit(run')
    BY <1>3 DEF FetchSeason, TablesFit, RunFit, RunState
  <2> QED
    BY <1>3, <2>1, TypePartsNext DEF FetchSeason, TablesFit, world, ranking
<1>4. CASE FetchHierarchies
  <2>1. PICK ok \in Answers :
          run' = [run EXCEPT !.pc = "leagues", !.level = ok] /\ Count(ok)
    BY <1>4 DEF FetchHierarchies
  <2>2. failures' \in 0..MaxFailures
    BY <2>1, CountType DEF TablesFit
  <2>3. RunFit(run')
    <3>1. ok \in BOOLEAN
      BY DEF Answers
    <3> QED
      BY <1>4, <2>1, <3>1 DEF FetchHierarchies, RunFit, RunState
  <2> QED
    BY <1>4, <2>2, <2>3, TypePartsNext DEF FetchHierarchies, TablesFit, world, tables, ranking
<1>5. CASE ListLeagues
  <2>1. PICK found \in SUBSET LeaguesOf(run.season) :
          /\ (found = LeaguesOf(run.season)) \in Answers
          /\ run' = AfterLeagues([run EXCEPT !.unsaved = found, !.left = found,
                                             !.clean = (found = LeaguesOf(run.season))])
          /\ Count(found = LeaguesOf(run.season))
    BY <1>5 DEF ListLeagues
  <2>2. failures' \in 0..MaxFailures
    BY <2>1, CountType DEF TablesFit
  <2> DEFINE ok == found = LeaguesOf(run.season)
             n  == [run EXCEPT !.unsaved = found, !.left = found, !.clean = ok]
  <2>3. n \in RunState /\ n.season \in Seasons
    <3>1. found \in SUBSET Leagues /\ ok \in BOOLEAN
      BY DEF LeaguesOf
    <3> HIDE DEF ok
    <3> QED
      BY <1>5, <3>1 DEF ListLeagues, RunFit, RunState
  <2>4. run' = AfterLeagues(n)
    BY <2>1
  <2> HIDE DEF n
  <2>5. RunFit(run')
    BY <2>3, <2>4, AfterLeaguesFit
  <2> QED
    BY <1>5, <2>2, <2>5, TypePartsNext DEF ListLeagues, TablesFit, world, tables, ranking
<1>6. CASE SaveLeague
  <2>1. PICK l \in run.unsaved :
          /\ leagues' = leagues \cup {l}
          /\ run' = AfterLeagues([run EXCEPT !.unsaved = @ \ {l}])
    BY <1>6 DEF SaveLeague
  <2> DEFINE n == [run EXCEPT !.unsaved = @ \ {l}]
  <2>2. l \in Leagues
    BY DEF RunFit, RunState
  <2>3. n \in RunState /\ n.season \in Seasons
    BY <1>6 DEF SaveLeague, RunFit, RunState
  <2>4. run' = AfterLeagues(n)
    BY <2>1
  <2> HIDE DEF n
  <2>5. RunFit(run')
    BY <2>3, <2>4, AfterLeaguesFit
  <2> QED
    BY <1>6, <2>1, <2>2, <2>5, TypePartsNext DEF SaveLeague, TablesFit, world, ranking
<1>7. CASE Scan
  <2> DEFINE old == {t \in Teams : teams[t] # Absent} \ fresh
             s == [run EXCEPT !.old = old, !.before = rosters, !.clubs = RegisteredClubs]
  <2>1. run' = IF s.left # {} THEN [s EXCEPT !.pc = "page"] ELSE AfterListing(s)
    BY <1>7 DEF Scan
  <2>2. s \in RunState /\ s.season \in Seasons
    <3>1. old \in SUBSET Teams
      OBVIOUS
    <3> HIDE DEF old
    <3> QED
      BY <1>7, <3>1 DEF Scan, TablesFit, RunFit, RunState
  <2> HIDE DEF s
  <2>3. RunFit([s EXCEPT !.pc = "page"])
    BY <2>2 DEF RunFit, RunState
  <2>4. RunFit(run')
    BY <2>1, <2>2, <2>3, AfterListingFit
  <2> QED
    BY <1>7, <2>4, TypePartsNext DEF Scan, TablesFit, world, tables, ranking
<1> QED
  BY <1>1, <1>2, <1>3, <1>4, <1>5, <1>6, <1>7

\* The listing of the leagues' teams, and the removal.
LEMMA ListingType ==
    ASSUME TypeOK, \/ FetchPage
                   \/ SaveTeam
                   \/ FetchRoster
                   \/ DeleteTeam
                   \/ DeleteRoster
    PROVE  TypeOK'
<1> USE TypeParts
<1>1. CASE FetchPage
  <2>1. PICK l \in IF run.league = Absent THEN run.left ELSE {run.league}, ok \in Answers :
          LET ofLeague == {t \in Teams : sams[t] = l}
              onPage   == {t \in ofLeague \cap Registered : OnPage(run.page, t)}
          IN  /\ run' = AfterTeam([run EXCEPT
                    !.league = l,
                    !.list   = IF ok THEN onPage ELSE {},
                    !.more   = ~ok \/ \E t \in ofLeague : ~BeforePage(run.page + 1, t),
                    !.clean  = @ /\ ok])
              /\ Count(ok)
    BY <1>1 DEF FetchPage
  <2> DEFINE ofLeague == {t \in Teams : sams[t] = l}
             list  == IF ok THEN {t \in ofLeague \cap Registered : OnPage(run.page, t)} ELSE {}
             more  == ~ok \/ \E t \in ofLeague : ~BeforePage(run.page + 1, t)
             clean == run.clean /\ ok
             n     == [run EXCEPT !.league = l, !.list = list, !.more = more, !.clean = clean]
  <2>2. l \in Leagues
    BY DEF RunFit, RunState
  <2>3. n \in RunState /\ n.season \in Seasons /\ n.league = l
    <3>1. list \in SUBSET Teams /\ more \in BOOLEAN /\ clean \in BOOLEAN
      BY DEF Answers
    <3> HIDE DEF list, more, clean
    <3> QED
      BY <1>1, <2>2, <3>1 DEF FetchPage, RunFit, RunState
  <2>4. run' = AfterTeam(n) /\ Count(ok)
    BY <2>1
  <2> HIDE DEF n
  <2>5. RunFit(run')
    BY <2>2, <2>3, <2>4, AfterTeamFit
  <2>6. failures' \in 0..MaxFailures
    BY <2>4, CountType DEF TablesFit
  <2> QED
    BY <1>1, <2>5, <2>6, TypePartsNext DEF FetchPage, TablesFit, world, tables, ranking
<1>2. CASE SaveTeam
  <2>1. PICK t \in run.list :
          /\ teams' = [teams EXCEPT ![t] =
                  [league |-> run.league, season |-> run.season, level |-> run.level]]
          /\ fresh' = fresh \cup {t}
          /\ run' = [run EXCEPT !.pc = "roster", !.team = t, !.list = @ \ {t},
                                !.synced = @ \cup {t}]
    BY <1>2 DEF SaveTeam
  <2>2. t \in Teams
    BY DEF RunFit, RunState
  <2>3. [league |-> run.league, season |-> run.season, level |-> run.level] \in Row
    BY <1>2 DEF SaveTeam, RunFit, RunState, Row
  <2>4. teams' \in [Teams -> Row \cup {Absent}]
    BY <2>1, <2>3 DEF TablesFit
  <2>5. RunFit(run')
    BY <1>2, <2>1, <2>2 DEF SaveTeam, RunFit, RunState
  <2> QED
    BY <1>2, <2>1, <2>2, <2>4, <2>5, TypePartsNext DEF SaveTeam, TablesFit, world, ranking
<1>3. CASE FetchRoster
  <2>1. PICK ok \in Answers :
          LET t == run.team
          IN  /\ rosters' = IF ok THEN [rosters EXCEPT ![t] = squads[t]] ELSE rosters
              /\ run' = AfterTeam([run EXCEPT !.team = Absent,
                    !.changed = IF ok /\ squads[t] # run.before[t] THEN @ \cup {t} ELSE @])
              /\ Count(ok)
    BY <1>3 DEF FetchRoster
  <2> DEFINE changed == IF ok /\ squads[run.team] # run.before[run.team]
                        THEN run.changed \cup {run.team} ELSE run.changed
             n == [run EXCEPT !.team = Absent, !.changed = changed]
  <2>2. run.team \in Teams /\ run.league \in Leagues
    BY <1>3 DEF FetchRoster, RunFit
  <2>3. n \in RunState /\ n.season \in Seasons /\ n.league = run.league
    <3>1. changed \in SUBSET Teams
      BY <2>2 DEF RunFit, RunState
    <3> HIDE DEF changed
    <3> QED
      BY <1>3, <3>1 DEF FetchRoster, RunFit, RunState
  <2>4. run' = AfterTeam(n) /\ Count(ok)
    BY <2>1
  <2> HIDE DEF n
  <2>5. RunFit(run')
    BY <2>2, <2>3, <2>4, AfterTeamFit
  <2>6. failures' \in 0..MaxFailures
    BY <2>4, CountType DEF TablesFit
  <2>7. rosters' \in [Teams -> Squads \cup {Absent}]
    BY <2>1, <2>2 DEF TablesFit
  <2> QED
    BY <1>3, <2>5, <2>6, <2>7, TypePartsNext DEF FetchRoster, TablesFit, world, ranking
<1>4. CASE DeleteTeam
  <2>1. PICK t \in run.old \ run.synced :
          /\ teams' = [teams EXCEPT ![t] = Absent]
          /\ fresh' = fresh \ {t}
          /\ run' = [run EXCEPT !.pc = "deleteRoster", !.team = t, !.old = @ \ {t},
                !.changed = IF run.before[t] # Absent THEN @ \cup {t} ELSE @]
    BY <1>4 DEF DeleteTeam
  <2> DEFINE changed == IF run.before[t] # Absent THEN run.changed \cup {t} ELSE run.changed
  <2>2. t \in Teams
    BY DEF RunFit, RunState
  <2>3. RunFit(run')
    <3>1. changed \in SUBSET Teams
      BY <2>2 DEF RunFit, RunState
    <3>2. run' = [run EXCEPT !.pc = "deleteRoster", !.team = t, !.old = run.old \ {t},
                             !.changed = changed]
      BY <2>1
    <3> HIDE DEF changed
    <3> QED
      BY <1>4, <2>2, <3>1, <3>2 DEF DeleteTeam, RunFit, RunState
  <2>4. teams' \in [Teams -> Row \cup {Absent}] /\ fresh' \subseteq Teams
    BY <2>1 DEF TablesFit
  <2> QED
    BY <1>4, <2>3, <2>4, TypePartsNext DEF DeleteTeam, TablesFit, world, ranking
<1>5. CASE DeleteRoster
  <2> DEFINE n == [run EXCEPT !.team = Absent]
  <2>1. n \in RunState /\ n.season \in Seasons
    BY <1>5 DEF DeleteRoster, RunFit, RunState
  <2>2. run' = AfterListing(n)
    BY <1>5 DEF DeleteRoster
  <2> HIDE DEF n
  <2>3. RunFit(run')
    BY <2>1, <2>2, AfterListingFit
  <2>4. rosters' \in [Teams -> Squads \cup {Absent}]
    BY <1>5 DEF DeleteRoster, TablesFit
  <2> QED
    BY <1>5, <2>3, <2>4, TypePartsNext DEF DeleteRoster, TablesFit, world, ranking
<1> QED
  BY <1>1, <1>2, <1>3, <1>4, <1>5

LEMMA ClubSquadsType ==
    ASSUME TypeOK, NEW c \in Clubs
    PROVE  ClubSquads(c) \in [Teams -> Squads \cup {Empty, Absent}]
<1>1. run.squads \in [Teams -> Squads \cup {Empty, Absent}]
  BY DEF TypeOK, RunState
<1>2. \A t \in Teams : Payload(rosters[t]) \in Squads \cup {Empty, Absent}
  BY DEF TypeOK, Payload
<1> QED
  BY <1>1, <1>2 DEF ClubSquads

LEMMA ClubListType ==
    ASSUME TypeOK, NEW c \in Clubs
    PROVE  {[team |-> t, league |-> teams[t].league, level |-> teams[t].level] :
               t \in ClubTeams(c)} \in SUBSET Entry
<1>1. ASSUME NEW t \in ClubTeams(c)
      PROVE  [team |-> t, league |-> teams[t].league, level |-> teams[t].level] \in Entry
  <2>1. t \in Teams /\ teams[t] \in Row
    BY DEF ClubTeams, TypeOK
  <2>2. teams[t].league \in Leagues /\ teams[t].level \in BOOLEAN
    BY <2>1 DEF Row
  <2> QED
    BY <2>1, <2>2 DEF Entry
<1> QED
  BY <1>1

LEMMA DeliveredType ==
    ASSUME TypeOK, NEW ts, NEW rs, NEW cs
    PROVE  Delivered(ts, rs, cs) \in
               [teams : [Clubs -> SUBSET Entry], squads : [Teams -> Squads \cup {Empty, Absent}]]
<1>1. /\ feed.teams \in [Clubs -> SUBSET Entry]
      /\ feed.squads \in [Teams -> Squads \cup {Empty, Absent}]
  BY DEF TypeOK
<1>2. /\ run.lists \in [Clubs -> SUBSET Entry]
      /\ run.squads \in [Teams -> Squads \cup {Empty, Absent}]
  BY DEF TypeOK, RunState
<1>3. \A t \in Teams : Payload(rosters[t]) \in Squads \cup {Empty, Absent}
  BY DEF TypeOK, Payload
<1>4. [c \in Clubs |-> IF c \in ts THEN run.lists[c] ELSE feed.teams[c]]
          \in [Clubs -> SUBSET Entry]
  BY <1>1, <1>2
<1>5. [t \in Teams |->
          IF t \in cs THEN Payload(rosters[t])
          ELSE IF ClubOf[t] \in rs THEN run.squads[t] ELSE feed.squads[t]]
          \in [Teams -> Squads \cup {Empty, Absent}]
  BY <1>1, <1>2, <1>3
<1> QED
  BY <1>4, <1>5 DEF Delivered

\* The end of a sync, in success or not.
LEMMA EndType ==
    ASSUME TypeOK, \/ BuildLists
                   \/ Publish
                   \/ Record
                   \/ RunFails
    PROVE  TypeOK'
<1> USE TypeParts
<1>1. CASE BuildLists
  <2>1. PICK c \in run.clubs :
          run' = [run EXCEPT
              !.pc     = IF run.clubs = {c} THEN "publish" ELSE "lists",
              !.clubs  = @ \ {c},
              !.lists  = [@ EXCEPT ![c] =
                  {[team |-> t, league |-> teams[t].league, level |-> teams[t].level] :
                      t \in ClubTeams(c)}],
              !.squads = ClubSquads(c)]
    BY <1>1 DEF BuildLists
  <2> DEFINE list == {[team |-> t, league |-> teams[t].league, level |-> teams[t].level] :
                          t \in ClubTeams(c)}
             lists == [run.lists EXCEPT ![c] = list]
             next == IF run.clubs = {c} THEN "publish" ELSE "lists"
  <2>2. c \in Clubs
    BY TeamsAssumption DEF RunFit, RunState
  <2>3. list \in SUBSET Entry
    BY <2>2, ClubListType
  <2>4. ClubSquads(c) \in [Teams -> Squads \cup {Empty, Absent}]
    BY <2>2, ClubSquadsType
  <2>5. run' = [run EXCEPT !.pc = next, !.clubs = run.clubs \ {c}, !.lists = lists,
                           !.squads = ClubSquads(c)]
    BY <2>1
  <2>6. RunFit(run')
    <3> HIDE DEF list
    <3>1. lists \in [Clubs -> SUBSET Entry]
      BY <2>3 DEF RunFit, RunState
    <3>2. next \in {"publish", "lists"}
      OBVIOUS
    <3> HIDE DEF lists, next
    <3> QED
      BY <1>1, <2>4, <2>5, <3>1, <3>2 DEF BuildLists, RunFit, RunState
  <2> QED
    BY <1>1, <2>6, TypePartsNext DEF BuildLists, TablesFit, world, tables, ranking
<1>2. CASE Publish
  <2>1. RunFit(run')
    BY <1>2 DEF Publish, RunFit, RunState
  <2> QED
    BY <1>2, <2>1, DeliveredType, TypePartsNext DEF Publish, TablesFit, world, tables, ranking
<1>3. CASE Record
  <2>1. run' = [IdleRun EXCEPT !.complete = TRUE] /\ IdleRun.pc = "idle"
    BY <1>3 DEF Record, IdleRun
  <2>2. RunFit(run')
    BY <2>1, IdleFit DEF RunFit, RunState
  <2> QED
    BY <1>3, <2>2, TypePartsNext DEF Record, TablesFit, world, tables, ranking
<1>4. CASE RunFails
  <2>1. PICK ts \in SUBSET RegisteredClubs, rs \in SUBSET RegisteredClubs,
             cs \in SUBSET ChangedRosters : feed' = Delivered(ts, rs, cs)
    BY <1>4 DEF RunFails
  <2>2. failures' \in 0..MaxFailures
    BY <1>4, FailureType DEF RunFails, TablesFit
  <2>3. status' \in {"success", "failure"}
    BY <1>4 DEF RunFails, TablesFit
  <2>4. feed' \in [teams : [Clubs -> SUBSET Entry], squads : [Teams -> Squads \cup {Empty, Absent}]]
    BY <2>1, DeliveredType
  <2> QED
    BY <1>4, <2>2, <2>3, <2>4, IdleFit, TypePartsNext
       DEF RunFails, TablesFit, world, tables, ranking
<1> QED
  BY <1>1, <1>2, <1>3, <1>4

LEMMA RankingType ==
    ASSUME TypeOK, Ranking
    PROVE  TypeOK'
<1> USE TypeParts
<1>1. CASE buildLeagueRankingProjection
  <2>1. PICK l \in Leagues, s \in seasons :
          rank' = [pc |-> "resolve", league |-> l, season |-> s,
                   left |-> {t \in Teams : sams[t] = l /\ teams[t] = Absent}]
    BY <1>1 DEF buildLeagueRankingProjection
  <2>2. RankFit(rank')
    BY <2>1 DEF TablesFit, RankFit, RankState
  <2>3. rankings' \in 0..MaxRankings
    BY <1>1, TeamsAssumption DEF buildLeagueRankingProjection, TablesFit
  <2> QED
    BY <1>1, <2>2, <2>3, TypePartsNext
       DEF buildLeagueRankingProjection, TablesFit, world, tables
<1>2. CASE resolveTeam
  <2>1. PICK t \in rank.left, ok \in Answers :
          /\ teams' = IF ok THEN [teams EXCEPT ![t] =
                  [league |-> rank.league, season |-> rank.season, level |-> FALSE]] ELSE teams
          /\ fresh' = IF ok THEN fresh \cup {t} ELSE fresh
          /\ rank' = IF rank.left = {t} THEN IdleRank ELSE [rank EXCEPT !.left = @ \ {t}]
          /\ Count(ok)
    BY <1>2 DEF resolveTeam
  <2>2. t \in Teams
    BY DEF RankFit, RankState
  <2>3. [league |-> rank.league, season |-> rank.season, level |-> FALSE] \in Row
    BY <1>2 DEF resolveTeam, RankFit, Row
  <2>4. teams' \in [Teams -> Row \cup {Absent}]
    BY <2>1, <2>3 DEF TablesFit
  <2>5. fresh' \subseteq Teams
    BY <2>1, <2>2 DEF TablesFit
  <2>6. RankFit([rank EXCEPT !.left = @ \ {t}])
    BY DEF RankFit, RankState
  <2>7. RankFit(rank')
    BY <2>1, <2>6, IdleFit
  <2>8. failures' \in 0..MaxFailures
    BY <2>1, CountType DEF TablesFit
  <2> QED
    BY <1>2, <2>4, <2>5, <2>7, <2>8, TypePartsNext DEF resolveTeam, TablesFit, world
<1>3. CASE RankingEnds
  BY <1>3, IdleFit, TypePartsNext DEF RankingEnds, TablesFit, world, tables
<1> QED
  BY <1>1, <1>2, <1>3 DEF Ranking

LEMMA NextType == TypeOK /\ [Next]_vars => TypeOK'
<1> SUFFICES ASSUME TypeOK, [Next]_vars PROVE TypeOK'
  OBVIOUS
<1>1. CASE UNCHANGED vars
  BY <1>1 DEF TypeOK, vars
<1>2. CASE Next
  BY <1>2, SamsType, BeginType, ListingType, EndType, RankingType DEF Next, SyncStep
<1> QED
  BY <1>1, <1>2

\* Every variable has its type in every reachable state, for any clubs, leagues,
\* seasons and pages.
THEOREM TypeCorrect == Spec => []TypeOK
  BY InitType, NextType, PTL DEF Spec

-----------------------------------------------------------------------------
(* SteadyTeamsStay.                                                        *)

\* A team that counts as steady is listed in the season the sync works on.
SteadyListed ==
    \A t \in run.steady :
        Listed(t) /\ (run.pc \notin {"idle", "season"} => run.season = current)

\* Until a league is taken up the page is the first one.
FirstPage(s) ==
    /\ s.pc \in {"season", "hierarchies", "leagues", "saveLeagues", "scan"} => s.league = Absent
    /\ s.league = Absent /\ s.pc # "idle" => s.page = 0

\* SAMS will be asked for the page that team t is on.
Ahead(s, t) ==
    \/ sams[t] \in s.left \ {s.league}
    \/ sams[t] = s.league /\ s.pc = "page" /\ ~BeforePage(s.page, t)
    \/ sams[t] = s.league /\ s.pc # "page" /\ s.more /\ ~BeforePage(s.page + 1, t)

\* No steady team is passed over: it is on a page to come, on the one being
\* worked through, or synced.
NoneMissed(s) ==
    s.clean => \A t \in s.steady \cap Registered :
        /\ s.pc \in {"saveLeagues", "scan"} => sams[t] \in s.left
        /\ s.pc = "page" => t \in s.synced \/ Ahead(s, t)
        /\ s.pc \in {"team", "roster"} => t \in s.synced \cup s.list \/ Ahead(s, t)
        /\ s.pc \in {"remove", "deleteRoster"} => t \in s.synced

IInv ==
    /\ TypeOK
    /\ SteadyListed
    /\ FirstPage(run)
    /\ NoneMissed(run)

LEMMA OffsetType ==
    ASSUME NEW t \in Teams
    PROVE  Offset(t) \in Nat
<1>1. IsFiniteSet({u \in Teams : sams[u] = sams[t] /\ OrderOf[u] < OrderOf[t]})
  BY TeamsAssumption, FS_Subset
<1> QED
  BY <1>1, FS_CardinalityType DEF Offset

LEMMA NoneBeforeFirst ==
    ASSUME NEW t \in Teams
    PROVE  ~BeforePage(0, t)
  BY OffsetType, TeamsAssumption DEF BeforePage

\* A team comes to stand on an earlier page only when one listed before it leaves.
LEMMA PlaceKept ==
    ASSUME TypeOK, NEW t \in Teams, MoveTeam(t),
           NEW u \in Teams \ {t}, u \notin After(t),
           NEW page \in Nat, ~BeforePage(page, u)
    PROVE  ~BeforePage(page, u)'
<1> DEFINE before == {v \in Teams : sams[v] = sams[u] /\ OrderOf[v] < OrderOf[u]}
<1>1. PICK l \in PlacesOf[t] : sams' = [sams EXCEPT ![t] = l]
  BY DEF MoveTeam
<1>2. \A v \in Teams \ {t} : sams'[v] = sams[v]
  BY <1>1 DEF TypeOK
<1>3. before \subseteq before'
  <2> SUFFICES ASSUME NEW v \in before PROVE sams'[v] = sams'[u]
    OBVIOUS
  <2>1. v # t
    BY TeamsAssumption DEF After
  <2> QED
    BY <1>2, <2>1
<1>4. IsFiniteSet(before')
  BY TeamsAssumption, FS_Subset
<1>5. Cardinality(before) \in Nat /\ Cardinality(before') \in Nat
      /\ Cardinality(before) <= Cardinality(before')
  BY <1>3, <1>4, FS_Subset, FS_CardinalityType
<1>6. Offset(u) = Cardinality(before) /\ Offset(u)' = Cardinality(before')
  BY DEF Offset
<1> HIDE DEF before
<1>7. page * PageSize \in Nat
  BY TeamsAssumption
<1> QED
  BY <1>5, <1>6, <1>7 DEF BeforePage

LEMMA AfterListingCovers ==
    ASSUME NEW s \in RunState,
           s.league = Absent => s.page = 0,
           s.clean => \A t \in s.steady \cap Registered : t \in s.synced
    PROVE  /\ FirstPage(AfterListing(s)) /\ NoneMissed(AfterListing(s))
           /\ AfterListing(s).steady = s.steady /\ AfterListing(s).season = s.season
<1> DEFINE To(pc) == [s EXCEPT !.pc = pc]
<1>1. ASSUME NEW pc \in {"lists", "remove"}
      PROVE  /\ FirstPage(To(pc)) /\ NoneMissed(To(pc))
             /\ To(pc).steady = s.steady /\ To(pc).season = s.season
  <2>1. /\ To(pc).pc = pc /\ To(pc).clean = s.clean /\ To(pc).steady = s.steady
        /\ To(pc).synced = s.synced /\ To(pc).league = s.league /\ To(pc).page = s.page
        /\ To(pc).season = s.season
    BY DEF RunState
  <2> HIDE DEF To
  <2> QED
    BY <2>1 DEF FirstPage, NoneMissed
<1>2. AfterListing(s) \in {To("lists"), To("remove")}
  BY DEF AfterListing
<1> HIDE DEF To
<1> QED
  BY <1>1, <1>2

\* What is still to come when the last team of a page is done.
LEMMA AfterPageCovers ==
    ASSUME TypeOK, NEW s \in RunState, s.league \in Leagues,
           s.clean => \A t \in s.steady \cap Registered :
               \/ t \in s.synced
               \/ sams[t] \in s.left \ {s.league}
               \/ sams[t] = s.league /\ s.more /\ ~BeforePage(s.page + 1, t)
    PROVE  /\ FirstPage(AfterPage(s)) /\ NoneMissed(AfterPage(s))
           /\ AfterPage(s).steady = s.steady /\ AfterPage(s).season = s.season
<1>1. CASE s.more
  <2> DEFINE p == s.page + 1
             n == [s EXCEPT !.pc = "page", !.page = p]
  <2>1. AfterPage(s) = n
    BY <1>1 DEF AfterPage
  <2>2. /\ n.pc = "page" /\ n.page = p /\ n.league = s.league /\ n.left = s.left
        /\ n.clean = s.clean /\ n.steady = s.steady /\ n.synced = s.synced
        /\ n.season = s.season
    BY DEF RunState
  <2>3. s.steady \subseteq Teams /\ s.league # Absent
    BY TeamsAssumption DEF RunState
  <2> HIDE DEF n
  <2> QED
    BY <2>1, <2>2, <2>3 DEF FirstPage, NoneMissed, Ahead
<1>2. CASE ~s.more
  <2> DEFINE n == [s EXCEPT !.left = s.left \ {s.league}, !.league = Absent, !.page = 0]
             m == [n EXCEPT !.pc = "page"]
  <2>1. AfterPage(s) = IF n.left # {} THEN m ELSE AfterListing(n)
    BY <1>2 DEF AfterPage
  <2>2. /\ n.left = s.left \ {s.league} /\ n.league = Absent /\ n.page = 0
        /\ n.clean = s.clean /\ n.steady = s.steady /\ n.synced = s.synced
        /\ n.season = s.season /\ n \in RunState
    BY DEF RunState
  <2>3. Absent \notin n.left
    BY <2>2, TeamsAssumption DEF RunState
  <2>4. n.clean => \A t \in n.steady \cap Registered : t \in n.synced \/ sams[t] \in n.left
    BY <1>2, <2>2
  <2>5. CASE n.left # {}
    <3>1. /\ m.pc = "page" /\ m.left = n.left /\ m.league = Absent /\ m.page = 0
          /\ m.clean = n.clean /\ m.steady = n.steady /\ m.synced = n.synced
          /\ m.season = n.season
      BY <2>2 DEF RunState
    <3> HIDE DEF n, m
    <3> QED
      BY <2>1, <2>2, <2>3, <2>4, <2>5, <3>1 DEF FirstPage, NoneMissed, Ahead
  <2>6. CASE n.left = {}
    <3> HIDE DEF n, m
    <3> QED
      BY <2>1, <2>2, <2>4, <2>6, AfterListingCovers
  <2> QED
    BY <2>5, <2>6
<1> QED
  BY <1>1, <1>2

LEMMA AfterTeamCovers ==
    ASSUME TypeOK, NEW s \in RunState, s.league \in Leagues,
           s.clean => \A t \in s.steady \cap Registered :
               \/ t \in s.synced \cup s.list
               \/ sams[t] \in s.left \ {s.league}
               \/ sams[t] = s.league /\ s.more /\ ~BeforePage(s.page + 1, t)
    PROVE  /\ FirstPage(AfterTeam(s)) /\ NoneMissed(AfterTeam(s))
           /\ AfterTeam(s).steady = s.steady /\ AfterTeam(s).season = s.season
<1>1. CASE s.list # {}
  <2> DEFINE n == [s EXCEPT !.pc = "team"]
  <2>1. AfterTeam(s) = n
    BY <1>1 DEF AfterTeam
  <2>2. /\ n.pc = "team" /\ n.left = s.left /\ n.league = s.league /\ n.page = s.page
        /\ n.more = s.more /\ n.list = s.list /\ n.clean = s.clean /\ n.steady = s.steady
        /\ n.synced = s.synced /\ n.season = s.season
    BY DEF RunState
  <2>3. s.league # Absent
    BY TeamsAssumption
  <2> HIDE DEF n
  <2> QED
    BY <2>1, <2>2, <2>3 DEF FirstPage, NoneMissed, Ahead
<1>2. CASE s.list = {}
  <2>1. AfterTeam(s) = AfterPage(s)
    BY <1>2 DEF AfterTeam
  <2> QED
    BY <1>2, <2>1, AfterPageCovers
<1> QED
  BY <1>1, <1>2

LEMMA InvIntro ==
    ASSUME TypeOK', sams' = sams, SteadyListed', FirstPage(run'), NoneMissed(run')
    PROVE  IInv'
<1>1. \A p, t : BeforePage(p, t)' <=> BeforePage(p, t)
  BY DEF BeforePage, Offset
<1>2. \A s, t : Ahead(s, t)' <=> Ahead(s, t)
  BY <1>1 DEF Ahead
<1>3. NoneMissed(run)'
  BY <1>2 DEF NoneMissed
<1> QED
  BY <1>3 DEF IInv, FirstPage

\* A sync keeps its season, and SAMS keeps still.
LEMMA KeepSteady ==
    ASSUME SteadyListed, sams' = sams, current' = current,
           run'.steady = run.steady, run'.season = run.season,
           run.pc \notin {"idle", "season"}
    PROVE  SteadyListed'
  BY DEF SteadyListed, Listed

LEMMA IdleInv ==
    ASSUME TypeOK', run' \in {IdleRun, [IdleRun EXCEPT !.complete = TRUE]}, sams' = sams
    PROVE  IInv'
<1>1. run'.pc = "idle" /\ run'.steady = {} /\ run'.league = Absent
  BY DEF IdleRun
<1>2. SteadyListed'
  BY <1>1 DEF SteadyListed
<1>3. FirstPage(run') /\ NoneMissed(run')
  BY <1>1 DEF FirstPage, NoneMissed
<1> QED
  BY <1>2, <1>3, InvIntro

LEMMA InitInv == Init => IInv
<1> SUFFICES ASSUME Init PROVE IInv
  OBVIOUS
<1>1. run.pc = "idle" /\ run.steady = {} /\ run.league = Absent
  BY DEF Init, IdleRun
<1> QED
  BY <1>1, InitType DEF IInv, SteadyListed, FirstPage, NoneMissed

LEMMA SamsInv ==
    ASSUME IInv, TypeOK', \/ \E t \in Teams : MoveTeam(t) \/ ChangeSquad(t)
                          \/ NewSeason
    PROVE  IInv'
<1>1. ASSUME NEW t \in Teams, MoveTeam(t) PROVE IInv'
  <2>1. PICK l \in PlacesOf[t] : sams' = [sams EXCEPT ![t] = l]
    BY <1>1 DEF MoveTeam
  <2>2. \A u \in Teams \ {t} : sams'[u] = sams[u]
    BY <2>1 DEF IInv, TypeOK
  <2> DEFINE moved == {t} \cup IF sams[t] = run.league THEN After(t) ELSE {}
  <2>3. run' = [run EXCEPT !.steady = run.steady \ moved] /\ current' = current
    BY <1>1 DEF MoveTeam
  <2>4. /\ run'.pc = run.pc /\ run'.clean = run.clean /\ run'.season = run.season
        /\ run'.steady = run.steady \ moved /\ run'.league = run.league
        /\ run'.page = run.page /\ run'.left = run.left /\ run'.more = run.more
        /\ run'.synced = run.synced /\ run'.list = run.list
    <3> HIDE DEF moved
    <3> QED
      BY <2>3 DEF IInv, TypeOK, RunState
  <2>5. run.steady \subseteq Teams
    BY DEF IInv, TypeOK, RunState
  <2>6. SteadyListed'
    BY <2>2, <2>3, <2>4, <2>5 DEF IInv, SteadyListed, Listed
  <2>7. FirstPage(run)'
    BY <2>4 DEF IInv, FirstPage
  <2>8. ASSUME NEW u \in run'.steady, Ahead(run, u)
        PROVE  Ahead(run, u)'
    <3>1. u \in Teams \ {t} /\ sams'[u] = sams[u]
      BY <2>2, <2>4, <2>5
    <3>2. sams[u] = run.league => u \notin After(t)
      BY <2>4 DEF After
    <3>3. run.page \in Nat /\ run.page + 1 \in Nat
      BY DEF IInv, TypeOK, RunState
    <3>4. ASSUME sams[u] = run.league, NEW p \in {run.page, run.page + 1}, ~BeforePage(p, u)
          PROVE  ~BeforePage(p, u)'
      BY <1>1, <3>1, <3>2, <3>3, <3>4, PlaceKept DEF IInv
    <3> QED
      BY <2>4, <2>8, <3>1, <3>4 DEF Ahead
  <2>9. NoneMissed(run)'
    BY <2>2, <2>4, <2>5, <2>8 DEF IInv, NoneMissed
  <2> QED
    BY <2>6, <2>7, <2>9 DEF IInv
<1>2. ASSUME NEW t \in Teams, ChangeSquad(t) PROVE IInv'
  BY <1>2, InvIntro DEF ChangeSquad, IInv, SteadyListed, Listed
<1>3. CASE NewSeason
  <2>1. run' = [run EXCEPT !.steady = {}] /\ sams' = sams
    BY <1>3 DEF NewSeason
  <2>2. /\ run'.pc = run.pc /\ run'.steady = {} /\ run'.league = run.league
        /\ run'.page = run.page
    BY <2>1 DEF IInv, TypeOK, RunState
  <2>3. SteadyListed' /\ FirstPage(run') /\ NoneMissed(run')
    BY <2>2 DEF IInv, SteadyListed, FirstPage, NoneMissed
  <2> QED
    BY <2>1, <2>3, InvIntro
<1> QED
  BY <1>1, <1>2, <1>3

LEMMA BeginInv ==
    ASSUME IInv, TypeOK', \/ \E f \in SUBSET fresh : Start(f)
                          \/ StartWithoutClubs
                          \/ FetchSeason
                          \/ FetchHierarchies
                          \/ ListLeagues
                          \/ SaveLeague
                          \/ Scan
    PROVE  IInv'
<1> USE DEF world
<1>0. run \in RunState
  BY DEF IInv, TypeOK
<1>1. ASSUME NEW f \in SUBSET fresh, Start(f) PROVE IInv'
  <2>1. /\ run' = [IdleRun EXCEPT !.pc = "season", !.steady = {t \in Teams : Listed(t)}]
        /\ sams' = sams /\ current' = current
    BY <1>1 DEF Start
  <2>2. /\ run'.pc = "season" /\ run'.steady = {t \in Teams : Listed(t)}
        /\ run'.league = Absent /\ run'.page = 0
    BY <2>1 DEF IdleRun
  <2>3. SteadyListed'
    BY <2>1, <2>2 DEF SteadyListed, Listed
  <2>4. FirstPage(run') /\ NoneMissed(run')
    BY <2>2 DEF FirstPage, NoneMissed
  <2> QED
    BY <2>1, <2>3, <2>4, InvIntro
<1>2. CASE StartWithoutClubs
  BY <1>2, InvIntro DEF StartWithoutClubs, IInv, SteadyListed, Listed
<1>3. CASE FetchSeason
  <2>1. /\ run.pc = "season" /\ sams' = sams /\ current' = current
        /\ run' = [run EXCEPT !.pc = "hierarchies", !.season = current]
    BY <1>3 DEF FetchSeason
  <2>2. /\ run'.pc = "hierarchies" /\ run'.season = current /\ run'.steady = run.steady
        /\ run'.league = run.league /\ run'.page = run.page
    BY <1>0, <2>1 DEF RunState
  <2>3. SteadyListed'
    BY <2>1, <2>2 DEF IInv, SteadyListed, Listed
  <2>4. FirstPage(run') /\ NoneMissed(run')
    BY <2>1, <2>2 DEF IInv, FirstPage, NoneMissed
  <2> QED
    BY <2>1, <2>3, <2>4, InvIntro
<1>4. CASE FetchHierarchies
  <2>1. PICK ok \in Answers : run' = [run EXCEPT !.pc = "leagues", !.level = ok]
    BY <1>4 DEF FetchHierarchies
  <2>2. run.pc = "hierarchies" /\ sams' = sams /\ current' = current
    BY <1>4 DEF FetchHierarchies
  <2>3. /\ run'.pc = "leagues" /\ run'.season = run.season /\ run'.steady = run.steady
        /\ run'.league = run.league /\ run'.page = run.page
    BY <1>0, <2>1 DEF RunState
  <2>4. SteadyListed'
    BY <2>2, <2>3, KeepSteady DEF IInv
  <2>5. FirstPage(run') /\ NoneMissed(run')
    BY <2>2, <2>3 DEF IInv, FirstPage, NoneMissed
  <2> QED
    BY <2>2, <2>4, <2>5, InvIntro
<1>5. CASE ListLeagues
  <2>1. PICK found \in SUBSET LeaguesOf(run.season) :
          run' = AfterLeagues([run EXCEPT !.unsaved = found, !.left = found,
                                          !.clean = (found = LeaguesOf(run.season))])
    BY <1>5 DEF ListLeagues
  <2>2. run.pc = "leagues" /\ sams' = sams /\ current' = current
    BY <1>5 DEF ListLeagues
  <2> DEFINE ok == found = LeaguesOf(run.season)
  <2>3. /\ run'.pc \in {"saveLeagues", "scan"} /\ run'.season = run.season
        /\ run'.steady = run.steady /\ run'.left = found /\ run'.clean = ok
        /\ run'.league = run.league /\ run'.page = run.page
    <3> HIDE DEF ok
    <3>1. run' = AfterLeagues([run EXCEPT !.unsaved = found, !.left = found, !.clean = ok])
      BY <2>1 DEF ok
    <3> QED
      BY <1>0, <3>1 DEF RunState, AfterLeagues
  <2>4. SteadyListed'
    BY <2>2, <2>3, KeepSteady DEF IInv
  <2>5. \A t \in run.steady : sams[t] \in LeaguesOf(run.season)
    <3>1. ASSUME NEW t \in run.steady PROVE sams[t] \in LeaguesOf(run.season)
      <4>1. Listed(t) /\ run.season = current
        BY <2>2 DEF IInv, SteadyListed
      <4>2. t \in Teams /\ sams \in [Teams -> Leagues \cup {Absent}]
        BY <1>0 DEF IInv, TypeOK, RunState
      <4> QED
        BY <4>1, <4>2 DEF Listed, LeaguesOf
    <3> QED
      BY <3>1
  <2>6. FirstPage(run') /\ NoneMissed(run')
    BY <2>2, <2>3, <2>5 DEF IInv, FirstPage, NoneMissed
  <2> QED
    BY <2>2, <2>4, <2>6, InvIntro
<1>6. CASE SaveLeague
  <2>1. PICK l \in run.unsaved : run' = AfterLeagues([run EXCEPT !.unsaved = @ \ {l}])
    BY <1>6 DEF SaveLeague
  <2>2. run.pc = "saveLeagues" /\ sams' = sams /\ current' = current
    BY <1>6 DEF SaveLeague
  <2>3. /\ run'.pc \in {"saveLeagues", "scan"} /\ run'.season = run.season
        /\ run'.steady = run.steady /\ run'.left = run.left /\ run'.clean = run.clean
        /\ run'.league = run.league /\ run'.page = run.page
    BY <1>0, <2>1 DEF RunState, AfterLeagues
  <2>4. SteadyListed'
    BY <2>2, <2>3, KeepSteady DEF IInv
  <2>5. FirstPage(run') /\ NoneMissed(run')
    BY <2>2, <2>3 DEF IInv, FirstPage, NoneMissed
  <2> QED
    BY <2>2, <2>4, <2>5, InvIntro
<1>7. CASE Scan
  <2> DEFINE old == {t \in Teams : teams[t] # Absent} \ fresh
             s == [run EXCEPT !.old = old, !.before = rosters, !.clubs = RegisteredClubs]
             m == [s EXCEPT !.pc = "page"]
  <2>1. run' = IF s.left # {} THEN m ELSE AfterListing(s)
    BY <1>7 DEF Scan
  <2>2. run.pc = "scan" /\ sams' = sams /\ current' = current
    BY <1>7 DEF Scan
  <2>3. /\ s.season = run.season /\ s.steady = run.steady /\ s.left = run.left
        /\ s.clean = run.clean /\ s.league = run.league /\ s.page = run.page
        /\ s.synced = run.synced
    BY <1>0 DEF RunState
  <2>4. s \in RunState
    <3>1. old \in SUBSET Teams /\ rosters \in [Teams -> Squads \cup {Absent}]
      BY DEF IInv, TypeOK
    <3> HIDE DEF old
    <3> QED
      BY <1>0, <3>1 DEF RunState
  <2> HIDE DEF s
  <2>5. s.league = Absent /\ s.page = 0
    BY <2>2, <2>3 DEF IInv, FirstPage
  <2>6. s.clean => \A t \in s.steady \cap Registered : sams[t] \in s.left
    BY <2>2, <2>3 DEF IInv, NoneMissed
  <2>7. CASE s.left # {}
    <3>1. /\ m.pc = "page" /\ m.season = s.season /\ m.steady = s.steady
          /\ m.left = s.left /\ m.clean = s.clean /\ m.league = s.league
          /\ m.page = s.page /\ m.synced = s.synced
      BY <2>4 DEF RunState
    <3>2. run' = m
      BY <2>1, <2>7
    <3> HIDE DEF m
    <3>3. SteadyListed'
      BY <2>2, <2>3, <3>1, <3>2, KeepSteady DEF IInv
    <3>4. Absent \notin s.left
      BY <2>4, TeamsAssumption DEF RunState
    <3>5. FirstPage(run') /\ NoneMissed(run')
      BY <2>5, <2>6, <3>1, <3>2, <3>4 DEF FirstPage, NoneMissed, Ahead
    <3> QED
      BY <2>2, <3>3, <3>5, InvIntro
  <2>8. CASE s.left = {}
    <3>1. run' = AfterListing(s)
      BY <2>1, <2>8
    <3>2. /\ FirstPage(run') /\ NoneMissed(run')
          /\ run'.steady = run.steady /\ run'.season = run.season
      BY <2>3, <2>4, <2>5, <2>6, <2>8, <3>1, AfterListingCovers
    <3>3. SteadyListed'
      BY <2>2, <3>2, KeepSteady DEF IInv
    <3> QED
      BY <2>2, <3>2, <3>3, InvIntro
  <2> QED
    BY <2>7, <2>8
<1> QED
  BY <1>1, <1>2, <1>3, <1>4, <1>5, <1>6, <1>7

LEMMA FetchPageInv ==
    ASSUME IInv, TypeOK', FetchPage
    PROVE  IInv'
<1>0. /\ run \in RunState /\ run.pc = "page" /\ sams \in [Teams -> Leagues \cup {Absent}]
      /\ sams' = sams /\ current' = current
  BY DEF IInv, TypeOK, FetchPage, world
<1>1. PICK l \in IF run.league = Absent THEN run.left ELSE {run.league}, ok \in Answers :
        LET ofLeague == {t \in Teams : sams[t] = l}
            onPage   == {t \in ofLeague \cap Registered : OnPage(run.page, t)}
        IN  run' = AfterTeam([run EXCEPT
                  !.league = l,
                  !.list   = IF ok THEN onPage ELSE {},
                  !.more   = ~ok \/ \E t \in ofLeague : ~BeforePage(run.page + 1, t),
                  !.clean  = @ /\ ok])
  BY DEF FetchPage
<1> DEFINE ofLeague == {t \in Teams : sams[t] = l}
           list  == IF ok THEN {t \in ofLeague \cap Registered : OnPage(run.page, t)} ELSE {}
           more  == ~ok \/ \E t \in ofLeague : ~BeforePage(run.page + 1, t)
           clean == run.clean /\ ok
           n     == [run EXCEPT !.league = l, !.list = list, !.more = more, !.clean = clean]
<1>2. l \in Leagues /\ ok \in BOOLEAN
  BY <1>0 DEF RunState, Answers
<1>3. list \in SUBSET Teams /\ more \in BOOLEAN /\ clean \in BOOLEAN
  BY <1>0, <1>2 DEF RunState
<1>4. ASSUME clean, NEW t \in run.steady \cap Registered
      PROVE  \/ t \in run.synced \cup list
             \/ sams[t] \in run.left \ {l}
             \/ sams[t] = l /\ more /\ ~BeforePage(run.page + 1, t)
  <2>1. t \in Teams
    BY <1>0 DEF RunState
  <2>2. t \in run.synced \/ Ahead(run, t)
    BY <1>0, <1>4 DEF IInv, NoneMissed
  <2>3. sams[t] = l => ~BeforePage(run.page, t) \/ t \in run.synced
    <3>1. CASE run.league = Absent
      BY <1>0, <2>1, <3>1, NoneBeforeFirst DEF IInv, FirstPage
    <3>2. CASE run.league # Absent
      BY <1>0, <2>2, <3>2 DEF Ahead
    <3> QED
      BY <3>1, <3>2
  <2>4. sams[t] # l => sams[t] \in run.left \ {l} \/ t \in run.synced
    <3>1. CASE run.league = Absent
      <4>1. sams[t] # Absent
        BY <1>0, <1>4 DEF IInv, SteadyListed, Listed
      <4> QED
        BY <1>0, <2>2, <3>1, <4>1 DEF Ahead
    <3>2. CASE run.league # Absent
      BY <1>0, <2>2, <3>2 DEF Ahead
    <3> QED
      BY <3>1, <3>2
  <2>5. sams[t] = l /\ OnPage(run.page, t) => t \in list
    BY <1>4, <2>1
  <2>6. sams[t] = l /\ ~BeforePage(run.page + 1, t) => more
    BY <2>1
  <2> HIDE DEF list, more
  <2> QED
    BY <2>3, <2>4, <2>5, <2>6 DEF OnPage
<1>5. run' = AfterTeam(n)
  BY <1>1
<1>6. /\ n \in RunState /\ n.league = l /\ n.list = list /\ n.more = more
      /\ n.clean = clean /\ n.steady = run.steady /\ n.season = run.season
      /\ n.synced = run.synced /\ n.left = run.left /\ n.page = run.page
  <2> HIDE DEF list, more, clean
  <2> QED
    BY <1>0, <1>2, <1>3 DEF RunState
<1> HIDE DEF n, list, more, clean
<1>7. n.clean => \A t \in n.steady \cap Registered :
          \/ t \in n.synced \cup n.list
          \/ sams[t] \in n.left \ {n.league}
          \/ sams[t] = n.league /\ n.more /\ ~BeforePage(n.page + 1, t)
  BY <1>4, <1>6
<1>8. /\ FirstPage(run') /\ NoneMissed(run')
      /\ run'.steady = run.steady /\ run'.season = run.season
  <2>1. TypeOK
    BY DEF IInv
  <2> QED
    BY <1>2, <1>5, <1>6, <1>7, <2>1, AfterTeamCovers
<1>9. SteadyListed'
  BY <1>0, <1>8, KeepSteady DEF IInv
<1> QED
  BY <1>0, <1>8, <1>9, InvIntro

LEMMA TeamInv ==
    ASSUME IInv, TypeOK', SaveTeam \/ FetchRoster
    PROVE  IInv'
<1>0. /\ run \in RunState /\ run.pc \in {"team", "roster"} /\ run.league \in Leagues
      /\ sams' = sams /\ current' = current
  BY DEF IInv, TypeOK, SaveTeam, FetchRoster, world
<1>1. CASE SaveTeam
  <2>1. PICK t \in run.list :
          run' = [run EXCEPT !.pc = "roster", !.team = t, !.list = @ \ {t},
                             !.synced = @ \cup {t}]
    BY <1>1 DEF SaveTeam
  <2>2. /\ run'.pc = "roster" /\ run'.synced = run.synced \cup {t}
        /\ run'.list = run.list \ {t} /\ run'.left = run.left
        /\ run'.league = run.league /\ run'.page = run.page /\ run'.more = run.more
        /\ run'.clean = run.clean /\ run'.steady = run.steady /\ run'.season = run.season
    BY <1>0, <2>1 DEF RunState
  <2>3. SteadyListed'
    BY <1>0, <2>2, KeepSteady DEF IInv
  <2>4. FirstPage(run') /\ NoneMissed(run')
    BY <1>0, <2>2 DEF IInv, FirstPage, NoneMissed, Ahead
  <2> QED
    BY <1>0, <2>3, <2>4, InvIntro
<1>2. CASE FetchRoster
  <2>1. PICK ok \in Answers :
          run' = AfterTeam([run EXCEPT !.team = Absent,
              !.changed = IF ok /\ squads[run.team] # run.before[run.team]
                          THEN @ \cup {run.team} ELSE @])
    BY <1>2 DEF FetchRoster
  <2> DEFINE changed == IF ok /\ squads[run.team] # run.before[run.team]
                        THEN run.changed \cup {run.team} ELSE run.changed
             n == [run EXCEPT !.team = Absent, !.changed = changed]
  <2>2. changed \in SUBSET Teams
    <3>1. run.team \in Teams
      BY <1>2 DEF FetchRoster, IInv, TypeOK
    <3> QED
      BY <1>0, <3>1 DEF RunState
  <2>3. run' = AfterTeam(n) /\ run.pc = "roster"
    BY <1>2, <2>1 DEF FetchRoster
  <2>4. /\ n \in RunState /\ n.synced = run.synced /\ n.list = run.list
        /\ n.left = run.left /\ n.league = run.league /\ n.page = run.page
        /\ n.more = run.more /\ n.clean = run.clean /\ n.steady = run.steady
        /\ n.season = run.season
    <3> HIDE DEF changed
    <3> QED
      BY <1>0, <2>2 DEF RunState
  <2> HIDE DEF n
  <2>5. n.clean => \A t \in n.steady \cap Registered :
            \/ t \in n.synced \cup n.list
            \/ sams[t] \in n.left \ {n.league}
            \/ sams[t] = n.league /\ n.more /\ ~BeforePage(n.page + 1, t)
    BY <2>3, <2>4 DEF IInv, NoneMissed, Ahead
  <2>6. /\ FirstPage(run') /\ NoneMissed(run')
        /\ run'.steady = run.steady /\ run'.season = run.season
    <3>1. TypeOK
      BY DEF IInv
    <3> QED
      BY <1>0, <2>3, <2>4, <2>5, <3>1, AfterTeamCovers
  <2>7. SteadyListed'
    BY <1>0, <2>6, KeepSteady DEF IInv
  <2> QED
    BY <1>0, <2>6, <2>7, InvIntro
<1> QED
  BY <1>1, <1>2

LEMMA RemovalInv ==
    ASSUME IInv, TypeOK', DeleteTeam \/ DeleteRoster
    PROVE  IInv'
<1>0. /\ run \in RunState /\ run.pc \in {"remove", "deleteRoster"}
      /\ sams' = sams /\ current' = current
  BY DEF IInv, TypeOK, DeleteTeam, DeleteRoster, world
<1>1. run.clean => \A t \in run.steady \cap Registered : t \in run.synced
  BY <1>0 DEF IInv, NoneMissed
<1>2. run.league = Absent => run.page = 0
  BY <1>0 DEF IInv, FirstPage
<1>3. CASE DeleteTeam
  <2>1. PICK t : run' = [run EXCEPT !.pc = "deleteRoster", !.team = t, !.old = @ \ {t},
                     !.changed = IF run.before[t] # Absent THEN @ \cup {t} ELSE @]
    BY <1>3 DEF DeleteTeam
  <2>2. /\ run'.pc = "deleteRoster" /\ run'.synced = run.synced
        /\ run'.league = run.league /\ run'.page = run.page /\ run'.clean = run.clean
        /\ run'.steady = run.steady /\ run'.season = run.season
    BY <1>0, <2>1 DEF RunState
  <2>3. SteadyListed'
    BY <1>0, <2>2, KeepSteady DEF IInv
  <2>4. FirstPage(run') /\ NoneMissed(run')
    BY <1>1, <1>2, <2>2 DEF FirstPage, NoneMissed
  <2> QED
    BY <1>0, <2>3, <2>4, InvIntro
<1>4. CASE DeleteRoster
  <2> DEFINE n == [run EXCEPT !.team = Absent]
  <2>1. run' = AfterListing(n)
    BY <1>4 DEF DeleteRoster
  <2>2. /\ n \in RunState /\ n.synced = run.synced /\ n.league = run.league
        /\ n.page = run.page /\ n.clean = run.clean /\ n.steady = run.steady
        /\ n.season = run.season
    BY <1>0 DEF RunState
  <2> HIDE DEF n
  <2>3. /\ FirstPage(run') /\ NoneMissed(run')
        /\ run'.steady = run.steady /\ run'.season = run.season
    BY <1>1, <1>2, <2>1, <2>2, AfterListingCovers
  <2>4. SteadyListed'
    BY <1>0, <2>3, KeepSteady DEF IInv
  <2> QED
    BY <1>0, <2>3, <2>4, InvIntro
<1> QED
  BY <1>3, <1>4

LEMMA EndInv ==
    ASSUME IInv, TypeOK', \/ BuildLists
                          \/ Publish
                          \/ Record
                          \/ RunFails
    PROVE  IInv'
<1> USE DEF world
<1>0. run \in RunState
  BY DEF IInv, TypeOK
<1>1. CASE BuildLists \/ Publish
  <2>1. /\ run.pc \in {"lists", "publish"} /\ sams' = sams /\ current' = current
        /\ run'.pc \in {"lists", "publish", "record"} /\ run'.steady = run.steady
        /\ run'.season = run.season /\ run'.league = run.league /\ run'.page = run.page
    <3>1. CASE BuildLists
      BY <1>0, <3>1 DEF BuildLists, RunState
    <3>2. CASE Publish
      BY <1>0, <3>2 DEF Publish, RunState
    <3> QED
      BY <1>1, <3>1, <3>2
  <2>2. SteadyListed'
    BY <2>1, KeepSteady DEF IInv
  <2>3. FirstPage(run') /\ NoneMissed(run')
    BY <2>1 DEF IInv, FirstPage, NoneMissed
  <2> QED
    BY <2>1, <2>2, <2>3, InvIntro
<1>2. CASE Record
  BY <1>2, IdleInv DEF Record
<1>3. CASE RunFails
  BY <1>3, IdleInv DEF RunFails
<1> QED
  BY <1>1, <1>2, <1>3

LEMMA NextInv == IInv /\ [Next]_vars => IInv'
<1> SUFFICES ASSUME IInv, [Next]_vars PROVE IInv'
  OBVIOUS
<1>1. TypeOK'
  BY NextType DEF IInv
<1>2. CASE UNCHANGED vars
  BY <1>1, <1>2, InvIntro DEF vars, IInv, SteadyListed, Listed
<1>3. CASE Ranking
  <2>1. sams' = sams /\ current' = current /\ run' = run
    BY <1>3 DEF Ranking, buildLeagueRankingProjection, resolveTeam, RankingEnds, world
  <2> QED
    BY <1>1, <2>1, InvIntro DEF IInv, SteadyListed, Listed
<1>4. CASE Next /\ ~Ranking
  BY <1>1, <1>4, SamsInv, BeginInv, FetchPageInv, TeamInv, RemovalInv, EndInv
     DEF Next, SyncStep
<1> QED
  BY <1>2, <1>3, <1>4

\* Only a removal takes a row away.
LEMMA RowsStay ==
    ASSUME IInv, [Next]_vars, NEW t \in Teams, teams[t] # Absent, teams'[t] = Absent
    PROVE  DeleteTeam /\ t \notin run.synced
<1> USE DEF tables
<1>1. teams \in [Teams -> Row \cup {Absent}] /\ Absent \notin Row /\ teams' # teams
  BY TeamsAssumption DEF IInv, TypeOK, Row
<1>2. CASE SaveTeam
  <2>1. PICK u \in run.list : teams' = [teams EXCEPT ![u] =
            [league |-> run.league, season |-> run.season, level |-> run.level]]
    BY <1>2 DEF SaveTeam
  <2>2. [league |-> run.league, season |-> run.season, level |-> run.level] \in Row
    BY <1>2 DEF SaveTeam, IInv, TypeOK, RunState, Row
  <2> QED
    BY <1>1, <2>1, <2>2
<1>3. CASE resolveTeam
  <2>1. PICK u \in rank.left, ok \in Answers : teams' = IF ok THEN [teams EXCEPT ![u] =
            [league |-> rank.league, season |-> rank.season, level |-> FALSE]] ELSE teams
    BY <1>3 DEF resolveTeam
  <2>2. [league |-> rank.league, season |-> rank.season, level |-> FALSE] \in Row
    BY <1>3 DEF resolveTeam, IInv, TypeOK, Row
  <2> QED
    BY <1>1, <2>1, <2>2
<1>4. CASE DeleteTeam
  <2>1. PICK u \in run.old \ run.synced : teams' = [teams EXCEPT ![u] = Absent]
    BY <1>4 DEF DeleteTeam
  <2> QED
    BY <1>1, <1>4, <2>1
<1>5. SaveTeam \/ resolveTeam \/ DeleteTeam
  BY <1>1 DEF vars, Next, MoveTeam, ChangeSquad, NewSeason, Start, StartWithoutClubs,
      SyncStep, FetchSeason, FetchHierarchies, ListLeagues, SaveLeague, Scan, FetchPage,
      FetchRoster, DeleteRoster, BuildLists, Publish, Record, RunFails, Ranking,
      buildLeagueRankingProjection, RankingEnds
<1> QED
  BY <1>2, <1>3, <1>4, <1>5

\* SteadyTeamsStay (teams.ts:171-253) for any leagues, page size, changes and
\* failures: a team keeps its place or moves back while none before it leaves.
THEOREM SteadyTeamsStayCorrect == Spec => SteadyTeamsStay
<1>1. ASSUME IInv, [Next]_vars
      PROVE  \A t \in Registered : run.clean /\ t \in run.steady /\ teams[t] # Absent
                                       => teams'[t] # Absent
  <2> SUFFICES ASSUME NEW t \in Registered, run.clean, t \in run.steady,
                      teams[t] # Absent, teams'[t] = Absent
               PROVE  FALSE
    OBVIOUS
  <2>1. DeleteTeam /\ t \notin run.synced
    BY <1>1, RowsStay DEF Registered
  <2>2. run.pc = "remove"
    BY <2>1 DEF DeleteTeam
  <2> QED
    BY <1>1, <2>1, <2>2 DEF IInv, NoneMissed
<1>2. IInv /\ [Next]_vars => [\A t \in Registered :
          run.clean /\ t \in run.steady /\ teams[t] # Absent => teams'[t] # Absent]_vars
  BY <1>1
<1> QED
  BY InitInv, NextInv, <1>2, PTL DEF Spec, SteadyTeamsStay

-----------------------------------------------------------------------------
(* SquadsAgree.                                                            *)

\* Consumers hold the stored squads of the teams they were told of, the empty one
\* where none is stored.
Agreed ==
    \A c \in RegisteredClubs : \A e \in feed.teams[c] :
        feed.squads[e.team] = Payload(rosters[e.team])

\* The squads built for a club's list are the stored ones, and its list names its
\* own teams, so that the lists of other clubs leave them alone.
ListsBuilt ==
    \A c \in RegisteredClubs \ run.clubs : \A e \in run.lists[c] :
        ClubOf[e.team] = c /\ run.squads[e.team] = Payload(rosters[e.team])

\* No list is built while rosters are still fetched or removed.
SquadsInv ==
    /\ TypeOK
    /\ (run.pc = "idle" /\ run.complete) \/ run.pc = "record" => Agreed
    /\ run.pc \in {"page", "team", "roster", "remove", "deleteRoster"}
          => run.clubs = RegisteredClubs
    /\ run.pc \in {"lists", "publish"} => ListsBuilt
    /\ run.pc = "publish" => run.clubs = {}

\* A listing goes on to a page, a team, the removal or the lists, with the clubs'
\* lists still to be built.
StillToBuild(s) == s.pc \in {"page", "team", "remove", "lists"} /\ s.clubs = RegisteredClubs

LEMMA AfterListingClubs ==
    ASSUME NEW s \in RunState, s.clubs = RegisteredClubs
    PROVE  StillToBuild(AfterListing(s))
  BY DEF AfterListing, StillToBuild, RunState

LEMMA AfterPageClubs ==
    ASSUME NEW s \in RunState, s.clubs = RegisteredClubs
    PROVE  StillToBuild(AfterPage(s))
<1>1. CASE s.more
  <2> DEFINE p == s.page + 1
  <2>1. AfterPage(s) = [s EXCEPT !.pc = "page", !.page = p]
    BY <1>1 DEF AfterPage
  <2> HIDE DEF p
  <2> QED
    BY <2>1 DEF StillToBuild, RunState
<1>2. CASE ~s.more
  <2> DEFINE n == [s EXCEPT !.left = s.left \ {s.league}, !.league = Absent, !.page = 0]
  <2>1. AfterPage(s) = IF n.left # {} THEN [n EXCEPT !.pc = "page"] ELSE AfterListing(n)
    BY <1>2 DEF AfterPage
  <2>2. n \in RunState /\ n.clubs = RegisteredClubs
    BY DEF RunState
  <2>3. StillToBuild([n EXCEPT !.pc = "page"])
    BY <2>2 DEF StillToBuild, RunState
  <2> HIDE DEF n
  <2> QED
    BY <2>1, <2>2, <2>3, AfterListingClubs
<1> QED
  BY <1>1, <1>2

LEMMA AfterTeamClubs ==
    ASSUME NEW s \in RunState, s.clubs = RegisteredClubs
    PROVE  StillToBuild(AfterTeam(s))
<1>1. CASE s.list # {}
  BY <1>1 DEF AfterTeam, StillToBuild, RunState
<1>2. CASE s.list = {}
  BY <1>2, AfterPageClubs DEF AfterTeam
<1> QED
  BY <1>1, <1>2

\* Where the clubs' lists are still to be built, nothing more is claimed.
LEMMA StillToBuildInv ==
    ASSUME TypeOK', StillToBuild(run')
    PROVE  SquadsInv'
  BY DEF SquadsInv, StillToBuild, ListsBuilt

\* A run that has not come to the pages claims nothing.
LEMMA EarlyInv ==
    ASSUME TypeOK', \/ run'.pc \in {"season", "hierarchies", "leagues", "saveLeagues", "scan"}
                    \/ run'.pc = "idle" /\ ~run'.complete
    PROVE  SquadsInv'
  BY DEF SquadsInv

\* Nothing changes while the sync, the rosters and the consumers rest; the history
\* of steady teams is of no matter here.
LEMMA SquadsRest ==
    ASSUME SquadsInv, TypeOK', rosters' = rosters, feed' = feed,
           run' = run \/ \E s \in SUBSET Teams : run' = [run EXCEPT !.steady = s]
    PROVE  SquadsInv'
<1>1. /\ run'.pc = run.pc /\ run'.complete = run.complete /\ run'.clubs = run.clubs
      /\ run'.lists = run.lists /\ run'.squads = run.squads
  <2>1. run \in RunState
    BY DEF SquadsInv, TypeOK
  <2> QED
    BY <2>1 DEF RunState
<1> QED
  BY <1>1 DEF SquadsInv, Agreed, ListsBuilt

LEMMA InitSquads == Init => SquadsInv
<1> SUFFICES ASSUME Init PROVE SquadsInv
  OBVIOUS
<1>1. run.pc = "idle" /\ TypeOK
  BY InitType DEF Init, IdleRun
<1>2. Agreed
  <2> SUFFICES ASSUME NEW c \in RegisteredClubs, NEW e \in feed.teams[c]
               PROVE  feed.squads[e.team] = Payload(rosters[e.team])
    BY DEF Agreed
  <2>1. c \in Clubs /\ feed.squads = rosters
    BY TeamsAssumption DEF Init
  <2>2. feed.teams[c] = {[team |-> t, league |-> sams[t], level |-> TRUE] :
                             t \in {u \in Teams : ClubOf[u] = c /\ teams[u] # Absent}}
    BY <2>1 DEF Init
  <2>3. e.team \in Teams /\ teams[e.team] # Absent
    BY <2>2
  <2>4. rosters[e.team] \in Squads
    BY <2>3 DEF Init
  <2> QED
    BY <2>1, <2>4, TeamsAssumption DEF Payload
<1> QED
  BY <1>1, <1>2 DEF SquadsInv

\* Up to the listing of the leagues' teams.
LEMMA BeginSquads ==
    ASSUME SquadsInv, TypeOK', \/ \E f \in SUBSET fresh : Start(f)
                               \/ FetchSeason
                               \/ FetchHierarchies
                               \/ ListLeagues
                               \/ SaveLeague
                               \/ Scan
    PROVE  SquadsInv'
<1>0. run \in RunState
  BY DEF SquadsInv, TypeOK
<1>1. ASSUME NEW f \in SUBSET fresh, Start(f) PROVE run'.pc = "season"
  BY <1>1 DEF Start, IdleRun
<1>2. CASE FetchSeason
  <2>1. run'.pc = "hierarchies"
    BY <1>0, <1>2 DEF FetchSeason, RunState
  <2> QED
    BY <2>1, EarlyInv
<1>3. CASE FetchHierarchies
  <2>1. run'.pc = "leagues"
    BY <1>0, <1>3 DEF FetchHierarchies, RunState
  <2> QED
    BY <2>1, EarlyInv
<1>4. ASSUME NEW s, s \in RunState, run' = AfterLeagues(s) PROVE SquadsInv'
  <2>1. run'.pc \in {"saveLeagues", "scan"}
    BY <1>4 DEF AfterLeagues, RunState
  <2> QED
    BY <2>1, EarlyInv
<1>5. CASE ListLeagues
  <2>1. PICK found \in SUBSET LeaguesOf(run.season) :
          run' = AfterLeagues([run EXCEPT !.unsaved = found, !.left = found,
                                          !.clean = (found = LeaguesOf(run.season))])
    BY <1>5 DEF ListLeagues
  <2> DEFINE ok == found = LeaguesOf(run.season)
             n  == [run EXCEPT !.unsaved = found, !.left = found, !.clean = ok]
  <2>2. found \in SUBSET Leagues /\ ok \in BOOLEAN
    BY DEF LeaguesOf
  <2>3. run' = AfterLeagues(n)
    BY <2>1
  <2>4. n \in RunState
    <3> HIDE DEF ok
    <3> QED
      BY <1>0, <2>2 DEF RunState
  <2> HIDE DEF n
  <2> QED
    BY <1>4, <2>3, <2>4
<1>6. CASE SaveLeague
  <2>1. PICK l \in run.unsaved : run' = AfterLeagues([run EXCEPT !.unsaved = @ \ {l}])
    BY <1>6 DEF SaveLeague
  <2>2. [run EXCEPT !.unsaved = @ \ {l}] \in RunState
    BY <1>0 DEF RunState
  <2> QED
    BY <1>4, <2>1, <2>2
<1>7. CASE Scan
  <2> DEFINE old == {t \in Teams : teams[t] # Absent} \ fresh
             s == [run EXCEPT !.old = old, !.before = rosters, !.clubs = RegisteredClubs]
  <2>1. run' = IF s.left # {} THEN [s EXCEPT !.pc = "page"] ELSE AfterListing(s)
    BY <1>7 DEF Scan
  <2>2. s \in RunState /\ s.clubs = RegisteredClubs
    <3>1. old \in SUBSET Teams /\ rosters \in [Teams -> Squads \cup {Absent}]
      BY DEF SquadsInv, TypeOK
    <3> HIDE DEF old
    <3> QED
      BY <1>0, <3>1 DEF RunState
  <2>3. StillToBuild([s EXCEPT !.pc = "page"])
    BY <2>2 DEF StillToBuild, RunState
  <2> HIDE DEF s
  <2> QED
    BY <2>1, <2>2, <2>3, AfterListingClubs, StillToBuildInv
<1> QED
  BY <1>1, <1>2, <1>3, <1>5, <1>6, <1>7, EarlyInv

\* The listing of the leagues' teams, and the removal.
LEMMA ListingSquads ==
    ASSUME SquadsInv, TypeOK', \/ FetchPage
                               \/ SaveTeam
                               \/ FetchRoster
                               \/ DeleteTeam
                               \/ DeleteRoster
    PROVE  SquadsInv'
<1>0. run \in RunState
  BY DEF SquadsInv, TypeOK
<1>1. run.clubs = RegisteredClubs
  BY DEF SquadsInv, FetchPage, SaveTeam, FetchRoster, DeleteTeam, DeleteRoster
<1>2. CASE FetchPage
  <2>1. PICK l \in IF run.league = Absent THEN run.left ELSE {run.league}, ok \in Answers :
          LET ofLeague == {t \in Teams : sams[t] = l}
              onPage   == {t \in ofLeague \cap Registered : OnPage(run.page, t)}
          IN  run' = AfterTeam([run EXCEPT
                    !.league = l,
                    !.list   = IF ok THEN onPage ELSE {},
                    !.more   = ~ok \/ \E t \in ofLeague : ~BeforePage(run.page + 1, t),
                    !.clean  = @ /\ ok])
    BY <1>2 DEF FetchPage
  <2> DEFINE ofLeague == {t \in Teams : sams[t] = l}
             list  == IF ok THEN {t \in ofLeague \cap Registered : OnPage(run.page, t)} ELSE {}
             more  == ~ok \/ \E t \in ofLeague : ~BeforePage(run.page + 1, t)
             clean == run.clean /\ ok
             n     == [run EXCEPT !.league = l, !.list = list, !.more = more, !.clean = clean]
  <2>2. l \in Leagues \cup {Absent} /\ list \in SUBSET Teams
        /\ more \in BOOLEAN /\ clean \in BOOLEAN
    BY <1>0 DEF RunState, Answers
  <2>3. run' = AfterTeam(n)
    BY <2>1
  <2>4. n \in RunState /\ n.clubs = RegisteredClubs
    <3> HIDE DEF list, more, clean
    <3> QED
      BY <1>0, <1>1, <2>2 DEF RunState
  <2> HIDE DEF n
  <2> QED
    BY <2>3, <2>4, AfterTeamClubs, StillToBuildInv
<1>3. CASE SaveTeam
  <2>1. run'.pc = "roster" /\ run'.clubs = run.clubs
    BY <1>0, <1>3 DEF SaveTeam, RunState
  <2> QED
    BY <1>1, <2>1 DEF SquadsInv
<1>4. CASE FetchRoster
  <2>1. PICK ok \in Answers :
          run' = AfterTeam([run EXCEPT !.team = Absent,
              !.changed = IF ok /\ squads[run.team] # run.before[run.team]
                          THEN @ \cup {run.team} ELSE @])
    BY <1>4 DEF FetchRoster
  <2> DEFINE changed == IF ok /\ squads[run.team] # run.before[run.team]
                        THEN run.changed \cup {run.team} ELSE run.changed
             n == [run EXCEPT !.team = Absent, !.changed = changed]
  <2>2. changed \in SUBSET Teams
    <3>1. run.team \in Teams
      BY <1>4 DEF FetchRoster, SquadsInv, TypeOK
    <3> QED
      BY <1>0, <3>1 DEF RunState
  <2>3. run' = AfterTeam(n)
    BY <2>1
  <2>4. n \in RunState /\ n.clubs = RegisteredClubs
    <3> HIDE DEF changed
    <3> QED
      BY <1>0, <1>1, <2>2 DEF RunState
  <2> HIDE DEF n
  <2> QED
    BY <2>3, <2>4, AfterTeamClubs, StillToBuildInv
<1>5. CASE DeleteTeam
  <2>1. run'.pc = "deleteRoster" /\ run'.clubs = run.clubs
    BY <1>0, <1>5 DEF DeleteTeam, RunState
  <2> QED
    BY <1>1, <2>1 DEF SquadsInv
<1>6. CASE DeleteRoster
  <2>1. run' = AfterListing([run EXCEPT !.team = Absent])
    BY <1>6 DEF DeleteRoster
  <2>2. [run EXCEPT !.team = Absent] \in RunState
        /\ [run EXCEPT !.team = Absent].clubs = RegisteredClubs
    BY <1>0, <1>1 DEF RunState
  <2> QED
    BY <2>1, <2>2, AfterListingClubs, StillToBuildInv
<1> QED
  BY <1>2, <1>3, <1>4, <1>5, <1>6

\* A club's list is built beside those of the clubs before, and rosters rest.
LEMMA BuildSquads ==
    ASSUME SquadsInv, TypeOK', BuildLists
    PROVE  SquadsInv'
<1>0. run \in RunState /\ rosters' = rosters /\ ListsBuilt /\ run.clubs \subseteq RegisteredClubs
  BY DEF SquadsInv, TypeOK, RunState, BuildLists, tables
<1> DEFINE list(c) == {[team |-> t, league |-> teams[t].league, level |-> teams[t].level] :
                           t \in ClubTeams(c)}
<1>1. PICK c \in run.clubs :
        run' = [run EXCEPT
            !.pc     = IF run.clubs = {c} THEN "publish" ELSE "lists",
            !.clubs  = @ \ {c},
            !.lists  = [@ EXCEPT ![c] = list(c)],
            !.squads = ClubSquads(c)]
  BY DEF BuildLists
<1>2. /\ run'.clubs = run.clubs \ {c} /\ run'.squads = ClubSquads(c)
      /\ run'.lists = [run.lists EXCEPT ![c] = list(c)]
      /\ run'.pc = IF run.clubs = {c} THEN "publish" ELSE "lists"
  <2> HIDE DEF list
  <2> QED
    BY <1>0, <1>1 DEF RunState
<1>3. c \in Clubs /\ c \in RegisteredClubs /\ run.lists \in [Clubs -> SUBSET Entry]
  BY <1>0, TeamsAssumption DEF RunState
<1>4. ASSUME NEW t \in Teams
      PROVE  ClubSquads(c)[t] = IF t \in ClubTeams(c) THEN Payload(rosters[t]) ELSE run.squads[t]
  BY DEF ClubSquads
<1>5. ListsBuilt'
  <2> SUFFICES ASSUME NEW d \in RegisteredClubs \ (run.clubs \ {c}), NEW e \in run'.lists[d]
               PROVE  ClubOf[e.team] = d /\ run'.squads[e.team] = Payload(rosters[e.team])
    BY <1>0, <1>2 DEF ListsBuilt, Payload
  <2>1. d \in Clubs
    BY TeamsAssumption
  <2>2. CASE d = c
    <3>1. e \in list(c)
      BY <1>2, <1>3, <2>2
    <3>2. e.team \in ClubTeams(c)
      BY <3>1
    <3>3. e.team \in Teams /\ ClubOf[e.team] = c
      BY <3>2 DEF ClubTeams
    <3> QED
      BY <1>2, <1>4, <2>2, <3>2, <3>3
  <2>3. CASE d # c
    <3>1. e \in run.lists[d] /\ d \in RegisteredClubs \ run.clubs
      BY <1>2, <1>3, <2>1, <2>3
    <3>2. e.team \in Teams
      BY <1>3, <2>1, <3>1 DEF Entry
    <3>3. ClubOf[e.team] = d /\ run.squads[e.team] = Payload(rosters[e.team])
      BY <1>0, <3>1 DEF ListsBuilt
    <3>4. e.team \notin ClubTeams(c)
      BY <2>3, <3>3 DEF ClubTeams
    <3> QED
      BY <1>2, <1>4, <3>2, <3>3, <3>4
  <2> QED
    BY <2>2, <2>3
<1>6. run'.pc \in {"lists", "publish"} /\ (run'.pc = "publish" => run'.clubs = {})
  BY <1>2
<1> QED
  BY <1>5, <1>6 DEF SquadsInv

\* All lists go out, and changed rosters after them, which are the stored ones, too.
LEMMA PublishSquads ==
    ASSUME SquadsInv, TypeOK', Publish
    PROVE  SquadsInv'
<1>0. /\ run \in RunState /\ rosters' = rosters /\ ListsBuilt /\ run.clubs = {}
      /\ feed' = Delivered(RegisteredClubs, RegisteredClubs, ChangedRosters)
  BY DEF SquadsInv, TypeOK, Publish, tables
<1>1. run'.pc = "record"
  BY <1>0 DEF Publish, RunState
<1>2. Agreed'
  <2> SUFFICES ASSUME NEW c \in RegisteredClubs, NEW e \in feed'.teams[c]
               PROVE  feed'.squads[e.team] = Payload(rosters[e.team])
    BY <1>0 DEF Agreed, Payload
  <2>1. c \in Clubs /\ run.lists \in [Clubs -> SUBSET Entry]
    BY <1>0, TeamsAssumption DEF RunState
  <2>2. feed'.teams[c] = run.lists[c]
    BY <1>0, <2>1 DEF Delivered
  <2>3. e.team \in Teams
    BY <2>1, <2>2 DEF Entry
  <2>4. ClubOf[e.team] = c /\ run.squads[e.team] = Payload(rosters[e.team])
    BY <1>0, <2>2 DEF ListsBuilt
  <2>5. feed'.squads[e.team] =
            IF e.team \in ChangedRosters THEN Payload(rosters[e.team])
            ELSE IF ClubOf[e.team] \in RegisteredClubs THEN run.squads[e.team]
            ELSE feed.squads[e.team]
    BY <1>0, <2>3 DEF Delivered
  <2> QED
    BY <2>4, <2>5
<1> QED
  BY <1>1, <1>2 DEF SquadsInv

LEMMA RecordSquads ==
    ASSUME SquadsInv, TypeOK', Record
    PROVE  SquadsInv'
<1>1. Agreed' /\ run'.pc = "idle"
  BY DEF SquadsInv, Agreed, Payload, Record, tables, IdleRun
<1> QED
  BY <1>1 DEF SquadsInv

LEMMA NextSquads == SquadsInv /\ [Next]_vars => SquadsInv'
<1> SUFFICES ASSUME SquadsInv, [Next]_vars PROVE SquadsInv'
  OBVIOUS
<1>1. TypeOK'
  BY NextType DEF SquadsInv
<1>2. CASE UNCHANGED vars
  BY <1>1, <1>2, SquadsRest DEF vars
<1>3. CASE Ranking \/ StartWithoutClubs
  BY <1>1, <1>3, SquadsRest
     DEF Ranking, buildLeagueRankingProjection, resolveTeam, RankingEnds, StartWithoutClubs, tables
<1>4. ASSUME NEW t \in Teams, MoveTeam(t) \/ ChangeSquad(t) PROVE SquadsInv'
  <2> DEFINE moved == {t} \cup IF sams[t] = run.league THEN After(t) ELSE {}
  <2>1. run.steady \ moved \in SUBSET Teams
    BY DEF SquadsInv, TypeOK, RunState
  <2>2. rosters' = rosters /\ feed' = feed
        /\ (run' = run \/ run' = [run EXCEPT !.steady = run.steady \ moved])
    BY <1>4 DEF MoveTeam, ChangeSquad, tables
  <2> QED
    BY <1>1, <2>1, <2>2, SquadsRest
<1>5. CASE NewSeason
  BY <1>1, <1>5, SquadsRest DEF NewSeason, tables
<1>6. CASE RunFails
  <2>1. run'.pc = "idle" /\ ~run'.complete
    BY <1>6 DEF RunFails, IdleRun
  <2> QED
    BY <1>1, <2>1, EarlyInv
<1>7. CASE SyncStep \/ \E f \in SUBSET fresh : Start(f)
  BY <1>1, <1>7, BeginSquads, ListingSquads, BuildSquads, PublishSquads, RecordSquads
     DEF SyncStep
<1> QED
  BY <1>2, <1>3, <1>4, <1>5, <1>6, <1>7 DEF Next

\* When a sync has come to its end, consumers hold the stored squads of all teams
\* they were told of (teams.ts:324-378), whatever failed or was removed before.
THEOREM SquadsStayAgreed == Spec => []SquadsAgree
<1>1. SquadsInv => SquadsAgree
  BY DEF SquadsInv, SquadsAgree, Agreed, Payload
<1> QED
  BY InitSquads, NextSquads, <1>1, PTL DEF Spec

=============================================================================
