----------------------------- MODULE TeamsSync -----------------------------
(***************************************************************************)
(* The nightly teams sync (src/sync/teams.ts, lambda/teams-sync.ts), and   *)
(* beside it the league ranking projection of a match refresh as far as it *)
(* stores teams (src/projections/league-ranking.ts).                       *)
(*                                                                         *)
(* The sync lists the leagues of SAMS's current season and their teams,    *)
(* stores the teams of registered clubs with their rosters, removes what   *)
(* it did not see, and sends each club its teams and rosters.  Errors of   *)
(* the listings are not looked at.  A projection that runs meanwhile       *)
(* stores each team of a table that it did not find when it began.         *)
(*                                                                         *)
(* One sync runs at a time: the rule fires once a night, and an invocation *)
(* that failed is over before it is run again.                             *)
(***************************************************************************)
EXTENDS Naturals, FiniteSets

CONSTANTS
    Teams,            \* teams SAMS knows
    Clubs,            \* their clubs
    Leagues,          \* leagues SAMS knows, of all seasons
    Seasons,          \* seasons SAMS knows
    Empty,            \* the squad without players, which consumers may see
    Squads,           \* squads a roster request may answer with
    ClubOf,           \* [Teams -> Clubs]
    SeasonOf,         \* [Leagues -> Seasons]
    OrderOf,          \* [Teams -> Nat]: the order in which SAMS lists the teams of a league
    PageSize,         \* teams on a page of such a list
    PlacesOf,         \* [Teams -> leagues it may play in, or Absent]
    SquadsOf,         \* [Teams -> squads it may have]
    RegisteredClubs,  \* registered clubs, all of them in the index
    Absent,           \* no row, no league
    MaxChanges,       \* bound: changes in SAMS
    MaxFailures,      \* bound: failed requests and runs
    MaxRankings       \* bound: ranking projections that find a team missing

ASSUME TeamsAssumption ==
    /\ ClubOf \in [Teams -> Clubs]
    /\ SeasonOf \in [Leagues -> Seasons]
    /\ IsFiniteSet(Teams)
    /\ OrderOf \in [Teams -> Nat]
    /\ \A t, u \in Teams : OrderOf[t] = OrderOf[u] => t = u
    /\ PageSize \in Nat \ {0}
    /\ PlacesOf \in [Teams -> (SUBSET (Leagues \cup {Absent})) \ {{}}]
    /\ SquadsOf \in [Teams -> (SUBSET Squads) \ {{}}]
    /\ RegisteredClubs \subseteq Clubs
    /\ RegisteredClubs # {}
    /\ Absent \notin Leagues \cup Teams \cup Seasons \cup Squads \cup {Empty}
    /\ Absent \notin [league : Leagues, season : Seasons, level : BOOLEAN]
    /\ MaxChanges \in Nat
    /\ MaxFailures \in Nat
    /\ MaxRankings \in Nat

VARIABLES
    sams,      \* [Teams -> league it plays in, or Absent]: what SAMS would answer
    squads,    \* [Teams -> squad]: what SAMS would answer
    current,   \* the season SAMS marks as current
    seasons,   \* the seasons table, all of whose rows are marked as current
    leagues,   \* the leagues table
    teams,     \* [Teams -> row or Absent]: the teams table
    fresh,     \* teams whose row was written less than an hour ago
    rosters,   \* [Teams -> squad or Absent]: the rosters table
    status,    \* meta entry of job teams
    feed,      \* what consumers hold: teams by club, squads by team
    run,       \* local state of the sync
    rank,      \* local state of a ranking projection
    changes,   \* changes in SAMS so far
    failures,  \* failures so far
    rankings   \* ranking projections so far

vars == <<sams, squads, current, seasons, leagues, teams, fresh, rosters, status,
          feed, run, rank, changes, failures, rankings>>
world == <<sams, squads, current, changes>>
tables == <<seasons, leagues, teams, fresh, rosters>>
ranking == <<rank, rankings>>

Row == [league : Leagues, season : Seasons, level : BOOLEAN]

\* What a list of teams says of one of them; level is leagueHierarchyLevel.
Entry == [team : Teams, league : Leagues, level : BOOLEAN]

\* A team without a stored roster is sent with empty lists.
Payload(squad) == IF squad = Absent THEN Empty ELSE squad

Registered == {t \in Teams : ClubOf[t] \in RegisteredClubs}

LeaguesOf(season) == {l \in Leagues : SeasonOf[l] = season}

\* SAMS lists the team in a league of the current season.
Listed(t) == sams[t] # Absent /\ SeasonOf[sams[t]] = current

\* How many teams SAMS lists before this one in its league.
Offset(t) == Cardinality({u \in Teams : sams[u] = sams[t] /\ OrderOf[u] < OrderOf[t]})

\* A page is asked for by its number and the page size: what is on it is what
\* stands there when SAMS answers.
BeforePage(page, t) == Offset(t) < page * PageSize
OnPage(page, t) == ~BeforePage(page, t) /\ BeforePage(page + 1, t)

IdleRun ==
    [pc       |-> "idle",
     complete |-> FALSE,      \* history: the last run came to its end
     clean    |-> TRUE,       \* history: no listing of this run has failed
     steady   |-> {},         \* history: teams listed in one league since it began, and
                              \* not moved forward in its list while that was read
     season   |-> Absent,     \* seasonUuid
     level    |-> FALSE,      \* hierarchyLevelByUuid has the leagues' levels
     unsaved  |-> {},         \* leagues found and not stored yet
     left     |-> {},         \* of allLeagues, the ones whose teams are not listed yet
     league   |-> Absent,     \* the league whose teams are being listed
     page     |-> 0,          \* teamPage
     more     |-> FALSE,      \* hasMoreTeams
     list     |-> {},         \* teams of registered clubs on the page, not stored yet
     team     |-> Absent,     \* the team whose roster comes next
     old      |-> {},         \* previousTeams written more than an hour ago
     before   |-> [t \in Teams |-> Absent],   \* previousRosters
     synced   |-> {},         \* syncedTeamUuids
     changed  |-> {},         \* changedRosterTeamUuids
     clubs    |-> {},         \* clubs whose lists are not built yet
     lists    |-> [c \in Clubs |-> {}],       \* clubSeasonTeamsUpdated, by club
     squads   |-> [t \in Teams |-> Absent]]   \* clubSeasonRostersUpdated, by team

IdleRank == [pc |-> "idle", league |-> Absent, season |-> Absent, left |-> {}]

\* Requests succeed or, within the bound, fail.
Answers == IF failures < MaxFailures THEN BOOLEAN ELSE {TRUE}

Count(ok) == failures' = IF ok THEN failures ELSE failures + 1

-----------------------------------------------------------------------------
(* SAMS.                                                                   *)

\* The teams that a league's list shows after this one, and which move forward by
\* one place when it leaves.
After(t) == {u \in Teams : sams[u] = sams[t] /\ OrderOf[u] > OrderOf[t]}

MoveTeam(t) ==
    /\ changes < MaxChanges
    /\ \E l \in PlacesOf[t] \ {sams[t]} : sams' = [sams EXCEPT ![t] = l]
    /\ run' = [run EXCEPT !.steady =
                    @ \ ({t} \cup IF sams[t] = run.league THEN After(t) ELSE {})]
    /\ changes' = changes + 1
    /\ UNCHANGED <<squads, current, tables, status, feed, ranking, failures>>

ChangeSquad(t) ==
    /\ changes < MaxChanges
    /\ \E q \in SquadsOf[t] \ {squads[t]} : squads' = [squads EXCEPT ![t] = q]
    /\ changes' = changes + 1
    /\ UNCHANGED <<sams, current, tables, status, feed, run, ranking, failures>>

NewSeason ==
    /\ changes < MaxChanges
    /\ \E s \in Seasons \ {current} : current' = s
    /\ run' = [run EXCEPT !.steady = {}]
    /\ changes' = changes + 1
    /\ UNCHANGED <<sams, squads, tables, status, feed, ranking, failures>>

-----------------------------------------------------------------------------
(* The sync.                                                               *)

\* By the rule, by an operator, or again after a failure: of the rows that were
\* fresh any may have grown old in the meantime.
Start(stillFresh) ==
    /\ run.pc = "idle"
    /\ fresh' = stillFresh
    /\ run' = [IdleRun EXCEPT !.pc = "season", !.steady = {t \in Teams : Listed(t)}]
    /\ UNCHANGED <<world, seasons, leagues, teams, rosters, status, feed, ranking, failures>>

\* A list of registered clubs that cannot be read counts as an empty one, and
\* there is nothing to do.
StartWithoutClubs ==
    /\ run.pc = "idle"
    /\ failures < MaxFailures
    /\ Count(FALSE)
    /\ status' = "success"
    /\ UNCHANGED <<world, tables, feed, run, ranking>>

\* The season row is stored as current; older rows keep their mark.
FetchSeason ==
    /\ run.pc = "season"
    /\ run' = [run EXCEPT !.pc = "hierarchies", !.season = current]
    /\ seasons' = seasons \cup {current}
    /\ UNCHANGED <<world, leagues, teams, fresh, rosters, status, feed, ranking, failures>>

\* A page that fails leaves its levels out.
FetchHierarchies ==
    /\ run.pc = "hierarchies"
    /\ \E ok \in Answers :
        /\ run' = [run EXCEPT !.pc = "leagues", !.level = ok]
        /\ Count(ok)
    /\ UNCHANGED <<world, tables, status, feed, ranking>>

AfterLeagues(s) == [s EXCEPT !.pc = IF s.unsaved # {} THEN "saveLeagues" ELSE "scan"]

\* A page that fails leaves its leagues out.
ListLeagues ==
    /\ run.pc = "leagues"
    /\ \E found \in SUBSET LeaguesOf(run.season) :
        LET ok == found = LeaguesOf(run.season)
        IN  /\ ok \in Answers
            /\ run' = AfterLeagues([run EXCEPT !.unsaved = found, !.left = found,
                                               !.clean = ok])
            /\ Count(ok)
    /\ UNCHANGED <<world, tables, status, feed, ranking>>

SaveLeague ==
    /\ run.pc = "saveLeagues"
    /\ \E l \in run.unsaved :
        /\ leagues' = leagues \cup {l}
        /\ run' = AfterLeagues([run EXCEPT !.unsaved = @ \ {l}])
    /\ UNCHANGED <<world, seasons, teams, fresh, rosters, status, feed, ranking, failures>>

RemovesNothing(s) == [s EXCEPT !.pc = "lists"]

\* What was stored and is an hour old, and was not listed, has gone.
AfterListing(s) ==
    [s EXCEPT !.pc = IF s.old \subseteq s.synced THEN "lists" ELSE "remove"]

OnlyFirstPage(s) ==
    LET t == [s EXCEPT !.left = @ \ {s.league}, !.league = Absent, !.page = 0]
    IN  IF t.left # {} THEN [t EXCEPT !.pc = "page"] ELSE AfterListing(t)

\* What follows the last team of a page: a page, a league, or the removal.
AfterPage(s) ==
    IF s.more THEN [s EXCEPT !.pc = "page", !.page = @ + 1]
    ELSE LET t == [s EXCEPT !.left = @ \ {s.league}, !.league = Absent, !.page = 0]
         IN  IF t.left # {} THEN [t EXCEPT !.pc = "page"] ELSE AfterListing(t)

ForgetsLeague(s) ==
    IF s.list # {} THEN [s EXCEPT !.pc = "team", !.league = Absent] ELSE AfterPage(s)

AfterTeam(s) == IF s.list # {} THEN [s EXCEPT !.pc = "team"] ELSE AfterPage(s)

\* The rows to compare with are read after the leagues are stored.
Scan ==
    /\ run.pc = "scan"
    /\ LET s == [run EXCEPT !.old    = {t \in Teams : teams[t] # Absent} \ fresh,
                            !.before = rosters,
                            !.clubs  = RegisteredClubs]
       IN  run' = IF s.left # {} THEN [s EXCEPT !.pc = "page"] ELSE AfterListing(s)
    /\ UNCHANGED <<world, tables, status, feed, ranking, failures>>

\* A page that fails has no teams and is not the last one.  Between two pages the
\* list may change: a team then stands on a page that was read before it got there.
FetchPage ==
    /\ run.pc = "page"
    /\ \E l \in IF run.league = Absent THEN run.left ELSE {run.league}, ok \in Answers :
        LET ofLeague == {t \in Teams : sams[t] = l}
            onPage   == {t \in ofLeague \cap Registered : OnPage(run.page, t)}
        IN  /\ run' = AfterTeam([run EXCEPT
                  !.league = l,
                  !.list   = IF ok THEN onPage ELSE {},
                  !.more   = ~ok \/ \E t \in ofLeague : ~BeforePage(run.page + 1, t),
                  !.clean  = @ /\ ok])
            /\ Count(ok)
    /\ UNCHANGED <<world, tables, status, feed, ranking>>

SaveTeam ==
    /\ run.pc = "team"
    /\ \E t \in run.list :
        /\ teams' = [teams EXCEPT ![t] =
                [league |-> run.league, season |-> run.season, level |-> run.level]]
        /\ fresh' = fresh \cup {t}
        /\ run' = [run EXCEPT !.pc = "roster", !.team = t, !.list = @ \ {t},
                              !.synced = @ \cup {t}]
    /\ UNCHANGED <<world, seasons, leagues, rosters, status, feed, ranking, failures>>

\* Neither a 404 nor another error touches the roster.
FetchRoster ==
    /\ run.pc = "roster"
    /\ \E ok \in Answers :
        LET t == run.team
        IN  /\ rosters' = IF ok THEN [rosters EXCEPT ![t] = squads[t]] ELSE rosters
            /\ run' = AfterTeam([run EXCEPT !.team = Absent,
                  !.changed = IF ok /\ squads[t] # run.before[t] THEN @ \cup {t} ELSE @])
            /\ Count(ok)
    /\ UNCHANGED <<world, seasons, leagues, teams, fresh, status, feed, ranking>>

DeleteTeam ==
    /\ run.pc = "remove"
    /\ \E t \in run.old \ run.synced :
        /\ teams' = [teams EXCEPT ![t] = Absent]
        /\ fresh' = fresh \ {t}
        /\ run' = [run EXCEPT !.pc = "deleteRoster", !.team = t, !.old = @ \ {t},
              !.changed = IF run.before[t] # Absent THEN @ \cup {t} ELSE @]
    /\ UNCHANGED <<world, seasons, leagues, rosters, status, feed, ranking, failures>>

DeleteRoster ==
    /\ run.pc = "deleteRoster"
    /\ rosters' = [rosters EXCEPT ![run.team] = Absent]
    /\ run' = AfterListing([run EXCEPT !.team = Absent])
    /\ UNCHANGED <<world, seasons, leagues, teams, fresh, status, feed, ranking, failures>>

\* The club's stored teams of the season.
ClubTeams(c) == {t \in Teams : ClubOf[t] = c /\ teams[t] # Absent /\ teams[t].season = run.season}

SquadsAsSent(c) == feed.squads

\* Its stored squads, beside those of the clubs before.
ClubSquads(c) == [t \in Teams |-> IF t \in ClubTeams(c) THEN Payload(rosters[t]) ELSE run.squads[t]]

BuildLists ==
    /\ run.pc = "lists"
    /\ \E c \in run.clubs :
        run' = [run EXCEPT
            !.pc     = IF run.clubs = {c} THEN "publish" ELSE "lists",
            !.clubs  = @ \ {c},
            !.lists  = [@ EXCEPT ![c] =
                {[team |-> t, league |-> teams[t].league, level |-> teams[t].level] :
                    t \in ClubTeams(c)}],
            !.squads = ClubSquads(c)]
    /\ UNCHANGED <<world, tables, status, feed, ranking, failures>>

\* Consumers after the teams lists of clubs ts, the roster lists of clubs rs and
\* after them the changed rosters of teams cs have gone out.
Delivered(ts, rs, cs) ==
    [teams  |-> [c \in Clubs |-> IF c \in ts THEN run.lists[c] ELSE feed.teams[c]],
     squads |-> [t \in Teams |->
        IF t \in cs THEN Payload(rosters[t])
        ELSE IF ClubOf[t] \in rs THEN run.squads[t] ELSE feed.squads[t]]]

\* Only changes of registered clubs' teams are sent.
ChangedRosters == run.changed \cap Registered

Publish ==
    /\ run.pc = "publish"
    /\ feed' = Delivered(RegisteredClubs, RegisteredClubs, ChangedRosters)
    /\ run' = [run EXCEPT !.pc = "record"]
    /\ UNCHANGED <<world, tables, status, ranking, failures>>

Record ==
    /\ run.pc = "record"
    /\ status' = "success"
    /\ run' = [IdleRun EXCEPT !.complete = TRUE]
    /\ UNCHANGED <<world, tables, feed, ranking, failures>>

\* An error at any await, or the time limit, which leaves the meta entry as it
\* is.  Lambda's retry is a new start.
RunFails ==
    /\ run.pc # "idle"
    /\ failures < MaxFailures
    /\ Count(FALSE)
    /\ status' \in {status, "failure"}
    /\ \E ts, rs \in SUBSET RegisteredClubs, cs \in SUBSET ChangedRosters :
        /\ ts \cup rs \cup cs = {} \/ run.pc = "publish"
        /\ feed' = Delivered(ts, rs, cs)
    /\ run' = IdleRun
    /\ UNCHANGED <<world, tables, ranking>>

-----------------------------------------------------------------------------
(* A ranking projection.                                                   *)

\* The tables are read, and which teams of the league are not in them.
buildLeagueRankingProjection ==
    /\ rank.pc = "idle"
    /\ rankings < MaxRankings
    /\ rankings' = rankings + 1
    /\ \E l \in Leagues, s \in seasons :
        LET unknown == {t \in Teams : sams[t] = l /\ teams[t] = Absent}
        IN  /\ unknown # {}
            /\ rank' = [pc |-> "resolve", league |-> l, season |-> s, left |-> unknown]
    /\ UNCHANGED <<world, tables, status, feed, run, failures>>

\* A team is stored as it was not found then, without a level.
resolveTeam ==
    /\ rank.pc = "resolve"
    /\ \E t \in rank.left, ok \in Answers :
        /\ teams' = IF ok THEN [teams EXCEPT ![t] =
                [league |-> rank.league, season |-> rank.season, level |-> FALSE]] ELSE teams
        /\ fresh' = IF ok THEN fresh \cup {t} ELSE fresh
        /\ rank' = IF rank.left = {t} THEN IdleRank ELSE [rank EXCEPT !.left = @ \ {t}]
        /\ Count(ok)
    /\ UNCHANGED <<world, seasons, leagues, rosters, status, feed, run, rankings>>

\* The match refresh ends early.
RankingEnds ==
    /\ rank.pc = "resolve"
    /\ rank' = IdleRank
    /\ UNCHANGED <<world, tables, status, feed, run, failures, rankings>>

-----------------------------------------------------------------------------
Init ==
    /\ sams \in {f \in [Teams -> Leagues \cup {Absent}] : \A t \in Teams : f[t] \in PlacesOf[t]}
    /\ squads \in {f \in [Teams -> Squads] : \A t \in Teams : f[t] \in SquadsOf[t]}
    /\ current \in Seasons
    /\ seasons = {current}
    /\ leagues = LeaguesOf(current)
    /\ teams = [t \in Teams |->
          IF t \in Registered /\ Listed(t)
          THEN [league |-> sams[t], season |-> current, level |-> TRUE] ELSE Absent]
    /\ fresh = {}
    /\ rosters = [t \in Teams |-> IF teams[t] # Absent THEN squads[t] ELSE Absent]
    /\ status = "success"
    /\ feed = [teams  |-> [c \in Clubs |->
                   {[team |-> t, league |-> sams[t], level |-> TRUE] :
                       t \in {u \in Teams : ClubOf[u] = c /\ teams[u] # Absent}}],
               squads |-> rosters]
    /\ run = [IdleRun EXCEPT !.complete = TRUE]
    /\ rank = IdleRank
    /\ changes = 0
    /\ failures = 0
    /\ rankings = 0

SyncStep ==
    \/ FetchSeason
    \/ FetchHierarchies
    \/ ListLeagues
    \/ SaveLeague
    \/ Scan
    \/ FetchPage
    \/ SaveTeam
    \/ FetchRoster
    \/ DeleteTeam
    \/ DeleteRoster
    \/ BuildLists
    \/ Publish
    \/ Record

Ranking ==
    \/ buildLeagueRankingProjection
    \/ resolveTeam
    \/ RankingEnds

Next ==
    \/ \E t \in Teams : MoveTeam(t) \/ ChangeSquad(t)
    \/ NewSeason
    \/ \E f \in SUBSET fresh : Start(f)
    \/ StartWithoutClubs
    \/ SyncStep
    \/ RunFails
    \/ Ranking

Spec == Init /\ [][Next]_vars

\* The rule fires every night, often when no row was written in the hour before,
\* and a run goes on until it returns.
Fairness ==
    /\ SF_vars(Start({}))
    /\ WF_vars(SyncStep)

FairSpec == Spec /\ Fairness

-----------------------------------------------------------------------------
(* Properties.                                                             *)

RunState ==
    [pc       : {"idle", "season", "hierarchies", "leagues", "saveLeagues", "scan",
                 "page", "team", "roster", "remove", "deleteRoster", "lists",
                 "publish", "record"},
     complete : BOOLEAN,
     clean    : BOOLEAN,
     steady   : SUBSET Teams,
     season   : Seasons \cup {Absent},
     level    : BOOLEAN,
     unsaved  : SUBSET Leagues,
     left     : SUBSET Leagues,
     league   : Leagues \cup {Absent},
     page     : Nat,
     more     : BOOLEAN,
     list     : SUBSET Teams,
     team     : Teams \cup {Absent},
     old      : SUBSET Teams,
     before   : [Teams -> Squads \cup {Absent}],
     synced   : SUBSET Teams,
     changed  : SUBSET Teams,
     clubs    : SUBSET RegisteredClubs,
     lists    : [Clubs -> SUBSET Entry],
     squads   : [Teams -> Squads \cup {Empty, Absent}]]

RankState ==
    [pc     : {"idle", "resolve"},
     league : Leagues \cup {Absent},
     season : Seasons \cup {Absent},
     left   : SUBSET Teams]

\* Every variable has its type; a sync knows its season, its league and its
\* team where it uses them, and so does a ranking projection.
TypeOK ==
    /\ sams \in [Teams -> Leagues \cup {Absent}]
    /\ squads \in [Teams -> Squads]
    /\ current \in Seasons
    /\ seasons \subseteq Seasons
    /\ leagues \subseteq Leagues
    /\ teams \in [Teams -> Row \cup {Absent}]
    /\ fresh \subseteq Teams
    /\ rosters \in [Teams -> Squads \cup {Absent}]
    /\ status \in {"success", "failure"}
    /\ feed \in [teams : [Clubs -> SUBSET Entry], squads : [Teams -> Squads \cup {Empty, Absent}]]
    /\ run \in RunState
    /\ run.pc \notin {"idle", "season"} => run.season \in Seasons
    /\ run.pc \in {"team", "roster"} => run.league \in Leagues
    /\ run.pc \in {"roster", "deleteRoster"} => run.team \in Teams
    /\ rank \in RankState
    /\ rank.pc = "resolve" => rank.league \in Leagues /\ rank.season \in Seasons
    /\ changes \in 0..MaxChanges
    /\ failures \in 0..MaxFailures
    /\ rankings \in 0..MaxRankings

\* A run whose listings all succeeded removes no team of a registered club that
\* SAMS has listed in one league ever since the run began, unless a team listed
\* before it left that league while its pages were being read: the pages of all
\* leagues, gone through while rows are written and fetched and teams come and go,
\* leave no other out (teams.ts:171-253).  The exception is the code's: it asks for
\* pages by number, so that the teams after the one that left move forward, the
\* first of them onto a page already read, and what no page showed is removed
\* (teams.ts:178-181, 252-271).
SteadyTeamsStay ==
    [][\A t \in Registered :
          run.clean /\ t \in run.steady /\ teams[t] # Absent => teams'[t] # Absent]_vars

\* When the last run has come to its end, consumers hold the stored squad of each
\* team they were told of that has one, and no player of a team that has none,
\* whatever earlier runs stored, removed and did not send (teams.ts:324-378).
\* Whether a team without a stored squad is sent with empty lists or left out is
\* no part of it: OmittedWithoutRoster is about that.
SquadsAgree ==
    run.pc = "idle" /\ run.complete =>
        \A c \in RegisteredClubs : \A e \in feed.teams[c] :
            /\ rosters[e.team] # Absent => feed.squads[e.team] = rosters[e.team]
            /\ rosters[e.team] = Absent => feed.squads[e.team] \in {Empty, Absent}

\* "Teams without a stored roster are omitted from `rosters`"
\* (docs/consumers/events.md:139).  The code sends them with empty lists
\* (team-roster.ts:85-97).
OmittedWithoutRoster ==
    run.pc = "publish" => \A t \in Teams : run.squads[t] # Absent => rosters[t] # Absent

\* Once SAMS rests, each registered club's consumers have its teams of the
\* current season, with league, level and squad, whatever failed, was removed or
\* was stored by ranking projections before.
Served(c) ==
    /\ feed.teams[c] = {[team |-> t, league |-> sams[t], level |-> TRUE] :
                            t \in {u \in Teams : ClubOf[u] = c /\ Listed(u)}}
    /\ \A e \in feed.teams[c] : feed.squads[e.team] = squads[e.team]

EventuallyServed == <>[](\A c \in RegisteredClubs : Served(c))

=============================================================================
