---------------------------- MODULE MatchRefresh ----------------------------
(***************************************************************************)
(* The match-refresh Lambda (src/refresh/refresh-matches.ts and            *)
(* lambda/match-refresh.ts): the adaptive run of the five-minute rule and  *)
(* the weekly snapshot run, over the stored matches, the league-schedule   *)
(* entries of the sync meta table, SAMS, and what consumers have received. *)
(*                                                                         *)
(* Nothing keeps two runs apart: a run may take up to fifteen minutes and  *)
(* the rule fires every five.  Runs is the set of runs that may be in      *)
(* flight together; every await between two reads or writes of shared      *)
(* state is a point where another run may go on.                           *)
(*                                                                         *)
(* SAMS is external.  The order in which tables are scanned and listed is  *)
(* arbitrary, so loops over leagues, clubs, blocks and rows take their     *)
(* elements in any order.                                                  *)
(***************************************************************************)
EXTENDS MatchPlanner

CONSTANTS
    RegisteredClubs,  \* config.clubs
    StoredClubs,      \* clubs with a row in the clubs table
    SeasonStored,     \* whether the seasons table holds a current season
    Runs,             \* runs that may be in flight at the same time
    Fixtures,         \* the [date, time] SAMS may give a match
    PageOf,           \* [Matches -> Nat]: the page of a listing a match is on
    Instants,         \* clock values at which something may happen
    Absent,           \* no such row, no such event yet
    Never,            \* a league schedule that was never listed
    MaxMoves,         \* bound: fixture changes
    MaxFailures       \* bound: failed requests and runs that end early

ASSUME RefreshAssumption ==
    /\ Fixtures \subseteq [date : Int \cup {NoDate}, time : Int \cup {NoTime}]
    /\ RegisteredClubs \subseteq Clubs
    /\ RegisteredClubs # {}
    /\ SeasonStored \in BOOLEAN
    /\ PageOf \in [Matches -> Nat]
    /\ Instants \subseteq Int
    /\ Never \notin Int
    /\ Absent \notin [date : Int \cup {NoDate}, time : Int \cup {NoTime}, done : BOOLEAN]
    /\ MaxMoves \in Nat
    /\ MaxFailures \in Nat

VARIABLES
    now,       \* the clock
    sams,      \* [Matches -> row]: what SAMS would answer
    stored,    \* [Matches -> row or Absent]: the matches table
    listedAt,  \* [Leagues -> instant or Never]: meta job league-schedule-{leagueUuid}
    status,    \* [Modes -> status]: meta jobs match-refresh and match-snapshot
    feed,      \* the last schedule per club and the last table per league sent
    run,       \* [Runs -> local state of the run]
    moves,     \* fixture changes so far
    failures   \* failures so far

world == <<now, sams, moves>>
tables == <<stored, listedAt, status>>
vars == <<now, sams, stored, listedAt, status, feed, run, moves, failures>>

Modes == {"adaptive", "snapshot"}

\* LEAGUE_SCHEDULE_STALE_MS, the Lambda timeout, and the rolling schedule window.
StaleMinutes == 12 * 60
TimeoutMinutes == 15
LookbackMinutes == 14 * DayMinutes
LookaheadMinutes == 365 * DayMinutes

Row == [date : {f.date : f \in Fixtures}, time : {f.time : f \in Fixtures}, done : BOOLEAN]

ResultsIn(rows) == {m \in DOMAIN rows : rows[m].done}

Posted == ResultsIn(sams)

ClubMatches(c) == {m \in Matches : c \in ClubsOf[m]}

LeagueMatches(l) == {m \in Matches : LeagueOf[m] = l}

\* Rows by match: none, one, and rows with one more or newer.
NoRows == [m \in {} |-> Absent]

OneRow(m, row) == [n \in {m} |-> row]

WithRow(rows, m, row) ==
    [n \in DOMAIN rows \cup {m} |-> IF n = m THEN row ELSE rows[n]]

IdleRun ==
    [pc       |-> "idle",
     mode     |-> "adaptive",
     at       |-> NoDate,    \* args.now of the run
     planned  |-> NoRows,    \* planned, by match
     force    |-> FALSE,     \* fetching for a snapshot or a bootstrap
     boot     |-> FALSE,     \* bootstrapped
     clubs    |-> {},        \* clubs still to be listed
     leagues  |-> {},        \* leagues still to be listed, later to be ranked
     listing  |-> Absent,    \* league that is being listed, or Absent for a club
     rows     |-> {},        \* matches on the pages not fetched yet
     page     |-> NoRows,    \* rows fetched and not upserted yet
     blocks   |-> {},        \* due blocks still to be refreshed
     block    |-> Absent,    \* block that is being refreshed
     left     |-> {},        \* its matches still to be fetched
     details  |-> NoRows,    \* its matches as fetched
     batch    |-> {},        \* publishBatch
     before   |-> {},        \* history: results posted when the run began
     clean    |-> TRUE]      \* history: no request of the run failed

-----------------------------------------------------------------------------
(* Steps a run takes without waiting for anything.                         *)
(*                                                                         *)
(* Here and below, an operator that no other one uses is its neighbour     *)
(* with a bug: a property is worth its run if it notices the exchange.     *)

blockIntersectsRegisteredClubs(block) == block.clubs \cap RegisteredClubs # {}

hasLeagueWideCoverage(planned, l) ==
    \E m \in DOMAIN planned :
        LeagueOf[m] = l /\ ClubsOf[m] \cap RegisteredClubs = {}

MatchUuidsFromPlanned(planned) == DOMAIN planned

leagueUuidsFromPlanned(planned) ==
    {LeagueOf[m] : m \in DOMAIN planned} \ {NoLeague}

interestedRegisteredClubUuids(planned, l) ==
    (UNION {ClubsOf[m] : m \in {n \in DOMAIN planned : LeagueOf[n] = l}})
        \cap RegisteredClubs

Decisions(s) == planMatchRefresh(s.planned, s.at)

AllDueBlocks(s) ==
    {d.block : d \in {e \in dueRefreshDecisions(Decisions(s)) : e.shouldRefreshMatches}}

\* The due blocks of registered clubs: hot for the schedules, refreshed in detail.
DueBlocks(s) ==
    {d.block : d \in {e \in dueRefreshDecisions(Decisions(s)) :
        e.shouldRefreshMatches /\ blockIntersectsRegisteredClubs(e.block)}}

hotRegisteredClubLeagueUuids(s) == {b.league : b \in DueBlocks(s)}

BlockEvents(batch) == {e \in batch : e.kind = "block"}
RankingEvents(batch) == {e \in batch : e.kind = "ranking"}
ScheduleEvents(batch) == {e \in batch : e.kind = "schedule"}

SnapshotAffectsNoClub(s) ==
    IF s.boot THEN RegisteredClubs
    ELSE (UNION {e.clubs : e \in BlockEvents(s.batch)}) \cap RegisteredClubs

\* affectedClubUuids, or every registered club for a bootstrap or a snapshot.
AffectedClubs(s) ==
    IF s.boot \/ s.mode = "snapshot" THEN RegisteredClubs
    ELSE (UNION {e.clubs : e \in BlockEvents(s.batch)}) \cap RegisteredClubs

EnterSchedules(s) ==
    [s EXCEPT !.pc = IF AffectedClubs(s) = {} THEN "publish" ELSE "schedules"]

EnterRankings(s, ls) ==
    IF ls = {} THEN EnterSchedules(s)
    ELSE [s EXCEPT !.pc = "rankings", !.leagues = ls]

NextBlock(s) ==
    IF s.blocks = {} THEN EnterRankings(s, RankingLeagues(Decisions(s)))
    ELSE [s EXCEPT !.pc = "blocks"]

EnterDetails(s) == NextBlock([s EXCEPT !.blocks = DueBlocks(s)])

\* What follows ensureLeagueSchedules.
AfterSchedules(s) ==
    IF ~s.force THEN EnterDetails(s)
    ELSE IF s.mode = "snapshot" THEN [s EXCEPT !.pc = "season"]
    ELSE [s EXCEPT !.pc = "plan", !.force = FALSE]

\* ensureLeagueSchedules asks SAMS for the season only when there is a league.
EnsureLeagueSchedules(s, ls) ==
    IF ls = {} THEN AfterSchedules(s)
    ELSE [s EXCEPT !.pc = "seasons", !.leagues = ls]

NextLeague(s) ==
    IF s.leagues = {} THEN AfterSchedules(s) ELSE [s EXCEPT !.pc = "leagues"]

NextClub(s) ==
    IF s.clubs = {} THEN EnsureLeagueSchedules(s, leagueUuidsFromPlanned(s.planned))
    ELSE [s EXCEPT !.pc = "clubs"]

\* The block's matchBlockUpdated event, once its last match was fetched or skipped.
CloseBlock(s) ==
    LET d == decideBlock(s.block, s.at)
        e == [kind    |-> "block",
              id      |-> s.block.id,
              league  |-> s.block.league,
              clubs   |-> s.block.clubs,
              state   |-> d.state,
              details |-> s.details]
    IN  NextBlock([s EXCEPT !.batch = @ \cup {e}, !.blocks = @ \ {s.block},
                            !.block = Absent, !.details = NoRows])

NextMatch(s) == IF s.left = {} THEN CloseBlock(s) ELSE [s EXCEPT !.pc = "detail"]

-----------------------------------------------------------------------------
(* SAMS and the clock.                                                     *)

InFlight == {r \in Runs : run[r].pc # "idle"}

\* No run outlives the Lambda timeout.
Tick ==
    /\ \E t \in Instants :
        /\ t > now
        /\ \A r \in InFlight : DiffMinutes(t, run[r].at) <= TimeoutMinutes
        /\ now' = t
    /\ UNCHANGED <<sams, moves, tables, feed, run, failures>>

\* A result is posted once the match has begun.
PostResult(m) ==
    /\ ~sams[m].done
    /\ sams[m].date # NoDate
    /\ ScheduledStart(sams[m]) <= now
    /\ sams' = [sams EXCEPT ![m].done = TRUE]
    /\ UNCHANGED <<now, moves, tables, feed, run, failures>>

MoveMatch(m, f) ==
    /\ moves < MaxMoves
    /\ ~sams[m].done
    /\ <<sams[m].date, sams[m].time>> # <<f.date, f.time>>
    /\ sams' = [sams EXCEPT ![m].date = f.date, ![m].time = f.time]
    /\ moves' = moves + 1
    /\ UNCHANGED <<now, tables, feed, run, failures>>

-----------------------------------------------------------------------------
(* A run.  Requests to SAMS take any answer of a set: TRUE for an answer,  *)
(* FALSE, within the bound on failures, for an error.                      *)

Answers == IF failures < MaxFailures THEN BOOLEAN ELSE {TRUE}

Count(ok) == failures' = IF ok THEN failures ELSE failures + 1

\* Run r goes on in local state s.
Continue(r, s) == run' = [run EXCEPT ![r] = s]

Start(r, mode) ==
    /\ run[r].pc = "idle"
    /\ LET known == {m \in Matches : stored[m] # Absent}
           fetch == mode = "snapshot" \/ known = {}
       IN  Continue(r, [IdleRun EXCEPT
              !.pc      = IF fetch THEN "schedule" ELSE "plan",
              !.mode    = mode,
              !.at      = now,
              !.planned = IF fetch THEN NoRows ELSE [m \in known |-> stored[m]],
              !.force   = fetch,
              !.boot    = fetch /\ mode = "adaptive",
              !.before  = Posted])
    /\ UNCHANGED <<world, tables, feed, failures>>

\* fetchScheduleForClubs: without a current season there is nothing to list.
FetchScheduleForClubs(r) ==
    /\ run[r].pc = "schedule"
    /\ \E ok \in Answers :
        /\ Continue(r, IF ok THEN NextClub([run[r] EXCEPT !.clubs = RegisteredClubs])
                       ELSE AfterSchedules([run[r] EXCEPT !.clean = FALSE]))
        /\ Count(ok)
    /\ UNCHANGED <<world, tables, feed>>

QueryClub(r) ==
    /\ run[r].pc = "clubs"
    /\ \E c \in run[r].clubs :
        Continue(r, [run[r] EXCEPT !.pc = "list", !.listing = Absent,
                                   !.clubs = @ \ {c}, !.rows = ClubMatches(c)])
    /\ UNCHANGED <<world, tables, feed, failures>>

\* The season request of ensureLeagueSchedules.
FetchSeasons(r) ==
    /\ run[r].pc = "seasons"
    /\ \E ok \in Answers :
        /\ Continue(r, IF ok THEN NextLeague(run[r])
                       ELSE AfterSchedules([run[r] EXCEPT !.leagues = {}, !.clean = FALSE]))
        /\ Count(ok)
    /\ UNCHANGED <<world, tables, feed>>

\* Whether a league's schedule has to be listed again, from its meta entry.
NeedsListing(s, l) ==
    \/ s.force
    \/ listedAt[l] = Never
    \/ DiffMinutes(s.at, listedAt[l]) >= StaleMinutes
    \/ ~hasLeagueWideCoverage(s.planned, l)

QueryLeague(r) ==
    /\ run[r].pc = "leagues"
    /\ \E l \in run[r].leagues :
        LET s == [run[r] EXCEPT !.leagues = @ \ {l}]
        IN  Continue(r, IF NeedsListing(s, l)
              THEN [s EXCEPT !.pc = "list", !.listing = l, !.rows = LeagueMatches(l)]
              ELSE NextLeague(s))
    /\ UNCHANGED <<world, tables, feed, failures>>

\* The matches on the next page of a listing.
NextPage(rows) == {m \in rows : \A n \in rows : PageOf[m] <= PageOf[n]}

ListedWithoutResults(ms) == [m \in ms |-> [sams[m] EXCEPT !.done = FALSE]]

ListedAsPlayed(ms) ==
    [m \in ms |-> [sams[m] EXCEPT !.done = ScheduledStart(sams[m]) <= now]]

\* The rows of a page; a match has a result when SAMS names a winner.
Listed(ms) == [m \in ms |-> sams[m]]

\* fetchMatchesForQuery does not look at the error of a request: a page that
\* fails holds no rows, and the loop goes on with the next page number.
FetchPage(r) ==
    /\ run[r].pc = "list"
    /\ run[r].page = NoRows
    /\ run[r].rows # {}
    /\ LET p == NextPage(run[r].rows)
       IN  \E ok \in Answers :
            /\ Continue(r, [run[r] EXCEPT !.rows = @ \ p,
                                          !.page = IF ok THEN Listed(p) ELSE NoRows,
                                          !.clean = @ /\ ok])
            /\ Count(ok)
    /\ UNCHANGED <<world, tables, feed>>

\* upsertListedMatch replaces the whole row.
SaveRow(r) ==
    /\ run[r].pc = "list"
    /\ \E m \in DOMAIN run[r].page :
        LET row == run[r].page[m]
        IN  /\ stored' = [stored EXCEPT ![m] = row]
            /\ Continue(r, [run[r] EXCEPT
                  !.planned = WithRow(@, m, row),
                  !.page = [n \in DOMAIN @ \ {m} |-> @[n]]])
    /\ UNCHANGED <<world, listedAt, status, feed, failures>>

\* The end of a listing; a league's meta entry is written, whatever was listed.
EndListing(r) ==
    /\ run[r].pc = "list"
    /\ run[r].page = NoRows
    /\ run[r].rows = {}
    /\ IF run[r].listing = Absent
       THEN /\ Continue(r, NextClub(run[r]))
            /\ UNCHANGED listedAt
       ELSE /\ listedAt' = [listedAt EXCEPT ![run[r].listing] = now]
            /\ Continue(r, NextLeague([run[r] EXCEPT !.listing = Absent]))
    /\ UNCHANGED <<world, stored, status, feed, failures>>

\* The first plan of an adaptive run only finds the hot leagues; blocks and
\* decisions are planned again once their schedules are ensured.
Plan(r) ==
    /\ run[r].pc = "plan"
    /\ Continue(r, EnsureLeagueSchedules(run[r], hotRegisteredClubLeagueUuids(run[r])))
    /\ UNCHANGED <<world, tables, feed, failures>>

BeginBlock(r) ==
    /\ run[r].pc = "blocks"
    /\ \E b \in run[r].blocks :
        Continue(r, [run[r] EXCEPT !.pc = "detail", !.block = b, !.left = b.matches])
    /\ UNCHANGED <<world, tables, feed, failures>>

\* getLeagueMatchByUuid; a match whose request fails is left out.
FetchDetail(r) ==
    /\ run[r].pc = "detail"
    /\ run[r].page = NoRows
    /\ \E m \in run[r].left, ok \in Answers :
        /\ LET s == [run[r] EXCEPT !.left = @ \ {m}]
           IN  Continue(r, IF ok THEN [s EXCEPT !.page = OneRow(m, sams[m])]
                           ELSE NextMatch([s EXCEPT !.clean = FALSE]))
        /\ Count(ok)
    /\ UNCHANGED <<world, tables, feed>>

StoreDetail(r) ==
    /\ run[r].pc = "detail"
    /\ \E m \in DOMAIN run[r].page :
        LET row == run[r].page[m]
        IN  /\ stored' = [stored EXCEPT ![m] = row]
            /\ Continue(r, NextMatch([run[r] EXCEPT
                  !.page = NoRows, !.details = WithRow(@, m, row)]))
    /\ UNCHANGED <<world, listedAt, status, feed, failures>>

\* A snapshot publishes rankings only under a current season, stored or from SAMS.
ResolveSeason(r) ==
    /\ run[r].pc = "season"
    /\ \E ok \in IF SeasonStored THEN {TRUE} ELSE Answers :
        /\ Continue(r, IF ok THEN EnterRankings(run[r], leagueUuidsFromPlanned(run[r].planned))
                       ELSE EnterSchedules([run[r] EXCEPT !.clean = FALSE]))
        /\ Count(ok)
    /\ UNCHANGED <<world, tables, feed>>

\* The block a league's ranking is attributed to: one that is ranking-due, one
\* of a registered club if there is any; a snapshot names none.
RankingSources(s, l) ==
    IF s.mode = "snapshot" THEN {Absent}
    ELSE {d.block.id : d \in rankingDueLeagueDecisions(Decisions(s),
            {b.id : b \in {x \in buildMatchBlocks(s.planned) : blockIntersectsRegisteredClubs(x)}}, l)}

TableBeforeRun(s, l) == s.before \cap LeagueMatches(l)

\* The results a league's table counts at the moment it is asked for.
Table(s, l) == Posted \cap LeagueMatches(l)

\* getRankingsForLeague: an error is taken for a table without entries.
FetchRanking(r) ==
    /\ run[r].pc = "rankings"
    /\ \E l \in run[r].leagues, ok \in Answers :
        /\ \E source \in RankingSources(run[r], l) :
            LET e == [kind    |-> "ranking",
                      league  |-> l,
                      source  |-> source,
                      clubs   |-> interestedRegisteredClubUuids(run[r].planned, l),
                      results |-> IF ok THEN Table(run[r], l) ELSE {},
                      ok      |-> ok]
                s == [run[r] EXCEPT !.leagues = @ \ {l}, !.batch = @ \cup {e},
                                    !.clean = @ /\ ok]
            IN  Continue(r, IF s.leagues = {} THEN EnterSchedules(s) ELSE s)
        /\ Count(ok)
    /\ UNCHANGED <<world, tables, feed>>

\* isClubScheduleWindow: fourteen days back, a year ahead.
InScheduleWindow(row, at) ==
    /\ row.date # NoDate
    /\ ScheduledStart(row) >= at - LookbackMinutes * Minute
    /\ ScheduledStart(row) <= at + LookaheadMinutes * Minute

ScheduleAsPlanned(s, c) ==
    LET ms == {m \in ClubMatches(c) \cap DOMAIN s.planned :
                 s.mode = "snapshot" \/ InScheduleWindow(s.planned[m], now)}
    IN  [m \in ms |-> s.planned[m]]

\* selectStoredClubScheduleMatches: a snapshot sends the full season, other runs
\* what lies in the window at the moment they build it: the handler gives no clock.
ClubSchedule(s, c) ==
    LET ms == {m \in ClubMatches(c) :
                 stored[m] # Absent /\ (s.mode = "snapshot" \/ InScheduleWindow(stored[m], now))}
    IN  [m \in ms |-> stored[m]]

\* One event per affected club that has a row.
buildClubMatchScheduleEvents(s) ==
    {[kind |-> "schedule", club |-> c, rows |-> ClubSchedule(s, c), cachedAt |-> now] :
        c \in AffectedClubs(s) \cap StoredClubs}

\* scheduleEventsForClubs: from one scan of the table, under a current season.
BuildSchedules(r) ==
    /\ run[r].pc = "schedules"
    /\ \E ok \in IF SeasonStored THEN {TRUE} ELSE Answers :
        /\ Continue(r, [run[r] EXCEPT !.pc = "publish",
              !.clean = @ /\ ok,
              !.batch = IF ok THEN @ \cup buildClubMatchScheduleEvents(run[r]) ELSE @])
        /\ Count(ok)
    /\ UNCHANGED <<world, tables, feed>>

\* What consumers hold after events arrived: the last schedule and table replace.
Delivered(events) ==
    LET sch(c) == {e \in ScheduleEvents(events) : e.club = c}
        tab(l) == {e \in RankingEvents(events) : e.league = l}
    IN  [schedules |-> [c \in RegisteredClubs |->
            IF sch(c) = {} THEN feed.schedules[c] ELSE (CHOOSE e \in sch(c) : TRUE).rows],
         rankings  |-> [l \in Leagues |->
            IF tab(l) = {} THEN feed.rankings[l] ELSE (CHOOSE e \in tab(l) : TRUE).results]]

Publish(r) ==
    /\ run[r].pc = "publish"
    /\ feed' = Delivered(run[r].batch)
    /\ Continue(r, [run[r] EXCEPT !.pc = "record"])
    /\ UNCHANGED <<world, tables, failures>>

\* The run ends early: its error is recorded, or the process is killed before that.
Ends(r) ==
    /\ failures < MaxFailures
    /\ status' \in {status, [status EXCEPT ![run[r].mode] = "failure"]}
    /\ Continue(r, IdleRun)
    /\ failures' = failures + 1
    /\ UNCHANGED <<world, stored, listedAt>>

\* PutEvents reports failed entries or the run is cut off: some events are out.
PublishFails(r) ==
    /\ run[r].pc = "publish"
    /\ \E sent \in SUBSET run[r].batch : feed' = Delivered(sent)
    /\ Ends(r)

Record(r) ==
    /\ run[r].pc = "record"
    /\ status' = [status EXCEPT ![run[r].mode] = "success"]
    /\ Continue(r, IdleRun)
    /\ UNCHANGED <<world, stored, listedAt, feed, failures>>

\* An await throws, or the Lambda times out.
RunFails(r) ==
    /\ run[r].pc # "idle"
    /\ Ends(r)
    /\ UNCHANGED feed

-----------------------------------------------------------------------------

Init ==
    /\ now \in Instants
    /\ \A t \in Instants : now <= t
    /\ \E f \in [Matches -> Fixtures] :
        sams = [m \in Matches |-> [date |-> f[m].date, time |-> f[m].time, done |-> FALSE]]
    /\ stored = [m \in Matches |-> Absent]
    /\ listedAt = [l \in Leagues |-> Never]
    /\ status = [mode \in Modes |-> "none"]
    /\ feed = [schedules |-> [c \in RegisteredClubs |-> NoRows],
               rankings  |-> [l \in Leagues |-> {}]]
    /\ run = [r \in Runs |-> IdleRun]
    /\ moves = 0
    /\ failures = 0

\* One step of a run that has begun.
Step(r) ==
    \/ FetchScheduleForClubs(r) \/ QueryClub(r) \/ FetchSeasons(r) \/ QueryLeague(r)
    \/ FetchPage(r) \/ SaveRow(r) \/ EndListing(r)
    \/ Plan(r) \/ BeginBlock(r) \/ FetchDetail(r) \/ StoreDetail(r)
    \/ ResolveSeason(r) \/ FetchRanking(r) \/ BuildSchedules(r)
    \/ Publish(r) \/ PublishFails(r) \/ Record(r)

Next ==
    \/ Tick
    \/ \E m \in Matches : PostResult(m)
    \/ \E m \in Matches, f \in Fixtures : MoveMatch(m, f)
    \/ \E r \in Runs, mode \in Modes : Start(r, mode)
    \/ \E r \in Runs : Step(r)
    \/ \E r \in Runs : RunFails(r)

\* A run that has begun goes on, and the weekly rule starts a snapshot again and
\* again, whatever the adaptive runs do.  The first part is WF_vars(Step(r)), with
\* what enables Step(r) written out: a run in flight can always go on, as TLC shows
\* by finding no deadlock, and TLC is spared ENABLED.
Fairness ==
    \A r \in Runs :
        /\ []<>(run[r].pc = "idle") \/ []<><<Step(r)>>_vars
        /\ SF_vars(Start(r, "snapshot"))

Spec == Init /\ [][Next]_vars

FairSpec == Spec /\ Fairness

-----------------------------------------------------------------------------
(* Properties.                                                             *)

Rows == UNION {[ms -> Row] : ms \in SUBSET Matches}

BlockIds ==
    [league : Leagues, venue : {VenueOf[m] : m \in Matches}, start : Int]

MatchBlock ==
    [id : BlockIds, league : Leagues, start : Int, matches : SUBSET Matches,
     clubs : SUBSET Clubs, allHaveResults : BOOLEAN]

BlockEvent ==
    [kind : {"block"}, id : BlockIds, league : Leagues, clubs : SUBSET Clubs,
     state : States, details : Rows]

RankingEvent ==
    [kind : {"ranking"}, league : Leagues, source : BlockIds \cup {Absent},
     clubs : SUBSET Clubs, results : SUBSET Matches, ok : BOOLEAN]

ScheduleEvent ==
    [kind : {"schedule"}, club : RegisteredClubs, rows : Rows, cachedAt : Instants]

RunPcs == {"idle", "schedule", "clubs", "seasons", "leagues", "list", "plan", "blocks",
           "detail", "season", "rankings", "schedules", "publish", "record"}

Run ==
    [pc : RunPcs, mode : Modes, at : Instants \cup {NoDate}, planned : Rows,
     force : BOOLEAN, boot : BOOLEAN, clubs : SUBSET RegisteredClubs,
     listing : Leagues \cup {Absent}, rows : SUBSET Matches, page : Rows,
     blocks : SUBSET MatchBlock, block : MatchBlock \cup {Absent},
     left : SUBSET Matches, details : Rows, leagues : SUBSET Leagues,
     batch : SUBSET (BlockEvent \cup RankingEvent \cup ScheduleEvent),
     before : SUBSET Matches, clean : BOOLEAN]

TypeOK ==
    /\ now \in Instants
    /\ sams \in [Matches -> Row]
    /\ stored \in [Matches -> Row \cup {Absent}]
    /\ listedAt \in [Leagues -> Instants \cup {Never}]
    /\ status \in [Modes -> {"none", "success", "failure"}]
    /\ feed \in [schedules : [RegisteredClubs -> Rows],
                 rankings  : [Leagues -> SUBSET Matches]]
    /\ run \in [Runs -> Run]
    /\ moves \in 0 .. MaxMoves
    /\ failures \in 0 .. MaxFailures

\* Past the rankings, a run's batch holds, for every block event of a ranking
\* state, a ranking of that league which counts every result the block event
\* shows: details are fetched first and rankings after, whatever other runs do
\* and whenever results arrive.  A ranking whose request failed counts nothing.
RankingCoversBlocks ==
    \A r \in Runs : run[r].pc \in {"schedules", "publish", "record"} =>
        \A b \in BlockEvents(run[r].batch) : b.state \in RankingStates =>
            \E t \in RankingEvents(run[r].batch) :
                t.league = b.league /\ (t.ok => ResultsIn(b.details) \subseteq t.results)

\* docs/sync.md, rankings-only league watch: detail refresh and block events are
\* for blocks with a registered club, although other teams' rows are planned too,
\* and a ranking names such a block as its source whenever one is due.
OnlyRegisteredBlocks ==
    \A r \in Runs :
        /\ \A b \in BlockEvents(run[r].batch) : b.clubs \cap RegisteredClubs # {}
        /\ \A t \in RankingEvents(run[r].batch) :
            (\E b \in BlockEvents(run[r].batch) : b.league = t.league /\ b.state \in RankingStates)
            => \E b \in BlockEvents(run[r].batch) : b.id = t.source

\* When a run publishes, the schedule of every club of a block event is in the same
\* batch and tells of each match of the club what the block event tells: it lists
\* the match, in the same row, if that row lies in the rolling window of
\* club-match-schedule.ts when the schedule is built (a match without a date, over
\* 14 days past or over 365 days ahead may be left out), and never in another row.
\* A run that fails to learn the season sends no schedules.  It needs runs that do
\* not overlap: the schedule is read from the table, and another run may have put
\* an older row back.
ScheduleCoversBlocks ==
    \A r \in Runs : run[r].pc = "publish" /\ (SeasonStored \/ run[r].clean) =>
        \A b \in BlockEvents(run[r].batch), c \in RegisteredClubs \cap StoredClubs :
            c \in b.clubs =>
                \E e \in ScheduleEvents(run[r].batch) : e.club = c /\
                    \A m \in DOMAIN b.details \cap ClubMatches(c) :
                        /\ InScheduleWindow(b.details[m], e.cachedAt) => m \in DOMAIN e.rows
                        /\ m \in DOMAIN e.rows => e.rows[m] = b.details[m]

\* A snapshot in which no request failed publishes, for every registered club with
\* a row, a schedule with every result that SAMS had posted when the snapshot
\* began, whatever state the table was in: it repairs all that polls have missed.
\* It needs runs that do not overlap, as another may put an older row back meanwhile,
\* and lists whose order SAMS keeps while a listing reads their pages (PageOf): a
\* match that moved onto a page already read is listed by the next snapshot only.
SnapshotCatchesUp ==
    \A r \in Runs : run[r].pc = "publish" /\ run[r].mode = "snapshot" /\ run[r].clean =>
        \A c \in RegisteredClubs \cap StoredClubs :
            \E e \in ScheduleEvents(run[r].batch) :
                e.club = c /\ run[r].before \cap ClubMatches(c) \subseteq ResultsIn(e.rows)

\* No consumer is ever shown a result that SAMS did not post, neither in a schedule
\* nor in a ranking, by whatever mix of runs, failures and stale rows.
NoPhantomResults ==
    /\ \A c \in RegisteredClubs : ResultsIn(feed.schedules[c]) \subseteq Posted
    /\ \A l \in Leagues : feed.rankings[l] \subseteq Posted

\* A schedule that a consumer holds never loses a result again while the match is
\* in it: a later event does not show the match as open.  It needs runs that do not
\* overlap, as another may send what it read before.
ResultStays ==
    [][\A c \in RegisteredClubs :
        ResultsIn(feed.schedules[c]) \cap DOMAIN feed'.schedules[c]
            \subseteq ResultsIn(feed'.schedules[c])]_vars

\* What consumers hold of the registered clubs' matches is what SAMS has.
Converged ==
    \A c \in RegisteredClubs \cap StoredClubs :
        feed.schedules[c] = [m \in ClubMatches(c) |-> sams[m]]

\* Once SAMS stops changing and requests stop failing, consumers come to hold what
\* SAMS has and keep it: the weekly snapshot makes up for every missed poll, and no
\* run that is still in flight undoes it for good.
EventuallyConverged == <>[]Converged

\* docs/consumers/events.md: a schedule event is sent when a match refresh affects a
\* registered club.  When no run is in flight, no result of a club's match that a
\* refresh has stored is missing from the schedule the club's consumers hold.
StoredResultsAreSent ==
    InFlight = {} =>
        \A c \in RegisteredClubs \cap StoredClubs, m \in Matches :
            m \in ClubMatches(c) /\ stored[m] # Absent /\ stored[m].done
                => m \in ResultsIn(feed.schedules[c])

=============================================================================
