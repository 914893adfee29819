# A verification project for sams-provider

`sams-provider` reads volleyball data from the SAMS REST API on schedules, keeps it
in one DynamoDB table, and publishes projection events on an EventBridge bus, from
which rules route them to the queues of registered consumers. This directory holds
TLA+ models of that program, TLC configurations that check them on small instances,
and TLAPS proofs of the results that hold for every instance.

Paths below are relative to the repository. A comment before each property and each
theorem says what it claims in words.

## The system

| Component | State it keeps | Operations | Talks to |
| --- | --- | --- | --- |
| Match refresh planner, `src/refresh/planner.ts` | none | build blocks, decide a block, filter due ones, one representative per league | called by match refresh |
| Match refresh runs, `src/refresh/refresh-matches.ts`, `lambda/match-refresh.ts` | match rows, `league-schedule-*`, `match-refresh` and `match-snapshot` meta entries | adaptive run (every 5 min), snapshot run (Wed 04:00) | SAMS, table, publisher |
| Club schedule projection, `src/projections/club-match-schedule.ts` | none | choose a club's matches | match refresh |
| Publisher, `src/events/eventbridge-publisher.ts` | none | send a batch in chunks of ten | EventBridge |
| Event routing, `src/events/club-uuids-for-event.ts`, `eventbridge-detail.ts` | none | club uuids an event is routed by | rules written by the register CLI |
| Clubs sync coordinator and worker, `lambda/clubs-sync-*.ts`, `src/sync/clubs*.ts`, `src/logos/` | club rows, logos | weekly fan-out, one worker per association | SAMS, table, S3, publisher |
| Associations sync, `src/sync/associations.ts` | association rows | weekly listing | SAMS, table |
| Teams sync, `src/sync/teams.ts` | season, league, team and roster rows | nightly | SAMS, table, publisher |
| League ranking projection, `src/projections/league-ranking.ts` | team rows (as a cache) | resolve the clubs of a table | match refresh, SAMS, table |
| Register CLI, `src/cli/register.ts` | two SSM parameters, club stub, rule and target | register a consumer | SSM, table, EventBridge |
| Full sync CLI, `src/cli/full-sync.ts` | the jobs left, attempts, a pause | invoke the coordinator, the teams sync and a snapshot in order, with retries | SSM, Lambda |
| Runtime configuration, `src/config/` | 30-second cache per container | load and validate | SSM |
| Envelope, schemas, repositories, stacks, the npm package | formats and infrastructure | | |

The parts share one table and the SSM parameters, and nothing locks either. Lambdas
overlap with themselves and with each other (a match refresh may run for fifteen
minutes while its rule fires every five), asynchronous invocations are retried, and
every `await` is a point where another actor may act.

### What makes each part correct, and what is hard about it

- *Planner.* It decides from the present alone, so everything it promises over time
  rests on one ladder of conditions in hours and minutes: no gap, no way back, an end
  for matches nobody reports on.
- *Match refresh.* Reads of SAMS, writes to the table and the final send lie minutes
  apart. A batch must be consistent in itself (ranking, block and schedule of one match
  agree), true (no result that does not exist), complete over time (what polls miss, a
  snapshot repairs), and limited to registered clubs.
- *Clubs sync.* Rows are written before events are sent: a crash between them loses an
  event for good. Workers compare with rows read at their start; a registration or a
  second delivery in between is not seen. Logos must survive both.
- *Teams sync.* Request errors are ignored and what was not seen is deleted; a season
  change leaves two current seasons; the ranking projection writes into the same rows.
- *Registration.* Read-modify-write of two parameters by several operators, where a
  failed read counts as an empty list; five writes that may stop anywhere.
- *Publisher and routing.* Chunks that fail midway; events that no rule matches.
- *Full sync.* It says DONE when each job has answered, but jobs work for the clubs their
  container remembers and the season their table names, and count what they pass over as
  success. Requests are throttled and tried again; a job outlives a command that stops.

`PROJECT.json` lists each hazard at its line, with the property that covers it or the
reason why none does yet.

## The modules

| Module | Models | Lines up with |
| --- | --- | --- |
| `MatchPlanner` | the planner, as operators | each operator has the name of the function it translates; `WindowAfterStart` and `Window` are the arms of `decideBlock` in their order |
| `MatchWindow` | one block through time | `Decision` is what a run at this instant would decide; `Tick`, `PostResult`, `Move` are the clock and SAMS |
| `MatchRefresh` | whole runs | see below |
| `ClubsSync` | the index of clubs: associations sync, coordinator, workers, the club row of a registration | see below |
| `TeamsSync` | the nightly teams sync with seasons, leagues and rosters, and the teams a ranking projection stores beside it | see below |
| `Registration` | the register CLI, the configuration cache of a container, the routing of events by rules | see below |
| `Publisher` | one publish after the other, request by request | `Chunk`, `PutEvents` and `CutOff` are the loop of `EventBridgePublisher.publish` and its ends |
| `Outbox` | what `DomainEventPublisher` promises its callers | abstract; `Publisher` implements it (`KeepsOutboxPromise`) |
| `FullSync` | the full-sync command, the jobs it invokes, their caches and the season, with `Publisher` | see below |
| `CatchUp` | what DONE means to an operator | abstract; `FullSync` implements it (`KeepsCatchUpPromise`) |
| `MCMatchWindow`, `MCMatchRefresh`, `MCClubsSync`, `MCTeamsSync`, `MCRegistration`, `MCFullSync` | instances for TLC | |
| `MatchWindowProofs`, `MatchRefreshProofs`, `RunProofs`, `ClubsSyncProofs`, `TeamsSyncProofs`, `RegistrationProofs`, `PublisherProofs`, `FullSyncProofs` | proofs | |

### MatchRefresh

`stored` is the matches table, `listedAt` and `status` the meta entries, `sams` what
SAMS would answer, `feed` what consumers hold: the last schedule of each club and the
last table of each league. `run[r]` is the local state of a run: its program counter
and the local variables of `refreshMatchesAndRankings` and its helpers (`planned`,
`blocks`, `rawMatches` as `details`, `publishBatch` as `batch`, and so on). One action
is what happens up to and including one awaited request or write:

| Action | Code |
| --- | --- |
| `Start` | scan of the table, choice between snapshot, bootstrap and plan |
| `FetchScheduleForClubs`, `QueryClub` | `fetchScheduleForClubs` |
| `FetchSeasons`, `QueryLeague`, `EndListing` | `ensureLeagueSchedules` |
| `FetchPage`, `SaveRow` | `fetchMatchesForQuery`, `upsertListedMatch` |
| `Plan`, `BeginBlock`, `FetchDetail`, `StoreDetail` | the two planning passes and the loop over due blocks |
| `ResolveSeason`, `FetchRanking` | rankings of both modes |
| `BuildSchedules` | `scheduleEventsForClubs` |
| `Publish`, `PublishFails`, `Record`, `RunFails` | the publisher, the meta entry, an exception or a timeout |

Computation between two requests is attached to the action before it (`NextBlock`,
`EnterRankings`, `AfterSchedules`, ...), so no action stands for a part of a step the
code cannot stop after. A request may fail: where the code looks at the error the model
branches, where it does not (a page of a listing, a ranking) the model goes on with an
empty answer as the code does. `before` and `clean` are history variables: the results
posted when the run began, and whether all its requests succeeded.

Abstractions. Loops over leagues, clubs, blocks and rows run in any order (the code
sorts some and takes others as scanned). Names, addresses, set scores and payload
layout are left out; a ranking is the set of results it counts. A match keeps its
league, venue and clubs. Every club listing and league listing belongs to one season. A match
keeps its page (`PageOf`), although pages are asked for by offset: no match leaves a league or
a club here, and if SAMS reorders a list while its pages are read, a match it moves to a page
already read is passed over until the next listing. Nothing is removed on that account, so only
`SnapshotCatchesUp` rests on it, and its comment says so. A schedule of an adaptive run takes its
rolling window from the moment it is built, for the handler hands no `now` to it.

### ClubsSync

`rows` and `associations` are tables, `bucket` says for which clubs the S3 bucket has a
copy of the logo (and of which address), `config` is the parameter `sync/clubs`, `feed`
the last `clubUpdated` of each club. `worker` is a bounded set of slots, each free or
holding one asynchronous invocation from the time it is queued: what it was invoked
with, the rows it scanned (`existing`), its page, and the rows and events it has built.

| Action | Code |
| --- | --- |
| `AssociationsSync` | `listAllAssociations`, `upsertMany`, meta entry; or a part of it and an error |
| `ResolveForRegistration`, `PutClubs`, `upsertClubStub` | `registerConsumer`, as far as the club list and the club row go |
| `CoordinatorStarts` | configuration and associations are read |
| `InvokeWorker` | one asynchronous invocation of the fan-out |
| `CoordinatorEnds`, `CoordinatorRefuses`, `CoordinatorFails` | success; no associations in prod; an error anywhere, then a retry |
| `WorkerStarts`, `FetchPage` | scan of all clubs; a page of the association's list |
| `ResolveClub` | one club of the page: its details, its logo's copy, row and event |
| `SaveRow`, `Publish`, `RecordSuccess` | `upsertMany`, the only publish, the meta entry |
| `WorkerFails` | an error at any await or the time limit, with some events sent if it fell in the publish; then a retry |
| `ChangeProfile` | SAMS |

Abstractions. An association stands for its uuid and its name, and SAMS lists a club
under the association it belongs to; slugs follow names and are left out. A logo is its
address; a row's `key` says whether it names a copy in the bucket (under whatever
extension), and the bucket loses nothing. A page may leave out any logo, as
`src/logos/preserve.ts` says SAMS does. Rows of a page are written one by one in any
order, which includes the chunks of 25 the code writes concurrently. The public logo
address is set. Rows do not expire: a sync a week renews them. A club keeps its page
(`PageOf`), although the worker asks for pages by offset: a club that joins or leaves an
association while its list is read may push another one past the reader. The worker removes
nothing, and the club is listed by the next sync, as `EventuallyIndexed` demands of any it misses.

### TeamsSync

`seasons`, `leagues`, `teams` and `rosters` are tables; `fresh` is the set of teams whose
row was written within the hour, the age at which the removal looks. `feed` holds what
consumers have: each club's list of teams and each team's squad. `run` is the local state
of `syncTeams`: `old` and `before` are the rows it compares with (`previousTeams`,
`previousRosters`), `synced` and `changed` its two sets, `lists` and `squads` the events it
has built.

| Action | Code |
| --- | --- |
| `Start`, `StartWithoutClubs` | the checks at the beginning; a club list that could not be read counts as empty and the run succeeds with nothing done |
| `FetchSeason`, `FetchHierarchies`, `ListLeagues`, `SaveLeague` | the current season, the levels and leagues of the associations, their rows |
| `Scan` | the stored teams and rosters, read after the leagues are stored |
| `FetchPage`, `SaveTeam`, `FetchRoster` | the loop over leagues, pages and teams |
| `DeleteTeam`, `DeleteRoster` | the removal of what was not seen |
| `BuildLists`, `Publish`, `Record` | the events, the publisher, the meta entry |
| `RunFails` | an error or the time limit, with some events sent if it fell in the publish |
| `buildLeagueRankingProjection`, `resolveTeam`, `RankingEnds` | the lookup and storing of teams by a match refresh beside the sync |
| `MoveTeam`, `ChangeSquad`, `NewSeason` | SAMS |

`complete`, `clean` and `steady` are history: whether the last run came to its end, whether
all listings of this one succeeded, and which teams SAMS has listed in one league of the
season since it began without moving forward in the list that was being read.

Pages are asked for by number and size (`teams.ts:178`), that is by offset. `OnPage` is
therefore computed when SAMS answers, from where the team stands then (`Offset`: how many
teams `OrderOf` puts before it in its league). A team that leaves its league between two
requests moves the ones after it (`After`) one place forward, one of them onto a page
that was read before; a team that joins can only make the reader see one twice.

Abstractions. One sync runs at a time: the rule fires once a night, and Lambda retries an
invocation only when it is over, which is a new `Start`. Registered clubs are in the index
(else the run ends with an error, as in `RunFails`). The pages of leagues and of
hierarchies are one request that may leave any part out, as a failure, but loses nothing to
a list that changes meanwhile: no league leaves a season here. The pages of a league's teams
are requested one by one. A team's row is its league, season and whether it has a level;
master teams and incomplete entries are skipped by the code and not listed here. A squad is
a value. Old seasons keep their mark as current, as nothing in the code takes it away;
their rows expire after thirty days, which the model leaves out, as it does for all rows. The
sync reads a club's teams from the table itself, the code from an index that may lag.

### Registration

`clubs` and `consumers` are the two SSM parameters, `rules` and `targets` what EventBridge
has for each consumer id, `indexed` the clubs of the table. `cli[o]` is the local state of a
registration: what it resolved and the two lists in its hand. `cache` is the configuration
a container keeps, `run` what its latest run works with. History: `begun`, `completedAt`,
`overlapped` (two registrations in progress at once) and `misread` (one took a list it
could not read for an empty one).

| Action | Code |
| --- | --- |
| `resolveClub` | the club of the uuid or name typed, the consumer id given or made |
| `readClubs`, `readConsumers` | each list is read, an unreadable one counts as empty, the entry is added |
| `PutClubs`, `PutConsumers`, `upsertClubStub`, `PutRule`, `PutTargets` | the five writes, in the code's order |
| `Stops` | an error at any await |
| `IndexClub` | a clubs sync |
| `loadProviderRuntimeConfig` | a run of a container starts, with or without a hit |
| `Tick` | the clock |

`clubUuidsForEvent`, `eventBridgeDetail` and `clubUuidsForConsumer` are operators of the same
name; `MatchedBy` and `Queues` are EventBridge's pattern matching. Publishing is not an
action: the properties speak, in every state, of every event that could be published.

Abstractions. An account stands for its queue and a consumer id for its rule, since the code
derives one name from the other. A club with no consumer ids is a club that is not
listed: a listed one always has at least one. What the row of a club loses by
`upsertClubStub` is the subject of `ClubsSync`. One container stands for all, as containers
share nothing. A missing API key is an error of a run and is left out. Nothing in the code
removes a registration.

### Publisher and FullSync

`batch`, `index`, `out` and `verdict` are the latest publish: its items, how many of them the
chunks so far held, what EventBridge has accepted, and how it ended. `cli` is the local state
of the command: the jobs left, the attempt, what is left of a sleep. `call` is the job it has
invoked, `warm` what the containers of the teams sync and of the match refresh have cached,
`listed` for how long a club has been in `sync/clubs`, `rows` which clubs have their row,
`season` the season of SAMS and `seasons` the rows flagged as current. History: how the latest
command ended, what it was to send (`owed`), what was accepted while it ran (`sent`), and what
its jobs passed over without an error (`missed`).

| Action | Code |
| --- | --- |
| `runFullSync`, `getParameter` | the command begins with any `--skip-` flags and reads two parameters |
| `Invoke`, `Throttled`, `Answer`, `Stops` | `invokeWithRetry` and `assertInvokeOk`: a request is taken, throttled, answered; any other error, or the operator |
| `Tick` | sleeps, caches and the list grow older |
| `LoadConfig`, `OtherRun` | `loadProviderRuntimeConfig` in an invoked job, and in a run of the job's own rule |
| `Coordinate` | the coordinator; its workers' events are the subject of `ClubsSync` |
| `StoreSeason` | `syncTeams` up to the stored season |
| `FindSeason` | `resolveCurrentSeason` in `scheduleEventsForClubs` |
| `createEventEnvelope`, `Send`, `Finish` | all events are made, then sent chunk by chunk; the job returns or throws |
| `JobThrows`, `Unattended` | an error at any other await, a rejected payload or the time limit; a job whose command has stopped goes on |
| `Register`, `SyncRow`, `NightlySync`, `NewSeason` | an operator, a worker of the clubs sync that stores a row, the nightly sync, SAMS |
| `ExpireRow`, `ExpireSeason` | DynamoDB, which deletes rows whose `ttl` has passed; no code deletes them |

Abstractions. What a job sends for one club is one event of each kind, for one season; the
steps between its season and its batch are the subject of `TeamsSync` and `MatchRefresh`, and
an error in them is `JobThrows`. A container that is not warm may be started at any time, so one
per job stands for all. The pause is at least as long as the cache (`FullSyncAssumption`), as
by default, ninety seconds to thirty; `--clubs-cooldown-seconds` allows less, and then the
promise is off. A command begins when no job of an earlier one is running, and the season
changes between commands. Seasons are numbered in the order of their names, in which the index
lists them.

## The runs

Clock values are minutes from midnight of the match day (half minutes in
`MCMatchWindow`); the policy is the default of `src/config/schema.ts`.

| Run | Question | Bounds |
| --- | --- | --- |
| `window` | Is the ladder free of gaps, of ways back, and does it end? | two matches, the clock stops two half-minutes on both sides of each boundary, one move by a week |
| `refresh_single` | When runs do not overlap, is each batch of a run complete and consistent, do snapshots catch up, and do consumers end up with what SAMS has? | a match of the registered club and a foreign one in one hall, each on a page of its own; four instants: in the active window, ten minutes apart on both sides of its end, and when the listing is stale; a fixture without a time and one 400 days ahead; one move, one failure |
| `refresh_overlap` | What remains true when runs overlap? | two runs, one match, two instants ten minutes apart, one failure |
| `refresh_swallowed` | Is each stored result sent? (violated) | one match, four instants of an evening, no failure |
| `clubs_index` | Do logos, their copies and the events sent agree with the rows? | one stored and registered club on the second page, one new club, which may be registered; two slots, one change, two failures |
| `clubs_moves` | Does every club reach the index? | one club, two associations, two slots, syncs at any time, one move, one failure |
| `teams_sync` | What does a sync remove, do squads and teams agree, do consumers end up with what SAMS has? | two teams of a registered club and an opponent, two leagues, two seasons; pages of two, of which the three teams fill one and a half until the second leaves; one change, one failure, one ranking projection |
| `teams_rosters` | Is a team without a stored roster left out of the roster list? (violated) | the same |
| `registration` | Do events reach only the queues they are meant for, and those of completed registrations, and do runs learn of new clubs? | two clubs of one name, two consumer ids, two accounts, two operators, three registrations, one failure, a cache of two ticks |
| `registration_accounts` | Does a second account for a club receive its events? (violated) | one operator, two registrations, no failure |
| `full_sync` | What do DONE and a publish that returns promise, do commands end, which season do jobs work for in the end? | two clubs, one of them listed from the start, the other registered at some time; rows that come and go, two seasons, chunks of three, two attempts, cache and pause of one unit |
| `full_sync_season` | After DONE, has each club been sent what the season of SAMS has? (violated) | the same |

Why the bounds suffice. Each decision depends on one block and one instant; blocks
interact only through the league they share. Two matches in one hall are one sequential
block while they share a start, and two blocks of one league once one is moved, which are
all the kinds there are. One failure at any point is enough to reach every error path, and
results may arrive between any two requests. `MaxMoves` and `MaxFailures`
bound only what the outside does. Runs are interchangeable, so `refresh_overlap` uses
their symmetry. Every match may be put off by 400 days, or brought forward from there, between
the plan and the request for its details: the row is then outside the window of the schedule
built next. A run may begin before the end of the active window and end after it.
`refresh_single` checks deadlock, and its fairness relies on there being none. `window`,
`refresh_overlap` and `refresh_swallowed` do not: there the clock stops at the last instant, and
once all results are posted the world may stand still.

In `ClubsSync` clubs meet only in the pages of a worker, associations only through a
club that moves, and workers through the rows and the bucket; two of each make every
meeting possible. One failure yields a retry beside the worker that follows it and a
second worker of one association beside the first (a coordinator that fails midway),
which is all that retries add to overlap; a second failure lets one of two such workers miss
a logo (a request for details or a copy that fails). That `MaxRetries` is two and not one is the same
step once more. The clubs of the instances have logos, so that losing one shows. With
`ManualSync` false a sync starts only when the workers of the last one are done, as on
the weekly rule; `full-sync` gives no such guarantee, and `clubs_moves` allows it.

In `TeamsSync` teams meet in the pages of a league, in the removal and in a club's lists, for
which two of one club and a foreign one suffice; a team that changes leagues is listed in
either, both or none, and the order of leagues is free. One failure loses a page, a roster,
half a removal or half a batch. One ranking projection may store any team a sync has just
removed, has not reached yet, or will never list. Squads, leagues and seasons are two of
each so that a change shows. `EventuallyServed` speaks of what follows the last change, the last
failure and the last such projection: while projections go on storing teams under a season
that is over, between a sync's removal and its lists, those teams are sent.

In `Registration` three registrations let one be completed, the next stop at any point and
a third follow, which is what a rule must survive; two operators are enough for a lost entry.
The commands share a consumer id, share a club's name, and differ in account, but none
supersedes another: `CompletedServed` says nothing of that case, `registration_accounts`
does. Ids depend on what was typed, a uuid or a name, as `slugify` is applied to it.

In `FullSync` a club of each sort is enough, as clubs meet only in a batch. Four events of the
teams job are two chunks, the last one shorter, and two of the snapshot are one. Ages beyond
the cache are not told apart, so one unit has every order of registration, cache and
pause; `FullSyncProofs` has its theorems for all. Two attempts have a retry and a last one, two
seasons a change. No failure is counted: anything may fail at any time, also for ever.

`ResultStays`, `ScheduleCoversBlocks` and `SnapshotCatchesUp` are checked for runs that do not
overlap. With overlap all three fail, as reading the code suggests: a run that listed a match
before its result was posted may write or send its row after another run stored or sent the
result, a snapshot's run included. No document promises the contrary; `NoPhantomResults` and
`RankingCoversBlocks` are what consumers can rely on then. The three also take the table
scan to be current, while the code scans a secondary index, which may lag.

`ScheduleCoversBlocks` demands of the schedule of each club of a block event that it lists
every match of the club that the event shows, in the same row. It exempts a match that lies
outside the rolling window at the moment the schedule is built: no date, over 14 days past or
over 365 ahead (`isClubScheduleWindow`). Such a match may be missing, but if it is listed its
row must be the same. That the exemption is used is easy to see: without it
TLC finds a match put off by 400 days. Clubs without a row have no schedule
(`club-match-schedule.ts:95`), and a run that cannot learn the season sends none (`clean`).

### Disagreements between the code and its documents

- `refresh_swallowed`: a result first seen by a league listing (entry older than twelve
  hours, or no league-wide coverage) is in the table before the second planning. If the
  match began more than two hours before, its block is settled at once, and neither a
  block nor a schedule event is sent until the weekly snapshot.
- `registration_accounts`: `src/cli/README.md` has a club with two accounts registered twice with
  the documented command. The id it makes has the club and the environment in it but not the account,
  so the second registration replaces the target of the first, whose queue receives nothing
  from then on. With `--consumer-id` both are served.
- `full_sync_season`: `docs/consumers/events.md:180` says the snapshot and the full sync send all
  stored fixtures for the current season. The teams sync stores the new season as current and
  leaves the flag of the old row (`teams.ts:76`); `resolveCurrentSeason` takes the first flagged
  row, and seasons are listed by name. Until the old row expires, thirty days after its last
  renewal, schedules are those of the season that is over, while teams and rosters are those of
  the new one. In the end the seasons agree (`SeasonCatchesUp`), and only because rows expire.
- `teams_rosters`: `docs/consumers/events.md:139` says teams without a stored roster are omitted
  from the full roster list; `team-roster.ts:85` sends them with empty lists (`Payload`). A team
  is in that state after its first roster request failed or was answered with 404.
  `SquadsAgree` takes no side: it says that a stored squad is the one consumers hold, and that
  they hold no player of a team that has none.

Seen while modelling, without a run of their own:

- `docs/consumers/events.md:97` promises `clubUpdated` when a registered club's profile changes.
  The clubs worker stores the row first and decides by comparing with the stored row, so
  whatever comes between storing and sending is not made up for: a club list that cannot be
  read and counts as empty (`load.ts:75`), a crash or failed publish after the first write, a
  retry that finds nothing changed. Without a failure changes are announced
  (`AnnouncedUnlessFailed`), if syncs do not overlap. With an operator's full sync on top of a
  sync, with a club that moves to another association, or with a registered club that is
  registered again (its stub is stored and announced to nobody), they may not be: TLC finds
  each of the three if the others are excluded.
- `CONTEXT.md:78` wants the stored logo kept. The register CLI writes the club's row without
  its logo fields (`register.ts:254`), and no sync brings them back before name or association
  change. Nor is it kept when a fan-out fails midway and is retried: of the two workers an
  association then has, both may have scanned before a new club had a row; one stores its
  logo, the other, whose request for the club's details fails, takes that for no logo
  (`clubs.ts:287`) and writes the row without one. A logo that the workers at work have found
  stays (`LogoSurvivesSync`), in particular any that was stored while none was at work.
- `full-sync` says DONE when its jobs have returned, and they return when they could not read the
  list of clubs, found no row for some of them, or no season: these are the `missed` of
  `KeepsCatchUpPromise`. What it prints before the pause speaks of a rate limit (`full-sync.ts:133`),
  but it is also what lets the caches run out. `--invoke-retries` counts attempts, the first
  included (`full-sync.ts:188`).
- A full sync may start a teams sync beside the nightly one; `TeamsSync` has one at a time.
- A ranking request that fails sends a table without entries (`refresh-matches.ts:282`).
- `snapshotVersion` is a hash of the payload (`envelope.ts:45`). `docs/consumers/events.md` advises to
  dedupe by it; a club that gets its old name back is announced under a version seen before,
  since a club's payload, unlike the others, has no time in it.

- `docs/consumers/events.md:199` says `nextRefreshAfter` is when the provider plans the next
  refresh. No run reads it: a due block is refreshed on each five-minute run, whatever poll
  interval the policy names.
- Two operators who register at the same time lose an entry of one of them, and one whose
  list is older than the other's can take a club out of a rule they share. A list that
  cannot be read does the same for all entries. `CompletedServed` is therefore stated
  for registrations one after another that read their lists.

- A failed page of a match listing is skipped and the listing recorded as a success
  (`refresh-matches.ts:621`), so for twelve hours an incomplete league passes for listed.
- A failed page of a league's teams is skipped too (`teams.ts:178`), and the teams on it
  are removed with their rosters, although the comment at `teams.ts:224` says that
  transient failures should not wipe roster data. `SteadyTeamsStay` is therefore stated for
  runs whose listings succeeded.
- Nor does a sync whose requests all succeed keep every team SAMS lists: if a team leaves a league
  between two page requests, the first team of each page still to come is now the last of a
  page before it, and the one that crosses the reader is on no page read. It is removed with
  its roster (`teams.ts:178`, `teams.ts:252`), and stored again by the next sync
  (`EventuallyServed`). `SteadyTeamsStay` exempts the teams listed after the one that left.
- `changedTeamUuids` compares the hash of the new item with that of a stored row, which has
  more fields (`teams.ts:143`, `teams.ts:214`), so it names every synced team.

### Fairness

`MatchWindow` assumes only that the clock does not stop (`WF_vars(Tick)`).
`MatchRefresh` states fairness for one run, `refresh_single`: a run that has begun goes
on (`WF` of its steps: each request has a timeout, and the Lambda's own timeout is the
action `RunFails`; it is written as "idle again and again, or steps again and again", which is
the same where a run in flight can always go on, as the absence of deadlock shows), and the
weekly rule starts a snapshot again and again (`SF`, since the slot for a run is not
continuously free while adaptive runs come and go). Nothing is
assumed about SAMS: it may post results or never. That failures end is not fairness but
the bound `MaxFailures`. `ClubsSync` states fairness for `clubs_moves`: the weekly rules fire
again (`WF` of `AssociationsSync` and `CoordinatorStarts`; an idle coordinator is always
free to start there, for an operator may start it, too), and the coordinator and each
worker go on. An invocation that is queued is eventually run, as Lambda does within its
six hours; one that fails three times is given up, and the next sync repairs it.
`TeamsSync` states fairness for `teams_sync`: the nightly rule fires again and again when no row is
fresh (`SF` of `Start({})`: `Start` is not continuously enabled, as an operator may start runs
too), and a run goes on. Nothing is assumed about ranking projections.
`Registration` assumes no fairness: operators owe nothing. `FullSync` states it for `full_sync`:
time passes (`WF` of `Tick`), the command and a job it has invoked go on (`WF` of `Command` and
`Job`; sleeps end, and Lambda ends a job at its time limit), and DynamoDB deletes rows whose
time has come (`WF` of `ExpireSeason`). Nothing is assumed of operators, of SAMS or of the
nightly sync, and throttling may go on for ever.

### Mutants

Each property of a passing run is paired with a variant of a mapped operator, standing
beside its original in the module, which breaks it: a swapped window, an off-by-one, a
filter left out, rows planned earlier in place of rows stored, and so on.

## The proofs

| Theorem | For | Argument |
| --- | --- | --- |
| `MatchWindowProofs!TypeCorrect` | all instances | the ladder yields one of the six states |
| `PhasesOnlyAdvance`, `NoGapBeforeSettled` | all policies with `WindowsNested` | `LadderIsTotal` and the monotony of truncated minutes |
| `MatchRefreshProofs!TypeCorrect` | any number of runs | one lemma per action |
| `NoPhantoms` | any number of runs | `Inv`, below |
| `RunProofs!RankingsCoverBlocks` | any number of runs | `Inv` and `RunsCover`, below |
| `RegisteredBlocksOnly` | any number of runs | `RunsRegistered`, below |
| `SnapshotsCatchUp`, `ResultsStay` | runs one at a time (`OneRun`) | `RunsInOrder` and `FeedStored`, below |
| `SchedulesCoverBlocks` | runs one at a time (`OneRun`) | `RunsStand`, below |
| `ClubsSyncProofs!TypeCorrect` | any number of workers | one lemma per action, on the local state it continues with |
| `ClubsSyncProofs!NoDeadLogo` | any number of workers | `IInv` and `AnnouncedBacked`, below |
| `LogosStay` | any number of workers | `LogosKept`, below |
| `ChangesAreAnnounced` | one fan-out at a time (`OneAtATime`) | `Announcing`, below |
| `TeamsSyncProofs!TypeCorrect` | all instances | one lemma per phase, on the local state it continues with |
| `TeamsSyncProofs!SteadyTeamsStayCorrect` | all instances | `IInv`, below |
| `SquadsStayAgreed` | all instances | `SquadsInv`, below |
| `RegistrationProofs!TypeCorrect` | any number of operators | one lemma per step, on the local state it continues with |
| `OnlyOwn` | any number of operators | `Owned`, below |
| `Served`, `KnownInTime` | any number of operators | `Sound`, below |
| `PublisherProofs!PromiseKept` | any batches and chunk sizes | `PublisherInv`, below |
| `FullSyncProofs!TypeCorrect` | all instances | one lemma per group of actions |
| `FullSyncProofs!OutboxPromiseKept` | all instances | every step of `FullSync` is a step of `Publisher` or leaves it alone (`StepPublishes`) |
| `CatchUpPromiseKept` | all instances | a refinement, step by step, under `CatchUpInv`, below |

`WindowsNested` says `recentlyFinishedMinutes` and `settledAfterMinutes` do not exceed the
active window. The schema does not demand it; the default policy has it.

`NoPhantomResults` is not inductive: a run could still send what it holds. `Inv` says
that every copy of a result is truthful, in the table, in the feed, and in each place a
run keeps rows (`planned`, `page`, `details`, `batch`), and that only posted results are
counted in tables. Posted results stay posted, so the invariant survives any
interleaving without a word about which run wrote last; that is why it needs no
assumption on overlap.

`RankingCoversBlocks` speaks of the end of a run. `RunsCover` says what a run owes at each
program counter: while it fetches details, every ranking-due block event still has its
league among the leagues that will be ranked, by the decisions taken from `planned` and
`at`, which no longer change; while it ranks, each such league is still to be ranked or
has a ranking in the batch whose results include those of the details, because results
are only ever added.

`OnlyRegisteredBlocks` needs to know where the batch comes from. `RunsRegistered` says that
each block event is that of a due block of a registered club (`FromDue`), that each such block is
still to be refreshed or has its event (`AllDue`), and that no ranking is in the batch before the
last of them: `DueBlocks` does not change while the loop goes on, because `planned` and `at` do
not. So the block in whose name a league is ranked has its event, if any block of the league has.

`ScheduleCoversBlocks`, `SnapshotCatchesUp` and `ResultStays` compare what a run sends with what
it fetched, what SAMS had when it began, and what consumers were sent before. All three are
false with two runs at a time, so the theorems assume `OneRun` (the slots of the model, not the
table, hold at most one run; runs may fail and follow each other as they like). `RunsInOrder`
says that nothing in the run's hands is older than the table (a row it is about to
store has every result the stored one has), that no event shows a result the table does not
have, and that what was posted before the run began is in each row it lists; for a snapshot
without a failure, that every match of a registered club with such a result is in the table,
on the page in hand, or in a listing still to come. `FeedStored` says that consumers were shown
only what the table holds. Results leave neither SAMS nor the table, so a schedule built from
the table takes none back.

`ScheduleCoversBlocks` is about whole rows, dates included, which do change. `RunsStand` says that
each row that a block event of the batch shows, or that is collected for the next one, is what the
table holds. A row is written again only for a block still to be refreshed, and such a block shares
no match with one that has its event, as blocks that share a match are equal (`BlockOfMatch`). The
schedules read the table after the last block, with the clock that the window and `cachedAt` take.

`LogoObjectExists` speaks of the table and of consumers, but rows are written and events sent
from what workers scanned or built long before. `Supported`, in `IInv`, therefore says it of every such copy:
a row that names a copy of its logo, in the table, in a worker's scan, or among the rows
it is about to write, is backed by the bucket. The code never removes a copy, so a
step of one worker leaves the copies of all others backed, however old they are.
`AnnouncedBacked` says the same of the events in their hands and of those delivered.

`LogoSurvivesSync` is an action property about the step that writes a row. `LogosKept` says
that an item made for a row that was scanned with a logo has one, and that items and listed
clubs exist only in the states that handle them (`Staged`), so a scan begins with empty hands.
With more than one failure the property does not hold of every stored logo (see above), which is
why it speaks of logos that all workers at work have found; what a worker has found does
not change until it is done, and who begins later finds the stored row.

`AnnouncedUnlessFailed` follows a row, the scan of it, the item built from it and the event for it.
`Announcing` says, while nothing has failed, that a registered club's row is the one announced
unless its association has a worker at work, and then (`Tracked`): before the item is written, the
row is as scanned and as announced; the item equals it or has an event; once the item is written,
the event, if any, tells of the row. That takes one worker per association (`OneFanOut`), since
nobody starts a fan-out while workers are at work; in each worker's hands only clubs of its
association, from pages it has fetched (`InHand`); and no other writer of the row. `OneAtATime`
states what this comes down to: no sync by an operator during a sync, no club that moves, no
registered club registered again. Each condition is necessary.

`SteadyTeamsStay` speaks of the step that removes a row, long after the pages were read.
`NoneMissed`, in `IInv` of `TeamsSyncProofs`, says where a team is until then: while no listing
has failed, a team SAMS keeps listing in one league and has not moved forward while it is read
stands where the reader still has to come (its league is left, or is the one in hand and its
offset is not behind the page), is on the page in hand, or is synced. A team that joins the list
only adds to the offsets of those after it; one that leaves takes those after it out of `steady`. It needs that such a team's league belongs to the season the run works on
(`SteadyListed`) and that a league is begun at its first page (`FirstPage`). With no league left
only "synced" remains, and a removal takes nothing that is synced.

`SquadsAgree` speaks of the end of a sync, when all events are out. `SquadsInv` says that the
squads built for a club's list are the stored ones until they are sent, which holds because lists are
built after the last roster is stored or removed, and that they name the club's own teams, so that
the lists of other clubs do not touch them.

`OnlyOwnEvents` speaks of rules and targets, which are written from lists read long before.
`Owned` says of every copy of a list, in the parameter or in an operator's hand, that each
consumer id in it was given for that club to a registration that was begun, and of every target
that its account was. `begun` only grows, so copies stay owned however old they are and
whichever of them is written last.

`CompletedServed` and `KnownToRuns` need more, as a list must not only contain nothing wrong
but everything right. `Sound` says, while no two registrations have overlapped and no list
was misread, that what was completed is in the parameter and in its rule, and that the list
in the hand of the one operator at work extends the parameter (`KeptIfUndisturbed`); that a
configuration loaded after a registration was completed knows its club (`CacheKnows`). In any case
the target of a completed registration is its account unless superseded (`Targeted`), and
neither a completion nor a run lies in the future (`NotAhead`). A hit is younger than
`CacheTime`, so a run has what was completed before that.

`KeepsOutboxPromise` is a refinement: with `handed` the events of the batch, `Publish` maps to
`Hand` and each request, whole, refused in part or cut off, to `Send`. That a publish which
returns has sent everything is `Progress`: while it is under way, what precedes `index` in the
batch is out and something is left; when the last chunk is accepted, that is all of it.
A batch is the sequence of a set of events (`BatchOf`), which needs the clubs
to be finite.

`KeepsCatchUpPromise` maps the command to `CatchUp`: what is owed, sent and missed. That DONE
may be said is `CatchUpInv`. A job that is still to be invoked will know every club that is owed
something: a cached list lacks only clubs listed since it was read (`CacheFresh`), and the time a
club has been listed plus what is left of the pause is no less than a cache lives (`Known`). A job
under way still has the club in its list, has its event in the batch, or has sent or missed it
(`InHand`); a job that has answered has sent or missed it (`Accounted`); and there will be a season
for the schedules (`Seasoned`). What is out of the current batch counts as sent (`OutIsSent`).

The theorems rest on the named assumptions of the modules (`MatchAssumption`,
`PolicyAssumption`, `RefreshAssumption`, `WindowAssumption`, `ClubsAssumption`, `TeamsAssumption`,
`RegistrationAssumption`, `PublisherAssumption`, `FullSyncAssumption`), which the
runs evaluate.

`RefreshAssumption` and `ClubsAssumption` say, among other things, that `Absent` is no row and no
address, as `undefined` is none in the code.

Only model-checked: liveness (`EventuallySettled`, `EventuallyConverged`, `EventuallyIndexed`,
`EventuallyServed`, `CommandEnds`, `SeasonCatchesUp`), which TLAPS does not reach. Every
invariant and action property of a passing run has a theorem; four of them are conditional
(`OneRun`, `OneAtATime`), as the properties are false otherwise, and two need the policy to be
ordered (`WindowsNested`). The four properties the code violates are the subject of runs alone.

## Not modelled

In the modelled part: the thirty-day TTL of match rows (a snapshot a week renews them),
the early return without registered clubs, the `seasonUuid` filter of schedules and a
change of season, delivery by EventBridge and SQS after the send (redelivery, order), a
lagging index. Parts that are declarative, stateless or pure I/O are named as such in
`PROJECT.json`.

## Plan

1. *Done:* `MatchPlanner`, `MatchWindow`, `MatchRefresh`, with proofs.
2. *Done:* `ClubsSync`, with the proof about logo copies. Left: an abstract `ClubFeed` (the
   consumer's club follows the row) as a refinement target under the condition that no
   failure falls between write and send.
3. *Done:* `TeamsSync` with the teams stored by ranking projections, with the proof about
   removals. Left: the expiry of season rows, and a lagging index.
4. *Done:* `Registration` with the configuration cache and the routing, with the proofs of its
   safety properties.
5. *Done:* `Publisher` with its abstract specification `Outbox`, and the refinement proved.
6. *Done:* `FullSync` over the jobs and the publisher, with its abstract specification `CatchUp`,
   and the refinement proved.
7. `DeliveredView`, the abstract specification of what a consumer is promised, which
   `MatchRefresh` implements for one run at a time.

Proofs: done for what the runs check, as far as it is safety. Left: the same for the abstract
`ClubFeed` and `DeliveredView`, once they are stated.
