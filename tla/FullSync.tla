-------------------------------- MODULE FullSync --------------------------------
(***************************************************************************)
(* The full-sync command (src/cli/full-sync.ts) and what it sets in motion: *)
(* the teams sync and the match snapshot, as far as the clubs and the      *)
(* season go they work for, the configuration their containers keep for    *)
(* thirty seconds, and the publisher they send with.                       *)
(*                                                                         *)
(* The command reads two parameters, invokes the coordinator of the clubs  *)
(* sync, waits, and invokes the other two.  An invocation that is throttled *)
(* is tried again; any other error ends the command, and the job it was    *)
(* waiting for, if there is one, goes on without it.                       *)
(*                                                                         *)
(* Time is counted in units; what is older than CacheTime is not told      *)
(* apart.  Events are those owed to a club: its teams, its rosters and its *)
(* schedule.  The clubs job stands for its coordinator, which sends none.  *)
(*                                                                         *)
(* Bounds: a command begins when no job of an earlier one is running; SAMS  *)
(* has MaxSeason seasons, and changes them between two commands.           *)
(***************************************************************************)
EXTENDS Publisher, SequencesExt

CONSTANTS
    Clubs,         \* club uuids
    Settled,       \* clubs registered long before the model starts
    Unsteady,      \* clubs that SAMS may stop to list, and list again
    Absent,        \* not registered, nothing cached
    CacheTime,     \* CACHE_MS
    Cooldown,      \* clubsCooldownMs
    RetryTime,     \* invokeRetryMs
    Retries,       \* invokeRetries
    MaxSeason      \* bound: season changes in SAMS

Jobs == {"clubs", "teams", "match"}

\* Jobs that send events of clubs.
Serving == {"teams", "match"}

\* The kinds of events a job sends for each of its clubs.
Kinds == {"teams", "rosters", "schedule"}

KindsOf == [teams |-> {"teams", "rosters"}, match |-> {"schedule"}]

Seasons == 1 .. MaxSeason

ASSUME FullSyncAssumption ==
    /\ Events = [kind : Kinds, club : Clubs, season : Seasons]
    /\ IsFiniteSet(Clubs)
    /\ Settled \subseteq Clubs
    /\ Unsteady \subseteq Clubs
    /\ CacheTime \in Nat \ {0}
    /\ Absent \notin Nat
    /\ Cooldown \in Nat /\ Cooldown >= CacheTime
    /\ RetryTime \in Nat
    /\ Retries \in Nat \ {0}
    /\ MaxSeason \in Nat \ {0}

VARIABLES
    listed,    \* [Clubs -> how long the club is in sync/clubs, or Absent]
    rows,      \* clubs table: clubs that have their row
    warm,      \* [Serving -> what the job's container has cached, or Absent]
    season,    \* the current season of SAMS, numbered in the order of names
    seasons,   \* seasons table: rows with currentSeason
    cli,       \* local state of the command
    call,      \* local state of the job it has invoked
    outcome,   \* history: how the latest command ended
    owed,      \* history: events it is to send, unless it failed
    sent,      \* history: events accepted while it was running
    missed      \* history: events that its jobs passed over without an error

world == <<listed, rows, season>>
history == <<outcome, owed, sent, missed>>
vars == <<publisher, world, warm, seasons, cli, call, history>>

Registered == {c \in Clubs : listed[c] # Absent}

IdleCli ==
    [pc      |-> "idle",
     todo    |-> {},      \* jobs still to be invoked, the current one included
     attempt |-> 1,
     wait    |-> 0]       \* what is left of a sleep

NoCall ==
    [pc     |-> "none",
     fn     |-> "clubs",
     clubs  |-> {},      \* config.clubs of the job
     season |-> 1]

MatchFirst(todo) ==
    IF "clubs" \in todo THEN "clubs" ELSE IF "match" \in todo THEN "match" ELSE "teams"

\* Clubs, teams, match: the order runFullSync invokes them in.
NextJob(todo) ==
    IF "clubs" \in todo THEN "clubs" ELSE IF "teams" \in todo THEN "teams" ELSE "match"

-----------------------------------------------------------------------------
(* SAMS, the operators, time.                                              *)

\* register.ts takes the club from the clubs table.
Register(c) ==
    /\ listed[c] = Absent
    /\ c \in rows
    /\ listed' = [listed EXCEPT ![c] = 0]
    /\ UNCHANGED <<publisher, rows, season, warm, seasons, cli, call, history>>

\* A worker of the clubs sync stores the club's row (again).
SyncRow(c) ==
    /\ c \in Unsteady \ rows
    /\ rows' = rows \cup {c}
    /\ UNCHANGED <<publisher, listed, season, warm, seasons, cli, call, history>>

\* No worker deletes a row: DynamoDB does, when the ttl of a row that no worker has
\* renewed since SAMS stopped to list the club has passed.
ExpireRow(c) ==
    /\ c \in Unsteady \cap rows
    /\ rows' = rows \ {c}
    /\ UNCHANGED <<publisher, listed, season, warm, seasons, cli, call, history>>

NewSeason ==
    /\ cli.pc = "idle"
    /\ call.pc = "none"
    /\ season < MaxSeason
    /\ season' = season + 1
    /\ UNCHANGED <<publisher, listed, rows, warm, seasons, cli, call, history>>

NeverExpires(s) == FALSE

\* A row that syncs do not renew any more is deleted some time after the thirty
\* days of its ttl.
Expires(s) ==
    /\ s \in seasons
    /\ s # season

ExpireSeason(s) ==
    /\ Expires(s)
    /\ seasons' = seasons \ {s}
    /\ UNCHANGED <<publisher, world, warm, cli, call, history>>

\* seasons.upsert of the teams sync: other rows keep their flag.
WithSeason(stored, s) == stored \cup {s}

\* The nightly teams sync stores the season.
NightlySync ==
    /\ season \notin seasons
    /\ seasons' = WithSeason(seasons, season)
    /\ UNCHANGED <<publisher, world, warm, cli, call, history>>

Older(age) == IF age < CacheTime THEN age + 1 ELSE CacheTime

\* A unit of time passes; an entry as old as CacheTime is not used any more.
Tick ==
    /\ listed' = [c \in Clubs |-> IF listed[c] = Absent THEN Absent ELSE Older(listed[c])]
    /\ warm' = [f \in Serving |->
                  IF warm[f] = Absent \/ warm[f].age + 1 >= CacheTime THEN Absent
                  ELSE [warm[f] EXCEPT !.age = @ + 1]]
    /\ cli' = [cli EXCEPT !.wait = IF @ > 0 THEN @ - 1 ELSE 0]
    /\ UNCHANGED <<publisher, rows, season, seasons, call, history>>

-----------------------------------------------------------------------------
(* The command.                                                            *)

\* Without the wait, jobs may meet the list as it was before a registration.
CooldownBeforeTeams(job, todo) == IF job = "clubs" /\ "teams" \in todo THEN Cooldown ELSE 0

\* The wait after the coordinator, before the jobs that follow.
CooldownAfter(job, todo) == IF job = "clubs" THEN Cooldown ELSE 0

\* The command rejects.
Fails ==
    /\ cli' = IdleCli
    /\ outcome' = "failed"
    /\ owed' = {}
    /\ sent' = {}
    /\ missed' = {}

\* What follows a job that returned, or the parameters.
Proceed(todo, wait) ==
    /\ IF todo = {}
       THEN /\ cli' = IdleCli
            /\ outcome' = "done"
       ELSE /\ cli' = [pc |-> "invoke", todo |-> todo, attempt |-> 1, wait |-> wait]
            /\ UNCHANGED outcome
    /\ UNCHANGED <<owed, sent, missed>>

\* What a job sends for the clubs it knows.
EventsOf(job, clubs, s) == [kind : KindsOf[job], club : clubs, season : {s}]

\* Clubs that every container knows once the command comes to its other jobs:
\* those in the list, or without the wait those in it for long enough.
Visible(todo) ==
    IF "clubs" \in todo THEN Registered ELSE {c \in Clubs : listed[c] = CacheTime}

\* A snapshot knows the season if the teams sync stores it first, or one did before.
SeasonedJobs(jobs) == IF "teams" \in jobs \/ season \in seasons THEN jobs ELSE jobs \ {"match"}

\* What the arguments choose besides the constants: --skip-clubs, --skip-teams,
\* --skip-match.  With others the command does not begin.
Flags == SUBSET Jobs

\* The command begins.
runFullSync(skip) ==
    /\ cli.pc = "idle"
    /\ call.pc = "none"
    /\ cli' = [IdleCli EXCEPT !.pc = "parameters", !.todo = Jobs \ skip]
    /\ outcome' = "running"
    /\ owed' = UNION {EventsOf(f, Visible(Jobs \ skip), season) : f \in SeasonedJobs(Serving \ skip)}
    /\ sent' = {}
    /\ missed' = {}
    /\ UNCHANGED <<publisher, world, warm, seasons, call>>

\* Both parameters are read and printed; one that is missing ends the command.
getParameter ==
    /\ cli.pc = "parameters"
    /\ \/ /\ Registered # {}
          /\ Proceed(cli.todo, 0)
       \/ Fails
    /\ UNCHANGED <<publisher, world, warm, seasons, call>>

\* The sleep is over and Lambda takes the request.
Invoke ==
    /\ cli.pc = "invoke"
    /\ cli.wait = 0
    /\ call.pc = "none"
    /\ call' = [NoCall EXCEPT !.pc = "config", !.fn = NextJob(cli.todo)]
    /\ cli' = [cli EXCEPT !.pc = "answer"]
    /\ UNCHANGED <<publisher, world, warm, seasons, history>>

SameAttempt(n) == n

NextAttempt(n) == n + 1

OneAttemptMore(n) == n > Retries

LastAttempt(n) == n >= Retries

\* invokeWithRetry: a throttled request is sent again after a sleep, so that
\* invokeRetries is the number of requests in all.
Throttled ==
    /\ cli.pc = "invoke"
    /\ cli.wait = 0
    /\ IF LastAttempt(cli.attempt) THEN Fails
       ELSE /\ cli' = [cli EXCEPT !.attempt = NextAttempt(@), !.wait = RetryTime]
            /\ UNCHANGED history
    /\ UNCHANGED <<publisher, world, warm, seasons, call>>

\* assertInvokeOk, and the next job after a successful one.
Answer ==
    /\ cli.pc = "answer"
    /\ call.pc \in {"returned", "threw"}
    /\ IF call.pc = "returned"
       THEN LET todo == cli.todo \ {call.fn}
            IN Proceed(todo, CooldownAfter(call.fn, todo))
       ELSE Fails
    /\ call' = NoCall
    /\ UNCHANGED <<publisher, world, warm, seasons>>

\* Any other error of a request, an answer that does not come, or the operator.
Stops ==
    /\ cli.pc # "idle"
    /\ Fails
    /\ UNCHANGED <<publisher, world, warm, seasons, call>>

\* A job that nobody waits for ends.
Unattended ==
    /\ cli.pc # "answer"
    /\ call.pc \in {"returned", "threw"}
    /\ call' = NoCall
    /\ UNCHANGED <<publisher, world, warm, seasons, cli, history>>

-----------------------------------------------------------------------------
(* The jobs.                                                               *)

\* The configuration a run works with: what its container has cached, or, also
\* in a new container, what the parameter says now.  An unreadable list is empty.
loadProviderRuntimeConfig(f) ==
    ({warm[f]} \ {Absent})
        \cup {[clubs |-> Registered, readable |-> TRUE, age |-> 0],
              [clubs |-> {}, readable |-> FALSE, age |-> 0]}

\* A run of the job's own rule loads the configuration.
OtherRun(f) ==
    /\ \E config \in loadProviderRuntimeConfig(f) : warm' = [warm EXCEPT ![f] = config]
    /\ UNCHANGED <<publisher, world, seasons, cli, call, history>>

\* Dues of the command that a job passes over.
PassedOver(kinds, clubs) ==
    missed' = IF outcome = "running" THEN missed \cup (kinds \X clubs) ELSE missed

\* The coordinator is done with its configuration; the jobs that serve clubs
\* return at once when there is none.
LoadConfig ==
    /\ call.pc = "config"
    /\ call.fn \in Serving
    /\ \E config \in loadProviderRuntimeConfig(call.fn) :
        /\ warm' = [warm EXCEPT ![call.fn] = config]
        /\ call' = [call EXCEPT !.pc = IF config.clubs = {} THEN "returned" ELSE "season",
                                !.clubs = config.clubs]
        /\ PassedOver(KindsOf[call.fn], IF config.readable THEN {} ELSE Clubs)
    /\ UNCHANGED <<publisher, world, seasons, cli, outcome, owed, sent>>

Coordinate ==
    /\ call.pc = "config"
    /\ call.fn = "clubs"
    /\ call' = [call EXCEPT !.pc = "returned"]
    /\ UNCHANGED <<publisher, world, warm, seasons, cli, history>>

\* Whether s is found: the first row with the flag, in the order of names; SAMS is
\* asked when there is none.
resolveCurrentSeason(s) ==
    IF seasons = {} THEN s = season ELSE s \in seasons /\ \A t \in seasons : s <= t

\* The teams sync works for the clubs that have their row and throws when none has.
\* It takes the season SAMS calls current, and stores it.
StoreSeason ==
    /\ call.pc = "season"
    /\ call.fn = "teams"
    /\ IF call.clubs \cap rows = {}
       THEN /\ call' = [call EXCEPT !.pc = "threw"]
            /\ UNCHANGED <<seasons, missed>>
       ELSE /\ seasons' = WithSeason(seasons, season)
            /\ call' = [call EXCEPT !.pc = "build", !.clubs = @ \cap rows, !.season = season]
            /\ PassedOver(KindsOf["teams"], call.clubs \ rows)
    /\ UNCHANGED <<publisher, world, warm, cli, outcome, owed, sent>>

\* A snapshot that finds no season, since none is stored and SAMS does not tell
\* one, publishes an empty batch and is a success; what it does not send is what
\* the teams sync of the command passed over, if there was one.
FindSeason ==
    /\ call.pc = "season"
    /\ call.fn = "match"
    /\ \/ /\ \E s \in Seasons :
                /\ resolveCurrentSeason(s)
                /\ call' = [call EXCEPT !.pc = "build", !.season = s]
          /\ UNCHANGED missed
       \/ /\ seasons = {}
          /\ call' = [call EXCEPT !.pc = "returned"]
          /\ PassedOver(KindsOf["match"], {c \in Clubs : <<"teams", c>> \in missed})
    /\ UNCHANGED <<publisher, world, warm, seasons, cli, outcome, owed, sent>>

\* All events are made, and their payloads parsed, before the first is sent.  The
\* snapshot leaves out clubs without a row.
createEventEnvelope ==
    LET skipped == IF call.fn = "match" THEN call.clubs \ rows ELSE {}
    IN  /\ call.pc = "build"
        /\ Publish(SetToSeq(EventsOf(call.fn, call.clubs \ skipped, call.season)))
        /\ call' = [call EXCEPT !.pc = "publish"]
        /\ PassedOver(KindsOf[call.fn], skipped)
        /\ UNCHANGED <<world, warm, seasons, cli, outcome, owed, sent>>

Send ==
    /\ call.pc = "publish"
    /\ PutEvents \/ CutOff
    /\ sent' = IF outcome = "running" THEN sent \cup out' ELSE sent
    /\ UNCHANGED <<world, warm, seasons, cli, call, outcome, owed, missed>>

\* publish has returned or thrown; the meta entry of a success is the last step.
Finish ==
    /\ call.pc = "publish"
    /\ verdict # "pending"
    /\ call' = [call EXCEPT !.pc = IF verdict = "ok" THEN "returned" ELSE "threw"]
    /\ Discard
    /\ UNCHANGED <<world, warm, seasons, cli, history>>

\* An error at any other await, a payload its schema rejects, or the time limit.
JobThrows ==
    /\ call.pc \in {"config", "season", "build"} \/ (call.pc = "publish" /\ verdict = "ok")
    /\ call' = [call EXCEPT !.pc = "threw"]
    /\ Discard
    /\ UNCHANGED <<world, warm, seasons, cli, history>>

-----------------------------------------------------------------------------

Init ==
    /\ NothingPublished
    /\ listed = [c \in Clubs |-> IF c \in Settled THEN CacheTime ELSE Absent]
    /\ warm = [f \in Serving |-> Absent]
    /\ rows = Clubs
    /\ season = 1
    /\ seasons \in {{}, {1}}
    /\ cli = IdleCli
    /\ call = NoCall
    /\ outcome = "none"
    /\ owed = {}
    /\ sent = {}
    /\ missed = {}

Command ==
    \/ getParameter \/ Invoke \/ Throttled \/ Answer

Job ==
    \/ LoadConfig \/ Coordinate \/ StoreSeason \/ FindSeason \/ createEventEnvelope \/ Send \/ Finish
    \/ Unattended

Next ==
    \/ \E c \in Clubs : Register(c) \/ SyncRow(c) \/ ExpireRow(c)
    \/ NewSeason
    \/ \E s \in Seasons : ExpireSeason(s)
    \/ NightlySync
    \/ Tick
    \/ \E skip \in Flags : runFullSync(skip)
    \/ Command
    \/ Stops
    \/ \E f \in Serving : OtherRun(f)
    \/ Job
    \/ JobThrows

Spec == Init /\ [][Next]_vars

\* Time passes, the command and a job go on, and DynamoDB deletes what is due.
Fairness ==
    /\ WF_vars(Tick)
    /\ WF_vars(Command)
    /\ WF_vars(Job)
    /\ \A s \in Seasons : WF_vars(ExpireSeason(s))

FairSpec == Spec /\ Fairness

-----------------------------------------------------------------------------
(* Properties.                                                             *)

Configs == [clubs : SUBSET Clubs, readable : BOOLEAN, age : 0 .. CacheTime]

CliState ==
    [pc      : {"idle", "parameters", "invoke", "answer"},
     todo    : SUBSET Jobs,
     attempt : 1 .. Retries,
     wait    : Nat]

CallState ==
    [pc     : {"none", "config", "season", "build", "publish", "returned", "threw"},
     fn     : Jobs,
     clubs  : SUBSET Clubs,
     season : Seasons]

\* Every variable has its type; the command makes no more than Retries requests for a
\* job, and a job past its configuration is one that serves clubs.
TypeOK ==
    /\ PublisherTypeOK
    /\ listed \in [Clubs -> 0 .. CacheTime \cup {Absent}]
    /\ warm \in [Serving -> Configs \cup {Absent}]
    /\ rows \subseteq Clubs
    /\ season \in Seasons
    /\ seasons \subseteq Seasons
    /\ cli \in CliState
    /\ call \in CallState
    /\ call.pc \in {"season", "build", "publish"} => call.fn \in Serving
    /\ outcome \in {"none", "running", "done", "failed"}
    /\ owed \subseteq Events
    /\ sent \subseteq Events
    /\ missed \subseteq Kinds \X Clubs

\* The clubs and kinds of some events; for which season is not told apart.
Dues(events) == {<<e.kind, e.club>> : e \in events}

AsCatchUp == INSTANCE CatchUp WITH owed <- Dues(owed), served <- Dues(sent)

\* DONE means what an operator takes it for: every club registered before the
\* command (with --skip-clubs, thirty seconds before) has been sent its teams,
\* rosters and schedule by the jobs that were not skipped, in whatever state the
\* containers' caches were and however often requests were throttled.  Jobs pass over
\* a club without an error in two cases only: the parameter with the list could not
\* be read, or the club has lost its row in the clubs table.
KeepsCatchUpPromise == AsCatchUp!Spec

\* A command comes to an end: throttling cannot hold it up for ever.
CommandEnds == outcome = "running" ~> outcome # "running"

\* However often the season changes, in the end snapshots and refreshes work for the
\* season SAMS calls current: the rows of earlier ones go away, and only then.
SeasonCatchesUp == <>[]resolveCurrentSeason(season)

\* docs/consumers/events.md: a manual full sync sends all stored fixtures for the
\* current season.  After DONE, when no job passed over anything, what each club was
\* owed has been sent for the season that was current, and not for one that is over.
DoneForCurrentSeason == outcome = "done" /\ missed = {} => owed \subseteq sent

=============================================================================
