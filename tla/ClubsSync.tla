----------------------------- MODULE ClubsSync -----------------------------
(***************************************************************************)
(* The index of all clubs: associations-sync, the clubs-sync coordinator,  *)
(* one clubs-sync worker per association (src/sync/clubs.ts), and the      *)
(* register CLI as far as it writes a club row.                            *)
(*                                                                         *)
(* The coordinator reads the associations and the registered clubs and     *)
(* invokes the workers asynchronously; Lambda runs a failed invocation     *)
(* again, at most twice, and EventBridge does so with the coordinator.  A  *)
(* worker compares the pages SAMS returns with the rows it scanned at its  *)
(* start, writes rows page by page, and publishes once at the end.         *)
(*                                                                         *)
(* A row's association stands for its associationUuid and associationName: *)
(* SAMS lists a club under the association it belongs to.  A logo is the   *)
(* address of its image, and key says that a copy of it is in the bucket.  *)
(***************************************************************************)
EXTENDS Naturals

CONSTANTS
    Clubs,            \* clubs SAMS knows
    Associations,     \* associations SAMS knows
    Names,            \* names a club may have
    Urls,             \* addresses of logos
    ProfilesOf,       \* [Clubs -> profiles SAMS may show for the club]
    PageOf,           \* [Clubs -> Nat]: the page of its association's list
    KnownClubs,       \* clubs stored when the model starts
    RegisteredClubs,  \* clubs registered when the model starts
    Applicants,       \* clubs a consumer may register meanwhile
    Slots,            \* bound: worker invocations at the same time
    Prod,             \* whether the environment is prod
    ManualSync,       \* whether an operator starts syncs while one is going on
    Absent,           \* no row, no logo, no event
    MaxChanges,       \* bound: changed profiles
    MaxFailures       \* bound: failed requests and invocations

Profile == [name : Names, assoc : Associations, url : Urls \cup {Absent}]

Row == [name : Names, assoc : Associations, url : Urls \cup {Absent}, key : BOOLEAN]

ASSUME ClubsAssumption ==
    /\ ProfilesOf \in [Clubs -> (SUBSET Profile) \ {{}}]
    /\ PageOf \in [Clubs -> Nat]
    /\ RegisteredClubs \subseteq KnownClubs
    /\ KnownClubs \subseteq Clubs
    /\ Applicants \subseteq Clubs
    /\ Slots \subseteq Nat
    /\ Prod \in BOOLEAN
    /\ ManualSync \in BOOLEAN
    /\ Absent \notin Urls \cup Row
    /\ MaxChanges \in Nat
    /\ MaxFailures \in Nat

VARIABLES
    sams,          \* [Clubs -> profile]: what SAMS would answer
    associations,  \* the associations table
    rows,          \* [Clubs -> row or Absent]: the clubs table
    bucket,        \* [Clubs -> address the mirrored logo was taken from, or Absent]
    config,        \* registered clubs, parameter sync/clubs
    status,        \* meta jobs clubs-{associationUuid}, clubs-coordinator, associations
    feed,          \* [Clubs -> projection in the last clubUpdated, or Absent]
    coord,         \* local state of the coordinator
    worker,        \* [Slots -> local state of a worker invocation]
    cli,           \* local state of a registration
    changes,       \* changed profiles so far
    failures       \* failures so far

vars == <<sams, associations, rows, bucket, config, status, feed, coord,
          worker, cli, changes, failures>>
world == <<sams, changes>>
tables == <<associations, rows, bucket, config>>

\* An asynchronous invocation is run again at most twice.
MaxRetries == 2

Coordinator == "clubs-coordinator"
AssociationsJob == "associations"

Jobs == Associations \cup {Coordinator, AssociationsJob}

RawProjection(row) == row

\* What clubUpdated says of a row; the mirrored logo hides the address it came from.
Projection(row) ==
    [name  |-> row.name,
     assoc |-> row.assoc,
     key   |-> row.key,
     url   |-> IF row.key THEN Absent ELSE row.url]

\* No entry yet, and f with the entry of x replaced or added.
NoEntries == [c \in {} |-> Absent]

With(f, x, y) == [z \in DOMAIN f \cup {x} |-> IF z = x THEN y ELSE f[z]]

Without(f, x) == [z \in DOMAIN f \ {x} |-> f[z]]

IdleCoordinator ==
    [pc         |-> "idle",
     tries      |-> 0,
     registered |-> {},     \* registeredClubUuids
     found      |-> {},     \* associations listed
     left       |-> {}]     \* of these, the ones without a worker yet

IdleWorker ==
    [pc         |-> "idle",
     tries      |-> 0,
     assoc      |-> Absent,
     registered |-> {},         \* registeredClubUuids of the payload
     existing   |-> NoEntries,  \* existingClubs, by club
     page       |-> 0,          \* currentPage
     more       |-> FALSE,      \* hasMorePages
     list       |-> NoEntries,  \* clubs on the page not looked at yet
     items      |-> NoEntries,  \* pageItems not upserted yet
     events     |-> NoEntries]  \* projections to be announced, by club

IdleCli == [pc |-> "idle", club |-> Absent, name |-> Absent, assoc |-> Absent]

InFlight == {w \in Slots : worker[w].pc # "idle"}

WorkersOf(a) == {w \in InFlight : worker[w].assoc = a}

\* Requests succeed or, within the bound, fail.
Answers == IF failures < MaxFailures THEN BOOLEAN ELSE {TRUE}

Count(ok) == failures' = IF ok THEN failures ELSE failures + 1

-----------------------------------------------------------------------------
(* SAMS, associations-sync and the registration of a consumer.             *)

ChangeProfile(c) ==
    /\ changes < MaxChanges
    /\ \E p \in ProfilesOf[c] \ {sams[c]} : sams' = [sams EXCEPT ![c] = p]
    /\ changes' = changes + 1
    /\ UNCHANGED <<tables, status, feed, coord, worker, cli, failures>>

\* All pages are listed before the first upsert; upserts are one by one.
AssociationsSync ==
    /\ \E listed \in SUBSET Associations :
        LET ok == listed = Associations
        IN  /\ ok \in Answers
            /\ associations' = associations \cup listed
            /\ status' = [status EXCEPT ![AssociationsJob] = IF ok THEN "success" ELSE "failure"]
            /\ Count(ok)
    /\ UNCHANGED <<world, rows, bucket, config, feed, coord, worker, cli>>

\* resolveClub finds only clubs of the index.
ResolveForRegistration(c) ==
    /\ cli.pc = "idle"
    /\ rows[c] # Absent
    /\ cli' = [pc |-> "resolved", club |-> c, name |-> rows[c].name, assoc |-> rows[c].assoc]
    /\ UNCHANGED <<world, tables, status, feed, coord, worker, failures>>

\* The list that is written back with the club; empty if it cannot be read.
readClubs(readable) == IF readable THEN config ELSE {}

PutClubs ==
    /\ cli.pc = "resolved"
    /\ \E readable \in Answers :
        /\ config' = {cli.club} \cup readClubs(readable)
        /\ Count(readable)
    /\ cli' = [cli EXCEPT !.pc = "saved"]
    /\ UNCHANGED <<world, associations, rows, bucket, status, feed, coord, worker>>

\* The stub replaces the row by what clubFromIndex has kept of it.
Stub == [name |-> cli.name, assoc |-> cli.assoc, url |-> Absent, key |-> FALSE]

upsertClubStub ==
    /\ cli.pc = "saved"
    /\ rows' = [rows EXCEPT ![cli.club] = Stub]
    /\ cli' = [cli EXCEPT !.pc = "done"]
    /\ UNCHANGED <<world, associations, bucket, config, status, feed, coord, worker, failures>>

-----------------------------------------------------------------------------
(* The coordinator.                                                        *)

\* The weekly rule finds the workers of the last sync done, an operator's
\* full-sync may not.
MayStart == ManualSync \/ InFlight = {}

\* A list of registered clubs that cannot be read counts as empty.
loadProviderRuntimeConfig(readable) == IF readable THEN config ELSE {}

CoordinatorStarts ==
    /\ \/ coord.pc = "idle" /\ MayStart
       \/ coord.pc = "retry"
    /\ \E readable \in Answers :
        /\ coord' = [coord EXCEPT !.pc = "invoke",
                                  !.registered = loadProviderRuntimeConfig(readable),
                                  !.found = associations,
                                  !.left = associations]
        /\ Count(readable)
    /\ UNCHANGED <<world, tables, status, feed, worker, cli>>

\* requireAssociationsForClubsSync.
Refused == Prod /\ coord.found = {}

\* An invocation that failed is run again, from the start.
RetryCoordinator ==
    coord' = IF coord.tries < MaxRetries
             THEN [IdleCoordinator EXCEPT !.pc = "retry", !.tries = coord.tries + 1]
             ELSE IdleCoordinator

FreeSlots == Slots \ InFlight

\* One worker per association, with the clubs registered when the coordinator began.
InvokeWorker ==
    /\ coord.pc = "invoke"
    /\ FreeSlots # {}
    /\ \E a \in coord.left :
        LET w == CHOOSE v \in FreeSlots : \A u \in FreeSlots : v <= u
        IN  /\ worker' = [worker EXCEPT ![w] =
                    [IdleWorker EXCEPT !.pc = "queued", !.assoc = a,
                                       !.registered = coord.registered]]
            /\ coord' = [coord EXCEPT !.left = @ \ {a}]
    /\ UNCHANGED <<world, tables, status, feed, cli, failures>>

\* clubsSyncCompleted, which no consumer receives, and the meta entry.
CoordinatorEnds ==
    /\ coord.pc = "invoke"
    /\ coord.left = {}
    /\ ~Refused
    /\ status' = [status EXCEPT ![Coordinator] = "success"]
    /\ coord' = IdleCoordinator
    /\ UNCHANGED <<world, tables, feed, worker, cli, failures>>

CoordinatorRefuses ==
    /\ coord.pc = "invoke"
    /\ Refused
    /\ status' = [status EXCEPT ![Coordinator] = "failure"]
    /\ RetryCoordinator
    /\ UNCHANGED <<world, tables, feed, worker, cli, failures>>

CoordinatorFails ==
    /\ coord.pc = "invoke"
    /\ failures < MaxFailures
    /\ Count(FALSE)
    /\ status' \in {status, [status EXCEPT ![Coordinator] = "failure"]}
    /\ RetryCoordinator
    /\ UNCHANGED <<world, tables, feed, worker, cli>>

-----------------------------------------------------------------------------
(* A worker.                                                               *)

\* Worker w goes on in local state s.
Continue(w, s) == worker' = [worker EXCEPT ![w] = s]

AfterFirstPage(s) == [s EXCEPT !.pc = IF s.items # NoEntries THEN "save" ELSE "publish"]

\* What follows the last upsert of a page, and the last club on it.
AfterItems(s) ==
    IF s.items # NoEntries THEN [s EXCEPT !.pc = "save"]
    ELSE IF s.more THEN [s EXCEPT !.pc = "page"] ELSE [s EXCEPT !.pc = "publish"]

AfterClub(s) ==
    IF s.list # NoEntries THEN [s EXCEPT !.pc = "club"] ELSE AfterItems(s)

\* The payload is read and all rows are scanned.
WorkerStarts(w) ==
    /\ worker[w].pc = "queued"
    /\ Continue(w, [worker[w] EXCEPT !.pc = "page", !.existing = rows])
    /\ UNCHANGED <<world, tables, status, feed, coord, cli, failures>>

\* The list may leave out the logo of a club that has one.
FetchPage(w) ==
    /\ worker[w].pc = "page"
    /\ LET s      == worker[w]
           ofA    == {c \in Clubs : sams[c].assoc = s.assoc}
           onPage == {c \in ofA : PageOf[c] = s.page}
           more   == \E c \in ofA : PageOf[c] > s.page
       IN  \E shown \in SUBSET {c \in onPage : sams[c].url # Absent} :
            Continue(w, AfterClub([s EXCEPT
                !.list = [c \in onPage |-> [name |-> sams[c].name,
                                            url  |-> IF c \in shown THEN sams[c].url ELSE Absent]],
                !.page = @ + 1,
                !.more = more]))
    /\ UNCHANGED <<world, tables, status, feed, coord, cli, failures>>

StoredUrl(s, c) == IF s.existing[c] = Absent THEN Absent ELSE s.existing[c].url

StoredKey(s, c) == s.existing[c] # Absent /\ s.existing[c].key

\* clubDataSnapshot against the row that was scanned.
DataChanged(s, c) ==
    \/ s.existing[c] = Absent
    \/ s.existing[c].name # s.list[c].name
    \/ s.existing[c].assoc # s.assoc

\* resolveLogoForClub asks for the club's details when neither the list nor
\* the scanned row has a logo.
NeedsDetail(s, c) ==
    DataChanged(s, c) /\ s.list[c].url = Absent /\ StoredUrl(s, c) = Absent

\* The fresh address of a club's logo, if any; an unchanged club is not asked for one.
IncomingUrl(s, c, fetched) ==
    IF ~DataChanged(s, c) THEN Absent
    ELSE IF NeedsDetail(s, c) /\ fetched THEN sams[c].url
    ELSE s.list[c].url

OnlyIncomingUrl(s, c, incoming) == incoming

\* resolveClubLogo: what was stored stays unless there is a fresh address.
ResolvedUrl(s, c, incoming) == IF incoming # Absent THEN incoming ELSE StoredUrl(s, c)

KeyBeforeUpload(s, c, incoming, uploaded) == incoming # Absent \/ StoredKey(s, c)

\* A logo that could not be copied leaves the key as it was.
HasKey(s, c, incoming, uploaded) == (incoming # Absent /\ uploaded) \/ StoredKey(s, c)

Item(s, c, incoming, uploaded) ==
    [name  |-> s.list[c].name,
     assoc |-> s.assoc,
     url   |-> ResolvedUrl(s, c, incoming),
     key   |-> HasKey(s, c, incoming, uploaded)]

AnnouncesNewClub(s, c, item) == c \in s.registered /\ s.existing[c] = Absent

\* clubProjectionSnapshot, for registered clubs only.
Announces(s, c, item) == c \in s.registered /\ s.existing[c] # item

\* A club of the page: the request for its details and the mirroring of its
\* logo may fail without the worker noticing.
ResolveClub(w) ==
    /\ worker[w].pc = "club"
    /\ LET s == worker[w]
       IN  \E c \in DOMAIN s.list :
           \E fetched \in IF NeedsDetail(s, c) THEN Answers ELSE {TRUE} :
            LET incoming == IncomingUrl(s, c, fetched)
            IN  \E uploaded \in IF incoming # Absent THEN Answers ELSE {TRUE} :
                LET item == Item(s, c, incoming, uploaded)
                IN  /\ bucket' = IF incoming # Absent /\ uploaded
                                 THEN [bucket EXCEPT ![c] = incoming] ELSE bucket
                    /\ Continue(w, AfterClub([s EXCEPT
                          !.list   = Without(@, c),
                          !.items  = With(@, c, item),
                          !.events = IF Announces(s, c, item)
                                     THEN With(@, c, Projection(item)) ELSE @]))
                    /\ Count(fetched /\ uploaded)
    /\ UNCHANGED <<world, associations, rows, config, status, feed, coord, cli>>

\* upsertMany replaces the rows of a chunk concurrently.
SaveRow(w) ==
    /\ worker[w].pc = "save"
    /\ \E c \in DOMAIN worker[w].items :
        /\ rows' = [rows EXCEPT ![c] = worker[w].items[c]]
        /\ Continue(w, AfterItems([worker[w] EXCEPT !.items = Without(@, c)]))
    /\ UNCHANGED <<world, associations, bucket, config, status, feed, coord, cli, failures>>

\* Consumers after the events for clubs cs have gone out.
Delivered(s, cs) == [c \in Clubs |-> IF c \in cs THEN s.events[c] ELSE feed[c]]

Publish(w) ==
    /\ worker[w].pc = "publish"
    /\ feed' = Delivered(worker[w], DOMAIN worker[w].events)
    /\ Continue(w, [worker[w] EXCEPT !.pc = "record", !.events = NoEntries])
    /\ UNCHANGED <<world, tables, status, coord, cli, failures>>

RecordSuccess(w) ==
    /\ worker[w].pc = "record"
    /\ status' = [status EXCEPT ![worker[w].assoc] = "success"]
    /\ Continue(w, IdleWorker)
    /\ UNCHANGED <<world, tables, feed, coord, cli, failures>>

\* The invocation ends early and is run again from the start, or given up.
RetryWorker(w) ==
    Continue(w, IF worker[w].tries < MaxRetries
                THEN [IdleWorker EXCEPT !.pc = "queued", !.assoc = worker[w].assoc,
                                        !.registered = worker[w].registered,
                                        !.tries = worker[w].tries + 1]
                ELSE IdleWorker)

\* An error at any await, or the time limit, which like an error before the try
\* leaves the meta entry as it is.
WorkerFails(w) ==
    /\ w \in InFlight
    /\ failures < MaxFailures
    /\ Count(FALSE)
    /\ status' \in {status, [status EXCEPT ![worker[w].assoc] = "failure"]}
    /\ \E sent \in SUBSET DOMAIN worker[w].events :
        /\ sent = {} \/ worker[w].pc = "publish"
        /\ feed' = Delivered(worker[w], sent)
    /\ RetryWorker(w)
    /\ UNCHANGED <<world, tables, coord, cli>>

-----------------------------------------------------------------------------
Init ==
    /\ sams \in {f \in [Clubs -> Profile] : \A c \in Clubs : f[c] \in ProfilesOf[c]}
    /\ associations \in {{}, Associations}
    /\ rows = [c \in Clubs |->
          IF c \notin KnownClubs THEN Absent
          ELSE [name |-> sams[c].name, assoc |-> sams[c].assoc, url |-> sams[c].url,
                key  |-> sams[c].url # Absent]]
    /\ bucket = [c \in Clubs |-> IF c \in KnownClubs THEN sams[c].url ELSE Absent]
    /\ config = RegisteredClubs
    /\ status = [j \in Jobs |-> "none"]
    /\ feed = [c \in Clubs |-> IF c \in RegisteredClubs THEN Projection(rows[c]) ELSE Absent]
    /\ coord = IdleCoordinator
    /\ worker = [w \in Slots |-> IdleWorker]
    /\ cli = IdleCli
    /\ changes = 0
    /\ failures = 0

Register ==
    \/ \E c \in Applicants : ResolveForRegistration(c)
    \/ PutClubs
    \/ upsertClubStub

WorkerStep(w) ==
    \/ WorkerStarts(w)
    \/ FetchPage(w)
    \/ ResolveClub(w)
    \/ SaveRow(w)
    \/ Publish(w)
    \/ RecordSuccess(w)

Next ==
    \/ \E c \in Clubs : ChangeProfile(c)
    \/ AssociationsSync
    \/ Register
    \/ CoordinatorStarts
    \/ InvokeWorker
    \/ CoordinatorEnds
    \/ CoordinatorRefuses
    \/ CoordinatorFails
    \/ \E w \in Slots : WorkerStep(w)
    \/ \E w \in Slots : WorkerFails(w)

Spec == Init /\ [][Next]_vars

\* The rules fire every week, and an invocation goes on until it returns.
Fairness ==
    /\ WF_vars(AssociationsSync)
    /\ WF_vars(CoordinatorStarts)
    /\ WF_vars(InvokeWorker)
    /\ WF_vars(CoordinatorEnds)
    /\ WF_vars(CoordinatorRefuses)
    /\ \A w \in Slots : WF_vars(WorkerStep(w))

FairSpec == Spec /\ Fairness

-----------------------------------------------------------------------------
(* Properties.                                                             *)

\* Tables by club with values in V.
Tables(V) == UNION {[S -> V] : S \in SUBSET Clubs}

Entry == [name : Names, url : Urls \cup {Absent}]

\* A mirrored logo is announced by its copy alone, never by the address SAMS
\* gave (publicLogoUrl).
Announcement == {p \in Row : p.key => p.url = Absent}

Scanned == {"page", "club", "save", "publish", "record"}

CoordState ==
    [pc         : {"idle", "retry", "invoke"},
     tries      : 0..MaxRetries,
     registered : SUBSET Clubs,
     found      : SUBSET Associations,
     left       : SUBSET Associations]

WorkerState ==
    [pc         : {"idle", "queued"} \cup Scanned,
     tries      : 0..MaxRetries,
     assoc      : Associations \cup {Absent},
     registered : SUBSET Clubs,
     existing   : Tables(Row \cup {Absent}),
     page       : Nat,
     more       : BOOLEAN,
     list       : Tables(Entry),
     items      : Tables(Row),
     events     : Tables(Announcement)]

CliState ==
    [pc    : {"idle", "resolved", "saved", "done"},
     club  : Clubs \cup {Absent},
     name  : Names \cup {Absent},
     assoc : Associations \cup {Absent}]

\* Every variable has its type; a worker that has begun knows its association
\* and has scanned every club, and a registration knows its club.
TypeOK ==
    /\ sams \in [Clubs -> Profile]
    /\ associations \subseteq Associations
    /\ rows \in [Clubs -> Row \cup {Absent}]
    /\ bucket \in [Clubs -> Urls \cup {Absent}]
    /\ config \subseteq Clubs
    /\ status \in [Jobs -> {"none", "success", "failure"}]
    /\ feed \in [Clubs -> Announcement \cup {Absent}]
    /\ coord \in CoordState
    /\ worker \in [Slots -> WorkerState]
    /\ \A w \in InFlight : worker[w].assoc \in Associations
    /\ \A w \in Slots : worker[w].pc \in Scanned => DOMAIN worker[w].existing = Clubs
    /\ cli \in CliState
    /\ cli.pc # "idle" =>
        cli.club \in Clubs /\ cli.name \in Names /\ cli.assoc \in Associations
    /\ changes \in 0..MaxChanges
    /\ failures \in 0..MaxFailures

\* Neither a row nor what consumers were told names a copy of a logo that is not in
\* the bucket, whatever uploads fail, however late events go out, and however the
\* writes of workers and registrations fall together: consumers would have a dead
\* link (clubs.ts:153-161, 231).
LogoObjectExists ==
    \A c \in Clubs : \A r \in {rows[c], feed[c]} \ {Absent} : r.key => bucket[c] # Absent

HasLogo(c) == rows[c] # Absent /\ rows[c].url # Absent

\* Every worker that has read the rows has found a logo of the club.
FoundByWorkers(c) ==
    \A w \in Slots : worker[w].pc \in Scanned => StoredUrl(worker[w], c) # Absent

\* A stored logo that every worker at work has found, such as any logo stored
\* while none is at work, stays that way, although lists leave logos out, requests
\* for details fail, and workers write what they compared with an older scan
\* (preserve.ts:12-15) -- until a registration writes its stub.
LogoSurvivesSync ==
    [][\A c \in Clubs : HasLogo(c) /\ FoundByWorkers(c) =>
          \/ HasLogo(c)' /\ FoundByWorkers(c)'
          \/ upsertClubStub /\ cli.club = c]_vars

\* When an association's last sync has succeeded and none is going on, its
\* registered clubs have been announced as they are stored.
ChangesAnnounced ==
    \A a \in Associations :
        status[a] = "success" /\ WorkersOf(a) = {} =>
            \A c \in RegisteredClubs :
                rows[c].assoc = a => feed[c] = Projection(rows[c])

\* As long as no request and no invocation has failed, what is stored of a
\* registered club has been announced.  After a failure it need not be: rows are
\* stored first, and events sent only for what differs from the stored row.  It needs
\* syncs that do not overlap, clubs that keep their association, and registrations of
\* new clubs only (OneAtATime in ClubsSyncProofs).
AnnouncedUnlessFailed == failures = 0 => ChangesAnnounced

\* Once SAMS rests, every club is stored under its name and association: pages,
\* retries and stale writes of workers that overlap leave none out for good.
Indexed(c) ==
    rows[c] # Absent /\ rows[c].name = sams[c].name /\ rows[c].assoc = sams[c].assoc

EventuallyIndexed == <>[](\A c \in Clubs : Indexed(c))

=============================================================================
