-------------------------- MODULE ClubsSyncProofs --------------------------
(***************************************************************************)
(* Type correctness of ClubsSync, and its safety properties.               *)
(*                                                                         *)
(* LogoObjectExists: every row in the table, in a worker's scan or in its  *)
(* hands is backed by the bucket, which loses nothing, and so is every     *)
(* announcement made of one.                                               *)
(*                                                                         *)
(* LogoSurvivesSync: a worker that has scanned a row with a logo writes it *)
(* with a logo, whatever it learns of it later.                            *)
(*                                                                         *)
(* AnnouncedUnlessFailed, when fan-outs do not overlap: a registered club  *)
(* has one worker at a time, whose scan, item and event agree with the row *)
(* and with what was announced before.                                     *)
(***************************************************************************)
EXTENDS ClubsSync, FiniteSetTheorems, WellFoundedInduction, TLAPS

\* A worker's part of TypeOK.
WorkerFit(s) ==
    /\ s \in WorkerState
    /\ s.pc # "idle" => s.assoc \in Associations
    /\ s.pc \in Scanned => DOMAIN s.existing = Clubs

-----------------------------------------------------------------------------
(* Tables by club.                                                         *)

LEMMA TableParts ==
    ASSUME NEW V, NEW f \in Tables(V)
    PROVE  DOMAIN f \subseteq Clubs /\ f \in [DOMAIN f -> V]
<1>1. PICK S \in SUBSET Clubs : f \in [S -> V]
  BY DEF Tables
<1>2. DOMAIN f = S
  BY <1>1
<1> QED
  BY <1>1, <1>2

LEMMA TableIntro ==
    ASSUME NEW V, NEW S \in SUBSET Clubs, NEW f \in [S -> V]
    PROVE  f \in Tables(V)
  BY DEF Tables

LEMMA EmptyTable ==
    ASSUME NEW V
    PROVE  NoEntries \in Tables(V) /\ DOMAIN NoEntries = {}
<1>1. NoEntries \in [{} -> V] /\ DOMAIN NoEntries = {}
  BY DEF NoEntries
<1> QED
  BY <1>1, TableIntro

LEMMA WithTable ==
    ASSUME NEW V, NEW f \in Tables(V), NEW x \in Clubs, NEW y \in V
    PROVE  /\ With(f, x, y) \in Tables(V)
           /\ DOMAIN With(f, x, y) = DOMAIN f \cup {x}
           /\ \A z \in DOMAIN f \cup {x} : With(f, x, y)[z] = IF z = x THEN y ELSE f[z]
<1>1. DOMAIN f \subseteq Clubs /\ f \in [DOMAIN f -> V]
  BY TableParts
<1>2. \A z \in DOMAIN f : f[z] \in V
  BY <1>1
<1> DEFINE S == DOMAIN f \cup {x}
<1>3. With(f, x, y) \in [S -> V]
  BY <1>2 DEF With
<1>4. S \in SUBSET Clubs
  BY <1>1
<1>5. With(f, x, y) \in Tables(V)
  BY <1>3, <1>4, TableIntro
<1> QED
  BY <1>5 DEF With

LEMMA WithoutTable ==
    ASSUME NEW V, NEW f \in Tables(V), NEW x
    PROVE  /\ Without(f, x) \in Tables(V)
           /\ DOMAIN Without(f, x) = DOMAIN f \ {x}
           /\ \A z \in DOMAIN f \ {x} : Without(f, x)[z] = f[z]
<1>1. DOMAIN f \subseteq Clubs /\ f \in [DOMAIN f -> V]
  BY TableParts
<1>2. \A z \in DOMAIN f : f[z] \in V
  BY <1>1
<1> DEFINE S == DOMAIN f \ {x}
<1>3. Without(f, x) \in [S -> V]
  BY <1>2 DEF Without
<1>4. S \in SUBSET Clubs
  BY <1>1
<1>5. Without(f, x) \in Tables(V)
  BY <1>3, <1>4, TableIntro
<1> QED
  BY <1>5 DEF Without

-----------------------------------------------------------------------------
(* What is announced, and where a worker goes on.                          *)

LEMMA ProjectionType ==
    ASSUME NEW row \in Row
    PROVE  Projection(row) \in Announcement
  BY DEF Projection, Announcement, Row

LEMMA IdleWorkerFit == WorkerFit(IdleWorker)
  BY EmptyTable DEF WorkerFit, IdleWorker, WorkerState, Scanned, MaxRetries

\* Only the pc changes, and the worker stays among those that have scanned.
LEMMA AfterItemsFit ==
    ASSUME NEW s, WorkerFit(s), s.pc \in Scanned
    PROVE  /\ WorkerFit(AfterItems(s))
           /\ AfterItems(s).existing = s.existing
           /\ AfterItems(s).items = s.items
<1> DEFINE To(pc) == [s EXCEPT !.pc = pc]
<1>1. ASSUME NEW pc \in Scanned
      PROVE  WorkerFit(To(pc)) /\ To(pc).existing = s.existing /\ To(pc).items = s.items
  BY <1>1 DEF WorkerFit, WorkerState, Scanned
<1>2. AfterItems(s) \in {To("save"), To("page"), To("publish")}
  BY DEF AfterItems
<1> HIDE DEF To
<1> QED
  BY <1>1, <1>2 DEF Scanned

LEMMA AfterClubFit ==
    ASSUME NEW s, WorkerFit(s), s.pc \in Scanned
    PROVE  /\ WorkerFit(AfterClub(s))
           /\ AfterClub(s).existing = s.existing
           /\ AfterClub(s).items = s.items
<1>1. CASE s.list # NoEntries
  <2> DEFINE n == [s EXCEPT !.pc = "club"]
  <2>1. WorkerFit(n) /\ n.existing = s.existing /\ n.items = s.items
    BY DEF WorkerFit, WorkerState, Scanned
  <2>2. AfterClub(s) = n
    BY <1>1 DEF AfterClub
  <2> HIDE DEF n
  <2> QED
    BY <2>1, <2>2
<1>2. CASE s.list = NoEntries
  BY <1>2, AfterItemsFit DEF AfterClub
<1> QED
  BY <1>1, <1>2

\* A step of one worker keeps the workers' part of TypeOK.
LEMMA ContinueFit ==
    ASSUME TypeOK, NEW w \in Slots, NEW s, WorkerFit(s), Continue(w, s)
    PROVE  /\ worker' \in [Slots -> WorkerState]
           /\ \A v \in InFlight' : worker'[v].assoc \in Associations
           /\ \A v \in Slots : worker'[v].pc \in Scanned => DOMAIN worker'[v].existing = Clubs
  BY DEF TypeOK, WorkerFit, Continue, InFlight

LEMMA FitOf ==
    ASSUME TypeOK, NEW w \in Slots
    PROVE  WorkerFit(worker[w])
  BY DEF TypeOK, WorkerFit, InFlight

LEMMA CountType ==
    ASSUME failures \in 0..MaxFailures, NEW ok, ok \in Answers, Count(ok)
    PROVE  failures' \in 0..MaxFailures
<1>1. MaxFailures \in Nat
  BY ClubsAssumption
<1>2. CASE ok
  BY <1>2 DEF Count
<1>3. CASE ~ok
  <2>1. failures < MaxFailures
    BY <1>3 DEF Answers
  <2>2. failures' = failures + 1
    BY <1>3 DEF Count
  <2> QED
    BY <1>1, <2>1, <2>2
<1> QED
  BY <1>2, <1>3

LEMMA DeliveredType ==
    ASSUME feed \in [Clubs -> Announcement \cup {Absent}], NEW s \in WorkerState,
           NEW cs \in SUBSET DOMAIN s.events
    PROVE  Delivered(s, cs) \in [Clubs -> Announcement \cup {Absent}]
<1>1. s.events \in Tables(Announcement)
  BY DEF WorkerState
<1>2. s.events \in [DOMAIN s.events -> Announcement]
  BY <1>1, TableParts
<1> QED
  BY <1>2 DEF Delivered

-----------------------------------------------------------------------------
(* TypeOK.                                                                 *)

LEMMA InitType == Init => TypeOK
<1> SUFFICES ASSUME Init PROVE TypeOK
  OBVIOUS
<1>1. sams \in [Clubs -> Profile]
  BY DEF Init
<1>2. rows \in [Clubs -> Row \cup {Absent}]
  BY <1>1 DEF Init, Profile, Row
<1>3. bucket \in [Clubs -> Urls \cup {Absent}]
  BY <1>1 DEF Init, Profile
<1>4. \A c \in RegisteredClubs : rows[c] \in Row
  BY <1>1, ClubsAssumption DEF Init, Profile, Row
<1>5. feed \in [Clubs -> Announcement \cup {Absent}]
  BY <1>4, ProjectionType DEF Init
<1>6. /\ worker \in [Slots -> WorkerState]
      /\ \A w \in InFlight : worker[w].assoc \in Associations
      /\ \A w \in Slots : worker[w].pc \in Scanned => DOMAIN worker[w].existing = Clubs
  <2>1. \A w \in Slots : worker[w] = IdleWorker
    BY DEF Init
  <2>2. IdleWorker.pc = "idle"
    BY DEF IdleWorker
  <2> QED
    BY <2>1, <2>2, IdleWorkerFit DEF Init, WorkerFit, InFlight, Scanned
<1>7. coord \in CoordState /\ cli \in CliState /\ cli.pc = "idle"
  BY DEF Init, IdleCoordinator, CoordState, IdleCli, CliState, MaxRetries
<1>8. changes \in 0..MaxChanges /\ failures \in 0..MaxFailures
  BY ClubsAssumption DEF Init
<1>9. associations \subseteq Associations /\ config \subseteq Clubs
      /\ status \in [Jobs -> {"none", "success", "failure"}]
  BY ClubsAssumption DEF Init
<1> QED
  BY <1>1, <1>2, <1>3, <1>5, <1>6, <1>7, <1>8, <1>9 DEF TypeOK

\* SAMS, associations-sync and the registration.
LEMMA OutsideType ==
    ASSUME TypeOK, \/ \E c \in Clubs : ChangeProfile(c)
                   \/ AssociationsSync
                   \/ Register
    PROVE  TypeOK'
<1>1. ASSUME NEW c \in Clubs, ChangeProfile(c) PROVE TypeOK'
  <2>1. PICK p \in ProfilesOf[c] : sams' = [sams EXCEPT ![c] = p]
    BY <1>1 DEF ChangeProfile
  <2>2. p \in Profile
    BY <2>1, ClubsAssumption
  <2>3. changes' \in 0..MaxChanges
    BY <1>1, ClubsAssumption DEF ChangeProfile, TypeOK
  <2> QED
    BY <1>1, <2>1, <2>2, <2>3 DEF ChangeProfile, TypeOK, tables, InFlight
<1>2. CASE AssociationsSync
  <2>1. PICK listed \in SUBSET Associations :
          /\ (listed = Associations) \in Answers
          /\ associations' = associations \cup listed
          /\ status' = [status EXCEPT ![AssociationsJob] =
                 IF listed = Associations THEN "success" ELSE "failure"]
          /\ Count(listed = Associations)
    BY <1>2 DEF AssociationsSync
  <2>2. failures' \in 0..MaxFailures
    BY <2>1, CountType DEF TypeOK
  <2>3. status' \in [Jobs -> {"none", "success", "failure"}]
    BY <2>1 DEF TypeOK
  <2> QED
    BY <1>2, <2>1, <2>2, <2>3 DEF AssociationsSync, TypeOK, world, InFlight
<1>3. ASSUME NEW c \in Applicants, ResolveForRegistration(c) PROVE TypeOK'
  <2>1. c \in Clubs /\ rows[c] \in Row
    BY <1>3, ClubsAssumption DEF ResolveForRegistration, TypeOK
  <2>2. cli' \in CliState /\ cli'.club \in Clubs /\ cli'.name \in Names
        /\ cli'.assoc \in Associations
    BY <1>3, <2>1 DEF ResolveForRegistration, CliState, Row
  <2> QED
    BY <1>3, <2>2 DEF ResolveForRegistration, TypeOK, world, tables, InFlight
<1>4. CASE PutClubs
  <2>1. cli' \in CliState /\ cli'.club = cli.club /\ cli'.name = cli.name
        /\ cli'.assoc = cli.assoc
    BY <1>4 DEF PutClubs, TypeOK, CliState
  <2>2. cli.club \in Clubs /\ cli.name \in Names /\ cli.assoc \in Associations
    BY <1>4 DEF PutClubs, TypeOK
  <2>3. PICK readable \in Answers :
          config' = {cli.club} \cup readClubs(readable) /\ Count(readable)
    BY <1>4 DEF PutClubs
  <2>4. failures' \in 0..MaxFailures
    BY <2>3, CountType DEF TypeOK
  <2>5. config' \subseteq Clubs
    BY <2>2, <2>3 DEF TypeOK, readClubs
  <2> QED
    BY <1>4, <2>1, <2>2, <2>4, <2>5 DEF PutClubs, TypeOK, world, InFlight
<1>5. CASE upsertClubStub
  <2>1. cli' \in CliState /\ cli'.club = cli.club /\ cli'.name = cli.name
        /\ cli'.assoc = cli.assoc
    BY <1>5 DEF upsertClubStub, TypeOK, CliState
  <2>2. cli.club \in Clubs /\ cli.name \in Names /\ cli.assoc \in Associations
    BY <1>5 DEF upsertClubStub, TypeOK
  <2>3. Stub \in Row
    BY <2>2 DEF Stub, Row
  <2>4. rows' \in [Clubs -> Row \cup {Absent}]
    BY <1>5, <2>3 DEF upsertClubStub, TypeOK
  <2> QED
    BY <1>5, <2>1, <2>2, <2>4 DEF upsertClubStub, TypeOK, world, InFlight
<1> QED
  BY <1>1, <1>2, <1>3, <1>4, <1>5 DEF Register

LEMMA RetryCoordinatorType ==
    ASSUME coord \in CoordState, RetryCoordinator
    PROVE  coord' \in CoordState
<1>1. CASE coord.tries < MaxRetries
  <2>1. coord.tries + 1 \in 0..MaxRetries
    BY <1>1 DEF CoordState, MaxRetries
  <2>2. coord' = [IdleCoordinator EXCEPT !.pc = "retry", !.tries = coord.tries + 1]
    BY <1>1 DEF RetryCoordinator
  <2> QED
    BY <2>1, <2>2 DEF IdleCoordinator, CoordState
<1>2. CASE ~(coord.tries < MaxRetries)
  BY <1>2 DEF RetryCoordinator, IdleCoordinator, CoordState, MaxRetries
<1> QED
  BY <1>1, <1>2

LEMMA CoordinatorType ==
    ASSUME TypeOK, \/ CoordinatorStarts
                   \/ InvokeWorker
                   \/ CoordinatorEnds
                   \/ CoordinatorRefuses
                   \/ CoordinatorFails
    PROVE  TypeOK'
<1>1. CASE CoordinatorStarts
  <2>1. PICK readable \in Answers :
          /\ coord' = [coord EXCEPT !.pc = "invoke",
                                    !.registered = loadProviderRuntimeConfig(readable),
                                    !.found = associations,
                                    !.left = associations]
          /\ Count(readable)
    BY <1>1 DEF CoordinatorStarts
  <2>2. coord' \in CoordState
    BY <2>1 DEF TypeOK, CoordState, loadProviderRuntimeConfig
  <2>3. failures' \in 0..MaxFailures
    BY <2>1, CountType DEF TypeOK
  <2> QED
    BY <1>1, <2>2, <2>3 DEF CoordinatorStarts, TypeOK, world, tables, InFlight
<1>2. CASE InvokeWorker
  <2>1. PICK a \in coord.left : \E w :
          /\ worker' = [worker EXCEPT ![w] =
                 [IdleWorker EXCEPT !.pc = "queued", !.assoc = a,
                                    !.registered = coord.registered]]
          /\ coord' = [coord EXCEPT !.left = @ \ {a}]
    BY <1>2 DEF InvokeWorker
  <2> DEFINE n == [IdleWorker EXCEPT !.pc = "queued", !.assoc = a,
                                     !.registered = coord.registered]
  <2>2. a \in Associations /\ coord.registered \in SUBSET Clubs
    BY DEF TypeOK, CoordState
  <2>3. IdleWorker \in WorkerState
    BY IdleWorkerFit DEF WorkerFit
  <2>4. n \in WorkerState /\ n.pc = "queued" /\ n.assoc = a
    BY <2>2, <2>3 DEF WorkerState
  <2>5. PICK w : worker' = [worker EXCEPT ![w] = n]
    BY <2>1
  <2> HIDE DEF n
  <2>6. /\ worker' \in [Slots -> WorkerState]
        /\ \A v \in Slots : worker'[v] = worker[v] \/ worker'[v] = n
    BY <2>4, <2>5 DEF TypeOK
  <2>7. \A v \in InFlight' : worker'[v].assoc \in Associations
    BY <2>2, <2>4, <2>6 DEF TypeOK, InFlight
  <2>8. \A v \in Slots : worker'[v].pc \in Scanned => DOMAIN worker'[v].existing = Clubs
    BY <2>4, <2>6 DEF TypeOK, Scanned
  <2>9. coord' \in CoordState
    BY <2>1 DEF TypeOK, CoordState
  <2> QED
    BY <1>2, <2>6, <2>7, <2>8, <2>9 DEF InvokeWorker, TypeOK, world, tables
<1>3. CASE CoordinatorEnds
  <2>1. coord' \in CoordState
    BY <1>3 DEF CoordinatorEnds, IdleCoordinator, CoordState, MaxRetries
  <2>2. status' \in [Jobs -> {"none", "success", "failure"}]
    BY <1>3 DEF CoordinatorEnds, TypeOK
  <2> QED
    BY <1>3, <2>1, <2>2 DEF CoordinatorEnds, TypeOK, world, tables, InFlight
<1>4. CASE CoordinatorRefuses
  <2>1. coord' \in CoordState
    BY <1>4, RetryCoordinatorType DEF CoordinatorRefuses, TypeOK
  <2>2. status' \in [Jobs -> {"none", "success", "failure"}]
    BY <1>4 DEF CoordinatorRefuses, TypeOK
  <2> QED
    BY <1>4, <2>1, <2>2 DEF CoordinatorRefuses, TypeOK, world, tables, InFlight
<1>5. CASE CoordinatorFails
  <2>1. coord' \in CoordState
    BY <1>5, RetryCoordinatorType DEF CoordinatorFails, TypeOK
  <2>2. status' \in [Jobs -> {"none", "success", "failure"}]
    BY <1>5 DEF CoordinatorFails, TypeOK
  <2>3. failures' \in 0..MaxFailures
    BY <1>5, ClubsAssumption DEF CoordinatorFails, TypeOK, Count
  <2> QED
    BY <1>5, <2>1, <2>2, <2>3 DEF CoordinatorFails, TypeOK, world, tables, InFlight
<1> QED
  BY <1>1, <1>2, <1>3, <1>4, <1>5

-----------------------------------------------------------------------------
(* A worker's steps.  Each step is given by the state it goes on in.       *)

LEMMA FetchedFit ==
    ASSUME NEW s, WorkerFit(s), s.pc \in Scanned,
           NEW l \in Tables(Entry), NEW more \in BOOLEAN
    PROVE  LET n == [s EXCEPT !.list = l, !.page = @ + 1, !.more = more]
           IN  WorkerFit(n) /\ n.pc = s.pc
                /\ n.existing = s.existing /\ n.items = s.items
<1> DEFINE p == s.page + 1
           n == [s EXCEPT !.list = l, !.page = p, !.more = more]
<1>1. s \in WorkerState
  BY DEF WorkerFit
<1>2. p \in Nat
  BY <1>1 DEF WorkerState
<1> HIDE DEF p
<1>3. n \in WorkerState
  BY <1>1, <1>2 DEF WorkerState
<1>4. n.pc = s.pc /\ n.assoc = s.assoc /\ n.existing = s.existing /\ n.items = s.items
  BY <1>1 DEF WorkerState
<1>5. WorkerFit(n)
  BY <1>3, <1>4 DEF WorkerFit
<1> QED
  BY <1>4, <1>5 DEF p

\* The row a worker makes of a listed club.
LEMMA ItemType ==
    ASSUME TypeOK, NEW s, WorkerFit(s), s.pc \in Scanned, NEW c \in DOMAIN s.list,
           NEW fetched, NEW uploaded \in BOOLEAN
    PROVE  /\ c \in Clubs
           /\ IncomingUrl(s, c, fetched) \in Urls \cup {Absent}
           /\ Item(s, c, IncomingUrl(s, c, fetched), uploaded) \in Row
<1> DEFINE incoming == IncomingUrl(s, c, fetched)
<1>1. s.list \in Tables(Entry) /\ s.existing \in Tables(Row \cup {Absent})
  BY DEF WorkerFit, WorkerState
<1>2. c \in Clubs /\ s.list[c] \in Entry
  BY <1>1, TableParts
<1>3. s.existing[c] \in Row \cup {Absent}
  <2>1. DOMAIN s.existing = Clubs
    BY DEF WorkerFit
  <2>2. s.existing \in [DOMAIN s.existing -> Row \cup {Absent}]
    BY <1>1, TableParts
  <2> QED
    BY <1>2, <2>1, <2>2
<1>4. s.assoc \in Associations
  BY DEF WorkerFit, Scanned
<1>5. incoming \in Urls \cup {Absent}
  <2>1. sams[c].url \in Urls \cup {Absent}
    BY <1>2 DEF TypeOK, Profile
  <2> QED
    BY <1>2, <2>1 DEF IncomingUrl, Entry
<1>6. StoredUrl(s, c) \in Urls \cup {Absent} /\ StoredKey(s, c) \in BOOLEAN
  BY <1>3 DEF StoredUrl, StoredKey, Row
<1>7. ResolvedUrl(s, c, incoming) \in Urls \cup {Absent}
  BY <1>5, <1>6 DEF ResolvedUrl
<1>8. HasKey(s, c, incoming, uploaded) \in BOOLEAN
  BY <1>6 DEF HasKey
<1>9. s.list[c].name \in Names
  BY <1>2 DEF Entry
<1> HIDE DEF incoming
<1>10. Item(s, c, incoming, uploaded) \in Row
  BY <1>4, <1>7, <1>8, <1>9 DEF Item, Row
<1> QED
  BY <1>2, <1>5, <1>10 DEF incoming

Resolved(s, l, i, e) == [s EXCEPT !.list = l, !.items = i, !.events = e]

LEMMA ResolvedFit ==
    ASSUME NEW s, WorkerFit(s), NEW l \in Tables(Entry), NEW i \in Tables(Row),
           NEW e \in Tables(Announcement)
    PROVE  /\ WorkerFit(Resolved(s, l, i, e))
           /\ Resolved(s, l, i, e).pc = s.pc
           /\ Resolved(s, l, i, e).existing = s.existing
           /\ Resolved(s, l, i, e).items = i
<1> DEFINE n == [s EXCEPT !.list = l, !.items = i, !.events = e]
<1>1. s \in WorkerState
  BY DEF WorkerFit
<1>2. n \in WorkerState /\ n.pc = s.pc /\ n.assoc = s.assoc
      /\ n.existing = s.existing /\ n.items = i
  BY <1>1 DEF WorkerState
<1>3. WorkerFit(n)
  BY <1>1, <1>2 DEF WorkerFit
<1>4. Resolved(s, l, i, e) = n
  BY DEF Resolved
<1> HIDE DEF n
<1> QED
  BY <1>2, <1>3, <1>4

LEMMA RetryFit ==
    ASSUME TypeOK, NEW w \in InFlight
    PROVE  LET n == IF worker[w].tries < MaxRetries
                    THEN [IdleWorker EXCEPT !.pc = "queued", !.assoc = worker[w].assoc,
                                            !.registered = worker[w].registered,
                                            !.tries = worker[w].tries + 1]
                    ELSE IdleWorker
           IN  WorkerFit(n) /\ n.existing = NoEntries /\ n.items = NoEntries
<1> DEFINE q == [IdleWorker EXCEPT !.pc = "queued", !.assoc = worker[w].assoc,
                                   !.registered = worker[w].registered,
                                   !.tries = worker[w].tries + 1]
<1>1. IdleWorker \in WorkerState /\ IdleWorker.existing = NoEntries
      /\ IdleWorker.items = NoEntries
  BY IdleWorkerFit DEF WorkerFit, IdleWorker
<1>2. w \in Slots /\ worker[w] \in WorkerState /\ worker[w].assoc \in Associations
  BY DEF TypeOK, InFlight
<1>3. ASSUME worker[w].tries < MaxRetries
      PROVE  WorkerFit(q) /\ q.existing = NoEntries /\ q.items = NoEntries
  <2>1. worker[w].tries + 1 \in 0..MaxRetries /\ worker[w].registered \in SUBSET Clubs
    BY <1>2, <1>3 DEF WorkerState, MaxRetries
  <2>2. q \in WorkerState /\ q.pc = "queued" /\ q.assoc = worker[w].assoc
        /\ q.existing = NoEntries /\ q.items = NoEntries
    BY <1>1, <1>2, <2>1 DEF WorkerState
  <2> QED
    BY <1>2, <2>2 DEF WorkerFit, Scanned
<1> QED
  BY <1>1, <1>3, IdleWorkerFit

-----------------------------------------------------------------------------
(* LogoObjectExists is not inductive: a row is written from what a worker  *)
(* holds, and that was made from a scan.  Supported says the same of the   *)
(* scans and of the items still to be saved; the bucket only grows.        *)

Backed(b, r, c) == r # Absent /\ r.key => b[c] # Absent

RowsBacked == \A c \in Clubs : Backed(bucket, rows[c], c)

WorkerBacked(b, s) ==
    /\ \A c \in DOMAIN s.existing : Backed(b, s.existing[c], c)
    /\ \A c \in DOMAIN s.items : Backed(b, s.items[c], c)

Supported == RowsBacked /\ \A w \in Slots : WorkerBacked(bucket, worker[w])

\* A step of worker w into state n, given that the bucket loses nothing.
LEMMA ContinueSupported ==
    ASSUME TypeOK, Supported, NEW w \in Slots, NEW n, Continue(w, n),
           \A c \in Clubs : bucket[c] # Absent => bucket'[c] # Absent,
           RowsBacked', WorkerBacked(bucket', n)
    PROVE  Supported'
<1>1. ASSUME NEW v \in Slots PROVE WorkerBacked(bucket, worker[v])'
  <2>1. CASE v = w
    <3>1. worker'[v] = n
      BY <2>1 DEF Continue, TypeOK
    <3> QED
      BY <3>1 DEF WorkerBacked, Backed
  <2>2. CASE v # w
    <3>1. worker'[v] = worker[v]
      BY <2>2 DEF Continue, TypeOK
    <3>2. DOMAIN worker[v].existing \subseteq Clubs /\ DOMAIN worker[v].items \subseteq Clubs
      <4>1. worker[v] \in WorkerState
        BY DEF TypeOK
      <4>2. worker[v].existing \in Tables(Row \cup {Absent}) /\ worker[v].items \in Tables(Row)
        BY <4>1 DEF WorkerState
      <4> QED
        BY <4>2, TableParts
    <3>3. WorkerBacked(bucket, worker[v])
      BY DEF Supported
    <3> QED
      BY <3>1, <3>2, <3>3 DEF WorkerBacked, Backed
  <2> QED
    BY <2>1, <2>2
<1> QED
  BY <1>1 DEF Supported

\* The same when the bucket and the rows stay as they are.
LEMMA ContinueOnly ==
    ASSUME TypeOK, Supported, NEW w \in Slots, NEW n, Continue(w, n),
           bucket' = bucket, rows' = rows, WorkerBacked(bucket, n)
    PROVE  Supported'
<1>1. RowsBacked'
  BY DEF Supported, RowsBacked, Backed
<1>2. WorkerBacked(bucket', n)
  BY DEF WorkerBacked, Backed
<1> QED
  BY <1>1, <1>2, ContinueSupported

-----------------------------------------------------------------------------
(* Every step of a worker keeps TypeOK and Supported.                      *)

LEMMA StartsKeeps ==
    ASSUME TypeOK, Supported, NEW w \in Slots, WorkerStarts(w)
    PROVE  TypeOK' /\ Supported'
<1> DEFINE n == [worker[w] EXCEPT !.pc = "page", !.existing = rows]
<1>1. Continue(w, n) /\ worker[w].pc = "queued"
  BY DEF WorkerStarts
<1>2. worker[w] \in WorkerState /\ worker[w].assoc \in Associations
  BY <1>1 DEF TypeOK, InFlight
<1>3. rows \in Tables(Row \cup {Absent}) /\ DOMAIN rows = Clubs
  BY TableIntro DEF TypeOK
<1>4. n \in WorkerState /\ n.pc = "page" /\ n.assoc = worker[w].assoc
      /\ n.existing = rows /\ n.items = worker[w].items
  BY <1>2, <1>3 DEF WorkerState, Scanned
<1> HIDE DEF n
<1>5. WorkerFit(n)
  BY <1>2, <1>3, <1>4 DEF WorkerFit
<1>6. WorkerBacked(bucket, n)
  BY <1>3, <1>4 DEF Supported, WorkerBacked, RowsBacked
<1>7. TypeOK'
  BY <1>1, <1>5, ContinueFit DEF WorkerStarts, TypeOK, world, tables
<1>8. Supported'
  BY <1>1, <1>6, ContinueOnly DEF WorkerStarts, tables
<1> QED
  BY <1>7, <1>8

LEMMA FetchPageKeeps ==
    ASSUME TypeOK, Supported, NEW w \in Slots, FetchPage(w)
    PROVE  TypeOK' /\ Supported'
<1> DEFINE ofA    == {c \in Clubs : sams[c].assoc = worker[w].assoc}
           onPage == {c \in ofA : PageOf[c] = worker[w].page}
           more   == \E c \in ofA : PageOf[c] > worker[w].page
           l(shown) == [c \in onPage |-> [name |-> sams[c].name,
                            url |-> IF c \in shown THEN sams[c].url ELSE Absent]]
           m(shown) == [worker[w] EXCEPT !.list = l(shown), !.page = @ + 1, !.more = more]
<1>1. PICK shown \in SUBSET {c \in onPage : sams[c].url # Absent} :
        Continue(w, AfterClub(m(shown)))
  BY DEF FetchPage
<1>2. WorkerFit(worker[w]) /\ worker[w].pc \in Scanned
  BY FitOf DEF FetchPage, Scanned
<1>3. l(shown) \in [onPage -> Entry]
  BY DEF TypeOK, Profile, Entry
<1>4. l(shown) \in Tables(Entry)
  BY <1>3, TableIntro
<1>5. WorkerFit(m(shown)) /\ m(shown).pc = worker[w].pc
      /\ m(shown).existing = worker[w].existing /\ m(shown).items = worker[w].items
  <2> DEFINE t == l(shown)
             b == more
  <2>1. t \in Tables(Entry) /\ b \in BOOLEAN
    BY <1>4
  <2> HIDE DEF t, b
  <2>2. LET k == [worker[w] EXCEPT !.list = t, !.page = @ + 1, !.more = b]
        IN  WorkerFit(k) /\ k.pc = worker[w].pc
             /\ k.existing = worker[w].existing /\ k.items = worker[w].items
    BY <1>2, <2>1, FetchedFit
  <2> QED
    BY <2>2 DEF t, b
<1> HIDE DEF m
<1> DEFINE n == AfterClub(m(shown))
<1>6. WorkerFit(n) /\ n.existing = worker[w].existing /\ n.items = worker[w].items
  BY <1>2, <1>5, AfterClubFit
<1> HIDE DEF n
<1>7. WorkerBacked(bucket, n)
  BY <1>6 DEF Supported, WorkerBacked
<1>8. Continue(w, n)
  BY <1>1 DEF n
<1>9. TypeOK'
  BY <1>6, <1>8, ContinueFit DEF FetchPage, TypeOK, world, tables
<1>10. Supported'
  BY <1>7, <1>8, ContinueOnly DEF FetchPage, tables
<1> QED
  BY <1>9, <1>10

LEMMA ResolveKeeps ==
    ASSUME TypeOK, Supported, NEW w \in Slots, ResolveClub(w)
    PROVE  TypeOK' /\ Supported'
<1>1. WorkerFit(worker[w]) /\ worker[w].pc = "club" /\ worker[w].pc \in Scanned
  BY FitOf DEF ResolveClub, Scanned
<1> DEFINE s == worker[w]
           incoming(c, fetched) == IncomingUrl(s, c, fetched)
           item(c, fetched, uploaded) == Item(s, c, incoming(c, fetched), uploaded)
           m(c, i) ==
              [s EXCEPT !.list = Without(@, c), !.items = With(@, c, i),
                        !.events = IF Announces(s, c, i)
                                   THEN With(@, c, Projection(i)) ELSE @]
<1>2. PICK c \in DOMAIN s.list :
      \E fetched \in IF NeedsDetail(s, c) THEN Answers ELSE {TRUE} :
      \E uploaded \in IF incoming(c, fetched) # Absent THEN Answers ELSE {TRUE} :
        /\ bucket' = IF incoming(c, fetched) # Absent /\ uploaded
                     THEN [bucket EXCEPT ![c] = incoming(c, fetched)] ELSE bucket
        /\ Continue(w, AfterClub(m(c, item(c, fetched, uploaded))))
        /\ Count(fetched /\ uploaded)
  BY DEF ResolveClub
<1>3. PICK fetched \in IF NeedsDetail(s, c) THEN Answers ELSE {TRUE} :
      \E uploaded \in IF incoming(c, fetched) # Absent THEN Answers ELSE {TRUE} :
        /\ bucket' = IF incoming(c, fetched) # Absent /\ uploaded
                     THEN [bucket EXCEPT ![c] = incoming(c, fetched)] ELSE bucket
        /\ Continue(w, AfterClub(m(c, item(c, fetched, uploaded))))
        /\ Count(fetched /\ uploaded)
  BY <1>2
<1>4. PICK uploaded \in IF incoming(c, fetched) # Absent THEN Answers ELSE {TRUE} :
        /\ bucket' = IF incoming(c, fetched) # Absent /\ uploaded
                     THEN [bucket EXCEPT ![c] = incoming(c, fetched)] ELSE bucket
        /\ Continue(w, AfterClub(m(c, item(c, fetched, uploaded))))
        /\ Count(fetched /\ uploaded)
  BY <1>3
<1>5. fetched \in BOOLEAN /\ uploaded \in BOOLEAN
  BY DEF Answers
<1> DEFINE url == incoming(c, fetched)
           new == item(c, fetched, uploaded)
<1>6. c \in Clubs /\ url \in Urls \cup {Absent} /\ new \in Row
  BY <1>1, <1>5, ItemType
<1>7. WorkerFit(m(c, new)) /\ m(c, new).pc \in Scanned
      /\ m(c, new).existing = s.existing /\ m(c, new).items = With(s.items, c, new)
  <2> DEFINE l == Without(s.list, c)
             i == With(s.items, c, new)
             e == IF Announces(s, c, new) THEN With(s.events, c, Projection(new)) ELSE s.events
  <2>1. s.list \in Tables(Entry) /\ s.items \in Tables(Row) /\ s.events \in Tables(Announcement)
    BY <1>1 DEF WorkerFit, WorkerState
  <2>2. l \in Tables(Entry)
    BY <2>1, WithoutTable
  <2> HIDE DEF new
  <2>3. i \in Tables(Row)
    BY <1>6, <2>1, WithTable
  <2>4. With(s.events, c, Projection(new)) \in Tables(Announcement)
    BY <1>6, <2>1, WithTable, ProjectionType
  <2>5. e \in Tables(Announcement)
    BY <2>1, <2>4
  <2>6. WorkerFit(s)
    BY <1>1
  <2> HIDE DEF l, i, e, s
  <2>7. LET k == Resolved(s, l, i, e)
        IN  WorkerFit(k) /\ k.pc = s.pc /\ k.existing = s.existing /\ k.items = i
    BY <2>2, <2>3, <2>5, <2>6, ResolvedFit
  <2>8. m(c, new) = Resolved(s, l, i, e)
    BY DEF l, i, e, s, Resolved
  <2> HIDE DEF m
  <2> QED
    BY <1>1, <2>7, <2>8 DEF i, s
<1> DEFINE n == AfterClub(m(c, new))
<1>8. WorkerFit(n) /\ n.existing = s.existing /\ n.items = With(s.items, c, new)
  <2> HIDE DEF m
  <2> QED
    BY <1>7, AfterClubFit
<1>9. Continue(w, n)
  BY <1>4
<1>10. failures' \in 0..MaxFailures
  <2>1. CASE fetched /\ uploaded
    BY <1>4, <2>1 DEF Count, TypeOK
  <2>2. CASE ~(fetched /\ uploaded)
    <3>1. failures < MaxFailures
      BY <2>2 DEF Answers
    <3>2. failures' = failures + 1
      BY <1>4, <2>2 DEF Count
    <3> QED
      BY <3>1, <3>2, ClubsAssumption DEF TypeOK
  <2> QED
    BY <2>1, <2>2
<1>11. bucket' \in [Clubs -> Urls \cup {Absent}]
  BY <1>4, <1>6 DEF TypeOK
<1>12. /\ \A k \in Clubs : bucket[k] # Absent => bucket'[k] # Absent
       /\ url # Absent /\ uploaded => bucket'[c] # Absent
  BY <1>4, <1>6 DEF TypeOK
<1> HIDE DEF n
<1>13. TypeOK'
  BY <1>8, <1>9, <1>10, <1>11, ContinueFit DEF ResolveClub, TypeOK, world
<1>14. RowsBacked'
  BY <1>12 DEF ResolveClub, Supported, RowsBacked, Backed
<1>15. WorkerBacked(bucket, s)
  BY DEF Supported
<1>16. s.items \in Tables(Row) /\ DOMAIN s.items \subseteq Clubs /\ DOMAIN s.existing = Clubs
  <2>1. s.items \in Tables(Row)
    BY <1>1 DEF WorkerFit, WorkerState
  <2> QED
    BY <1>1, <2>1, TableParts DEF WorkerFit
<1>17. new.key => (url # Absent /\ uploaded) \/ StoredKey(s, c)
  BY DEF Item, HasKey
<1>18. Backed(bucket', new, c)
  <2>1. StoredKey(s, c) => bucket[c] # Absent
    BY <1>6, <1>15, <1>16 DEF StoredKey, WorkerBacked, Backed
  <2> HIDE DEF new
  <2> QED
    BY <1>6, <1>12, <1>17, <2>1 DEF Backed
<1> HIDE DEF new, url
<1>19. WorkerBacked(bucket', n)
  <2>1. \A k \in DOMAIN n.existing : Backed(bucket', n.existing[k], k)
    BY <1>8, <1>12, <1>15, <1>16 DEF WorkerBacked, Backed
  <2>2. \A k \in DOMAIN n.items : Backed(bucket', n.items[k], k)
    <3>1. /\ DOMAIN n.items = DOMAIN s.items \cup {c}
          /\ \A k \in DOMAIN s.items \cup {c} :
                n.items[k] = IF k = c THEN new ELSE s.items[k]
      <4>2. n.items = With(s.items, c, new)
        BY <1>8
      <4>3. DOMAIN With(s.items, c, new) = DOMAIN s.items \cup {c}
        BY DEF With
      <4>4. \A k \in DOMAIN s.items \cup {c} :
                With(s.items, c, new)[k] = IF k = c THEN new ELSE s.items[k]
        BY DEF With
      <4> QED
        BY <4>2, <4>3, <4>4
    <3> QED
      BY <1>12, <1>15, <1>16, <1>18, <3>1 DEF WorkerBacked, Backed
  <2> QED
    BY <2>1, <2>2 DEF WorkerBacked
<1>20. Supported'
  BY <1>9, <1>12, <1>14, <1>19, ContinueSupported
<1> QED
  BY <1>13, <1>20

LEMMA SaveKeeps ==
    ASSUME TypeOK, Supported, NEW w \in Slots, SaveRow(w)
    PROVE  TypeOK' /\ Supported'
<1> DEFINE s == worker[w]
           m(c) == [s EXCEPT !.items = Without(@, c)]
<1>1. WorkerFit(s) /\ s.pc = "save" /\ s.pc \in Scanned
  BY FitOf DEF SaveRow, Scanned
<1>2. PICK c \in DOMAIN s.items :
        rows' = [rows EXCEPT ![c] = s.items[c]] /\ Continue(w, AfterItems(m(c)))
  BY DEF SaveRow
<1>3. s \in WorkerState /\ s.items \in Tables(Row)
  BY <1>1 DEF WorkerFit, WorkerState
<1>4. c \in Clubs /\ s.items[c] \in Row
  BY <1>3, TableParts
<1>5. WorkerFit(m(c)) /\ m(c).pc \in Scanned
      /\ m(c).existing = s.existing /\ m(c).items = Without(s.items, c)
  <2> DEFINE i == Without(s.items, c)
  <2>1. i \in Tables(Row)
    BY <1>3, WithoutTable
  <2> HIDE DEF i
  <2> DEFINE k == [s EXCEPT !.items = i]
  <2>2. k \in WorkerState /\ k.pc = s.pc /\ k.assoc = s.assoc
        /\ k.existing = s.existing /\ k.items = i
    BY <1>3, <2>1 DEF WorkerState
  <2>3. WorkerFit(k)
    BY <1>1, <2>2 DEF WorkerFit
  <2> QED
    BY <1>1, <2>2, <2>3 DEF i
<1> DEFINE n == AfterItems(m(c))
<1>6. WorkerFit(n) /\ n.existing = s.existing /\ n.items = Without(s.items, c)
  <2> HIDE DEF m
  <2> QED
    BY <1>5, AfterItemsFit
<1>7. Continue(w, n)
  BY <1>2
<1> HIDE DEF n
<1>8. rows' \in [Clubs -> Row \cup {Absent}]
  BY <1>2, <1>4 DEF TypeOK
<1>9. TypeOK'
  BY <1>6, <1>7, <1>8, ContinueFit DEF SaveRow, TypeOK, world
<1>10. WorkerBacked(bucket, s)
  BY DEF Supported
<1>11. bucket' = bucket
  BY DEF SaveRow
<1>12. RowsBacked'
  <2>1. Backed(bucket, s.items[c], c)
    BY <1>10 DEF WorkerBacked
  <2>2. \A k \in Clubs : rows'[k] = IF k = c THEN s.items[c] ELSE rows[k]
    BY <1>2, <1>4 DEF TypeOK
  <2> QED
    BY <1>11, <2>1, <2>2 DEF Supported, RowsBacked, Backed
<1>13. WorkerBacked(bucket', n)
  <2>1. /\ DOMAIN n.items = DOMAIN s.items \ {c}
        /\ \A k \in DOMAIN s.items \ {c} : n.items[k] = s.items[k]
    <3> DEFINE t == Without(s.items, c)
    <3>1. DOMAIN t = DOMAIN s.items \ {c} /\ \A k \in DOMAIN s.items \ {c} : t[k] = s.items[k]
      BY <1>3, WithoutTable
    <3> HIDE DEF t
    <3>2. n.items = t
      BY <1>6 DEF t
    <3> QED
      BY <3>1, <3>2
  <2> QED
    BY <1>6, <1>10, <1>11, <2>1 DEF WorkerBacked, Backed
<1>14. Supported'
  BY <1>7, <1>11, <1>12, <1>13, ContinueSupported
<1> QED
  BY <1>9, <1>14

LEMMA PublishKeeps ==
    ASSUME TypeOK, Supported, NEW w \in Slots, Publish(w)
    PROVE  TypeOK' /\ Supported'
<1> DEFINE s == worker[w]
           n == [s EXCEPT !.pc = "record", !.events = NoEntries]
<1>1. Continue(w, n) /\ s.pc = "publish"
  BY DEF Publish
<1>2. WorkerFit(s) /\ s \in WorkerState
  BY FitOf DEF WorkerFit
<1>3. NoEntries \in Tables(Announcement)
  BY EmptyTable
<1>4. n \in WorkerState /\ n.pc = "record" /\ n.assoc = s.assoc
      /\ n.existing = s.existing /\ n.items = s.items
  BY <1>2, <1>3 DEF WorkerState, Scanned
<1> HIDE DEF n
<1>5. WorkerFit(n)
  BY <1>1, <1>2, <1>4 DEF WorkerFit, Scanned
<1>6. WorkerBacked(bucket, n)
  BY <1>4 DEF Supported, WorkerBacked
<1>7. feed' \in [Clubs -> Announcement \cup {Absent}]
  BY <1>2, DeliveredType DEF Publish, TypeOK
<1>8. TypeOK'
  BY <1>1, <1>5, <1>7, ContinueFit DEF Publish, TypeOK, world, tables
<1>9. Supported'
  BY <1>1, <1>6, ContinueOnly DEF Publish, tables
<1> QED
  BY <1>8, <1>9

LEMMA RecordKeeps ==
    ASSUME TypeOK, Supported, NEW w \in Slots, RecordSuccess(w)
    PROVE  TypeOK' /\ Supported'
<1>1. Continue(w, IdleWorker)
  BY DEF RecordSuccess
<1>2. WorkerBacked(bucket, IdleWorker)
  BY EmptyTable DEF WorkerBacked, IdleWorker
<1>3. status' \in [Jobs -> {"none", "success", "failure"}]
  BY DEF RecordSuccess, TypeOK
<1>4. TypeOK'
  BY <1>1, <1>3, IdleWorkerFit, ContinueFit DEF RecordSuccess, TypeOK, world, tables
<1>5. Supported'
  BY <1>1, <1>2, ContinueOnly DEF RecordSuccess, tables
<1> QED
  BY <1>4, <1>5

LEMMA FailsKeeps ==
    ASSUME TypeOK, Supported, NEW w \in Slots, WorkerFails(w)
    PROVE  TypeOK' /\ Supported'
<1> DEFINE n == IF worker[w].tries < MaxRetries
                THEN [IdleWorker EXCEPT !.pc = "queued", !.assoc = worker[w].assoc,
                                        !.registered = worker[w].registered,
                                        !.tries = worker[w].tries + 1]
                ELSE IdleWorker
<1>1. w \in InFlight /\ Continue(w, n)
  BY DEF WorkerFails, RetryWorker
<1>2. WorkerFit(n) /\ n.existing = NoEntries /\ n.items = NoEntries
  BY <1>1, RetryFit
<1> HIDE DEF n
<1>3. WorkerBacked(bucket, n)
  BY <1>2, EmptyTable DEF WorkerBacked
<1>4. worker[w] \in WorkerState
  BY DEF TypeOK
<1>5. feed' \in [Clubs -> Announcement \cup {Absent}]
  <2>1. PICK sent \in SUBSET DOMAIN worker[w].events : feed' = Delivered(worker[w], sent)
    BY DEF WorkerFails
  <2> QED
    BY <1>4, <2>1, DeliveredType DEF TypeOK
<1>6. status' \in [Jobs -> {"none", "success", "failure"}]
  BY DEF WorkerFails, TypeOK
<1>7. failures' \in 0..MaxFailures
  BY ClubsAssumption DEF WorkerFails, TypeOK, Count
<1>8. TypeOK'
  BY <1>1, <1>2, <1>5, <1>6, <1>7, ContinueFit DEF WorkerFails, TypeOK, world, tables
<1>9. Supported'
  BY <1>1, <1>3, ContinueOnly DEF WorkerFails, tables
<1> QED
  BY <1>8, <1>9

-----------------------------------------------------------------------------
(* All other steps leave Supported alone, too.                             *)

LEMMA SameSupported ==
    ASSUME Supported, worker' = worker, rows' = rows, bucket' = bucket
    PROVE  Supported'
  BY DEF Supported, RowsBacked, WorkerBacked, Backed

LEMMA OutsideSupported ==
    ASSUME TypeOK, Supported, \/ \E c \in Clubs : ChangeProfile(c)
                              \/ AssociationsSync
                              \/ Register
    PROVE  Supported'
<1>1. CASE upsertClubStub
  <2>1. \A c \in Clubs : rows'[c] = rows[c] \/ ~rows'[c].key
    BY <1>1 DEF upsertClubStub, Stub, TypeOK
  <2> QED
    BY <1>1, <2>1 DEF upsertClubStub, Supported, RowsBacked, WorkerBacked, Backed
<1>2. CASE ~upsertClubStub
  <2>1. worker' = worker /\ rows' = rows /\ bucket' = bucket
    BY <1>2 DEF ChangeProfile, AssociationsSync, Register, ResolveForRegistration, PutClubs, tables
  <2> QED
    BY <2>1, SameSupported
<1> QED
  BY <1>1, <1>2

LEMMA InvokeSupported ==
    ASSUME TypeOK, Supported, InvokeWorker
    PROVE  Supported'
<1>1. PICK a \in coord.left : \E w :
        worker' = [worker EXCEPT ![w] =
            [IdleWorker EXCEPT !.pc = "queued", !.assoc = a, !.registered = coord.registered]]
  BY DEF InvokeWorker
<1> DEFINE n == [IdleWorker EXCEPT !.pc = "queued", !.assoc = a, !.registered = coord.registered]
<1>2. n.existing = NoEntries /\ n.items = NoEntries
  BY DEF IdleWorker
<1>3. \A v \in Slots : worker'[v] = worker[v] \/ worker'[v] = n
  BY <1>1 DEF TypeOK
<1> HIDE DEF n
<1>4. WorkerBacked(bucket, n)
  BY <1>2, EmptyTable DEF WorkerBacked
<1>5. rows' = rows /\ bucket' = bucket
  BY DEF InvokeWorker, tables
<1>6. \A v \in Slots : WorkerBacked(bucket, worker'[v])
  BY <1>3, <1>4 DEF Supported
<1> QED
  BY <1>5, <1>6 DEF Supported, RowsBacked, WorkerBacked, Backed

-----------------------------------------------------------------------------
IInv == TypeOK /\ Supported

LEMMA InitIInv == Init => IInv
<1> SUFFICES ASSUME Init PROVE Supported
  BY InitType DEF IInv
<1>1. RowsBacked
  BY ClubsAssumption DEF Init, RowsBacked, Backed
<1>2. WorkerBacked(bucket, IdleWorker)
  BY EmptyTable DEF WorkerBacked, IdleWorker
<1> QED
  BY <1>1, <1>2 DEF Init, Supported

LEMMA NextIInv == IInv /\ [Next]_vars => IInv'
<1> SUFFICES ASSUME TypeOK, Supported, [Next]_vars PROVE TypeOK' /\ Supported'
  BY DEF IInv
<1>1. CASE \/ \E c \in Clubs : ChangeProfile(c)
           \/ AssociationsSync
           \/ Register
  BY <1>1, OutsideType, OutsideSupported
<1>2. CASE InvokeWorker
  BY <1>2, CoordinatorType, InvokeSupported
<1>3. CASE CoordinatorStarts \/ CoordinatorEnds \/ CoordinatorRefuses \/ CoordinatorFails
  <2>1. TypeOK'
    BY <1>3, CoordinatorType
  <2>2. worker' = worker /\ rows' = rows /\ bucket' = bucket
    BY <1>3 DEF CoordinatorStarts, CoordinatorEnds, CoordinatorRefuses, CoordinatorFails, tables
  <2> QED
    BY <2>1, <2>2, SameSupported
<1>4. ASSUME NEW w \in Slots, WorkerStep(w) PROVE TypeOK' /\ Supported'
  BY <1>4, StartsKeeps, FetchPageKeeps, ResolveKeeps, SaveKeeps, PublishKeeps, RecordKeeps
     DEF WorkerStep
<1>5. ASSUME NEW w \in Slots, WorkerFails(w) PROVE TypeOK' /\ Supported'
  BY <1>5, FailsKeeps
<1>6. CASE UNCHANGED vars
  <2>1. TypeOK'
    BY <1>6 DEF vars, TypeOK, InFlight
  <2> QED
    BY <1>6, <2>1, SameSupported DEF vars
<1> QED
  BY <1>1, <1>2, <1>3, <1>4, <1>5, <1>6 DEF Next

\* Every variable of the clubs sync keeps its type, for any clubs, any number of
\* workers and any number of failures (src/sync/clubs.ts, clubs-sync-coordinator.ts).
THEOREM TypeCorrect == Spec => []TypeOK
<1>1. IInv => TypeOK
  BY DEF IInv
<1> QED
  BY <1>1, InitIInv, NextIInv, PTL DEF Spec

-----------------------------------------------------------------------------
(* What each step of a worker leaves in its local state.                   *)

\* What does not change from the scan to the end of an invocation.
SameWork(n, s) ==
    /\ n.assoc = s.assoc
    /\ n.registered = s.registered
    /\ n.existing = s.existing

\* Between two requests: where a worker is, by what is left of its page.
Resting(n) ==
    /\ n.pc \in {"club", "save", "page", "publish"}
    /\ n.pc # "club" => n.list = NoEntries
    /\ n.pc \in {"page", "publish"} => n.items = NoEntries

Moved(s, p) == [s EXCEPT !.pc = p]

LEMMA MovedShape ==
    ASSUME NEW s \in WorkerState, NEW p
    PROVE  /\ Moved(s, p).pc = p /\ SameWork(Moved(s, p), s)
           /\ Moved(s, p).list = s.list /\ Moved(s, p).items = s.items
           /\ Moved(s, p).events = s.events /\ Moved(s, p).page = s.page
  BY DEF Moved, SameWork, WorkerState

LEMMA AfterItemsShape ==
    ASSUME NEW s \in WorkerState, s.list = NoEntries
    PROVE  /\ Resting(AfterItems(s)) /\ SameWork(AfterItems(s), s)
           /\ AfterItems(s).list = s.list /\ AfterItems(s).items = s.items
           /\ AfterItems(s).events = s.events /\ AfterItems(s).page = s.page
<1>1. PICK p \in {"save", "page", "publish"} :
        AfterItems(s) = Moved(s, p) /\ (p # "save" => s.items = NoEntries)
  BY DEF AfterItems, Moved
<1> QED
  BY <1>1, MovedShape DEF Resting

LEMMA AfterClubShape ==
    ASSUME NEW s \in WorkerState
    PROVE  /\ Resting(AfterClub(s)) /\ SameWork(AfterClub(s), s)
           /\ AfterClub(s).list = s.list /\ AfterClub(s).items = s.items
           /\ AfterClub(s).events = s.events /\ AfterClub(s).page = s.page
<1>1. CASE s.list # NoEntries
  <2>1. AfterClub(s) = Moved(s, "club")
    BY <1>1 DEF AfterClub, Moved
  <2> QED
    BY <2>1, MovedShape DEF Resting
<1>2. CASE s.list = NoEntries
  BY <1>2, AfterItemsShape DEF AfterClub
<1> QED
  BY <1>1, <1>2

LEMMA StartsShape ==
    ASSUME TypeOK, NEW w \in Slots, WorkerStarts(w)
    PROVE  \E n :
        /\ Continue(w, n) /\ n.pc = "page" /\ n.existing = rows
        /\ n.assoc = worker[w].assoc /\ n.registered = worker[w].registered
        /\ n.list = worker[w].list /\ n.items = worker[w].items
        /\ n.events = worker[w].events
<1> DEFINE n == [worker[w] EXCEPT !.pc = "page", !.existing = rows]
<1>1. Continue(w, n)
  BY DEF WorkerStarts
<1>2. worker[w] \in WorkerState
  BY DEF TypeOK
<1>3. /\ n.pc = "page" /\ n.existing = rows
      /\ n.assoc = worker[w].assoc /\ n.registered = worker[w].registered
      /\ n.list = worker[w].list /\ n.items = worker[w].items
      /\ n.events = worker[w].events
  BY <1>2 DEF WorkerState
<1> HIDE DEF n
<1> QED
  BY <1>1, <1>3

\* The page holds the association's clubs of that page, and the next one follows.
LEMMA FetchShape ==
    ASSUME TypeOK, NEW w \in Slots, FetchPage(w)
    PROVE  \E n :
        /\ Continue(w, n) /\ Resting(n) /\ SameWork(n, worker[w])
        /\ DOMAIN n.list = {c \in Clubs : sams[c].assoc = worker[w].assoc
                                            /\ PageOf[c] = worker[w].page}
        /\ n.items = worker[w].items /\ n.events = worker[w].events
        /\ n.page = worker[w].page + 1
<1> DEFINE s      == worker[w]
           ofA    == {c \in Clubs : sams[c].assoc = s.assoc}
           onPage == {c \in ofA : PageOf[c] = s.page}
           more   == \E c \in ofA : PageOf[c] > s.page
           l(shown) == [c \in onPage |-> [name |-> sams[c].name,
                            url |-> IF c \in shown THEN sams[c].url ELSE Absent]]
           next  == s.page + 1
           m(shown) == [s EXCEPT !.list = l(shown), !.page = next, !.more = more]
<1>1. PICK shown \in SUBSET {c \in onPage : sams[c].url # Absent} :
        Continue(w, AfterClub(m(shown)))
  BY DEF FetchPage
<1>2. s \in WorkerState
  BY DEF TypeOK
<1>3. m(shown) \in WorkerState
  <2>1. l(shown) \in [onPage -> Entry]
    BY DEF TypeOK, Profile, Entry
  <2>2. l(shown) \in Tables(Entry) /\ more \in BOOLEAN
    BY <2>1, TableIntro
  <2>3. next \in Nat
    BY <1>2 DEF WorkerState
  <2> HIDE DEF l, more, next
  <2> QED
    BY <1>2, <2>2, <2>3 DEF WorkerState
<1>4. /\ SameWork(m(shown), s) /\ DOMAIN m(shown).list = onPage
      /\ m(shown).items = s.items /\ m(shown).events = s.events /\ m(shown).page = next
  <2>1. DOMAIN l(shown) = onPage
    OBVIOUS
  <2> HIDE DEF l, more, next
  <2> QED
    BY <1>2, <2>1 DEF WorkerState, SameWork
<1>5. onPage = {c \in Clubs : sams[c].assoc = s.assoc /\ PageOf[c] = s.page}
  OBVIOUS
<1> HIDE DEF m, onPage
<1> DEFINE n == AfterClub(m(shown))
<1>6. /\ Resting(n) /\ SameWork(n, m(shown)) /\ n.list = m(shown).list
      /\ n.items = m(shown).items /\ n.events = m(shown).events /\ n.page = m(shown).page
  BY <1>3, AfterClubShape
<1> HIDE DEF n
<1>7. Continue(w, n)
  BY <1>1 DEF n
<1> WITNESS n
<1> QED
  BY <1>4, <1>5, <1>6, <1>7 DEF SameWork

\* A listed club becomes an item and, where it is to be announced, an event; an item
\* has the logo that was scanned.
LEMMA ResolveShape ==
    ASSUME TypeOK, NEW w \in Slots, ResolveClub(w)
    PROVE  \E n, c, item :
        /\ Continue(w, n) /\ Resting(n) /\ SameWork(n, worker[w])
        /\ c \in DOMAIN worker[w].list /\ item \in Row /\ item.assoc = worker[w].assoc
        /\ StoredUrl(worker[w], c) # Absent => item.url # Absent
        /\ n.list = Without(worker[w].list, c)
        /\ n.items = With(worker[w].items, c, item)
        /\ n.events = IF Announces(worker[w], c, item)
                      THEN With(worker[w].events, c, Projection(item)) ELSE worker[w].events
        /\ n.page = worker[w].page
<1>1. WorkerFit(worker[w]) /\ worker[w].pc = "club" /\ worker[w].pc \in Scanned
  BY FitOf DEF ResolveClub, Scanned
<1> DEFINE s == worker[w]
           item(c, fetched, uploaded) == Item(s, c, IncomingUrl(s, c, fetched), uploaded)
           m(c, i) ==
              [s EXCEPT !.list = Without(@, c), !.items = With(@, c, i),
                        !.events = IF Announces(s, c, i)
                                   THEN With(@, c, Projection(i)) ELSE @]
<1>2. PICK c \in DOMAIN s.list :
      \E fetched \in IF NeedsDetail(s, c) THEN Answers ELSE {TRUE} :
      \E uploaded \in IF IncomingUrl(s, c, fetched) # Absent THEN Answers ELSE {TRUE} :
        Continue(w, AfterClub(m(c, item(c, fetched, uploaded))))
  BY DEF ResolveClub
<1>3. PICK fetched \in IF NeedsDetail(s, c) THEN Answers ELSE {TRUE} :
      \E uploaded \in IF IncomingUrl(s, c, fetched) # Absent THEN Answers ELSE {TRUE} :
        Continue(w, AfterClub(m(c, item(c, fetched, uploaded))))
  BY <1>2
<1>4. PICK uploaded \in IF IncomingUrl(s, c, fetched) # Absent THEN Answers ELSE {TRUE} :
        Continue(w, AfterClub(m(c, item(c, fetched, uploaded))))
  BY <1>3
<1>5. uploaded \in BOOLEAN
  BY DEF Answers
<1> DEFINE new == item(c, fetched, uploaded)
<1>6. c \in Clubs /\ new \in Row
  BY <1>1, <1>5, ItemType
<1>7. new.assoc = s.assoc /\ (StoredUrl(s, c) # Absent => new.url # Absent)
  BY DEF Item, ResolvedUrl
<1> HIDE DEF new
<1> DEFINE l == Without(s.list, c)
           i == With(s.items, c, new)
           e == IF Announces(s, c, new) THEN With(s.events, c, Projection(new)) ELSE s.events
           n == AfterClub(Resolved(s, l, i, e))
<1>8. s.list \in Tables(Entry) /\ s.items \in Tables(Row) /\ s.events \in Tables(Announcement)
  BY <1>1 DEF WorkerFit, WorkerState
<1>9. l \in Tables(Entry) /\ i \in Tables(Row)
  BY <1>6, <1>8, WithTable, WithoutTable
<1>10. With(s.events, c, Projection(new)) \in Tables(Announcement)
  BY <1>6, <1>8, WithTable, ProjectionType
<1>11. e \in Tables(Announcement)
  BY <1>8, <1>10
<1>12. Continue(w, n)
  BY <1>4 DEF Resolved, new
<1> HIDE DEF l, i, e
<1>13. LET r == Resolved(s, l, i, e)
       IN  /\ r \in WorkerState /\ SameWork(r, s)
           /\ r.list = l /\ r.items = i /\ r.events = e /\ r.page = s.page
  <2>1. s \in WorkerState
    BY <1>1 DEF WorkerFit
  <2> HIDE DEF s
  <2> QED
    BY <1>9, <1>11, <2>1 DEF WorkerState, Resolved, SameWork
<1>14. /\ Resting(n) /\ SameWork(n, s) /\ n.list = l /\ n.items = i /\ n.events = e
       /\ n.page = s.page
  BY <1>13, AfterClubShape DEF SameWork
<1> HIDE DEF n
<1> WITNESS n, c, new
<1> QED
  BY <1>6, <1>7, <1>12, <1>14 DEF l, i, e

\* One of the items becomes the row.
LEMMA SaveShape ==
    ASSUME TypeOK, NEW w \in Slots, SaveRow(w), worker[w].list = NoEntries
    PROVE  \E n, c :
        /\ Continue(w, n) /\ Resting(n) /\ SameWork(n, worker[w])
        /\ c \in DOMAIN worker[w].items
        /\ rows' = [rows EXCEPT ![c] = worker[w].items[c]]
        /\ n.items = Without(worker[w].items, c)
        /\ n.list = worker[w].list /\ n.events = worker[w].events /\ n.page = worker[w].page
<1> DEFINE s == worker[w]
           m(c) == [s EXCEPT !.items = Without(@, c)]
<1>1. PICK c \in DOMAIN s.items :
        rows' = [rows EXCEPT ![c] = s.items[c]] /\ Continue(w, AfterItems(m(c)))
  BY DEF SaveRow
<1>2. s \in WorkerState
  BY DEF TypeOK
<1> DEFINE i == Without(s.items, c)
<1>3. i \in Tables(Row)
  BY <1>2, WithoutTable DEF WorkerState
<1> HIDE DEF i
<1> DEFINE k == [s EXCEPT !.items = i]
           n == AfterItems(k)
<1>4. /\ k \in WorkerState /\ SameWork(k, s)
      /\ k.list = s.list /\ k.items = i /\ k.events = s.events /\ k.page = s.page
  BY <1>2, <1>3 DEF WorkerState, SameWork
<1>5. Continue(w, n)
  BY <1>1 DEF i
<1> HIDE DEF k
<1>6. /\ Resting(n) /\ SameWork(n, s) /\ n.list = s.list /\ n.items = i
      /\ n.events = s.events /\ n.page = s.page
  BY <1>4, AfterItemsShape DEF SameWork
<1> HIDE DEF n
<1> WITNESS n, c
<1> QED
  BY <1>1, <1>5, <1>6 DEF i

LEMMA PublishShape ==
    ASSUME TypeOK, NEW w \in Slots, Publish(w)
    PROVE  \E n :
        /\ Continue(w, n) /\ n.pc = "record" /\ SameWork(n, worker[w])
        /\ n.list = worker[w].list /\ n.items = worker[w].items /\ n.events = NoEntries
        /\ n.page = worker[w].page
<1> DEFINE n == [worker[w] EXCEPT !.pc = "record", !.events = NoEntries]
<1>1. Continue(w, n)
  BY DEF Publish
<1>2. worker[w] \in WorkerState
  BY DEF TypeOK
<1>3. /\ n.pc = "record" /\ SameWork(n, worker[w])
      /\ n.list = worker[w].list /\ n.items = worker[w].items /\ n.events = NoEntries
      /\ n.page = worker[w].page
  BY <1>2 DEF WorkerState, SameWork
<1> HIDE DEF n
<1> QED
  BY <1>1, <1>3

\* Where a worker has nothing in hand: none is left between two invocations.
EmptyHands(s) == s.list = NoEntries /\ s.items = NoEntries /\ s.events = NoEntries

LEMMA FailsShape ==
    ASSUME TypeOK, NEW w \in Slots, WorkerFails(w)
    PROVE  \E n : Continue(w, n) /\ n.pc \in {"idle", "queued"} /\ EmptyHands(n)
<1> DEFINE q == [IdleWorker EXCEPT !.pc = "queued", !.assoc = worker[w].assoc,
                                   !.registered = worker[w].registered,
                                   !.tries = worker[w].tries + 1]
           n == IF worker[w].tries < MaxRetries THEN q ELSE IdleWorker
<1>1. Continue(w, n)
  BY DEF WorkerFails, RetryWorker
<1>2. IdleWorker.pc = "idle" /\ EmptyHands(IdleWorker)
  BY DEF IdleWorker, EmptyHands
<1>3. q.pc = "queued" /\ EmptyHands(q)
  BY DEF IdleWorker, EmptyHands
<1>4. n.pc \in {"idle", "queued"} /\ EmptyHands(n)
  BY <1>2, <1>3
<1> HIDE DEF n
<1> QED
  BY <1>1, <1>4

\* The coordinator takes the least of the free slots: there is one.
LEMMA LeastNumber ==
    ASSUME NEW S \in SUBSET Nat, S # {}
    PROVE  \E m \in S : \A n \in S : m <= n
<1> DEFINE T == {0..k : k \in S}
           R == StrictSubsetOrdering(Nat)
           F == FiniteSubsetsOf(Nat)
<1>1. IsWellFoundedOn(R, F)
  BY FS_StrictSubsetOrderingWellFounded
<1>2. T \subseteq F /\ T # {}
  <2>1. ASSUME NEW k \in S PROVE 0..k \in F
    <3>1. IsFiniteSet(0..k)
      BY FS_Interval
    <3> QED
      BY <3>1 DEF FiniteSubsetsOf
  <2> QED
    BY <2>1
<1>3. \E x \in T : \A y \in T : ~ (<<y, x>> \in R)
  <2> HIDE DEF T, R, F
  <2> QED
    BY <1>1, <1>2, WFMin
<1>4. PICK m \in S : \A n \in S : ~ (<<0..n, 0..m>> \in R)
  BY <1>3
<1>5. ASSUME NEW n \in S, n < m PROVE FALSE
  <2>1. 0..n \in SUBSET Nat /\ 0..m \in SUBSET Nat /\ 0..n \subseteq 0..m
    BY <1>5
  <2>2. m \in 0..m /\ m \notin 0..n
    BY <1>5
  <2>3. <<0..n, 0..m>> \in R
    BY <2>1, <2>2 DEF StrictSubsetOrdering
  <2> QED
    BY <1>4, <2>3
<1> QED
  BY <1>5

LEMMA InvokeShape ==
    ASSUME TypeOK, InvokeWorker
    PROVE  \E w, a, n :
        /\ w \in FreeSlots /\ Continue(w, n) /\ a \in coord.left
        /\ n.pc = "queued" /\ n.assoc = a /\ n.registered = coord.registered
        /\ EmptyHands(n) /\ coord' = [coord EXCEPT !.left = @ \ {a}]
<1>1. \E w \in FreeSlots : \A u \in FreeSlots : w <= u
  <2>1. FreeSlots \in SUBSET Nat /\ FreeSlots # {}
    BY ClubsAssumption DEF FreeSlots, InvokeWorker
  <2> HIDE DEF FreeSlots
  <2> QED
    BY <2>1, LeastNumber
<1> DEFINE w == CHOOSE v \in FreeSlots : \A u \in FreeSlots : v <= u
<1>2. w \in FreeSlots
  BY <1>1
<1>3. PICK a \in coord.left :
        /\ worker' = [worker EXCEPT ![w] =
               [IdleWorker EXCEPT !.pc = "queued", !.assoc = a, !.registered = coord.registered]]
        /\ coord' = [coord EXCEPT !.left = @ \ {a}]
  BY DEF InvokeWorker
<1> HIDE DEF w
<1> DEFINE n == [IdleWorker EXCEPT !.pc = "queued", !.assoc = a, !.registered = coord.registered]
<1>4. n.pc = "queued" /\ n.assoc = a /\ n.registered = coord.registered /\ EmptyHands(n)
  BY DEF IdleWorker, EmptyHands
<1>5. Continue(w, n)
  BY <1>3 DEF Continue
<1> HIDE DEF n
<1> QED
  BY <1>2, <1>3, <1>4, <1>5

-----------------------------------------------------------------------------
(* LogoObjectExists.  What has been announced, or is about to be, was made  *)
(* from a row that is backed.                                               *)

EventsBacked(b, s) == \A c \in DOMAIN s.events : Backed(b, s.events[c], c)

AnnouncedBacked ==
    /\ \A c \in Clubs : Backed(bucket, feed[c], c)
    /\ \A w \in Slots : EventsBacked(bucket, worker[w])

\* Nothing is ever taken out of the bucket.
LEMMA BucketGrows ==
    ASSUME TypeOK, [Next]_vars, NEW c \in Clubs, bucket[c] # Absent
    PROVE  bucket'[c] # Absent
<1>1. CASE bucket' = bucket
  BY <1>1
<1>2. ASSUME NEW w \in Slots, ResolveClub(w) PROVE bucket'[c] # Absent
  <2>1. PICK k, incoming, uploaded :
          bucket' = IF incoming # Absent /\ uploaded
                    THEN [bucket EXCEPT ![k] = incoming] ELSE bucket
    BY <1>2 DEF ResolveClub
  <2> QED
    BY <2>1 DEF TypeOK
<1> QED
  BY <1>1, <1>2 DEF Next, vars, ChangeProfile, AssociationsSync, Register,
     ResolveForRegistration, PutClubs, upsertClubStub, CoordinatorStarts, InvokeWorker,
     CoordinatorEnds, CoordinatorRefuses, CoordinatorFails, WorkerStep, WorkerStarts,
     FetchPage, SaveRow, Publish, RecordSuccess, WorkerFails, tables

LEMMA EventsIn ==
    ASSUME TypeOK, NEW w \in Slots
    PROVE  DOMAIN worker[w].events \subseteq Clubs
<1>1. worker[w].events \in Tables(Announcement)
  BY DEF TypeOK, WorkerState
<1> QED
  BY <1>1, TableParts

\* What consumers hold stays, or becomes what a worker has had in its hands.
LEMMA AnnouncedStep ==
    ASSUME TypeOK, AnnouncedBacked, [Next]_vars, NEW w \in Slots, NEW n, Continue(w, n),
           EventsBacked(bucket', n),
           \A c \in Clubs : feed'[c] = feed[c]
                \/ (c \in DOMAIN worker[w].events /\ feed'[c] = worker[w].events[c])
    PROVE  AnnouncedBacked'
<1>1. \A c \in Clubs : bucket[c] # Absent => bucket'[c] # Absent
  BY BucketGrows
<1>2. \A v \in Slots : worker'[v] = IF v = w THEN n ELSE worker[v]
  BY DEF Continue, TypeOK
<1>3. ASSUME NEW v \in Slots PROVE EventsBacked(bucket', worker'[v])
  BY <1>1, <1>2, EventsIn DEF AnnouncedBacked, EventsBacked, Backed
<1>4. ASSUME NEW c \in Clubs PROVE Backed(bucket', feed'[c], c)
  BY <1>1 DEF AnnouncedBacked, EventsBacked, Backed
<1> QED
  BY <1>3, <1>4 DEF AnnouncedBacked, EventsBacked, Backed

LEMMA NextAnnounced ==
    ASSUME IInv, IInv', AnnouncedBacked, [Next]_vars
    PROVE  AnnouncedBacked'
<1>0. TypeOK
  BY DEF IInv
<1>1. \A c \in Clubs : bucket[c] # Absent => bucket'[c] # Absent
  BY <1>0, BucketGrows
<1>2. CASE worker' = worker /\ feed' = feed
  <2>1. \A w \in Slots : DOMAIN worker[w].events \subseteq Clubs
    BY <1>0, EventsIn
  <2> QED
    BY <1>1, <1>2, <2>1 DEF AnnouncedBacked, EventsBacked, Backed
<1>3. CASE InvokeWorker
  <2>1. PICK w, n : w \in FreeSlots /\ Continue(w, n) /\ EmptyHands(n)
    BY <1>0, <1>3, InvokeShape
  <2>2. feed' = feed /\ w \in Slots
    BY <1>3, <2>1 DEF InvokeWorker, FreeSlots
  <2>3. EventsBacked(bucket', n)
    BY <2>1, EmptyTable DEF EmptyHands, EventsBacked
  <2> QED
    BY <1>0, <2>1, <2>2, <2>3, AnnouncedStep
<1>4. ASSUME NEW w \in Slots, NEW n, Continue(w, n), feed' = feed,
             n.events = worker[w].events \/ n.events = NoEntries
      PROVE  AnnouncedBacked'
  <2>1. EventsBacked(bucket', n)
    BY <1>0, <1>1, <1>4, EventsIn, EmptyTable DEF AnnouncedBacked, EventsBacked, Backed
  <2> QED
    BY <1>0, <1>4, <2>1, AnnouncedStep
<1>5. ASSUME NEW w \in Slots, WorkerStarts(w) \/ FetchPage(w) PROVE AnnouncedBacked'
  <2>1. feed' = feed
    BY <1>5 DEF WorkerStarts, FetchPage
  <2>2. PICK n : Continue(w, n) /\ n.events = worker[w].events
    BY <1>0, <1>5, StartsShape, FetchShape
  <2> QED
    BY <1>4, <2>1, <2>2
<1>6. ASSUME NEW w \in Slots, ResolveClub(w) PROVE AnnouncedBacked'
  <2> DEFINE s == worker[w]
  <2>1. PICK n, c, item :
          /\ Continue(w, n) /\ item \in Row
          /\ n.items = With(s.items, c, item)
          /\ n.events = IF Announces(s, c, item)
                        THEN With(s.events, c, Projection(item)) ELSE s.events
    BY <1>0, <1>6, ResolveShape
  <2>2. worker'[w] = n
    BY <1>0, <2>1 DEF Continue, TypeOK
  <2>3. Backed(bucket', item, c)
    <3>1. \A k \in DOMAIN n.items : Backed(bucket', n.items[k], k)
      BY <2>2 DEF IInv, Supported, WorkerBacked, Backed
    <3>2. c \in DOMAIN n.items /\ n.items[c] = item
      BY <2>1 DEF With
    <3> QED
      BY <3>1, <3>2
  <2>4. Backed(bucket', Projection(item), c)
    BY <2>1, <2>3, ClubsAssumption DEF Backed, Projection
  <2>5. \A k \in DOMAIN s.events : Backed(bucket', s.events[k], k)
    BY <1>0, <1>1, EventsIn DEF AnnouncedBacked, EventsBacked, Backed
  <2>6. ASSUME NEW k \in DOMAIN n.events PROVE Backed(bucket', n.events[k], k)
    BY <2>1, <2>4, <2>5 DEF With
  <2>7. feed' = feed
    BY <1>6 DEF ResolveClub
  <2> QED
    BY <1>0, <2>1, <2>6, <2>7, AnnouncedStep DEF EventsBacked
<1>7. ASSUME NEW w \in Slots, SaveRow(w) PROVE AnnouncedBacked'
  <2>1. PICK c : Continue(w, AfterItems([worker[w] EXCEPT !.items = Without(@, c)]))
    BY <1>7 DEF SaveRow
  <2> DEFINE i == Without(worker[w].items, c)
             k == [worker[w] EXCEPT !.items = i]
  <2>2. AfterItems(k).events = worker[w].events
    <3>1. k.events = worker[w].events
      BY <1>0 DEF TypeOK, WorkerState
    <3>2. PICK p : AfterItems(k) = [k EXCEPT !.pc = p]
      BY DEF AfterItems
    <3>3. [k EXCEPT !.pc = p].events = k.events
      <4>1. worker[w] \in WorkerState
        BY <1>0 DEF TypeOK
      <4> HIDE DEF i
      <4> QED
        BY <4>1 DEF WorkerState
    <3> QED
      BY <3>1, <3>2, <3>3
  <2>3. feed' = feed
    BY <1>7 DEF SaveRow
  <2> QED
    BY <1>4, <2>1, <2>2, <2>3
<1>8. ASSUME NEW w \in Slots, Publish(w) \/ WorkerFails(w) PROVE AnnouncedBacked'
  <2>1. PICK n : Continue(w, n) /\ n.events = NoEntries
    BY <1>0, <1>8, PublishShape, FailsShape DEF EmptyHands
  <2>2. PICK sent \in SUBSET DOMAIN worker[w].events : feed' = Delivered(worker[w], sent)
    BY <1>8 DEF Publish, WorkerFails
  <2>3. EventsBacked(bucket', n)
    BY <2>1, EmptyTable DEF EventsBacked
  <2> QED
    BY <1>0, <2>1, <2>2, <2>3, AnnouncedStep DEF Delivered
<1>9. ASSUME NEW w \in Slots, RecordSuccess(w) PROVE AnnouncedBacked'
  BY <1>4, <1>9 DEF RecordSuccess, IdleWorker
<1> QED
  BY <1>2, <1>3, <1>5, <1>6, <1>7, <1>8, <1>9 DEF Next, WorkerStep, vars, ChangeProfile,
     AssociationsSync, Register, ResolveForRegistration, PutClubs, upsertClubStub,
     CoordinatorStarts, CoordinatorEnds, CoordinatorRefuses, CoordinatorFails

LEMMA InitAnnounced == Init => AnnouncedBacked
<1> SUFFICES ASSUME Init PROVE AnnouncedBacked
  OBVIOUS
<1>1. RowsBacked
  BY InitIInv DEF IInv, Supported
<1>2. \A c \in Clubs : Backed(bucket, feed[c], c)
  BY <1>1, ClubsAssumption DEF Init, RowsBacked, Backed, Projection
<1>3. \A w \in Slots : EventsBacked(bucket, worker[w])
  BY EmptyTable DEF Init, IdleWorker, EventsBacked
<1> QED
  BY <1>2, <1>3 DEF AnnouncedBacked

\* No stored row, and nothing consumers were told, names a copy of a logo that is not
\* in the bucket: not when an upload fails, a worker is run again or cut off among its
\* events, or two workers and a registration write the same row (clubs.ts:153-161, 231).
THEOREM NoDeadLogo == Spec => []LogoObjectExists
<1>1. IInv /\ AnnouncedBacked => LogoObjectExists
  BY DEF IInv, Supported, RowsBacked, AnnouncedBacked, Backed, LogoObjectExists
<1>2. IInv /\ IInv' /\ AnnouncedBacked /\ [Next]_vars => AnnouncedBacked'
  BY NextAnnounced
<1> QED
  BY InitIInv, NextIInv, InitAnnounced, <1>1, <1>2, PTL DEF Spec

-----------------------------------------------------------------------------
(* LogoSurvivesSync.                                                       *)

\* A page is listed, resolved and saved before the next one is fetched, and events
\* are kept until they are published.
Staged(s) ==
    /\ s.pc # "club" => s.list = NoEntries
    /\ s.pc \notin {"club", "save"} => s.items = NoEntries
    /\ s.pc \in {"idle", "queued", "record"} => s.events = NoEntries

\* What was scanned with a logo is written with one.
LogosInHand(s) ==
    \A c \in DOMAIN s.items : StoredUrl(s, c) # Absent => s.items[c].url # Absent

LogosKept == \A w \in Slots : Staged(worker[w]) /\ LogosInHand(worker[w])

LEMMA RestingStaged ==
    ASSUME NEW n, Resting(n)
    PROVE  Staged(n)
  BY DEF Resting, Staged

LEMMA NothingInHand ==
    ASSUME NEW n, EmptyHands(n)
    PROVE  Staged(n) /\ LogosInHand(n)
  BY EmptyTable DEF EmptyHands, Staged, LogosInHand

LEMMA ContinueKept ==
    ASSUME TypeOK, LogosKept, NEW w \in Slots, NEW n, Continue(w, n), Staged(n), LogosInHand(n)
    PROVE  LogosKept'
<1> SUFFICES ASSUME NEW v \in Slots
             PROVE  Staged(worker'[v]) /\ LogosInHand(worker'[v])
  BY DEF LogosKept, Staged, LogosInHand, StoredUrl
<1>1. worker'[v] = IF v = w THEN n ELSE worker[v]
  BY DEF Continue, TypeOK
<1> QED
  BY <1>1 DEF LogosKept

LEMMA StepKept ==
    ASSUME TypeOK, LogosKept, NEW w \in Slots, WorkerStep(w) \/ WorkerFails(w)
    PROVE  LogosKept'
<1>0. Staged(worker[w]) /\ LogosInHand(worker[w])
  BY DEF LogosKept
<1>1. CASE WorkerStarts(w)
  <2>1. PICK n : Continue(w, n) /\ n.pc = "page" /\ n.list = worker[w].list
                 /\ n.items = worker[w].items
    BY <1>1, StartsShape
  <2>2. n.list = NoEntries /\ n.items = NoEntries
    BY <1>0, <1>1, <2>1 DEF WorkerStarts, Staged
  <2>3. Staged(n) /\ LogosInHand(n)
    BY <2>1, <2>2, EmptyTable DEF Staged, LogosInHand
  <2> QED
    BY <2>1, <2>3, ContinueKept
<1>2. CASE FetchPage(w)
  <2>1. PICK n : Continue(w, n) /\ Resting(n) /\ SameWork(n, worker[w])
                 /\ n.items = worker[w].items
    BY <1>2, FetchShape
  <2>2. LogosInHand(n)
    BY <1>0, <2>1 DEF LogosInHand, StoredUrl, SameWork
  <2> QED
    BY <2>1, <2>2, RestingStaged, ContinueKept
<1>3. CASE ResolveClub(w)
  <2>1. PICK n, c, item :
          /\ Continue(w, n) /\ Resting(n) /\ SameWork(n, worker[w])
          /\ StoredUrl(worker[w], c) # Absent => item.url # Absent
          /\ n.items = With(worker[w].items, c, item)
    BY <1>3, ResolveShape
  <2>2. ASSUME NEW k \in DOMAIN n.items, StoredUrl(n, k) # Absent
        PROVE  n.items[k].url # Absent
    <3>1. StoredUrl(worker[w], k) # Absent
      BY <2>1, <2>2 DEF StoredUrl, SameWork
    <3>2. DOMAIN n.items = DOMAIN worker[w].items \cup {c}
      BY <2>1 DEF With
    <3>3. n.items[k] = IF k = c THEN item ELSE worker[w].items[k]
      BY <2>1, <2>2 DEF With
    <3> QED
      BY <1>0, <2>1, <3>1, <3>2, <3>3 DEF LogosInHand
  <2> QED
    BY <2>1, <2>2, RestingStaged, ContinueKept DEF LogosInHand
<1>4. CASE SaveRow(w)
  <2>1. worker[w].list = NoEntries
    BY <1>0, <1>4 DEF SaveRow, Staged
  <2>2. PICK n, c :
          /\ Continue(w, n) /\ Resting(n) /\ SameWork(n, worker[w])
          /\ n.items = Without(worker[w].items, c)
    BY <1>4, <2>1, SaveShape
  <2>3. ASSUME NEW k \in DOMAIN n.items, StoredUrl(n, k) # Absent
        PROVE  n.items[k].url # Absent
    <3>1. StoredUrl(worker[w], k) # Absent
      BY <2>2, <2>3 DEF StoredUrl, SameWork
    <3>2. k \in DOMAIN worker[w].items /\ n.items[k] = worker[w].items[k]
      BY <2>2, <2>3 DEF Without
    <3> QED
      BY <1>0, <3>1, <3>2 DEF LogosInHand
  <2> QED
    BY <2>2, <2>3, RestingStaged, ContinueKept DEF LogosInHand
<1>5. CASE Publish(w)
  <2>1. PICK n : /\ Continue(w, n) /\ n.pc = "record" /\ n.list = worker[w].list
                 /\ n.items = worker[w].items /\ n.events = NoEntries
    BY <1>5, PublishShape
  <2>2. EmptyHands(n)
    BY <1>0, <1>5, <2>1 DEF Publish, Staged, EmptyHands
  <2> QED
    BY <2>1, <2>2, NothingInHand, ContinueKept
<1>6. CASE RecordSuccess(w)
  <2>1. Continue(w, IdleWorker) /\ EmptyHands(IdleWorker)
    BY <1>6 DEF RecordSuccess, EmptyHands, IdleWorker
  <2> QED
    BY <2>1, NothingInHand, ContinueKept
<1>7. CASE WorkerFails(w)
  BY <1>7, FailsShape, NothingInHand, ContinueKept
<1> QED
  BY <1>1, <1>2, <1>3, <1>4, <1>5, <1>6, <1>7 DEF WorkerStep

LEMMA InitKept == Init => LogosKept
<1>1. EmptyHands(IdleWorker)
  BY DEF EmptyHands, IdleWorker
<1> QED
  BY <1>1, NothingInHand DEF Init, LogosKept

LEMMA NextKept == IInv /\ LogosKept /\ [Next]_vars => LogosKept'
<1> SUFFICES ASSUME TypeOK, LogosKept, [Next]_vars PROVE LogosKept'
  BY DEF IInv
<1>1. CASE worker' = worker
  BY <1>1 DEF LogosKept, Staged, LogosInHand, StoredUrl
<1>2. CASE InvokeWorker
  <2>1. PICK w, n : w \in FreeSlots /\ Continue(w, n) /\ EmptyHands(n)
    BY <1>2, InvokeShape
  <2> QED
    BY <2>1, NothingInHand, ContinueKept DEF FreeSlots
<1>3. ASSUME NEW w \in Slots, WorkerStep(w) \/ WorkerFails(w) PROVE LogosKept'
  BY <1>3, StepKept
<1>4. CASE \/ \E c \in Clubs : ChangeProfile(c)
           \/ AssociationsSync
           \/ Register
           \/ CoordinatorStarts
           \/ CoordinatorEnds
           \/ CoordinatorRefuses
           \/ CoordinatorFails
           \/ UNCHANGED vars
  BY <1>1, <1>4 DEF vars, ChangeProfile, AssociationsSync, Register, ResolveForRegistration,
      PutClubs, upsertClubStub, CoordinatorStarts, CoordinatorEnds, CoordinatorRefuses,
      CoordinatorFails
<1> QED
  BY <1>2, <1>3, <1>4 DEF Next

\* What a worker does to the local state of itself and others: none forgets what it
\* has scanned, and one that scans finds the rows as they are.
LEMMA ScansStay ==
    ASSUME IInv, LogosKept, [Next]_vars, NEW v \in Slots, worker'[v].pc \in Scanned
    PROVE  \/ worker[v].pc \in Scanned /\ worker'[v].existing = worker[v].existing
           \/ worker'[v].existing = rows
<1> USE DEF IInv
<1>1. CASE worker' = worker
  BY <1>1
<1>2. ASSUME NEW w \in Slots, NEW n, Continue(w, n),
             \/ n.pc \notin Scanned
             \/ worker[w].pc \in Scanned /\ n.existing = worker[w].existing
             \/ n.existing = rows
      PROVE  \/ worker[v].pc \in Scanned /\ worker'[v].existing = worker[v].existing
             \/ worker'[v].existing = rows
  <2>1. worker'[v] = IF v = w THEN n ELSE worker[v]
    BY <1>2 DEF Continue, TypeOK
  <2> QED
    BY <1>2, <2>1
<1>3. CASE InvokeWorker
  <2>1. PICK w, n : w \in FreeSlots /\ Continue(w, n) /\ n.pc = "queued"
    BY <1>3, InvokeShape
  <2> QED
    BY <1>2, <2>1 DEF FreeSlots, Scanned
<1>4. ASSUME NEW w \in Slots, WorkerStep(w)
      PROVE  \/ worker[v].pc \in Scanned /\ worker'[v].existing = worker[v].existing
             \/ worker'[v].existing = rows
  <2>1. CASE WorkerStarts(w)
    BY <1>2, <2>1, StartsShape
  <2>2. CASE FetchPage(w)
    BY <1>2, <2>2, FetchShape DEF FetchPage, Scanned, SameWork
  <2>3. CASE ResolveClub(w)
    BY <1>2, <2>3, ResolveShape DEF ResolveClub, Scanned, SameWork
  <2>4. CASE SaveRow(w)
    <3>1. worker[w].list = NoEntries
      BY <2>4 DEF SaveRow, LogosKept, Staged
    <3> QED
      BY <1>2, <2>4, <3>1, SaveShape DEF SaveRow, Scanned, SameWork
  <2>5. CASE Publish(w)
    BY <1>2, <2>5, PublishShape DEF Publish, Scanned, SameWork
  <2>6. CASE RecordSuccess(w)
    <3>1. Continue(w, IdleWorker) /\ IdleWorker.pc \notin Scanned
      BY <2>6 DEF RecordSuccess, IdleWorker, Scanned
    <3> QED
      BY <1>2, <3>1
  <2> QED
    BY <1>4, <2>1, <2>2, <2>3, <2>4, <2>5, <2>6 DEF WorkerStep
<1>5. ASSUME NEW w \in Slots, WorkerFails(w)
      PROVE  \/ worker[v].pc \in Scanned /\ worker'[v].existing = worker[v].existing
             \/ worker'[v].existing = rows
  BY <1>2, <1>5, FailsShape DEF Scanned
<1>6. CASE \/ \E c \in Clubs : ChangeProfile(c)
           \/ AssociationsSync
           \/ Register
           \/ CoordinatorStarts
           \/ CoordinatorEnds
           \/ CoordinatorRefuses
           \/ CoordinatorFails
           \/ UNCHANGED vars
  BY <1>1, <1>6 DEF vars, ChangeProfile, AssociationsSync, Register, ResolveForRegistration,
      PutClubs, upsertClubStub, CoordinatorStarts, CoordinatorEnds, CoordinatorRefuses,
      CoordinatorFails
<1> QED
  BY <1>3, <1>4, <1>5, <1>6 DEF Next

\* Only a registration and the workers write rows.
LEMMA RowsWritten ==
    ASSUME [Next]_vars, rows' # rows
    PROVE  upsertClubStub \/ \E w \in Slots : SaveRow(w)
  BY DEF vars, Next, ChangeProfile, AssociationsSync, Register, ResolveForRegistration,
      PutClubs, CoordinatorStarts, InvokeWorker, CoordinatorEnds, CoordinatorRefuses,
      CoordinatorFails, WorkerStep, WorkerStarts, FetchPage, ResolveClub, Publish,
      RecordSuccess, WorkerFails, tables

LEMMA LogoStays ==
    ASSUME IInv, LogosKept, [Next]_vars, NEW c \in Clubs, HasLogo(c), FoundByWorkers(c),
           ~(upsertClubStub /\ cli.club = c)
    PROVE  HasLogo(c)' /\ FoundByWorkers(c)'
<1>1. HasLogo(c)'
  <2>1. CASE rows' = rows
    BY <2>1 DEF HasLogo
  <2>2. CASE upsertClubStub
    <3>1. rows'[c] = rows[c]
      BY <2>2 DEF upsertClubStub, IInv, TypeOK
    <3> QED
      BY <3>1 DEF HasLogo
  <2>3. ASSUME NEW w \in Slots, SaveRow(w) PROVE HasLogo(c)'
    <3>1. worker[w].list = NoEntries /\ LogosInHand(worker[w])
      BY <2>3 DEF SaveRow, LogosKept, Staged
    <3>2. PICK k \in DOMAIN worker[w].items : rows' = [rows EXCEPT ![k] = worker[w].items[k]]
      BY <2>3, <3>1, SaveShape DEF IInv
    <3>3. worker[w].items \in Tables(Row)
      BY DEF IInv, TypeOK, WorkerState
    <3>4. k \in Clubs /\ worker[w].items[k] \in Row
      BY <3>3, TableParts
    <3>5. CASE k = c
      <4>1. rows'[c] = worker[w].items[c] /\ rows'[c] # Absent
        BY <3>2, <3>4, <3>5, ClubsAssumption DEF IInv, TypeOK
      <4>2. StoredUrl(worker[w], c) # Absent
        BY <2>3 DEF SaveRow, FoundByWorkers, Scanned
      <4> QED
        BY <3>1, <3>2, <3>5, <4>1, <4>2 DEF LogosInHand, HasLogo
    <3>6. CASE k # c
      BY <3>2, <3>6 DEF IInv, TypeOK, HasLogo
    <3> QED
      BY <3>5, <3>6
  <2> QED
    BY <2>1, <2>2, <2>3, RowsWritten
<1>2. FoundByWorkers(c)'
  <2> SUFFICES ASSUME NEW v \in Slots, worker'[v].pc \in Scanned
               PROVE  StoredUrl(worker'[v], c) # Absent
    BY DEF FoundByWorkers, StoredUrl
  <2>1. CASE worker[v].pc \in Scanned /\ worker'[v].existing = worker[v].existing
    BY <2>1 DEF FoundByWorkers, StoredUrl
  <2>2. CASE worker'[v].existing = rows
    BY <2>2 DEF HasLogo, StoredUrl
  <2> QED
    BY <2>1, <2>2, ScansStay
<1> QED
  BY <1>1, <1>2

\* A stored logo that every worker at work has found stays, and is found by all that
\* begin later, until a registration writes its stub: for any number of workers,
\* failed requests, renamed and moved clubs (preserve.ts:12-34, clubs.ts:139-203).
THEOREM LogosStay == Spec => LogoSurvivesSync
<1>1. IInv /\ LogosKept /\ [Next]_vars =>
        [\A c \in Clubs : HasLogo(c) /\ FoundByWorkers(c) =>
            \/ HasLogo(c)' /\ FoundByWorkers(c)'
            \/ upsertClubStub /\ cli.club = c]_vars
  BY LogoStays
<1> QED
  BY InitIInv, NextIInv, InitKept, NextKept, <1>1, PTL DEF Spec, LogoSurvivesSync

-----------------------------------------------------------------------------
(* AnnouncedUnlessFailed.                                                  *)

\* Under which what is stored of a registered club is announced: no operator starts a
\* sync while one is going on, clubs keep their association, and no registered club
\* is registered again.  Without any of the three, TLC finds it broken.
OneAtATime ==
    /\ ~ManualSync
    /\ \A c \in Clubs : \A p, q \in ProfilesOf[c] : p.assoc = q.assoc
    /\ Applicants \cap RegisteredClubs = {}

ProfilesPossible == \A c \in Clubs : sams[c] \in ProfilesOf[c]

ApplicantsOnly == cli.pc # "idle" => cli.club \in Applicants

\* Nobody begins a fan-out while a worker is at work; every association gets one
\* worker, and each of them knows the registered clubs.
OneFanOut ==
    /\ RegisteredClubs \subseteq config
    /\ coord.pc = "retry" => InFlight = {}
    /\ coord.pc = "invoke" =>
        /\ RegisteredClubs \subseteq coord.registered
        /\ coord.left \subseteq coord.found
        /\ coord.found = {} => InFlight = {}
        /\ \A w \in InFlight : worker[w].assoc \notin coord.left
    /\ \A v, w \in InFlight : worker[v].assoc = worker[w].assoc => v = w
    /\ \A w \in InFlight : RegisteredClubs \subseteq worker[w].registered

\* A worker has in hand only clubs of its association and of the pages before, and of
\* those on the page it has not looked at nothing else.
InHand(s) ==
    /\ \A c \in DOMAIN s.list \cup DOMAIN s.items \cup DOMAIN s.events :
        sams[c].assoc = s.assoc /\ PageOf[c] < s.page
    /\ DOMAIN s.list \cap (DOMAIN s.items \cup DOMAIN s.events) = {}

\* A worker that has scanned club c's row is the one that writes it.
Tracks(s, c) == s.pc \in Scanned /\ s.assoc = sams[c].assoc

\* The club's row is as it was scanned and announced, or the worker has its event
\* in hand, which tells of the row it has saved or is about to save.
Tracked(s, c, row, told) ==
    IF s.pc = "record" THEN told = Projection(row)
    ELSE /\ s.existing[c] \in Row
         /\ told = Projection(s.existing[c])
         /\ IF c \in DOMAIN s.events /\ c \notin DOMAIN s.items
            THEN s.events[c] = Projection(row) ELSE row = s.existing[c]
         /\ c \in DOMAIN s.items =>
              /\ s.items[c].assoc = s.assoc
              /\ IF c \in DOMAIN s.events THEN s.events[c] = Projection(s.items[c])
                 ELSE s.items[c] = s.existing[c]

\* A registered club's row stays with its association; it has been announced, or its
\* worker is on the way to do so.
Told ==
    \A c \in RegisteredClubs :
        /\ rows[c] \in Row /\ rows[c].assoc = sams[c].assoc
        /\ (\A w \in Slots : ~Tracks(worker[w], c)) => feed[c] = Projection(rows[c])
        /\ \A w \in Slots : Tracks(worker[w], c) => Tracked(worker[w], c, rows[c], feed[c])

HandsFit == \A w \in Slots : Staged(worker[w]) /\ InHand(worker[w])

Announcing ==
    /\ ProfilesPossible
    /\ ApplicantsOnly
    /\ failures = 0 =>
        /\ OneFanOut
        /\ HandsFit
        /\ Told

LEMMA NextPossible ==
    ASSUME IInv, ProfilesPossible, ApplicantsOnly, [Next]_vars
    PROVE  ProfilesPossible' /\ ApplicantsOnly'
<1>1. ProfilesPossible'
  <2>1. CASE sams' = sams
    BY <2>1 DEF ProfilesPossible
  <2>2. ASSUME NEW c \in Clubs, ChangeProfile(c) PROVE ProfilesPossible'
    <3>1. PICK p \in ProfilesOf[c] : sams' = [sams EXCEPT ![c] = p]
      BY <2>2 DEF ChangeProfile
    <3> QED
      BY <3>1 DEF ProfilesPossible, IInv, TypeOK
  <2> QED
    BY <2>1, <2>2 DEF vars, Next, AssociationsSync, Register, ResolveForRegistration, PutClubs,
        upsertClubStub, CoordinatorStarts, InvokeWorker, CoordinatorEnds, CoordinatorRefuses,
        CoordinatorFails, WorkerStep, WorkerStarts, FetchPage, ResolveClub, SaveRow, Publish,
        RecordSuccess, WorkerFails, world
<1>2. ApplicantsOnly'
  <2>1. CASE cli' = cli
    BY <2>1 DEF ApplicantsOnly
  <2>2. ASSUME NEW c \in Applicants, ResolveForRegistration(c) PROVE ApplicantsOnly'
    BY <2>2 DEF ResolveForRegistration, ApplicantsOnly
  <2>3. CASE PutClubs \/ upsertClubStub
    <3>1. cli \in CliState /\ cli.pc # "idle"
      BY <2>3 DEF IInv, TypeOK, PutClubs, upsertClubStub
    <3>2. cli'.club = cli.club
      BY <2>3, <3>1 DEF PutClubs, upsertClubStub, CliState
    <3> QED
      BY <3>1, <3>2 DEF ApplicantsOnly
  <2> QED
    BY <2>1, <2>2, <2>3 DEF vars, Next, ChangeProfile, AssociationsSync, Register,
        CoordinatorStarts, InvokeWorker, CoordinatorEnds, CoordinatorRefuses,
        CoordinatorFails, WorkerStep, WorkerStarts, FetchPage, ResolveClub, SaveRow, Publish,
        RecordSuccess, WorkerFails
<1> QED
  BY <1>1, <1>2

HomesStay == \A c \in Clubs : sams'[c].assoc = sams[c].assoc

LEMMA Homes ==
    ASSUME OneAtATime, ProfilesPossible, ProfilesPossible'
    PROVE  HomesStay
  BY DEF OneAtATime, ProfilesPossible, HomesStay

\* What the parts need to stay as they are.
LEMMA FanOutRests ==
    ASSUME OneFanOut, config \subseteq config', coord' = coord, InFlight' \subseteq InFlight,
           \A w \in InFlight' : worker'[w].assoc = worker[w].assoc
                                  /\ worker'[w].registered = worker[w].registered
    PROVE  OneFanOut'
  BY DEF OneFanOut

LEMMA HandsRest ==
    ASSUME TypeOK, HandsFit, HomesStay, worker' = worker
    PROVE  HandsFit'
<1> SUFFICES ASSUME NEW w \in Slots
             PROVE  Staged(worker[w]) /\ InHand(worker[w])'
  BY DEF HandsFit, Staged, InHand
<1>1. worker[w].list \in Tables(Entry) /\ worker[w].items \in Tables(Row)
      /\ worker[w].events \in Tables(Announcement)
  BY DEF TypeOK, WorkerState
<1>2. DOMAIN worker[w].list \cup DOMAIN worker[w].items \cup DOMAIN worker[w].events
        \subseteq Clubs
  BY <1>1, TableParts
<1> QED
  BY <1>2 DEF HandsFit, InHand, HomesStay

\* A step of worker w into state n.
LEMMA HandsStep ==
    ASSUME TypeOK, HandsFit, sams' = sams, NEW w \in Slots, NEW n, Continue(w, n),
           Staged(n), InHand(n)
    PROVE  HandsFit'
<1> SUFFICES ASSUME NEW v \in Slots
             PROVE  Staged(worker'[v]) /\ InHand(worker'[v])
  BY DEF HandsFit, Staged, InHand
<1>1. worker'[v] = IF v = w THEN n ELSE worker[v]
  BY DEF Continue, TypeOK
<1> QED
  BY <1>1 DEF HandsFit

LEMMA EmptyFits ==
    ASSUME NEW n, EmptyHands(n)
    PROVE  Staged(n) /\ InHand(n)
  BY EmptyTable DEF EmptyHands, Staged, InHand

LEMMA ToldRests ==
    ASSUME Told, HomesStay, worker' = worker,
           \A c \in RegisteredClubs : rows'[c] = rows[c] /\ feed'[c] = feed[c]
    PROVE  Told'
<1> SUFFICES ASSUME NEW c \in RegisteredClubs
             PROVE  /\ rows'[c] \in Row /\ rows'[c].assoc = sams'[c].assoc
                    /\ (\A w \in Slots : ~Tracks(worker[w], c)')
                          => feed'[c] = Projection(rows'[c])
                    /\ \A w \in Slots : Tracks(worker[w], c)'
                          => Tracked(worker[w], c, rows'[c], feed'[c])
  BY DEF Told, Tracks, Tracked, Projection
<1>1. sams'[c].assoc = sams[c].assoc
  BY ClubsAssumption DEF HomesStay
<1>2. \A w \in Slots : Tracks(worker[w], c)' <=> Tracks(worker[w], c)
  BY <1>1 DEF Tracks
<1> QED
  BY <1>1, <1>2 DEF Told

\* A step of worker w into state n: it concerns the clubs of its association alone,
\* and no other worker tracks those.
LEMMA ToldStep ==
    ASSUME TypeOK, OneFanOut, Told, sams' = sams, NEW w \in InFlight, NEW n, Continue(w, n),
           n.pc \in Scanned => n.assoc = worker[w].assoc,
           \A c \in RegisteredClubs :
               sams[c].assoc # worker[w].assoc => rows'[c] = rows[c] /\ feed'[c] = feed[c],
           \A c \in RegisteredClubs : sams[c].assoc = worker[w].assoc =>
               /\ rows'[c] \in Row /\ rows'[c].assoc = sams[c].assoc
               /\ n.pc \in Scanned => Tracked(n, c, rows'[c], feed'[c])
               /\ n.pc \notin Scanned => feed'[c] = Projection(rows'[c])
    PROVE  Told'
<1>1. \A v \in Slots : worker'[v] = IF v = w THEN n ELSE worker[v]
  BY DEF Continue, TypeOK, InFlight
<1> SUFFICES ASSUME NEW c \in RegisteredClubs
             PROVE  /\ rows'[c] \in Row /\ rows'[c].assoc = sams[c].assoc
                    /\ (\A v \in Slots : ~Tracks(worker'[v], c))
                          => feed'[c] = Projection(rows'[c])
                    /\ \A v \in Slots : Tracks(worker'[v], c)
                          => Tracked(worker'[v], c, rows'[c], feed'[c])
  BY DEF Told, Tracks, Tracked, Projection
<1>2. CASE sams[c].assoc = worker[w].assoc
  <2>1. \A v \in Slots : v # w => ~Tracks(worker[v], c)
    BY <1>2 DEF Tracks, OneFanOut, InFlight, Scanned
  <2>2. Tracks(n, c) <=> n.pc \in Scanned
    BY <1>2 DEF Tracks
  <2>3. w \in Slots
    BY DEF InFlight
  <2> QED
    BY <1>1, <1>2, <2>1, <2>2, <2>3
<1>3. CASE sams[c].assoc # worker[w].assoc
  <2>1. ~Tracks(n, c) /\ ~Tracks(worker[w], c)
    BY <1>3 DEF Tracks
  <2> QED
    BY <1>1, <1>3, <2>1 DEF Told
<1> QED
  BY <1>2, <1>3

\* What each step of a worker needs to keep, apart from its own state.
LEMMA FanOutStep ==
    ASSUME TypeOK, OneFanOut, config' = config, coord' = coord, NEW w \in InFlight, NEW n,
           Continue(w, n),
           n.pc # "idle" => n.assoc = worker[w].assoc /\ n.registered = worker[w].registered
    PROVE  OneFanOut'
<1>1. \A v \in Slots : worker'[v] = IF v = w THEN n ELSE worker[v]
  BY DEF Continue, TypeOK, InFlight
<1>2. InFlight' \subseteq InFlight
  BY <1>1 DEF InFlight
<1>3. \A v \in InFlight' : worker'[v].assoc = worker[v].assoc
                             /\ worker'[v].registered = worker[v].registered
  BY <1>1 DEF InFlight
<1> QED
  BY <1>2, <1>3, FanOutRests

LEMMA StartsAnnounced ==
    ASSUME TypeOK, OneFanOut, HandsFit, Told, NEW w \in Slots, WorkerStarts(w)
    PROVE  OneFanOut' /\ HandsFit' /\ Told'
<1> DEFINE s == worker[w]
<1>1. PICK n :
        /\ Continue(w, n) /\ n.pc = "page" /\ n.existing = rows
        /\ n.assoc = s.assoc /\ n.registered = s.registered
        /\ n.list = s.list /\ n.items = s.items /\ n.events = s.events
  BY StartsShape
<1>2. /\ w \in InFlight /\ s.pc = "queued" /\ sams' = sams /\ config' = config
      /\ coord' = coord /\ rows' = rows /\ feed' = feed
  BY DEF WorkerStarts, InFlight, world, tables
<1>3. EmptyHands(n)
  BY <1>1, <1>2 DEF HandsFit, Staged, EmptyHands
<1>4. ASSUME NEW c \in RegisteredClubs, sams[c].assoc = s.assoc
      PROVE  Tracked(n, c, rows[c], feed[c])
  <2>1. \A v \in Slots : ~Tracks(worker[v], c)
    BY <1>2, <1>4 DEF Tracks, OneFanOut, InFlight, Scanned
  <2>2. rows[c] \in Row /\ feed[c] = Projection(rows[c])
    BY <2>1 DEF Told
  <2> QED
    BY <1>1, <1>3, <2>2, EmptyTable DEF Tracked, EmptyHands
<1>5. OneFanOut'
  BY <1>1, <1>2, FanOutStep
<1>6. HandsFit'
  BY <1>1, <1>2, <1>3, EmptyFits, HandsStep
<1>7. Told'
  BY <1>1, <1>2, <1>4, ToldStep DEF Told, Scanned
<1> QED
  BY <1>5, <1>6, <1>7

LEMMA FetchAnnounced ==
    ASSUME TypeOK, OneFanOut, HandsFit, Told, NEW w \in Slots, FetchPage(w)
    PROVE  OneFanOut' /\ HandsFit' /\ Told'
<1> DEFINE s == worker[w]
<1>1. PICK n :
        /\ Continue(w, n) /\ Resting(n) /\ SameWork(n, s)
        /\ DOMAIN n.list = {c \in Clubs : sams[c].assoc = s.assoc /\ PageOf[c] = s.page}
        /\ n.items = s.items /\ n.events = s.events /\ n.page = s.page + 1
  BY FetchShape
<1>2. /\ w \in InFlight /\ s.pc = "page" /\ s.pc \in Scanned /\ sams' = sams
      /\ config' = config /\ coord' = coord /\ rows' = rows /\ feed' = feed
  BY DEF FetchPage, InFlight, Scanned, world, tables
<1>3. Staged(s) /\ InHand(s) /\ s.items = NoEntries
  BY <1>2 DEF HandsFit, Staged
<1>4. InHand(n)
  <2>1. s.page \in Nat /\ s.events \in Tables(Announcement)
    BY DEF TypeOK, WorkerState
  <2>2. DOMAIN s.events \subseteq Clubs
    BY <2>1, TableParts
  <2>3. \A c \in DOMAIN n.list :
          sams[c].assoc = s.assoc /\ PageOf[c] = s.page /\ PageOf[c] < n.page
    BY <1>1, <2>1
  <2>4. \A c \in DOMAIN n.events :
          sams[c].assoc = s.assoc /\ PageOf[c] < s.page /\ PageOf[c] < n.page
    <3>1. \A c \in DOMAIN n.events : PageOf[c] \in Nat
      BY <1>1, <2>2, ClubsAssumption
    <3> QED
      BY <1>1, <1>3, <2>1, <3>1 DEF InHand
  <2>5. DOMAIN n.items = {}
    BY <1>1, <1>3, EmptyTable
  <2>6. DOMAIN n.list \cap DOMAIN n.events = {}
    <3>1. \A c \in DOMAIN n.list : ~(PageOf[c] < s.page)
      BY <2>1, <2>3
    <3> QED
      BY <2>4, <3>1
  <2>7. n.assoc = s.assoc
    BY <1>1 DEF SameWork
  <2> QED
    BY <2>3, <2>4, <2>5, <2>6, <2>7 DEF InHand
<1>5. ASSUME NEW c \in RegisteredClubs, sams[c].assoc = s.assoc
      PROVE  Tracked(n, c, rows[c], feed[c])
  <2>1. Tracked(s, c, rows[c], feed[c])
    BY <1>2, <1>5 DEF Told, Tracks
  <2> QED
    BY <1>1, <1>2, <2>1 DEF Tracked, Resting, SameWork
<1>6. OneFanOut'
  BY <1>1, <1>2, FanOutStep DEF SameWork
<1>7. HandsFit'
  BY <1>1, <1>2, <1>4, RestingStaged, HandsStep
<1>8. n.pc \in Scanned /\ n.assoc = s.assoc
  BY <1>1 DEF Resting, Scanned, SameWork
<1>9. Told'
  BY <1>1, <1>2, <1>5, <1>8, ToldStep DEF Told
<1> QED
  BY <1>6, <1>7, <1>9

\* The club resolved becomes an item, and an event exactly if its row is to change.
LEMMA ResolveAnnounced ==
    ASSUME TypeOK, OneFanOut, HandsFit, Told, NEW w \in Slots, ResolveClub(w)
    PROVE  OneFanOut' /\ HandsFit' /\ Told'
<1> DEFINE s == worker[w]
<1>1. PICK n, k, item :
        /\ Continue(w, n) /\ Resting(n) /\ SameWork(n, s)
        /\ k \in DOMAIN s.list /\ item \in Row /\ item.assoc = s.assoc
        /\ n.list = Without(s.list, k)
        /\ n.items = With(s.items, k, item)
        /\ n.events = IF Announces(s, k, item)
                      THEN With(s.events, k, Projection(item)) ELSE s.events
        /\ n.page = s.page
  BY ResolveShape
<1>2. /\ w \in InFlight /\ s.pc = "club" /\ s.pc \in Scanned /\ sams' = sams
      /\ config' = config /\ coord' = coord /\ rows' = rows /\ feed' = feed
  BY DEF ResolveClub, InFlight, Scanned, world
<1>3. InHand(s)
  BY DEF HandsFit
<1>4. k \notin DOMAIN s.items /\ k \notin DOMAIN s.events
  BY <1>1, <1>3 DEF InHand
<1>5. /\ DOMAIN n.list = DOMAIN s.list \ {k}
      /\ DOMAIN n.items = DOMAIN s.items \cup {k}
      /\ n.items[k] = item
      /\ \A c \in DOMAIN s.items : n.items[c] = s.items[c]
  BY <1>1, <1>4 DEF With, Without
<1>6. /\ DOMAIN n.events = IF Announces(s, k, item) THEN DOMAIN s.events \cup {k}
                           ELSE DOMAIN s.events
      /\ Announces(s, k, item) => n.events[k] = Projection(item)
      /\ \A c \in DOMAIN s.events : n.events[c] = s.events[c]
  BY <1>1, <1>4 DEF With
<1>7. InHand(n)
  <2>1. n.assoc = s.assoc /\ n.page = s.page
    BY <1>1 DEF SameWork
  <2> QED
    BY <1>1, <1>3, <1>5, <1>6, <2>1 DEF InHand
<1>8. ASSUME NEW c \in RegisteredClubs, sams[c].assoc = s.assoc
      PROVE  Tracked(n, c, rows[c], feed[c])
  <2>1. Tracked(s, c, rows[c], feed[c])
    BY <1>2, <1>8 DEF Told, Tracks
  <2>2. n.pc # "record" /\ n.existing = s.existing /\ n.assoc = s.assoc
    BY <1>1 DEF Resting, SameWork
  <2>3. CASE c = k
    <3>1. c \in s.registered
      BY <1>2 DEF OneFanOut
    <3>2. rows[c] = s.existing[c]
      BY <1>2, <1>4, <2>1, <2>3 DEF Tracked
    <3>3. CASE Announces(s, k, item)
      BY <1>1, <1>2, <1>5, <1>6, <2>1, <2>2, <2>3, <3>2, <3>3 DEF Tracked
    <3>4. CASE ~Announces(s, k, item)
      <4>1. item = s.existing[c]
        BY <2>3, <3>1, <3>4 DEF Announces
      <4> QED
        BY <1>1, <1>2, <1>4, <1>5, <1>6, <2>1, <2>2, <2>3, <3>2, <3>4, <4>1 DEF Tracked
    <3> QED
      BY <3>3, <3>4
  <2>4. CASE c # k
    <3>1. /\ c \in DOMAIN n.items <=> c \in DOMAIN s.items
          /\ c \in DOMAIN s.items => n.items[c] = s.items[c]
      BY <1>5, <2>4
    <3>2. /\ c \in DOMAIN n.events <=> c \in DOMAIN s.events
          /\ c \in DOMAIN s.events => n.events[c] = s.events[c]
      BY <1>6, <2>4
    <3> QED
      BY <1>2, <2>1, <2>2, <3>1, <3>2 DEF Tracked
  <2> QED
    BY <2>3, <2>4
<1>9. OneFanOut'
  BY <1>1, <1>2, FanOutStep DEF SameWork
<1>10. HandsFit'
  BY <1>1, <1>2, <1>7, RestingStaged, HandsStep
<1>11. n.pc \in Scanned /\ n.assoc = s.assoc
  BY <1>1 DEF Resting, Scanned, SameWork
<1>12. Told'
  BY <1>1, <1>2, <1>8, <1>11, ToldStep DEF Told
<1> QED
  BY <1>9, <1>10, <1>12

\* The row saved is the one its event tells of, or the one that was scanned.
LEMMA SaveAnnounced ==
    ASSUME TypeOK, OneFanOut, HandsFit, Told, NEW w \in Slots, SaveRow(w)
    PROVE  OneFanOut' /\ HandsFit' /\ Told'
<1> DEFINE s == worker[w]
<1>1. /\ w \in InFlight /\ s.pc = "save" /\ s.pc \in Scanned /\ sams' = sams
      /\ config' = config /\ coord' = coord /\ feed' = feed
  BY DEF SaveRow, InFlight, Scanned, world
<1>2. InHand(s) /\ s.list = NoEntries
  BY <1>1 DEF HandsFit, Staged
<1>3. PICK n, k :
        /\ Continue(w, n) /\ Resting(n) /\ SameWork(n, s)
        /\ k \in DOMAIN s.items
        /\ rows' = [rows EXCEPT ![k] = s.items[k]]
        /\ n.items = Without(s.items, k)
        /\ n.list = s.list /\ n.events = s.events /\ n.page = s.page
  BY <1>2, SaveShape
<1>4. /\ DOMAIN n.items = DOMAIN s.items \ {k}
      /\ \A c \in DOMAIN s.items \ {k} : n.items[c] = s.items[c]
  BY <1>3 DEF Without
<1>5. InHand(n)
  BY <1>2, <1>3, <1>4 DEF InHand, SameWork
<1>6. k \in Clubs /\ s.items[k] \in Row /\ sams[k].assoc = s.assoc
  <2>1. s.items \in Tables(Row)
    BY DEF TypeOK, WorkerState
  <2>2. DOMAIN s.items \subseteq Clubs /\ s.items \in [DOMAIN s.items -> Row]
    BY <2>1, TableParts
  <2> QED
    BY <1>2, <1>3, <2>2 DEF InHand
<1>7. \A c \in RegisteredClubs : rows'[c] = IF c = k THEN s.items[k] ELSE rows[c]
  BY <1>3, <1>6, ClubsAssumption DEF TypeOK
<1>8. ASSUME NEW c \in RegisteredClubs, sams[c].assoc = s.assoc
      PROVE  /\ rows'[c] \in Row /\ rows'[c].assoc = sams[c].assoc
             /\ Tracked(n, c, rows'[c], feed[c])
  <2>1. Tracked(s, c, rows[c], feed[c])
    BY <1>1, <1>8 DEF Told, Tracks
  <2>2. n.pc # "record" /\ n.existing = s.existing /\ n.assoc = s.assoc
    BY <1>3 DEF Resting, SameWork
  <2>3. CASE c = k
    <3>1. rows'[c] = s.items[c] /\ rows'[c] \in Row /\ c \notin DOMAIN n.items
      BY <1>4, <1>6, <1>7, <2>3
    <3>2. s.items[c].assoc = s.assoc
      BY <1>1, <1>3, <2>1, <2>3 DEF Tracked
    <3>3. Tracked(n, c, rows'[c], feed[c])
      BY <1>1, <1>3, <2>1, <2>2, <2>3, <3>1 DEF Tracked
    <3> QED
      BY <1>8, <3>1, <3>2, <3>3
  <2>4. CASE c # k
    <3>1. rows'[c] = rows[c]
      BY <1>7, <2>4
    <3>2. /\ c \in DOMAIN n.items <=> c \in DOMAIN s.items
          /\ c \in DOMAIN s.items => n.items[c] = s.items[c]
      BY <1>4, <2>4
    <3>3. Tracked(n, c, rows[c], feed[c])
      BY <1>1, <1>3, <2>1, <2>2, <3>2 DEF Tracked
    <3> QED
      BY <3>1, <3>3 DEF Told
  <2> QED
    BY <2>3, <2>4
<1>9. OneFanOut'
  BY <1>1, <1>3, FanOutStep DEF SameWork
<1>10. HandsFit'
  BY <1>1, <1>3, <1>5, RestingStaged, HandsStep
<1>11. n.pc \in Scanned /\ n.assoc = s.assoc
  BY <1>3 DEF Resting, Scanned, SameWork
<1>12. \A c \in RegisteredClubs :
         sams[c].assoc # s.assoc => rows'[c] = rows[c] /\ feed'[c] = feed[c]
  BY <1>1, <1>6, <1>7
<1>13. Told'
  BY <1>1, <1>3, <1>8, <1>11, <1>12, ToldStep
<1> QED
  BY <1>9, <1>10, <1>13

\* All events of an association's clubs go out, and no other club's.
LEMMA PublishAnnounced ==
    ASSUME TypeOK, OneFanOut, HandsFit, Told, NEW w \in Slots, Publish(w)
    PROVE  OneFanOut' /\ HandsFit' /\ Told'
<1> DEFINE s == worker[w]
<1>1. PICK n :
        /\ Continue(w, n) /\ n.pc = "record" /\ SameWork(n, s)
        /\ n.list = s.list /\ n.items = s.items /\ n.events = NoEntries /\ n.page = s.page
  BY PublishShape
<1>2. /\ w \in InFlight /\ s.pc = "publish" /\ s.pc \in Scanned /\ sams' = sams
      /\ config' = config /\ coord' = coord /\ rows' = rows
      /\ feed' = Delivered(s, DOMAIN s.events)
  BY DEF Publish, InFlight, Scanned, world, tables
<1>3. Staged(s) /\ InHand(s) /\ s.items = NoEntries
  BY <1>2 DEF HandsFit, Staged
<1>4. EmptyHands(n)
  BY <1>1, <1>2, <1>3 DEF Staged, EmptyHands
<1>5. \A c \in RegisteredClubs :
        feed'[c] = IF c \in DOMAIN s.events THEN s.events[c] ELSE feed[c]
  BY <1>2, ClubsAssumption DEF Delivered
<1>6. ASSUME NEW c \in RegisteredClubs, sams[c].assoc = s.assoc
      PROVE  Tracked(n, c, rows[c], feed'[c])
  <2>1. Tracked(s, c, rows[c], feed[c])
    BY <1>2, <1>6 DEF Told, Tracks
  <2>2. c \notin DOMAIN s.items
    BY <1>3, EmptyTable
  <2>3. feed'[c] = Projection(rows[c])
    BY <1>2, <1>5, <2>1, <2>2 DEF Tracked
  <2> QED
    BY <1>1, <2>3 DEF Tracked
<1>7. \A c \in RegisteredClubs : sams[c].assoc # s.assoc => feed'[c] = feed[c]
  BY <1>3, <1>5 DEF InHand
<1>8. OneFanOut'
  BY <1>1, <1>2, FanOutStep DEF SameWork
<1>9. HandsFit'
  BY <1>1, <1>2, <1>4, EmptyFits, HandsStep
<1>10. n.pc \in Scanned /\ n.assoc = s.assoc
  BY <1>1 DEF Scanned, SameWork
<1>11. Told'
  BY <1>1, <1>2, <1>6, <1>7, <1>10, ToldStep DEF Told
<1> QED
  BY <1>8, <1>9, <1>11

LEMMA RecordAnnounced ==
    ASSUME TypeOK, OneFanOut, HandsFit, Told, NEW w \in Slots, RecordSuccess(w)
    PROVE  OneFanOut' /\ HandsFit' /\ Told'
<1> DEFINE s == worker[w]
<1>1. /\ w \in InFlight /\ s.pc = "record" /\ s.pc \in Scanned /\ sams' = sams
      /\ config' = config /\ coord' = coord /\ rows' = rows /\ feed' = feed
      /\ Continue(w, IdleWorker)
  BY DEF RecordSuccess, InFlight, Scanned, world, tables
<1>2. IdleWorker.pc = "idle" /\ EmptyHands(IdleWorker)
  BY DEF IdleWorker, EmptyHands
<1>3. ASSUME NEW c \in RegisteredClubs, sams[c].assoc = s.assoc
      PROVE  feed[c] = Projection(rows[c])
  BY <1>1, <1>3 DEF Told, Tracks, Tracked
<1>4. OneFanOut'
  BY <1>1, <1>2, FanOutStep
<1>5. HandsFit'
  BY <1>1, <1>2, EmptyFits, HandsStep
<1>6. Told'
  BY <1>1, <1>2, <1>3, ToldStep DEF Told, Scanned
<1> QED
  BY <1>4, <1>5, <1>6

\* A failure that is counted is never forgotten.
LEMMA CountZero ==
    ASSUME TypeOK, NEW ok \in BOOLEAN, Count(ok), failures' = 0
    PROVE  ok /\ failures = 0
<1>1. MaxFailures \in Nat
  BY ClubsAssumption
<1>2. failures \in Nat
  BY <1>1 DEF TypeOK
<1>3. CASE ok
  BY <1>3 DEF Count
<1>4. CASE ~ok
  <2>1. failures' = failures + 1
    BY <1>4 DEF Count
  <2> QED
    BY <1>2, <2>1
<1> QED
  BY <1>3, <1>4

LEMMA FailureStays ==
    ASSUME TypeOK, [Next]_vars, failures' = 0
    PROVE  failures = 0
<1>1. CASE failures' = failures
  BY <1>1
<1>2. CASE AssociationsSync
  <2>1. PICK listed \in SUBSET Associations : Count(listed = Associations)
    BY <1>2 DEF AssociationsSync
  <2>2. (listed = Associations) \in BOOLEAN
    OBVIOUS
  <2> HIDE DEF TypeOK
  <2> QED
    BY <2>1, <2>2, CountZero
<1>3. CASE PutClubs \/ CoordinatorStarts
  <2>1. PICK readable \in Answers : Count(readable)
    BY <1>3 DEF PutClubs, CoordinatorStarts
  <2>2. readable \in BOOLEAN
    BY DEF Answers
  <2> QED
    BY <2>1, <2>2, CountZero
<1>4. ASSUME NEW w \in Slots, ResolveClub(w) PROVE failures = 0
  <2>1. PICK fetched, uploaded : Count(fetched /\ uploaded)
    BY <1>4 DEF ResolveClub
  <2> DEFINE ok == fetched /\ uploaded
  <2>2. ok \in BOOLEAN /\ Count(ok)
    BY <2>1
  <2> HIDE DEF ok
  <2> QED
    BY <2>2, CountZero
<1>5. CASE CoordinatorFails \/ \E w \in Slots : WorkerFails(w)
  BY <1>5, CountZero DEF CoordinatorFails, WorkerFails
<1> QED
  BY <1>1, <1>2, <1>3, <1>4, <1>5 DEF Next, vars, ChangeProfile, Register,
      ResolveForRegistration, upsertClubStub, InvokeWorker, CoordinatorEnds,
      CoordinatorRefuses, WorkerStep, WorkerStarts, FetchPage, SaveRow, Publish, RecordSuccess

\* A fan-out begins with nobody at work, and with the list of registered clubs.
LEMMA CoordinatorAnnounced ==
    ASSUME OneAtATime, TypeOK, OneFanOut,
           CoordinatorStarts \/ CoordinatorEnds \/ CoordinatorRefuses \/ CoordinatorFails,
           failures' = 0
    PROVE  OneFanOut'
<1>1. coord \in CoordState
  BY DEF TypeOK
<1>2. CASE CoordinatorStarts
  <2>1. PICK readable \in Answers :
          /\ coord' = [coord EXCEPT !.pc = "invoke",
                                    !.registered = loadProviderRuntimeConfig(readable),
                                    !.found = associations,
                                    !.left = associations]
          /\ Count(readable)
    BY <1>2 DEF CoordinatorStarts
  <2>2. readable
    BY <2>1, CountZero DEF Answers
  <2>3. coord'.pc = "invoke" /\ coord'.registered = config /\ coord'.left \subseteq coord'.found
    BY <1>1, <2>1, <2>2 DEF CoordState, loadProviderRuntimeConfig
  <2>4. InFlight = {}
    BY <1>2 DEF CoordinatorStarts, MayStart, OneAtATime, OneFanOut
  <2>5. config' = config /\ InFlight' = {}
    BY <1>2, <2>4 DEF CoordinatorStarts, tables, InFlight
  <2> QED
    BY <2>3, <2>5 DEF OneFanOut
<1>3. CASE CoordinatorEnds
  <2>1. coord'.pc = "idle" /\ config' = config /\ worker' = worker
    BY <1>3 DEF CoordinatorEnds, IdleCoordinator, tables
  <2> QED
    BY <2>1 DEF OneFanOut, InFlight
<1>4. CASE CoordinatorRefuses
  <2>1. InFlight = {}
    BY <1>4 DEF CoordinatorRefuses, Refused, OneFanOut
  <2>2. coord'.pc \in {"idle", "retry"}
    BY <1>4 DEF CoordinatorRefuses, RetryCoordinator, IdleCoordinator
  <2>3. config' = config /\ InFlight' = {}
    BY <1>4, <2>1 DEF CoordinatorRefuses, tables, InFlight
  <2> QED
    BY <2>2, <2>3 DEF OneFanOut
<1>5. CASE CoordinatorFails
  BY <1>5, CountZero DEF CoordinatorFails
<1> QED
  BY <1>2, <1>3, <1>4, <1>5

LEMMA InvokeAnnounced ==
    ASSUME TypeOK, OneFanOut, HandsFit, Told, InvokeWorker
    PROVE  OneFanOut' /\ HandsFit' /\ Told'
<1>1. PICK w, a, n :
        /\ w \in FreeSlots /\ Continue(w, n) /\ a \in coord.left
        /\ n.pc = "queued" /\ n.assoc = a /\ n.registered = coord.registered
        /\ EmptyHands(n) /\ coord' = [coord EXCEPT !.left = @ \ {a}]
  BY InvokeShape
<1>2. /\ coord.pc = "invoke" /\ sams' = sams /\ config' = config /\ rows' = rows
      /\ feed' = feed
  BY DEF InvokeWorker, world, tables
<1>3. w \in Slots /\ worker[w].pc = "idle"
  BY <1>1 DEF FreeSlots, InFlight
<1>4. \A v \in Slots : worker'[v] = IF v = w THEN n ELSE worker[v]
  BY <1>1 DEF Continue, TypeOK
<1>5. InFlight' = InFlight \cup {w}
  BY <1>1, <1>3, <1>4 DEF InFlight
<1>6. /\ coord'.pc = "invoke" /\ coord'.registered = coord.registered
      /\ coord'.found = coord.found /\ coord'.left = coord.left \ {a}
  BY <1>1, <1>2 DEF TypeOK, CoordState
<1>7. OneFanOut'
  <2>1. \A v \in InFlight : v # w /\ worker'[v] = worker[v] /\ worker[v].assoc # a
    BY <1>1, <1>2, <1>3, <1>4 DEF InFlight, OneFanOut
  <2>2. worker'[w] = n
    BY <1>3, <1>4
  <2>3. a \in coord.found
    BY <1>1, <1>2 DEF OneFanOut
  <2> QED
    BY <1>1, <1>2, <1>5, <1>6, <2>1, <2>2, <2>3 DEF OneFanOut
<1>8. HandsFit'
  BY <1>1, <1>2, <1>3, EmptyFits, HandsStep
<1>9. Told'
  <2> SUFFICES ASSUME NEW c \in RegisteredClubs
               PROVE  /\ rows[c] \in Row /\ rows[c].assoc = sams[c].assoc
                      /\ (\A v \in Slots : ~Tracks(worker'[v], c))
                            => feed[c] = Projection(rows[c])
                      /\ \A v \in Slots : Tracks(worker'[v], c)
                            => Tracked(worker'[v], c, rows[c], feed[c])
    BY <1>2 DEF Told, Tracks, Tracked, Projection
  <2>1. ~Tracks(n, c) /\ ~Tracks(worker[w], c)
    BY <1>1, <1>3 DEF Tracks, Scanned
  <2> QED
    BY <1>4, <2>1 DEF Told
<1> QED
  BY <1>7, <1>8, <1>9

\* SAMS, associations-sync and a registration leave what is announced as it is: a
\* registration replaces no registered club's row, and drops no club it could read.
LEMMA OutsideAnnounced ==
    ASSUME OneAtATime, TypeOK, ApplicantsOnly, OneFanOut, HandsFit, Told, HomesStay,
           \/ \E c \in Clubs : ChangeProfile(c)
           \/ AssociationsSync
           \/ Register,
           failures' = 0
    PROVE  OneFanOut' /\ HandsFit' /\ Told'
<1>1. worker' = worker /\ coord' = coord /\ feed' = feed
  BY DEF ChangeProfile, AssociationsSync, Register, ResolveForRegistration, PutClubs,
     upsertClubStub
<1>2. config \subseteq config'
  <2>1. CASE config' = config
    BY <2>1
  <2>2. CASE PutClubs
    <3>1. PICK readable \in Answers :
            config' = {cli.club} \cup readClubs(readable) /\ Count(readable)
      BY <2>2 DEF PutClubs
    <3>2. readable
      BY <3>1, CountZero DEF Answers
    <3> QED
      BY <3>1, <3>2 DEF readClubs
  <2> QED
    BY <2>1, <2>2 DEF ChangeProfile, AssociationsSync, Register, ResolveForRegistration,
       upsertClubStub, tables
<1>3. \A c \in RegisteredClubs : rows'[c] = rows[c]
  <2>1. CASE rows' = rows
    BY <2>1
  <2>2. CASE upsertClubStub
    <3>1. cli.club \notin RegisteredClubs
      BY <2>2 DEF upsertClubStub, ApplicantsOnly, OneAtATime
    <3> QED
      BY <2>2, <3>1, ClubsAssumption DEF upsertClubStub, TypeOK
  <2> QED
    BY <2>1, <2>2 DEF ChangeProfile, AssociationsSync, Register, ResolveForRegistration,
       PutClubs, tables
<1>4. OneFanOut'
  BY <1>1, <1>2, FanOutRests DEF InFlight
<1>5. HandsFit'
  BY <1>1, HandsRest
<1>6. Told'
  BY <1>1, <1>3, ToldRests
<1> QED
  BY <1>4, <1>5, <1>6

LEMMA NextAnnouncing ==
    ASSUME OneAtATime, IInv, Announcing, [Next]_vars
    PROVE  Announcing'
<1>1. ProfilesPossible' /\ ApplicantsOnly' /\ HomesStay
  BY NextPossible, Homes DEF Announcing
<1> SUFFICES ASSUME failures' = 0
             PROVE  OneFanOut' /\ HandsFit' /\ Told'
  BY <1>1 DEF Announcing
<1>2. TypeOK /\ ApplicantsOnly /\ OneFanOut /\ HandsFit /\ Told
  BY FailureStays DEF IInv, Announcing
<1>3. CASE \/ \E c \in Clubs : ChangeProfile(c)
           \/ AssociationsSync
           \/ Register
  BY <1>1, <1>2, <1>3, OutsideAnnounced
<1>4. CASE CoordinatorStarts \/ CoordinatorEnds \/ CoordinatorRefuses \/ CoordinatorFails
  <2>1. OneFanOut'
    BY <1>2, <1>4, CoordinatorAnnounced
  <2>2. worker' = worker /\ rows' = rows /\ feed' = feed
    BY <1>4 DEF CoordinatorStarts, CoordinatorEnds, CoordinatorRefuses, CoordinatorFails, tables
  <2> QED
    BY <1>1, <1>2, <2>1, <2>2, HandsRest, ToldRests
<1>5. CASE InvokeWorker
  BY <1>2, <1>5, InvokeAnnounced
<1>6. ASSUME NEW w \in Slots, WorkerStep(w) PROVE OneFanOut' /\ HandsFit' /\ Told'
  BY <1>2, <1>6, StartsAnnounced, FetchAnnounced, ResolveAnnounced, SaveAnnounced,
     PublishAnnounced, RecordAnnounced DEF WorkerStep
<1>7. ASSUME NEW w \in Slots, WorkerFails(w) PROVE FALSE
  BY <1>2, <1>7, CountZero DEF WorkerFails
<1>8. CASE UNCHANGED vars
  <2>1. /\ worker' = worker /\ coord' = coord /\ config' = config
        /\ rows' = rows /\ feed' = feed
    BY <1>8 DEF vars
  <2>2. OneFanOut'
    BY <1>2, <2>1, FanOutRests DEF InFlight
  <2> QED
    BY <1>1, <1>2, <2>1, <2>2, HandsRest, ToldRests
<1> QED
  BY <1>3, <1>4, <1>5, <1>6, <1>7, <1>8 DEF Next

LEMMA InitAnnouncing == Init => Announcing
<1> SUFFICES ASSUME Init PROVE Announcing
  OBVIOUS
<1>1. TypeOK
  BY InitType
<1>2. ProfilesPossible /\ ApplicantsOnly
  BY DEF Init, ProfilesPossible, ApplicantsOnly, IdleCli
<1>3. \A w \in Slots : worker[w].pc = "idle" /\ EmptyHands(worker[w])
  BY DEF Init, IdleWorker, EmptyHands
<1>4. InFlight = {}
  BY <1>3 DEF InFlight
<1>5. OneFanOut
  BY <1>4 DEF Init, OneFanOut, IdleCoordinator
<1>6. HandsFit
  BY <1>3, EmptyFits DEF HandsFit
<1>7. Told
  <2> SUFFICES ASSUME NEW c \in RegisteredClubs
               PROVE  /\ rows[c] \in Row /\ rows[c].assoc = sams[c].assoc
                      /\ feed[c] = Projection(rows[c])
                      /\ \A w \in Slots : ~Tracks(worker[w], c)
    BY DEF Told
  <2>1. c \in KnownClubs /\ c \in Clubs
    BY ClubsAssumption
  <2>2. rows[c] = [name |-> sams[c].name, assoc |-> sams[c].assoc, url |-> sams[c].url,
                   key |-> sams[c].url # Absent]
    BY <2>1 DEF Init
  <2>3. sams[c] \in Profile
    BY <1>1, <2>1 DEF TypeOK
  <2>4. rows[c] \in Row /\ rows[c].assoc = sams[c].assoc
    BY <2>2, <2>3 DEF Row, Profile
  <2>5. feed[c] = Projection(rows[c])
    BY <2>1 DEF Init
  <2>6. \A w \in Slots : ~Tracks(worker[w], c)
    BY <1>3 DEF Tracks, Scanned
  <2> QED
    BY <2>4, <2>5, <2>6
<1> QED
  BY <1>2, <1>5, <1>6, <1>7 DEF Announcing

LEMMA AnnouncingMeans == Announcing => AnnouncedUnlessFailed
<1> SUFFICES ASSUME Told, NEW a \in Associations, WorkersOf(a) = {},
                    NEW c \in RegisteredClubs, rows[c].assoc = a
             PROVE  feed[c] = Projection(rows[c])
  BY DEF Announcing, AnnouncedUnlessFailed, ChangesAnnounced
<1>1. sams[c].assoc = a
  BY DEF Told
<1>2. \A w \in Slots : ~Tracks(worker[w], c)
  BY <1>1 DEF Tracks, WorkersOf, InFlight, Scanned
<1> QED
  BY <1>2 DEF Told

\* While nothing has failed, each registered club's row has been announced as it is
\* stored when no worker of its association is at work: workers of all associations,
\* registrations of other clubs and renamed clubs may interleave as they like, as
\* long as no operator starts a second fan-out, clubs stay with their association, and
\* no registered club is registered again (clubs.ts:205-216, 262-323;
\* clubs-sync-coordinator.ts:23-48).
THEOREM ChangesAreAnnounced ==
    ASSUME OneAtATime
    PROVE  Spec => []AnnouncedUnlessFailed
<1>1. IInv /\ Announcing /\ [Next]_vars => Announcing'
  BY NextAnnouncing
<1> QED
  BY InitIInv, NextIInv, InitAnnouncing, <1>1, AnnouncingMeans, PTL DEF Spec

=============================================================================
