---------------------------- MODULE FullSyncProofs ----------------------------
(***************************************************************************)
(* DONE keeps its promise for any clubs, times, retries, seasons and chunk  *)
(* sizes, as long as the cooldown is no shorter than the caches live.      *)
(***************************************************************************)
EXTENDS FullSync, PublisherProofs, FiniteSetTheorems

USE FullSyncAssumption, PublisherAssumption

-----------------------------------------------------------------------------
(* Batches.                                                                *)

LEMMA SeqOfSet ==
    ASSUME NEW S, IsFiniteSet(S)
    PROVE  /\ SetToSeq(S) \in Seq(S)
           /\ {SetToSeq(S)[i] : i \in DOMAIN SetToSeq(S)} = S
<1> DEFINE n == Cardinality(S)
<1>1. n \in Nat /\ ExistsBijection(1 .. n, S)
  BY FS_CardinalityType
<1>2. \E f \in [1 .. n -> S] : IsInjective(f)
  BY <1>1 DEF ExistsBijection, Bijection, Injection, IsInjective
<1>3. SetToSeq(S) \in [1 .. n -> S] /\ IsInjective(SetToSeq(S))
  BY <1>2 DEF SetToSeq
<1>4. SetToSeq(S) \in Injection(1 .. n, S)
  BY <1>3 DEF Injection, IsInjective
<1>5. Cardinality(1 .. n) = n
  BY <1>1, FS_Interval
<1>6. SetToSeq(S) \in Surjection(1 .. n, S)
  BY <1>4, <1>5, FS_Injection
<1> QED
  BY <1>1, <1>3, <1>6 DEF Surjection

LEMMA EventsOfFinite ==
    ASSUME NEW job \in Serving, NEW clubs \in SUBSET Clubs, NEW s \in Seasons
    PROVE  /\ IsFiniteSet(EventsOf(job, clubs, s))
           /\ EventsOf(job, clubs, s) \subseteq Events
<1> DEFINE K == KindsOf[job]
           f == [p \in K \X clubs |-> [kind |-> p[1], club |-> p[2], season |-> s]]
<1>1. IsFiniteSet({"teams"}) /\ IsFiniteSet({"teams"} \cup {"rosters"}) /\ IsFiniteSet({"schedule"})
  BY FS_Singleton, FS_AddElement
<1>2. IsFiniteSet(K) /\ K \subseteq Kinds
  <2>1. K = {"teams"} \cup {"rosters"} \/ K = {"schedule"}
    BY DEF Serving, KindsOf
  <2> QED
    BY <1>1, <2>1 DEF Kinds
<1>3. IsFiniteSet(K \X clubs)
  <2>1. IsFiniteSet(clubs)
    BY FS_Subset
  <2> QED
    BY <1>2, <2>1, FS_Product
<1>4. f \in Surjection(K \X clubs, EventsOf(job, clubs, s))
  <2>1. f \in [K \X clubs -> EventsOf(job, clubs, s)]
    BY DEF EventsOf
  <2>2. ASSUME NEW e \in EventsOf(job, clubs, s)
        PROVE  \E p \in K \X clubs : f[p] = e
    <3>1. <<e.kind, e.club>> \in K \X clubs
      BY <2>2 DEF EventsOf
    <3>2. f[<<e.kind, e.club>>] = e
      BY <2>2, <3>1 DEF EventsOf
    <3> QED
      BY <3>1, <3>2
  <2> QED
    BY <2>1, <2>2 DEF Surjection
<1>5. IsFiniteSet(EventsOf(job, clubs, s))
  BY <1>3, <1>4, FS_Surjection
<1> QED
  BY <1>2, <1>5 DEF EventsOf

LEMMA SeqOfSubset ==
    ASSUME NEW S, NEW T, S \subseteq T, NEW q \in Seq(S)
    PROVE  q \in Seq(T)
<1> DEFINE n == Len(q)
<1>1. n \in Nat /\ q \in [1 .. n -> S]
  OBVIOUS
<1>2. q \in [1 .. n -> T]
  BY <1>1
<1> QED
  BY <1>1, <1>2

LEMMA BatchOf ==
    ASSUME NEW job \in Serving, NEW clubs \in SUBSET Clubs, NEW s \in Seasons
    PROVE  LET b == SetToSeq(EventsOf(job, clubs, s))
           IN  /\ b \in Seq(Events)
               /\ {b[i] : i \in DOMAIN b} = EventsOf(job, clubs, s)
<1> DEFINE E == EventsOf(job, clubs, s)
<1>1. IsFiniteSet(E) /\ E \subseteq Events
  BY EventsOfFinite
<1>2. SetToSeq(E) \in Seq(E) /\ {SetToSeq(E)[i] : i \in DOMAIN SetToSeq(E)} = E
  BY <1>1, SeqOfSet
<1>3. SetToSeq(E) \in Seq(Events)
  <2> HIDE DEF E
  <2> QED
    BY <1>1, <1>2, SeqOfSubset
<1> QED
  BY <1>2, <1>3

-----------------------------------------------------------------------------
(* Types.                                                                  *)

LEMMA InitType == Init => TypeOK
<1> SUFFICES ASSUME Init PROVE TypeOK
  OBVIOUS
<1>1. PublisherTypeOK
  BY PublisherStarts DEF Init, PublisherInv
<1>2. cli \in CliState /\ call \in CallState
  BY DEF Init, CliState, CallState, IdleCli, NoCall, Jobs, Seasons
<1>3. call.pc = "none"
  BY DEF Init, NoCall
<1> QED
  BY <1>1, <1>2, <1>3 DEF Init, TypeOK, Seasons, Configs

\* The local states the actions go on with.
LEMMA LocalStates ==
    /\ IdleCli \in CliState
    /\ NoCall \in CallState
    /\ NoCall.pc = "none"
BY DEF IdleCli, CliState, NoCall, CallState, Jobs, Seasons

LEMMA FailsType ==
    ASSUME TypeOK, Fails
    PROVE  /\ cli' \in CliState /\ outcome' \in {"none", "running", "done", "failed"}
           /\ owed' \subseteq Events /\ sent' \subseteq Events /\ missed' \subseteq Kinds \X Clubs
BY LocalStates DEF Fails

LEMMA ProceedType ==
    ASSUME TypeOK, NEW todo \in SUBSET Jobs, NEW wait \in Nat, Proceed(todo, wait)
    PROVE  /\ cli' \in CliState /\ outcome' \in {"none", "running", "done", "failed"}
           /\ owed' \subseteq Events /\ sent' \subseteq Events /\ missed' \subseteq Kinds \X Clubs
BY LocalStates DEF Proceed, TypeOK, CliState

LEMMA OwedType ==
    ASSUME TypeOK, NEW skip \in Flags
    PROVE  UNION {EventsOf(f, Visible(Jobs \ skip), season) : f \in SeasonedJobs(Serving \ skip)}
                \subseteq Events
<1>1. Visible(Jobs \ skip) \in SUBSET Clubs
  BY DEF Visible, Registered
<1>2. SeasonedJobs(Serving \ skip) \subseteq Serving
  BY DEF SeasonedJobs
<1>3. ASSUME NEW f \in SeasonedJobs(Serving \ skip)
      PROVE  EventsOf(f, Visible(Jobs \ skip), season) \subseteq Events
  BY <1>1, <1>2, EventsOfFinite DEF TypeOK
<1> QED
  BY <1>3

LEMMA WorldType ==
    ASSUME TypeOK
    PROVE  /\ \A c \in Clubs : Register(c) \/ SyncRow(c) \/ ExpireRow(c) => TypeOK'
           /\ NewSeason \/ NightlySync => TypeOK'
           /\ \A s \in Seasons : ExpireSeason(s) => TypeOK'
<1>1. ASSUME NEW c \in Clubs, Register(c) PROVE TypeOK'
  BY <1>1 DEF Register, TypeOK, publisher, PublisherTypeOK, history
<1>2. ASSUME NEW c \in Clubs, SyncRow(c) \/ ExpireRow(c) PROVE TypeOK'
  BY <1>2 DEF SyncRow, ExpireRow, TypeOK, publisher, PublisherTypeOK, history
<1>3. ASSUME NewSeason PROVE TypeOK'
  BY <1>3 DEF NewSeason, TypeOK, publisher, PublisherTypeOK, history, Seasons
<1>4. ASSUME NightlySync PROVE TypeOK'
  BY <1>4 DEF NightlySync, WithSeason, TypeOK, publisher, PublisherTypeOK, history, world
<1>5. ASSUME NEW s \in Seasons, ExpireSeason(s) PROVE TypeOK'
  BY <1>5 DEF ExpireSeason, TypeOK, publisher, PublisherTypeOK, history, world
<1> QED
  BY <1>1, <1>2, <1>3, <1>4, <1>5

LEMMA TickType ==
    ASSUME TypeOK, Tick
    PROVE  TypeOK'
<1>1. listed' \in [Clubs -> 0 .. CacheTime \cup {Absent}]
  BY DEF Tick, TypeOK, Older
<1>2. warm' \in [Serving -> Configs \cup {Absent}]
  <2>1. ASSUME NEW f \in Serving
        PROVE  (IF warm[f] = Absent \/ warm[f].age + 1 >= CacheTime THEN Absent
                ELSE [warm[f] EXCEPT !.age = @ + 1]) \in Configs \cup {Absent}
    <3>1. CASE warm[f] = Absent
      BY <3>1
    <3>2. CASE warm[f] # Absent
      <4>1. warm[f] \in Configs
        BY <3>2 DEF TypeOK
      <4> QED
        BY <3>2, <4>1 DEF Configs
    <3> QED
      BY <3>1, <3>2
  <2> QED
    BY <2>1 DEF Tick
<1>3. cli' \in CliState
  BY DEF Tick, TypeOK, CliState
<1> QED
  BY <1>1, <1>2, <1>3 DEF Tick, TypeOK, publisher, PublisherTypeOK, history

LEMMA CommandType ==
    ASSUME TypeOK
    PROVE  /\ \A skip \in Flags : runFullSync(skip) => TypeOK'
           /\ Command \/ Stops => TypeOK'
<1>1. ASSUME NEW skip \in Flags, runFullSync(skip) PROVE TypeOK'
  <2>1. owed' \subseteq Events
    BY <1>1, OwedType DEF runFullSync
  <2>2. cli' \in CliState
    <3>1. Jobs \ skip \in SUBSET Jobs
      OBVIOUS
    <3> QED
      BY <1>1, <3>1, LocalStates DEF runFullSync, CliState
  <2> QED
    BY <1>1, <2>1, <2>2 DEF runFullSync, TypeOK, publisher, PublisherTypeOK, world
<1>2. ASSUME getParameter PROVE TypeOK'
  <2>1. cli.todo \in SUBSET Jobs
    BY DEF TypeOK, CliState
  <2>2. /\ cli' \in CliState /\ outcome' \in {"none", "running", "done", "failed"}
        /\ owed' \subseteq Events /\ sent' \subseteq Events /\ missed' \subseteq Kinds \X Clubs
    BY <1>2, <2>1, ProceedType, FailsType DEF getParameter
  <2> QED
    BY <1>2, <2>2 DEF getParameter, TypeOK, publisher, PublisherTypeOK, world
<1>3. ASSUME Invoke PROVE TypeOK'
  <2>1. cli' \in CliState
    BY <1>3 DEF Invoke, TypeOK, CliState
  <2>2. NextJob(cli.todo) \in Jobs
    BY DEF NextJob, Jobs
  <2>3. call' \in CallState /\ call'.pc = "config"
    BY <1>3, <2>2, LocalStates DEF Invoke, CallState
  <2> QED
    BY <1>3, <2>1, <2>3 DEF Invoke, TypeOK, publisher, PublisherTypeOK, world, history
<1>4. ASSUME Throttled PROVE TypeOK'
  <2>1. CASE LastAttempt(cli.attempt)
    <3>1. Fails
      BY <1>4, <2>1 DEF Throttled
    <3> QED
      BY <1>4, <3>1, FailsType DEF Throttled, TypeOK, publisher, PublisherTypeOK, world
  <2>2. CASE ~ LastAttempt(cli.attempt)
    <3>1. cli \in CliState /\ cli' = [cli EXCEPT !.attempt = cli.attempt + 1, !.wait = RetryTime]
      BY <1>4, <2>2 DEF Throttled, NextAttempt, TypeOK
    <3>2. cli.attempt + 1 \in 1 .. Retries
      BY <2>2, <3>1 DEF LastAttempt, CliState
    <3>3. cli' \in CliState
      BY <3>1, <3>2 DEF CliState
    <3> QED
      BY <1>4, <2>2, <3>3 DEF Throttled, TypeOK, publisher, PublisherTypeOK, world, history
  <2> QED
    BY <2>1, <2>2
<1>5. ASSUME Answer PROVE TypeOK'
  <2>1. /\ cli' \in CliState /\ outcome' \in {"none", "running", "done", "failed"}
        /\ owed' \subseteq Events /\ sent' \subseteq Events /\ missed' \subseteq Kinds \X Clubs
    <3>1. cli.todo \ {call.fn} \in SUBSET Jobs
      BY DEF TypeOK, CliState
    <3>2. CooldownAfter(call.fn, cli.todo \ {call.fn}) \in Nat
      BY DEF CooldownAfter
    <3> QED
      BY <1>5, <3>1, <3>2, ProceedType, FailsType DEF Answer
  <2> QED
    BY <1>5, <2>1, LocalStates DEF Answer, TypeOK, publisher, PublisherTypeOK, world
<1>6. ASSUME Stops PROVE TypeOK'
  BY <1>6, FailsType DEF Stops, TypeOK, publisher, PublisherTypeOK, world
<1> QED
  BY <1>1, <1>2, <1>3, <1>4, <1>5, <1>6 DEF Command

LEMMA ConfigType ==
    ASSUME TypeOK, NEW f \in Serving
    PROVE  loadProviderRuntimeConfig(f) \subseteq Configs
<1>1. {warm[f]} \ {Absent} \subseteq Configs
  BY DEF TypeOK
<1>2. [clubs |-> Registered, readable |-> TRUE, age |-> 0] \in Configs
  BY DEF Configs, Registered
<1>3. [clubs |-> {}, readable |-> FALSE, age |-> 0] \in Configs
  BY DEF Configs
<1> QED
  BY <1>1, <1>2, <1>3 DEF loadProviderRuntimeConfig

LEMMA PassedOverType ==
    ASSUME TypeOK, NEW kinds \in SUBSET Kinds, NEW clubs \in SUBSET Clubs, PassedOver(kinds, clubs)
    PROVE  missed' \subseteq Kinds \X Clubs
BY DEF PassedOver, TypeOK

LEMMA KindsOfType ==
    \A f \in Serving : KindsOf[f] \subseteq Kinds
BY DEF Serving, KindsOf, Kinds

\* A job leaves the publisher alone or uses it as its callers may.
LEMMA JobPublishes ==
    ASSUME TypeOK, Job \/ JobThrows \/ (\E f \in Serving : OtherRun(f))
    PROVE  [PublisherNext]_publisher
<1>1. ASSUME createEventEnvelope PROVE PublisherNext
  <2> DEFINE clubs == call.clubs \ (IF call.fn = "match" THEN call.clubs \ rows ELSE {})
             b == SetToSeq(EventsOf(call.fn, clubs, call.season))
  <2>1. call.fn \in Serving /\ clubs \in SUBSET Clubs /\ call.season \in Seasons
    BY <1>1 DEF createEventEnvelope, TypeOK, CallState
  <2>2. b \in Seq(Events)
    BY <2>1, BatchOf
  <2>3. Publish(b)
    BY <1>1 DEF createEventEnvelope
  <2> HIDE DEF b
  <2> QED
    BY <2>2, <2>3 DEF PublisherNext
<1>2. ASSUME Discard PROVE PublisherNext
  <2>1. <<>> \in Seq(Events)
    OBVIOUS
  <2> QED
    BY <1>2, <2>1 DEF Discard, PublisherNext
<1>3. ASSUME Finish \/ JobThrows PROVE PublisherNext
  BY <1>2, <1>3 DEF Finish, JobThrows
<1>4. ASSUME Send PROVE PublisherNext
  BY <1>4 DEF Send, PublisherNext
<1>5. ASSUME LoadConfig \/ Coordinate \/ StoreSeason \/ FindSeason \/ Unattended
             \/ (\E f \in Serving : OtherRun(f))
      PROVE  UNCHANGED publisher
  BY <1>5 DEF LoadConfig, Coordinate, StoreSeason, FindSeason, Unattended, OtherRun
<1> QED
  BY <1>1, <1>3, <1>4, <1>5 DEF Job

LEMMA JobType ==
    ASSUME TypeOK, PublisherTypeOK'
    PROVE  /\ \A f \in Serving : OtherRun(f) => TypeOK'
           /\ Job \/ JobThrows => TypeOK'
<1>1. ASSUME NEW f \in Serving, OtherRun(f) PROVE TypeOK'
  BY <1>1, ConfigType DEF OtherRun, TypeOK, world, history
<1>2. ASSUME LoadConfig PROVE TypeOK'
  <2>1. PICK config \in loadProviderRuntimeConfig(call.fn) :
          /\ warm' = [warm EXCEPT ![call.fn] = config]
          /\ call' = [call EXCEPT !.pc = IF config.clubs = {} THEN "returned" ELSE "season",
                                  !.clubs = config.clubs]
          /\ PassedOver(KindsOf[call.fn], IF config.readable THEN {} ELSE Clubs)
    BY <1>2 DEF LoadConfig
  <2>2. call.fn \in Serving /\ config \in Configs
    BY <1>2, ConfigType DEF LoadConfig
  <2>3. warm' \in [Serving -> Configs \cup {Absent}]
    BY <2>1, <2>2 DEF TypeOK
  <2>4. call' \in CallState /\ call'.fn = call.fn
    BY <2>1, <2>2 DEF TypeOK, CallState, Configs
  <2>5. missed' \subseteq Kinds \X Clubs
    <3> DEFINE over == IF config.readable THEN {} ELSE Clubs
    <3>1. KindsOf[call.fn] \in SUBSET Kinds /\ over \in SUBSET Clubs /\ PassedOver(KindsOf[call.fn], over)
      BY <2>1, <2>2, KindsOfType
    <3> HIDE DEF over
    <3> QED
      BY <3>1, PassedOverType
  <2> QED
    BY <1>2, <2>2, <2>3, <2>4, <2>5 DEF LoadConfig, TypeOK, world
<1>3. ASSUME Coordinate PROVE TypeOK'
  BY <1>3 DEF Coordinate, TypeOK, world, history, CallState
<1>4. ASSUME StoreSeason PROVE TypeOK'
  <2>1. CASE call.clubs \cap rows = {}
    BY <1>4, <2>1 DEF StoreSeason, TypeOK, world, CallState
  <2>2. CASE call.clubs \cap rows # {}
    <3>1. call' \in CallState /\ call'.fn = call.fn /\ call.fn \in Serving
      <4>1. call' = [call EXCEPT !.pc = "build", !.clubs = call.clubs \cap rows, !.season = season]
        BY <1>4, <2>2 DEF StoreSeason, TypeOK, CallState
      <4>2. call \in CallState /\ call.clubs \cap rows \in SUBSET Clubs /\ season \in Seasons
        BY DEF TypeOK, CallState
      <4>3. call.fn = "teams"
        BY <1>4 DEF StoreSeason
      <4>4. call' \in CallState /\ call'.fn = call.fn
        BY <4>1, <4>2 DEF CallState
      <4> QED
        BY <4>3, <4>4 DEF Serving
    <3>2. missed' \subseteq Kinds \X Clubs
      <4>1. KindsOf["teams"] \in SUBSET Kinds /\ call.clubs \ rows \in SUBSET Clubs
        BY KindsOfType DEF Serving, TypeOK, CallState
      <4> QED
        BY <1>4, <2>2, <4>1, PassedOverType DEF StoreSeason
    <3>3. seasons' \subseteq Seasons
      BY <1>4, <2>2 DEF StoreSeason, WithSeason, TypeOK
    <3> QED
      BY <1>4, <2>2, <3>1, <3>2, <3>3 DEF StoreSeason, TypeOK, world
  <2> QED
    BY <2>1, <2>2
<1>5. ASSUME FindSeason PROVE TypeOK'
  <2>1. call' \in CallState /\ call'.fn = call.fn /\ call.fn \in Serving
    BY <1>5 DEF FindSeason, TypeOK, CallState, Serving
  <2>2. missed' \subseteq Kinds \X Clubs
    <3>1. KindsOf["match"] \in SUBSET Kinds
      BY KindsOfType DEF Serving
    <3>2. {c \in Clubs : <<"teams", c>> \in missed} \in SUBSET Clubs
      OBVIOUS
    <3>3. \/ missed' = missed
          \/ PassedOver(KindsOf["match"], {c \in Clubs : <<"teams", c>> \in missed})
      BY <1>5 DEF FindSeason
    <3> QED
      BY <3>1, <3>2, <3>3, PassedOverType DEF TypeOK
  <2> QED
    BY <1>5, <2>1, <2>2 DEF FindSeason, TypeOK, world
<1>6. ASSUME createEventEnvelope PROVE TypeOK'
  <2>1. call' \in CallState /\ call'.fn = call.fn /\ call.fn \in Serving
    BY <1>6 DEF createEventEnvelope, TypeOK, CallState
  <2>2. missed' \subseteq Kinds \X Clubs
    <3> DEFINE skipped == IF call.fn = "match" THEN call.clubs \ rows ELSE {}
    <3>1. KindsOf[call.fn] \in SUBSET Kinds /\ skipped \in SUBSET Clubs
      BY <2>1, KindsOfType DEF TypeOK, CallState
    <3>2. PassedOver(KindsOf[call.fn], skipped)
      BY <1>6 DEF createEventEnvelope
    <3> HIDE DEF skipped
    <3> QED
      BY <3>1, <3>2, PassedOverType
  <2> QED
    BY <1>6, <2>1, <2>2 DEF createEventEnvelope, TypeOK, world
<1>7. ASSUME Send PROVE TypeOK'
  BY <1>7 DEF Send, TypeOK, world, PublisherTypeOK
<1>8. ASSUME Finish PROVE TypeOK'
  <2>1. call' \in CallState /\ call'.pc \in {"returned", "threw"}
    BY <1>8 DEF Finish, TypeOK, CallState
  <2> QED
    BY <1>8, <2>1 DEF Finish, TypeOK, world, history
<1>9. ASSUME Unattended PROVE TypeOK'
  BY <1>9, LocalStates DEF Unattended, TypeOK, world, history
<1>10. ASSUME JobThrows PROVE TypeOK'
  <2>1. call' \in CallState /\ call'.pc = "threw"
    BY <1>10 DEF JobThrows, TypeOK, CallState
  <2> QED
    BY <1>10, <2>1 DEF JobThrows, TypeOK, world, history
<1> QED
  BY <1>1, <1>2, <1>3, <1>4, <1>5, <1>6, <1>7, <1>8, <1>9, <1>10 DEF Job

\* Every step is one of the publisher's, or leaves it alone.
LEMMA StepPublishes ==
    ASSUME TypeOK, [Next]_vars
    PROVE  [PublisherNext]_publisher
<1>1. ASSUME Command \/ Stops PROVE UNCHANGED publisher
  BY <1>1 DEF Command, getParameter, Invoke, Throttled, Answer, Stops
<1>2. CASE Next
  BY <1>1, <1>2, JobPublishes
    DEF Next, Register, SyncRow, ExpireRow, NewSeason, ExpireSeason, NightlySync, Tick, runFullSync
<1>3. CASE UNCHANGED vars
  BY <1>3 DEF vars
<1> QED
  BY <1>2, <1>3

LEMMA NextType ==
    ASSUME TypeOK, PublisherInv, [Next]_vars
    PROVE  TypeOK' /\ PublisherInv'
<1>1. PublisherInv'
  BY StepPublishes, PublisherSteps
<1>2. PublisherTypeOK'
  BY <1>1 DEF PublisherInv
<1>3. CASE Next
  BY <1>1, <1>2, <1>3, WorldType, TickType, CommandType, JobType DEF Next
<1>4. CASE UNCHANGED vars
  BY <1>1, <1>4 DEF vars, TypeOK, publisher, PublisherTypeOK, world, history
<1> QED
  BY <1>1, <1>3, <1>4

\* Type correctness for any clubs, times, retries and chunk sizes.
THEOREM TypeCorrect == Spec => []TypeOK
<1>1. Init => TypeOK /\ PublisherInv
  BY InitType, PublisherStarts DEF Init
<1>2. TypeOK /\ PublisherInv /\ [Next]_vars => TypeOK' /\ PublisherInv'
  BY NextType
<1> QED
  BY <1>1, <1>2, PTL DEF Spec

\* Whatever jobs publish, and wherever they are cut off, the publisher's promise is
\* kept (KeepsOutboxPromise).
THEOREM OutboxPromiseKept == Spec => KeepsOutboxPromise
<1>1. Init => NothingPublished
  BY DEF Init
<1>2. TypeOK /\ [Next]_vars => [PublisherNext]_publisher
  BY StepPublishes
<1>3. Spec => PublisherSpec
  BY <1>1, <1>2, TypeCorrect, PTL DEF Spec, PublisherSpec
<1> QED
  BY <1>3, PromiseKept

-----------------------------------------------------------------------------
(* What the command owes, between its beginning and DONE.                  *)

\* The job that sends events of a kind.
JobOf(k) == IF k = "schedule" THEN "match" ELSE "teams"

Due(k, c) == outcome = "running" /\ <<k, c>> \in Dues(owed)

\* The command runs from its parameters to its last answer; it waits for at most one
\* job, the next one, and there is a job only while it waits or after it has failed.
CommandShape ==
    /\ outcome = "running" <=> cli.pc # "idle"
    /\ cli.pc \in {"parameters", "invoke"} => call.pc = "none"
    /\ cli.pc = "answer" => call.fn = NextJob(cli.todo)
    /\ cli.pc \in {"parameters", "answer"} => cli.wait = 0

\* A cached list lacks only clubs that have been listed since it was read.
CacheFresh ==
    \A f \in Serving : warm[f] # Absent =>
        /\ warm[f].age < CacheTime
        /\ warm[f].readable =>
            \A c \in Clubs : listed[c] # Absent /\ c \notin warm[f].clubs => listed[c] <= warm[f].age

\* What a job of the command has sent, of the batch it is publishing.
OutIsSent ==
    outcome = "running" /\ call.pc = "publish" => out \subseteq sent

\* Once the clubs job is behind, what is left of the pause makes up for what the club
\* lacks in age.
Known(c) ==
    /\ listed[c] # Absent
    /\ "clubs" \notin cli.todo => listed[c] + cli.wait >= CacheTime

\* Its job is still to be invoked or to answer, or has seen to it.
Accounted(k, c) ==
    JobOf(k) \in cli.todo \/ <<k, c>> \in Dues(sent) \/ <<k, c>> \in missed

\* Where it is while its job runs.
InHand(k, c) ==
    cli.pc = "answer" /\ call.fn = JobOf(k) =>
        \/ <<k, c>> \in missed
        \/ call.pc \in {"config", "threw"}
        \/ call.pc \in {"season", "build"} /\ c \in call.clubs
        \/ call.pc = "publish" /\ <<k, c>> \in Dues(EventsAt(DOMAIN batch))
        \/ call.pc = "returned" /\ <<k, c>> \in Dues(sent)

\* The snapshot will find a season, unless the teams sync passed over the club.
Seasoned(c) ==
    \/ season \in seasons
    \/ <<"teams", c>> \in missed
    \/ /\ "teams" \in cli.todo
       /\ <<"teams", c>> \in Dues(owed)
       /\ cli.pc = "answer" /\ call.fn = "teams" => call.pc \in {"config", "season", "threw"}

Promised ==
    \A k \in Kinds, c \in Clubs : Due(k, c) =>
        Known(c) /\ Accounted(k, c) /\ InHand(k, c) /\ (k = "schedule" => Seasoned(c))

CatchUpInv == CommandShape /\ CacheFresh /\ OutIsSent /\ Promised

LEMMA DuesIn ==
    ASSUME NEW S, NEW k, NEW c
    PROVE  <<k, c>> \in Dues(S) <=> \E e \in S : e.kind = k /\ e.club = c
BY DEF Dues

LEMMA DuesGrow ==
    ASSUME NEW S, NEW T, S \subseteq T
    PROVE  Dues(S) \subseteq Dues(T)
BY DEF Dues

LEMMA DuesType ==
    ASSUME NEW S, S \subseteq Events
    PROVE  Dues(S) \subseteq Kinds \X Clubs
BY DEF Dues

LEMMA JobOfKind ==
    ASSUME NEW k \in Kinds
    PROVE  /\ JobOf(k) \in Serving
           /\ \A f \in Serving : k \in KindsOf[f] <=> f = JobOf(k)
BY DEF Kinds, JobOf, Serving, KindsOf

\* What is sent for some clubs is due to each of them, and to no other.
LEMMA DuesOfJob ==
    ASSUME NEW f \in Serving, NEW clubs \in SUBSET Clubs, NEW s, NEW k \in Kinds, NEW c \in Clubs
    PROVE  <<k, c>> \in Dues(EventsOf(f, clubs, s)) <=> f = JobOf(k) /\ c \in clubs
<1>1. ASSUME f = JobOf(k), c \in clubs
      PROVE  <<k, c>> \in Dues(EventsOf(f, clubs, s))
  <2> DEFINE e == [kind |-> k, club |-> c, season |-> s]
  <2>1. e \in EventsOf(f, clubs, s) /\ e.kind = k /\ e.club = c
    BY <1>1, JobOfKind DEF EventsOf
  <2> HIDE DEF e
  <2> QED
    BY <2>1, DuesIn
<1>2. ASSUME <<k, c>> \in Dues(EventsOf(f, clubs, s))
      PROVE  f = JobOf(k) /\ c \in clubs
  <2>1. PICK e \in EventsOf(f, clubs, s) : e.kind = k /\ e.club = c
    BY <1>2, DuesIn
  <2>2. e.kind \in KindsOf[f] /\ e.club \in clubs
    BY DEF EventsOf
  <2> QED
    BY <2>1, <2>2, JobOfKind
<1> QED
  BY <1>1, <1>2

LEMMA InitPromised == Init => CatchUpInv
<1> SUFFICES ASSUME Init PROVE CatchUpInv
  OBVIOUS
<1>1. cli.pc = "idle" /\ outcome = "none" /\ \A f \in Serving : warm[f] = Absent
  BY DEF Init, IdleCli
<1> QED
  BY <1>1 DEF CatchUpInv, CommandShape, CacheFresh, OutIsSent, Promised, Due

\* Steps that leave the command and the job alone.
LEMMA OutsidePromised ==
    ASSUME TypeOK, CatchUpInv, CacheFresh',
           UNCHANGED <<publisher, cli, call, history>>,
           \A c \in Clubs : listed[c] # Absent => listed'[c] = listed[c],
           outcome = "running" /\ season \in seasons => season' \in seasons'
    PROVE  CatchUpInv'
<1>1. CommandShape' /\ OutIsSent'
  BY DEF CatchUpInv, CommandShape, OutIsSent, publisher, history
<1>2. ASSUME NEW k \in Kinds, NEW c \in Clubs, Due(k, c)'
      PROVE  Known(c)' /\ Accounted(k, c)' /\ InHand(k, c)' /\ (k = "schedule" => Seasoned(c)')
  <2>1. Due(k, c)
    BY <1>2 DEF Due, history
  <2>2. Known(c) /\ Accounted(k, c) /\ InHand(k, c) /\ (k = "schedule" => Seasoned(c))
    BY <2>1 DEF CatchUpInv, Promised
  <2>3. Known(c)'
    BY <2>2 DEF Known
  <2>4. Accounted(k, c)' /\ InHand(k, c)'
    BY <2>2 DEF Accounted, InHand, history, publisher, EventsAt
  <2>5. k = "schedule" => Seasoned(c)'
    BY <2>1, <2>2 DEF Seasoned, history, Due
  <2> QED
    BY <2>3, <2>4, <2>5
<1> QED
  BY <1>1, <1>2 DEF CatchUpInv, Promised

\* What a run loads is as fresh as what is cached.
LEMMA LoadFresh ==
    ASSUME TypeOK, CacheFresh, NEW f \in Serving,
           NEW config \in loadProviderRuntimeConfig(f), warm' = [warm EXCEPT ![f] = config],
           UNCHANGED listed
    PROVE  CacheFresh'
<1>1. /\ config.age < CacheTime
      /\ config.readable =>
           \A c \in Clubs : listed[c] # Absent /\ c \notin config.clubs => listed[c] <= config.age
  BY DEF loadProviderRuntimeConfig, CacheFresh, Registered
<1>2. ASSUME NEW g \in Serving, warm'[g] # Absent
      PROVE  /\ warm'[g].age < CacheTime
             /\ warm'[g].readable =>
                  \A c \in Clubs : listed'[c] # Absent /\ c \notin warm'[g].clubs
                                     => listed'[c] <= warm'[g].age
  <2>1. CASE g = f
    BY <1>1, <2>1 DEF TypeOK
  <2>2. CASE g # f
    BY <1>2, <2>2 DEF TypeOK, CacheFresh
  <2> QED
    BY <2>1, <2>2
<1> QED
  BY <1>2 DEF CacheFresh

LEMMA WorldPromised ==
    ASSUME TypeOK, CatchUpInv
    PROVE  /\ \A c \in Clubs : Register(c) \/ SyncRow(c) \/ ExpireRow(c) => CatchUpInv'
           /\ NewSeason \/ NightlySync => CatchUpInv'
           /\ \A s \in Seasons : ExpireSeason(s) => CatchUpInv'
           /\ \A f \in Serving : OtherRun(f) => CatchUpInv'
<1> USE DEF world
<1>1. ASSUME NEW c \in Clubs, Register(c) PROVE CatchUpInv'
  <2>1. CacheFresh'
    BY <1>1 DEF Register, CatchUpInv, CacheFresh, TypeOK, Configs
  <2> QED
    BY <1>1, <2>1, OutsidePromised DEF Register, TypeOK
<1>2. ASSUME NEW c \in Clubs, SyncRow(c) \/ ExpireRow(c) PROVE CatchUpInv'
  <2>1. CacheFresh'
    BY <1>2 DEF SyncRow, ExpireRow, CatchUpInv, CacheFresh
  <2> QED
    BY <1>2, <2>1, OutsidePromised DEF SyncRow, ExpireRow
<1>3. ASSUME NewSeason PROVE CatchUpInv'
  <2>1. CacheFresh'
    BY <1>3 DEF NewSeason, CatchUpInv, CacheFresh
  <2>2. outcome # "running"
    BY <1>3 DEF NewSeason, CatchUpInv, CommandShape
  <2> QED
    BY <1>3, <2>1, <2>2, OutsidePromised DEF NewSeason
<1>4. ASSUME NightlySync PROVE CatchUpInv'
  <2>1. CacheFresh'
    BY <1>4 DEF NightlySync, CatchUpInv, CacheFresh
  <2> QED
    BY <1>4, <2>1, OutsidePromised DEF NightlySync, WithSeason
<1>5. ASSUME NEW s \in Seasons, ExpireSeason(s) PROVE CatchUpInv'
  <2>1. CacheFresh'
    BY <1>5 DEF ExpireSeason, CatchUpInv, CacheFresh
  <2> QED
    BY <1>5, <2>1, OutsidePromised DEF ExpireSeason, Expires
<1>6. ASSUME NEW f \in Serving, OtherRun(f) PROVE CatchUpInv'
  <2>1. CacheFresh'
    BY <1>6, LoadFresh DEF OtherRun, CatchUpInv
  <2> QED
    BY <1>6, <2>1, OutsidePromised DEF OtherRun
<1> QED
  BY <1>1, <1>2, <1>3, <1>4, <1>5, <1>6

\* The pause shortens by no more than the clubs' ages grow.
LEMMA TickPromised ==
    ASSUME TypeOK, CatchUpInv, Tick
    PROVE  CatchUpInv'
<1>1. /\ UNCHANGED <<publisher, call, history, season, seasons>>
      /\ cli' = [cli EXCEPT !.wait = IF cli.wait > 0 THEN cli.wait - 1 ELSE 0]
      /\ cli \in CliState
  BY DEF Tick, TypeOK
<1>2. cli'.pc = cli.pc /\ cli'.todo = cli.todo
      /\ cli'.wait = (IF cli.wait > 0 THEN cli.wait - 1 ELSE 0) /\ cli.wait \in Nat
  BY <1>1 DEF CliState
<1>3. CommandShape' /\ OutIsSent'
  BY <1>1, <1>2 DEF CatchUpInv, CommandShape, OutIsSent, publisher, history
<1>4. CacheFresh'
  <2>1. ASSUME NEW f \in Serving, warm'[f] # Absent
        PROVE  /\ warm'[f].age < CacheTime
               /\ warm'[f].readable =>
                    \A c \in Clubs : listed'[c] # Absent /\ c \notin warm'[f].clubs
                                       => listed'[c] <= warm'[f].age
    <3>1. warm[f] # Absent /\ warm'[f] = [warm[f] EXCEPT !.age = warm[f].age + 1]
          /\ ~ (warm[f].age + 1 >= CacheTime)
      BY <2>1 DEF Tick
    <3>2. warm[f] \in Configs
      BY <3>1 DEF TypeOK
    <3>3. /\ warm'[f].age = warm[f].age + 1 /\ warm'[f].clubs = warm[f].clubs
          /\ warm'[f].readable = warm[f].readable /\ warm[f].age \in Nat
      BY <3>1, <3>2 DEF Configs
    <3>4. ASSUME warm[f].readable, NEW c \in Clubs, listed'[c] # Absent, c \notin warm[f].clubs
          PROVE  listed'[c] <= warm[f].age + 1
      <4>1. listed[c] # Absent /\ listed'[c] = Older(listed[c]) /\ listed[c] \in 0 .. CacheTime
        BY <3>4 DEF Tick, TypeOK
      <4>2. listed[c] <= warm[f].age
        BY <3>1, <3>4, <4>1 DEF CatchUpInv, CacheFresh
      <4> QED
        BY <3>3, <4>1, <4>2 DEF Older
    <3> QED
      BY <3>1, <3>3, <3>4
  <2> QED
    BY <2>1 DEF CacheFresh
<1>5. ASSUME NEW k \in Kinds, NEW c \in Clubs, Due(k, c)'
      PROVE  Known(c)' /\ Accounted(k, c)' /\ InHand(k, c)' /\ (k = "schedule" => Seasoned(c)')
  <2>1. Due(k, c)
    BY <1>1, <1>5 DEF Due, history
  <2>2. Known(c) /\ Accounted(k, c) /\ InHand(k, c) /\ (k = "schedule" => Seasoned(c))
    BY <2>1 DEF CatchUpInv, Promised
  <2>3. Known(c)'
    <3>1. listed'[c] = Older(listed[c]) /\ listed[c] \in 0 .. CacheTime
      BY <2>2 DEF Known, Tick, TypeOK
    <3> QED
      BY <1>2, <2>2, <3>1 DEF Known, Older
  <2>4. Accounted(k, c)' /\ InHand(k, c)'
    BY <1>1, <1>2, <2>2 DEF Accounted, InHand, history, publisher, EventsAt
  <2>5. k = "schedule" => Seasoned(c)'
    BY <1>1, <1>2, <2>1, <2>2 DEF Seasoned, history, Due
  <2> QED
    BY <2>3, <2>4, <2>5
<1> QED
  BY <1>3, <1>4, <1>5 DEF CatchUpInv, Promised

-----------------------------------------------------------------------------
(* The command.                                                            *)

\* After a command has failed nothing is promised.
LEMMA FailsPromised ==
    ASSUME TypeOK, CatchUpInv, Fails, UNCHANGED <<publisher, world, warm, seasons>>
    PROVE  CatchUpInv'
<1>1. outcome' = "failed" /\ cli'.pc = "idle"
  BY DEF Fails, IdleCli
<1>2. CacheFresh'
  BY DEF CatchUpInv, CacheFresh, world
<1> QED
  BY <1>1, <1>2 DEF CatchUpInv, CommandShape, OutIsSent, Promised, Due

\* What is owed when a command begins.
LEMMA OwedAtStart ==
    ASSUME TypeOK, NEW skip \in Flags, runFullSync(skip),
           NEW k \in Kinds, NEW c \in Clubs, <<k, c>> \in Dues(owed')
    PROVE  /\ JobOf(k) \in SeasonedJobs(Serving \ skip)
           /\ c \in Visible(Jobs \ skip)
<1> DEFINE V == Visible(Jobs \ skip)
<1>1. PICK e \in owed' : e.kind = k /\ e.club = c
  BY DuesIn
<1>2. PICK f \in SeasonedJobs(Serving \ skip) : e \in EventsOf(f, V, season)
  BY <1>1 DEF runFullSync
<1>3. f \in Serving /\ V \in SUBSET Clubs
  BY DEF SeasonedJobs, Visible, Registered
<1>4. <<k, c>> \in Dues(EventsOf(f, V, season))
  BY <1>1, <1>2, DuesIn
<1>5. f = JobOf(k) /\ c \in V
  <2> HIDE DEF V
  <2> QED
    BY <1>3, <1>4, DuesOfJob
<1> QED
  BY <1>2, <1>5

LEMMA OwedAtStartToo ==
    ASSUME TypeOK, NEW skip \in Flags, runFullSync(skip),
           NEW k \in Kinds, NEW c \in Clubs,
           JobOf(k) \in SeasonedJobs(Serving \ skip), c \in Visible(Jobs \ skip)
    PROVE  <<k, c>> \in Dues(owed')
<1>1. JobOf(k) \in Serving /\ Visible(Jobs \ skip) \in SUBSET Clubs
  BY JobOfKind DEF Visible, Registered
<1>2. <<k, c>> \in Dues(EventsOf(JobOf(k), Visible(Jobs \ skip), season))
  BY <1>1, DuesOfJob
<1>3. EventsOf(JobOf(k), Visible(Jobs \ skip), season) \subseteq owed'
  BY DEF runFullSync
<1> QED
  BY <1>2, <1>3, DuesGrow

LEMMA BeginPromised ==
    ASSUME TypeOK, CatchUpInv, NEW skip \in Flags, runFullSync(skip)
    PROVE  CatchUpInv'
<1>1. /\ cli'.pc = "parameters" /\ cli'.todo = Jobs \ skip /\ cli'.wait = 0
      /\ outcome' = "running" /\ sent' = {} /\ missed' = {} /\ call.pc = "none"
      /\ UNCHANGED <<publisher, world, warm, seasons, call>>
  BY DEF runFullSync, IdleCli
<1>2. CommandShape' /\ OutIsSent' /\ CacheFresh'
  BY <1>1 DEF CatchUpInv, CommandShape, OutIsSent, CacheFresh, world
<1>3. ASSUME NEW k \in Kinds, NEW c \in Clubs, Due(k, c)'
      PROVE  Known(c)' /\ Accounted(k, c)' /\ InHand(k, c)' /\ (k = "schedule" => Seasoned(c)')
  <2>1. JobOf(k) \in SeasonedJobs(Serving \ skip) /\ c \in Visible(Jobs \ skip)
    BY <1>3, OwedAtStart DEF Due
  <2>2. JobOf(k) \in Serving \ skip
    BY <2>1 DEF SeasonedJobs
  <2>3. Known(c)'
    BY <1>1, <2>1 DEF Known, Visible, Registered, TypeOK, world
  <2>4. Accounted(k, c)' /\ InHand(k, c)'
    BY <1>1, <2>2 DEF Accounted, InHand, Serving, Jobs
  <2>5. ASSUME k = "schedule", season \notin seasons
        PROVE  "teams" \in Jobs \ skip /\ <<"teams", c>> \in Dues(owed')
    <3>1. "teams" \in Serving \ skip
      BY <2>1, <2>5 DEF SeasonedJobs, JobOf
    <3>2. "teams" \in Kinds /\ JobOf("teams") \in SeasonedJobs(Serving \ skip)
      BY <3>1 DEF SeasonedJobs, JobOf, Kinds
    <3> QED
      BY <2>1, <3>1, <3>2, OwedAtStartToo DEF Serving, Jobs
  <2>6. k = "schedule" => Seasoned(c)'
    BY <1>1, <2>5 DEF Seasoned, world
  <2> QED
    BY <2>3, <2>4, <2>6
<1> QED
  BY <1>2, <1>3 DEF CatchUpInv, Promised

\* Going on keeps what is promised when the job that was waited for, if any, has
\* seen to what was its own.
LEMMA ProceedPromised ==
    ASSUME TypeOK, CatchUpInv, UNCHANGED <<publisher, world, warm, seasons>>,
           NEW todo \in SUBSET cli.todo, NEW wait \in Nat, Proceed(todo, wait), call'.pc = "none",
           outcome = "running",
           \A k \in Kinds, c \in Clubs : Due(k, c) =>
               /\ JobOf(k) \in todo \/ <<k, c>> \in Dues(sent) \/ <<k, c>> \in missed
               /\ "clubs" \notin todo => listed[c] + wait >= CacheTime
               /\ k = "schedule" =>
                    \/ season \in seasons \/ <<"teams", c>> \in missed
                    \/ "teams" \in todo /\ <<"teams", c>> \in Dues(owed)
    PROVE  CatchUpInv'
<1>1. CacheFresh'
  BY DEF CatchUpInv, CacheFresh, world
<1>2. CASE todo = {}
  <2>1. outcome' = "done" /\ cli'.pc = "idle"
    BY <1>2 DEF Proceed, IdleCli
  <2> QED
    BY <1>1, <2>1 DEF CatchUpInv, CommandShape, OutIsSent, Promised, Due
<1>3. CASE todo # {}
  <2>1. /\ cli'.pc = "invoke" /\ cli'.todo = todo /\ cli'.wait = wait
        /\ UNCHANGED <<outcome, owed, sent, missed>>
    BY <1>3 DEF Proceed
  <2>2. CommandShape' /\ OutIsSent'
    BY <2>1 DEF CatchUpInv, CommandShape, OutIsSent
  <2>3. ASSUME NEW k \in Kinds, NEW c \in Clubs, Due(k, c)'
        PROVE  Known(c)' /\ Accounted(k, c)' /\ InHand(k, c)' /\ (k = "schedule" => Seasoned(c)')
    <3>1. Due(k, c)
      BY <2>1, <2>3 DEF Due
    <3>2. Known(c)
      BY <3>1 DEF CatchUpInv, Promised
    <3>3. Known(c)'
      BY <2>1, <3>1, <3>2 DEF Known, world
    <3>4. Accounted(k, c)' /\ InHand(k, c)'
      BY <2>1, <3>1 DEF Accounted, InHand
    <3>5. k = "schedule" => Seasoned(c)'
      BY <2>1, <3>1 DEF Seasoned, world
    <3> QED
      BY <3>3, <3>4, <3>5
  <2> QED
    BY <1>1, <2>2, <2>3 DEF CatchUpInv, Promised
<1> QED
  BY <1>2, <1>3

LEMMA CommandPromised ==
    ASSUME TypeOK, CatchUpInv, Command \/ Stops
    PROVE  CatchUpInv'
<1>1. CASE getParameter
  <2>1. CASE Fails
    BY <1>1, <2>1, FailsPromised DEF getParameter
  <2>2. CASE Proceed(cli.todo, 0)
    <3>1. cli.pc = "parameters" /\ cli.wait = 0 /\ outcome = "running" /\ call'.pc = "none"
      BY <1>1 DEF getParameter, CatchUpInv, CommandShape
    <3>2. ASSUME NEW k \in Kinds, NEW c \in Clubs, Due(k, c)
          PROVE  /\ JobOf(k) \in cli.todo \/ <<k, c>> \in Dues(sent) \/ <<k, c>> \in missed
                 /\ "clubs" \notin cli.todo => listed[c] + 0 >= CacheTime
                 /\ k = "schedule" =>
                      \/ season \in seasons \/ <<"teams", c>> \in missed
                      \/ "teams" \in cli.todo /\ <<"teams", c>> \in Dues(owed)
      BY <3>1, <3>2 DEF CatchUpInv, Promised, Known, Accounted, Seasoned
    <3> QED
      BY <1>1, <2>2, <3>1, <3>2, ProceedPromised DEF getParameter
  <2> QED
    BY <1>1, <2>1, <2>2 DEF getParameter
<1>2. CASE Invoke
  <2>1. /\ cli'.pc = "answer" /\ cli'.todo = cli.todo /\ cli'.wait = 0 /\ cli.wait = 0
        /\ call'.pc = "config" /\ call'.fn = NextJob(cli.todo) /\ cli.pc = "invoke"
        /\ UNCHANGED <<publisher, world, warm, seasons, history>>
    BY <1>2 DEF Invoke, NoCall, TypeOK, CliState
  <2>2. CommandShape' /\ OutIsSent' /\ CacheFresh'
    BY <2>1 DEF CatchUpInv, CommandShape, OutIsSent, CacheFresh, world, history
  <2>3. ASSUME NEW k \in Kinds, NEW c \in Clubs, Due(k, c)'
        PROVE  Known(c)' /\ Accounted(k, c)' /\ InHand(k, c)' /\ (k = "schedule" => Seasoned(c)')
    <3>1. Due(k, c)
      BY <2>1, <2>3 DEF Due, history
    <3>2. Known(c) /\ Accounted(k, c) /\ (k = "schedule" => Seasoned(c))
      BY <3>1 DEF CatchUpInv, Promised
    <3> QED
      BY <2>1, <3>2 DEF Known, Accounted, InHand, Seasoned, world, history
  <2> QED
    BY <2>2, <2>3 DEF CatchUpInv, Promised
<1>3. CASE Throttled
  <2>1. CASE LastAttempt(cli.attempt)
    BY <1>3, <2>1, FailsPromised DEF Throttled
  <2>2. CASE ~ LastAttempt(cli.attempt)
    <3>1. /\ cli'.pc = "invoke" /\ cli'.todo = cli.todo /\ cli.wait = 0 /\ cli'.wait = RetryTime
          /\ cli.pc = "invoke"
          /\ UNCHANGED <<publisher, world, warm, seasons, call, history>>
      BY <1>3, <2>2 DEF Throttled, TypeOK, CliState
    <3>2. CommandShape' /\ OutIsSent' /\ CacheFresh'
      BY <3>1 DEF CatchUpInv, CommandShape, OutIsSent, CacheFresh, world, history, publisher
    <3>3. ASSUME NEW k \in Kinds, NEW c \in Clubs, Due(k, c)'
          PROVE  Known(c)' /\ Accounted(k, c)' /\ InHand(k, c)' /\ (k = "schedule" => Seasoned(c)')
      <4>1. Due(k, c)
        BY <3>1, <3>3 DEF Due, history
      <4>2. Known(c) /\ Accounted(k, c) /\ (k = "schedule" => Seasoned(c))
        BY <4>1 DEF CatchUpInv, Promised
      <4>3. Known(c)'
        BY <3>1, <4>2 DEF Known, world, TypeOK
      <4> QED
        BY <3>1, <4>2, <4>3 DEF Accounted, InHand, Seasoned, world, history
    <3> QED
      BY <3>2, <3>3 DEF CatchUpInv, Promised
  <2> QED
    BY <2>1, <2>2
<1>4. CASE Answer
  <2>1. CASE call.pc # "returned"
    BY <1>4, <2>1, FailsPromised DEF Answer
  <2>2. CASE call.pc = "returned"
    <3> DEFINE todo == cli.todo \ {call.fn}
               wait == CooldownAfter(call.fn, todo)
    <3>1. /\ Proceed(todo, wait) /\ call'.pc = "none" /\ cli.pc = "answer"
          /\ UNCHANGED <<publisher, world, warm, seasons>>
      BY <1>4, <2>2 DEF Answer, NoCall
    <3>2. outcome = "running" /\ cli.wait = 0 /\ call.fn = NextJob(cli.todo)
      BY <3>1 DEF CatchUpInv, CommandShape
    <3>3. wait \in Nat /\ (call.fn = "clubs" => wait = Cooldown) /\ todo \in SUBSET cli.todo
      BY DEF CooldownAfter
    <3>4. ASSUME NEW k \in Kinds, NEW c \in Clubs, Due(k, c)
          PROVE  /\ JobOf(k) \in todo \/ <<k, c>> \in Dues(sent) \/ <<k, c>> \in missed
                 /\ "clubs" \notin todo => listed[c] + wait >= CacheTime
                 /\ k = "schedule" =>
                      \/ season \in seasons \/ <<"teams", c>> \in missed
                      \/ "teams" \in todo /\ <<"teams", c>> \in Dues(owed)
      <4>1. Known(c) /\ Accounted(k, c) /\ InHand(k, c) /\ (k = "schedule" => Seasoned(c))
        BY <3>4 DEF CatchUpInv, Promised
      <4>2. JobOf(k) \in todo \/ <<k, c>> \in Dues(sent) \/ <<k, c>> \in missed
        BY <2>2, <3>1, <4>1 DEF Accounted, InHand
      <4>3. "clubs" \notin todo => listed[c] + wait >= CacheTime
        <5>1. listed[c] \in 0 .. CacheTime
          BY <4>1 DEF Known, TypeOK
        <5>2. CASE call.fn = "clubs"
          BY <3>3, <5>1, <5>2
        <5>3. CASE call.fn # "clubs"
          BY <3>2, <3>3, <4>1, <5>1, <5>3 DEF Known
        <5> QED
          BY <5>2, <5>3
      <4>4. k = "schedule" =>
              \/ season \in seasons \/ <<"teams", c>> \in missed
              \/ "teams" \in todo /\ <<"teams", c>> \in Dues(owed)
        BY <2>2, <3>1, <4>1 DEF Seasoned
      <4> QED
        BY <4>2, <4>3, <4>4
    <3> HIDE DEF todo, wait
    <3> QED
      BY <3>1, <3>2, <3>3, <3>4, ProceedPromised
  <2> QED
    BY <2>1, <2>2
<1>5. CASE Stops
  BY <1>5, FailsPromised DEF Stops
<1> QED
  BY <1>1, <1>2, <1>3, <1>4, <1>5 DEF Command

-----------------------------------------------------------------------------
(* The jobs.                                                               *)

\* A job's step: the command, if it is running, waits for this job.
LEMMA WaitsForJob ==
    ASSUME TypeOK, CatchUpInv, outcome = "running", call.pc # "none"
    PROVE  cli.pc = "answer" /\ cli.wait = 0 /\ call.fn = NextJob(cli.todo)
BY DEF CatchUpInv, CommandShape, TypeOK, CliState

\* The clubs job comes first: what another one works for has been known for long enough.
LEMMA ServedAreKnown ==
    ASSUME TypeOK, CatchUpInv, outcome = "running", call.pc # "none", call.fn \in Serving,
           NEW k \in Kinds, NEW c \in Clubs, Due(k, c)
    PROVE  listed[c] = CacheTime
<1>1. cli.wait = 0 /\ "clubs" \notin cli.todo
  BY WaitsForJob DEF NextJob, Serving
<1>2. Known(c) /\ listed[c] \in 0 .. CacheTime
  BY DEF CatchUpInv, Promised, Known, TypeOK
<1> QED
  BY <1>1, <1>2 DEF Known

\* A step of a job keeps what is promised if it hands over what it had in hand, or
\* passes over it.
LEMMA HandedOn ==
    ASSUME TypeOK, CatchUpInv, CacheFresh', OutIsSent',
           UNCHANGED <<listed, season, cli, outcome, owed>>,
           call'.fn = call.fn, call.pc # "none",
           sent \subseteq sent', missed \subseteq missed', seasons \subseteq seasons',
           \A k \in Kinds, c \in Clubs : Due(k, c) /\ call.fn = JobOf(k) => InHand(k, c)',
           \A c \in Clubs : Due("teams", c) /\ call.fn = "teams" =>
               \/ season \in seasons' \/ <<"teams", c>> \in missed'
               \/ call.pc \in {"config", "season", "threw"} => call'.pc \in {"config", "season", "threw"}
    PROVE  CatchUpInv'
<1>1. CommandShape'
  BY DEF CatchUpInv, CommandShape
<1>2. Dues(sent) \subseteq Dues(sent')
  BY DuesGrow
<1>3. ASSUME NEW k \in Kinds, NEW c \in Clubs, Due(k, c)'
      PROVE  Known(c)' /\ Accounted(k, c)' /\ InHand(k, c)' /\ (k = "schedule" => Seasoned(c)')
  <2>1. Due(k, c)
    BY <1>3 DEF Due
  <2>2. Known(c) /\ Accounted(k, c) /\ (k = "schedule" => Seasoned(c))
    BY <2>1 DEF CatchUpInv, Promised
  <2>3. Known(c)' /\ Accounted(k, c)'
    BY <1>2, <2>2 DEF Known, Accounted
  <2>4. InHand(k, c)'
    BY <2>1 DEF InHand
  <2>5. k = "schedule" => Seasoned(c)'
    BY <2>1, <2>2 DEF Seasoned, Due
  <2> QED
    BY <2>3, <2>4, <2>5
<1> QED
  BY <1>1, <1>3 DEF CatchUpInv, Promised

LEMMA LoadConfigPromised ==
    ASSUME TypeOK, CatchUpInv, LoadConfig
    PROVE  CatchUpInv'
<1>1. PICK config \in loadProviderRuntimeConfig(call.fn) :
        /\ warm' = [warm EXCEPT ![call.fn] = config]
        /\ call' = [call EXCEPT !.pc = IF config.clubs = {} THEN "returned" ELSE "season",
                                !.clubs = config.clubs]
        /\ PassedOver(KindsOf[call.fn], IF config.readable THEN {} ELSE Clubs)
  BY DEF LoadConfig
<1>2. /\ call.fn \in Serving /\ call.pc = "config" /\ config \in Configs
      /\ UNCHANGED <<publisher, world, seasons, cli, outcome, owed, sent>>
  BY ConfigType DEF LoadConfig
<1>3. CacheFresh'
  BY <1>1, <1>2, LoadFresh DEF CatchUpInv, world
<1>4. call'.fn = call.fn /\ call'.clubs = config.clubs
      /\ call'.pc = (IF config.clubs = {} THEN "returned" ELSE "season")
  BY <1>1 DEF TypeOK, CallState
<1>5. missed \subseteq missed' /\ OutIsSent'
  BY <1>1, <1>4 DEF PassedOver, OutIsSent
<1>6. ASSUME NEW k \in Kinds, NEW c \in Clubs, Due(k, c), call.fn = JobOf(k)
      PROVE  <<k, c>> \in missed' \/ c \in config.clubs
  <2>1. outcome = "running" /\ listed[c] = CacheTime
    BY <1>2, <1>6, ServedAreKnown DEF Due
  <2>2. CASE config.readable
    <3>1. config.age < CacheTime
          /\ (listed[c] # Absent /\ c \notin config.clubs => listed[c] <= config.age)
      BY <1>1, <1>2, <2>2 DEF loadProviderRuntimeConfig, CatchUpInv, CacheFresh, Registered
    <3>2. config.age \in Nat
      BY <1>2 DEF Configs
    <3> QED
      BY <2>1, <3>1, <3>2
  <2>3. CASE ~ config.readable
    <3>1. k \in KindsOf[call.fn]
      BY <1>2, <1>6, JobOfKind
    <3> QED
      BY <1>1, <2>1, <2>3, <3>1 DEF PassedOver
  <2> QED
    BY <2>2, <2>3
<1>7. \A k \in Kinds, c \in Clubs : Due(k, c) /\ call.fn = JobOf(k) => InHand(k, c)'
  BY <1>4, <1>6 DEF InHand
<1>8. ASSUME NEW c \in Clubs, Due("teams", c), call.fn = "teams"
      PROVE  <<"teams", c>> \in missed' \/ call'.pc \in {"config", "season", "threw"}
  <2>1. "teams" \in Kinds /\ JobOf("teams") = "teams"
    BY DEF Kinds, JobOf
  <2> QED
    BY <1>4, <1>6, <1>8, <2>1
<1> QED
  BY <1>2, <1>3, <1>4, <1>5, <1>7, <1>8, HandedOn DEF world

LEMMA CoordinatePromised ==
    ASSUME TypeOK, CatchUpInv, Coordinate
    PROVE  CatchUpInv'
<1>1. /\ call.fn = "clubs" /\ call.pc = "config" /\ call'.fn = call.fn /\ call'.pc = "returned"
      /\ UNCHANGED <<publisher, world, warm, seasons, cli, history>>
  BY DEF Coordinate, TypeOK, CallState
<1>2. CacheFresh' /\ OutIsSent'
  BY <1>1 DEF CatchUpInv, CacheFresh, OutIsSent, world
<1>3. \A k \in Kinds : JobOf(k) # "clubs"
  BY DEF JobOf
<1> QED
  BY <1>1, <1>2, <1>3, HandedOn DEF world, history

LEMMA StoreSeasonPromised ==
    ASSUME TypeOK, CatchUpInv, StoreSeason
    PROVE  CatchUpInv'
<1>1. /\ call.fn = "teams" /\ call.pc = "season" /\ call'.fn = call.fn
      /\ UNCHANGED <<publisher, world, warm, cli, outcome, owed, sent>>
  BY DEF StoreSeason, TypeOK, CallState
<1>2. CacheFresh'
  BY <1>1 DEF CatchUpInv, CacheFresh, world
<1>3. CASE call.clubs \cap rows = {}
  <2>1. call'.pc = "threw" /\ UNCHANGED <<seasons, missed>>
    BY <1>3 DEF StoreSeason, TypeOK, CallState
  <2>2. OutIsSent' /\ (\A k \in Kinds, c \in Clubs : InHand(k, c)')
    BY <2>1 DEF OutIsSent, InHand
  <2> QED
    BY <1>1, <1>2, <2>1, <2>2, HandedOn DEF world
<1>4. CASE call.clubs \cap rows # {}
  <2>1. /\ call'.pc = "build" /\ call'.clubs = call.clubs \cap rows
        /\ seasons' = seasons \cup {season}
        /\ PassedOver(KindsOf["teams"], call.clubs \ rows)
    BY <1>4 DEF StoreSeason, WithSeason, TypeOK, CallState
  <2>2. missed \subseteq missed' /\ OutIsSent'
    BY <2>1 DEF PassedOver, OutIsSent
  <2>3. ASSUME NEW k \in Kinds, NEW c \in Clubs, Due(k, c), call.fn = JobOf(k)
        PROVE  InHand(k, c)'
    <3>1. outcome = "running" /\ (<<k, c>> \in missed \/ c \in call.clubs)
      BY <1>1, <2>3, WaitsForJob DEF CatchUpInv, Promised, InHand, Due
    <3>2. k \in KindsOf["teams"]
      BY <1>1, <2>3, JobOfKind
    <3>3. <<k, c>> \in missed' \/ c \in call'.clubs
      BY <2>1, <2>2, <2>3, <3>1, <3>2 DEF PassedOver, Due
    <3> QED
      BY <2>1, <3>3 DEF InHand
  <2> QED
    BY <1>1, <1>2, <2>1, <2>2, <2>3, HandedOn DEF world
<1> QED
  BY <1>3, <1>4

LEMMA FindSeasonPromised ==
    ASSUME TypeOK, CatchUpInv, FindSeason
    PROVE  CatchUpInv'
<1>1. /\ call.fn = "match" /\ call.pc = "season" /\ call'.fn = call.fn
      /\ call'.clubs = call.clubs /\ call'.pc \in {"build", "returned"}
      /\ UNCHANGED <<publisher, world, warm, seasons, cli, outcome, owed, sent>>
  BY DEF FindSeason, TypeOK, CallState
<1>2. CacheFresh' /\ OutIsSent'
  BY <1>1 DEF CatchUpInv, CacheFresh, OutIsSent, world
<1>3. missed \subseteq missed'
  BY DEF FindSeason, PassedOver
<1>4. ASSUME NEW k \in Kinds, NEW c \in Clubs, Due(k, c), call.fn = JobOf(k)
      PROVE  InHand(k, c)'
  <2>1. /\ k = "schedule" /\ outcome = "running" /\ cli.pc = "answer" /\ "teams" \notin cli.todo
    BY <1>1, <1>4, WaitsForJob DEF JobOf, Due, NextJob
  <2>2. <<k, c>> \in missed \/ c \in call.clubs
    BY <1>1, <1>4, <2>1 DEF CatchUpInv, Promised, InHand
  <2>3. season \in seasons \/ <<"teams", c>> \in missed
    BY <1>4, <2>1 DEF CatchUpInv, Promised, Seasoned
  <2>4. CASE call'.pc = "build"
    BY <1>1, <1>3, <2>2, <2>4 DEF InHand
  <2>5. CASE call'.pc = "returned"
    <3>1. seasons = {} /\ PassedOver(KindsOf["match"], {d \in Clubs : <<"teams", d>> \in missed})
      BY <2>5 DEF FindSeason, TypeOK, CallState
    <3>2. <<k, c>> \in missed'
      BY <2>1, <2>3, <3>1 DEF PassedOver, KindsOf
    <3> QED
      BY <3>2 DEF InHand
  <2> QED
    BY <1>1, <2>4, <2>5
<1> QED
  BY <1>1, <1>2, <1>3, <1>4, HandedOn DEF world

LEMMA createEventEnvelopePromised ==
    ASSUME TypeOK, CatchUpInv, createEventEnvelope
    PROVE  CatchUpInv'
<1> DEFINE skipped == IF call.fn = "match" THEN call.clubs \ rows ELSE {}
           served  == call.clubs \ skipped
           b       == SetToSeq(EventsOf(call.fn, served, call.season))
<1>1. /\ call.fn \in Serving /\ call.pc = "build" /\ call'.fn = call.fn /\ call'.pc = "publish"
      /\ UNCHANGED <<world, warm, seasons, cli, outcome, owed, sent>>
      /\ PassedOver(KindsOf[call.fn], skipped)
      /\ served \in SUBSET Clubs /\ call.season \in Seasons
  BY DEF createEventEnvelope, TypeOK, CallState
<1>2. batch' = b /\ out' = {}
  BY DEF createEventEnvelope, Publish
<1>3. EventsAt(DOMAIN batch)' = EventsOf(call.fn, served, call.season)
  <2>1. {b[i] : i \in DOMAIN b} = EventsOf(call.fn, served, call.season)
    BY <1>1, BatchOf
  <2> HIDE DEF b, served
  <2> QED
    BY <1>2, <2>1 DEF EventsAt
<1>4. CacheFresh' /\ OutIsSent' /\ missed \subseteq missed'
  <2> HIDE DEF b, served, skipped
  <2> QED
    BY <1>1, <1>2 DEF CatchUpInv, CacheFresh, OutIsSent, PassedOver, world
<1>5. ASSUME NEW k \in Kinds, NEW c \in Clubs, Due(k, c), call.fn = JobOf(k)
      PROVE  InHand(k, c)'
  <2>1. <<k, c>> \in missed \/ c \in call.clubs
    BY <1>1, <1>5, WaitsForJob DEF CatchUpInv, Promised, InHand, Due
  <2>2. k \in KindsOf[call.fn] /\ outcome = "running"
    BY <1>1, <1>5, JobOfKind DEF Due
  <2>3. <<k, c>> \in missed' \/ c \in served
    BY <1>1, <1>4, <2>1, <2>2 DEF PassedOver
  <2>4. c \in served => <<k, c>> \in Dues(EventsAt(DOMAIN batch)')
    <3> HIDE DEF served
    <3> QED
      BY <1>1, <1>3, <1>5, DuesOfJob
  <2> HIDE DEF b, served, skipped
  <2> QED
    BY <1>1, <2>3, <2>4 DEF InHand
<1> HIDE DEF b, served, skipped
<1> QED
  BY <1>1, <1>4, <1>5, HandedOn DEF world

LEMMA SendPromised ==
    ASSUME TypeOK, CatchUpInv, Send
    PROVE  CatchUpInv'
<1>1. /\ call.pc = "publish" /\ sent' = (IF outcome = "running" THEN sent \cup out' ELSE sent)
      /\ UNCHANGED <<world, warm, seasons, cli, call, outcome, owed, missed>>
  BY DEF Send
<1>2. batch' = batch
  BY DEF Send, PutEvents, CutOff
<1>3. CacheFresh' /\ OutIsSent' /\ sent \subseteq sent'
  BY <1>1 DEF CatchUpInv, CacheFresh, OutIsSent, world
<1>4. \A k \in Kinds, c \in Clubs : Due(k, c) /\ call.fn = JobOf(k) => InHand(k, c)'
  BY <1>1, <1>2 DEF InHand, CatchUpInv, Promised, EventsAt
<1> QED
  BY <1>1, <1>3, <1>4, HandedOn DEF world

LEMMA FinishPromised ==
    ASSUME TypeOK, PublisherInv, CatchUpInv, Finish
    PROVE  CatchUpInv'
<1>1. /\ call.pc = "publish" /\ call'.fn = call.fn
      /\ call'.pc = (IF verdict = "ok" THEN "returned" ELSE "threw")
      /\ UNCHANGED <<world, warm, seasons, cli, history>>
  BY DEF Finish, TypeOK, CallState
<1>2. CacheFresh' /\ OutIsSent'
  BY <1>1 DEF CatchUpInv, CacheFresh, OutIsSent, world
<1>3. ASSUME NEW k \in Kinds, NEW c \in Clubs, Due(k, c), call.fn = JobOf(k)
      PROVE  InHand(k, c)'
  <2>1. <<k, c>> \in missed \/ <<k, c>> \in Dues(EventsAt(DOMAIN batch))
    BY <1>1, <1>3, WaitsForJob DEF CatchUpInv, Promised, InHand, Due
  <2>2. CASE verdict = "ok"
    <3>1. EventsAt(DOMAIN batch) \subseteq sent
      BY <1>1, <1>3, <2>2 DEF CatchUpInv, OutIsSent, Due, PublisherInv, Progress
    <3>2. Dues(EventsAt(DOMAIN batch)) \subseteq Dues(sent)
      BY <3>1, DuesGrow
    <3> QED
      BY <1>1, <2>1, <2>2, <3>2 DEF InHand, history
  <2>3. CASE verdict # "ok"
    BY <1>1, <2>3 DEF InHand
  <2> QED
    BY <2>2, <2>3
<1> QED
  BY <1>1, <1>2, <1>3, HandedOn DEF world, history

LEMMA JobThrowsPromised ==
    ASSUME TypeOK, CatchUpInv, JobThrows
    PROVE  CatchUpInv'
<1>1. /\ call.pc # "none" /\ call'.fn = call.fn /\ call'.pc = "threw"
      /\ UNCHANGED <<world, warm, seasons, cli, history>>
  BY DEF JobThrows, TypeOK, CallState
<1>2. CacheFresh' /\ OutIsSent' /\ (\A k \in Kinds, c \in Clubs : InHand(k, c)')
  BY <1>1 DEF CatchUpInv, CacheFresh, OutIsSent, InHand, world
<1> QED
  BY <1>1, <1>2, HandedOn DEF world, history

LEMMA UnattendedPromised ==
    ASSUME TypeOK, CatchUpInv, Unattended
    PROVE  CatchUpInv'
<1>1. /\ call.pc # "none" /\ cli.pc # "answer" /\ call'.pc = "none"
      /\ UNCHANGED <<publisher, world, warm, seasons, cli, history>>
  BY DEF Unattended, NoCall
<1>2. outcome # "running"
  BY <1>1, WaitsForJob
<1> QED
  BY <1>1, <1>2 DEF CatchUpInv, CommandShape, CacheFresh, OutIsSent, Promised, Due, world, history

LEMMA NextPromised ==
    ASSUME TypeOK, PublisherInv, CatchUpInv, [Next]_vars
    PROVE  CatchUpInv'
<1>1. CASE Next
  BY <1>1, WorldPromised, TickPromised, BeginPromised, CommandPromised, LoadConfigPromised,
     CoordinatePromised, StoreSeasonPromised, FindSeasonPromised, createEventEnvelopePromised,
     SendPromised, FinishPromised, JobThrowsPromised, UnattendedPromised
     DEF Next, Job
<1>2. CASE UNCHANGED vars
  <2>1. CacheFresh'
    BY <1>2 DEF vars, world, CatchUpInv, CacheFresh
  <2> QED
    BY <1>2, <2>1, OutsidePromised DEF vars, world
<1> QED
  BY <1>1, <1>2

\* Whatever is cached, throttled or registered meanwhile, and wherever the command and
\* its jobs end, what is owed is still to be sent, sent, or passed over (CatchUpInv).
THEOREM CatchUpInvariant == Spec => []CatchUpInv
<1>1. Init => TypeOK /\ PublisherInv /\ CatchUpInv
  BY InitType, PublisherStarts, InitPromised DEF Init
<1>2. TypeOK /\ PublisherInv /\ CatchUpInv /\ [Next]_vars => TypeOK' /\ PublisherInv' /\ CatchUpInv'
  BY NextType, NextPromised
<1> QED
  BY <1>1, <1>2, PTL DEF Spec

-----------------------------------------------------------------------------
(* Every step is one of CatchUp, or none.                                  *)

LEMMA CatchUpStarts == Init => AsCatchUp!Init
BY DEF Init, AsCatchUp!Init, Dues

LEMMA BeginRefines ==
    ASSUME TypeOK, CatchUpInv, TypeOK', NEW skip \in Flags, runFullSync(skip)
    PROVE  AsCatchUp!Begin
<1>1. outcome # "running"
  BY DEF runFullSync, CatchUpInv, CommandShape
<1>2. outcome' = "running" /\ sent' = {} /\ missed' = {}
  BY DEF runFullSync
<1>3. Dues(owed)' \in SUBSET (Kinds \X Clubs)
  BY DuesType DEF TypeOK
<1>4. Dues(sent)' = {}
  BY <1>2 DEF Dues
<1> QED
  BY <1>1, <1>2, <1>3, <1>4 DEF AsCatchUp!Begin, AsCatchUp!Dues

LEMMA FailsRefines ==
    ASSUME TypeOK, CatchUpInv, cli.pc # "idle", Fails
    PROVE  AsCatchUp!Fail
<1>1. outcome = "running"
  BY DEF CatchUpInv, CommandShape
<1>2. Dues(owed)' = {} /\ Dues(sent)' = {}
  BY DEF Fails, Dues
<1> QED
  BY <1>1, <1>2 DEF Fails, AsCatchUp!Fail

\* A command that has no job left is done: each that it owed has been seen to.
LEMMA ProceedRefines ==
    ASSUME TypeOK, CatchUpInv, CatchUpInv', outcome = "running",
           NEW todo, NEW wait, Proceed(todo, wait),
           todo = {} => Dues(owed) \subseteq Dues(sent) \cup missed
    PROVE  AsCatchUp!Done \/ UNCHANGED AsCatchUp!vars
<1>1. Dues(owed)' = Dues(owed) /\ Dues(sent)' = Dues(sent) /\ missed' = missed
  BY DEF Proceed, Dues
<1>2. (outcome' = "done" /\ todo = {}) \/ outcome' = outcome
  BY DEF Proceed
<1> QED
  BY <1>1, <1>2 DEF AsCatchUp!Done, AsCatchUp!vars

LEMMA CommandRefines ==
    ASSUME TypeOK, CatchUpInv, CatchUpInv', Command \/ Stops
    PROVE  [AsCatchUp!Next]_(AsCatchUp!vars)
<1> USE DEF AsCatchUp!Next
<1>1. \A k, c : <<k, c>> \in Dues(owed) => k \in Kinds /\ c \in Clubs
  BY DuesType DEF TypeOK
<1>2. \A p \in Dues(owed) : p = <<p[1], p[2]>>
  BY DEF Dues
<1>3. CASE getParameter
  <2>1. CASE Fails
    BY <1>3, <2>1, FailsRefines DEF getParameter
  <2>2. CASE Proceed(cli.todo, 0)
    <3>1. outcome = "running"
      BY <1>3 DEF getParameter, CatchUpInv, CommandShape
    <3>2. ASSUME cli.todo = {}, NEW p \in Dues(owed)
          PROVE  p \in Dues(sent) \cup missed
      <4>1. p[1] \in Kinds /\ p[2] \in Clubs /\ Due(p[1], p[2])
        BY <1>1, <1>2, <3>1, <3>2 DEF Due
      <4>2. Accounted(p[1], p[2])
        BY <4>1 DEF CatchUpInv, Promised
      <4> QED
        BY <1>2, <3>2, <4>2 DEF Accounted
    <3> QED
      BY <2>2, <3>1, <3>2, ProceedRefines
  <2> QED
    BY <1>3, <2>1, <2>2 DEF getParameter
<1>4. CASE Invoke
  BY <1>4 DEF Invoke, history, AsCatchUp!vars, Dues
<1>5. CASE Throttled
  <2>1. CASE LastAttempt(cli.attempt)
    BY <1>5, <2>1, FailsRefines DEF Throttled
  <2>2. CASE ~ LastAttempt(cli.attempt)
    BY <1>5, <2>2 DEF Throttled, history, AsCatchUp!vars, Dues
  <2> QED
    BY <2>1, <2>2
<1>6. CASE Answer
  <2>1. CASE call.pc # "returned"
    BY <1>6, <2>1, FailsRefines DEF Answer
  <2>2. CASE call.pc = "returned"
    <3> DEFINE todo == cli.todo \ {call.fn}
    <3>1. Proceed(todo, CooldownAfter(call.fn, todo)) /\ cli.pc = "answer"
      BY <1>6, <2>2 DEF Answer
    <3>2. outcome = "running"
      BY <3>1 DEF CatchUpInv, CommandShape
    <3>3. ASSUME todo = {}, NEW p \in Dues(owed)
          PROVE  p \in Dues(sent) \cup missed
      <4>1. p[1] \in Kinds /\ p[2] \in Clubs /\ Due(p[1], p[2])
        BY <1>1, <1>2, <3>2, <3>3 DEF Due
      <4>2. Accounted(p[1], p[2]) /\ InHand(p[1], p[2])
        BY <4>1 DEF CatchUpInv, Promised
      <4>3. JobOf(p[1]) \in cli.todo => JobOf(p[1]) = call.fn
        BY <3>3
      <4> QED
        BY <1>2, <2>2, <3>1, <3>3, <4>2, <4>3 DEF Accounted, InHand
    <3> HIDE DEF todo
    <3> QED
      BY <3>1, <3>2, <3>3, ProceedRefines
  <2> QED
    BY <2>1, <2>2
<1>7. CASE Stops
  BY <1>7, FailsRefines DEF Stops
<1> QED
  BY <1>3, <1>4, <1>5, <1>6, <1>7 DEF Command

\* A job of a running command serves; what any other one does is not counted.
LEMMA JobRefines ==
    ASSUME TypeOK, TypeOK', CatchUpInv, Job \/ JobThrows \/ (\E f \in Serving : OtherRun(f))
    PROVE  [AsCatchUp!Next]_(AsCatchUp!vars)
<1>1. outcome' = outcome /\ owed' = owed
  BY DEF Job, LoadConfig, Coordinate, StoreSeason, FindSeason, createEventEnvelope, Send,
         Finish, Unattended, JobThrows, OtherRun, history
<1>2. sent' = sent \/ (outcome = "running" /\ sent \subseteq sent')
  BY DEF Job, LoadConfig, Coordinate, StoreSeason, FindSeason, createEventEnvelope, Send,
         Finish, Unattended, JobThrows, OtherRun, history
<1>3. missed' = missed \/ (outcome = "running" /\ missed \subseteq missed')
  BY DEF Job, LoadConfig, Coordinate, StoreSeason, FindSeason, createEventEnvelope, Send,
         Finish, Unattended, JobThrows, OtherRun, history, PassedOver
<1>4. Dues(owed)' = Dues(owed)
  BY <1>1 DEF Dues
<1>5. Dues(sent) \subseteq Dues(sent') /\ Dues(sent') \subseteq Kinds \X Clubs
  BY <1>2, DuesGrow, DuesType DEF TypeOK
<1>6. CASE outcome = "running"
  <2>1. missed \subseteq missed' /\ missed' \subseteq Kinds \X Clubs
    BY <1>3 DEF TypeOK
  <2>2. AsCatchUp!Serve
    BY <1>1, <1>4, <1>5, <1>6, <2>1 DEF AsCatchUp!Serve, AsCatchUp!Dues
  <2> QED
    BY <2>2 DEF AsCatchUp!Next
<1>7. CASE outcome # "running"
  BY <1>1, <1>2, <1>3, <1>4, <1>7 DEF AsCatchUp!vars, Dues
<1> QED
  BY <1>6, <1>7

LEMMA NextCatchesUp ==
    ASSUME TypeOK, TypeOK', CatchUpInv, CatchUpInv', [Next]_vars
    PROVE  [AsCatchUp!Next]_(AsCatchUp!vars)
<1>1. CASE Next
  <2>1. ASSUME NEW skip \in Flags, runFullSync(skip)
        PROVE  [AsCatchUp!Next]_(AsCatchUp!vars)
    BY <2>1, BeginRefines DEF AsCatchUp!Next
  <2>2. ASSUME \/ \E c \in Clubs : Register(c) \/ SyncRow(c) \/ ExpireRow(c)
               \/ NewSeason \/ NightlySync \/ Tick
               \/ \E s \in Seasons : ExpireSeason(s)
        PROVE  UNCHANGED AsCatchUp!vars
    BY <2>2 DEF Register, SyncRow, ExpireRow, NewSeason, NightlySync, Tick, ExpireSeason, history,
                AsCatchUp!vars, Dues
  <2> QED
    BY <1>1, <2>1, <2>2, CommandRefines, JobRefines DEF Next
<1>2. CASE UNCHANGED vars
  BY <1>2 DEF vars, history, AsCatchUp!vars, Dues
<1> QED
  BY <1>1, <1>2

\* DONE keeps its promise for any clubs, ages of caches, retries, seasons and chunks,
\* if the cooldown is no shorter than the caches live (KeepsCatchUpPromise).
THEOREM CatchUpPromiseKept == Spec => KeepsCatchUpPromise
<1>1. Init => AsCatchUp!Init
  BY CatchUpStarts
<1>2. TypeOK /\ TypeOK' /\ CatchUpInv /\ CatchUpInv' /\ [Next]_vars
        => [AsCatchUp!Next]_(AsCatchUp!vars)
  BY NextCatchesUp
<1> QED
  BY <1>1, <1>2, TypeCorrect, CatchUpInvariant, PTL DEF Spec, KeepsCatchUpPromise, AsCatchUp!Spec

=============================================================================
