---------------------------- MODULE Registration -----------------------------
(***************************************************************************)
(* How a consumer comes to receive events: the register CLI, the           *)
(* configuration a Lambda container keeps for thirty seconds, and the      *)
(* rules by which EventBridge routes an event to queues.                   *)
(*                                                                         *)
(* registerConsumer reads two lists from SSM, adds to them, writes them    *)
(* back whole, and then sets up the consumer's rule and target from the    *)
(* list in its hand.  Nothing locks the lists, each request may fail, and  *)
(* an operator may run the command again.                                  *)
(*                                                                         *)
(* An account stands for its queue, a consumer id for its rule.  Publishing *)
(* is not an action: the properties speak of every event that could be     *)
(* published in a state.                                                   *)
(***************************************************************************)
EXTENDS Naturals, FiniteSets

CONSTANTS
    Clubs,             \* club uuids
    Names,             \* names an operator may type
    NameOf,            \* [Clubs -> Names]
    Consumers,         \* consumer ids
    DefaultIdOf,       \* [Clubs \cup Names -> Consumers]: slug and environment
    Accounts,          \* accounts of consumers
    Requests,          \* command lines operators use
    Operators,         \* registrations that may be in progress at the same time
    KnownClubs,        \* clubs in the index when the model starts
    CacheTime,         \* CACHE_MS
    Absent,            \* no account, no rule, no value, no consumer id given
    MaxTime,           \* bound: the clock
    MaxRegistrations,  \* bound: registrations begun
    MaxFailures        \* bound: failed requests

ASSUME RegistrationAssumption ==
    /\ NameOf \in [Clubs -> Names]
    /\ Clubs \cap Names = {}
    /\ DefaultIdOf \in [Clubs \cup Names -> Consumers]
    /\ Requests \subseteq [named    : Clubs \cup Names,
                           consumer : Consumers \cup {Absent},
                           account  : Accounts]
    /\ KnownClubs \subseteq Clubs
    /\ Absent \notin Accounts \cup Consumers
    /\ CacheTime \in Nat \ {0}
    /\ MaxTime \in Nat
    /\ MaxRegistrations \in Nat
    /\ MaxFailures \in Nat

VARIABLES
    indexed,     \* clubs of the provider index
    clubs,       \* parameter sync/clubs: [Clubs -> consumerIds], {} if not listed
    consumers,   \* parameter sync/consumers: [Consumers -> account or Absent]
    rules,       \* [Consumers -> clubUuids of the rule's pattern, {} if no rule]
    targets,     \* [Consumers -> account of the rule's target, or Absent]
    cli,         \* [Operators -> local state of a registration]
    now,         \* the clock
    cache,       \* the configuration a container has loaded last, or Absent
    run,         \* what the latest run of that container works with, or Absent
    begun,       \* history: registrations that found their club
    completedAt, \* history: [registration -> when it first came to its end]
    overlapped,  \* history: two registrations were in progress at once
    misread,     \* history: a registration took an unreadable list for empty
    count,       \* registrations begun so far
    failures     \* failures so far

lists == <<clubs, consumers>>
wiring == <<rules, targets>>
lambda == <<cache, run>>
history == <<begun, completedAt, overlapped, misread>>
vars == <<indexed, lists, wiring, cli, now, lambda, history, count, failures>>

Registrations == [club : Clubs, consumer : Consumers, account : Accounts]

NoClubs == [c \in Clubs |-> {}]
NoConsumers == [k \in Consumers |-> Absent]

IdleCli ==
    [pc        |-> "idle",
     reg       |-> Absent,        \* resolvedClub and consumer
     clubs     |-> NoClubs,
     consumers |-> NoConsumers]

Busy == {o \in Operators : cli[o].pc # "idle"}

Continue(o, s) == cli' = [cli EXCEPT ![o] = s]

\* Requests succeed or, within the bound, fail.
Answers == IF failures < MaxFailures THEN BOOLEAN ELSE {TRUE}

Count(ok) == failures' = IF ok THEN failures ELSE failures + 1

-----------------------------------------------------------------------------
(* The register CLI.                                                       *)

\* A club sync adds a club to the index.
IndexClub(c) ==
    /\ c \notin indexed
    /\ indexed' = indexed \cup {c}
    /\ UNCHANGED <<lists, wiring, cli, now, lambda, history, count, failures>>

\* The clubs of the index that a uuid or a name stands for.
IndexMatches(named) == {c \in indexed : c = named \/ NameOf[c] = named}

GivenId(q) == q.consumer

ConsumerId(q) == IF q.consumer = Absent THEN DefaultIdOf[q.named] ELSE q.consumer

\* A name that no club or several clubs of the index have ends the command.
resolveClub(o, q) ==
    /\ cli[o].pc = "idle"
    /\ count < MaxRegistrations
    /\ count' = count + 1
    /\ \E c \in Clubs :
        /\ IndexMatches(q.named) = {c}
        /\ LET r == [club |-> c, consumer |-> ConsumerId(q), account |-> q.account]
           IN  /\ Continue(o, [IdleCli EXCEPT !.pc = "readClubs", !.reg = r])
               /\ begun' = begun \cup {r}
    /\ overlapped' = (overlapped \/ Busy # {})
    /\ UNCHANGED <<indexed, lists, wiring, now, lambda, completedAt, misread, failures>>

\* The club gains the consumer id; a list that cannot be read counts as empty.
readClubs(o) ==
    /\ cli[o].pc = "readClubs"
    /\ \E ok \in Answers :
        LET r    == cli[o].reg
            read == IF ok THEN clubs ELSE NoClubs
        IN  /\ Continue(o, [cli[o] EXCEPT !.pc    = "readConsumers",
                                          !.clubs = [read EXCEPT ![r.club] = @ \cup {r.consumer}]])
            /\ misread' = (misread \/ ~ok)
            /\ Count(ok)
    /\ UNCHANGED <<indexed, lists, wiring, now, lambda, begun, completedAt, overlapped, count>>

\* The consumer's entry is replaced or added.
readConsumers(o) ==
    /\ cli[o].pc = "readConsumers"
    /\ \E ok \in Answers :
        LET r    == cli[o].reg
            read == IF ok THEN consumers ELSE NoConsumers
        IN  /\ Continue(o, [cli[o] EXCEPT !.pc        = "putClubs",
                                          !.consumers = [read EXCEPT ![r.consumer] = r.account]])
            /\ misread' = (misread \/ ~ok)
            /\ Count(ok)
    /\ UNCHANGED <<indexed, lists, wiring, now, lambda, begun, completedAt, overlapped, count>>

PutClubs(o) ==
    /\ cli[o].pc = "putClubs"
    /\ clubs' = cli[o].clubs
    /\ Continue(o, [cli[o] EXCEPT !.pc = "putConsumers"])
    /\ UNCHANGED <<indexed, consumers, wiring, now, lambda, history, count, failures>>

PutConsumers(o) ==
    /\ cli[o].pc = "putConsumers"
    /\ consumers' = cli[o].consumers
    /\ Continue(o, [cli[o] EXCEPT !.pc = "stub"])
    /\ UNCHANGED <<indexed, clubs, wiring, now, lambda, history, count, failures>>

upsertClubStub(o) ==
    /\ cli[o].pc = "stub"
    /\ indexed' = indexed \cup {cli[o].reg.club}
    /\ Continue(o, [cli[o] EXCEPT !.pc = "putRule"])
    /\ UNCHANGED <<lists, wiring, now, lambda, history, count, failures>>

AllClubUuids(list, k) == {c \in Clubs : list[c] # {}}

clubUuidsForConsumer(list, k) == {c \in Clubs : k \in list[c]}

\* The pattern is built from the list in hand and replaces the rule's.
PutRule(o) ==
    /\ cli[o].pc = "putRule"
    /\ LET k == cli[o].reg.consumer
       IN  /\ clubUuidsForConsumer(cli[o].clubs, k) # {}
           /\ rules' = [rules EXCEPT ![k] = clubUuidsForConsumer(cli[o].clubs, k)]
    /\ Continue(o, [cli[o] EXCEPT !.pc = "putTargets"])
    /\ UNCHANGED <<indexed, lists, targets, now, lambda, history, count, failures>>

\* The target's id is the consumer's, so it replaces the rule's only target.
PutTargets(o) ==
    /\ cli[o].pc = "putTargets"
    /\ LET r == cli[o].reg
       IN  /\ targets' = [targets EXCEPT ![r.consumer] = r.account]
           /\ completedAt' = [completedAt EXCEPT ![r] = IF @ = Absent THEN now ELSE @]
    /\ Continue(o, IdleCli)
    /\ UNCHANGED <<indexed, lists, rules, now, lambda, begun, overlapped, misread, count, failures>>

\* An error at any await ends the command: a list that does not parse, a
\* delivery role that cannot be read, a queue that does not exist yet.
Stops(o) ==
    /\ o \in Busy
    /\ failures < MaxFailures
    /\ Count(FALSE)
    /\ Continue(o, IdleCli)
    /\ UNCHANGED <<indexed, lists, wiring, now, lambda, history, count>>

-----------------------------------------------------------------------------
(* The configuration of a container.                                       *)

Tick ==
    /\ now < MaxTime
    /\ now' = now + 1
    /\ UNCHANGED <<indexed, lists, wiring, cli, lambda, history, count, failures>>

\* A container works with what it has loaded less than CacheTime ago.
Cached == cache # Absent /\ now - cache.loadedAt < CacheTime

RenewedByHit == [cache EXCEPT !.loadedAt = now]

\* A hit keeps the entry and its age.
AfterHit == cache

\* A run of the container starts; an unreadable club list is empty, and kept.
loadProviderRuntimeConfig ==
    /\ \/ /\ Cached
          /\ cache' = AfterHit
          /\ UNCHANGED failures
       \/ /\ ~Cached
          /\ \E ok \in Answers :
                /\ cache' = [loadedAt |-> now,
                             clubs    |-> IF ok THEN {c \in Clubs : clubs[c] # {}} ELSE {},
                             readable |-> ok]
                /\ Count(ok)
    /\ run' = [at |-> now, clubs |-> cache'.clubs, readable |-> cache'.readable]
    /\ UNCHANGED <<indexed, lists, wiring, cli, now, history, count>>

-----------------------------------------------------------------------------
(* Routing.                                                                *)

\* Events about one club, about the clubs of matches or of a table, and those
\* that tell of a sync; interested are the clubs a run adds to a table's entries.
ClubEvents   == [type : {"club"}, of : {{c} : c \in Clubs}, interested : {{}}]
MatchEvents  == [type : {"match"}, of : SUBSET Clubs, interested : {{}}]
TableEvents  == [type : {"ranking"}, of : SUBSET Clubs, interested : SUBSET Clubs]
StatusEvents == [type : {"status"}, of : SUBSET Clubs, interested : {{}}]

Events == ClubEvents \cup MatchEvents \cup TableEvents \cup StatusEvents

clubUuidsForEvent(e) == IF e.type = "status" THEN {} ELSE e.of

OnlyPayloadClubs(e) == clubUuidsForEvent(e)

eventBridgeDetail(e) == clubUuidsForEvent(e) \cup e.interested

\* The consumers whose rule matches: the pattern and the detail share a club.
MatchedBy(e) == {k \in Consumers : rules[k] \cap eventBridgeDetail(e) # {}}

Queues(e) == {targets[k] : k \in MatchedBy(e)} \ {Absent}

-----------------------------------------------------------------------------
Init ==
    /\ indexed = KnownClubs
    /\ clubs = NoClubs
    /\ consumers = NoConsumers
    /\ rules = [k \in Consumers |-> {}]
    /\ targets = NoConsumers
    /\ cli = [o \in Operators |-> IdleCli]
    /\ now = 0
    /\ cache = Absent
    /\ run = Absent
    /\ begun = {}
    /\ completedAt = [r \in Registrations |-> Absent]
    /\ overlapped = FALSE
    /\ misread = FALSE
    /\ count = 0
    /\ failures = 0

registerConsumer(o) ==
    \/ \E q \in Requests : resolveClub(o, q)
    \/ readClubs(o)
    \/ readConsumers(o)
    \/ PutClubs(o)
    \/ PutConsumers(o)
    \/ upsertClubStub(o)
    \/ PutRule(o)
    \/ PutTargets(o)
    \/ Stops(o)

Next ==
    \/ \E c \in Clubs : IndexClub(c)
    \/ \E o \in Operators : registerConsumer(o)
    \/ Tick
    \/ loadProviderRuntimeConfig

Spec == Init /\ [][Next]_vars

-----------------------------------------------------------------------------
(* Properties.                                                             *)

CliStates ==
    [pc        : {"idle", "readClubs", "readConsumers", "putClubs", "putConsumers",
                  "stub", "putRule", "putTargets"},
     reg       : Registrations \cup {Absent},
     clubs     : [Clubs -> SUBSET Consumers],
     consumers : [Consumers -> Accounts \cup {Absent}]]

TypeOK ==
    /\ indexed \subseteq Clubs
    /\ clubs \in [Clubs -> SUBSET Consumers]
    /\ consumers \in [Consumers -> Accounts \cup {Absent}]
    /\ rules \in [Consumers -> SUBSET Clubs]
    /\ targets \in [Consumers -> Accounts \cup {Absent}]
    /\ cli \in [Operators -> CliStates]
    /\ \A o \in Busy : cli[o].reg \in begun
    /\ now \in Nat
    /\ cache \in [loadedAt : Nat, clubs : SUBSET Clubs, readable : BOOLEAN] \cup {Absent}
    /\ run \in [at : Nat, clubs : SUBSET Clubs, readable : BOOLEAN] \cup {Absent}
    /\ begun \subseteq Registrations
    /\ completedAt \in [Registrations -> Nat \cup {Absent}]
    /\ overlapped \in BOOLEAN
    /\ misread \in BOOLEAN
    /\ count \in Nat
    /\ failures \in Nat

Completed == {r \in Registrations : completedAt[r] # Absent}

\* A queue receives an event only through a consumer id for which its account
\* and one of the event's clubs were given to the CLI, whatever lists operators
\* overwrite, misread or leave half written: "projection events for your club
\* only" (docs/consumers/events.md:23).
OnlyOwnEvents ==
    \A e \in Events : \A x \in Queues(e) :
        \E r, s \in begun :
            /\ r.consumer = s.consumer
            /\ r.account = x
            /\ s.club \in eventBridgeDetail(e)

\* Registered again for another account under the same consumer id.
Superseded(r) == \E s \in begun : s.consumer = r.consumer /\ s.account # r.account

\* One registration after another leaves what was completed before in place: the
\* queue receives every event about the club, or of interest to it, also after
\* other registrations stopped half-way.  The lists and rules are rewritten whole
\* each time, so it takes that no two overlap and that lists could be read.
CompletedServed ==
    ~overlapped /\ ~misread =>
        \A r \in Completed : \A e \in Events :
            ~Superseded(r) /\ e.type # "status" /\ r.club \in e.of \cup e.interested
                => r.account \in Queues(e)

\* A run that starts CacheTime after a registration was completed works for its
\* club: a container that is warm all day does not live on an old configuration.
KnownToRuns ==
    ~overlapped /\ ~misread /\ run # Absent /\ run.readable =>
        \A r \in Completed : completedAt[r] + CacheTime <= run.at => r.club \in run.clubs

\* "Repeat once per consumer AWS account that should receive events. A club with
\* two accounts [...] is two prod registrations" (src/cli/README.md:36): then each
\* account receives the club's events.
EachAccountServed ==
    \A r \in Completed : \A e \in ClubEvents : e.of = {r.club} => r.account \in Queues(e)

=============================================================================
