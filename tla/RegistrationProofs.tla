------------------------- MODULE RegistrationProofs --------------------------
(***************************************************************************)
(* Registration for any number of operators, clubs and consumers: the      *)
(* types, OnlyOwnEvents, CompletedServed and KnownToRuns.                  *)
(*                                                                         *)
(* OnlyOwnEvents needs no luck: every list, in SSM or in an operator's     *)
(* hand, and every pattern and target holds only what was asked for.  The  *)
(* other two hold while no two registrations overlapped and all lists were *)
(* readable: then the list in hand extends the list in SSM, which holds    *)
(* all that was completed.                                                 *)
(***************************************************************************)
EXTENDS Registration, TLAPS

-----------------------------------------------------------------------------
(* Types.                                                                  *)

\* A step that leaves a registration in a proper state keeps them all proper.
LEMMA ContinueType ==
    ASSUME TypeOK, begun \subseteq begun',
           NEW o \in Operators, NEW s \in CliStates,
           s.pc # "idle" => s.reg \in begun',
           Continue(o, s)
    PROVE  /\ cli' \in [Operators -> CliStates]
           /\ \A p \in Busy' : cli'[p].reg \in begun'
<1>1. cli' = [cli EXCEPT ![o] = s]
  BY DEF Continue
<1>2. cli' \in [Operators -> CliStates]
  BY <1>1 DEF TypeOK
<1>3. ASSUME NEW p \in Busy' PROVE cli'[p].reg \in begun'
  <2>1. p \in Operators /\ cli'[p].pc # "idle"
    BY <1>3 DEF Busy
  <2>2. CASE p = o
    BY <1>1, <2>1, <2>2 DEF TypeOK
  <2>3. CASE p # o
    <3>1. cli'[p] = cli[p]
      BY <1>1, <2>1, <2>3 DEF TypeOK
    <3>2. p \in Busy
      BY <2>1, <3>1 DEF Busy
    <3> QED
      BY <3>1, <3>2 DEF TypeOK
  <2> QED
    BY <2>2, <2>3
<1> QED
  BY <1>2, <1>3

LEMMA CountType ==
    ASSUME failures \in Nat, NEW ok, Count(ok)
    PROVE  failures' \in Nat
  BY DEF Count

LEMMA IdleType == IdleCli \in CliStates /\ IdleCli.pc = "idle"
  BY DEF IdleCli, CliStates, NoClubs, NoConsumers

\* A busy registration knows which club, consumer and account it is for.
LEMMA BusyReg ==
    ASSUME TypeOK, NEW o \in Operators, cli[o].pc # "idle"
    PROVE  /\ cli[o] \in CliStates
           /\ cli[o].reg \in begun
           /\ cli[o].reg \in Registrations
           /\ cli[o].reg.club \in Clubs
           /\ cli[o].reg.consumer \in Consumers
           /\ cli[o].reg.account \in Accounts
<1>1. o \in Busy
  BY DEF Busy
<1>2. cli[o].reg \in begun /\ cli[o].reg \in Registrations
  BY <1>1 DEF TypeOK
<1> QED
  BY <1>2 DEF TypeOK, Registrations

\* What an unreadable or a readable list of clubs becomes in hand.
LEMMA ReadClubs ==
    ASSUME TypeOK, NEW o \in Operators, readClubs(o)
    PROVE  \E ok \in BOOLEAN :
              LET r    == cli[o].reg
                  list == [(IF ok THEN clubs ELSE NoClubs) EXCEPT ![r.club] = @ \cup {r.consumer}]
              IN  /\ list \in [Clubs -> SUBSET Consumers]
                  /\ Continue(o, [cli[o] EXCEPT !.pc = "readConsumers", !.clubs = list])
                  /\ misread' = (misread \/ ~ok)
                  /\ Count(ok)
<1>1. cli[o].reg.club \in Clubs /\ cli[o].reg.consumer \in Consumers
  BY BusyReg DEF readClubs
<1>2. PICK ok \in Answers :
        /\ Continue(o, [cli[o] EXCEPT !.pc = "readConsumers",
             !.clubs = [(IF ok THEN clubs ELSE NoClubs)
                          EXCEPT ![cli[o].reg.club] = @ \cup {cli[o].reg.consumer}]])
        /\ misread' = (misread \/ ~ok)
        /\ Count(ok)
  BY DEF readClubs
<1>3. ok \in BOOLEAN
  BY DEF Answers
<1>4. (IF ok THEN clubs ELSE NoClubs) \in [Clubs -> SUBSET Consumers]
  BY DEF TypeOK, NoClubs
<1>5. [(IF ok THEN clubs ELSE NoClubs) EXCEPT ![cli[o].reg.club] = @ \cup {cli[o].reg.consumer}]
        \in [Clubs -> SUBSET Consumers]
  BY <1>1, <1>4
<1> QED
  BY <1>2, <1>3, <1>5

LEMMA ReadConsumers ==
    ASSUME TypeOK, NEW o \in Operators, readConsumers(o)
    PROVE  \E ok \in BOOLEAN : \E list \in [Consumers -> Accounts \cup {Absent}] :
              /\ Continue(o, [cli[o] EXCEPT !.pc = "putClubs", !.consumers = list])
              /\ misread' = (misread \/ ~ok)
              /\ Count(ok)
<1>1. cli[o].reg.consumer \in Consumers /\ cli[o].reg.account \in Accounts
  BY BusyReg DEF readConsumers
<1>2. PICK ok \in Answers :
        /\ Continue(o, [cli[o] EXCEPT !.pc = "putClubs",
             !.consumers = [(IF ok THEN consumers ELSE NoConsumers)
                          EXCEPT ![cli[o].reg.consumer] = cli[o].reg.account]])
        /\ misread' = (misread \/ ~ok)
        /\ Count(ok)
  BY DEF readConsumers
<1>3. ok \in BOOLEAN
  BY DEF Answers
<1>4. (IF ok THEN consumers ELSE NoConsumers) \in [Consumers -> Accounts \cup {Absent}]
  BY DEF TypeOK, NoConsumers
<1>5. [(IF ok THEN consumers ELSE NoConsumers) EXCEPT ![cli[o].reg.consumer] = cli[o].reg.account]
        \in [Consumers -> Accounts \cup {Absent}]
  BY <1>1, <1>4
<1> QED
  BY <1>2, <1>3, <1>5

\* A registration that found its club.
LEMMA ResolvedReg ==
    ASSUME NEW o \in Operators, NEW q \in Requests, resolveClub(o, q)
    PROVE  \E r \in Registrations :
              /\ Continue(o, [IdleCli EXCEPT !.pc = "readClubs", !.reg = r])
              /\ begun' = begun \cup {r}
<1>1. PICK c \in Clubs :
        LET r == [club |-> c, consumer |-> ConsumerId(q), account |-> q.account]
        IN  /\ Continue(o, [IdleCli EXCEPT !.pc = "readClubs", !.reg = r])
            /\ begun' = begun \cup {r}
  BY DEF resolveClub
<1>2. q \in [named : Clubs \cup Names, consumer : Consumers \cup {Absent}, account : Accounts]
  BY RegistrationAssumption
<1>3. ConsumerId(q) \in Consumers /\ q.account \in Accounts
  BY <1>2, RegistrationAssumption DEF ConsumerId
<1> QED
  BY <1>1, <1>3 DEF Registrations

LEMMA TypeInit == Init => TypeOK
<1> SUFFICES ASSUME Init PROVE TypeOK
  OBVIOUS
<1>1. cli \in [Operators -> CliStates] /\ Busy = {}
  BY IdleType DEF Init, Busy
<1> QED
  BY <1>1, RegistrationAssumption DEF Init, TypeOK, NoClubs, NoConsumers

LEMMA TypeNext == TypeOK /\ [Next]_vars => TypeOK'
<1> SUFFICES ASSUME TypeOK, [Next]_vars PROVE TypeOK'
  OBVIOUS
<1>1. ASSUME NEW c \in Clubs, IndexClub(c) PROVE TypeOK'
  BY <1>1 DEF IndexClub, TypeOK, Busy, lists, wiring, lambda, history
<1>2. ASSUME NEW o \in Operators, NEW q \in Requests, resolveClub(o, q) PROVE TypeOK'
  <2>1. PICK r \in Registrations :
          /\ Continue(o, [IdleCli EXCEPT !.pc = "readClubs", !.reg = r])
          /\ begun' = begun \cup {r}
    BY <1>2, ResolvedReg
  <2> DEFINE s == [IdleCli EXCEPT !.pc = "readClubs", !.reg = r]
  <2>2. s \in CliStates
    BY IdleType DEF CliStates
  <2>3. s.reg = r
    BY DEF IdleCli
  <2>a. Continue(o, s)
    BY <2>1
  <2>b. begun \subseteq begun' /\ s.reg \in begun'
    BY <2>1, <2>3
  <2> HIDE DEF s
  <2>4. /\ cli' \in [Operators -> CliStates]
        /\ \A p \in Busy' : cli'[p].reg \in begun'
    BY <2>a, <2>b, <2>2, ContinueType
  <2>5. count' \in Nat /\ overlapped' \in BOOLEAN
    BY <1>2 DEF resolveClub, TypeOK
  <2> QED
    BY <1>2, <2>1, <2>4, <2>5 DEF resolveClub, TypeOK, lists, wiring, lambda
<1>3. ASSUME NEW o \in Operators, readClubs(o) PROVE TypeOK'
  <2>1. PICK ok \in BOOLEAN, list \in [Clubs -> SUBSET Consumers] :
          /\ Continue(o, [cli[o] EXCEPT !.pc = "readConsumers", !.clubs = list])
          /\ misread' = (misread \/ ~ok)
          /\ Count(ok)
    BY <1>3, ReadClubs
  <2>2. cli[o] \in CliStates /\ cli[o].reg \in begun /\ begun' = begun
    BY <1>3, BusyReg DEF readClubs
  <2> DEFINE s == [cli[o] EXCEPT !.pc = "readConsumers", !.clubs = list]
  <2>3. s \in CliStates
    BY <2>2 DEF CliStates
  <2>4. s.reg = cli[o].reg
    BY <2>2 DEF CliStates
  <2>a. Continue(o, s)
    BY <2>1
  <2>b. begun \subseteq begun' /\ s.reg \in begun'
    BY <2>2, <2>4
  <2> HIDE DEF s
  <2>5. /\ cli' \in [Operators -> CliStates]
        /\ \A p \in Busy' : cli'[p].reg \in begun'
    BY <2>a, <2>b, <2>3, ContinueType
  <2>6. failures' \in Nat /\ misread' \in BOOLEAN
    BY <2>1, CountType DEF TypeOK
  <2> QED
    BY <1>3, <2>5, <2>6 DEF readClubs, TypeOK, lists, wiring, lambda
<1>4. ASSUME NEW o \in Operators, readConsumers(o) PROVE TypeOK'
  <2>1. PICK ok \in BOOLEAN, list \in [Consumers -> Accounts \cup {Absent}] :
          /\ Continue(o, [cli[o] EXCEPT !.pc = "putClubs", !.consumers = list])
          /\ misread' = (misread \/ ~ok)
          /\ Count(ok)
    BY <1>4, ReadConsumers
  <2>2. cli[o] \in CliStates /\ cli[o].reg \in begun /\ begun' = begun
    BY <1>4, BusyReg DEF readConsumers
  <2> DEFINE s == [cli[o] EXCEPT !.pc = "putClubs", !.consumers = list]
  <2>3. s \in CliStates
    BY <2>2 DEF CliStates
  <2>4. s.reg = cli[o].reg
    BY <2>2 DEF CliStates
  <2>a. Continue(o, s)
    BY <2>1
  <2>b. begun \subseteq begun' /\ s.reg \in begun'
    BY <2>2, <2>4
  <2> HIDE DEF s
  <2>5. /\ cli' \in [Operators -> CliStates]
        /\ \A p \in Busy' : cli'[p].reg \in begun'
    BY <2>a, <2>b, <2>3, ContinueType
  <2>6. failures' \in Nat /\ misread' \in BOOLEAN
    BY <2>1, CountType DEF TypeOK
  <2> QED
    BY <1>4, <2>5, <2>6 DEF readConsumers, TypeOK, lists, wiring, lambda
<1>5. ASSUME NEW o \in Operators,
             PutClubs(o) \/ PutConsumers(o) \/ upsertClubStub(o) \/ PutRule(o)
      PROVE  TypeOK'
  <2>1. /\ cli[o] \in CliStates
        /\ cli[o].reg \in begun
        /\ cli[o].reg.club \in Clubs
        /\ cli[o].reg.consumer \in Consumers
    BY <1>5, BusyReg DEF PutClubs, PutConsumers, upsertClubStub, PutRule
  <2>2. PICK pc \in {"putConsumers", "stub", "putRule", "putTargets"} :
          Continue(o, [cli[o] EXCEPT !.pc = pc])
    BY <1>5 DEF PutClubs, PutConsumers, upsertClubStub, PutRule
  <2>3. begun' = begun
    BY <1>5 DEF PutClubs, PutConsumers, upsertClubStub, PutRule, history
  <2> DEFINE s == [cli[o] EXCEPT !.pc = pc]
  <2>4. s \in CliStates
    BY <2>1 DEF CliStates
  <2>5. s.reg = cli[o].reg
    BY <2>1 DEF CliStates
  <2>a. Continue(o, s)
    BY <2>2
  <2>b. begun \subseteq begun' /\ s.reg \in begun'
    BY <2>1, <2>3, <2>5
  <2> HIDE DEF s
  <2>6. /\ cli' \in [Operators -> CliStates]
        /\ \A p \in Busy' : cli'[p].reg \in begun'
    BY <2>a, <2>b, <2>4, ContinueType
  <2>7. CASE PutClubs(o)
    <3>1. clubs' \in [Clubs -> SUBSET Consumers]
      BY <2>1, <2>7 DEF PutClubs, CliStates
    <3> QED
      BY <2>6, <2>7, <3>1 DEF PutClubs, TypeOK, wiring, lambda, history
  <2>8. CASE PutConsumers(o)
    <3>1. consumers' \in [Consumers -> Accounts \cup {Absent}]
      BY <2>1, <2>8 DEF PutConsumers, CliStates
    <3> QED
      BY <2>6, <2>8, <3>1 DEF PutConsumers, TypeOK, wiring, lambda, history
  <2>9. CASE upsertClubStub(o)
    BY <2>1, <2>6, <2>9 DEF upsertClubStub, TypeOK, lists, wiring, lambda, history
  <2>10. CASE PutRule(o)
    <3>1. rules' \in [Consumers -> SUBSET Clubs]
      BY <2>1, <2>10 DEF PutRule, TypeOK, clubUuidsForConsumer
    <3> QED
      BY <2>6, <2>10, <3>1 DEF PutRule, TypeOK, lists, lambda, history
  <2> QED
    BY <1>5, <2>7, <2>8, <2>9, <2>10
<1>6. ASSUME NEW o \in Operators, PutTargets(o) PROVE TypeOK'
  <2>1. cli[o].reg \in Registrations /\ cli[o].reg.account \in Accounts
    BY <1>6, BusyReg DEF PutTargets
  <2>2. begun' = begun /\ Continue(o, IdleCli)
    BY <1>6 DEF PutTargets
  <2>3. /\ cli' \in [Operators -> CliStates]
        /\ \A p \in Busy' : cli'[p].reg \in begun'
    BY <2>2, IdleType, ContinueType
  <2>4. /\ targets' \in [Consumers -> Accounts \cup {Absent}]
        /\ completedAt' \in [Registrations -> Nat \cup {Absent}]
    BY <1>6, <2>1 DEF PutTargets, TypeOK
  <2> QED
    BY <1>6, <2>3, <2>4 DEF PutTargets, TypeOK, lists, lambda
<1>7. ASSUME NEW o \in Operators, Stops(o) PROVE TypeOK'
  <2>1. begun' = begun /\ Continue(o, IdleCli) /\ Count(FALSE)
    BY <1>7 DEF Stops, history
  <2>2. /\ cli' \in [Operators -> CliStates]
        /\ \A p \in Busy' : cli'[p].reg \in begun'
    BY <2>1, IdleType, ContinueType
  <2>3. failures' \in Nat
    BY <2>1, CountType DEF TypeOK
  <2> QED
    BY <1>7, <2>2, <2>3 DEF Stops, TypeOK, lists, wiring, lambda, history
<1>8. CASE Tick
  BY <1>8 DEF Tick, TypeOK, Busy, lists, wiring, lambda, history
<1>9. CASE loadProviderRuntimeConfig
  <2>1. /\ cache' \in [loadedAt : Nat, clubs : SUBSET Clubs, readable : BOOLEAN]
        /\ failures' \in Nat
    <3>1. CASE Cached /\ cache' = AfterHit /\ UNCHANGED failures
      BY <3>1 DEF Cached, AfterHit, TypeOK
    <3>2. ASSUME NEW ok \in Answers,
                 cache' = [loadedAt |-> now,
                           clubs    |-> IF ok THEN {c \in Clubs : clubs[c] # {}} ELSE {},
                           readable |-> ok],
                 Count(ok)
          PROVE  /\ cache' \in [loadedAt : Nat, clubs : SUBSET Clubs, readable : BOOLEAN]
                 /\ failures' \in Nat
      <4>1. ok \in BOOLEAN
        BY DEF Answers
      <4> QED
        BY <3>2, <4>1, CountType DEF TypeOK
    <3> QED
      BY <1>9, <3>1, <3>2 DEF loadProviderRuntimeConfig
  <2>2. run' \in [at : Nat, clubs : SUBSET Clubs, readable : BOOLEAN]
    BY <1>9, <2>1 DEF loadProviderRuntimeConfig, TypeOK
  <2> QED
    BY <1>9, <2>1, <2>2 DEF loadProviderRuntimeConfig, TypeOK, Busy, lists, wiring, history
<1>10. CASE UNCHANGED vars
  BY <1>10 DEF vars, TypeOK, Busy, lists, wiring, lambda, history
<1> QED
  BY <1>1, <1>2, <1>3, <1>4, <1>5, <1>6, <1>7, <1>8, <1>9, <1>10 DEF Next, registerConsumer

\* The model keeps to its types, and each registration in progress has begun.
THEOREM TypeCorrect == Spec => []TypeOK
  BY TypeInit, TypeNext, PTL DEF Spec

-----------------------------------------------------------------------------
(* OnlyOwnEvents: everything written was asked for.                        *)

Asked(c, k) == \E s \in begun : s.club = c /\ s.consumer = k

Given(k, x) == \E r \in begun : r.consumer = k /\ r.account = x

OwnedInSsm == \A c \in Clubs : \A k \in clubs[c] : Asked(c, k)

OwnedInHand == \A o \in Operators : \A c \in Clubs : \A k \in cli[o].clubs[c] : Asked(c, k)

OwnedRules == \A k \in Consumers : \A c \in rules[k] : Asked(c, k)

OwnedTargets == \A k \in Consumers : targets[k] # Absent => Given(k, targets[k])

Owned == OwnedInSsm /\ OwnedInHand /\ OwnedRules /\ OwnedTargets

LEMMA OwnedInit == Init => Owned
  BY DEF Init, Owned, OwnedInSsm, OwnedInHand, OwnedRules, OwnedTargets,
         IdleCli, NoClubs, NoConsumers

\* What was asked for stays asked for.
LEMMA OwnedStays ==
    ASSUME TypeOK, Owned, begun \subseteq begun'
    PROVE  /\ clubs' = clubs => OwnedInSsm'
           /\ rules' = rules => OwnedRules'
           /\ targets' = targets => OwnedTargets'
           /\ cli' = cli => OwnedInHand'
<1>1. \A c, k : Asked(c, k) => Asked(c, k)'
  BY DEF Asked
<1>2. \A k, x : Given(k, x) => Given(k, x)'
  BY DEF Given
<1>3. ASSUME clubs' = clubs PROVE OwnedInSsm'
  BY <1>1, <1>3 DEF Owned, OwnedInSsm
<1>4. ASSUME rules' = rules PROVE OwnedRules'
  BY <1>1, <1>4 DEF Owned, OwnedRules
<1>5. ASSUME targets' = targets PROVE OwnedTargets'
  BY <1>2, <1>5 DEF Owned, OwnedTargets
<1>6. ASSUME cli' = cli PROVE OwnedInHand'
  BY <1>1, <1>6 DEF Owned, OwnedInHand
<1> QED
  BY <1>3, <1>4, <1>5, <1>6

\* A registration whose list in hand was asked for takes the place of another.
LEMMA OwnedContinue ==
    ASSUME TypeOK, Owned, begun \subseteq begun', NEW o \in Operators, NEW s,
           Continue(o, s),
           \A c \in Clubs : \A k \in s.clubs[c] : Asked(c, k)'
    PROVE  OwnedInHand'
<1>1. cli' = [cli EXCEPT ![o] = s]
  BY DEF Continue
<1> SUFFICES ASSUME NEW p \in Operators, NEW c \in Clubs, NEW k \in cli'[p].clubs[c]
             PROVE  Asked(c, k)'
  BY DEF OwnedInHand
<1>2. CASE p = o
  BY <1>1, <1>2 DEF TypeOK
<1>3. CASE p # o
  <2>1. cli'[p] = cli[p]
    BY <1>1, <1>3 DEF TypeOK
  <2>2. Asked(c, k)
    BY <2>1 DEF Owned, OwnedInHand
  <2> QED
    BY <2>2 DEF Asked
<1> QED
  BY <1>2, <1>3

\* The same, if the list in hand is the one it had before.
LEMMA OwnedSameHand ==
    ASSUME TypeOK, Owned, begun' = begun, NEW o \in Operators, NEW s,
           Continue(o, s), s.clubs \in {cli[o].clubs, NoClubs}
    PROVE  OwnedInHand'
<1>1. ASSUME NEW c \in Clubs, NEW k \in s.clubs[c] PROVE Asked(c, k)'
  <2>1. s.clubs = cli[o].clubs
    BY <1>1 DEF NoClubs
  <2>2. Asked(c, k)
    BY <1>1, <2>1 DEF Owned, OwnedInHand
  <2> QED
    BY <2>2 DEF Asked
<1> QED
  BY <1>1, OwnedContinue

LEMMA OwnedNext == TypeOK /\ Owned /\ [Next]_vars => Owned'
<1> SUFFICES ASSUME TypeOK, Owned, [Next]_vars PROVE Owned'
  OBVIOUS
<1>1. ASSUME NEW c \in Clubs, IndexClub(c) PROVE Owned'
  BY <1>1, OwnedStays DEF IndexClub, Owned, lists, wiring, history
<1>2. ASSUME NEW o \in Operators, NEW q \in Requests, resolveClub(o, q) PROVE Owned'
  <2>1. PICK r \in Registrations :
          /\ Continue(o, [IdleCli EXCEPT !.pc = "readClubs", !.reg = r])
          /\ begun' = begun \cup {r}
    BY <1>2, ResolvedReg
  <2> DEFINE s == [IdleCli EXCEPT !.pc = "readClubs", !.reg = r]
  <2>2. Continue(o, s)
    BY <2>1
  <2>3. s.clubs = NoClubs
    BY DEF IdleCli
  <2> HIDE DEF s
  <2>4. OwnedInHand'
    BY <2>1, <2>2, <2>3, OwnedContinue DEF NoClubs
  <2> QED
    BY <1>2, <2>1, <2>4, OwnedStays DEF resolveClub, Owned, lists, wiring
<1>3. ASSUME NEW o \in Operators, readClubs(o) PROVE Owned'
  <2> DEFINE r == cli[o].reg
  <2>1. PICK ok \in BOOLEAN :
          LET list == [(IF ok THEN clubs ELSE NoClubs) EXCEPT ![r.club] = @ \cup {r.consumer}]
          IN  Continue(o, [cli[o] EXCEPT !.pc = "readConsumers", !.clubs = list])
    BY <1>3, ReadClubs
  <2> DEFINE list == [(IF ok THEN clubs ELSE NoClubs) EXCEPT ![r.club] = @ \cup {r.consumer}]
             s == [cli[o] EXCEPT !.pc = "readConsumers", !.clubs = list]
  <2>2. begun' = begun /\ cli[o] \in CliStates /\ r \in begun
    BY <1>3, BusyReg DEF readClubs
  <2>3. s.clubs = list
    BY <2>2 DEF CliStates
  <2>4. ASSUME NEW c \in Clubs, NEW k \in list[c] PROVE Asked(c, k)'
    <3>1. k \in clubs[c] \/ (c = r.club /\ k = r.consumer)
      BY <2>4 DEF TypeOK, NoClubs
    <3> QED
      BY <2>2, <3>1 DEF Asked, Owned, OwnedInSsm
  <2>5. Continue(o, s)
    BY <2>1
  <2> HIDE DEF s, list
  <2>6. OwnedInHand'
    BY <2>2, <2>3, <2>4, <2>5, OwnedContinue
  <2> QED
    BY <1>3, <2>6, OwnedStays DEF readClubs, Owned, lists, wiring
<1>4. ASSUME NEW o \in Operators, NEW s, Continue(o, s), begun' = begun,
             s.clubs \in {cli[o].clubs, NoClubs},
             UNCHANGED <<clubs, rules, targets>>
      PROVE  Owned'
  BY <1>4, OwnedSameHand, OwnedStays DEF Owned
<1>5. ASSUME NEW o \in Operators, readConsumers(o) PROVE Owned'
  <2>1. PICK list \in [Consumers -> Accounts \cup {Absent}] :
          Continue(o, [cli[o] EXCEPT !.pc = "putClubs", !.consumers = list])
    BY <1>5, ReadConsumers
  <2> DEFINE s == [cli[o] EXCEPT !.pc = "putClubs", !.consumers = list]
  <2>2. s.clubs = cli[o].clubs
    BY <1>5, BusyReg DEF readConsumers, CliStates
  <2>3. Continue(o, s)
    BY <2>1
  <2> HIDE DEF s
  <2> QED
    BY <1>4, <1>5, <2>2, <2>3 DEF readConsumers, lists, wiring
<1>6. ASSUME NEW o \in Operators,
             PutClubs(o) \/ PutConsumers(o) \/ upsertClubStub(o) \/ PutRule(o)
      PROVE  Owned'
  <2>1. PICK pc \in {"putConsumers", "stub", "putRule", "putTargets"} :
          Continue(o, [cli[o] EXCEPT !.pc = pc])
    BY <1>6 DEF PutClubs, PutConsumers, upsertClubStub, PutRule
  <2> DEFINE s == [cli[o] EXCEPT !.pc = pc]
  <2>2. s.clubs = cli[o].clubs /\ cli[o].reg.consumer \in Consumers
    BY <1>6, BusyReg DEF PutClubs, PutConsumers, upsertClubStub, PutRule, CliStates
  <2>3. Continue(o, s)
    BY <2>1
  <2> HIDE DEF s
  <2>4. begun' = begun
    BY <1>6 DEF PutClubs, PutConsumers, upsertClubStub, PutRule, history
  <2>5. OwnedInHand'
    BY <2>2, <2>3, <2>4, OwnedSameHand
  <2>6. CASE PutClubs(o)
    <3>1. OwnedInSsm'
      BY <2>4, <2>6 DEF PutClubs, Owned, OwnedInHand, OwnedInSsm, Asked
    <3> QED
      BY <2>4, <2>5, <2>6, <3>1, OwnedStays DEF PutClubs, Owned, wiring
  <2>7. CASE PutConsumers(o) \/ upsertClubStub(o)
    BY <2>4, <2>5, <2>7, OwnedStays DEF PutConsumers, upsertClubStub, Owned, lists, wiring
  <2>8. CASE PutRule(o)
    <3>1. OwnedRules'
      BY <2>2, <2>4, <2>8
         DEF PutRule, Owned, OwnedInHand, OwnedRules, Asked, clubUuidsForConsumer, TypeOK
    <3> QED
      BY <2>4, <2>5, <2>8, <3>1, OwnedStays DEF PutRule, Owned, lists
  <2> QED
    BY <1>6, <2>6, <2>7, <2>8
<1>7. ASSUME NEW o \in Operators, PutTargets(o) PROVE Owned'
  <2>1. /\ begun' = begun
        /\ Continue(o, IdleCli)
        /\ IdleCli.clubs = NoClubs
        /\ UNCHANGED <<clubs, rules>>
    BY <1>7 DEF PutTargets, IdleCli, lists
  <2>2. OwnedInHand'
    BY <2>1, OwnedSameHand
  <2>3. cli[o].reg \in begun /\ cli[o].reg.consumer \in Consumers
    BY <1>7, BusyReg DEF PutTargets
  <2>4. OwnedTargets'
    BY <1>7, <2>1, <2>3 DEF PutTargets, Owned, OwnedTargets, Given, TypeOK
  <2> QED
    BY <2>1, <2>2, <2>4, OwnedStays DEF Owned
<1>8. ASSUME NEW o \in Operators, Stops(o) PROVE Owned'
  <2>1. IdleCli.clubs = NoClubs
    BY DEF IdleCli
  <2> QED
    BY <1>4, <1>8, <2>1 DEF Stops, lists, wiring, history
<1>9. CASE Tick
  BY <1>9, OwnedStays DEF Tick, Owned, lists, wiring, history
<1>10. CASE loadProviderRuntimeConfig
  BY <1>10, OwnedStays DEF loadProviderRuntimeConfig, Owned, lists, wiring, history
<1>11. CASE UNCHANGED vars
  BY <1>11, OwnedStays DEF vars, Owned, lists, wiring, history
<1> QED
  BY <1>1, <1>2, <1>3, <1>5, <1>6, <1>7, <1>8, <1>9, <1>10, <1>11 DEF Next, registerConsumer

LEMMA OwnedSuffices == TypeOK /\ Owned => OnlyOwnEvents
<1> SUFFICES ASSUME TypeOK, Owned, NEW e \in Events, NEW x \in Queues(e)
             PROVE  \E r, s \in begun :
                       /\ r.consumer = s.consumer
                       /\ r.account = x
                       /\ s.club \in eventBridgeDetail(e)
  BY DEF OnlyOwnEvents
<1>1. PICK k \in Consumers : rules[k] \cap eventBridgeDetail(e) # {} /\ targets[k] = x /\ x # Absent
  BY DEF Queues, MatchedBy
<1>2. PICK c \in rules[k] : c \in eventBridgeDetail(e)
  BY <1>1
<1>3. Asked(c, k) /\ Given(k, x)
  BY <1>1, <1>2 DEF Owned, OwnedRules, OwnedTargets
<1> QED
  BY <1>2, <1>3 DEF Asked, Given

\* A queue receives only events about clubs its consumer id was registered for,
\* however many operators overwrite each other's lists or stop half-way.
THEOREM OnlyOwn == Spec => []OnlyOwnEvents
<1>1. TypeOK /\ Owned /\ [Next]_vars => (TypeOK /\ Owned)'
  BY TypeNext, OwnedNext
<1> QED
  BY <1>1, TypeInit, OwnedInit, OwnedSuffices, PTL DEF Spec

-----------------------------------------------------------------------------
(* CompletedServed and KnownToRuns: what was completed stays listed, ruled *)
(* and targeted, and each list in hand extends the one in SSM.             *)

Undisturbed == ~overlapped /\ ~misread

Alone == \A o, p \in Busy : o = p

\* From where on a registration has the lists in hand, has saved them.
HasList(o) == cli[o].pc \notin {"idle", "readClubs"}

HasSaved(o) == cli[o].pc \in {"putConsumers", "stub", "putRule", "putTargets"}

InHand(o, c) == clubs[c] \subseteq cli[o].clubs[c]

OwnInHand(o) == cli[o].reg.consumer \in cli[o].clubs[cli[o].reg.club]

OwnInSsm(o) == cli[o].reg.consumer \in clubs[cli[o].reg.club]

OwnInRule(o) == cli[o].reg.club \in rules[cli[o].reg.consumer]

HandExtends == \A o \in Operators : HasList(o) => OwnInHand(o) /\ \A c \in Clubs : InHand(o, c)

Saved == \A o \in Operators : HasSaved(o) => OwnInSsm(o)

RuleSet == \A o \in Operators : cli[o].pc = "putTargets" => OwnInRule(o)

Listed == \A r \in Completed : r.consumer \in clubs[r.club]

Ruled == \A r \in Completed : r.club \in rules[r.consumer]

Kept == Alone /\ HandExtends /\ Saved /\ RuleSet /\ Listed /\ Ruled

\* Disturbed or not, a target is the account of some registration of its consumer.
Targeted == \A r \in Completed : ~Superseded(r) => targets[r.consumer] = r.account

\* A configuration loaded after a registration was completed has its club.
CacheKnows ==
    cache # Absent =>
        /\ cache.loadedAt <= now
        /\ Undisturbed /\ cache.readable =>
              \A r \in Completed : completedAt[r] < cache.loadedAt => r.club \in cache.clubs

\* Nothing in the history or in a run lies in the future.
NotAhead ==
    /\ \A r \in Completed : completedAt[r] <= now
    /\ run # Absent => run.at <= now

KeptIfUndisturbed == Undisturbed => Kept

Sound == KeptIfUndisturbed /\ Targeted /\ CacheKnows /\ NotAhead /\ KnownToRuns

LEMMA SoundInit == Init => Sound
  BY DEF Init, Sound, KeptIfUndisturbed, Kept, Alone, Busy, HandExtends, Saved, RuleSet,
         Listed, Ruled, Targeted, CacheKnows, NotAhead, KnownToRuns, Completed,
         HasList, HasSaved, IdleCli

\* Where nobody else is busy, what the one registration holds is all there is.
LEMMA SoleKept ==
    ASSUME TypeOK, NEW o \in Operators, NEW s \in CliStates,
           Busy \subseteq {o}, Continue(o, s),
           s.pc \notin {"idle", "readClubs"} =>
                /\ s.reg.consumer \in s.clubs[s.reg.club]
                /\ \A c \in Clubs : clubs'[c] \subseteq s.clubs[c],
           s.pc \in {"putConsumers", "stub", "putRule", "putTargets"} =>
                s.reg.consumer \in clubs'[s.reg.club],
           s.pc = "putTargets" => s.reg.club \in rules'[s.reg.consumer]
    PROVE  (Alone /\ HandExtends /\ Saved /\ RuleSet)'
<1>1. cli' = [cli EXCEPT ![o] = s] /\ cli'[o] = s
  BY DEF Continue, TypeOK
<1>2. \A p \in Operators : p # o => cli'[p].pc = "idle"
  BY <1>1 DEF TypeOK, Busy
<1>3. Alone'
  BY <1>2 DEF Alone, Busy
<1>4. HandExtends'
  BY <1>1, <1>2 DEF HandExtends, HasList, OwnInHand, InHand
<1>5. Saved'
  BY <1>1, <1>2 DEF Saved, HasSaved, OwnInSsm
<1>6. RuleSet'
  BY <1>1, <1>2 DEF RuleSet, OwnInRule
<1> QED
  BY <1>3, <1>4, <1>5, <1>6

\* The end of a registration, normal or not, leaves nothing in hand.
LEMMA SoleIdle ==
    ASSUME TypeOK, NEW o \in Operators, Busy \subseteq {o}, Continue(o, IdleCli)
    PROVE  (Alone /\ HandExtends /\ Saved /\ RuleSet)'
<1> DEFINE s == IdleCli
<1>1. s \in CliStates /\ s.pc = "idle" /\ Continue(o, s)
  BY IdleType
<1> HIDE DEF s
<1> QED
  BY <1>1, SoleKept

\* If nothing of a registration changes, neither does what is kept.
LEMMA KeptStays ==
    ASSUME Kept, UNCHANGED <<clubs, rules, cli, completedAt>>
    PROVE  Kept'
  BY DEF Kept, Alone, Busy, HandExtends, Saved, RuleSet, Listed, Ruled, Completed,
         HasList, HasSaved, OwnInHand, InHand, OwnInSsm, OwnInRule

\* The list that was read gains the club's consumer; the rest is as it was stored.
LEMMA KeptReadClubs ==
    ASSUME TypeOK, Undisturbed', Kept, NEW o \in Operators, readClubs(o)
    PROVE  Kept'
<1> DEFINE r == cli[o].reg
<1>1. /\ cli[o] \in CliStates
      /\ r \in Registrations
      /\ r.club \in Clubs
      /\ r.consumer \in Consumers
      /\ Busy \subseteq {o}
  BY BusyReg DEF readClubs, Kept, Alone, Busy
<1>2. PICK ok \in BOOLEAN :
        LET list == [(IF ok THEN clubs ELSE NoClubs) EXCEPT ![r.club] = @ \cup {r.consumer}]
        IN  /\ Continue(o, [cli[o] EXCEPT !.pc = "readConsumers", !.clubs = list])
            /\ list \in [Clubs -> SUBSET Consumers]
            /\ misread' = (misread \/ ~ok)
  BY ReadClubs
<1>3. ok
  BY <1>2 DEF Undisturbed
<1> DEFINE list == [(IF ok THEN clubs ELSE NoClubs) EXCEPT ![r.club] = @ \cup {r.consumer}]
           s    == [cli[o] EXCEPT !.pc = "readConsumers", !.clubs = list]
<1>4. r.consumer \in list[r.club] /\ \A c \in Clubs : clubs[c] \subseteq list[c]
  BY <1>1, <1>3 DEF TypeOK
<1>5. /\ s \in CliStates
      /\ s.pc = "readConsumers"
      /\ s.reg = r
      /\ s.clubs = list
  BY <1>1, <1>2 DEF CliStates
<1>6. Continue(o, s) /\ clubs' = clubs
  BY <1>2 DEF readClubs, lists
<1> HIDE DEF s, list
<1>7. (Alone /\ HandExtends /\ Saved /\ RuleSet)'
  BY <1>1, <1>4, <1>5, <1>6, SoleKept
<1> QED
  BY <1>7 DEF readClubs, lists, wiring, Kept, Listed, Ruled, Completed

\* The steps that go on with the list in hand.
LEMMA KeptGoesOn ==
    ASSUME TypeOK, Kept, NEW o \in Operators, NEW s \in CliStates, Continue(o, s),
           HasList(o), s.reg = cli[o].reg, s.clubs = cli[o].clubs,
           s.pc \in {"putClubs", "stub", "putRule"},
           s.pc \in {"stub", "putRule"} => HasSaved(o),
           UNCHANGED <<clubs, rules, completedAt>>
    PROVE  Kept'
<1>1. Busy \subseteq {o}
  BY DEF Kept, Alone, Busy, HasList
<1>2. /\ OwnInHand(o)
      /\ \A c \in Clubs : InHand(o, c)
      /\ HasSaved(o) => OwnInSsm(o)
  BY DEF Kept, HandExtends, Saved
<1>3. s.reg.consumer \in s.clubs[s.reg.club] /\ \A c \in Clubs : clubs'[c] \subseteq s.clubs[c]
  BY <1>2 DEF OwnInHand, InHand
<1>4. s.pc \in {"stub", "putRule"} => s.reg.consumer \in clubs'[s.reg.club]
  BY <1>2 DEF OwnInSsm
<1>5. (Alone /\ HandExtends /\ Saved /\ RuleSet)'
  BY <1>1, <1>3, <1>4, SoleKept
<1> QED
  BY <1>5 DEF Kept, Listed, Ruled, Completed

\* What is written back extends what was stored.
LEMMA KeptPutClubs ==
    ASSUME TypeOK, Kept, NEW o \in Operators, PutClubs(o)
    PROVE  Kept'
<1>1. Busy \subseteq {o} /\ HasList(o) /\ cli[o] \in CliStates
  BY BusyReg DEF PutClubs, Kept, Alone, Busy, HasList
<1>2. OwnInHand(o) /\ \A c \in Clubs : InHand(o, c)
  BY <1>1 DEF Kept, HandExtends
<1> DEFINE s == [cli[o] EXCEPT !.pc = "putConsumers"]
<1>3. /\ s \in CliStates
      /\ s.pc = "putConsumers"
      /\ s.reg = cli[o].reg
      /\ s.clubs = cli[o].clubs
  BY <1>1 DEF CliStates
<1>4. Continue(o, s) /\ clubs' = s.clubs
  BY <1>3 DEF PutClubs
<1> HIDE DEF s
<1>5. (Alone /\ HandExtends /\ Saved /\ RuleSet)'
  BY <1>1, <1>2, <1>3, <1>4, SoleKept DEF OwnInHand
<1>6. Listed'
  BY <1>2, <1>3, <1>4
     DEF PutClubs, history, Kept, Listed, Completed, InHand, Registrations
<1> QED
  BY <1>5, <1>6 DEF PutClubs, history, wiring, Kept, Ruled, Completed

\* The new pattern has the club at hand and all that were completed.
LEMMA KeptPutRule ==
    ASSUME TypeOK, Kept, NEW o \in Operators, PutRule(o)
    PROVE  Kept'
<1> DEFINE k == cli[o].reg.consumer
<1>1. /\ Busy \subseteq {o}
      /\ HasList(o) /\ HasSaved(o)
      /\ cli[o] \in CliStates
      /\ k \in Consumers
      /\ cli[o].reg.club \in Clubs
  BY BusyReg DEF PutRule, Kept, Alone, Busy, HasList, HasSaved
<1>2. OwnInHand(o) /\ OwnInSsm(o) /\ \A c \in Clubs : InHand(o, c)
  BY <1>1 DEF Kept, HandExtends, Saved
<1> DEFINE s == [cli[o] EXCEPT !.pc = "putTargets"]
<1>3. /\ s \in CliStates
      /\ s.pc = "putTargets"
      /\ s.reg = cli[o].reg
      /\ s.clubs = cli[o].clubs
  BY <1>1 DEF CliStates
<1>4. Continue(o, s) /\ clubs' = clubs /\ completedAt' = completedAt
  BY DEF PutRule, lists, history
<1>5. /\ rules'[k] = {c \in Clubs : k \in cli[o].clubs[c]}
      /\ \A j \in Consumers : j # k => rules'[j] = rules[j]
  BY <1>1 DEF PutRule, TypeOK, clubUuidsForConsumer
<1>6. cli[o].reg.club \in rules'[k]
  BY <1>1, <1>2, <1>5 DEF OwnInHand
<1> HIDE DEF s
<1>7. (Alone /\ HandExtends /\ Saved /\ RuleSet)'
  BY <1>1, <1>2, <1>3, <1>4, <1>6, SoleKept DEF OwnInHand, OwnInSsm, InHand
<1>8. Ruled'
  <2> SUFFICES ASSUME NEW r \in Completed PROVE r.club \in rules'[r.consumer]
    BY <1>4 DEF Ruled, Completed
  <2>1. r.club \in Clubs /\ r.consumer \in Consumers
    BY DEF Completed, Registrations
  <2>2. r.consumer \in clubs[r.club] /\ r.club \in rules[r.consumer]
    BY DEF Kept, Listed, Ruled
  <2>3. r.consumer \in cli[o].clubs[r.club]
    BY <1>2, <2>1, <2>2 DEF InHand
  <2> QED
    BY <1>5, <2>1, <2>2, <2>3
<1> QED
  BY <1>4, <1>7, <1>8 DEF Kept, Listed, Completed

\* What a registration has saved and ruled is now completed.
LEMMA KeptPutTargets ==
    ASSUME TypeOK, Kept, NEW o \in Operators, PutTargets(o)
    PROVE  Kept'
<1> DEFINE r == cli[o].reg
<1>1. Busy \subseteq {o} /\ HasSaved(o) /\ r \in Registrations
  BY BusyReg DEF PutTargets, Kept, Alone, Busy, HasSaved
<1>2. OwnInSsm(o) /\ OwnInRule(o)
  BY <1>1 DEF PutTargets, Kept, Saved, RuleSet
<1>3. Completed' \subseteq Completed \cup {r}
  BY <1>1 DEF PutTargets, Completed, TypeOK
<1>4. UNCHANGED <<clubs, rules>> /\ Continue(o, IdleCli)
  BY DEF PutTargets, lists
<1>5. (Alone /\ HandExtends /\ Saved /\ RuleSet)'
  BY <1>1, <1>4, SoleIdle
<1>6. Listed' /\ Ruled'
  BY <1>2, <1>3, <1>4 DEF Kept, Listed, Ruled, OwnInSsm, OwnInRule
<1> QED
  BY <1>5, <1>6 DEF Kept

\* The history of overlaps and misread lists is never forgotten.
LEMMA UndisturbedBefore == [Next]_vars /\ Undisturbed' => Undisturbed
<1>1. [Next]_vars /\ overlapped => overlapped'
  BY DEF Next, vars, registerConsumer, IndexClub, resolveClub, readClubs, readConsumers,
         PutClubs, PutConsumers, upsertClubStub, PutRule, PutTargets, Stops, Tick,
         loadProviderRuntimeConfig, history
<1>2. [Next]_vars /\ misread => misread'
  BY DEF Next, vars, registerConsumer, IndexClub, resolveClub, readClubs, readConsumers,
         PutClubs, PutConsumers, upsertClubStub, PutRule, PutTargets, Stops, Tick,
         loadProviderRuntimeConfig, history
<1> QED
  BY <1>1, <1>2 DEF Undisturbed

LEMMA KeptNext == TypeOK /\ KeptIfUndisturbed /\ [Next]_vars => KeptIfUndisturbed'
<1> SUFFICES ASSUME TypeOK, KeptIfUndisturbed, [Next]_vars, Undisturbed' PROVE Kept'
  BY DEF KeptIfUndisturbed
<1>1. Undisturbed /\ Kept
  BY UndisturbedBefore DEF KeptIfUndisturbed
<1>2. ASSUME NEW c \in Clubs, IndexClub(c) PROVE Kept'
  BY <1>1, <1>2, KeptStays DEF IndexClub, lists, wiring, history
<1>3. ASSUME NEW o \in Operators, NEW q \in Requests, resolveClub(o, q) PROVE Kept'
  <2>1. PICK r \in Registrations :
          Continue(o, [IdleCli EXCEPT !.pc = "readClubs", !.reg = r])
    BY <1>3, ResolvedReg
  <2> DEFINE s == [IdleCli EXCEPT !.pc = "readClubs", !.reg = r]
  <2>2. s \in CliStates /\ s.pc = "readClubs" /\ Continue(o, s)
    BY <2>1, IdleType DEF CliStates
  <2>3. Busy \subseteq {o}
    BY <1>3 DEF resolveClub, Undisturbed
  <2> HIDE DEF s
  <2>4. (Alone /\ HandExtends /\ Saved /\ RuleSet)'
    BY <2>2, <2>3, SoleKept
  <2> QED
    BY <1>1, <1>3, <2>4 DEF resolveClub, lists, wiring, Kept, Listed, Ruled, Completed
<1>4. ASSUME NEW o \in Operators, readClubs(o) PROVE Kept'
  BY <1>1, <1>4, KeptReadClubs
<1>5. ASSUME NEW o \in Operators, readConsumers(o) PROVE Kept'
  <2>1. PICK list \in [Consumers -> Accounts \cup {Absent}] :
          Continue(o, [cli[o] EXCEPT !.pc = "putClubs", !.consumers = list])
    BY <1>5, ReadConsumers
  <2> DEFINE s == [cli[o] EXCEPT !.pc = "putClubs", !.consumers = list]
  <2>2. cli[o] \in CliStates /\ HasList(o)
    BY <1>5, BusyReg DEF readConsumers, HasList
  <2>3. /\ s \in CliStates /\ Continue(o, s)
        /\ s.pc = "putClubs" /\ s.reg = cli[o].reg /\ s.clubs = cli[o].clubs
    BY <2>1, <2>2 DEF CliStates
  <2>4. UNCHANGED <<clubs, rules, completedAt>>
    BY <1>5 DEF readConsumers, lists, wiring
  <2> HIDE DEF s
  <2> QED
    BY <1>1, <2>2, <2>3, <2>4, KeptGoesOn
<1>6. ASSUME NEW o \in Operators, PutClubs(o) PROVE Kept'
  BY <1>1, <1>6, KeptPutClubs
<1>7. ASSUME NEW o \in Operators, PutConsumers(o) \/ upsertClubStub(o) PROVE Kept'
  <2>1. PICK pc \in {"stub", "putRule"} : Continue(o, [cli[o] EXCEPT !.pc = pc])
    BY <1>7 DEF PutConsumers, upsertClubStub
  <2> DEFINE s == [cli[o] EXCEPT !.pc = pc]
  <2>2. cli[o] \in CliStates /\ HasList(o) /\ HasSaved(o)
    BY <1>7, BusyReg DEF PutConsumers, upsertClubStub, HasList, HasSaved
  <2>3. /\ s \in CliStates /\ Continue(o, s)
        /\ s.pc = pc /\ s.reg = cli[o].reg /\ s.clubs = cli[o].clubs
    BY <2>1, <2>2 DEF CliStates
  <2>4. UNCHANGED <<clubs, rules, completedAt>>
    BY <1>7 DEF PutConsumers, upsertClubStub, lists, wiring, history
  <2> HIDE DEF s
  <2> QED
    BY <1>1, <2>2, <2>3, <2>4, KeptGoesOn
<1>8. ASSUME NEW o \in Operators, PutRule(o) PROVE Kept'
  BY <1>1, <1>8, KeptPutRule
<1>9. ASSUME NEW o \in Operators, PutTargets(o) PROVE Kept'
  BY <1>1, <1>9, KeptPutTargets
<1>10. ASSUME NEW o \in Operators, Stops(o) PROVE Kept'
  <2>1. Busy \subseteq {o} /\ Continue(o, IdleCli)
    BY <1>1, <1>10 DEF Stops, Kept, Alone
  <2>2. (Alone /\ HandExtends /\ Saved /\ RuleSet)'
    BY <2>1, SoleIdle
  <2> QED
    BY <1>1, <1>10, <2>2 DEF Stops, lists, wiring, history, Kept, Listed, Ruled, Completed
<1>11. CASE Tick \/ loadProviderRuntimeConfig \/ UNCHANGED vars
  BY <1>1, <1>11, KeptStays
     DEF Tick, loadProviderRuntimeConfig, vars, lists, wiring, history
<1> QED
  BY <1>2, <1>3, <1>4, <1>5, <1>6, <1>7, <1>8, <1>9, <1>10, <1>11 DEF Next, registerConsumer

-----------------------------------------------------------------------------
(* Targets, and what runs know.                                            *)

\* Only the last step of a registration touches what was completed, and targets.
LEMMA OthersComplete ==
    ASSUME [Next]_vars, \A o \in Operators : ~PutTargets(o)
    PROVE  UNCHANGED <<targets, completedAt>>
  BY DEF Next, vars, registerConsumer, IndexClub, resolveClub, readClubs, readConsumers,
         PutClubs, PutConsumers, upsertClubStub, PutRule, Stops, Tick,
         loadProviderRuntimeConfig, lists, wiring, history

LEMMA BegunGrows == [Next]_vars => begun \subseteq begun'
  BY DEF Next, vars, registerConsumer, IndexClub, resolveClub, readClubs, readConsumers,
         PutClubs, PutConsumers, upsertClubStub, PutRule, PutTargets, Stops, Tick,
         loadProviderRuntimeConfig, lists, wiring, history

\* The only other effect of PutTargets that matters here: one more is completed, now.
LEMMA CompletesOne ==
    ASSUME TypeOK, NEW o \in Operators, PutTargets(o)
    PROVE  /\ cli[o].reg \in begun
           /\ cli[o].reg \in Registrations
           /\ targets' = [targets EXCEPT ![cli[o].reg.consumer] = cli[o].reg.account]
           /\ begun' = begun
           /\ \A r \in Completed' : \/ r \in Completed /\ completedAt'[r] = completedAt[r]
                                    \/ r = cli[o].reg /\ completedAt'[r] = now
<1>1. cli[o].reg \in begun /\ cli[o].reg \in Registrations
  BY BusyReg DEF PutTargets
<1> QED
  BY <1>1 DEF PutTargets, Completed, TypeOK

LEMMA TargetedNext == TypeOK /\ Targeted /\ [Next]_vars => Targeted'
<1> SUFFICES ASSUME TypeOK, Targeted, [Next]_vars, NEW r \in Completed', ~Superseded(r)'
             PROVE  targets'[r.consumer] = r.account
  BY DEF Targeted
<1>1. ~Superseded(r)
  BY BegunGrows DEF Superseded
<1>2. ASSUME NEW o \in Operators, PutTargets(o) PROVE targets'[r.consumer] = r.account
  <2> DEFINE s == cli[o].reg
  <2>1. /\ s \in begun' /\ s \in Registrations
        /\ targets' = [targets EXCEPT ![s.consumer] = s.account]
        /\ r \in Completed \/ r = s
    BY <1>2, CompletesOne
  <2>2. s.consumer \in Consumers /\ r.consumer \in Consumers
    BY <2>1 DEF Registrations, Completed
  <2>3. CASE r.consumer = s.consumer
    <3>1. r.account = s.account
      BY <2>1, <2>3 DEF Superseded
    <3> QED
      BY <2>1, <2>2, <2>3, <3>1 DEF TypeOK
  <2>4. CASE r.consumer # s.consumer
    <3>1. r \in Completed /\ targets'[r.consumer] = targets[r.consumer]
      BY <2>1, <2>2, <2>4 DEF TypeOK
    <3> QED
      BY <1>1, <3>1 DEF Targeted
  <2> QED
    BY <2>3, <2>4
<1>3. ASSUME \A o \in Operators : ~PutTargets(o) PROVE targets'[r.consumer] = r.account
  <2>1. r \in Completed /\ targets' = targets
    BY <1>3, OthersComplete DEF Completed
  <2> QED
    BY <1>1, <2>1 DEF Targeted
<1> QED
  BY <1>2, <1>3

\* Times are numbers.
LEMMA CompletedTimes == TypeOK => \A r \in Completed : completedAt[r] \in Nat
  BY DEF TypeOK, Completed

KnowsInTime == CacheKnows /\ NotAhead /\ KnownToRuns

LEMMA KnowsNext ==
    TypeOK /\ KeptIfUndisturbed /\ KnowsInTime /\ [Next]_vars => KnowsInTime'
<1> SUFFICES ASSUME TypeOK, KeptIfUndisturbed, KnowsInTime, [Next]_vars PROVE KnowsInTime'
  OBVIOUS
<1>0. /\ now \in Nat
      /\ CacheTime \in Nat \ {0}
      /\ \A r \in Completed : completedAt[r] \in Nat
      /\ cache # Absent => cache.loadedAt \in Nat
      /\ run # Absent => run.at \in Nat
  BY CompletedTimes, RegistrationAssumption DEF TypeOK
<1>1. ASSUME NEW o \in Operators, PutTargets(o) PROVE KnowsInTime'
  <2>1. UNCHANGED <<now, cache, run, overlapped, misread>>
    BY <1>1 DEF PutTargets, lambda
  <2>2. ASSUME NEW r \in Completed'
        PROVE  \/ r \in Completed /\ completedAt'[r] = completedAt[r]
               \/ completedAt'[r] = now
    BY <1>1, CompletesOne
  <2>3. CacheKnows'
    <3> SUFFICES ASSUME cache # Absent
                 PROVE  /\ cache.loadedAt <= now
                        /\ Undisturbed /\ cache.readable =>
                              \A r \in Completed' :
                                  completedAt'[r] < cache.loadedAt => r.club \in cache.clubs
      BY <2>1 DEF CacheKnows, Undisturbed
    <3>1. cache.loadedAt <= now
      BY DEF KnowsInTime, CacheKnows
    <3>2. ASSUME Undisturbed, cache.readable, NEW r \in Completed',
                 completedAt'[r] < cache.loadedAt
          PROVE  r.club \in cache.clubs
      <4>1. r \in Completed /\ completedAt'[r] = completedAt[r]
        BY <1>0, <2>2, <3>1, <3>2
      <4> QED
        BY <3>2, <4>1 DEF KnowsInTime, CacheKnows
    <3> QED
      BY <3>1, <3>2
  <2>4. NotAhead'
    BY <1>0, <2>1, <2>2 DEF KnowsInTime, NotAhead
  <2>5. KnownToRuns'
    <3> SUFFICES ASSUME ~overlapped, ~misread, run # Absent, run.readable,
                        NEW r \in Completed', completedAt'[r] + CacheTime <= run.at
                 PROVE  r.club \in run.clubs
      BY <2>1 DEF KnownToRuns
    <3>1. run.at <= now
      BY DEF KnowsInTime, NotAhead
    <3>2. r \in Completed /\ completedAt'[r] = completedAt[r]
      BY <1>0, <2>2, <3>1
    <3> QED
      BY <3>2 DEF KnowsInTime, KnownToRuns
  <2> QED
    BY <2>3, <2>4, <2>5 DEF KnowsInTime
<1>2. CASE loadProviderRuntimeConfig
  <2>1. /\ UNCHANGED <<now, completedAt, overlapped, misread, clubs>>
        /\ Completed' = Completed
        /\ run' = [at |-> now, clubs |-> cache'.clubs, readable |-> cache'.readable]
    BY <1>2 DEF loadProviderRuntimeConfig, lists, history, Completed
  <2>2. /\ cache'.loadedAt \in Nat
        /\ cache'.loadedAt <= now
        /\ now - cache'.loadedAt < CacheTime
        /\ Undisturbed /\ cache'.readable =>
              \A r \in Completed : completedAt[r] < cache'.loadedAt => r.club \in cache'.clubs
    <3>1. CASE Cached /\ cache' = AfterHit
      BY <1>0, <3>1 DEF Cached, AfterHit, KnowsInTime, CacheKnows
    <3>2. ASSUME NEW ok \in Answers,
                 cache' = [loadedAt |-> now,
                           clubs    |-> IF ok THEN {c \in Clubs : clubs[c] # {}} ELSE {},
                           readable |-> ok]
          PROVE  /\ cache'.loadedAt = now
                 /\ Undisturbed /\ cache'.readable =>
                       \A r \in Completed : r.club \in cache'.clubs
      <4>1. cache'.loadedAt = now /\ cache'.readable = ok
        BY <3>2
      <4>2. ASSUME Undisturbed, ok, NEW r \in Completed PROVE r.club \in cache'.clubs
        <5>1. r.club \in Clubs /\ clubs[r.club] # {}
          BY <4>2 DEF KeptIfUndisturbed, Kept, Listed, Completed, Registrations
        <5> QED
          BY <3>2, <4>2, <5>1
      <4> QED
        BY <4>1, <4>2
    <3>3. \/ Cached /\ cache' = AfterHit
          \/ \E ok \in Answers :
                cache' = [loadedAt |-> now,
                          clubs    |-> IF ok THEN {c \in Clubs : clubs[c] # {}} ELSE {},
                          readable |-> ok]
      BY <1>2 DEF loadProviderRuntimeConfig
    <3> QED
      BY <1>0, <3>1, <3>2, <3>3
  <2>3. CacheKnows'
    BY <2>1, <2>2 DEF CacheKnows, Undisturbed
  <2>4. NotAhead'
    BY <1>0, <2>1 DEF KnowsInTime, NotAhead
  <2>5. KnownToRuns'
    <3> SUFFICES ASSUME ~overlapped, ~misread, cache'.readable,
                        NEW r \in Completed, completedAt[r] + CacheTime <= now
                 PROVE  r.club \in cache'.clubs
      BY <2>1 DEF KnownToRuns
    <3>1. completedAt[r] < cache'.loadedAt
      BY <1>0, <2>2
    <3> QED
      BY <2>2, <3>1 DEF Undisturbed
  <2> QED
    BY <2>3, <2>4, <2>5 DEF KnowsInTime
<1>3. ASSUME ~loadProviderRuntimeConfig, \A o \in Operators : ~PutTargets(o)
      PROVE  KnowsInTime'
  <2>1. UNCHANGED <<cache, run, completedAt>> /\ Completed' = Completed
    BY <1>3, OthersComplete
       DEF Next, vars, registerConsumer, IndexClub, resolveClub, readClubs, readConsumers,
           PutClubs, PutConsumers, upsertClubStub, PutRule, Stops, Tick, lambda, Completed
  <2>2. now' \in Nat /\ now <= now'
    <3>1. Tick \/ now' = now
      BY <1>3
         DEF Next, vars, registerConsumer, IndexClub, resolveClub, readClubs, readConsumers,
             PutClubs, PutConsumers, upsertClubStub, PutRule, Stops
    <3> QED
      BY <1>0, <3>1 DEF Tick
  <2>3. CacheKnows'
    BY <1>0, <2>1, <2>2, UndisturbedBefore DEF KnowsInTime, CacheKnows
  <2>4. NotAhead'
    BY <1>0, <2>1, <2>2 DEF KnowsInTime, NotAhead
  <2>5. KnownToRuns'
    BY <2>1, UndisturbedBefore DEF KnowsInTime, KnownToRuns, Undisturbed
  <2> QED
    BY <2>3, <2>4, <2>5 DEF KnowsInTime
<1> QED
  BY <1>1, <1>2, <1>3

LEMMA SoundNext == TypeOK /\ Sound /\ [Next]_vars => Sound'
  BY KeptNext, TargetedNext, KnowsNext DEF Sound, KnowsInTime

LEMMA SoundSuffices == TypeOK /\ Sound => CompletedServed /\ KnownToRuns
<1> SUFFICES ASSUME TypeOK, Sound PROVE CompletedServed
  BY DEF Sound
<1> SUFFICES ASSUME Undisturbed, NEW r \in Completed, NEW e \in Events,
                    ~Superseded(r), e.type # "status", r.club \in e.of \cup e.interested
             PROVE  r.account \in Queues(e)
  BY DEF CompletedServed, Undisturbed
<1>1. /\ r.consumer \in Consumers
      /\ r.account \in Accounts
      /\ r.account # Absent
  BY RegistrationAssumption DEF Completed, Registrations
<1>2. r.club \in rules[r.consumer] /\ targets[r.consumer] = r.account
  BY DEF Sound, KeptIfUndisturbed, Kept, Ruled, Targeted
<1>3. r.club \in eventBridgeDetail(e)
  BY DEF eventBridgeDetail, clubUuidsForEvent
<1>4. r.consumer \in MatchedBy(e)
  BY <1>1, <1>2, <1>3 DEF MatchedBy
<1> QED
  BY <1>1, <1>2, <1>4 DEF Queues

\* While no two registrations overlapped and lists could be read, every completed
\* registration that was not superseded has its queue served.
THEOREM Served == Spec => []CompletedServed
<1>1. TypeOK /\ Sound /\ [Next]_vars => (TypeOK /\ Sound)'
  BY TypeNext, SoundNext
<1>2. TypeOK /\ Sound => CompletedServed
  BY SoundSuffices
<1> QED
  BY <1>1, <1>2, TypeInit, SoundInit, PTL DEF Spec

\* A run that starts CacheTime after a registration was completed knows its club.
THEOREM KnownInTime == Spec => []KnownToRuns
<1>1. TypeOK /\ Sound /\ [Next]_vars => (TypeOK /\ Sound)'
  BY TypeNext, SoundNext
<1>2. TypeOK /\ Sound => KnownToRuns
  BY SoundSuffices
<1> QED
  BY <1>1, <1>2, TypeInit, SoundInit, PTL DEF Spec

=============================================================================
