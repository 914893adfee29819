------------------------- MODULE MatchWindowProofs --------------------------
(***************************************************************************)
(* Proofs about MatchWindow: what decideBlock promises over time, for every *)
(* clock, every kickoff and every policy whose result windows end within   *)
(* the active window.                                                      *)
(***************************************************************************)
EXTENDS MatchWindow, TLAPS

\* The policy schema does not ask for it; the default policy satisfies it.
WindowsNested == RecentlyFinished <= ActiveUntil /\ SettledAfter <= ActiveUntil

LEMMA DivMonotone ==
    ASSUME NEW a \in Int, NEW b \in Int, a <= b, NEW d \in Nat \ {0}
    PROVE  a \div d <= b \div d
  OBVIOUS

LEMMA DivNat ==
    ASSUME NEW a \in Nat, NEW d \in Nat \ {0}
    PROVE  a \div d \in Nat
  OBVIOUS

LEMMA DiffTyped ==
    ASSUME NEW a \in Int, NEW b \in Int
    PROVE  DiffMinutes(a, b) \in Int
<1>1. Minute \in Nat \ {0}
  BY PolicyAssumption DEF PolicyAssumption
<1>2. CASE a >= b
  <2>1. a - b \in Nat
    BY <1>2
  <2> QED
    BY <1>1, <1>2, <2>1, DivNat DEF DiffMinutes
<1>3. CASE ~(a >= b)
  <2>1. b - a \in Nat
    BY <1>3
  <2> QED
    BY <1>1, <1>3, <2>1, DivNat DEF DiffMinutes
<1> QED
  BY <1>2, <1>3

\* The clock only adds minutes since an instant, and takes away minutes until one.
LEMMA DiffMonotone ==
    ASSUME NEW a \in Int, NEW b \in Int, NEW k \in Int, a <= b
    PROVE  /\ DiffMinutes(a, k) <= DiffMinutes(b, k)
           /\ DiffMinutes(k, b) <= DiffMinutes(k, a)
<1>0. Minute \in Nat \ {0}
  BY PolicyAssumption DEF PolicyAssumption
<1> DEFINE D(x) == x \div Minute
<1>1. \A x \in Nat : D(x) \in Nat
  BY <1>0, DivNat
<1>2. \A x, y \in Nat : x <= y => D(x) <= D(y)
  BY <1>0, DivMonotone
<1>3. /\ DiffMinutes(a, k) = IF a >= k THEN D(a - k) ELSE -D(k - a)
      /\ DiffMinutes(b, k) = IF b >= k THEN D(b - k) ELSE -D(k - b)
      /\ DiffMinutes(k, a) = IF k >= a THEN D(k - a) ELSE -D(a - k)
      /\ DiffMinutes(k, b) = IF k >= b THEN D(k - b) ELSE -D(b - k)
  BY DEF DiffMinutes
<1> HIDE DEF D
<1>4. CASE k <= a
  <2>1. a - k \in Nat /\ b - k \in Nat /\ a - k <= b - k
    BY <1>4
  <2>2. D(a - k) \in Nat /\ D(b - k) \in Nat /\ D(a - k) <= D(b - k)
    BY <1>1, <1>2, <2>1
  <2>3. CASE k = a
    <3>1. D(0) = 0
      BY <1>0 DEF D
    <3> QED
      BY <1>3, <1>4, <2>2, <2>3, <3>1
  <2>4. CASE k < a
    BY <1>3, <1>4, <2>2, <2>4
  <2> QED
    BY <1>4, <2>3, <2>4
<1>5. CASE a < k /\ k <= b
  <2>1. k - a \in Nat /\ b - k \in Nat
    BY <1>5
  <2>2. D(k - a) \in Nat /\ D(b - k) \in Nat
    BY <1>1, <2>1
  <2>3. CASE k = b
    <3>1. D(0) = 0
      BY <1>0 DEF D
    <3> QED
      BY <1>3, <1>5, <2>2, <2>3, <3>1
  <2>4. CASE k < b
    BY <1>3, <1>5, <2>2, <2>4
  <2> QED
    BY <1>5, <2>3, <2>4
<1>6. CASE b < k
  <2>1. k - a \in Nat /\ k - b \in Nat /\ k - b <= k - a
    BY <1>6
  <2>2. D(k - a) \in Nat /\ D(k - b) \in Nat /\ D(k - b) <= D(k - a)
    BY <1>1, <1>2, <2>1
  <2> QED
    BY <1>3, <1>6, <2>2
<1> QED
  BY <1>4, <1>5, <1>6

-----------------------------------------------------------------------------
(* The ladder of decideBlock in one number.                                *)

Until == DiffMinutes(kickoff, now)
After == DiffMinutes(now, kickoff)
AllDone == done = Matches

Phase ==
    IF Until > DayMinutes THEN 0
    ELSE IF Until > PreMatch THEN 1
    ELSE IF Until > 0 THEN 2
    ELSE IF ~AllDone THEN (IF After <= ActiveUntil THEN 2 ELSE 4)
    ELSE IF After <= RecentlyFinished \/ After <= SettledAfter THEN 3
    ELSE 4

LEMMA PollsTyped ==
    \A p \in {PollPreMatch, PollApproaching, PollActive, PollRecent, PollBackoff} :
        p \in Nat /\ p # NoPoll
  BY PolicyAssumption DEF PolicyAssumption, NoPoll

LEMMA ClockTyped ==
    ASSUME TypeOK
    PROVE  now \in Int /\ kickoff \in Int /\ Until \in Int /\ After \in Int
  BY WindowAssumption, DiffTyped DEF TypeOK, WindowAssumption, Until, After

\* One of the arms after the start always applies, whatever the policy: the initial
\* value scheduledFuture is never kept.
LEMMA LadderIsTotal ==
    ASSUME NEW block, NEW after \in Int, block.allHaveResults \in BOOLEAN
    PROVE  WindowAfterStart(block, after).state # "scheduledFuture"
<1>0. ActiveUntil \in Int
  BY PolicyAssumption DEF PolicyAssumption
<1>1. after <= ActiveUntil \/ after > ActiveUntil
  BY <1>0
<1> QED
  BY <1>1 DEF WindowAfterStart, LiveState

LEMMA PhaseOfDecision ==
    ASSUME TypeOK
    PROVE  /\ Phase \in 0 .. 4
           /\ Rank(Decision.state) = Phase
           /\ Decision.shouldRefreshMatches <=> Phase \in {1, 2, 3}
           /\ Phase = 4 <=> Decision.state = "settled"
<1> DEFINE w == Window(Block, now)
<1>1. Decision.state = w.state /\ (Decision.shouldRefreshMatches <=> w.poll # NoPoll)
  BY DEF Decision, decideBlock
<1>2. Block.start = kickoff /\ Block.allHaveResults = AllDone
  BY DEF Block, AllDone
<1>3. After <= ActiveUntil \/ After > ActiveUntil
  BY ClockTyped, PolicyAssumption DEF PolicyAssumption
<1>4. LiveState(Block) = "activeWindow" \/ LiveState(Block) = "sequentialWindow"
  BY DEF LiveState
<1>5. \/ Phase = 0 /\ w.state = "scheduledFuture" /\ w.poll = NoPoll
      \/ Phase = 1 /\ w.state = "preMatchWindow" /\ w.poll = PollPreMatch
      \/ Phase = 2 /\ w.state = LiveState(Block) /\ w.poll \in {PollApproaching, PollActive}
      \/ Phase = 3 /\ w.state = "recentlyFinished" /\ w.poll \in {PollRecent, PollBackoff}
      \/ Phase = 4 /\ w.state = "settled" /\ w.poll = NoPoll
  <2>1. CASE Until > 0 \/ Until > PreMatch \/ Until > DayMinutes
    BY <1>2, <2>1 DEF Phase, Window, Until
  <2>2. CASE ~(Until > 0 \/ Until > PreMatch \/ Until > DayMinutes)
    <3>1. w = WindowAfterStart(Block, After)
      BY <1>2, <2>2 DEF Window, Until, After
    <3>2. CASE AllDone
      BY <1>2, <1>3, <2>2, <3>1, <3>2 DEF Phase, WindowAfterStart
    <3>3. CASE ~AllDone
      BY <1>2, <1>3, <2>2, <3>1, <3>3 DEF Phase, WindowAfterStart
    <3> QED
      BY <3>2, <3>3
  <2> QED
    BY <2>1, <2>2
<1> HIDE DEF w
<1> QED
  BY <1>1, <1>4, <1>5, PollsTyped DEF Rank

-----------------------------------------------------------------------------
(* Steps.                                                                  *)

LEMMA DecisionState == Decision.state \in States
<1>1. LiveState(Block) \in States
  BY DEF LiveState, States
<1>2. \A after : WindowAfterStart(Block, after).state \in States
  BY <1>1 DEF WindowAfterStart, States
<1>3. Window(Block, now).state \in States
  BY <1>1, <1>2 DEF Window, States
<1> QED
  BY <1>3 DEF Decision, decideBlock

LEMMA DoneGrows == TypeOK /\ [Next]_vars => (AllDone => AllDone')
  BY DEF TypeOK, Next, Tick, PostResult, Move, vars, AllDone

\* The same facts, and after a step.
Facts ==
    /\ now \in Int /\ Until \in Int /\ After \in Int
    /\ Phase \in 0 .. 4
    /\ Rank(Decision.state) = Phase
    /\ Decision.shouldRefreshMatches <=> Phase \in {1, 2, 3}
    /\ Phase = 4 <=> Decision.state = "settled"

LEMMA FactsHold == TypeOK => Facts
  BY ClockTyped, PhaseOfDecision DEF Facts

LEMMA FactsPrimed == (TypeOK => Facts)'
  BY FactsHold, PTL

LEMMA Primed ==
    ASSUME TypeOK'
    PROVE  /\ now' \in Int /\ Until' \in Int /\ After' \in Int
           /\ Phase' \in 0 .. 4
           /\ Rank(Decision.state)' = Phase'
           /\ Decision.shouldRefreshMatches' <=> Phase' \in {1, 2, 3}
           /\ Phase' = 4 <=> Decision.state' = "settled"
  BY FactsPrimed DEF Facts

LEMMA DecisionStatePrimed == (Decision.state \in States)'
  BY DecisionState, PTL

LEMMA InitType == Init => TypeOK
<1> SUFFICES ASSUME Init PROVE TypeOK
  OBVIOUS
<1>1. Decision.state \in States
  BY DecisionState
<1> QED
  BY <1>1, WindowAssumption DEF Init, TypeOK, WindowAssumption

LEMMA NextType == TypeOK /\ [Next]_vars => TypeOK'
<1> SUFFICES ASSUME TypeOK, [Next]_vars PROVE TypeOK'
  OBVIOUS
<1>1. (Decision.state \in States)'
  BY DecisionStatePrimed
<1>2. CASE Tick
  BY <1>1, <1>2 DEF Tick, TypeOK
<1>3. CASE \E m \in Matches : PostResult(m)
  BY <1>1, <1>3 DEF PostResult, TypeOK
<1>4. CASE \E s \in Kickoffs : Move(s)
  <2>1. moves' \in 0 .. MaxMoves
    BY <1>4, WindowAssumption DEF Move, TypeOK, WindowAssumption
  <2> QED
    BY <1>1, <1>4, <2>1 DEF Move, TypeOK
<1>5. CASE UNCHANGED vars
  BY <1>1, <1>5 DEF vars, TypeOK
<1> QED
  BY <1>2, <1>3, <1>4, <1>5 DEF Next

\* As long as the block is not moved, neither the clock nor a result takes it back.
LEMMA PhaseGrows ==
    ASSUME TypeOK, TypeOK', [Next]_vars, kickoff' = kickoff, WindowsNested
    PROVE  Phase <= Phase'
<1> USE PolicyAssumption DEF PolicyAssumption
<1>1. CASE now' = now
  <2>1. Until' = Until /\ After' = After
    BY <1>1 DEF Until, After
  <2>2. AllDone => AllDone'
    BY DoneGrows
  <2> QED
    BY <2>1, <2>2, ClockTyped DEF Phase, WindowsNested, DayMinutes
<1>2. CASE now' # now
  <2>1. now <= now' /\ done' = done
    BY <1>2, WindowAssumption DEF Next, Tick, PostResult, Move, vars, TypeOK, WindowAssumption
  <2>2. now' \in Int /\ Until' \in Int /\ After' \in Int
    BY Primed
  <2>3. Until' <= Until /\ After <= After'
    BY <2>1, <2>2, ClockTyped, DiffMonotone DEF Until, After
  <2>4. AllDone' = AllDone
    BY <2>1 DEF AllDone
  <2> QED
    BY <2>2, <2>3, <2>4, ClockTyped DEF Phase, DayMinutes
<1> QED
  BY <1>1, <1>2
-----------------------------------------------------------------------------

\* The clock, the block and the state decided for it are well formed at all times.
THEOREM TypeCorrect == Spec => []TypeOK
  BY InitType, NextType, PTL DEF Spec

\* No clock, kickoff or order of results makes planner.ts take a block back to an
\* earlier state, if the policy's result windows end within its active window.
THEOREM PhasesOnlyAdvance ==
    ASSUME WindowsNested
    PROVE  Spec => PhaseNeverReopens
<1>1. TypeOK /\ TypeOK' /\ [Next]_vars
      => [kickoff' = kickoff => Rank(Decision.state) <= Rank(Decision'.state)]_vars
  <2> SUFFICES ASSUME TypeOK, TypeOK', [Next]_vars, kickoff' = kickoff
               PROVE  Rank(Decision.state) <= Rank(Decision.state)'
    BY DEF Rank
  <2>1. Rank(Decision.state) = Phase
    BY PhaseOfDecision
  <2>2. (Rank(Decision.state) = Phase)'
    BY Primed
  <2> QED
    BY <2>1, <2>2, PhaseGrows
<1> QED
  BY <1>1, TypeCorrect, PTL DEF Spec, PhaseNeverReopens

\* Under the same policies a block that is due stays due until it is settled.
THEOREM NoGapBeforeSettled ==
    ASSUME WindowsNested
    PROVE  Spec => DueUntilSettled
<1>1. TypeOK /\ TypeOK' /\ [Next]_vars
      => [/\ kickoff' = kickoff
          /\ Decision.shouldRefreshMatches
          /\ ~Decision'.shouldRefreshMatches
          => Decision'.state = "settled"]_vars
  <2> SUFFICES ASSUME TypeOK, TypeOK', [Next]_vars, kickoff' = kickoff,
                      Decision.shouldRefreshMatches, ~Decision'.shouldRefreshMatches
               PROVE  Decision'.state = "settled"
    OBVIOUS
  <2>1. Phase \in {1, 2, 3}
    BY PhaseOfDecision
  <2>2. Phase' \in 0 .. 4 /\ ~(Phase' \in {1, 2, 3})
    BY Primed
  <2>3. Phase' = 4
    BY <2>1, <2>2, PhaseGrows
  <2> QED
    BY <2>3, Primed
<1> QED
  BY <1>1, TypeCorrect, PTL DEF Spec, DueUntilSettled
=============================================================================
