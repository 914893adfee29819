------------------------- MODULE MatchRefreshProofs -------------------------
(***************************************************************************)
(* Proofs about MatchRefresh, for every number of matches, leagues, clubs  *)
(* and runs, every bound, and every policy.                                *)
(***************************************************************************)
EXTENDS MatchRefresh, TLAPS

-----------------------------------------------------------------------------
(* Rows.                                                                   *)

LEMMA RowsShape ==
    ASSUME NEW rows \in Rows
    PROVE  /\ DOMAIN rows \subseteq Matches
           /\ \A m \in DOMAIN rows : rows[m] \in Row
  BY DEF Rows

LEMMA RowsIntro ==
    ASSUME NEW ms \in SUBSET Matches, NEW f \in [ms -> Row]
    PROVE  f \in Rows
  BY DEF Rows

LEMMA NoRowsTyped == NoRows \in Rows /\ DOMAIN NoRows = {} /\ ResultsIn(NoRows) = {}
<1>1. NoRows \in [{} -> Row]
  BY DEF NoRows
<1> QED
  BY <1>1, RowsIntro DEF NoRows, ResultsIn

LEMMA WithRowTyped ==
    ASSUME NEW rows \in Rows, NEW m \in Matches, NEW row \in Row
    PROVE  /\ WithRow(rows, m, row) \in Rows
           /\ DOMAIN WithRow(rows, m, row) = DOMAIN rows \cup {m}
           /\ \A n \in DOMAIN rows \cup {m} :
                WithRow(rows, m, row)[n] = IF n = m THEN row ELSE rows[n]
<1>1. DOMAIN rows \subseteq Matches /\ \A n \in DOMAIN rows : rows[n] \in Row
  BY RowsShape
<1>2. WithRow(rows, m, row) \in [DOMAIN rows \cup {m} -> Row]
  BY <1>1 DEF WithRow
<1>3. DOMAIN rows \cup {m} \in SUBSET Matches
  BY <1>1
<1>4. WithRow(rows, m, row) \in Rows
  BY <1>2, <1>3, RowsIntro
<1> QED
  BY <1>4 DEF WithRow

LEMMA OneRowTyped ==
    ASSUME NEW m \in Matches, NEW row \in Row
    PROVE  OneRow(m, row) \in Rows /\ DOMAIN OneRow(m, row) = {m} /\ OneRow(m, row)[m] = row
<1>1. OneRow(m, row) \in [{m} -> Row]
  BY DEF OneRow
<1> QED
  BY <1>1, RowsIntro DEF OneRow

-----------------------------------------------------------------------------
(* The planner.                                                            *)

LEMMA StartTyped ==
    ASSUME NEW row \in Row, row.date # NoDate
    PROVE  ScheduledStart(row) \in Int
<1>1. row.date \in Int /\ row.time \in Int \cup {NoTime}
  BY RefreshAssumption DEF RefreshAssumption, Row
<1> QED
  BY <1>1, PolicyAssumption DEF PolicyAssumption, ScheduledStart

LEMMA BlocksTyped ==
    ASSUME NEW planned \in Rows
    PROVE  buildMatchBlocks(planned) \subseteq MatchBlock
<1> SUFFICES ASSUME NEW m \in Plannable(planned)
             PROVE  BlockOf(planned, m) \in MatchBlock
  BY DEF buildMatchBlocks
<1>1. m \in Matches /\ planned[m] \in Row /\ planned[m].date # NoDate /\ LeagueOf[m] \in Leagues
  BY RowsShape, MatchAssumption DEF Plannable, MatchAssumption
<1>2. matchBlockId(planned, m) \in BlockIds
  BY <1>1, StartTyped DEF matchBlockId, BlockIds
<1>3. Plannable(planned) \subseteq Matches
  BY RowsShape DEF Plannable
<1>4. \A n \in Plannable(planned) : ClubsOf[n] \in SUBSET Clubs
  BY <1>3, MatchAssumption DEF MatchAssumption
<1>5. matchBlockId(planned, m).start \in Int
  BY <1>2 DEF BlockIds
<1>6. BlockOf(planned, m).allHaveResults \in BOOLEAN
  BY DEF BlockOf
<1> QED
  BY <1>1, <1>2, <1>3, <1>4, <1>5 DEF BlockOf, MatchBlock

LEMMA DecisionOfBlock ==
    ASSUME NEW b, NEW t
    PROVE  decideBlock(b, t).block = b
  BY DEF decideBlock

LEMMA DecisionState ==
    ASSUME NEW b, NEW t
    PROVE  decideBlock(b, t).state \in States
<1>1. LiveState(b) \in States
  BY DEF LiveState, States
<1>2. \A after : WindowAfterStart(b, after).state \in States
  BY <1>1 DEF WindowAfterStart, States
<1>3. Window(b, t).state \in States
  BY <1>1, <1>2 DEF Window, States
<1> QED
  BY <1>3 DEF decideBlock

LEMMA PlanTyped ==
    ASSUME NEW s \in Run
    PROVE  /\ DueBlocks(s) \subseteq MatchBlock
           /\ hotRegisteredClubLeagueUuids(s) \subseteq Leagues
           /\ RankingLeagues(Decisions(s)) \subseteq Leagues
           /\ leagueUuidsFromPlanned(s.planned) \subseteq Leagues
<1>1. s.planned \in Rows
  BY DEF Run
<1>2. buildMatchBlocks(s.planned) \subseteq MatchBlock
  BY <1>1, BlocksTyped
<1>3. \A d \in Decisions(s) : d.block \in MatchBlock
  BY <1>2, DecisionOfBlock DEF Decisions, planMatchRefresh
<1>4. \A b \in MatchBlock : b.league \in Leagues
  BY DEF MatchBlock
<1>5. DueBlocks(s) \subseteq MatchBlock
  BY <1>3 DEF DueBlocks, dueRefreshDecisions
<1>6. DOMAIN s.planned \subseteq Matches
  BY <1>1, RowsShape
<1>7. leagueUuidsFromPlanned(s.planned) \subseteq Leagues
  BY <1>6, MatchAssumption DEF leagueUuidsFromPlanned, MatchAssumption
<1> QED
  BY <1>3, <1>4, <1>5, <1>7 DEF hotRegisteredClubLeagueUuids, RankingLeagues

-----------------------------------------------------------------------------
(* What a run holds.  Truthful(s, posted): no row and no event of the run s *)
(* shows a result outside posted.                                          *)

EventResults(e) ==
    IF e.kind = "block" THEN ResultsIn(e.details)
    ELSE IF e.kind = "ranking" THEN e.results
    ELSE ResultsIn(e.rows)

Truthful(s, posted) ==
    /\ s \in Run
    /\ ResultsIn(s.planned) \subseteq posted
    /\ ResultsIn(s.page) \subseteq posted
    /\ ResultsIn(s.details) \subseteq posted
    /\ \A e \in s.batch : EventResults(e) \subseteq posted

LEMMA TruthfulMonotone ==
    ASSUME NEW s, NEW old, NEW new, Truthful(s, old), old \subseteq new
    PROVE  Truthful(s, new)
  BY DEF Truthful

LEMMA IdleTruthful ==
    ASSUME NEW posted
    PROVE  Truthful(IdleRun, posted)
<1>1. IdleRun \in Run
  BY NoRowsTyped DEF IdleRun, Run, RunPcs, Modes
<1> QED
  BY <1>1, NoRowsTyped DEF Truthful, IdleRun

LEMMA EnterSchedulesTruthful ==
    ASSUME NEW s, NEW posted, Truthful(s, posted)
    PROVE  Truthful(EnterSchedules(s), posted) /\ EnterSchedules(s).pc # "detail"
<1>1. EnterSchedules(s) \in Run
  BY DEF EnterSchedules, Truthful, Run, RunPcs
<1> QED
  BY <1>1 DEF EnterSchedules, Truthful, Run

LEMMA EnterRankingsTruthful ==
    ASSUME NEW s, NEW posted, Truthful(s, posted), NEW ls \in SUBSET Leagues
    PROVE  Truthful(EnterRankings(s, ls), posted) /\ EnterRankings(s, ls).pc # "detail"
<1>1. CASE ls = {}
  BY <1>1, EnterSchedulesTruthful DEF EnterRankings
<1>2. CASE ls # {}
  <2> DEFINE n == [s EXCEPT !.pc = "rankings", !.leagues = ls]
  <2>1. n \in Run
    BY DEF Truthful, Run, RunPcs
  <2>2. Truthful(n, posted)
    BY <2>1 DEF Truthful, Run
  <2> QED
    BY <1>2, <2>2 DEF EnterRankings
<1> QED
  BY <1>1, <1>2

LEMMA NextBlockTruthful ==
    ASSUME NEW s, NEW posted, Truthful(s, posted)
    PROVE  Truthful(NextBlock(s), posted) /\ NextBlock(s).pc # "detail"
<1>1. CASE s.blocks = {}
  <2>1. RankingLeagues(Decisions(s)) \subseteq Leagues
    BY PlanTyped DEF Truthful
  <2> QED
    BY <1>1, <2>1, EnterRankingsTruthful DEF NextBlock
<1>2. CASE s.blocks # {}
  <2>1. [s EXCEPT !.pc = "blocks"] \in Run
    BY DEF Truthful, Run, RunPcs
  <2>2. Truthful([s EXCEPT !.pc = "blocks"], posted)
    BY <2>1 DEF Truthful, Run
  <2> QED
    BY <1>2, <2>2 DEF NextBlock
<1> QED
  BY <1>1, <1>2

LEMMA EnterDetailsTruthful ==
    ASSUME NEW s, NEW posted, Truthful(s, posted)
    PROVE  Truthful(EnterDetails(s), posted) /\ EnterDetails(s).pc # "detail"
<1> DEFINE n == [s EXCEPT !.blocks = DueBlocks(s)]
<1>1. DueBlocks(s) \subseteq MatchBlock
  BY PlanTyped DEF Truthful
<1>2. n \in Run
  BY <1>1 DEF Truthful, Run
<1>3. Truthful(n, posted)
  BY <1>2 DEF Truthful, Run
<1> QED
  BY <1>3, NextBlockTruthful DEF EnterDetails

LEMMA AfterSchedulesTruthful ==
    ASSUME NEW s, NEW posted, Truthful(s, posted)
    PROVE  Truthful(AfterSchedules(s), posted) /\ AfterSchedules(s).pc # "detail"
<1>1. Truthful([s EXCEPT !.pc = "season"], posted)
  <2>1. [s EXCEPT !.pc = "season"] \in Run
    BY DEF Truthful, Run, RunPcs
  <2> QED
    BY <2>1 DEF Truthful, Run
<1>2. Truthful([s EXCEPT !.pc = "plan", !.force = FALSE], posted)
  <2>1. [s EXCEPT !.pc = "plan", !.force = FALSE] \in Run
    BY DEF Truthful, Run, RunPcs
  <2> QED
    BY <2>1 DEF Truthful, Run
<1> QED
  BY <1>1, <1>2, EnterDetailsTruthful DEF AfterSchedules

LEMMA EnsureLeagueSchedulesTruthful ==
    ASSUME NEW s, NEW posted, Truthful(s, posted),
           NEW ls \in SUBSET Leagues
    PROVE  Truthful(EnsureLeagueSchedules(s, ls), posted) /\ EnsureLeagueSchedules(s, ls).pc # "detail"
<1>1. [s EXCEPT !.pc = "seasons", !.leagues = ls] \in Run
  BY DEF Truthful, Run, RunPcs
<1>2. Truthful([s EXCEPT !.pc = "seasons", !.leagues = ls], posted)
  BY <1>1 DEF Truthful, Run
<1> QED
  BY <1>2, AfterSchedulesTruthful DEF EnsureLeagueSchedules

LEMMA NextLeagueTruthful ==
    ASSUME NEW s, NEW posted, Truthful(s, posted)
    PROVE  Truthful(NextLeague(s), posted) /\ NextLeague(s).pc # "detail"
<1>1. [s EXCEPT !.pc = "leagues"] \in Run
  BY DEF Truthful, Run, RunPcs
<1>2. Truthful([s EXCEPT !.pc = "leagues"], posted)
  BY <1>1 DEF Truthful, Run
<1> QED
  BY <1>2, AfterSchedulesTruthful DEF NextLeague

LEMMA NextClubTruthful ==
    ASSUME NEW s, NEW posted, Truthful(s, posted)
    PROVE  Truthful(NextClub(s), posted) /\ NextClub(s).pc # "detail"
<1>1. [s EXCEPT !.pc = "clubs"] \in Run
  BY DEF Truthful, Run, RunPcs
<1>2. Truthful([s EXCEPT !.pc = "clubs"], posted)
  BY <1>1 DEF Truthful, Run
<1>3. leagueUuidsFromPlanned(s.planned) \in SUBSET Leagues
  BY PlanTyped DEF Truthful
<1> QED
  BY <1>2, <1>3, EnsureLeagueSchedulesTruthful DEF NextClub

LEMMA CloseBlockTruthful ==
    ASSUME NEW s, NEW posted, Truthful(s, posted), s.block \in MatchBlock
    PROVE  Truthful(CloseBlock(s), posted) /\ CloseBlock(s).pc # "detail"
<1> DEFINE e == [kind    |-> "block",
                 id      |-> s.block.id,
                 league  |-> s.block.league,
                 clubs   |-> s.block.clubs,
                 state   |-> decideBlock(s.block, s.at).state,
                 details |-> s.details]
           n == [s EXCEPT !.batch = @ \cup {e}, !.blocks = @ \ {s.block},
                          !.block = Absent, !.details = NoRows]
<1>1. e \in BlockEvent
  BY DecisionState DEF Truthful, Run, MatchBlock, BlockEvent
<1>2. EventResults(e) \subseteq posted
  BY DEF EventResults, Truthful
<1>3. n \in Run
  <2> HIDE DEF e
  <2> QED
    BY <1>1, NoRowsTyped DEF Truthful, Run
<1>4. Truthful(n, posted)
  <2> HIDE DEF e
  <2> QED
    BY <1>2, <1>3, NoRowsTyped DEF Truthful, Run
<1>5. CloseBlock(s) = NextBlock(n)
  BY DEF CloseBlock
<1> QED
  <2> HIDE DEF n
  <2> QED
    BY <1>4, <1>5, NextBlockTruthful

LEMMA NextMatchTruthful ==
    ASSUME NEW s, NEW posted, Truthful(s, posted), s.block \in MatchBlock
    PROVE  /\ Truthful(NextMatch(s), posted)
           /\ NextMatch(s).pc = "detail" => NextMatch(s).block \in MatchBlock
<1>1. [s EXCEPT !.pc = "detail"] \in Run
  BY DEF Truthful, Run, RunPcs
<1>2. Truthful([s EXCEPT !.pc = "detail"], posted)
  BY <1>1 DEF Truthful, Run
<1>3. [s EXCEPT !.pc = "detail"].block = s.block
  BY DEF Truthful, Run
<1> QED
  BY <1>2, <1>3, CloseBlockTruthful DEF NextMatch

-----------------------------------------------------------------------------
(* The inductive invariant: results travel from SAMS to the table, to the  *)
(* runs and to the consumers, and each of them holds only posted ones.     *)

WorldTyped ==
    /\ now \in Instants
    /\ sams \in [Matches -> Row]
    /\ listedAt \in [Leagues -> Instants \cup {Never}]
    /\ status \in [Modes -> {"none", "success", "failure"}]
    /\ moves \in 0 .. MaxMoves
    /\ failures \in 0 .. MaxFailures

StoredTruthful ==
    /\ stored \in [Matches -> Row \cup {Absent}]
    /\ \A m \in Matches : stored[m] # Absent /\ stored[m].done => m \in Posted

FeedTruthful ==
    /\ feed \in [schedules : [RegisteredClubs -> Rows],
                 rankings  : [Leagues -> SUBSET Matches]]
    /\ NoPhantomResults

RunTruthful(s) ==
    /\ Truthful(s, Posted)
    /\ s.pc = "detail" => s.block \in MatchBlock

RunsTruthful ==
    /\ run \in [Runs -> Run]
    /\ \A r \in Runs : RunTruthful(run[r])

Inv == WorldTyped /\ StoredTruthful /\ FeedTruthful /\ RunsTruthful

LEMMA InvTyped == Inv => TypeOK
  BY DEF Inv, WorldTyped, StoredTruthful, FeedTruthful, RunsTruthful, TypeOK

LEMMA InitInv == Init => Inv
<1> SUFFICES ASSUME Init PROVE Inv
  OBVIOUS
<1>1. PICK f \in [Matches -> Fixtures] :
        sams = [m \in Matches |-> [date |-> f[m].date, time |-> f[m].time, done |-> FALSE]]
  BY DEF Init
<1>2. WorldTyped
  <2>1. sams \in [Matches -> Row]
    BY <1>1 DEF Row
  <2> QED
    BY <2>1, RefreshAssumption DEF Init, WorldTyped, RefreshAssumption, Modes
<1>3. StoredTruthful
  BY DEF Init, StoredTruthful
<1>4. FeedTruthful
  BY NoRowsTyped DEF Init, FeedTruthful, NoPhantomResults
<1>5. RunsTruthful
  <2>1. Truthful(IdleRun, Posted)
    BY IdleTruthful
  <2>2. IdleRun.pc # "detail"
    BY DEF IdleRun
  <2>3. \A r \in Runs : run[r] = IdleRun
    BY DEF Init
  <2> QED
    BY <2>1, <2>2, <2>3 DEF Init, RunsTruthful, RunTruthful, Truthful
<1> QED
  BY <1>2, <1>3, <1>4, <1>5 DEF Inv

\* A step of one run, as far as the other runs are concerned.
LEMMA Continued ==
    ASSUME RunsTruthful, sams' = sams,
           NEW r \in Runs, NEW s, RunTruthful(s), Continue(r, s)
    PROVE  RunsTruthful'
<1>1. s \in Run
  BY DEF RunTruthful, Truthful
<1>2. run' \in [Runs -> Run] /\ \A q \in Runs : run'[q] = IF q = r THEN s ELSE run[q]
  BY <1>1 DEF Continue, RunsTruthful
<1>3. Posted' = Posted
  BY DEF Posted
<1>4. ASSUME NEW q \in Runs PROVE RunTruthful(run[q])'
  <2>1. CASE q = r
    BY <1>2, <1>3, <2>1 DEF RunTruthful
  <2>2. CASE q # r
    BY <1>2, <1>3, <2>2 DEF RunTruthful, RunsTruthful
  <2> QED
    BY <2>1, <2>2
<1> QED
  BY <1>2, <1>4 DEF RunsTruthful

LEMMA StoredKept ==
    ASSUME StoredTruthful, sams' = sams, stored' = stored
    PROVE  StoredTruthful'
  BY DEF StoredTruthful, Posted

LEMMA FeedKept ==
    ASSUME FeedTruthful, sams' = sams, feed' = feed
    PROVE  FeedTruthful'
  BY DEF FeedTruthful, NoPhantomResults, Posted

LEMMA AnswerKinds ==
    ASSUME NEW ok \in Answers
    PROVE  ok \in BOOLEAN /\ (ok = FALSE => failures < MaxFailures)
  BY DEF Answers

LEMMA Counted ==
    ASSUME failures \in 0 .. MaxFailures, NEW ok \in Answers, Count(ok)
    PROVE  failures' \in 0 .. MaxFailures
<1>1. CASE ok = TRUE
  BY <1>1 DEF Count
<1>2. CASE ok = FALSE
  <2>1. failures' = failures + 1
    BY <1>2 DEF Count
  <2>2. failures < MaxFailures
    BY <1>2, AnswerKinds
  <2> QED
    BY <1>2, <2>1, <2>2, RefreshAssumption DEF RefreshAssumption
<1> QED
  BY <1>1, <1>2, AnswerKinds

LEMMA CountedSeason ==
    ASSUME failures \in 0 .. MaxFailures,
           NEW ok \in IF SeasonStored THEN {TRUE} ELSE Answers, Count(ok)
    PROVE  failures' \in 0 .. MaxFailures
<1>1. ok \in Answers
  BY DEF Answers
<1> QED
  BY <1>1, Counted

\* What a request to SAMS returns, and what is read from the table.
LEMMA SamsRow ==
    ASSUME Inv, NEW m \in Matches
    PROVE  sams[m] \in Row /\ (sams[m].done => m \in Posted)
  BY DEF Inv, WorldTyped, Posted, ResultsIn

LEMMA PostedTyped == Inv => Posted \subseteq Matches
  BY DEF Inv, WorldTyped, Posted, ResultsIn

LEMMA WithRowTruthful ==
    ASSUME NEW posted, NEW rows \in Rows, ResultsIn(rows) \subseteq posted,
           NEW m \in Matches, NEW row \in Row, row.done => m \in posted
    PROVE  /\ WithRow(rows, m, row) \in Rows
           /\ ResultsIn(WithRow(rows, m, row)) \subseteq posted
<1> DEFINE new == WithRow(rows, m, row)
<1>1. /\ new \in Rows
      /\ DOMAIN new = DOMAIN rows \cup {m}
      /\ \A n \in DOMAIN rows \cup {m} : new[n] = IF n = m THEN row ELSE rows[n]
  BY WithRowTyped
<1> HIDE DEF new
<1>2. ASSUME NEW n \in DOMAIN new, new[n].done PROVE n \in posted
  <2>1. CASE n = m
    BY <1>1, <1>2, <2>1
  <2>2. CASE n # m
    BY <1>1, <1>2, <2>2 DEF ResultsIn
  <2> QED
    BY <2>1, <2>2
<1> QED
  BY <1>1, <1>2 DEF ResultsIn, new

-----------------------------------------------------------------------------
(* SAMS and the clock.                                                     *)

LEMMA WorldStep ==
    ASSUME Inv, Posted \subseteq Posted', run' = run, feed' = feed, stored' = stored
    PROVE  StoredTruthful' /\ FeedTruthful' /\ RunsTruthful'
<1>1. StoredTruthful'
  BY DEF Inv, StoredTruthful
<1>2. FeedTruthful'
  BY DEF Inv, FeedTruthful, NoPhantomResults
<1>3. ASSUME NEW r \in Runs PROVE RunTruthful(run[r])'
  <2>1. Truthful(run[r], Posted')
    BY TruthfulMonotone DEF Inv, RunsTruthful, RunTruthful
  <2> QED
    BY <2>1 DEF Inv, RunsTruthful, RunTruthful
<1>4. RunsTruthful'
  BY <1>3 DEF Inv, RunsTruthful
<1> QED
  BY <1>1, <1>2, <1>4

LEMMA TickInv == Inv /\ Tick => Inv'
<1> SUFFICES ASSUME Inv, Tick PROVE Inv'
  OBVIOUS
<1>1. Posted' = Posted
  BY DEF Tick, Posted
<1>2. WorldTyped'
  BY DEF Inv, WorldTyped, Tick, tables
<1> QED
  BY <1>1, <1>2, WorldStep DEF Inv, Tick, tables

LEMMA PostResultInv ==
    ASSUME Inv, NEW m \in Matches, PostResult(m)
    PROVE  Inv'
<1>1. sams' \in [Matches -> Row] /\ Posted \subseteq Posted'
  <2>1. sams' = [sams EXCEPT ![m] = [sams[m] EXCEPT !.done = TRUE]]
    BY DEF PostResult
  <2>2. [sams[m] EXCEPT !.done = TRUE] \in Row /\ [sams[m] EXCEPT !.done = TRUE].done
    BY SamsRow DEF Row
  <2> QED
    BY <2>1, <2>2 DEF Inv, WorldTyped, Posted, ResultsIn
<1>2. WorldTyped'
  BY <1>1 DEF Inv, WorldTyped, PostResult, tables
<1> QED
  BY <1>1, <1>2, WorldStep DEF Inv, PostResult, tables

LEMMA MoveMatchInv ==
    ASSUME Inv, NEW m \in Matches, NEW f \in Fixtures, MoveMatch(m, f)
    PROVE  Inv'
<1>1. sams' \in [Matches -> Row] /\ Posted \subseteq Posted'
  <2> DEFINE row == [sams[m] EXCEPT !.date = f.date, !.time = f.time]
  <2>1. sams' = [sams EXCEPT ![m] = row]
    BY DEF MoveMatch
  <2>2. row \in Row /\ row.done = sams[m].done
    BY SamsRow DEF Row
  <2> HIDE DEF row
  <2> QED
    BY <2>1, <2>2 DEF Inv, WorldTyped, Posted, ResultsIn
<1>2. moves' \in 0 .. MaxMoves
  BY RefreshAssumption DEF RefreshAssumption, MoveMatch, Inv, WorldTyped
<1>3. WorldTyped'
  BY <1>1, <1>2 DEF Inv, WorldTyped, MoveMatch, tables
<1> QED
  BY <1>1, <1>3, WorldStep DEF Inv, MoveMatch, tables

-----------------------------------------------------------------------------
(* The steps of a run.                                                     *)

LEMMA RunOf ==
    ASSUME Inv, NEW r \in Runs
    PROVE  /\ run[r] \in Run
           /\ Truthful(run[r], Posted)
           /\ run[r].pc = "detail" => run[r].block \in MatchBlock
  BY DEF Inv, RunsTruthful, RunTruthful

\* Changing only fields that hold no rows.
LEMMA FieldsTruthful ==
    ASSUME NEW s, NEW posted, Truthful(s, posted), NEW n \in Run,
           n.planned = s.planned, n.page = s.page, n.details = s.details, n.batch = s.batch
    PROVE  Truthful(n, posted)
  BY DEF Truthful

LEMMA StartInv ==
    ASSUME Inv, NEW r \in Runs, NEW mode \in Modes, Start(r, mode)
    PROVE  Inv'
<1> DEFINE known == {m \in Matches : stored[m] # Absent}
           fetch == mode = "snapshot" \/ known = {}
           table == [m \in known |-> stored[m]]
           plan  == IF fetch THEN NoRows ELSE table
           pc    == IF fetch THEN "schedule" ELSE "plan"
           boot  == fetch /\ mode = "adaptive"
           n == [IdleRun EXCEPT !.pc = pc, !.mode = mode, !.at = now, !.planned = plan,
                                !.force = fetch, !.boot = boot, !.before = Posted]
<1>1. table \in Rows /\ ResultsIn(table) \subseteq Posted
  <2>1. table \in [known -> Row]
    BY DEF Inv, StoredTruthful
  <2>2. table \in Rows
    BY <2>1, RowsIntro
  <2> QED
    BY <2>2 DEF Inv, StoredTruthful, ResultsIn
<1>2. plan \in Rows /\ ResultsIn(plan) \subseteq Posted
  BY <1>1, NoRowsTyped
<1>3. n \in Run /\ n.planned = plan /\ n.page = NoRows /\ n.details = NoRows /\ n.batch = {}
  <2>1. IdleRun \in Run /\ now \in Instants /\ Posted \subseteq Matches
    BY IdleTruthful, PostedTyped DEF Truthful, Inv, WorldTyped
  <2>2. fetch \in BOOLEAN /\ boot \in BOOLEAN /\ pc \in RunPcs
    BY DEF RunPcs
  <2>3. /\ IdleRun.page = NoRows /\ IdleRun.details = NoRows /\ IdleRun.batch = {}
    BY DEF IdleRun
  <2> HIDE DEF plan, fetch, boot, pc
  <2> QED
    BY <1>2, <2>1, <2>2, <2>3 DEF Run
<1>4. n.pc # "detail"
  BY DEF IdleRun
<1>5. RunTruthful(n)
  <2> HIDE DEF n
  <2> QED
    BY <1>2, <1>3, <1>4, NoRowsTyped DEF RunTruthful, Truthful
<1>6. Continue(r, n)
  BY DEF Start
<1>7. RunsTruthful'
  <2> HIDE DEF n
  <2> QED
    BY <1>5, <1>6, Continued DEF Inv, Start, world
<1> QED
  BY <1>7, StoredKept, FeedKept DEF Inv, WorldTyped, Start, world, tables

LEMMA FetchScheduleForClubsInv ==
    ASSUME Inv, NEW r \in Runs, FetchScheduleForClubs(r)
    PROVE  Inv'
<1>1. PICK ok \in Answers :
        /\ Continue(r, IF ok THEN NextClub([run[r] EXCEPT !.clubs = RegisteredClubs])
                       ELSE AfterSchedules([run[r] EXCEPT !.clean = FALSE]))
        /\ Count(ok)
  BY DEF FetchScheduleForClubs
<1> DEFINE a == [run[r] EXCEPT !.clubs = RegisteredClubs]
           b == [run[r] EXCEPT !.clean = FALSE]
           n == IF ok THEN NextClub(a) ELSE AfterSchedules(b)
<1>2. Truthful(a, Posted)
  <2>1. a \in Run
    BY RunOf DEF Run
  <2> QED
    BY <2>1, RunOf, FieldsTruthful DEF Run
<1>3. Truthful(b, Posted)
  <2>1. b \in Run
    BY RunOf DEF Run
  <2> QED
    BY <2>1, RunOf, FieldsTruthful DEF Run
<1>4. RunTruthful(n)
  <2> HIDE DEF a, b
  <2> QED
    BY <1>2, <1>3, NextClubTruthful, AfterSchedulesTruthful DEF RunTruthful
<1>5. RunsTruthful'
  <2> HIDE DEF n
  <2> QED
    BY <1>1, <1>4, Continued DEF n, Inv, FetchScheduleForClubs, world
<1>6. failures' \in 0 .. MaxFailures
  BY <1>1, Counted DEF Inv, WorldTyped
<1> QED
  BY <1>5, <1>6, StoredKept, FeedKept
     DEF Inv, WorldTyped, FetchScheduleForClubs, world, tables

LEMMA QueryClubInv ==
    ASSUME Inv, NEW r \in Runs, QueryClub(r)
    PROVE  Inv'
<1>1. PICK c \in run[r].clubs :
        Continue(r, [run[r] EXCEPT !.pc = "list", !.listing = Absent,
                                   !.clubs = @ \ {c}, !.rows = ClubMatches(c)])
  BY DEF QueryClub
<1> DEFINE n == [run[r] EXCEPT !.pc = "list", !.listing = Absent,
                               !.clubs = @ \ {c}, !.rows = ClubMatches(c)]
<1>2. n \in Run
  <2>1. run[r] \in Run /\ ClubMatches(c) \subseteq Matches
    BY RunOf DEF ClubMatches
  <2> QED
    BY <2>1 DEF Run, RunPcs
<1>3. RunTruthful(n)
  BY <1>2, RunOf, FieldsTruthful DEF RunTruthful, Run
<1>4. RunsTruthful'
  <2> HIDE DEF n
  <2> QED
    BY <1>1, <1>3, Continued DEF n, Inv, QueryClub, world
<1> QED
  BY <1>4, StoredKept, FeedKept DEF Inv, WorldTyped, QueryClub, world, tables

LEMMA FetchSeasonsInv ==
    ASSUME Inv, NEW r \in Runs, FetchSeasons(r)
    PROVE  Inv'
<1>1. PICK ok \in Answers :
        /\ Continue(r, IF ok THEN NextLeague(run[r])
                       ELSE AfterSchedules([run[r] EXCEPT !.leagues = {}, !.clean = FALSE]))
        /\ Count(ok)
  BY DEF FetchSeasons
<1> DEFINE b == [run[r] EXCEPT !.leagues = {}, !.clean = FALSE]
           n == IF ok THEN NextLeague(run[r]) ELSE AfterSchedules(b)
<1>2. Truthful(b, Posted)
  <2>1. b \in Run
    BY RunOf DEF Run
  <2> QED
    BY <2>1, RunOf, FieldsTruthful DEF Run
<1>3. RunTruthful(n)
  <2> HIDE DEF b
  <2> QED
    BY <1>2, RunOf, NextLeagueTruthful, AfterSchedulesTruthful DEF RunTruthful
<1>4. RunsTruthful'
  <2> HIDE DEF n
  <2> QED
    BY <1>1, <1>3, Continued DEF n, Inv, FetchSeasons, world
<1>5. failures' \in 0 .. MaxFailures
  BY <1>1, Counted DEF Inv, WorldTyped
<1> QED
  BY <1>4, <1>5, StoredKept, FeedKept DEF Inv, WorldTyped, FetchSeasons, world, tables

LEMMA QueryLeagueInv ==
    ASSUME Inv, NEW r \in Runs, QueryLeague(r)
    PROVE  Inv'
<1>1. PICK l \in run[r].leagues :
        LET s == [run[r] EXCEPT !.leagues = @ \ {l}]
        IN  Continue(r, IF NeedsListing(s, l)
              THEN [s EXCEPT !.pc = "list", !.listing = l, !.rows = LeagueMatches(l)]
              ELSE NextLeague(s))
  BY DEF QueryLeague
<1> DEFINE s == [run[r] EXCEPT !.leagues = @ \ {l}]
           a == [s EXCEPT !.pc = "list", !.listing = l, !.rows = LeagueMatches(l)]
           n == IF NeedsListing(s, l) THEN a ELSE NextLeague(s)
<1>0. l \in Leagues
  BY RunOf DEF Run
<1>2. Truthful(s, Posted)
  <2>1. s \in Run
    BY RunOf DEF Run
  <2> QED
    BY <2>1, RunOf, FieldsTruthful DEF Run
<1>3. Truthful(a, Posted) /\ a.pc = "list"
  <2>1. LeagueMatches(l) \subseteq Matches /\ s \in Run
    BY <1>2 DEF LeagueMatches, Truthful
  <2> HIDE DEF s
  <2>2. a \in Run
    BY <1>0, <2>1 DEF Run, RunPcs
  <2> QED
    BY <1>2, <2>1, <2>2, FieldsTruthful DEF Run
<1>4. RunTruthful(n)
  <2> HIDE DEF s, a
  <2> QED
    BY <1>2, <1>3, NextLeagueTruthful DEF RunTruthful
<1>5. RunsTruthful'
  <2> HIDE DEF n
  <2> QED
    BY <1>1, <1>4, Continued DEF n, Inv, QueryLeague, world
<1> QED
  BY <1>5, StoredKept, FeedKept DEF Inv, WorldTyped, QueryLeague, world, tables

LEMMA FetchPageInv ==
    ASSUME Inv, NEW r \in Runs, FetchPage(r)
    PROVE  Inv'
<1> DEFINE p == NextPage(run[r].rows)
<1>1. PICK ok \in Answers :
        /\ Continue(r, [run[r] EXCEPT !.rows = @ \ p,
                                      !.page = IF ok THEN Listed(p) ELSE NoRows,
                                      !.clean = @ /\ ok])
        /\ Count(ok)
  BY DEF FetchPage
<1> DEFINE page == IF ok THEN Listed(p) ELSE NoRows
           n == [run[r] EXCEPT !.rows = @ \ p, !.page = page, !.clean = @ /\ ok]
<1>2. p \subseteq Matches
  BY RunOf DEF NextPage, Run
<1>3. Listed(p) \in Rows /\ ResultsIn(Listed(p)) \subseteq Posted
  <2>1. Listed(p) \in [p -> Row]
    BY <1>2, SamsRow DEF Listed
  <2>2. Listed(p) \in Rows
    BY <1>2, <2>1, RowsIntro
  <2> QED
    BY <1>2, <2>2, SamsRow DEF Listed, ResultsIn
<1>4. page \in Rows /\ ResultsIn(page) \subseteq Posted
  BY <1>3, NoRowsTyped
<1>5. n \in Run /\ n.page = page
  <2>1. run[r] \in Run /\ ok \in BOOLEAN
    BY RunOf, AnswerKinds
  <2>2. (run[r].clean /\ ok) \in BOOLEAN
    BY <2>1
  <2> HIDE DEF page, p
  <2> QED
    BY <1>4, <2>1, <2>2 DEF Run
<1>6. RunTruthful(n)
  <2>1. /\ n.pc = run[r].pc /\ n.planned = run[r].planned /\ n.block = run[r].block
        /\ n.details = run[r].details /\ n.batch = run[r].batch
    BY RunOf DEF Run
  <2> HIDE DEF n, page
  <2> QED
    BY <1>4, <1>5, <2>1, RunOf DEF RunTruthful, Truthful
<1>7. RunsTruthful'
  <2> HIDE DEF n
  <2> QED
    BY <1>1, <1>6, Continued DEF n, Inv, FetchPage, world
<1>8. failures' \in 0 .. MaxFailures
  BY <1>1, Counted DEF Inv, WorldTyped
<1> QED
  BY <1>7, <1>8, StoredKept, FeedKept DEF Inv, WorldTyped, FetchPage, world, tables

\* Putting a row that shows only a posted result into the table.
LEMMA StoredRow ==
    ASSUME Inv, sams' = sams, NEW m \in Matches, NEW row \in Row, row.done => m \in Posted,
           stored' = [stored EXCEPT ![m] = row]
    PROVE  StoredTruthful'
<1>1. Posted' = Posted
  BY DEF Posted
<1>2. stored' \in [Matches -> Row \cup {Absent}]
  BY DEF Inv, StoredTruthful
<1>3. ASSUME NEW q \in Matches, stored'[q] # Absent, stored'[q].done PROVE q \in Posted
  <2>1. CASE q = m
    BY <1>3, <2>1 DEF Inv, StoredTruthful
  <2>2. CASE q # m
    BY <1>3, <2>2 DEF Inv, StoredTruthful
  <2> QED
    BY <2>1, <2>2
<1> QED
  BY <1>1, <1>2, <1>3 DEF StoredTruthful

\* A row of the page a run holds.
LEMMA PageRow ==
    ASSUME Inv, NEW r \in Runs, NEW m \in DOMAIN run[r].page
    PROVE  /\ m \in Matches
           /\ run[r].page[m] \in Row
           /\ run[r].page[m].done => m \in Posted
<1>1. run[r].page \in Rows /\ ResultsIn(run[r].page) \subseteq Posted
  BY RunOf DEF Truthful, Run
<1> QED
  BY <1>1, RowsShape DEF ResultsIn

LEMMA SaveRowInv ==
    ASSUME Inv, NEW r \in Runs, SaveRow(r)
    PROVE  Inv'
<1>1. PICK m \in DOMAIN run[r].page :
        /\ stored' = [stored EXCEPT ![m] = run[r].page[m]]
        /\ Continue(r, [run[r] EXCEPT
              !.planned = WithRow(@, m, run[r].page[m]),
              !.page = [n \in DOMAIN @ \ {m} |-> @[n]]])
  BY DEF SaveRow
<1> DEFINE row  == run[r].page[m]
           rest == [q \in DOMAIN run[r].page \ {m} |-> run[r].page[q]]
           plan == WithRow(run[r].planned, m, row)
           n    == [run[r] EXCEPT !.planned = plan, !.page = rest]
<1>2. m \in Matches /\ row \in Row /\ (row.done => m \in Posted)
  BY PageRow
<1>3. plan \in Rows /\ ResultsIn(plan) \subseteq Posted
  <2>1. run[r].planned \in Rows /\ ResultsIn(run[r].planned) \subseteq Posted
    BY RunOf DEF Truthful, Run
  <2> QED
    BY <1>2, <2>1, WithRowTruthful
<1>4. rest \in Rows /\ ResultsIn(rest) \subseteq Posted
  <2>1. rest \in [DOMAIN run[r].page \ {m} -> Row]
    BY PageRow
  <2>2. DOMAIN run[r].page \ {m} \in SUBSET Matches
    BY PageRow
  <2>3. rest \in Rows
    BY <2>1, <2>2, RowsIntro
  <2> QED
    BY <2>3, PageRow DEF ResultsIn
<1>5. n \in Run /\ n.planned = plan /\ n.page = rest
  <2> HIDE DEF plan, rest
  <2> QED
    BY <1>3, <1>4, RunOf DEF Run
<1>6. RunTruthful(n)
  <2>1. n.pc = "list" /\ n.details = run[r].details /\ n.batch = run[r].batch
    BY RunOf DEF Run, SaveRow
  <2> HIDE DEF n, plan, rest
  <2> QED
    BY <1>3, <1>4, <1>5, <2>1, RunOf DEF RunTruthful, Truthful
<1>7. RunsTruthful'
  <2> HIDE DEF n
  <2> QED
    BY <1>1, <1>6, Continued DEF n, Inv, SaveRow, world
<1>8. StoredTruthful'
  BY <1>1, <1>2, StoredRow DEF SaveRow, world
<1> QED
  BY <1>7, <1>8, FeedKept DEF Inv, WorldTyped, SaveRow, world

LEMMA EndListingInv ==
    ASSUME Inv, NEW r \in Runs, EndListing(r)
    PROVE  Inv'
<1> DEFINE b == [run[r] EXCEPT !.listing = Absent]
<1>1. Truthful(b, Posted)
  <2>1. b \in Run
    BY RunOf DEF Run
  <2> QED
    BY <2>1, RunOf, FieldsTruthful DEF Run
<1>2. RunTruthful(NextClub(run[r])) /\ RunTruthful(NextLeague(b))
  <2> HIDE DEF b
  <2> QED
    BY <1>1, RunOf, NextClubTruthful, NextLeagueTruthful DEF RunTruthful
<1>3. CASE run[r].listing = Absent
  <2>1. Continue(r, NextClub(run[r])) /\ listedAt' = listedAt
    BY <1>3 DEF EndListing
  <2>2. RunsTruthful'
    BY <1>2, <2>1, Continued DEF Inv, EndListing, world
  <2> QED
    BY <2>1, <2>2, StoredKept, FeedKept DEF Inv, WorldTyped, EndListing, world
<1>4. CASE run[r].listing # Absent
  <2>1. Continue(r, NextLeague(b)) /\ listedAt' = [listedAt EXCEPT ![run[r].listing] = now]
    BY <1>4 DEF EndListing
  <2>2. RunsTruthful'
    <3> HIDE DEF b
    <3> QED
      BY <1>2, <2>1, Continued DEF Inv, EndListing, world
  <2>3. listedAt' \in [Leagues -> Instants \cup {Never}]
    BY <2>1 DEF Inv, WorldTyped
  <2> QED
    BY <2>2, <2>3, StoredKept, FeedKept DEF Inv, WorldTyped, EndListing, world
<1> QED
  BY <1>3, <1>4

LEMMA PlanInv ==
    ASSUME Inv, NEW r \in Runs, Plan(r)
    PROVE  Inv'
<1>1. Continue(r, EnsureLeagueSchedules(run[r], hotRegisteredClubLeagueUuids(run[r])))
  BY DEF Plan
<1>2. hotRegisteredClubLeagueUuids(run[r]) \in SUBSET Leagues
  BY RunOf, PlanTyped
<1>3. RunTruthful(EnsureLeagueSchedules(run[r], hotRegisteredClubLeagueUuids(run[r])))
  BY <1>2, RunOf, EnsureLeagueSchedulesTruthful DEF RunTruthful
<1>4. RunsTruthful'
  BY <1>1, <1>3, Continued DEF Inv, Plan, world
<1> QED
  BY <1>4, StoredKept, FeedKept DEF Inv, WorldTyped, Plan, world, tables

LEMMA BeginBlockInv ==
    ASSUME Inv, NEW r \in Runs, BeginBlock(r)
    PROVE  Inv'
<1>1. PICK b \in run[r].blocks :
        Continue(r, [run[r] EXCEPT !.pc = "detail", !.block = b, !.left = b.matches])
  BY DEF BeginBlock
<1> DEFINE n == [run[r] EXCEPT !.pc = "detail", !.block = b, !.left = b.matches]
<1>2. b \in MatchBlock /\ b.matches \subseteq Matches
  BY RunOf DEF Run, MatchBlock
<1>3. n \in Run /\ n.block = b
  <2>1. run[r] \in Run
    BY RunOf
  <2> QED
    BY <1>2, <2>1 DEF Run, RunPcs
<1>4. RunTruthful(n)
  BY <1>2, <1>3, RunOf, FieldsTruthful DEF RunTruthful, Run
<1>5. RunsTruthful'
  <2> HIDE DEF n
  <2> QED
    BY <1>1, <1>4, Continued DEF n, Inv, BeginBlock, world
<1> QED
  BY <1>5, StoredKept, FeedKept DEF Inv, WorldTyped, BeginBlock, world, tables

LEMMA FetchDetailInv ==
    ASSUME Inv, NEW r \in Runs, FetchDetail(r)
    PROVE  Inv'
<1>1. PICK m \in run[r].left, ok \in Answers :
        /\ LET s == [run[r] EXCEPT !.left = @ \ {m}]
           IN  Continue(r, IF ok THEN [s EXCEPT !.page = OneRow(m, sams[m])]
                           ELSE NextMatch([s EXCEPT !.clean = FALSE]))
        /\ Count(ok)
  BY DEF FetchDetail
<1> DEFINE s    == [run[r] EXCEPT !.left = @ \ {m}]
           page == OneRow(m, sams[m])
           a    == [s EXCEPT !.page = page]
           b    == [s EXCEPT !.clean = FALSE]
           n    == IF ok THEN a ELSE NextMatch(b)
<1>2. run[r] \in Run /\ run[r].pc = "detail" /\ run[r].block \in MatchBlock
  BY RunOf DEF FetchDetail
<1>3. s \in Run /\ Truthful(s, Posted) /\ s.pc = "detail" /\ s.block \in MatchBlock
  <2>1. s \in Run
    BY <1>2 DEF Run
  <2>2. Truthful(s, Posted)
    BY <1>2, <2>1, RunOf, FieldsTruthful DEF Run
  <2> QED
    BY <1>2, <2>1, <2>2 DEF Run
<1>4. page \in Rows /\ ResultsIn(page) \subseteq Posted
  <2>1. m \in Matches
    BY <1>2 DEF Run
  <2>2. sams[m] \in Row /\ (sams[m].done => m \in Posted)
    BY <2>1, SamsRow
  <2>3. page \in Rows /\ DOMAIN page = {m} /\ page[m] = sams[m]
    BY <2>1, <2>2, OneRowTyped
  <2> QED
    BY <2>2, <2>3 DEF ResultsIn
<1>5. RunTruthful(a)
  <2> HIDE DEF s, page
  <2>1. a \in Run
    BY <1>3, <1>4 DEF Run
  <2>2. /\ a.pc = s.pc /\ a.planned = s.planned /\ a.block = s.block /\ a.page = page
        /\ a.details = s.details /\ a.batch = s.batch
    BY <1>3 DEF Run
  <2> HIDE DEF a
  <2> QED
    BY <1>3, <1>4, <2>1, <2>2 DEF RunTruthful, Truthful
<1>6. RunTruthful(NextMatch(b))
  <2> HIDE DEF s
  <2>1. b \in Run /\ b.block = s.block
    BY <1>3 DEF Run
  <2>2. Truthful(b, Posted)
    BY <1>3, <2>1, FieldsTruthful DEF Run
  <2> HIDE DEF b
  <2> QED
    BY <1>3, <2>1, <2>2, NextMatchTruthful DEF RunTruthful
<1>7. RunTruthful(n)
  <2> HIDE DEF a, b
  <2> QED
    BY <1>5, <1>6
<1>8. RunsTruthful'
  <2> HIDE DEF n
  <2> QED
    BY <1>1, <1>7, Continued DEF n, Inv, FetchDetail, world
<1>9. failures' \in 0 .. MaxFailures
  BY <1>1, Counted DEF Inv, WorldTyped
<1> QED
  BY <1>8, <1>9, StoredKept, FeedKept DEF Inv, WorldTyped, FetchDetail, world, tables

LEMMA StoreDetailInv ==
    ASSUME Inv, NEW r \in Runs, StoreDetail(r)
    PROVE  Inv'
<1>1. PICK m \in DOMAIN run[r].page :
        /\ stored' = [stored EXCEPT ![m] = run[r].page[m]]
        /\ Continue(r, NextMatch([run[r] EXCEPT
              !.page = NoRows, !.details = WithRow(@, m, run[r].page[m])]))
  BY DEF StoreDetail
<1> DEFINE row     == run[r].page[m]
           details == WithRow(run[r].details, m, row)
           n       == [run[r] EXCEPT !.page = NoRows, !.details = details]
<1>2. m \in Matches /\ row \in Row /\ (row.done => m \in Posted)
  BY PageRow
<1>3. details \in Rows /\ ResultsIn(details) \subseteq Posted
  <2>1. run[r].details \in Rows /\ ResultsIn(run[r].details) \subseteq Posted
    BY RunOf DEF Truthful, Run
  <2> QED
    BY <1>2, <2>1, WithRowTruthful
<1>4. n \in Run /\ n.page = NoRows /\ n.details = details /\ n.block = run[r].block
  <2> HIDE DEF details
  <2> QED
    BY <1>3, NoRowsTyped, RunOf DEF Run
<1>5. Truthful(n, Posted) /\ n.block \in MatchBlock
  <2>1. n.planned = run[r].planned /\ n.batch = run[r].batch
    BY RunOf DEF Run
  <2> HIDE DEF n, details
  <2> QED
    BY <1>3, <1>4, <2>1, RunOf, NoRowsTyped DEF Truthful, StoreDetail
<1>6. RunTruthful(NextMatch(n))
  <2> HIDE DEF n
  <2> QED
    BY <1>5, NextMatchTruthful DEF RunTruthful
<1>7. RunsTruthful'
  <2> HIDE DEF n
  <2> QED
    BY <1>1, <1>6, Continued DEF n, Inv, StoreDetail, world
<1>8. StoredTruthful'
  BY <1>1, <1>2, StoredRow DEF StoreDetail, world
<1> QED
  BY <1>7, <1>8, FeedKept DEF Inv, WorldTyped, StoreDetail, world

LEMMA ResolveSeasonInv ==
    ASSUME Inv, NEW r \in Runs, ResolveSeason(r)
    PROVE  Inv'
<1>1. PICK ok \in IF SeasonStored THEN {TRUE} ELSE Answers :
        /\ Continue(r, IF ok THEN EnterRankings(run[r], leagueUuidsFromPlanned(run[r].planned))
                       ELSE EnterSchedules([run[r] EXCEPT !.clean = FALSE]))
        /\ Count(ok)
  BY DEF ResolveSeason
<1> DEFINE b == [run[r] EXCEPT !.clean = FALSE]
           n == IF ok THEN EnterRankings(run[r], leagueUuidsFromPlanned(run[r].planned))
                ELSE EnterSchedules(b)
<1>2. Truthful(b, Posted)
  <2>1. b \in Run
    BY RunOf DEF Run
  <2> QED
    BY <2>1, RunOf, FieldsTruthful DEF Run
<1>3. leagueUuidsFromPlanned(run[r].planned) \in SUBSET Leagues
  BY RunOf, PlanTyped
<1>4. RunTruthful(n)
  <2> HIDE DEF b
  <2> QED
    BY <1>2, <1>3, RunOf, EnterRankingsTruthful, EnterSchedulesTruthful DEF RunTruthful
<1>5. RunsTruthful'
  <2> HIDE DEF n
  <2> QED
    BY <1>1, <1>4, Continued DEF n, Inv, ResolveSeason, world
<1>6. failures' \in 0 .. MaxFailures
  BY <1>1, CountedSeason DEF Inv, WorldTyped
<1> QED
  BY <1>5, <1>6, StoredKept, FeedKept DEF Inv, WorldTyped, ResolveSeason, world, tables

LEMMA ClubsRegistered ==
    ASSUME NEW s, NEW l
    PROVE  /\ interestedRegisteredClubUuids(s.planned, l) \subseteq RegisteredClubs
           /\ AffectedClubs(s) \subseteq RegisteredClubs
<1>1. interestedRegisteredClubUuids(s.planned, l) \subseteq RegisteredClubs
  BY Zenon DEF interestedRegisteredClubUuids
<1>2. ASSUME NEW c \in AffectedClubs(s) PROVE c \in RegisteredClubs
  <2>1. CASE s.boot \/ s.mode = "snapshot"
    BY <2>1, Zenon DEF AffectedClubs
  <2>2. CASE ~(s.boot \/ s.mode = "snapshot")
    BY <2>2, Zenon DEF AffectedClubs
  <2> QED
    BY <2>1, <2>2
<1> QED
  BY <1>1, <1>2

LEMMA SourcesTyped ==
    ASSUME NEW s \in Run, NEW l \in Leagues
    PROVE  RankingSources(s, l) \subseteq BlockIds \cup {Absent}
<1>1. s.planned \in Rows
  BY DEF Run
<1>2. \A d \in Decisions(s) : d.block \in MatchBlock
  BY <1>1, BlocksTyped, DecisionOfBlock DEF Decisions, planMatchRefresh
<1>3. \A d \in Decisions(s) : d.block.id \in BlockIds
  BY <1>2 DEF MatchBlock
<1> QED
  BY <1>3 DEF RankingSources, rankingDueLeagueDecisions

LEMMA FetchRankingInv ==
    ASSUME Inv, NEW r \in Runs, FetchRanking(r)
    PROVE  Inv'
<1> DEFINE Event(l, ok, source) ==
             [kind    |-> "ranking",
              league  |-> l,
              source  |-> source,
              clubs   |-> interestedRegisteredClubUuids(run[r].planned, l),
              results |-> IF ok THEN Table(run[r], l) ELSE {},
              ok      |-> ok]
           After(l, ok, source) ==
             [run[r] EXCEPT !.leagues = @ \ {l}, !.batch = @ \cup {Event(l, ok, source)},
                            !.clean = @ /\ ok]
<1>0. PICK l \in run[r].leagues, ok \in Answers :
        /\ \E source \in RankingSources(run[r], l) :
             Continue(r, IF After(l, ok, source).leagues = {}
                         THEN EnterSchedules(After(l, ok, source)) ELSE After(l, ok, source))
        /\ Count(ok)
  BY DEF FetchRanking
<1>1. PICK source \in RankingSources(run[r], l) :
        Continue(r, IF After(l, ok, source).leagues = {}
                    THEN EnterSchedules(After(l, ok, source)) ELSE After(l, ok, source))
  BY <1>0
<1> DEFINE clubs   == interestedRegisteredClubUuids(run[r].planned, l)
           results == IF ok THEN Table(run[r], l) ELSE {}
           e == [kind |-> "ranking", league |-> l, source |-> source,
                 clubs |-> clubs, results |-> results, ok |-> ok]
           s == [run[r] EXCEPT !.leagues = @ \ {l}, !.batch = @ \cup {e},
                               !.clean = @ /\ ok]
           n == IF s.leagues = {} THEN EnterSchedules(s) ELSE s
<1>2. run[r] \in Run /\ run[r].pc = "rankings" /\ l \in Leagues /\ ok \in BOOLEAN
  BY RunOf, AnswerKinds DEF FetchRanking, Run
<1>3. results \subseteq Posted /\ results \subseteq Matches
  BY PostedTyped DEF Table
<1>4. e \in RankingEvent
  <2>1. clubs \subseteq Clubs
    BY ClubsRegistered, RefreshAssumption DEF RefreshAssumption
  <2>2. source \in BlockIds \cup {Absent}
    BY <1>2, SourcesTyped
  <2> HIDE DEF clubs, results
  <2> QED
    BY <1>2, <1>3, <2>1, <2>2 DEF RankingEvent
<1>5. EventResults(e) \subseteq Posted
  BY <1>3 DEF EventResults
<1>6. s \in Run /\ s.batch = run[r].batch \cup {e} /\ s.pc = "rankings"
  <2>1. (run[r].clean /\ ok) \in BOOLEAN
    BY <1>2
  <2> HIDE DEF e
  <2> QED
    BY <1>2, <1>4, <2>1 DEF Run
<1>7. Truthful(s, Posted)
  <2>1. s.planned = run[r].planned /\ s.page = run[r].page /\ s.details = run[r].details
    BY <1>2 DEF Run
  <2> HIDE DEF s, e
  <2> QED
    BY <1>5, <1>6, <2>1, RunOf DEF Truthful
<1>8. RunTruthful(n)
  <2> HIDE DEF s
  <2> QED
    BY <1>6, <1>7, EnterSchedulesTruthful DEF RunTruthful
<1>9. RunsTruthful'
  <2> HIDE DEF n
  <2> QED
    BY <1>1, <1>8, Continued DEF n, Inv, FetchRanking, world
<1>10. failures' \in 0 .. MaxFailures
  BY <1>0, Counted DEF Inv, WorldTyped
<1> QED
  BY <1>9, <1>10, StoredKept, FeedKept DEF Inv, WorldTyped, FetchRanking, world, tables

LEMMA ClubScheduleTruthful ==
    ASSUME Inv, NEW s, NEW c
    PROVE  ClubSchedule(s, c) \in Rows /\ ResultsIn(ClubSchedule(s, c)) \subseteq Posted
<1> DEFINE ms == {m \in ClubMatches(c) :
                   stored[m] # Absent /\ (s.mode = "snapshot" \/ InScheduleWindow(stored[m], now))}
<1>1. ms \in SUBSET Matches /\ \A m \in ms : stored[m] # Absent
  BY DEF ClubMatches
<1>2. ClubSchedule(s, c) = [m \in ms |-> stored[m]]
  BY DEF ClubSchedule
<1> HIDE DEF ms
<1>3. ClubSchedule(s, c) \in [ms -> Row]
  BY <1>1, <1>2 DEF Inv, StoredTruthful
<1>4. ClubSchedule(s, c) \in Rows
  BY <1>1, <1>3, RowsIntro
<1> QED
  BY <1>1, <1>2, <1>4 DEF Inv, StoredTruthful, ResultsIn

LEMMA BuildSchedulesInv ==
    ASSUME Inv, NEW r \in Runs, BuildSchedules(r)
    PROVE  Inv'
<1> DEFINE events == buildClubMatchScheduleEvents(run[r])
<1>1. PICK ok \in IF SeasonStored THEN {TRUE} ELSE Answers :
        /\ Continue(r, [run[r] EXCEPT !.pc = "publish", !.clean = @ /\ ok,
                                      !.batch = IF ok THEN @ \cup events ELSE @])
        /\ Count(ok)
  BY DEF BuildSchedules
<1> DEFINE batch == IF ok THEN run[r].batch \cup events ELSE run[r].batch
           n == [run[r] EXCEPT !.pc = "publish", !.clean = @ /\ ok, !.batch = batch]
<1>2. run[r] \in Run /\ ok \in BOOLEAN
  <2>1. ok \in Answers
    BY DEF Answers
  <2> QED
    BY <2>1, RunOf, AnswerKinds
<1>3. \A e \in events : e \in ScheduleEvent /\ EventResults(e) \subseteq Posted
  <2> SUFFICES ASSUME NEW c \in AffectedClubs(run[r]) \cap StoredClubs
               PROVE  LET e == [kind |-> "schedule", club |-> c, rows |-> ClubSchedule(run[r], c),
                                cachedAt |-> now]
                      IN  e \in ScheduleEvent /\ EventResults(e) \subseteq Posted
    BY DEF buildClubMatchScheduleEvents
  <2>1. c \in RegisteredClubs /\ now \in Instants
    BY ClubsRegistered DEF Inv, WorldTyped
  <2> QED
    BY <2>1, ClubScheduleTruthful DEF ScheduleEvent, EventResults
<1>4. /\ batch \in SUBSET (BlockEvent \cup RankingEvent \cup ScheduleEvent)
      /\ \A e \in batch : EventResults(e) \subseteq Posted
  <2> HIDE DEF events
  <2> QED
    BY <1>2, <1>3, RunOf DEF Truthful, Run
<1>5. n \in Run /\ n.batch = batch /\ n.pc = "publish"
  <2>1. (run[r].clean /\ ok) \in BOOLEAN
    BY <1>2
  <2> HIDE DEF batch
  <2> QED
    BY <1>2, <1>4, <2>1 DEF Run, RunPcs
<1>6. RunTruthful(n)
  <2>1. n.planned = run[r].planned /\ n.page = run[r].page /\ n.details = run[r].details
    BY <1>2 DEF Run
  <2> HIDE DEF n, batch
  <2> QED
    BY <1>4, <1>5, <2>1, RunOf DEF RunTruthful, Truthful
<1>7. RunsTruthful'
  <2> HIDE DEF n, events
  <2> QED
    BY <1>1, <1>6, Continued DEF n, Inv, BuildSchedules, world
<1>8. failures' \in 0 .. MaxFailures
  BY <1>1, CountedSeason DEF Inv, WorldTyped
<1> QED
  BY <1>7, <1>8, StoredKept, FeedKept DEF Inv, WorldTyped, BuildSchedules, world, tables

\* Whatever part of a batch arrives, consumers are shown posted results only.
LEMMA DeliveredTruthful ==
    ASSUME Inv, NEW r \in Runs, NEW events \in SUBSET run[r].batch,
           sams' = sams, feed' = Delivered(events)
    PROVE  FeedTruthful'
<1> DEFINE sch(c) == {e \in ScheduleEvents(events) : e.club = c}
           tab(l) == {e \in RankingEvents(events) : e.league = l}
           schedule(c) == IF sch(c) = {} THEN feed.schedules[c] ELSE (CHOOSE e \in sch(c) : TRUE).rows
           table(l) == IF tab(l) = {} THEN feed.rankings[l] ELSE (CHOOSE e \in tab(l) : TRUE).results
<1>1. feed' = [schedules |-> [c \in RegisteredClubs |-> schedule(c)],
               rankings  |-> [l \in Leagues |-> table(l)]]
  BY DEF Delivered
<1>2. \A e \in events : /\ e \in BlockEvent \cup RankingEvent \cup ScheduleEvent
                        /\ EventResults(e) \subseteq Posted
  BY RunOf DEF Truthful, Run
<1>3. ASSUME NEW c \in RegisteredClubs
      PROVE  schedule(c) \in Rows /\ ResultsIn(schedule(c)) \subseteq Posted
  <2>1. CASE sch(c) = {}
    BY <2>1 DEF Inv, FeedTruthful, NoPhantomResults
  <2>2. CASE sch(c) # {}
    <3> DEFINE e == CHOOSE x \in sch(c) : TRUE
    <3>1. e \in sch(c)
      BY <2>2
    <3>2. e \in events /\ e.kind = "schedule"
      BY <3>1 DEF ScheduleEvents
    <3> HIDE DEF e
    <3>3. e \in ScheduleEvent
      BY <1>2, <3>2 DEF BlockEvent, RankingEvent
    <3>4. e.rows \in Rows /\ ResultsIn(e.rows) \subseteq Posted
      BY <1>2, <3>2, <3>3 DEF EventResults, ScheduleEvent
    <3> QED
      BY <2>2, <3>4 DEF e
  <2> QED
    BY <2>1, <2>2
<1>4. ASSUME NEW l \in Leagues
      PROVE  table(l) \in SUBSET Matches /\ table(l) \subseteq Posted
  <2>1. CASE tab(l) = {}
    BY <2>1 DEF Inv, FeedTruthful, NoPhantomResults
  <2>2. CASE tab(l) # {}
    <3> DEFINE e == CHOOSE x \in tab(l) : TRUE
    <3>1. e \in tab(l)
      BY <2>2
    <3>2. e \in events /\ e.kind = "ranking"
      BY <3>1 DEF RankingEvents
    <3> HIDE DEF e
    <3>3. e \in RankingEvent
      BY <1>2, <3>2 DEF BlockEvent, ScheduleEvent
    <3>4. e.results \in SUBSET Matches /\ e.results \subseteq Posted
      BY <1>2, <3>2, <3>3 DEF EventResults, RankingEvent
    <3> QED
      BY <2>2, <3>4 DEF e
  <2> QED
    BY <2>1, <2>2
<1>5. Posted' = Posted
  BY DEF Posted
<1> HIDE DEF schedule, table
<1>6. feed' \in [schedules : [RegisteredClubs -> Rows], rankings : [Leagues -> SUBSET Matches]]
  BY <1>1, <1>3, <1>4
<1>7. /\ \A c \in RegisteredClubs : feed'.schedules[c] = schedule(c)
      /\ \A l \in Leagues : feed'.rankings[l] = table(l)
  BY <1>1
<1> QED
  BY <1>3, <1>4, <1>5, <1>6, <1>7 DEF FeedTruthful, NoPhantomResults

LEMMA PublishInv ==
    ASSUME Inv, NEW r \in Runs, Publish(r)
    PROVE  Inv'
<1> DEFINE n == [run[r] EXCEPT !.pc = "record"]
<1>1. n \in Run
  BY RunOf DEF Run, RunPcs
<1>2. RunTruthful(n)
  BY <1>1, RunOf, FieldsTruthful DEF RunTruthful, Run
<1>3. RunsTruthful'
  <2> HIDE DEF n
  <2> QED
    BY <1>2, Continued DEF n, Inv, Publish, world
<1>4. FeedTruthful'
  BY DeliveredTruthful DEF Publish, world
<1> QED
  BY <1>3, <1>4, StoredKept DEF Inv, WorldTyped, Publish, world, tables

\* A run that is over leaves nothing behind.
LEMMA RunOver ==
    ASSUME Inv, NEW r \in Runs, Continue(r, IdleRun), sams' = sams
    PROVE  RunsTruthful'
<1>1. RunTruthful(IdleRun)
  BY IdleTruthful DEF RunTruthful, IdleRun
<1> QED
  BY <1>1, Continued DEF Inv

LEMMA EndsInv ==
    ASSUME Inv, NEW r \in Runs, Ends(r), FeedTruthful'
    PROVE  Inv'
<1>1. status' \in [Modes -> {"none", "success", "failure"}]
  BY DEF Ends, Inv, WorldTyped
<1>2. failures' \in 0 .. MaxFailures
  BY RefreshAssumption DEF RefreshAssumption, Ends, Inv, WorldTyped
<1>3. RunsTruthful'
  BY RunOver DEF Ends, world
<1> QED
  BY <1>1, <1>2, <1>3, StoredKept DEF Inv, WorldTyped, Ends, world

LEMMA PublishFailsInv ==
    ASSUME Inv, NEW r \in Runs, PublishFails(r)
    PROVE  Inv'
<1>1. PICK sent \in SUBSET run[r].batch : feed' = Delivered(sent)
  BY DEF PublishFails
<1>2. FeedTruthful'
  BY <1>1, DeliveredTruthful DEF PublishFails, Ends, world
<1> QED
  BY <1>2, EndsInv DEF PublishFails

LEMMA RecordInv ==
    ASSUME Inv, NEW r \in Runs, Record(r)
    PROVE  Inv'
<1>1. status' \in [Modes -> {"none", "success", "failure"}]
  BY DEF Record, Inv, WorldTyped
<1>2. RunsTruthful'
  BY RunOver DEF Record, world
<1> QED
  BY <1>1, <1>2, StoredKept, FeedKept DEF Inv, WorldTyped, Record, world

LEMMA RunFailsInv ==
    ASSUME Inv, NEW r \in Runs, RunFails(r)
    PROVE  Inv'
  BY EndsInv, FeedKept DEF RunFails, Ends, world, Inv

-----------------------------------------------------------------------------

LEMMA StutterInv == Inv /\ UNCHANGED vars => Inv'
<1> SUFFICES ASSUME Inv, UNCHANGED vars PROVE Inv'
  OBVIOUS
<1>1. Posted' = Posted
  BY DEF vars, Posted
<1> QED
  BY <1>1, WorldStep DEF vars, Inv, WorldTyped

LEMMA NextInv == Inv /\ [Next]_vars => Inv'
<1> SUFFICES ASSUME Inv, [Next]_vars PROVE Inv'
  OBVIOUS
<1>1. CASE Tick
  BY <1>1, TickInv
<1>2. CASE \E m \in Matches : PostResult(m)
  BY <1>2, PostResultInv
<1>3. CASE \E m \in Matches, f \in Fixtures : MoveMatch(m, f)
  BY <1>3, MoveMatchInv
<1>4. CASE \E r \in Runs, mode \in Modes : Start(r, mode)
  BY <1>4, StartInv
<1>5. ASSUME NEW r \in Runs, Step(r) PROVE Inv'
  BY <1>5, FetchScheduleForClubsInv, QueryClubInv, FetchSeasonsInv, QueryLeagueInv,
     FetchPageInv, SaveRowInv, EndListingInv, PlanInv, BeginBlockInv, FetchDetailInv,
     StoreDetailInv, ResolveSeasonInv, FetchRankingInv, BuildSchedulesInv, PublishInv,
     PublishFailsInv, RecordInv DEF Step
<1>6. CASE \E r \in Runs : RunFails(r)
  BY <1>6, RunFailsInv
<1>7. CASE UNCHANGED vars
  BY <1>7, StutterInv
<1> QED
  BY <1>1, <1>2, <1>3, <1>4, <1>5, <1>6, <1>7 DEF Next

\* The rows, the runs and the events of refresh-matches.ts are well formed at all
\* times, for every number of runs in flight.
THEOREM TypeCorrect == Spec => []TypeOK
<1>1. Spec => []Inv
  BY InitInv, NextInv, PTL DEF Spec
<1> QED
  BY <1>1, InvTyped, PTL

\* No schedule and no ranking that consumers hold shows a result SAMS did not post,
\* whatever runs overlap, fail or put older rows back into the table.
THEOREM NoPhantoms == Spec => []NoPhantomResults
<1>1. Spec => []Inv
  BY InitInv, NextInv, PTL DEF Spec
<1>2. Inv => NoPhantomResults
  BY DEF Inv, FeedTruthful
<1> QED
  BY <1>1, <1>2, PTL
=============================================================================
