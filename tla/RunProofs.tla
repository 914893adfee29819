----------------------------- MODULE RunProofs ------------------------------
(***************************************************************************)
(* What a run of MatchRefresh sends, followed from its plan to its last    *)
(* event.                                                                  *)
(*                                                                         *)
(* RankingCoversBlocks: the block events of a run come from blocks that    *)
(* were due, a due block in a ranking state has its league among the       *)
(* leagues to rank, and the table is asked for after the last match of the *)
(* block was fetched, when everything the block event shows was posted.    *)
(*                                                                         *)
(* OnlyRegisteredBlocks: every due block of a registered club has its      *)
(* event before the first ranking is asked for, so the block a league is   *)
(* ranked in the name of is one of them.                                   *)
(*                                                                         *)
(* SnapshotCatchesUp and ResultStays, when runs do not overlap: the table  *)
(* holds every result that a run has seen, and the schedules are built     *)
(* from the table.                                                         *)
(*                                                                         *)
(* ScheduleCoversBlocks, when runs do not overlap: blocks share no match,  *)
(* so a row that a block event shows is still in the table when the        *)
(* schedules are built from it.                                            *)
(***************************************************************************)
EXTENDS MatchRefreshProofs

Covered(batch, b) ==
    \E t \in RankingEvents(batch) :
        t.league = b.league /\ (t.ok => ResultsIn(b.details) \subseteq t.results)

\* A block event shows matches of its league only.
OwnLeague(batch) ==
    \A b \in BlockEvents(batch) : ResultsIn(b.details) \subseteq LeagueMatches(b.league)

\* Every block event of a ranking state has its ranking, or ls holds its league.
AllRanked(batch, ls) ==
    \A b \in BlockEvents(batch) : b.state \in RankingStates =>
        b.league \in ls \/ Covered(batch, b)

Fresh(s) == s.batch = {} /\ s.page = NoRows /\ s.details = NoRows

Refreshing(s) ==
    /\ s.blocks \subseteq DueBlocks(s)
    /\ OwnLeague(s.batch)
    /\ AllRanked(s.batch, RankingLeagues(Decisions(s)))

InBlock(s) ==
    /\ s.block \in DueBlocks(s)
    /\ s.left \subseteq s.block.matches
    /\ DOMAIN s.page \subseteq s.block.matches
    /\ DOMAIN s.details \subseteq s.block.matches

Covers(s) ==
    /\ s.pc \in {"idle", "schedule", "clubs", "seasons", "leagues", "plan", "season"} => Fresh(s)
    /\ s.pc = "list" => s.batch = {} /\ s.details = NoRows
    /\ s.pc = "blocks" => s.page = NoRows /\ s.details = NoRows /\ Refreshing(s)
    /\ s.pc = "detail" => Refreshing(s) /\ InBlock(s)
    /\ s.pc = "rankings" => OwnLeague(s.batch) /\ AllRanked(s.batch, s.leagues)
    /\ s.pc \in {"schedules", "publish", "record"} => AllRanked(s.batch, {})

-----------------------------------------------------------------------------
(* The plan of a run.                                                      *)

LEMMA SamePlan ==
    ASSUME NEW s, NEW n, n.planned = s.planned, n.at = s.at
    PROVE  DueBlocks(n) = DueBlocks(s) /\ Decisions(n) = Decisions(s)
  BY DEF DueBlocks, Decisions

LEMMA DueBlockLeague ==
    ASSUME NEW s, NEW b \in DueBlocks(s)
    PROVE  b.matches \cap Matches \subseteq LeagueMatches(b.league)
<1>1. PICK d \in Decisions(s) : b = d.block
  BY DEF DueBlocks, dueRefreshDecisions
<1>2. b \in buildMatchBlocks(s.planned)
  BY <1>1, DecisionOfBlock DEF Decisions, planMatchRefresh
<1>3. PICK m \in Plannable(s.planned) : b = BlockOf(s.planned, m)
  BY <1>2 DEF buildMatchBlocks
<1>4. b.league = LeagueOf[m]
  BY <1>3 DEF BlockOf
<1>5. ASSUME NEW n \in b.matches PROVE LeagueOf[n] = LeagueOf[m]
  <2>1. matchBlockId(s.planned, n) = matchBlockId(s.planned, m)
    BY <1>3, <1>5 DEF BlockOf
  <2> QED
    BY <2>1 DEF matchBlockId
<1> QED
  BY <1>4, <1>5 DEF LeagueMatches

\* A due block whose decision is in a ranking state has its league ranked.
LEMMA DueBlockRanked ==
    ASSUME NEW s, NEW b \in DueBlocks(s), decideBlock(b, s.at).state \in RankingStates
    PROVE  b.league \in RankingLeagues(Decisions(s))
<1>1. PICK d \in Decisions(s) : d.shouldRefreshMatches /\ b = d.block
  BY DEF DueBlocks, dueRefreshDecisions
<1>2. PICK x \in buildMatchBlocks(s.planned) : d = decideBlock(x, s.at)
  BY DEF Decisions, planMatchRefresh
<1>3. x = b
  BY <1>1, <1>2, DecisionOfBlock
<1>4. d.shouldRefreshRankings
  BY <1>1, <1>2, <1>3 DEF decideBlock
<1> QED
  BY <1>1, <1>4 DEF RankingLeagues

-----------------------------------------------------------------------------
(* What follows a step.                                                    *)

LEMMA EnterSchedulesCovers ==
    ASSUME NEW s \in Run, AllRanked(s.batch, {})
    PROVE  Covers(EnterSchedules(s))
<1> DEFINE pc == IF AffectedClubs(s) = {} THEN "publish" ELSE "schedules"
           n == [s EXCEPT !.pc = pc]
<1>1. pc \in {"schedules", "publish"}
  OBVIOUS
<1>2. n.pc = pc /\ n.batch = s.batch
  BY DEF Run
<1> HIDE DEF n, pc
<1>3. Covers(n)
  BY <1>1, <1>2 DEF Covers
<1> QED
  BY <1>3 DEF EnterSchedules, n, pc

LEMMA EnterRankingsCovers ==
    ASSUME NEW s \in Run, NEW ls \in SUBSET Leagues,
           OwnLeague(s.batch), AllRanked(s.batch, ls)
    PROVE  Covers(EnterRankings(s, ls))
<1>1. CASE ls = {}
  BY <1>1, EnterSchedulesCovers DEF EnterRankings
<1>2. CASE ls # {}
  <2> DEFINE n == [s EXCEPT !.pc = "rankings", !.leagues = ls]
  <2>1. n.pc = "rankings" /\ n.leagues = ls /\ n.batch = s.batch
    BY DEF Run
  <2> HIDE DEF n
  <2>2. Covers(n)
    BY <2>1 DEF Covers
  <2> QED
    BY <1>2, <2>2 DEF EnterRankings, n
<1> QED
  BY <1>1, <1>2

LEMMA NextBlockCovers ==
    ASSUME NEW s \in Run, s.page = NoRows, s.details = NoRows, Refreshing(s)
    PROVE  Covers(NextBlock(s))
<1>1. CASE s.blocks = {}
  BY <1>1, EnterRankingsCovers, PlanTyped DEF NextBlock, Refreshing
<1>2. CASE s.blocks # {}
  <2> DEFINE n == [s EXCEPT !.pc = "blocks"]
  <2>1. /\ n.pc = "blocks" /\ n.page = s.page /\ n.details = s.details
        /\ n.blocks = s.blocks /\ n.batch = s.batch /\ n.planned = s.planned /\ n.at = s.at
    BY DEF Run
  <2> HIDE DEF n
  <2>2. Covers(n)
    BY <2>1, SamePlan DEF Covers, Refreshing
  <2> QED
    BY <1>2, <2>2 DEF NextBlock, n
<1> QED
  BY <1>1, <1>2

LEMMA EnterDetailsCovers ==
    ASSUME NEW s \in Run, Fresh(s)
    PROVE  Covers(EnterDetails(s))
<1> DEFINE n == [s EXCEPT !.blocks = DueBlocks(s)]
<1>1. n \in Run
  BY PlanTyped DEF Run
<1>2. /\ n.page = NoRows /\ n.details = NoRows /\ n.batch = {} /\ n.blocks = DueBlocks(s)
      /\ n.planned = s.planned /\ n.at = s.at
  BY DEF Run, Fresh
<1> HIDE DEF n
<1>3. Refreshing(n)
  BY <1>2, SamePlan DEF Refreshing, OwnLeague, AllRanked, BlockEvents
<1> QED
  BY <1>1, <1>2, <1>3, NextBlockCovers DEF EnterDetails, n

\* Only the pc and fields that hold neither rows nor events change.
LEMMA FreshCovers ==
    ASSUME NEW s, NEW n, Fresh(s), n.batch = s.batch, n.page = s.page, n.details = s.details,
           n.pc \in {"schedule", "clubs", "seasons", "leagues", "list", "plan", "season"}
    PROVE  Covers(n)
  BY DEF Fresh, Covers

LEMMA AfterSchedulesCovers ==
    ASSUME NEW s \in Run, Fresh(s)
    PROVE  Covers(AfterSchedules(s))
<1>1. Covers([s EXCEPT !.pc = "season"])
  <2> DEFINE n == [s EXCEPT !.pc = "season"]
  <2>1. n.pc = "season" /\ n.batch = s.batch /\ n.page = s.page /\ n.details = s.details
    BY DEF Run
  <2> HIDE DEF n
  <2>2. Covers(n)
    BY <2>1, FreshCovers
  <2> QED
    BY <2>2 DEF n
<1>2. Covers([s EXCEPT !.pc = "plan", !.force = FALSE])
  <2> DEFINE n == [s EXCEPT !.pc = "plan", !.force = FALSE]
  <2>1. n.pc = "plan" /\ n.batch = s.batch /\ n.page = s.page /\ n.details = s.details
    BY DEF Run
  <2> HIDE DEF n
  <2>2. Covers(n)
    BY <2>1, FreshCovers
  <2> QED
    BY <2>2 DEF n
<1> QED
  BY <1>1, <1>2, EnterDetailsCovers DEF AfterSchedules

LEMMA EnsureLeagueSchedulesCovers ==
    ASSUME NEW s \in Run, Fresh(s), NEW ls \in SUBSET Leagues
    PROVE  Covers(EnsureLeagueSchedules(s, ls))
<1> DEFINE n == [s EXCEPT !.pc = "seasons", !.leagues = ls]
<1>1. n.pc = "seasons" /\ n.batch = s.batch /\ n.page = s.page /\ n.details = s.details
  BY DEF Run
<1> HIDE DEF n
<1>2. Covers(n)
  BY <1>1, FreshCovers
<1> QED
  BY <1>2, AfterSchedulesCovers DEF EnsureLeagueSchedules, n

LEMMA NextLeagueCovers ==
    ASSUME NEW s \in Run, Fresh(s)
    PROVE  Covers(NextLeague(s))
<1> DEFINE n == [s EXCEPT !.pc = "leagues"]
<1>1. n.pc = "leagues" /\ n.batch = s.batch /\ n.page = s.page /\ n.details = s.details
  BY DEF Run
<1> HIDE DEF n
<1>2. Covers(n)
  BY <1>1, FreshCovers
<1> QED
  BY <1>2, AfterSchedulesCovers DEF NextLeague, n

LEMMA NextClubCovers ==
    ASSUME NEW s \in Run, Fresh(s)
    PROVE  Covers(NextClub(s))
<1> DEFINE n == [s EXCEPT !.pc = "clubs"]
<1>1. n.pc = "clubs" /\ n.batch = s.batch /\ n.page = s.page /\ n.details = s.details
  BY DEF Run
<1> HIDE DEF n
<1>2. Covers(n)
  BY <1>1, FreshCovers
<1>3. leagueUuidsFromPlanned(s.planned) \in SUBSET Leagues
  BY PlanTyped
<1> QED
  BY <1>2, <1>3, EnsureLeagueSchedulesCovers DEF NextClub, n

LEMMA CloseBlockCovers ==
    ASSUME NEW s \in Run, Refreshing(s), InBlock(s), s.page = NoRows
    PROVE  Covers(CloseBlock(s))
<1> DEFINE state == decideBlock(s.block, s.at).state
           e == [kind    |-> "block",
                 id      |-> s.block.id,
                 league  |-> s.block.league,
                 clubs   |-> s.block.clubs,
                 state   |-> state,
                 details |-> s.details]
           n == [s EXCEPT !.batch = @ \cup {e}, !.blocks = @ \ {s.block},
                          !.block = Absent, !.details = NoRows]
<1>1. s.block \in MatchBlock
  BY PlanTyped DEF InBlock
<1>2. e \in BlockEvent
  <2>1. state \in States
    BY DecisionState
  <2>2. s.details \in Rows
    BY DEF Run
  <2> HIDE DEF state
  <2> QED
    BY <1>1, <2>1, <2>2 DEF MatchBlock, BlockEvent
<1>3. ResultsIn(s.details) \subseteq LeagueMatches(s.block.league)
  <2>1. ResultsIn(s.details) \subseteq s.block.matches \cap Matches
    BY <1>1 DEF ResultsIn, InBlock, MatchBlock
  <2> QED
    BY <2>1, DueBlockLeague DEF InBlock
<1>4. state \in RankingStates => s.block.league \in RankingLeagues(Decisions(s))
  BY DueBlockRanked DEF InBlock
<1>5. /\ e.kind = "block" /\ e.league = s.block.league
      /\ e.state = state /\ e.details = s.details
  OBVIOUS
<1> HIDE DEF e, state
<1>6. n \in Run
  BY <1>2, NoRowsTyped DEF Run
<1>7. /\ n.batch = s.batch \cup {e} /\ n.blocks = s.blocks \ {s.block}
      /\ n.page = NoRows /\ n.details = NoRows /\ n.planned = s.planned /\ n.at = s.at
  BY DEF Run
<1>8. CloseBlock(s) = NextBlock(n)
  BY DEF CloseBlock, e, state
<1> HIDE DEF n
<1>9. BlockEvents(n.batch) = BlockEvents(s.batch) \cup {e}
  BY <1>5, <1>7 DEF BlockEvents
<1>10. OwnLeague(n.batch)
  BY <1>3, <1>5, <1>9 DEF OwnLeague, Refreshing
<1>11. AllRanked(n.batch, RankingLeagues(Decisions(s)))
  <2>1. \A b \in BlockEvents(s.batch) : Covered(s.batch, b) => Covered(n.batch, b)
    BY <1>7 DEF Covered, RankingEvents
  <2> QED
    BY <1>4, <1>5, <1>9, <2>1 DEF AllRanked, Refreshing
<1>12. Refreshing(n)
  BY <1>7, <1>10, <1>11, SamePlan DEF Refreshing
<1> QED
  BY <1>6, <1>7, <1>8, <1>12, NextBlockCovers

LEMMA NextMatchCovers ==
    ASSUME NEW s \in Run, Refreshing(s), InBlock(s), s.page = NoRows
    PROVE  Covers(NextMatch(s))
<1> DEFINE n == [s EXCEPT !.pc = "detail"]
<1>1. /\ n.pc = "detail" /\ n.batch = s.batch /\ n.page = s.page /\ n.details = s.details
      /\ n.planned = s.planned /\ n.at = s.at /\ n.blocks = s.blocks /\ n.block = s.block
      /\ n.left = s.left
  BY DEF Run
<1> HIDE DEF n
<1>2. Covers(n)
  BY <1>1, SamePlan DEF Covers, Refreshing, InBlock
<1> QED
  BY <1>2, CloseBlockCovers DEF NextMatch, n

-----------------------------------------------------------------------------
(* The steps.                                                              *)

RunsCover == \A r \in Runs : Covers(run[r])

LEMMA CoversContinued ==
    ASSUME Inv, RunsCover, NEW r \in Runs, NEW s, Covers(s), Continue(r, s)
    PROVE  RunsCover'
<1> SUFFICES ASSUME NEW q \in Runs PROVE Covers(run'[q])
  BY DEF RunsCover
<1>1. run'[q] = IF q = r THEN s ELSE run[q]
  BY DEF Continue, Inv, RunsTruthful
<1> QED
  BY <1>1 DEF RunsCover

LEMMA IdleCovers == Covers(IdleRun)
  BY DEF Covers, Fresh, IdleRun

LEMMA StartCovers ==
    ASSUME Inv, RunsCover, NEW r \in Runs, NEW mode \in Modes, Start(r, mode)
    PROVE  RunsCover'
<1> DEFINE known == {m \in Matches : stored[m] # Absent}
           fetch == mode = "snapshot" \/ known = {}
           pc    == IF fetch THEN "schedule" ELSE "plan"
           n == [IdleRun EXCEPT
              !.pc      = pc,
              !.mode    = mode,
              !.at      = now,
              !.planned = IF fetch THEN NoRows ELSE [m \in known |-> stored[m]],
              !.force   = fetch,
              !.boot    = fetch /\ mode = "adaptive",
              !.before  = Posted]
<1>1. pc \in {"schedule", "plan"}
  OBVIOUS
<1>2. n.pc = pc /\ n.batch = {} /\ n.page = NoRows /\ n.details = NoRows
  BY DEF IdleRun
<1>3. Continue(r, n)
  BY DEF Start
<1> HIDE DEF n, pc
<1>4. Covers(n)
  BY <1>1, <1>2 DEF Covers, Fresh
<1> QED
  BY <1>3, <1>4, CoversContinued

LEMMA ListingCovers ==
    ASSUME Inv, RunsCover, NEW r \in Runs,
           \/ FetchScheduleForClubs(r) \/ QueryClub(r) \/ FetchSeasons(r) \/ QueryLeague(r)
           \/ FetchPage(r) \/ SaveRow(r) \/ EndListing(r) \/ Plan(r) \/ ResolveSeason(r)
    PROVE  RunsCover'
<1>0. run[r] \in Run /\ Covers(run[r])
  BY RunOf DEF RunsCover
<1>1. CASE FetchScheduleForClubs(r)
  <2> DEFINE a == [run[r] EXCEPT !.clubs = RegisteredClubs]
             b == [run[r] EXCEPT !.clean = FALSE]
  <2>1. PICK ok \in Answers : Continue(r, IF ok THEN NextClub(a) ELSE AfterSchedules(b))
    BY <1>1 DEF FetchScheduleForClubs
  <2>2. a \in Run /\ b \in Run
    BY <1>0 DEF Run
  <2>3. Fresh(a) /\ Fresh(b)
    BY <1>0, <1>1 DEF Fresh, Covers, FetchScheduleForClubs, Run
  <2> HIDE DEF a, b
  <2>4. Covers(NextClub(a)) /\ Covers(AfterSchedules(b))
    BY <2>2, <2>3, NextClubCovers, AfterSchedulesCovers
  <2> QED
    BY <2>1, <2>4, CoversContinued
<1>2. CASE QueryClub(r)
  <2>1. PICK c \in run[r].clubs :
          Continue(r, [run[r] EXCEPT !.pc = "list", !.listing = Absent,
                                     !.clubs = @ \ {c}, !.rows = ClubMatches(c)])
    BY <1>2 DEF QueryClub
  <2> DEFINE n == [run[r] EXCEPT !.pc = "list", !.listing = Absent,
                                 !.clubs = @ \ {c}, !.rows = ClubMatches(c)]
  <2>2. n.pc = "list" /\ n.batch = run[r].batch /\ n.page = run[r].page /\ n.details = run[r].details
    BY <1>0 DEF Run
  <2>3. Fresh(run[r])
    BY <1>0, <1>2 DEF Covers, QueryClub
  <2> HIDE DEF n
  <2>4. Covers(n)
    BY <2>2, <2>3, FreshCovers
  <2> QED
    BY <2>1, <2>4, CoversContinued DEF n
<1>3. CASE FetchSeasons(r)
  <2> DEFINE b == [run[r] EXCEPT !.leagues = {}, !.clean = FALSE]
  <2>1. PICK ok \in Answers : Continue(r, IF ok THEN NextLeague(run[r]) ELSE AfterSchedules(b))
    BY <1>3 DEF FetchSeasons
  <2>2. b \in Run
    BY <1>0 DEF Run
  <2>3. Fresh(run[r]) /\ Fresh(b)
    BY <1>0, <1>3 DEF Fresh, Covers, FetchSeasons, Run
  <2> HIDE DEF b
  <2>4. Covers(NextLeague(run[r])) /\ Covers(AfterSchedules(b))
    BY <1>0, <2>2, <2>3, NextLeagueCovers, AfterSchedulesCovers
  <2> QED
    BY <2>1, <2>4, CoversContinued
<1>4. CASE QueryLeague(r)
  <2>1. PICK l \in run[r].leagues :
          LET s == [run[r] EXCEPT !.leagues = @ \ {l}]
          IN  Continue(r, IF NeedsListing(s, l)
                THEN [s EXCEPT !.pc = "list", !.listing = l, !.rows = LeagueMatches(l)]
                ELSE NextLeague(s))
    BY <1>4 DEF QueryLeague
  <2> DEFINE s == [run[r] EXCEPT !.leagues = @ \ {l}]
             n == [s EXCEPT !.pc = "list", !.listing = l, !.rows = LeagueMatches(l)]
  <2>2. Continue(r, IF NeedsListing(s, l) THEN n ELSE NextLeague(s))
    BY <2>1
  <2>3. s \in Run
    BY <1>0 DEF Run
  <2>4. Fresh(s)
    BY <1>0, <1>4 DEF Fresh, Covers, QueryLeague, Run
  <2> HIDE DEF s
  <2>5. n.pc = "list" /\ n.batch = s.batch /\ n.page = s.page /\ n.details = s.details
    BY <2>3 DEF Run
  <2> HIDE DEF n
  <2>6. Covers(n) /\ Covers(NextLeague(s))
    BY <2>3, <2>4, <2>5, FreshCovers, NextLeagueCovers
  <2> QED
    BY <2>2, <2>6, CoversContinued
<1>5. CASE FetchPage(r)
  <2> DEFINE p == NextPage(run[r].rows)
             after(ok) == [run[r] EXCEPT !.rows = @ \ p,
                             !.page = IF ok THEN Listed(p) ELSE NoRows, !.clean = @ /\ ok]
  <2>1. PICK ok \in Answers : Continue(r, after(ok))
    BY <1>5 DEF FetchPage
  <2>2. /\ after(ok).pc = "list" /\ after(ok).batch = run[r].batch
        /\ after(ok).details = run[r].details
    BY <1>0, <1>5 DEF Run, FetchPage
  <2> HIDE DEF after
  <2>3. Covers(after(ok))
    BY <1>0, <1>5, <2>2 DEF Covers, FetchPage
  <2> QED
    BY <2>1, <2>3, CoversContinued
<1>6. CASE SaveRow(r)
  <2> DEFINE after(m) == [run[r] EXCEPT
                !.planned = WithRow(@, m, run[r].page[m]),
                !.page = [n \in DOMAIN @ \ {m} |-> @[n]]]
  <2>1. PICK m \in DOMAIN run[r].page : Continue(r, after(m))
    BY <1>6 DEF SaveRow
  <2>2. after(m).pc = "list" /\ after(m).batch = run[r].batch /\ after(m).details = run[r].details
    BY <1>0, <1>6 DEF Run, SaveRow
  <2> HIDE DEF after
  <2>3. Covers(after(m))
    BY <1>0, <1>6, <2>2 DEF Covers, SaveRow
  <2> QED
    BY <2>1, <2>3, CoversContinued
<1>7. CASE EndListing(r)
  <2> DEFINE b == [run[r] EXCEPT !.listing = Absent]
  <2>1. b \in Run
    BY <1>0 DEF Run
  <2>2. Fresh(run[r]) /\ Fresh(b)
    BY <1>0, <1>7 DEF Fresh, Covers, EndListing, Run
  <2> HIDE DEF b
  <2>3. Covers(NextClub(run[r])) /\ Covers(NextLeague(b))
    BY <1>0, <2>1, <2>2, NextClubCovers, NextLeagueCovers
  <2>4. Continue(r, NextClub(run[r])) \/ Continue(r, NextLeague(b))
    BY <1>7 DEF EndListing, b
  <2> QED
    BY <2>3, <2>4, CoversContinued
<1>8. CASE Plan(r)
  <2>1. hotRegisteredClubLeagueUuids(run[r]) \in SUBSET Leagues
    BY <1>0, PlanTyped
  <2>2. Fresh(run[r])
    BY <1>0, <1>8 DEF Covers, Plan
  <2> QED
    BY <1>0, <1>8, <2>1, <2>2, EnsureLeagueSchedulesCovers, CoversContinued DEF Plan
<1>9. CASE ResolveSeason(r)
  <2> DEFINE b == [run[r] EXCEPT !.clean = FALSE]
             ls == leagueUuidsFromPlanned(run[r].planned)
  <2>1. PICK ok \in IF SeasonStored THEN {TRUE} ELSE Answers :
          Continue(r, IF ok THEN EnterRankings(run[r], ls) ELSE EnterSchedules(b))
    BY <1>9 DEF ResolveSeason
  <2>2. ls \in SUBSET Leagues
    BY <1>0, PlanTyped
  <2>3. b \in Run /\ b.batch = run[r].batch
    BY <1>0 DEF Run
  <2>4. run[r].batch = {}
    BY <1>0, <1>9 DEF Covers, Fresh, ResolveSeason
  <2> HIDE DEF b, ls
  <2>5. OwnLeague(run[r].batch) /\ AllRanked(run[r].batch, ls) /\ AllRanked(b.batch, {})
    BY <2>3, <2>4 DEF OwnLeague, AllRanked, BlockEvents
  <2>6. Covers(EnterRankings(run[r], ls)) /\ Covers(EnterSchedules(b))
    BY <1>0, <2>2, <2>3, <2>5, EnterRankingsCovers, EnterSchedulesCovers
  <2> QED
    BY <2>1, <2>6, CoversContinued
<1> QED
  BY <1>1, <1>2, <1>3, <1>4, <1>5, <1>6, <1>7, <1>8, <1>9

LEMMA BeginBlockCovers ==
    ASSUME Inv, RunsCover, NEW r \in Runs, BeginBlock(r)
    PROVE  RunsCover'
<1>0. run[r] \in Run /\ Covers(run[r]) /\ run[r].pc = "blocks"
  BY RunOf DEF RunsCover, BeginBlock
<1>1. PICK b \in run[r].blocks :
        Continue(r, [run[r] EXCEPT !.pc = "detail", !.block = b, !.left = b.matches])
  BY DEF BeginBlock
<1> DEFINE n == [run[r] EXCEPT !.pc = "detail", !.block = b, !.left = b.matches]
<1>2. b \in MatchBlock
  BY <1>0 DEF Run
<1>3. /\ n.pc = "detail" /\ n.block = b /\ n.left = b.matches
      /\ n.page = run[r].page /\ n.details = run[r].details /\ n.batch = run[r].batch
      /\ n.planned = run[r].planned /\ n.at = run[r].at /\ n.blocks = run[r].blocks
  BY <1>0 DEF Run
<1>4. Continue(r, n)
  BY <1>1
<1> HIDE DEF n
<1>5. run[r].page = NoRows /\ run[r].details = NoRows /\ Refreshing(run[r])
  BY <1>0 DEF Covers
<1>6. Refreshing(n) /\ n.block \in DueBlocks(n)
  BY <1>3, <1>5, SamePlan DEF Refreshing
<1>7. InBlock(n)
  BY <1>3, <1>5, <1>6, NoRowsTyped DEF InBlock
<1>8. Covers(n)
  BY <1>3, <1>6, <1>7 DEF Covers
<1> QED
  BY <1>4, <1>8, CoversContinued

LEMMA FetchDetailCovers ==
    ASSUME Inv, RunsCover, NEW r \in Runs, FetchDetail(r)
    PROVE  RunsCover'
<1>0. /\ run[r] \in Run /\ run[r].pc = "detail" /\ run[r].page = NoRows
      /\ Refreshing(run[r]) /\ InBlock(run[r])
  BY RunOf DEF RunsCover, Covers, FetchDetail
<1> DEFINE s(m)    == [run[r] EXCEPT !.left = @ \ {m}]
           a(m)    == [s(m) EXCEPT !.page = OneRow(m, sams[m])]
           b(m)    == [s(m) EXCEPT !.clean = FALSE]
<1>1. PICK m \in run[r].left, ok \in Answers :
        Continue(r, IF ok THEN a(m) ELSE NextMatch(b(m)))
  BY DEF FetchDetail
<1>2. m \in Matches /\ m \in run[r].block.matches
  BY <1>0 DEF Run, InBlock
<1>3. DOMAIN OneRow(m, sams[m]) = {m}
  BY DEF OneRow
<1>4. /\ a(m).pc = "detail" /\ a(m).block = run[r].block /\ a(m).left = run[r].left \ {m}
      /\ a(m).page = OneRow(m, sams[m]) /\ a(m).details = run[r].details
      /\ a(m).batch = run[r].batch /\ a(m).planned = run[r].planned /\ a(m).at = run[r].at
      /\ a(m).blocks = run[r].blocks
  BY <1>0 DEF Run
<1>5. b(m) \in Run
  <2>1. s(m) \in Run
    BY <1>0 DEF Run
  <2> HIDE DEF s
  <2> QED
    BY <2>1 DEF Run
<1>6. /\ b(m).block = run[r].block /\ b(m).left = run[r].left \ {m}
      /\ b(m).page = run[r].page /\ b(m).details = run[r].details
      /\ b(m).batch = run[r].batch /\ b(m).planned = run[r].planned /\ b(m).at = run[r].at
      /\ b(m).blocks = run[r].blocks
  BY <1>0 DEF Run
<1> HIDE DEF a, b
<1>7. Refreshing(a(m)) /\ InBlock(a(m))
  BY <1>0, <1>2, <1>3, <1>4, SamePlan DEF Refreshing, InBlock
<1>8. Refreshing(b(m)) /\ InBlock(b(m)) /\ b(m).page = NoRows
  BY <1>0, <1>6, SamePlan DEF Refreshing, InBlock
<1>9. Covers(a(m)) /\ Covers(NextMatch(b(m)))
  BY <1>4, <1>5, <1>7, <1>8, NextMatchCovers DEF Covers
<1> QED
  BY <1>1, <1>9, CoversContinued

LEMMA StoreDetailCovers ==
    ASSUME Inv, RunsCover, NEW r \in Runs, StoreDetail(r)
    PROVE  RunsCover'
<1>0. /\ run[r] \in Run /\ run[r].pc = "detail"
      /\ Refreshing(run[r]) /\ InBlock(run[r])
  BY RunOf DEF RunsCover, Covers, StoreDetail
<1> DEFINE details(m) == WithRow(run[r].details, m, run[r].page[m])
           n(m) == [run[r] EXCEPT !.page = NoRows, !.details = details(m)]
<1>1. PICK m \in DOMAIN run[r].page : Continue(r, NextMatch(n(m)))
  BY DEF StoreDetail
<1>2. details(m) \in Rows /\ DOMAIN details(m) = DOMAIN run[r].details \cup {m}
  <2>1. run[r].details \in Rows
    BY <1>0 DEF Run
  <2> QED
    BY <2>1, PageRow, WithRowTyped
<1> HIDE DEF details
<1>3. n(m) \in Run
  BY <1>0, <1>2, NoRowsTyped DEF Run
<1>4. /\ n(m).block = run[r].block /\ n(m).left = run[r].left
      /\ n(m).page = NoRows /\ n(m).details = details(m)
      /\ n(m).batch = run[r].batch /\ n(m).planned = run[r].planned /\ n(m).at = run[r].at
      /\ n(m).blocks = run[r].blocks
  BY <1>0 DEF Run
<1> HIDE DEF n
<1>5. Refreshing(n(m)) /\ InBlock(n(m))
  BY <1>0, <1>2, <1>4, SamePlan, NoRowsTyped DEF Refreshing, InBlock
<1> QED
  BY <1>1, <1>3, <1>4, <1>5, NextMatchCovers, CoversContinued

LEMMA FetchRankingCovers ==
    ASSUME Inv, RunsCover, NEW r \in Runs, FetchRanking(r)
    PROVE  RunsCover'
<1>0. /\ run[r] \in Run /\ OwnLeague(run[r].batch)
      /\ AllRanked(run[r].batch, run[r].leagues)
  BY RunOf DEF RunsCover, Covers, FetchRanking
<1> DEFINE Event(l, ok, source) ==
             [kind    |-> "ranking",
              league  |-> l,
              source  |-> source,
              clubs   |-> interestedRegisteredClubUuids(run[r].planned, l),
              results |-> IF ok THEN Table(run[r], l) ELSE {},
              ok      |-> ok]
           After(l, ok, source) ==
             [run[r] EXCEPT !.leagues = @ \ {l}, !.batch = @ \cup {Event(l, ok, source)},
                            !.clean = @ /\ ok]
<1>1. PICK l \in run[r].leagues, ok \in Answers :
        \E source \in RankingSources(run[r], l) :
             Continue(r, IF After(l, ok, source).leagues = {}
                         THEN EnterSchedules(After(l, ok, source)) ELSE After(l, ok, source))
  BY DEF FetchRanking
<1>2. PICK source \in RankingSources(run[r], l) :
        Continue(r, IF After(l, ok, source).leagues = {}
                    THEN EnterSchedules(After(l, ok, source)) ELSE After(l, ok, source))
  BY <1>1
<1> DEFINE e == Event(l, ok, source)
           n == After(l, ok, source)
<1>3. /\ e.kind = "ranking" /\ e.league = l
      /\ e.ok => e.results = Posted \cap LeagueMatches(l)
  BY DEF Table
<1>4. n \in Run
  <2>1. l \in Leagues /\ ok \in BOOLEAN
    BY <1>0, AnswerKinds DEF Run
  <2>2. e \in RankingEvent
    <3> DEFINE clubs   == interestedRegisteredClubUuids(run[r].planned, l)
               results == IF ok THEN Table(run[r], l) ELSE {}
    <3>1. clubs \subseteq Clubs
      BY ClubsRegistered, RefreshAssumption DEF RefreshAssumption
    <3>2. results \subseteq Matches
      BY PostedTyped DEF Table
    <3>3. source \in BlockIds \cup {Absent}
      BY <1>0, <2>1, SourcesTyped
    <3> HIDE DEF clubs, results
    <3>4. [kind |-> "ranking", league |-> l, source |-> source,
           clubs |-> clubs, results |-> results, ok |-> ok] \in RankingEvent
      BY <2>1, <3>1, <3>2, <3>3 DEF RankingEvent
    <3> QED
      BY <3>4 DEF clubs, results
  <2>3. (run[r].clean /\ ok) \in BOOLEAN
    BY <1>0, <2>1 DEF Run
  <2> HIDE DEF Event
  <2> QED
    BY <1>0, <2>2, <2>3 DEF Run
<1>5. /\ n.leagues = run[r].leagues \ {l} /\ n.batch = run[r].batch \cup {e}
      /\ n.pc = run[r].pc
  <2> HIDE DEF Event
  <2> QED
    BY <1>0 DEF Run
<1>6. Continue(r, IF n.leagues = {} THEN EnterSchedules(n) ELSE n)
  BY <1>2
<1> HIDE DEF After, Event
<1>7. BlockEvents(n.batch) = BlockEvents(run[r].batch) /\ e \in RankingEvents(n.batch)
  BY <1>3, <1>5 DEF BlockEvents, RankingEvents
<1>8. OwnLeague(n.batch)
  BY <1>0, <1>7 DEF OwnLeague
<1>9. AllRanked(n.batch, n.leagues)
  <2> SUFFICES ASSUME NEW b \in BlockEvents(n.batch), b.state \in RankingStates
               PROVE  b.league \in n.leagues \/ Covered(n.batch, b)
    BY DEF AllRanked
  <2>1. b \in BlockEvents(run[r].batch)
    BY <1>7
  <2>2. CASE b.league = l
    <3>1. ResultsIn(b.details) \subseteq LeagueMatches(l)
      BY <1>0, <2>1, <2>2 DEF OwnLeague
    <3>2. ResultsIn(b.details) \subseteq Posted
      BY <2>1, RunOf DEF Truthful, BlockEvents, EventResults
    <3> QED
      BY <1>3, <1>7, <2>2, <3>1, <3>2 DEF Covered
  <2>3. CASE b.league # l
    <3>1. b.league \in run[r].leagues \/ Covered(run[r].batch, b)
      BY <1>0, <2>1 DEF AllRanked
    <3>2. Covered(run[r].batch, b) => Covered(n.batch, b)
      BY <1>5 DEF Covered, RankingEvents
    <3> QED
      BY <1>5, <2>3, <3>1, <3>2
  <2> QED
    BY <2>2, <2>3
<1>10. n.leagues = {} => Covers(EnterSchedules(n))
  BY <1>4, <1>9, EnterSchedulesCovers
<1>11. Covers(n)
  BY <1>5, <1>8, <1>9 DEF Covers, FetchRanking
<1> QED
  BY <1>6, <1>10, <1>11, CoversContinued

LEMMA SendingCovers ==
    ASSUME Inv, RunsCover, NEW r \in Runs, BuildSchedules(r) \/ Publish(r)
    PROVE  RunsCover'
<1>0. run[r] \in Run /\ AllRanked(run[r].batch, {})
  BY RunOf DEF RunsCover, Covers, BuildSchedules, Publish
<1>1. CASE BuildSchedules(r)
  <2> DEFINE events == buildClubMatchScheduleEvents(run[r])
             batch(ok) == IF ok THEN run[r].batch \cup events ELSE run[r].batch
             n(ok) == [run[r] EXCEPT !.pc = "publish", !.clean = @ /\ ok, !.batch = batch(ok)]
  <2>1. PICK ok \in IF SeasonStored THEN {TRUE} ELSE Answers :
          Continue(r, [run[r] EXCEPT !.pc = "publish", !.clean = @ /\ ok,
                                     !.batch = IF ok THEN @ \cup events ELSE @])
    BY <1>1 DEF BuildSchedules
  <2>2. Continue(r, n(ok))
    BY <2>1
  <2>3. n(ok).pc = "publish" /\ n(ok).batch = batch(ok)
    <3> HIDE DEF batch
    <3> QED
      BY <1>0 DEF Run
  <2>4. \A e \in events : e.kind = "schedule"
    BY DEF buildClubMatchScheduleEvents
  <2> HIDE DEF n, events
  <2>5. /\ BlockEvents(batch(ok)) = BlockEvents(run[r].batch)
        /\ RankingEvents(run[r].batch) \subseteq RankingEvents(batch(ok))
    BY <2>4 DEF BlockEvents, RankingEvents
  <2> HIDE DEF batch
  <2>6. AllRanked(batch(ok), {})
    BY <1>0, <2>5 DEF AllRanked, Covered
  <2>7. Covers(n(ok))
    BY <2>3, <2>6 DEF Covers
  <2> QED
    BY <2>2, <2>7, CoversContinued
<1>2. CASE Publish(r)
  <2> DEFINE n == [run[r] EXCEPT !.pc = "record"]
  <2>1. n.pc = "record" /\ n.batch = run[r].batch
    BY <1>0 DEF Run
  <2>2. Continue(r, n)
    BY <1>2 DEF Publish
  <2> HIDE DEF n
  <2>3. Covers(n)
    BY <1>0, <2>1 DEF Covers
  <2> QED
    BY <2>2, <2>3, CoversContinued
<1> QED
  BY <1>1, <1>2

LEMMA NextCovers == Inv /\ RunsCover /\ [Next]_vars => RunsCover'
<1> SUFFICES ASSUME Inv, RunsCover, [Next]_vars PROVE RunsCover'
  OBVIOUS
<1>1. CASE \E r \in Runs, mode \in Modes : Start(r, mode)
  BY <1>1, StartCovers
<1>2. ASSUME NEW r \in Runs, Step(r) PROVE RunsCover'
  <2>1. CASE PublishFails(r) \/ Record(r)
    BY <2>1, IdleCovers, CoversContinued DEF PublishFails, Ends, Record
  <2>2. CASE ~(PublishFails(r) \/ Record(r))
    BY <1>2, <2>2, ListingCovers, BeginBlockCovers, FetchDetailCovers, StoreDetailCovers,
       FetchRankingCovers, SendingCovers DEF Step
  <2> QED
    BY <2>1, <2>2
<1>3. CASE \E r \in Runs : RunFails(r)
  BY <1>3, IdleCovers, CoversContinued DEF RunFails, Ends
<1>4. CASE run' = run
  BY <1>4 DEF RunsCover
<1> QED
  BY <1>1, <1>2, <1>3, <1>4 DEF Next, vars, Tick, PostResult, MoveMatch

LEMMA CoveredRankings == RunsCover => RankingCoversBlocks
  BY DEF RunsCover, Covers, AllRanked, Covered, RankingCoversBlocks

\* For every number of runs in flight, every policy and every order of results: a
\* run that goes on to publish has, for each block event of a ranking state, a
\* ranking of that league that counts all results the block event shows.
THEOREM RankingsCoverBlocks == Spec => []RankingCoversBlocks
<1>1. Init => RunsCover
  BY IdleCovers DEF Init, RunsCover
<1>2. Spec => [](Inv /\ RunsCover)
  BY <1>1, InitInv, NextInv, NextCovers, PTL DEF Spec
<1> QED
  BY <1>2, CoveredRankings, PTL
-----------------------------------------------------------------------------
(* Where a run goes on.                                                    *)

\* Run n has the rows, the events and the plan of run s.
Kept(n, s) ==
    /\ n.mode = s.mode /\ n.at = s.at /\ n.planned = s.planned /\ n.boot = s.boot
    /\ n.clubs = s.clubs /\ n.listing = s.listing /\ n.rows = s.rows /\ n.page = s.page
    /\ n.details = s.details /\ n.batch = s.batch
    /\ n.before = s.before /\ n.clean = s.clean

\* Past the last block, with nothing left to refresh.
Sending(n, s) ==
    /\ n.pc \in {"rankings", "schedules", "publish"}
    /\ n.pc = "publish" => AffectedClubs(s) = {}

\* Past the schedules of clubs and leagues, or at those of leagues.
PastClubs(n, s) ==
    /\ Kept(n, s)
    /\ n.force = s.force \/ s.mode # "snapshot"
    /\ \/ n.pc \in {"seasons", "leagues"}
       \/ n.pc = "season" /\ s.mode = "snapshot"
       \/ n.pc = "plan" /\ s.mode # "snapshot"
       \/ ~s.force /\ n.pc = "blocks" /\ n.blocks = DueBlocks(s)
       \/ ~s.force /\ Sending(n, s) /\ DueBlocks(s) = {}

-----------------------------------------------------------------------------
(* OnlyRegisteredBlocks.  What a run knows of its due blocks: each is still *)
(* to be refreshed or has its event, and no event is of another block.     *)

OwnClubs(batch) ==
    \A b \in BlockEvents(batch) : b.clubs \cap RegisteredClubs # {}

SourcesNamed(batch) ==
    \A t \in RankingEvents(batch) :
        (\E b \in BlockEvents(batch) : b.league = t.league /\ b.state \in RankingStates)
        => \E b \in BlockEvents(batch) : b.id = t.source

EventOf(e, b, at) ==
    e.id = b.id /\ e.league = b.league /\ e.clubs = b.clubs /\ e.state = decideBlock(b, at).state

FromDue(s) ==
    \A e \in BlockEvents(s.batch) : \E b \in DueBlocks(s) : EventOf(e, b, s.at)

\* Every due block is among bs or has its event.
AllDue(s, bs) ==
    \A b \in DueBlocks(s) : b \in bs \/ \E e \in BlockEvents(s.batch) : e.id = b.id

Registered(s) ==
    /\ s.mode = "snapshot" => s.force
    /\ s.pc \in {"blocks", "detail"} =>
        s.mode # "snapshot" /\ FromDue(s) /\ AllDue(s, s.blocks) /\ RankingEvents(s.batch) = {}
    /\ s.pc = "rankings" =>
        /\ SourcesNamed(s.batch)
        /\ BlockEvents(s.batch) = {} \/ (s.mode # "snapshot" /\ FromDue(s) /\ AllDue(s, {}))
    /\ s.pc \in {"schedules", "publish", "record"} => OwnClubs(s.batch) /\ SourcesNamed(s.batch)

RunsRegistered == \A r \in Runs : Registered(run[r])

-----------------------------------------------------------------------------

LEMMA EnterSchedulesShape ==
    ASSUME NEW s \in Run
    PROVE  Kept(EnterSchedules(s), s) /\ Sending(EnterSchedules(s), s)
           /\ EnterSchedules(s).force = s.force /\ EnterSchedules(s).pc # "rankings"
<1> DEFINE pc == IF AffectedClubs(s) = {} THEN "publish" ELSE "schedules"
           n == [s EXCEPT !.pc = pc]
<1>1. pc \in {"schedules", "publish"} /\ (pc = "publish" => AffectedClubs(s) = {})
  OBVIOUS
<1>2. Kept(n, s) /\ n.force = s.force /\ n.pc = pc
  <2> HIDE DEF pc
  <2> QED
    BY DEF Kept, Run
<1> HIDE DEF n, pc
<1>3. Kept(n, s) /\ Sending(n, s) /\ n.force = s.force /\ n.pc # "rankings"
  BY <1>1, <1>2 DEF Sending
<1> QED
  BY <1>3 DEF EnterSchedules, n, pc

LEMMA EnterRankingsShape ==
    ASSUME NEW s \in Run, NEW ls
    PROVE  Kept(EnterRankings(s, ls), s) /\ Sending(EnterRankings(s, ls), s)
           /\ EnterRankings(s, ls).force = s.force
<1>1. CASE ls = {}
  BY <1>1, EnterSchedulesShape DEF EnterRankings
<1>2. CASE ls # {}
  <2> DEFINE n == [s EXCEPT !.pc = "rankings", !.leagues = ls]
  <2>1. Kept(n, s) /\ n.pc = "rankings" /\ n.force = s.force
    BY DEF Kept, Run
  <2> HIDE DEF n
  <2>2. Sending(n, s)
    BY <2>1 DEF Sending
  <2> QED
    BY <1>2, <2>1, <2>2 DEF EnterRankings, n
<1> QED
  BY <1>1, <1>2

LEMMA NextBlockShape ==
    ASSUME NEW s \in Run
    PROVE  /\ Kept(NextBlock(s), s)
           /\ NextBlock(s).force = s.force
           /\ \/ NextBlock(s).pc = "blocks" /\ NextBlock(s).blocks = s.blocks
              \/ Sending(NextBlock(s), s) /\ s.blocks = {}
<1>1. CASE s.blocks = {}
  BY <1>1, EnterRankingsShape DEF NextBlock
<1>2. CASE s.blocks # {}
  <2> DEFINE n == [s EXCEPT !.pc = "blocks"]
  <2>1. Kept(n, s) /\ n.pc = "blocks" /\ n.blocks = s.blocks /\ n.force = s.force
    BY DEF Kept, Run
  <2> HIDE DEF n
  <2> QED
    BY <1>2, <2>1 DEF NextBlock, n
<1> QED
  BY <1>1, <1>2

LEMMA KeptAffected ==
    ASSUME NEW n, NEW s, Kept(n, s)
    PROVE  AffectedClubs(n) = AffectedClubs(s) /\ DueBlocks(n) = DueBlocks(s)
           /\ Decisions(n) = Decisions(s)
  BY SamePlan DEF Kept, AffectedClubs

LEMMA EnterDetailsShape ==
    ASSUME NEW s \in Run, ~s.force
    PROVE  PastClubs(EnterDetails(s), s)
<1> DEFINE n == [s EXCEPT !.blocks = DueBlocks(s)]
           e == NextBlock(n)
<1>1. n \in Run
  BY PlanTyped DEF Run
<1>2. Kept(n, s) /\ n.force = s.force /\ n.blocks = DueBlocks(s)
  BY DEF Kept, Run
<1> HIDE DEF n
<1>3. /\ Kept(e, n)
      /\ e.force = n.force
      /\ \/ e.pc = "blocks" /\ e.blocks = n.blocks
         \/ Sending(e, n) /\ n.blocks = {}
  BY <1>1, NextBlockShape
<1> HIDE DEF e
<1>4. Kept(e, s)
  BY <1>2, <1>3 DEF Kept
<1>5. Sending(e, n) => Sending(e, s)
  BY <1>2, KeptAffected DEF Sending
<1>6. PastClubs(e, s)
  BY <1>2, <1>3, <1>4, <1>5 DEF PastClubs
<1> QED
  BY <1>6 DEF EnterDetails, e, n

LEMMA AfterSchedulesShape ==
    ASSUME NEW s \in Run
    PROVE  PastClubs(AfterSchedules(s), s)
<1>1. CASE ~s.force
  BY <1>1, EnterDetailsShape DEF AfterSchedules
<1>2. CASE s.force /\ s.mode = "snapshot"
  <2> DEFINE n == [s EXCEPT !.pc = "season"]
  <2>1. Kept(n, s) /\ n.pc = "season" /\ n.force = s.force
    BY DEF Kept, Run
  <2> HIDE DEF n
  <2>2. PastClubs(n, s)
    BY <1>2, <2>1 DEF PastClubs
  <2> QED
    BY <1>2, <2>2 DEF AfterSchedules, n
<1>3. CASE s.force /\ s.mode # "snapshot"
  <2> DEFINE n == [s EXCEPT !.pc = "plan", !.force = FALSE]
  <2>1. Kept(n, s) /\ n.pc = "plan"
    BY DEF Kept, Run
  <2> HIDE DEF n
  <2>2. PastClubs(n, s)
    BY <1>3, <2>1 DEF PastClubs
  <2> QED
    BY <1>3, <2>2 DEF AfterSchedules, n
<1> QED
  BY <1>1, <1>2, <1>3

LEMMA EnsureLeagueSchedulesShape ==
    ASSUME NEW s \in Run, NEW ls
    PROVE  PastClubs(EnsureLeagueSchedules(s, ls), s)
<1> DEFINE n == [s EXCEPT !.pc = "seasons", !.leagues = ls]
<1>1. Kept(n, s) /\ n.pc = "seasons" /\ n.force = s.force
  BY DEF Kept, Run
<1> HIDE DEF n
<1>2. PastClubs(n, s)
  BY <1>1 DEF PastClubs
<1> QED
  BY <1>2, AfterSchedulesShape DEF EnsureLeagueSchedules, n

LEMMA NextLeagueShape ==
    ASSUME NEW s \in Run
    PROVE  PastClubs(NextLeague(s), s)
<1> DEFINE n == [s EXCEPT !.pc = "leagues"]
<1>1. Kept(n, s) /\ n.pc = "leagues" /\ n.force = s.force
  BY DEF Kept, Run
<1> HIDE DEF n
<1>2. PastClubs(n, s)
  BY <1>1 DEF PastClubs
<1> QED
  BY <1>2, AfterSchedulesShape DEF NextLeague, n

LEMMA NextClubShape ==
    ASSUME NEW s \in Run
    PROVE  \/ PastClubs(NextClub(s), s) /\ s.clubs = {}
           \/ Kept(NextClub(s), s) /\ NextClub(s).pc = "clubs" /\ NextClub(s).force = s.force
<1>1. CASE s.clubs = {}
  BY <1>1, EnsureLeagueSchedulesShape DEF NextClub
<1>2. CASE s.clubs # {}
  <2> DEFINE n == [s EXCEPT !.pc = "clubs"]
  <2>1. Kept(n, s) /\ n.pc = "clubs" /\ n.force = s.force
    BY DEF Kept, Run
  <2> HIDE DEF n
  <2> QED
    BY <1>2, <2>1 DEF NextClub, n
<1> QED
  BY <1>1, <1>2

\* Run n has the plan and the history of run s, at another block.
Refreshed(n, s) ==
    /\ n.mode = s.mode /\ n.at = s.at /\ n.planned = s.planned /\ n.boot = s.boot
    /\ n.force = s.force /\ n.page = s.page /\ n.before = s.before /\ n.clean = s.clean

ClosingEvent(s) ==
    [kind    |-> "block",
     id      |-> s.block.id,
     league  |-> s.block.league,
     clubs   |-> s.block.clubs,
     state   |-> decideBlock(s.block, s.at).state,
     details |-> s.details]

\* The block of run s is closed with its event and n goes on.
Closed(n, s) ==
    /\ Refreshed(n, s)
    /\ n.details = NoRows
    /\ n.batch = s.batch \cup {ClosingEvent(s)}
    /\ \/ n.pc = "blocks" /\ n.blocks = s.blocks \ {s.block}
       \/ Sending(n, n) /\ s.blocks \ {s.block} = {}

LEMMA CloseBlockShape ==
    ASSUME NEW s \in Run, s.block \in MatchBlock
    PROVE  Closed(CloseBlock(s), s)
<1> DEFINE e == ClosingEvent(s)
           n == [s EXCEPT !.batch = @ \cup {e}, !.blocks = @ \ {s.block},
                          !.block = Absent, !.details = NoRows]
           c == NextBlock(n)
<1>1. e \in BlockEvent
  BY DecisionState DEF Run, MatchBlock, BlockEvent, ClosingEvent
<1>2. CloseBlock(s) = c
  BY DEF CloseBlock, ClosingEvent
<1> HIDE DEF e
<1>3. n \in Run
  BY <1>1, NoRowsTyped DEF Run
<1>4. /\ Refreshed(n, s) /\ n.details = NoRows /\ n.batch = s.batch \cup {e}
      /\ n.blocks = s.blocks \ {s.block}
  BY DEF Refreshed, Run
<1> HIDE DEF n
<1>5. /\ Kept(c, n)
      /\ c.force = n.force
      /\ \/ c.pc = "blocks" /\ c.blocks = n.blocks
         \/ Sending(c, n) /\ n.blocks = {}
  BY <1>3, NextBlockShape
<1>6. Sending(c, n) => Sending(c, c)
  BY <1>5, KeptAffected DEF Sending
<1> HIDE DEF c
<1>7. Refreshed(c, s) /\ c.details = NoRows /\ c.batch = s.batch \cup {e}
  BY <1>4, <1>5 DEF Kept, Refreshed
<1>8. Closed(c, s)
  BY <1>4, <1>5, <1>6, <1>7 DEF Closed, e
<1> QED
  BY <1>2, <1>8

LEMMA NextMatchShape ==
    ASSUME NEW s \in Run, s.block \in MatchBlock
    PROVE  \/ Closed(NextMatch(s), s)
           \/ Kept(NextMatch(s), s) /\ NextMatch(s).pc = "detail"
              /\ NextMatch(s).blocks = s.blocks /\ NextMatch(s).block = s.block
              /\ NextMatch(s).force = s.force
<1>1. CASE s.left = {}
  BY <1>1, CloseBlockShape DEF NextMatch
<1>2. CASE s.left # {}
  <2> DEFINE n == [s EXCEPT !.pc = "detail"]
  <2>1. /\ Kept(n, s) /\ n.pc = "detail" /\ n.blocks = s.blocks /\ n.block = s.block
        /\ n.force = s.force
    BY DEF Kept, Run
  <2> HIDE DEF n
  <2> QED
    BY <1>2, <2>1 DEF NextMatch, n
<1> QED
  BY <1>1, <1>2

-----------------------------------------------------------------------------
(* The blocks and the sources of a run.                                    *)

\* Blocks are equal when their ids are.
LEMMA BlockOfId ==
    ASSUME NEW planned, NEW x \in buildMatchBlocks(planned), NEW y \in buildMatchBlocks(planned),
           x.id = y.id
    PROVE  x = y
<1>1. PICK m \in Plannable(planned) : x = BlockOf(planned, m)
  BY DEF buildMatchBlocks
<1>2. PICK n \in Plannable(planned) : y = BlockOf(planned, n)
  BY DEF buildMatchBlocks
<1>3. x.id = matchBlockId(planned, m) /\ y.id = matchBlockId(planned, n)
  BY <1>1, <1>2 DEF BlockOf
<1>4. matchBlockId(planned, m) = matchBlockId(planned, n)
  BY <1>3
<1>5. LeagueOf[m] = LeagueOf[n]
  BY <1>4 DEF matchBlockId
<1> HIDE DEF matchBlockId
<1> QED
  BY <1>1, <1>2, <1>4, <1>5 DEF BlockOf

LEMMA DueBlock ==
    ASSUME NEW s, NEW b \in DueBlocks(s)
    PROVE  /\ b \in buildMatchBlocks(s.planned)
           /\ decideBlock(b, s.at) \in Decisions(s)
           /\ decideBlock(b, s.at).shouldRefreshMatches
           /\ blockIntersectsRegisteredClubs(b)
<1>1. PICK d \in Decisions(s) : /\ d.shouldRefreshMatches /\ b = d.block
                                /\ blockIntersectsRegisteredClubs(d.block)
  BY DEF DueBlocks, dueRefreshDecisions
<1>2. PICK x \in buildMatchBlocks(s.planned) : d = decideBlock(x, s.at)
  BY DEF Decisions, planMatchRefresh
<1>3. x = b
  BY <1>1, <1>2, DecisionOfBlock
<1> QED
  BY <1>1, <1>2, <1>3

\* A league with a due block of a registered club in a ranking state is ranked in
\* the name of such a block.
LEMMA SourceDue ==
    ASSUME NEW s, s.mode # "snapshot", NEW b \in DueBlocks(s),
           decideBlock(b, s.at).state \in RankingStates,
           NEW source \in RankingSources(s, b.league)
    PROVE  \E x \in DueBlocks(s) : x.id = source
<1> DEFINE mine == {x.id : x \in {y \in buildMatchBlocks(s.planned) :
                                    blockIntersectsRegisteredClubs(y)}}
           due == {d \in Decisions(s) : d.shouldRefreshRankings /\ d.block.league = b.league}
           liked == {d \in due : d.block.id \in mine}
           own == decideBlock(b, s.at)
<1>1. own \in Decisions(s) /\ own.block = b /\ own.shouldRefreshRankings /\ b.id \in mine
  <2>1. own \in Decisions(s) /\ own.block = b /\ own.shouldRefreshMatches
    BY DueBlock, DecisionOfBlock
  <2>2. own.shouldRefreshRankings
    BY <2>1 DEF decideBlock
  <2> QED
    BY <2>1, <2>2, DueBlock
<1>2. own \in liked
  <2> HIDE DEF own, mine
  <2> QED
    BY <1>1
<1>3. source \in {d.block.id : d \in liked}
  <2>1. RankingSources(s, b.league)
          = {d.block.id : d \in rankingDueLeagueDecisions(Decisions(s), mine, b.league)}
    BY DEF RankingSources
  <2> HIDE DEF mine, own
  <2>2. rankingDueLeagueDecisions(Decisions(s), mine, b.league) = liked
    BY <1>2 DEF rankingDueLeagueDecisions
  <2> QED
    BY <2>1, <2>2
<1>4. PICK d \in liked : source = d.block.id
  BY <1>3
<1>5. d \in Decisions(s) /\ d.shouldRefreshRankings /\ d.block.id \in mine
  BY <1>4
<1>6. PICK y \in buildMatchBlocks(s.planned) :
        blockIntersectsRegisteredClubs(y) /\ y.id = d.block.id
  BY <1>5
<1>7. PICK z \in buildMatchBlocks(s.planned) : d = decideBlock(z, s.at)
  BY <1>5 DEF Decisions, planMatchRefresh
<1>8. d.block = y
  BY <1>6, <1>7, DecisionOfBlock, BlockOfId
<1>9. d.shouldRefreshMatches
  BY <1>5, <1>7 DEF decideBlock
<1>10. y \in DueBlocks(s)
  <2> HIDE DEF mine, own
  <2> QED
    BY <1>5, <1>6, <1>8, <1>9 DEF DueBlocks, dueRefreshDecisions
<1> QED
  BY <1>4, <1>8, <1>10

LEMMA DueOwn ==
    ASSUME NEW s, FromDue(s)
    PROVE  OwnClubs(s.batch)
<1> SUFFICES ASSUME NEW e \in BlockEvents(s.batch)
             PROVE  e.clubs \cap RegisteredClubs # {}
  BY DEF OwnClubs
<1>1. PICK b \in DueBlocks(s) : EventOf(e, b, s.at)
  BY DEF FromDue
<1>2. b.clubs \cap RegisteredClubs # {}
  BY <1>1, DueBlock DEF blockIntersectsRegisteredClubs
<1> QED
  BY <1>1, <1>2 DEF EventOf

-----------------------------------------------------------------------------

LEMMA EmptyRegistered ==
    ASSUME NEW n, n.batch = {}, n.mode = "snapshot" => n.force, n.pc \notin {"blocks", "detail"}
    PROVE  Registered(n)
<1>1. BlockEvents(n.batch) = {} /\ RankingEvents(n.batch) = {}
  BY DEF BlockEvents, RankingEvents
<1> QED
  BY <1>1 DEF Registered, OwnClubs, SourcesNamed

LEMMA PastClubsRegistered ==
    ASSUME NEW s \in Run, NEW n, s.batch = {}, s.mode = "snapshot" => s.force, PastClubs(n, s)
    PROVE  Registered(n)
<1>1. n.batch = {} /\ (n.mode = "snapshot" => n.force)
  BY DEF PastClubs, Kept
<1>2. CASE n.pc = "blocks"
  <2>1. ~s.force /\ n.blocks = DueBlocks(s) /\ n.mode # "snapshot"
    BY <1>2 DEF PastClubs, Kept, Sending
  <2>2. DueBlocks(n) = DueBlocks(s)
    BY KeptAffected DEF PastClubs
  <2>3. FromDue(n) /\ AllDue(n, n.blocks) /\ RankingEvents(n.batch) = {}
    BY <1>1, <2>1, <2>2 DEF FromDue, AllDue, RankingEvents, BlockEvents
  <2> QED
    BY <1>1, <1>2, <2>1, <2>3 DEF Registered
<1>3. CASE n.pc # "blocks"
  <2>1. n.pc # "detail"
    BY <1>3 DEF PastClubs, Sending
  <2> QED
    BY <1>1, <1>3, <2>1, EmptyRegistered
<1> QED
  BY <1>2, <1>3

\* A run that has not refreshed anything yet.
Early(n) == Registered(n) /\ n.batch = {} /\ n.details = NoRows /\ n.pc # "detail"

LEMMA EmptyEarly ==
    ASSUME NEW n, n.batch = {}, n.details = NoRows, n.mode = "snapshot" => n.force,
           n.pc \notin {"blocks", "detail"}
    PROVE  Early(n)
  BY EmptyRegistered DEF Early

LEMMA PastClubsEarly ==
    ASSUME NEW s \in Run, NEW n, s.batch = {}, s.details = NoRows,
           s.mode = "snapshot" => s.force, PastClubs(n, s)
    PROVE  Early(n)
<1>1. n.batch = {} /\ n.details = NoRows /\ n.pc # "detail"
  BY DEF PastClubs, Kept, Sending
<1> QED
  BY <1>1, PastClubsRegistered DEF Early

\* From the last block on, events come from due blocks, and all due blocks have one.
LEMMA SendingRegistered ==
    ASSUME NEW n, n.pc \in {"rankings", "schedules", "publish"}, n.mode # "snapshot",
           FromDue(n), AllDue(n, {}), RankingEvents(n.batch) = {}
    PROVE  Registered(n)
<1>1. SourcesNamed(n.batch)
  BY DEF SourcesNamed
<1>2. OwnClubs(n.batch)
  BY DueOwn
<1> QED
  BY <1>1, <1>2 DEF Registered

LEMMA SameBlocksRegistered ==
    ASSUME NEW s, NEW n, Registered(s), s.pc \in {"blocks", "detail"},
           n.pc \in {"blocks", "detail"}, n.mode = s.mode, n.force = s.force, n.at = s.at,
           n.planned = s.planned, n.batch = s.batch, n.blocks = s.blocks
    PROVE  Registered(n)
<1>1. DueBlocks(n) = DueBlocks(s)
  BY SamePlan
<1> QED
  BY <1>1 DEF Registered, FromDue, AllDue

LEMMA ClosedRegistered ==
    ASSUME NEW s, NEW n, Registered(s), s.pc = "detail", s.block \in DueBlocks(s), Closed(n, s)
    PROVE  Registered(n)
<1> DEFINE e == ClosingEvent(s)
<1>1. e.kind = "block" /\ EventOf(e, s.block, s.at)
  BY DEF ClosingEvent, EventOf
<1> HIDE DEF e
<1>2. DueBlocks(n) = DueBlocks(s) /\ n.at = s.at /\ n.mode = s.mode /\ n.force = s.force
  BY SamePlan DEF Closed, Refreshed
<1>3. /\ BlockEvents(n.batch) = BlockEvents(s.batch) \cup {e}
      /\ RankingEvents(n.batch) = RankingEvents(s.batch)
  BY <1>1 DEF Closed, BlockEvents, RankingEvents, e
<1>4. FromDue(n)
  BY <1>1, <1>2, <1>3 DEF Registered, FromDue
<1>5. AllDue(n, s.blocks \ {s.block})
  BY <1>1, <1>2, <1>3 DEF Registered, AllDue, EventOf
<1>6. RankingEvents(n.batch) = {} /\ n.mode # "snapshot"
  BY <1>2, <1>3 DEF Registered
<1>7. CASE n.pc = "blocks" /\ n.blocks = s.blocks \ {s.block}
  BY <1>4, <1>5, <1>6, <1>7 DEF Registered
<1>8. CASE Sending(n, n) /\ s.blocks \ {s.block} = {}
  BY <1>4, <1>5, <1>6, <1>8, SendingRegistered DEF Sending
<1> QED
  BY <1>7, <1>8 DEF Closed

LEMMA NextMatchRegistered ==
    ASSUME NEW s \in Run, Registered(s), s.pc = "detail", s.block \in DueBlocks(s)
    PROVE  Registered(NextMatch(s))
<1> DEFINE n == NextMatch(s)
<1>1. s.block \in MatchBlock
  BY PlanTyped
<1>2. \/ Closed(n, s)
      \/ Kept(n, s) /\ n.pc = "detail" /\ n.blocks = s.blocks /\ n.force = s.force
  BY <1>1, NextMatchShape
<1> HIDE DEF n
<1>3. Registered(n)
  BY <1>2, ClosedRegistered, SameBlocksRegistered DEF Kept
<1> QED
  BY <1>3 DEF n

-----------------------------------------------------------------------------
(* The steps.                                                              *)

LEMMA RegisteredContinued ==
    ASSUME Inv, RunsRegistered, NEW r \in Runs, NEW s, Registered(s), Continue(r, s)
    PROVE  RunsRegistered'
<1> SUFFICES ASSUME NEW q \in Runs PROVE Registered(run'[q])
  BY DEF RunsRegistered
<1>1. run'[q] = IF q = r THEN s ELSE run[q]
  BY DEF Continue, Inv, RunsTruthful
<1> QED
  BY <1>1 DEF RunsRegistered

LEMMA IdleRegistered == Registered(IdleRun)
  BY EmptyRegistered DEF IdleRun

LEMMA StartRegistered ==
    ASSUME Inv, RunsRegistered, NEW r \in Runs, NEW mode \in Modes, Start(r, mode)
    PROVE  RunsRegistered'
<1> DEFINE known == {m \in Matches : stored[m] # Absent}
           fetch == mode = "snapshot" \/ known = {}
           pc    == IF fetch THEN "schedule" ELSE "plan"
           n == [IdleRun EXCEPT
              !.pc      = pc,
              !.mode    = mode,
              !.at      = now,
              !.planned = IF fetch THEN NoRows ELSE [m \in known |-> stored[m]],
              !.force   = fetch,
              !.boot    = fetch /\ mode = "adaptive",
              !.before  = Posted]
<1>1. pc \notin {"blocks", "detail"} /\ (mode = "snapshot" => fetch)
  OBVIOUS
<1>2. n.pc = pc /\ n.batch = {} /\ n.mode = mode /\ n.force = fetch
  BY DEF IdleRun
<1>3. Continue(r, n)
  BY DEF Start
<1> HIDE DEF n, pc, fetch
<1>4. Registered(n)
  BY <1>1, <1>2, EmptyRegistered
<1> QED
  BY <1>3, <1>4, RegisteredContinued

LEMMA ListingShape ==
    ASSUME Inv, RunsCover, RunsRegistered, NEW r \in Runs,
           \/ FetchScheduleForClubs(r) \/ QueryClub(r) \/ FetchSeasons(r) \/ QueryLeague(r)
           \/ FetchPage(r) \/ SaveRow(r) \/ EndListing(r) \/ Plan(r) \/ ResolveSeason(r)
    PROVE  \E n : Continue(r, n) /\ Early(n)
<1>0. /\ run[r] \in Run /\ run[r].batch = {} /\ run[r].details = NoRows
      /\ run[r].mode = "snapshot" => run[r].force
  <2>1. run[r] \in Run /\ Covers(run[r]) /\ Registered(run[r])
    BY RunOf DEF RunsCover, RunsRegistered
  <2>2. run[r].pc \in {"schedule", "clubs", "seasons", "leagues", "list", "plan", "season"}
    BY DEF FetchScheduleForClubs, QueryClub, FetchSeasons, QueryLeague, FetchPage, SaveRow,
           EndListing, Plan, ResolveSeason
  <2> QED
    BY <2>1, <2>2 DEF Covers, Fresh, Registered
<1>1. CASE FetchScheduleForClubs(r)
  <2> DEFINE a == [run[r] EXCEPT !.clubs = RegisteredClubs]
             b == [run[r] EXCEPT !.clean = FALSE]
  <2>1. PICK ok \in Answers : Continue(r, IF ok THEN NextClub(a) ELSE AfterSchedules(b))
    BY <1>1 DEF FetchScheduleForClubs
  <2>2. a \in Run /\ b \in Run
    BY <1>0 DEF Run
  <2>3. /\ a.batch = {} /\ a.details = NoRows /\ a.mode = run[r].mode /\ a.force = run[r].force
        /\ b.batch = {} /\ b.details = NoRows /\ b.mode = run[r].mode /\ b.force = run[r].force
    BY <1>0 DEF Run
  <2> HIDE DEF a, b
  <2> DEFINE n == NextClub(a)
  <2>4. Early(n)
    <3>1. \/ PastClubs(n, a)
          \/ Kept(n, a) /\ n.pc = "clubs" /\ n.force = a.force
      BY <2>2, NextClubShape
    <3> HIDE DEF n
    <3> QED
      BY <1>0, <2>2, <2>3, <3>1, PastClubsEarly, EmptyEarly DEF Kept
  <2>5. Early(AfterSchedules(b))
    BY <1>0, <2>2, <2>3, AfterSchedulesShape, PastClubsEarly
  <2> QED
    BY <2>1, <2>4, <2>5
<1>2. CASE QueryClub(r)
  <2> DEFINE n(c) == [run[r] EXCEPT !.pc = "list", !.listing = Absent,
                                    !.clubs = @ \ {c}, !.rows = ClubMatches(c)]
  <2>1. PICK c \in run[r].clubs : Continue(r, n(c))
    BY <1>2 DEF QueryClub
  <2>2. n(c).pc = "list" /\ n(c).batch = {} /\ n(c).details = NoRows
        /\ n(c).mode = run[r].mode /\ n(c).force = run[r].force
    BY <1>0 DEF Run
  <2> HIDE DEF n
  <2> QED
    BY <1>0, <2>1, <2>2, EmptyEarly
<1>3. CASE FetchSeasons(r)
  <2> DEFINE b == [run[r] EXCEPT !.leagues = {}, !.clean = FALSE]
  <2>1. PICK ok \in Answers : Continue(r, IF ok THEN NextLeague(run[r]) ELSE AfterSchedules(b))
    BY <1>3 DEF FetchSeasons
  <2>2. b \in Run /\ b.batch = {} /\ b.details = NoRows /\ b.mode = run[r].mode /\ b.force = run[r].force
    BY <1>0 DEF Run
  <2> HIDE DEF b
  <2>3. Early(NextLeague(run[r])) /\ Early(AfterSchedules(b))
    BY <1>0, <2>2, NextLeagueShape, AfterSchedulesShape, PastClubsEarly
  <2> QED
    BY <2>1, <2>3
<1>4. CASE QueryLeague(r)
  <2> DEFINE s(l) == [run[r] EXCEPT !.leagues = @ \ {l}]
             n(l) == [s(l) EXCEPT !.pc = "list", !.listing = l, !.rows = LeagueMatches(l)]
  <2>1. PICK l \in run[r].leagues :
          Continue(r, IF NeedsListing(s(l), l) THEN n(l) ELSE NextLeague(s(l)))
    BY <1>4 DEF QueryLeague
  <2>2. /\ s(l) \in Run /\ s(l).batch = {} /\ s(l).details = NoRows
        /\ s(l).mode = run[r].mode /\ s(l).force = run[r].force
    BY <1>0 DEF Run
  <2> HIDE DEF s
  <2>3. n(l).pc = "list" /\ n(l).batch = {} /\ n(l).details = NoRows
        /\ n(l).mode = run[r].mode /\ n(l).force = run[r].force
    BY <2>2 DEF Run
  <2> HIDE DEF n
  <2>4. Early(n(l)) /\ Early(NextLeague(s(l)))
    BY <1>0, <2>2, <2>3, EmptyEarly, NextLeagueShape, PastClubsEarly
  <2> QED
    BY <2>1, <2>4
<1>5. CASE FetchPage(r)
  <2> DEFINE p == NextPage(run[r].rows)
             n(ok) == [run[r] EXCEPT !.rows = @ \ p,
                         !.page = IF ok THEN Listed(p) ELSE NoRows, !.clean = @ /\ ok]
  <2>1. PICK ok \in Answers : Continue(r, n(ok))
    BY <1>5 DEF FetchPage
  <2>2. n(ok).pc = "list" /\ n(ok).batch = {} /\ n(ok).details = NoRows /\ n(ok).mode = run[r].mode
        /\ n(ok).force = run[r].force
    BY <1>0, <1>5 DEF Run, FetchPage
  <2> HIDE DEF n
  <2> QED
    BY <1>0, <2>1, <2>2, EmptyEarly
<1>6. CASE SaveRow(r)
  <2> DEFINE n(m) == [run[r] EXCEPT
                !.planned = WithRow(@, m, run[r].page[m]),
                !.page = [x \in DOMAIN @ \ {m} |-> @[x]]]
  <2>1. PICK m \in DOMAIN run[r].page : Continue(r, n(m))
    BY <1>6 DEF SaveRow
  <2>2. n(m).pc = "list" /\ n(m).batch = {} /\ n(m).details = NoRows /\ n(m).mode = run[r].mode
        /\ n(m).force = run[r].force
    BY <1>0, <1>6 DEF Run, SaveRow
  <2> HIDE DEF n
  <2> QED
    BY <1>0, <2>1, <2>2, EmptyEarly
<1>7. CASE EndListing(r)
  <2> DEFINE b == [run[r] EXCEPT !.listing = Absent]
             n == NextClub(run[r])
  <2>1. b \in Run /\ b.batch = {} /\ b.details = NoRows /\ b.mode = run[r].mode /\ b.force = run[r].force
    BY <1>0 DEF Run
  <2> HIDE DEF b
  <2>2. Early(n)
    <3>1. \/ PastClubs(n, run[r])
          \/ Kept(n, run[r]) /\ n.pc = "clubs" /\ n.force = run[r].force
      BY <1>0, NextClubShape
    <3> HIDE DEF n
    <3> QED
      BY <1>0, <3>1, PastClubsEarly, EmptyEarly DEF Kept
  <2>3. Early(NextLeague(b))
    BY <1>0, <2>1, NextLeagueShape, PastClubsEarly
  <2>4. Continue(r, n) \/ Continue(r, NextLeague(b))
    BY <1>7 DEF EndListing, b
  <2> HIDE DEF n
  <2> QED
    BY <2>2, <2>3, <2>4
<1>8. CASE Plan(r)
  BY <1>0, <1>8, EnsureLeagueSchedulesShape, PastClubsEarly DEF Plan
<1>9. CASE ResolveSeason(r)
  <2> DEFINE b == [run[r] EXCEPT !.clean = FALSE]
             ls == leagueUuidsFromPlanned(run[r].planned)
             n1 == EnterRankings(run[r], ls)
             n2 == EnterSchedules(b)
  <2>1. PICK ok \in IF SeasonStored THEN {TRUE} ELSE Answers :
          Continue(r, IF ok THEN n1 ELSE n2)
    BY <1>9 DEF ResolveSeason
  <2>2. b \in Run /\ b.batch = {} /\ b.details = NoRows /\ b.mode = run[r].mode /\ b.force = run[r].force
    BY <1>0 DEF Run
  <2> HIDE DEF b, ls
  <2>3. /\ Kept(n1, run[r]) /\ Sending(n1, run[r]) /\ n1.force = run[r].force
        /\ Kept(n2, b) /\ Sending(n2, b) /\ n2.force = b.force
    BY <1>0, <2>2, EnterRankingsShape, EnterSchedulesShape
  <2> HIDE DEF n1, n2
  <2>4. Early(n1) /\ Early(n2)
    BY <1>0, <2>2, <2>3, EmptyEarly DEF Kept, Sending
  <2> QED
    BY <2>1, <2>4
<1> QED
  BY <1>1, <1>2, <1>3, <1>4, <1>5, <1>6, <1>7, <1>8, <1>9

LEMMA ListingRegistered ==
    ASSUME Inv, RunsCover, RunsRegistered, NEW r \in Runs,
           \/ FetchScheduleForClubs(r) \/ QueryClub(r) \/ FetchSeasons(r) \/ QueryLeague(r)
           \/ FetchPage(r) \/ SaveRow(r) \/ EndListing(r) \/ Plan(r) \/ ResolveSeason(r)
    PROVE  RunsRegistered'
<1>1. PICK n : Continue(r, n) /\ Early(n)
  BY ListingShape
<1> QED
  BY <1>1, RegisteredContinued DEF Early

LEMMA BeginBlockRegistered ==
    ASSUME Inv, RunsRegistered, NEW r \in Runs, BeginBlock(r)
    PROVE  RunsRegistered'
<1> DEFINE n(b) == [run[r] EXCEPT !.pc = "detail", !.block = b, !.left = b.matches]
<1>0. run[r] \in Run /\ run[r].pc = "blocks" /\ Registered(run[r])
  BY RunOf DEF BeginBlock, RunsRegistered
<1>1. PICK b \in run[r].blocks : Continue(r, n(b))
  BY DEF BeginBlock
<1>2. /\ n(b).pc = "detail" /\ n(b).mode = run[r].mode /\ n(b).force = run[r].force
      /\ n(b).at = run[r].at /\ n(b).planned = run[r].planned /\ n(b).batch = run[r].batch
      /\ n(b).blocks = run[r].blocks
  BY <1>0 DEF Run
<1> HIDE DEF n
<1> QED
  BY <1>0, <1>1, <1>2, SameBlocksRegistered, RegisteredContinued

LEMMA FetchDetailRegistered ==
    ASSUME Inv, RunsCover, RunsRegistered, NEW r \in Runs, FetchDetail(r)
    PROVE  RunsRegistered'
<1>0. /\ run[r] \in Run /\ run[r].pc = "detail" /\ Registered(run[r])
      /\ run[r].block \in DueBlocks(run[r])
  BY RunOf DEF RunsCover, Covers, InBlock, RunsRegistered, FetchDetail
<1> DEFINE s(m) == [run[r] EXCEPT !.left = @ \ {m}]
           a(m) == [s(m) EXCEPT !.page = OneRow(m, sams[m])]
           b(m) == [s(m) EXCEPT !.clean = FALSE]
<1>1. PICK m \in run[r].left, ok \in Answers :
        Continue(r, IF ok THEN a(m) ELSE NextMatch(b(m)))
  BY DEF FetchDetail
<1>2. /\ s(m) \in Run
      /\ s(m).pc = "detail" /\ s(m).mode = run[r].mode /\ s(m).force = run[r].force
      /\ s(m).at = run[r].at /\ s(m).planned = run[r].planned /\ s(m).batch = run[r].batch
      /\ s(m).blocks = run[r].blocks /\ s(m).block = run[r].block
  BY <1>0 DEF Run
<1> HIDE DEF s
<1>3. /\ a(m).pc = "detail" /\ a(m).mode = run[r].mode /\ a(m).force = run[r].force
      /\ a(m).at = run[r].at /\ a(m).planned = run[r].planned /\ a(m).batch = run[r].batch
      /\ a(m).blocks = run[r].blocks
  BY <1>2 DEF Run
<1>4. /\ b(m) \in Run
      /\ b(m).pc = "detail" /\ b(m).mode = run[r].mode /\ b(m).force = run[r].force
      /\ b(m).at = run[r].at /\ b(m).planned = run[r].planned /\ b(m).batch = run[r].batch
      /\ b(m).blocks = run[r].blocks /\ b(m).block = run[r].block
  BY <1>2 DEF Run
<1> HIDE DEF a, b
<1>5. Registered(a(m)) /\ Registered(b(m))
  BY <1>0, <1>3, <1>4, SameBlocksRegistered
<1>6. b(m).block \in DueBlocks(b(m))
  BY <1>0, <1>4, SamePlan
<1>7. Registered(NextMatch(b(m)))
  BY <1>4, <1>5, <1>6, NextMatchRegistered
<1> QED
  BY <1>1, <1>5, <1>7, RegisteredContinued

LEMMA StoreDetailRegistered ==
    ASSUME Inv, RunsCover, RunsRegistered, NEW r \in Runs, StoreDetail(r)
    PROVE  RunsRegistered'
<1>0. /\ run[r] \in Run /\ run[r].pc = "detail" /\ Registered(run[r])
      /\ run[r].block \in DueBlocks(run[r])
  BY RunOf DEF RunsCover, Covers, InBlock, RunsRegistered, StoreDetail
<1> DEFINE details(m) == WithRow(run[r].details, m, run[r].page[m])
           n(m) == [run[r] EXCEPT !.page = NoRows, !.details = details(m)]
<1>1. PICK m \in DOMAIN run[r].page : Continue(r, NextMatch(n(m)))
  BY DEF StoreDetail
<1>2. details(m) \in Rows
  <2>1. run[r].details \in Rows
    BY <1>0 DEF Run
  <2> QED
    BY <2>1, PageRow, WithRowTyped
<1> HIDE DEF details
<1>3. /\ n(m) \in Run
      /\ n(m).pc = "detail" /\ n(m).mode = run[r].mode /\ n(m).force = run[r].force
      /\ n(m).at = run[r].at /\ n(m).planned = run[r].planned /\ n(m).batch = run[r].batch
      /\ n(m).blocks = run[r].blocks /\ n(m).block = run[r].block
  BY <1>0, <1>2, NoRowsTyped DEF Run
<1> HIDE DEF n
<1>4. Registered(n(m)) /\ n(m).block \in DueBlocks(n(m))
  BY <1>0, <1>3, SameBlocksRegistered, SamePlan
<1> QED
  BY <1>1, <1>3, <1>4, NextMatchRegistered, RegisteredContinued

\* A run n that has asked for a table as run s, with the event e of it.
Ranked(n, s, e) ==
    /\ n.mode = s.mode /\ n.at = s.at /\ n.planned = s.planned /\ n.boot = s.boot
    /\ n.force = s.force /\ n.page = s.page /\ n.details = s.details /\ n.before = s.before
    /\ n.pc = s.pc /\ (n.clean => s.clean)
    /\ n.batch = s.batch \cup {e}

LEMMA FetchRankingShape ==
    ASSUME Inv, NEW r \in Runs, FetchRanking(r)
    PROVE  \E l \in run[r].leagues : \E source \in RankingSources(run[r], l) : \E e, n :
             /\ e.kind = "ranking" /\ e.league = l /\ e.source = source
             /\ n \in Run /\ Ranked(n, run[r], e)
             /\ Continue(r, n) \/ Continue(r, EnterSchedules(n))
<1>0. run[r] \in Run
  BY RunOf
<1> DEFINE Event(l, ok, source) ==
             [kind    |-> "ranking",
              league  |-> l,
              source  |-> source,
              clubs   |-> interestedRegisteredClubUuids(run[r].planned, l),
              results |-> IF ok THEN Table(run[r], l) ELSE {},
              ok      |-> ok]
           After(l, ok, source) ==
             [run[r] EXCEPT !.leagues = @ \ {l}, !.batch = @ \cup {Event(l, ok, source)},
                            !.clean = @ /\ ok]
<1>1. PICK l \in run[r].leagues, ok \in Answers :
        \E source \in RankingSources(run[r], l) :
             Continue(r, IF After(l, ok, source).leagues = {}
                         THEN EnterSchedules(After(l, ok, source)) ELSE After(l, ok, source))
  BY DEF FetchRanking
<1>2. PICK source \in RankingSources(run[r], l) :
        Continue(r, IF After(l, ok, source).leagues = {}
                    THEN EnterSchedules(After(l, ok, source)) ELSE After(l, ok, source))
  BY <1>1
<1> DEFINE e == Event(l, ok, source)
           n == After(l, ok, source)
<1>3. e.kind = "ranking" /\ e.league = l /\ e.source = source
  OBVIOUS
<1>4. e \in RankingEvent
  <2>1. l \in Leagues /\ ok \in BOOLEAN
    BY <1>0, AnswerKinds DEF Run
  <2> DEFINE clubs   == interestedRegisteredClubUuids(run[r].planned, l)
             results == IF ok THEN Table(run[r], l) ELSE {}
  <2>2. clubs \subseteq Clubs
    BY ClubsRegistered, RefreshAssumption DEF RefreshAssumption
  <2>3. results \subseteq Matches
    BY PostedTyped DEF Table
  <2>4. source \in BlockIds \cup {Absent}
    BY <1>0, <2>1, SourcesTyped
  <2> HIDE DEF clubs, results
  <2>5. [kind |-> "ranking", league |-> l, source |-> source,
         clubs |-> clubs, results |-> results, ok |-> ok] \in RankingEvent
    BY <2>1, <2>2, <2>3, <2>4 DEF RankingEvent
  <2> QED
    BY <2>5 DEF clubs, results
<1>5. n \in Run /\ Ranked(n, run[r], e)
  <2>1. ok \in BOOLEAN
    BY AnswerKinds
  <2>2. (run[r].clean /\ ok) \in BOOLEAN
    BY <1>0, <2>1 DEF Run
  <2> HIDE DEF Event
  <2>3. n \in Run
    BY <1>0, <1>4, <2>2 DEF Run
  <2>4. n.clean = (run[r].clean /\ ok)
    BY <1>0 DEF Run
  <2>5. Ranked(n, run[r], e)
    BY <1>0, <2>4 DEF Run, Ranked
  <2> QED
    BY <2>3, <2>5
<1>6. Continue(r, n) \/ Continue(r, EnterSchedules(n))
  BY <1>2
<1> HIDE DEF n, e
<1> QED
  BY <1>3, <1>5, <1>6

LEMMA FetchRankingRegistered ==
    ASSUME Inv, RunsRegistered, NEW r \in Runs, FetchRanking(r)
    PROVE  RunsRegistered'
<1>1. PICK l \in run[r].leagues : \E source \in RankingSources(run[r], l) : \E e, n :
             /\ e.kind = "ranking" /\ e.league = l /\ e.source = source
             /\ n \in Run /\ Ranked(n, run[r], e)
             /\ Continue(r, n) \/ Continue(r, EnterSchedules(n))
  BY FetchRankingShape
<1>a. PICK source \in RankingSources(run[r], l) : \E e, n :
             /\ e.kind = "ranking" /\ e.league = l /\ e.source = source
             /\ n \in Run /\ Ranked(n, run[r], e)
             /\ Continue(r, n) \/ Continue(r, EnterSchedules(n))
  BY <1>1
<1>2. PICK e, n :
             /\ e.kind = "ranking" /\ e.league = l /\ e.source = source
             /\ n \in Run /\ Ranked(n, run[r], e)
             /\ Continue(r, n) \/ Continue(r, EnterSchedules(n))
  BY <1>a
<1>3. run[r].pc = "rankings" /\ Registered(run[r])
  BY DEF FetchRanking, RunsRegistered
<1>4. /\ BlockEvents(n.batch) = BlockEvents(run[r].batch)
      /\ RankingEvents(n.batch) = RankingEvents(run[r].batch) \cup {e}
  BY <1>2 DEF Ranked, BlockEvents, RankingEvents
<1>5. DueBlocks(n) = DueBlocks(run[r]) /\ n.at = run[r].at /\ n.mode = run[r].mode
  BY <1>2, SamePlan DEF Ranked
<1>6. \/ BlockEvents(n.batch) = {}
      \/ n.mode # "snapshot" /\ FromDue(n) /\ AllDue(n, {})
  BY <1>3, <1>4, <1>5 DEF Registered, FromDue, AllDue
<1>7. SourcesNamed(n.batch)
  <2> SUFFICES ASSUME NEW t \in RankingEvents(n.batch), NEW x \in BlockEvents(n.batch),
                      x.league = t.league, x.state \in RankingStates
               PROVE  \E b \in BlockEvents(n.batch) : b.id = t.source
    BY DEF SourcesNamed
  <2>1. CASE t # e
    BY <1>3, <1>4, <2>1 DEF Registered, SourcesNamed
  <2>2. CASE t = e
    <3>1. run[r].mode # "snapshot" /\ FromDue(run[r]) /\ AllDue(run[r], {})
      BY <1>3, <1>4 DEF Registered
    <3>2. PICK b \in DueBlocks(run[r]) : EventOf(x, b, run[r].at)
      BY <1>4, <3>1 DEF FromDue
    <3>3. b.league = l /\ decideBlock(b, run[r].at).state \in RankingStates
      BY <1>2, <2>2, <3>2 DEF EventOf
    <3>4. PICK y \in DueBlocks(run[r]) : y.id = source
      BY <3>1, <3>3, SourceDue
    <3> QED
      BY <1>2, <1>4, <2>2, <3>1, <3>4 DEF AllDue
  <2> QED
    BY <2>1, <2>2
<1>8. n.mode = "snapshot" => n.force
  BY <1>2, <1>3 DEF Ranked, Registered
<1>9. Registered(n)
  BY <1>2, <1>3, <1>6, <1>7, <1>8 DEF Registered, Ranked
<1>10. Registered(EnterSchedules(n))
  <2> DEFINE s == EnterSchedules(n)
  <2>1. Kept(s, n) /\ Sending(s, n) /\ s.force = n.force /\ s.pc # "rankings"
    BY <1>2, EnterSchedulesShape
  <2> HIDE DEF s
  <2>2. OwnClubs(n.batch)
    BY <1>6, DueOwn DEF OwnClubs
  <2>3. Registered(s)
    BY <1>7, <1>8, <2>1, <2>2 DEF Registered, Kept, Sending
  <2> QED
    BY <2>3 DEF s
<1> QED
  BY <1>2, <1>9, <1>10, RegisteredContinued

\* A run n that goes on to publish with the schedules of run s, or without them.
Scheduled(n, s, ok) ==
    /\ n.pc = "publish" /\ n.mode = s.mode /\ n.force = s.force /\ n.page = s.page
    /\ n.details = s.details /\ n.before = s.before
    /\ n.clean => s.clean /\ ok
    /\ SeasonStored => ok
    /\ n.batch = IF ok THEN s.batch \cup buildClubMatchScheduleEvents(s) ELSE s.batch

LEMMA BuildSchedulesShape ==
    ASSUME Inv, NEW r \in Runs, BuildSchedules(r)
    PROVE  \E ok \in BOOLEAN : \E n : Scheduled(n, run[r], ok) /\ Continue(r, n)
<1> DEFINE events == buildClubMatchScheduleEvents(run[r])
           batch(ok) == IF ok THEN run[r].batch \cup events ELSE run[r].batch
           n(ok) == [run[r] EXCEPT !.pc = "publish", !.clean = @ /\ ok, !.batch = batch(ok)]
<1>0. run[r] \in Run
  BY RunOf
<1>1. PICK ok \in IF SeasonStored THEN {TRUE} ELSE Answers :
          Continue(r, [run[r] EXCEPT !.pc = "publish", !.clean = @ /\ ok,
                                     !.batch = IF ok THEN @ \cup events ELSE @])
  BY DEF BuildSchedules
<1>2. Continue(r, n(ok))
  BY <1>1
<1>3. ok \in BOOLEAN
  BY <1>1, AnswerKinds
<1>4. Scheduled(n(ok), run[r], ok)
  <2> HIDE DEF events
  <2>1. n(ok).batch = batch(ok)
    <3> HIDE DEF batch
    <3> QED
      BY <1>0 DEF Run
  <2>2. /\ n(ok).pc = "publish" /\ n(ok).mode = run[r].mode /\ n(ok).force = run[r].force
        /\ n(ok).page = run[r].page /\ n(ok).details = run[r].details
        /\ n(ok).before = run[r].before /\ n(ok).clean = (run[r].clean /\ ok)
    <3> HIDE DEF batch
    <3> QED
      BY <1>0 DEF Run
  <2> HIDE DEF n
  <2> QED
    BY <2>1, <2>2 DEF Scheduled, events
<1> HIDE DEF n
<1> QED
  BY <1>2, <1>3, <1>4

LEMMA SendingStepRegistered ==
    ASSUME Inv, RunsRegistered, NEW r \in Runs, BuildSchedules(r) \/ Publish(r)
    PROVE  RunsRegistered'
<1>0. /\ run[r] \in Run /\ (run[r].mode = "snapshot" => run[r].force)
      /\ OwnClubs(run[r].batch) /\ SourcesNamed(run[r].batch)
  BY RunOf DEF RunsRegistered, Registered, BuildSchedules, Publish
<1>1. CASE BuildSchedules(r)
  <2>1. PICK ok \in BOOLEAN : \E n : Scheduled(n, run[r], ok) /\ Continue(r, n)
    BY <1>1, BuildSchedulesShape
  <2>a. PICK n : Scheduled(n, run[r], ok) /\ Continue(r, n)
    BY <2>1
  <2>2. /\ BlockEvents(n.batch) = BlockEvents(run[r].batch)
        /\ RankingEvents(n.batch) = RankingEvents(run[r].batch)
    <3> DEFINE events == buildClubMatchScheduleEvents(run[r])
    <3>1. \A e \in events : e.kind = "schedule"
      BY DEF buildClubMatchScheduleEvents
    <3>2. n.batch = run[r].batch \/ n.batch = run[r].batch \cup events
      BY <2>a DEF Scheduled
    <3> HIDE DEF events
    <3> QED
      BY <3>1, <3>2 DEF BlockEvents, RankingEvents
  <2>3. Registered(n)
    BY <1>0, <2>a, <2>2 DEF Registered, Scheduled, OwnClubs, SourcesNamed
  <2> QED
    BY <2>a, <2>3, RegisteredContinued
<1>2. CASE Publish(r)
  <2> DEFINE n == [run[r] EXCEPT !.pc = "record"]
  <2>1. n.pc = "record" /\ n.batch = run[r].batch /\ n.mode = run[r].mode /\ n.force = run[r].force
    BY <1>0 DEF Run
  <2>2. Continue(r, n)
    BY <1>2 DEF Publish
  <2> HIDE DEF n
  <2>3. Registered(n)
    BY <1>0, <2>1 DEF Registered
  <2> QED
    BY <2>2, <2>3, RegisteredContinued
<1> QED
  BY <1>1, <1>2

LEMMA NextRegistered == Inv /\ RunsCover /\ RunsRegistered /\ [Next]_vars => RunsRegistered'
<1> SUFFICES ASSUME Inv, RunsCover, RunsRegistered, [Next]_vars PROVE RunsRegistered'
  OBVIOUS
<1>1. CASE \E r \in Runs, mode \in Modes : Start(r, mode)
  BY <1>1, StartRegistered
<1>2. ASSUME NEW r \in Runs, Step(r) PROVE RunsRegistered'
  <2>1. CASE PublishFails(r) \/ Record(r)
    BY <2>1, IdleRegistered, RegisteredContinued DEF PublishFails, Ends, Record
  <2>2. CASE ~(PublishFails(r) \/ Record(r))
    BY <1>2, <2>2, ListingRegistered, BeginBlockRegistered, FetchDetailRegistered,
       StoreDetailRegistered, FetchRankingRegistered, SendingStepRegistered DEF Step
  <2> QED
    BY <2>1, <2>2
<1>3. CASE \E r \in Runs : RunFails(r)
  BY <1>3, IdleRegistered, RegisteredContinued DEF RunFails, Ends
<1>4. CASE run' = run
  BY <1>4 DEF RunsRegistered
<1> QED
  BY <1>1, <1>2, <1>3, <1>4 DEF Next, vars, Tick, PostResult, MoveMatch

LEMMA RegisteredOnly == Inv /\ RunsCover /\ RunsRegistered => OnlyRegisteredBlocks
<1> SUFFICES ASSUME Inv, RunsCover, RunsRegistered, NEW r \in Runs
             PROVE  OwnClubs(run[r].batch) /\ SourcesNamed(run[r].batch)
  BY DEF OnlyRegisteredBlocks, OwnClubs, SourcesNamed
<1>1. run[r].pc \in RunPcs /\ Covers(run[r]) /\ Registered(run[r])
  BY RunOf DEF Run, RunsCover, RunsRegistered
<1>2. CASE run[r].batch = {}
  BY <1>2 DEF OwnClubs, SourcesNamed, BlockEvents, RankingEvents
<1>3. CASE run[r].pc \in {"blocks", "detail"}
  BY <1>1, <1>3, DueOwn DEF Registered, SourcesNamed
<1>4. CASE run[r].pc = "rankings"
  BY <1>1, <1>4, DueOwn DEF Registered, OwnClubs
<1>5. CASE run[r].pc \in {"schedules", "publish", "record"}
  BY <1>1, <1>5 DEF Registered
<1> QED
  BY <1>1, <1>2, <1>3, <1>4, <1>5 DEF Covers, Fresh, RunPcs

LEMMA RunInvariant == Spec => [](Inv /\ RunsCover /\ RunsRegistered)
<1>1. Init => RunsCover /\ RunsRegistered
  BY IdleCovers, IdleRegistered DEF Init, RunsCover, RunsRegistered
<1> QED
  BY <1>1, InitInv, NextInv, NextCovers, NextRegistered, PTL DEF Spec

\* docs/sync.md, rankings-only league watch: for every number of runs, no run sends a
\* block of matches without a registered club, and a league that has a block event of
\* a ranking state is ranked in the name of a block whose event is in the same batch.
THEOREM RegisteredBlocksOnly == Spec => []OnlyRegisteredBlocks
  BY RunInvariant, RegisteredOnly, PTL

-----------------------------------------------------------------------------
(* Runs that do not overlap.  The table holds every result that a run has  *)
(* fetched, put into an event or sent, because nobody else writes it; so   *)
(* the schedules built from it show them all.                              *)

OneRun == \A q, r \in Runs : q = r

StoredResults == {m \in Matches : stored[m] # Absent /\ stored[m].done}

\* Nothing in the hands of run s is older than the table, whose results are kept,
\* and all results it has put into an event are in the table.  It fetches after it
\* began, so that what it fetches has the results posted before.
Current(s, kept, posted) ==
    /\ \A m \in DOMAIN s.page : m \in kept => s.page[m].done
    /\ ResultsIn(s.details) \subseteq kept
    /\ \A e \in s.batch : e.kind # "ranking" => EventResults(e) \subseteq kept
    /\ s.before \subseteq posted
    /\ \A m \in s.before \cap DOMAIN s.page : s.page[m].done

\* The schedules a run is about to send show what consumers have been shown.
FeedShown(s, schedules) ==
    s.pc # "record" =>
        \A e \in ScheduleEvents(s.batch) :
            \A m \in ResultsIn(schedules[e.club]) \cap DOMAIN e.rows : e.rows[m].done

\* A result of club c's match m that was posted when run s began: the club is still
\* to be listed, the match is still to be fetched or stored, or the table has it.
Awaited(s, c, m, kept) ==
    /\ s.pc = "clubs" => c \in s.clubs \/ m \in kept
    /\ s.pc = "list" =>
        m \in kept \/ (s.listing = Absent /\ (c \in s.clubs \/ m \in s.rows \/ m \in DOMAIN s.page))
    /\ s.pc \notin {"idle", "schedule", "clubs", "list", "publish", "record"} => m \in kept

CaughtUp(s, kept) ==
    s.mode = "snapshot" /\ s.clean =>
        /\ \A c \in RegisteredClubs : \A m \in s.before \cap ClubMatches(c) : Awaited(s, c, m, kept)
        /\ s.pc = "publish" =>
            \A c \in RegisteredClubs \cap StoredClubs :
                \E e \in ScheduleEvents(s.batch) :
                    e.club = c /\ s.before \cap ClubMatches(c) \subseteq ResultsIn(e.rows)

InOrder(s, kept, posted, schedules) ==
    Current(s, kept, posted) /\ FeedShown(s, schedules) /\ CaughtUp(s, kept)

RunsInOrder == \A r \in Runs : InOrder(run[r], StoredResults, Posted, feed.schedules)

FeedStored == \A c \in RegisteredClubs : ResultsIn(feed.schedules[c]) \subseteq StoredResults

\* Run n has what run s has in its hands.
Moved(n, s) ==
    /\ n.mode = s.mode /\ n.boot = s.boot /\ n.page = s.page /\ n.details = s.details
    /\ n.batch = s.batch /\ n.before = s.before /\ (n.clean => s.clean)

AllCaught(s, kept) ==
    s.mode = "snapshot" /\ s.clean =>
        \A c \in RegisteredClubs : s.before \cap ClubMatches(c) \subseteq kept

Inside == {"plan", "seasons", "leagues", "season", "blocks", "detail"}

LEMMA KeptMoved ==
    ASSUME NEW n, NEW s, Kept(n, s)
    PROVE  Moved(n, s) /\ (Sending(n, s) => Sending(n, n))
  BY KeptAffected DEF Kept, Moved, Sending

LEMMA PastClubsInside ==
    ASSUME NEW n, NEW s, PastClubs(n, s)
    PROVE  Moved(n, s) /\ (n.pc \in Inside \/ Sending(n, n))
  BY KeptMoved DEF PastClubs, Inside

\* Without an affected club there is no snapshot, and no event of a registered club.
LEMMA NoneAffected ==
    ASSUME NEW s, AffectedClubs(s) = {}
    PROVE  s.mode # "snapshot" /\ \A b \in BlockEvents(s.batch) : b.clubs \cap RegisteredClubs = {}
<1>1. ~(s.boot \/ s.mode = "snapshot")
  BY RefreshAssumption DEF RefreshAssumption, AffectedClubs
<1>2. (UNION {e.clubs : e \in BlockEvents(s.batch)}) \cap RegisteredClubs = {}
  BY <1>1 DEF AffectedClubs
<1>3. ASSUME NEW b \in BlockEvents(s.batch) PROVE b.clubs \cap RegisteredClubs = {}
  <2>1. b.clubs \in {e.clubs : e \in BlockEvents(s.batch)}
    OBVIOUS
  <2> QED
    BY <1>2, <2>1
<1> QED
  BY <1>1, <1>3

LEMMA CurrentMoved ==
    ASSUME NEW n, NEW s, NEW kept, NEW posted, Current(s, kept, posted), Moved(n, s)
    PROVE  Current(n, kept, posted)
  BY DEF Current, Moved

\* A run that goes on past the listing of clubs.
LEMMA InsideInOrder ==
    ASSUME NEW n, n.pc \in Inside \/ Sending(n, n),
           NEW kept, NEW posted, NEW schedules,
           Current(n, kept, posted), AllCaught(n, kept),
           \A e \in ScheduleEvents(n.batch) :
               \A m \in ResultsIn(schedules[e.club]) \cap DOMAIN e.rows : e.rows[m].done
    PROVE  InOrder(n, kept, posted, schedules)
<1>1. FeedShown(n, schedules)
  BY DEF FeedShown
<1>2. n.pc = "publish" => AffectedClubs(n) = {}
  BY DEF Inside, Sending
<1>3. n.pc \notin {"clubs", "list"}
  BY DEF Inside, Sending
<1>4. CaughtUp(n, kept)
  BY <1>2, <1>3, NoneAffected DEF CaughtUp, AllCaught, Awaited
<1> QED
  BY <1>1, <1>4 DEF InOrder

LEMMA MovedInOrder ==
    ASSUME NEW n, NEW s, NEW kept, NEW posted, NEW schedules,
           Moved(n, s), n.pc \in Inside \/ Sending(n, n),
           InOrder(s, kept, posted, schedules), s.pc # "record", AllCaught(s, kept)
    PROVE  InOrder(n, kept, posted, schedules)
<1>1. Current(n, kept, posted)
  BY CurrentMoved DEF InOrder
<1>2. AllCaught(n, kept)
  BY DEF AllCaught, Moved
<1>3. \A e \in ScheduleEvents(n.batch) :
        \A m \in ResultsIn(schedules[e.club]) \cap DOMAIN e.rows : e.rows[m].done
  BY DEF InOrder, FeedShown, Moved
<1> QED
  BY <1>1, <1>2, <1>3, InsideInOrder

\* A run at the listing of clubs or leagues, before any event.
LEMMA ListingInOrder ==
    ASSUME NEW n, n.pc \in {"schedule", "clubs", "list"}, n.batch = {}, n.details = NoRows,
           NEW kept, NEW posted, NEW schedules,
           n.before \subseteq posted,
           \A m \in DOMAIN n.page : m \in kept \cup n.before => n.page[m].done,
           n.mode = "snapshot" /\ n.clean =>
               \A c \in RegisteredClubs : \A m \in n.before \cap ClubMatches(c) : Awaited(n, c, m, kept)
    PROVE  InOrder(n, kept, posted, schedules)
<1>1. Current(n, kept, posted)
  BY NoRowsTyped DEF Current
<1>2. FeedShown(n, schedules)
  BY DEF FeedShown, ScheduleEvents
<1>3. CaughtUp(n, kept)
  BY DEF CaughtUp
<1> QED
  BY <1>1, <1>2, <1>3 DEF InOrder

LEMMA IdleInOrder ==
    ASSUME NEW kept, NEW posted, NEW schedules
    PROVE  InOrder(IdleRun, kept, posted, schedules)
<1>1. Current(IdleRun, kept, posted)
  BY NoRowsTyped DEF Current, IdleRun
<1>2. FeedShown(IdleRun, schedules) /\ CaughtUp(IdleRun, kept)
  BY DEF FeedShown, CaughtUp, ScheduleEvents, IdleRun
<1> QED
  BY <1>1, <1>2 DEF InOrder

LEMMA ClosedInOrder ==
    ASSUME NEW s, NEW n, NEW kept, NEW posted, NEW schedules, Closed(n, s),
           InOrder(s, kept, posted, schedules), s.pc = "detail", AllCaught(s, kept)
    PROVE  InOrder(n, kept, posted, schedules)
<1> DEFINE e == ClosingEvent(s)
<1>1. e.kind = "block" /\ EventResults(e) = ResultsIn(s.details)
  BY DEF ClosingEvent, EventResults
<1> HIDE DEF e
<1>2. n.batch = s.batch \cup {e} /\ n.details = NoRows /\ Refreshed(n, s)
  BY DEF Closed, e
<1>3. Current(n, kept, posted)
  BY <1>1, <1>2, NoRowsTyped DEF Current, InOrder, Refreshed
<1>4. ScheduleEvents(n.batch) = ScheduleEvents(s.batch)
  BY <1>1, <1>2 DEF ScheduleEvents
<1>5. \A x \in ScheduleEvents(n.batch) :
        \A m \in ResultsIn(schedules[x.club]) \cap DOMAIN x.rows : x.rows[m].done
  BY <1>4 DEF InOrder, FeedShown
<1>6. AllCaught(n, kept)
  BY <1>2 DEF AllCaught, Refreshed
<1>7. n.pc \in Inside \/ Sending(n, n)
  BY DEF Closed, Inside
<1> QED
  BY <1>3, <1>5, <1>6, <1>7, InsideInOrder

LEMMA NextMatchInOrder ==
    ASSUME NEW s \in Run, NEW kept, NEW posted, NEW schedules, s.block \in MatchBlock,
           InOrder(s, kept, posted, schedules), s.pc = "detail"
    PROVE  InOrder(NextMatch(s), kept, posted, schedules)
<1> DEFINE n == NextMatch(s)
<1>1. \/ Closed(n, s)
      \/ Kept(n, s) /\ n.pc = "detail" /\ n.blocks = s.blocks /\ n.force = s.force
  BY NextMatchShape
<1> HIDE DEF n
<1>2. AllCaught(s, kept)
  BY DEF AllCaught, InOrder, CaughtUp, Awaited
<1>3. InOrder(n, kept, posted, schedules)
  BY <1>1, <1>2, ClosedInOrder, MovedInOrder, KeptMoved DEF Inside
<1> QED
  BY <1>3 DEF n

\* Every result the table has is posted, and a row that is stored is a row.
LEMMA StoredPosted ==
    ASSUME Inv
    PROVE  StoredResults \subseteq Posted
  BY DEF Inv, StoredTruthful, StoredResults

LEMMA RowNotAbsent ==
    ASSUME NEW row \in Row
    PROVE  row # Absent
<1>1. row \in [date : Int \cup {NoDate}, time : Int \cup {NoTime}, done : BOOLEAN]
  BY RefreshAssumption DEF RefreshAssumption, Row
<1> QED
  BY <1>1, RefreshAssumption DEF RefreshAssumption

LEMMA StoredMore ==
    ASSUME Inv, NEW m \in Matches, NEW row \in Row, m \in StoredResults => row.done,
           stored' = [stored EXCEPT ![m] = row]
    PROVE  /\ StoredResults \subseteq StoredResults'
           /\ StoredResults' \subseteq StoredResults \cup {m}
           /\ m \in StoredResults' <=> row.done
<1>1. stored' \in [Matches -> Row \cup {Absent}] /\ stored'[m] = row
  BY DEF Inv, StoredTruthful
<1>2. row # Absent
  BY RowNotAbsent
<1>3. \A q \in Matches : q # m => stored'[q] = stored[q]
  BY DEF Inv, StoredTruthful
<1> QED
  BY <1>1, <1>2, <1>3 DEF StoredResults

LEMMA InOrderContinued ==
    ASSUME OneRun, Inv, NEW r \in Runs, NEW n, Continue(r, n),
           InOrder(n, StoredResults', Posted', feed'.schedules)
    PROVE  RunsInOrder'
<1> SUFFICES ASSUME NEW q \in Runs
             PROVE  InOrder(run'[q], StoredResults', Posted', feed'.schedules)
  BY DEF RunsInOrder
<1>1. q = r
  BY DEF OneRun
<1>2. run'[q] = n
  BY <1>1 DEF Continue, Inv, RunsTruthful
<1> QED
  BY <1>2

\* Most steps of a run leave SAMS, the table and the consumers alone.
LEMMA InOrderGoesOn ==
    ASSUME OneRun, Inv, NEW r \in Runs, NEW n, Continue(r, n),
           UNCHANGED <<sams, stored, feed>>,
           InOrder(n, StoredResults, Posted, feed.schedules)
    PROVE  RunsInOrder'
<1>1. StoredResults' = StoredResults /\ Posted' = Posted /\ feed' = feed
  BY DEF StoredResults, Posted
<1> QED
  BY <1>1, InOrderContinued

-----------------------------------------------------------------------------
(* The steps.                                                              *)

LEMMA PostedGrows ==
    ASSUME RunsInOrder, UNCHANGED <<run, stored, feed>>, Posted \subseteq Posted'
    PROVE  RunsInOrder'
<1>1. StoredResults' = StoredResults /\ feed' = feed /\ run' = run
  BY DEF StoredResults
<1> SUFFICES ASSUME NEW q \in Runs
             PROVE  InOrder(run[q], StoredResults, Posted', feed.schedules)
  BY <1>1 DEF RunsInOrder
<1>2. InOrder(run[q], StoredResults, Posted, feed.schedules)
  BY DEF RunsInOrder
<1>3. Current(run[q], StoredResults, Posted')
  BY <1>2 DEF InOrder, Current
<1> QED
  BY <1>2, <1>3 DEF InOrder

LEMMA WorldInOrder ==
    ASSUME Inv, RunsInOrder,
           \/ Tick
           \/ \E m \in Matches : PostResult(m)
           \/ \E m \in Matches, f \in Fixtures : MoveMatch(m, f)
    PROVE  RunsInOrder'
<1>0. sams \in [Matches -> Row]
  BY DEF Inv, WorldTyped
<1>1. CASE Tick
  <2>1. Posted' = Posted
    BY <1>1 DEF Tick, Posted
  <2> QED
    BY <1>1, <2>1, PostedGrows DEF Tick, tables
<1>2. ASSUME NEW m \in Matches, PostResult(m) PROVE RunsInOrder'
  <2>1. \A n \in Matches : sams[n].done => sams'[n].done
    BY <1>0, <1>2 DEF PostResult, Row
  <2>2. DOMAIN sams' = DOMAIN sams
    BY <1>2 DEF PostResult
  <2>3. Posted \subseteq Posted'
    BY <1>0, <2>1, <2>2 DEF Posted, ResultsIn
  <2> QED
    BY <1>2, <2>3, PostedGrows DEF PostResult, tables
<1>3. ASSUME NEW m \in Matches, NEW f \in Fixtures, MoveMatch(m, f) PROVE RunsInOrder'
  <2>1. \A n \in Matches : sams[n].done => sams'[n].done
    BY <1>0, <1>3 DEF MoveMatch, Row
  <2>2. DOMAIN sams' = DOMAIN sams
    BY <1>3 DEF MoveMatch
  <2>3. Posted \subseteq Posted'
    BY <1>0, <2>1, <2>2 DEF Posted, ResultsIn
  <2> QED
    BY <1>3, <2>3, PostedGrows DEF MoveMatch, tables
<1> QED
  BY <1>1, <1>2, <1>3

LEMMA StartInOrder ==
    ASSUME OneRun, Inv, RunsInOrder, NEW r \in Runs, NEW mode \in Modes, Start(r, mode)
    PROVE  RunsInOrder'
<1> DEFINE known == {m \in Matches : stored[m] # Absent}
           fetch == mode = "snapshot" \/ known = {}
           pc    == IF fetch THEN "schedule" ELSE "plan"
           n == [IdleRun EXCEPT
              !.pc      = pc,
              !.mode    = mode,
              !.at      = now,
              !.planned = IF fetch THEN NoRows ELSE [m \in known |-> stored[m]],
              !.force   = fetch,
              !.boot    = fetch /\ mode = "adaptive",
              !.before  = Posted]
<1>1. pc \in {"schedule", "plan"} /\ (pc = "plan" => mode # "snapshot")
  OBVIOUS
<1>2. /\ n.pc = pc /\ n.mode = mode /\ n.batch = {} /\ n.page = NoRows /\ n.details = NoRows
      /\ n.before = Posted
  BY DEF IdleRun
<1>3. Continue(r, n) /\ UNCHANGED <<sams, stored, feed>>
  BY DEF Start, world, tables
<1> HIDE DEF n, pc
<1>4. InOrder(n, StoredResults, Posted, feed.schedules)
  <2>1. CASE pc = "schedule"
    BY <1>2, <2>1, NoRowsTyped, ListingInOrder DEF Awaited
  <2>2. CASE pc = "plan"
    <3>1. Current(n, StoredResults, Posted)
      BY <1>2, NoRowsTyped DEF Current
    <3> QED
      BY <1>1, <1>2, <2>2, <3>1, InsideInOrder DEF Inside, AllCaught, ScheduleEvents
  <2> QED
    BY <1>1, <2>1, <2>2
<1> QED
  BY <1>3, <1>4, InOrderGoesOn

\* What is known of the run that takes a step.
LEMMA RunInOrder ==
    ASSUME Inv, RunsInOrder, NEW r \in Runs
    PROVE  /\ run[r] \in Run
           /\ InOrder(run[r], StoredResults, Posted, feed.schedules)
           /\ run[r].pc \notin {"idle", "schedule", "clubs", "list", "publish", "record"}
                => AllCaught(run[r], StoredResults)
<1>1. InOrder(run[r], StoredResults, Posted, feed.schedules)
  BY DEF RunsInOrder
<1> QED
  BY <1>1, RunOf DEF InOrder, CaughtUp, Awaited, AllCaught

LEMMA FetchScheduleInOrder ==
    ASSUME OneRun, Inv, RunsCover, RunsInOrder, NEW r \in Runs, FetchScheduleForClubs(r)
    PROVE  RunsInOrder'
<1>0. /\ run[r] \in Run /\ run[r].pc = "schedule" /\ Fresh(run[r])
      /\ InOrder(run[r], StoredResults, Posted, feed.schedules)
  BY RunInOrder DEF FetchScheduleForClubs, RunsCover, Covers
<1> DEFINE a == [run[r] EXCEPT !.clubs = RegisteredClubs]
           b == [run[r] EXCEPT !.clean = FALSE]
           n == NextClub(a)
           x == AfterSchedules(b)
<1>1. PICK ok \in Answers : Continue(r, IF ok THEN n ELSE x)
  BY DEF FetchScheduleForClubs
<1>2. a \in Run /\ b \in Run
  BY <1>0 DEF Run
<1>3. /\ a.clubs = RegisteredClubs /\ a.batch = {} /\ a.page = NoRows /\ a.details = NoRows
      /\ a.before = run[r].before
      /\ Moved(b, run[r]) /\ ~b.clean
  BY <1>0 DEF Run, Fresh, Moved
<1> HIDE DEF a, b
<1>4. InOrder(n, StoredResults, Posted, feed.schedules)
  <2>1. Kept(n, a) /\ n.pc = "clubs"
    BY <1>2, <1>3, RefreshAssumption, NextClubShape DEF RefreshAssumption
  <2> HIDE DEF n
  <2>2. n.before \subseteq Posted
    BY <1>0, <1>3, <2>1 DEF Kept, InOrder, Current
  <2> QED
    BY <1>3, <2>1, <2>2, NoRowsTyped, ListingInOrder DEF Kept, Awaited
<1>5. InOrder(x, StoredResults, Posted, feed.schedules)
  <2>1. PastClubs(x, b)
    BY <1>2, AfterSchedulesShape
  <2> HIDE DEF x
  <2>2. Moved(x, b) /\ (x.pc \in Inside \/ Sending(x, x))
    BY <2>1, PastClubsInside
  <2>3. Current(x, StoredResults, Posted)
    BY <1>0, <1>3, <2>2, CurrentMoved DEF InOrder
  <2>4. x.batch = {} /\ AllCaught(x, StoredResults)
    BY <1>0, <1>3, <2>2 DEF Moved, Fresh, AllCaught
  <2> QED
    BY <2>2, <2>3, <2>4, InsideInOrder DEF ScheduleEvents
<1>6. UNCHANGED <<sams, stored, feed>>
  BY DEF FetchScheduleForClubs, world, tables
<1> HIDE DEF n, x
<1> QED
  BY <1>1, <1>4, <1>5, <1>6, InOrderGoesOn

LEMMA QueryClubInOrder ==
    ASSUME OneRun, Inv, RunsCover, RunsInOrder, NEW r \in Runs, QueryClub(r)
    PROVE  RunsInOrder'
<1>0. /\ run[r] \in Run /\ run[r].pc = "clubs" /\ Fresh(run[r])
      /\ InOrder(run[r], StoredResults, Posted, feed.schedules)
  BY RunInOrder DEF QueryClub, RunsCover, Covers
<1> DEFINE n(c) == [run[r] EXCEPT !.pc = "list", !.listing = Absent,
                                  !.clubs = @ \ {c}, !.rows = ClubMatches(c)]
<1>1. PICK c \in run[r].clubs : Continue(r, n(c))
  BY DEF QueryClub
<1>2. /\ n(c).pc = "list" /\ n(c).listing = Absent /\ n(c).clubs = run[r].clubs \ {c}
      /\ n(c).rows = ClubMatches(c) /\ n(c).batch = {} /\ n(c).details = NoRows
      /\ n(c).page = NoRows /\ n(c).before = run[r].before /\ n(c).mode = run[r].mode
      /\ n(c).clean = run[r].clean
  BY <1>0 DEF Run, Fresh
<1> HIDE DEF n
<1>3. n(c).before \subseteq Posted
  BY <1>0, <1>2 DEF InOrder, Current
<1>4. ASSUME n(c).mode = "snapshot", n(c).clean, NEW d \in RegisteredClubs,
             NEW m \in n(c).before \cap ClubMatches(d)
      PROVE  Awaited(n(c), d, m, StoredResults)
  <2>1. d \in run[r].clubs \/ m \in StoredResults
    BY <1>0, <1>2, <1>4 DEF InOrder, CaughtUp, Awaited
  <2> QED
    BY <1>2, <1>4, <2>1 DEF Awaited
<1>5. InOrder(n(c), StoredResults, Posted, feed.schedules)
  BY <1>2, <1>3, <1>4, NoRowsTyped, ListingInOrder
<1>6. UNCHANGED <<sams, stored, feed>>
  BY DEF QueryClub, world, tables
<1> QED
  BY <1>1, <1>5, <1>6, InOrderGoesOn

LEMMA LeaguesInOrder ==
    ASSUME OneRun, Inv, RunsCover, RunsInOrder, NEW r \in Runs,
           FetchSeasons(r) \/ QueryLeague(r) \/ Plan(r) \/ ResolveSeason(r)
    PROVE  RunsInOrder'
<1>0. /\ run[r] \in Run /\ run[r].pc \in {"seasons", "leagues", "plan", "season"}
      /\ Fresh(run[r])
      /\ InOrder(run[r], StoredResults, Posted, feed.schedules)
      /\ AllCaught(run[r], StoredResults)
  BY RunInOrder DEF FetchSeasons, QueryLeague, Plan, ResolveSeason, RunsCover, Covers
<1>a. UNCHANGED <<sams, stored, feed>>
  BY DEF FetchSeasons, QueryLeague, Plan, ResolveSeason, world, tables
\* Going on from a run s that has what run r has.
<1>b. ASSUME NEW s, Moved(s, run[r]), NEW n, Moved(n, s), n.pc \in Inside \/ Sending(n, n)
      PROVE  InOrder(n, StoredResults, Posted, feed.schedules)
  <2>1. Moved(n, run[r])
    BY <1>b DEF Moved
  <2> QED
    BY <1>0, <1>b, <2>1, MovedInOrder
<1>c. ASSUME NEW s, Moved(s, run[r]), NEW n, PastClubs(n, s)
      PROVE  InOrder(n, StoredResults, Posted, feed.schedules)
  BY <1>b, <1>c, PastClubsInside
<1>d. Moved(run[r], run[r])
  BY DEF Moved
<1>1. CASE FetchSeasons(r)
  <2> DEFINE b == [run[r] EXCEPT !.leagues = {}, !.clean = FALSE]
             n == NextLeague(run[r])
             x == AfterSchedules(b)
  <2>1. PICK ok \in Answers : Continue(r, IF ok THEN n ELSE x)
    BY <1>1 DEF FetchSeasons
  <2>2. b \in Run /\ Moved(b, run[r])
    BY <1>0 DEF Run, Moved
  <2> HIDE DEF b
  <2>3. PastClubs(n, run[r]) /\ PastClubs(x, b)
    BY <1>0, <2>2, NextLeagueShape, AfterSchedulesShape
  <2> HIDE DEF n, x
  <2>4. InOrder(n, StoredResults, Posted, feed.schedules)
    BY <1>c, <1>d, <2>3
  <2>5. InOrder(x, StoredResults, Posted, feed.schedules)
    BY <1>c, <2>2, <2>3
  <2> QED
    BY <1>a, <2>1, <2>4, <2>5, InOrderGoesOn
<1>2. CASE QueryLeague(r)
  <2> DEFINE s(l) == [run[r] EXCEPT !.leagues = @ \ {l}]
             n(l) == [s(l) EXCEPT !.pc = "list", !.listing = l, !.rows = LeagueMatches(l)]
             x(l) == NextLeague(s(l))
  <2>1. PICK l \in run[r].leagues :
          Continue(r, IF NeedsListing(s(l), l) THEN n(l) ELSE x(l))
    BY <1>2 DEF QueryLeague
  <2>2. s(l) \in Run /\ Moved(s(l), run[r])
    BY <1>0 DEF Run, Moved
  <2> HIDE DEF s
  <2>3. n(l).pc = "list" /\ Moved(n(l), s(l))
    BY <2>2 DEF Run, Moved
  <2>4. PastClubs(x(l), s(l))
    BY <2>2, NextLeagueShape
  <2> HIDE DEF n, x
  <2>5. InOrder(x(l), StoredResults, Posted, feed.schedules)
    BY <1>c, <2>2, <2>4
  <2>6. Moved(n(l), run[r])
    BY <2>2, <2>3 DEF Moved
  <2>7. InOrder(n(l), StoredResults, Posted, feed.schedules)
    <3>1. n(l).batch = {} /\ n(l).details = NoRows /\ n(l).page = NoRows
      BY <1>0, <2>6 DEF Moved, Fresh
    <3>2. n(l).before \subseteq Posted
      BY <1>0, <2>6 DEF Moved, InOrder, Current
    <3>3. n(l).mode = "snapshot" /\ n(l).clean =>
            \A c \in RegisteredClubs : \A m \in n(l).before \cap ClubMatches(c) :
               Awaited(n(l), c, m, StoredResults)
      BY <1>0, <2>3, <2>6 DEF Moved, AllCaught, Awaited
    <3> QED
      BY <2>3, <3>1, <3>2, <3>3, NoRowsTyped, ListingInOrder
  <2> QED
    BY <1>a, <2>1, <2>5, <2>7, InOrderGoesOn
<1>3. CASE Plan(r)
  <2> DEFINE n == EnsureLeagueSchedules(run[r], hotRegisteredClubLeagueUuids(run[r]))
  <2>1. Continue(r, n)
    BY <1>3 DEF Plan
  <2>2. PastClubs(n, run[r])
    BY <1>0, EnsureLeagueSchedulesShape
  <2> HIDE DEF n
  <2> QED
    BY <1>a, <1>c, <1>d, <2>1, <2>2, InOrderGoesOn
<1>4. CASE ResolveSeason(r)
  <2> DEFINE b == [run[r] EXCEPT !.clean = FALSE]
             n == EnterRankings(run[r], leagueUuidsFromPlanned(run[r].planned))
             x == EnterSchedules(b)
  <2>1. PICK ok \in IF SeasonStored THEN {TRUE} ELSE Answers :
          Continue(r, IF ok THEN n ELSE x)
    BY <1>4 DEF ResolveSeason
  <2>2. b \in Run /\ Moved(b, run[r])
    BY <1>0 DEF Run, Moved
  <2> HIDE DEF b
  <2>3. Kept(n, run[r]) /\ Sending(n, run[r]) /\ Kept(x, b) /\ Sending(x, b)
    BY <1>0, <2>2, EnterRankingsShape, EnterSchedulesShape
  <2> HIDE DEF n, x
  <2>4. Moved(n, run[r]) /\ Sending(n, n) /\ Moved(x, b) /\ Sending(x, x)
    BY <2>3, KeptMoved
  <2>5. InOrder(n, StoredResults, Posted, feed.schedules)
    BY <1>b, <1>d, <2>4
  <2>6. InOrder(x, StoredResults, Posted, feed.schedules)
    BY <1>b, <2>2, <2>4
  <2> QED
    BY <1>a, <2>1, <2>5, <2>6, InOrderGoesOn
<1> QED
  BY <1>1, <1>2, <1>3, <1>4

LEMMA FetchPageInOrder ==
    ASSUME OneRun, Inv, RunsCover, RunsInOrder, NEW r \in Runs, FetchPage(r)
    PROVE  RunsInOrder'
<1>0. /\ run[r] \in Run /\ run[r].pc = "list" /\ run[r].page = NoRows
      /\ run[r].batch = {} /\ run[r].details = NoRows
      /\ InOrder(run[r], StoredResults, Posted, feed.schedules)
  BY RunInOrder DEF FetchPage, RunsCover, Covers
<1> DEFINE p == NextPage(run[r].rows)
           page(ok) == IF ok THEN Listed(p) ELSE NoRows
           n(ok) == [run[r] EXCEPT !.rows = @ \ p, !.page = page(ok), !.clean = @ /\ ok]
<1>1. PICK ok \in Answers : Continue(r, n(ok))
  BY DEF FetchPage
<1>2. p \subseteq Matches
  BY <1>0 DEF NextPage, Run
<1>3. /\ n(ok).pc = "list" /\ n(ok).listing = run[r].listing /\ n(ok).clubs = run[r].clubs
      /\ n(ok).rows = run[r].rows \ p /\ n(ok).batch = {} /\ n(ok).details = NoRows
      /\ n(ok).page = page(ok) /\ n(ok).before = run[r].before /\ n(ok).mode = run[r].mode
      /\ n(ok).clean = (run[r].clean /\ ok)
  <2> HIDE DEF p, page
  <2> QED
    BY <1>0 DEF Run
<1> HIDE DEF n
<1>4. /\ ok => DOMAIN page(ok) = p /\ \A m \in p : page(ok)[m] = sams[m]
      /\ ~ok => DOMAIN page(ok) = {}
  BY NoRowsTyped DEF Listed
<1> HIDE DEF p, page
<1>5. run[r].before \subseteq Posted /\ StoredResults \subseteq Posted
  BY <1>0, StoredPosted DEF InOrder, Current
<1>6. \A m \in DOMAIN n(ok).page : m \in StoredResults \cup n(ok).before => n(ok).page[m].done
  <2> SUFFICES ASSUME NEW m \in DOMAIN page(ok), m \in Posted PROVE page(ok)[m].done
    BY <1>3, <1>5
  <2>1. page(ok)[m] = sams[m]
    BY <1>4
  <2> QED
    BY <2>1 DEF Posted, ResultsIn
<1>7. ASSUME n(ok).mode = "snapshot", n(ok).clean, NEW c \in RegisteredClubs,
             NEW m \in n(ok).before \cap ClubMatches(c)
      PROVE  Awaited(n(ok), c, m, StoredResults)
  <2>1. Awaited(run[r], c, m, StoredResults) /\ ok
    BY <1>0, <1>3, <1>7 DEF InOrder, CaughtUp
  <2>2. m \in run[r].rows => m \in n(ok).rows \/ m \in DOMAIN n(ok).page
    BY <1>3, <1>4, <2>1
  <2>3. m \notin DOMAIN run[r].page
    BY <1>0, NoRowsTyped
  <2> QED
    BY <1>0, <1>3, <2>1, <2>2, <2>3 DEF Awaited
<1>8. InOrder(n(ok), StoredResults, Posted, feed.schedules)
  BY <1>3, <1>5, <1>6, <1>7, ListingInOrder
<1>9. UNCHANGED <<sams, stored, feed>>
  BY DEF FetchPage, world, tables
<1> QED
  BY <1>1, <1>8, <1>9, InOrderGoesOn

LEMMA SaveRowInOrder ==
    ASSUME OneRun, Inv, RunsCover, RunsInOrder, NEW r \in Runs, SaveRow(r)
    PROVE  RunsInOrder' /\ StoredResults \subseteq StoredResults'
<1>0. /\ run[r] \in Run /\ run[r].pc = "list"
      /\ run[r].batch = {} /\ run[r].details = NoRows
      /\ InOrder(run[r], StoredResults, Posted, feed.schedules)
  BY RunInOrder DEF SaveRow, RunsCover, Covers
<1> DEFINE n(m) == [run[r] EXCEPT
                      !.planned = WithRow(@, m, run[r].page[m]),
                      !.page = [x \in DOMAIN @ \ {m} |-> @[x]]]
<1>1. PICK m \in DOMAIN run[r].page :
        stored' = [stored EXCEPT ![m] = run[r].page[m]] /\ Continue(r, n(m))
  BY DEF SaveRow
<1>2. m \in Matches /\ run[r].page[m] \in Row
  BY PageRow
<1>3. /\ n(m).pc = "list" /\ n(m).listing = run[r].listing /\ n(m).clubs = run[r].clubs
      /\ n(m).rows = run[r].rows /\ n(m).batch = {} /\ n(m).details = NoRows
      /\ n(m).page = [x \in DOMAIN run[r].page \ {m} |-> run[r].page[x]]
      /\ n(m).before = run[r].before /\ n(m).mode = run[r].mode
      /\ n(m).clean = run[r].clean
  BY <1>0 DEF Run
<1> HIDE DEF n
<1>4. /\ \A x \in DOMAIN run[r].page : x \in StoredResults => run[r].page[x].done
      /\ \A x \in run[r].before \cap DOMAIN run[r].page : run[r].page[x].done
      /\ run[r].before \subseteq Posted
  BY <1>0 DEF InOrder, Current
<1>5. /\ StoredResults \subseteq StoredResults'
      /\ StoredResults' \subseteq StoredResults \cup {m}
      /\ m \in StoredResults' <=> run[r].page[m].done
  BY <1>1, <1>2, <1>4, StoredMore
<1>6. Posted' = Posted /\ feed' = feed
  BY DEF SaveRow, world, Posted
<1>7. \A x \in DOMAIN n(m).page : x \in StoredResults' \cup n(m).before => n(m).page[x].done
  BY <1>3, <1>4, <1>5
<1>8. ASSUME n(m).mode = "snapshot", n(m).clean, NEW c \in RegisteredClubs,
             NEW x \in n(m).before \cap ClubMatches(c)
      PROVE  Awaited(n(m), c, x, StoredResults')
  <2>1. Awaited(run[r], c, x, StoredResults)
    BY <1>0, <1>3, <1>8 DEF InOrder, CaughtUp
  <2>2. x \in DOMAIN run[r].page => x \in DOMAIN n(m).page \/ x \in StoredResults'
    BY <1>1, <1>3, <1>4, <1>5, <1>8
  <2> QED
    BY <1>0, <1>3, <1>5, <2>1, <2>2 DEF Awaited
<1>9. InOrder(n(m), StoredResults', Posted, feed.schedules)
  <2> DEFINE kept == StoredResults'
  <2>1. \A x \in DOMAIN n(m).page : x \in kept \cup n(m).before => n(m).page[x].done
    BY <1>7
  <2>2. n(m).mode = "snapshot" /\ n(m).clean =>
          \A c \in RegisteredClubs : \A x \in n(m).before \cap ClubMatches(c) :
             Awaited(n(m), c, x, kept)
    BY <1>8
  <2> HIDE DEF kept
  <2>3. n(m).before \subseteq Posted
    BY <1>3, <1>4
  <2>4. InOrder(n(m), kept, Posted, feed.schedules)
    BY <1>3, <2>1, <2>2, <2>3, ListingInOrder
  <2> QED
    BY <2>4 DEF kept
<1>10. InOrder(n(m), StoredResults', Posted', feed'.schedules)
  BY <1>6, <1>9
<1> QED
  BY <1>1, <1>5, <1>10, InOrderContinued

LEMMA EndListingInOrder ==
    ASSUME OneRun, Inv, RunsCover, RunsInOrder, NEW r \in Runs, EndListing(r)
    PROVE  RunsInOrder'
<1>0. /\ run[r] \in Run /\ run[r].pc = "list" /\ run[r].page = NoRows /\ run[r].rows = {}
      /\ run[r].batch = {} /\ run[r].details = NoRows
      /\ InOrder(run[r], StoredResults, Posted, feed.schedules)
  BY RunInOrder DEF EndListing, RunsCover, Covers
<1> DEFINE b == [run[r] EXCEPT !.listing = Absent]
           n == NextClub(run[r])
           x == NextLeague(b)
<1>1. \/ run[r].listing = Absent /\ Continue(r, n)
      \/ run[r].listing # Absent /\ Continue(r, x)
  BY DEF EndListing
<1>2. UNCHANGED <<sams, stored, feed>>
  BY DEF EndListing, world
<1>3. b \in Run /\ Moved(b, run[r])
  BY <1>0 DEF Run, Moved
<1> HIDE DEF b
\* A club that is not listed any more has all its matches in the table.
<1>4. ASSUME run[r].mode = "snapshot", run[r].clean, NEW c \in RegisteredClubs,
             NEW m \in run[r].before \cap ClubMatches(c)
      PROVE  m \in StoredResults \/ (run[r].listing = Absent /\ c \in run[r].clubs)
  BY <1>0, <1>4, NoRowsTyped DEF InOrder, CaughtUp, Awaited
<1>5. run[r].listing # Absent \/ run[r].clubs = {} => AllCaught(run[r], StoredResults)
  BY <1>4 DEF AllCaught
<1>6. ASSUME AllCaught(run[r], StoredResults), NEW s, Moved(s, run[r]), NEW y, PastClubs(y, s)
      PROVE  InOrder(y, StoredResults, Posted, feed.schedules)
  <2>1. Moved(y, s) /\ (y.pc \in Inside \/ Sending(y, y))
    BY <1>6, PastClubsInside
  <2>2. Moved(y, run[r])
    BY <1>6, <2>1 DEF Moved
  <2> QED
    BY <1>0, <1>6, <2>1, <2>2, MovedInOrder
<1>7. CASE run[r].listing # Absent /\ Continue(r, x)
  <2>1. PastClubs(x, b)
    BY <1>3, NextLeagueShape
  <2> HIDE DEF x
  <2>2. InOrder(x, StoredResults, Posted, feed.schedules)
    BY <1>3, <1>5, <1>6, <1>7, <2>1
  <2> QED
    BY <1>2, <1>7, <2>2, InOrderGoesOn
<1>8. CASE run[r].listing = Absent /\ Continue(r, n)
  <2>1. \/ PastClubs(n, run[r]) /\ run[r].clubs = {}
        \/ Kept(n, run[r]) /\ n.pc = "clubs" /\ n.force = run[r].force
    BY <1>0, NextClubShape
  <2> HIDE DEF n
  <2>2. CASE PastClubs(n, run[r]) /\ run[r].clubs = {}
    <3>1. Moved(run[r], run[r])
      BY DEF Moved
    <3>2. InOrder(n, StoredResults, Posted, feed.schedules)
      BY <1>5, <1>6, <2>2, <3>1
    <3> QED
      BY <1>2, <1>8, <3>2, InOrderGoesOn
  <2>3. CASE Kept(n, run[r]) /\ n.pc = "clubs"
    <3>1. /\ n.batch = {} /\ n.details = NoRows /\ n.page = NoRows /\ n.clubs = run[r].clubs
          /\ n.before = run[r].before /\ n.mode = run[r].mode /\ n.clean = run[r].clean
      BY <1>0, <2>3 DEF Kept
    <3>2. n.before \subseteq Posted
      BY <1>0, <3>1 DEF InOrder, Current
    <3>3. n.mode = "snapshot" /\ n.clean =>
            \A c \in RegisteredClubs : \A m \in n.before \cap ClubMatches(c) :
               Awaited(n, c, m, StoredResults)
      BY <1>4, <2>3, <3>1 DEF Awaited
    <3>4. InOrder(n, StoredResults, Posted, feed.schedules)
      BY <2>3, <3>1, <3>2, <3>3, NoRowsTyped, ListingInOrder
    <3> QED
      BY <1>2, <1>8, <3>4, InOrderGoesOn
  <2> QED
    BY <2>1, <2>2, <2>3
<1> QED
  BY <1>1, <1>7, <1>8

LEMMA BeginBlockInOrder ==
    ASSUME OneRun, Inv, RunsInOrder, NEW r \in Runs, BeginBlock(r)
    PROVE  RunsInOrder'
<1>0. /\ run[r] \in Run /\ run[r].pc = "blocks"
      /\ InOrder(run[r], StoredResults, Posted, feed.schedules)
      /\ AllCaught(run[r], StoredResults)
  BY RunInOrder DEF BeginBlock
<1> DEFINE n(b) == [run[r] EXCEPT !.pc = "detail", !.block = b, !.left = b.matches]
<1>1. PICK b \in run[r].blocks : Continue(r, n(b))
  BY DEF BeginBlock
<1>2. Moved(n(b), run[r]) /\ n(b).pc \in Inside
  BY <1>0 DEF Run, Moved, Inside
<1> HIDE DEF n
<1>3. InOrder(n(b), StoredResults, Posted, feed.schedules)
  BY <1>0, <1>2, MovedInOrder
<1>4. UNCHANGED <<sams, stored, feed>>
  BY DEF BeginBlock, world, tables
<1> QED
  BY <1>1, <1>3, <1>4, InOrderGoesOn

LEMMA FetchDetailInOrder ==
    ASSUME OneRun, Inv, RunsInOrder, NEW r \in Runs, FetchDetail(r)
    PROVE  RunsInOrder'
<1>0. /\ run[r] \in Run /\ run[r].pc = "detail" /\ run[r].page = NoRows
      /\ run[r].block \in MatchBlock
      /\ InOrder(run[r], StoredResults, Posted, feed.schedules)
      /\ AllCaught(run[r], StoredResults)
  BY RunInOrder, RunOf DEF FetchDetail
<1> DEFINE s(m) == [run[r] EXCEPT !.left = @ \ {m}]
           a(m) == [s(m) EXCEPT !.page = OneRow(m, sams[m])]
           b(m) == [s(m) EXCEPT !.clean = FALSE]
<1>1. PICK m \in run[r].left, ok \in Answers :
        Continue(r, IF ok THEN a(m) ELSE NextMatch(b(m)))
  BY DEF FetchDetail
<1>2. m \in Matches
  BY <1>0 DEF Run
<1>3. /\ s(m) \in Run /\ Moved(s(m), run[r]) /\ s(m).pc = "detail" /\ s(m).block = run[r].block
      /\ s(m).clean = run[r].clean
  BY <1>0 DEF Run, Moved
<1> HIDE DEF s
<1>4. /\ a(m).pc = "detail" /\ a(m).page = OneRow(m, sams[m]) /\ a(m).mode = s(m).mode
      /\ a(m).details = s(m).details /\ a(m).batch = s(m).batch /\ a(m).before = s(m).before
      /\ a(m).clean = s(m).clean
  BY <1>3 DEF Run
<1>5. /\ b(m) \in Run /\ Moved(b(m), s(m)) /\ b(m).pc = "detail" /\ b(m).block = s(m).block
  BY <1>3 DEF Run, Moved
<1> HIDE DEF a, b
<1>6. InOrder(b(m), StoredResults, Posted, feed.schedules)
  <2>1. Moved(b(m), run[r])
    BY <1>3, <1>5 DEF Moved
  <2> QED
    BY <1>0, <1>5, <2>1, MovedInOrder DEF Inside
<1>7. InOrder(NextMatch(b(m)), StoredResults, Posted, feed.schedules)
  BY <1>0, <1>3, <1>5, <1>6, NextMatchInOrder
<1>8. InOrder(a(m), StoredResults, Posted, feed.schedules)
  <2>1. DOMAIN a(m).page = {m} /\ a(m).page[m] = sams[m]
    BY <1>2, <1>4, SamsRow, OneRowTyped
  <2>2. a(m).before \subseteq Posted /\ StoredResults \subseteq Posted
    BY <1>0, <1>3, <1>4, StoredPosted DEF InOrder, Current, Moved
  <2>3. m \in Posted => sams[m].done
    BY DEF Posted, ResultsIn
  <2>4. Current(a(m), StoredResults, Posted)
    BY <1>0, <1>3, <1>4, <2>1, <2>2, <2>3 DEF InOrder, Current, Moved
  <2>5. AllCaught(a(m), StoredResults)
    BY <1>0, <1>3, <1>4 DEF AllCaught, Moved
  <2>6. \A e \in ScheduleEvents(a(m).batch) :
          \A x \in ResultsIn(feed.schedules[e.club]) \cap DOMAIN e.rows : e.rows[x].done
    BY <1>0, <1>3, <1>4 DEF InOrder, FeedShown, Moved
  <2> QED
    BY <1>4, <2>4, <2>5, <2>6, InsideInOrder DEF Inside
<1>9. UNCHANGED <<sams, stored, feed>>
  BY DEF FetchDetail, world, tables
<1> QED
  BY <1>1, <1>7, <1>8, <1>9, InOrderGoesOn

LEMMA StoreDetailInOrder ==
    ASSUME OneRun, Inv, RunsInOrder, NEW r \in Runs, StoreDetail(r)
    PROVE  RunsInOrder' /\ StoredResults \subseteq StoredResults'
<1>0. /\ run[r] \in Run /\ run[r].pc = "detail"
      /\ run[r].block \in MatchBlock
      /\ InOrder(run[r], StoredResults, Posted, feed.schedules)
      /\ AllCaught(run[r], StoredResults)
  BY RunInOrder, RunOf DEF StoreDetail
<1> DEFINE row(m) == run[r].page[m]
           details(m) == WithRow(run[r].details, m, row(m))
           n(m) == [run[r] EXCEPT !.page = NoRows, !.details = details(m)]
<1>1. PICK m \in DOMAIN run[r].page :
        stored' = [stored EXCEPT ![m] = row(m)] /\ Continue(r, NextMatch(n(m)))
  BY DEF StoreDetail
<1>2. m \in Matches /\ row(m) \in Row /\ (m \in StoredResults => row(m).done)
  BY <1>0, PageRow DEF InOrder, Current
<1> HIDE DEF row
<1>3. /\ details(m) \in Rows
      /\ DOMAIN details(m) = DOMAIN run[r].details \cup {m}
      /\ \A x \in DOMAIN run[r].details \cup {m} :
            details(m)[x] = IF x = m THEN row(m) ELSE run[r].details[x]
  <2>1. run[r].details \in Rows
    BY <1>0 DEF Run
  <2> QED
    BY <1>2, <2>1, WithRowTyped
<1> HIDE DEF details
<1>4. /\ n(m) \in Run /\ n(m).pc = "detail" /\ n(m).block = run[r].block
      /\ n(m).page = NoRows /\ n(m).details = details(m) /\ n(m).mode = run[r].mode
      /\ n(m).batch = run[r].batch /\ n(m).before = run[r].before /\ n(m).clean = run[r].clean
  BY <1>0, <1>3, NoRowsTyped DEF Run
<1> HIDE DEF n
<1>5. /\ StoredResults \subseteq StoredResults'
      /\ m \in StoredResults' <=> row(m).done
  BY <1>1, <1>2, StoredMore
<1>6. Posted' = Posted /\ feed' = feed
  BY DEF StoreDetail, world, Posted
<1>7. ResultsIn(n(m).details) \subseteq StoredResults'
  <2>1. ResultsIn(run[r].details) \subseteq StoredResults
    BY <1>0 DEF InOrder, Current
  <2> QED
    BY <1>3, <1>4, <1>5, <2>1 DEF ResultsIn
<1>8. Current(n(m), StoredResults', Posted')
  BY <1>0, <1>4, <1>5, <1>6, <1>7, NoRowsTyped DEF InOrder, Current
<1>9. AllCaught(n(m), StoredResults')
  <2>1. ASSUME n(m).mode = "snapshot", n(m).clean, NEW c \in RegisteredClubs
        PROVE  n(m).before \cap ClubMatches(c) \subseteq StoredResults
    BY <1>0, <1>4, <2>1 DEF AllCaught
  <2> QED
    BY <1>5, <2>1 DEF AllCaught
<1>10. \A e \in ScheduleEvents(n(m).batch) :
          \A x \in ResultsIn(feed'.schedules[e.club]) \cap DOMAIN e.rows : e.rows[x].done
  BY <1>0, <1>4, <1>6 DEF InOrder, FeedShown
<1>11. InOrder(n(m), StoredResults', Posted', feed'.schedules)
  BY <1>4, <1>8, <1>9, <1>10, InsideInOrder DEF Inside
<1>12. InOrder(NextMatch(n(m)), StoredResults', Posted', feed'.schedules)
  BY <1>0, <1>4, <1>11, NextMatchInOrder
<1> QED
  BY <1>1, <1>5, <1>12, InOrderContinued

LEMMA FetchRankingInOrder ==
    ASSUME OneRun, Inv, RunsInOrder, NEW r \in Runs, FetchRanking(r)
    PROVE  RunsInOrder'
<1>0. /\ run[r] \in Run /\ run[r].pc = "rankings"
      /\ InOrder(run[r], StoredResults, Posted, feed.schedules)
      /\ AllCaught(run[r], StoredResults)
  BY RunInOrder DEF FetchRanking
<1>1. PICK l \in run[r].leagues : \E source \in RankingSources(run[r], l) : \E e, n :
             /\ e.kind = "ranking" /\ e.league = l /\ e.source = source
             /\ n \in Run /\ Ranked(n, run[r], e)
             /\ Continue(r, n) \/ Continue(r, EnterSchedules(n))
  BY FetchRankingShape
<1>2. PICK e, n :
             /\ e.kind = "ranking" /\ e.league = l
             /\ n \in Run /\ Ranked(n, run[r], e)
             /\ Continue(r, n) \/ Continue(r, EnterSchedules(n))
  BY <1>1
<1>3. /\ ScheduleEvents(n.batch) = ScheduleEvents(run[r].batch)
      /\ \A x \in n.batch : x.kind # "ranking" => x \in run[r].batch
  BY <1>2 DEF Ranked, ScheduleEvents
<1>4. Current(n, StoredResults, Posted)
  BY <1>0, <1>2, <1>3 DEF InOrder, Current, Ranked
<1>5. AllCaught(n, StoredResults)
  BY <1>0, <1>2 DEF AllCaught, Ranked
<1>6. \A x \in ScheduleEvents(n.batch) :
          \A m \in ResultsIn(feed.schedules[x.club]) \cap DOMAIN x.rows : x.rows[m].done
  BY <1>0, <1>3 DEF InOrder, FeedShown
<1>7. Sending(n, n)
  BY <1>0, <1>2 DEF Sending, Ranked
<1>8. InOrder(n, StoredResults, Posted, feed.schedules)
  BY <1>4, <1>5, <1>6, <1>7, InsideInOrder
<1>9. InOrder(EnterSchedules(n), StoredResults, Posted, feed.schedules)
  <2> DEFINE s == EnterSchedules(n)
  <2>1. Kept(s, n) /\ Sending(s, n)
    BY <1>2, EnterSchedulesShape
  <2> HIDE DEF s
  <2>2. Moved(s, n) /\ Sending(s, s)
    BY <2>1, KeptMoved
  <2>3. n.pc # "record"
    BY <1>7 DEF Sending
  <2>4. InOrder(s, StoredResults, Posted, feed.schedules)
    BY <1>5, <1>8, <2>2, <2>3, MovedInOrder
  <2> QED
    BY <2>4 DEF s
<1>10. UNCHANGED <<sams, stored, feed>>
  BY DEF FetchRanking, world, tables
<1> QED
  BY <1>2, <1>8, <1>9, <1>10, InOrderGoesOn

\* The schedule of a club has the result of every stored match it shows, and a
\* snapshot's schedule shows them all.
LEMMA ClubScheduleShows ==
    ASSUME NEW s, NEW c
    PROVE  /\ ResultsIn(ClubSchedule(s, c)) \subseteq StoredResults
           /\ \A m \in StoredResults \cap DOMAIN ClubSchedule(s, c) : ClubSchedule(s, c)[m].done
           /\ s.mode = "snapshot" =>
                StoredResults \cap ClubMatches(c) \subseteq ResultsIn(ClubSchedule(s, c))
<1> DEFINE ms == {m \in ClubMatches(c) :
                   stored[m] # Absent /\ (s.mode = "snapshot" \/ InScheduleWindow(stored[m], now))}
<1>1. ms \subseteq Matches /\ \A m \in ms : stored[m] # Absent
  BY DEF ClubMatches
<1>2. ClubSchedule(s, c) = [m \in ms |-> stored[m]]
  BY DEF ClubSchedule
<1>3. s.mode = "snapshot" => StoredResults \cap ClubMatches(c) \subseteq ms
  BY DEF StoredResults
<1> HIDE DEF ms
<1> QED
  BY <1>1, <1>2, <1>3 DEF StoredResults, ResultsIn

LEMMA BuildSchedulesInOrder ==
    ASSUME OneRun, Inv, RunsInOrder, FeedStored, NEW r \in Runs, BuildSchedules(r)
    PROVE  RunsInOrder'
<1>0. /\ run[r] \in Run /\ run[r].pc = "schedules"
      /\ InOrder(run[r], StoredResults, Posted, feed.schedules)
      /\ AllCaught(run[r], StoredResults)
  BY RunInOrder DEF BuildSchedules
<1>1. PICK ok \in BOOLEAN : \E n : Scheduled(n, run[r], ok) /\ Continue(r, n)
  BY BuildSchedulesShape
<1>2. PICK n : Scheduled(n, run[r], ok) /\ Continue(r, n)
  BY <1>1
<1> DEFINE events == buildClubMatchScheduleEvents(run[r])
<1>3. \A e \in events :
        /\ e.kind = "schedule" /\ e.club \in RegisteredClubs
        /\ e.rows = ClubSchedule(run[r], e.club)
  <2> SUFFICES ASSUME NEW c \in AffectedClubs(run[r]) \cap StoredClubs
               PROVE  LET e == [kind |-> "schedule", club |-> c, rows |-> ClubSchedule(run[r], c),
                                cachedAt |-> now]
                      IN  /\ e.kind = "schedule" /\ e.club \in RegisteredClubs
                          /\ e.rows = ClubSchedule(run[r], e.club)
    BY DEF buildClubMatchScheduleEvents
  <2> QED
    BY ClubsRegistered
<1>4. ASSUME NEW c \in AffectedClubs(run[r]) \cap StoredClubs
      PROVE  \E e \in events : e.club = c
  <2> DEFINE e == [kind |-> "schedule", club |-> c, rows |-> ClubSchedule(run[r], c),
                cachedAt |-> now]
  <2>1. e \in events
    BY DEF buildClubMatchScheduleEvents
  <2>2. e.club = c
    OBVIOUS
  <2> HIDE DEF e, events
  <2> QED
    BY <2>1, <2>2
<1> HIDE DEF events
<1>5. n.batch = run[r].batch \/ n.batch = run[r].batch \cup events
  BY <1>2 DEF Scheduled, events
<1>6. n.clean => n.batch = run[r].batch \cup events
  BY <1>2 DEF Scheduled, events
<1>7. /\ BlockEvents(n.batch) = BlockEvents(run[r].batch)
      /\ ScheduleEvents(n.batch) \subseteq ScheduleEvents(run[r].batch) \cup events
      /\ n.clean => events \subseteq ScheduleEvents(n.batch)
  BY <1>3, <1>5, <1>6 DEF BlockEvents, ScheduleEvents
<1>8. Current(n, StoredResults, Posted)
  <2>1. \A e \in events : EventResults(e) \subseteq StoredResults
    BY <1>3, ClubScheduleShows DEF EventResults
  <2> QED
    BY <1>0, <1>2, <1>5, <2>1 DEF InOrder, Current, Scheduled
<1>9. FeedShown(n, feed.schedules)
  <2> SUFFICES ASSUME NEW e \in ScheduleEvents(n.batch),
                      NEW m \in ResultsIn(feed.schedules[e.club]) \cap DOMAIN e.rows
               PROVE  e.rows[m].done
    BY DEF FeedShown
  <2>1. CASE e \in ScheduleEvents(run[r].batch)
    BY <1>0, <2>1 DEF InOrder, FeedShown
  <2>2. CASE e \in events
    <3>1. m \in StoredResults
      BY <1>3, <2>2 DEF FeedStored
    <3> QED
      BY <1>3, <2>2, <3>1, ClubScheduleShows
  <2> QED
    BY <1>7, <2>1, <2>2
<1>10. CaughtUp(n, StoredResults)
  <2> SUFFICES ASSUME n.mode = "snapshot", n.clean, NEW c \in RegisteredClubs \cap StoredClubs
               PROVE  \E e \in ScheduleEvents(n.batch) :
                        e.club = c /\ n.before \cap ClubMatches(c) \subseteq ResultsIn(e.rows)
    BY <1>2 DEF CaughtUp, Awaited, Scheduled
  <2>1. run[r].mode = "snapshot" /\ run[r].clean /\ n.before = run[r].before
    BY <1>2 DEF Scheduled
  <2>2. n.before \cap ClubMatches(c) \subseteq StoredResults \cap ClubMatches(c)
    BY <1>0, <2>1 DEF AllCaught
  <2>3. PICK e \in events : e.club = c
    BY <1>4, <2>1 DEF AffectedClubs
  <2>4. n.before \cap ClubMatches(c) \subseteq ResultsIn(e.rows)
    BY <1>3, <2>1, <2>2, <2>3, ClubScheduleShows
  <2> QED
    BY <1>7, <2>3, <2>4
<1>11. InOrder(n, StoredResults, Posted, feed.schedules)
  BY <1>8, <1>9, <1>10 DEF InOrder
<1>12. UNCHANGED <<sams, stored, feed>>
  BY DEF BuildSchedules, world, tables
<1> QED
  BY <1>2, <1>11, <1>12, InOrderGoesOn

\* What consumers hold of a club after events of run r have arrived.
LEMMA DeliveredSchedule ==
    ASSUME Inv, RunsInOrder, NEW r \in Runs, run[r].pc = "publish",
           NEW events \in SUBSET run[r].batch, feed' = Delivered(events),
           NEW c \in RegisteredClubs
    PROVE  \/ feed'.schedules[c] = feed.schedules[c]
           \/ /\ ResultsIn(feed'.schedules[c]) \subseteq StoredResults
              /\ ResultsIn(feed.schedules[c]) \cap DOMAIN feed'.schedules[c]
                   \subseteq ResultsIn(feed'.schedules[c])
<1> DEFINE sch == {e \in ScheduleEvents(events) : e.club = c}
           x == CHOOSE e \in sch : TRUE
<1>1. feed'.schedules[c] = IF sch = {} THEN feed.schedules[c] ELSE x.rows
  BY DEF Delivered
<1>2. CASE sch = {}
  BY <1>1, <1>2
<1>3. CASE sch # {}
  <2>1. x \in sch
    BY <1>3
  <2>2. feed'.schedules[c] = x.rows
    BY <1>1, <1>3
  <2>3. x \in ScheduleEvents(run[r].batch) /\ x.club = c /\ x.kind = "schedule" /\ x \in run[r].batch
    BY <2>1 DEF ScheduleEvents
  <2> HIDE DEF x
  <2>4. InOrder(run[r], StoredResults, Posted, feed.schedules)
    BY DEF RunsInOrder
  <2>5. ResultsIn(x.rows) \subseteq StoredResults
    BY <2>3, <2>4 DEF InOrder, Current, EventResults
  <2>6. \A m \in ResultsIn(feed.schedules[c]) \cap DOMAIN x.rows : x.rows[m].done
    BY <2>3, <2>4 DEF InOrder, FeedShown
  <2> QED
    BY <2>2, <2>5, <2>6 DEF ResultsIn
<1> QED
  BY <1>2, <1>3

LEMMA SentInOrder ==
    ASSUME OneRun, Inv, RunsInOrder, FeedStored, NEW r \in Runs, Publish(r) \/ PublishFails(r)
    PROVE  /\ RunsInOrder' /\ FeedStored'
           /\ \A c \in RegisteredClubs :
                ResultsIn(feed.schedules[c]) \cap DOMAIN feed'.schedules[c]
                  \subseteq ResultsIn(feed'.schedules[c])
<1>0. /\ run[r] \in Run /\ run[r].pc = "publish"
      /\ InOrder(run[r], StoredResults, Posted, feed.schedules)
  BY RunInOrder DEF Publish, PublishFails
<1>1. PICK events \in SUBSET run[r].batch : feed' = Delivered(events)
  BY DEF Publish, PublishFails
<1>2. StoredResults' = StoredResults /\ Posted' = Posted
  BY DEF Publish, PublishFails, Ends, world, tables, StoredResults, Posted
<1>3. ASSUME NEW c \in RegisteredClubs
      PROVE  /\ ResultsIn(feed'.schedules[c]) \subseteq StoredResults
             /\ ResultsIn(feed.schedules[c]) \cap DOMAIN feed'.schedules[c]
                  \subseteq ResultsIn(feed'.schedules[c])
  <2>1. CASE feed'.schedules[c] = feed.schedules[c]
    BY <2>1 DEF FeedStored
  <2>2. CASE feed'.schedules[c] # feed.schedules[c]
    BY <1>0, <1>1, <2>2, DeliveredSchedule
  <2> QED
    BY <2>1, <2>2
<1>4. FeedStored'
  BY <1>2, <1>3 DEF FeedStored
<1>5. CASE PublishFails(r)
  <2>1. Continue(r, IdleRun)
    BY <1>5 DEF PublishFails, Ends
  <2> QED
    BY <1>3, <1>4, <2>1, IdleInOrder, InOrderContinued
<1>6. CASE Publish(r)
  <2> DEFINE n == [run[r] EXCEPT !.pc = "record"]
  <2>1. Moved(n, run[r]) /\ n.pc = "record"
    BY <1>0 DEF Run, Moved
  <2>2. Continue(r, n)
    BY <1>6 DEF Publish
  <2> HIDE DEF n
  <2>3. Current(n, StoredResults, Posted)
    BY <1>0, <2>1, CurrentMoved DEF InOrder
  <2>4. FeedShown(n, feed'.schedules) /\ CaughtUp(n, StoredResults)
    BY <2>1 DEF FeedShown, CaughtUp, Awaited
  <2>5. InOrder(n, StoredResults', Posted', feed'.schedules)
    BY <1>2, <2>3, <2>4 DEF InOrder
  <2> QED
    BY <1>3, <1>4, <2>2, <2>5, InOrderContinued
<1> QED
  BY <1>5, <1>6

StaysShown ==
    \A c \in RegisteredClubs :
        ResultsIn(feed.schedules[c]) \cap DOMAIN feed'.schedules[c]
            \subseteq ResultsIn(feed'.schedules[c])

LEMMA NextInOrder ==
    ASSUME OneRun
    PROVE  Inv /\ RunsCover /\ RunsInOrder /\ FeedStored /\ [Next]_vars
             => RunsInOrder' /\ FeedStored' /\ StaysShown
<1> SUFFICES ASSUME Inv, RunsCover, RunsInOrder, FeedStored, [Next]_vars
             PROVE  RunsInOrder' /\ FeedStored' /\ StaysShown
  OBVIOUS
\* A step that sends nothing and keeps the results of the table.
<1>1. ASSUME RunsInOrder', feed' = feed, StoredResults \subseteq StoredResults'
      PROVE  RunsInOrder' /\ FeedStored' /\ StaysShown
  BY <1>1 DEF FeedStored, StaysShown
<1>2. stored' = stored => StoredResults \subseteq StoredResults'
  BY DEF StoredResults
<1>3. CASE \/ Tick
           \/ \E m \in Matches : PostResult(m)
           \/ \E m \in Matches, f \in Fixtures : MoveMatch(m, f)
  <2>1. feed' = feed /\ stored' = stored
    BY <1>3 DEF Tick, PostResult, MoveMatch, tables
  <2> QED
    BY <1>1, <1>2, <1>3, <2>1, WorldInOrder
<1>4. ASSUME NEW r \in Runs, NEW mode \in Modes, Start(r, mode)
      PROVE  RunsInOrder' /\ FeedStored' /\ StaysShown
  <2>1. feed' = feed /\ stored' = stored
    BY <1>4 DEF Start, tables
  <2> QED
    BY <1>1, <1>2, <1>4, <2>1, StartInOrder
<1>5. ASSUME NEW r \in Runs, Step(r) PROVE RunsInOrder' /\ FeedStored' /\ StaysShown
  <2>1. CASE Publish(r) \/ PublishFails(r)
    BY <2>1, SentInOrder DEF StaysShown
  <2>2. CASE SaveRow(r) \/ StoreDetail(r)
    <3>1. feed' = feed
      BY <2>2 DEF SaveRow, StoreDetail
    <3> QED
      BY <1>1, <2>2, <3>1, SaveRowInOrder, StoreDetailInOrder
  <2>3. CASE \/ FetchScheduleForClubs(r) \/ QueryClub(r) \/ FetchSeasons(r) \/ QueryLeague(r)
             \/ FetchPage(r) \/ EndListing(r) \/ Plan(r) \/ BeginBlock(r) \/ FetchDetail(r)
             \/ ResolveSeason(r) \/ FetchRanking(r) \/ BuildSchedules(r)
    <3>1. feed' = feed /\ stored' = stored
      BY <2>3 DEF FetchScheduleForClubs, QueryClub, FetchSeasons, QueryLeague, FetchPage,
         EndListing, Plan, BeginBlock, FetchDetail, ResolveSeason, FetchRanking,
         BuildSchedules, tables
    <3>2. RunsInOrder'
      BY <2>3, FetchScheduleInOrder, QueryClubInOrder, LeaguesInOrder, FetchPageInOrder,
         EndListingInOrder, BeginBlockInOrder, FetchDetailInOrder, FetchRankingInOrder,
         BuildSchedulesInOrder
    <3> QED
      BY <1>1, <1>2, <3>1, <3>2
  <2>4. CASE Record(r)
    <3>1. Continue(r, IdleRun) /\ UNCHANGED <<sams, stored, feed>>
      BY <2>4 DEF Record, world
    <3> QED
      BY <1>1, <1>2, <3>1, IdleInOrder, InOrderGoesOn
  <2> QED
    BY <1>5, <2>1, <2>2, <2>3, <2>4 DEF Step
<1>6. ASSUME NEW r \in Runs, RunFails(r) PROVE RunsInOrder' /\ FeedStored' /\ StaysShown
  <2>1. Continue(r, IdleRun) /\ UNCHANGED <<sams, stored, feed>>
    BY <1>6 DEF RunFails, Ends, world
  <2> QED
    BY <1>1, <1>2, <2>1, IdleInOrder, InOrderGoesOn
<1>7. CASE UNCHANGED vars
  <2>1. UNCHANGED <<sams, run, stored, feed>>
    BY <1>7 DEF vars
  <2>2. Posted \subseteq Posted'
    BY <2>1 DEF Posted
  <2> QED
    BY <1>1, <1>2, <2>1, <2>2, PostedGrows
<1> QED
  BY <1>3, <1>4, <1>5, <1>6, <1>7 DEF Next

LEMMA InitInOrder == Init => RunsInOrder /\ FeedStored
<1> SUFFICES ASSUME Init PROVE RunsInOrder /\ FeedStored
  OBVIOUS
<1>1. RunsInOrder
  BY IdleInOrder DEF Init, RunsInOrder
<1>2. FeedStored
  BY NoRowsTyped DEF Init, FeedStored
<1> QED
  BY <1>1, <1>2

LEMMA InOrderAlways ==
    ASSUME OneRun
    PROVE  Spec => [](Inv /\ RunsCover /\ RunsInOrder /\ FeedStored)
<1>1. Init => RunsCover
  BY IdleCovers DEF Init, RunsCover
<1>2. Inv /\ RunsCover /\ RunsInOrder /\ FeedStored /\ [Next]_vars => RunsInOrder' /\ FeedStored'
  BY NextInOrder
<1> QED
  BY <1>1, <1>2, InitInv, NextInv, NextCovers, InitInOrder, PTL DEF Spec

\* When runs do not overlap, a snapshot without a failed request sends the schedule
\* of each registered club that has a row, with every result of the club's matches
\* posted when the snapshot began: no page and no row is passed over on the way from
\* SAMS through the table into the event.
THEOREM SnapshotsCatchUp ==
    ASSUME OneRun
    PROVE  Spec => []SnapshotCatchesUp
<1>1. Inv /\ RunsCover /\ RunsInOrder /\ FeedStored => SnapshotCatchesUp
  BY DEF RunsInOrder, InOrder, CaughtUp, SnapshotCatchesUp
<1> QED
  BY <1>1, InOrderAlways, PTL

\* When runs do not overlap, no schedule event takes back a result that consumers
\* have been shown, whatever requests and runs fail.
THEOREM ResultsStay ==
    ASSUME OneRun
    PROVE  Spec => ResultStays
<1>1. Inv /\ RunsCover /\ RunsInOrder /\ FeedStored /\ [Next]_vars => [StaysShown]_vars
  BY NextInOrder
<1>2. [StaysShown]_vars =>
        [\A c \in RegisteredClubs :
           ResultsIn(feed.schedules[c]) \cap DOMAIN feed'.schedules[c]
             \subseteq ResultsIn(feed'.schedules[c])]_vars
  BY DEF StaysShown
<1>3. Spec => [][\A c \in RegisteredClubs :
                   ResultsIn(feed.schedules[c]) \cap DOMAIN feed'.schedules[c]
                     \subseteq ResultsIn(feed'.schedules[c])]_vars
  BY <1>1, <1>2, InOrderAlways, PTL DEF Spec
<1> QED
  BY <1>3 DEF ResultStays
-----------------------------------------------------------------------------
(* ScheduleCoversBlocks, when runs do not overlap: a block's matches are   *)
(* stored as they are fetched, and no later block stores them again.       *)

\* For each club of a block event there is a schedule that agrees with the event.
Shown(s) ==
    SeasonStored \/ s.clean =>
        \A b \in BlockEvents(s.batch), c \in RegisteredClubs \cap StoredClubs :
            c \in b.clubs =>
                \E e \in ScheduleEvents(s.batch) : e.club = c /\
                    \A m \in DOMAIN b.details \cap ClubMatches(c) :
                        /\ InScheduleWindow(b.details[m], e.cachedAt) => m \in DOMAIN e.rows
                        /\ m \in DOMAIN e.rows => e.rows[m] = b.details[m]

\* The rows that run s shows or is about to show of a block stand in a table, and
\* no block still to be refreshed has a match that a block event has.
Standing(s, table) ==
    /\ \A m \in DOMAIN s.details : table[m] = s.details[m]
    /\ \A b \in BlockEvents(s.batch) : \A m \in DOMAIN b.details : table[m] = b.details[m]
    /\ s.pc \in {"blocks", "detail"} =>
        \A b \in BlockEvents(s.batch), x \in s.blocks : DOMAIN b.details \cap x.matches = {}
    /\ s.pc = "detail" => s.block \in s.blocks
    /\ s.pc = "publish" => Shown(s)

RunsStand == \A r \in Runs : Standing(run[r], stored)

\* Blocks are equal when they share a match.
LEMMA BlockOfMatch ==
    ASSUME NEW planned, NEW x \in buildMatchBlocks(planned), NEW y \in buildMatchBlocks(planned),
           NEW m \in x.matches \cap y.matches
    PROVE  x = y
<1>1. PICK p \in Plannable(planned) : x = BlockOf(planned, p)
  BY DEF buildMatchBlocks
<1>2. PICK q \in Plannable(planned) : y = BlockOf(planned, q)
  BY DEF buildMatchBlocks
<1> HIDE DEF matchBlockId
<1>3. matchBlockId(planned, m) = x.id /\ matchBlockId(planned, m) = y.id
  BY <1>1, <1>2 DEF BlockOf
<1> QED
  BY <1>3, BlockOfId

LEMMA NoBlocksStand ==
    ASSUME NEW n, NEW table, n.batch = {}, n.details = NoRows, n.pc # "detail"
    PROVE  Standing(n, table)
<1>1. BlockEvents(n.batch) = {}
  BY DEF BlockEvents
<1> QED
  BY <1>1, NoRowsTyped DEF Standing, Shown

LEMMA IdleStands ==
    ASSUME NEW table
    PROVE  Standing(IdleRun, table)
  BY NoBlocksStand DEF IdleRun

\* From the last block on, with nothing of a registered club left to be scheduled
\* when it goes on to publish.
LEMMA SendingStands ==
    ASSUME NEW n, NEW table, Sending(n, n),
           \A m \in DOMAIN n.details : table[m] = n.details[m],
           \A b \in BlockEvents(n.batch) : \A m \in DOMAIN b.details : table[m] = b.details[m]
    PROVE  Standing(n, table)
<1>1. n.pc = "publish" => Shown(n)
  BY NoneAffected DEF Sending, Shown
<1> QED
  BY <1>1 DEF Standing, Sending

LEMMA SameBlocksStand ==
    ASSUME NEW s, NEW n, NEW table, Standing(s, table), s.pc \in {"blocks", "detail"},
           n.pc = "detail", n.block \in n.blocks, n.blocks = s.blocks, n.batch = s.batch,
           n.details = s.details
    PROVE  Standing(n, table)
  BY DEF Standing

LEMMA ClosedStands ==
    ASSUME NEW s, NEW n, NEW table, Standing(s, table), s.pc = "detail", Closed(n, s),
           DOMAIN s.details \subseteq s.block.matches,
           s.blocks \subseteq buildMatchBlocks(s.planned)
    PROVE  Standing(n, table)
<1> DEFINE e == ClosingEvent(s)
<1>1. e.kind = "block" /\ e.details = s.details
  BY DEF ClosingEvent
<1> HIDE DEF e
<1>2. n.details = NoRows /\ BlockEvents(n.batch) = BlockEvents(s.batch) \cup {e}
  BY <1>1 DEF Closed, BlockEvents, e
<1>3. \A b \in BlockEvents(n.batch) : \A m \in DOMAIN b.details : table[m] = b.details[m]
  BY <1>1, <1>2 DEF Standing
<1>4. \A m \in DOMAIN n.details : table[m] = n.details[m]
  BY <1>2, NoRowsTyped
<1>5. CASE n.pc = "blocks" /\ n.blocks = s.blocks \ {s.block}
  <2> SUFFICES ASSUME NEW b \in BlockEvents(n.batch), NEW x \in n.blocks,
                      NEW m \in DOMAIN b.details \cap x.matches
               PROVE  FALSE
    BY <1>3, <1>4, <1>5 DEF Standing
  <2>1. b = e
    BY <1>2, <1>5 DEF Standing
  <2>2. x = s.block
    BY <1>1, <1>5, <2>1, BlockOfMatch DEF Standing
  <2> QED
    BY <1>5, <2>2
<1>6. CASE Sending(n, n)
  BY <1>3, <1>4, <1>6, SendingStands
<1> QED
  BY <1>5, <1>6 DEF Closed

LEMMA NextMatchStands ==
    ASSUME NEW s \in Run, NEW table, Standing(s, table), s.pc = "detail", s.block \in MatchBlock,
           DOMAIN s.details \subseteq s.block.matches,
           s.blocks \subseteq buildMatchBlocks(s.planned)
    PROVE  Standing(NextMatch(s), table)
<1> DEFINE n == NextMatch(s)
<1>1. \/ Closed(n, s)
      \/ Kept(n, s) /\ n.pc = "detail" /\ n.blocks = s.blocks /\ n.block = s.block
  BY NextMatchShape
<1> HIDE DEF n
<1>2. s.block \in s.blocks
  BY DEF Standing
<1>3. Standing(n, table)
  BY <1>1, <1>2, ClosedStands, SameBlocksStand DEF Kept
<1> QED
  BY <1>3 DEF n

-----------------------------------------------------------------------------
(* The steps.                                                              *)

LEMMA StandContinued ==
    ASSUME OneRun, Inv, NEW r \in Runs, NEW n, Continue(r, n), Standing(n, stored')
    PROVE  RunsStand'
<1> SUFFICES ASSUME NEW q \in Runs PROVE Standing(run'[q], stored')
  BY DEF RunsStand
<1>1. q = r
  BY DEF OneRun
<1>2. run'[q] = n
  BY <1>1 DEF Continue, Inv, RunsTruthful
<1> QED
  BY <1>2

LEMMA StartStands ==
    ASSUME OneRun, Inv, NEW r \in Runs, NEW mode \in Modes, Start(r, mode)
    PROVE  RunsStand'
<1> DEFINE known == {m \in Matches : stored[m] # Absent}
           fetch == mode = "snapshot" \/ known = {}
           pc    == IF fetch THEN "schedule" ELSE "plan"
           n == [IdleRun EXCEPT
              !.pc      = pc,
              !.mode    = mode,
              !.at      = now,
              !.planned = IF fetch THEN NoRows ELSE [m \in known |-> stored[m]],
              !.force   = fetch,
              !.boot    = fetch /\ mode = "adaptive",
              !.before  = Posted]
<1>1. pc # "detail"
  OBVIOUS
<1>2. n.pc = pc /\ n.batch = {} /\ n.details = NoRows
  BY DEF IdleRun
<1>3. Continue(r, n)
  BY DEF Start
<1> HIDE DEF n, pc
<1>4. Standing(n, stored')
  BY <1>1, <1>2, NoBlocksStand
<1> QED
  BY <1>3, <1>4, StandContinued

LEMMA ListingStands ==
    ASSUME OneRun, Inv, RunsCover, RunsRegistered, NEW r \in Runs,
           \/ FetchScheduleForClubs(r) \/ QueryClub(r) \/ FetchSeasons(r) \/ QueryLeague(r)
           \/ FetchPage(r) \/ SaveRow(r) \/ EndListing(r) \/ Plan(r) \/ ResolveSeason(r)
    PROVE  RunsStand'
<1>1. PICK n : Continue(r, n) /\ Early(n)
  BY ListingShape
<1>2. Standing(n, stored')
  BY <1>1, NoBlocksStand DEF Early
<1> QED
  BY <1>1, <1>2, StandContinued

\* What is known of the run that refreshes a block.
LEMMA RefreshingRun ==
    ASSUME Inv, RunsCover, RunsStand, NEW r \in Runs, run[r].pc \in {"blocks", "detail"}
    PROVE  /\ run[r] \in Run /\ Standing(run[r], stored)
           /\ run[r].blocks \subseteq buildMatchBlocks(run[r].planned)
           /\ run[r].pc = "detail" =>
                InBlock(run[r]) /\ run[r].block \in MatchBlock /\ run[r].block \in run[r].blocks
<1>1. run[r] \in Run /\ Standing(run[r], stored) /\ Covers(run[r])
  BY RunOf DEF RunsStand, RunsCover
<1>2. run[r].blocks \subseteq DueBlocks(run[r])
  BY <1>1 DEF Covers, Refreshing
<1>3. run[r].blocks \subseteq buildMatchBlocks(run[r].planned)
  BY <1>2, DueBlock
<1> QED
  BY <1>1, <1>3, RunOf DEF Covers, Standing

LEMMA BeginBlockStands ==
    ASSUME OneRun, Inv, RunsCover, RunsStand, NEW r \in Runs, BeginBlock(r)
    PROVE  RunsStand'
<1> DEFINE n(b) == [run[r] EXCEPT !.pc = "detail", !.block = b, !.left = b.matches]
<1>0. run[r] \in Run /\ run[r].pc = "blocks" /\ Standing(run[r], stored)
  BY RefreshingRun DEF BeginBlock
<1>1. PICK b \in run[r].blocks : Continue(r, n(b))
  BY DEF BeginBlock
<1>2. /\ n(b).pc = "detail" /\ n(b).block = b /\ n(b).blocks = run[r].blocks
      /\ n(b).batch = run[r].batch /\ n(b).details = run[r].details
  BY <1>0 DEF Run
<1> HIDE DEF n
<1>3. stored' = stored
  BY DEF BeginBlock, tables
<1>4. Standing(n(b), stored')
  BY <1>0, <1>1, <1>2, <1>3, SameBlocksStand
<1> QED
  BY <1>1, <1>4, StandContinued

LEMMA FetchDetailStands ==
    ASSUME OneRun, Inv, RunsCover, RunsStand, NEW r \in Runs, FetchDetail(r)
    PROVE  RunsStand'
<1>0. /\ run[r] \in Run /\ run[r].pc = "detail" /\ Standing(run[r], stored)
      /\ run[r].blocks \subseteq buildMatchBlocks(run[r].planned)
      /\ InBlock(run[r]) /\ run[r].block \in MatchBlock /\ run[r].block \in run[r].blocks
  BY RefreshingRun DEF FetchDetail
<1> DEFINE s(m) == [run[r] EXCEPT !.left = @ \ {m}]
           a(m) == [s(m) EXCEPT !.page = OneRow(m, sams[m])]
           b(m) == [s(m) EXCEPT !.clean = FALSE]
<1>1. PICK m \in run[r].left, ok \in Answers :
        Continue(r, IF ok THEN a(m) ELSE NextMatch(b(m)))
  BY DEF FetchDetail
<1>2. /\ s(m) \in Run /\ s(m).pc = "detail" /\ s(m).block = run[r].block
      /\ s(m).blocks = run[r].blocks /\ s(m).batch = run[r].batch
      /\ s(m).details = run[r].details /\ s(m).planned = run[r].planned
  BY <1>0 DEF Run
<1> HIDE DEF s
<1>3. /\ a(m).pc = "detail" /\ a(m).block = run[r].block /\ a(m).blocks = run[r].blocks
      /\ a(m).batch = run[r].batch /\ a(m).details = run[r].details
  BY <1>2 DEF Run
<1>4. /\ b(m) \in Run /\ b(m).pc = "detail" /\ b(m).block = run[r].block
      /\ b(m).blocks = run[r].blocks /\ b(m).batch = run[r].batch
      /\ b(m).details = run[r].details /\ b(m).planned = run[r].planned
  BY <1>2 DEF Run
<1> HIDE DEF a, b
<1>5. stored' = stored
  BY DEF FetchDetail, tables
<1>6. Standing(a(m), stored') /\ Standing(b(m), stored')
  BY <1>0, <1>3, <1>4, <1>5, SameBlocksStand
<1>7. Standing(NextMatch(b(m)), stored')
  BY <1>0, <1>4, <1>6, NextMatchStands DEF InBlock
<1> QED
  BY <1>1, <1>6, <1>7, StandContinued

LEMMA StoreDetailStands ==
    ASSUME OneRun, Inv, RunsCover, RunsStand, NEW r \in Runs, StoreDetail(r)
    PROVE  RunsStand'
<1>0. /\ run[r] \in Run /\ run[r].pc = "detail" /\ Standing(run[r], stored)
      /\ run[r].blocks \subseteq buildMatchBlocks(run[r].planned)
      /\ InBlock(run[r]) /\ run[r].block \in MatchBlock /\ run[r].block \in run[r].blocks
  BY RefreshingRun DEF StoreDetail
<1> DEFINE row(m) == run[r].page[m]
           details(m) == WithRow(run[r].details, m, row(m))
           n(m) == [run[r] EXCEPT !.page = NoRows, !.details = details(m)]
<1>1. PICK m \in DOMAIN run[r].page :
        stored' = [stored EXCEPT ![m] = row(m)] /\ Continue(r, NextMatch(n(m)))
  BY DEF StoreDetail
<1>2. m \in Matches /\ row(m) \in Row /\ m \in run[r].block.matches
  BY <1>0, PageRow DEF InBlock
<1> HIDE DEF row
<1>3. /\ details(m) \in Rows
      /\ DOMAIN details(m) = DOMAIN run[r].details \cup {m}
      /\ \A x \in DOMAIN run[r].details \cup {m} :
            details(m)[x] = IF x = m THEN row(m) ELSE run[r].details[x]
  <2>1. run[r].details \in Rows
    BY <1>0 DEF Run
  <2> QED
    BY <1>2, <2>1, WithRowTyped
<1> HIDE DEF details
<1>4. /\ n(m) \in Run /\ n(m).pc = "detail" /\ n(m).block = run[r].block
      /\ n(m).blocks = run[r].blocks /\ n(m).batch = run[r].batch
      /\ n(m).details = details(m) /\ n(m).planned = run[r].planned
  BY <1>0, <1>3, NoRowsTyped DEF Run
<1> HIDE DEF n
<1>5. stored'[m] = row(m) /\ \A x : x # m => stored'[x] = stored[x]
  BY <1>1, <1>2 DEF Inv, StoredTruthful
<1>6. \A x \in DOMAIN n(m).details : stored'[x] = n(m).details[x]
  BY <1>0, <1>3, <1>4, <1>5 DEF Standing
<1>7. ASSUME NEW b \in BlockEvents(n(m).batch), NEW x \in DOMAIN b.details
      PROVE  stored'[x] = b.details[x]
  <2>1. x # m /\ stored[x] = b.details[x]
    BY <1>0, <1>2, <1>4, <1>7 DEF Standing
  <2> QED
    BY <1>5, <2>1
<1>8. Standing(n(m), stored')
  BY <1>0, <1>4, <1>6, <1>7 DEF Standing
<1>9. DOMAIN n(m).details \subseteq n(m).block.matches
  BY <1>0, <1>2, <1>3, <1>4 DEF InBlock
<1>10. Standing(NextMatch(n(m)), stored')
  BY <1>0, <1>4, <1>8, <1>9, NextMatchStands
<1> QED
  BY <1>1, <1>10, StandContinued

LEMMA FetchRankingStands ==
    ASSUME OneRun, Inv, RunsStand, NEW r \in Runs, FetchRanking(r)
    PROVE  RunsStand'
<1>0. run[r].pc = "rankings" /\ Standing(run[r], stored) /\ stored' = stored
  BY DEF FetchRanking, RunsStand, tables
<1>1. PICK l \in run[r].leagues : \E source \in RankingSources(run[r], l) : \E e, n :
             /\ e.kind = "ranking" /\ e.league = l /\ e.source = source
             /\ n \in Run /\ Ranked(n, run[r], e)
             /\ Continue(r, n) \/ Continue(r, EnterSchedules(n))
  BY FetchRankingShape
<1>2. PICK e, n :
             /\ e.kind = "ranking" /\ n \in Run /\ Ranked(n, run[r], e)
             /\ Continue(r, n) \/ Continue(r, EnterSchedules(n))
  BY <1>1
<1>3. /\ BlockEvents(n.batch) = BlockEvents(run[r].batch)
      /\ n.details = run[r].details /\ n.pc = "rankings"
  BY <1>0, <1>2 DEF Ranked, BlockEvents
<1>4. Standing(n, stored)
  BY <1>0, <1>3 DEF Standing
<1>5. Standing(EnterSchedules(n), stored)
  <2> DEFINE s == EnterSchedules(n)
  <2>1. Kept(s, n) /\ Sending(s, n)
    BY <1>2, EnterSchedulesShape
  <2> HIDE DEF s
  <2>2. Sending(s, s) /\ s.details = n.details /\ s.batch = n.batch
    BY <2>1, KeptMoved DEF Kept
  <2>3. Standing(s, stored)
    BY <1>4, <2>2, SendingStands DEF Standing
  <2> QED
    BY <2>3 DEF s
<1> QED
  BY <1>0, <1>2, <1>4, <1>5, StandContinued

\* A schedule agrees with every row that stands in the table it is built from.
LEMMA ClubScheduleAgrees ==
    ASSUME NEW s, NEW c, NEW m \in ClubMatches(c), stored[m] \in Row
    PROVE  /\ InScheduleWindow(stored[m], now) => m \in DOMAIN ClubSchedule(s, c)
           /\ m \in DOMAIN ClubSchedule(s, c) => ClubSchedule(s, c)[m] = stored[m]
<1> DEFINE ms == {x \in ClubMatches(c) :
                   stored[x] # Absent /\ (s.mode = "snapshot" \/ InScheduleWindow(stored[x], now))}
<1>1. ClubSchedule(s, c) = [x \in ms |-> stored[x]]
  BY DEF ClubSchedule
<1>2. InScheduleWindow(stored[m], now) => m \in ms
  BY RowNotAbsent
<1> HIDE DEF ms
<1> QED
  BY <1>1, <1>2

LEMMA BuildSchedulesStands ==
    ASSUME OneRun, Inv, RunsStand, NEW r \in Runs, BuildSchedules(r)
    PROVE  RunsStand'
<1>0. /\ run[r] \in Run /\ Standing(run[r], stored) /\ stored' = stored
  BY RunOf DEF BuildSchedules, RunsStand, tables
<1>1. PICK ok \in BOOLEAN : \E n : Scheduled(n, run[r], ok) /\ Continue(r, n)
  BY BuildSchedulesShape
<1>2. PICK n : Scheduled(n, run[r], ok) /\ Continue(r, n)
  BY <1>1
<1> DEFINE events == buildClubMatchScheduleEvents(run[r])
<1>3. ASSUME NEW c \in AffectedClubs(run[r]) \cap StoredClubs
      PROVE  \E e \in events : /\ e.club = c /\ e.kind = "schedule" /\ e.cachedAt = now
                               /\ e.rows = ClubSchedule(run[r], c)
  <2> DEFINE e == [kind |-> "schedule", club |-> c, rows |-> ClubSchedule(run[r], c),
                   cachedAt |-> now]
  <2>1. e \in events
    BY DEF buildClubMatchScheduleEvents
  <2>2. e.club = c /\ e.kind = "schedule" /\ e.cachedAt = now /\ e.rows = ClubSchedule(run[r], c)
    OBVIOUS
  <2> HIDE DEF e, events
  <2> QED
    BY <2>1, <2>2
<1>4. \A e \in events : e.kind = "schedule"
  BY DEF buildClubMatchScheduleEvents
<1> HIDE DEF events
<1>5. n.batch = IF ok THEN run[r].batch \cup events ELSE run[r].batch
  BY <1>2 DEF Scheduled, events
<1>6. BlockEvents(n.batch) = BlockEvents(run[r].batch) /\ n.details = run[r].details
  BY <1>2, <1>4, <1>5 DEF BlockEvents, Scheduled
<1>7. Shown(n)
  <2> SUFFICES ASSUME SeasonStored \/ n.clean, NEW b \in BlockEvents(run[r].batch),
                      NEW c \in RegisteredClubs \cap StoredClubs, c \in b.clubs
               PROVE  \E e \in ScheduleEvents(n.batch) : e.club = c /\
                        \A m \in DOMAIN b.details \cap ClubMatches(c) :
                          /\ InScheduleWindow(b.details[m], e.cachedAt) => m \in DOMAIN e.rows
                          /\ m \in DOMAIN e.rows => e.rows[m] = b.details[m]
    BY <1>6 DEF Shown
  <2>1. c \in AffectedClubs(run[r])
    <3>1. b.clubs \in {e.clubs : e \in BlockEvents(run[r].batch)}
      OBVIOUS
    <3>2. c \in UNION {e.clubs : e \in BlockEvents(run[r].batch)}
      BY <3>1
    <3> QED
      BY <3>2 DEF AffectedClubs
  <2>2. PICK e \in events : /\ e.club = c /\ e.kind = "schedule" /\ e.cachedAt = now
                            /\ e.rows = ClubSchedule(run[r], c)
    BY <1>3, <2>1
  <2>3. ok
    BY <1>2 DEF Scheduled
  <2>4. e \in ScheduleEvents(n.batch)
    BY <1>5, <2>2, <2>3 DEF ScheduleEvents
  <2>5. ASSUME NEW m \in DOMAIN b.details \cap ClubMatches(c)
        PROVE  /\ InScheduleWindow(b.details[m], e.cachedAt) => m \in DOMAIN e.rows
               /\ m \in DOMAIN e.rows => e.rows[m] = b.details[m]
    <3>1. stored[m] = b.details[m]
      BY <1>0 DEF Standing
    <3>2. b \in BlockEvent
      BY <1>0 DEF BlockEvents, Run, RankingEvent, ScheduleEvent
    <3>3. stored[m] \in Row
      BY <3>1, <3>2, RowsShape DEF BlockEvent
    <3> QED
      BY <2>2, <3>1, <3>3, ClubScheduleAgrees
  <2> QED
    BY <2>2, <2>4, <2>5
<1>8. Standing(n, stored')
  BY <1>0, <1>2, <1>6, <1>7 DEF Standing, Scheduled
<1> QED
  BY <1>2, <1>8, StandContinued

LEMMA PublishStands ==
    ASSUME OneRun, Inv, RunsStand, NEW r \in Runs, Publish(r)
    PROVE  RunsStand'
<1> DEFINE n == [run[r] EXCEPT !.pc = "record"]
<1>0. run[r] \in Run /\ Standing(run[r], stored) /\ stored' = stored
  BY RunOf DEF Publish, RunsStand, tables
<1>1. n.pc = "record" /\ n.batch = run[r].batch /\ n.details = run[r].details
  BY <1>0 DEF Run
<1>2. Continue(r, n)
  BY DEF Publish
<1> HIDE DEF n
<1>3. Standing(n, stored')
  BY <1>0, <1>1 DEF Standing
<1> QED
  BY <1>2, <1>3, StandContinued

LEMMA NextStands ==
    ASSUME OneRun
    PROVE  Inv /\ RunsCover /\ RunsRegistered /\ RunsStand /\ [Next]_vars => RunsStand'
<1> SUFFICES ASSUME Inv, RunsCover, RunsRegistered, RunsStand, [Next]_vars PROVE RunsStand'
  OBVIOUS
<1>1. CASE \E r \in Runs, mode \in Modes : Start(r, mode)
  BY <1>1, StartStands
<1>2. ASSUME NEW r \in Runs, Step(r) PROVE RunsStand'
  <2>1. CASE PublishFails(r) \/ Record(r)
    BY <2>1, IdleStands, StandContinued DEF PublishFails, Ends, Record
  <2>2. CASE ~(PublishFails(r) \/ Record(r))
    BY <1>2, <2>2, ListingStands, BeginBlockStands, FetchDetailStands, StoreDetailStands,
       FetchRankingStands, BuildSchedulesStands, PublishStands DEF Step
  <2> QED
    BY <2>1, <2>2
<1>3. CASE \E r \in Runs : RunFails(r)
  BY <1>3, IdleStands, StandContinued DEF RunFails, Ends
<1>4. CASE run' = run /\ stored' = stored
  BY <1>4 DEF RunsStand
<1> QED
  BY <1>1, <1>2, <1>3, <1>4 DEF Next, vars, tables, Tick, PostResult, MoveMatch

LEMMA StandAlways ==
    ASSUME OneRun
    PROVE  Spec => []RunsStand
<1>1. Init => RunsStand
  BY IdleStands DEF Init, RunsStand
<1>2. Inv /\ RunsCover /\ RunsRegistered /\ RunsStand /\ [Next]_vars => RunsStand'
  BY NextStands
<1> QED
  BY <1>1, <1>2, RunInvariant, PTL DEF Spec

\* When runs do not overlap, a run that learns the season sends, with each block
\* event, the schedule of each of its registered clubs that has a row.  It lists each
\* match of the block that lies in the rolling window at that moment, and each match
\* of the block that it lists is in the row the block event shows.
THEOREM SchedulesCoverBlocks ==
    ASSUME OneRun
    PROVE  Spec => []ScheduleCoversBlocks
<1>1. RunsStand => ScheduleCoversBlocks
  BY DEF RunsStand, Standing, Shown, ScheduleCoversBlocks
<1> QED
  BY <1>1, StandAlways, PTL
=============================================================================
