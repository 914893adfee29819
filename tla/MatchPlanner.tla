---------------------------- MODULE MatchPlanner ----------------------------
(***************************************************************************)
(* The refresh planner (src/refresh/planner.ts): how stored matches are    *)
(* grouped into match blocks and what is decided about each block at an    *)
(* instant.  Everything here is a pure operator; MatchWindow runs one      *)
(* block through time and MatchRefresh runs whole refreshes on top of it.  *)
(*                                                                         *)
(* The clock counts units of 1/Minute of a minute.  A planned match is a   *)
(* record [date, time, done]: date is the clock value of midnight of the   *)
(* match day or NoDate, time the minutes after midnight or NoTime, done    *)
(* the field hasResult.  What never changes about a match (its league, its *)
(* venue, the sports clubs of its two teams) are constant functions.       *)
(***************************************************************************)
EXTENDS Integers, FiniteSets

CONSTANTS
    Matches,                  \* match uuids
    Leagues,                  \* league uuids
    Clubs,                    \* sports club uuids
    LeagueOf,                 \* [Matches -> Leagues \cup {NoLeague}]
    VenueOf,                  \* [Matches -> venue key], "unknown" where SAMS has none
    ClubsOf,                  \* [Matches -> SUBSET Clubs], at most two
    NoLeague, NoDate, NoTime, \* absent fields
    Minute,                   \* clock units per minute
    PreMatch,                 \* policy.preMatchHours, in minutes
    ActiveUntil,              \* policy.activeWindowHoursAfterStart, in minutes
    RecentlyFinished,         \* policy.recentlyFinishedMinutes
    SettledAfter,             \* policy.settledAfterMinutes
    PollPreMatch, PollApproaching, PollActive, PollRecent, PollBackoff
                              \* policy.pollMinutes

ASSUME MatchAssumption ==
    /\ LeagueOf \in [Matches -> Leagues \cup {NoLeague}]
    /\ ClubsOf \in [Matches -> SUBSET Clubs]
    /\ NoLeague \notin Leagues

\* matchRefreshPolicySchema accepts any positive numbers: nothing orders them.
ASSUME PolicyAssumption ==
    /\ Minute \in Nat \ {0}
    /\ PreMatch \in Nat \ {0}
    /\ ActiveUntil \in Nat \ {0}
    /\ RecentlyFinished \in Nat \ {0}
    /\ SettledAfter \in Nat \ {0}
    /\ PollPreMatch \in Nat \ {0}
    /\ PollApproaching \in Nat \ {0}
    /\ PollActive \in Nat \ {0}
    /\ PollRecent \in Nat \ {0}
    /\ PollBackoff \in Nat \ {0}

-----------------------------------------------------------------------------

DayMinutes == 24 * 60

\* pollIntervalMinutes = null; a policy's poll minutes are positive.
NoPoll == 0

States == {"scheduledFuture", "preMatchWindow", "activeWindow",
           "sequentialWindow", "recentlyFinished", "settled"}

\* The states that poll the league's ranking along with the matches.
RankingStates == {"activeWindow", "sequentialWindow", "recentlyFinished"}

-----------------------------------------------------------------------------
(* Match blocks.                                                           *)

\* A match without a time is planned at 00:00 of its day.
ScheduledStart(row) ==
    row.date + Minute * (IF row.time = NoTime THEN 0 ELSE row.time)

\* Matches without a date or a league are in no block.
Plannable(planned) ==
    {m \in DOMAIN planned : planned[m].date # NoDate /\ LeagueOf[m] # NoLeague}

\* matchBlockId: date and time enter through the start they determine.
matchBlockId(planned, m) ==
    [league |-> LeagueOf[m],
     venue  |-> VenueOf[m],
     start  |-> ScheduledStart(planned[m])]

\* The block of match m: all matches that share its id.
BlockOf(planned, m) ==
    LET id    == matchBlockId(planned, m)
        group == {n \in Plannable(planned) : matchBlockId(planned, n) = id}
    IN  [id             |-> id,
         league         |-> LeagueOf[m],
         start          |-> id.start,
         matches        |-> group,
         clubs          |-> UNION {ClubsOf[n] : n \in group},
         allHaveResults |-> \A n \in group : planned[n].done]

buildMatchBlocks(planned) == {BlockOf(planned, m) : m \in Plannable(planned)}

-----------------------------------------------------------------------------
(* Decisions.                                                              *)

\* dayjs a.diff(b, "minute"): truncated towards zero.
DiffMinutes(a, b) ==
    IF a >= b THEN (a - b) \div Minute ELSE -((b - a) \div Minute)

\* Variants with a bug, which the properties have to notice (see README).
LiveStateMisnamed(block) == "activewindow"

SettledTooEarly(block, after) ==
    IF after <= ActiveUntil /\ ~block.allHaveResults
      THEN [state |-> "activeWindow", poll |-> PollActive]
    ELSE IF block.allHaveResults /\ after \notin RecentlyFinished .. SettledAfter
      THEN [state |-> "recentlyFinished", poll |-> PollRecent]
    ELSE [state |-> "settled", poll |-> NoPoll]

ActiveOffByOne(block, after) ==
    IF after < ActiveUntil /\ ~block.allHaveResults
      THEN [state |-> "activeWindow", poll |-> PollActive]
    ELSE IF block.allHaveResults \/ after > ActiveUntil
      THEN [state |-> "settled", poll |-> NoPoll]
    ELSE [state |-> "scheduledFuture", poll |-> NoPoll]

UnreportedForever(block, after) ==
    IF ~block.allHaveResults
      THEN [state |-> "activeWindow", poll |-> PollActive]
      ELSE [state |-> "settled", poll |-> NoPoll]

\* Polling while the match is on or near: several matches make it sequential.
LiveState(block) ==
    IF Cardinality(block.matches) > 1 THEN "sequentialWindow" ELSE "activeWindow"

\* The arms of decideBlock from the start on, in their order, after minutes into
\* the match; the last arm is the initial value, kept when no arm applies.
WindowAfterStart(block, after) ==
    IF after <= ActiveUntil /\ ~block.allHaveResults
      THEN [state |-> LiveState(block), poll |-> PollActive]
    ELSE IF block.allHaveResults /\ after <= RecentlyFinished
      THEN [state |-> "recentlyFinished", poll |-> PollRecent]
    ELSE IF block.allHaveResults /\ after <= SettledAfter
      THEN [state |-> "recentlyFinished", poll |-> PollBackoff]
    ELSE IF block.allHaveResults \/ after > ActiveUntil
      THEN [state |-> "settled", poll |-> NoPoll]
    ELSE [state |-> "scheduledFuture", poll |-> NoPoll]

\* The arms before the start, and then the rest.
Window(block, now) ==
    LET until == DiffMinutes(block.start, now)
    IN  IF until > DayMinutes
          THEN [state |-> "scheduledFuture", poll |-> NoPoll]
        ELSE IF until > PreMatch
          THEN [state |-> "preMatchWindow", poll |-> PollPreMatch]
        ELSE IF until > 0
          THEN [state |-> LiveState(block), poll |-> PollApproaching]
        ELSE WindowAfterStart(block, DiffMinutes(now, block.start))

decideBlock(block, now) ==
    LET w == Window(block, now)
    IN  [block                 |-> block,
         state                 |-> w.state,
         shouldRefreshMatches  |-> w.poll # NoPoll,
         shouldRefreshRankings |-> w.poll # NoPoll /\ w.state \in RankingStates,
         nextRefreshAfter      |-> IF w.poll = NoPoll THEN NoDate
                                   ELSE now + Minute * w.poll]

planMatchRefresh(planned, now) ==
    {decideBlock(b, now) : b \in buildMatchBlocks(planned)}

dueRefreshDecisions(decisions) ==
    {d \in decisions : d.shouldRefreshMatches \/ d.shouldRefreshRankings}

\* The leagues that get a ranking refresh.
RankingLeagues(decisions) ==
    {d.block.league : d \in {e \in decisions : e.shouldRefreshRankings}}

\* The decisions that may represent a league: the first preferred one or, when
\* none is preferred, the first one; which comes first is the table scan's order.
rankingDueLeagueDecisions(decisions, preferred, league) ==
    LET due   == {d \in decisions : d.shouldRefreshRankings /\ d.block.league = league}
        liked == {d \in due : d.block.id \in preferred}
    IN  IF liked # {} THEN liked ELSE due

=============================================================================
