---------------------------- MODULE MatchWindow -----------------------------
(***************************************************************************)
(* One match block on its way through time, as the five-minute match       *)
(* refresh sees it: the clock advances, SAMS posts results and moves the   *)
(* block, and decideBlock says at each instant what a run would do.        *)
(* The planner keeps no memory between runs, so what it promises over time *)
(* rests on the ladder of decideBlock alone.                               *)
(***************************************************************************)
EXTENDS MatchPlanner

CONSTANTS
    Instants,    \* the clock values at which something may happen
    Kickoffs,    \* the starts the block may be given
    MaxMoves     \* bound: how often SAMS moves the block

ASSUME WindowAssumption ==
    /\ Instants \subseteq Int
    /\ Kickoffs \subseteq Int
    /\ MaxMoves \in Nat
    /\ NoDate \notin Int

VARIABLES
    now,       \* the clock
    kickoff,   \* the block's scheduledStart
    done,      \* the matches of the block whose result SAMS has posted
    moves      \* how often the block was moved

vars == <<now, kickoff, done, moves>>

Block ==
    [id             |-> kickoff,
     league         |-> {},
     start          |-> kickoff,
     matches        |-> Matches,
     clubs          |-> {},
     allHaveResults |-> done = Matches]

Decision == decideBlock(Block, now)

TypeOK ==
    /\ now \in Instants
    /\ kickoff \in Kickoffs
    /\ done \subseteq Matches
    /\ moves \in 0 .. MaxMoves
    /\ Decision.state \in States

-----------------------------------------------------------------------------

Init ==
    /\ now \in Instants
    /\ \A t \in Instants : now <= t
    /\ kickoff \in Kickoffs
    /\ done = {}
    /\ moves = 0

Tick ==
    /\ \E t \in Instants : t > now /\ now' = t
    /\ UNCHANGED <<kickoff, done, moves>>

\* SAMS reports a winner: after the match, or before it for a walkover.
PostResult(m) ==
    /\ m \notin done
    /\ done' = done \cup {m}
    /\ UNCHANGED <<now, kickoff, moves>>

\* SAMS moves the block to another date or time.
Move(s) ==
    /\ moves < MaxMoves
    /\ s # kickoff
    /\ kickoff' = s
    /\ moves' = moves + 1
    /\ UNCHANGED <<now, done>>

Next ==
    \/ Tick
    \/ \E m \in Matches : PostResult(m)
    \/ \E s \in Kickoffs : Move(s)

\* The clock does not stop.
Spec == Init /\ [][Next]_vars /\ WF_vars(Tick)

-----------------------------------------------------------------------------
(* Properties.                                                             *)

Rank(state) ==
    CASE state = "scheduledFuture"  -> 0
      [] state = "preMatchWindow"   -> 1
      [] state = "activeWindow"     -> 2
      [] state = "sequentialWindow" -> 2
      [] state = "recentlyFinished" -> 3
      [] state = "settled"          -> 4

\* decideBlock looks only at the present, yet as long as the block is not moved
\* the states it passes through never go back: neither the clock nor a late
\* result reopens a window that was closed.  It needs the result windows to end
\* within the active window, which the policy schema does not demand.
PhaseNeverReopens ==
    [][kickoff' = kickoff => Rank(Decision.state) <= Rank(Decision'.state)]_vars

\* Once due, a block that is not moved stays due at every instant until it is
\* settled: no gap between two arms of decideBlock leaves it unpolled.
DueUntilSettled ==
    [][/\ kickoff' = kickoff
       /\ Decision.shouldRefreshMatches
       /\ ~Decision'.shouldRefreshMatches
       => Decision'.state = "settled"]_vars

\* Every block ends settled for good, with or without its results: a match SAMS
\* never reports on is not polled forever.
EventuallySettled == <>[](Decision.state = "settled")

=============================================================================
