-------------------------- MODULE MCMatchRefresh ---------------------------
(***************************************************************************)
(* Small instances of MatchRefresh under the default policy.  Clock values *)
(* are minutes from midnight of the match day.                             *)
(***************************************************************************)
EXTENDS MatchRefresh, TLC

CONSTANTS home, guest, other, league, a, b, r1, r2

\* a is a match of the registered club; b is one of two other clubs in the same
\* league, in the same hall, where one match follows the other.
LeagueOfAll == [m \in Matches |-> league]
OneVenue    == [m \in Matches |-> "hall"]
Teams       == (a :> {home, guest}) @@ (b :> {guest, other})
ClubsOfAll  == [m \in Matches |-> Teams[m]]

OnePage     == [m \in Matches |-> 0]
PagePerRow  == (a :> 0) @@ (b :> 1)
PageOfMatch == [m \in Matches |-> PagePerRow[m]]

\* A match day without a time, planned at midnight, and put off beyond the
\* window of the schedules.
TwoFixtures == {[date |-> 0, time |-> NoTime], [date |-> 400 * DayMinutes, time |-> 300]}
OneFixture  == {[date |-> 0, time |-> 300]}

\* In the active window, on both sides of its end, as close as a run is long, and
\* when the listing of a league is stale.
Season  == {250, 415, 425, 1200}
Evening == {290, 400, 410, 500}
\* Two runs of the five-minute rule close enough to overlap, then past the windows.
Overlap == {400, 410}

RunSymmetry == Permutations(Runs)
=============================================================================
