--------------------------- MODULE MCMatchWindow ----------------------------
(***************************************************************************)
(* MatchWindow with the default policy and a clock of half minutes that    *)
(* stops on both sides of every boundary of the ladder.                    *)
(***************************************************************************)
EXTENDS MatchWindow

CONSTANTS m1, m2

MCMatches == {m1, m2}
MCLeagueOf == [m \in MCMatches |-> NoLeague]
MCVenueOf == [m \in MCMatches |-> "unknown"]
MCClubsOf == [m \in MCMatches |-> {}]

\* Minutes from the first kickoff: the boundaries of the ladder, and the second
\* kickoff a week later.
Boundaries == {-1440, -120, 0, 45, 120, 420}
MCKickoffs == {0, 2 * 10080}
Around(k) == UNION {{2 * b - 2 + k, 2 * b - 1 + k, 2 * b + k, 2 * b + 1 + k, 2 * b + 2 + k} : b \in Boundaries}
MCInstants == UNION {Around(k) : k \in MCKickoffs}
=============================================================================
