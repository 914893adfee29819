---------------------------- MODULE MCTeamsSync ----------------------------
(***************************************************************************)
(* Small instances of TeamsSync.                                           *)
(***************************************************************************)
EXTENDS TeamsSync

CONSTANTS home, guest, h, k, g, l, m, s1, s2, q1, q2

\* h and k are teams of the registered club, g is an opponent.
ClubOfTeam == [t \in Teams |-> IF t = g THEN guest ELSE home]
\* With pages of two and all teams in l, g and h stand on the first page and k on
\* the second, until h leaves.
Order      == [t \in Teams |-> CASE t = g -> 0 [] t = h -> 1 [] t = k -> 2]
\* l and m are leagues of one season, or of two.
OneSeason  == [x \in Leagues |-> s1]
TwoSeasons == [x \in Leagues |-> IF x = l THEN s1 ELSE s2]
\* h may change leagues or leave, the others play in l.
Places     == [t \in Teams |-> IF t = h THEN {l, m, Absent} ELSE {l}]
\* h may change its squad.
MaySwap    == [t \in Teams |-> IF t = h THEN {q1, q2} ELSE {q1}]
=============================================================================
