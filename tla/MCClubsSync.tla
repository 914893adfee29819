---------------------------- MODULE MCClubsSync ----------------------------
(***************************************************************************)
(* Small instances of ClubsSync.                                           *)
(***************************************************************************)
EXTENDS ClubsSync

CONSTANTS c, d, x, y, n1, n2, u

In(name, assoc) == [name |-> name, assoc |-> assoc, url |-> u]

\* c may be renamed, and d stays what it is.
Renames == [k \in Clubs |-> IF k = c THEN {In(n1, x), In(n2, x)} ELSE {In(n1, x)}]
\* c may move from one association to the other.
Moves   == [k \in Clubs |-> IF k = c THEN {In(n1, x), In(n1, y)} ELSE {In(n1, x)}]

\* d on the first page, c on the second.
TwoPages == [k \in Clubs |-> IF k = c THEN 1 ELSE 0]
=============================================================================
