--------------------------- MODULE MCRegistration ----------------------------
(***************************************************************************)
(* Small instances of Registration.                                        *)
(***************************************************************************)
EXTENDS Registration, TLC

CONSTANTS c1, c2, name, k1, k2, x, y, o1, o2

\* Two clubs of one name.
OneName == [c \in Clubs |-> name]

\* The default id comes from what the operator typed.
DefaultIds == [n \in Clubs \cup Names |-> IF n = c2 THEN k2 ELSE k1]

\* By name; by uuid under the id of the former; by uuid under an id of its own.
Commands ==
    {[named |-> name, consumer |-> Absent, account |-> x],
     [named |-> c2,   consumer |-> k1,     account |-> x],
     [named |-> c2,   consumer |-> Absent, account |-> y]}

\* One club, two accounts, the documented command.
TwoAccounts ==
    {[named |-> name, consumer |-> Absent, account |-> a] : a \in {x, y}}

OperatorSymmetry == Permutations(Operators)
=============================================================================
