-------------------------------- MODULE CatchUp --------------------------------
(***************************************************************************)
(* What an operator may conclude from a full sync (src/cli/README.md, "Full *)
(* sync (manual)": clubs, teams and match snapshot "for every registered   *)
(* club"): when the command says DONE, every club it was to see to has been *)
(* sent every kind of event it was owed, except where a job has passed over *)
(* a club.  A command that fails promises nothing.                         *)
(***************************************************************************)
CONSTANTS
    Kinds,   \* kinds of events of clubs
    Clubs

VARIABLES
    outcome,   \* of the latest command
    owed,      \* what the command was to see to: pairs of a kind and a club
    served,    \* what has been sent since it began
    missed     \* what jobs passed over without an error

vars == <<outcome, owed, served, missed>>

Dues == Kinds \X Clubs

Init ==
    /\ outcome = "none"
    /\ owed = {}
    /\ served = {}
    /\ missed = {}

Begin ==
    /\ outcome # "running"
    /\ outcome' = "running"
    /\ owed' \in SUBSET Dues
    /\ served' = {}
    /\ missed' = {}

\* Jobs send.
Serve ==
    /\ outcome = "running"
    /\ served \subseteq served'
    /\ served' \subseteq Dues
    /\ missed \subseteq missed'
    /\ missed' \subseteq Dues
    /\ UNCHANGED <<outcome, owed>>

Done ==
    /\ outcome = "running"
    /\ owed \subseteq served \cup missed
    /\ outcome' = "done"
    /\ UNCHANGED <<owed, served, missed>>

Fail ==
    /\ outcome = "running"
    /\ outcome' = "failed"
    /\ owed' = {}
    /\ served' = {}
    /\ missed' = {}

Next == Begin \/ Serve \/ Done \/ Fail

Spec == Init /\ [][Next]_vars

=============================================================================
