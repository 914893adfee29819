-------------------------------- MODULE Outbox --------------------------------
(***************************************************************************)
(* What a job may rely on when it hands its events to the publisher        *)
(* (DomainEventPublisher in src/events/publisher.ts), whatever the batches *)
(* and chunks: only events it handed over go out; a publish that returns   *)
(* has sent all of them; one that throws may have sent any part.           *)
(***************************************************************************)
CONSTANT Events

VARIABLES
    handed,   \* the events of the latest publish
    out,      \* those the bus has accepted
    verdict   \* how that publish ended, or that it has not ended yet

vars == <<handed, out, verdict>>

Verdicts == {"pending", "ok", "error"}

Init ==
    /\ handed = {}
    /\ out = {}
    /\ verdict = "ok"

\* A publish of no events returns at once.
Hand ==
    /\ verdict # "pending"
    /\ handed' \in SUBSET Events
    /\ out' = {}
    /\ verdict' \in {"pending", "ok"}
    /\ verdict' = "ok" => handed' = {}

Send ==
    /\ verdict = "pending"
    /\ out \subseteq out'
    /\ out' \subseteq handed
    /\ verdict' \in Verdicts
    /\ verdict' = "ok" => out' = handed
    /\ UNCHANGED handed

Next == Hand \/ Send

Spec == Init /\ [][Next]_vars

=============================================================================
