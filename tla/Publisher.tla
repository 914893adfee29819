------------------------------- MODULE Publisher -------------------------------
(***************************************************************************)
(* EventBridgePublisher (src/events/eventbridge-publisher.ts): a batch     *)
(* goes out in chunks, one PutEvents request after the other.  EventBridge *)
(* is external: it may refuse some entries of a request, and a request     *)
(* that throws, or is cut off by the Lambda's timeout, may have been       *)
(* accepted in part.  A chunk that fails ends the publish; chunks before   *)
(* it are out.                                                             *)
(***************************************************************************)
EXTENDS Naturals, Sequences

CONSTANTS
    Events,      \* events with their routing: items of publish
    ChunkSize    \* chunkSize

ASSUME PublisherAssumption == ChunkSize \in Nat \ {0}

VARIABLES
    batch,     \* the items of the latest publish
    index,     \* how many of them earlier chunks held
    out,       \* events of the batch that EventBridge has accepted
    verdict    \* "pending" until publish returns, "ok", or throws, "error"

publisher == <<batch, index, out, verdict>>

\* The events at some positions of the batch.
EventsAt(positions) == {batch[i] : i \in positions}

\* batch.slice(index, index + chunkSize), as positions of the batch.
ChunkShortByOne == {i \in DOMAIN batch : index < i /\ i < index + ChunkSize}

Chunk == {i \in DOMAIN batch : index < i /\ i <= index + ChunkSize}

\* publish: a batch without items returns before the first request.
Publish(items) ==
    /\ verdict # "pending"
    /\ batch' = items
    /\ index' = 0
    /\ out' = {}
    /\ verdict' = IF items = <<>> THEN "ok" ELSE "pending"

\* Each run makes a publisher of its own; what the last one did is not kept.
Discard == Publish(<<>>)

\* One PutEvents request, of which EventBridge accepts some entries:
\* FailedEntryCount is the number of the others.
PutEvents ==
    /\ verdict = "pending"
    /\ \E accepted \in SUBSET Chunk :
        /\ out' = out \cup EventsAt(accepted)
        /\ IF accepted = Chunk
           THEN /\ index' = index + ChunkSize
                /\ verdict' = IF index' >= Len(batch) THEN "ok" ELSE "pending"
           ELSE /\ verdict' = "error"
                /\ UNCHANGED index
    /\ UNCHANGED batch

\* The request throws or the process ends, whatever of the chunk was accepted.
CutOff ==
    /\ verdict = "pending"
    /\ \E accepted \in SUBSET Chunk : out' = out \cup EventsAt(accepted)
    /\ verdict' = "error"
    /\ UNCHANGED <<batch, index>>

NothingPublished ==
    /\ batch = <<>>
    /\ index = 0
    /\ out = {}
    /\ verdict = "ok"

PublisherNext ==
    \/ \E items \in Seq(Events) : Publish(items)
    \/ PutEvents
    \/ CutOff

PublisherSpec == NothingPublished /\ [][PublisherNext]_publisher

-----------------------------------------------------------------------------
(* Properties.                                                             *)

PublisherTypeOK ==
    /\ batch \in Seq(Events)
    /\ index \in Nat
    /\ out \subseteq Events
    /\ verdict \in {"pending", "ok", "error"}

AsOutbox == INSTANCE Outbox WITH handed <- EventsAt(DOMAIN batch)

\* The publisher keeps the promise of DomainEventPublisher: when publish returns,
\* every event of the batch has been accepted by the bus, over however many chunks
\* and of whatever size the last one is, and nothing else has.
KeepsOutboxPromise == AsOutbox!Spec

=============================================================================
