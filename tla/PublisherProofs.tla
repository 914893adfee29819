---------------------------- MODULE PublisherProofs ----------------------------
(***************************************************************************)
(* The publisher keeps the promise of Outbox for every chunk size and every *)
(* batch.                                                                  *)
(***************************************************************************)
EXTENDS Publisher, TLAPS

\* Positions that earlier chunks held.
Behind == {i \in DOMAIN batch : i <= index}

\* While a batch is under way, chunks that are behind are out, in full, and there is
\* something left; what is out belongs to the batch.
Progress ==
    /\ verdict = "pending" => EventsAt(Behind) \subseteq out /\ index < Len(batch)
    /\ out \subseteq EventsAt(DOMAIN batch)
    /\ verdict = "ok" => out = EventsAt(DOMAIN batch)

PublisherInv == PublisherTypeOK /\ Progress

-----------------------------------------------------------------------------

LEMMA EventsInBatch ==
    ASSUME PublisherTypeOK, NEW S \in SUBSET DOMAIN batch
    PROVE  EventsAt(S) \subseteq EventsAt(DOMAIN batch) /\ EventsAt(S) \subseteq Events
BY DEF PublisherTypeOK, EventsAt

\* With the chunk at hand, everything up to the next index is out; after the last
\* chunk that is everything.
LEMMA ChunkAdvances ==
    ASSUME PublisherTypeOK, PublisherAssumption,
           EventsAt(Behind) \subseteq out
    PROVE  EventsAt({i \in DOMAIN batch : i <= index + ChunkSize}) \subseteq out \cup EventsAt(Chunk)
BY DEF PublisherTypeOK, PublisherAssumption, EventsAt, Behind, Chunk

LEMMA LastChunk ==
    ASSUME PublisherTypeOK, PublisherAssumption, index + ChunkSize >= Len(batch)
    PROVE  {i \in DOMAIN batch : i <= index + ChunkSize} = DOMAIN batch
<1>1. DOMAIN batch = 1 .. Len(batch) /\ Len(batch) \in Nat
  BY DEF PublisherTypeOK
<1> QED
  BY <1>1 DEF PublisherTypeOK, PublisherAssumption

LEMMA PublisherStarts == NothingPublished => PublisherInv
<1> SUFFICES ASSUME NothingPublished PROVE PublisherInv
  OBVIOUS
<1> USE DEF NothingPublished
<1>1. PublisherTypeOK
  BY DEF PublisherTypeOK
<1>2. Progress
  BY DEF Progress, EventsAt
<1> QED
  BY <1>1, <1>2 DEF PublisherInv

LEMMA PublishKeeps ==
    ASSUME PublisherInv, NEW items \in Seq(Events), Publish(items)
    PROVE  PublisherInv'
<1> USE DEF PublisherInv, Publish
<1>1. PublisherTypeOK'
  BY DEF PublisherTypeOK
<1>2. Progress'
  <2>1. items # <<>> => 0 < Len(items)
    OBVIOUS
  <2>2. items = <<>> => EventsAt(DOMAIN batch)' = {}
    BY DEF EventsAt
  <2>3. EventsAt(Behind)' = {}
    BY DEF EventsAt, Behind
  <2> QED
    BY <2>1, <2>2, <2>3 DEF Progress
<1> QED
  BY <1>1, <1>2

LEMMA PutEventsKeeps ==
    ASSUME PublisherInv, PutEvents
    PROVE  PublisherInv'
<1> USE PublisherAssumption DEF PublisherInv
<1>1. PICK accepted \in SUBSET Chunk :
        /\ out' = out \cup EventsAt(accepted)
        /\ IF accepted = Chunk
           THEN /\ index' = index + ChunkSize
                /\ verdict' = IF index' >= Len(batch) THEN "ok" ELSE "pending"
           ELSE /\ verdict' = "error"
                /\ UNCHANGED index
  BY DEF PutEvents
<1>2. verdict = "pending" /\ batch' = batch
  BY DEF PutEvents
<1>3. accepted \subseteq DOMAIN batch
  BY DEF Chunk
<1>4. EventsAt(accepted) \subseteq EventsAt(DOMAIN batch) /\ EventsAt(accepted) \subseteq Events
  BY <1>3, EventsInBatch
<1>5. PublisherTypeOK'
  BY <1>1, <1>2, <1>4 DEF PublisherTypeOK, PublisherAssumption
<1>6. EventsAt(DOMAIN batch)' = EventsAt(DOMAIN batch)
  BY <1>2 DEF EventsAt
<1>7. out' \subseteq EventsAt(DOMAIN batch)
  BY <1>1, <1>4 DEF Progress
<1>8. CASE accepted = Chunk
  <2>1. EventsAt({i \in DOMAIN batch : i <= index + ChunkSize}) \subseteq out'
    BY <1>1, <1>2, <1>8, ChunkAdvances DEF Progress
  <2>2. EventsAt(Behind)' = EventsAt({i \in DOMAIN batch : i <= index + ChunkSize})
    BY <1>1, <1>2, <1>8 DEF EventsAt, Behind
  <2>3. index' >= Len(batch) => out' = EventsAt(DOMAIN batch)
    BY <1>1, <1>7, <1>8, <2>1, LastChunk
  <2>4. ~ (index' >= Len(batch)) => index' < Len(batch)
    BY <1>1, <1>8 DEF PublisherTypeOK, PublisherAssumption
  <2> QED
    BY <1>1, <1>2, <1>5, <1>6, <1>7, <1>8, <2>1, <2>2, <2>3, <2>4 DEF Progress
<1>9. CASE accepted # Chunk
  BY <1>1, <1>5, <1>6, <1>7, <1>9 DEF Progress
<1> QED
  BY <1>8, <1>9

LEMMA CutOffKeeps ==
    ASSUME PublisherInv, CutOff
    PROVE  PublisherInv'
<1> USE DEF PublisherInv
<1>1. PICK accepted \in SUBSET Chunk : out' = out \cup EventsAt(accepted)
  BY DEF CutOff
<1>2. verdict' = "error" /\ UNCHANGED <<batch, index>>
  BY DEF CutOff
<1>3. EventsAt(accepted) \subseteq EventsAt(DOMAIN batch) /\ EventsAt(accepted) \subseteq Events
  BY <1>1, EventsInBatch DEF Chunk
<1>4. PublisherTypeOK'
  BY <1>1, <1>2, <1>3 DEF PublisherTypeOK
<1>5. EventsAt(DOMAIN batch)' = EventsAt(DOMAIN batch)
  BY <1>2 DEF EventsAt
<1> QED
  BY <1>1, <1>2, <1>3, <1>4, <1>5 DEF Progress

LEMMA PublisherSteps == PublisherInv /\ [PublisherNext]_publisher => PublisherInv'
<1> SUFFICES ASSUME PublisherInv, [PublisherNext]_publisher PROVE PublisherInv'
  OBVIOUS
<1>1. CASE PublisherNext
  BY <1>1, PublishKeeps, PutEventsKeeps, CutOffKeeps DEF PublisherNext
<1>2. CASE UNCHANGED publisher
  BY <1>2 DEF publisher, PublisherInv, PublisherTypeOK, Progress, EventsAt, Behind
<1> QED
  BY <1>1, <1>2

\* Every state of the publisher has the invariant.
THEOREM PublisherInvariant == PublisherSpec => []PublisherInv
BY PublisherStarts, PublisherSteps, PTL DEF PublisherSpec

-----------------------------------------------------------------------------
(* Every step of the publisher is one of Outbox, or none.                  *)

LEMMA InitRefines == NothingPublished => AsOutbox!Init
BY DEF NothingPublished, AsOutbox!Init, EventsAt

LEMMA PublishRefines ==
    ASSUME PublisherInv, NEW items \in Seq(Events), Publish(items)
    PROVE  AsOutbox!Hand
<1>1. EventsAt(DOMAIN batch)' \in SUBSET Events
  <2>1. PublisherInv'
    BY PublishKeeps
  <2> QED
    BY <2>1 DEF PublisherInv, PublisherTypeOK, EventsAt
<1>2. items = <<>> => EventsAt(DOMAIN batch)' = {}
  BY DEF Publish, EventsAt
<1> QED
  BY <1>1, <1>2 DEF AsOutbox!Hand, Publish

LEMMA PutEventsRefines ==
    ASSUME PublisherInv, PutEvents
    PROVE  AsOutbox!Send
<1>1. PublisherInv'
  BY PutEventsKeeps
<1>2. batch' = batch /\ verdict = "pending" /\ out \subseteq out'
  BY DEF PutEvents
<1>3. EventsAt(DOMAIN batch)' = EventsAt(DOMAIN batch)
  BY <1>2 DEF EventsAt
<1> QED
  BY <1>1, <1>2, <1>3 DEF AsOutbox!Send, AsOutbox!Verdicts, PublisherInv, PublisherTypeOK, Progress

LEMMA CutOffRefines ==
    ASSUME PublisherInv, CutOff
    PROVE  AsOutbox!Send
<1>1. PublisherInv'
  BY CutOffKeeps
<1>2. batch' = batch /\ verdict = "pending" /\ verdict' = "error" /\ out \subseteq out'
  BY DEF CutOff
<1>3. EventsAt(DOMAIN batch)' = EventsAt(DOMAIN batch)
  BY <1>2 DEF EventsAt
<1> QED
  BY <1>1, <1>2, <1>3 DEF AsOutbox!Send, AsOutbox!Verdicts, PublisherInv, Progress

LEMMA NextRefines ==
    PublisherInv /\ [PublisherNext]_publisher => [AsOutbox!Next]_(AsOutbox!vars)
<1> SUFFICES ASSUME PublisherInv, [PublisherNext]_publisher
             PROVE  [AsOutbox!Next]_(AsOutbox!vars)
  OBVIOUS
<1>1. CASE PublisherNext
  BY <1>1, PublishRefines, PutEventsRefines, CutOffRefines DEF PublisherNext, AsOutbox!Next
<1>2. CASE UNCHANGED publisher
  BY <1>2 DEF publisher, AsOutbox!vars, EventsAt
<1> QED
  BY <1>1, <1>2

\* The publisher keeps its promise whatever the size of a chunk, the length of a batch
\* and the entries EventBridge refuses (KeepsOutboxPromise).
THEOREM PromiseKept == PublisherSpec => KeepsOutboxPromise
<1>1. PublisherSpec => []PublisherInv
  BY PublisherInvariant
<1> QED
  BY <1>1, InitRefines, NextRefines, PTL DEF PublisherSpec, KeepsOutboxPromise, AsOutbox!Spec

=============================================================================
