----------------------------- MODULE EventDelivery -----------------------------
(***************************************************************************)
(* What the telemetry pipeline promises, without tasks, queues, requests   *)
(* and workers: an event recorded waits in the buffer until everything in  *)
(* there departs as one batch; a batch is settled once and as a whole; and *)
(* what has departed, nothing else, may get stored, once, as long as the   *)
(* run exists.  Whether it was settled before, and as what, says nothing   *)
(* about that.  TelemetryPipeline implements it.                           *)
(***************************************************************************)
EXTENDS Naturals

CONSTANT Events

VARIABLES
    buffered,  \* the events that wait
    flights,   \* the batches on their way
    settled,   \* what became of the others, for the launcher
    stored,    \* the events of the run in the database
    deleted    \* the run is deleted

vars == <<buffered, flights, settled, stored, deleted>>

Outcomes == {"sent", "dropped", "abandoned"}

Departed == (UNION flights) \cup (UNION {settled[outcome] : outcome \in Outcomes})

Record(e) ==
    /\ e \notin buffered \cup Departed
    /\ buffered' = buffered \cup {e}
    /\ UNCHANGED <<flights, settled, stored, deleted>>

Depart ==
    /\ buffered # {}
    /\ flights' = flights \cup {buffered}
    /\ buffered' = {}
    /\ UNCHANGED <<settled, stored, deleted>>

Settles(batch, outcome) ==
    /\ batch \in flights
    /\ flights' = flights \ {batch}
    /\ settled' = [settled EXCEPT ![outcome] = @ \cup batch]

Stores(chunk) ==
    /\ ~deleted
    /\ chunk \subseteq Departed \ stored
    /\ stored' = stored \cup chunk

Settle(batch, outcome) ==
    Settles(batch, outcome) /\ UNCHANGED <<buffered, stored, deleted>>

(* A chunk has events of several batches, or a part of one.                *)
Store(chunk) ==
    Stores(chunk) /\ UNCHANGED <<buffered, flights, settled, deleted>>

(* The batch is stored and the launcher gets to know of it.                *)
Acknowledge(batch) ==
    Settles(batch, "sent") /\ Stores(batch) /\ UNCHANGED <<buffered, deleted>>

Delete ==
    /\ ~deleted /\ deleted' = TRUE
    /\ stored' = {}
    /\ UNCHANGED <<buffered, flights, settled>>

Init ==
    /\ buffered = {} /\ flights = {}
    /\ settled = [outcome \in Outcomes |-> {}]
    /\ stored = {} /\ deleted = FALSE

Next ==
    \/ \E e \in Events : Record(e)
    \/ Depart
    \/ \E batch \in flights : Acknowledge(batch) \/ \E outcome \in Outcomes : Settle(batch, outcome)
    \/ \E chunk \in SUBSET Departed : Store(chunk)
    \/ Delete

Spec == Init /\ [][Next]_vars
=============================================================================
