--------------------------- MODULE WebhookConsumer ---------------------------
(***************************************************************************)
(* The merchant's side of webhooks: consume_webhook in services/webhooks.py*)
(* for the events of one payment (events of other payments touch other     *)
(* rows). An event is named by its aggregate_version, which is unique in   *)
(* the outbox; its payload is the payment's row of that version.           *)
(*                                                                         *)
(* A consumption reads the inbox, reads the projection, and then writes    *)
(* both in one transaction. Only the write holds the writer reservation:   *)
(* other consumptions commit between the reads and the write.              *)
(***************************************************************************)
EXTENDS Integers, Sequences

CONSTANTS
    Columns,    \* the columns of a merchant projection
    Values,     \* what a column may hold
    History,    \* the row of each version of the payment
    Consumers,  \* consumptions that may be in progress at once
    None        \* SQL NULL

ASSUME HistoryAssumption == History \in Seq([Columns -> Values])

VARIABLES
    inbox,       \* processed_webhooks: event -> row
    projection,  \* merchant_payment_projections: the payment's row, or None
    consuming    \* the consumption in each slot, or None

consumerVars == <<inbox, projection, consuming>>

Projection == [columns: [Columns -> Values], aggregate_version: Nat \ {0}]

ASSUME NullAssumption == None \notin Projection

Dispositions == {"APPLIED", "STALE", "REDUNDANT"}

ProcessedWebhook == [disposition: Dispositions, version_gap: BOOLEAN]

\* A consumption that ended has been accepted, or has raised.
Consumption ==
    [event: DOMAIN History,
     step: {"look_up", "load", "store", "accepted", "raised"},
     loaded: Projection \cup {None}]

----------------------------------------------------------------------------
Receive(c, event) ==
    consuming' = [consuming EXCEPT ![c] =
                     [event |-> event, step |-> "look_up", loaded |-> None]]

At(c, step) == consuming[c] # None /\ consuming[c].step = step

Processed(c) == consuming[c].event \in DOMAIN inbox

Ends(c, step) == consuming' = [consuming EXCEPT ![c].step = step]

\* An event that the inbox knows is a duplicate, which is a success.
LookUp(c) ==
    /\ At(c, "look_up")
    /\ Ends(c, IF Processed(c) THEN "accepted" ELSE "load")
    /\ UNCHANGED <<inbox, projection>>

Load(c) ==
    /\ At(c, "load")
    /\ consuming' = [consuming EXCEPT ![c].step = "store", ![c].loaded = projection]
    /\ UNCHANGED <<inbox, projection>>

disposition_AlwaysApplied(event, loaded) == "APPLIED"

disposition_StaleAsDuplicate(event, loaded) ==
    IF loaded = None \/ event > loaded.aggregate_version THEN "APPLIED"
    ELSE "DUPLICATE"

\* One version, one content: anything else is a WebhookVersionConflictError.
projection_matches(event, loaded) == loaded.columns = History[event]

disposition(event, loaded) ==
    IF loaded = None THEN "APPLIED"
    ELSE IF event > loaded.aggregate_version THEN "APPLIED"
    ELSE IF event < loaded.aggregate_version THEN "STALE"
    ELSE IF projection_matches(event, loaded) THEN "REDUNDANT"
    ELSE "CONFLICT"

version_gap_FromFirst(event, loaded) == event > 1

version_gap(event, loaded) ==
    LET last == IF loaded = None THEN 0 ELSE loaded.aggregate_version
    IN  event > last + 1

\* _apply_projection assigns every column, and the UPDATE it leads to writes
\* the columns that differ from the row the session had loaded.
apply_projection(event, loaded) ==
    [columns |-> [k \in Columns |->
                    IF loaded = None \/ History[event][k] # loaded.columns[k]
                    THEN History[event][k] ELSE projection.columns[k]],
     aggregate_version |-> event]

\* Same version, other content. It can happen: two overlapping updates leave a
\* projection that is of neither version, and a repeat then conflicts with it.
Conflicts(c) ==
    disposition(consuming[c].event, consuming[c].loaded) = "CONFLICT"

Store(c) ==
    LET event == consuming[c].event
        loaded == consuming[c].loaded
    IN  /\ At(c, "store")
        /\ ~Conflicts(c)
        /\ ~Processed(c)
        /\ loaded = None => projection = None
        /\ projection' = IF disposition(event, loaded) = "APPLIED"
                         THEN apply_projection(event, loaded) ELSE projection
        /\ inbox' = [e \in DOMAIN inbox \cup {event} |->
                       IF e = event
                       THEN [disposition |-> disposition(event, loaded),
                             version_gap |-> disposition(event, loaded) = "APPLIED"
                                             /\ version_gap(event, loaded)]
                       ELSE inbox[e]]
        /\ Ends(c, "accepted")

Collide_Accepted(c) ==
    /\ At(c, "store")
    /\ ~Conflicts(c)
    /\ Processed(c) \/ (consuming[c].loaded = None /\ projection # None)
    /\ Ends(c, "accepted")
    /\ UNCHANGED <<inbox, projection>>

\* IntegrityError: somebody else stored the event (a duplicate, accepted) or
\* created the projection (ConcurrentWebhookConsumerError) since the look-up.
Collide(c) ==
    /\ At(c, "store")
    /\ ~Conflicts(c)
    /\ Processed(c) \/ (consuming[c].loaded = None /\ projection # None)
    /\ Ends(c, IF Processed(c) THEN "accepted" ELSE "raised")
    /\ UNCHANGED <<inbox, projection>>

\* A WebhookVersionConflictError, before anything is written; or the
\* consumer's transaction fails, and rolls back.
Raise(c) ==
    /\ At(c, "store")
    /\ Ends(c, "raised")
    /\ UNCHANGED <<inbox, projection>>

----------------------------------------------------------------------------
ConsumerInit ==
    /\ inbox = [e \in {} |-> None]
    /\ projection = None
    /\ consuming = [c \in Consumers |-> None]

Consume(c) ==
    \/ LookUp(c) \/ Load(c)
    \/ Store(c) \/ Collide(c) \/ Raise(c)

ConsumerNext == \E c \in Consumers : Consume(c)
=============================================================================
