--------------------------- MODULE WebhookDelivery ---------------------------
(***************************************************************************)
(* Delivery of the outbox: dispatch_webhook in services/webhooks.py. A     *)
(* dispatch claims its event under a lease with one UPDATE, loads the row, *)
(* calls the receiver outside any transaction, and records the attempt on  *)
(* the row it had loaded.                                                  *)
(***************************************************************************)
EXTENDS WebhookConsumer, FiniteSets

CONSTANTS
    Dispatchers,    \* dispatches that may be in progress at once
    Endpoints,      \* deliveries from outside (POST /webhook-consumer)
    MaxAttempts,    \* MAX_DELIVERY_ATTEMPTS (3)
    RetryDelays,    \* RETRY_DELAYS_SECONDS (1, 5)
    LeaseSeconds,   \* DELIVERY_LEASE_SECONDS (30)
    MaxTime         \* the bound of the clock

ASSUME DeliveryAssumption ==
    /\ Consumers = Dispatchers \cup Endpoints /\ Dispatchers \cap Endpoints = {}
    /\ None \notin Dispatchers /\ None \notin Nat
    /\ MaxAttempts \in Nat \ {0}
    /\ RetryDelays \in [1..(MaxAttempts - 1) -> Nat]
    /\ LeaseSeconds \in Nat
    /\ MaxTime \in Nat

VARIABLES
    outbox,       \* webhook_events of the payment, by version
    attempts,     \* the outcomes of each event's webhook_delivery_attempts
    dispatching,  \* the dispatch in each slot, or None
    now           \* the clock

deliveryVars == <<outbox, attempts, dispatching>>

vars == <<consumerVars, deliveryVars, now>>

WebhookStatuses == {"PENDING", "PROCESSING", "DELIVERED", "EXHAUSTED"}

\* The lease token is fresh for each dispatch; the slot of the one dispatch
\* that holds it, if any still does, stands for it.
WebhookEvent ==
    [status: WebhookStatuses, attempt_count: Nat, next_attempt_at: Nat,
     lease_token: Dispatchers \cup {None}, lease_expires_at: Nat \cup {None}]

\* `at` is the clock read when the dispatch was asked for.
Dispatch ==
    [event: DOMAIN History, at: Nat,
     step: {"claim", "load", "send", "receiver", "succeeded", "failed"},
     copy: WebhookEvent \cup {None}]

----------------------------------------------------------------------------
\* A payment transaction publishes the next version.
create_outbox_event ==
    /\ Len(outbox) < Len(History)
    /\ outbox' = Append(outbox,
                    [status |-> "PENDING", attempt_count |-> 0,
                     next_attempt_at |-> now, lease_token |-> None,
                     lease_expires_at |-> None])
    /\ attempts' = Append(attempts, <<>>)
    /\ UNCHANGED <<consumerVars, dispatching, now>>

Ask(d, event) ==
    /\ dispatching[d] = None
    /\ dispatching' = [dispatching EXCEPT ![d] =
          [event |-> event, at |-> now, step |-> "claim", copy |-> None]]
    /\ UNCHANGED <<consumerVars, outbox, attempts, now>>

Dispatching(d, step) == dispatching[d] # None /\ dispatching[d].step = step

Steps(d, step) == dispatching' = [dispatching EXCEPT ![d].step = step]

Stops(d) == dispatching' = [dispatching EXCEPT ![d] = None]

Ready_NeverReclaimed(d) ==
    LET row == outbox[dispatching[d].event]
    IN  row.status = "PENDING" /\ row.next_attempt_at <= dispatching[d].at

Ready(d) ==
    LET row == outbox[dispatching[d].event]
    IN  \/ row.status = "PENDING" /\ row.next_attempt_at <= dispatching[d].at
        \/ row.status = "PROCESSING" /\ row.lease_expires_at <= dispatching[d].at

Claim(d) ==
    /\ Dispatching(d, "claim")
    /\ Ready(d)
    /\ outbox' = [outbox EXCEPT ![dispatching[d].event] =
          [@ EXCEPT !.status = "PROCESSING", !.lease_token = d,
                    !.lease_expires_at = dispatching[d].at + LeaseSeconds]]
    /\ Steps(d, "load")
    /\ UNCHANGED <<consumerVars, attempts, now>>

NotReady(d) ==
    /\ Dispatching(d, "claim")
    /\ ~Ready(d)
    /\ Stops(d)
    /\ UNCHANGED <<consumerVars, outbox, attempts, now>>

LoadEvent(d) ==
    /\ Dispatching(d, "load")
    /\ dispatching' = [dispatching EXCEPT ![d].step = "send",
                          ![d].copy = outbox[dispatching[d].event]]
    /\ UNCHANGED <<consumerVars, outbox, attempts, now>>

Send(d) ==
    /\ Dispatching(d, "send")
    /\ Receive(d, dispatching[d].event)
    /\ Steps(d, "receiver")
    /\ UNCHANGED <<inbox, projection, outbox, attempts, now>>

\* No connection, a timeout before the consumer, an HTTP error.
NotSent(d) ==
    /\ Dispatching(d, "send")
    /\ Steps(d, "failed")
    /\ UNCHANGED <<consumerVars, outbox, attempts, now>>

\* The acknowledgement arrives, or is lost.
Acknowledged(d) ==
    /\ Dispatching(d, "receiver")
    /\ At(d, "accepted")
    /\ \E step \in {"succeeded", "failed"} : Steps(d, step)
    /\ consuming' = [consuming EXCEPT ![d] = None]
    /\ UNCHANGED <<inbox, projection, outbox, attempts, now>>

\* The receiver raises something else, which leaves dispatch_webhook too.
ReceiverRaised(d) ==
    /\ Dispatching(d, "receiver")
    /\ At(d, "raised")
    /\ Stops(d)
    /\ consuming' = [consuming EXCEPT ![d] = None]
    /\ UNCHANGED <<inbox, projection, outbox, attempts, now>>

Resulted(d) == Dispatching(d, "succeeded") \/ Dispatching(d, "failed")

finalized(d) ==
    LET copy == dispatching[d].copy
        succeeded == dispatching[d].step = "succeeded"
        number == copy.attempt_count + 1
        retried == ~succeeded /\ number < MaxAttempts
    IN  [status |-> IF succeeded THEN "DELIVERED"
                    ELSE IF retried THEN "PENDING" ELSE "EXHAUSTED",
         attempt_count |-> number,
         next_attempt_at |-> dispatching[d].at
                             + IF retried THEN RetryDelays[number] ELSE 0,
         lease_token |-> None, lease_expires_at |-> None]

Admitted_NumberUnchecked(d) == dispatching[d].copy.lease_token = d

\* The lease is checked on the loaded copy; the number of the attempt is
\* unique for its event (uq_delivery_event_attempt).
Admitted(d) ==
    /\ dispatching[d].copy.lease_token = d
    /\ dispatching[d].copy.attempt_count + 1 \notin
          DOMAIN attempts[dispatching[d].event]

Finalize(d) ==
    LET event == dispatching[d].event
    IN  /\ Resulted(d)
        /\ Admitted(d)
        /\ outbox' = [outbox EXCEPT ![event] = finalized(d)]
        /\ attempts' = [attempts EXCEPT ![event] = Append(@, dispatching[d].step)]
        /\ Stops(d)
        /\ UNCHANGED <<consumerVars, now>>

NotFinalized(d) ==
    /\ Resulted(d)
    /\ ~Admitted(d)
    /\ Stops(d)
    /\ UNCHANGED <<consumerVars, outbox, attempts, now>>

\* The process stops at any step from the claim on; a transaction in progress
\* rolls back. One that stops earlier has done as much as one never asked for.
Crash(d) ==
    /\ dispatching[d] # None
    /\ dispatching[d].step # "claim"
    /\ Stops(d)
    /\ consuming' = [consuming EXCEPT ![d] = None]
    /\ UNCHANGED <<inbox, projection, outbox, attempts, now>>

----------------------------------------------------------------------------
\* A signed delivery from outside, and its end.
Deliver(c, event) ==
    /\ consuming[c] = None
    /\ Receive(c, event)
    /\ UNCHANGED <<inbox, projection, deliveryVars, now>>

Answer(c) ==
    /\ At(c, "accepted") \/ At(c, "raised")
    /\ consuming' = [consuming EXCEPT ![c] = None]
    /\ UNCHANGED <<inbox, projection, deliveryVars, now>>

Tick ==
    /\ now < MaxTime
    /\ now' = now + 1
    /\ UNCHANGED <<consumerVars, deliveryVars>>

Init ==
    /\ ConsumerInit
    /\ outbox = <<>>
    /\ attempts = <<>>
    /\ dispatching = [d \in Dispatchers |-> None]
    /\ now = 0

\* The step that ends a dispatch, or brings it closer to its end.
Advance(d) ==
    \/ Claim(d) \/ NotReady(d) \/ LoadEvent(d)
    \/ Send(d) \/ NotSent(d) \/ Acknowledged(d) \/ ReceiverRaised(d)
    \/ Finalize(d) \/ NotFinalized(d)

Next ==
    \/ create_outbox_event
    \/ \E d \in Dispatchers :
         \/ \E event \in DOMAIN outbox : Ask(d, event)
         \/ Advance(d)
         \/ Crash(d)
    \/ \E c \in Endpoints :
         \/ \E event \in DOMAIN outbox : Deliver(c, event)
         \/ Answer(c)
    \/ ConsumerNext /\ UNCHANGED <<deliveryVars, now>>
    \/ Tick

Spec == Init /\ [][Next]_vars

\* What is done for one event.
For(d, event) == dispatching[d] # None /\ dispatching[d].event = event

\* Nothing in the service dispatches unattended. Progress is promised on the
\* operator's word that time passes and that each event is asked for again and
\* again, and if its dispatches are not all stopped at the same point: one that
\* is claimed again and again is loaded, one that is sent again and again gets a
\* result (any answer, or none, but not every time an exception of the
\* receiver's that leaves no attempt), and one with a result is finalized.
Fairness ==
    /\ WF_vars(Tick)
    /\ \A d \in Dispatchers :
         /\ WF_vars(Advance(d))
         /\ WF_vars(Consume(d) /\ UNCHANGED <<deliveryVars, now>>)
    /\ \A event \in DOMAIN History :
         /\ SF_vars(event \in DOMAIN outbox /\ \E d \in Dispatchers : Ask(d, event))
         /\ \A d \in Dispatchers :
              /\ SF_vars(For(d, event) /\ LoadEvent(d))
              /\ SF_vars(For(d, event) /\ (NotSent(d) \/ Acknowledged(d)))
              /\ SF_vars(For(d, event) /\ Finalize(d))

----------------------------------------------------------------------------
(* Type invariant.                                                         *)

\* Every column has its declared type, and every slot its place in the code.
TypeOK ==
    /\ DOMAIN inbox \subseteq DOMAIN outbox
    /\ inbox \in [DOMAIN inbox -> ProcessedWebhook]
    /\ projection \in Projection \cup {None}
    /\ consuming \in [Consumers -> Consumption \cup {None}]
    /\ outbox \in Seq(WebhookEvent) /\ Len(outbox) <= Len(History)
    /\ attempts \in Seq(Seq({"succeeded", "failed"}))
    /\ dispatching \in [Dispatchers -> Dispatch \cup {None}]
    /\ now \in Nat

----------------------------------------------------------------------------
(* Delivery.                                                               *)

\* However many dispatches hold an event at once, its attempts are numbered
\* without gaps up to the limit, and its state is what they amount to: a
\* success is the last attempt, and only failures use the attempts up.
AttemptsExplainStatus ==
    /\ DOMAIN attempts = DOMAIN outbox
    /\ \A e \in DOMAIN outbox :
         LET row == outbox[e]
             outcomes == attempts[e]
             last == Len(outcomes)
         IN  /\ row.attempt_count = last /\ last <= MaxAttempts
             /\ \A n \in 1..last : outcomes[n] = "succeeded" => n = last
             /\ row.status = "DELIVERED" <=> last > 0 /\ outcomes[last] = "succeeded"
             /\ row.status = "EXHAUSTED" <=>
                  last = MaxAttempts /\ outcomes[last] = "failed"
             /\ row.status = "PROCESSING" <=> row.lease_token # None

\* The producer believes an event delivered only if the merchant has stored it,
\* and the merchant's view shows only what it has stored.
DeliveredIsProcessed ==
    /\ \A e \in DOMAIN outbox :
         outbox[e].status = "DELIVERED" => e \in DOMAIN inbox
    /\ projection = None <=> DOMAIN inbox = {}
    /\ projection # None =>
         /\ projection.aggregate_version \in DOMAIN inbox
         /\ inbox[projection.aggregate_version].disposition = "APPLIED"
         /\ \A k \in Columns : \E e \in DOMAIN inbox :
              /\ inbox[e].disposition = "APPLIED"
              /\ projection.columns[k] = History[e][k]

\* webhook-delivery.md: "An atomic lease allows one dispatcher to own an active
\* attempt." While its lease lasts, the row says so. _finalize_delivery checks
\* the lease on the row its session had loaded.
ActiveAttemptIsOwned ==
    \A d \in Dispatchers :
        dispatching[d] # None =>
            LET copy == dispatching[d].copy
            IN  copy # None /\ copy.lease_token = d /\ now < copy.lease_expires_at
                  => outbox[dispatching[d].event].lease_token = d

Settled(e) == outbox[e].status \in {"DELIVERED", "EXHAUSTED"}

\* No event is stuck: dispatches that stop in the middle leave a lease that runs
\* out, failures leave a time for the next attempt, and an event that is asked
\* for again and again ends delivered or exhausted, if its dispatches are not
\* all stopped at the same point.
EventsSettle ==
    \A e \in DOMAIN History :
        e \in DOMAIN outbox ~> e \in DOMAIN outbox /\ Settled(e)

----------------------------------------------------------------------------
(* Consumption.                                                            *)

\* A delivery is answered with success only if its event is in the inbox, also
\* when others bring the same event, or create or replace the projection,
\* between its look-up, its read of the projection and its write.
AcceptedIsStored == \A c \in Consumers : At(c, "accepted") => Processed(c)

\* One delivery at a time: whatever the order, the losses and the repetitions,
\* the merchant sees exactly the newest version it has processed.
ProjectionIsNewestProcessed ==
    /\ projection = None <=> DOMAIN inbox = {}
    /\ projection # None =>
         /\ projection.aggregate_version \in DOMAIN inbox
         /\ \A e \in DOMAIN inbox : e <= projection.aggregate_version
         /\ projection.columns = History[projection.aggregate_version]

\* One delivery at a time: an applied event shows a gap exactly when the
\* version before it was never applied.
GapsAreVisible ==
    \A e \in DOMAIN inbox :
        inbox[e].version_gap <=>
            /\ inbox[e].disposition = "APPLIED"
            /\ e > 1
            /\ ~(e - 1 \in DOMAIN inbox /\ inbox[e - 1].disposition = "APPLIED")

\* webhook-delivery.md: "A lower version is stored as stale and cannot replace
\* newer state." consume_webhook decides on a projection read before its
\* transaction.
ProjectionNeverRegresses ==
    [][projection # None =>
         projection'.aggregate_version >= projection.aggregate_version]_vars
=============================================================================
