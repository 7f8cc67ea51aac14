----------------------- MODULE WebhookDelivery_proofs -----------------------
(***************************************************************************)
(* Theorems about WebhookDelivery for every value of its constants: any    *)
(* number of dispatches, deliveries, versions and attempts.                *)
(***************************************************************************)
EXTENDS WebhookDelivery, TLAPS

----------------------------------------------------------------------------
(* Types.                                                                  *)

\* From the send on, a dispatch has a copy of the row.
HasCopy(work) == work.step \in {"send", "receiver", "succeeded", "failed"}

\* What a dispatch may hold: an event that the outbox has.
DispatchFits(work) ==
    work # None =>
        /\ work \in Dispatch
        /\ work.event \in DOMAIN outbox
        /\ HasCopy(work) => work.copy \in WebhookEvent

\* What a consumption may hold; a projection that was loaded is still there.
ConsumptionFits(job) ==
    job # None =>
        /\ job \in Consumption
        /\ job.event \in DOMAIN outbox
        /\ job.loaded # None => projection \in Projection

Types ==
    /\ TypeOK
    /\ \A d \in Dispatchers : DispatchFits(dispatching[d])
    /\ \A c \in Consumers : ConsumptionFits(consuming[c])

LEMMA Slots ==
    /\ Dispatchers \subseteq Consumers /\ Endpoints \subseteq Consumers
    /\ None \notin Dispatchers
    /\ \A e \in DOMAIN History : History[e] \in [Columns -> Values]
    /\ \A e \in DOMAIN History : e \in Nat \ {0}
    /\ DOMAIN History = 1..Len(History) /\ Len(History) \in Nat
BY DeliveryAssumption, HistoryAssumption

\* The outbox has a part of the history, and each of its rows is one.
LEMMA OutboxRows ==
    ASSUME TypeOK
    PROVE  /\ DOMAIN outbox = 1..Len(outbox) /\ Len(outbox) \in Nat
           /\ DOMAIN outbox \subseteq DOMAIN History
           /\ \A e \in DOMAIN outbox : outbox[e] \in WebhookEvent
BY Slots DEF TypeOK

LEMMA InitTypes ==
    ASSUME Init
    PROVE  Types
<1>1. TypeOK
  BY HistoryAssumption DEF Init, ConsumerInit, TypeOK
<1> QED
  BY <1>1, DeliveryAssumption
     DEF Init, ConsumerInit, Types, DispatchFits, ConsumptionFits

\* A dispatch goes on or stops, and the delivery it makes starts or ends.
LEMMA DispatchStep ==
    ASSUME Types, NEW d \in Dispatchers, NEW work, NEW job,
           UNCHANGED <<inbox, projection, outbox, attempts, now>>,
           dispatching' = [dispatching EXCEPT ![d] = work],
           consuming' = [consuming EXCEPT ![d] = job],
           DispatchFits(work), ConsumptionFits(job)
    PROVE  Types'
<1>1. /\ dispatching \in [Dispatchers -> Dispatch \cup {None}]
      /\ consuming \in [Consumers -> Consumption \cup {None}]
      /\ d \in Consumers
  BY Slots DEF Types, TypeOK
<1>2. /\ dispatching' \in [Dispatchers -> Dispatch \cup {None}]
      /\ dispatching'[d] = work
      /\ \A q \in Dispatchers : q # d => dispatching'[q] = dispatching[q]
  BY <1>1 DEF DispatchFits
<1>3. /\ consuming' \in [Consumers -> Consumption \cup {None}]
      /\ consuming'[d] = job
      /\ \A q \in Consumers : q # d => consuming'[q] = consuming[q]
  BY <1>1 DEF ConsumptionFits
<1>4. TypeOK'
  BY <1>2, <1>3 DEF Types, TypeOK
<1>5. \A q \in Dispatchers : DispatchFits(dispatching[q])'
  BY <1>2 DEF Types, DispatchFits
<1>6. \A q \in Consumers : ConsumptionFits(consuming[q])'
  BY <1>3 DEF Types, ConsumptionFits
<1> QED
  BY <1>4, <1>5, <1>6 DEF Types

\* A consumption goes on, or ends, without writing.
LEMMA ConsumeStep ==
    ASSUME Types, NEW c \in Consumers, NEW job,
           UNCHANGED <<inbox, projection, deliveryVars, now>>,
           consuming' = [consuming EXCEPT ![c] = job],
           ConsumptionFits(job)
    PROVE  Types'
<1>1. consuming \in [Consumers -> Consumption \cup {None}]
  BY DEF Types, TypeOK
<1>2. /\ consuming' \in [Consumers -> Consumption \cup {None}]
      /\ consuming'[c] = job
      /\ \A q \in Consumers : q # c => consuming'[q] = consuming[q]
  BY <1>1 DEF ConsumptionFits
<1>3. UNCHANGED <<outbox, attempts, dispatching>>
  BY DEF deliveryVars
<1>4. TypeOK'
  BY <1>2, <1>3 DEF Types, TypeOK
<1>5. \A q \in Dispatchers : DispatchFits(dispatching[q])'
  BY <1>3 DEF Types, DispatchFits
<1>6. \A q \in Consumers : ConsumptionFits(consuming[q])'
  BY <1>2, <1>3 DEF Types, ConsumptionFits
<1> QED
  BY <1>4, <1>5, <1>6 DEF Types

\* A dispatch that goes on to a step for which it has what it needs.
LEMMA Stepped ==
    ASSUME Types, NEW d \in Dispatchers, dispatching[d] # None,
           NEW step \in {"claim", "load", "send", "receiver", "succeeded", "failed"},
           HasCopy(dispatching[d]) \/ step \in {"claim", "load"}
    PROVE  DispatchFits([dispatching[d] EXCEPT !.step = step])
BY DEF Types, DispatchFits, Dispatch, HasCopy

\* What a slot holds fits, and so does an empty one.
LEMMA Held ==
    ASSUME Types
    PROVE  /\ DispatchFits(None) /\ ConsumptionFits(None)
           /\ \A d \in Dispatchers :
                DispatchFits(dispatching[d]) /\ ConsumptionFits(consuming[d])
BY Slots DEF Types, DispatchFits, ConsumptionFits

LEMMA AskTypes ==
    ASSUME Types, NEW d \in Dispatchers, NEW event \in DOMAIN outbox, Ask(d, event)
    PROVE  Types'
<1> DEFINE work == [event |-> event, at |-> now, step |-> "claim", copy |-> None]
<1>1. /\ UNCHANGED <<inbox, projection, outbox, attempts, now>>
      /\ dispatching' = [dispatching EXCEPT ![d] = work]
      /\ consuming' = [consuming EXCEPT ![d] = consuming[d]]
  BY DEF Ask, consumerVars, Types, TypeOK
<1>2. DispatchFits(work)
  BY OutboxRows DEF DispatchFits, Dispatch, HasCopy, Types, TypeOK
<1> HIDE DEF work
<1> QED
  BY <1>1, <1>2, Held, DispatchStep

\* Loading the row fills in a dispatch's copy.
LEMMA Copied ==
    ASSUME NEW work \in Dispatch, NEW row
    PROVE  [work EXCEPT !.step = "send", !.copy = row] =
             [event |-> work.event, at |-> work.at, step |-> "send", copy |-> row]
<1> DEFINE first == [work EXCEPT !.step = "send"]
<1>1. first = [event |-> work.event, at |-> work.at, step |-> "send",
               copy |-> work.copy]
  BY DEF Dispatch
<1> HIDE DEF first
<1>2. [first EXCEPT !.copy = row] =
        [event |-> work.event, at |-> work.at, step |-> "send", copy |-> row]
  BY <1>1
<1> QED
  BY <1>2 DEF first

LEMMA LoadEventTypes ==
    ASSUME Types, NEW d \in Dispatchers, LoadEvent(d)
    PROVE  Types'
<1> DEFINE held == dispatching[d]
           work == [event |-> held.event, at |-> held.at, step |-> "send",
                    copy |-> outbox[held.event]]
<1>1. /\ held \in Dispatch /\ held.event \in DOMAIN outbox
      /\ dispatching \in [Dispatchers -> Dispatch \cup {None}]
      /\ consuming = [c \in Consumers |-> consuming[c]]
  BY DEF LoadEvent, Dispatching, Types, TypeOK, DispatchFits
<1>2. dispatching' = [dispatching EXCEPT ![d] = work]
  <2>1. dispatching' = [dispatching EXCEPT ![d] =
                          [held EXCEPT !.step = "send", !.copy = outbox[held.event]]]
    BY DEF LoadEvent
  <2> QED
    BY <1>1, <2>1, Copied
<1>3. /\ UNCHANGED <<inbox, projection, outbox, attempts, now>>
      /\ consuming' = [consuming EXCEPT ![d] = consuming[d]]
  BY <1>1 DEF LoadEvent, consumerVars
<1>4. outbox[held.event] \in WebhookEvent
  BY <1>1, OutboxRows DEF Types
<1>5. DispatchFits(work)
  BY <1>1, <1>4 DEF DispatchFits, Dispatch, HasCopy
<1> HIDE DEF work
<1> QED
  BY <1>2, <1>3, <1>5, Held, DispatchStep

\* The dispatch stops, and a delivery it was making stops with it.
LEMMA StopTypes ==
    ASSUME Types, NEW d \in Dispatchers,
           \/ NotReady(d) \/ NotFinalized(d) \/ ReceiverRaised(d) \/ Crash(d)
    PROVE  Types'
<1>1. /\ UNCHANGED <<inbox, projection, outbox, attempts, now>>
      /\ dispatching' = [dispatching EXCEPT ![d] = None]
      /\ \/ consuming' = consuming
         \/ consuming' = [consuming EXCEPT ![d] = None]
  BY DEF NotReady, NotFinalized, ReceiverRaised, Crash, Stops, consumerVars
<1>2. consuming = [consuming EXCEPT ![d] = consuming[d]]
  BY DEF Types, TypeOK
<1> QED
  BY <1>1, <1>2, Held, DispatchStep

\* The delivery fails, is accepted, or starts.
LEMMA SendTypes ==
    ASSUME Types, NEW d \in Dispatchers,
           Send(d) \/ NotSent(d) \/ Acknowledged(d)
    PROVE  Types'
<1> DEFINE held == dispatching[d]
           job == [event |-> held.event, step |-> "look_up", loaded |-> None]
<1>1. dispatching[d] # None /\ HasCopy(dispatching[d])
  BY DEF Send, NotSent, Acknowledged, Dispatching, HasCopy
<1>2. PICK step \in {"receiver", "succeeded", "failed"} : Steps(d, step)
  BY DEF Send, NotSent, Acknowledged
<1>3. /\ UNCHANGED <<inbox, projection, outbox, attempts, now>>
      /\ \/ consuming' = consuming
         \/ consuming' = [consuming EXCEPT ![d] = None]
         \/ consuming' = [consuming EXCEPT ![d] = job]
  BY DEF Send, NotSent, Acknowledged, Receive, consumerVars
<1>4. dispatching' = [dispatching EXCEPT ![d] = [held EXCEPT !.step = step]]
  BY <1>2 DEF Steps
<1>5. consuming = [consuming EXCEPT ![d] = consuming[d]]
  BY DEF Types, TypeOK
<1>6. ConsumptionFits(job)
  BY <1>1 DEF Types, DispatchFits, ConsumptionFits, Dispatch, Consumption
<1>7. DispatchFits([held EXCEPT !.step = step])
  BY <1>1, Stepped
<1> HIDE DEF job, held
<1> QED
  BY <1>3, <1>4, <1>5, <1>6, <1>7, Held, DispatchStep

\* A row of the outbox becomes another one, while a dispatch goes on or stops.
LEMMA RowTypes ==
    ASSUME Types, NEW d \in Dispatchers, NEW event \in DOMAIN outbox,
           NEW row \in WebhookEvent, NEW work,
           outbox' = [outbox EXCEPT ![event] = row],
           attempts' \in Seq(Seq({"succeeded", "failed"})),
           dispatching' = [dispatching EXCEPT ![d] = work],
           DispatchFits(work), UNCHANGED <<consumerVars, now>>
    PROVE  Types'
<1>1. /\ outbox' \in Seq(WebhookEvent) /\ Len(outbox') = Len(outbox)
      /\ DOMAIN outbox' = DOMAIN outbox
  BY DEF Types, TypeOK
<1>2. UNCHANGED <<inbox, projection, consuming>>
  BY DEF consumerVars
<1>3. /\ dispatching' \in [Dispatchers -> Dispatch \cup {None}]
      /\ dispatching'[d] = work
      /\ \A q \in Dispatchers : q # d => dispatching'[q] = dispatching[q]
  BY DEF Types, TypeOK, DispatchFits
<1>4. TypeOK'
  BY <1>1, <1>2, <1>3 DEF Types, TypeOK
<1>5. \A q \in Dispatchers : DispatchFits(dispatching[q])'
  BY <1>1, <1>3 DEF Types, DispatchFits
<1>6. \A q \in Consumers : ConsumptionFits(consuming[q])'
  BY <1>1, <1>2 DEF Types, ConsumptionFits
<1> QED
  BY <1>4, <1>5, <1>6 DEF Types

LEMMA ClaimTypes ==
    ASSUME Types, NEW d \in Dispatchers, Claim(d)
    PROVE  Types'
<1> DEFINE held == dispatching[d]
           row == [outbox[held.event] EXCEPT !.status = "PROCESSING",
                      !.lease_token = d, !.lease_expires_at = held.at + LeaseSeconds]
<1>1. held \in Dispatch /\ held.event \in DOMAIN outbox /\ held # None
  BY DEF Claim, Dispatching, Types, DispatchFits
<1>2. row \in WebhookEvent
  <2>1. outbox[held.event] \in WebhookEvent
    BY <1>1, OutboxRows DEF Types
  <2>2. held.at + LeaseSeconds \in Nat
    BY <1>1, DeliveryAssumption DEF Dispatch
  <2>3. row = [outbox[held.event] EXCEPT !.status = "PROCESSING",
                  !.lease_token = d, !.lease_expires_at = held.at + LeaseSeconds]
    OBVIOUS
  <2> HIDE DEF held, row
  <2> QED
    BY <2>1, <2>2, <2>3 DEF WebhookEvent, WebhookStatuses
<1>3. outbox' = [outbox EXCEPT ![held.event] = row]
  BY DEF Claim
<1>4. /\ dispatching' = [dispatching EXCEPT ![d] = [held EXCEPT !.step = "load"]]
      /\ UNCHANGED <<consumerVars, attempts, now>>
  BY DEF Claim, Steps
<1>5. DispatchFits([held EXCEPT !.step = "load"])
  BY <1>1, Stepped
<1> HIDE DEF held, row
<1> QED
  BY <1>1, <1>2, <1>3, <1>4, <1>5, RowTypes DEF Types, TypeOK

\* One of several sequences gets an element more.
LEMMA OneMore ==
    ASSUME NEW S, NEW table \in Seq(Seq(S)), NEW e, NEW x \in S
    PROVE  [table EXCEPT ![e] = Append(@, x)] \in Seq(Seq(S))
<1>1. CASE e \in DOMAIN table
  <2>1. table[e] \in Seq(S)
    BY <1>1
  <2>2. Append(table[e], x) \in Seq(S)
    BY <2>1
  <2> QED
    BY <1>1, <2>2
<1>2. CASE e \notin DOMAIN table
  <2>1. [table EXCEPT ![e] = Append(@, x)] = table
    BY <1>2
  <2> QED
    BY <2>1
<1> QED
  BY <1>1, <1>2

LEMMA FinalizeTypes ==
    ASSUME Types, NEW d \in Dispatchers, Finalize(d)
    PROVE  Types'
<1> DEFINE held == dispatching[d]
<1>1. /\ held \in Dispatch /\ held.event \in DOMAIN outbox /\ held # None
      /\ held.copy \in WebhookEvent /\ held.step \in {"succeeded", "failed"}
  BY DEF Finalize, Resulted, Dispatching, Types, DispatchFits, HasCopy
<1>2. finalized(d) \in WebhookEvent
  BY <1>1, DeliveryAssumption
     DEF finalized, WebhookEvent, WebhookStatuses, Dispatch
<1>3. outbox' = [outbox EXCEPT ![held.event] = finalized(d)]
  BY DEF Finalize
<1>4. attempts' = [attempts EXCEPT ![held.event] = Append(@, held.step)]
  BY DEF Finalize
<1>5. attempts' \in Seq(Seq({"succeeded", "failed"}))
  <2>1. attempts \in Seq(Seq({"succeeded", "failed"}))
    BY DEF Types, TypeOK
  <2> QED
    BY <1>1, <1>4, <2>1, OneMore
<1>6. /\ dispatching' = [dispatching EXCEPT ![d] = None]
      /\ UNCHANGED <<consumerVars, now>>
  BY DEF Finalize, Stops
<1> HIDE DEF held
<1> QED
  BY <1>1, <1>2, <1>3, <1>5, <1>6, Held, RowTypes

\* A consumption that goes on to a step, or loads the projection.
LEMMA Consumed ==
    ASSUME Types, NEW c \in Consumers, consuming[c] # None,
           NEW step \in {"look_up", "load", "store", "accepted", "raised"}
    PROVE  ConsumptionFits([consuming[c] EXCEPT !.step = step])
BY DEF Types, ConsumptionFits, Consumption

\* A consumption reads, collides or fails; or a delivery from outside starts
\* or ends.
LEMMA ReadTypes ==
    ASSUME Types, NEW c \in Consumers, UNCHANGED <<deliveryVars, now>>,
           \/ LookUp(c) \/ Collide(c) \/ Raise(c)
           \/ Answer(c)
    PROVE  Types'
<1>1. UNCHANGED <<inbox, projection, deliveryVars, now>>
  BY DEF LookUp, Collide, Raise, Answer
<1>2. consuming[c] # None
  BY DEF LookUp, Collide, Raise, Answer, At
<1>3. CASE Answer(c)
  <2>1. consuming' = [consuming EXCEPT ![c] = None]
    BY <1>3 DEF Answer
  <2>2. ConsumptionFits(None)
    BY Held
  <2> QED
    BY <1>1, <2>1, <2>2, ConsumeStep
<1>4. CASE LookUp(c) \/ Collide(c) \/ Raise(c)
  <2>1. PICK step \in {"load", "accepted", "raised"} : Ends(c, step)
    BY <1>4 DEF LookUp, Collide, Raise
  <2>2. consuming' = [consuming EXCEPT ![c] = [consuming[c] EXCEPT !.step = step]]
    BY <2>1 DEF Ends
  <2>3. ConsumptionFits([consuming[c] EXCEPT !.step = step])
    BY <1>2, Consumed
  <2> QED
    BY <1>1, <2>2, <2>3, ConsumeStep
<1> QED
  BY <1>3, <1>4

LEMMA DeliverTypes ==
    ASSUME Types, NEW c \in Consumers, NEW event \in DOMAIN outbox, Deliver(c, event)
    PROVE  Types'
<1> DEFINE job == [event |-> event, step |-> "look_up", loaded |-> None]
<1>1. /\ consuming' = [consuming EXCEPT ![c] = job]
      /\ UNCHANGED <<inbox, projection, deliveryVars, now>>
  BY DEF Deliver, Receive
<1>2. ConsumptionFits(job)
  BY OutboxRows DEF ConsumptionFits, Consumption, Types
<1> HIDE DEF job
<1> QED
  BY <1>1, <1>2, ConsumeStep

\* Loading the projection fills in a consumption's copy.
LEMMA LoadedJob ==
    ASSUME NEW work \in Consumption, NEW row
    PROVE  [work EXCEPT !.step = "store", !.loaded = row] =
             [event |-> work.event, step |-> "store", loaded |-> row]
<1> DEFINE first == [work EXCEPT !.step = "store"]
<1>1. first = [event |-> work.event, step |-> "store", loaded |-> work.loaded]
  BY DEF Consumption
<1> HIDE DEF first
<1>2. [first EXCEPT !.loaded = row] =
        [event |-> work.event, step |-> "store", loaded |-> row]
  BY <1>1
<1> QED
  BY <1>2 DEF first

LEMMA LoadTypes ==
    ASSUME Types, NEW c \in Consumers, UNCHANGED <<deliveryVars, now>>, Load(c)
    PROVE  Types'
<1> DEFINE held == consuming[c]
           job == [event |-> held.event, step |-> "store", loaded |-> projection]
<1>1. held \in Consumption /\ held.event \in DOMAIN outbox
  BY DEF Load, At, Types, ConsumptionFits
<1>2. consuming' = [consuming EXCEPT ![c] =
                      [held EXCEPT !.step = "store", !.loaded = projection]]
  BY DEF Load
<1>3. consuming' = [consuming EXCEPT ![c] = job]
  BY <1>1, <1>2, LoadedJob
<1>4. ConsumptionFits(job)
  BY <1>1 DEF ConsumptionFits, Consumption, Types, TypeOK
<1>5. UNCHANGED <<inbox, projection, deliveryVars, now>>
  BY DEF Load
<1> HIDE DEF job
<1> QED
  BY <1>3, <1>4, <1>5, ConsumeStep

\* What a consumption writes: one more row of the inbox, and the projection
\* when the event is applied.
LEMMA StoreRows ==
    ASSUME Types, NEW c \in Consumers, Store(c)
    PROVE  LET event == consuming[c].event
               loaded == consuming[c].loaded
           IN  /\ event \in DOMAIN outbox /\ event \in Nat \ {0}
               /\ DOMAIN inbox' = DOMAIN inbox \cup {event}
               /\ event \notin DOMAIN inbox
               /\ inbox'[event].disposition = disposition(event, loaded)
               /\ inbox'[event] \in ProcessedWebhook
               /\ \A e \in DOMAIN inbox : inbox'[e] = inbox[e]
               /\ inbox' = [e \in DOMAIN inbox' |-> inbox'[e]]
               /\ \/ /\ disposition(event, loaded) = "APPLIED"
                     /\ projection' \in Projection
                     /\ projection'.aggregate_version = event
                     /\ \A k \in Columns :
                          \/ projection'.columns[k] = History[event][k]
                          \/ /\ loaded # None
                             /\ projection'.columns[k] = projection.columns[k]
                  \/ /\ disposition(event, loaded) # "APPLIED"
                     /\ loaded # None
                     /\ projection' = projection
<1> DEFINE event == consuming[c].event
           loaded == consuming[c].loaded
           row == [disposition |-> disposition(event, loaded),
                   version_gap |-> disposition(event, loaded) = "APPLIED"
                                   /\ version_gap(event, loaded)]
<1>1. /\ consuming[c] \in Consumption
      /\ event \in DOMAIN outbox /\ event \in DOMAIN History
      /\ event \in Nat \ {0} /\ History[event] \in [Columns -> Values]
      /\ loaded # None => projection \in Projection
  BY OutboxRows, Slots DEF Store, At, Types, ConsumptionFits
<1>2. /\ event \notin DOMAIN inbox
      /\ inbox' = [e \in DOMAIN inbox \cup {event} |->
                     IF e = event THEN row ELSE inbox[e]]
      /\ projection' = IF disposition(event, loaded) = "APPLIED"
                       THEN apply_projection(event, loaded) ELSE projection
  BY DEF Store, Processed
<1>3. row \in ProcessedWebhook /\ row.disposition = disposition(event, loaded)
  <2>1. disposition(event, loaded) \in Dispositions
    BY DEF Store, Conflicts, disposition, Dispositions
  <2> HIDE DEF event, loaded
  <2> QED
    BY <2>1 DEF ProcessedWebhook
<1>4. disposition(event, loaded) # "APPLIED" => loaded # None
  BY DEF disposition
<1>5. /\ apply_projection(event, loaded) \in Projection
      /\ apply_projection(event, loaded).aggregate_version = event
      /\ \A k \in Columns :
           \/ apply_projection(event, loaded).columns[k] = History[event][k]
           \/ /\ loaded # None
              /\ apply_projection(event, loaded).columns[k] = projection.columns[k]
  <2> HIDE DEF event, loaded
  <2> QED
    BY <1>1 DEF apply_projection, Projection
<1> HIDE DEF row, event, loaded
<1>6. /\ DOMAIN inbox' = DOMAIN inbox \cup {event}
      /\ inbox'[event] = row
      /\ \A e \in DOMAIN inbox : inbox'[e] = inbox[e]
      /\ inbox' = [e \in DOMAIN inbox' |-> inbox'[e]]
  BY <1>2
<1>7. \/ /\ disposition(event, loaded) = "APPLIED"
         /\ projection' = apply_projection(event, loaded)
      \/ /\ disposition(event, loaded) # "APPLIED"
         /\ projection' = projection
  BY <1>2
<1> QED
  BY <1>1, <1>2, <1>3, <1>4, <1>5, <1>6, <1>7 DEF event, loaded

LEMMA StoreTypes ==
    ASSUME Types, NEW c \in Consumers, UNCHANGED <<deliveryVars, now>>, Store(c)
    PROVE  Types'
<1> DEFINE event == consuming[c].event
           job == [consuming[c] EXCEPT !.step = "accepted"]
<1>1. /\ event \in DOMAIN outbox
      /\ DOMAIN inbox' = DOMAIN inbox \cup {event}
      /\ inbox'[event] \in ProcessedWebhook
      /\ \A e \in DOMAIN inbox : inbox'[e] = inbox[e]
      /\ inbox' = [e \in DOMAIN inbox' |-> inbox'[e]]
      /\ projection' \in Projection \/ projection' = projection
  BY StoreRows
<1>2. consuming' = [consuming EXCEPT ![c] = job]
  BY DEF Store, Ends
<1>3. ConsumptionFits(job)
  BY Consumed DEF Store, At
<1>4. UNCHANGED <<outbox, attempts, dispatching, now>>
  BY DEF deliveryVars
<1> HIDE DEF job, event
<1>5. /\ DOMAIN inbox' \subseteq DOMAIN outbox'
      /\ inbox' \in [DOMAIN inbox' -> ProcessedWebhook]
      /\ projection' \in Projection \cup {None}
  BY <1>1, <1>4 DEF Types, TypeOK
<1>6. /\ consuming' \in [Consumers -> Consumption \cup {None}]
      /\ consuming'[c] = job
      /\ \A q \in Consumers : q # c => consuming'[q] = consuming[q]
  BY <1>2, <1>3 DEF Types, TypeOK, ConsumptionFits
<1>7. TypeOK'
  BY <1>4, <1>5, <1>6 DEF Types, TypeOK
<1>8. \A q \in Consumers : ConsumptionFits(consuming[q])'
  BY <1>1, <1>3, <1>4, <1>6 DEF Types, ConsumptionFits
<1>9. \A q \in Dispatchers : DispatchFits(dispatching[q])'
  BY <1>4 DEF Types, DispatchFits
<1> QED
  BY <1>7, <1>8, <1>9 DEF Types

LEMMA CreateTypes ==
    ASSUME Types, create_outbox_event
    PROVE  Types'
<1> DEFINE row == [status |-> "PENDING", attempt_count |-> 0,
                   next_attempt_at |-> now, lease_token |-> None,
                   lease_expires_at |-> None]
<1>1. row \in WebhookEvent
  BY DEF WebhookEvent, WebhookStatuses, Types, TypeOK
<1>2. /\ outbox' = Append(outbox, row) /\ attempts' = Append(attempts, <<>>)
      /\ Len(outbox) < Len(History)
      /\ UNCHANGED <<inbox, projection, consuming, dispatching, now>>
  BY DEF create_outbox_event, consumerVars
<1> HIDE DEF row
<1>3. /\ outbox' \in Seq(WebhookEvent) /\ Len(outbox') <= Len(History)
      /\ DOMAIN outbox \subseteq DOMAIN outbox'
  BY <1>1, <1>2, Slots DEF Types, TypeOK
<1>4. attempts' \in Seq(Seq({"succeeded", "failed"}))
  <2>1. attempts \in Seq(Seq({"succeeded", "failed"}))
    BY DEF Types, TypeOK
  <2>2. <<>> \in Seq({"succeeded", "failed"})
    OBVIOUS
  <2> QED
    BY <1>2, <2>1, <2>2
<1>5. TypeOK'
  BY <1>2, <1>3, <1>4 DEF Types, TypeOK
<1>6. \A q \in Dispatchers : DispatchFits(dispatching[q])'
  BY <1>2, <1>3 DEF Types, DispatchFits
<1>7. \A q \in Consumers : ConsumptionFits(consuming[q])'
  BY <1>2, <1>3 DEF Types, ConsumptionFits
<1> QED
  BY <1>5, <1>6, <1>7 DEF Types

\* Nothing changes but perhaps the clock.
LEMMA IdleTypes ==
    ASSUME Types, UNCHANGED <<consumerVars, deliveryVars>>, now' \in Nat
    PROVE  Types'
<1>1. UNCHANGED <<inbox, projection, consuming, outbox, attempts, dispatching>>
  BY DEF consumerVars, deliveryVars
<1>2. TypeOK'
  BY <1>1 DEF Types, TypeOK
<1>3. \A q \in Dispatchers : DispatchFits(dispatching[q])'
  BY <1>1 DEF Types, DispatchFits
<1>4. \A q \in Consumers : ConsumptionFits(consuming[q])'
  BY <1>1 DEF Types, ConsumptionFits
<1> QED
  BY <1>2, <1>3, <1>4 DEF Types

LEMMA NextTypes ==
    ASSUME Types, [Next]_vars
    PROVE  Types'
<1>1. CASE create_outbox_event
  BY <1>1, CreateTypes
<1>2. ASSUME NEW d \in Dispatchers, NEW event \in DOMAIN outbox, Ask(d, event)
      PROVE  Types'
  BY <1>2, AskTypes
<1>3. ASSUME NEW d \in Dispatchers, Advance(d) \/ Crash(d)
      PROVE  Types'
  BY <1>3, ClaimTypes, LoadEventTypes, SendTypes, StopTypes, FinalizeTypes
     DEF Advance
<1>4. ASSUME NEW c \in Endpoints,
             Answer(c) \/ \E event \in DOMAIN outbox : Deliver(c, event)
      PROVE  Types'
  <2>1. c \in Consumers
    BY Slots
  <2>2. CASE Answer(c)
    <3>1. UNCHANGED <<deliveryVars, now>>
      BY <2>2 DEF Answer
    <3> QED
      BY <2>1, <2>2, <3>1, ReadTypes
  <2> QED
    BY <1>4, <2>1, <2>2, DeliverTypes
<1>5. CASE ConsumerNext /\ UNCHANGED <<deliveryVars, now>>
  BY <1>5, ReadTypes, LoadTypes, StoreTypes DEF ConsumerNext, Consume
<1>6. CASE Tick \/ UNCHANGED vars
  <2>1. UNCHANGED <<consumerVars, deliveryVars>> /\ now' \in Nat
    BY <1>6 DEF Tick, vars, Types, TypeOK
  <2> QED
    BY <2>1, IdleTypes
<1> QED
  BY <1>1, <1>2, <1>3, <1>4, <1>5, <1>6 DEF Next

LEMMA TypesInvariant == Spec => []Types
<1>1. Init => Types
  BY InitTypes
<1>2. Types /\ [Next]_vars => Types'
  BY NextTypes
<1> QED
  BY <1>1, <1>2, PTL DEF Spec

\* Every column of the outbox, the inbox and the projection keeps its type, and
\* every dispatch and consumption its place in the code (dispatch_webhook,
\* consume_webhook).
THEOREM TypeCorrect == Spec => []TypeOK
<1>1. Types => TypeOK
  BY DEF Types
<1> QED
  BY <1>1, TypesInvariant, PTL

----------------------------------------------------------------------------
(* The attempts.                                                           *)

\* A copy with a lease was read before the attempts that followed it: its count
\* is one the event has passed, with failures only.
CopyIsPast(work) ==
    work # None /\ HasCopy(work) /\ work.copy.lease_token # None =>
        /\ work.copy.attempt_count < MaxAttempts
        /\ work.copy.attempt_count <= Len(attempts[work.event])
        /\ \A n \in 1..work.copy.attempt_count : attempts[work.event][n] = "failed"

RowExplained(row, outcomes) ==
    LET last == Len(outcomes)
    IN  /\ row.attempt_count = last /\ last <= MaxAttempts
        /\ \A n \in 1..last : outcomes[n] = "succeeded" => n = last
        /\ row.status = "DELIVERED" <=> last > 0 /\ outcomes[last] = "succeeded"
        /\ row.status = "EXHAUSTED" <=>
             last = MaxAttempts /\ outcomes[last] = "failed"
        /\ row.status = "PROCESSING" <=> row.lease_token # None

Attempted ==
    /\ DOMAIN attempts = DOMAIN outbox
    /\ \A e \in DOMAIN outbox : RowExplained(outbox[e], attempts[e])
    /\ \A d \in Dispatchers : CopyIsPast(dispatching[d])

\* A row that is leased has failures only, and room for another attempt.
LEMMA LeasedRow ==
    ASSUME NEW row \in WebhookEvent, NEW outcomes \in Seq({"succeeded", "failed"}),
           RowExplained(row, outcomes),
           row.lease_token # None \/ row.status \in {"PENDING", "PROCESSING"}
    PROVE  /\ row.attempt_count = Len(outcomes)
           /\ Len(outcomes) < MaxAttempts
           /\ \A n \in 1..Len(outcomes) : outcomes[n] = "failed"
<1>1. row.status \notin {"DELIVERED", "EXHAUSTED"}
  BY DEF RowExplained
<1>2. Len(outcomes) \in Nat /\ \A n \in 1..Len(outcomes) : outcomes[n] \in {"succeeded", "failed"}
  OBVIOUS
<1>3. \A n \in 1..Len(outcomes) : outcomes[n] = "failed"
  BY <1>1, <1>2 DEF RowExplained
<1>4. Len(outcomes) < MaxAttempts
  BY <1>1, <1>2, <1>3, DeliveryAssumption DEF RowExplained
<1> QED
  BY <1>3, <1>4 DEF RowExplained

LEMMA InitAttempted ==
    ASSUME Init
    PROVE  Attempted
BY DeliveryAssumption DEF Init, Attempted, CopyIsPast

\* The outbox and its attempts stay, and no slot gets another copy.
LEMMA SlotsAttempted ==
    ASSUME Types, Attempted, UNCHANGED <<outbox, attempts>>,
           \A d \in Dispatchers : CopyIsPast(dispatching'[d])
    PROVE  Attempted'
BY DEF Attempted, CopyIsPast, HasCopy

\* A dispatch stops, or goes on with the copy it has.
LEMMA StepAttempted ==
    ASSUME Types, Attempted, UNCHANGED <<outbox, attempts>>,
           NEW d \in Dispatchers, NEW work,
           dispatching' = [dispatching EXCEPT ![d] = work],
           CopyIsPast(work)
    PROVE  Attempted'
<1>1. \A q \in Dispatchers : dispatching'[q] = IF q = d THEN work ELSE dispatching[q]
  BY DEF Types, TypeOK
<1>2. \A q \in Dispatchers : CopyIsPast(dispatching'[q])
  BY <1>1 DEF Attempted
<1> QED
  BY <1>2, SlotsAttempted

LEMMA StopAttempted ==
    ASSUME Types, Attempted, NEW d \in Dispatchers,
           \/ NotReady(d) \/ NotFinalized(d) \/ ReceiverRaised(d) \/ Crash(d)
    PROVE  Attempted'
<1>1. /\ UNCHANGED <<outbox, attempts>>
      /\ dispatching' = [dispatching EXCEPT ![d] = None]
  BY DEF NotReady, NotFinalized, ReceiverRaised, Crash, Stops
<1>2. CopyIsPast(None)
  BY DEF CopyIsPast
<1> QED
  BY <1>1, <1>2, StepAttempted

LEMMA SendAttempted ==
    ASSUME Types, Attempted, NEW d \in Dispatchers,
           Send(d) \/ NotSent(d) \/ Acknowledged(d)
    PROVE  Attempted'
<1> DEFINE held == dispatching[d]
<1>1. held \in Dispatch /\ held # None /\ HasCopy(held)
  BY DEF Send, NotSent, Acknowledged, Dispatching, HasCopy, Types, DispatchFits
<1>2. PICK step \in {"receiver", "succeeded", "failed"} : Steps(d, step)
  BY DEF Send, NotSent, Acknowledged
<1> DEFINE work == [held EXCEPT !.step = step]
<1>3. /\ dispatching' = [dispatching EXCEPT ![d] = work]
      /\ UNCHANGED <<outbox, attempts>>
  BY <1>2 DEF Steps, Send, NotSent, Acknowledged
<1>4. work.event = held.event /\ work.copy = held.copy
  BY <1>1 DEF Dispatch
<1>5. CopyIsPast(work)
  BY <1>1, <1>4 DEF Attempted, CopyIsPast
<1> HIDE DEF work
<1> QED
  BY <1>3, <1>5, StepAttempted

\* The row of a dispatch's event is explained by its attempts.
LEMMA EventExplained ==
    ASSUME Types, Attempted, NEW e \in DOMAIN outbox
    PROVE  /\ e \in DOMAIN attempts
           /\ outbox[e] \in WebhookEvent
           /\ attempts[e] \in Seq({"succeeded", "failed"})
           /\ RowExplained(outbox[e], attempts[e])
BY OutboxRows DEF Types, TypeOK, Attempted

LEMMA LoadEventAttempted ==
    ASSUME Types, Attempted, NEW d \in Dispatchers, LoadEvent(d)
    PROVE  Attempted'
<1> DEFINE held == dispatching[d]
           row == outbox[held.event]
           work == [event |-> held.event, at |-> held.at, step |-> "send",
                    copy |-> row]
<1>1. held \in Dispatch /\ held.event \in DOMAIN outbox
  BY DEF LoadEvent, Dispatching, Types, DispatchFits
<1>2. dispatching' = [dispatching EXCEPT ![d] =
                        [held EXCEPT !.step = "send", !.copy = row]]
  BY DEF LoadEvent
<1>3. dispatching' = [dispatching EXCEPT ![d] = work]
  BY <1>1, <1>2, Copied
<1>4. /\ row \in WebhookEvent
      /\ attempts[held.event] \in Seq({"succeeded", "failed"})
      /\ RowExplained(row, attempts[held.event])
  BY <1>1, EventExplained
<1>5. row.lease_token # None =>
        /\ row.attempt_count = Len(attempts[held.event])
        /\ row.attempt_count < MaxAttempts
        /\ \A n \in 1..Len(attempts[held.event]) : attempts[held.event][n] = "failed"
  BY <1>4, LeasedRow
<1>6. work.event = held.event /\ work.copy = row
  OBVIOUS
<1>7. CopyIsPast(work)
  <2>1. Len(attempts[held.event]) \in Nat
    BY <1>4
  <2> HIDE DEF work, row
  <2> QED
    BY <1>5, <1>6, <2>1 DEF CopyIsPast
<1>8. UNCHANGED <<outbox, attempts>>
  BY DEF LoadEvent
<1> HIDE DEF work
<1> QED
  BY <1>3, <1>7, <1>8, StepAttempted

LEMMA AskAttempted ==
    ASSUME Types, Attempted, NEW d \in Dispatchers, NEW event, Ask(d, event)
    PROVE  Attempted'
<1> DEFINE work == [event |-> event, at |-> now, step |-> "claim", copy |-> None]
<1>1. /\ UNCHANGED <<outbox, attempts>>
      /\ dispatching' = [dispatching EXCEPT ![d] = work]
  BY DEF Ask
<1>2. CopyIsPast(work)
  BY DEF CopyIsPast, HasCopy
<1> HIDE DEF work
<1> QED
  BY <1>1, <1>2, StepAttempted

LEMMA ClaimAttempted ==
    ASSUME Types, Attempted, NEW d \in Dispatchers, Claim(d)
    PROVE  Attempted'
<1> DEFINE held == dispatching[d]
           e == held.event
           row == [outbox[e] EXCEPT !.status = "PROCESSING", !.lease_token = d,
                                    !.lease_expires_at = held.at + LeaseSeconds]
           work == [held EXCEPT !.step = "load"]
<1>1. held \in Dispatch /\ e \in DOMAIN outbox
  BY DEF Claim, Dispatching, Types, DispatchFits
<1>2. /\ outbox' = [outbox EXCEPT ![e] = row] /\ UNCHANGED attempts
      /\ dispatching' = [dispatching EXCEPT ![d] = work]
      /\ outbox[e].status \in {"PENDING", "PROCESSING"}
  BY DEF Claim, Ready, Steps
<1>3. /\ outbox[e] \in WebhookEvent
      /\ attempts[e] \in Seq({"succeeded", "failed"})
      /\ RowExplained(outbox[e], attempts[e])
  BY <1>1, EventExplained
<1>4. /\ outbox[e].attempt_count = Len(attempts[e])
      /\ Len(attempts[e]) < MaxAttempts
      /\ \A n \in 1..Len(attempts[e]) : attempts[e][n] = "failed"
  BY <1>2, <1>3, LeasedRow
<1>5. /\ row.status = "PROCESSING" /\ row.lease_token = d
      /\ row.attempt_count = outbox[e].attempt_count
  BY <1>3 DEF WebhookEvent
<1>6. work.step = "load"
  BY <1>1 DEF Dispatch
<1> HIDE DEF row, work, e
<1>7. RowExplained(row, attempts[e])
  <2>1. Len(attempts[e]) \in Nat
    BY <1>3
  <2>2. d # None
    BY Slots
  <2> QED
    BY <1>4, <1>5, <2>1, <2>2, DeliveryAssumption DEF RowExplained
<1>8. /\ DOMAIN outbox' = DOMAIN outbox /\ outbox'[e] = row
      /\ \A q \in DOMAIN outbox : q # e => outbox'[q] = outbox[q]
  BY <1>1, <1>2 DEF Types, TypeOK
<1>9. \A q \in Dispatchers : dispatching'[q] = IF q = d THEN work ELSE dispatching[q]
  BY <1>2 DEF Types, TypeOK
<1>10. \A q \in Dispatchers : CopyIsPast(dispatching[q])'
  BY <1>2, <1>6, <1>9 DEF Attempted, CopyIsPast, HasCopy
<1> QED
  BY <1>2, <1>7, <1>8, <1>10 DEF Attempted

\* A copy of the past stays one as attempts are added.
LEMMA StillPast ==
    ASSUME Types, Attempted, NEW e \in DOMAIN outbox, NEW outcome,
           attempts' = [attempts EXCEPT ![e] = Append(@, outcome)],
           NEW q \in Dispatchers, dispatching'[q] = dispatching[q]
    PROVE  CopyIsPast(dispatching[q])'
<1> DEFINE held == dispatching[q]
<1> SUFFICES ASSUME held # None, HasCopy(held), held.copy.lease_token # None
             PROVE  CopyIsPast(dispatching[q])'
  BY DEF CopyIsPast, HasCopy
<1>1. /\ held.copy \in WebhookEvent /\ held.event \in DOMAIN outbox
      /\ attempts[held.event] \in Seq({"succeeded", "failed"})
      /\ held.event \in DOMAIN attempts
  BY EventExplained DEF Types, DispatchFits
<1>2. /\ held.copy.attempt_count < MaxAttempts
      /\ held.copy.attempt_count <= Len(attempts[held.event])
      /\ \A n \in 1..held.copy.attempt_count : attempts[held.event][n] = "failed"
  BY DEF Attempted, CopyIsPast
<1>3. attempts'[held.event] = IF held.event = e
                              THEN Append(attempts[held.event], outcome)
                              ELSE attempts[held.event]
  BY <1>1
<1>4. held.copy.attempt_count \in Nat
  BY <1>1 DEF WebhookEvent
<1> HIDE DEF held
<1>5. /\ held.copy.attempt_count <= Len(attempts'[held.event])
      /\ \A n \in 1..held.copy.attempt_count : attempts'[held.event][n] = "failed"
  BY <1>1, <1>2, <1>3, <1>4
<1> QED
  BY <1>2, <1>5 DEF CopyIsPast, held

LEMMA FinalizeAttempted ==
    ASSUME Types, Attempted, NEW d \in Dispatchers, Finalize(d)
    PROVE  Attempted'
<1> DEFINE held == dispatching[d]
           e == held.event
           outcomes == attempts[e]
           row == finalized(d)
           number == held.copy.attempt_count + 1
<1>1. /\ held \in Dispatch /\ held # None /\ HasCopy(held) /\ e \in DOMAIN outbox
      /\ held.copy \in WebhookEvent /\ held.step \in {"succeeded", "failed"}
      /\ held.copy.lease_token # None
      /\ number \notin DOMAIN outcomes
  BY Slots DEF Finalize, Resulted, Admitted, Dispatching, HasCopy, Types, DispatchFits
<1>2. /\ outbox' = [outbox EXCEPT ![e] = row]
      /\ attempts' = [attempts EXCEPT ![e] = Append(@, held.step)]
      /\ dispatching' = [dispatching EXCEPT ![d] = None]
  BY DEF Finalize, Stops
<1>3. /\ e \in DOMAIN attempts
      /\ outcomes \in Seq({"succeeded", "failed"})
  BY <1>1, EventExplained
<1>4. /\ held.copy.attempt_count < MaxAttempts
      /\ held.copy.attempt_count <= Len(outcomes)
      /\ \A n \in 1..held.copy.attempt_count : outcomes[n] = "failed"
  BY <1>1 DEF Attempted, CopyIsPast
<1>5. held.copy.attempt_count \in Nat
  BY <1>1 DEF WebhookEvent
<1>6. /\ number = Len(outcomes) + 1 /\ number \in Nat \ {0} /\ number <= MaxAttempts
      /\ \A n \in 1..Len(outcomes) : outcomes[n] = "failed"
  <2>1. Len(outcomes) \in Nat /\ DOMAIN outcomes = 1..Len(outcomes)
    BY <1>3
  <2> HIDE DEF outcomes, held
  <2>2. held.copy.attempt_count = Len(outcomes)
    BY <1>1, <1>4, <1>5, <2>1
  <2> QED
    BY <1>4, <2>1, <2>2, DeliveryAssumption
<1>7. /\ row.attempt_count = number
      /\ row.status = IF held.step = "succeeded" THEN "DELIVERED"
                      ELSE IF number < MaxAttempts THEN "PENDING" ELSE "EXHAUSTED"
      /\ row.lease_token = None
  BY <1>1 DEF finalized
<1>8. /\ DOMAIN outbox' = DOMAIN outbox /\ outbox'[e] = row
      /\ \A q \in DOMAIN outbox : q # e => outbox'[q] = outbox[q]
      /\ DOMAIN attempts' = DOMAIN attempts
      /\ attempts'[e] = Append(outcomes, held.step)
      /\ \A q \in DOMAIN attempts : q # e => attempts'[q] = attempts[q]
  <2> HIDE DEF row
  <2> QED
    BY <1>1, <1>2, <1>3 DEF Types, TypeOK
<1> HIDE DEF row, number, outcomes, e, held
<1>9. RowExplained(row, Append(outcomes, held.step))
  <2> DEFINE after == Append(outcomes, held.step)
  <2>1. /\ Len(after) = number /\ after[number] = held.step
        /\ \A n \in 1..number : n # number => after[n] = "failed"
    BY <1>3, <1>6
  <2> HIDE DEF after
  <2> QED
    BY <1>1, <1>6, <1>7, <2>1, DeliveryAssumption DEF RowExplained, after
<1>10. \A q \in Dispatchers : dispatching'[q] = IF q = d THEN None ELSE dispatching[q]
  BY <1>2 DEF Types, TypeOK
<1>11. \A q \in Dispatchers : CopyIsPast(dispatching[q])'
  <2> TAKE q \in Dispatchers
  <2>1. CASE q = d
    BY <1>10, <2>1 DEF CopyIsPast
  <2>2. CASE q # d
    <3>1. dispatching'[q] = dispatching[q]
      BY <1>10, <2>2
    <3> QED
      BY <1>1, <1>2, <3>1, StillPast
  <2> QED
    BY <2>1, <2>2
<1> QED
  BY <1>8, <1>9, <1>11 DEF Attempted

LEMMA CreateAttempted ==
    ASSUME Types, Attempted, create_outbox_event
    PROVE  Attempted'
<1> DEFINE row == [status |-> "PENDING", attempt_count |-> 0,
                   next_attempt_at |-> now, lease_token |-> None,
                   lease_expires_at |-> None]
           new == Len(outbox) + 1
<1>1. /\ outbox' = Append(outbox, row) /\ attempts' = Append(attempts, <<>>)
      /\ UNCHANGED dispatching
  BY DEF create_outbox_event
<1>2. /\ outbox \in Seq(WebhookEvent) /\ attempts \in Seq(Seq({"succeeded", "failed"}))
      /\ Len(attempts) = Len(outbox)
  BY DEF Types, TypeOK, Attempted
<1>3. RowExplained(row, <<>>)
  BY DeliveryAssumption DEF RowExplained
<1> HIDE DEF row
<1>4. /\ DOMAIN outbox' = DOMAIN outbox \cup {new}
      /\ DOMAIN attempts' = DOMAIN attempts \cup {new}
      /\ outbox'[new] = row /\ attempts'[new] = <<>>
      /\ \A e \in DOMAIN outbox : outbox'[e] = outbox[e] /\ attempts'[e] = attempts[e]
  BY <1>1, <1>2
<1>5. \A q \in Dispatchers : CopyIsPast(dispatching[q])'
  BY <1>1, <1>4 DEF Attempted, CopyIsPast, HasCopy, Types, DispatchFits
<1> QED
  BY <1>3, <1>4, <1>5 DEF Attempted

LEMMA NextAttempted ==
    ASSUME Types, Attempted, [Next]_vars
    PROVE  Attempted'
<1>1. CASE create_outbox_event
  BY <1>1, CreateAttempted
<1>2. ASSUME NEW d \in Dispatchers, NEW event \in DOMAIN outbox, Ask(d, event)
      PROVE  Attempted'
  BY <1>2, AskAttempted
<1>3. ASSUME NEW d \in Dispatchers, Advance(d) \/ Crash(d)
      PROVE  Attempted'
  BY <1>3, ClaimAttempted, LoadEventAttempted, SendAttempted, StopAttempted,
     FinalizeAttempted DEF Advance
<1>4. CASE UNCHANGED deliveryVars
  BY <1>4, SlotsAttempted DEF deliveryVars, Attempted
<1>5. ASSUME NEW c \in Endpoints,
             Answer(c) \/ \E event \in DOMAIN outbox : Deliver(c, event)
      PROVE  UNCHANGED deliveryVars
  BY <1>5 DEF Answer, Deliver
<1>6. CASE (ConsumerNext /\ UNCHANGED <<deliveryVars, now>>) \/ Tick \/ UNCHANGED vars
  BY <1>4, <1>6 DEF Tick, vars
<1> QED
  BY <1>1, <1>2, <1>3, <1>4, <1>5, <1>6 DEF Next

\* However many dispatches claim, lose and finalize an event with leases that
\* run out under them, its attempts are numbered 1, 2, ... up to the limit,
\* nothing follows a success, and its state is what its attempts amount to
\* (dispatch_webhook, _finalize_delivery).
THEOREM AttemptsAlwaysExplain == Spec => []AttemptsExplainStatus
<1>1. Init => Types /\ Attempted
  BY InitTypes, InitAttempted
<1>2. (Types /\ Attempted) /\ [Next]_vars => (Types /\ Attempted)'
  BY NextTypes, NextAttempted
<1>3. Attempted => AttemptsExplainStatus
  BY DEF Attempted, RowExplained, AttemptsExplainStatus
<1> QED
  BY <1>1, <1>2, <1>3, PTL DEF Spec

----------------------------------------------------------------------------
(* Delivered means processed.                                              *)

\* An accepted delivery has been stored, and a dispatch waits for a delivery of
\* its own event.
JobStands(job) ==
    job # None /\ job.step = "accepted" => job.event \in DOMAIN inbox

WorkStands(work, job) ==
    work # None =>
        /\ work.step = "receiver" =>
             job \in Consumption /\ job.event = work.event
        /\ work.step = "succeeded" => work.event \in DOMAIN inbox

Delivering ==
    /\ \A c \in Consumers : JobStands(consuming[c])
    /\ \A d \in Dispatchers : WorkStands(dispatching[d], consuming[d])

Delivered == Delivering /\ DeliveredIsProcessed

LEMMA InitDelivered ==
    ASSUME Init
    PROVE  Delivered
<1>1. Delivering
  BY Slots DEF Init, ConsumerInit, Delivering, JobStands, WorkStands
<1>2. DeliveredIsProcessed
  BY DEF Init, ConsumerInit, DeliveredIsProcessed
<1> QED
  BY <1>1, <1>2 DEF Delivered

\* One slot changes, and nothing that the merchant has stored.
LEMMA SlotDelivering ==
    ASSUME Types, Delivering, UNCHANGED inbox,
           NEW d \in Dispatchers, NEW work, NEW job,
           dispatching' = [dispatching EXCEPT ![d] = work],
           consuming' = [consuming EXCEPT ![d] = job],
           JobStands(job), WorkStands(work, job)
    PROVE  Delivering'
<1>1. d \in Consumers /\ Dispatchers \subseteq Consumers
  BY Slots
<1>2. \A q \in Dispatchers : dispatching'[q] = IF q = d THEN work ELSE dispatching[q]
  BY DEF Types, TypeOK
<1>3. \A c \in Consumers : consuming'[c] = IF c = d THEN job ELSE consuming[c]
  BY <1>1 DEF Types, TypeOK
<1>4. \A c \in Consumers : JobStands(consuming[c])'
  BY <1>3 DEF Delivering, JobStands
<1>5. \A q \in Dispatchers : WorkStands(dispatching[q], consuming[q])'
  BY <1>1, <1>2, <1>3 DEF Delivering, WorkStands
<1> QED
  BY <1>4, <1>5 DEF Delivering

\* What the slots hold stands, and so does an empty one.
LEMMA HeldStands ==
    ASSUME Types, Delivering, NEW d \in Dispatchers
    PROVE  /\ JobStands(None) /\ JobStands(consuming[d])
           /\ WorkStands(None, None) /\ WorkStands(None, consuming[d])
           /\ WorkStands(dispatching[d], consuming[d])
           /\ consuming = [consuming EXCEPT ![d] = consuming[d]]
BY Slots DEF Delivering, JobStands, WorkStands, Types, TypeOK

\* A dispatch takes a step that neither sends nor is acknowledged.
LEMMA QuietDelivering ==
    ASSUME Types, Delivering, NEW d \in Dispatchers,
           \/ \E event : Ask(d, event)
           \/ Claim(d) \/ LoadEvent(d) \/ NotSent(d) \/ Finalize(d)
    PROVE  Delivering'
<1>1. UNCHANGED inbox /\ UNCHANGED consuming
  BY DEF Ask, Claim, LoadEvent, NotSent, Finalize, consumerVars
<1>2. \A step \in {"load", "failed"} :
        dispatching[d] # None =>
          WorkStands([dispatching[d] EXCEPT !.step = step], consuming[d])
  BY DEF Types, DispatchFits, Dispatch, WorkStands
<1>3. PICK work : /\ dispatching' = [dispatching EXCEPT ![d] = work]
                  /\ WorkStands(work, consuming[d])
  <2>1. CASE \E event : Ask(d, event)
    <3>1. PICK event : Ask(d, event)
      BY <2>1
    <3> DEFINE asked == [event |-> event, at |-> now, step |-> "claim",
                         copy |-> None]
    <3>2. dispatching' = [dispatching EXCEPT ![d] = asked]
      BY <3>1 DEF Ask
    <3>3. WorkStands(asked, consuming[d])
      BY DEF WorkStands
    <3> HIDE DEF asked
    <3> QED
      BY <3>2, <3>3
  <2>2. CASE Claim(d) \/ NotSent(d)
    <3>1. PICK step \in {"load", "failed"} : Steps(d, step)
      BY <2>2 DEF Claim, NotSent
    <3>2. dispatching[d] # None
      BY <2>2 DEF Claim, NotSent, Dispatching
    <3>3. dispatching' = [dispatching EXCEPT ![d] = [dispatching[d] EXCEPT !.step = step]]
      BY <3>1 DEF Steps
    <3> QED
      BY <1>2, <3>2, <3>3
  <2>3. CASE LoadEvent(d)
    <3> DEFINE held == dispatching[d]
               row == outbox[held.event]
               loaded == [event |-> held.event, at |-> held.at, step |-> "send",
                          copy |-> row]
    <3>1. held \in Dispatch
      BY <2>3 DEF LoadEvent, Dispatching, Types, DispatchFits
    <3>2. dispatching' = [dispatching EXCEPT ![d] =
                            [held EXCEPT !.step = "send", !.copy = row]]
      BY <2>3 DEF LoadEvent
    <3>3. dispatching' = [dispatching EXCEPT ![d] = loaded]
      BY <3>1, <3>2, Copied
    <3>4. WorkStands(loaded, consuming[d])
      BY DEF WorkStands
    <3> HIDE DEF loaded
    <3> QED
      BY <3>3, <3>4
  <2>4. CASE Finalize(d)
    <3>1. dispatching' = [dispatching EXCEPT ![d] = None]
      BY <2>4 DEF Finalize, Stops
    <3> QED
      BY <3>1, HeldStands
  <2> QED
    BY <2>1, <2>2, <2>3, <2>4
<1> QED
  BY <1>1, <1>3, HeldStands, SlotDelivering

LEMMA StopDelivering ==
    ASSUME Types, Delivering, NEW d \in Dispatchers,
           \/ NotReady(d) \/ NotFinalized(d) \/ ReceiverRaised(d) \/ Crash(d)
    PROVE  Delivering'
<1>1. /\ UNCHANGED inbox
      /\ dispatching' = [dispatching EXCEPT ![d] = None]
      /\ \/ consuming' = consuming
         \/ consuming' = [consuming EXCEPT ![d] = None]
  BY DEF NotReady, NotFinalized, ReceiverRaised, Crash, Stops, consumerVars
<1> QED
  BY <1>1, HeldStands, SlotDelivering

LEMMA SendDelivering ==
    ASSUME Types, Delivering, NEW d \in Dispatchers, Send(d) \/ Acknowledged(d)
    PROVE  Delivering'
<1> DEFINE held == dispatching[d]
<1>1. held \in Dispatch /\ held.event \in DOMAIN History /\ held # None
  BY DEF Send, Acknowledged, Dispatching, Types, DispatchFits, Dispatch
<1>2. CASE Send(d)
  <2> DEFINE job == [event |-> held.event, step |-> "look_up", loaded |-> None]
             work == [held EXCEPT !.step = "receiver"]
  <2>1. /\ UNCHANGED inbox
        /\ dispatching' = [dispatching EXCEPT ![d] = work]
        /\ consuming' = [consuming EXCEPT ![d] = job]
    BY <1>2 DEF Send, Receive, Steps
  <2>2. job \in Consumption /\ job.event = held.event /\ job.step = "look_up"
    BY <1>1 DEF Consumption
  <2>3. work.event = held.event /\ work.step = "receiver"
    BY <1>1 DEF Dispatch
  <2> HIDE DEF work, job
  <2>4. JobStands(job) /\ WorkStands(work, job)
    BY <2>2, <2>3 DEF JobStands, WorkStands
  <2> QED
    BY <2>1, <2>4, SlotDelivering
<1>3. CASE Acknowledged(d)
  <2>1. PICK step \in {"succeeded", "failed"} : Steps(d, step)
    BY <1>3 DEF Acknowledged
  <2> DEFINE work == [held EXCEPT !.step = step]
  <2>2. /\ UNCHANGED inbox
        /\ dispatching' = [dispatching EXCEPT ![d] = work]
        /\ consuming' = [consuming EXCEPT ![d] = None]
    BY <1>3, <2>1 DEF Acknowledged, Steps
  <2>3. /\ consuming[d] # None /\ consuming[d].step = "accepted"
        /\ held.step = "receiver"
    BY <1>3 DEF Acknowledged, At, Dispatching
  <2>4. held.event \in DOMAIN inbox
    BY <1>1, <2>3, Slots DEF Delivering, JobStands, WorkStands
  <2>5. work.event = held.event /\ work.step = step
    BY <1>1 DEF Dispatch
  <2> HIDE DEF work
  <2>6. WorkStands(work, None)
    BY <2>1, <2>4, <2>5 DEF WorkStands
  <2> QED
    BY <2>2, <2>6, HeldStands, SlotDelivering
<1> QED
  BY <1>2, <1>3

\* A consumption goes on, or a delivery from outside starts or ends; what the
\* merchant has stored stays stored.
LEMMA JobDelivering ==
    ASSUME Types, Delivering, UNCHANGED dispatching,
           DOMAIN inbox \subseteq DOMAIN inbox',
           NEW c \in Consumers, NEW job,
           consuming' = [consuming EXCEPT ![c] = job],
           job # None /\ job.step = "accepted" => job.event \in DOMAIN inbox',
           c \in Dispatchers =>
             job \in Consumption /\ job.event = consuming[c].event
    PROVE  Delivering'
<1>1. Dispatchers \subseteq Consumers
  BY Slots
<1>2. \A q \in Consumers : consuming'[q] = IF q = c THEN job ELSE consuming[q]
  BY DEF Types, TypeOK
<1>3. \A q \in Consumers : JobStands(consuming[q])'
  BY <1>2 DEF Delivering, JobStands
<1>4. \A q \in Dispatchers : WorkStands(dispatching[q], consuming[q])'
  BY <1>1, <1>2 DEF Delivering, WorkStands
<1> QED
  BY <1>3, <1>4 DEF Delivering

LEMMA ConsumeDelivering ==
    ASSUME Types, Delivering, NEW c \in Consumers,
           UNCHANGED <<deliveryVars, now>>,
           Consume(c)
    PROVE  Delivering'
<1> DEFINE held == consuming[c]
<1>1. held # None /\ held \in Consumption
  BY DEF Consume, LookUp, Load, Store, Collide, Raise, At,
         Types, ConsumptionFits
<1>2. UNCHANGED dispatching
  BY DEF deliveryVars
<1>3. DOMAIN inbox \subseteq DOMAIN inbox'
  BY StoreRows DEF Consume, LookUp, Load, Collide, Raise
<1>4. CASE Load(c)
  <2> DEFINE job == [event |-> held.event, step |-> "store", loaded |-> projection]
  <2>1. consuming' = [consuming EXCEPT ![c] =
                        [held EXCEPT !.step = "store", !.loaded = projection]]
    BY <1>4 DEF Load
  <2>2. consuming' = [consuming EXCEPT ![c] = job]
    BY <1>1, <2>1, LoadedJob
  <2>3. job \in Consumption /\ job.event = held.event /\ job.step # "accepted"
    BY <1>1 DEF Consumption, Types, TypeOK
  <2> HIDE DEF job
  <2> QED
    BY <1>2, <1>3, <2>2, <2>3, JobDelivering
<1>5. CASE LookUp(c) \/ Store(c) \/ Collide(c) \/ Raise(c)
  <2>1. PICK step \in {"load", "accepted", "raised"} :
          /\ Ends(c, step)
          /\ step = "accepted" => held.event \in DOMAIN inbox'
    <3>1. Store(c) => held.event \in DOMAIN inbox'
      BY StoreRows
    <3> QED
      BY <1>3, <1>5, <3>1
         DEF LookUp, Store, Collide, Raise, Processed
  <2> DEFINE job == [held EXCEPT !.step = step]
  <2>2. consuming' = [consuming EXCEPT ![c] = job]
    BY <2>1 DEF Ends
  <2>3. job \in Consumption /\ job.event = held.event /\ job.step = step
    BY <1>1 DEF Consumption
  <2> HIDE DEF job
  <2> QED
    BY <1>2, <1>3, <2>1, <2>2, <2>3, JobDelivering
<1> QED
  BY <1>4, <1>5 DEF Consume

LEMMA EndpointDelivering ==
    ASSUME Types, Delivering, NEW c \in Endpoints,
           Answer(c) \/ \E event \in DOMAIN outbox : Deliver(c, event)
    PROVE  Delivering'
<1>1. c \in Consumers /\ c \notin Dispatchers
  BY Slots, DeliveryAssumption
<1>2. UNCHANGED inbox /\ UNCHANGED dispatching
  BY DEF Answer, Deliver, deliveryVars
<1>3. CASE Answer(c)
  BY <1>1, <1>2, <1>3, JobDelivering DEF Answer
<1>4. CASE \E event \in DOMAIN outbox : Deliver(c, event)
  <2>1. PICK event \in DOMAIN outbox : Deliver(c, event)
    BY <1>4
  <2> DEFINE job == [event |-> event, step |-> "look_up", loaded |-> None]
  <2>2. consuming' = [consuming EXCEPT ![c] = job] /\ job.step # "accepted"
    BY <2>1 DEF Deliver, Receive
  <2> HIDE DEF job
  <2> QED
    BY <1>1, <1>2, <2>2, JobDelivering
<1> QED
  BY <1>3, <1>4

LEMMA NextDelivering ==
    ASSUME Types, Delivering, [Next]_vars
    PROVE  Delivering'
<1>1. ASSUME NEW d \in Dispatchers, NEW event \in DOMAIN outbox, Ask(d, event)
      PROVE  Delivering'
  BY <1>1, QuietDelivering
<1>2. ASSUME NEW d \in Dispatchers, Advance(d) \/ Crash(d)
      PROVE  Delivering'
  BY <1>2, QuietDelivering, StopDelivering, SendDelivering DEF Advance
<1>3. CASE ConsumerNext /\ UNCHANGED <<deliveryVars, now>>
  BY <1>3, ConsumeDelivering DEF ConsumerNext
<1>4. CASE create_outbox_event \/ Tick \/ UNCHANGED vars
  <2>1. UNCHANGED <<inbox, consuming, dispatching>>
    BY <1>4 DEF create_outbox_event, Tick, vars, consumerVars, deliveryVars
  <2> QED
    BY <2>1 DEF Delivering, JobStands, WorkStands
<1> QED
  BY <1>1, <1>2, <1>3, <1>4, EndpointDelivering DEF Next

\* Only a claim, a finalization and a publication write the outbox, and only a
\* finalization after a success calls an event delivered.
LEMMA DeliveredRows ==
    ASSUME Types, Delivering, [Next]_vars,
           NEW e \in DOMAIN outbox', outbox'[e].status = "DELIVERED"
    PROVE  \/ e \in DOMAIN inbox
           \/ e \in DOMAIN outbox /\ outbox[e].status = "DELIVERED"
<1>1. ASSUME NEW d \in Dispatchers, Claim(d)
      PROVE  e \in DOMAIN outbox /\ outbox[e].status = "DELIVERED"
  <2> DEFINE event == dispatching[d].event
             row == [outbox[event] EXCEPT !.status = "PROCESSING",
                       !.lease_token = d,
                       !.lease_expires_at = dispatching[d].at + LeaseSeconds]
  <2>1. event \in DOMAIN outbox
    BY <1>1 DEF Claim, Dispatching, Types, DispatchFits
  <2>2. outbox' = [outbox EXCEPT ![event] = row]
    BY <1>1 DEF Claim
  <2>3. row.status = "PROCESSING"
    BY <2>1, OutboxRows DEF Types, WebhookEvent
  <2> HIDE DEF row, event
  <2> QED
    BY <2>1, <2>2, <2>3
<1>2. ASSUME NEW d \in Dispatchers, Finalize(d)
      PROVE  \/ e \in DOMAIN inbox
             \/ e \in DOMAIN outbox /\ outbox[e].status = "DELIVERED"
  <2> DEFINE event == dispatching[d].event
  <2>1. outbox' = [outbox EXCEPT ![event] = finalized(d)]
    BY <1>2 DEF Finalize
  <2>2. finalized(d).status = "DELIVERED" => event \in DOMAIN inbox
    <3>1. finalized(d).status = "DELIVERED" => dispatching[d].step = "succeeded"
      BY DEF finalized
    <3>2. dispatching[d] # None
      BY <1>2 DEF Finalize, Resulted, Dispatching
    <3> QED
      BY <3>1, <3>2 DEF Delivering, WorkStands
  <2> HIDE DEF event
  <2> QED
    BY <2>1, <2>2
<1>3. ASSUME NEW row, row.status = "PENDING", Len(outbox) \in Nat,
             outbox' = Append(outbox, row)
      PROVE  e \in DOMAIN outbox /\ outbox[e].status = "DELIVERED"
  BY <1>3 DEF Types, TypeOK
<1>4. CASE create_outbox_event
  <2> DEFINE row == [status |-> "PENDING", attempt_count |-> 0,
                     next_attempt_at |-> now, lease_token |-> None,
                     lease_expires_at |-> None]
  <2>1. outbox' = Append(outbox, row) /\ row.status = "PENDING" /\ Len(outbox) \in Nat
    BY <1>4, OutboxRows DEF create_outbox_event, Types
  <2> HIDE DEF row
  <2> QED
    BY <1>3, <2>1
<1>5. CASE UNCHANGED outbox
  BY <1>5
<1>6. \/ UNCHANGED outbox
      \/ create_outbox_event
      \/ \E d \in Dispatchers : Claim(d) \/ Finalize(d)
  BY DEF Next, Ask, Advance, NotReady, LoadEvent, Send, NotSent, Acknowledged,
         ReceiverRaised, NotFinalized, Crash, Deliver, Answer, Tick, vars,
         deliveryVars
<1> QED
  BY <1>1, <1>2, <1>4, <1>5, <1>6

\* The merchant's view, in what it has applied.
ViewIsStored ==
    /\ projection = None <=> DOMAIN inbox = {}
    /\ projection # None =>
         /\ projection.aggregate_version \in DOMAIN inbox
         /\ inbox[projection.aggregate_version].disposition = "APPLIED"
         /\ \A k \in Columns : \E e \in DOMAIN inbox :
              /\ inbox[e].disposition = "APPLIED"
              /\ projection.columns[k] = History[e][k]

LEMMA StoreView ==
    ASSUME Types, ViewIsStored, NEW c \in Consumers, Store(c)
    PROVE  ViewIsStored'
<1> DEFINE event == consuming[c].event
           loaded == consuming[c].loaded
<1>1. /\ DOMAIN inbox' = DOMAIN inbox \cup {event}
      /\ inbox'[event].disposition = disposition(event, loaded)
      /\ \A e \in DOMAIN inbox : inbox'[e] = inbox[e]
  BY StoreRows
<1>2. loaded # None => projection \in Projection
  BY DEF Store, At, Types, ConsumptionFits
<1>3. CASE /\ disposition(event, loaded) = "APPLIED"
           /\ projection' \in Projection
           /\ projection'.aggregate_version = event
           /\ \A k \in Columns :
                \/ projection'.columns[k] = History[event][k]
                \/ /\ loaded # None
                   /\ projection'.columns[k] = projection.columns[k]
  <2> HIDE DEF event, loaded
  <2>1. projection' # None
    BY <1>3, NullAssumption
  <2>2. loaded # None => projection # None
    BY <1>2, NullAssumption
  <2>3. ASSUME NEW k \in Columns
        PROVE  \E e \in DOMAIN inbox' : /\ inbox'[e].disposition = "APPLIED"
                                        /\ projection'.columns[k] = History[e][k]
    <3>1. CASE projection'.columns[k] = History[event][k]
      BY <1>1, <1>3, <3>1
    <3>2. CASE loaded # None /\ projection'.columns[k] = projection.columns[k]
      <4>1. PICK e \in DOMAIN inbox : /\ inbox[e].disposition = "APPLIED"
                                      /\ projection.columns[k] = History[e][k]
        BY <2>2, <3>2 DEF ViewIsStored
      <4> QED
        BY <1>1, <3>2, <4>1
    <3> QED
      BY <1>3, <3>1, <3>2
  <2> QED
    BY <1>1, <1>3, <2>1, <2>3 DEF ViewIsStored
<1>4. CASE loaded # None /\ projection' = projection
  <2>1. projection # None
    BY <1>2, <1>4, NullAssumption
  <2> HIDE DEF event, loaded
  <2>2. /\ projection.aggregate_version \in DOMAIN inbox'
        /\ inbox'[projection.aggregate_version].disposition = "APPLIED"
    BY <1>1, <2>1 DEF ViewIsStored
  <2>3. \A k \in Columns : \E e \in DOMAIN inbox' :
          inbox'[e].disposition = "APPLIED" /\ projection.columns[k] = History[e][k]
    BY <1>1, <2>1 DEF ViewIsStored
  <2>4. DOMAIN inbox' # {}
    BY <1>1
  <2> QED
    BY <1>4, <2>1, <2>2, <2>3, <2>4 DEF ViewIsStored
<1>5. \/ /\ disposition(event, loaded) = "APPLIED"
         /\ projection' \in Projection
         /\ projection'.aggregate_version = event
         /\ \A k \in Columns :
              \/ projection'.columns[k] = History[event][k]
              \/ /\ loaded # None
                 /\ projection'.columns[k] = projection.columns[k]
      \/ loaded # None /\ projection' = projection
  BY StoreRows
<1> QED
  BY <1>3, <1>4, <1>5

LEMMA NextDelivered ==
    ASSUME Types, Delivered, [Next]_vars
    PROVE  Delivered'
<1>1. \/ UNCHANGED <<inbox, projection>>
      \/ \E c \in Consumers : Store(c)
  <2>1. \/ ConsumerNext
        \/ UNCHANGED <<inbox, projection>>
    BY DEF Next, create_outbox_event, Ask, Advance, Claim, NotReady, LoadEvent,
           Send, NotSent, Acknowledged, ReceiverRaised, Finalize, NotFinalized,
           Crash, Deliver, Answer, Tick, vars, consumerVars
  <2> QED
    BY <2>1 DEF ConsumerNext, Consume, LookUp, Load, Collide,
                Raise
<1>2. ViewIsStored
  BY DEF Delivered, DeliveredIsProcessed, ViewIsStored
<1>3. ViewIsStored'
  BY <1>1, <1>2, StoreView DEF ViewIsStored
<1>4. DOMAIN inbox \subseteq DOMAIN inbox'
  BY <1>1, StoreRows
<1>5. \A e \in DOMAIN outbox' : outbox'[e].status = "DELIVERED" => e \in DOMAIN inbox'
  BY <1>4, DeliveredRows DEF Delivered, DeliveredIsProcessed
<1>6. Delivering'
  BY NextDelivering DEF Delivered
<1> QED
  BY <1>3, <1>5, <1>6 DEF Delivered, DeliveredIsProcessed, ViewIsStored

\* With any number of dispatches and deliveries in the air, losing answers and
\* overtaking each other, the outbox calls an event delivered only if the
\* merchant has stored it, and the merchant's view is made of what it has
\* applied (_finalize_delivery, consume_webhook).
THEOREM DeliveredAlwaysProcessed == Spec => []DeliveredIsProcessed
<1>1. Init => Types /\ Delivered
  BY InitTypes, InitDelivered
<1>2. (Types /\ Delivered) /\ [Next]_vars => (Types /\ Delivered)'
  BY NextTypes, NextDelivered
<1>3. Delivered => DeliveredIsProcessed
  BY DEF Delivered
<1> QED
  BY <1>1, <1>2, <1>3, PTL DEF Spec

\* However many deliveries of one event there are at once, only those whose event
\* is in the inbox are answered with success (consume_webhook).
THEOREM AcceptedAlwaysStored == Spec => []AcceptedIsStored
<1>1. Init => Types /\ Delivered
  BY InitTypes, InitDelivered
<1>2. (Types /\ Delivered) /\ [Next]_vars => (Types /\ Delivered)'
  BY NextTypes, NextDelivered
<1>3. Delivered => AcceptedIsStored
  BY DEF Delivered, Delivering, JobStands, AcceptedIsStored, At, Processed
<1> QED
  BY <1>1, <1>2, <1>3, PTL DEF Spec

----------------------------------------------------------------------------
(* One delivery at a time.                                                 *)

\* With one consumption in progress, what it has read is still so.
ReadsHold(job) ==
    job # None =>
        /\ job.step \in {"load", "store"} => job.event \notin DOMAIN inbox
        /\ job.step = "store" => job.loaded = projection

Serial ==
    /\ \A c \in Consumers : ReadsHold(consuming[c])
    /\ ViewIsStored
    /\ ProjectionIsNewestProcessed
    /\ GapsAreVisible

\* The row a consumption stores, and the projection it leaves, when nothing
\* happened since it read.
LEMMA SerialStore ==
    ASSUME Types, Serial, NEW c \in Consumers, Store(c),
           NEW event, event = consuming[c].event
    PROVE  /\ event \in Nat \ {0} /\ event \notin DOMAIN inbox
           /\ DOMAIN inbox' = DOMAIN inbox \cup {event}
           /\ \A e \in DOMAIN inbox : inbox'[e] = inbox[e]
           /\ inbox'[event].disposition = disposition(event, projection)
           /\ inbox'[event].version_gap <=>
                /\ disposition(event, projection) = "APPLIED"
                /\ version_gap(event, projection)
           /\ disposition(event, projection) = "APPLIED" =>
                /\ projection' \in Projection
                /\ projection'.aggregate_version = event
                /\ projection'.columns = History[event]
           /\ disposition(event, projection) # "APPLIED" => projection' = projection
<1> DEFINE row == [disposition |-> disposition(event, projection),
                   version_gap |-> disposition(event, projection) = "APPLIED"
                                   /\ version_gap(event, projection)]
<1>1. consuming[c].loaded = projection
  BY DEF Store, At, Serial, ReadsHold
<1>2. /\ event \in DOMAIN History /\ event \in Nat \ {0}
      /\ History[event] \in [Columns -> Values]
      /\ projection # None => projection \in Projection
  BY OutboxRows, Slots DEF Store, At, Types, TypeOK, ConsumptionFits
<1>3. /\ event \notin DOMAIN inbox
      /\ inbox' = [e \in DOMAIN inbox \cup {event} |->
                     IF e = event THEN row ELSE inbox[e]]
      /\ projection' = IF disposition(event, projection) = "APPLIED"
                       THEN apply_projection(event, projection) ELSE projection
  BY <1>1 DEF Store, Processed
<1>4. /\ row.disposition = disposition(event, projection)
      /\ row.version_gap <=> /\ disposition(event, projection) = "APPLIED"
                             /\ version_gap(event, projection)
  OBVIOUS
<1>5. /\ apply_projection(event, projection) \in Projection
      /\ apply_projection(event, projection).aggregate_version = event
      /\ apply_projection(event, projection).columns = History[event]
  <2> DEFINE columns == [k \in Columns |->
                IF projection = None \/ History[event][k] # projection.columns[k]
                THEN History[event][k] ELSE projection.columns[k]]
  <2>1. columns = History[event]
    BY <1>2
  <2>2. apply_projection(event, projection) =
          [columns |-> columns, aggregate_version |-> event]
    BY DEF apply_projection
  <2> HIDE DEF columns
  <2> QED
    BY <1>2, <2>1, <2>2 DEF Projection
<1> HIDE DEF row
<1> QED
  BY <1>2, <1>3, <1>4, <1>5

LEMMA SerialView ==
    ASSUME Types, Serial, NEW c \in Consumers, Store(c)
    PROVE  ProjectionIsNewestProcessed' /\ GapsAreVisible'
<1> DEFINE event == consuming[c].event
<1>1. /\ event \in Nat \ {0} /\ event \notin DOMAIN inbox
      /\ DOMAIN inbox' = DOMAIN inbox \cup {event}
      /\ \A e \in DOMAIN inbox : inbox'[e] = inbox[e]
      /\ inbox'[event].disposition = disposition(event, projection)
      /\ inbox'[event].version_gap <=>
           /\ disposition(event, projection) = "APPLIED"
           /\ version_gap(event, projection)
      /\ disposition(event, projection) = "APPLIED" =>
           /\ projection' \in Projection
           /\ projection'.aggregate_version = event
           /\ projection'.columns = History[event]
      /\ disposition(event, projection) # "APPLIED" => projection' = projection
  BY SerialStore
<1> HIDE DEF event
<1>2. /\ \A e \in DOMAIN inbox : e \in Nat \ {0}
      /\ projection = None => DOMAIN inbox = {}
      /\ projection # None =>
           /\ projection \in Projection
           /\ projection.aggregate_version \in DOMAIN inbox
           /\ inbox[projection.aggregate_version].disposition = "APPLIED"
           /\ \A e \in DOMAIN inbox : e <= projection.aggregate_version
           /\ projection.columns = History[projection.aggregate_version]
  BY OutboxRows, Slots
     DEF Types, TypeOK, Serial, ViewIsStored, ProjectionIsNewestProcessed
<1>3. CASE projection = None
  <2>1. /\ DOMAIN inbox' = {event}
        /\ inbox'[event].disposition = "APPLIED"
        /\ inbox'[event].version_gap <=> event > 1
        /\ projection'.aggregate_version = event
        /\ projection'.columns = History[event]
        /\ projection' # None
    BY <1>1, <1>2, <1>3, NullAssumption DEF disposition, version_gap
  <2>2. event - 1 \notin DOMAIN inbox'
    BY <1>1, <2>1
  <2>3. ProjectionIsNewestProcessed'
    <3>1. projection'.columns = History[projection'.aggregate_version]
      BY <2>1
    <3>2. \A e \in DOMAIN inbox' : e <= projection'.aggregate_version
      BY <1>1, <2>1
    <3> QED
      BY <2>1, <3>1, <3>2 DEF ProjectionIsNewestProcessed
  <2>4. GapsAreVisible'
    BY <2>1, <2>2 DEF GapsAreVisible
  <2> QED
    BY <2>3, <2>4
<1>4. CASE projection # None
  <2> DEFINE last == projection.aggregate_version
  <2>1. /\ last \in Nat \ {0} /\ last \in DOMAIN inbox
        /\ inbox[last].disposition = "APPLIED"
        /\ \A e \in DOMAIN inbox : e <= last
        /\ projection.columns = History[last]
    BY <1>2, <1>4
  <2>2. /\ disposition(event, projection) =
             IF event > last THEN "APPLIED"
             ELSE IF event < last THEN "STALE"
             ELSE IF projection_matches(event, projection) THEN "REDUNDANT"
             ELSE "CONFLICT"
        /\ version_gap(event, projection) <=> event > last + 1
    BY <1>4 DEF disposition, version_gap
  <2> HIDE DEF last
  <2>3. ProjectionIsNewestProcessed'
    <3>1. CASE event > last
      <4>1. /\ projection' # None /\ projection'.aggregate_version = event
            /\ projection'.columns = History[event]
        BY <1>1, <2>2, <3>1, NullAssumption
      <4>2. \A e \in DOMAIN inbox' : e <= event
        BY <1>1, <1>2, <2>1, <3>1
      <4> QED
        BY <1>1, <4>1, <4>2 DEF ProjectionIsNewestProcessed
    <3>2. CASE event < last
      <4>1. projection' = projection
        BY <1>1, <2>1, <2>2, <3>2
      <4>2. last \in DOMAIN inbox' /\ \A e \in DOMAIN inbox' : e <= last
        BY <1>1, <2>1, <3>2
      <4> QED
        BY <1>4, <2>1, <4>1, <4>2 DEF ProjectionIsNewestProcessed, last
    <3> QED
      BY <1>1, <2>1, <3>1, <3>2
  <2>4. inbox'[event].version_gap <=>
          /\ inbox'[event].disposition = "APPLIED"
          /\ event > 1
          /\ ~(/\ event - 1 \in DOMAIN inbox'
               /\ inbox'[event - 1].disposition = "APPLIED")
    <3>1. CASE event > last + 1
      <4>1. event - 1 \notin DOMAIN inbox'
        BY <1>1, <2>1, <3>1
      <4> QED
        BY <1>1, <2>1, <2>2, <3>1, <4>1
    <3>2. CASE event = last + 1
      <4>1. /\ event - 1 = last /\ last \in DOMAIN inbox'
            /\ inbox'[last].disposition = "APPLIED"
        BY <1>1, <2>1, <3>2
      <4>2. ~ inbox'[event].version_gap
        BY <1>1, <2>1, <2>2, <3>2
      <4> QED
        BY <4>1, <4>2
    <3>3. CASE event < last
      <4>1. inbox'[event].disposition = "STALE"
        BY <1>1, <2>1, <2>2, <3>3
      <4> QED
        BY <1>1, <4>1
    <3> QED
      BY <1>1, <2>1, <3>1, <3>2, <3>3
  <2>5. ASSUME NEW e \in DOMAIN inbox
        PROVE  inbox'[e].version_gap <=>
                 /\ inbox'[e].disposition = "APPLIED"
                 /\ e > 1
                 /\ ~(/\ e - 1 \in DOMAIN inbox'
                      /\ inbox'[e - 1].disposition = "APPLIED")
    <3>1. /\ inbox'[e] = inbox[e]
          /\ inbox[e].version_gap <=>
               /\ inbox[e].disposition = "APPLIED"
               /\ e > 1
               /\ ~(e - 1 \in DOMAIN inbox /\ inbox[e - 1].disposition = "APPLIED")
      BY <1>1 DEF Serial, GapsAreVisible
    <3>2. CASE e - 1 = event
      <4>1. event < last
        BY <1>1, <1>2, <2>1, <3>2
      <4>2. inbox'[event].disposition = "STALE"
        BY <1>1, <2>1, <2>2, <4>1
      <4> QED
        BY <1>1, <3>1, <3>2, <4>2
    <3>3. CASE e - 1 # event
      BY <1>1, <3>1, <3>3
    <3> QED
      BY <3>2, <3>3
  <2>6. GapsAreVisible'
    BY <1>1, <2>4, <2>5 DEF GapsAreVisible
  <2> QED
    BY <2>3, <2>6
<1> QED
  BY <1>3, <1>4

\* A slot that goes on without a write reads what is there.
LEMMA ReadSerial ==
    ASSUME Types, Serial, UNCHANGED <<inbox, projection>>,
           NEW c \in Consumers, NEW job, ReadsHold(job),
           consuming' = [consuming EXCEPT ![c] = job]
    PROVE  Serial'
<1>1. \A q \in Consumers : consuming'[q] = IF q = c THEN job ELSE consuming[q]
  BY DEF Types, TypeOK
<1>2. \A q \in Consumers : ReadsHold(consuming[q])'
  BY <1>1 DEF Serial, ReadsHold
<1>3. ViewIsStored' /\ ProjectionIsNewestProcessed' /\ GapsAreVisible'
  BY DEF Serial, ViewIsStored, ProjectionIsNewestProcessed, GapsAreVisible
<1> QED
  BY <1>2, <1>3 DEF Serial

LEMMA ConsumeSerial ==
    ASSUME Types, Serial, NEW c \in Consumers,
           \A q \in Consumers : q = c,
           Consume(c)
    PROVE  Serial'
<1> DEFINE held == consuming[c]
<1>1. held # None /\ held \in Consumption /\ ReadsHold(held)
  BY DEF Consume, LookUp, Load, Store, Collide, Raise, At,
         Types, ConsumptionFits, Serial
<1>2. ASSUME NEW step, Ends(c, step)
      PROVE  /\ consuming' = [consuming EXCEPT ![c] = [held EXCEPT !.step = step]]
             /\ [held EXCEPT !.step = step].step = step
             /\ [held EXCEPT !.step = step].event = held.event
  BY <1>1, <1>2 DEF Ends, Consumption
<1>3. CASE LookUp(c) \/ Collide(c) \/ Raise(c)
  <2>1. PICK step \in {"load", "accepted", "raised"} :
          /\ Ends(c, step)
          /\ step = "load" => held.event \notin DOMAIN inbox
    BY <1>3 DEF LookUp, Collide, Raise, Processed
  <2>2. ReadsHold([held EXCEPT !.step = step])
    BY <1>2, <2>1 DEF ReadsHold
  <2>3. UNCHANGED <<inbox, projection>>
    BY <1>3 DEF LookUp, Collide, Raise
  <2> QED
    BY <1>2, <2>1, <2>2, <2>3, ReadSerial
<1>4. CASE Load(c)
  <2> DEFINE job == [event |-> held.event, step |-> "store", loaded |-> projection]
  <2>1. consuming' = [consuming EXCEPT ![c] =
                        [held EXCEPT !.step = "store", !.loaded = projection]]
    BY <1>4 DEF Load
  <2>2. consuming' = [consuming EXCEPT ![c] = job]
    BY <1>1, <2>1, LoadedJob
  <2>3. held.event \notin DOMAIN inbox
    BY <1>1, <1>4 DEF Load, At, ReadsHold
  <2>4. ReadsHold(job)
    BY <2>3 DEF ReadsHold
  <2>5. UNCHANGED <<inbox, projection>>
    BY <1>4 DEF Load
  <2> HIDE DEF job
  <2> QED
    BY <2>2, <2>4, <2>5, ReadSerial
<1>5. CASE Store(c)
  <2> DEFINE job == [held EXCEPT !.step = "accepted"]
  <2>1. consuming' = [consuming EXCEPT ![c] = job] /\ job.step = "accepted"
    BY <1>2, <1>5 DEF Store
  <2> HIDE DEF job
  <2>2. consuming'[c] = job
    BY <2>1 DEF Types, TypeOK
  <2>3. \A q \in Consumers : ReadsHold(consuming[q])'
    BY <2>1, <2>2 DEF ReadsHold
  <2>4. ViewIsStored'
    BY <1>5, StoreView DEF Serial
  <2> QED
    BY <1>5, <2>3, <2>4, SerialView DEF Serial
<1> QED
  BY <1>3, <1>4, <1>5 DEF Consume

LEMMA NextSerial ==
    ASSUME Types, Serial, [Next]_vars,
           \A c1, c2 \in Consumers : c1 = c2
    PROVE  Serial'
<1> DEFINE asked(event) == [event |-> event, step |-> "look_up", loaded |-> None]
<1>1. ReadsHold(None) /\ \A event : ReadsHold(asked(event))
  BY DEF ReadsHold
<1>2. CASE ConsumerNext
  BY <1>2, ConsumeSerial DEF ConsumerNext
<1>3. CASE UNCHANGED consumerVars
  BY <1>3 DEF Serial, ReadsHold, ViewIsStored, ProjectionIsNewestProcessed,
              GapsAreVisible, consumerVars
<1>4. ASSUME NEW c \in Consumers, UNCHANGED <<inbox, projection>>,
             \/ consuming' = [consuming EXCEPT ![c] = None]
             \/ \E event : consuming' = [consuming EXCEPT ![c] = asked(event)]
      PROVE  Serial'
  <2> HIDE DEF asked
  <2> QED
    BY <1>1, <1>4, ReadSerial
<1>5. \/ ConsumerNext
      \/ UNCHANGED consumerVars
      \/ /\ UNCHANGED <<inbox, projection>>
         /\ \E c \in Consumers :
              \/ consuming' = [consuming EXCEPT ![c] = None]
              \/ \E event : consuming' = [consuming EXCEPT ![c] = asked(event)]
  <2>1. ASSUME NEW d \in Dispatchers,
               \/ Crash(d) \/ Advance(d)
               \/ \E event \in DOMAIN outbox : Ask(d, event)
        PROVE  \/ UNCHANGED consumerVars
               \/ /\ UNCHANGED <<inbox, projection>>
                  /\ \/ consuming' = [consuming EXCEPT ![d] = None]
                     \/ \E event : consuming' = [consuming EXCEPT ![d] = asked(event)]
    BY <2>1 DEF Ask, Advance, Claim, NotReady, LoadEvent, Send, Receive, NotSent,
           Acknowledged, ReceiverRaised, Finalize, NotFinalized, Crash, consumerVars
  <2>2. ASSUME NEW c \in Endpoints,
               Answer(c) \/ \E event \in DOMAIN outbox : Deliver(c, event)
        PROVE  /\ UNCHANGED <<inbox, projection>>
               /\ \/ consuming' = [consuming EXCEPT ![c] = None]
                  \/ \E event : consuming' = [consuming EXCEPT ![c] = asked(event)]
    BY <2>2 DEF Answer, Deliver, Receive
  <2>3. create_outbox_event \/ Tick \/ UNCHANGED vars => UNCHANGED consumerVars
    BY DEF create_outbox_event, Tick, vars
  <2> HIDE DEF asked
  <2> QED
    BY <2>1, <2>2, <2>3, Slots DEF Next
<1> HIDE DEF asked
<1> QED
  BY <1>2, <1>3, <1>4, <1>5

LEMMA SerialInvariant ==
    ASSUME \A c1, c2 \in Consumers : c1 = c2
    PROVE  Spec => []Serial
<1>1. Init => Types /\ Serial
  <2>1. Init => Serial
    BY Slots DEF Init, ConsumerInit, Serial, ReadsHold, ViewIsStored,
           ProjectionIsNewestProcessed, GapsAreVisible
  <2> QED
    BY <2>1, InitTypes
<1>2. (Types /\ Serial) /\ [Next]_vars => (Types /\ Serial)'
  BY NextTypes, NextSerial
<1> QED
  BY <1>1, <1>2, PTL DEF Spec

\* With one delivery at a time, in any order, lost, repeated and interrupted at
\* any step, the merchant's view is the newest version it has stored
\* (consume_webhook, _apply_projection).
THEOREM ViewIsAlwaysNewest ==
    ASSUME \A c1, c2 \in Consumers : c1 = c2
    PROVE  Spec => []ProjectionIsNewestProcessed
<1>1. Spec => []Serial
  BY SerialInvariant
<1>2. Serial => ProjectionIsNewestProcessed
  BY DEF Serial
<1> QED
  BY <1>1, <1>2, PTL

\* With one delivery at a time, version_gap of an applied event tells exactly
\* that the version before it was never applied (consume_webhook).
THEOREM GapsAreAlwaysVisible ==
    ASSUME \A c1, c2 \in Consumers : c1 = c2
    PROVE  Spec => []GapsAreVisible
<1>1. Spec => []Serial
  BY SerialInvariant
<1>2. Serial => GapsAreVisible
  BY DEF Serial
<1> QED
  BY <1>1, <1>2, PTL
=============================================================================
