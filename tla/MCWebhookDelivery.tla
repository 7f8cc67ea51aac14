-------------------------- MODULE MCWebhookDelivery --------------------------
(***************************************************************************)
(* WebhookDelivery for TLC: an authorized payment, captured and partially  *)
(* refunded, and short delays.                                             *)
(***************************************************************************)
EXTENDS WebhookDelivery, TLC

AllColumns == {"status", "captured_amount", "refunded_amount"}

AllValues == {"AUTHORIZED", "CAPTURED", "PARTIALLY_REFUNDED", "0", "1", "2"}

Version(status, captured, refunded) ==
    [k \in AllColumns |-> CASE k = "status" -> status
                            [] k = "captured_amount" -> captured
                            [] k = "refunded_amount" -> refunded]

FullHistory == <<Version("AUTHORIZED", "0", "0"), Version("CAPTURED", "2", "0"),
                 Version("PARTIALLY_REFUNDED", "2", "1")>>

TwoVersions == SubSeq(FullHistory, 1, 2)

OneDelay == <<1>>

NoDelays == <<>>

----------------------------------------------------------------------------
(* A clock without an end, in finitely many states: only the differences   *)
(* between instants matter, so at MaxTime all of them move one back        *)
(* instead, and what is long past stays at 0. A dispatch that has yet to   *)
(* compare its instant with a lease holds the clock until it has.          *)

Earlier(t) == IF t \in {None, 0} THEN t ELSE t - 1

EarlierRow(row) == [row EXCEPT !.next_attempt_at = Earlier(@),
                               !.lease_expires_at = Earlier(@)]

LaterStill ==
    /\ now = MaxTime
    /\ \A d \in Dispatchers :
         Dispatching(d, "claim") => dispatching[d].at > 0
    /\ outbox' = [e \in DOMAIN outbox |-> EarlierRow(outbox[e])]
    /\ dispatching' =
         [d \in Dispatchers |->
            IF dispatching[d] = None THEN None
            ELSE [dispatching[d] EXCEPT
                    !.at = Earlier(@),
                    !.copy = IF @ = None THEN None ELSE EarlierRow(@)]]
    /\ UNCHANGED <<consumerVars, attempts, now>>

EndlessSpec ==
    /\ Init /\ [][Next \/ LaterStill]_vars
    /\ Fairness /\ WF_vars(LaterStill)

----------------------------------------------------------------------------
Identities == Permutations(Dispatchers) \cup Permutations(Endpoints)

Slots == Dispatchers \cup Endpoints
=============================================================================
