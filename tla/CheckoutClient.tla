--------------------------- MODULE CheckoutClient ---------------------------
(***************************************************************************)
(* One browser tab of the checkout (web/checkout/checkout.js) against the  *)
(* payment service. The page keeps its state in memory and its key, its    *)
(* submission and its last payment in sessionStorage; a reload loses the   *)
(* first, keeps the second, and leaves requests running at the service.    *)
(*                                                                         *)
(* The service is PaymentLifecycle: a submission is an authorization under *)
(* the tab's key, and other clients capture, refund and cancel meanwhile.  *)
(* A request that is slow to arrive does nothing that one which is slow    *)
(* after its look-up does not do, so a request arrives at once or never.   *)
(***************************************************************************)
EXTENDS PaymentLifecycle, CheckoutMoney

CONSTANTS
    TabKeys,         \* what crypto.randomUUID may return
    TabRequests,     \* submissions of this tab that may be in progress at once
    Forms,           \* what the customer may fill in
    Undefined        \* the id of a payment whose answer had no body

ASSUME TabAssumption ==
    /\ TabKeys \subseteq Keys /\ TabRequests \subseteq Requests
    /\ Forms \subseteq [amount: AmountText, currency: Currencies, token: Tokens]
    /\ Undefined \notin PaymentIds \cup {None}
    /\ None \notin TabKeys \cup TabRequests \cup AuthorizationCommand

VARIABLES
    activeKey,         \* sessionStorage: the key of the active submission
    activeSubmission,  \* sessionStorage: the submission
    lastPaymentId,     \* sessionStorage: the payment last shown
    uiState,
    form,              \* the controls, as last filled in or restored
    currentPayment,    \* the payment on display, or NoPayment
    refreshFailed,
    posting,           \* the request whose answer the page awaits, or None
    reading,           \* GET requests in flight
    minted,            \* the keys that have been handed out
    seen,              \* history: the payments that have been displayed
    abandoned          \* history: the keys dropped without showing a payment

storageVars == <<activeKey, activeSubmission, lastPaymentId>>

pageVars == <<uiState, form, currentPayment, refreshFailed, posting, reading>>

tabVars == <<storageVars, pageVars, minted, seen, abandoned>>

serviceVars == <<storeVars, lifecycleVars>>

vars == <<tabVars, serviceVars>>

----------------------------------------------------------------------------
(* checkout-view.js. An event without a transition throws.                 *)

UiStates == {"editing", "restoring", "processing", "final", "uncertain", "error"}

allowedTransitions ==
    [editing |-> [start_restore |-> "restoring",
                  start_submission |-> "processing",
                  show_error |-> "error", reset |-> "editing"],
     restoring |-> [restore_empty |-> "editing", payment_resolved |-> "final",
                    result_uncertain |-> "uncertain", show_error |-> "error",
                    reset |-> "editing"],
     processing |-> [payment_resolved |-> "final",
                     result_uncertain |-> "uncertain", show_error |-> "error",
                     reset |-> "editing"],
     final |-> [reset |-> "editing"],
     uncertain |-> [start_submission |-> "processing", reset |-> "editing"],
     error |-> [reset |-> "editing"]]

transitionUiState_NoRestoredRetry(state, event) ==
    IF event \in DOMAIN allowedTransitions[state]
       /\ <<state, event>> # <<"restoring", "result_uncertain">>
    THEN allowedTransitions[state][event] ELSE "thrown"

transitionUiState_NoRetry(state, event) ==
    IF event \in DOMAIN allowedTransitions[state] /\ state # "uncertain"
    THEN allowedTransitions[state][event] ELSE "thrown"

transitionUiState(state, event) ==
    IF event \in DOMAIN allowedTransitions[state]
    THEN allowedTransitions[state][event] ELSE "thrown"

moveUi(event) == uiState' = transitionUiState(uiState, event)

----------------------------------------------------------------------------
(* The controls. The stored outcome and the token name each other.         *)

Form == [amount: AmountText, currency: Currencies, token: Tokens]

\* A payment on display; one without a body has no row.
Display == [id: PaymentIds \cup {Undefined, None}, row: Payment \cup {None}]

NoPayment == [id |-> None, row |-> None]

Displayed == currentPayment # NoPayment

ReadRequest ==
    [reason: {"restore", "refresh"}, id: PaymentIds \cup {Undefined},
     row: Payment \cup {None}]

Submission(controls) ==
    [operation |-> "AUTHORIZE",
     amount |-> MinorUnits(controls.amount, controls.currency),
     currency |-> controls.currency, token |-> controls.token]

validateForm(controls) ==
    /\ IsMinorUnits(controls.amount, controls.currency)
    /\ Submission(controls) \in AuthorizationCommand

RestoredForm(submission) ==
    [amount |-> displayAmountFromMinorUnits(submission.amount, submission.currency),
     currency |-> submission.currency, token |-> submission.token]

\* A declined payment names its reason, and the reason its token.
populateControlsFromPayment_KeptAmount(row) ==
    [amount |-> Text(row.amount, <<>>), currency |-> row.currency,
     token |-> IF row.payment_flow = "ASYNCHRONOUS_CONFIRMATION"
               THEN "AWAIT_CONFIRMATION"
               ELSE IF row.status # "DECLINED" THEN "APPROVE" ELSE "DECLINE"]

populateControlsFromPayment(row) ==
    [amount |-> displayAmountFromMinorUnits(row.amount, row.currency),
     currency |-> row.currency,
     token |-> IF row.payment_flow = "ASYNCHRONOUS_CONFIRMATION"
               THEN "AWAIT_CONFIRMATION"
               ELSE IF row.status # "DECLINED" THEN "APPROVE" ELSE "DECLINE"]

----------------------------------------------------------------------------
(* Submission and retry.                                                   *)

activeIdempotencyKey_AlwaysNew(key) ==
    /\ key \in TabKeys \ minted
    /\ activeKey' = key
    /\ minted' = minted \cup {key}

activeIdempotencyKey(key) ==
    /\ IF activeKey # None THEN key = activeKey ELSE key \in TabKeys \ minted
    /\ activeKey' = key
    /\ minted' = minted \cup {key}

storeActiveSubmission(submission) == activeSubmission' = submission

clearActiveSubmission == activeKey' = None /\ activeSubmission' = None

\* The service gets the request, or the connection fails before it does.
Sent(key, command) ==
    \/ \E r \in TabRequests :
         /\ requests[r] = None
         /\ Arrive(r, command, key, None)
         /\ posting' = r
    \/ posting' = None /\ UNCHANGED serviceVars

submitPayment(controls) ==
    /\ validateForm(controls)
    /\ moveUi("start_submission")
    /\ form' = controls
    /\ \E key \in TabKeys :
         activeIdempotencyKey(key) /\ Sent(key, Submission(controls))
    /\ storeActiveSubmission(Submission(controls))
    /\ UNCHANGED <<lastPaymentId, currentPayment, refreshFailed, reading, seen,
                   abandoned>>

\* The controls can be changed only while the page is editing.
Submit ==
    /\ uiState = "editing"
    /\ \E controls \in Forms : submitPayment(controls)

\* The controls are disabled, and keep what was submitted.
Retry ==
    /\ uiState = "uncertain"
    /\ submitPayment(form)

\* The service has done with the request that the page awaits.
Answered == posting # None /\ requests[posting] = None

\* response.json().catch(() => ({})): when the body is lost after the status,
\* the page resolves a payment without any field.
Bodies(answer) ==
    {[id |-> answer.payment_id, row |-> answer.payment],
     [id |-> Undefined, row |-> None]}

Resolves(body) ==
    /\ lastPaymentId' = body.id
    /\ currentPayment' = body
    /\ seen' = seen \cup ({body.id} \cap PaymentIds)
    /\ abandoned' = IF body.id = Undefined THEN abandoned \cup {activeKey}
                    ELSE abandoned
    /\ moveUi("payment_resolved")
    /\ posting' = None
    /\ UNCHANGED <<form, refreshFailed, reading, minted, serviceVars>>

PaymentResolved ==
    /\ uiState = "processing" /\ Answered /\ answers[posting] # None
    /\ \E body \in Bodies(answers[posting]) : Resolves(body)
    /\ clearActiveSubmission

\* 504 payment_timeout, or fetch throws, whatever the service does next.
ResultUncertain_KeyDropped ==
    /\ uiState = "processing"
    /\ clearActiveSubmission
    /\ currentPayment' = NoPayment
    /\ moveUi("result_uncertain")
    /\ posting' = None
    /\ UNCHANGED <<lastPaymentId, form, refreshFailed, reading, minted, seen,
                   abandoned, serviceVars>>

ResultUncertain ==
    /\ uiState = "processing"
    /\ currentPayment' = NoPayment
    /\ moveUi("result_uncertain")
    /\ posting' = None
    /\ UNCHANGED <<storageVars, form, refreshFailed, reading, minted, seen,
                   abandoned, serviceVars>>

\* Any other answer: a conflict, a refused field, an unhandled exception, also
\* one after the commit, a 504 whose body is lost. The page takes the payment to
\* have failed, and drops its key.
ErrorStatus ==
    /\ uiState = "processing" /\ Answered /\ answers[posting] = None
    /\ clearActiveSubmission
    /\ abandoned' = abandoned \cup {activeKey}
    /\ currentPayment' = NoPayment
    /\ moveUi("show_error")
    /\ posting' = None
    /\ UNCHANGED <<lastPaymentId, form, refreshFailed, reading, minted, seen,
                   serviceVars>>

----------------------------------------------------------------------------
(* A new payment, from a result that may be left.                          *)

Refreshing == \E request \in reading : request.reason = "refresh"

CanLeave_WhileRefreshing == uiState \in {"final", "error"}

\* The button is hidden while the result is uncertain, disabled in a refresh.
CanLeave == uiState \in {"final", "error"} /\ ~Refreshing

resetCheckout_KeepsPayment ==
    /\ CanLeave
    /\ refreshFailed' = FALSE
    /\ currentPayment' = NoPayment
    /\ clearActiveSubmission
    /\ form' = None
    /\ moveUi("reset")
    /\ UNCHANGED <<lastPaymentId, posting, reading, minted, seen, abandoned,
                   serviceVars>>

resetCheckout ==
    /\ CanLeave
    /\ refreshFailed' = FALSE
    /\ currentPayment' = NoPayment
    /\ clearActiveSubmission
    /\ lastPaymentId' = None
    /\ form' = None
    /\ moveUi("reset")
    /\ UNCHANGED <<posting, reading, minted, seen, abandoned, serviceVars>>

----------------------------------------------------------------------------
(* Loading the page again, at any time.                                    *)

Resumable == activeKey # None /\ activeSubmission # None

\* restorePayment, from START_RESTORE to its first await or its end.
restorePayment ==
    LET restoring == transitionUiState("editing", "start_restore")
    IN  IF lastPaymentId # None
        THEN /\ uiState' = restoring
             /\ form' = None
             /\ reading' = {[reason |-> "restore", id |-> lastPaymentId,
                             row |-> None]}
             /\ UNCHANGED storageVars
        ELSE /\ reading' = {}
             /\ UNCHANGED lastPaymentId
             /\ IF Resumable
                THEN /\ form' = RestoredForm(activeSubmission)
                     /\ uiState' = transitionUiState(restoring, "result_uncertain")
                     /\ UNCHANGED <<activeKey, activeSubmission>>
                ELSE /\ clearActiveSubmission
                     /\ form' = None
                     /\ uiState' = transitionUiState(restoring, "restore_empty")

Reload ==
    /\ restorePayment
    /\ currentPayment' = NoPayment
    /\ refreshFailed' = FALSE
    /\ posting' = None
    /\ UNCHANGED <<minted, seen, abandoned, serviceVars>>

\* retrieve_payment answers with the row as it is when the request is served.
ServeRead(request) ==
    /\ request \in reading
    /\ request.row = None
    /\ request.id \in DOMAIN payments
    /\ reading' = (reading \ {request})
                    \cup {[request EXCEPT !.row = payments[request.id]]}
    /\ UNCHANGED <<storageVars, uiState, form, currentPayment, refreshFailed,
                   posting, minted, seen, abandoned, serviceVars>>

Restored(request) ==
    /\ request \in reading
    /\ request.reason = "restore"
    /\ request.row # None
    /\ currentPayment' = [id |-> request.id, row |-> request.row]
    /\ form' = populateControlsFromPayment(request.row)
    /\ seen' = seen \cup {request.id}
    /\ moveUi("payment_resolved")
    /\ reading' = reading \ {request}
    /\ UNCHANGED <<storageVars, refreshFailed, posting, minted, abandoned,
                   serviceVars>>

\* An error status forgets the payment's id; a failed fetch keeps it.
NotRestored(request) ==
    /\ request \in reading
    /\ request.reason = "restore"
    /\ lastPaymentId' \in {lastPaymentId, None}
    /\ moveUi("show_error")
    /\ reading' = reading \ {request}
    /\ UNCHANGED <<activeKey, activeSubmission, form, currentPayment,
                   refreshFailed, posting, minted, seen, abandoned, serviceVars>>

----------------------------------------------------------------------------
(* "Check payment status", which the page offers for a delayed payment.    *)

CanRefresh ==
    /\ uiState = "final"
    /\ ~Refreshing
    /\ currentPayment.row # None
    /\ currentPayment.row.payment_flow = "ASYNCHRONOUS_CONFIRMATION"

StartRefresh ==
    /\ CanRefresh
    /\ refreshFailed' = FALSE
    /\ reading' = reading \cup {[reason |-> "refresh", id |-> currentPayment.id,
                                 row |-> None]}
    /\ UNCHANGED <<storageVars, uiState, form, currentPayment, posting, minted,
                   seen, abandoned, serviceVars>>

Refreshed(request) ==
    /\ request \in reading
    /\ request.reason = "refresh"
    /\ request.row # None
    /\ currentPayment' = [id |-> request.id, row |-> request.row]
    /\ reading' = reading \ {request}
    /\ UNCHANGED <<storageVars, uiState, form, refreshFailed, posting, minted,
                   seen, abandoned, serviceVars>>

NotRefreshed(request) ==
    /\ request \in reading
    /\ request.reason = "refresh"
    /\ refreshFailed' = TRUE
    /\ reading' = reading \ {request}
    /\ UNCHANGED <<storageVars, uiState, form, currentPayment, posting, minted,
                   seen, abandoned, serviceVars>>

----------------------------------------------------------------------------
(* The tab and the service together.                                       *)

Init ==
    /\ StoreInit /\ LifecycleInit
    /\ activeKey = None /\ activeSubmission = None /\ lastPaymentId = None
    /\ uiState = "editing" /\ form = None /\ currentPayment = NoPayment
    /\ refreshFailed = FALSE /\ posting = None /\ reading = {}
    /\ minted = {} /\ seen = {} /\ abandoned = {}

\* Other clients, with keys of their own, work on the payments of this tab.
Elsewhere ==
    \E r \in Requests \ TabRequests, command \in LifecycleCommand,
       key \in Keys \ TabKeys :
        /\ Sendable(command)
        /\ Arrive(r, command, key, None)

Service ==
    /\ \/ \E r \in Requests : Perform(r) \/ Interrupt(r)
       \/ Elsewhere
    /\ UNCHANGED tabVars

Read ==
    \E request \in reading :
        \/ ServeRead(request)
        \/ Restored(request) \/ NotRestored(request)
        \/ Refreshed(request) \/ NotRefreshed(request)

Next ==
    \/ Submit \/ Retry
    \/ PaymentResolved \/ ResultUncertain \/ ErrorStatus
    \/ resetCheckout
    \/ Reload
    \/ StartRefresh
    \/ Read
    \/ Service

Spec == Init /\ [][Next]_vars

\* The customer keeps retrying an uncertain result; a request ends, a fetch
\* settles, and a submission that is tried again and again is neither stopped
\* nor left without an answer every time. Nobody has to reload, refresh, leave
\* or start anything, and other clients owe nothing.
Fairness ==
    /\ WF_vars(ResultUncertain)
    /\ SF_vars(PaymentResolved)
    /\ SF_vars(Retry /\ posting' # None)
    /\ \A r \in TabRequests :
         /\ WF_vars((Perform(r) \/ Interrupt(r)) /\ UNCHANGED tabVars)
         /\ SF_vars(Perform(r) /\ UNCHANGED tabVars)

FairSpec == Spec /\ Fairness

----------------------------------------------------------------------------
(* Type invariant.                                                         *)

\* What the tab holds has the type the code gives it, and no event reaches the
\* page in a state without a transition for it.
TypeOK ==
    /\ activeKey \in TabKeys \cup {None}
    /\ activeSubmission \in AuthorizationCommand \cup {None}
    /\ lastPaymentId \in PaymentIds \cup {Undefined, None}
    /\ uiState \in UiStates
    /\ form \in Form \cup {None}
    /\ currentPayment \in Display
    /\ refreshFailed \in BOOLEAN
    /\ posting \in TabRequests \cup {None}
    /\ reading \subseteq ReadRequest
    /\ minted \subseteq TabKeys
    /\ seen \subseteq PaymentIds
    /\ abandoned \subseteq TabKeys

----------------------------------------------------------------------------
(* What the customer can rely on.                                          *)

\* Lost requests, thrown fetches, timeouts and reloads alone never lose sight of
\* a payment: whenever one was made for this tab, or still may be, it has been
\* displayed, or its key is still the active one, or the page dropped the key
\* itself, on an error status or on a success without a body.
UncertainPaymentsStayRetryable ==
    /\ \A k \in DOMAIN idempotency \cap TabKeys :
         k \in abandoned \cup {activeKey} \/ idempotency[k].payment_id \in seen
    /\ \A r \in Requests :
         requests[r] # None /\ requests[r].key \in TabKeys =>
            \/ requests[r].key \in abandoned \cup {activeKey}
            \/ KeyTaken(requests[r].key)

\* scenario-catalog.md (UX-1), REG-04: when a committed response becomes
\* uncertain, the page shows uncertainty and a safe retry remains. So it would
\* never drop the key of a payment that is or may be made and was not displayed.
\* checkout.js drops it on every status but success and 504 payment_timeout, and
\* on a success whose body it cannot read.
PaymentsAreShownOrRetryable ==
    /\ \A k \in DOMAIN idempotency \cap TabKeys :
         k = activeKey \/ idempotency[k].payment_id \in seen
    /\ \A r \in Requests :
         requests[r] # None /\ requests[r].key \in TabKeys =>
            requests[r].key = activeKey \/ KeyTaken(requests[r].key)

\* A retry, from the page or from what a reload restored, asks for exactly what
\* the first attempt asked for, so the service never takes it for a conflict.
RetriesAskTheSame ==
    activeKey # None =>
        /\ KeyTaken(activeKey) =>
             idempotency[activeKey].request_fingerprint = activeSubmission
        /\ \A r \in Requests :
             requests[r] # None /\ requests[r].key = activeKey =>
                requests[r].command = activeSubmission
        /\ uiState \in {"processing", "uncertain"} =>
             validateForm(form) /\ Submission(form) = activeSubmission

\* What a reload would restore is what the page is showing: an uncertain
\* submission, a result, or neither, and never a payment of another one.
ReloadShowsTheSame ==
    /\ activeKey = None <=> activeSubmission = None
    /\ activeKey # None => lastPaymentId = None
    /\ uiState \in {"processing", "uncertain"} <=> activeKey # None
    /\ uiState \in {"restoring", "final"} => lastPaymentId # None
    /\ uiState = "editing" => lastPaymentId = None
    /\ uiState = "final" <=> Displayed
    /\ Displayed => lastPaymentId = currentPayment.id

\* The page takes the status from the payment and the money from the controls:
\* they are of one payment, however it came to be displayed.
ResultIsOnePayment ==
    uiState = "final" /\ currentPayment.row # None =>
        /\ validateForm(form)
        /\ Submission(form).amount = currentPayment.row.amount
        /\ form.currency = currentPayment.row.currency
        /\ currentPayment.row \in
             {events[currentPayment.id][v].payment :
                v \in DOMAIN events[currentPayment.id]}

\* Until it is left or the page is loaded again, a displayed payment is never
\* exchanged for another one or for an older version of itself, whenever the
\* answers of its refreshes arrive.
DisplayIsStable ==
    [][Displayed /\ Displayed' =>
         /\ currentPayment'.id = currentPayment.id
         /\ currentPayment.row # None =>
              currentPayment'.row.version >= currentPayment.row.version]_vars

\* Retrying ends: an uncertain submission does not stay uncertain for ever,
\* however often the page is reloaded meanwhile.
SubmissionsResolve ==
    \A k \in TabKeys : activeKey = k ~> activeKey # k

----------------------------------------------------------------------------
(* The contract.                                                           *)

\* The orders of this tab are named by their keys: the active one, and those
\* that are paid or that a request may still pay.
Attempts(k) == {r \in Requests : requests[r] # None /\ requests[r].key = k}

OrderKeys ==
    {k \in TabKeys : k = activeKey \/ KeyTaken(k) \/ Attempts(k) # {}}

PaymentOf(k) == IF KeyTaken(k) THEN idempotency[k].payment_id ELSE None

CommandOf(k) ==
    IF k = activeKey THEN activeSubmission
    ELSE IF KeyTaken(k) THEN idempotency[k].request_fingerprint
    ELSE requests[CHOOSE r \in Attempts(k) : TRUE].command

\* An order that is neither told nor given up nor awaited is lost, which is no
\* fate the contract knows.
FateOf(k) ==
    IF k = activeKey THEN "awaited"
    ELSE IF PaymentOf(k) \in seen THEN "told"
    ELSE IF k \in abandoned THEN "given up" ELSE "lost"

OrderOf(k) ==
    [command |-> CommandOf(k), payment |-> PaymentOf(k), fate |-> FateOf(k)]

TabOrders == [k \in OrderKeys |-> OrderOf(k)]

Contract == INSTANCE CheckoutContract WITH
    Orders <- TabKeys,
    Commands <- AuthorizationCommand,
    orders <- TabOrders

\* The checkout and the service together, with their retries, reloads and lost
\* answers, await one order at a time, make at most one payment for it, for what
\* it asked, and forget none without a word: it is told, given up or lapses.
ImplementsContract == Contract!Spec
=============================================================================
