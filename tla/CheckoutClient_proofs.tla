----------------------- MODULE CheckoutClient_proofs ------------------------
(***************************************************************************)
(* Theorems about CheckoutMoney and CheckoutClient for every value of      *)
(* their constants.                                                        *)
(***************************************************************************)
EXTENDS CheckoutClient, TLAPS

----------------------------------------------------------------------------
(* Money.                                                                  *)

\* A number is its hundreds and its two last digits.
LEMMA TwoDigits ==
    ASSUME NEW n \in Nat
    PROVE  /\ n \div 100 \in Nat
           /\ (n % 100) \div 10 \in 0..9
           /\ n % 10 \in 0..9
           /\ n = 100 * (n \div 100) + (10 * ((n % 100) \div 10) + (n % 10))
<1>1. n % 100 \in 0..99 /\ n \div 100 \in Nat /\ n = 100 * (n \div 100) + (n % 100)
  BY SMT
<1>2. ASSUME NEW m \in 0..99
      PROVE  m \div 10 \in 0..9 /\ m % 10 \in 0..9 /\ m = 10 * (m \div 10) + (m % 10)
  BY SMT
<1>3. (n % 100) % 10 = n % 10
  BY SMT
<1> QED
  BY <1>1, <1>2, <1>3, SMT

\* What the page shows for an amount within the limit, in any currency, is an
\* amount the form accepts, and reads back as the same minor units
\* (displayAmountFromMinorUnits and parseMinorUnits).
THEOREM DisplayRoundTrips ==
    ASSUME NEW amount \in Nat, boundedInteger(amount), NEW currency
    PROVE  LET text == displayAmountFromMinorUnits(amount, currency)
           IN  /\ text \in AmountText
               /\ IsMinorUnits(text, currency)
               /\ MinorUnits(text, currency) = amount
<1> DEFINE text == displayAmountFromMinorUnits(amount, currency)
<1>1. CASE currency = "JPY"
  <2>1. text = [whole |-> amount, fraction |-> <<>>]
    BY <1>1 DEF displayAmountFromMinorUnits, Text
  <2>2. text \in AmountText
    BY <2>1 DEF AmountText
  <2>3. MinorUnits(text, currency) = amount
    BY <1>1, <2>1 DEF MinorUnits
  <2> QED
    BY <1>1, <2>1, <2>2, <2>3 DEF IsMinorUnits
<1>2. CASE currency # "JPY"
  <2> DEFINE whole == amount \div 100
             tens == (amount % 100) \div 10
             ones == amount % 10
  <2>1. text = [whole |-> whole, fraction |-> <<tens, ones>>]
    BY <1>2 DEF displayAmountFromMinorUnits, Text
  <2>2. /\ whole \in Nat /\ tens \in 0..9 /\ ones \in 0..9
        /\ amount = 100 * whole + (10 * tens + ones)
    BY TwoDigits
  <2> HIDE DEF whole, tens, ones
  <2>3. Len(<<tens, ones>>) = 2 /\ <<tens, ones>> \in Seq(Digit)
    BY <2>2 DEF Digit
  <2>4. Cents(<<tens, ones>>) = 10 * tens + ones
    BY <2>2, <2>3 DEF Cents
  <2>5. MinorUnits(text, currency) = amount
    BY <1>2, <2>1, <2>2, <2>4 DEF MinorUnits
  <2>6. text \in AmountText
    BY <2>1, <2>2, <2>3 DEF AmountText
  <2> QED
    BY <1>2, <2>1, <2>3, <2>5, <2>6 DEF IsMinorUnits
<1> QED
  BY <1>1, <1>2

----------------------------------------------------------------------------
(* The inductive invariant.                                                *)

\* The service's slots are functions, and its payments have identities. The
\* contents of the rows do not matter to the tab.
ServiceShape ==
    /\ requests = [r \in Requests |-> requests[r]]
    /\ answers = [r \in Requests |-> answers[r]]
    /\ DOMAIN payments \subseteq PaymentIds
    /\ \A k \in DOMAIN idempotency : idempotency[k].payment_id \in PaymentIds

InFlight(r, key) == requests[r] # None /\ requests[r].key = key

\* A key of this tab was handed out before anything used it.
KeysAreMinted ==
    /\ minted \subseteq TabKeys
    /\ activeKey \in minted \cup {None}
    /\ DOMAIN idempotency \cap TabKeys \subseteq minted
    /\ \A r \in Requests, k \in TabKeys : InFlight(r, k) => k \in minted

\* The answer the page waits for is about the active key.
PostingIsActive ==
    posting # None =>
        /\ posting \in TabRequests
        /\ uiState = "processing"
        /\ requests[posting] # None => requests[posting].key = activeKey
        /\ requests[posting] = None /\ answers[posting] # None =>
             /\ KeyTaken(activeKey)
             /\ answers[posting].payment_id = idempotency[activeKey].payment_id
             /\ answers[posting].payment = idempotency[activeKey].response_snapshot

\* At most one read is in flight, of the payment the page is about.
ReadsAreCurrent ==
    /\ uiState \in UiStates
    /\ \A request \in reading :
         /\ reading = {request}
         /\ request = [reason |-> request.reason, id |-> lastPaymentId,
                       row |-> request.row]
         /\ \/ request.reason = "restore" /\ uiState = "restoring"
            \/ request.reason = "refresh" /\ uiState = "final"

\* A stored submission is one the form has accepted.
SubmissionIsValid ==
    activeSubmission # None =>
        /\ activeSubmission \in AuthorizationCommand
        /\ boundedInteger(activeSubmission.amount)

IInv ==
    /\ ServiceShape
    /\ KeysAreMinted
    /\ PostingIsActive
    /\ ReadsAreCurrent
    /\ ReloadShowsTheSame
    /\ SubmissionIsValid
    /\ RetriesAskTheSame

----------------------------------------------------------------------------
(* The service, as far as the tab can tell.                                *)

\* Only slot r may change.
OnlySlot(r) ==
    /\ requests' = [q \in Requests |-> requests'[q]]
    /\ answers' = [q \in Requests |-> answers'[q]]
    /\ \A q \in Requests \ {r} :
         requests'[q] = requests[q] /\ answers'[q] = answers[q]

AnswerIsRecorded(r, key) ==
    answers'[r] # None =>
        /\ key \in DOMAIN idempotency'
        /\ answers'[r].payment_id = idempotency'[key].payment_id
        /\ answers'[r].payment = idempotency'[key].response_snapshot

\* A request arrives: it is answered at once, or waits with its key.
Arrived(r, command, key) ==
    /\ r \in Requests
    /\ OnlySlot(r)
    /\ UNCHANGED <<payments, idempotency>>
    /\ requests[r] = None
    /\ \/ requests'[r] = None /\ AnswerIsRecorded(r, key)
       \/ /\ requests'[r].key = key
          /\ requests'[r].command = command
          /\ answers'[r] = None

\* A request ends; at most it has used its own key, and for the first time.
Ended(r) ==
    /\ r \in Requests
    /\ OnlySlot(r)
    /\ DOMAIN payments' \subseteq PaymentIds
    /\ requests[r] # None
    /\ requests'[r] = None
    /\ AnswerIsRecorded(r, requests[r].key)
    /\ \/ idempotency' = idempotency
       \/ /\ ~KeyTaken(requests[r].key)
          /\ DOMAIN idempotency' = DOMAIN idempotency \cup {requests[r].key}
          /\ \A k \in DOMAIN idempotency : idempotency'[k] = idempotency[k]
          /\ idempotency'[requests[r].key].request_fingerprint = requests[r].command
          /\ idempotency'[requests[r].key].payment_id \in PaymentIds

\* What _find_idempotent_snapshot returns is the recorded payment, or nothing.
LEMMA FoundSnapshot ==
    ASSUME NEW key, NEW command,
           find_idempotent_snapshot(key, command) # None
    PROVE  /\ find_idempotent_snapshot(key, command).payment_id =
                idempotency[key].payment_id
           /\ find_idempotent_snapshot(key, command).payment =
                idempotency[key].response_snapshot
BY DEF find_idempotent_snapshot

\* Arrive, with the slots and the records it leaves alone.
LEMMA ArriveStep ==
    ASSUME ServiceShape, NEW r \in Requests, NEW command, NEW key, NEW copy,
           Arrive(r, command, key, copy)
    PROVE  Arrived(r, command, key)
<1> USE DEF ServiceShape
<1>1. requests[r] = None /\ UNCHANGED <<payments, idempotency>>
  BY DEF Arrive, storeVars
<1>2. CASE KeyTaken(key) /\ command.operation # "CANCEL"
  <2>1. /\ requests' = [requests EXCEPT ![r] = None]
        /\ answers' = [answers EXCEPT ![r] = find_idempotent_snapshot(key, command)]
    BY <1>2 DEF Arrive, Done
  <2>2. OnlySlot(r) /\ requests'[r] = None
        /\ answers'[r] = find_idempotent_snapshot(key, command)
    BY <2>1 DEF OnlySlot
  <2>3. AnswerIsRecorded(r, key)
    BY <1>1, <1>2, <2>2, FoundSnapshot DEF AnswerIsRecorded, KeyTaken
  <2> QED
    BY <1>1, <2>2, <2>3 DEF Arrived
<1>3. CASE ~(KeyTaken(key) /\ command.operation # "CANCEL")
  <2> DEFINE request == [command |-> command, key |-> key, copy |-> copy,
                         at |-> IF command.operation = "AUTHORIZE" THEN now ELSE 0]
  <2>1. /\ requests' = [requests EXCEPT ![r] = request]
        /\ answers' = [answers EXCEPT ![r] = None]
    BY <1>3 DEF Arrive
  <2>2. request.key = key /\ request.command = command
    OBVIOUS
  <2> HIDE DEF request
  <2>3. OnlySlot(r) /\ requests'[r] = request /\ answers'[r] = None
    BY <2>1 DEF OnlySlot
  <2> QED
    BY <1>1, <2>2, <2>3 DEF Arrived
<1> QED
  BY <1>2, <1>3

\* Done empties one slot and leaves an answer in it.
LEMMA DoneSlot ==
    ASSUME ServiceShape, NEW r \in Requests, NEW answer, Done(r, answer)
    PROVE  OnlySlot(r) /\ requests'[r] = None /\ answers'[r] = answer
BY DEF ServiceShape, Done, OnlySlot

\* _commit_payment_outcome: the key is recorded with its payment.
LEMMA CommitStep ==
    ASSUME ServiceShape, NEW r \in Requests, NEW p \in PaymentIds, NEW row,
           Claims(r), Commit(r, p, row), DOMAIN payments' \subseteq PaymentIds
    PROVE  Ended(r)
<1> DEFINE key == requests[r].key
           record == [request_fingerprint |-> requests[r].command,
                      payment_id |-> p, response_snapshot |-> row]
           answer == [key |-> key, command |-> requests[r].command,
                      payment_id |-> p, payment |-> row]
<1>1. idempotency' = Put(idempotency, Row(key, record))
  BY DEF Commit
<1>2. /\ record.request_fingerprint = requests[r].command
      /\ record.payment_id = p /\ record.response_snapshot = row
      /\ answer.payment_id = p /\ answer.payment = row
  OBVIOUS
<1>3. Done(r, answer) \/ Done(r, None)
  BY DEF Commit
<1> HIDE DEF record, answer
<1>4. /\ DOMAIN idempotency' = DOMAIN idempotency \cup {key}
      /\ idempotency'[key] = record
      /\ \A k \in DOMAIN idempotency \ {key} : idempotency'[k] = idempotency[k]
  BY <1>1 DEF Put, Row
<1>5. requests[r] # None /\ key \notin DOMAIN idempotency
  BY DEF Claims, KeyTaken
<1>6. OnlySlot(r) /\ requests'[r] = None /\ answers'[r] \in {answer, None}
  BY <1>3, DoneSlot
<1> HIDE DEF key
<1>7. AnswerIsRecorded(r, key)
  BY <1>2, <1>4, <1>6 DEF AnswerIsRecorded
<1> USE DEF key
<1> QED
  BY <1>2, <1>4, <1>5, <1>6, <1>7 DEF Ended, KeyTaken

\* Writing one row adds at most its key to a table.
LEMMA PublishDomain ==
    ASSUME NEW p, NEW row, NEW type, Publish(Row(p, row), type)
    PROVE  DOMAIN payments' = DOMAIN payments \cup {p}
BY DEF Publish, Put, Row

\* An applied lifecycle operation records its key for the payment it names.
LEMMA ApplyStep ==
    ASSUME ServiceShape, NEW r \in Requests, NEW operation, NEW next,
           NEW entries, NEW type,
           Finds(r, operation), Apply(r, next, entries, type)
    PROVE  Ended(r)
<1> DEFINE p == requests[r].command.payment_id
           row == Bumped(next)
<1>1. Claims(r) /\ p \in DOMAIN payments
  BY DEF Finds
<1>2. Publish(Row(p, row), type) /\ Commit(r, p, row)
  BY DEF Apply
<1> HIDE DEF p, row
<1>3. p \in PaymentIds /\ DOMAIN payments' \subseteq PaymentIds
  BY <1>1, <1>2, PublishDomain DEF ServiceShape
<1> QED
  BY <1>1, <1>2, <1>3, CommitStep

\* authorize_payment records its key for the payment it creates.
LEMMA AuthorizeStep ==
    ASSUME ServiceShape, NEW r \in Requests, NEW p \in PaymentIds, Authorize(r, p)
    PROVE  Ended(r)
<1>1. PICK row, type : /\ Claims(r)
                       /\ Publish(Row(p, row), type)
                       /\ Commit(r, p, row)
  BY DEF Authorize
<1>2. DOMAIN payments' = DOMAIN payments \cup {p}
  <2>1. Publish(Row(p, row), type)
    BY <1>1
  <2> QED
    BY <2>1, PublishDomain
<1>3. DOMAIN payments' \subseteq PaymentIds
  BY <1>2 DEF ServiceShape
<1> QED
  BY <1>1, <1>3, CommitStep

\* A request that is refused, interrupted or replayed records nothing.
LEMMA UnrecordedStep ==
    ASSUME ServiceShape, NEW r \in Requests, requests[r] # None,
           \/ ReplayConcurrent(r) \/ Refuse(r) \/ Interrupt(r)
    PROVE  Ended(r)
<1>1. UNCHANGED <<payments, idempotency>>
  BY DEF ReplayConcurrent, Refuse, Interrupt, storeVars
<1>2. CASE Done(r, None)
  <2>1. OnlySlot(r) /\ requests'[r] = None /\ answers'[r] = None
    BY <1>2, DoneSlot
  <2> QED
    BY <1>1, <2>1 DEF Ended, AnswerIsRecorded, ServiceShape
<1>3. CASE ReplayConcurrent(r)
  <2> DEFINE key == requests[r].key
             found == find_idempotent_snapshot(key, requests[r].command)
  <2>1. KeyTaken(key) /\ Done(r, found)
    BY <1>3 DEF ReplayConcurrent
  <2>2. found # None =>
          /\ found.payment_id = idempotency[key].payment_id
          /\ found.payment = idempotency[key].response_snapshot
    BY FoundSnapshot
  <2> HIDE DEF found
  <2>3. OnlySlot(r) /\ requests'[r] = None /\ answers'[r] = found
    BY <2>1, DoneSlot
  <2>4. AnswerIsRecorded(r, key)
    BY <1>1, <2>1, <2>2, <2>3 DEF AnswerIsRecorded, KeyTaken
  <2> QED
    BY <1>1, <2>3, <2>4 DEF Ended, ServiceShape
<1> QED
  BY <1>2, <1>3 DEF Refuse, Interrupt

\* Whatever a request does next, it ends.
LEMMA RequestStep ==
    ASSUME ServiceShape, NEW r \in Requests, Perform(r) \/ Interrupt(r)
    PROVE  Ended(r)
<1>1. CASE ReplayConcurrent(r) \/ Refuse(r) \/ Interrupt(r)
  <2>1. requests[r] # None
    BY <1>1 DEF ReplayConcurrent, Refuse, Claims, Interrupt
  <2> QED
    BY <1>1, <2>1, UnrecordedStep
<1>2. CASE \E p \in PaymentIds : Authorize(r, p)
  BY <1>2, AuthorizeStep
<1>3. CASE Capture(r)
  <2>1. Finds(r, "CAPTURE") /\ \E next, entries, type : Apply(r, next, entries, type)
    BY <1>3 DEF Capture
  <2> QED
    BY <2>1, ApplyStep
<1>4. CASE Cancel(r)
  <2>1. Finds(r, "CANCEL") /\ \E next, entries, type : Apply(r, next, entries, type)
    BY <1>4 DEF Cancel
  <2> QED
    BY <2>1, ApplyStep
<1>5. CASE Refund(r)
  <2>1. Finds(r, "REFUND") /\ \E next, entries, type : Apply(r, next, entries, type)
    BY <1>5 DEF Refund
  <2> QED
    BY <2>1, ApplyStep
<1> QED
  BY <1>1, <1>2, <1>3, <1>4, <1>5 DEF Perform

----------------------------------------------------------------------------
(* Every step of the tab preserves the invariant.                          *)

\* The transitions that the page takes; none of them throws.
LEMMA Transitions ==
    /\ \A state \in {"editing", "uncertain"} :
         transitionUiState(state, "start_submission") = "processing"
    /\ transitionUiState("editing", "start_restore") = "restoring"
    /\ transitionUiState("restoring", "restore_empty") = "editing"
    /\ \A state \in {"restoring", "processing"} :
         /\ transitionUiState(state, "payment_resolved") = "final"
         /\ transitionUiState(state, "result_uncertain") = "uncertain"
         /\ transitionUiState(state, "show_error") = "error"
    /\ \A state \in {"final", "error"} :
         transitionUiState(state, "reset") = "editing"
BY DEF transitionUiState, allowedTransitions

\* The empty tab and the empty service.
LEMMA InitInvariant ==
    ASSUME Init
    PROVE  IInv
<1>1. ServiceShape
  BY DEF Init, StoreInit, LifecycleInit, ServiceShape
<1>2. KeysAreMinted
  BY DEF Init, StoreInit, LifecycleInit, KeysAreMinted, InFlight
<1>3. PostingIsActive /\ ReadsAreCurrent /\ SubmissionIsValid
  BY DEF Init, PostingIsActive, ReadsAreCurrent, SubmissionIsValid, UiStates
<1>4. ReloadShowsTheSame /\ RetriesAskTheSame
  BY DEF Init, ReloadShowsTheSame, RetriesAskTheSame, Displayed
<1> QED
  BY <1>1, <1>2, <1>3, <1>4 DEF IInv

\* What a validated form submits.
LEMMA SubmissionFields ==
    ASSUME NEW controls, validateForm(controls)
    PROVE  /\ Submission(controls) \in AuthorizationCommand
           /\ boundedInteger(Submission(controls).amount)
           /\ Submission(controls) # None
<1>1. /\ Submission(controls) \in AuthorizationCommand
      /\ boundedInteger(MinorUnits(controls.amount, controls.currency))
  BY DEF validateForm, IsMinorUnits
<1>2. Submission(controls).amount = MinorUnits(controls.amount, controls.currency)
  BY DEF Submission
<1> QED
  BY <1>1, <1>2, TabAssumption

\* A key that is handed out now has been used by nobody.
LEMMA FreshKey ==
    ASSUME KeysAreMinted, NEW key \in TabKeys \ minted
    PROVE  ~KeyTaken(key) /\ \A r \in Requests : ~InFlight(r, key)
BY DEF KeysAreMinted, KeyTaken

\* submitPayment, from the form or again from an uncertain result.
LEMMA SubmitStep ==
    ASSUME IInv, NEW controls, submitPayment(controls),
           \/ uiState = "editing"
           \/ uiState = "uncertain" /\ controls = form
    PROVE  IInv'
<1> DEFINE command == Submission(controls)
<1>1. PICK key \in TabKeys : activeIdempotencyKey(key) /\ Sent(key, command)
  BY DEF submitPayment
<1>2. /\ validateForm(controls)
      /\ uiState' = "processing"
      /\ form' = controls
      /\ activeSubmission' = command
      /\ UNCHANGED <<lastPaymentId, currentPayment, reading>>
  BY Transitions DEF submitPayment, moveUi, storeActiveSubmission
<1>3. /\ command \in AuthorizationCommand
      /\ boundedInteger(command.amount)
      /\ command # None
  BY <1>2, SubmissionFields
<1>4. /\ activeKey' = key /\ key # None
      /\ minted' = minted \cup {key}
      /\ activeKey = None => key \notin minted
      /\ activeKey # None => key = activeKey
  BY <1>1, TabAssumption DEF activeIdempotencyKey
<1> HIDE DEF command
<1>5. uiState = "uncertain" <=> activeKey # None
  BY DEF IInv, ReloadShowsTheSame
<1>6. activeKey # None => command = activeSubmission
  BY <1>5 DEF IInv, RetriesAskTheSame, command
<1>7. activeKey = None => ~KeyTaken(key) /\ \A r \in Requests : ~InFlight(r, key)
  BY <1>4, FreshKey DEF IInv
<1>8. /\ ReadsAreCurrent'
      /\ ReloadShowsTheSame'
      /\ SubmissionIsValid'
  <2>1. reading = {}
    BY DEF IInv, ReadsAreCurrent
  <2>2. ReadsAreCurrent'
    BY <1>2, <2>1 DEF ReadsAreCurrent, UiStates
  <2>3. ReloadShowsTheSame'
    BY <1>2, <1>3, <1>4, <1>5 DEF IInv, ReloadShowsTheSame, Displayed
  <2>4. SubmissionIsValid'
    BY <1>2, <1>3 DEF SubmissionIsValid
  <2> QED
    BY <2>2, <2>3, <2>4
<1>9. \/ \E r \in TabRequests : Arrived(r, command, key) /\ posting' = r
      \/ posting' = None /\ UNCHANGED serviceVars
  BY <1>1, ArriveStep, TabAssumption DEF Sent, IInv
<1>10. CASE posting' = None /\ UNCHANGED serviceVars
  <2>1. UNCHANGED <<requests, answers, payments, idempotency>>
    BY <1>10 DEF serviceVars, storeVars, lifecycleVars
  <2>2. ServiceShape'
    BY <2>1 DEF IInv, ServiceShape
  <2>3. KeysAreMinted'
    BY <1>4, <2>1 DEF IInv, KeysAreMinted, InFlight
  <2>4. PostingIsActive'
    BY <1>10 DEF PostingIsActive
  <2>5. RetriesAskTheSame'
    BY <1>2, <1>4, <1>6, <1>7, <2>1
       DEF IInv, RetriesAskTheSame, KeyTaken, InFlight, command
  <2> QED
    BY <1>8, <2>2, <2>3, <2>4, <2>5 DEF IInv
<1>11. CASE \E r \in TabRequests : Arrived(r, command, key) /\ posting' = r
  <2>1. PICK r \in TabRequests : Arrived(r, command, key) /\ posting' = r
    BY <1>11
  <2>2. /\ r \in Requests /\ OnlySlot(r)
        /\ UNCHANGED <<payments, idempotency>>
        /\ requests'[r] = None \/ (/\ requests'[r].key = key
                                   /\ requests'[r].command = command)
        /\ \/ answers'[r] = None
           \/ requests'[r] = None /\ AnswerIsRecorded(r, key)
    BY <2>1 DEF Arrived
  <2>3. \A q \in Requests : q = r \/ requests'[q] = requests[q]
    BY <2>2 DEF OnlySlot
  <2>4. ServiceShape'
    BY <2>2 DEF IInv, ServiceShape, OnlySlot
  <2>5. KeysAreMinted'
    BY <1>4, <2>2, <2>3 DEF IInv, KeysAreMinted, InFlight
  <2>6. PostingIsActive'
    BY <1>2, <1>4, <2>1, <2>2 DEF PostingIsActive, AnswerIsRecorded, KeyTaken
  <2>7. RetriesAskTheSame'
    BY <1>2, <1>4, <1>6, <1>7, <2>2, <2>3
       DEF IInv, RetriesAskTheSame, KeyTaken, InFlight, command
  <2> QED
    BY <1>8, <2>4, <2>5, <2>6, <2>7 DEF IInv
<1> QED
  BY <1>9, <1>10, <1>11

\* Nothing of the service changes, and nothing that the invariant relates to it.
LEMMA PageOnly ==
    ASSUME IInv, UNCHANGED serviceVars, UNCHANGED minted,
           activeKey' \in {activeKey, None},
           posting' \in {posting, None},
           posting' = None \/ UNCHANGED <<activeKey, uiState>>
    PROVE  ServiceShape' /\ KeysAreMinted' /\ PostingIsActive'
<1>1. UNCHANGED <<requests, answers, payments, idempotency, minted>>
  BY DEF serviceVars, storeVars, lifecycleVars
<1>2. ServiceShape'
  BY <1>1 DEF IInv, ServiceShape
<1>3. KeysAreMinted'
  BY <1>1 DEF IInv, KeysAreMinted, InFlight
<1>4. PostingIsActive'
  BY <1>1 DEF IInv, PostingIsActive, KeyTaken
<1> QED
  BY <1>2, <1>3, <1>4

\* The submission and its form stay, and the service does.
LEMMA RetryKept ==
    ASSUME IInv, UNCHANGED serviceVars,
           UNCHANGED <<activeKey, activeSubmission>>,
           \/ /\ uiState \in {"processing", "uncertain"} /\ UNCHANGED form
           \/ uiState' \notin {"processing", "uncertain"}
    PROVE  RetriesAskTheSame' /\ SubmissionIsValid'
BY DEF IInv, RetriesAskTheSame, SubmissionIsValid, KeyTaken, serviceVars, lifecycleVars

\* No submission is active any more.
LEMMA RetryCleared ==
    ASSUME clearActiveSubmission
    PROVE  RetriesAskTheSame' /\ SubmissionIsValid'
BY DEF clearActiveSubmission, RetriesAskTheSame, SubmissionIsValid

\* A payment has been answered: the active key is done with.
LEMMA PaymentResolvedStep ==
    ASSUME IInv, PaymentResolved
    PROVE  IInv'
<1>1. PICK body \in Bodies(answers[posting]) : Resolves(body)
  BY DEF PaymentResolved
<1>2. /\ uiState = "processing"
      /\ posting # None /\ requests[posting] = None /\ answers[posting] # None
      /\ clearActiveSubmission
  BY DEF PaymentResolved, Answered
<1>3. /\ lastPaymentId' = body.id /\ currentPayment' = body
      /\ uiState' = "final" /\ posting' = None
      /\ UNCHANGED <<reading, minted, serviceVars>>
  BY <1>1, <1>2, Transitions DEF Resolves, moveUi
<1>4. body.id # None
  <2>1. answers[posting].payment_id \in PaymentIds
    BY <1>2 DEF IInv, PostingIsActive, ServiceShape, KeyTaken
  <2>2. body.id = answers[posting].payment_id \/ body.id = Undefined
    BY <1>1 DEF Bodies
  <2> QED
    BY <2>1, <2>2, NoneAssumption, TabAssumption
<1>5. body # NoPayment
  BY <1>4 DEF NoPayment
<1>6. ServiceShape' /\ KeysAreMinted' /\ PostingIsActive'
  BY <1>2, <1>3, PageOnly DEF clearActiveSubmission
<1>7. ReadsAreCurrent'
  BY <1>2, <1>3 DEF IInv, ReadsAreCurrent, UiStates
<1>8. ReloadShowsTheSame'
  BY <1>2, <1>3, <1>4, <1>5
     DEF clearActiveSubmission, ReloadShowsTheSame, Displayed, NoPayment
<1> QED
  BY <1>2, <1>6, <1>7, <1>8, RetryCleared DEF IInv

\* The answer is lost: the submission stays, to be retried.
LEMMA ResultUncertainStep ==
    ASSUME IInv, ResultUncertain
    PROVE  IInv'
<1>1. /\ uiState = "processing" /\ uiState' = "uncertain"
      /\ currentPayment' = NoPayment /\ posting' = None
      /\ UNCHANGED <<activeKey, activeSubmission, lastPaymentId>>
      /\ UNCHANGED <<form, reading, minted, serviceVars>>
  BY Transitions DEF ResultUncertain, moveUi, storageVars
<1>2. ServiceShape' /\ KeysAreMinted' /\ PostingIsActive'
  BY <1>1, PageOnly
<1>3. ReadsAreCurrent'
  BY <1>1 DEF IInv, ReadsAreCurrent, UiStates
<1>4. ReloadShowsTheSame'
  BY <1>1 DEF IInv, ReloadShowsTheSame, Displayed
<1>5. RetriesAskTheSame' /\ SubmissionIsValid'
  <2>1. UNCHANGED <<requests, idempotency>>
    BY <1>1 DEF serviceVars, lifecycleVars
  <2> QED
    BY <1>1, <2>1 DEF IInv, RetriesAskTheSame, SubmissionIsValid, KeyTaken
<1> QED
  BY <1>2, <1>3, <1>4, <1>5 DEF IInv

\* Any other answer: the submission is forgotten.
LEMMA ErrorStatusStep ==
    ASSUME IInv, ErrorStatus
    PROVE  IInv'
<1>1. /\ uiState = "processing" /\ uiState' = "error"
      /\ currentPayment' = NoPayment /\ posting' = None
      /\ clearActiveSubmission
      /\ UNCHANGED <<lastPaymentId, reading, minted, serviceVars>>
  BY Transitions DEF ErrorStatus, moveUi
<1>2. ServiceShape' /\ KeysAreMinted' /\ PostingIsActive'
  BY <1>1, PageOnly DEF clearActiveSubmission
<1>3. ReadsAreCurrent'
  BY <1>1 DEF IInv, ReadsAreCurrent, UiStates
<1>4. ReloadShowsTheSame'
  BY <1>1 DEF IInv, ReloadShowsTheSame, Displayed, clearActiveSubmission
<1> QED
  BY <1>1, <1>2, <1>3, <1>4, RetryCleared DEF IInv

\* A new payment: the tab is empty again.
LEMMA ResetStep ==
    ASSUME IInv, resetCheckout
    PROVE  IInv'
<1>1. /\ uiState \in {"final", "error"} /\ ~Refreshing
      /\ uiState' = "editing"
      /\ currentPayment' = NoPayment /\ lastPaymentId' = None
      /\ clearActiveSubmission
      /\ UNCHANGED <<posting, reading, minted, serviceVars>>
  BY Transitions DEF resetCheckout, CanLeave, moveUi
<1>2. posting = None
  BY <1>1 DEF IInv, PostingIsActive
<1>3. ServiceShape' /\ KeysAreMinted' /\ PostingIsActive'
  BY <1>1, <1>2, PageOnly DEF clearActiveSubmission
<1>4. reading = {}
  BY <1>1 DEF IInv, ReadsAreCurrent, Refreshing
<1>5. ReadsAreCurrent'
  BY <1>1, <1>4 DEF ReadsAreCurrent, UiStates
<1>6. ReloadShowsTheSame'
  BY <1>1 DEF ReloadShowsTheSame, Displayed, clearActiveSubmission
<1> QED
  BY <1>1, <1>3, <1>5, <1>6, RetryCleared DEF IInv

\* The form that a reload rebuilds submits what was submitted.
LEMMA RestoredFormResubmits ==
    ASSUME NEW submission \in AuthorizationCommand, boundedInteger(submission.amount)
    PROVE  /\ validateForm(RestoredForm(submission))
           /\ Submission(RestoredForm(submission)) = submission
<1> DEFINE amount == submission.amount
           currency == submission.currency
           text == displayAmountFromMinorUnits(amount, currency)
           controls == RestoredForm(submission)
<1>1. /\ submission = [operation |-> "AUTHORIZE", amount |-> amount,
                       currency |-> currency, token |-> submission.token]
      /\ amount \in Nat
  BY AmountsAssumption DEF AuthorizationCommand
<1>2. IsMinorUnits(text, currency) /\ MinorUnits(text, currency) = amount
  BY <1>1, DisplayRoundTrips
<1>3. controls.amount = text /\ controls.currency = currency
      /\ controls.token = submission.token
  BY DEF RestoredForm
<1> HIDE DEF text, controls
<1>4. Submission(controls) = [operation |-> "AUTHORIZE", amount |-> amount,
                              currency |-> currency, token |-> submission.token]
  BY <1>2, <1>3 DEF Submission
<1>5. validateForm(controls)
  BY <1>1, <1>2, <1>3, <1>4 DEF validateForm
<1> QED
  BY <1>1, <1>4, <1>5 DEF controls

\* Loading the page again.
LEMMA ReloadStep ==
    ASSUME IInv, Reload
    PROVE  IInv'
<1>1. /\ currentPayment' = NoPayment /\ posting' = None
      /\ UNCHANGED <<minted, serviceVars>>
      /\ restorePayment
  BY DEF Reload
<1>2. CASE lastPaymentId # None
  <2>1. /\ uiState' = "restoring"
        /\ reading' = {[reason |-> "restore", id |-> lastPaymentId, row |-> None]}
        /\ UNCHANGED <<activeKey, activeSubmission, lastPaymentId>>
    BY <1>1, <1>2, Transitions DEF restorePayment, storageVars
  <2>2. ServiceShape' /\ KeysAreMinted' /\ PostingIsActive'
    BY <1>1, <2>1, PageOnly
  <2>3. ReadsAreCurrent'
    BY <2>1 DEF ReadsAreCurrent, UiStates
  <2>4. ReloadShowsTheSame'
    BY <1>1, <1>2, <2>1 DEF IInv, ReloadShowsTheSame, Displayed
  <2>5. RetriesAskTheSame' /\ SubmissionIsValid'
    BY <1>1, <2>1, RetryKept
  <2> QED
    BY <2>2, <2>3, <2>4, <2>5 DEF IInv
<1>3. CASE lastPaymentId = None /\ Resumable
  <2>1. /\ uiState' = "uncertain" /\ reading' = {}
        /\ form' = RestoredForm(activeSubmission)
        /\ UNCHANGED <<activeKey, activeSubmission, lastPaymentId>>
    BY <1>1, <1>3, Transitions DEF restorePayment
  <2>2. ServiceShape' /\ KeysAreMinted' /\ PostingIsActive'
    BY <1>1, <2>1, PageOnly
  <2>3. ReadsAreCurrent'
    BY <2>1 DEF ReadsAreCurrent, UiStates
  <2>4. ReloadShowsTheSame'
    BY <1>1, <1>3, <2>1 DEF IInv, ReloadShowsTheSame, Displayed, Resumable
  <2>5. SubmissionIsValid'
    BY <2>1 DEF IInv, SubmissionIsValid
  <2>6. /\ validateForm(form')
        /\ Submission(form') = activeSubmission
    BY <1>3, <2>1, RestoredFormResubmits DEF IInv, SubmissionIsValid, Resumable
  <2>7. UNCHANGED <<requests, idempotency>>
    BY <1>1 DEF serviceVars, lifecycleVars
  <2>8. RetriesAskTheSame'
    BY <2>1, <2>6, <2>7 DEF IInv, RetriesAskTheSame, KeyTaken
  <2> QED
    BY <2>2, <2>3, <2>4, <2>5, <2>8 DEF IInv
<1>4. CASE lastPaymentId = None /\ ~Resumable
  <2>1. /\ uiState' = "editing" /\ reading' = {}
        /\ clearActiveSubmission /\ UNCHANGED lastPaymentId
    BY <1>1, <1>4, Transitions DEF restorePayment
  <2>2. ServiceShape' /\ KeysAreMinted' /\ PostingIsActive'
    BY <1>1, <2>1, PageOnly DEF clearActiveSubmission
  <2>3. ReadsAreCurrent'
    BY <2>1 DEF ReadsAreCurrent, UiStates
  <2>4. ReloadShowsTheSame'
    BY <1>1, <1>4, <2>1 DEF ReloadShowsTheSame, Displayed, clearActiveSubmission
  <2> QED
    BY <2>1, <2>2, <2>3, <2>4, RetryCleared DEF IInv
<1> QED
  BY <1>2, <1>3, <1>4

\* The status of the displayed payment is asked for.
LEMMA StartRefreshStep ==
    ASSUME IInv, StartRefresh
    PROVE  IInv'
<1> DEFINE request == [reason |-> "refresh", id |-> currentPayment.id, row |-> None]
<1>1. /\ uiState = "final" /\ ~Refreshing
      /\ reading' = reading \cup {request}
      /\ UNCHANGED <<activeKey, activeSubmission, lastPaymentId, uiState,
                     currentPayment, form, posting, minted, serviceVars>>
  BY DEF StartRefresh, CanRefresh, storageVars
<1>2. reading = {}
  BY <1>1 DEF IInv, ReadsAreCurrent, Refreshing
<1>3. request = [reason |-> "refresh", id |-> lastPaymentId, row |-> None]
  BY <1>1 DEF IInv, ReloadShowsTheSame, Displayed
<1>4. ReadsAreCurrent'
  BY <1>1, <1>2, <1>3 DEF ReadsAreCurrent, UiStates
<1>5. ServiceShape' /\ KeysAreMinted' /\ PostingIsActive'
  BY <1>1, PageOnly
<1>6. ReloadShowsTheSame'
  BY <1>1 DEF IInv, ReloadShowsTheSame, Displayed
<1>7. RetriesAskTheSame' /\ SubmissionIsValid'
  BY <1>1, RetryKept
<1> QED
  BY <1>4, <1>5, <1>6, <1>7 DEF IInv

\* A read in flight is served, or comes back, or fails.
LEMMA ReadStep ==
    ASSUME IInv, NEW request \in reading,
           \/ ServeRead(request)
           \/ Restored(request) \/ NotRestored(request)
           \/ Refreshed(request) \/ NotRefreshed(request)
    PROVE  IInv'
<1>1. /\ reading = {request}
      /\ request = [reason |-> request.reason, id |-> lastPaymentId,
                    row |-> request.row]
      /\ \/ request.reason = "restore" /\ uiState = "restoring"
         \/ request.reason = "refresh" /\ uiState = "final"
  BY DEF IInv, ReadsAreCurrent
<1>2. posting = None
  BY <1>1 DEF IInv, PostingIsActive
<1>3. /\ UNCHANGED <<activeKey, activeSubmission, posting, minted, serviceVars>>
      /\ uiState' \notin {"processing", "uncertain"}
  <2>1. CASE ServeRead(request) \/ Refreshed(request) \/ NotRefreshed(request)
    BY <1>1, <2>1 DEF ServeRead, Refreshed, NotRefreshed, storageVars
  <2>2. CASE Restored(request) \/ NotRestored(request)
    BY <1>1, <2>2, Transitions DEF Restored, NotRestored, storageVars, moveUi
  <2> QED
    BY <2>1, <2>2
<1>4. ServiceShape' /\ KeysAreMinted' /\ PostingIsActive'
  BY <1>2, <1>3, PageOnly
<1>5. RetriesAskTheSame' /\ SubmissionIsValid'
  BY <1>3, RetryKept
<1>6. CASE ServeRead(request)
  <2> DEFINE served == [request EXCEPT !.row = payments[request.id]]
  <2>1. /\ reading' = {served}
        /\ UNCHANGED <<uiState, lastPaymentId, currentPayment>>
    BY <1>1, <1>6 DEF ServeRead, storageVars
  <2>2. served = [reason |-> request.reason, id |-> lastPaymentId,
                  row |-> payments[request.id]]
    BY <1>1
  <2> HIDE DEF served
  <2>3. /\ served = [reason |-> served.reason, id |-> lastPaymentId,
                     row |-> served.row]
        /\ served.reason = request.reason
    BY <2>2
  <2>4. ReadsAreCurrent'
    BY <1>1, <2>1, <2>3 DEF IInv, ReadsAreCurrent
  <2>5. ReloadShowsTheSame'
    BY <1>3, <2>1 DEF IInv, ReloadShowsTheSame, Displayed
  <2> QED
    BY <1>4, <1>5, <2>4, <2>5 DEF IInv
<1>7. CASE Restored(request) \/ Refreshed(request)
  <2>1. /\ currentPayment' = [id |-> lastPaymentId, row |-> request.row]
        /\ uiState' = "final" /\ reading' = {}
        /\ UNCHANGED lastPaymentId
    BY <1>1, <1>7, Transitions DEF Restored, Refreshed, storageVars, moveUi
  <2>2. lastPaymentId # None
    BY <1>1 DEF IInv, ReloadShowsTheSame
  <2>3. ReadsAreCurrent'
    BY <2>1 DEF ReadsAreCurrent, UiStates
  <2>4. ReloadShowsTheSame'
    BY <1>3, <2>1, <2>2 DEF IInv, ReloadShowsTheSame, Displayed, NoPayment
  <2> QED
    BY <1>4, <1>5, <2>3, <2>4 DEF IInv
<1>8. CASE NotRestored(request)
  <2>1. /\ uiState = "restoring" /\ uiState' = "error" /\ reading' = {}
        /\ lastPaymentId' \in {lastPaymentId, None}
        /\ UNCHANGED currentPayment
    BY <1>1, <1>8, Transitions DEF NotRestored, moveUi
  <2>2. ReadsAreCurrent'
    BY <2>1 DEF ReadsAreCurrent, UiStates
  <2>3. ReloadShowsTheSame'
    BY <1>3, <2>1 DEF IInv, ReloadShowsTheSame, Displayed
  <2> QED
    BY <1>4, <1>5, <2>2, <2>3 DEF IInv
<1>9. CASE NotRefreshed(request)
  <2>1. /\ reading' = {}
        /\ UNCHANGED <<uiState, lastPaymentId, currentPayment>>
    BY <1>1, <1>9 DEF NotRefreshed, storageVars
  <2>2. ReadsAreCurrent'
    BY <2>1 DEF IInv, ReadsAreCurrent
  <2>3. ReloadShowsTheSame'
    BY <1>3, <2>1 DEF IInv, ReloadShowsTheSame, Displayed
  <2> QED
    BY <1>4, <1>5, <2>2, <2>3 DEF IInv
<1> QED
  BY <1>6, <1>7, <1>8, <1>9

\* The service takes a step: a request of any client ends, or one of another
\* client arrives.
LEMMA ServiceStep ==
    ASSUME IInv, Service
    PROVE  IInv'
<1>1. UNCHANGED <<activeKey, activeSubmission, lastPaymentId, uiState, form,
                  currentPayment, posting, reading, minted>>
  BY DEF Service, tabVars, storageVars, pageVars
<1>2. ReadsAreCurrent' /\ ReloadShowsTheSame' /\ SubmissionIsValid'
  BY <1>1
     DEF IInv, ReadsAreCurrent, ReloadShowsTheSame, SubmissionIsValid, Displayed
<1>3. \/ \E r \in Requests : Ended(r)
      \/ \E r \in Requests \ TabRequests, key \in Keys \ TabKeys :
            \E command : Arrived(r, command, key)
  <2>1. CASE \E r \in Requests : Perform(r) \/ Interrupt(r)
    BY <2>1, RequestStep DEF IInv
  <2>2. CASE Elsewhere
    <3>1. PICK r \in Requests \ TabRequests, command \in LifecycleCommand,
               key \in Keys \ TabKeys :
             Arrive(r, command, key, None)
      BY <2>2 DEF Elsewhere
    <3>2. Arrived(r, command, key)
      BY <3>1, ArriveStep DEF IInv
    <3> QED
      BY <3>2
  <2> QED
    BY <2>1, <2>2 DEF Service
<1>4. CASE \E r \in Requests : Ended(r)
  <2>1. PICK r \in Requests : Ended(r)
    BY <1>4
  <2> DEFINE key == requests[r].key
             command == requests[r].command
  <2>2. /\ OnlySlot(r) /\ DOMAIN payments' \subseteq PaymentIds
        /\ requests[r] # None /\ requests'[r] = None
        /\ AnswerIsRecorded(r, key)
    BY <2>1 DEF Ended
  <2>3. \/ idempotency' = idempotency
        \/ /\ ~KeyTaken(key)
           /\ DOMAIN idempotency' = DOMAIN idempotency \cup {key}
           /\ \A k \in DOMAIN idempotency : idempotency'[k] = idempotency[k]
           /\ idempotency'[key].request_fingerprint = command
           /\ idempotency'[key].payment_id \in PaymentIds
    BY <2>1 DEF Ended
  <2>4. \A q \in Requests : requests'[q] = requests[q] \/ requests'[q] = None
    BY <2>2 DEF OnlySlot
  <2>5. ServiceShape'
    BY <2>2, <2>3 DEF IInv, ServiceShape, OnlySlot
  <2>6. KeysAreMinted'
    BY <1>1, <2>2, <2>3, <2>4 DEF IInv, KeysAreMinted, InFlight
  <2>7. RetriesAskTheSame'
    BY <1>1, <2>2, <2>3, <2>4 DEF IInv, RetriesAskTheSame, KeyTaken
  <2>8. PostingIsActive'
    <3> SUFFICES ASSUME posting # None
                 PROVE  PostingIsActive'
      BY <1>1 DEF PostingIsActive
    <3>1. posting \in Requests
      BY TabAssumption DEF IInv, PostingIsActive
    <3>2. CASE posting = r
      BY <1>1, <2>2, <3>2 DEF IInv, PostingIsActive, AnswerIsRecorded, KeyTaken
    <3>3. CASE posting # r
      BY <1>1, <2>2, <2>3, <3>1, <3>3
         DEF IInv, PostingIsActive, OnlySlot, KeyTaken
    <3> QED
      BY <3>2, <3>3
  <2> QED
    BY <1>2, <2>5, <2>6, <2>7, <2>8 DEF IInv
<1>5. CASE \E r \in Requests \ TabRequests, key \in Keys \ TabKeys :
              \E command : Arrived(r, command, key)
  <2>1. PICK r \in Requests \ TabRequests, key \in Keys \ TabKeys :
                \E command : Arrived(r, command, key)
    BY <1>5
  <2>2. /\ OnlySlot(r)
        /\ UNCHANGED <<payments, idempotency>>
        /\ requests'[r] = None \/ requests'[r].key = key
    BY <2>1 DEF Arrived
  <2>3. ServiceShape'
    BY <2>2 DEF IInv, ServiceShape, OnlySlot
  <2>4. \A q \in Requests, k \in TabKeys : InFlight(q, k)' => InFlight(q, k)
    BY <2>1, <2>2 DEF OnlySlot, InFlight
  <2>5. KeysAreMinted'
    BY <1>1, <2>2, <2>4 DEF IInv, KeysAreMinted
  <2>6. PostingIsActive'
    BY <1>1, <2>1, <2>2, TabAssumption
       DEF IInv, PostingIsActive, OnlySlot, KeyTaken
  <2>7. RetriesAskTheSame'
    <3>1. activeKey # None => activeKey \in TabKeys
      BY DEF IInv, KeysAreMinted
    <3>2. \A q \in Requests :
             activeKey # None /\ requests'[q] # None /\ requests'[q].key = activeKey
               => requests'[q] = requests[q]
      BY <2>1, <2>2, <3>1 DEF OnlySlot
    <3> QED
      BY <1>1, <2>2, <3>2 DEF IInv, RetriesAskTheSame, KeyTaken
  <2> QED
    BY <1>2, <2>3, <2>5, <2>6, <2>7 DEF IInv
<1> QED
  BY <1>3, <1>4, <1>5

----------------------------------------------------------------------------
(* Steps together.                                                         *)

\* Nothing happens.
LEMMA StutterStep ==
    ASSUME IInv, UNCHANGED vars
    PROVE  IInv'
<1>1. UNCHANGED <<activeKey, activeSubmission, lastPaymentId, uiState, form,
                  currentPayment, posting, reading, minted,
                  payments, idempotency, requests, answers>>
  BY DEF vars, tabVars, storageVars, pageVars, serviceVars, storeVars,
         lifecycleVars
<1>2. ServiceShape' /\ KeysAreMinted' /\ PostingIsActive' /\ ReadsAreCurrent'
  BY <1>1 DEF IInv, ServiceShape, KeysAreMinted, InFlight, PostingIsActive,
              KeyTaken, ReadsAreCurrent
<1>3. ReloadShowsTheSame' /\ SubmissionIsValid' /\ RetriesAskTheSame'
  BY <1>1 DEF IInv, ReloadShowsTheSame, Displayed, SubmissionIsValid,
              RetriesAskTheSame, KeyTaken
<1> QED
  BY <1>2, <1>3 DEF IInv

\* Every step of the tab and of the service.
LEMMA NextInvariant ==
    ASSUME IInv, [Next]_vars
    PROVE  IInv'
<1>1. CASE Submit
  BY <1>1, SubmitStep DEF Submit
<1>2. CASE Retry
  BY <1>2, SubmitStep DEF Retry
<1>3. CASE PaymentResolved
  BY <1>3, PaymentResolvedStep
<1>4. CASE ResultUncertain
  BY <1>4, ResultUncertainStep
<1>5. CASE ErrorStatus
  BY <1>5, ErrorStatusStep
<1>6. CASE resetCheckout
  BY <1>6, ResetStep
<1>7. CASE Reload
  BY <1>7, ReloadStep
<1>8. CASE StartRefresh
  BY <1>8, StartRefreshStep
<1>9. CASE Read
  BY <1>9, ReadStep DEF Read
<1>10. CASE Service
  BY <1>10, ServiceStep
<1>11. CASE UNCHANGED vars
  BY <1>11, StutterStep
<1> QED
  BY <1>1, <1>2, <1>3, <1>4, <1>5, <1>6, <1>7, <1>8, <1>9, <1>10, <1>11 DEF Next

\* The inductive invariant holds in every behaviour.
LEMMA Invariance == Spec => []IInv
<1>1. Init => IInv
  BY InitInvariant
<1>2. IInv /\ [Next]_vars => IInv'
  BY NextInvariant
<1> QED
  BY <1>1, <1>2, PTL DEF Spec

\* However answers are lost, whatever errors come back and whenever the page is
\* loaded again, what is stored is what is shown: the key, the submission and
\* the payment's id of sessionStorage against uiState and currentPayment
\* (submitPayment, restorePayment, resetCheckout).
THEOREM StorageFollowsPage == Spec => []ReloadShowsTheSame
<1>1. IInv => ReloadShowsTheSame
  BY DEF IInv
<1> QED
  BY <1>1, Invariance, PTL

\* A retry of the active key, from the controls or from a restored submission,
\* has the fingerprint the service recorded or is about to record
\* (activeIdempotencyKey, storeActiveSubmission, find_idempotent_snapshot).
THEOREM RetriesNeverConflict == Spec => []RetriesAskTheSame
<1>1. IInv => RetriesAskTheSame
  BY DEF IInv
<1> QED
  BY <1>1, Invariance, PTL

----------------------------------------------------------------------------
(* No payment is lost sight of.                                            *)

\* A step of the page that does not drop an active key, or drops it itself.
LEMMA KeyNotDropped ==
    ASSUME UncertainPaymentsStayRetryable, UNCHANGED serviceVars,
           seen \subseteq seen', abandoned \subseteq abandoned',
           activeKey \in abandoned' \cup {activeKey', None}
    PROVE  UncertainPaymentsStayRetryable'
<1>1. UNCHANGED <<requests, idempotency>>
  BY DEF serviceVars, lifecycleVars
<1> QED
  BY <1>1, TabAssumption DEF UncertainPaymentsStayRetryable, KeyTaken

\* A submission keeps an active key, or takes one when there is none.
LEMMA SubmitShows ==
    ASSUME IInv, UncertainPaymentsStayRetryable,
           NEW controls, submitPayment(controls)
    PROVE  UncertainPaymentsStayRetryable'
<1> DEFINE command == Submission(controls)
<1>1. PICK key \in TabKeys : activeIdempotencyKey(key) /\ Sent(key, command)
  BY DEF submitPayment
<1> HIDE DEF command
<1>2. activeKey' = key /\ (activeKey = None \/ activeKey = key)
  BY <1>1 DEF activeIdempotencyKey
<1>3. UNCHANGED <<seen, abandoned>>
  BY DEF submitPayment
<1>4. CASE UNCHANGED serviceVars
  BY <1>2, <1>3, <1>4, KeyNotDropped
<1>5. CASE \E r \in TabRequests : Arrive(r, command, key, None)
  <2>1. PICK r \in TabRequests : Arrived(r, command, key)
    BY <1>5, ArriveStep, TabAssumption DEF IInv
  <2>2. /\ UNCHANGED idempotency
        /\ requests'[r] = None \/ requests'[r].key = key
        /\ \A q \in Requests : q = r \/ requests'[q] = requests[q]
    BY <2>1 DEF Arrived, OnlySlot
  <2> QED
    BY <1>2, <1>3, <2>2, TabAssumption DEF UncertainPaymentsStayRetryable, KeyTaken
<1> QED
  BY <1>1, <1>4, <1>5 DEF Sent

\* An answer shows the payment made under the active key, or has lost its body.
LEMMA ResolvedShows ==
    ASSUME IInv, UncertainPaymentsStayRetryable, PaymentResolved
    PROVE  UncertainPaymentsStayRetryable'
<1>1. /\ posting # None /\ requests[posting] = None /\ answers[posting] # None
      /\ activeKey' = None
  BY DEF PaymentResolved, Answered, clearActiveSubmission
<1>2. PICK body \in Bodies(answers[posting]) : Resolves(body)
  BY DEF PaymentResolved
<1>3. /\ UNCHANGED serviceVars
      /\ seen \subseteq seen' /\ abandoned \subseteq abandoned'
  BY <1>2 DEF Resolves
<1>4. CASE body.id = Undefined
  <2>1. activeKey \in abandoned'
    BY <1>2, <1>4 DEF Resolves
  <2> QED
    BY <1>3, <2>1, KeyNotDropped
<1>5. CASE body.id = answers[posting].payment_id
  <2>1. /\ KeyTaken(activeKey)
        /\ idempotency[activeKey].payment_id = answers[posting].payment_id
        /\ answers[posting].payment_id \in PaymentIds
    BY <1>1 DEF IInv, PostingIsActive, ServiceShape, KeyTaken
  <2>2. idempotency[activeKey].payment_id \in seen'
    BY <1>2, <1>5, <2>1 DEF Resolves
  <2>3. UNCHANGED <<requests, idempotency>>
    BY <1>3 DEF serviceVars, lifecycleVars
  <2> QED
    BY <1>1, <1>3, <2>1, <2>2, <2>3, TabAssumption
       DEF UncertainPaymentsStayRetryable, KeyTaken
<1> QED
  BY <1>2, <1>4, <1>5 DEF Bodies

\* A request that ends has used its key only if it was the active one.
LEMMA ServiceShows ==
    ASSUME IInv, UncertainPaymentsStayRetryable, Service
    PROVE  UncertainPaymentsStayRetryable'
<1>1. UNCHANGED <<activeKey, seen, abandoned>>
  BY DEF Service, tabVars, storageVars
<1>2. CASE \E r \in Requests : Perform(r) \/ Interrupt(r)
  <2>1. PICK r \in Requests : Ended(r)
    BY <1>2, RequestStep DEF IInv
  <2> DEFINE key == requests[r].key
  <2>2. /\ requests[r] # None
        /\ \A q \in Requests : requests'[q] = requests[q] \/ requests'[q] = None
    BY <2>1 DEF Ended, OnlySlot
  <2>3. \/ idempotency' = idempotency
        \/ /\ ~KeyTaken(key)
           /\ DOMAIN idempotency' = DOMAIN idempotency \cup {key}
           /\ \A k \in DOMAIN idempotency : idempotency'[k] = idempotency[k]
    BY <2>1 DEF Ended
  <2>4. key \in TabKeys => key \in abandoned \cup {activeKey} \/ KeyTaken(key)
    BY <2>2 DEF UncertainPaymentsStayRetryable
  <2> QED
    BY <1>1, <2>2, <2>3, <2>4 DEF UncertainPaymentsStayRetryable, KeyTaken
<1>3. CASE Elsewhere
  <2>1. PICK r \in Requests \ TabRequests, command \in LifecycleCommand,
             key \in Keys \ TabKeys :
           Arrive(r, command, key, None)
    BY <1>3 DEF Elsewhere
  <2>2. Arrived(r, command, key)
    BY <2>1, ArriveStep DEF IInv
  <2>3. /\ UNCHANGED idempotency
        /\ requests'[r] = None \/ requests'[r].key \notin TabKeys
        /\ \A q \in Requests : q = r \/ requests'[q] = requests[q]
    BY <2>1, <2>2 DEF Arrived, OnlySlot
  <2> QED
    BY <1>1, <2>3 DEF UncertainPaymentsStayRetryable, KeyTaken
<1> QED
  BY <1>2, <1>3 DEF Service

\* The steps of the page that make no submission and show no answer to one.
LEMMA OtherShows ==
    ASSUME IInv, UncertainPaymentsStayRetryable,
           \/ ResultUncertain \/ ErrorStatus \/ resetCheckout \/ Reload
           \/ StartRefresh \/ Read \/ UNCHANGED vars
    PROVE  UncertainPaymentsStayRetryable'
<1>1. /\ UNCHANGED serviceVars
      /\ seen \subseteq seen' /\ abandoned \subseteq abandoned'
  <2>1. CASE Read
    BY <2>1 DEF Read, ServeRead, Restored, NotRestored, Refreshed, NotRefreshed
  <2> QED
    BY <2>1 DEF ResultUncertain, ErrorStatus, resetCheckout, Reload, StartRefresh,
                vars, tabVars
<1>2. activeKey \in abandoned' \cup {activeKey', None}
  <2>1. CASE Read
    BY <2>1 DEF Read, ServeRead, Restored, NotRestored, Refreshed, NotRefreshed,
                storageVars
  <2>2. CASE resetCheckout
    BY <2>2 DEF resetCheckout, CanLeave, IInv, ReloadShowsTheSame
  <2>3. CASE Reload
    BY <2>3 DEF Reload, restorePayment, Resumable, storageVars, IInv,
                ReloadShowsTheSame
  <2> QED
    BY <2>1, <2>2, <2>3
       DEF ResultUncertain, ErrorStatus, StartRefresh, storageVars, vars, tabVars
<1> QED
  BY <1>1, <1>2, KeyNotDropped

\* No interleaving of submissions, retries, lost answers, thrown fetches, reloads
\* and other clients makes the tab forget the key of a payment it has not
\* displayed, except where the page itself drops the key on the answer it got
\* (submitPayment, restorePayment, resetCheckout and _commit_payment_outcome).
THEOREM NothingIsLostSightOf == Spec => []UncertainPaymentsStayRetryable
<1> DEFINE Inv == IInv /\ UncertainPaymentsStayRetryable
<1>1. Init => Inv
  <2>1. Init => UncertainPaymentsStayRetryable
    BY DEF Init, LifecycleInit, UncertainPaymentsStayRetryable
  <2> QED
    BY <2>1, InitInvariant
<1>2. Inv /\ [Next]_vars => Inv'
  <2> SUFFICES ASSUME Inv, [Next]_vars
               PROVE  UncertainPaymentsStayRetryable'
    BY NextInvariant
  <2>1. CASE Submit
    BY <2>1, SubmitShows DEF Submit
  <2>2. CASE Retry
    BY <2>2, SubmitShows DEF Retry
  <2>3. CASE PaymentResolved
    BY <2>3, ResolvedShows
  <2>4. CASE Service
    BY <2>4, ServiceShows
  <2>5. CASE \/ ResultUncertain \/ ErrorStatus \/ resetCheckout \/ Reload
             \/ StartRefresh \/ Read \/ UNCHANGED vars
    BY <2>5, OtherShows
  <2> QED
    BY <2>1, <2>2, <2>3, <2>4, <2>5 DEF Next
<1>3. Inv => UncertainPaymentsStayRetryable
  OBVIOUS
<1> QED
  BY <1>1, <1>2, <1>3, PTL DEF Spec
=============================================================================
