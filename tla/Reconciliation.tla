--------------------------- MODULE Reconciliation ---------------------------
(***************************************************************************)
(* The reconciliation spine of Trexure: how a private payment is created,  *)
(* how its two legs (ONCHAIN and FIAT) reach Postgres, and how the worker  *)
(* joins them into a settled payment with a receipt.                       *)
(*                                                                         *)
(* Actors: createPayment (web), POST /api/webhooks/fiat and .../chain      *)
(* (web, concurrent requests), the watch-onchain worker, the reconcile     *)
(* worker (and every other caller of tryReconcile), the retry-reconcile    *)
(* and demo-reset routes.  None of the handlers opens a transaction around *)
(* its whole work, so every database or queue call is a step of its own    *)
(* and the other actors interleave between any two of them.                *)
(*                                                                         *)
(* External, modelled from how src/ uses it: the ledger (an event is or is *)
(* not visible to getEvents), the providers (deliver a signed event, maybe *)
(* more than once), BullMQ (jobs are run at least once, a thrown error is  *)
(* retried up to the queue's `attempts`).                                  *)
(***************************************************************************)
EXTENDS Integers, FiniteSets

CONSTANTS
  Payments,          \* payments, each created by one createPayment call or a sample
  SamplePayments,    \* those the signup fixture inserts with a confirmed ONCHAIN leg
  Events,            \* webhook events, as records: see EventAssumption
  CorridorTo,        \* Payment.corridorTo, per payment
  Quoted,            \* Payment.targetAmount in minor units; 0 = no (positive) quote
  Hooks,             \* webhook requests the web process may run at once
  Runners,           \* concurrent executions of tryReconcile
  Signatures,        \* what verifyHmac may answer of an event: {TRUE} or BOOLEAN
  MaxWatchAttempts,  \* MAX_WATCH_ATTEMPTS of worker/jobs/watch-onchain.ts (10)
  QueueAttempts,     \* `attempts` of the BullMQ defaultJobOptions (5)
  MaxDeliveries,     \* bound: deliveries of an event by its provider
  MaxCalls,          \* bound: calls of retry-reconcile and demo-reset
  MaxFaults,         \* bound: crashes and failed database or queue calls
  None               \* no payment, no event

EventKinds == {"payment.completed", "payment.failed", "chain"}

ASSUME EventAssumption ==
  /\ \A e \in Events : /\ e.payment \in Payments
                       /\ e.kind \in EventKinds
                       /\ e.kind # "chain" => e.amount \in Nat
  /\ None \notin Events \cup Payments
  /\ Quoted \in [Payments -> Nat]
  /\ SamplePayments \subseteq Payments

ASSUME BoundAssumption ==
  /\ Signatures \in [Events -> SUBSET BOOLEAN]
  /\ MaxWatchAttempts \in Nat \ {0} /\ QueueAttempts \in Nat \ {0}
  /\ MaxDeliveries \in [Events -> Nat]
  /\ {MaxCalls, MaxFaults} \subseteq Nat

VARIABLES
  \* Postgres
  status,      \* Payment.status; "NONE" while the row does not exist
  onchainLeg,  \* PaymentLeg(ONCHAIN).status; "NONE" while the row does not exist
  fiatLeg,     \* the event PaymentLeg(FIAT) was last written from, or None
  receipt,     \* the fiat event Receipt.json was built from, or None
  row,         \* the WebhookEvent row of an event
  \* Redis / BullMQ
  watchJob,    \* state of the payment's watch-onchain job
  tries,       \* job.attemptsMade of that job
  jobs,        \* number of waiting reconcile jobs of a payment
  \* handlers in progress
  creation,    \* createPayment
  hook,        \* POST of the two webhook routes
  watcher,     \* processWatchOnchain (BullMQ concurrency 1)
  runner,      \* tryReconcile
  \* environment
  onLedger,    \* the payment's contract event is visible to getEvents
  sent,        \* deliveries of an event so far
  used         \* faults, resets and retries so far

db    == <<status, onchainLeg, fiatLeg, receipt, row>>
queue == <<watchJob, tries, jobs>>
env   == <<onLedger, sent, used>>
vars  == <<db, queue, creation, hook, watcher, runner, env>>

\* SWEPT_IN and SWEPT_OUT, which only the yield sweep writes, are not here.
PaymentStatus == {"NONE", "PENDING", "ONCHAIN_CONFIRMED", "SETTLED", "FAILED"}
Terminal      == {"SETTLED", "FAILED"}
RowStatus     == {"absent", "unverified", "recorded", "processed"}
JobStatus     == {"none", "waiting", "active", "completed", "failed"}
HookPc        == {"idle", "reject", "record", "lookup", "orphan", "leg",
                  "fail", "mark", "enqueue"}
WatchPc       == {"idle", "poll", "leg", "status", "enqueue", "giveUp"}
RunnerPc      == {"idle", "fail", "settle", "readReceipt", "writeReceipt"}

IdleHook    == [pc |-> "idle", evt |-> None, found |-> FALSE]
IdleWatcher == [pc |-> "idle", payment |-> None]
IdleRunner  == [pc |-> "idle", payment |-> None, fiat |-> None]

-----------------------------------------------------------------------------
(* What tryReconcile decides from the rows it has read. *)

Abs(x) == IF x < 0 THEN -x ELSE x

\* (fault) The deviation is measured against the realized amount.
WithinToleranceOfRealized(quoted, realized) ==
  quoted > 0 => 100 * Abs(quoted - realized) <= realized

\* |quoted - realized| / quoted <= 1 %, checked only against a positive quote.
WithinTolerance(quoted, realized) ==
  quoted > 0 => 100 * Abs(quoted - realized) <= quoted

\* The FIAT leg an event writes passes the corridor and the amount check.
FiatMatches(e) ==
  /\ e.kind = "payment.completed"
  /\ e.currency = CorridorTo[e.payment]
  /\ WithinTolerance(Quoted[e.payment], e.amount)

LegFailed(p) ==
  \/ onchainLeg[p] = "FAILED"
  \/ fiatLeg[p] # None /\ fiatLeg[p].kind = "payment.failed"

\* (fault) The ONCHAIN leg is not looked at.
MatchedOnFiatAlone(p) == fiatLeg[p] # None /\ FiatMatches(fiatLeg[p])

Matched(p) ==
  /\ onchainLeg[p] = "CONFIRMED"
  /\ fiatLeg[p] # None /\ FiatMatches(fiatLeg[p])

\* The step tryReconcile goes to; "idle" is WAITING or a terminal payment.
Verdict(p) ==
  IF status[p] \in Terminal \cup {"NONE"} THEN "idle"
  ELSE IF LegFailed(p) THEN "fail"
  ELSE IF Matched(p) THEN "settle" ELSE "idle"

-----------------------------------------------------------------------------
Init ==
  /\ status = [p \in Payments |-> IF p \in SamplePayments THEN "PENDING" ELSE "NONE"]
  /\ onchainLeg = [p \in Payments |-> IF p \in SamplePayments THEN "CONFIRMED" ELSE "NONE"]
  /\ fiatLeg = [p \in Payments |-> None]
  /\ receipt = [p \in Payments |-> None]
  /\ row = [e \in Events |-> "absent"]
  /\ watchJob = [p \in Payments |-> "none"]
  /\ tries = [p \in Payments |-> 0]
  /\ jobs = [p \in Payments |-> 0]
  /\ creation = [p \in Payments |-> IF p \in SamplePayments THEN "done" ELSE "idle"]
  /\ hook = [h \in Hooks |-> IdleHook]
  /\ watcher = IdleWatcher
  /\ runner = [r \in Runners |-> IdleRunner]
  /\ onLedger = [p \in Payments |-> p \in SamplePayments]
  /\ sent = [e \in Events |-> 0]
  /\ used = [faults |-> 0, resets |-> 0, retries |-> 0]

\* A crash or a failing call interrupts a handler; nothing it did is undone.
Fault == /\ used.faults < MaxFaults
         /\ used' = [used EXCEPT !.faults = @ + 1]

EnqueueReconcile(p) == jobs' = [jobs EXCEPT ![p] = @ + 1]

-----------------------------------------------------------------------------
(* createPayment: submit the transaction, insert Payment and ONCHAIN leg,   *)
(* add the watch-onchain job.                                               *)

CreateSubmit(p) ==
  /\ creation[p] = "idle"
  /\ creation' = [creation EXCEPT ![p] = "submitted"]
  /\ UNCHANGED <<db, queue, hook, watcher, runner, env>>

CreatePersist(p) ==
  /\ creation[p] = "submitted"
  /\ creation' = [creation EXCEPT ![p] = "persisted"]
  /\ status' = [status EXCEPT ![p] = "PENDING"]
  /\ onchainLeg' = [onchainLeg EXCEPT ![p] = "PENDING"]
  /\ UNCHANGED <<fiatLeg, receipt, row, queue, hook, watcher, runner, env>>

CreateEnqueue(p) ==
  /\ creation[p] = "persisted"
  /\ creation' = [creation EXCEPT ![p] = "done"]
  /\ watchJob' = [watchJob EXCEPT ![p] = "waiting"]
  /\ UNCHANGED <<db, tries, jobs, hook, watcher, runner, env>>

\* A failure after the submission strands the on-chain transaction, and one
\* after the insert leaves a payment nobody watches.
CreateAbort(p) ==
  /\ creation[p] \in {"submitted", "persisted"}
  /\ Fault
  /\ creation' = [creation EXCEPT ![p] = "aborted"]
  /\ UNCHANGED <<db, queue, hook, watcher, runner, onLedger, sent>>

\* The submitted transaction is included and its event becomes visible.
LedgerEvent(p) ==
  /\ creation[p] # "idle" /\ ~onLedger[p]
  /\ onLedger' = [onLedger EXCEPT ![p] = TRUE]
  /\ UNCHANGED <<db, queue, creation, hook, watcher, runner, sent, used>>

-----------------------------------------------------------------------------
(* The webhook routes.  The fiat route looks the payment up before it      *)
(* records the event (the tenant's secret verifies the signature), the     *)
(* chain route afterwards; the rest is one sequence of steps.              *)

GoHook(h, pc) == hook' = [hook EXCEPT ![h].pc = pc]
DoneHook(h)   == hook' = [hook EXCEPT ![h] = IdleHook]

Deliverable(e) ==
  IF e.kind = "chain" THEN onLedger[e.payment] ELSE status[e.payment] # "NONE"

Deliver(h, e) ==
  /\ hook[h].pc = "idle"
  /\ sent[e] < MaxDeliveries[e] /\ Deliverable(e)
  /\ sent' = [sent EXCEPT ![e] = @ + 1]
  /\ \E verified \in Signatures[e] :
       hook' = [hook EXCEPT ![h] =
                  [pc    |-> IF verified THEN "record" ELSE "reject",
                   evt   |-> e,
                   found |-> e.kind # "chain" /\ status[e.payment] # "NONE"]]
  /\ UNCHANGED <<db, queue, creation, watcher, runner, onLedger, used>>

\* (fault) The unverified event is processed all the same.
HookRejectNot(h) ==
  LET e == hook[h].evt IN
  /\ hook[h].pc = "reject"
  /\ row' = [row EXCEPT ![e] = IF @ = "absent" THEN "unverified" ELSE @]
  /\ GoHook(h, "leg")
  /\ UNCHANGED <<status, onchainLeg, fiatLeg, receipt, queue, creation, watcher, runner, env>>

\* Unverified: kept for the admin log under the event's own id, answered 401.
HookReject(h) ==
  LET e == hook[h].evt IN
  /\ hook[h].pc = "reject"
  /\ row' = [row EXCEPT ![e] = IF @ = "absent" THEN "unverified" ELSE @]
  /\ DoneHook(h)
  /\ UNCHANGED <<status, onchainLeg, fiatLeg, receipt, queue, creation, watcher, runner, env>>

\* (fault) The event is looked up by id, but a row that exists is reused.
HookRecordAgain(h) ==
  LET e == hook[h].evt IN
  /\ hook[h].pc = "record"
  /\ row' = [row EXCEPT ![e] = IF @ = "absent" THEN "recorded" ELSE @]
  /\ GoHook(h, IF e.kind = "chain" THEN "lookup" ELSE "leg")
  /\ UNCHANGED <<status, onchainLeg, fiatLeg, receipt, queue, creation, watcher, runner, env>>

\* The (provider, externalId) row is inserted, or it exists: "duplicate".
HookRecord(h) ==
  LET e == hook[h].evt IN
  /\ hook[h].pc = "record"
  /\ IF row[e] = "absent"
       THEN /\ row' = [row EXCEPT ![e] = "recorded"]
            /\ GoHook(h, IF e.kind = "chain" THEN "lookup"
                         ELSE IF hook[h].found THEN "leg" ELSE "orphan")
       ELSE DoneHook(h) /\ UNCHANGED row
  /\ UNCHANGED <<status, onchainLeg, fiatLeg, receipt, queue, creation, watcher, runner, env>>

HookLookup(h) ==
  /\ hook[h].pc = "lookup"
  /\ GoHook(h, IF status[hook[h].evt.payment] = "NONE" THEN "orphan" ELSE "leg")
  /\ UNCHANGED <<db, queue, creation, watcher, runner, env>>

\* No matching payment: the event is marked processed and acknowledged.
HookOrphan(h) ==
  /\ hook[h].pc = "orphan"
  /\ row' = [row EXCEPT ![hook[h].evt] = "processed"]
  /\ DoneHook(h)
  /\ UNCHANGED <<status, onchainLeg, fiatLeg, receipt, queue, creation, watcher, runner, env>>

HookLeg(h) ==
  LET e == hook[h].evt IN
  /\ hook[h].pc = "leg"
  /\ IF e.kind = "chain"
       THEN onchainLeg' = [onchainLeg EXCEPT ![e.payment] = "CONFIRMED"] /\ UNCHANGED fiatLeg
       ELSE fiatLeg' = [fiatLeg EXCEPT ![e.payment] = e] /\ UNCHANGED onchainLeg
  /\ GoHook(h, IF e.kind = "payment.failed" THEN "fail" ELSE "mark")
  /\ UNCHANGED <<status, receipt, row, queue, creation, watcher, runner, env>>

\* payment.failed: the payment is set FAILED whatever its status.
HookFail(h) ==
  /\ hook[h].pc = "fail"
  /\ status' = [status EXCEPT ![hook[h].evt.payment] = "FAILED"]
  /\ GoHook(h, "mark")
  /\ UNCHANGED <<onchainLeg, fiatLeg, receipt, row, queue, creation, watcher, runner, env>>

\* (fault) The handler ends without handing over to the worker.
HookMarkLast(h) ==
  /\ hook[h].pc = "mark"
  /\ row' = [row EXCEPT ![hook[h].evt] = "processed"]
  /\ DoneHook(h)
  /\ UNCHANGED <<status, onchainLeg, fiatLeg, receipt, queue, creation, watcher, runner, env>>

\* (fault) The event is acknowledged but not marked.
HookMarkNothing(h) ==
  /\ hook[h].pc = "mark"
  /\ GoHook(h, "enqueue")
  /\ UNCHANGED <<db, queue, creation, watcher, runner, env>>

HookMark(h) ==
  /\ hook[h].pc = "mark"
  /\ row' = [row EXCEPT ![hook[h].evt] = "processed"]
  /\ GoHook(h, "enqueue")
  /\ UNCHANGED <<status, onchainLeg, fiatLeg, receipt, queue, creation, watcher, runner, env>>

HookEnqueue(h) ==
  /\ hook[h].pc = "enqueue"
  /\ EnqueueReconcile(hook[h].evt.payment)
  /\ DoneHook(h)
  /\ UNCHANGED <<db, watchJob, tries, creation, watcher, runner, env>>

HookAbort(h) ==
  /\ hook[h].pc # "idle"
  /\ Fault
  /\ DoneHook(h)
  /\ UNCHANGED <<db, queue, creation, watcher, runner, onLedger, sent>>

-----------------------------------------------------------------------------
(* processWatchOnchain.                                                     *)

GoWatch(pc) == watcher' = [watcher EXCEPT !.pc = pc]

\* (fault) The worker's step is not reset when its job ends.
EndWatchUnreset(outcome) ==
  /\ watchJob' = [watchJob EXCEPT ![watcher.payment] = outcome]
  /\ watcher' = [watcher EXCEPT !.payment = None]

EndWatch(outcome) ==
  /\ watchJob' = [watchJob EXCEPT ![watcher.payment] = outcome]
  /\ watcher' = IdleWatcher

\* BullMQ retries a job that threw until it has used up its attempts.
WatchThrows ==
  LET made == tries[watcher.payment] + 1 IN
  /\ tries' = [tries EXCEPT ![watcher.payment] = made]
  /\ EndWatch(IF made < QueueAttempts THEN "waiting" ELSE "failed")

\* The job starts and reads the payment; a terminal one needs no watching.
WatchTake(p) ==
  /\ watcher.pc = "idle" /\ watchJob[p] = "waiting"
  /\ IF status[p] \in Terminal
       THEN /\ watchJob' = [watchJob EXCEPT ![p] = "completed"]
            /\ UNCHANGED watcher
       ELSE /\ watchJob' = [watchJob EXCEPT ![p] = "active"]
            /\ watcher' = [pc |-> "poll", payment |-> p]
  /\ UNCHANGED <<db, tries, jobs, creation, hook, runner, env>>

WatchHit ==
  /\ watcher.pc = "poll" /\ onLedger[watcher.payment]
  /\ GoWatch("leg")
  /\ UNCHANGED <<db, queue, creation, hook, runner, env>>

\* (fault) Gives up when the queue's attempts are used up.
WatchMissByQueue ==
  /\ watcher.pc = "poll" /\ ~onLedger[watcher.payment]
  /\ IF tries[watcher.payment] + 1 >= QueueAttempts
       THEN GoWatch("giveUp") /\ UNCHANGED <<watchJob, tries>>
       ELSE WatchThrows
  /\ UNCHANGED <<db, jobs, creation, hook, runner, env>>

\* (fault) Off by one: the last attempt throws like the others.
WatchMissOffByOne ==
  /\ watcher.pc = "poll" /\ ~onLedger[watcher.payment]
  /\ IF tries[watcher.payment] >= MaxWatchAttempts
       THEN GoWatch("giveUp") /\ UNCHANGED <<watchJob, tries>>
       ELSE WatchThrows
  /\ UNCHANGED <<db, jobs, creation, hook, runner, env>>

\* No event yet: give up on the last attempt, throw on every other one.
WatchMiss ==
  /\ watcher.pc = "poll" /\ ~onLedger[watcher.payment]
  /\ IF tries[watcher.payment] + 1 >= MaxWatchAttempts
       THEN GoWatch("giveUp") /\ UNCHANGED <<watchJob, tries>>
       ELSE WatchThrows
  /\ UNCHANGED <<db, jobs, creation, hook, runner, env>>

WatchLeg ==
  /\ watcher.pc = "leg"
  /\ onchainLeg' = [onchainLeg EXCEPT ![watcher.payment] = "CONFIRMED"]
  /\ GoWatch("status")
  /\ UNCHANGED <<status, fiatLeg, receipt, row, queue, creation, hook, runner, env>>

\* The payment is set ONCHAIN_CONFIRMED whatever its status is by now.
WatchStatus ==
  /\ watcher.pc = "status"
  /\ status' = [status EXCEPT ![watcher.payment] = "ONCHAIN_CONFIRMED"]
  /\ GoWatch("enqueue")
  /\ UNCHANGED <<onchainLeg, fiatLeg, receipt, row, queue, creation, hook, runner, env>>

\* (fault) The reconcile job is left to the webhook.
WatchEnqueueNothing ==
  /\ watcher.pc = "enqueue"
  /\ EndWatch("completed")
  /\ UNCHANGED <<db, tries, jobs, creation, hook, runner, env>>

WatchEnqueue ==
  /\ watcher.pc = "enqueue"
  /\ EnqueueReconcile(watcher.payment)
  /\ EndWatch("completed")
  /\ UNCHANGED <<db, tries, creation, hook, runner, env>>

WatchGiveUp ==
  /\ watcher.pc = "giveUp"
  /\ status' = [status EXCEPT ![watcher.payment] = "FAILED"]
  /\ EndWatch("completed")
  /\ UNCHANGED <<onchainLeg, fiatLeg, receipt, row, tries, jobs, creation, hook, runner, env>>

\* A call throws, or the worker dies and BullMQ finds the job stalled.
WatchAbort ==
  /\ watcher.pc # "idle"
  /\ Fault
  /\ \/ WatchThrows
     \/ \E outcome \in {"waiting", "failed"} : EndWatch(outcome) /\ UNCHANGED tries
  /\ UNCHANGED <<db, jobs, creation, hook, runner, onLedger, sent>>

WatchStep == \/ WatchHit \/ WatchMiss \/ WatchLeg
             \/ WatchStatus \/ WatchEnqueue \/ WatchGiveUp

-----------------------------------------------------------------------------
(* processReconcile / tryReconcile / buildReceipt.                          *)

GoRunner(r, pc) == runner' = [runner EXCEPT ![r].pc = pc]
DoneRunner(r)   == runner' = [runner EXCEPT ![r] = IdleRunner]

\* A job starts: payment and legs are read, and what to do is decided.
ReconcileTake(r, p) ==
  /\ runner[r].pc = "idle" /\ jobs[p] > 0
  /\ jobs' = [jobs EXCEPT ![p] = @ - 1]
  /\ runner' = [runner EXCEPT ![r] =
                  IF Verdict(p) = "idle" THEN IdleRunner
                  ELSE [pc |-> Verdict(p), payment |-> p, fiat |-> None]]
  /\ UNCHANGED <<db, watchJob, tries, creation, hook, watcher, env>>

ReconcileFail(r) ==
  /\ runner[r].pc = "fail"
  /\ status' = [status EXCEPT ![runner[r].payment] = "FAILED"]
  /\ DoneRunner(r)
  /\ UNCHANGED <<onchainLeg, fiatLeg, receipt, row, queue, creation, hook, watcher, env>>

\* (fault) The update is not guarded by the current status.
ReconcileSettleBlindly(r) ==
  /\ runner[r].pc = "settle"
  /\ status' = [status EXCEPT ![runner[r].payment] = "SETTLED"]
  /\ GoRunner(r, "readReceipt")
  /\ UNCHANGED <<onchainLeg, fiatLeg, receipt, row, queue, creation, hook, watcher, env>>

\* (fault) The receipt is left to a later reconcile job.
ReconcileSettleOnly(r) ==
  LET p == runner[r].payment IN
  /\ runner[r].pc = "settle"
  /\ status' = [status EXCEPT ![p] = IF @ \in Terminal THEN @ ELSE "SETTLED"]
  /\ DoneRunner(r)
  /\ UNCHANGED <<onchainLeg, fiatLeg, receipt, row, queue, creation, hook, watcher, env>>

\* The guarded update: only a payment that is not terminal by now is settled.
ReconcileSettle(r) ==
  LET p == runner[r].payment IN
  /\ runner[r].pc = "settle"
  /\ IF status[p] \in Terminal
       THEN DoneRunner(r) /\ UNCHANGED status
       ELSE /\ status' = [status EXCEPT ![p] = "SETTLED"]
            /\ GoRunner(r, "readReceipt")
  /\ UNCHANGED <<onchainLeg, fiatLeg, receipt, row, queue, creation, hook, watcher, env>>

\* buildReceipt reads the rows again; without a FIAT leg it throws and the
\* job goes back to the queue.
ReceiptRead(r) ==
  LET p == runner[r].payment IN
  /\ runner[r].pc = "readReceipt"
  /\ IF fiatLeg[p] = None
       THEN DoneRunner(r) /\ EnqueueReconcile(p)
       ELSE /\ runner' = [runner EXCEPT ![r].pc = "writeReceipt", ![r].fiat = fiatLeg[p]]
            /\ UNCHANGED jobs
  /\ UNCHANGED <<db, watchJob, tries, creation, hook, watcher, env>>

ReceiptWrite(r) ==
  /\ runner[r].pc = "writeReceipt"
  /\ receipt' = [receipt EXCEPT ![runner[r].payment] = runner[r].fiat]
  /\ DoneRunner(r)
  /\ UNCHANGED <<status, onchainLeg, fiatLeg, row, queue, creation, hook, watcher, env>>

\* The runner dies or a call throws: the job is run again, or given up when
\* its attempts (or its one stall) are used up.
ReconcileAbort(r) ==
  /\ runner[r].pc # "idle"
  /\ Fault
  /\ EnqueueReconcile(runner[r].payment) \/ UNCHANGED jobs
  /\ DoneRunner(r)
  /\ UNCHANGED <<db, watchJob, tries, creation, hook, watcher, onLedger, sent>>

ReconcileStep(r) == \/ ReconcileFail(r) \/ ReconcileSettle(r)
                    \/ ReceiptRead(r) \/ ReceiptWrite(r)

-----------------------------------------------------------------------------
(* Operator routes.                                                         *)

RetryReconcile(p) ==
  /\ status[p] # "NONE" /\ used.resets + used.retries < MaxCalls
  /\ used' = [used EXCEPT !.retries = @ + 1]
  /\ EnqueueReconcile(p)
  /\ UNCHANGED <<db, watchJob, tries, creation, hook, watcher, runner, onLedger, sent>>

\* resetSamplePayment: one transaction drops Receipt and FIAT leg and
\* returns the payment to PENDING.
DemoReset(p) ==
  /\ status[p] # "NONE" /\ used.resets + used.retries < MaxCalls
  /\ used' = [used EXCEPT !.resets = @ + 1]
  /\ receipt' = [receipt EXCEPT ![p] = None]
  /\ fiatLeg' = [fiatLeg EXCEPT ![p] = None]
  /\ status' = [status EXCEPT ![p] = "PENDING"]
  /\ UNCHANGED <<onchainLeg, row, queue, creation, hook, watcher, runner, onLedger, sent>>

-----------------------------------------------------------------------------
CreateStep(p) == CreateSubmit(p) \/ CreatePersist(p) \/ CreateEnqueue(p)

HookStep(h) == \/ HookReject(h) \/ HookRecord(h) \/ HookLookup(h) \/ HookOrphan(h)
               \/ HookLeg(h) \/ HookFail(h) \/ HookMark(h) \/ HookEnqueue(h)

Next ==
  \/ \E p \in Payments : \/ CreateStep(p) \/ CreateAbort(p) \/ LedgerEvent(p)
                         \/ WatchTake(p) \/ RetryReconcile(p) \/ DemoReset(p)
  \/ \E h \in Hooks : HookStep(h) \/ HookAbort(h) \/ \E e \in Events : Deliver(h, e)
  \/ WatchStep \/ WatchAbort
  \/ \E r \in Runners : \/ ReconcileStep(r) \/ ReconcileAbort(r)
                        \/ \E p \in Payments : ReconcileTake(r, p)

Spec == Init /\ [][Next]_vars

\* The processes run what they have started and the workers poll their
\* queues; users, providers and the ledger owe nothing.
Fairness ==
  /\ \A p \in Payments : WF_vars(CreatePersist(p) \/ CreateEnqueue(p))
  /\ \A h \in Hooks : WF_vars(HookStep(h))
  /\ WF_vars(WatchStep)
  /\ \A p \in Payments : WF_vars(WatchTake(p))
  /\ \A r \in Runners : WF_vars(ReconcileStep(r))
  /\ \A p \in Payments : WF_vars(\E r \in Runners : ReconcileTake(r, p))

FairSpec == Spec /\ Fairness
=============================================================================
