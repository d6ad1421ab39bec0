------------------------ MODULE ReconciliationProofs ------------------------
(* Proofs about Reconciliation for every set of payments and events, every *)
(* number of webhook requests and runners, and every bound: types, evidence, *)
(* the refinement of SettlementContract, that no wake-up is lost, and that  *)
(* a replayed event never rewrites a leg.                                  *)
EXTENDS ReconciliationProperties, FiniteSetTheorems, TLAPS

USE DEF db, queue, env, IdleHook, IdleWatcher, IdleRunner, Fault

-----------------------------------------------------------------------------
(* The helpers that move a process keep its record in its type.            *)

HookTypeOK == /\ hook \in [Hooks -> HookState]
              /\ \A h \in Hooks : hook[h].pc # "idle" => hook[h].evt \in Events

RunnerTypeOK == /\ runner \in [Runners -> RunnerState]
                /\ \A r \in Runners : runner[r].pc # "idle" => runner[r].payment \in Payments

LEMMA HookMoves ==
  ASSUME HookTypeOK, NEW h \in Hooks, hook[h].pc # "idle", NEW pc \in HookPc, GoHook(h, pc)
  PROVE  HookTypeOK'
BY DEF HookTypeOK, HookState, GoHook

LEMMA HookEnds == ASSUME HookTypeOK, NEW h \in Hooks, DoneHook(h) PROVE HookTypeOK'
BY DEF HookTypeOK, HookState, DoneHook, HookPc

LEMMA RunnerMoves ==
  ASSUME RunnerTypeOK, NEW r \in Runners, runner[r].pc # "idle",
         NEW pc \in RunnerPc, GoRunner(r, pc)
  PROVE  RunnerTypeOK'
BY DEF RunnerTypeOK, RunnerState, GoRunner

LEMMA RunnerReads ==
  ASSUME RunnerTypeOK, NEW r \in Runners, runner[r].pc # "idle", NEW f \in Events,
         runner' = [runner EXCEPT ![r].pc = "writeReceipt", ![r].fiat = f]
  PROVE  RunnerTypeOK'
<1> USE DEF RunnerTypeOK, RunnerState
<1>1. \A q \in Runners \ {r} : runner'[q] = runner[q] OBVIOUS
<1>2. /\ runner'[r] = [runner[r] EXCEPT !.pc = "writeReceipt", !.fiat = f]
      /\ runner' \in [Runners -> RunnerState]
  BY DEF RunnerPc
<1>3. runner'[r].payment = runner[r].payment BY <1>2
<1> QED BY <1>1, <1>2, <1>3

LEMMA RunnerEnds == ASSUME RunnerTypeOK, NEW r \in Runners, DoneRunner(r) PROVE RunnerTypeOK'
BY DEF RunnerTypeOK, RunnerState, DoneRunner, RunnerPc

\* A fault is counted.
Used == [faults : Nat, resets : Nat, retries : Nat]

LEMMA FaultCounts == ASSUME used \in Used, Fault PROVE used' \in Used
BY DEF Used

\* Every handler step keeps every variable in its type.
LEMMA TypeStep == TypeOK /\ [Next]_vars => TypeOK'
<1> SUFFICES ASSUME TypeOK, [Next]_vars PROVE TypeOK' OBVIOUS
<1> USE EventAssumption, BoundAssumption
    DEF TypeOK, PaymentStatus, RowStatus, JobStatus, HookState, WatchState, RunnerState,
        WatchPc, EnqueueReconcile, GoWatch, EndWatch, WatchThrows, HookTypeOK, RunnerTypeOK
<1>1. ASSUME NEW p \in Payments, CreateStep(p) \/ CreateAbort(p) \/ LedgerEvent(p)
      PROVE TypeOK'
  <2>1. CASE CreateSubmit(p) BY <2>1 DEF CreateSubmit
  <2>2. CASE CreatePersist(p) BY <2>2 DEF CreatePersist
  <2>3. CASE CreateEnqueue(p) BY <2>3 DEF CreateEnqueue
  <2>4. CASE CreateAbort(p)
    <3>1. used' \in [faults : Nat, resets : Nat, retries : Nat]
      <4>1. Fault BY <2>4 DEF CreateAbort
      <4>2. used \in Used BY DEF Used
      <4> HIDE DEF Fault
      <4> QED BY <4>1, <4>2, FaultCounts DEF Used
    <3>2. creation' \in [Payments -> {"idle", "submitted", "persisted", "done", "aborted"}]
      BY <2>4 DEF CreateAbort
    <3>3. UNCHANGED <<status, onchainLeg, fiatLeg, receipt, row, watchJob, tries, jobs,
                      hook, watcher, runner, onLedger, sent>>
      BY <2>4 DEF CreateAbort
    <3> QED BY <3>1, <3>2, <3>3
  <2>5. CASE LedgerEvent(p) BY <2>5 DEF LedgerEvent
  <2> QED BY <1>1, <2>1, <2>2, <2>3, <2>4, <2>5 DEF CreateStep
<1>2. ASSUME NEW p \in Payments, RetryReconcile(p) \/ DemoReset(p) PROVE TypeOK'
  <2>1. CASE RetryReconcile(p) BY <2>1, SMTT(30) DEF RetryReconcile
  <2>2. CASE DemoReset(p) BY <2>2 DEF DemoReset
  <2> QED BY <1>2, <2>1, <2>2
<1>3. ASSUME NEW h \in Hooks, NEW e \in Events, Deliver(h, e) PROVE TypeOK'
  BY <1>3 DEF Deliver, HookPc
<1>4. ASSUME NEW h \in Hooks, HookStep(h) \/ HookAbort(h) PROVE TypeOK'
  <2>0. hook[h].pc # "idle" /\ hook[h].evt \in Events
    BY <1>4 DEF HookStep, HookReject, HookRecord, HookLookup, HookOrphan, HookLeg, HookFail,
                HookMark, HookEnqueue, HookAbort
  <2> HIDE DEF HookTypeOK
  <2>a. HookTypeOK BY DEF HookTypeOK
  <2>b. ASSUME NEW pc \in HookPc, GoHook(h, pc) PROVE HookTypeOK' BY <2>0, <2>a, <2>b, HookMoves
  <2>c. ASSUME DoneHook(h) PROVE HookTypeOK' BY <2>a, <2>c, HookEnds
  <2>d. HookTypeOK' BY <1>4, <2>b, <2>c DEF HookStep, HookReject, HookRecord, HookLookup,
          HookOrphan, HookLeg, HookFail, HookMark, HookEnqueue, HookAbort, HookPc
  <2> USE <2>d DEF HookTypeOK
  <2>1. CASE HookReject(h) BY <2>0, <2>1 DEF HookReject
  <2>2. CASE HookRecord(h) BY <2>0, <2>2, SMTT(30) DEF HookRecord
  <2>3. CASE HookLookup(h) BY <2>0, <2>3 DEF HookLookup
  <2>4. CASE HookOrphan(h) BY <2>0, <2>4 DEF HookOrphan
  <2>5. CASE HookLeg(h) BY <2>0, <2>5 DEF HookLeg
  <2>6. CASE HookFail(h) BY <2>0, <2>6 DEF HookFail
  <2>7. CASE HookMark(h) BY <2>0, <2>7 DEF HookMark
  <2>8. CASE HookEnqueue(h) BY <2>0, <2>8 DEF HookEnqueue
  <2>9. CASE HookAbort(h) BY <2>0, <2>9, SMTT(30) DEF HookAbort
  <2> QED BY <1>4, <2>1, <2>2, <2>3, <2>4, <2>5, <2>6, <2>7, <2>8, <2>9 DEF HookStep
<1>5. ASSUME NEW p \in Payments, WatchTake(p) PROVE TypeOK'
  <2>1. CASE status[p] \in Terminal BY <1>5, <2>1, ZenonT(30) DEF WatchTake
  <2>2. CASE status[p] \notin Terminal BY <1>5, <2>2, SMTT(30) DEF WatchTake
  <2> QED BY <2>1, <2>2
<1>6. ASSUME WatchStep \/ WatchAbort PROVE TypeOK'
  <2>0. watcher.pc # "idle" /\ watcher.payment \in Payments
    BY <1>6 DEF WatchStep, WatchHit, WatchMiss, WatchLeg, WatchStatus, WatchEnqueue,
                WatchGiveUp, WatchAbort
  <2>t. ASSUME WatchThrows
        PROVE  /\ tries' \in [Payments -> Nat]
               /\ watchJob' \in [Payments -> JobStatus]
               /\ watcher' = IdleWatcher
    BY <2>0, <2>t
  <2>1. CASE WatchHit BY <2>1 DEF WatchHit
  <2>2. CASE WatchMiss
    <3>1. CASE tries[watcher.payment] + 1 >= MaxWatchAttempts
      BY <2>0, <2>2, <3>1 DEF WatchMiss
    <3>2. CASE ~(tries[watcher.payment] + 1 >= MaxWatchAttempts)
      BY <2>2, <2>t, <3>2 DEF WatchMiss
    <3> QED BY <3>1, <3>2
  <2>3. CASE WatchLeg BY <2>3 DEF WatchLeg
  <2>4. CASE WatchStatus BY <2>4 DEF WatchStatus
  <2>5. CASE WatchEnqueue BY <2>5 DEF WatchEnqueue
  <2>6. CASE WatchGiveUp BY <2>6 DEF WatchGiveUp
  <2>7. CASE WatchAbort
    <3>1. CASE WatchThrows BY <2>7, <2>t, <3>1, SMTT(30) DEF WatchAbort
    <3>2. ASSUME NEW outcome \in {"waiting", "failed"}, EndWatch(outcome), UNCHANGED tries
          PROVE TypeOK'
      BY <2>0, <2>7, <3>2 DEF WatchAbort
    <3> QED BY <2>7, <3>1, <3>2 DEF WatchAbort
  <2> QED BY <1>6, <2>1, <2>2, <2>3, <2>4, <2>5, <2>6, <2>7 DEF WatchStep
<1>7. ASSUME NEW r \in Runners, NEW p \in Payments, ReconcileTake(r, p) PROVE TypeOK'
  BY <1>7 DEF ReconcileTake, Verdict, RunnerPc
<1>8. ASSUME NEW r \in Runners, ReconcileStep(r) \/ ReconcileAbort(r) PROVE TypeOK'
  <2>0. runner[r].pc # "idle" /\ runner[r].payment \in Payments
    BY <1>8 DEF ReconcileStep, ReconcileFail, ReconcileSettle, ReceiptRead, ReceiptWrite,
                ReconcileAbort
  <2> HIDE DEF RunnerTypeOK
  <2>a. RunnerTypeOK BY DEF RunnerTypeOK
  <2>b. ASSUME NEW pc \in RunnerPc, GoRunner(r, pc) PROVE RunnerTypeOK'
    BY <2>0, <2>a, <2>b, RunnerMoves
  <2>c. ASSUME DoneRunner(r) PROVE RunnerTypeOK' BY <2>a, <2>c, RunnerEnds
  <2>d. ASSUME NEW f \in Events,
               runner' = [runner EXCEPT ![r].pc = "writeReceipt", ![r].fiat = f]
        PROVE  RunnerTypeOK'
    BY <2>0, <2>a, <2>d, RunnerReads
  <2>1. CASE ReconcileFail(r) BY <2>0, <2>1, <2>c DEF ReconcileFail, RunnerTypeOK
  <2>2. CASE ReconcileSettle(r)
    BY <2>0, <2>2, <2>b, <2>c, SMTT(30) DEF ReconcileSettle, RunnerTypeOK, RunnerPc
  <2>3. CASE ReceiptRead(r)
    <3>1. jobs' \in [Payments -> Nat]
      BY <2>0, <2>3, SMTT(30) DEF ReceiptRead, RunnerTypeOK
    <3>2. RunnerTypeOK'
      <4>1. CASE fiatLeg[runner[r].payment] = None BY <2>3, <2>c, <4>1 DEF ReceiptRead
      <4>2. CASE fiatLeg[runner[r].payment] # None
        <5>1. fiatLeg[runner[r].payment] \in Events BY <2>0, <4>2
        <5> QED BY <2>3, <2>d, <4>2, <5>1 DEF ReceiptRead
      <4> QED BY <4>1, <4>2
    <3> QED BY <2>3, <3>1, <3>2, SMTT(30) DEF ReceiptRead, RunnerTypeOK
  <2>4. CASE ReceiptWrite(r) BY <2>0, <2>4, <2>c DEF ReceiptWrite, RunnerTypeOK
  <2>5. CASE ReconcileAbort(r)
    <3>1. jobs' \in [Payments -> Nat] BY <2>0, <2>5 DEF ReconcileAbort
    <3>2. RunnerTypeOK' BY <2>5, <2>c DEF ReconcileAbort
    <3>3. used' \in [faults : Nat, resets : Nat, retries : Nat] BY <2>5 DEF ReconcileAbort
    <3> QED BY <2>5, <3>1, <3>2, <3>3 DEF ReconcileAbort, RunnerTypeOK
  <2> QED BY <1>8, <2>1, <2>2, <2>3, <2>4, <2>5 DEF ReconcileStep
<1>9. CASE UNCHANGED vars BY <1>9 DEF vars
<1> QED BY <1>1, <1>2, <1>3, <1>4, <1>5, <1>6, <1>7, <1>8, <1>9 DEF Next

\* Every variable keeps its type: TypeOK, for every instance.
THEOREM TypeCorrect == Spec => []TypeOK
<1>1. Init => TypeOK
  BY EventAssumption DEF Init, TypeOK, PaymentStatus, RowStatus, JobStatus, HookState, WatchState,
                         RunnerState, HookPc, WatchPc, RunnerPc
<1> QED BY <1>1, TypeStep, PTL DEF Spec

-----------------------------------------------------------------------------
(* Evidence only grows.                                                    *)

\* No step takes a verified event, a confirmed ONCHAIN leg or a payment's
\* row away again.
Grows == /\ \A e \in Events : Verified(e) => Verified(e)'
         /\ \A p \in Payments : onchainLeg[p] = "CONFIRMED" => onchainLeg'[p] = "CONFIRMED"
         /\ \A p \in Payments : status[p] # "NONE" => status'[p] # "NONE"

LEMMA GrowsStep == ASSUME TypeOK, Creations, [Next]_vars PROVE Grows
<1> USE DEF TypeOK, Grows, Verified
<1>1. ASSUME NEW p \in Payments, CreateStep(p) \/ CreateAbort(p) \/ LedgerEvent(p)
      PROVE Grows
  <2>1. CASE CreatePersist(p) BY <2>1 DEF CreatePersist, Creations
  <2> QED BY <1>1, <2>1 DEF CreateStep, CreateSubmit, CreateEnqueue, CreateAbort, LedgerEvent
<1>2. ASSUME NEW p \in Payments, RetryReconcile(p) \/ DemoReset(p) \/ WatchTake(p) PROVE Grows
  BY <1>2 DEF RetryReconcile, DemoReset, WatchTake
<1>3. ASSUME NEW h \in Hooks, NEW e \in Events, Deliver(h, e) PROVE Grows
  BY <1>3 DEF Deliver
<1>4. ASSUME NEW h \in Hooks, HookStep(h) \/ HookAbort(h) PROVE Grows
  <2>1. CASE HookReject(h) BY <2>1 DEF HookReject
  <2>2. CASE HookRecord(h) BY <2>2 DEF HookRecord
  <2>3. CASE HookLookup(h) \/ HookEnqueue(h) \/ HookAbort(h)
    BY <2>3 DEF HookLookup, HookEnqueue, HookAbort
  <2>4. CASE HookOrphan(h) \/ HookMark(h) BY <2>4 DEF HookOrphan, HookMark
  <2>5. CASE HookLeg(h) BY <2>5 DEF HookLeg
  <2>6. CASE HookFail(h) BY <2>6 DEF HookFail
  <2> QED BY <1>4, <2>1, <2>2, <2>3, <2>4, <2>5, <2>6 DEF HookStep
<1>5. ASSUME WatchStep \/ WatchAbort PROVE Grows
  BY <1>5 DEF WatchStep, WatchHit, WatchMiss, WatchLeg, WatchStatus, WatchEnqueue, WatchGiveUp,
              WatchAbort
<1>6. ASSUME NEW r \in Runners, NEW p \in Payments, ReconcileTake(r, p) PROVE Grows
  BY <1>6 DEF ReconcileTake
<1>7. ASSUME NEW r \in Runners, ReconcileStep(r) \/ ReconcileAbort(r) PROVE Grows
  BY <1>7 DEF ReconcileStep, ReconcileFail, ReconcileSettle, ReceiptRead, ReceiptWrite,
              ReconcileAbort
<1>8. CASE UNCHANGED vars BY <1>8 DEF vars
<1> QED BY <1>1, <1>2, <1>3, <1>4, <1>5, <1>6, <1>7, <1>8 DEF Next

\* The matcher's deviation test accepts exactly the band of 1 % on either side.
LEMMA MatchesAreCompletions ==
  ASSUME NEW e \in Events
  PROVE  FiatMatches(e) <=> e \in Completions
<1>1. CASE e.kind = "payment.completed"
  <2>1. Quoted[e.payment] \in Nat /\ e.amount \in Nat
    BY <1>1, EventAssumption
  <2>2. WithinTolerance(Quoted[e.payment], e.amount) <=> InBand(Quoted[e.payment], e.amount)
    <3>1. ASSUME NEW q \in Nat, NEW a \in Nat PROVE WithinTolerance(q, a) <=> InBand(q, a)
      BY DEF WithinTolerance, InBand, Abs
    <3> QED BY <2>1, <3>1
  <2> QED BY <2>2 DEF FiatMatches, Completions
<1>2. CASE e.kind # "payment.completed" BY <1>2 DEF FiatMatches, Completions
<1> QED BY <1>1, <1>2

\* So what a settlement or a failure stands on is never lost.
LEMMA EvidenceGrows ==
  ASSUME TypeOK, Grows, NEW p \in Payments
  PROVE  /\ Evidenced(p) => Evidenced(p)'
         /\ FailureNotice(p) => FailureNotice(p)'
         /\ \A e \in Events : FiatEventOf(e, p) => FiatEventOf(e, p)'
BY DEF Grows, Evidenced, MatchingEvent, Completions, FailureNotice, Refusals, FiatEventOf

-----------------------------------------------------------------------------
(* EvidenceInv is inductive, one conjunct after the other.                 *)

LEMMA CreationsStep ==
  ASSUME TypeOK, Creations, Provenance, Decisions, [Next]_vars PROVE Creations'
<1> USE DEF TypeOK, Creations
<1>1. ASSUME NEW p \in Payments, CreateStep(p) \/ CreateAbort(p) \/ LedgerEvent(p)
      PROVE Creations'
  <2>1. CASE CreateSubmit(p) BY <2>1 DEF CreateSubmit
  <2>2. CASE CreatePersist(p) BY <2>2 DEF CreatePersist
  <2>3. CASE CreateEnqueue(p) BY <2>3 DEF CreateEnqueue
  <2>4. CASE CreateAbort(p) BY <2>4 DEF CreateAbort
  <2>5. CASE LedgerEvent(p) BY <2>5 DEF LedgerEvent
  <2> QED BY <1>1, <2>1, <2>2, <2>3, <2>4, <2>5 DEF CreateStep
<1>2. ASSUME NEW p \in Payments, RetryReconcile(p) \/ DemoReset(p) \/ WatchTake(p)
      PROVE Creations'
  BY <1>2 DEF RetryReconcile, DemoReset, WatchTake
<1>3. ASSUME NEW h \in Hooks, NEW e \in Events, Deliver(h, e) PROVE Creations'
  BY <1>3 DEF Deliver
<1>4. ASSUME NEW h \in Hooks, HookStep(h) \/ HookAbort(h) PROVE Creations'
  <2>1. CASE HookLeg(h) BY <2>1 DEF HookLeg, Provenance
  <2>2. CASE HookFail(h) BY <2>2 DEF HookFail, Provenance
  <2> QED BY <1>4, <2>1, <2>2 DEF HookStep, HookReject, HookRecord, HookLookup, HookOrphan,
                                  HookMark, HookEnqueue, HookAbort, EnqueueReconcile
<1>5. ASSUME WatchStep \/ WatchAbort PROVE Creations'
  <2>1. ASSUME NEW outcome, EndWatch(outcome), watcher.pc # "idle",
               UNCHANGED <<status, onchainLeg, creation>>
        PROVE  Creations'
    BY <2>1 DEF EndWatch
  <2>2. CASE WatchHit BY <2>2 DEF WatchHit, GoWatch
  <2>3. CASE WatchMiss
    <3>1. CASE WatchThrows BY <2>1, <2>3, <3>1 DEF WatchMiss, WatchThrows
    <3>2. CASE GoWatch("giveUp") /\ UNCHANGED <<watchJob, tries>>
      BY <2>3, <3>2 DEF WatchMiss, GoWatch
    <3> QED BY <2>3, <3>1, <3>2 DEF WatchMiss
  <2>4. CASE WatchLeg BY <2>4 DEF WatchLeg, GoWatch
  <2>5. CASE WatchStatus BY <2>5 DEF WatchStatus, GoWatch
  <2>6. CASE WatchEnqueue BY <2>1, <2>6 DEF WatchEnqueue
  <2>7. CASE WatchGiveUp BY <2>7 DEF WatchGiveUp, EndWatch
  <2>8. CASE WatchAbort BY <2>1, <2>8 DEF WatchAbort, WatchThrows
  <2> QED BY <1>5, <2>2, <2>3, <2>4, <2>5, <2>6, <2>7, <2>8 DEF WatchStep
<1>6. ASSUME NEW r \in Runners, NEW p \in Payments, ReconcileTake(r, p) PROVE Creations'
  BY <1>6 DEF ReconcileTake
<1>7. ASSUME NEW r \in Runners, ReconcileStep(r) \/ ReconcileAbort(r) PROVE Creations'
  <2>1. CASE ReconcileFail(r) BY <2>1 DEF ReconcileFail, Decisions
  <2>2. CASE ReconcileSettle(r) BY <2>2 DEF ReconcileSettle, Decisions
  <2> QED BY <1>7, <2>1, <2>2 DEF ReconcileStep, ReceiptRead, ReceiptWrite, ReconcileAbort
<1>8. CASE UNCHANGED vars BY <1>8 DEF vars
<1> QED BY <1>1, <1>2, <1>3, <1>4, <1>5, <1>6, <1>7, <1>8 DEF Next

LEMMA ProvenanceStep ==
  ASSUME TypeOK, Creations, Provenance, [Next]_vars PROVE Provenance'
<1>0. Grows BY GrowsStep
<1>a. \A p \in Payments, e \in Events : FiatEventOf(e, p) => FiatEventOf(e, p)'
  BY <1>0, EvidenceGrows
<1>b. \A h \in Hooks : hook[h].pc # "idle" => hook[h].evt \in Events /\ hook[h].evt.payment \in Payments
  BY EventAssumption DEF TypeOK
\* While the FIAT legs and the handlers stay as they are, growth is enough.
<1>c. ASSUME UNCHANGED <<fiatLeg, hook>> PROVE Provenance'
  BY <1>0, <1>a, <1>b, <1>c DEF Provenance, TypeOK, Grows, HookState
<1>d. ASSUME NEW h \in Hooks, DoneHook(h), UNCHANGED fiatLeg PROVE Provenance'
  BY <1>0, <1>a, <1>b, <1>d DEF Provenance, TypeOK, Grows, HookState, DoneHook
<1>e. ASSUME NEW h \in Hooks, NEW pc \in HookPc, GoHook(h, pc), UNCHANGED fiatLeg,
             hook[h].pc # "idle", NEW e \in Events, e = hook[h].evt,
             pc # "idle",
             pc \notin {"reject", "record"} => Verified(e)',
             pc \in {"leg", "fail", "mark", "enqueue"} => status'[e.payment] # "NONE",
             pc = "fail" => e.kind = "payment.failed"
      PROVE  Provenance'
  <2>1. /\ hook'[h].evt = e /\ hook'[h].found = hook[h].found /\ hook'[h].pc = pc
        /\ \A g \in Hooks \ {h} : hook'[g] = hook[g]
    BY <1>e DEF GoHook, TypeOK, HookState
  <2> QED BY <1>0, <1>a, <1>b, <1>e, <2>1 DEF Provenance, TypeOK, Grows, Verified
<1>1. ASSUME NEW p \in Payments, CreateStep(p) \/ CreateAbort(p) \/ LedgerEvent(p)
      PROVE Provenance'
  BY <1>1, <1>c DEF CreateStep, CreateSubmit, CreatePersist, CreateEnqueue, CreateAbort,
                    LedgerEvent
<1>2. ASSUME NEW p \in Payments, RetryReconcile(p) \/ WatchTake(p) PROVE Provenance'
  BY <1>2, <1>c DEF RetryReconcile, WatchTake
<1>3. ASSUME NEW p \in Payments, DemoReset(p) PROVE Provenance'
  BY <1>0, <1>a, <1>b, <1>3 DEF DemoReset, Provenance, TypeOK, Grows, HookState
<1>4. ASSUME NEW h \in Hooks, NEW e \in Events, Deliver(h, e) PROVE Provenance'
  <2>1. PICK verified \in Signatures[e] :
          hook' = [hook EXCEPT ![h] =
                     [pc    |-> IF verified THEN "record" ELSE "reject",
                      evt   |-> e,
                      found |-> e.kind # "chain" /\ status[e.payment] # "NONE"]]
    BY <1>4 DEF Deliver
  <2>2. /\ hook'[h].evt = e /\ hook'[h].pc \in {"record", "reject"}
        /\ hook'[h].found => status[e.payment] # "NONE"
        /\ \A g \in Hooks \ {h} : hook'[g] = hook[g]
    BY <2>1 DEF TypeOK
  <2>3. UNCHANGED <<fiatLeg, status, row>> BY <1>4 DEF Deliver
  <2> QED BY <1>0, <1>a, <1>b, <2>2, <2>3 DEF Provenance, TypeOK, Grows, Verified
<1>5. ASSUME NEW h \in Hooks, HookStep(h) \/ HookAbort(h) PROVE Provenance'
  <2>0. hook[h].pc # "idle"
    BY <1>5 DEF HookStep, HookReject, HookRecord, HookLookup, HookOrphan, HookLeg, HookFail,
                HookMark, HookEnqueue, HookAbort
  <2>e. PICK e \in Events : e = hook[h].evt /\ e.payment \in Payments BY <1>b, <2>0
  \* Past the idempotency check the event stays verified, and past the lookup
  \* the payment stays there.
  <2>v. hook[h].pc \notin {"idle", "reject", "record"} => Verified(e)'
    BY <1>0, <2>e DEF Provenance, Grows
  <2>s. hook[h].pc \in {"leg", "fail", "mark", "enqueue"} => status'[e.payment] # "NONE"
    BY <1>0, <2>e DEF Provenance, Grows
  <2>1. CASE HookReject(h) BY <2>1, <1>d DEF HookReject
  <2>2. CASE HookRecord(h)
    <3>1. CASE row[hook[h].evt] # "absent" BY <2>2, <3>1, <1>d DEF HookRecord
    <3>2. CASE row[hook[h].evt] = "absent"
      <4>1. Verified(e)' /\ fiatLeg' = fiatLeg /\ status' = status
        BY <2>e, <2>2, <3>2 DEF HookRecord, Verified, TypeOK
      <4>2. hook[h].found => status[e.payment] # "NONE" BY <2>e DEF Provenance
      <4>3. PICK pc \in {"lookup", "leg", "orphan"} :
              GoHook(h, pc) /\ (pc = "leg" => status[e.payment] # "NONE")
        BY <2>2, <3>2, <4>2 DEF HookRecord
      <4>4. pc \in {"leg", "fail", "mark", "enqueue"} => status'[e.payment] # "NONE"
        BY <4>1, <4>3
      <4>5. pc \in HookPc /\ pc # "idle" /\ pc # "fail" BY <4>3 DEF HookPc
      <4>6. GoHook(h, pc) /\ UNCHANGED fiatLeg BY <4>1, <4>3
      <4> QED BY <2>0, <2>e, <4>1, <4>4, <4>5, <4>6, <1>e
    <3> QED BY <3>1, <3>2
  <2>3. CASE HookLookup(h)
    <3>1. PICK pc \in {"leg", "orphan"} : /\ GoHook(h, pc)
                                          /\ pc = "leg" => status[e.payment] # "NONE"
      BY <2>e, <2>3 DEF HookLookup
    <3> QED BY <2>e, <2>v, <2>3, <3>1, <1>e DEF HookLookup, HookPc
  <2>4. CASE HookOrphan(h) BY <2>4, <1>d DEF HookOrphan
  <2>5. CASE HookLeg(h)
    <3>1. PICK pc \in {"fail", "mark"} : /\ GoHook(h, pc)
                                         /\ pc = "fail" => e.kind = "payment.failed"
      BY <2>e, <2>5 DEF HookLeg
    <3>2. CASE e.kind = "chain"
      BY <2>e, <2>v, <2>s, <2>5, <3>1, <3>2, <1>e DEF HookLeg, HookPc
    <3>3. CASE e.kind # "chain"
      <4>1. FiatEventOf(e, e.payment)'
        BY <2>v, <2>5, <3>3, EventAssumption DEF HookLeg, FiatEventOf, FiatKinds
      <4>2. (\A p \in Payments : fiatLeg[p] # None => FiatEventOf(fiatLeg[p], p))'
        <5>1. fiatLeg' = [fiatLeg EXCEPT ![e.payment] = e] BY <2>e, <2>5, <3>3 DEF HookLeg
        <5>2. \A p \in Payments :
                fiatLeg[p] # None => fiatLeg[p] \in Events /\ FiatEventOf(fiatLeg[p], p)
          BY DEF Provenance, TypeOK
        <5>3. fiatLeg'[e.payment] = e BY <2>e, <5>1 DEF TypeOK
        <5>4. \A p \in Payments \ {e.payment} : fiatLeg'[p] = fiatLeg[p] BY <5>1 DEF TypeOK
        <5> QED BY <1>a, <2>e, <4>1, <5>2, <5>3, <5>4 DEF FiatEventOf, Verified
      <4>3. /\ hook'[h].evt = e /\ hook'[h].found = hook[h].found /\ hook'[h].pc = pc
            /\ \A g \in Hooks \ {h} : hook'[g] = hook[g]
        BY <2>e, <3>1 DEF GoHook, TypeOK, HookState
      <4>4. UNCHANGED <<status, row>> BY <2>5 DEF HookLeg
      <4> QED BY <1>0, <1>b, <2>e, <2>v, <2>s, <2>5, <3>1, <4>2, <4>3, <4>4
              DEF Provenance, HookLeg, Verified
    <3> QED BY <3>2, <3>3
  <2>6. CASE HookFail(h) BY <2>e, <2>v, <2>s, <2>6, <1>e DEF HookFail, HookPc
  <2>7. CASE HookMark(h) BY <2>e, <2>v, <2>s, <2>7, <1>e DEF HookMark, HookPc
  <2>8. CASE HookEnqueue(h) BY <2>8, <1>d DEF HookEnqueue
  <2>9. CASE HookAbort(h) BY <2>9, <1>d DEF HookAbort
  <2> QED BY <1>5, <2>1, <2>2, <2>3, <2>4, <2>5, <2>6, <2>7, <2>8, <2>9 DEF HookStep
<1>6. ASSUME WatchStep \/ WatchAbort PROVE Provenance'
  BY <1>6, <1>c DEF WatchStep, WatchHit, WatchMiss, WatchLeg, WatchStatus, WatchEnqueue,
                    WatchGiveUp, WatchAbort
<1>7. ASSUME NEW r \in Runners, NEW p \in Payments, ReconcileTake(r, p) PROVE Provenance'
  BY <1>7, <1>c DEF ReconcileTake
<1>8. ASSUME NEW r \in Runners, ReconcileStep(r) \/ ReconcileAbort(r) PROVE Provenance'
  BY <1>8, <1>c DEF ReconcileStep, ReconcileFail, ReconcileSettle, ReceiptRead, ReceiptWrite,
                    ReconcileAbort
<1>9. CASE UNCHANGED vars BY <1>9, <1>c DEF vars
<1> QED BY <1>1, <1>2, <1>3, <1>4, <1>5, <1>6, <1>7, <1>8, <1>9 DEF Next

LEMMA DecisionsStep ==
  ASSUME TypeOK, Creations, Provenance, Decisions, [Next]_vars PROVE Decisions'
<1>0. Grows BY GrowsStep
<1>a. \A p \in Payments :
        /\ Evidenced(p) => Evidenced(p)'
        /\ FailureNotice(p) => FailureNotice(p)'
        /\ \A e \in Events : FiatEventOf(e, p) => FiatEventOf(e, p)'
  BY <1>0, EvidenceGrows
<1>b. \A r \in Runners : runner[r].pc # "idle" => runner[r].payment \in Payments BY DEF TypeOK
<1>c. ASSUME UNCHANGED runner PROVE Decisions'
  BY <1>0, <1>a, <1>b, <1>c DEF Decisions, Grows
\* Only one runner moves; it is enough to justify where it goes.
<1>d. ASSUME NEW r \in Runners, NEW next \in RunnerState,
             runner' = [runner EXCEPT ![r] = next],
             next.pc # "idle" => /\ next.payment \in Payments
                                 /\ status'[next.payment] # "NONE",
             next.pc \in {"settle", "readReceipt", "writeReceipt"} => Evidenced(next.payment)',
             next.pc = "writeReceipt"
               => next.fiat \in Events /\ FiatEventOf(next.fiat, next.payment)',
             next.pc = "fail" => FailureNotice(next.payment)'
      PROVE  Decisions'
  <2>1. runner'[r] = next /\ \A q \in Runners \ {r} : runner'[q] = runner[q]
    BY <1>d DEF TypeOK
  <2> QED BY <1>0, <1>a, <1>b, <1>d, <2>1 DEF Decisions, Grows
<1>e. ASSUME NEW r \in Runners, DoneRunner(r) PROVE Decisions'
  BY <1>d, <1>e DEF DoneRunner, RunnerState, RunnerPc
<1>2. ASSUME NEW r \in Runners, NEW p \in Payments, ReconcileTake(r, p) PROVE Decisions'
  <2>1. CASE Verdict(p) = "idle" BY <1>2, <2>1, <1>e DEF ReconcileTake, DoneRunner
  <2>2. CASE Verdict(p) # "idle"
    <3>1. Verdict(p) \in {"settle", "fail"} BY <2>2 DEF Verdict
    <3>2. status[p] # "NONE" BY <2>2 DEF Verdict
    <3>3. Verdict(p) = "settle" => Matched(p) BY DEF Verdict
    <3>4. Matched(p) => Evidenced(p)
      BY MatchesAreCompletions DEF Matched, Evidenced, MatchingEvent, Provenance, FiatEventOf, TypeOK
    <3>5. Verdict(p) = "fail" => LegFailed(p) BY DEF Verdict
    <3>6. LegFailed(p) => FailureNotice(p)
      BY DEF LegFailed, FailureNotice, Refusals, Provenance, FiatEventOf, TypeOK
    <3> DEFINE next == [pc |-> Verdict(p), payment |-> p, fiat |-> None]
    <3>7. runner' = [runner EXCEPT ![r] = next] BY <1>2, <2>2 DEF ReconcileTake
    <3>8. next \in RunnerState BY <3>1 DEF RunnerState, RunnerPc
    <3>9. UNCHANGED db BY <1>2 DEF ReconcileTake
    <3>a. PICK v \in {"settle", "fail"} : v = Verdict(p) BY <3>1
    <3> HIDE DEF next
    <3>b. next.pc = v /\ next.payment = p BY <3>a DEF next
    <3> QED BY <1>0, <1>a, <1>d, <3>2, <3>3, <3>4, <3>5, <3>6, <3>7, <3>8, <3>9, <3>a, <3>b
            DEF Grows
  <2> QED BY <2>1, <2>2
<1>3. ASSUME NEW r \in Runners, ReconcileStep(r) \/ ReconcileAbort(r) PROVE Decisions'
  <2>0. runner[r].pc # "idle" /\ runner[r].payment \in Payments
    BY <1>3, <1>b DEF ReconcileStep, ReconcileFail, ReconcileSettle, ReceiptRead,
                      ReceiptWrite, ReconcileAbort
  <2>p. PICK p \in Payments : p = runner[r].payment BY <2>0
  <2>1. CASE ReconcileFail(r) \/ ReceiptWrite(r) \/ ReconcileAbort(r)
    BY <2>1, <1>e DEF ReconcileFail, ReceiptWrite, ReconcileAbort
  <2>2. CASE ReconcileSettle(r)
    <3>1. CASE status[p] \in Terminal BY <2>p, <2>2, <3>1, <1>e DEF ReconcileSettle
    <3>2. CASE status[p] \notin Terminal
      <4> DEFINE next == [runner[r] EXCEPT !.pc = "readReceipt"]
      <4>1. runner' = [runner EXCEPT ![r] = next] BY <2>p, <2>2, <3>2 DEF ReconcileSettle, GoRunner
      <4>2. next \in RunnerState /\ next.pc = "readReceipt" /\ next.payment = p
        BY <2>p DEF TypeOK, RunnerState, RunnerPc
      <4>3. Evidenced(p)' /\ status'[p] # "NONE"
        BY <1>0, <1>a, <2>p, <2>2 DEF ReconcileSettle, Decisions, Grows
      <4> HIDE DEF next
      <4> QED BY <1>d, <4>1, <4>2, <4>3
    <3> QED BY <3>1, <3>2
  <2>3. CASE ReceiptRead(r)
    <3>1. CASE fiatLeg[p] = None BY <2>p, <2>3, <3>1, <1>e DEF ReceiptRead
    <3>2. CASE fiatLeg[p] # None
      <4>f. PICK f \in Events : f = fiatLeg[p] /\ FiatEventOf(f, p)
        BY <3>2 DEF Provenance, TypeOK
      <4> DEFINE next == [runner[r] EXCEPT !.pc = "writeReceipt", !.fiat = f]
      <4>1. runner' = [runner EXCEPT ![r] = next] BY <2>p, <2>3, <3>2, <4>f DEF ReceiptRead
      <4>2. /\ next \in RunnerState /\ next.pc = "writeReceipt" /\ next.payment = p
            /\ next.fiat = f
        BY <2>p DEF TypeOK, RunnerState, RunnerPc
      <4>3. Evidenced(p)' /\ status'[p] # "NONE" /\ FiatEventOf(f, p)'
        BY <1>0, <1>a, <2>p, <2>3, <4>f DEF ReceiptRead, Decisions, Grows
      <4> HIDE DEF next
      <4> QED BY <1>d, <4>1, <4>2, <4>3
    <3> QED BY <3>1, <3>2
  <2> QED BY <1>3, <2>1, <2>2, <2>3 DEF ReconcileStep
<1>4. CASE UNCHANGED vars BY <1>4, <1>c DEF vars
<1>5. ASSUME NEW p \in Payments, \/ CreateStep(p) \/ CreateAbort(p) \/ LedgerEvent(p)
                                  \/ WatchTake(p) \/ RetryReconcile(p) \/ DemoReset(p)
      PROVE Decisions'
  BY <1>5, <1>c DEF CreateStep, CreateSubmit, CreatePersist, CreateEnqueue, CreateAbort,
                    LedgerEvent, WatchTake, RetryReconcile, DemoReset
<1>6. ASSUME NEW h \in Hooks, HookStep(h) \/ HookAbort(h) \/ \E e \in Events : Deliver(h, e)
      PROVE Decisions'
  BY <1>6, <1>c DEF HookStep, HookReject, HookRecord, HookLookup, HookOrphan, HookLeg, HookFail,
                    HookMark, HookEnqueue, HookAbort, Deliver
<1>7. CASE WatchStep \/ WatchAbort
  BY <1>7, <1>c DEF WatchStep, WatchHit, WatchMiss, WatchLeg, WatchStatus, WatchEnqueue,
                    WatchGiveUp, WatchAbort
<1> QED BY <1>2, <1>3, <1>4, <1>5, <1>6, <1>7 DEF Next

\* Only ReconcileSettle writes SETTLED, and only ReceiptWrite a receipt.
LEMMA WhoSettles ==
  ASSUME TypeOK, [Next]_vars, NEW p \in Payments
  PROVE  /\ status'[p] = "SETTLED" /\ status[p] # "SETTLED"
              => \E r \in Runners : runner[r].payment = p /\ ReconcileSettle(r)
         /\ receipt'[p] \notin {receipt[p], None}
              => \E r \in Runners : /\ runner[r].payment = p /\ ReceiptWrite(r)
                                    /\ receipt'[p] = runner[r].fiat
<1> DEFINE G == /\ status'[p] = "SETTLED" /\ status[p] # "SETTLED"
                     => \E r \in Runners : runner[r].payment = p /\ ReconcileSettle(r)
                /\ receipt'[p] \notin {receipt[p], None}
                     => \E r \in Runners : /\ runner[r].payment = p /\ ReceiptWrite(r)
                                           /\ receipt'[p] = runner[r].fiat
<1> USE DEF TypeOK
<1>1. ASSUME NEW q \in Payments, \/ CreateStep(q) \/ CreateAbort(q) \/ LedgerEvent(q)
                                  \/ WatchTake(q) \/ RetryReconcile(q) \/ DemoReset(q)
      PROVE G
  BY <1>1 DEF CreateStep, CreateSubmit, CreatePersist, CreateEnqueue, CreateAbort,
              LedgerEvent, WatchTake, RetryReconcile, DemoReset
<1>2. ASSUME NEW h \in Hooks, HookStep(h) \/ HookAbort(h) \/ \E e \in Events : Deliver(h, e)
      PROVE G
  BY <1>2 DEF HookStep, HookReject, HookRecord, HookLookup, HookOrphan, HookLeg, HookFail,
              HookMark, HookEnqueue, HookAbort, Deliver
<1>3. CASE WatchStep \/ WatchAbort
  BY <1>3 DEF WatchStep, WatchHit, WatchMiss, WatchLeg, WatchStatus, WatchEnqueue,
              WatchGiveUp, WatchAbort
<1>4. ASSUME NEW r \in Runners, \/ ReconcileStep(r) \/ ReconcileAbort(r)
                                 \/ \E q \in Payments : ReconcileTake(r, q)
      PROVE G
  <2>1. CASE ReconcileSettle(r)
    <3>1. status'[p] # status[p] => p = runner[r].payment BY <2>1 DEF ReconcileSettle
    <3>2. UNCHANGED receipt BY <2>1 DEF ReconcileSettle
    <3> QED BY <2>1, <3>1, <3>2
  <2>2. CASE ReceiptWrite(r)
    <3>1. receipt'[p] # receipt[p] => p = runner[r].payment /\ receipt'[p] = runner[r].fiat
      BY <2>2 DEF ReceiptWrite
    <3>2. UNCHANGED status BY <2>2 DEF ReceiptWrite
    <3> QED BY <2>2, <3>1, <3>2
  <2>3. CASE ReconcileFail(r) BY <2>3 DEF ReconcileFail
  <2> QED BY <1>4, <2>1, <2>2, <2>3 DEF ReconcileStep, ReceiptRead, ReconcileAbort, ReconcileTake
<1>5. CASE UNCHANGED vars BY <1>5 DEF vars
<1> QED BY <1>1, <1>2, <1>3, <1>4, <1>5 DEF Next

LEMMA EvidenceStep == EvidenceInv /\ [Next]_vars => EvidenceInv'
<1> SUFFICES ASSUME EvidenceInv, [Next]_vars PROVE EvidenceInv' OBVIOUS
<1> USE DEF EvidenceInv
<1>1. TypeOK' /\ Creations' /\ Provenance' /\ Decisions'
  BY TypeStep, CreationsStep, ProvenanceStep, DecisionsStep
<1>2. Grows BY GrowsStep
<1>3. SettledOnEvidence'
  <2> SUFFICES ASSUME NEW p \in Payments, status'[p] = "SETTLED" PROVE Evidenced(p)'
    BY DEF SettledOnEvidence
  <2>1. Evidenced(p)
    <3>1. CASE status[p] = "SETTLED" BY <3>1 DEF SettledOnEvidence
    <3>2. CASE status[p] # "SETTLED"
      BY <3>2, WhoSettles DEF ReconcileSettle, Decisions
    <3> QED BY <3>1, <3>2
  <2> QED BY <1>2, <2>1, EvidenceGrows
<1>4. ReceiptOnEvidence'
  <2> SUFFICES ASSUME NEW p \in Payments, receipt'[p] # None
               PROVE  FiatEventOf(receipt[p], p)' /\ Evidenced(p)'
    BY DEF ReceiptOnEvidence
  <2>1. PICK e \in Events : e = receipt'[p] BY <1>1 DEF TypeOK
  <2>2. FiatEventOf(e, p) /\ Evidenced(p)
    <3>1. CASE receipt'[p] = receipt[p] BY <2>1, <3>1 DEF ReceiptOnEvidence
    <3>2. CASE receipt'[p] # receipt[p]
      BY <2>1, <3>2, WhoSettles DEF ReceiptWrite, Decisions
    <3> QED BY <3>1, <3>2
  <2>3. FiatEventOf(e, p)' /\ Evidenced(p)' BY <1>2, <2>2, EvidenceGrows
  <2> QED BY <2>1, <2>3 DEF FiatEventOf, Verified
<1> QED BY <1>1, <1>3, <1>4

\* Nothing is settled or decided at the start.
LEMMA EvidenceInit == Init => EvidenceInv
<1>1. Init => TypeOK
  BY EventAssumption DEF Init, TypeOK, PaymentStatus, RowStatus, JobStatus, HookState,
                         WatchState, RunnerState, HookPc, WatchPc, RunnerPc
<1> QED BY <1>1 DEF Init, EvidenceInv, Creations, Provenance, Decisions, SettledOnEvidence,
                    ReceiptOnEvidence

\* A SETTLED payment always has a confirmed ONCHAIN leg and a verified,
\* matching completion behind it, and a receipt always tells of a verified
\* fiat event of its payment: EvidenceInv is inductive and contains both.
THEOREM EvidenceInvariant == Spec => []EvidenceInv
BY EvidenceInit, EvidenceStep, PTL DEF Spec

\* matcher.ts: a payment is SETTLED only on evidence.
THEOREM SettlementIsEvidenced == Spec => []SettledOnEvidence
BY EvidenceInvariant, PTL DEF EvidenceInv

\* receipt.ts: a receipt is backed by the evidence of a settlement.
THEOREM ReceiptIsEvidenced == Spec => []ReceiptOnEvidence
BY EvidenceInvariant, PTL DEF EvidenceInv

-----------------------------------------------------------------------------
(* The give-up branch of the watcher.                                      *)

\* With fewer queue attempts than MAX_WATCH_ATTEMPTS (5 < 10) the branch of
\* processWatchOnchain that marks the payment FAILED is dead code.
LEMMA WatchBoundStep ==
  ASSUME QueueAttempts < MaxWatchAttempts, TypeOK, Creations, WatchNeverGivesUp, [Next]_vars
  PROVE  WatchNeverGivesUp'
<1> USE BoundAssumption DEF TypeOK, WatchNeverGivesUp
<1>1. ASSUME NEW p \in Payments, \/ CreateStep(p) \/ CreateAbort(p) \/ LedgerEvent(p)
                                  \/ RetryReconcile(p) \/ DemoReset(p)
      PROVE WatchNeverGivesUp'
  <2>1. CASE CreateEnqueue(p) BY <2>1 DEF CreateEnqueue, Creations
  <2> QED BY <1>1, <2>1 DEF CreateStep, CreateSubmit, CreatePersist, CreateAbort, LedgerEvent,
                            RetryReconcile, DemoReset
<1>2. ASSUME NEW p \in Payments, WatchTake(p) PROVE WatchNeverGivesUp'
  <2>1. CASE status[p] \in Terminal BY <1>2, <2>1 DEF WatchTake
  <2>2. CASE status[p] \notin Terminal BY <1>2, <2>2 DEF WatchTake
  <2> QED BY <2>1, <2>2
<1>3. ASSUME NEW h \in Hooks, HookStep(h) \/ HookAbort(h) \/ \E e \in Events : Deliver(h, e)
      PROVE WatchNeverGivesUp'
  BY <1>3 DEF HookStep, HookReject, HookRecord, HookLookup, HookOrphan, HookLeg, HookFail,
              HookMark, HookEnqueue, HookAbort, Deliver
<1>4. CASE WatchStep \/ WatchAbort
  <2>0. watcher.pc # "idle" /\ watcher.payment \in Payments
    BY <1>4 DEF WatchStep, WatchHit, WatchMiss, WatchLeg, WatchStatus, WatchEnqueue,
                WatchGiveUp, WatchAbort
  <2>1. ASSUME NEW outcome \in {"waiting", "completed", "failed"}, EndWatch(outcome),
               UNCHANGED tries
        PROVE  WatchNeverGivesUp'
    BY <2>0, <2>1 DEF EndWatch
  <2>2. ASSUME WatchThrows PROVE WatchNeverGivesUp'
    <3>1. CASE tries[watcher.payment] + 1 < QueueAttempts
      BY <2>0, <2>2, <3>1 DEF WatchThrows, EndWatch
    <3>2. CASE ~(tries[watcher.payment] + 1 < QueueAttempts)
      BY <2>0, <2>2, <3>2 DEF WatchThrows, EndWatch
    <3> QED BY <3>1, <3>2
  <2>3. ASSUME NEW pc \in WatchPc \ {"idle", "giveUp"}, GoWatch(pc), UNCHANGED <<tries, watchJob>>
        PROVE  WatchNeverGivesUp'
    BY <2>0, <2>3 DEF GoWatch, WatchState
  <2>4. CASE WatchMiss
    <3>1. ~(tries[watcher.payment] + 1 >= MaxWatchAttempts) BY <2>0
    <3> QED BY <2>2, <2>4, <3>1 DEF WatchMiss
  <2>5. CASE WatchHit \/ WatchLeg \/ WatchStatus
    BY <2>3, <2>5 DEF WatchHit, WatchLeg, WatchStatus, WatchPc
  <2>6. CASE WatchEnqueue BY <2>1, <2>6 DEF WatchEnqueue
  <2>7. CASE WatchGiveUp BY <2>7 DEF WatchGiveUp
  <2>8. CASE WatchAbort BY <2>1, <2>2, <2>8 DEF WatchAbort
  <2> QED BY <1>4, <2>4, <2>5, <2>6, <2>7, <2>8 DEF WatchStep
<1>5. ASSUME NEW r \in Runners, \/ ReconcileStep(r) \/ ReconcileAbort(r)
                                 \/ \E q \in Payments : ReconcileTake(r, q)
      PROVE WatchNeverGivesUp'
  BY <1>5 DEF ReconcileStep, ReconcileFail, ReconcileSettle, ReceiptRead, ReceiptWrite,
              ReconcileAbort, ReconcileTake
<1>6. CASE UNCHANGED vars BY <1>6 DEF vars
<1> QED BY <1>1, <1>2, <1>3, <1>4, <1>5, <1>6 DEF Next

\* The watch job fails in the queue, and its payment is left as it is.
THEOREM WatcherNeverGivesUp ==
  ASSUME QueueAttempts < MaxWatchAttempts PROVE Spec => []WatchNeverGivesUp
<1>1. Init => WatchNeverGivesUp BY BoundAssumption DEF Init, WatchNeverGivesUp
<1>2. EvidenceInv /\ WatchNeverGivesUp /\ [Next]_vars => WatchNeverGivesUp'
  BY WatchBoundStep DEF EvidenceInv
<1> QED BY <1>1, <1>2, EvidenceInvariant, PTL DEF Spec

-----------------------------------------------------------------------------
(* What takes a settlement back.                                           *)

LEMMA SettledFailsStep ==
  ASSUME EvidenceInv, WatchNeverGivesUp, [Next]_vars, NEW p \in Payments,
         status[p] = "SETTLED", status'[p] = "FAILED"
  PROVE  FailureNotice(p)
<1> USE DEF EvidenceInv, TypeOK
<1>1. ASSUME NEW h \in Hooks, HookFail(h) PROVE FailureNotice(p)
  <2>1. hook[h].evt \in Events /\ hook[h].evt.payment = p
    BY <1>1, EventAssumption DEF HookFail
  <2> QED BY <1>1, <2>1 DEF HookFail, Provenance, FailureNotice, Refusals
<1>2. ASSUME NEW r \in Runners, ReconcileFail(r) PROVE FailureNotice(p)
  <2>1. runner[r].payment = p BY <1>2 DEF ReconcileFail
  <2> QED BY <1>2, <2>1 DEF ReconcileFail, Decisions
<1>3. ASSUME NEW q \in Payments, \/ CreateStep(q) \/ CreateAbort(q) \/ LedgerEvent(q)
                                  \/ WatchTake(q) \/ RetryReconcile(q) \/ DemoReset(q)
      PROVE FALSE
  BY <1>3 DEF CreateStep, CreateSubmit, CreatePersist, CreateEnqueue, CreateAbort,
              LedgerEvent, WatchTake, RetryReconcile, DemoReset
<1>4. ASSUME NEW h \in Hooks, \/ (HookStep(h) /\ ~HookFail(h))
                               \/ HookAbort(h) \/ \E e \in Events : Deliver(h, e)
      PROVE FALSE
  BY <1>4 DEF HookStep, HookReject, HookRecord, HookLookup, HookOrphan, HookLeg,
              HookMark, HookEnqueue, HookAbort, Deliver
<1>5. CASE WatchStep \/ WatchAbort
  BY <1>5 DEF WatchStep, WatchHit, WatchMiss, WatchLeg, WatchStatus, WatchEnqueue,
              WatchGiveUp, WatchAbort, WatchNeverGivesUp
<1>6. ASSUME NEW r \in Runners, \/ (ReconcileStep(r) /\ ~ReconcileFail(r))
                                 \/ ReconcileAbort(r)
                                 \/ \E q \in Payments : ReconcileTake(r, q)
      PROVE FALSE
  BY <1>6 DEF ReconcileStep, ReconcileSettle, ReceiptRead, ReceiptWrite,
              ReconcileAbort, ReconcileTake
<1>7. CASE UNCHANGED vars BY <1>7 DEF vars
<1> QED BY <1>1, <1>2, <1>3, <1>4, <1>5, <1>6, <1>7 DEF Next

\* Under the configuration the repository ships, a settlement is taken back
\* only by a verified payment.failed event of its own payment.
THEOREM SettlementFailsOnNotice ==
  ASSUME QueueAttempts < MaxWatchAttempts PROVE Spec => SettledFailsOnlyOnFailedEvent
<1>1. EvidenceInv /\ WatchNeverGivesUp /\ [Next]_vars
        => [\A p \in Payments :
              status[p] = "SETTLED" /\ status'[p] = "FAILED" => FailureNotice(p)]_vars
  BY SettledFailsStep
<1> QED BY <1>1, EvidenceInvariant, WatcherNeverGivesUp, PTL
        DEF Spec, SettledFailsOnlyOnFailedEvent

-----------------------------------------------------------------------------
(* Refinement: every behaviour of Reconciliation is one of                 *)
(* SettlementContract, for every instance whose queue grants fewer attempts *)
(* than the watcher counts on: a step of the handlers is one of the        *)
(* contract or a stutter.                                                  *)

cvars == <<Outcome, OnChainSeen, Paid, Bounced, Receipted>>

-----------------------------------------------------------------------------
(* What the contract sees of the rows.                                     *)

LEMMA RowsUnchanged ==
  ASSUME \A e \in Events : Verified(e)' <=> Verified(e)
  PROVE  Paid' = Paid /\ Bounced' = Bounced
BY DEF Paid, Bounced, MatchingEvent, Completions, FailureNotice, Refusals

LEMMA StatusUnchanged == ASSUME status' = status PROVE Outcome' = Outcome
BY DEF Outcome

LEMMA LegUnchanged == ASSUME onchainLeg' = onchainLeg PROVE OnChainSeen' = OnChainSeen
BY DEF OnChainSeen

LEMMA ReceiptUnchanged == ASSUME receipt' = receipt PROVE Receipted' = Receipted
BY DEF Receipted

LEMMA RowUnchanged == ASSUME row' = row PROVE Paid' = Paid /\ Bounced' = Bounced
BY RowsUnchanged DEF Verified

\* A step that leaves the four tables alone is a stutter of the contract.
LEMMA TablesUnchanged ==
  ASSUME UNCHANGED <<status, onchainLeg, receipt, row>> PROVE UNCHANGED cvars
BY StatusUnchanged, LegUnchanged, ReceiptUnchanged, RowUnchanged DEF cvars

\* One write to a payment's status is one write to its outcome.
LEMMA StatusWrite ==
  ASSUME TypeOK, NEW p \in Payments, NEW s \in PaymentStatus, status' = [status EXCEPT ![p] = s]
  PROVE  Outcome' = [Outcome EXCEPT ![p] = CASE s = "SETTLED" -> "settled"
                                             [] s = "FAILED"  -> "failed"
                                             [] OTHER         -> "open"]
BY DEF Outcome, TypeOK

LEMMA LegConfirmed ==
  ASSUME TypeOK, NEW p \in Payments, onchainLeg' = [onchainLeg EXCEPT ![p] = "CONFIRMED"]
  PROVE  OnChainSeen' = OnChainSeen \cup {p}
BY DEF OnChainSeen, TypeOK

-----------------------------------------------------------------------------
(* The steps that are not stutters.                                        *)

\* Recording an event is witnessing what it says.
LEMMA RecordStep ==
  ASSUME TypeOK, NEW h \in Hooks, HookRecord(h)
  PROVE  [Contract!CNext]_cvars
<1> USE DEF TypeOK
<1>e. PICK e \in Events : e = hook[h].evt /\ e.payment \in Payments
  BY EventAssumption DEF HookRecord
<1>u. UNCHANGED <<Outcome, OnChainSeen, Receipted>>
  BY StatusUnchanged, LegUnchanged, ReceiptUnchanged DEF HookRecord
<1>1. CASE row[e] # "absent"
  BY <1>e, <1>1, TablesUnchanged DEF HookRecord
<1>2. CASE row[e] = "absent"
  <2>1. row' = [row EXCEPT ![e] = "recorded"] BY <1>e, <1>2 DEF HookRecord
  <2>2. \A f \in Events : Verified(f)' <=> Verified(f) \/ f = e
    BY <1>2, <2>1 DEF Verified
  <2>3. Paid' = IF e \in Completions THEN Paid \cup {e.payment} ELSE Paid
    BY <1>e, <2>2 DEF Paid, MatchingEvent, Completions
  <2>4. Bounced' = IF e.kind = "payment.failed" THEN Bounced \cup {e.payment} ELSE Bounced
    BY <1>e, <2>2 DEF Bounced, FailureNotice, Refusals
  <2>5. ~(e \in Completions /\ e.kind = "payment.failed") BY DEF Completions
  <2>6. CASE e \in Completions
    BY <1>e, <1>u, <2>3, <2>4, <2>5, <2>6 DEF Contract!CNext, Contract!Witness
  <2>7. CASE e.kind = "payment.failed"
    BY <1>e, <1>u, <2>3, <2>4, <2>5, <2>7 DEF Contract!CNext, Contract!Witness
  <2>8. CASE e \notin Completions /\ e.kind # "payment.failed"
    BY <1>u, <2>3, <2>4, <2>8 DEF cvars
  <2> QED BY <2>6, <2>7, <2>8
<1> QED BY <1>1, <1>2

\* Marking an event processed says nothing new about it.
LEMMA MarkStep ==
  ASSUME TypeOK, Provenance, NEW h \in Hooks, HookOrphan(h) \/ HookMark(h)
  PROVE  UNCHANGED cvars
<1>1. /\ row' = [row EXCEPT ![hook[h].evt] = "processed"]
      /\ UNCHANGED <<status, onchainLeg, receipt>> /\ hook[h].pc \in {"orphan", "mark"}
  BY DEF HookOrphan, HookMark
<1>2. \A e \in Events : Verified(e)' <=> Verified(e)
  BY <1>1 DEF Verified, Provenance, TypeOK
<1> QED BY <1>1, <1>2, RowsUnchanged, StatusUnchanged, LegUnchanged, ReceiptUnchanged DEF cvars

\* An unverified event is no evidence, and overwrites none.
LEMMA RejectStep ==
  ASSUME TypeOK, NEW h \in Hooks, HookReject(h)
  PROVE  UNCHANGED cvars
<1>1. /\ UNCHANGED <<status, onchainLeg, receipt>>
      /\ \A e \in Events : row'[e] = row[e] \/ (row[e] = "absent" /\ row'[e] = "unverified")
  BY DEF HookReject, TypeOK
<1> QED BY <1>1, RowsUnchanged, StatusUnchanged, LegUnchanged, ReceiptUnchanged
        DEF cvars, Verified

\* The ONCHAIN leg is confirmed by a webhook or by the watcher.
LEMMA ConfirmStep ==
  ASSUME TypeOK, NEW p \in Payments, onchainLeg' = [onchainLeg EXCEPT ![p] = "CONFIRMED"],
         UNCHANGED <<status, receipt, row>>
  PROVE  [Contract!CNext]_cvars
BY LegConfirmed, RowUnchanged, StatusUnchanged, ReceiptUnchanged
   DEF Contract!CNext, Contract!Witness, cvars

\* A payment is failed by a webhook or by a runner, on a failure notice.
LEMMA FailStep ==
  ASSUME TypeOK, NEW p \in Payments, status' = [status EXCEPT ![p] = "FAILED"],
         FailureNotice(p), UNCHANGED <<onchainLeg, receipt, row>>
  PROVE  [Contract!CNext]_cvars
<1>1. Outcome' = [Outcome EXCEPT ![p] = "failed"] BY StatusWrite DEF PaymentStatus
<1>2. p \in Bounced BY DEF Bounced
<1> QED BY <1>1, <1>2, RowUnchanged, LegUnchanged, ReceiptUnchanged
        DEF Contract!CNext, Contract!Fail, cvars

\* The watcher's unconditional update reopens a terminal payment.
LEMMA WatchStatusStep ==
  ASSUME TypeOK, WatchStatus
  PROVE  [Contract!CNext]_cvars
<1>p. PICK p \in Payments : p = watcher.payment BY DEF WatchStatus, TypeOK
<1>1. status' = [status EXCEPT ![p] = "ONCHAIN_CONFIRMED"] BY <1>p DEF WatchStatus
<1>2. Outcome' = [Outcome EXCEPT ![p] = "open"] BY <1>1, StatusWrite DEF PaymentStatus
<1>3. UNCHANGED <<onchainLeg, receipt, row>> BY DEF WatchStatus
<1> QED BY <1>2, <1>3, RowUnchanged, LegUnchanged, ReceiptUnchanged
        DEF Contract!CNext, Contract!Reopen, cvars

LEMMA SettleStep ==
  ASSUME TypeOK, Decisions, NEW r \in Runners, ReconcileSettle(r)
  PROVE  [Contract!CNext]_cvars
<1>p. PICK p \in Payments : p = runner[r].payment BY DEF ReconcileSettle, TypeOK
<1>1. CASE status[p] \in Terminal BY <1>p, <1>1, TablesUnchanged DEF ReconcileSettle
<1>2. CASE status[p] \notin Terminal
  <2>1. status' = [status EXCEPT ![p] = "SETTLED"] BY <1>p, <1>2 DEF ReconcileSettle
  <2>2. Outcome' = [Outcome EXCEPT ![p] = "settled"] BY <2>1, StatusWrite DEF PaymentStatus
  <2>3. Outcome[p] = "open" BY <1>2 DEF Outcome, Terminal
  <2>4. p \in OnChainSeen \cap Paid
    BY <1>p DEF ReconcileSettle, Decisions, Evidenced, OnChainSeen, Paid
  <2>5. UNCHANGED <<onchainLeg, receipt, row>> BY DEF ReconcileSettle
  <2> QED BY <2>2, <2>3, <2>4, <2>5, RowUnchanged, LegUnchanged, ReceiptUnchanged
          DEF Contract!CNext, Contract!Settle, cvars
<1> QED BY <1>1, <1>2

LEMMA IssueStep ==
  ASSUME TypeOK, Decisions, NEW r \in Runners, ReceiptWrite(r)
  PROVE  [Contract!CNext]_cvars
<1>p. PICK p \in Payments : p = runner[r].payment BY DEF ReceiptWrite, TypeOK
<1>1. p \in OnChainSeen \cap Paid
  BY <1>p DEF ReceiptWrite, Decisions, Evidenced, OnChainSeen, Paid
<1>2. receipt' = [receipt EXCEPT ![p] = runner[r].fiat] /\ runner[r].fiat # None
  BY <1>p, EventAssumption DEF ReceiptWrite, Decisions
<1>3. Receipted' = Receipted \cup {p} BY <1>2 DEF Receipted, TypeOK
<1>4. UNCHANGED <<status, onchainLeg, row>> BY DEF ReceiptWrite
<1> QED BY <1>1, <1>3, <1>4, RowUnchanged, LegUnchanged, StatusUnchanged
        DEF Contract!CNext, Contract!Issue, cvars

\* A demo reset reopens the payment and withdraws its receipt.
LEMMA ResetStep ==
  ASSUME TypeOK, NEW p \in Payments, DemoReset(p)
  PROVE  [Contract!CNext]_cvars
<1>1. Outcome' = [Outcome EXCEPT ![p] = "open"]
  BY StatusWrite DEF DemoReset, PaymentStatus
<1>2. Receipted' = Receipted \ {p} BY DEF DemoReset, Receipted, TypeOK
<1>3. UNCHANGED <<onchainLeg, row>> BY DEF DemoReset
<1> QED BY <1>1, <1>2, <1>3, RowUnchanged, LegUnchanged
        DEF Contract!CNext, Contract!Reopen, cvars

\* The insert of a payment: it is open before and after, and not yet seen.
LEMMA PersistStep ==
  ASSUME TypeOK, Creations, NEW p \in Payments, CreatePersist(p)
  PROVE  UNCHANGED cvars
<1>1. status[p] = "NONE" /\ onchainLeg[p] = "NONE" BY DEF CreatePersist, Creations
<1>2. Outcome' = Outcome BY <1>1 DEF CreatePersist, Outcome, TypeOK
<1>3. OnChainSeen' = OnChainSeen BY <1>1 DEF CreatePersist, OnChainSeen, TypeOK
<1> QED BY <1>2, <1>3, RowUnchanged, ReceiptUnchanged DEF CreatePersist, cvars

-----------------------------------------------------------------------------
LEMMA ContractStep ==
  ASSUME EvidenceInv, WatchNeverGivesUp, [Next]_vars
  PROVE  [Contract!CNext]_cvars
<1> USE DEF EvidenceInv
<1>1. ASSUME NEW p \in Payments, \/ CreateStep(p) \/ CreateAbort(p) \/ LedgerEvent(p)
                                  \/ WatchTake(p) \/ RetryReconcile(p)
      PROVE UNCHANGED cvars
  <2>1. CASE CreatePersist(p) BY <2>1, PersistStep
  <2> QED BY <1>1, <2>1, TablesUnchanged
          DEF CreateStep, CreateSubmit, CreateEnqueue, CreateAbort, LedgerEvent, WatchTake,
              RetryReconcile
<1>2. ASSUME NEW p \in Payments, DemoReset(p) PROVE [Contract!CNext]_cvars BY <1>2, ResetStep
<1>3. ASSUME NEW h \in Hooks, HookStep(h) \/ HookAbort(h) \/ \E e \in Events : Deliver(h, e)
      PROVE [Contract!CNext]_cvars
  <2>1. CASE HookRecord(h) BY <2>1, RecordStep
  <2>2. CASE HookOrphan(h) \/ HookMark(h) BY <2>2, MarkStep
  <2>3. CASE HookReject(h) BY <2>3, RejectStep
  <2>4. CASE HookLeg(h)
    <3>1. hook[h].evt.payment \in Payments BY <2>4, EventAssumption DEF HookLeg, TypeOK
    <3>2. CASE hook[h].evt.kind = "chain" BY <2>4, <3>1, <3>2, ConfirmStep DEF HookLeg
    <3>3. CASE hook[h].evt.kind # "chain" BY <2>4, <3>3, TablesUnchanged DEF HookLeg
    <3> QED BY <3>2, <3>3
  <2>5. CASE HookFail(h)
    <3>1. hook[h].evt \in Events /\ hook[h].evt.payment \in Payments
      BY <2>5, EventAssumption DEF HookFail, TypeOK
    <3>2. FailureNotice(hook[h].evt.payment)
      BY <2>5, <3>1 DEF HookFail, Provenance, FailureNotice, Refusals
    <3> QED BY <2>5, <3>1, <3>2, FailStep DEF HookFail
  <2>6. CASE HookLookup(h) \/ HookEnqueue(h) \/ HookAbort(h) \/ \E e \in Events : Deliver(h, e)
    BY <2>6, TablesUnchanged DEF HookLookup, HookEnqueue, HookAbort, Deliver
  <2> QED BY <1>3, <2>1, <2>2, <2>3, <2>4, <2>5, <2>6 DEF HookStep
<1>4. CASE WatchStep \/ WatchAbort
  <2>1. CASE WatchLeg
    <3>1. watcher.payment \in Payments BY <2>1 DEF WatchLeg, TypeOK
    <3> QED BY <2>1, <3>1, ConfirmStep DEF WatchLeg
  <2>2. CASE WatchStatus BY <2>2, WatchStatusStep
  <2>3. CASE WatchHit \/ WatchMiss \/ WatchEnqueue \/ WatchAbort
    BY <2>3, TablesUnchanged DEF WatchHit, WatchMiss, WatchEnqueue, WatchAbort
  <2>4. ~WatchGiveUp BY DEF WatchGiveUp, WatchNeverGivesUp
  <2> QED BY <1>4, <2>1, <2>2, <2>3, <2>4 DEF WatchStep
<1>5. ASSUME NEW r \in Runners, \/ ReconcileStep(r) \/ ReconcileAbort(r)
                                 \/ \E q \in Payments : ReconcileTake(r, q)
      PROVE [Contract!CNext]_cvars
  <2>1. CASE ReconcileFail(r)
    <3>1. runner[r].payment \in Payments /\ FailureNotice(runner[r].payment)
      BY <2>1 DEF ReconcileFail, TypeOK, Decisions
    <3> QED BY <2>1, <3>1, FailStep DEF ReconcileFail
  <2>2. CASE ReconcileSettle(r) BY <2>2, SettleStep
  <2>3. CASE ReceiptWrite(r) BY <2>3, IssueStep
  <2>4. CASE ReceiptRead(r) \/ ReconcileAbort(r) \/ \E q \in Payments : ReconcileTake(r, q)
    BY <2>4, TablesUnchanged DEF ReceiptRead, ReconcileAbort, ReconcileTake
  <2> QED BY <1>5, <2>1, <2>2, <2>3, <2>4 DEF ReconcileStep
<1>6. CASE UNCHANGED vars BY <1>6, TablesUnchanged DEF vars
<1> QED BY <1>1, <1>2, <1>3, <1>4, <1>5, <1>6 DEF Next

LEMMA ContractInit == Init => Contract!CInit
BY DEF Init, Contract!CInit, Outcome, OnChainSeen, Paid, Bounced, Receipted, MatchingEvent, Completions,
       FailureNotice, Refusals, Verified

\* The reconciliation spine implements its contract.
THEOREM SpineImplementsContract ==
  ASSUME QueueAttempts < MaxWatchAttempts PROVE Spec => ImplementsContract
<1>1. EvidenceInv /\ WatchNeverGivesUp /\ [Next]_vars => [Contract!CNext]_(Contract!cvars)
  BY ContractStep DEF cvars, Contract!cvars
<1> QED BY <1>1, ContractInit, EvidenceInvariant, WatcherNeverGivesUp, PTL
        DEF Spec, ImplementsContract, Contract!CSpec

-----------------------------------------------------------------------------
(* No wake-up is lost: whichever leg is written last, and by whom, a       *)
(* matched payment has a reconcile job or somebody on the way to add one.  *)

\* The four ways a wake-up can be pending.
Queued(p)   == jobs[p] > 0
Handing(p)  == \E h \in Hooks : HookWorking(h, p) /\ hook[h].pc \in {"fail", "mark", "enqueue"}
Watching(p) == watcher.payment = p /\ watcher.pc \in {"status", "enqueue"}
Acting(p)   == \E r \in Runners : runner[r].payment = p /\ runner[r].pc \in {"settle", "fail"}

LEMMA PendingCases ==
  ASSUME NEW p PROVE WakeupPending(p) <=> Queued(p) \/ Handing(p) \/ Watching(p) \/ Acting(p)
BY DEF WakeupPending, Queued, Handing, Watching, Acting

LEMMA PendingNext ==
  ASSUME NEW p PROVE WakeupPending(p)' <=> (Queued(p) \/ Handing(p) \/ Watching(p) \/ Acting(p))'
BY DEF WakeupPending, Queued, Handing, Watching, Acting

\* A payment that still has to be reconciled.
Due(p) == Matched(p) /\ status[p] \notin Terminal

LEMMA DueUnchanged ==
  ASSUME NEW p, UNCHANGED <<status, onchainLeg, fiatLeg>> PROVE Due(p)' <=> Due(p)
BY DEF Due, Matched, FiatMatches

-----------------------------------------------------------------------------
LEMMA HookWakes ==
  ASSUME EvidenceInv, NEW h \in Hooks, HookStep(h), NEW p \in Payments, Due(p)',
         Due(p) => WakeupPending(p)
  PROVE  WakeupPending(p)'
<1> USE PendingCases, PendingNext DEF EvidenceInv, TypeOK
<1>o. /\ UNCHANGED <<runner, watcher>>
      /\ \A g \in Hooks \ {h} : hook'[g] = hook[g]
  BY DEF HookStep, HookReject, HookRecord, HookLookup, HookOrphan, HookLeg, HookFail, HookMark,
         HookEnqueue, GoHook, DoneHook
<1>j. Queued(p) => Queued(p)'
  BY DEF HookStep, HookReject, HookRecord, HookLookup, HookOrphan, HookLeg, HookFail, HookMark,
         HookEnqueue, EnqueueReconcile, Queued
\* Only what h itself was about to do can stop being pending.
<1>w. ASSUME WakeupPending(p),
             ~(hook[h].evt.payment = p /\ hook[h].pc \in {"fail", "mark", "enqueue"})
      PROVE  WakeupPending(p)'
  <2>1. CASE Queued(p) BY <1>j, <2>1
  <2>2. CASE Handing(p)
    <3>1. PICK g \in Hooks : HookWorking(g, p) /\ hook[g].pc \in {"fail", "mark", "enqueue"}
      BY <2>2 DEF Handing
    <3>2. g # h BY <1>w, <3>1 DEF HookWorking
    <3>3. hook'[g] = hook[g] BY <1>o, <3>2
    <3> QED BY <3>1, <3>3 DEF Handing, HookWorking
  <2>3. CASE Watching(p) BY <1>o, <2>3 DEF Watching
  <2>4. CASE Acting(p) BY <1>o, <2>4 DEF Acting
  <2> QED BY <1>w, <2>1, <2>2, <2>3, <2>4
<1>1. CASE HookReject(h) \/ HookRecord(h) \/ HookLookup(h) \/ HookOrphan(h)
  BY <1>1, <1>w, DueUnchanged DEF HookReject, HookRecord, HookLookup, HookOrphan
<1>2. CASE HookLeg(h)
  <2>1. CASE hook[h].evt.payment = p
    <3>1. hook'[h].evt.payment = p /\ hook'[h].pc \in {"fail", "mark"}
      BY <1>2, <2>1 DEF HookLeg, GoHook, HookState
    <3> QED BY <3>1 DEF Handing, HookWorking
  <2>2. CASE hook[h].evt.payment # p
    <3>1. Due(p) BY <1>2, <2>2 DEF HookLeg, Due, Matched, FiatMatches
    <3> QED BY <1>w, <2>2, <3>1
  <2> QED BY <2>1, <2>2
<1>3. CASE HookFail(h)
  <2>1. hook[h].evt.payment # p BY <1>3 DEF HookFail, Due, Terminal
  <2>2. Due(p) BY <1>3, <2>1 DEF HookFail, Due, Matched, FiatMatches
  <2> QED BY <1>w, <2>1, <2>2
<1>4. CASE HookMark(h)
  <2>1. Due(p) BY <1>4, DueUnchanged DEF HookMark
  <2>2. CASE hook[h].evt.payment = p
    <3>1. hook'[h].evt.payment = p /\ hook'[h].pc = "enqueue"
      BY <1>4, <2>2 DEF HookMark, GoHook, HookState
    <3> QED BY <3>1 DEF Handing, HookWorking
  <2> QED BY <1>w, <2>1, <2>2
<1>5. CASE HookEnqueue(h)
  <2>1. Due(p) BY <1>5, DueUnchanged DEF HookEnqueue
  <2>2. CASE hook[h].evt.payment = p
    BY <1>5, <2>2 DEF HookEnqueue, EnqueueReconcile, Queued
  <2> QED BY <1>w, <2>1, <2>2
<1> QED BY <1>1, <1>2, <1>3, <1>4, <1>5 DEF HookStep

LEMMA WatchWakes ==
  ASSUME EvidenceInv, WatchStep, NEW p \in Payments, Due(p)', Due(p) => WakeupPending(p)
  PROVE  WakeupPending(p)'
<1> USE PendingCases, PendingNext DEF EvidenceInv, TypeOK
<1>o. UNCHANGED <<runner, hook>> /\ (Queued(p) => Queued(p)')
  BY DEF WatchStep, WatchHit, WatchMiss, WatchLeg, WatchStatus, WatchEnqueue, WatchGiveUp,
         EnqueueReconcile, Queued
<1>w. ASSUME WakeupPending(p), ~Watching(p) PROVE WakeupPending(p)'
  <2>1. CASE Queued(p) BY <1>o, <2>1
  <2>2. CASE Handing(p) BY <1>o, <2>2 DEF Handing, HookWorking
  <2>3. CASE Acting(p) BY <1>o, <2>3 DEF Acting
  <2> QED BY <1>w, <2>1, <2>2, <2>3
<1>1. CASE WatchHit \/ WatchMiss
  BY <1>1, <1>w, DueUnchanged DEF WatchHit, WatchMiss, Watching
<1>2. CASE WatchLeg
  <2>1. CASE watcher.payment = p
    BY <1>2, <2>1 DEF WatchLeg, GoWatch, WatchState, Watching
  <2>2. CASE watcher.payment # p
    <3>1. Due(p) BY <1>2, <2>2 DEF WatchLeg, Due, Matched, FiatMatches
    <3> QED BY <1>w, <2>2, <3>1 DEF Watching
  <2> QED BY <2>1, <2>2
<1>3. CASE WatchStatus
  <2>1. CASE watcher.payment = p
    BY <1>3, <2>1 DEF WatchStatus, GoWatch, WatchState, Watching
  <2>2. CASE watcher.payment # p
    <3>1. Due(p) BY <1>3, <2>2 DEF WatchStatus, Due, Matched, FiatMatches
    <3> QED BY <1>w, <2>2, <3>1 DEF Watching
  <2> QED BY <2>1, <2>2
<1>4. CASE WatchEnqueue
  <2>1. Due(p) BY <1>4, DueUnchanged DEF WatchEnqueue
  <2>2. CASE watcher.payment = p BY <1>4, <2>2 DEF WatchEnqueue, EnqueueReconcile, Queued
  <2> QED BY <1>w, <2>1, <2>2 DEF Watching
<1>5. CASE WatchGiveUp
  <2>1. watcher.payment # p BY <1>5 DEF WatchGiveUp, Due, Terminal
  <2>2. Due(p) BY <1>5, <2>1 DEF WatchGiveUp, Due, Matched, FiatMatches
  <2> QED BY <1>w, <2>1, <2>2 DEF Watching
<1> QED BY <1>1, <1>2, <1>3, <1>4, <1>5 DEF WatchStep

LEMMA RunnerWakes ==
  ASSUME EvidenceInv, NEW r \in Runners, NEW q \in Payments,
         ReconcileTake(r, q) \/ ReconcileStep(r), NEW p \in Payments, Due(p)',
         Due(p) => WakeupPending(p)
  PROVE  WakeupPending(p)'
<1> USE PendingCases, PendingNext DEF EvidenceInv, TypeOK
<1>o. /\ UNCHANGED <<hook, watcher>>
      /\ \A s \in Runners \ {r} : runner'[s] = runner[s]
  BY DEF ReconcileTake, ReconcileStep, ReconcileFail, ReconcileSettle, ReceiptRead,
         ReceiptWrite, GoRunner, DoneRunner
<1>w. ASSUME WakeupPending(p), Queued(p) => Queued(p)' \/ Acting(p)',
             ~(runner[r].payment = p /\ runner[r].pc \in {"settle", "fail"})
      PROVE  WakeupPending(p)'
  <2>1. CASE Queued(p) BY <1>w, <2>1
  <2>2. CASE Handing(p) BY <1>o, <2>2 DEF Handing, HookWorking
  <2>3. CASE Watching(p) BY <1>o, <2>3 DEF Watching
  <2>4. CASE Acting(p)
    <3>1. PICK s \in Runners : runner[s].payment = p /\ runner[s].pc \in {"settle", "fail"}
      BY <2>4 DEF Acting
    <3>2. runner'[s] = runner[s] BY <1>o, <1>w, <3>1
    <3> QED BY <3>1, <3>2 DEF Acting
  <2> QED BY <1>w, <2>1, <2>2, <2>3, <2>4
\* The job is gone, but what it read tells the runner to act.
<1>1. CASE ReconcileTake(r, q)
  <2>1. Due(p) BY <1>1, DueUnchanged DEF ReconcileTake
  <2>2. Queued(p) => Queued(p)' \/ Acting(p)'
    <3>1. CASE q # p BY <1>1, <3>1 DEF ReconcileTake, Queued
    <3>2. CASE q = p
      <4>1. Verdict(p) \in {"settle", "fail"}
        BY <2>1 DEF Due, Matched, Verdict, Creations, Terminal
      <4>2. runner'[r] = [pc |-> Verdict(p), payment |-> p, fiat |-> None]
        BY <1>1, <3>2, <4>1 DEF ReconcileTake
      <4> QED BY <4>1, <4>2 DEF Acting
    <3> QED BY <3>1, <3>2
  <2> QED BY <1>1, <1>w, <2>1, <2>2 DEF ReconcileTake
<1>2. CASE ReconcileFail(r)
  <2>1. runner[r].payment # p BY <1>2 DEF ReconcileFail, Due, Terminal
  <2>2. Due(p) BY <1>2, <2>1 DEF ReconcileFail, Due, Matched, FiatMatches
  <2> QED BY <1>2, <1>w, <2>1, <2>2 DEF ReconcileFail, Queued
<1>3. CASE ReconcileSettle(r)
  <2>1. runner[r].payment # p BY <1>3 DEF ReconcileSettle, Due, Terminal
  <2>2. Due(p) BY <1>3, <2>1 DEF ReconcileSettle, Due, Matched, FiatMatches
  <2> QED BY <1>3, <1>w, <2>1, <2>2 DEF ReconcileSettle, Queued
<1>4. CASE ReceiptRead(r) \/ ReceiptWrite(r)
  <2>1. Due(p) BY <1>4, DueUnchanged DEF ReceiptRead, ReceiptWrite
  <2>2. Queued(p) => Queued(p)'
    BY <1>4 DEF ReceiptRead, ReceiptWrite, EnqueueReconcile, Queued
  <2> QED BY <1>4, <1>w, <2>1, <2>2 DEF ReceiptRead, ReceiptWrite
<1> QED BY <1>1, <1>2, <1>3, <1>4 DEF ReconcileStep

LEMMA WakeStep == EvidenceInv /\ NoLostWakeup /\ [Next]_vars => NoLostWakeup'
<1> SUFFICES ASSUME EvidenceInv, NoLostWakeup, [Next]_vars, NEW p \in Payments, Due(p)',
                    used'.faults = 0, used'.resets = 0
             PROVE  WakeupPending(p)'
  BY DEF NoLostWakeup, Due
<1> USE DEF EvidenceInv, TypeOK
<1>w. used' = used => (Due(p) => WakeupPending(p)) BY DEF NoLostWakeup, Due
<1>1. ASSUME NEW q \in Payments, CreateStep(q) \/ LedgerEvent(q) \/ WatchTake(q)
      PROVE  WakeupPending(p)'
  <2>1. /\ UNCHANGED <<used, jobs, hook, runner>>
        /\ watcher' = watcher \/ watcher.pc = "idle"
    BY <1>1 DEF CreateStep, CreateSubmit, CreatePersist, CreateEnqueue, LedgerEvent, WatchTake
  <2>2. CASE CreatePersist(q)
    <3>1. q # p BY <2>2 DEF CreatePersist, Due, Matched
    <3>2. Due(p) BY <2>2, <3>1 DEF CreatePersist, Due, Matched, FiatMatches
    <3> QED BY <1>w, <2>1, <2>2, <3>2 DEF CreatePersist, WakeupPending, HookWorking
  <2>3. CASE ~CreatePersist(q)
    <3>1. Due(p)
      BY <1>1, <2>3, DueUnchanged DEF CreateStep, CreateSubmit, CreateEnqueue, LedgerEvent, WatchTake
    <3> QED BY <1>w, <2>1, <3>1 DEF WakeupPending, HookWorking
  <2> QED BY <2>2, <2>3
<1>2. ASSUME NEW q \in Payments, RetryReconcile(q) PROVE WakeupPending(p)'
  <2>1. Due(p) BY <1>2, DueUnchanged DEF RetryReconcile
  <2>2. used.faults = 0 /\ used.resets = 0 BY <1>2 DEF RetryReconcile
  <2>3. WakeupPending(p) BY <2>1, <2>2 DEF NoLostWakeup, Due
  <2>4. jobs[p] > 0 => jobs'[p] > 0 BY <1>2 DEF RetryReconcile, EnqueueReconcile
  <2> QED BY <1>2, <2>3, <2>4 DEF RetryReconcile, WakeupPending, HookWorking
\* The premise excludes a reset and a fault.
<1>3. ASSUME NEW q \in Payments, DemoReset(q) PROVE FALSE BY <1>3 DEF DemoReset
<1>4. ASSUME \/ \E q \in Payments : CreateAbort(q)
             \/ \E h \in Hooks : HookAbort(h)
             \/ WatchAbort
             \/ \E r \in Runners : ReconcileAbort(r)
      PROVE  FALSE
  BY <1>4 DEF CreateAbort, HookAbort, WatchAbort, ReconcileAbort
<1>5. ASSUME NEW h \in Hooks, NEW e \in Events, Deliver(h, e) PROVE WakeupPending(p)'
  <2>1. Due(p) BY <1>5, DueUnchanged DEF Deliver
  <2>2. WakeupPending(p) BY <1>5, <1>w, <2>1 DEF Deliver
  <2>3. \A g \in Hooks \ {h} : hook'[g] = hook[g] BY <1>5 DEF Deliver
  <2> QED BY <1>5, <2>2, <2>3 DEF Deliver, WakeupPending, HookWorking
<1>6. ASSUME NEW h \in Hooks, HookStep(h) PROVE WakeupPending(p)'
  <2>1. used' = used
    BY <1>6 DEF HookStep, HookReject, HookRecord, HookLookup, HookOrphan, HookLeg, HookFail,
                HookMark, HookEnqueue
  <2> QED BY <1>6, <1>w, <2>1, HookWakes
<1>7. ASSUME WatchStep PROVE WakeupPending(p)'
  <2>1. used' = used
    BY <1>7 DEF WatchStep, WatchHit, WatchMiss, WatchLeg, WatchStatus, WatchEnqueue, WatchGiveUp
  <2> QED BY <1>7, <1>w, <2>1, WatchWakes
<1>8. ASSUME NEW r \in Runners, NEW q \in Payments, ReconcileTake(r, q) \/ ReconcileStep(r)
      PROVE  WakeupPending(p)'
  <2>1. used' = used
    BY <1>8 DEF ReconcileTake, ReconcileStep, ReconcileFail, ReconcileSettle, ReceiptRead,
                ReceiptWrite
  <2> QED BY <1>8, <1>w, <2>1, RunnerWakes
<1>9. CASE UNCHANGED vars
  BY <1>9, <1>w, DueUnchanged DEF vars, WakeupPending, HookWorking
<1> QED BY <1>1, <1>2, <1>3, <1>4, <1>5, <1>6, <1>7, <1>8, <1>9 DEF Next

\* Whichever leg arrives last, and however webhooks, watcher and runners
\* interleave, nobody forgets a matched payment unless something crashed.
THEOREM NoWakeupIsLost == Spec => []NoLostWakeup
<1>1. Init => NoLostWakeup BY DEF Init, NoLostWakeup, Matched
<1>2. EvidenceInv /\ NoLostWakeup /\ [Next]_vars => NoLostWakeup' BY WakeStep
<1> QED BY <1>1, <1>2, EvidenceInvariant, PTL DEF Spec

-----------------------------------------------------------------------------
(* A delivery that is repeated, or handled twice at once.                  *)

Handling == {"lookup", "orphan", "leg", "fail", "mark"}

\* A request past the insert of an event's row works on a row that is not processed yet,
\* and no other request has got past it with the same event.
HandledOnce ==
  \A h \in Hooks : hook[h].pc \in Handling =>
    /\ row[hook[h].evt] = "recorded"
    /\ \A g \in Hooks : hook[g].pc \in Handling /\ hook[g].evt = hook[h].evt => g = h

\* A request that leaves the handling of its event may change the event's row.
LEMMA HandlerLeaves ==
  ASSUME TypeOK, HandledOnce, NEW h \in Hooks, NEW r, r.pc \notin Handling,
         hook' = [hook EXCEPT ![h] = r],
         \A e \in Events : row'[e] # row[e] =>
           /\ e = hook[h].evt
           /\ hook[h].pc \in Handling \/ row[e] # "recorded"
  PROVE  HandledOnce'
<1>1. \A g \in Hooks : hook'[g] = IF g = h THEN r ELSE hook[g] BY DEF TypeOK
<1>2. SUFFICES ASSUME NEW g \in Hooks, hook'[g].pc \in Handling
               PROVE  /\ row'[hook[g].evt] = "recorded"
                      /\ hook'[g] = hook[g] /\ hook[g].pc \in Handling
  BY <1>1 DEF HandledOnce
<1>3. g # h /\ hook'[g] = hook[g] /\ hook[g].pc \in Handling BY <1>1, <1>2
<1>4. hook[g].evt \in Events BY <1>3 DEF TypeOK, Handling
<1>5. row[hook[g].evt] = "recorded" BY <1>3 DEF HandledOnce
<1>6. ~(hook[h].pc \in Handling /\ hook[h].evt = hook[g].evt) BY <1>3 DEF HandledOnce
<1> QED BY <1>3, <1>4, <1>5, <1>6

\* A request that goes on with its event leaves the row alone.
LEMMA HandlerGoesOn ==
  ASSUME TypeOK, HandledOnce, NEW h \in Hooks, NEW pc, GoHook(h, pc),
         hook[h].pc \in Handling, UNCHANGED row
  PROVE  HandledOnce'
BY DEF HandledOnce, GoHook, TypeOK, HookState

LEMMA RecordOnce ==
  ASSUME TypeOK, HandledOnce, NEW h \in Hooks, HookRecord(h)
  PROVE  HandledOnce'
<1>1. hook[h].pc = "record" /\ hook[h].evt \in Events BY DEF HookRecord, TypeOK
<1>2. CASE row[hook[h].evt] = "absent"
  <2>1. PICK pc : GoHook(h, pc) BY <1>2 DEF HookRecord
  <2>2. \A g \in Hooks : /\ hook'[g].evt = hook[g].evt
                         /\ g # h => hook'[g] = hook[g]
    BY <2>1 DEF GoHook, TypeOK, HookState
  <2>3. row' = [row EXCEPT ![hook[h].evt] = "recorded"] BY <1>2 DEF HookRecord
  <2>4. \A g \in Hooks : hook[g].pc \in Handling =>
          hook[g].evt # hook[h].evt /\ hook[g].evt \in Events
    BY <1>2 DEF HandledOnce, TypeOK, Handling
  <2> QED BY <1>1, <2>2, <2>3, <2>4 DEF HandledOnce, TypeOK
<1>3. CASE row[hook[h].evt] # "absent"
  <2>1. DoneHook(h) /\ UNCHANGED row BY <1>3 DEF HookRecord
  <2>2. hook' = [hook EXCEPT ![h] = IdleHook] /\ IdleHook.pc \notin Handling
    BY <2>1 DEF DoneHook, Handling
  <2> QED BY <2>1, <2>2, HandlerLeaves
<1> QED BY <1>2, <1>3

LEMMA HandledStep == TypeOK /\ HandledOnce /\ [Next]_vars => HandledOnce'
<1> SUFFICES ASSUME TypeOK, HandledOnce, [Next]_vars PROVE HandledOnce' OBVIOUS
<1>1. CASE UNCHANGED <<hook, row>> BY <1>1 DEF HandledOnce
<1>2. ASSUME NEW p \in Payments, CreateStep(p) \/ CreateAbort(p) \/ LedgerEvent(p)
      PROVE UNCHANGED <<hook, row>>
  BY <1>2 DEF CreateStep, CreateSubmit, CreatePersist, CreateEnqueue, CreateAbort, LedgerEvent
<1>3. ASSUME NEW p \in Payments, RetryReconcile(p) \/ DemoReset(p) \/ WatchTake(p)
      PROVE UNCHANGED <<hook, row>>
  BY <1>3 DEF RetryReconcile, DemoReset, WatchTake
<1>4. ASSUME WatchStep \/ WatchAbort PROVE UNCHANGED <<hook, row>>
  BY <1>4 DEF WatchStep, WatchHit, WatchMiss, WatchLeg, WatchStatus, WatchEnqueue, WatchGiveUp,
              WatchAbort
<1>5. ASSUME NEW r \in Runners, \/ ReconcileStep(r) \/ ReconcileAbort(r)
                                \/ \E p \in Payments : ReconcileTake(r, p)
      PROVE UNCHANGED <<hook, row>>
  BY <1>5 DEF ReconcileTake, ReconcileStep, ReconcileFail, ReconcileSettle, ReceiptRead,
              ReceiptWrite, ReconcileAbort
<1>6. ASSUME NEW h \in Hooks, NEW e \in Events, Deliver(h, e) PROVE HandledOnce'
  <2>1. PICK r : hook' = [hook EXCEPT ![h] = r] /\ r.pc \notin Handling
    BY <1>6 DEF Deliver, Handling
  <2>2. UNCHANGED row BY <1>6 DEF Deliver
  <2> QED BY <2>1, <2>2, HandlerLeaves
<1>7. ASSUME NEW h \in Hooks, HookStep(h) \/ HookAbort(h) PROVE HandledOnce'
  <2> DEFINE out == hook' = [hook EXCEPT ![h] = IdleHook]
  <2>1. IdleHook.pc \notin Handling BY DEF Handling
  <2>2. CASE HookReject(h)
    <3>1. out BY <2>2 DEF HookReject, DoneHook
    <3>2. \A e \in Events : row'[e] # row[e] => e = hook[h].evt /\ row[e] # "recorded"
      BY <2>2 DEF HookReject, TypeOK
    <3> QED BY <2>1, <3>1, <3>2, HandlerLeaves
  <2>3. CASE HookRecord(h) BY <2>3, RecordOnce
  <2>4. CASE HookLookup(h)
    <3>1. UNCHANGED row /\ hook[h].pc \in Handling BY <2>4 DEF HookLookup, Handling
    <3> QED BY <2>4, <3>1, HandlerGoesOn DEF HookLookup
  <2>5. CASE HookOrphan(h)
    <3>1. out /\ hook[h].pc \in Handling BY <2>5 DEF HookOrphan, DoneHook, Handling
    <3>2. \A e \in Events : row'[e] # row[e] => e = hook[h].evt BY <2>5 DEF HookOrphan, TypeOK
    <3> QED BY <2>1, <3>1, <3>2, HandlerLeaves
  <2>6. CASE HookLeg(h)
    <3>1. UNCHANGED row /\ hook[h].pc \in Handling BY <2>6 DEF HookLeg, Handling
    <3> QED BY <2>6, <3>1, HandlerGoesOn DEF HookLeg
  <2>7. CASE HookFail(h)
    <3>1. UNCHANGED row /\ hook[h].pc \in Handling BY <2>7 DEF HookFail, Handling
    <3> QED BY <2>7, <3>1, HandlerGoesOn DEF HookFail
  <2>8. CASE HookMark(h)
    <3> DEFINE r == [hook[h] EXCEPT !.pc = "enqueue"]
    <3>1. hook' = [hook EXCEPT ![h] = r] /\ hook[h].pc \in Handling
      BY <2>8 DEF HookMark, GoHook, Handling
    <3>2. r.pc \notin Handling BY DEF TypeOK, HookState, Handling
    <3>3. \A e \in Events : row'[e] # row[e] => e = hook[h].evt BY <2>8 DEF HookMark, TypeOK
    <3> HIDE DEF r
    <3> QED BY <3>1, <3>2, <3>3, HandlerLeaves
  <2>9. CASE HookEnqueue(h) \/ HookAbort(h)
    <3>1. out /\ UNCHANGED row BY <2>9 DEF HookEnqueue, HookAbort, DoneHook
    <3> QED BY <2>1, <3>1, HandlerLeaves
  <2> QED BY <1>7, <2>2, <2>3, <2>4, <2>5, <2>6, <2>7, <2>8, <2>9 DEF HookStep
<1>8. CASE UNCHANGED vars BY <1>1, <1>8 DEF vars
<1>9. CASE Next
  <2>1. CASE WatchStep \/ WatchAbort BY <1>1, <1>4, <2>1
  <2>2. ASSUME NEW p \in Payments, \/ CreateStep(p) \/ CreateAbort(p) \/ LedgerEvent(p)
                                   \/ RetryReconcile(p) \/ DemoReset(p) \/ WatchTake(p)
        PROVE HandledOnce'
    BY <1>1, <1>2, <1>3, <2>2
  <2>3. ASSUME NEW r \in Runners, \/ ReconcileStep(r) \/ ReconcileAbort(r)
                                  \/ \E p \in Payments : ReconcileTake(r, p)
        PROVE HandledOnce'
    BY <1>1, <1>5, <2>3
  <2> QED BY <1>6, <1>7, <1>9, <2>1, <2>2, <2>3 DEF Next
<1> QED BY <1>1, <1>8, <1>9

\* Who writes a FIAT leg: the request that handles the event it writes.
LEMMA WhoWritesLeg ==
  ASSUME TypeOK, [Next]_vars, NEW p \in Payments, fiatLeg'[p] \notin {fiatLeg[p], None}
  PROVE  \E h \in Hooks : hook[h].pc = "leg" /\ fiatLeg'[p] = hook[h].evt
<1>1. CASE UNCHANGED fiatLeg BY <1>1
<1>2. ASSUME NEW q \in Payments, CreateStep(q) \/ CreateAbort(q) \/ LedgerEvent(q)
      PROVE UNCHANGED fiatLeg
  BY <1>2 DEF CreateStep, CreateSubmit, CreatePersist, CreateEnqueue, CreateAbort, LedgerEvent
<1>3. ASSUME NEW q \in Payments, RetryReconcile(q) \/ WatchTake(q) PROVE UNCHANGED fiatLeg
  BY <1>3 DEF RetryReconcile, WatchTake
<1>4. ASSUME NEW q \in Payments, DemoReset(q) PROVE FALSE BY <1>4 DEF DemoReset, TypeOK
<1>5. ASSUME WatchStep \/ WatchAbort PROVE UNCHANGED fiatLeg
  BY <1>5 DEF WatchStep, WatchHit, WatchMiss, WatchLeg, WatchStatus, WatchEnqueue, WatchGiveUp,
              WatchAbort
<1>6. ASSUME NEW r \in Runners, NEW q \in Payments,
             ReconcileTake(r, q) \/ ReconcileStep(r) \/ ReconcileAbort(r)
      PROVE UNCHANGED fiatLeg
  BY <1>6 DEF ReconcileTake, ReconcileStep, ReconcileFail, ReconcileSettle, ReceiptRead,
              ReceiptWrite, ReconcileAbort
<1>7. ASSUME NEW h \in Hooks, NEW e \in Events, Deliver(h, e) PROVE UNCHANGED fiatLeg
  BY <1>7 DEF Deliver
<1>8. ASSUME NEW h \in Hooks, HookStep(h) \/ HookAbort(h)
      PROVE  \E g \in Hooks : hook[g].pc = "leg" /\ fiatLeg'[p] = hook[g].evt
  <2>1. CASE HookLeg(h) BY <2>1 DEF HookLeg, TypeOK
  <2> QED BY <1>8, <2>1 DEF HookStep, HookReject, HookRecord, HookLookup, HookOrphan, HookFail,
                            HookMark, HookEnqueue, HookAbort
<1>9. CASE UNCHANGED vars BY <1>9 DEF vars
<1> QED BY <1>1, <1>2, <1>3, <1>4, <1>5, <1>6, <1>7, <1>8, <1>9 DEF Next

\* However often and concurrently an event is delivered, verified or not, only the one
\* request that inserted its row (webhooks/fiat/route.ts:83) ever writes it into a leg, and
\* only before the row is marked processed.
THEOREM ReplaysChangeNothing == Spec => ReplayNeverRewritesLeg
<1>1. Init => HandledOnce BY DEF Init, HandledOnce, Handling
<1>2. TypeOK /\ HandledOnce /\ [Next]_vars =>
        [\A p \in Payments :
           fiatLeg'[p] \notin {fiatLeg[p], None} =>
             /\ row[fiatLeg'[p]] = "recorded"
             /\ Cardinality({h \in Hooks : hook[h].evt = fiatLeg'[p]
                                           /\ hook[h].pc \in {"leg", "fail", "mark"}}) = 1]_vars
  <2> SUFFICES ASSUME TypeOK, HandledOnce, [Next]_vars, NEW p \in Payments,
                      fiatLeg'[p] \notin {fiatLeg[p], None}
               PROVE  /\ row[fiatLeg'[p]] = "recorded"
                      /\ Cardinality({h \in Hooks : hook[h].evt = fiatLeg'[p]
                                        /\ hook[h].pc \in {"leg", "fail", "mark"}}) = 1
    OBVIOUS
  <2>1. PICK h \in Hooks : hook[h].pc = "leg" /\ fiatLeg'[p] = hook[h].evt BY WhoWritesLeg
  <2>2. {g \in Hooks : hook[g].evt = fiatLeg'[p] /\ hook[g].pc \in {"leg", "fail", "mark"}} = {h}
    BY <2>1 DEF HandledOnce, Handling
  <2>3. row[fiatLeg'[p]] = "recorded" BY <2>1 DEF HandledOnce, Handling
  <2> QED BY <2>2, <2>3, FS_Singleton
<1> QED BY <1>1, <1>2, TypeCorrect, HandledStep, PTL DEF Spec, ReplayNeverRewritesLeg
=============================================================================
