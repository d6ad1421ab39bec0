---------------------- MODULE ReconciliationProperties ----------------------
(* What the reconciliation spine promises, and what it does not.           *)
EXTENDS Reconciliation

FiatKinds == EventKinds \ {"chain"}
Verified(e) == row[e] \in {"recorded", "processed"}

\* From 99 % to 101 % of what was quoted, the ends included; anything if
\* nothing was.
InBand(quoted, amount) == quoted > 0 => 100 * amount \in 99 * quoted .. 101 * quoted

\* The events that may settle, or fail, their payment once they are verified,
\* said without the matcher's own arithmetic.
Completions == {e \in Events : /\ e.kind = "payment.completed"
                               /\ e.currency = CorridorTo[e.payment]
                               /\ InBand(Quoted[e.payment], e.amount)}
Refusals    == {e \in Events : e.kind = "payment.failed"}

\* A verified payment.completed event of p that passes corridor and tolerance.
MatchingEvent(p) == \E e \in Completions : e.payment = p /\ Verified(e)

\* Both legs of p have been witnessed by a source the code trusts.
Evidenced(p) == onchainLeg[p] = "CONFIRMED" /\ MatchingEvent(p)

\* A verified payment.failed event of p.
FailureNotice(p) == \E e \in Refusals : e.payment = p /\ Verified(e)

\* e is a verified fiat event of p.
FiatEventOf(e, p) == e.payment = p /\ e.kind \in FiatKinds /\ Verified(e)

HookWorking(h, p) == hook[h].pc # "idle" /\ hook[h].evt.payment = p

-----------------------------------------------------------------------------
(* Types: the only property here that is about shape. *)

HookState == [pc : HookPc, evt : Events \cup {None}, found : BOOLEAN]
WatchState == [pc : WatchPc, payment : Payments \cup {None}]
RunnerState == [pc : RunnerPc, payment : Payments \cup {None}, fiat : Events \cup {None}]

TypeOK ==
  /\ status \in [Payments -> PaymentStatus]
  /\ onchainLeg \in [Payments -> {"NONE", "PENDING", "CONFIRMED"}]
  /\ fiatLeg \in [Payments -> Events \cup {None}]
  /\ receipt \in [Payments -> Events \cup {None}]
  /\ row \in [Events -> RowStatus]
  /\ watchJob \in [Payments -> JobStatus]
  /\ tries \in [Payments -> Nat]
  /\ jobs \in [Payments -> Nat]
  /\ creation \in [Payments -> {"idle", "submitted", "persisted", "done", "aborted"}]
  /\ hook \in [Hooks -> HookState]
  /\ \A h \in Hooks : hook[h].pc # "idle" => hook[h].evt \in Events
  /\ watcher \in WatchState
  /\ watcher.pc # "idle" => watcher.payment \in Payments
  /\ runner \in [Runners -> RunnerState]
  /\ \A r \in Runners : runner[r].pc # "idle" => runner[r].payment \in Payments
  /\ onLedger \in [Payments -> BOOLEAN]
  /\ sent \in [Events -> Nat]
  /\ used \in [faults : Nat, resets : Nat, retries : Nat]

-----------------------------------------------------------------------------
(* Safety.                                                                 *)

\* tryReconcile (matcher.ts) settles on rows it read earlier, while webhooks
\* and resets go on rewriting them.  A SETTLED payment always has a confirmed
\* ONCHAIN leg and a verified, matching payment.completed event behind it.
SettledOnEvidence ==
  \A p \in Payments : status[p] = "SETTLED" => Evidenced(p)

\* buildReceipt (receipt.ts) re-reads the legs after the settlement.  Whatever
\* it then finds, a receipt names a verified event of its own payment, and
\* that payment's settlement evidence exists.
ReceiptOnEvidence ==
  \A p \in Payments : receipt[p] # None => FiatEventOf(receipt[p], p) /\ Evidenced(p)

\* The unique (provider, externalId) row makes a redelivered or concurrent
\* delivery of an event a no-op: the FIAT leg is only ever rewritten by an
\* event that is recorded and not yet processed, and by one handler of it.
ReplayNeverRewritesLeg ==
  [][\A p \in Payments :
       fiatLeg'[p] \notin {fiatLeg[p], None} =>
         /\ row[fiatLeg'[p]] = "recorded"
         /\ Cardinality({h \in Hooks : hook[h].evt = fiatLeg'[p]
                                       /\ hook[h].pc \in {"leg", "fail", "mark"}}) = 1]_vars

\* A settled payment turns FAILED only when a verified payment.failed event of
\* it arrived: a watch job that gives up late never takes a settlement back.
\* (fiat/route.ts:125, matcher.ts:27; it holds because the queue's attempts
\* run out before MAX_WATCH_ATTEMPTS.)
SettledFailsOnlyOnFailedEvent ==
  [][\A p \in Payments :
       status[p] = "SETTLED" /\ status'[p] = "FAILED" => FailureNotice(p)]_vars

\* Someone is about to reconcile p, or about to ask for it.
WakeupPending(p) ==
  \/ jobs[p] > 0
  \/ \E h \in Hooks : HookWorking(h, p) /\ hook[h].pc \in {"fail", "mark", "enqueue"}
  \/ watcher.payment = p /\ watcher.pc \in {"status", "enqueue"}
  \/ \E r \in Runners : runner[r].payment = p /\ runner[r].pc \in {"settle", "fail"}

\* Whichever leg arrives last, somebody notices: while nothing has crashed, a
\* matched payment that is not terminal has a reconcile job, a handler on its
\* way to add one, or a runner that has already decided.
NoLostWakeup ==
  \A p \in Payments :
    used.faults = 0 /\ used.resets = 0 /\ Matched(p) /\ status[p] \notin Terminal
      => WakeupPending(p)

-----------------------------------------------------------------------------
(* Where everything a handler acts on comes from: what makes SettledOnEvidence *)
(* and ReceiptOnEvidence inductive.                                        *)

\* The rows of a payment are created together, and only then is it watched.
Creations ==
  /\ \A p \in Payments :
       /\ creation[p] \in {"idle", "submitted"} => status[p] = "NONE"
       /\ creation[p] \in {"persisted", "done"} => status[p] # "NONE"
       /\ status[p] = "NONE" => onchainLeg[p] = "NONE"
       /\ creation[p] # "done" => watchJob[p] = "none"
  /\ watcher.pc # "idle" => creation[watcher.payment] = "done"

\* Legs, and the handlers that write them, stand on recorded events.
Provenance ==
  /\ \A p \in Payments : fiatLeg[p] # None => FiatEventOf(fiatLeg[p], p)
  /\ \A h \in Hooks :
       /\ hook[h].pc \notin {"idle", "reject", "record"} => Verified(hook[h].evt)
       /\ hook[h].found => hook[h].pc # "idle" /\ status[hook[h].evt.payment] # "NONE"
       /\ hook[h].pc \in {"leg", "fail", "mark", "enqueue"}
            => status[hook[h].evt.payment] # "NONE"
       /\ hook[h].pc = "fail" => hook[h].evt.kind = "payment.failed"

\* What a runner has decided stays justified while it acts.
Decisions ==
  \A r \in Runners :
    LET p == runner[r].payment IN
    /\ runner[r].pc # "idle" => status[p] # "NONE"
    /\ runner[r].pc \in {"settle", "readReceipt", "writeReceipt"} => Evidenced(p)
    /\ runner[r].pc = "writeReceipt" => runner[r].fiat \in Events /\ FiatEventOf(runner[r].fiat, p)
    /\ runner[r].pc = "fail" => FailureNotice(p)

EvidenceInv == /\ TypeOK /\ Creations /\ Provenance /\ Decisions
               /\ SettledOnEvidence /\ ReceiptOnEvidence

\* A watch job is never run more often than the queue's attempts; with fewer
\* attempts than MAX_WATCH_ATTEMPTS processWatchOnchain never gives up.
WatchNeverGivesUp ==
  /\ watcher.pc # "giveUp"
  /\ \A p \in Payments : watchJob[p] \in {"none", "waiting", "active"} => tries[p] < QueueAttempts
  /\ watcher.pc # "idle" => watchJob[watcher.payment] = "active"

-----------------------------------------------------------------------------
(* The spine implements its contract.                                      *)

Outcome == [p \in Payments |-> CASE status[p] = "SETTLED" -> "settled"
                                 [] status[p] = "FAILED"  -> "failed"
                                 [] OTHER                 -> "open"]
OnChainSeen == {p \in Payments : onchainLeg[p] = "CONFIRMED"}
Paid        == {p \in Payments : MatchingEvent(p)}
Bounced     == {p \in Payments : FailureNotice(p)}
Receipted   == {p \in Payments : receipt[p] # None}

Contract == INSTANCE SettlementContract
              WITH outcome <- Outcome, onchain <- OnChainSeen, paid <- Paid,
                   bounced <- Bounced, receipts <- Receipted

\* Every interleaving of the handlers is a behaviour of SettlementContract:
\* evidence is never lost, only an open payment is settled, a failed one is
\* reopened first (by the watcher's unconditional update or a reset).
ImplementsContract == Contract!CSpec

-----------------------------------------------------------------------------
(* Liveness, under the fairness of Reconciliation.                         *)

\* A matched payment becomes terminal (or its FIAT leg is rewritten so that
\* it no longer matches), whichever of the two legs came first.
MatchedSettles ==
  \A p \in Payments : Matched(p) ~> status[p] \in Terminal \/ ~Matched(p)

\* A settlement is followed by its receipt.
SettledGetsReceipt ==
  \A p \in Payments : status[p] = "SETTLED" ~> receipt[p] # None

\* A verified delivery is not lost: when a request with a valid signature
\* has reached the idempotency check, its event ends up processed.
VerifiedDeliveryProcessed ==
  \A e \in Events :
    (\E h \in Hooks : hook[h].evt = e /\ hook[h].pc = "record") ~> row[e] = "processed"

\* Every watched payment ends with a confirmed ONCHAIN leg or as FAILED.
WatchConcludes ==
  \A p \in Payments :
    watchJob[p] = "waiting" ~> onchainLeg[p] = "CONFIRMED" \/ status[p] = "FAILED"
=============================================================================
