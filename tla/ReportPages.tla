---------------------------- MODULE ReportPages -----------------------------
(***************************************************************************)
(* The pages that show what ReportFiles prints: the statement and the FX   *)
(* summary (app/(app)/reports), which only an ADMIN sees, and the page of  *)
(* a payment with its legs and its receipt, as it is loaded and as it is   *)
(* kept up to date by polling.  Layout, dates and wording are left out.    *)
(***************************************************************************)
EXTENDS ReportFiles, PaymentViews

NotFound == [error |-> 404]
Locked   == [error |-> "locked"]

\* toDateInput of both ends of the period: what the page's links ask for.
LinkOf(q, range) == [from |-> range.from, to |-> range.to, month |-> q.month]

\* A row of cards has room for the first totals only; they are sorted by name.
FirstCards(totals, room) ==
  Restrict(totals, CHOOSE names \in SUBSET DOMAIN totals :
                     Cardinality(names) = Min({room, Cardinality(DOMAIN totals)}))

ReportsPage(role, ledger, q) ==
  LET range == ParseDateRange(q.from, q.to, q.month)
      s     == Statement(Within(ledger, range))
  IN IF role # "ADMIN" THEN NotFound
     ELSE [link  |-> LinkOf(q, range),
           cards |-> [settled |-> Cardinality(DOMAIN s.settled),
                      exceptions |-> Cardinality(s.exceptions),
                      paidOut |-> FirstCards(s.paidOut, 2)],
           rows  |-> [p \in DOMAIN s.settled |->
                        LET r == s.settled[p] IN
                        [source |-> Money(r.sourceAmount, r.sourceAsset),
                         target |-> Money(r.targetAmount, r.targetCurrency),
                         txHash |-> r.txHash]],
           exceptions |-> s.exceptions]

\* The tone a gain or a loss is printed in.
GainTone(v) == IF v = 0 THEN "none" ELSE IF v > 0 THEN "gain" ELSE "loss"

FxPage(role, ledger, q) ==
  LET range == ParseDateRange(q.from, q.to, q.month)
      fx    == FxSummary(Within(ledger, range))
      gain(c) == Money(fx.aggregates[c].gainLoss, c[2])
  IN IF role # "ADMIN" THEN NotFound
     ELSE [link  |-> LinkOf(q, range),
           cards |-> [payments |-> Cardinality(DOMAIN fx.rows),
                      gains |-> FirstCards([c \in DOMAIN fx.aggregates |-> gain(c)], 3)],
           aggregates |-> [c \in DOMAIN fx.aggregates |->
                             [realized |-> Money(fx.aggregates[c].realized, c[2]),
                              gainLoss |-> gain(c),
                              tone |-> GainTone(fx.aggregates[c].gainLoss)]],
           rows |-> [p \in DOMAIN fx.rows |->
                       LET r == fx.rows[p] IN
                       [source |-> Money(r.sourceAmount, r.sourceAsset),
                        realized |-> Money(r.realized, r.targetCurrency),
                        gainLoss |-> r.gainLoss, tone |-> GainTone(r.gainLoss)]]]

-----------------------------------------------------------------------------
(* The page of a payment. *)

\* GET /api/payments/:id/receipt
ReceiptApi(ledger, p) ==
  IF p \notin DOMAIN ledger \/ ledger[p].receipt = None THEN NotFound ELSE ledger[p].receipt

\* The receipt as a panel.  One without amounts cannot be rendered.
ReceiptPanel(r) ==
  IF r.targetAmount = None THEN [error |-> "throws"]
  ELSE [received |-> Money(r.targetAmount, r.targetCurrency),
        paid |-> Money(r.sourceAmount, r.sourceAsset), txHash |-> r.txHash,
        bankRef |-> r.bankRef]

\* The state of the page's PaymentLifecycle when it is loaded.
Lifecycle(p) ==
  [matched |-> p.status = "SETTLED", polling |-> FALSE, failed |-> FALSE,
   fiatRef |-> LegRef(p), receipt |-> p.receipt]

\* triggerPayout, accepted by the mock anchor: the page begins to poll.
TriggerPayout(view) == IF view.matched THEN view ELSE [view EXCEPT !.polling = TRUE, !.failed = FALSE]

\* A poll's answer: a new bank reference, the end of the polling, and the receipt
\* if there already is one.
Polled(view, p) ==
  LET seen == [view EXCEPT !.fiatRef = Or(LegRef(p), @)] IN
  CASE ~view.polling -> view
    [] view.polling /\ p.status = "FAILED" -> [seen EXCEPT !.polling = FALSE, !.failed = TRUE]
    [] view.polling /\ p.status = "SETTLED" ->
         [seen EXCEPT !.polling = FALSE, !.matched = TRUE, !.receipt = Or(p.receipt, @)]
    [] OTHER -> seen

\* ReconciliationRow: both legs change their badges together.
LegBadges(view) ==
  [ONCHAIN |-> IF view.matched THEN "VERIFIED" ELSE "PENDING",
   FIAT    |-> IF view.matched THEN "SETTLED" ELSE "PENDING",
   working |-> view.polling /\ ~view.matched]

Screen(view) ==
  [badges |-> LegBadges(view), fiatRef |-> view.fiatRef, failed |-> view.failed,
   panel |-> IF view.matched /\ view.receipt # None THEN ReceiptPanel(view.receipt) ELSE Locked]

PaymentPage(ledger, p) ==
  IF p \notin DOMAIN ledger THEN NotFound
  ELSE [retry  |-> ledger[p].status = "FAILED",
        links  |-> IF ledger[p].status = "SETTLED" THEN {"pdf", "json", "share"} ELSE {},
        screen |-> Screen(Lifecycle(ledger[p]))]
=============================================================================
