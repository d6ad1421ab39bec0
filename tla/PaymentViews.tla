---------------------------- MODULE PaymentViews ----------------------------
(***************************************************************************)
(* What the dashboard, the payments pages and the API read of a tenant's   *)
(* payments (lib/data/payments.ts, lib/payments/service.ts), as functions  *)
(* of the rows of Documents.  The filter by corridor works as the one by   *)
(* status does and is left out, as is the average time of settlement.      *)
(***************************************************************************)
EXTENDS Documents, Sequences

PAYMENT_STATUSES == {"DRAFT", "PENDING", "ONCHAIN_CONFIRMED", "RECONCILING", "SETTLED", "FAILED"}

\* The rows of a findMany, newest first; payments of one moment come in an order
\* of the database's that is the same for the same rows.
Latest(ledger, some) == CHOOSE p \in some : \A q \in some : ledger[p].day >= ledger[q].day

Newest(ledger, wanted) ==
  MapThenFoldSet(LAMBDA p, rows : <<p>> \o rows, << >>,
                 LAMBDA p : p, LAMBDA some : Latest(ledger, some), wanted)

\* (fault) The row read too many becomes the cursor, after which the next page begins.
PageAfterNext(rows, cursor, take) ==
  LET first == IF cursor = None THEN 1 ELSE 1 + CHOOSE k \in DOMAIN rows : rows[k] = cursor
      read  == SubSeq(rows, first, Min({Len(rows), first + take}))
      more  == Len(read) > take
  IN [items |-> IF more THEN SubSeq(read, 1, take) ELSE read,
      nextCursor |-> IF more THEN read[take + 1] ELSE None]

\* The page that begins after the cursor; one row more is read to see whether
\* there is another page.
Page(rows, cursor, take) ==
  LET first == IF cursor = None THEN 1 ELSE 1 + CHOOSE k \in DOMAIN rows : rows[k] = cursor
      read  == SubSeq(rows, first, Min({Len(rows), first + take}))
      more  == Len(read) > take
  IN [items |-> IF more THEN SubSeq(read, 1, take) ELSE read,
      nextCursor |-> IF more THEN read[take] ELSE None]

\* toSummary: a payment that is not SETTLED has no date of settlement.
Summary(p) == [status |-> p.status, asset |-> p.asset, source |-> p.source,
               target |-> p.target, settled |-> p.status = "SETTLED"]

Wanted(ledger, q) ==
  IF q.status = None THEN DOMAIN ledger ELSE HasStatus(ledger, q.status)

\* The payments page.
ListPayments(ledger, q) == Page(Newest(ledger, Wanted(ledger, q)), q.cursor, Min({Or(q.limit, 20), 50}))

\* GET /api/payments: its schema clamps the limit and refuses other statuses.
ListPaymentsQuery(q) ==
  IF q.status \notin PAYMENT_STATUSES \cup {None} \/ Or(q.limit, 20) < 1 THEN [error |-> 422]
  ELSE [q EXCEPT !.limit = Min({Or(q.limit, 20), 100})]

ListPaymentsApi(ledger, q) ==
  LET query == ListPaymentsQuery(q) IN
  IF "error" \in DOMAIN query THEN query
  ELSE Page(Newest(ledger, Wanted(ledger, query)), query.cursor, query.limit)

\* What the details of a payment show, on the page and from the API alike.
LegView(p) ==
  [ONCHAIN |-> IF p.onchain = None THEN None ELSE p.onchain,
   FIAT    |-> IF p.fiat = None THEN None ELSE p.fiat]

PaymentDetail(p) ==
  [status |-> p.status, asset |-> p.asset, source |-> p.source, target |-> p.target,
   quote |-> p.quote, legs |-> LegView(p), hasReceipt |-> p.receipt # None]

\* A payment that is not the tenant's is a 404.
GetPaymentById(ledger, p) ==
  IF p \notin DOMAIN ledger THEN [error |-> 404]
  ELSE With(PaymentDetail(ledger[p]), "receipt", ledger[p].receipt)

\* The dashboard.  Its volume adds up all source assets; what the yield feature
\* has swept is not pending.
DashboardKpis(ledger) ==
  [volume  |-> SumFunction([p \in HasStatus(ledger, "SETTLED") |-> ledger[p].source]),
   pending |-> Cardinality(UNION {HasStatus(ledger, s) :
                                    s \in {"PENDING", "RECONCILING", "ONCHAIN_CONFIRMED"}}),
   recent  |-> Page(Newest(ledger, DOMAIN ledger), None, 8).items]

\* The badge of a status.
ToBadgeState(s) ==
  CASE s = "ONCHAIN_CONFIRMED" -> "VERIFIED"
    [] s \in {"RECONCILING", "SETTLED", "FAILED"} -> s
    [] OTHER -> "PENDING"
=============================================================================
